------------------------------ MODULE MyDnsConf ------------------------------
(***************************************************************************)
(* /etc/mydns/mydns.conf as the programs of contrib/ read its database     *)
(* host keys.  A value is abstracted to the shape of its text after        *)
(* line.strip() and the cut at '#', which every reader does alike:         *)
(*                                                                         *)
(*     [quote] ['['] host [']'] [':' port] [quote]                         *)
(*                                                                         *)
(* where host is a name (no ':') or an IPv6 literal (two or more ':'),     *)
(* and port is absent (NoPort), empty (EmptyPort: a ':' and nothing      *)
(* after), not an integer (BadPort) or a number.  parse_simple_config     *)
(* strips the quotes; parse_host_entry turns the rest into a (host, port) *)
(* endpoint.                                                               *)
(***************************************************************************)
EXTENDS Naturals, Sequences

CONSTANTS
    Names,         \* host names: no ':' in them
    V6Literals,    \* IPv6 literals: two or more ':' in them
    PortNums,      \* ports other than 3306 an entry may name
    Localhost,     \* the name localhost, in Names
    Absent,        \* the key is not in the file
    EmptyValue,    \* the key is there with nothing after '='
    Unresolvable,  \* a host text that names no server
    NoPort, EmptyPort, BadPort

DefaultPort == 3306

PortTexts == {NoPort, EmptyPort, BadPort, DefaultPort} \cup PortNums

Entry == [host : Names \cup V6Literals, port : PortTexts,
          brackets : BOOLEAN, quoted : BOOLEAN]

\* The host keys load_db_config reads, in order (HOST_KEYS).
HOST_KEYS == <<"db-host", "db-host2", "db-host3", "db-host4">>

HostKeys == {HOST_KEYS[i] : i \in 1..Len(HOST_KEYS)}

ConfKeys == HostKeys \cup {"mysql-host"}

Endpoint == (Names \cup V6Literals \cup {Unresolvable}) \X ({DefaultPort} \cup PortNums)

\* `if val:` -- a key that is absent or empty is skipped.
Truthy(v) == v \notin {Absent, EmptyValue}

\* parse_simple_config: value.strip().strip('"').strip("'").
Unquote(v) == IF Truthy(v) THEN [v EXCEPT !.quoted = FALSE] ELSE v

\* int(port_text); on ValueError the port stays 3306.
IntPort(p) == IF p \in {DefaultPort} \cup PortNums THEN p ELSE DefaultPort

\* parse_host_entry of an unquoted entry.  "[h]:p" gives (h, p).  Without
\* brackets, a text with exactly one ':' is "host:port".  Any other text is
\* the host itself with port 3306: a bare name or IPv6 literal, or an IPv6
\* literal followed by ':port', which names no server.
parse_host_entry(e) ==
    CASE e.brackets -> <<e.host, IntPort(e.port)>>
      [] e.host \in Names /\ e.port # NoPort -> <<e.host, IntPort(e.port)>>
      [] e.port = NoPort -> <<e.host, DefaultPort>>
      [] OTHER -> <<Unresolvable, DefaultPort>>

\* The truthy host key values of a config, in HOST_KEYS order, unquoted.
HostValues(conf) ==
    SelectSeq([i \in 1..Len(HOST_KEYS) |-> Unquote(conf[HOST_KEYS[i]])], Truthy)

\* load_db_config: the endpoints of the host keys; if there are none, the
\* legacy mysql-host (db-host is not truthy then); if that is missing too,
\* localhost:3306.
load_db_hosts(conf) ==
    LET vals == HostValues(conf)
        legacy == Unquote(conf["mysql-host"])
    IN  CASE vals # <<>> -> [i \in 1..Len(vals) |-> parse_host_entry(vals[i])]
          [] Truthy(legacy) -> <<parse_host_entry(legacy)>>
          [] OTHER -> << <<Localhost, DefaultPort>> >>
=============================================================================

----------------------------- MODULE MonitorCheck -----------------------------
(***************************************************************************)
(* contrib/check_mydns.py, the NRPE/Icinga check: parse_config reads       *)
(* mydns.conf without stripping quotes, main pings db-host (default        *)
(* localhost) and db-host2..db-host4 with mysqladmin, then checks the      *)
(* mydns process with pgrep and, when --query-name is given, queries the   *)
(* daemon with dig; the exit status is the worst of the results.           *)
(* mysqladmin is given the value's text as --host and no port, so it       *)
(* reaches <<text, 3306>> when the text is a bare name or IPv6 literal,    *)
(* and no server otherwise.  Whether shutil.which finds mysqladmin,       *)
(* whether pgrep finds the daemon and whether dig gets an answer are the   *)
(* environment's choice at each call; whether --query-name was given is   *)
(* an input read only at the query step, so it is chosen there.            *)
(***************************************************************************)
EXTENDS MyDnsConf

CONSTANTS
    Confs,     \* the mydns.conf contents a host may have
    Servers    \* the endpoints a MySQL server listens on

EXIT_OK == 0
EXIT_WARNING == 1
EXIT_CRITICAL == 2

VARIABLES
    conf,        \* mydns.conf
    up,          \* the servers that accept connections
    mpc,         \* where main is
    mi,          \* index of the next db host to ping
    failed,      \* db_failures is not empty
    status       \* the exit status so far

checkVars == <<mpc, mi, failed, status>>
vars == <<conf, up, checkVars>>

\* localhost, the default of cfg.get("db-host", "localhost").
LocalhostText == [host |-> Localhost, port |-> NoPort,
                  brackets |-> FALSE, quoted |-> FALSE]

\* A variant of db_hosts (a fault: db-host4 is not listed).
db_hosts_three(c) ==
    SelectSeq(<<IF c["db-host"] = Absent THEN LocalhostText ELSE c["db-host"],
                c["db-host2"], c["db-host3"]>>, Truthy)

\* main: db_hosts, the raw values (quotes kept), empty ones dropped.
db_hosts(c) ==
    SelectSeq(<<IF c["db-host"] = Absent THEN LocalhostText ELSE c["db-host"],
                c["db-host2"], c["db-host3"], c["db-host4"]>>, Truthy)

\* The endpoint `mysqladmin --host <text> ping` reaches.
PingTarget(e) ==
    IF ~e.quoted /\ ~e.brackets /\ e.port = NoPort
    THEN <<e.host, DefaultPort>> ELSE <<Unresolvable, DefaultPort>>

\* mysqladmin_ping: False when the tool is missing or the server refuses.
mysqladmin_ping(found, e) == found /\ PingTarget(e) \in up

TypeOK ==
    /\ conf \in Confs
    /\ up \subseteq Servers
    /\ mpc \in {"start", "ping", "process", "query", "done"}
    /\ mi \in 0..5
    /\ failed \in BOOLEAN
    /\ status \in {EXIT_OK, EXIT_WARNING, EXIT_CRITICAL}

Init ==
    /\ conf \in Confs
    /\ up \in SUBSET Servers
    /\ mpc = "start" /\ mi = 0 /\ failed = FALSE
    /\ status = EXIT_OK

\* parse_config and the db_hosts list; with no host, WARNING.
check_start ==
    /\ mpc = "start"
    /\ IF db_hosts(conf) = <<>>
       THEN /\ status' = EXIT_WARNING
            /\ mpc' = "process"
            /\ UNCHANGED mi
       ELSE /\ mpc' = "ping"
            /\ mi' = 1
            /\ UNCHANGED status
    /\ UNCHANGED <<conf, up, failed>>

\* One mysqladmin ping; after the last host, CRITICAL if any failed.
ping_host ==
    /\ mpc = "ping"
    /\ \E found \in BOOLEAN :
         failed' = (failed \/ ~mysqladmin_ping(found, db_hosts(conf)[mi]))
    /\ IF mi = Len(db_hosts(conf))
       THEN /\ mpc' = "process"
            /\ status' = IF failed' THEN EXIT_CRITICAL ELSE status
       ELSE UNCHANGED <<mpc, status>>
    /\ mi' = mi + 1
    /\ UNCHANGED <<conf, up>>

\* check_mydns_process: pgrep -x mydns finds it, or not (or pgrep is missing).
check_process ==
    /\ mpc = "process"
    /\ \E running \in BOOLEAN :
         status' = IF running THEN status ELSE EXIT_CRITICAL
    /\ mpc' = "query"
    /\ UNCHANGED <<conf, up, mi, failed>>

\* --query-name given; dig_query: an answer, or a failure (dig missing, non-zero exit, timeout).
dig_query ==
    /\ mpc = "query"
    /\ \E answered \in BOOLEAN :
         status' = IF answered THEN status ELSE EXIT_CRITICAL
    /\ mpc' = "done"
    /\ UNCHANGED <<conf, up, mi, failed>>

\* No --query-name: "Query: skipped".
query_skipped ==
    /\ mpc = "query"
    /\ mpc' = "done"
    /\ UNCHANGED <<conf, up, mi, failed, status>>

\* print and sys.exit(status).
Exited ==
    /\ mpc = "done"
    /\ UNCHANGED vars

Next == check_start \/ ping_host \/ check_process \/ dig_query
        \/ query_skipped \/ Exited

Spec == Init /\ [][Next]_vars /\ WF_vars(Next)
=============================================================================

-------------------------- MODULE MC_HostSelector --------------------------
(* DbHealth for TLC: names h1, h2 and localhost, one IPv6 literal, port    *)
(* 3307, and mydns.conf contents that take every branch of               *)
(* parse_host_entry, load_db_config's fallbacks, each policy group and     *)
(* check_mydns's host list.                                                *)
EXTENDS DbHealth, TLC

CONSTANTS h1, h2, localhost, v6

E(h, p, b, q) == [host |-> h, port |-> p, brackets |-> b, quoted |-> q]
Plain(h) == E(h, NoPort, FALSE, FALSE)

Conf(dh, dh2, dh3, dh4, mh, pol) ==
    ("db-host" :> dh) @@ ("db-host2" :> dh2) @@ ("db-host3" :> dh3)
    @@ ("db-host4" :> dh4) @@ ("mysql-host" :> mh) @@ ("db-host-policy" :> pol)

\* A db-host-policy value: its word, upper-case or not, padded or not.
P(w, u, b) == [word |-> w, upper |-> u, padded |-> b]
W(w) == P(w, FALSE, FALSE)

ThreeHosts(pol) == Conf(Plain(h1), Plain(h2), Plain(v6), Absent, Absent, pol)

MCConfs ==
    {ThreeHosts(p) : p \in {W("rr"), P("least-used", TRUE, TRUE), W("weighted"),
                           Absent}}
    \cup
    { \* a port, a bracketed IPv6 literal with a port, a bad port
      Conf(E(h1, 3307, FALSE, FALSE), E(v6, 3307, TRUE, FALSE), Absent,
           E(h2, BadPort, FALSE, FALSE), Absent, W("round-robin")),
      \* quotes, an empty port, an IPv6 literal with a port and no brackets,
      \* brackets without a port
      Conf(E(h1, NoPort, FALSE, TRUE), E(h2, EmptyPort, FALSE, FALSE),
           E(v6, 3307, FALSE, FALSE), E(v6, NoPort, TRUE, FALSE), Absent,
           W("least")),
      \* db-host missing, so the check adds localhost; mysql-host is ignored
      Conf(Absent, Absent, Absent, Plain(h2), Plain(h1), W("sequential")),
      \* only the legacy key
      Conf(Absent, Absent, Absent, Absent, Plain(h1), Absent),
      \* db-host empty: localhost for the sync, no host for the check
      Conf(EmptyValue, Absent, Absent, Absent, Absent, Absent),
      \* nothing: localhost for both
      Conf(Absent, Absent, Absent, Absent, Absent, W("rr"))}

MCServers == {<<localhost, 3306>>, <<h1, 3306>>, <<h1, 3307>>,
              <<h2, 3306>>, <<v6, 3306>>}
=============================================================================

---------------------------- MODULE HostSelector ----------------------------
(***************************************************************************)
(* DatabaseConnectionManager of contrib/sync_cloudflare_records.py:        *)
(* load_db_config reads the host list and db-host-policy from mydns.conf   *)
(* (MyDnsConf), ordered_hosts orders the candidates by policy, and connect *)
(* tries them in that order, logging each refusal, until one accepts;      *)
(* after the last it raises ConfigError ("Unable to connect to any DB      *)
(* host").  round-robin's random start and least-used's random.shuffle are *)
(* nondeterministic choices over every value they can produce.             *)
(***************************************************************************)
EXTENDS MyDnsConf, FiniteSets, TLC

CONSTANTS
    Confs,        \* the mydns.conf contents a host may have
    Servers,      \* the endpoints a MySQL server listens on
    Exhausted,
    Pending

VARIABLES
    conf,    \* mydns.conf
    up,      \* the servers that accept connections during this connect
    policy,  \* the normalised db-host-policy
    order,   \* the order connect tries the candidates in
    next,    \* index in order of the next attempt
    result   \* Pending, the connected endpoint, or Exhausted

\* DatabaseConfig.hosts
Hosts == load_db_hosts(conf)

Candidates == {Hosts[k] : k \in 1..Len(Hosts)}

VALID_POLICIES == {"sequential", "round-robin", "roundrobin", "rr",
                   "least-used", "least_used", "least"}

\* A variant of normalise_policy (a fault: the policy is used unchecked).
normalise_policy_unchecked(p) == p

\* load_db_config: an unknown policy falls back to sequential.
normalise_policy(p) == IF p \in VALID_POLICIES THEN p ELSE "sequential"

\* A db-host-policy value as read from mydns.conf: a policy word, written
\* in any case (upper) and, inside quotes, with blanks around it (padded).
\* .strip().lower() keeps the word.
StripLower(v) == v.word

\* raw.get("db-host-policy", "sequential").strip().lower()
RawPolicy(c) == IF c["db-host-policy"] = Absent THEN "sequential"
                ELSE StripLower(c["db-host-policy"])

\* A variant of Rotate (a fault: hosts[start:] + hosts[:start - 1] loses
\* the host just before the start).
RotateDropOne(hs, start) ==
    SubSeq(hs, start + 1, Len(hs)) \o SubSeq(hs, 1, start - 1)

\* hosts[start:] + hosts[:start]
Rotate(hs, start) == SubSeq(hs, start + 1, Len(hs)) \o SubSeq(hs, 1, start)

\* ordered_hosts: every order the policy can produce for the candidates.
ordered_hosts ==
    CASE policy \in {"round-robin", "roundrobin", "rr"} ->
            {Rotate(Hosts, s) : s \in 0..Len(Hosts) - 1}
      [] policy \in {"least-used", "least_used", "least"} ->
            {[k \in 1..Len(Hosts) |-> Hosts[p[k]]] :
                p \in Permutations(1..Len(Hosts))}
      [] OTHER -> {Hosts}

vars == <<conf, up, policy, order, next, result>>

TypeOK ==
    /\ conf \in Confs
    /\ up \subseteq Servers
    /\ policy \in VALID_POLICIES
    /\ order \in Seq(Candidates)
    /\ next \in 0..Len(Hosts) + 1
    /\ result \in Candidates \cup {Exhausted, Pending}

Init ==
    /\ conf \in Confs
    /\ up \in SUBSET Servers
    /\ policy = normalise_policy(RawPolicy(conf))
    /\ order = <<>> /\ next = 0
    /\ result = Pending

\* connect: `for host, port in self.ordered_hosts()`.
start_connect ==
    /\ next = 0
    /\ order' \in ordered_hosts
    /\ next' = 1
    /\ UNCHANGED <<conf, up, policy, result>>

\* pymysql.connect to the next candidate succeeds: connect returns it.
attempt_accepted ==
    /\ next \in 1..Len(order) /\ result = Pending
    /\ order[next] \in up
    /\ result' = order[next]
    /\ UNCHANGED <<conf, up, policy, order, next>>

\* pymysql.connect raises: logged, kept as last_error, next candidate.
attempt_refused ==
    /\ next \in 1..Len(order) /\ result = Pending
    /\ order[next] \notin up
    /\ next' = next + 1
    /\ UNCHANGED <<conf, up, policy, order, result>>

\* Every candidate refused: raise ConfigError.
exhausted ==
    /\ next = Len(order) + 1 /\ result = Pending
    /\ result' = Exhausted
    /\ UNCHANGED <<conf, up, policy, order, next>>

\* connect has returned or raised; the model stops here.
Done ==
    /\ result # Pending
    /\ UNCHANGED vars

Next == start_connect \/ attempt_accepted \/ attempt_refused \/ exhausted
        \/ Done

\* connect is a plain loop: it keeps stepping until it returns or raises.
Spec == Init /\ [][Next]_vars /\ WF_vars(Next)

-----------------------------------------------------------------------------
Abstract == INSTANCE DbConnect WITH Endpoints <- Servers,
                                    up <- up \cap Candidates

\* connect implements the Host Selector contract for every policy and every
\* set of reachable hosts: it ends connected to a host that accepts
\* connections, and raises only when no candidate does.
ConnectImplementsContract == Abstract!Spec
=============================================================================

------------------------------- MODULE DbHealth -------------------------------
(***************************************************************************)
(* Two readers of one mydns.conf on one host: the sync's connect           *)
(* (HostSelector, through load_db_config) and the monitoring check         *)
(* (MonitorCheck, check_mydns.py).  They share the file and which database *)
(* servers accept connections; each runs its own steps.                    *)
(***************************************************************************)
EXTENDS MyDnsConf

CONSTANTS Confs, Servers, Exhausted, Pending

VARIABLES
    conf, up,                                   \* shared
    policy, order, next, result,                \* the connect
    mpc, mi, failed, status                     \* the check

Sel == INSTANCE HostSelector
Mon == INSTANCE MonitorCheck

selVars == <<policy, order, next, result>>
checkVars == <<mpc, mi, failed, status>>
vars == <<conf, up, selVars, checkVars>>

Init == Sel!Init /\ Mon!Init

\* A step of the connect leaves the check alone, and the other way round.
ConnectStep ==
    \/ Sel!start_connect /\ UNCHANGED checkVars
    \/ Sel!attempt_accepted /\ UNCHANGED checkVars
    \/ Sel!attempt_refused /\ UNCHANGED checkVars
    \/ Sel!exhausted /\ UNCHANGED checkVars
    \/ Sel!Done /\ UNCHANGED checkVars

CheckStep ==
    \/ Mon!check_start /\ UNCHANGED selVars
    \/ Mon!ping_host /\ UNCHANGED selVars
    \/ Mon!check_process /\ UNCHANGED selVars
    \/ Mon!dig_query /\ UNCHANGED selVars
    \/ Mon!query_skipped /\ UNCHANGED selVars
    \/ Mon!Exited /\ UNCHANGED selVars

Next == ConnectStep \/ CheckStep

\* Both are plain sequential programs: each keeps stepping until it ends.
Spec == Init /\ [][Next]_vars /\ WF_vars(ConnectStep) /\ WF_vars(CheckStep)

TypeOK == Sel!TypeOK /\ Mon!TypeOK

\* connect implements the Host Selector contract for every config, policy
\* and set of reachable servers.
ConnectImplementsContract == Sel!ConnectImplementsContract

\* check_mydns says it verifies that the db-host entries of mydns.conf are
\* reachable.  Against the sync: when the check ends, every db-host..db-host4
\* value whose endpoint as load_db_config reads it (quotes stripped,
\* parse_host_entry) refuses connections has made the check CRITICAL --
\* whatever quotes, brackets and ports the values carry and whichever keys
\* are missing, although the check pings the raw text without a port.
DbHostOutageAlerts ==
    mpc = "done" =>
        \A i \in 1..Len(HostValues(conf)) :
            parse_host_entry(HostValues(conf)[i]) \notin up =>
                status = Mon!EXIT_CRITICAL
=============================================================================

---------------------------- MODULE AccountRegistry ----------------------------
(***************************************************************************)
(* What the account database promises its callers: accounts get IDs in     *)
(* order, and keep them and their hosts for good; an account never has     *)
(* more than so many hosts.  It promises so while its record is intact,    *)
(* and the record is only lost while requests share a database handle.     *)
(***************************************************************************)
EXTENDS Naturals, FiniteSets

CONSTANTS Hosts, LowestASID, MaxHosts

VARIABLES
    next,     \* the next ID
    hosts,    \* the hosts of every account there is
    intact,   \* nothing was lost
    shared    \* some requests share a handle

vars == <<next, hosts, intact, shared>>

Init ==
    /\ next = LowestASID
    /\ hosts = [id \in {} |-> {}]
    /\ intact = TRUE
    /\ shared = FALSE

SignUp ==
    /\ intact
    /\ next' = next + 1
    /\ hosts' = [id \in DOMAIN hosts \cup {next} |->
                    IF id = next THEN {} ELSE hosts[id]]
    /\ UNCHANGED <<intact, shared>>

Authorize(id, host) ==
    /\ intact
    /\ host \notin hosts[id]
    /\ Cardinality(hosts[id]) < MaxHosts
    /\ hosts' = [hosts EXCEPT ![id] = @ \cup {host}]
    /\ UNCHANGED <<next, intact, shared>>

(* Requests begin or cease to share a handle.                              *)
Share ==
    /\ shared' = ~shared
    /\ UNCHANGED <<next, hosts, intact>>

(* A write replaces what it was not computed from.                         *)
Lose ==
    /\ intact /\ shared
    /\ intact' = FALSE
    /\ UNCHANGED shared

(* What was lost once is not promised any more.                            *)
Lost == ~intact /\ ~intact'

Next ==
    \/ SignUp
    \/ \E id \in DOMAIN hosts, host \in Hosts : Authorize(id, host)
    \/ Share
    \/ Lose
    \/ Lost

Spec == Init /\ [][Next]_vars
===============================================================================

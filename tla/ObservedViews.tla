----------------------------- MODULE ObservedViews -----------------------------
(***************************************************************************)
(* What the diff server promises a client, without requests, commits,      *)
(* checksums or patches: the client's copy is the view the data layer had  *)
(* at some moment, that moment only moves forward, and the copy never      *)
(* mixes two moments.                                                      *)
(***************************************************************************)
EXTENDS Naturals, Sequences

CONSTANTS
    Clients,
    Views,      \* what the data layer can show a client
    EmptyView,  \* what a client holds at first
    LMIDs       \* the lastMutationIDs there are

VARIABLES
    layer,  \* per client, the states of the data layer, oldest first
    copy,   \* per client, the view and lastMutationID it holds
    seen    \* per client, the index in layer of what it holds; 0 is nothing

vars == <<layer, copy, seen>>

Moment == [lmid : LMIDs, view : Views]

Init ==
    /\ layer \in [Clients -> {<<[lmid |-> 0, view |-> v]>> : v \in Views}]
    /\ copy = [c \in Clients |-> [lmid |-> 0, view |-> EmptyView]]
    /\ seen = [c \in Clients |-> 0]

(* The data layer moves on; it never forgets a mutation it processed.      *)
MoveOn(c) ==
    /\ \E m \in Moment :
          /\ m.lmid >= layer[c][Len(layer[c])].lmid
          /\ layer' = [layer EXCEPT ![c] = Append(@, m)]
    /\ UNCHANGED <<copy, seen>>

(* The client's copy becomes a later view, whole.                          *)
Observe(c) ==
    /\ \E t \in (seen[c] + 1)..Len(layer[c]) :
          /\ seen' = [seen EXCEPT ![c] = t]
          /\ copy' = [copy EXCEPT ![c] = layer[c][t]]
    /\ UNCHANGED layer

Next == \E c \in Clients : MoveOn(c) \/ Observe(c)

Spec == Init /\ [][Next]_vars
===============================================================================

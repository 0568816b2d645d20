---------------------------- MODULE DiffServerProps ----------------------------
(***************************************************************************)
(* What the pull protocol promises, stated over DiffServer.                *)
(***************************************************************************)
EXTENDS DiffServer

(* The client's copy is the commit its state ID names: whatever was lost,  *)
(* retried or overtaken, a patch was applied to the very data it was       *)
(* computed from (db.Diff, pull).  A client that damaged its own data is   *)
(* exempt until its next answer that is not a nop.                         *)
ClientLMIDMatches == \A c \in Clients : client[c].lmid = LMIDOf(client[c].state)
ClientDataMatches ==
    \A c \in Clients : ~dirty[c] => client[c].data = DataOf(client[c].state)

ClientConsistent == ClientLMIDMatches /\ ClientDataMatches

(* What ClientDataMatches needs: no client damages its data, or the        *)
(* checksum tells the views of a client apart.  CRC32 does not always, so  *)
(* whatever depends on it says so.                                         *)
NoCollisions == \A v, w \in Views : ChecksumOf(v) = ChecksumOf(w) => v = w
DamageIsSeen == NoCollisions \/ "corrupt" \notin Faults

(* The inductive form of ClientConsistent: what holds of the requests and  *)
(* answers in flight, whatever their interleaving.                         *)
OnlyCorruptDamages == "corrupt" \notin Faults => \A c \in Clients : ~dirty[c]

KindsMatch == \A r \in Requests :
    pc[r] \in {"fetched", "stored", "replied"} => req[r].kind = "pull"

RequestsMatch == \A r \in Requests :
    pc[r] # "idle" => req[r].lmid = LMIDOf(req[r].base)

SumsMatch == \A r \in Requests :
    (pc[r] # "idle" /\ req[r].kind = "pull" /\ req[r].base = client[req[r].client].state)
        => \/ req[r].sum = ChecksumOf(client[req[r].client].data)
           \/ client[req[r].client].data = DataOf(req[r].base)

ReplyMatches(p, q) ==
    /\ p.lmid = LMIDOf(p.state)
    /\ p.lmid >= q.lmid
    /\ \/ p.nop /\ p.state = q.base /\ p.patch = NopPatch
       \/ ~p.nop /\ p.patch = PatchBetween(TRUE, EmptyView, DataOf(p.state))
       \/ /\ ~p.nop
          /\ p.patch = PatchBetween(FALSE, DataOf(q.base), DataOf(p.state))
          /\ ChecksumOf(DataOf(q.base)) = q.sum

RepliesMatch == \A r \in Requests : pc[r] = "replied" => ReplyMatches(reply[r], req[r])

ConsistencyInv == /\ ClientLMIDMatches
                  /\ OnlyCorruptDamages
                  /\ KindsMatch
                  /\ RequestsMatch
                  /\ RepliesMatch
                  /\ DamageIsSeen => ClientDataMatches /\ SumsMatch

(* A client that takes an answer has the checksum the answer states,       *)
(* though nopPull repeats the client's own, pull sends that of the head,   *)
(* and the patch was computed in between.                                  *)
ChecksumsAgree ==
    [][\A r \in Requests :
         Deliver(r) /\ req[r].base = client[req[r].client].state
            => ChecksumOf(client'[req[r].client].data) = reply[r].sum]_vars

(* What ChecksumsAgree rests on when no client damages its data: the       *)
(* checksums of requests and answers are those of the commits they name.   *)
ChecksumsInv ==
    /\ \A r \in Requests :
          pc[r] # "idle" /\ req[r].kind = "pull" => req[r].sum = ChecksumOf(DataOf(req[r].base))
    /\ \A r \in Requests :
          pc[r] = "replied" => reply[r].sum = ChecksumOf(DataOf(reply[r].state))

(* "Refuse to send the client backwards in time": no answer lowers a       *)
(* client's lastMutationID, though heads may be deleted, lost, injected,   *)
(* or filled from a lagging data layer.                                    *)
ClientLMIDNeverDecreases ==
    [][\A c \in Clients : client'[c].lmid >= client[c].lmid]_vars

(* Unless its dataset was deleted, a client only ever moves to descendants *)
(* of the commit it holds, whichever process answers and whatever is       *)
(* injected: datasets only fast-forward.                                   *)
ClientNeverRewinds ==
    [][\A c \in Clients :
         ~lost[c] => IsAncestor(client[c].state, client'[c].state)]_vars

(* What ClientNeverRewinds rests on: what clients hold, what requests ask  *)
(* from, the heads handlers go on with and the states answers name follow  *)
(* each other up to the head.                                              *)
DescentInv ==
    /\ \A c \in Clients : ~lost[c] => IsAncestor(client[c].state, head[c])
    /\ \A r \in Requests : pc[r] # "idle" /\ ~lost[req[r].client] =>
          /\ IsAncestor(req[r].base, head[req[r].client])
          /\ pc[r] \in {"genesis", "opened", "fetched", "stored"} =>
                /\ IsAncestor(req[r].base, snap[r].head)
                /\ IsAncestor(snap[r].head, head[req[r].client])
          /\ pc[r] = "replied" =>
                /\ IsAncestor(req[r].base, reply[r].state)
                /\ IsAncestor(reply[r].state, head[req[r].client])

(* The same of lastMutationIDs: those in the heads are floating-point       *)
(* numbers already, so that rounding one that is not below another keeps   *)
(* the order.                                                              *)
IsNumber(n) == ToNumber(n) = n
NumbersInv ==
    /\ \A r \in Requests : pc[r] # "idle" => req[r].kind = "pull"
    /\ \A r \in Requests : IsNumber(LMIDOf(snap[r].head))
    /\ \A c \in Clients : IsNumber(LMIDOf(head[c]))

(* And of the times at which the data layer had the views: what a handler  *)
(* fetched is no older than its head, nor than the head of its dataset if  *)
(* that is still the same.                                                 *)
TimesInv ==
    /\ \A r \in Requests : pc[r] # "idle" => req[r].kind = "pull"
    /\ \A c \in Clients : /\ ~lost[c] /\ asOf[c] <= Len(layer[c])
                          /\ head[c] = << >> => asOf[c] = 0
    /\ \A r \in Requests : pc[r] \in {"genesis", "opened", "fetched", "stored"} =>
          LET c == req[r].client
          IN  /\ snap[r].at <= asOf[c]
              /\ Len(snap[r].head) = Len(head[c]) => snap[r].at = asOf[c]
              /\ pc[r] = "fetched" => snap[r].at <= cv[r].at /\ cv[r].at <= Len(layer[c])

(* With a data layer that answers with its current view, a head is never   *)
(* replaced by an older view, even at the same lastMutationID: a slow      *)
(* handler that fetched first loses to one that fetched later.             *)
HeadNeverOlder == [][\A c \in Clients : asOf'[c] >= asOf[c]]_vars

(* The head's lastMutationID never decreases unless the dataset is deleted *)
(* or a view injected, though the data layer lags and forgets.             *)
HeadLMIDNeverDecreases ==
    [][\A c \in Clients : ~lost'[c] => LMIDOf(head'[c]) >= LMIDOf(head[c])]_vars

(* A commit other than genesis is of a state the data layer had.           *)
Processed(states, lmid, view) ==
    \E t \in 1..Len(states) : states[t].lmid = lmid /\ states[t].view = view
IsProcessed(states, h) == Len(h) <= 1 \/ Processed(states, LMIDOf(h), DataOf(h))

(* No mutation is confirmed before the data layer processed it, and the    *)
(* data sent with the confirmation is of a state of the data layer with    *)
(* exactly that lastMutationID (pull, MaybePutData).                       *)
ConfirmedWasProcessed ==
    \A c \in Clients :
        Len(client[c].state) <= 1
        \/ Processed(layer[c], client[c].lmid, DataOf(client[c].state))

(* What ConfirmedWasProcessed rests on: so it is of the heads, of what     *)
(* requests ask from and go on with, and of what they fetched.             *)
ProcessedInv ==
    /\ \A r \in Requests : pc[r] # "idle" => req[r].kind = "pull"
    /\ \A c \in Clients : /\ IsProcessed(layer[c], head[c])
                          /\ IsProcessed(layer[c], client[c].state)
                          /\ \A t \in 1..Len(layer[c]) : layer[c][t].lmid <= MaxLMID
    /\ \A r \in Requests :
          LET states == layer[req[r].client]
          IN  /\ pc[r] # "idle" => IsProcessed(states, req[r].base)
              /\ pc[r] \in {"genesis", "opened", "fetched", "stored"} =>
                    IsProcessed(states, snap[r].head)
              /\ pc[r] = "fetched" => Processed(states, cv[r].lmid, cv[r].view)
              /\ pc[r] = "replied" => IsProcessed(states, reply[r].state)

(* With a data layer that answers with its current view, over datasets     *)
(* that only fast-forward, clients observe views of the data layer in      *)
(* order and never a mixture of two: pull implements ObservedViews.        *)
Observed == INSTANCE ObservedViews WITH
    LMIDs <- 0..MaxLMID,
    copy <- [c \in Clients |-> [lmid |-> client[c].lmid, view |-> client[c].data]]

ServesObservedViews == Observed!Spec

(* What ServesObservedViews rests on: the commits in use for a client have *)
(* the view of the time noted with them, and later ones are not older.     *)
Held(c) ==
    {[state |-> head[c], at |-> asOf[c]], [state |-> client[c].state, at |-> seen[c]]}
    \cup {[state |-> snap[r].head, at |-> snap[r].at] :
             r \in {r \in Requests : /\ pc[r] \in {"genesis", "opened", "fetched", "stored"}
                                     /\ req[r].client = c}}
    \cup {[state |-> reply[r].state, at |-> reply[r].at] :
             r \in {r \in Requests : pc[r] = "replied" /\ ~reply[r].nop /\ req[r].client = c}}

Shows(states, at, lmid, view) ==
    \/ at = 0 /\ lmid = 0 /\ view = EmptyView
    \/ at \in 1..Len(states) /\ states[at] = [lmid |-> lmid, view |-> view]

HeldInv ==
    /\ \A c \in Clients : \A x \in Held(c) :
          /\ Shows(layer[c], x.at, LMIDOf(x.state), DataOf(x.state))
          /\ \A y \in Held(c) : Len(x.state) <= Len(y.state) => x.at <= y.at
    /\ \A r \in Requests : pc[r] = "fetched" =>
          cv[r].at > 0 /\ Shows(layer[req[r].client], cv[r].at, cv[r].lmid, cv[r].view)

(* Once the data layer is quiet, a client that keeps pulling ends up with  *)
(* its view, for good.                                                     *)
Converges ==
    \A c \in Clients :
        <>[](/\ client[c].data = layer[c][Len(layer[c])].view
             /\ client[c].lmid = layer[c][Len(layer[c])].lmid)

(* "MaybePutData creates a new commit with the given map and               *)
(* lastMutationID if they are different from what is currently at head":   *)
(* when storing reports no error, the handler's head holds that map.  The  *)
(* code compares checksums, so the checksum must tell the views apart.     *)
PutKeepsView ==
    [][\A r \in Requests :
         (pc[r] = "fetched" /\ pc'[r] = "stored" /\ cv[r].lmid >= MinLMID(r) /\ ~cv'[r].err)
             => DataOf(snap'[r].head) = cv[r].view]_vars
===============================================================================

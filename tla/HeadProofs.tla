------------------------------ MODULE HeadProofs ------------------------------
(***************************************************************************)
(* Theorems about the order of commits in DiffServer, for every value of   *)
(* the constants: clients and heads only move to descendants,              *)
(* lastMutationIDs never drop, and no view replaces a later one.           *)
(***************************************************************************)
EXTENDS DiffServerProofs, SequenceTheorems

-------------------------------------------------------------------------------
(* Ancestry.                                                               *)

LEMMA AncestorReflexive == \A a \in Commits : IsAncestor(a, a) /\ IsAncestor(<< >>, a)
BY DEF IsAncestor, Commits

LEMMA AncestorTransitive ==
    ASSUME NEW a \in Commits, NEW b \in Commits, NEW d \in Commits,
           IsAncestor(a, b), IsAncestor(b, d)
    PROVE  IsAncestor(a, d)
<1>1. /\ Len(a) \in Nat /\ Len(b) \in Nat /\ Len(d) \in Nat
      /\ Len(a) <= Len(b) /\ Len(b) <= Len(d)
  BY DEF IsAncestor, Commits
<1>2. \A i \in 1..Len(a) : i \in 1..Len(b) /\ a[i] = b[i] /\ b[i] = d[i]
  BY <1>1 DEF IsAncestor
<1> QED BY <1>1, <1>2 DEF IsAncestor

-------------------------------------------------------------------------------
(* Heads only fast-forward, until the dataset is lost.                     *)

HeadsDescend ==
    \A c \in Clients : ~lost'[c] => ~lost[c] /\ IsAncestor(head[c], head'[c])

LEMMA UnchangedHeads ==
    ASSUME TypeOK, UNCHANGED <<head, lost>>
    PROVE  HeadsDescend
BY AncestorReflexive DEF HeadsDescend, TypeOK, StoreType

LEMMA FastForwardDescends ==
    ASSUME TypeOK, NEW r \in Requests, req[r] \in RequestSet,
           NEW new, NEW at, FastForward(r, new, at)
    PROVE  HeadsDescend
<1>1. req[r].client \in Clients
  BY DEF RequestSet
<1>2. UNCHANGED lost /\ head' = [head EXCEPT ![req[r].client] = new]
  BY DEF FastForward, MoveHead
<1>3. IsAncestor(head[req[r].client], new)
  BY DEF FastForward, CanFastForward
<1> QED BY <1>1, <1>2, <1>3, AncestorReflexive DEF HeadsDescend, TypeOK, StoreType

LEMMA PutDescends ==
    ASSUME TypeOK, NEW r \in Requests, req[r] \in RequestSet, PutCommit(r)
    PROVE  HeadsDescend
BY FastForwardDescends DEF PutCommit

LEMMA NextHeads ==
    ASSUME TypeOK, [Next]_vars
    PROVE  HeadsDescend
<1>1. ASSUME NEW r \in Requests, Arrive(r) \/ Deliver(r) \/ LoseReply(r) \/ Panic(r)
      PROVE  HeadsDescend
  <2>1. UNCHANGED <<head, lost>>
    BY <1>1 DEF Arrive, SendPull, SendInject, Deliver, LoseReply, Panic, store
  <2> QED BY <2>1, UnchangedHeads
<1>2. ASSUME NEW r \in Requests, Open(r)
      PROVE  HeadsDescend
  <2>1. CASE Genesis(r)
    BY <2>1, FastForwardDescends DEF Genesis, TypeOK, SlotType
  <2>2. CASE RejectEarly(r) \/ GetDB(r) \/ GenesisConflict(r) \/ RejectLate(r)
    BY <2>2, UnchangedHeads DEF RejectEarly, GetDB, GenesisConflict, RejectLate, store
  <2> QED BY <1>2, <2>1, <2>2 DEF Open
<1>3. ASSUME NEW r \in Requests, Serve(r)
      PROVE  HeadsDescend
  <2>1. CASE Store(r) \/ InjectPut(r)
    <3>1. req[r] \in RequestSet
      BY <2>1 DEF Store, InjectPut, TypeOK, SlotType
    <3>2. CASE PutCommit(r)
      BY <3>1, <3>2, PutDescends
    <3>3. CASE UNCHANGED store
      BY <3>3, UnchangedHeads DEF store
    <3> QED BY <2>1, <3>2, <3>3 DEF Store, InjectPut, PutNop, PutConflict
  <2>2. CASE FetchFail(r) \/ Fetch(r) \/ Refuse(r) \/ Respond(r)
    BY <2>2, UnchangedHeads DEF FetchFail, Fetch, Refuse, Respond, store
  <2> QED BY <1>3, <2>1, <2>2 DEF Serve
<1>4. ASSUME NEW c \in Clients, DeleteClient(c)
      PROVE  HeadsDescend
  BY <1>4, AncestorReflexive DEF DeleteClient, HeadsDescend, TypeOK, StoreType
<1>5. CASE ColdStart
  BY <1>5 DEF ColdStart, HeadsDescend
<1>6. CASE \/ \E c \in Clients : LayerChange(c) \/ Corrupt(c)
           \/ \E s \in Servers : Crash(s)
  BY <1>6, UnchangedHeads DEF LayerChange, Corrupt, Crash, store
<1>7. CASE UNCHANGED vars
  BY <1>7, UnchangedHeads DEF vars, store
<1> QED BY <1>1, <1>2, <1>3, <1>4, <1>5, <1>6, <1>7 DEF Next, Environment

-------------------------------------------------------------------------------
(* What is in flight lies between the clients and the heads.               *)

Opened == {"genesis", "opened", "fetched", "stored"}

LEMMA RequestTypes ==
    ASSUME TypeOK, NEW r \in Requests, pc[r] # "idle"
    PROVE  /\ req[r].client \in Clients /\ req[r].base \in Commits
           /\ head[req[r].client] \in Commits
           /\ snap[r].head \in Commits
           /\ pc[r] = "replied" => reply[r].state \in Commits
BY DEF TypeOK, SlotType, StoreType, RequestSet, SnapSet, ReplySet

(* A step that begins no request, makes no answer and leaves clients alone:*)
(* handlers keep the head they have or take the persisted one.             *)
LEMMA QuietDescends ==
    ASSUME TypeOK, TypeOK', DescentInv, HeadsDescend,
           \A c \in Clients : client'[c].state = client[c].state,
           \A q \in Requests : pc'[q] # "idle" =>
              /\ pc[q] # "idle" /\ req'[q] = req[q]
              /\ pc'[q] \in Opened => \/ pc[q] \in Opened /\ snap'[q].head = snap[q].head
                                      \/ snap'[q].head = head'[req[q].client]
              /\ pc'[q] = "replied" => pc[q] = "replied" /\ reply'[q] = reply[q]
    PROVE  DescentInv'
<1>1. ASSUME NEW c \in Clients, ~lost'[c]
      PROVE  IsAncestor(client'[c].state, head'[c])
  <2>1. client[c].state \in Commits /\ head[c] \in Commits /\ head'[c] \in Commits
    BY DEF TypeOK, ClientType, StoreType
  <2>2. IsAncestor(client[c].state, head[c]) /\ IsAncestor(head[c], head'[c])
    BY <1>1 DEF DescentInv, HeadsDescend
  <2> QED BY <2>1, <2>2, AncestorTransitive
<1>2. ASSUME NEW q \in Requests, pc'[q] # "idle", ~lost'[req'[q].client]
      PROVE  /\ IsAncestor(req'[q].base, head'[req'[q].client])
             /\ pc'[q] \in Opened => /\ IsAncestor(req'[q].base, snap'[q].head)
                                     /\ IsAncestor(snap'[q].head, head'[req'[q].client])
             /\ pc'[q] = "replied" => /\ IsAncestor(req'[q].base, reply'[q].state)
                                      /\ IsAncestor(reply'[q].state, head'[req'[q].client])
  <2> DEFINE c == req[q].client
  <2>1. pc[q] # "idle" /\ req'[q] = req[q]
    BY <1>2
  <2>2. /\ c \in Clients /\ req[q].base \in Commits /\ head[c] \in Commits
        /\ snap[q].head \in Commits /\ head'[c] \in Commits
        /\ pc[q] = "replied" => reply[q].state \in Commits
    BY <2>1, RequestTypes DEF TypeOK, StoreType
  <2>3. ~lost[c] /\ IsAncestor(head[c], head'[c])
    BY <1>2, <2>1, <2>2 DEF HeadsDescend
  <2>4. IsAncestor(req[q].base, head'[c])
    BY <2>1, <2>2, <2>3, AncestorTransitive DEF DescentInv
  <2>5. CASE pc'[q] \in Opened
    <3>1. CASE pc[q] \in Opened /\ snap'[q].head = snap[q].head
      <4>1. IsAncestor(req[q].base, snap[q].head) /\ IsAncestor(snap[q].head, head[c])
        BY <2>1, <2>3, <3>1 DEF DescentInv, Opened
      <4>2. IsAncestor(snap[q].head, head'[c])
        BY <2>2, <2>3, <4>1, AncestorTransitive
      <4> QED BY <2>1, <2>4, <2>5, <3>1, <4>1, <4>2 DEF Opened
    <3>2. CASE snap'[q].head = head'[c]
      BY <2>1, <2>2, <2>4, <2>5, <3>2, AncestorReflexive DEF Opened
    <3> QED BY <1>2, <2>5, <3>1, <3>2
  <2>6. CASE pc'[q] = "replied"
    <3>1. /\ pc[q] = "replied" /\ reply'[q] = reply[q]
          /\ IsAncestor(req[q].base, reply[q].state)
          /\ IsAncestor(reply[q].state, head[c])
      BY <1>2, <2>1, <2>3, <2>6 DEF DescentInv
    <3>2. IsAncestor(reply[q].state, head'[c])
      BY <2>2, <2>3, <3>1, AncestorTransitive
    <3> QED BY <2>1, <2>4, <2>6, <3>1, <3>2 DEF Opened
  <2> QED BY <2>1, <2>4, <2>5, <2>6
<1> QED BY <1>1, <1>2 DEF DescentInv, Opened

LEMMA ArriveDescends ==
    ASSUME TypeOK, TypeOK', DescentInv, NEW r \in Requests, Arrive(r)
    PROVE  DescentInv'
<1>1. PICK c \in Clients, s \in Servers : SendPull(r, c, s) \/ SendInject(r, c, s)
  BY DEF Arrive
<1>2. /\ UNCHANGED <<head, lost, client, snap, reply>>
      /\ pc' = [pc EXCEPT ![r] = "arrived"]
      /\ \A q \in Requests \ {r} : req'[q] = req[q]
      /\ req'[r].client = c
      /\ req'[r].base \in {client[c].state, << >>}
  <2>1. CASE SendPull(r, c, s)
    <3>1. PICK form \in Forms :
             Begin(r, [kind |-> "pull", client |-> c, server |-> s, form |-> form,
                       base |-> client[c].state, sum |-> ChecksumOf(client[c].data),
                       lmid |-> client[c].lmid])
      BY <2>1 DEF SendPull
    <3> QED BY <2>1, <3>1 DEF SendPull, Begin, store, clientSide, TypeOK, SlotType
  <2>2. CASE SendInject(r, c, s)
    <3>1. PICK form \in Forms :
             Begin(r, [kind |-> "inject", client |-> c, server |-> s, form |-> form,
                       base |-> << >>, sum |-> {}, lmid |-> 0])
      BY <2>2 DEF SendInject
    <3> QED BY <2>2, <3>1 DEF SendInject, Begin, store, clientSide, TypeOK, SlotType
  <2> QED BY <1>1, <2>1, <2>2
<1>3. ~lost[c] => IsAncestor(req'[r].base, head[c])
  BY <1>2, AncestorReflexive DEF DescentInv, TypeOK, StoreType
<1>4. \A q \in Requests \ {r} : pc'[q] = pc[q]
  BY <1>2 DEF TypeOK, SlotType
<1>5. pc'[r] = "arrived"
  BY <1>2 DEF TypeOK, SlotType
<1> QED BY <1>2, <1>3, <1>4, <1>5 DEF DescentInv

LEMMA FreeDescends ==
    ASSUME TypeOK, TypeOK', DescentInv, HeadsDescend, NEW r \in Requests, Free(r),
           \A c \in Clients : client'[c].state = client[c].state
    PROVE  DescentInv'
<1>1. \A q \in Requests : pc'[q] # "idle" =>
         pc'[q] = pc[q] /\ req'[q] = req[q] /\ snap'[q] = snap[q] /\ reply'[q] = reply[q]
  BY DEF Free, TypeOK, SlotType
<1> QED BY <1>1, QuietDescends

LEMMA OpenDescends ==
    ASSUME TypeOK, TypeOK', DescentInv, HeadsDescend, NEW r \in Requests, Open(r)
    PROVE  DescentInv'
<1>1. CASE RejectEarly(r) \/ GenesisConflict(r) \/ RejectLate(r)
  BY <1>1, FreeDescends DEF RejectEarly, GenesisConflict, RejectLate, clientSide
<1>2. CASE GetDB(r) \/ Genesis(r)
  <2>1. /\ UNCHANGED <<client, req, reply>>
        /\ pc[r] # "idle"
        /\ \A q \in Requests : \/ pc'[q] = pc[q] /\ snap'[q] = snap[q]
                               \/ q = r /\ pc'[q] \in Opened
    BY <1>2 DEF GetDB, Genesis, Adopt, clientSide, TypeOK, SlotType, Opened
  <2>2. snap'[r].head = head'[req[r].client]
    BY <1>2 DEF GetDB, Rebased, Genesis, Adopt, TypeOK, SlotType
  <2>3. \A q \in Requests : pc'[q] # "idle" =>
           /\ pc[q] # "idle" /\ req'[q] = req[q]
           /\ pc'[q] \in Opened => \/ pc[q] \in Opened /\ snap'[q].head = snap[q].head
                                   \/ snap'[q].head = head'[req[q].client]
           /\ pc'[q] = "replied" => pc[q] = "replied" /\ reply'[q] = reply[q]
    BY <2>1, <2>2 DEF Opened
  <2> QED BY <2>1, <2>3, QuietDescends
<1> QED BY <1>1, <1>2 DEF Open

(* The answer names the head the handler goes on with, or repeats the base.*)
LEMMA RespondDescends ==
    ASSUME TypeOK, TypeOK', DescentInv, NEW r \in Requests, Respond(r)
    PROVE  DescentInv'
<1>1. /\ UNCHANGED <<head, lost, client, req>>
      /\ pc[r] = "stored" /\ pc'[r] = "replied"
      /\ \A q \in Requests \ {r} : pc'[q] = pc[q] /\ reply'[q] = reply[q] /\ snap'[q] = snap[q]
      /\ reply'[r].state \in {req[r].base, snap[r].head}
  <2>1. reply'[r] \in {NopPull(r), PullResponse(r)}
    BY DEF Respond, TypeOK, SlotType
  <2> QED BY <2>1 DEF Respond, store, clientSide, TypeOK, SlotType, NopPull, PullResponse
<1>2. req[r].base \in Commits
  BY <1>1, RequestTypes
<1>3. ~lost[req[r].client] =>
        /\ IsAncestor(req'[r].base, head'[req[r].client])
        /\ IsAncestor(req'[r].base, reply'[r].state)
        /\ IsAncestor(reply'[r].state, head'[req[r].client])
  BY <1>1, <1>2, AncestorReflexive DEF DescentInv
<1> QED BY <1>1, <1>3 DEF DescentInv

LEMMA ServeDescends ==
    ASSUME TypeOK, TypeOK', DescentInv, HeadsDescend, NEW r \in Requests, Serve(r)
    PROVE  DescentInv'
<1>1. CASE Respond(r)
  BY <1>1, RespondDescends
<1>2. CASE InjectPut(r)
  BY <1>2, FreeDescends DEF InjectPut, clientSide
<1>3. CASE FetchFail(r) \/ Fetch(r) \/ Refuse(r) \/ Store(r)
  <2>1. /\ UNCHANGED <<client, req, reply>>
        /\ pc[r] \in Opened /\ pc'[r] \in Opened
        /\ \A q \in Requests \ {r} : pc'[q] = pc[q]
    BY <1>3 DEF FetchFail, Fetch, Refuse, Store, clientSide, TypeOK, SlotType, Opened
  <2>2. UNCHANGED snap \/ Adopt(r)
    BY <1>3 DEF FetchFail, Fetch, Refuse, Store
  <2>3. /\ \A q \in Requests \ {r} : snap'[q] = snap[q]
        /\ snap'[r].head = snap[r].head \/ snap'[r].head = head'[req[r].client]
    BY <2>2 DEF Adopt, TypeOK, SlotType
  <2>4. \A q \in Requests : pc'[q] # "idle" =>
           /\ pc[q] # "idle" /\ req'[q] = req[q]
           /\ pc'[q] \in Opened => \/ pc[q] \in Opened /\ snap'[q].head = snap[q].head
                                   \/ snap'[q].head = head'[req[q].client]
           /\ pc'[q] = "replied" => pc[q] = "replied" /\ reply'[q] = reply[q]
    BY <2>1, <2>3 DEF Opened
  <2> QED BY <2>1, <2>4, QuietDescends
<1> QED BY <1>1, <1>2, <1>3 DEF Serve

(* A client that takes an answer asked from the commit it still holds.     *)
LEMMA DeliverDescends ==
    ASSUME TypeOK, TypeOK', DescentInv, HeadsDescend, NEW r \in Requests, Deliver(r)
    PROVE  /\ DescentInv'
           /\ \A c \in Clients : ~lost[c] => IsAncestor(client[c].state, client'[c].state)
<1> DEFINE c == req[r].client
<1>1. CASE UNCHANGED clientSide
  <2>1. DescentInv'
    BY <1>1, FreeDescends DEF Deliver, clientSide
  <2> QED BY <1>1, <2>1, AncestorReflexive DEF clientSide, TypeOK, ClientType
<1>2. CASE req[r].base = client[c].state
  <2>1. pc[r] = "replied" /\ c \in Clients
    BY RequestTypes DEF Deliver
  <2>2. /\ client'[c].state = reply[r].state
        /\ \A d \in Clients \ {c} : client'[d] = client[d]
        /\ UNCHANGED <<head, lost>>
    BY <1>2, <2>1 DEF Deliver, store, TypeOK, ClientType
  <2>3. ~lost[c] => /\ IsAncestor(client[c].state, client'[c].state)
                    /\ IsAncestor(client'[c].state, head'[c])
    BY <1>2, <2>1, <2>2 DEF DescentInv
  <2>4. \A q \in Requests : pc'[q] # "idle" =>
           pc'[q] = pc[q] /\ req'[q] = req[q] /\ snap'[q] = snap[q] /\ reply'[q] = reply[q]
    BY DEF Deliver, Free, TypeOK, SlotType
  <2>5. DescentInv'
    BY <2>2, <2>3, <2>4 DEF DescentInv
  <2>6. \A d \in Clients : ~lost[d] => IsAncestor(client[d].state, client'[d].state)
    BY <2>2, <2>3, AncestorReflexive DEF TypeOK, ClientType
  <2> QED BY <2>5, <2>6
<1> QED BY <1>1, <1>2 DEF Deliver

LEMMA EnvironmentDescends ==
    ASSUME TypeOK, TypeOK', DescentInv, HeadsDescend, Environment
    PROVE  /\ DescentInv'
           /\ \A c \in Clients : client'[c].state = client[c].state
<1>1. CASE \E c \in Clients : LayerChange(c) \/ DeleteClient(c) \/ Corrupt(c)
  <2>1. UNCHANGED slot
    BY <1>1 DEF LayerChange, DeleteClient, Corrupt
  <2>2. \A c \in Clients : client'[c].state = client[c].state
    BY <1>1 DEF LayerChange, DeleteClient, Corrupt, clientSide, TypeOK, ClientType
  <2> QED BY <2>1, <2>2, QuietDescends DEF slot
<1>2. CASE \E r \in Requests : Panic(r)
  <2>1. PICK r \in Requests : Panic(r)
    BY <1>2
  <2> QED BY <2>1, FreeDescends DEF Panic, clientSide
<1>3. CASE ColdStart \/ \E s \in Servers : Crash(s)
  <2>1. PICK S : Kill(S)
    BY <1>3 DEF ColdStart, Crash
  <2>2. UNCHANGED client
    BY <1>3 DEF ColdStart, Crash, clientSide
  <2>3. \A q \in Requests : pc'[q] # "idle" =>
           pc'[q] = pc[q] /\ req'[q] = req[q] /\ snap'[q] = snap[q] /\ reply'[q] = reply[q]
    BY <2>1 DEF Kill
  <2> QED BY <2>2, <2>3, QuietDescends
<1> QED BY <1>1, <1>2, <1>3 DEF Environment

LEMMA NextDescends ==
    ASSUME TypeOK, DescentInv, [Next]_vars
    PROVE  /\ DescentInv'
           /\ \A c \in Clients : ~lost[c] => IsAncestor(client[c].state, client'[c].state)
<1>1. TypeOK' /\ HeadsDescend
  BY NextType, NextHeads
<1>2. ASSUME NEW r \in Requests, Deliver(r)
      PROVE  /\ DescentInv'
             /\ \A c \in Clients : ~lost[c] => IsAncestor(client[c].state, client'[c].state)
  BY <1>1, <1>2, DeliverDescends
<1>3. CASE \E r \in Requests : Arrive(r) \/ Open(r) \/ Serve(r) \/ LoseReply(r)
  <2>1. UNCHANGED client
    BY <1>3 DEF Arrive, SendPull, SendInject, Open, RejectEarly, GetDB, Genesis,
                GenesisConflict, RejectLate, Serve, FetchFail, Fetch, Refuse, Store,
                InjectPut, Respond, LoseReply, clientSide
  <2>2. DescentInv'
    BY <1>1, <1>3, <2>1, ArriveDescends, OpenDescends, ServeDescends, FreeDescends
       DEF LoseReply
  <2> QED BY <2>1, <2>2, AncestorReflexive DEF TypeOK, ClientType
<1>4. CASE Environment
  BY <1>1, <1>4, EnvironmentDescends, AncestorReflexive DEF TypeOK, ClientType
<1>5. CASE UNCHANGED vars
  <2>1. UNCHANGED <<client, slot>>
    BY <1>5 DEF vars, clientSide
  <2> QED BY <1>1, <2>1, QuietDescends, AncestorReflexive DEF slot, TypeOK, ClientType
<1> QED BY <1>2, <1>3, <1>4, <1>5 DEF Next

(* A client never moves but to a descendant of the commit it holds, until  *)
(* its dataset is deleted or lost (getNoms, FastForward, db.Head): for any *)
(* number of processes, clients and requests, and whatever is injected.    *)
THEOREM ClientsDescend == Spec => ClientNeverRewinds
<1>1. Init => TypeOK /\ DescentInv
  <2>1. Init => DescentInv
    BY AncestorReflexive, DefaultFacts DEF Init, DescentInv
  <2> QED BY <2>1, InitType
<1>2. TypeOK /\ DescentInv /\ [Next]_vars => (TypeOK /\ DescentInv)'
  BY NextType, NextDescends
<1>3. TypeOK /\ DescentInv /\ [Next]_vars
        => [\A c \in Clients : ~lost[c] => IsAncestor(client[c].state, client'[c].state)]_vars
  BY NextDescends
<1> QED BY <1>1, <1>2, <1>3, PTL DEF Spec, ClientNeverRewinds

-------------------------------------------------------------------------------
(* Commits.                                                                *)

(* Between a commit and a next one of it there is no third.                *)
LEMMA AncestorOfNext ==
    ASSUME NEW a \in Commits, NEW b \in Commits,
           NEW date \in Dates, NEW data \in Views, NEW n \in Nat,
           IsAncestor(b, a), IsAncestor(a, MakeCommit(b, date, data, n))
    PROVE  /\ LMIDOf(a) \in {LMIDOf(b), ToNumber(n)}
           /\ Len(a) = Len(b) \/ a = MakeCommit(b, date, data, n)
<1> DEFINE e == [lmid |-> ToNumber(n), data |-> data, date |-> date]
           new == Append(b, e)
<1>1. MakeCommit(b, date, data, n) = new /\ e.lmid = ToNumber(n)
  BY DEF MakeCommit
<1> HIDE DEF e
<1>2. e \in Entry
  BY ToNumberNat DEF e, Entry
<1>3. /\ new \in Seq(Entry) /\ Len(new) = Len(b) + 1 /\ new[Len(b) + 1] = e
      /\ a \in Seq(Entry) /\ b \in Seq(Entry)
      /\ Len(a) \in Nat /\ Len(b) \in Nat
  BY <1>2 DEF Commits
<1>4. /\ Len(b) <= Len(a) /\ Len(a) <= Len(b) + 1
      /\ \A i \in 1..Len(b) : b[i] = a[i]
      /\ \A i \in 1..Len(a) : a[i] = new[i]
  BY <1>1, <1>3 DEF IsAncestor
<1>5. CASE Len(a) = Len(b)
  <2>1. CASE Len(a) = 0
    <3>1. a = << >> /\ b = << >>
      BY <1>3, <1>5, <2>1, EmptySeq
    <3> QED BY <1>5, <3>1
  <2>2. CASE Len(a) # 0
    <3>1. a[Len(a)] = b[Len(b)] /\ a # << >> /\ b # << >>
      BY <1>3, <1>4, <1>5, <2>2
    <3> QED BY <1>5, <3>1 DEF LMIDOf
  <2> QED BY <2>1, <2>2
<1>6. CASE Len(a) = Len(b) + 1
  <2>1. a = new
    BY <1>3, <1>4, <1>6, SeqEqual
  <2>2. a # << >> /\ a[Len(a)] = e
    BY <1>3, <1>4, <1>6
  <2> QED BY <1>1, <2>1, <2>2 DEF LMIDOf
<1> QED BY <1>3, <1>4, <1>5, <1>6

LEMMA Rounding ==
    /\ \A n \in Nat : IsNumber(ToNumber(n))
    /\ \A m \in Nat, n \in Nat : IsNumber(m) /\ n >= m => ToNumber(n) >= m
    /\ ToNumber(0) = 0
<1>1. MaxExact \in Nat
  BY ExactAssumption
<1>2. ASSUME NEW n \in Nat
      PROVE  IsNumber(ToNumber(n))
  BY <1>1 DEF IsNumber, ToNumber
<1>3. ASSUME NEW m \in Nat, NEW n \in Nat, IsNumber(m), n >= m
      PROVE  ToNumber(n) >= m
  BY <1>1, <1>3 DEF IsNumber, ToNumber
<1>4. ToNumber(0) = 0
  BY <1>1 DEF ToNumber
<1> QED BY <1>2, <1>3, <1>4

-------------------------------------------------------------------------------
(* Without injections every request is a pull.                             *)

LEMMA OnlyPulls ==
    ASSUME TypeOK, ~EnableInject, \A r \in Requests : pc[r] # "idle" => req[r].kind = "pull",
           [Next]_vars
    PROVE  \A r \in Requests : pc'[r] # "idle" => req'[r].kind = "pull"
<1>1. ASSUME NEW r \in Requests, Arrive(r)
      PROVE  \A q \in Requests : pc'[q] # "idle" => req'[q].kind = "pull"
  <2>1. PICK c \in Clients, s \in Servers : SendPull(r, c, s)
    BY <1>1 DEF Arrive, SendInject
  <2>2. PICK form \in Forms :
           Begin(r, [kind |-> "pull", client |-> c, server |-> s, form |-> form,
                     base |-> client[c].state, sum |-> ChecksumOf(client[c].data),
                     lmid |-> client[c].lmid])
    BY <2>1 DEF SendPull
  <2> QED BY <2>2 DEF Begin, TypeOK, SlotType
<1>2. ASSUME NEW r \in Requests, Free(r)
      PROVE  \A q \in Requests : pc'[q] # "idle" => req'[q].kind = "pull"
  BY <1>2 DEF Free, TypeOK, SlotType
<1>3. ASSUME NEW r \in Requests, Open(r) \/ Serve(r)
      PROVE  \A q \in Requests : pc'[q] # "idle" => req'[q].kind = "pull"
  <2>1. CASE GetDB(r) \/ Genesis(r) \/ Fetch(r) \/ FetchFail(r) \/ Refuse(r) \/ Store(r)
             \/ Respond(r)
    <3>1. UNCHANGED req /\ pc[r] # "idle" /\ \A q \in Requests \ {r} : pc'[q] = pc[q]
      BY <2>1 DEF GetDB, Genesis, Fetch, FetchFail, Refuse, Store, Respond, TypeOK, SlotType
    <3> QED BY <3>1
  <2>2. CASE RejectEarly(r) \/ GenesisConflict(r) \/ RejectLate(r) \/ InjectPut(r)
    BY <1>2, <2>2 DEF RejectEarly, GenesisConflict, RejectLate, InjectPut
  <2> QED BY <1>3, <2>1, <2>2 DEF Open, Serve
<1>4. CASE \E r \in Requests : Deliver(r) \/ LoseReply(r) \/ Panic(r)
  BY <1>2, <1>4 DEF Deliver, LoseReply, Panic
<1>5. CASE ColdStart \/ \E s \in Servers : Crash(s)
  BY <1>5 DEF ColdStart, Crash, Kill
<1>6. CASE \E c \in Clients : LayerChange(c) \/ DeleteClient(c) \/ Corrupt(c)
  BY <1>6 DEF LayerChange, DeleteClient, Corrupt, slot
<1>7. CASE UNCHANGED vars
  BY <1>7 DEF vars, slot
<1> QED BY <1>1, <1>3, <1>4, <1>5, <1>6, <1>7 DEF Next, Environment

(* The steps that may change a head or take one up.                        *)
PutStep(r) ==
    /\ pc[r] = "fetched" /\ cv[r].lmid >= MinLMID(r) /\ pc' = [pc EXCEPT ![r] = "stored"]
    /\ PutCommit(r) /\ Adopt(r)
    /\ UNCHANGED <<cv, layer>>

HeadsRest == UNCHANGED <<head, asOf, lost>>

LEMMA WhatMovesHeads ==
    ASSUME TypeOK, ~EnableInject, \A r \in Requests : pc[r] # "idle" => req[r].kind = "pull",
           [Next]_vars
    PROVE  \/ HeadsRest
           \/ \E r \in Requests : Genesis(r) \/ PutStep(r)
           \/ ColdStart \/ \E c \in Clients : DeleteClient(c)
<1>1. ASSUME NEW r \in Requests, Serve(r)
      PROVE  HeadsRest \/ PutStep(r)
  <2>1. CASE Store(r)
    BY <2>1 DEF Store, PutStep, PutNop, PutConflict, HeadsRest, store
  <2>2. CASE FetchFail(r) \/ Fetch(r) \/ Refuse(r) \/ Respond(r)
    BY <2>2 DEF FetchFail, Fetch, Refuse, Respond, HeadsRest, store
  <2>3. ~InjectPut(r)
    BY DEF InjectPut
  <2> QED BY <1>1, <2>1, <2>2, <2>3 DEF Serve
<1>2. ASSUME NEW r \in Requests, Open(r)
      PROVE  HeadsRest \/ Genesis(r)
  BY <1>2 DEF Open, RejectEarly, GetDB, GenesisConflict, RejectLate, HeadsRest, store
<1>3. ASSUME NEW r \in Requests, Arrive(r) \/ Deliver(r) \/ LoseReply(r) \/ Panic(r)
      PROVE  HeadsRest
  BY <1>3 DEF Arrive, SendPull, SendInject, Deliver, LoseReply, Panic, HeadsRest, store
<1>4. CASE \/ \E c \in Clients : LayerChange(c) \/ Corrupt(c)
           \/ \E s \in Servers : Crash(s)
           \/ UNCHANGED vars
  BY <1>4 DEF LayerChange, Corrupt, Crash, vars, HeadsRest, store
<1> QED BY <1>1, <1>2, <1>3, <1>4 DEF Next, Environment

(* Handlers take up the persisted head or let go of what they had.         *)
LEMMA WhatMovesSnaps ==
    ASSUME TypeOK, [Next]_vars
    PROVE  \A q \in Requests : \/ snap'[q] \in {snap[q], NoSnap}
                              \/ /\ req[q].client \in Clients
                                 /\ snap'[q].head = head'[req[q].client]
<1>1. ASSUME NEW r \in Requests, Free(r)
      PROVE  \A q \in Requests : snap'[q] \in {snap[q], NoSnap}
  BY <1>1 DEF Free, TypeOK, SlotType
<1>2. ASSUME NEW r \in Requests, GetDB(r) \/ Adopt(r), pc[r] # "idle"
      PROVE  \A q \in Requests : \/ snap'[q] = snap[q]
                                 \/ /\ req[q].client \in Clients
                                    /\ snap'[q].head = head'[req[q].client]
  <2>1. req[r].client \in Clients
    BY <1>2, RequestTypes
  <2> QED BY <1>2, <2>1 DEF GetDB, Rebased, Adopt, TypeOK, SlotType
<1>3. ASSUME NEW r \in Requests, Open(r)
      PROVE  \/ UNCHANGED snap \/ Free(r)
             \/ pc[r] # "idle" /\ (GetDB(r) \/ Adopt(r))
  BY <1>3 DEF Open, RejectEarly, GetDB, Genesis, GenesisConflict, RejectLate
<1>4. ASSUME NEW r \in Requests, Serve(r)
      PROVE  \/ UNCHANGED snap \/ Free(r)
             \/ pc[r] # "idle" /\ Adopt(r)
             \/ snap' = [snap EXCEPT ![r] = NoSnap]
  BY <1>4 DEF Serve, FetchFail, Fetch, Refuse, Store, InjectPut, Respond
<1>5. ASSUME NEW r \in Requests, Arrive(r) \/ Deliver(r) \/ LoseReply(r) \/ Panic(r)
      PROVE  UNCHANGED snap \/ Free(r)
  BY <1>5 DEF Arrive, SendPull, SendInject, Deliver, LoseReply, Panic
<1>6. CASE ColdStart \/ \E s \in Servers : Crash(s)
  BY <1>6 DEF ColdStart, Crash, Kill
<1>7. CASE UNCHANGED vars \/ \E c \in Clients : LayerChange(c) \/ DeleteClient(c) \/ Corrupt(c)
  BY <1>7 DEF vars, LayerChange, DeleteClient, Corrupt, slot
<1>8. ASSUME NEW r \in Requests, snap' = [snap EXCEPT ![r] = NoSnap]
      PROVE  \A q \in Requests : snap'[q] \in {snap[q], NoSnap}
  BY <1>8 DEF TypeOK, SlotType
<1>9. ASSUME NEW r \in Requests, Open(r) \/ Serve(r) \/ Arrive(r) \/ Deliver(r)
                                  \/ LoseReply(r) \/ Panic(r)
      PROVE  \A q \in Requests : \/ snap'[q] \in {snap[q], NoSnap}
                                 \/ /\ req[q].client \in Clients
                                    /\ snap'[q].head = head'[req[q].client]
  BY <1>1, <1>2, <1>3, <1>4, <1>5, <1>8, <1>9
<1> QED BY <1>6, <1>7, <1>9 DEF Next, Environment

-------------------------------------------------------------------------------
(* The lastMutationID of a head.                                           *)

LEMMA MovedLMID ==
    ASSUME TypeOK, NEW r \in Requests, req[r] \in RequestSet,
           \A c \in Clients : IsNumber(LMIDOf(head[c])),
           NEW b \in Commits, NEW date \in Dates, NEW data \in Views, NEW n \in Nat, NEW at,
           FastForward(r, MakeCommit(b, date, data, n), at),
           ~lost[req[r].client] => IsAncestor(b, head[req[r].client]),
           IsNumber(LMIDOf(b)), n >= LMIDOf(b)
    PROVE  \A c \in Clients :
              /\ IsNumber(LMIDOf(head'[c]))
              /\ ~lost'[c] => LMIDOf(head'[c]) >= LMIDOf(head[c])
<1> DEFINE d == req[r].client
           new == MakeCommit(b, date, data, n)
<1>1. d \in Clients /\ head[d] \in Commits
  BY DEF RequestSet, TypeOK, StoreType
<1>2. UNCHANGED lost /\ head' = [head EXCEPT ![d] = new] /\ IsAncestor(head[d], new)
  BY DEF FastForward, CanFastForward, MoveHead
<1>3. LMIDOf(new) = ToNumber(n) /\ ToNumber(n) >= LMIDOf(b) /\ IsNumber(ToNumber(n))
      /\ ToNumber(n) \in Nat
  BY MakeCommitFacts, CommitFacts, Rounding, ToNumberNat
<1>4. ~lost[d] => LMIDOf(head[d]) \in {LMIDOf(b), ToNumber(n)}
  BY <1>1, <1>2, AncestorOfNext
<1>5. \A c \in Clients : LMIDOf(head[c]) \in Nat
  BY CommitFacts DEF TypeOK, StoreType
<1>6. head'[d] = new /\ \A c \in Clients \ {d} : head'[c] = head[c]
  BY <1>1, <1>2 DEF TypeOK, StoreType
<1> HIDE DEF new, d
<1> QED BY <1>1, <1>2, <1>3, <1>4, <1>5, <1>6

LEMMA NextNumbers ==
    ASSUME TypeOK, DescentInv, NumbersInv, ~EnableInject, [Next]_vars
    PROVE  /\ NumbersInv'
           /\ \A c \in Clients : ~lost'[c] => LMIDOf(head'[c]) >= LMIDOf(head[c])
<1> DEFINE Grown == \A c \in Clients :
              /\ IsNumber(LMIDOf(head'[c]))
              /\ ~lost'[c] => LMIDOf(head'[c]) >= LMIDOf(head[c])
<1>1. \A c \in Clients : LMIDOf(head[c]) \in Nat /\ IsNumber(LMIDOf(head[c]))
  BY CommitFacts DEF TypeOK, StoreType, NumbersInv
<1>2. LMIDOf(<< >>) = 0 /\ IsNumber(LMIDOf(<< >>))
  BY Rounding DEF LMIDOf, IsNumber
<1>3. ASSUME HeadsRest
      PROVE  Grown
  BY <1>1, <1>3 DEF HeadsRest
<1>4. ASSUME NEW r \in Requests, Genesis(r)
      PROVE  Grown
  <2>1. req[r] \in RequestSet /\ head[req[r].client] \in Commits
    BY <1>4, RequestTypes DEF Genesis, TypeOK, SlotType
  <2>2. PICK date \in Dates : FastForward(r, MakeCommit(<< >>, date, EmptyView, 0), 0)
    BY <1>4 DEF Genesis
  <2>3. /\ << >> \in Commits /\ EmptyView \in Views /\ 0 \in Nat /\ 0 >= LMIDOf(<< >>)
        /\ IsAncestor(<< >>, head[req[r].client])
    BY <1>2, <2>1, DefaultFacts, ViewFacts, AncestorReflexive
  <2> QED BY <1>1, <1>2, <2>1, <2>2, <2>3, MovedLMID
<1>5. ASSUME NEW r \in Requests, PutStep(r)
      PROVE  Grown
  <2>1. /\ req[r] \in RequestSet /\ snap[r].head \in Commits
        /\ cv[r].view \in Views /\ cv[r].lmid \in Nat /\ req[r].lmid \in Nat
    BY <1>5 DEF PutStep, TypeOK, SlotType, SnapSet, ViewSet, RequestSet
  <2>2. PICK date \in Dates : FastForward(r, NewCommit(r, date), cv[r].at)
    BY <1>5 DEF PutStep, PutCommit
  <2>3. FastForward(r, MakeCommit(snap[r].head, date, cv[r].view, cv[r].lmid), cv[r].at)
    BY <2>2 DEF NewCommit
  <2>4. LMIDOf(snap[r].head) \in Nat /\ IsNumber(LMIDOf(snap[r].head))
    BY <2>1, CommitFacts DEF NumbersInv
  <2>5. cv[r].lmid >= LMIDOf(snap[r].head)
    BY <1>5, <2>1, <2>4 DEF PutStep, MinLMID
  <2>6. ~lost[req[r].client] => IsAncestor(snap[r].head, head[req[r].client])
    BY <1>5 DEF PutStep, DescentInv
  <2> QED BY <1>1, <2>1, <2>3, <2>4, <2>5, <2>6, MovedLMID
<1>6. ASSUME NEW d \in Clients, DeleteClient(d)
      PROVE  Grown
  BY <1>1, <1>2, <1>6 DEF DeleteClient, TypeOK, StoreType
<1>7. ASSUME ColdStart
      PROVE  Grown
  BY <1>2, <1>7 DEF ColdStart
<1>8. Grown
  BY <1>3, <1>4, <1>5, <1>6, <1>7, WhatMovesHeads DEF NumbersInv
<1>9. ASSUME NEW q \in Requests
      PROVE  IsNumber(LMIDOf(snap'[q].head))
  <2>1. NoSnap.head = << >>
    BY DEF NoSnap
  <2>2. IsNumber(LMIDOf(snap[q].head))
    BY DEF NumbersInv
  <2>3. \A c \in Clients : IsNumber(LMIDOf(head'[c]))
    BY <1>8
  <2> QED BY <1>2, <2>1, <2>2, <2>3, WhatMovesSnaps
<1>10. \A q \in Requests : pc'[q] # "idle" => req'[q].kind = "pull"
  BY OnlyPulls DEF NumbersInv
<1> QED BY <1>8, <1>9, <1>10 DEF NumbersInv

(* The lastMutationID of a head never drops, unless the dataset is deleted *)
(* or a view injected (pull, MaybePutData, makeCommit): for any data layer,*)
(* also one that lags or forgets, and though float64 rounds.               *)
THEOREM HeadLMIDsGrow ==
    ASSUME ~EnableInject
    PROVE  Spec => HeadLMIDNeverDecreases
<1>1. Init => TypeOK /\ DescentInv /\ NumbersInv
  <2>1. Init => DescentInv
    BY AncestorReflexive, DefaultFacts DEF Init, DescentInv
  <2>2. Init => NumbersInv
    BY Rounding DEF Init, NumbersInv, IsNumber, LMIDOf, NoSnap
  <2> QED BY <2>1, <2>2, InitType
<1>2. TypeOK /\ DescentInv /\ NumbersInv /\ [Next]_vars
        => (TypeOK /\ DescentInv /\ NumbersInv)'
  BY NextType, NextDescends, NextNumbers
<1>3. TypeOK /\ DescentInv /\ NumbersInv /\ [Next]_vars
        => [\A c \in Clients : ~lost'[c] => LMIDOf(head'[c]) >= LMIDOf(head[c])]_vars
  BY NextNumbers
<1> QED BY <1>1, <1>2, <1>3, PTL DEF Spec, HeadLMIDNeverDecreases

-------------------------------------------------------------------------------
(* The age of the view at a head.                                          *)

(* The data layer answers with its current view, to pulls only, and no     *)
(* dataset is deleted or lost.                                             *)
OnlyForward == ~EnableInject /\ Faults \cap {"stale", "delete", "coldstart"} = {}

HeadsAdvance == \A c \in Clients :
    /\ ~lost'[c]
    /\ asOf'[c] >= asOf[c]
    /\ asOf'[c] <= Len(layer'[c])
    /\ head'[c] = << >> => asOf'[c] = 0
    /\ Len(head[c]) <= Len(head'[c])
    /\ Len(head'[c]) = Len(head[c]) => asOf'[c] = asOf[c]

LEMMA WhoMovesLayers ==
    ASSUME [Next]_vars
    PROVE  UNCHANGED layer \/ \E c \in Clients : LayerChange(c)
<1>1. ASSUME NEW r \in Requests, Arrive(r) \/ Open(r) \/ Serve(r)
      PROVE  UNCHANGED layer
  BY <1>1 DEF Arrive, SendPull, SendInject, Open, RejectEarly, GetDB, Genesis, GenesisConflict,
              RejectLate, Serve, FetchFail, Fetch, Refuse, Store, InjectPut, Respond
<1>2. ASSUME NEW r \in Requests, Deliver(r) \/ LoseReply(r) \/ Panic(r)
      PROVE  UNCHANGED layer
  BY <1>2 DEF Deliver, LoseReply, Panic
<1>3. ASSUME \/ \E d \in Clients : DeleteClient(d) \/ Corrupt(d)
             \/ \E s \in Servers : Crash(s)
             \/ ColdStart \/ UNCHANGED vars
      PROVE  UNCHANGED layer
  BY <1>3 DEF DeleteClient, Corrupt, Crash, ColdStart, vars
<1> QED BY <1>1, <1>2, <1>3 DEF Next, Environment

LEMMA LayersGrow ==
    ASSUME TypeOK, [Next]_vars
    PROVE  \A c \in Clients : Len(layer[c]) \in Nat /\ Len(layer'[c]) >= Len(layer[c])
<1>1. \A c \in Clients : layer[c] \in Seq(LayerState) /\ Len(layer[c]) \in Nat
  BY DEF TypeOK, LayerType
<1>2. CASE UNCHANGED layer
  BY <1>1, <1>2
<1>3. ASSUME NEW c \in Clients, LayerChange(c)
      PROVE  \A d \in Clients : Len(layer'[d]) >= Len(layer[d])
  <2>1. PICK new : layer' = [layer EXCEPT ![c] = Append(@, new)]
    BY <1>3 DEF LayerChange
  <2>2. Len(Append(layer[c], new)) = Len(layer[c]) + 1
    <3>1. layer[c] \in Seq(LayerState \cup {new})
      BY <1>1, SeqMonotonic
    <3> QED BY <3>1
  <2> QED BY <1>1, <2>1, <2>2 DEF TypeOK, LayerType
<1> QED BY <1>1, <1>2, <1>3, WhoMovesLayers

LEMMA MovedTimes ==
    ASSUME TypeOK, TimesInv, NEW r \in Requests, req[r] \in RequestSet, UNCHANGED layer,
           NEW b \in Commits, NEW date \in Dates, NEW data \in Views, NEW n \in Nat,
           NEW at \in Nat,
           FastForward(r, MakeCommit(b, date, data, n), at),
           IsAncestor(b, head[req[r].client]),
           Len(head[req[r].client]) = Len(b) => asOf[req[r].client] <= at,
           at <= Len(layer[req[r].client])
    PROVE  HeadsAdvance
<1> DEFINE d == req[r].client
           new == MakeCommit(b, date, data, n)
<1>1. d \in Clients /\ head[d] \in Commits /\ \A c \in Clients : asOf[c] \in Nat
  BY DEF RequestSet, TypeOK, StoreType
<1>2. /\ UNCHANGED lost /\ head' = [head EXCEPT ![d] = new]
      /\ asOf' = [asOf EXCEPT ![d] = IF head[d] = new THEN asOf[d] ELSE at]
      /\ IsAncestor(head[d], new)
  BY DEF FastForward, CanFastForward, MoveHead
<1>3. Len(head[d]) = Len(b) \/ head[d] = new
  BY <1>1, <1>2, AncestorOfNext
<1>4. Len(new) = Len(b) + 1 /\ Len(b) \in Nat /\ new # << >>
  <2> DEFINE e == [lmid |-> ToNumber(n), data |-> data, date |-> date]
  <2>1. e \in Entry
    BY ToNumberNat DEF Entry
  <2>2. new = Append(b, e) /\ b \in Seq(Entry)
    BY DEF MakeCommit, Commits
  <2> HIDE DEF e, new
  <2>3. Len(Append(b, e)) = Len(b) + 1 /\ Len(b) \in Nat /\ Len(<< >>) = 0
    BY <2>1, <2>2
  <2> QED BY <2>2, <2>3
<1>5. \A c \in Clients : Len(head[c]) \in Nat
  BY DEF TypeOK, StoreType, Commits
<1>6. /\ head'[d] = new /\ asOf'[d] = IF head[d] = new THEN asOf[d] ELSE at
      /\ \A c \in Clients \ {d} : head'[c] = head[c] /\ asOf'[c] = asOf[c]
  BY <1>1, <1>2 DEF TypeOK, StoreType
<1>7. \A c \in Clients : /\ ~lost[c] /\ asOf[c] <= Len(layer[c])
                         /\ head[c] = << >> => asOf[c] = 0
  BY DEF TimesInv
<1> HIDE DEF new, d
<1>8. /\ asOf'[d] >= asOf[d] /\ asOf'[d] <= Len(layer[d])
      /\ Len(head[d]) <= Len(head'[d])
      /\ Len(head'[d]) = Len(head[d]) => asOf'[d] = asOf[d]
  <2>1. CASE head[d] = new
    BY <1>1, <1>5, <1>6, <1>7, <2>1
  <2>2. CASE head[d] # new
    BY <1>1, <1>3, <1>4, <1>6, <2>2 DEF d
  <2> QED BY <2>1, <2>2
<1>9. \A c \in Clients \ {d} : /\ asOf'[c] >= asOf[c] /\ asOf'[c] <= Len(layer[c])
                               /\ Len(head[c]) <= Len(head'[c])
                               /\ head'[c] = << >> => asOf'[c] = 0
                               /\ asOf'[c] = asOf[c]
  BY <1>1, <1>5, <1>6, <1>7
<1> QED BY <1>2, <1>4, <1>6, <1>7, <1>8, <1>9 DEF HeadsAdvance

LEMMA NextAdvances ==
    ASSUME TypeOK, DescentInv, TimesInv, OnlyForward, [Next]_vars
    PROVE  HeadsAdvance
<1>1. CASE HeadsRest
  <2>1. \A c \in Clients : /\ asOf[c] \in Nat /\ Len(head[c]) \in Nat
                           /\ Len(layer[c]) \in Nat /\ Len(layer'[c]) \in Nat
    BY NextType DEF TypeOK, StoreType, LayerType, Commits
  <2>2. \A c \in Clients : Len(layer'[c]) >= Len(layer[c])
    BY LayersGrow
  <2> QED BY <1>1, <2>1, <2>2 DEF HeadsRest, HeadsAdvance, TimesInv
<1>2. ASSUME NEW r \in Requests, Genesis(r)
      PROVE  HeadsAdvance
  <2> DEFINE c == req[r].client
  <2>1. /\ req[r] \in RequestSet /\ head[c] \in Commits /\ c \in Clients
        /\ UNCHANGED layer
    BY <1>2, RequestTypes DEF Genesis, TypeOK, SlotType
  <2>2. PICK date \in Dates : FastForward(r, MakeCommit(<< >>, date, EmptyView, 0), 0)
    BY <1>2 DEF Genesis
  <2>3. /\ << >> \in Commits /\ EmptyView \in Views /\ 0 \in Nat
        /\ IsAncestor(<< >>, head[c])
    BY <2>1, DefaultFacts, ViewFacts, AncestorReflexive
  <2>4. Len(head[c]) = Len(<< >>) => asOf[c] <= 0
    BY <2>1, EmptySeq DEF TimesInv, Commits
  <2>5. 0 <= Len(layer[c])
    BY <2>1 DEF TypeOK, LayerType
  <2> QED BY <2>1, <2>2, <2>3, <2>4, <2>5, MovedTimes
<1>3. ASSUME NEW r \in Requests, PutStep(r)
      PROVE  HeadsAdvance
  <2> DEFINE c == req[r].client
  <2>1. /\ req[r] \in RequestSet /\ snap[r].head \in Commits /\ snap[r].at \in Nat
        /\ cv[r].view \in Views /\ cv[r].lmid \in Nat /\ cv[r].at \in Nat
        /\ c \in Clients /\ asOf[c] \in Nat
    BY <1>3 DEF PutStep, TypeOK, SlotType, StoreType, SnapSet, ViewSet, RequestSet
  <2>2. PICK date \in Dates : FastForward(r, NewCommit(r, date), cv[r].at)
    BY <1>3 DEF PutStep, PutCommit
  <2>3. FastForward(r, MakeCommit(snap[r].head, date, cv[r].view, cv[r].lmid), cv[r].at)
    BY <2>2 DEF NewCommit
  <2>4. IsAncestor(snap[r].head, head[c])
    BY <1>3, <2>1 DEF PutStep, DescentInv, TimesInv
  <2>5. /\ Len(head[c]) = Len(snap[r].head) => asOf[c] = snap[r].at
        /\ snap[r].at <= cv[r].at /\ cv[r].at <= Len(layer[c])
    BY <1>3, <2>1 DEF PutStep, TimesInv
  <2>6. Len(head[c]) = Len(snap[r].head) => asOf[c] <= cv[r].at
    BY <2>1, <2>5
  <2>7. UNCHANGED layer
    BY <1>3 DEF PutStep
  <2> QED BY <2>1, <2>3, <2>4, <2>5, <2>6, <2>7, MovedTimes
<1>4. ~ColdStart /\ \A c \in Clients : ~DeleteClient(c)
  BY DEF OnlyForward, ColdStart, DeleteClient, Disrupt
<1> QED BY <1>1, <1>2, <1>3, <1>4, WhatMovesHeads DEF TimesInv, OnlyForward

(* A request is new, or goes on with what it had, what the data layer has  *)
(* now, or the persisted head, and is answered from those.                 *)
SlotMoves(q) ==
    LET c == req[q].client
    IN  \/ /\ pc[q] = "idle" /\ pc'[q] = "arrived"
           /\ \E d \in Clients : /\ req'[q].client = d
                                 /\ req'[q].base \in {<< >>, client[d].state}
        \/ /\ pc[q] # "idle" /\ req'[q] = req[q]
           /\ pc'[q] \in Opened =>
                \/ pc[q] \in Opened /\ snap'[q] = snap[q]
                \/ pc'[q] # "fetched" /\ snap'[q] = [head |-> head'[c], at |-> asOf'[c]]
           /\ pc'[q] = "fetched" =>
                \/ pc[q] = "fetched" /\ cv'[q] = cv[q]
                \/ /\ UNCHANGED layer
                   /\ \E t \in AnswerTimes(c), o \in Omissions : cv'[q] = Answer(c, t, o)
           /\ pc'[q] = "replied" =>
                \/ pc[q] = "replied" /\ reply'[q] = reply[q]
                \/ pc[q] = "stored" /\ reply'[q] \in {NopPull(q), PullResponse(q)}

SlotsMove == \A q \in Requests : pc'[q] # "idle" => SlotMoves(q)

SameSlot(q) == /\ pc'[q] = pc[q] /\ req'[q] = req[q] /\ snap'[q] = snap[q]
               /\ cv'[q] = cv[q] /\ reply'[q] = reply[q]

LEMMA OneSlot ==
    ASSUME NEW r \in Requests, pc'[r] # "idle" => SlotMoves(r),
           \A q \in Requests \ {r} : SameSlot(q)
    PROVE  SlotsMove
BY DEF SlotsMove, SlotMoves, SameSlot, Opened

LEMMA FreeMoves ==
    ASSUME TypeOK, NEW r \in Requests, Free(r)
    PROVE  SlotsMove
<1>1. pc'[r] = "idle" /\ \A q \in Requests \ {r} : SameSlot(q)
  BY DEF Free, SameSlot, TypeOK, SlotType
<1> QED BY <1>1, OneSlot

LEMMA OpenMoves ==
    ASSUME TypeOK, NEW r \in Requests, Open(r)
    PROVE  SlotsMove
<1>1. CASE GetDB(r)
  <2>1. /\ pc[r] # "idle" /\ UNCHANGED <<head, asOf, req>> /\ pc'[r] \in {"genesis", "opened"}
        /\ snap'[r] = [head |-> head[req[r].client], at |-> asOf[req[r].client]]
    BY <1>1 DEF GetDB, Rebased, TypeOK, SlotType
  <2>2. SlotMoves(r)
    BY <2>1 DEF SlotMoves
  <2>3. \A q \in Requests \ {r} : SameSlot(q)
    BY <1>1 DEF GetDB, SameSlot, TypeOK, SlotType
  <2> QED BY <2>2, <2>3, OneSlot
<1>2. CASE Genesis(r)
  <2>1. /\ pc[r] # "idle" /\ UNCHANGED req /\ pc'[r] = "opened"
        /\ snap'[r] = [head |-> head'[req[r].client], at |-> asOf'[req[r].client]]
    BY <1>2 DEF Genesis, Adopt, TypeOK, SlotType
  <2>2. SlotMoves(r)
    BY <2>1 DEF SlotMoves
  <2>3. \A q \in Requests \ {r} : SameSlot(q)
    BY <1>2 DEF Genesis, Adopt, SameSlot, TypeOK, SlotType
  <2> QED BY <2>2, <2>3, OneSlot
<1>3. CASE RejectEarly(r) \/ GenesisConflict(r) \/ RejectLate(r)
  BY <1>3, FreeMoves DEF RejectEarly, GenesisConflict, RejectLate
<1> QED BY <1>1, <1>2, <1>3 DEF Open

LEMMA ServeMoves ==
    ASSUME TypeOK, NEW r \in Requests, Serve(r)
    PROVE  SlotsMove
<1> DEFINE c == req[r].client
           Others == \A q \in Requests \ {r} : SameSlot(q)
<1>1. CASE Fetch(r)
  <2>1. PICK t \in AnswerTimes(c), o \in Omissions : cv' = [cv EXCEPT ![r] = Answer(c, t, o)]
    BY <1>1 DEF Fetch
  <2>2. cv'[r] = Answer(c, t, o)
    BY <2>1 DEF TypeOK, SlotType
  <2>3. /\ pc[r] = "opened" /\ UNCHANGED <<req, snap, layer, reply>>
        /\ pc' = [pc EXCEPT ![r] = "fetched"]
    BY <1>1 DEF Fetch
  <2>4. pc'[r] = "fetched"
    BY <2>3 DEF TypeOK, SlotType
  <2>5. SlotMoves(r)
    BY <2>1, <2>2, <2>3, <2>4 DEF SlotMoves, Opened
  <2>6. Others
    BY <2>1, <2>3 DEF SameSlot, TypeOK, SlotType
  <2> QED BY <2>5, <2>6, OneSlot
<1>2. CASE FetchFail(r) \/ Refuse(r)
  <2>1. pc[r] \in Opened /\ UNCHANGED <<req, snap>> /\ pc'[r] = "stored"
    BY <1>2 DEF FetchFail, Refuse, Opened, TypeOK, SlotType
  <2>2. SlotMoves(r)
    BY <2>1 DEF SlotMoves, Opened
  <2>3. Others
    BY <1>2 DEF FetchFail, Refuse, SameSlot, TypeOK, SlotType
  <2> QED BY <2>2, <2>3, OneSlot
<1>3. CASE Store(r)
  <2>1. pc[r] \in Opened /\ UNCHANGED req /\ pc'[r] = "stored"
    BY <1>3 DEF Store, Opened, TypeOK, SlotType
  <2>2. \/ UNCHANGED snap
        \/ snap'[r] = [head |-> head'[c], at |-> asOf'[c]]
    BY <1>3 DEF Store, Adopt, TypeOK, SlotType
  <2>3. SlotMoves(r)
    BY <2>1, <2>2 DEF SlotMoves, Opened
  <2>4. Others
    BY <1>3 DEF Store, Adopt, SameSlot, TypeOK, SlotType
  <2> QED BY <2>3, <2>4, OneSlot
<1>4. CASE InjectPut(r)
  BY <1>4, FreeMoves DEF InjectPut
<1>5. CASE Respond(r)
  <2>1. /\ pc[r] = "stored" /\ UNCHANGED req /\ pc'[r] = "replied"
        /\ reply'[r] \in {NopPull(r), PullResponse(r)}
    BY <1>5 DEF Respond, TypeOK, SlotType
  <2>2. SlotMoves(r)
    BY <2>1 DEF SlotMoves, Opened
  <2>3. Others
    BY <1>5 DEF Respond, SameSlot, TypeOK, SlotType
  <2> QED BY <2>2, <2>3, OneSlot
<1> QED BY <1>1, <1>2, <1>3, <1>4, <1>5 DEF Serve

LEMMA NextSlots ==
    ASSUME TypeOK, [Next]_vars
    PROVE  SlotsMove
<1>1. ASSUME NEW r \in Requests, NEW c \in Clients, NEW s \in Servers,
             SendPull(r, c, s) \/ SendInject(r, c, s)
      PROVE  SlotsMove
  <2>1. \/ \E form \in Forms :
              Begin(r, [kind |-> "pull", client |-> c, server |-> s, form |-> form,
                        base |-> client[c].state, sum |-> ChecksumOf(client[c].data),
                        lmid |-> client[c].lmid])
        \/ \E form \in Forms :
              Begin(r, [kind |-> "inject", client |-> c, server |-> s, form |-> form,
                        base |-> << >>, sum |-> {}, lmid |-> 0])
    BY <1>1 DEF SendPull, SendInject
  <2>2. /\ pc[r] = "idle" /\ pc'[r] = "arrived"
        /\ req'[r].client = c /\ req'[r].base \in {<< >>, client[c].state}
    BY <2>1 DEF Begin, TypeOK, SlotType
  <2>3. SlotMoves(r)
    BY <2>2 DEF SlotMoves
  <2>4. \A q \in Requests \ {r} : SameSlot(q)
    BY <1>1, <2>1 DEF SendPull, SendInject, Begin, SameSlot, TypeOK, SlotType
  <2> QED BY <2>3, <2>4, OneSlot
<1>2. ASSUME NEW r \in Requests, Deliver(r) \/ LoseReply(r) \/ Panic(r)
      PROVE  SlotsMove
  BY <1>2, FreeMoves DEF Deliver, LoseReply, Panic
<1>3. ASSUME NEW S, Kill(S)
      PROVE  SlotsMove
  BY <1>3 DEF Kill, SlotsMove, SlotMoves, Opened
<1>4. CASE ColdStart \/ \E s \in Servers : Crash(s)
  BY <1>3, <1>4 DEF ColdStart, Crash
<1>5. CASE UNCHANGED vars \/ \E c \in Clients : LayerChange(c) \/ DeleteClient(c) \/ Corrupt(c)
  <2>1. UNCHANGED <<pc, req, snap, cv, reply>>
    BY <1>5 DEF vars, LayerChange, DeleteClient, Corrupt, slot
  <2> QED BY <2>1 DEF SlotsMove, SlotMoves, Opened
<1> QED BY <1>1, <1>2, <1>4, <1>5, OpenMoves, ServeMoves DEF Next, Environment, Arrive

(* With a data layer that answers with its current view.                   *)
LEMMA CurrentAnswers ==
    ASSUME OnlyForward, NEW c, NEW t \in AnswerTimes(c), NEW o
    PROVE  Answer(c, t, o).at = Len(layer[c])
BY DEF OnlyForward, AnswerTimes, Answer

LEMMA NextTimes ==
    ASSUME TypeOK, DescentInv, TimesInv, OnlyForward, [Next]_vars
    PROVE  TimesInv'
<1>1. HeadsAdvance /\ SlotsMove
  BY NextAdvances, NextSlots
<1>2. \A q \in Requests : pc'[q] # "idle" => req'[q].kind = "pull"
  BY OnlyPulls DEF TimesInv, OnlyForward
<1>3. ASSUME NEW q \in Requests, pc'[q] \in Opened
      PROVE  LET c == req'[q].client
             IN  /\ snap'[q].at <= asOf'[c]
                 /\ Len(snap'[q].head) = Len(head'[c]) => snap'[q].at = asOf'[c]
                 /\ pc'[q] = "fetched" => snap'[q].at <= cv'[q].at /\ cv'[q].at <= Len(layer'[c])
  <2> DEFINE c == req[q].client
  <2>1. pc[q] # "idle" /\ req'[q] = req[q] /\ c \in Clients
    BY <1>1, <1>3, RequestTypes DEF SlotsMove, SlotMoves, Opened
  <2>2. CASE /\ pc'[q] # "fetched"
             /\ snap'[q] = [head |-> head'[c], at |-> asOf'[c]]
    <3>1. asOf'[c] \in Nat /\ snap'[q].at = asOf'[c]
      BY <2>1, <2>2, NextType DEF TypeOK, StoreType
    <3> QED BY <2>1, <2>2, <3>1
  <2>3. CASE /\ pc[q] \in Opened /\ snap'[q] = snap[q]
             /\ pc'[q] = "fetched" => \/ pc[q] = "fetched" /\ cv'[q] = cv[q]
                                      \/ cv'[q].at = Len(layer[c]) /\ UNCHANGED layer
    <3>1. /\ snap[q].at \in Nat /\ Len(snap[q].head) \in Nat /\ cv[q].at \in Nat
          /\ Len(head[c]) \in Nat /\ Len(head'[c]) \in Nat /\ asOf[c] \in Nat
          /\ asOf'[c] \in Nat /\ Len(layer[c]) \in Nat /\ Len(layer'[c]) \in Nat
      <4>1. TypeOK'
        BY NextType
      <4>2. /\ head[c] \in Commits /\ head'[c] \in Commits /\ asOf[c] \in Nat /\ asOf'[c] \in Nat
            /\ layer[c] \in Seq(LayerState) /\ layer'[c] \in Seq(LayerState)
        BY <2>1, <4>1 DEF TypeOK, StoreType, LayerType
      <4>3. snap[q].at \in Nat /\ snap[q].head \in Commits /\ cv[q].at \in Nat
        BY DEF TypeOK, SlotType, SnapSet, ViewSet
      <4>4. \A h \in Commits : Len(h) \in Nat
        BY DEF Commits
      <4>5. \A h \in Seq(LayerState) : Len(h) \in Nat
        OBVIOUS
      <4> QED BY <4>2, <4>3, <4>4, <4>5
    <3>2. Len(layer'[c]) >= Len(layer[c]) /\ asOf[c] <= Len(layer[c])
      BY <2>1, LayersGrow DEF TimesInv
    <3>3. /\ snap[q].at <= asOf[c]
          /\ Len(snap[q].head) = Len(head[c]) => snap[q].at = asOf[c]
          /\ pc[q] = "fetched" => snap[q].at <= cv[q].at /\ cv[q].at <= Len(layer[c])
      BY <2>1, <2>3 DEF TimesInv, Opened
    <3>4. Len(snap[q].head) <= Len(head[c])
      BY <2>1, <2>3 DEF DescentInv, IsAncestor, TimesInv, Opened
    <3>5. /\ asOf'[c] >= asOf[c] /\ Len(head[c]) <= Len(head'[c])
          /\ Len(head'[c]) = Len(head[c]) => asOf'[c] = asOf[c]
      BY <1>1, <2>1 DEF HeadsAdvance
    <3>6. snap[q].at <= asOf'[c]
      BY <3>1, <3>3, <3>5
    <3>7. Len(snap[q].head) = Len(head'[c]) => snap[q].at = asOf'[c]
      BY <3>1, <3>3, <3>4, <3>5
    <3>8. pc'[q] = "fetched" => snap[q].at <= cv'[q].at /\ cv'[q].at <= Len(layer'[c])
      <4>1. ASSUME pc[q] = "fetched", cv'[q] = cv[q]
            PROVE  snap[q].at <= cv'[q].at /\ cv'[q].at <= Len(layer'[c])
        <5>1. snap[q].at <= cv[q].at /\ cv[q].at <= Len(layer[c])
          BY <3>3, <4>1
        <5>2. cv'[q].at = cv[q].at
          BY <4>1
        <5>3. cv[q].at \in Nat /\ Len(layer[c]) \in Nat /\ Len(layer'[c]) \in Nat
              /\ Len(layer'[c]) >= Len(layer[c])
          BY <3>1, <3>2
        <5>4. cv[q].at <= Len(layer'[c])
          BY <5>1, <5>3
        <5> QED BY <5>1, <5>2, <5>4
      <4>2. ASSUME cv'[q].at = Len(layer[c]), UNCHANGED layer
            PROVE  snap[q].at <= cv'[q].at /\ cv'[q].at <= Len(layer'[c])
        BY <3>1, <3>2, <3>3, <4>2
      <4> QED BY <2>3, <4>1, <4>2
    <3> QED BY <2>1, <2>3, <3>6, <3>7, <3>8
  <2>4. \/ pc[q] \in Opened /\ snap'[q] = snap[q]
        \/ pc'[q] # "fetched" /\ snap'[q] = [head |-> head'[c], at |-> asOf'[c]]
    BY <1>1, <1>3, <2>1 DEF SlotsMove, SlotMoves, Opened
  <2>5. pc'[q] = "fetched" => \/ pc[q] = "fetched" /\ cv'[q] = cv[q]
                              \/ cv'[q].at = Len(layer[c]) /\ UNCHANGED layer
    <3>1. SUFFICES ASSUME pc'[q] = "fetched", ~(pc[q] = "fetched" /\ cv'[q] = cv[q])
                   PROVE  cv'[q].at = Len(layer[c]) /\ UNCHANGED layer
      OBVIOUS
    <3>2. PICK t \in AnswerTimes(c), o \in Omissions : UNCHANGED layer /\ cv'[q] = Answer(c, t, o)
      BY <1>1, <1>3, <2>1, <3>1 DEF SlotsMove, SlotMoves
    <3> QED BY <3>2, CurrentAnswers
  <2> QED BY <2>2, <2>3, <2>4, <2>5
<1> QED BY <1>1, <1>2, <1>3 DEF TimesInv, HeadsAdvance, Opened

(* A head is never replaced by an older view (pull, MaybePutData): of two  *)
(* handlers that fetched at different times, the one with the older view   *)
(* finds that its head is no longer that of the dataset.                   *)
THEOREM HeadsNeverOlder ==
    ASSUME OnlyForward
    PROVE  Spec => HeadNeverOlder
<1>1. Init => TypeOK /\ DescentInv /\ TimesInv
  <2>1. Init => DescentInv
    BY AncestorReflexive, DefaultFacts DEF Init, DescentInv
  <2>2. Init => TimesInv
    <3>1. Init => TypeOK
      BY InitType
    <3>2. TypeOK => \A c \in Clients : Len(layer[c]) \in Nat
      BY DEF TypeOK, LayerType
    <3> QED BY <3>1, <3>2 DEF Init, TimesInv
  <2> QED BY <2>1, <2>2, InitType
<1>2. TypeOK /\ DescentInv /\ TimesInv /\ [Next]_vars
        => (TypeOK /\ DescentInv /\ TimesInv)'
  BY NextType, NextDescends, NextTimes
<1>3. TypeOK /\ DescentInv /\ TimesInv /\ [Next]_vars
        => [\A c \in Clients : asOf'[c] >= asOf[c]]_vars
  BY NextAdvances DEF HeadsAdvance
<1> QED BY <1>1, <1>2, <1>3, PTL DEF Spec, HeadNeverOlder
===============================================================================

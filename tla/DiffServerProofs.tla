---------------------------- MODULE DiffServerProofs ----------------------------
(***************************************************************************)
(* Theorems about DiffServer, for every value of its constants.            *)
(***************************************************************************)
EXTENDS DiffServerProps, TLAPS

-------------------------------------------------------------------------------
(* The operators.                                                          *)

LEMMA ViewFacts ==
    /\ EmptyView \in Views
    /\ \A v \in Views : /\ DOMAIN v \in SUBSET Keys
                        /\ \A k \in DOMAIN v : v[k] \in Values
                        /\ v = [k \in DOMAIN v |-> v[k]]
    /\ \A D \in SUBSET Keys : \A f \in [D -> Values] : f \in Views
BY DEF Views, EmptyView

LEMMA ToNumberNat == \A n \in Nat : ToNumber(n) \in Nat
BY DEF ToNumber

LEMMA CommitFacts ==
    ASSUME NEW h \in Commits
    PROVE  LMIDOf(h) \in Nat /\ DataOf(h) \in Views
<1>1. h # << >> => h[Len(h)] \in Entry
  BY DEF Commits
<1>2. h # << >> => h[Len(h)].lmid \in Nat /\ h[Len(h)].data \in Views
  BY <1>1 DEF Entry
<1> QED BY <1>2, ViewFacts DEF LMIDOf, DataOf

LEMMA MakeCommitFacts ==
    ASSUME NEW h \in Commits, NEW date \in Dates, NEW data \in Views, NEW n \in Nat
    PROVE  /\ MakeCommit(h, date, data, n) \in Commits
           /\ LMIDOf(MakeCommit(h, date, data, n)) = ToNumber(n)
           /\ DataOf(MakeCommit(h, date, data, n)) = data
<1> DEFINE e == [lmid |-> ToNumber(n), data |-> data, date |-> date]
           new == Append(h, e)
<1>1. e \in Entry
  BY ToNumberNat DEF Entry
<1>2. new \in Commits /\ new # << >> /\ new[Len(new)] = e
  BY <1>1 DEF Commits
<1>3. MakeCommit(h, date, data, n) = new
  BY DEF MakeCommit
<1> HIDE DEF new
<1> QED BY <1>2, <1>3 DEF LMIDOf, DataOf

LEMMA PatchType ==
    ASSUME NEW b \in BOOLEAN, NEW from \in Views, NEW to \in Views
    PROVE  PatchBetween(b, from, to) \in Patches
BY ViewFacts DEF PatchBetween, Changed, Patches

LEMMA ApplyType ==
    ASSUME NEW v \in Views, NEW p \in Patches
    PROVE  ApplyPatch(v, p) \in Views
<1> DEFINE start == IF p.replace THEN EmptyView ELSE v
           D == (DOMAIN start \ p.del) \cup DOMAIN p.put
<1>1. start \in Views /\ p.put \in Views
  BY ViewFacts DEF Patches
<1>2. D \in SUBSET Keys
  BY <1>1, ViewFacts
<1>3. \A k \in D : (IF k \in DOMAIN p.put THEN p.put[k] ELSE start[k]) \in Values
  BY <1>1, ViewFacts
<1> QED BY <1>2, <1>3, ViewFacts DEF ApplyPatch

LEMMA ChecksumType ==
    ASSUME NEW v \in Views
    PROVE  ChecksumOf(v) \in Sums
BY ViewFacts DEF ChecksumOf, Sums

LEMMA DefaultFacts ==
    /\ NoSnap \in SnapSet
    /\ NoCV \in ViewSet
    /\ << >> \in Commits
    /\ NopPatch \in Patches
<1>1. << >> \in Commits
  BY DEF Commits
<1>2. NopPatch \in Patches
  BY ViewFacts, PatchType DEF NopPatch
<1>3. NoCV \in ViewSet
  BY ViewFacts DEF NoCV, ViewSet
<1> QED BY <1>1, <1>2, <1>3 DEF NoSnap, SnapSet

-------------------------------------------------------------------------------
(* Type correctness.                                                       *)

LEMMA FreeType ==
    ASSUME SlotType, NEW r \in Requests, Free(r)
    PROVE  SlotType'
BY DefaultFacts DEF SlotType, Free, Running

LEMMA KillType ==
    ASSUME SlotType, NEW S, Kill(S), \A r \in S : pc[r] \in Running
    PROVE  SlotType'
BY DefaultFacts DEF SlotType, Kill, Running

LEMMA BeginType ==
    ASSUME SlotType, NEW r \in Requests, NEW q \in RequestSet, Begin(r, q),
           cv' \in [Requests -> ViewSet], UNCHANGED <<snap, reply>>
    PROVE  SlotType'
BY DEF SlotType, Begin, Running

LEMMA FastForwardType ==
    ASSUME StoreType, NEW r \in Requests, req[r] \in RequestSet,
           NEW new \in Commits, NEW at \in Nat, FastForward(r, new, at)
    PROVE  StoreType'
BY DEF StoreType, FastForward, MoveHead, RequestSet

LEMMA AdoptType ==
    ASSUME SlotType, StoreType', NEW r \in Requests, req[r] \in RequestSet, Adopt(r)
    PROVE  snap' \in [Requests -> SnapSet]
BY DEF StoreType, SlotType, Adopt, RequestSet, SnapSet

LEMMA PutCommitType ==
    ASSUME StoreType, SlotType, NEW r \in Requests, req[r] \in RequestSet, PutCommit(r)
    PROVE  StoreType'
<1>1. snap[r].head \in Commits /\ cv[r].view \in Views /\ cv[r].lmid \in Nat /\ cv[r].at \in Nat
  BY DEF SlotType, SnapSet, ViewSet
<1>2. PICK date \in Dates : FastForward(r, NewCommit(r, date), cv[r].at)
  BY DEF PutCommit
<1>3. NewCommit(r, date) \in Commits
  BY <1>1, MakeCommitFacts DEF NewCommit
<1> QED BY <1>1, <1>2, <1>3, FastForwardType

LEMMA DiffType ==
    ASSUME SlotType, NEW r \in Requests, req[r] \in RequestSet, NEW to \in Commits
    PROVE  Diff(r, to) \in Patches
<1>1. DataOf(req[r].base) \in Views /\ DataOf(to) \in Views
  BY CommitFacts DEF RequestSet
<1>2. EmptyView \in Views
  BY ViewFacts
<1> QED BY <1>1, <1>2, PatchType DEF Diff

LEMMA AnswerType ==
    ASSUME LayerType, NEW c \in Clients, NEW t \in AnswerTimes(c), NEW o \in Omissions
    PROVE  Answer(c, t, o) \in ViewSet
<1>1. layer[c] \in Seq(LayerState) /\ layer[c] # << >>
  BY DEF LayerType
<1> DEFINE n == Len(layer[c])
<1>a. n \in Nat \ {0}
  BY <1>1
<1>b. t \in 1..n \/ t = n
  BY DEF AnswerTimes
<1> HIDE DEF n
<1>c. t \in 1..n
  BY <1>a, <1>b
<1> USE DEF n
<1>d. o \in BOOLEAN
  BY DEF Omissions
<1>2. t \in 1..Len(layer[c]) /\ o \in BOOLEAN
  BY <1>c, <1>d
<1>3. layer[c][t] \in LayerState
  BY <1>1, <1>2
<1> QED BY <1>2, <1>3 DEF Answer, LayerState, ViewSet

LEMMA ReplyType ==
    ASSUME SlotType, NEW r \in Requests, req[r] \in RequestSet
    PROVE  NopPull(r) \in ReplySet /\ PullResponse(r) \in ReplySet
<1>1. snap[r].head \in Commits /\ snap[r].at \in Nat
  BY DEF SlotType, SnapSet
<1>2. LMIDOf(snap[r].head) \in Nat /\ Diff(r, snap[r].head) \in Patches
  BY <1>1, CommitFacts, DiffType
<1>3. ChecksumOf(DataOf(snap[r].head)) \in Sums
  BY <1>1, CommitFacts, ChecksumType
<1> QED BY <1>1, <1>2, <1>3, DefaultFacts
        DEF NopPull, PullResponse, ReplySet, RequestSet, ErrorMessage

LEMMA InitType == Init => TypeOK
<1> SUFFICES ASSUME Init PROVE TypeOK
  OBVIOUS
<1>1. StoreType /\ SlotType /\ disruptions \in Nat
  BY DefaultFacts DEF Init, StoreType, SlotType, Running
<1>2. ClientType
  BY DefaultFacts, ViewFacts DEF Init, ClientType
<1>3. \A v \in Views : <<[lmid |-> 0, view |-> v]>> \in Seq(LayerState) \ {<< >>}
  BY DEF LayerState
<1>4. LayerType
  BY <1>3 DEF Init, LayerType
<1> QED BY <1>1, <1>2, <1>4 DEF TypeOK

(* Requests that arrive.                                                   *)
LEMMA ArriveType ==
    ASSUME TypeOK, NEW r \in Requests, Arrive(r)
    PROVE  TypeOK'
<1> USE DEF TypeOK, store, slot, clientSide
<1>1. PICK c \in Clients, s \in Servers : SendPull(r, c, s) \/ SendInject(r, c, s)
  BY DEF Arrive
<1>2. client[c].state \in Commits /\ client[c].data \in Views /\ client[c].lmid \in Nat
  BY DEF ClientType
<1>3. CASE SendPull(r, c, s)
  <2>1. PICK form \in Forms :
           Begin(r, [kind |-> "pull", client |-> c, server |-> s, form |-> form,
                     base |-> client[c].state, sum |-> ChecksumOf(client[c].data),
                     lmid |-> client[c].lmid])
    BY <1>3 DEF SendPull
  <2>2. [kind |-> "pull", client |-> c, server |-> s, form |-> form,
         base |-> client[c].state, sum |-> ChecksumOf(client[c].data),
         lmid |-> client[c].lmid] \in RequestSet
    BY <1>2, ChecksumType, FlagAssumption DEF RequestSet
  <2>3. SlotType'
    BY <1>3, <2>1, <2>2, BeginType DEF SendPull, SlotType
  <2> QED BY <1>3, <2>3 DEF SendPull, StoreType, ClientType, LayerType
<1>4. CASE SendInject(r, c, s)
  <2>1. PICK form \in Forms :
           Begin(r, [kind |-> "inject", client |-> c, server |-> s, form |-> form,
                     base |-> << >>, sum |-> {}, lmid |-> 0])
    BY <1>4 DEF SendInject
  <2>2. [kind |-> "inject", client |-> c, server |-> s, form |-> form,
         base |-> << >>, sum |-> {}, lmid |-> 0] \in RequestSet
    BY DefaultFacts, FlagAssumption DEF RequestSet, Sums
  <2>3. cv' \in [Requests -> ViewSet]
    <3>1. PICK n \in 0..MaxLMID, v \in Views :
             cv' = [cv EXCEPT ![r] = [NoCV EXCEPT !.ok = TRUE, !.lmid = n, !.view = v]]
      BY <1>4 DEF SendInject
    <3>2. [NoCV EXCEPT !.ok = TRUE, !.lmid = n, !.view = v] \in ViewSet
      <4>1. n \in Nat
        BY BoundAssumption
      <4> QED BY <4>1 DEF NoCV, ViewSet
    <3> QED BY <3>1, <3>2 DEF SlotType
  <2>4. SlotType'
    BY <1>4, <2>1, <2>2, <2>3, BeginType DEF SendInject
  <2>5. disruptions' \in Nat
    BY <1>4 DEF SendInject
  <2> QED BY <1>4, <2>4, <2>5 DEF SendInject, StoreType, ClientType, LayerType
<1> QED BY <1>1, <1>3, <1>4

(* A handler up to the database it opens.                                  *)
LEMMA OpenType ==
    ASSUME TypeOK, NEW r \in Requests, Open(r)
    PROVE  TypeOK'
<1> USE DEF TypeOK, store, slot, clientSide
<1>1. CASE RejectEarly(r)
  BY <1>1, FreeType DEF RejectEarly, StoreType, ClientType, LayerType
<1>2. CASE GetDB(r)
  <2>1. req[r].client \in Clients /\ req[r].server \in Servers
    BY <1>2 DEF GetDB, SlotType, RequestSet
  <2>2. StoreType'
    BY <1>2, <2>1 DEF GetDB, Rebased, StoreType
  <2>3. SlotType'
    BY <1>2, <2>1 DEF GetDB, Rebased, StoreType, SlotType, SnapSet, Running
  <2> QED BY <1>2, <2>2, <2>3 DEF GetDB, ClientType, LayerType
<1>3. CASE Genesis(r)
  <2>1. req[r] \in RequestSet
    BY <1>3 DEF Genesis, SlotType
  <2>2. PICK date \in Dates : FastForward(r, MakeCommit(<< >>, date, EmptyView, 0), 0)
    BY <1>3 DEF Genesis
  <2>3. MakeCommit(<< >>, date, EmptyView, 0) \in Commits
    BY DefaultFacts, ViewFacts, MakeCommitFacts
  <2>4. StoreType'
    BY <2>1, <2>2, <2>3, FastForwardType
  <2>5. snap' \in [Requests -> SnapSet]
    BY <1>3, <2>1, <2>4, AdoptType DEF Genesis
  <2>6. SlotType'
    BY <1>3, <2>1, <2>5 DEF Genesis, SlotType, Running
  <2> QED BY <1>3, <2>4, <2>6 DEF Genesis, ClientType, LayerType
<1>4. CASE GenesisConflict(r)
  BY <1>4, FreeType DEF GenesisConflict, StoreType, ClientType, LayerType
<1>5. CASE RejectLate(r)
  BY <1>5, FreeType DEF RejectLate, StoreType, ClientType, LayerType
<1> QED BY <1>1, <1>2, <1>3, <1>4, <1>5 DEF Open

(* A handler from the fetch to the answer.                                 *)
LEMMA ServeType ==
    ASSUME TypeOK, NEW r \in Requests, Serve(r)
    PROVE  TypeOK'
<1> USE DEF TypeOK, store, slot, clientSide
<1>1. CASE FetchFail(r)
  <2>1. [NoCV EXCEPT !.err = TRUE] \in ViewSet
    BY ViewFacts DEF NoCV, ViewSet
  <2>2. SlotType'
    BY <1>1, <2>1 DEF FetchFail, SlotType, Running
  <2> QED BY <1>1, <2>2 DEF FetchFail, StoreType, ClientType, LayerType
<1>2. CASE Fetch(r)
  <2>1. req[r].client \in Clients
    BY <1>2 DEF Fetch, SlotType, RequestSet
  <2>2. PICK t \in AnswerTimes(req[r].client), o \in Omissions :
           cv' = [cv EXCEPT ![r] = Answer(req[r].client, t, o)]
    BY <1>2 DEF Fetch
  <2>3. Answer(req[r].client, t, o) \in ViewSet
    BY <2>1, AnswerType
  <2>4. SlotType'
    BY <1>2, <2>2, <2>3 DEF Fetch, SlotType, Running
  <2> QED BY <1>2, <2>4 DEF Fetch, StoreType, ClientType, LayerType
<1>3. CASE Refuse(r)
  <2>1. SlotType'
    BY <1>3 DEF Refuse, SlotType, Running
  <2> QED BY <1>3, <2>1 DEF Refuse, StoreType, ClientType, LayerType
<1>4. CASE Store(r)
  <2>1. req[r] \in RequestSet
    BY <1>4 DEF Store, SlotType
  <2>2. cv' \in [Requests -> ViewSet]
    <3>1. [cv[r] EXCEPT !.err = TRUE] \in ViewSet
      BY DEF SlotType, ViewSet
    <3>2. UNCHANGED cv \/ cv' = [cv EXCEPT ![r].err = TRUE]
      BY <1>4 DEF Store
    <3> QED BY <3>1, <3>2 DEF SlotType
  <2>3. StoreType' /\ snap' \in [Requests -> SnapSet]
    <3>1. CASE UNCHANGED store /\ UNCHANGED snap
      BY <3>1 DEF StoreType, SlotType
    <3>2. CASE PutCommit(r) /\ Adopt(r)
      BY <2>1, <3>2, PutCommitType, AdoptType
    <3> QED BY <1>4, <3>1, <3>2 DEF Store, PutNop, PutConflict
  <2>4. SlotType'
    BY <1>4, <2>1, <2>2, <2>3 DEF Store, SlotType, Running
  <2> QED BY <1>4, <2>3, <2>4 DEF Store, ClientType, LayerType
<1>5. CASE InjectPut(r)
  <2>1. req[r] \in RequestSet
    BY <1>5 DEF InjectPut, SlotType
  <2>2. StoreType'
    <3>1. CASE UNCHANGED store
      BY <3>1 DEF StoreType
    <3>2. CASE PutCommit(r)
      BY <2>1, <3>2, PutCommitType
    <3> QED BY <1>5, <3>1, <3>2 DEF InjectPut, PutNop, PutConflict
  <2>3. SlotType'
    BY <1>5, FreeType DEF InjectPut
  <2> QED BY <1>5, <2>2, <2>3 DEF InjectPut, ClientType, LayerType
<1>6. CASE Respond(r)
  <2>1. req[r] \in RequestSet
    BY <1>6 DEF Respond, SlotType
  <2>2. [NoCV EXCEPT !.err = cv[r].err] \in ViewSet
    BY ViewFacts DEF SlotType, NoCV, ViewSet
  <2>3. reply' \in [Requests -> ReplySet \cup {NoReply}] /\ reply'[r] \in ReplySet
    BY <1>6, <2>1, ReplyType DEF Respond, SlotType
  <2>4. SlotType'
    BY <1>6, <2>1, <2>2, <2>3, DefaultFacts DEF Respond, SlotType, Running
  <2> QED BY <1>6, <2>4 DEF Respond, StoreType, ClientType, LayerType
<1> QED BY <1>1, <1>2, <1>3, <1>4, <1>5, <1>6 DEF Serve

(* Answers delivered and lost.                                             *)
LEMMA DeliverType ==
    ASSUME TypeOK, NEW r \in Requests, Deliver(r) \/ LoseReply(r)
    PROVE  TypeOK'
<1> USE DEF TypeOK, store, slot, clientSide
<1>1. CASE LoseReply(r)
  BY <1>1, FreeType DEF LoseReply, StoreType, ClientType, LayerType
<1>2. CASE Deliver(r)
  <2> DEFINE c == req[r].client
             p == reply[r]
             held == [state |-> p.state, lmid |-> p.lmid,
                      data |-> ApplyPatch(client[c].data, p.patch)]
  <2>1. p \in ReplySet /\ c \in Clients
    BY <1>2 DEF Deliver, SlotType, RequestSet
  <2>2. client[c].data \in Views /\ p.patch \in Patches
    BY <2>1 DEF ClientType, ReplySet
  <2>3. held \in [state : Commits, data : Views, lmid : Nat]
    BY <2>1, <2>2, ApplyType DEF ReplySet
  <2>4. client' \in [Clients -> [state : Commits, data : Views, lmid : Nat]]
    BY <1>2, <2>3 DEF Deliver, ClientType
  <2>5. seen' \in [Clients -> Nat] /\ dirty' \in [Clients -> BOOLEAN]
    BY <1>2, <2>1 DEF Deliver, ClientType, ReplySet
  <2>6. SlotType'
    BY <1>2, FreeType DEF Deliver
  <2> QED BY <1>2, <2>4, <2>5, <2>6 DEF Deliver, ClientType, StoreType, LayerType
<1> QED BY <1>1, <1>2

(* The data layer and the disruptions.                                     *)
LEMMA EnvironmentType ==
    ASSUME TypeOK, Environment
    PROVE  TypeOK'
<1> USE DEF TypeOK, store, slot, clientSide
<1>1. ASSUME NEW c \in Clients, LayerChange(c)
      PROVE  TypeOK'
  <2>1. layer[c] \in Seq(LayerState) /\ layer[c] # << >>
    BY DEF LayerType
  <2> DEFINE last == layer[c][Len(layer[c])]
  <2>a. last \in LayerState
    BY <2>1
  <2>2. layer[c][Len(layer[c])].lmid \in Nat
    BY <2>a DEF LayerState
  <2>3. PICK n \in layer[c][Len(layer[c])].lmid..MaxLMID, v \in Views :
           layer' = [layer EXCEPT ![c] = Append(@, [lmid |-> n, view |-> v])]
    BY <1>1 DEF LayerChange
  <2>4. [lmid |-> n, view |-> v] \in LayerState
    BY <2>2, BoundAssumption DEF LayerState
  <2>5. Append(layer[c], [lmid |-> n, view |-> v]) \in Seq(LayerState) \ {<< >>}
    BY <2>1, <2>4
  <2>6. LayerType'
    BY <2>3, <2>5 DEF LayerType
  <2> QED BY <1>1, <2>6 DEF LayerChange, StoreType, SlotType, ClientType
<1>2. ASSUME NEW c \in Clients, DeleteClient(c)
      PROVE  TypeOK'
  <2>1. StoreType'
    BY <1>2, DefaultFacts DEF DeleteClient, StoreType
  <2> QED BY <1>2, <2>1 DEF DeleteClient, Disrupt, SlotType, ClientType, LayerType
<1>3. ASSUME NEW c \in Clients, Corrupt(c)
      PROVE  TypeOK'
  <2>1. ClientType'
    BY <1>3 DEF Corrupt, ClientType
  <2> QED BY <1>3, <2>1 DEF Corrupt, Disrupt, StoreType, SlotType, LayerType
<1>4. ASSUME NEW s \in Servers, Crash(s)
      PROVE  TypeOK'
  <2>1. SlotType'
    BY <1>4, KillType DEF Crash
  <2>2. StoreType'
    BY <1>4 DEF Crash, StoreType
  <2> QED BY <1>4, <2>1, <2>2 DEF Crash, Disrupt, ClientType, LayerType
<1>5. ASSUME NEW r \in Requests, Panic(r)
      PROVE  TypeOK'
  BY <1>5, FreeType DEF Panic, Disrupt, StoreType, ClientType, LayerType
<1>6. CASE ColdStart
  <2>1. SlotType'
    BY <1>6, KillType DEF ColdStart
  <2>2. StoreType'
    BY <1>6, DefaultFacts DEF ColdStart, StoreType
  <2> QED BY <1>6, <2>1, <2>2 DEF ColdStart, Disrupt, ClientType, LayerType
<1> QED BY <1>1, <1>2, <1>3, <1>4, <1>5, <1>6 DEF Environment

LEMMA NextType == TypeOK /\ [Next]_vars => TypeOK'
<1> SUFFICES ASSUME TypeOK, [Next]_vars PROVE TypeOK'
  OBVIOUS
<1>1. ASSUME NEW r \in Requests,
             Arrive(r) \/ Open(r) \/ Serve(r) \/ Deliver(r) \/ LoseReply(r)
      PROVE  TypeOK'
  BY <1>1, ArriveType, OpenType, ServeType, DeliverType
<1>2. CASE Environment
  BY <1>2, EnvironmentType
<1>3. CASE UNCHANGED vars
  BY <1>3 DEF vars, store, slot, clientSide, TypeOK, StoreType, SlotType, ClientType, LayerType
<1> QED BY <1>1, <1>2, <1>3 DEF Next

(* Every reachable state is well typed: the store holds commits, a request *)
(* in flight is a request, an answer on its way is an answer.              *)
THEOREM TypeCorrect == Spec => []TypeOK
BY InitType, NextType, PTL DEF Spec

-------------------------------------------------------------------------------
(* Patches.                                                                *)

(* A difference applied to the map it was computed from gives the map it   *)
(* was computed to.                                                        *)
LEMMA PatchApplies ==
    ASSUME NEW from \in Views, NEW to \in Views
    PROVE  ApplyPatch(from, PatchBetween(FALSE, from, to)) = to
<1> DEFINE p == PatchBetween(FALSE, from, to)
           D == (DOMAIN from \ p.del) \cup DOMAIN p.put
           f(k) == IF k \in DOMAIN p.put THEN p.put[k] ELSE from[k]
<1>1. /\ p.replace = FALSE
      /\ p.put = [k \in Changed(from, to) |-> to[k]]
      /\ p.del = DOMAIN from \ DOMAIN to
  BY DEF PatchBetween
<1>2. ApplyPatch(from, p) = [k \in D |-> f(k)]
  BY <1>1 DEF ApplyPatch
<1>3. DOMAIN to = D
  BY <1>1 DEF Changed
<1>4. \A k \in D : to[k] = f(k)
  BY <1>1, <1>3 DEF Changed
<1>5. to = [k \in DOMAIN to |-> to[k]]
  BY ViewFacts
<1> HIDE DEF p, D, f
<1>6. [k \in D |-> f(k)] = [k \in D |-> to[k]]
  BY <1>4
<1> QED BY <1>2, <1>3, <1>5, <1>6 DEF p

(* A full sync gives the map, whatever the client held.                    *)
LEMMA FullSyncApplies ==
    ASSUME NEW v \in Views, NEW to \in Views
    PROVE  ApplyPatch(v, PatchBetween(TRUE, EmptyView, to)) = to
<1> DEFINE p == PatchBetween(TRUE, EmptyView, to)
           D == (DOMAIN EmptyView \ p.del) \cup DOMAIN p.put
           f(k) == IF k \in DOMAIN p.put THEN p.put[k] ELSE EmptyView[k]
<1>1. /\ p.replace = TRUE
      /\ p.put = [k \in Changed(EmptyView, to) |-> to[k]]
      /\ p.del = DOMAIN EmptyView \ DOMAIN to
  BY DEF PatchBetween
<1>2. ApplyPatch(v, p) = [k \in D |-> f(k)]
  BY <1>1 DEF ApplyPatch
<1>3. DOMAIN to = D
  BY <1>1 DEF Changed, EmptyView
<1>4. \A k \in D : to[k] = f(k)
  BY <1>1, <1>3 DEF Changed, EmptyView
<1>5. to = [k \in DOMAIN to |-> to[k]]
  BY ViewFacts
<1> HIDE DEF p, D, f
<1>6. [k \in D |-> f(k)] = [k \in D |-> to[k]]
  BY <1>4
<1> QED BY <1>2, <1>3, <1>5, <1>6 DEF p

(* The empty patch of a nop changes nothing.                               *)
LEMMA NopApplies ==
    ASSUME NEW v \in Views
    PROVE  ApplyPatch(v, NopPatch) = v
<1>1. /\ NopPatch.replace = FALSE
      /\ DOMAIN NopPatch.put = {}
      /\ NopPatch.del = {}
  BY DEF NopPatch, PatchBetween, Changed, EmptyView
<1>2. ApplyPatch(v, NopPatch) = [k \in DOMAIN v |-> v[k]]
  BY <1>1 DEF ApplyPatch
<1> QED BY <1>2, ViewFacts

-------------------------------------------------------------------------------
(* Clients stay consistent.                                                *)

ClientsMatch == ClientLMIDMatches /\ (DamageIsSeen => ClientDataMatches)

LEMMA InitConsistent == Init => ConsistencyInv
BY DEF Init, ConsistencyInv, ClientLMIDMatches, ClientDataMatches, OnlyCorruptDamages, KindsMatch,
       RequestsMatch, SumsMatch, RepliesMatch, LMIDOf, DataOf

(* A step that begins no request, makes no answer and leaves clients alone.*)
LEMMA QuietStep ==
    ASSUME ConsistencyInv, UNCHANGED clientSide,
           \A q \in Requests : pc'[q] # "idle" => pc[q] # "idle" /\ req'[q] = req[q],
           \A q \in Requests :
              pc'[q] \in {"fetched", "stored", "replied"} => req[q].kind = "pull",
           \A q \in Requests : pc'[q] = "replied" => pc[q] = "replied" /\ reply'[q] = reply[q]
    PROVE  ConsistencyInv'
<1> USE DEF ConsistencyInv, ClientsMatch, clientSide
<1>1. ClientsMatch' /\ OnlyCorruptDamages'
  BY DEF ClientsMatch, ClientLMIDMatches, ClientDataMatches, OnlyCorruptDamages
<1>2. KindsMatch'
  BY DEF KindsMatch
<1>3. RequestsMatch'
  BY DEF RequestsMatch
<1>4. (DamageIsSeen => SumsMatch)'
  BY DEF SumsMatch
<1>5. RepliesMatch'
  BY DEF RepliesMatch, ReplyMatches
<1> QED BY <1>1, <1>2, <1>3, <1>4, <1>5

LEMMA ArriveConsistent ==
    ASSUME TypeOK, ConsistencyInv, NEW r \in Requests, Arrive(r)
    PROVE  ConsistencyInv'
<1> USE DEF ConsistencyInv, ClientsMatch, clientSide
<1>0. /\ UNCHANGED <<clientSide, reply>>
      /\ pc[r] = "idle"
      /\ pc' = [pc EXCEPT ![r] = "arrived"]
      /\ req' = [req EXCEPT ![r] = req'[r]]
      /\ \/ \E c \in Clients : /\ req'[r].client = c
                               /\ req'[r].base = client[c].state
                               /\ req'[r].sum = ChecksumOf(client[c].data)
                               /\ req'[r].lmid = client[c].lmid
         \/ req'[r].kind = "inject" /\ req'[r].base = << >> /\ req'[r].lmid = 0
  <2>1. PICK c \in Clients, s \in Servers : SendPull(r, c, s) \/ SendInject(r, c, s)
    BY DEF Arrive
  <2>2. CASE SendPull(r, c, s)
    <3>1. PICK form \in Forms :
             Begin(r, [kind |-> "pull", client |-> c, server |-> s, form |-> form,
                       base |-> client[c].state, sum |-> ChecksumOf(client[c].data),
                       lmid |-> client[c].lmid])
      BY <2>2 DEF SendPull
    <3> QED BY <2>2, <3>1 DEF SendPull, Begin, TypeOK, SlotType
  <2>3. CASE SendInject(r, c, s)
    <3>1. PICK form \in Forms :
             Begin(r, [kind |-> "inject", client |-> c, server |-> s, form |-> form,
                       base |-> << >>, sum |-> {}, lmid |-> 0])
      BY <2>3 DEF SendInject
    <3> QED BY <2>3, <3>1 DEF SendInject, Begin, TypeOK, SlotType
  <2> QED BY <2>1, <2>2, <2>3
<1>1. ClientsMatch' /\ OnlyCorruptDamages'
  BY <1>0 DEF ClientsMatch, ClientLMIDMatches, ClientDataMatches, OnlyCorruptDamages
<1>2. KindsMatch'
  BY <1>0 DEF KindsMatch, TypeOK, SlotType
<1>3. RequestsMatch'
  BY <1>0 DEF RequestsMatch, TypeOK, SlotType, ClientLMIDMatches, LMIDOf
<1>4. (DamageIsSeen => SumsMatch)'
  BY <1>0 DEF SumsMatch, TypeOK, SlotType
<1>5. RepliesMatch'
  BY <1>0 DEF RepliesMatch, ReplyMatches, TypeOK, SlotType
<1> QED BY <1>1, <1>2, <1>3, <1>4, <1>5

LEMMA FreeConsistent ==
    ASSUME TypeOK, ConsistencyInv, NEW r \in Requests, Free(r), UNCHANGED clientSide
    PROVE  ConsistencyInv'
<1>1. \A q \in Requests : pc'[q] # "idle" => pc'[q] = pc[q] /\ req'[q] = req[q]
                                             /\ reply'[q] = reply[q]
  BY DEF Free, TypeOK, SlotType
<1> QED BY <1>1, QuietStep DEF ConsistencyInv, KindsMatch

LEMMA OpenConsistent ==
    ASSUME TypeOK, ConsistencyInv, NEW r \in Requests, Open(r)
    PROVE  ConsistencyInv'
<1>1. CASE RejectEarly(r) \/ GenesisConflict(r) \/ RejectLate(r)
  BY <1>1, FreeConsistent DEF RejectEarly, GenesisConflict, RejectLate
<1>2. CASE GetDB(r) \/ Genesis(r)
  <2>1. /\ UNCHANGED <<clientSide, req, reply>>
        /\ pc[r] # "idle"
        /\ \A q \in Requests : \/ pc'[q] = pc[q]
                               \/ q = r /\ pc'[q] \in {"genesis", "opened"}
    BY <1>2 DEF GetDB, Genesis, TypeOK, SlotType
  <2> QED BY <2>1, QuietStep DEF ConsistencyInv, KindsMatch
<1> QED BY <1>1, <1>2 DEF Open

(* Ending a request leaves what holds of the others as it was.             *)
LEMMA OthersStay ==
    ASSUME ConsistencyInv, NEW r \in Requests, pc'[r] = "idle",
           \A k \in Requests : k # r => pc'[k] = pc[k] /\ req'[k] = req[k]
                                                     /\ reply'[k] = reply[k]
    PROVE  KindsMatch' /\ RequestsMatch' /\ RepliesMatch'
<1>1. \A k \in Requests : pc'[k] # "idle" => pc'[k] = pc[k] /\ req'[k] = req[k]
                                                         /\ reply'[k] = reply[k]
  OBVIOUS
<1>2. KindsMatch'
  BY <1>1 DEF ConsistencyInv, KindsMatch
<1>3. RequestsMatch'
  BY <1>1 DEF ConsistencyInv, RequestsMatch
<1>4. ASSUME NEW k \in Requests, pc'[k] = "replied"
      PROVE  ReplyMatches(reply'[k], req'[k])
  <2>1. ReplyMatches(reply[k], req[k])
    BY <1>1, <1>4 DEF ConsistencyInv, RepliesMatch
  <2>2. reply'[k] = reply[k] /\ req'[k] = req[k]
    BY <1>1, <1>4
  <2> QED BY <2>1, <2>2
<1>5. RepliesMatch'
  BY <1>4 DEF RepliesMatch
<1> QED BY <1>2, <1>3, <1>5

(* The answer of Respond.                                                  *)
LEMMA RespondConsistent ==
    ASSUME TypeOK, ConsistencyInv, NEW r \in Requests, Respond(r)
    PROVE  ConsistencyInv'
<1> USE DEF ConsistencyInv, ClientsMatch, clientSide
<1>0. /\ UNCHANGED <<clientSide, req>>
      /\ pc[r] = "stored"
      /\ \A q \in Requests : \/ pc'[q] = pc[q] /\ reply'[q] = reply[q]
                             \/ q = r /\ pc'[q] = "replied"
      /\ reply'[r] = IF BehindClient(r) THEN NopPull(r) ELSE PullResponse(r)
  BY DEF Respond, TypeOK, SlotType
<1>1. ClientsMatch' /\ OnlyCorruptDamages'
  BY <1>0 DEF ClientsMatch, ClientLMIDMatches, ClientDataMatches, OnlyCorruptDamages
<1>2. KindsMatch'
  BY <1>0 DEF KindsMatch
<1>3. RequestsMatch'
  BY <1>0 DEF RequestsMatch
<1>4. (DamageIsSeen => SumsMatch)'
  BY <1>0 DEF SumsMatch
<1>5. req[r].lmid = LMIDOf(req[r].base) /\ req[r].lmid \in Nat
  BY <1>0 DEF RequestsMatch, TypeOK, SlotType, RequestSet
<1>6. LMIDOf(snap[r].head) \in Nat
  BY CommitFacts DEF TypeOK, SlotType, SnapSet
<1>7. CASE BehindClient(r)
  <2>1. ReplyMatches(NopPull(r), req[r])
    BY <1>5 DEF NopPull, ReplyMatches
  <2> QED BY <1>0, <1>1, <1>2, <1>3, <1>4, <1>7, <2>1 DEF RepliesMatch
<1>8. CASE ~BehindClient(r)
  <2>1. LMIDOf(snap[r].head) >= req[r].lmid
    BY <1>5, <1>6, <1>8 DEF BehindClient
  <2>2. ReplyMatches(PullResponse(r), req[r])
    BY <2>1 DEF PullResponse, ReplyMatches, Diff, KnownBasis
  <2> QED BY <1>0, <1>1, <1>2, <1>3, <1>4, <1>8, <2>2 DEF RepliesMatch
<1> QED BY <1>7, <1>8

LEMMA ServeConsistent ==
    ASSUME TypeOK, ConsistencyInv, NEW r \in Requests, Serve(r)
    PROVE  ConsistencyInv'
<1>1. CASE Respond(r)
  BY <1>1, RespondConsistent
<1>2. CASE InjectPut(r)
  BY <1>2, FreeConsistent DEF InjectPut
<1>3. CASE FetchFail(r) \/ Fetch(r) \/ Refuse(r) \/ Store(r)
  <2>1. /\ UNCHANGED <<clientSide, req, reply>>
        /\ pc[r] # "idle"
        /\ req[r].kind = "pull"
        /\ \A q \in Requests : \/ pc'[q] = pc[q]
                               \/ q = r /\ pc'[q] \in {"fetched", "stored"}
    BY <1>3 DEF FetchFail, Fetch, Refuse, Store, TypeOK, SlotType,
                ConsistencyInv, KindsMatch
  <2> QED BY <2>1, QuietStep DEF ConsistencyInv, KindsMatch
<1> QED BY <1>1, <1>2, <1>3 DEF Serve

(* An answer that is delivered.  A patch that is not a full sync was       *)
(* computed from the commit named in the request, whose checksum was that  *)
(* of the client's data.                                                   *)
LEMMA DeliverConsistent ==
    ASSUME TypeOK, ConsistencyInv, NEW r \in Requests, Deliver(r)
    PROVE  /\ ConsistencyInv'
           /\ \A c \in Clients : client'[c].lmid >= client[c].lmid
<1> DEFINE c == req[r].client
           p == reply[r]
           q == req[r]
<1> USE DEF ConsistencyInv, ClientsMatch
<1>0. pc[r] = "replied" /\ q \in RequestSet /\ c \in Clients /\ p \in ReplySet
  BY DEF Deliver, TypeOK, SlotType, RequestSet
<1>1. ReplyMatches(p, q)
  BY <1>0 DEF RepliesMatch
<1>2. /\ client[c].data \in Views /\ client[c].lmid \in Nat
      /\ DataOf(q.base) \in Views /\ DataOf(p.state) \in Views
  BY <1>0, CommitFacts DEF TypeOK, ClientType, RequestSet, ReplySet
<1>3. CASE UNCHANGED clientSide
  <2>1. ConsistencyInv'
    BY <1>3, FreeConsistent DEF Deliver
  <2>2. \A d \in Clients : client[d].lmid \in Nat /\ client'[d] = client[d]
    BY <1>3 DEF clientSide, TypeOK, ClientType
  <2> QED BY <2>1, <2>2
<1>4. CASE q.base = client[c].state
  <2>1. client' = [client EXCEPT ![c] =
                     [state |-> p.state, lmid |-> p.lmid,
                      data |-> ApplyPatch(client[c].data, p.patch)]]
    BY <1>4 DEF Deliver
  <2>2. client'[c].state = p.state /\ client'[c].lmid = p.lmid
        /\ client'[c].data = ApplyPatch(client[c].data, p.patch)
        /\ \A d \in Clients \ {c} : client'[d] = client[d]
    BY <1>0, <2>1 DEF TypeOK, ClientType
  <2>3. /\ \A d \in Clients \ {c} : dirty'[d] = dirty[d]
        /\ dirty'[c] = IF p.nop THEN dirty[c] ELSE FALSE
    BY <1>0, <1>4 DEF Deliver, TypeOK, ClientType
  <2>4. CASE p.nop
    <3>1. p.state = q.base /\ p.patch = NopPatch
      BY <1>1, <2>4 DEF ReplyMatches
    <3>2. p.lmid = client[c].lmid
      BY <1>0, <1>1, <1>4, <3>1 DEF ReplyMatches, ClientLMIDMatches
    <3>3. client'[c].data = client[c].data
      BY <1>2, <2>2, <3>1, NopApplies
    <3>4. \A d \in Clients : /\ client'[d].state = client[d].state
                             /\ client'[d].data = client[d].data
                             /\ client'[d].lmid = client[d].lmid
                             /\ dirty'[d] = dirty[d]
      BY <1>4, <2>2, <2>3, <2>4, <3>1, <3>2, <3>3
    <3> HIDE DEF c, p, q
    <3>5. ClientsMatch' /\ OnlyCorruptDamages'
      BY <3>4 DEF ClientsMatch, ClientLMIDMatches, ClientDataMatches, OnlyCorruptDamages
    <3>6. /\ \A k \in Requests : k # r => pc'[k] = pc[k] /\ req'[k] = req[k]
                                          /\ reply'[k] = reply[k]
          /\ pc'[r] = "idle"
      BY DEF Deliver, Free, TypeOK, SlotType
    <3>7. KindsMatch' /\ RequestsMatch' /\ RepliesMatch'
      BY <3>6, OthersStay
    <3>8. (DamageIsSeen => SumsMatch)'
      BY <3>4, <3>6 DEF SumsMatch, TypeOK, SlotType, RequestSet
    <3>9. \A d \in Clients : client[d].lmid \in Nat
      BY DEF TypeOK, ClientType
    <3> QED BY <3>4, <3>5, <3>7, <3>8, <3>9
  <2>5. CASE ~p.nop
    <3>1. DamageIsSeen => client'[c].data = DataOf(p.state)
      <4> SUFFICES ASSUME DamageIsSeen PROVE client'[c].data = DataOf(p.state)
        OBVIOUS
      <4>1. CASE p.patch = PatchBetween(TRUE, EmptyView, DataOf(p.state))
        BY <1>2, <2>2, <4>1, FullSyncApplies
      <4>2. CASE /\ p.patch = PatchBetween(FALSE, DataOf(q.base), DataOf(p.state))
                 /\ ChecksumOf(DataOf(q.base)) = q.sum
        <5>1. client[c].data = DataOf(q.base)
          <6>1. q.sum = ChecksumOf(client[c].data) \/ client[c].data = DataOf(q.base)
            BY <1>0, <1>4 DEF SumsMatch, KindsMatch
          <6>2. CASE NoCollisions
            BY <1>2, <4>2, <6>1, <6>2 DEF NoCollisions
          <6>3. CASE "corrupt" \notin Faults
            BY <1>0, <1>4, <6>3 DEF OnlyCorruptDamages, ClientDataMatches
          <6> QED BY <6>2, <6>3 DEF DamageIsSeen
        <5> QED BY <1>2, <2>2, <4>2, <5>1, PatchApplies
      <4> QED BY <1>1, <2>5, <4>1, <4>2 DEF ReplyMatches
    <3>2. p.lmid = LMIDOf(p.state)
      BY <1>1 DEF ReplyMatches
    <3>3. \A d \in Clients : client'[d].lmid >= client[d].lmid
      <4>1. client[c].lmid = q.lmid /\ p.lmid >= q.lmid
        BY <1>0, <1>1, <1>4 DEF ClientLMIDMatches, RequestsMatch, ReplyMatches
      <4>2. \A d \in Clients : client[d].lmid \in Nat
        BY DEF TypeOK, ClientType
      <4> QED BY <2>2, <4>1, <4>2
    <3>4. ClientsMatch' /\ OnlyCorruptDamages'
      BY <2>2, <2>3, <2>5, <3>1, <3>2 DEF ClientsMatch, ClientLMIDMatches, ClientDataMatches, OnlyCorruptDamages
    <3>5. /\ \A k \in Requests : k # r => pc'[k] = pc[k] /\ req'[k] = req[k]
                                          /\ reply'[k] = reply[k]
          /\ pc'[r] = "idle"
      BY DEF Deliver, Free, TypeOK, SlotType
    <3>6. KindsMatch' /\ RequestsMatch' /\ RepliesMatch'
      BY <3>5, OthersStay
    <3>7. (DamageIsSeen => SumsMatch)'
      <4> SUFFICES ASSUME DamageIsSeen, NEW k \in Requests, pc'[k] # "idle", req'[k].kind = "pull",
                          req'[k].base = client'[req'[k].client].state
                   PROVE  \/ req'[k].sum = ChecksumOf(client'[req'[k].client].data)
                          \/ client'[req'[k].client].data = DataOf(req'[k].base)
        BY DEF SumsMatch
      <4>1. k # r /\ pc[k] # "idle" /\ req'[k] = req[k] /\ req[k].client \in Clients
        BY <3>5 DEF TypeOK, SlotType, RequestSet
      <4>2. CASE req[k].client = c
        BY <2>2, <3>1, <4>1, <4>2
      <4>3. CASE req[k].client # c
        <5>1. client'[req[k].client] = client[req[k].client]
          BY <2>2, <4>1, <4>3
        <5> QED BY <4>1, <5>1 DEF SumsMatch
      <4> QED BY <4>2, <4>3
    <3> QED BY <3>3, <3>4, <3>6, <3>7
  <2> QED BY <2>4, <2>5
<1> QED BY <1>3, <1>4 DEF Deliver

LEMMA EnvironmentConsistent ==
    ASSUME TypeOK, ConsistencyInv, Environment
    PROVE  /\ ConsistencyInv'
           /\ \A c \in Clients : client'[c].lmid = client[c].lmid
<1>1. CASE \E c \in Clients : LayerChange(c) \/ DeleteClient(c)
  <2>1. UNCHANGED <<slot, clientSide>>
    BY <1>1 DEF LayerChange, DeleteClient
  <2> QED BY <2>1, QuietStep DEF slot, clientSide, ConsistencyInv, KindsMatch
<1>2. CASE ColdStart \/ \E s \in Servers : Crash(s)
  <2>1. PICK S : Kill(S)
    BY <1>2 DEF ColdStart, Crash
  <2>2. UNCHANGED clientSide
    BY <1>2 DEF ColdStart, Crash
  <2>3. \A q \in Requests : pc'[q] # "idle" => pc'[q] = pc[q] /\ req'[q] = req[q]
                                               /\ reply'[q] = reply[q]
    BY <2>1 DEF Kill
  <2> QED BY <2>2, <2>3, QuietStep DEF clientSide, ConsistencyInv, KindsMatch
<1>3. CASE \E c \in Clients : Corrupt(c)
  <2>1. PICK c \in Clients : Corrupt(c)
    BY <1>3
  <2>2. /\ "corrupt" \in Faults
        /\ UNCHANGED slot
        /\ \A r \in Requests : pc[r] # "idle" => req[r].client # c
        /\ dirty'[c] = TRUE
        /\ \A d \in Clients : /\ client'[d].state = client[d].state
                               /\ client'[d].lmid = client[d].lmid
        /\ \A d \in Clients \ {c} : client'[d] = client[d] /\ dirty'[d] = dirty[d]
    BY <2>1 DEF Corrupt, Disrupt, TypeOK, ClientType
  <2>3. ClientsMatch' /\ OnlyCorruptDamages'
    BY <2>2 DEF ConsistencyInv, ClientsMatch, ClientLMIDMatches, ClientDataMatches, OnlyCorruptDamages
  <2>4. KindsMatch' /\ RequestsMatch' /\ RepliesMatch'
    BY <2>2 DEF slot, ConsistencyInv, KindsMatch, RequestsMatch, RepliesMatch, ReplyMatches
  <2>5. (DamageIsSeen => SumsMatch)'
    BY <2>2 DEF slot, ConsistencyInv, SumsMatch, TypeOK, SlotType, RequestSet
  <2> QED BY <2>2, <2>3, <2>4, <2>5 DEF ConsistencyInv, ClientsMatch
<1>4. CASE \E r \in Requests : Panic(r)
  <2>1. PICK r \in Requests : Panic(r)
    BY <1>4
  <2>2. ConsistencyInv'
    BY <2>1, FreeConsistent DEF Panic
  <2> QED BY <2>1, <2>2 DEF Panic, clientSide
<1> QED BY <1>1, <1>2, <1>3, <1>4 DEF Environment

LEMMA NextConsistent ==
    ASSUME TypeOK, ConsistencyInv, [Next]_vars
    PROVE  /\ ConsistencyInv'
           /\ \A c \in Clients : client'[c].lmid >= client[c].lmid
<1>0. \A c \in Clients : client[c].lmid \in Nat
  BY DEF TypeOK, ClientType
<1>1. ASSUME NEW r \in Requests, Deliver(r)
      PROVE  /\ ConsistencyInv'
             /\ \A c \in Clients : client'[c].lmid >= client[c].lmid
  BY <1>1, DeliverConsistent
<1>2. ASSUME NEW r \in Requests, Arrive(r) \/ Open(r) \/ Serve(r) \/ LoseReply(r)
      PROVE  ConsistencyInv' /\ UNCHANGED client
  <2>1. ConsistencyInv'
    BY <1>2, ArriveConsistent, OpenConsistent, ServeConsistent, FreeConsistent DEF LoseReply
  <2>2. UNCHANGED client
    BY <1>2 DEF Arrive, SendPull, SendInject, Open, RejectEarly, GetDB, Genesis,
                GenesisConflict, RejectLate, Serve, FetchFail, Fetch, Refuse, Store,
                InjectPut, Respond, LoseReply, clientSide
  <2> QED BY <2>1, <2>2
<1>3. CASE Environment
  BY <1>0, <1>3, EnvironmentConsistent
<1>4. CASE UNCHANGED vars
  BY <1>0, <1>4, QuietStep DEF vars, slot, clientSide, ConsistencyInv, KindsMatch
<1> QED BY <1>0, <1>1, <1>2, <1>3, <1>4 DEF Next

(* A client's copy is the commit its state ID names, whatever requests,    *)
(* retries, injections, deletions and restarts are interleaved (pull,      *)
(* db.Diff): when no client damages its data, or the checksum tells views  *)
(* apart.                                                                  *)
THEOREM ClientsConsistent ==
    ASSUME DamageIsSeen
    PROVE  Spec => []ClientConsistent
<1>1. Init => TypeOK /\ ConsistencyInv
  BY InitType, InitConsistent
<1>2. TypeOK /\ ConsistencyInv /\ [Next]_vars => (TypeOK /\ ConsistencyInv)'
  BY NextType, NextConsistent
<1>3. ConsistencyInv => ClientConsistent
  BY DEF ConsistencyInv, ClientConsistent
<1> QED BY <1>1, <1>2, <1>3, PTL DEF Spec

(* No answer lowers a client's lastMutationID (pull's two guards against   *)
(* going back in time), for any data layer and any disruption.             *)
THEOREM ClientLMIDsGrow == Spec => ClientLMIDNeverDecreases
<1>1. Init => TypeOK /\ ConsistencyInv
  BY InitType, InitConsistent
<1>2. TypeOK /\ ConsistencyInv /\ [Next]_vars => (TypeOK /\ ConsistencyInv)'
  BY NextType, NextConsistent
<1>3. TypeOK /\ ConsistencyInv /\ [Next]_vars
        => [\A c \in Clients : client'[c].lmid >= client[c].lmid]_vars
  BY NextConsistent
<1> QED BY <1>1, <1>2, <1>3, PTL DEF Spec, ClientLMIDNeverDecreases

-------------------------------------------------------------------------------
(* Checksums.                                                              *)

(* A step that begins no request and makes no answer.                      *)
LEMMA QuietChecksums ==
    ASSUME ChecksumsInv,
           \A q \in Requests : pc'[q] # "idle" => pc[q] # "idle" /\ req'[q] = req[q],
           \A q \in Requests : pc'[q] = "replied" => pc[q] = "replied" /\ reply'[q] = reply[q]
    PROVE  ChecksumsInv'
BY DEF ChecksumsInv

LEMMA FreeChecksums ==
    ASSUME TypeOK, ChecksumsInv, NEW r \in Requests, Free(r)
    PROVE  ChecksumsInv'
<1>1. \A q \in Requests : pc'[q] # "idle" => pc'[q] = pc[q] /\ req'[q] = req[q]
                                             /\ reply'[q] = reply[q]
  BY DEF Free, TypeOK, SlotType
<1> QED BY <1>1, QuietChecksums

(* A client that does not damage its data sends the checksum of its commit.*)
LEMMA ArriveChecksums ==
    ASSUME TypeOK, ConsistencyInv, ChecksumsInv, "corrupt" \notin Faults,
           NEW r \in Requests, Arrive(r)
    PROVE  ChecksumsInv'
<1>1. PICK c \in Clients, s \in Servers : SendPull(r, c, s) \/ SendInject(r, c, s)
  BY DEF Arrive
<1>2. client[c].data = DataOf(client[c].state)
  BY DEF ConsistencyInv, OnlyCorruptDamages, DamageIsSeen, ClientDataMatches
<1>3. CASE SendPull(r, c, s)
  <2>1. PICK form \in Forms :
           Begin(r, [kind |-> "pull", client |-> c, server |-> s, form |-> form,
                     base |-> client[c].state, sum |-> ChecksumOf(client[c].data),
                     lmid |-> client[c].lmid])
    BY <1>3 DEF SendPull
  <2> QED BY <1>2, <1>3, <2>1 DEF SendPull, Begin, ChecksumsInv, TypeOK, SlotType
<1>4. CASE SendInject(r, c, s)
  <2>1. PICK form \in Forms :
           Begin(r, [kind |-> "inject", client |-> c, server |-> s, form |-> form,
                     base |-> << >>, sum |-> {}, lmid |-> 0])
    BY <1>4 DEF SendInject
  <2> QED BY <1>4, <2>1 DEF SendInject, Begin, ChecksumsInv, TypeOK, SlotType
<1> QED BY <1>1, <1>3, <1>4

LEMMA ServeChecksums ==
    ASSUME TypeOK, ConsistencyInv, ChecksumsInv, NEW r \in Requests, Serve(r)
    PROVE  ChecksumsInv'
<1>1. CASE Respond(r)
  <2>1. /\ UNCHANGED req
        /\ pc[r] = "stored"
        /\ \A q \in Requests : \/ pc'[q] = pc[q] /\ reply'[q] = reply[q]
                               \/ q = r /\ pc'[q] = "replied"
        /\ reply'[r] = IF BehindClient(r) THEN NopPull(r) ELSE PullResponse(r)
    BY <1>1 DEF Respond, TypeOK, SlotType
  <2>2. req[r].sum = ChecksumOf(DataOf(req[r].base))
    BY <2>1 DEF ChecksumsInv, ConsistencyInv, KindsMatch
  <2>3. reply'[r].sum = ChecksumOf(DataOf(reply'[r].state))
    BY <2>1, <2>2 DEF NopPull, PullResponse
  <2> QED BY <2>1, <2>3 DEF ChecksumsInv
<1>2. CASE InjectPut(r)
  BY <1>2, FreeChecksums DEF InjectPut
<1>3. CASE FetchFail(r) \/ Fetch(r) \/ Refuse(r) \/ Store(r)
  <2>1. /\ UNCHANGED <<req, reply>>
        /\ pc[r] # "idle"
        /\ \A q \in Requests : \/ pc'[q] = pc[q]
                               \/ q = r /\ pc'[q] \in {"fetched", "stored"}
    BY <1>3 DEF FetchFail, Fetch, Refuse, Store, TypeOK, SlotType
  <2> QED BY <2>1, QuietChecksums
<1> QED BY <1>1, <1>2, <1>3 DEF Serve

LEMMA OpenChecksums ==
    ASSUME TypeOK, ChecksumsInv, NEW r \in Requests, Open(r)
    PROVE  ChecksumsInv'
<1>1. CASE RejectEarly(r) \/ GenesisConflict(r) \/ RejectLate(r)
  BY <1>1, FreeChecksums DEF RejectEarly, GenesisConflict, RejectLate
<1>2. CASE GetDB(r) \/ Genesis(r)
  <2>1. /\ UNCHANGED <<req, reply>>
        /\ pc[r] # "idle"
        /\ \A q \in Requests : \/ pc'[q] = pc[q]
                               \/ q = r /\ pc'[q] \in {"genesis", "opened"}
    BY <1>2 DEF GetDB, Genesis, TypeOK, SlotType
  <2> QED BY <2>1, QuietChecksums
<1> QED BY <1>1, <1>2 DEF Open

LEMMA EnvironmentChecksums ==
    ASSUME TypeOK, ChecksumsInv, Environment
    PROVE  ChecksumsInv'
<1>1. CASE \E c \in Clients : LayerChange(c) \/ DeleteClient(c) \/ Corrupt(c)
  <2>1. UNCHANGED slot
    BY <1>1 DEF LayerChange, DeleteClient, Corrupt
  <2> QED BY <2>1, QuietChecksums DEF slot
<1>2. CASE \E r \in Requests : Panic(r)
  BY <1>2, FreeChecksums DEF Panic
<1>3. CASE ColdStart \/ \E s \in Servers : Crash(s)
  <2>1. PICK S : Kill(S)
    BY <1>3 DEF ColdStart, Crash
  <2>2. \A q \in Requests : pc'[q] # "idle" => pc'[q] = pc[q] /\ req'[q] = req[q]
                                               /\ reply'[q] = reply[q]
    BY <2>1 DEF Kill
  <2> QED BY <2>2, QuietChecksums
<1> QED BY <1>1, <1>2, <1>3 DEF Environment

LEMMA NextChecksums ==
    ASSUME TypeOK, ConsistencyInv, ChecksumsInv, "corrupt" \notin Faults, [Next]_vars
    PROVE  ChecksumsInv'
<1>1. CASE \E r \in Requests : Arrive(r) \/ Open(r) \/ Serve(r)
  BY <1>1, ArriveChecksums, OpenChecksums, ServeChecksums
<1>2. CASE \E r \in Requests : Deliver(r) \/ LoseReply(r)
  BY <1>2, FreeChecksums DEF Deliver, LoseReply
<1>3. CASE Environment
  BY <1>3, EnvironmentChecksums
<1>4. CASE UNCHANGED vars
  BY <1>4, QuietChecksums DEF vars, slot
<1> QED BY <1>1, <1>2, <1>3, <1>4 DEF Next

(* A client that takes an answer has the checksum the answer states (pull, *)
(* nopPull, db.Diff), unless clients damage their data.                    *)
THEOREM AnswersAddUp ==
    ASSUME "corrupt" \notin Faults
    PROVE  Spec => ChecksumsAgree
<1> DEFINE Agree == \A r \in Requests :
               Deliver(r) /\ req[r].base = client[req[r].client].state
                  => ChecksumOf(client'[req[r].client].data) = reply[r].sum
<1>1. Init => TypeOK /\ ConsistencyInv /\ ChecksumsInv
  BY InitType, InitConsistent DEF Init, ChecksumsInv
<1>2. TypeOK /\ ConsistencyInv /\ ChecksumsInv /\ [Next]_vars
        => (TypeOK /\ ConsistencyInv /\ ChecksumsInv)'
  BY NextType, NextConsistent, NextChecksums
<1>3. TypeOK /\ ConsistencyInv /\ ChecksumsInv /\ [Next]_vars => [Agree]_vars
  <2> SUFFICES ASSUME TypeOK, ConsistencyInv, ChecksumsInv, [Next]_vars,
                      NEW r \in Requests, Deliver(r),
                      req[r].base = client[req[r].client].state
               PROVE  ChecksumOf(client'[req[r].client].data) = reply[r].sum
    OBVIOUS
  <2> DEFINE c == req[r].client
  <2>1. ConsistencyInv' /\ c \in Clients
    BY NextConsistent DEF Deliver, TypeOK, SlotType, RequestSet
  <2>2. client'[c].data = DataOf(client'[c].state)
    BY <2>1 DEF ConsistencyInv, OnlyCorruptDamages, DamageIsSeen, ClientDataMatches
  <2>3. client'[c].state = reply[r].state
    BY <2>1 DEF Deliver, TypeOK, ClientType
  <2>4. reply[r].sum = ChecksumOf(DataOf(reply[r].state))
    BY DEF Deliver, ChecksumsInv
  <2> QED BY <2>2, <2>3, <2>4
<1> QED BY <1>1, <1>2, <1>3, PTL DEF Spec, ChecksumsAgree
-------------------------------------------------------------------------------
(* Stored views.                                                           *)

(* A handler leaves the fetch behind by storing the view or refusing it.   *)
LEMMA StoresOrRefuses ==
    ASSUME TypeOK, [Next]_vars, NEW r \in Requests, pc[r] = "fetched", pc'[r] = "stored"
    PROVE  Store(r) \/ Refuse(r)
<1> USE DEF TypeOK, SlotType
<1>1. CASE UNCHANGED vars
  BY <1>1 DEF vars, slot
<1>2. CASE \E q \in Requests : Arrive(q) \/ Open(q)
  <2>1. PICK q \in Requests : Arrive(q) \/ Open(q)
    BY <1>2
  <2>2. CASE Arrive(q)
    <3>1. PICK c \in Clients, s \in Servers : SendPull(q, c, s) \/ SendInject(q, c, s)
      BY <2>2 DEF Arrive
    <3>2. pc' = [pc EXCEPT ![q] = "arrived"]
      BY <3>1, Zenon DEF SendPull, SendInject, Begin
    <3> QED BY <3>2
  <2>3. CASE RejectEarly(q) \/ GenesisConflict(q) \/ RejectLate(q)
    BY <2>3 DEF RejectEarly, GenesisConflict, RejectLate, Free
  <2>4. CASE GetDB(q) \/ Genesis(q)
    BY <2>4 DEF GetDB, Genesis
  <2> QED BY <2>1, <2>2, <2>3, <2>4 DEF Open
<1>3. CASE \E q \in Requests : Serve(q)
  <2>1. PICK q \in Requests : Serve(q)
    BY <1>3
  <2>2. CASE FetchFail(q) \/ Fetch(q) \/ InjectPut(q) \/ Respond(q)
    BY <2>2 DEF FetchFail, Fetch, InjectPut, Respond, Free
  <2>3. CASE Refuse(q) \/ Store(q)
    <3>1. pc' = [pc EXCEPT ![q] = "stored"]
      BY <2>3 DEF Refuse, Store
    <3>2. q = r
      BY <3>1
    <3> QED BY <2>3, <3>2
  <2> QED BY <2>1, <2>2, <2>3 DEF Serve
<1>4. CASE \E q \in Requests : Deliver(q) \/ LoseReply(q) \/ Panic(q)
  BY <1>4 DEF Deliver, LoseReply, Panic, Free
<1>5. CASE \E c \in Clients : LayerChange(c) \/ DeleteClient(c) \/ Corrupt(c)
  BY <1>5 DEF LayerChange, DeleteClient, Corrupt, slot
<1>6. CASE ColdStart \/ \E s \in Servers : Crash(s)
  BY <1>6 DEF ColdStart, Crash, Kill
<1> QED BY <1>1, <1>2, <1>3, <1>4, <1>5, <1>6 DEF Next, Environment

(* What storing without an error leaves the handler with is the view it    *)
(* fetched: at its head already, or made the head.                         *)
LEMMA StoreKeeps ==
    ASSUME TypeOK, NoCollisions, NEW r \in Requests, Store(r), ~cv'[r].err
    PROVE  DataOf(snap'[r].head) = cv[r].view
<1>1. /\ req[r].client \in Clients
      /\ snap[r].head \in Commits
      /\ cv[r].view \in Views /\ cv[r].lmid \in Nat
  BY DEF Store, TypeOK, SlotType, RequestSet, SnapSet, ViewSet
<1>2. CASE PutNop(r) /\ UNCHANGED <<snap, cv>>
  <2>1. ChecksumOf(cv[r].view) = ChecksumOf(DataOf(snap[r].head))
    BY <1>2 DEF PutNop, SameAsHead
  <2>2. DataOf(snap[r].head) \in Views
    BY <1>1, CommitFacts
  <2> QED BY <1>1, <1>2, <2>1, <2>2 DEF NoCollisions
<1>3. CASE PutCommit(r) /\ Adopt(r)
  <2>1. PICK date \in Dates : FastForward(r, NewCommit(r, date), cv[r].at)
    BY <1>3 DEF PutCommit
  <2>2. head'[req[r].client] = NewCommit(r, date)
    BY <1>1, <2>1 DEF FastForward, MoveHead, TypeOK, StoreType
  <2>3. snap'[r].head = head'[req[r].client]
    BY <1>3 DEF Adopt, TypeOK, SlotType
  <2>4. DataOf(NewCommit(r, date)) = cv[r].view
    BY <1>1, MakeCommitFacts DEF NewCommit
  <2> QED BY <2>2, <2>3, <2>4
<1>4. CASE cv' = [cv EXCEPT ![r].err = TRUE]
  BY <1>4 DEF TypeOK, SlotType, ViewSet
<1> QED BY <1>2, <1>3, <1>4 DEF Store

(* A view that is stored without an error is not dropped: it is the data   *)
(* of the handler's head (storeClientView, MaybePutData), if the checksum  *)
(* tells views apart.                                                      *)
THEOREM StoredViewsKept ==
    ASSUME NoCollisions
    PROVE  Spec => PutKeepsView
<1> DEFINE Keeps == \A r \in Requests :
               (pc[r] = "fetched" /\ pc'[r] = "stored" /\ cv[r].lmid >= MinLMID(r) /\ ~cv'[r].err)
                   => DataOf(snap'[r].head) = cv[r].view
<1>1. TypeOK /\ [Next]_vars => [Keeps]_vars
  <2> SUFFICES ASSUME TypeOK, [Next]_vars, NEW r \in Requests, pc[r] = "fetched",
                      pc'[r] = "stored", cv[r].lmid >= MinLMID(r), ~cv'[r].err
               PROVE  DataOf(snap'[r].head) = cv[r].view
    OBVIOUS
  <2>1. cv[r].lmid \in Nat /\ MinLMID(r) \in Nat
    BY CommitFacts DEF TypeOK, SlotType, ViewSet, SnapSet, RequestSet, MinLMID
  <2>2. ~Refuse(r)
    BY <2>1 DEF Refuse
  <2> QED BY <2>2, StoresOrRefuses, StoreKeeps
<1>2. Spec => []TypeOK
  BY TypeCorrect
<1> QED BY <1>1, <1>2, PTL DEF Spec, PutKeepsView
===============================================================================

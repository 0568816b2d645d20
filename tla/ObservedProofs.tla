----------------------------- MODULE ObservedProofs -----------------------------
(***************************************************************************)
(* Theorems about what DiffServer confirms and serves: only mutations that *)
(* the data layer has processed, with a view it had then; and pull         *)
(* implements ObservedViews: the commits in use for a client have the      *)
(* views the data layer had at the times noted with them, later commits    *)
(* later times, and a client only takes later commits.                     *)
(***************************************************************************)
EXTENDS HeadProofs

(* No view is injected, the data layer always states a lastMutationID, and *)
(* the lastMutationIDs are exact as floating-point numbers.                *)
TrueToLayer == ~EnableInject /\ "noLMID" \notin Faults /\ MaxLMID <= MaxExact

-------------------------------------------------------------------------------
(* The data layer forgets no state.                                        *)
LEMMA LayersExtend ==
    ASSUME TypeOK, [Next]_vars, NEW c \in Clients
    PROVE  /\ \A t \in 1..Len(layer[c]) : t \in 1..Len(layer'[c]) /\ layer'[c][t] = layer[c][t]
           /\ \A t \in 1..Len(layer'[c]) : \/ t \in 1..Len(layer[c]) /\ layer'[c][t] = layer[c][t]
                                           \/ layer'[c][t].lmid <= MaxLMID
<1>1. layer[c] \in Seq(LayerState) /\ Len(layer[c]) \in Nat
  BY DEF TypeOK, LayerType
<1>2. CASE UNCHANGED layer
  BY <1>2
<1>3. ASSUME NEW d \in Clients, LayerChange(d)
      PROVE  \/ layer'[c] = layer[c]
             \/ \E n \in 0..MaxLMID, v \in Views :
                   layer'[c] = Append(layer[c], [lmid |-> n, view |-> v])
  <2>1. layer[d] \in Seq(LayerState) /\ layer[d] # << >>
    BY DEF TypeOK, LayerType
  <2>2. layer[d][Len(layer[d])].lmid \in Nat
    <3>1. layer[d][Len(layer[d])] \in LayerState
      BY <2>1
    <3> QED BY <3>1 DEF LayerState
  <2>3. PICK n \in layer[d][Len(layer[d])].lmid..MaxLMID, v \in Views :
           layer' = [layer EXCEPT ![d] = Append(@, [lmid |-> n, view |-> v])]
    BY <1>3 DEF LayerChange
  <2>4. n \in 0..MaxLMID
    <3>1. MaxLMID \in Nat
      BY BoundAssumption
    <3> HIDE <2>3
    <3> QED BY <2>2, <3>1
  <2> QED BY <2>3, <2>4 DEF TypeOK, LayerType
<1>4. ASSUME NEW n \in 0..MaxLMID, NEW v \in Views,
             layer'[c] = Append(layer[c], [lmid |-> n, view |-> v])
      PROVE  /\ \A t \in 1..Len(layer[c]) : t \in 1..Len(layer'[c]) /\ layer'[c][t] = layer[c][t]
             /\ \A t \in 1..Len(layer'[c]) : \/ t \in 1..Len(layer[c]) /\ layer'[c][t] = layer[c][t]
                                             \/ layer'[c][t].lmid <= MaxLMID
  <2> DEFINE new == [lmid |-> n, view |-> v]
  <2>1. new \in LayerState /\ new.lmid <= MaxLMID
    BY BoundAssumption DEF LayerState
  <2> HIDE DEF new
  <2>2. /\ Len(layer'[c]) = Len(layer[c]) + 1
        /\ \A t \in 1..Len(layer[c]) : layer'[c][t] = layer[c][t]
        /\ layer'[c][Len(layer[c]) + 1] = new
    BY <1>1, <1>4, <2>1 DEF new
  <2>3. Len(layer[c]) \in Nat
    BY <1>1
  <2> HIDE <1>1, <1>4
  <2>4. \A t \in 1..Len(layer[c]) : t \in 1..Len(layer'[c]) /\ layer'[c][t] = layer[c][t]
    BY <2>2, <2>3
  <2>5. ASSUME NEW t \in 1..Len(layer'[c])
        PROVE  \/ t \in 1..Len(layer[c]) /\ layer'[c][t] = layer[c][t]
               \/ layer'[c][t].lmid <= MaxLMID
    <3>1. t \in 1..Len(layer[c]) \/ t = Len(layer[c]) + 1
      BY <2>2, <2>3, <2>5
    <3> QED BY <2>1, <2>2, <3>1
  <2> QED BY <2>4, <2>5
<1> QED BY <1>2, <1>3, <1>4, WhoMovesLayers

LEMMA StaysProcessed ==
    ASSUME TypeOK, [Next]_vars, NEW c \in Clients
    PROVE  /\ \A n, v : Processed(layer[c], n, v) => Processed(layer'[c], n, v)
           /\ \A h : IsProcessed(layer[c], h) => IsProcessed(layer'[c], h)
<1>1. ASSUME NEW n, NEW v, Processed(layer[c], n, v)
      PROVE  Processed(layer'[c], n, v)
  BY <1>1, LayersExtend DEF Processed
<1> QED BY <1>1 DEF IsProcessed

LEMMA WhoMovesClients ==
    ASSUME [Next]_vars
    PROVE  \/ UNCHANGED clientSide
           \/ \E r \in Requests : Deliver(r)
           \/ \E d \in Clients : Corrupt(d)
<1>1. ASSUME NEW r \in Requests, Arrive(r) \/ Open(r) \/ Serve(r) \/ LoseReply(r) \/ Panic(r)
      PROVE  UNCHANGED clientSide
  BY <1>1 DEF Arrive, SendPull, SendInject, Open, RejectEarly, GetDB, Genesis, GenesisConflict,
              RejectLate, Serve, FetchFail, Fetch, Refuse, Store, InjectPut, Respond,
              LoseReply, Panic
<1>2. ASSUME \/ \E d \in Clients : LayerChange(d) \/ DeleteClient(d)
             \/ \E s \in Servers : Crash(s)
             \/ ColdStart \/ UNCHANGED vars
      PROVE  UNCHANGED clientSide
  BY <1>2 DEF LayerChange, DeleteClient, Crash, ColdStart, vars
<1> QED BY <1>1, <1>2 DEF Next, Environment

(* What a client holds it was answered.                                    *)
LEMMA WhatMovesClients ==
    ASSUME TypeOK, [Next]_vars, NEW c \in Clients
    PROVE  \/ client'[c].state = client[c].state
           \/ \E r \in Requests : /\ pc[r] = "replied" /\ req[r].client = c
                                  /\ client'[c].state = reply[r].state
<1>1. ASSUME NEW r \in Requests, Deliver(r)
      PROVE  \/ client'[c].state = client[c].state
             \/ /\ pc[r] = "replied" /\ req[r].client = c
                /\ client'[c].state = reply[r].state
  BY <1>1 DEF Deliver, clientSide, TypeOK, ClientType
<1>2. ASSUME NEW d \in Clients, Corrupt(d)
      PROVE  client'[c].state = client[c].state
  BY <1>2 DEF Corrupt, TypeOK, ClientType
<1> QED BY <1>1, <1>2, WhoMovesClients DEF clientSide

-------------------------------------------------------------------------------
LEMMA ExactNumber == MaxLMID <= MaxExact => \A n \in Nat : n <= MaxLMID => ToNumber(n) = n
BY ExactAssumption, BoundAssumption DEF ToNumber

LEMMA HeadsProcessed ==
    ASSUME TypeOK, ProcessedInv, TrueToLayer, [Next]_vars
    PROVE  \A c \in Clients : IsProcessed(layer'[c], head'[c])
<1> DEFINE Goal == \A c \in Clients : IsProcessed(layer'[c], head'[c])
<1>1. \A c \in Clients : IsProcessed(layer'[c], head[c])
  BY StaysProcessed DEF ProcessedInv
<1>2. CASE HeadsRest
  BY <1>1, <1>2 DEF HeadsRest
<1>3. ASSUME NEW r \in Requests, NEW new, NEW at, FastForward(r, new, at),
             req[r].client \in Clients => IsProcessed(layer'[req[r].client], new)
      PROVE  Goal
  <2>1. head' = [head EXCEPT ![req[r].client] = new]
    BY <1>3 DEF FastForward, MoveHead
  <2> QED BY <1>1, <1>3, <2>1 DEF TypeOK, StoreType
<1>4. ASSUME NEW r \in Requests, Genesis(r)
      PROVE  Goal
  <2>1. PICK date \in Dates : FastForward(r, MakeCommit(<< >>, date, EmptyView, 0), 0)
    BY <1>4 DEF Genesis
  <2> DEFINE e == [lmid |-> ToNumber(0), data |-> EmptyView, date |-> date]
             new == MakeCommit(<< >>, date, EmptyView, 0)
  <2>2. new = Append(<< >>, e)
    BY DEF MakeCommit
  <2> HIDE DEF e, new
  <2>3. Len(new) = 1
    BY <2>2
  <2>4. \A states : IsProcessed(states, new)
    BY <2>3 DEF IsProcessed
  <2> QED BY <1>3, <2>1, <2>4 DEF new
<1>5. ASSUME NEW r \in Requests, PutStep(r)
      PROVE  Goal
  <2> DEFINE c == req[r].client
             states == layer[req[r].client]
  <2>1. /\ snap[r].head \in Commits /\ cv[r].view \in Views /\ cv[r].lmid \in Nat
        /\ c \in Clients /\ UNCHANGED layer
    BY <1>5 DEF PutStep, TypeOK, SlotType, SnapSet, ViewSet, RequestSet
  <2>2. PICK date \in Dates : FastForward(r, NewCommit(r, date), cv[r].at)
    BY <1>5 DEF PutStep, PutCommit
  <2> DEFINE new == MakeCommit(snap[r].head, date, cv[r].view, cv[r].lmid)
  <2>3. NewCommit(r, date) = new
    BY DEF NewCommit
  <2>4. Processed(states, cv[r].lmid, cv[r].view)
    BY <1>5 DEF PutStep, ProcessedInv
  <2>5. cv[r].lmid <= MaxLMID
    BY <2>1, <2>4 DEF ProcessedInv, Processed
  <2>6. LMIDOf(new) = cv[r].lmid /\ DataOf(new) = cv[r].view
    BY <2>1, <2>5, MakeCommitFacts, ExactNumber DEF TrueToLayer
  <2> HIDE DEF new, states
  <2>7. IsProcessed(states, new)
    BY <2>4, <2>6 DEF IsProcessed
  <2> QED BY <1>3, <2>1, <2>2, <2>3, <2>7 DEF states
<1>6. ASSUME NEW c \in Clients, head'[c] = << >>
      PROVE  IsProcessed(layer'[c], head'[c])
  <2>1. Len(<< >>) = 0
    OBVIOUS
  <2> QED BY <1>6, <2>1 DEF IsProcessed
<1>7. CASE ColdStart
  BY <1>6, <1>7 DEF ColdStart
<1>8. ASSUME NEW d \in Clients, DeleteClient(d)
      PROVE  Goal
  <2>1. \A c \in Clients : head'[c] \in {head[c], << >>}
    BY <1>8 DEF DeleteClient, TypeOK, StoreType
  <2> QED BY <1>1, <1>6, <2>1
<1> QED BY <1>2, <1>4, <1>5, <1>7, <1>8, WhatMovesHeads DEF ProcessedInv, TrueToLayer

LEMMA AnswersProcessed ==
    ASSUME TypeOK, TrueToLayer, NEW c \in Clients, NEW t \in AnswerTimes(c), NEW o \in Omissions
    PROVE  Processed(layer[c], Answer(c, t, o).lmid, Answer(c, t, o).view)
<1>1. layer[c] \in Seq(LayerState) /\ layer[c] # << >>
  BY DEF TypeOK, LayerType
<1>2. t \in 1..Len(layer[c])
  BY <1>1 DEF AnswerTimes
<1>3. ~o
  BY DEF Omissions, TrueToLayer
<1>4. Answer(c, t, o).lmid = layer[c][t].lmid /\ Answer(c, t, o).view = layer[c][t].view
  BY <1>3 DEF Answer
<1> QED BY <1>2, <1>4 DEF Processed

LEMMA NextProcessed ==
    ASSUME TypeOK, ProcessedInv, TrueToLayer, [Next]_vars
    PROVE  ProcessedInv'
<1>1. \A q \in Requests : pc'[q] # "idle" => req'[q].kind = "pull"
  BY OnlyPulls DEF ProcessedInv, TrueToLayer
<1>2. \A c \in Clients : IsProcessed(layer'[c], head'[c])
  BY HeadsProcessed
<1>3. ASSUME NEW q \in Requests, pc[q] # "idle"
      PROVE  /\ req[q].client \in Clients
             /\ IsProcessed(layer'[req[q].client], req[q].base)
             /\ pc[q] \in Opened => IsProcessed(layer'[req[q].client], snap[q].head)
             /\ pc[q] = "fetched" => Processed(layer'[req[q].client], cv[q].lmid, cv[q].view)
             /\ pc[q] = "replied" => IsProcessed(layer'[req[q].client], reply[q].state)
  <2>1. req[q].client \in Clients
    BY <1>3, RequestTypes
  <2> QED BY <1>3, <2>1, StaysProcessed DEF ProcessedInv, Opened
<1>4. ASSUME NEW c \in Clients
      PROVE  /\ IsProcessed(layer'[c], client[c].state)
             /\ IsProcessed(layer'[c], client'[c].state)
             /\ \A t \in 1..Len(layer'[c]) : layer'[c][t].lmid <= MaxLMID
  <2>1. IsProcessed(layer'[c], client[c].state)
    BY StaysProcessed DEF ProcessedInv
  <2>2. IsProcessed(layer'[c], client'[c].state)
    BY <1>3, <2>1, WhatMovesClients
  <2>3. \A t \in 1..Len(layer'[c]) : layer'[c][t].lmid <= MaxLMID
    BY LayersExtend DEF ProcessedInv
  <2> QED BY <2>1, <2>2, <2>3
<1>5. ASSUME NEW q \in Requests, pc'[q] # "idle"
      PROVE  LET states == layer'[req'[q].client]
             IN  /\ IsProcessed(states, req'[q].base)
                 /\ pc'[q] \in Opened => IsProcessed(states, snap'[q].head)
                 /\ pc'[q] = "fetched" => Processed(states, cv'[q].lmid, cv'[q].view)
                 /\ pc'[q] = "replied" => IsProcessed(states, reply'[q].state)
  <2>1. SlotMoves(q)
    BY <1>5, NextSlots DEF SlotsMove
  <2>2. CASE pc[q] = "idle"
    <3>1. PICK d \in Clients : /\ pc'[q] = "arrived" /\ req'[q].client = d
                               /\ req'[q].base \in {<< >>, client[d].state}
      BY <2>1, <2>2 DEF SlotMoves
    <3>2. IsProcessed(layer'[d], << >>)
      <4>1. Len(<< >>) = 0
        OBVIOUS
      <4> QED BY <4>1 DEF IsProcessed
    <3> QED BY <1>4, <3>1, <3>2 DEF Opened
  <2>3. CASE pc[q] # "idle"
    <3> DEFINE c == req[q].client
    <3>1. req'[q] = req[q] /\ c \in Clients /\ IsProcessed(layer'[c], req[q].base)
      BY <1>3, <2>1, <2>3 DEF SlotMoves
    <3>2. pc'[q] \in Opened => IsProcessed(layer'[c], snap'[q].head)
      BY <1>2, <1>3, <2>1, <2>3, <3>1 DEF SlotMoves
    <3>3. ASSUME pc'[q] = "fetched"
          PROVE  Processed(layer'[c], cv'[q].lmid, cv'[q].view)
      <4>1. CASE pc[q] = "fetched" /\ cv'[q] = cv[q]
        BY <1>3, <4>1
      <4>2. CASE /\ UNCHANGED layer
                 /\ \E t \in AnswerTimes(c), o \in Omissions : cv'[q] = Answer(c, t, o)
        BY <3>1, <4>2, AnswersProcessed
      <4> QED BY <2>1, <2>3, <3>3, <4>1, <4>2 DEF SlotMoves
    <3>4. ASSUME pc'[q] = "replied"
          PROVE  IsProcessed(layer'[c], reply'[q].state)
      <4>1. CASE pc[q] = "replied" /\ reply'[q] = reply[q]
        BY <1>3, <4>1
      <4>2. CASE pc[q] = "stored" /\ reply'[q] \in {NopPull(q), PullResponse(q)}
        <5>1. reply'[q].state \in {req[q].base, snap[q].head}
          BY <4>2 DEF NopPull, PullResponse
        <5> QED BY <1>3, <4>2, <5>1 DEF Opened
      <4> QED BY <2>1, <2>3, <3>4, <4>1, <4>2 DEF SlotMoves
    <3> QED BY <3>1, <3>2, <3>3, <3>4
  <2> QED BY <2>2, <2>3
<1> QED BY <1>1, <1>2, <1>4, <1>5 DEF ProcessedInv, Opened

LEMMA InitProcessed == Init => ProcessedInv
<1> SUFFICES ASSUME Init PROVE ProcessedInv
  OBVIOUS
<1>1. Len(<< >>) = 0
  OBVIOUS
<1>2. ASSUME NEW c \in Clients, NEW t \in 1..Len(layer[c])
      PROVE  layer[c][t].lmid <= MaxLMID
  <2>1. layer \in [Clients -> {<<[lmid |-> 0, view |-> v]>> : v \in Views}]
    BY DEF Init
  <2>2. PICK v \in Views : layer[c] = <<[lmid |-> 0, view |-> v]>>
    BY <2>1
  <2> QED BY <2>2, BoundAssumption
<1> QED BY <1>1, <1>2 DEF Init, ProcessedInv, IsProcessed

(* Whatever is lost, repeated or deleted, and however much the data layer  *)
(* lags: what a client is told is processed has been processed, and it     *)
(* gets a view the data layer had at exactly that lastMutationID (pull,    *)
(* maybeGetAndStoreNewClientView, MaybePutData).                           *)
THEOREM ConfirmedOnceProcessed ==
    ASSUME TrueToLayer
    PROVE  Spec => []ConfirmedWasProcessed
<1>1. Init => TypeOK /\ ConsistencyInv /\ ProcessedInv
  BY InitType, InitConsistent, InitProcessed
<1>2. TypeOK /\ ConsistencyInv /\ ProcessedInv /\ [Next]_vars
        => (TypeOK /\ ConsistencyInv /\ ProcessedInv)'
  BY NextType, NextConsistent, NextProcessed
<1>3. ConsistencyInv /\ ProcessedInv => ConfirmedWasProcessed
  BY DEF ConsistencyInv, ClientLMIDMatches, ProcessedInv, IsProcessed, ConfirmedWasProcessed
<1> QED BY <1>1, <1>2, <1>3, PTL DEF Spec

-------------------------------------------------------------------------------
(* What the environment must not do: see OnlyForward and TrueToLayer.      *)
Undisturbed == OnlyForward /\ TrueToLayer /\ "corrupt" \notin Faults

PullInv == /\ TypeOK /\ ConsistencyInv /\ DescentInv /\ TimesInv /\ ProcessedInv /\ HeldInv

-------------------------------------------------------------------------------
(* The commits in use for a client.                                        *)

HeadPair(c) == [state |-> head[c], at |-> asOf[c]]

LEMMA HeldFacts ==
    ASSUME TypeOK, DescentInv, TimesInv, NEW c \in Clients, NEW x \in Held(c)
    PROVE  /\ x.at \in Nat /\ Len(x.state) \in Nat /\ Len(head[c]) \in Nat
           /\ Len(x.state) <= Len(head[c])
<1>1. ~lost[c] /\ head[c] \in Commits /\ asOf[c] \in Nat
      /\ client[c].state \in Commits /\ seen[c] \in Nat
  BY DEF TimesInv, TypeOK, StoreType, ClientType
<1>2. \A h \in Commits : Len(h) \in Nat
  BY DEF Commits
<1>3. x.state \in Commits /\ x.at \in Nat /\ IsAncestor(x.state, head[c])
  <2>1. CASE x = [state |-> head[c], at |-> asOf[c]]
    BY <1>1, <2>1, AncestorReflexive
  <2>2. CASE x = [state |-> client[c].state, at |-> seen[c]]
    BY <1>1, <2>2 DEF DescentInv
  <2>3. ASSUME NEW r \in Requests, pc[r] \in Opened, req[r].client = c,
               x = [state |-> snap[r].head, at |-> snap[r].at]
        PROVE  x.state \in Commits /\ x.at \in Nat /\ IsAncestor(x.state, head[c])
    <3>1. snap[r].head \in Commits /\ snap[r].at \in Nat
      BY DEF TypeOK, SlotType, SnapSet
    <3>2. IsAncestor(snap[r].head, head[c])
      BY <1>1, <2>3 DEF DescentInv, Opened
    <3> QED BY <2>3, <3>1, <3>2
  <2>4. ASSUME NEW r \in Requests, pc[r] = "replied", req[r].client = c,
               x = [state |-> reply[r].state, at |-> reply[r].at]
        PROVE  x.state \in Commits /\ x.at \in Nat /\ IsAncestor(x.state, head[c])
    <3>1. reply[r].state \in Commits /\ reply[r].at \in Nat
      BY <2>4 DEF TypeOK, SlotType, ReplySet
    <3>2. IsAncestor(reply[r].state, head[c])
      BY <1>1, <2>4 DEF DescentInv
    <3> QED BY <2>4, <3>1, <3>2
  <2> QED BY <2>1, <2>2, <2>3, <2>4 DEF Held, Opened
<1> QED BY <1>1, <1>2, <1>3 DEF IsAncestor

(* A client stays where it is or takes an answer that is not a nop.        *)
LEMMA WhatMovesSeen ==
    ASSUME TypeOK, ConsistencyInv, [Next]_vars, NEW c \in Clients
    PROVE  \/ client'[c].state = client[c].state /\ seen'[c] = seen[c]
           \/ \E r \in Requests :
                 /\ pc[r] = "replied" /\ req[r].client = c /\ ~reply[r].nop
                 /\ req[r].base = client[c].state
                 /\ client'[c].state = reply[r].state /\ seen'[c] = reply[r].at
<1>1. ASSUME NEW r \in Requests, Deliver(r)
      PROVE  \/ client'[c].state = client[c].state /\ seen'[c] = seen[c]
             \/ /\ pc[r] = "replied" /\ req[r].client = c /\ ~reply[r].nop
                /\ req[r].base = client[c].state
                /\ client'[c].state = reply[r].state /\ seen'[c] = reply[r].at
  <2>1. pc[r] = "replied" /\ ReplyMatches(reply[r], req[r]) /\ req[r].client \in Clients
    BY <1>1, RequestTypes DEF Deliver, ConsistencyInv, RepliesMatch
  <2>2. CASE UNCHANGED clientSide
    BY <2>2 DEF clientSide
  <2>3. CASE req[r].base = client[req[r].client].state
    <3>1. /\ client' = [client EXCEPT ![req[r].client] =
                          [state |-> reply[r].state, lmid |-> reply[r].lmid,
                           data |-> ApplyPatch(client[req[r].client].data, reply[r].patch)]]
          /\ seen' = IF reply[r].nop THEN seen ELSE [seen EXCEPT ![req[r].client] = reply[r].at]
      BY <1>1, <2>3 DEF Deliver
    <3>2. CASE c # req[r].client
      BY <3>1, <3>2 DEF TypeOK, ClientType
    <3>3. CASE c = req[r].client
      <4>1. client'[c].state = reply[r].state
        BY <3>1, <3>3 DEF TypeOK, ClientType
      <4>2. CASE reply[r].nop
        <5>1. reply[r].state = req[r].base
          BY <2>1, <4>2 DEF ReplyMatches
        <5> QED BY <2>3, <3>1, <3>3, <4>1, <4>2, <5>1
      <4>3. CASE ~reply[r].nop
        <5>1. seen'[c] = reply[r].at
          BY <3>1, <3>3, <4>3 DEF TypeOK, ClientType
        <5> QED BY <2>1, <2>3, <3>3, <4>1, <4>3, <5>1
      <4> QED BY <4>2, <4>3
    <3> QED BY <3>2, <3>3
  <2> QED BY <1>1, <2>2, <2>3 DEF Deliver
<1>2. ASSUME NEW d \in Clients, Corrupt(d)
      PROVE  client'[c].state = client[c].state /\ seen'[c] = seen[c]
  BY <1>2 DEF Corrupt, TypeOK, ClientType
<1>3. \/ UNCHANGED clientSide
      \/ \E r \in Requests : Deliver(r)
      \/ \E d \in Clients : Corrupt(d)
  BY WhoMovesClients
<1> QED BY <1>1, <1>2, <1>3 DEF clientSide

(* No commit comes into use for a client but the head of its dataset.      *)
LEMMA HeldFollows ==
    ASSUME TypeOK, ConsistencyInv, [Next]_vars, NEW c \in Clients
    PROVE  \A x \in Held(c)' : x \in Held(c) \/ x = HeadPair(c)'
<1>1. SlotsMove
  BY NextSlots
<1>2. [state |-> client[c].state, at |-> seen[c]]' \in Held(c)
  <2>1. CASE client'[c].state = client[c].state /\ seen'[c] = seen[c]
    BY <2>1 DEF Held
  <2>2. ASSUME NEW r \in Requests, pc[r] = "replied", req[r].client = c, ~reply[r].nop,
               client'[c].state = reply[r].state, seen'[c] = reply[r].at
        PROVE  [state |-> client'[c].state, at |-> seen'[c]] \in Held(c)
    BY <2>2 DEF Held
  <2> QED BY <2>1, <2>2, WhatMovesSeen
<1>3. ASSUME NEW r \in Requests, pc'[r] \in Opened, req'[r].client = c
      PROVE  \/ [state |-> snap'[r].head, at |-> snap'[r].at] \in Held(c)
             \/ [state |-> snap'[r].head, at |-> snap'[r].at] = HeadPair(c)'
  <2>1. /\ pc[r] # "idle" /\ req[r].client = c
        /\ \/ pc[r] \in Opened /\ snap'[r] = snap[r]
           \/ snap'[r] = [head |-> head'[c], at |-> asOf'[c]]
    BY <1>1, <1>3 DEF SlotsMove, SlotMoves, Opened
  <2>2. CASE pc[r] \in Opened /\ snap'[r] = snap[r]
    BY <2>1, <2>2 DEF Held, Opened
  <2>3. CASE snap'[r] = [head |-> head'[c], at |-> asOf'[c]]
    BY <2>3 DEF HeadPair
  <2> QED BY <2>1, <2>2, <2>3
<1>4. ASSUME NEW r \in Requests, pc'[r] = "replied", ~reply'[r].nop, req'[r].client = c
      PROVE  [state |-> reply'[r].state, at |-> reply'[r].at] \in Held(c)
  <2>1. /\ req[r].client = c
        /\ \/ pc[r] = "replied" /\ reply'[r] = reply[r]
           \/ pc[r] = "stored" /\ reply'[r] \in {NopPull(r), PullResponse(r)}
    BY <1>1, <1>4 DEF SlotsMove, SlotMoves
  <2>2. CASE pc[r] = "replied" /\ reply'[r] = reply[r]
    BY <1>4, <2>1, <2>2 DEF Held
  <2>3. CASE pc[r] = "stored" /\ reply'[r] \in {NopPull(r), PullResponse(r)}
    <3>1. NopPull(r).nop
      BY DEF NopPull
    <3>2. reply'[r] = PullResponse(r)
      BY <1>4, <2>3, <3>1
    <3>3. reply'[r].state = snap[r].head /\ reply'[r].at = snap[r].at
      BY <3>2 DEF PullResponse
    <3> QED BY <2>1, <2>3, <3>3 DEF Held
  <2> QED BY <2>1, <2>2, <2>3
<1>5. ASSUME NEW x \in Held(c)'
      PROVE  x \in Held(c) \/ x = HeadPair(c)'
  <2>1. \/ x = HeadPair(c)'
        \/ x = [state |-> client[c].state, at |-> seen[c]]'
        \/ \E r \in Requests : /\ pc'[r] \in Opened /\ req'[r].client = c
                               /\ x = [state |-> snap'[r].head, at |-> snap'[r].at]
        \/ \E r \in Requests : /\ pc'[r] = "replied" /\ ~reply'[r].nop /\ req'[r].client = c
                               /\ x = [state |-> reply'[r].state, at |-> reply'[r].at]
    BY <1>5 DEF Held, HeadPair, Opened
  <2> QED BY <1>2, <1>3, <1>4, <2>1
<1> QED BY <1>5

-------------------------------------------------------------------------------
(* What commits show.                                                      *)

LEMMA StaysShown ==
    ASSUME TypeOK, [Next]_vars, NEW c \in Clients, NEW at, NEW lmid, NEW view,
           Shows(layer[c], at, lmid, view)
    PROVE  Shows(layer'[c], at, lmid, view)
BY LayersExtend DEF Shows

LEMMA NewHeadShows ==
    ASSUME PullInv, Undisturbed, [Next]_vars, NEW c \in Clients
    PROVE  Shows(layer'[c], asOf'[c], LMIDOf(head'[c]), DataOf(head'[c]))
<1> USE DEF PullInv, Undisturbed
<1>1. Shows(layer'[c], asOf[c], LMIDOf(head[c]), DataOf(head[c]))
  <2>1. HeadPair(c) \in Held(c)
    BY DEF Held, HeadPair
  <2>2. Shows(layer[c], asOf[c], LMIDOf(head[c]), DataOf(head[c]))
    BY <2>1 DEF HeldInv, HeadPair
  <2> QED BY <2>2, StaysShown
<1>2. ASSUME NEW r \in Requests, NEW new, NEW at, FastForward(r, new, at),
             Shows(layer'[req[r].client], at, LMIDOf(new), DataOf(new))
      PROVE  Shows(layer'[c], asOf'[c], LMIDOf(head'[c]), DataOf(head'[c]))
  <2>1. /\ head' = [head EXCEPT ![req[r].client] = new]
        /\ asOf' = [asOf EXCEPT ![req[r].client] =
                      IF head[req[r].client] = new THEN asOf[req[r].client] ELSE at]
    BY <1>2 DEF FastForward, MoveHead
  <2>2. CASE c # req[r].client
    BY <1>1, <2>1, <2>2 DEF TypeOK, StoreType
  <2>3. CASE c = req[r].client
    <3>1. /\ head'[c] = new
          /\ (asOf'[c] = asOf[c] /\ head[c] = new) \/ asOf'[c] = at
      BY <2>1, <2>3 DEF TypeOK, StoreType
    <3> QED BY <1>1, <1>2, <2>3, <3>1
  <2> QED BY <2>2, <2>3
<1>3. CASE HeadsRest
  BY <1>1, <1>3 DEF HeadsRest
<1>4. ASSUME NEW r \in Requests, Genesis(r)
      PROVE  Shows(layer'[c], asOf'[c], LMIDOf(head'[c]), DataOf(head'[c]))
  <2>1. PICK date \in Dates : FastForward(r, MakeCommit(<< >>, date, EmptyView, 0), 0)
    BY <1>4 DEF Genesis
  <2>2. /\ LMIDOf(MakeCommit(<< >>, date, EmptyView, 0)) = 0
        /\ DataOf(MakeCommit(<< >>, date, EmptyView, 0)) = EmptyView
    BY MakeCommitFacts, DefaultFacts, ViewFacts, Rounding
  <2> QED BY <1>2, <2>1, <2>2 DEF Shows
<1>5. ASSUME NEW r \in Requests, PutStep(r)
      PROVE  Shows(layer'[c], asOf'[c], LMIDOf(head'[c]), DataOf(head'[c]))
  <2>1. /\ snap[r].head \in Commits /\ cv[r].view \in Views /\ cv[r].lmid \in Nat
        /\ req[r].client \in Clients /\ UNCHANGED layer
    BY <1>5 DEF PutStep, TypeOK, SlotType, SnapSet, ViewSet, RequestSet
  <2>2. PICK date \in Dates : FastForward(r, NewCommit(r, date), cv[r].at)
    BY <1>5 DEF PutStep, PutCommit
  <2>3. cv[r].lmid <= MaxLMID
    <3>1. Processed(layer[req[r].client], cv[r].lmid, cv[r].view)
      BY <1>5 DEF PutStep, ProcessedInv
    <3> QED BY <2>1, <3>1 DEF ProcessedInv, Processed
  <2>4. LMIDOf(NewCommit(r, date)) = cv[r].lmid /\ DataOf(NewCommit(r, date)) = cv[r].view
    BY <2>1, <2>3, MakeCommitFacts, ExactNumber DEF TrueToLayer, NewCommit
  <2>5. Shows(layer[req[r].client], cv[r].at, cv[r].lmid, cv[r].view)
    BY <1>5 DEF PutStep, HeldInv
  <2> QED BY <1>2, <2>1, <2>2, <2>4, <2>5
<1>6. ~ColdStart /\ \A d \in Clients : ~DeleteClient(d)
  BY DEF OnlyForward, ColdStart, DeleteClient, Disrupt
<1> QED BY <1>3, <1>4, <1>5, <1>6, WhatMovesHeads DEF TimesInv, OnlyForward

(* What is fetched is a state of the data layer.                           *)
LEMMA FetchedShows ==
    ASSUME PullInv, Undisturbed, [Next]_vars, NEW q \in Requests, pc'[q] = "fetched"
    PROVE  /\ cv'[q].at > 0
           /\ Shows(layer'[req'[q].client], cv'[q].at, cv'[q].lmid, cv'[q].view)
<1> USE DEF PullInv, Undisturbed
<1> DEFINE c == req[q].client
<1>1. /\ pc[q] # "idle" /\ req'[q] = req[q]
      /\ \/ pc[q] = "fetched" /\ cv'[q] = cv[q]
         \/ /\ UNCHANGED layer
            /\ \E t \in AnswerTimes(c), o \in Omissions : cv'[q] = Answer(c, t, o)
  BY NextSlots DEF SlotsMove, SlotMoves
<1>2. c \in Clients
  BY <1>1, RequestTypes
<1>3. CASE pc[q] = "fetched" /\ cv'[q] = cv[q]
  BY <1>1, <1>2, <1>3, StaysShown DEF HeldInv
<1>4. ASSUME NEW t \in AnswerTimes(c), NEW o \in Omissions, cv'[q] = Answer(c, t, o),
             UNCHANGED layer
      PROVE  /\ cv'[q].at > 0
             /\ Shows(layer'[req'[q].client], cv'[q].at, cv'[q].lmid, cv'[q].view)
  <2>1. layer[c] \in Seq(LayerState) /\ layer[c] # << >>
    BY <1>2 DEF TypeOK, LayerType
  <2>2. t \in 1..Len(layer[c]) /\ t > 0
    BY <2>1 DEF AnswerTimes
  <2>3. ~o
    BY DEF Omissions, TrueToLayer
  <2>4. cv'[q].at = t /\ cv'[q].lmid = layer[c][t].lmid /\ cv'[q].view = layer[c][t].view
    BY <1>4, <2>3 DEF Answer
  <2>5. layer[c][t] = [lmid |-> layer[c][t].lmid, view |-> layer[c][t].view]
    <3>1. layer[c][t] \in LayerState
      BY <2>1, <2>2
    <3> QED BY <3>1 DEF LayerState
  <2> QED BY <1>1, <1>4, <2>2, <2>4, <2>5 DEF Shows
<1> QED BY <1>1, <1>3, <1>4

LEMMA NextHeld ==
    ASSUME PullInv, Undisturbed, [Next]_vars
    PROVE  HeldInv'
<1> USE DEF PullInv, Undisturbed
<1>1. HeadsAdvance
  BY NextAdvances
<1>2. ASSUME NEW c \in Clients, NEW x \in Held(c)'
      PROVE  Shows(layer'[c], x.at, LMIDOf(x.state), DataOf(x.state))
  <2>1. CASE x \in Held(c)
    BY <2>1, StaysShown DEF HeldInv
  <2>2. CASE x = HeadPair(c)'
    BY <2>2, NewHeadShows DEF HeadPair
  <2> QED BY <1>2, <2>1, <2>2, HeldFollows
<1>3. ASSUME NEW c \in Clients, NEW x \in Held(c)', NEW y \in Held(c)',
             Len(x.state) <= Len(y.state)
      PROVE  x.at <= y.at
  <2>1. /\ Len(head[c]) <= Len(head'[c]) /\ asOf'[c] >= asOf[c]
        /\ Len(head'[c]) = Len(head[c]) => asOf'[c] = asOf[c]
    BY <1>1 DEF HeadsAdvance
  <2>2. asOf[c] \in Nat /\ asOf'[c] \in Nat /\ Len(head[c]) \in Nat /\ Len(head'[c]) \in Nat
    BY NextType DEF TypeOK, StoreType, Commits
  <2>3. \A z \in Held(c) : /\ z.at \in Nat /\ Len(z.state) \in Nat
                           /\ Len(z.state) <= Len(head[c]) /\ z.at <= asOf[c]
    <3>1. HeadPair(c) \in Held(c) /\ HeadPair(c).state = head[c] /\ HeadPair(c).at = asOf[c]
      BY DEF Held, HeadPair
    <3> QED BY <3>1, HeldFacts DEF HeldInv
  <2>4. \A z \in Held(c) : Len(head[c]) <= Len(z.state) => asOf[c] <= z.at
    <3>1. HeadPair(c) \in Held(c) /\ HeadPair(c).state = head[c] /\ HeadPair(c).at = asOf[c]
      BY DEF Held, HeadPair
    <3> QED BY <3>1 DEF HeldInv
  <2>5. HeadPair(c)'.state = head'[c] /\ HeadPair(c)'.at = asOf'[c]
    BY DEF HeadPair
  <2>6. CASE x \in Held(c) /\ y \in Held(c)
    BY <1>3, <2>6 DEF HeldInv
  <2>7. CASE x \in Held(c) /\ y = HeadPair(c)'
    BY <2>1, <2>2, <2>3, <2>5, <2>7
  <2>8. CASE x = HeadPair(c)' /\ y \in Held(c)
    BY <1>3, <2>1, <2>2, <2>3, <2>4, <2>5, <2>8
  <2>9. CASE x = HeadPair(c)' /\ y = HeadPair(c)'
    BY <2>2, <2>5, <2>9
  <2> QED BY <1>3, <2>6, <2>7, <2>8, <2>9, HeldFollows
<1>4. ASSUME NEW q \in Requests, pc'[q] = "fetched"
      PROVE  /\ cv'[q].at > 0
             /\ Shows(layer'[req'[q].client], cv'[q].at, cv'[q].lmid, cv'[q].view)
  BY <1>4, FetchedShows
<1> QED BY <1>2, <1>3, <1>4 DEF HeldInv

LEMMA NextPulls ==
    ASSUME PullInv, Undisturbed, [Next]_vars
    PROVE  PullInv'
BY NextType, NextConsistent, NextDescends, NextTimes, NextProcessed, NextHeld
   DEF PullInv, Undisturbed

LEMMA InitPulls == Init => PullInv
<1> SUFFICES ASSUME Init PROVE PullInv
  OBVIOUS
<1>1. TypeOK /\ ConsistencyInv /\ ProcessedInv
  BY InitType, InitConsistent, InitProcessed
<1>2. DescentInv
  BY AncestorReflexive, DefaultFacts DEF Init, DescentInv
<1>3. TimesInv
  BY <1>1 DEF Init, TimesInv, TypeOK, LayerType
<1>4. HeldInv
  <2>1. ASSUME NEW c \in Clients, NEW x \in Held(c)
        PROVE  x = [state |-> << >>, at |-> 0]
    BY <2>1 DEF Init, Held
  <2>2. LMIDOf(<< >>) = 0 /\ DataOf(<< >>) = EmptyView
    BY DEF LMIDOf, DataOf
  <2>3. \A r \in Requests : pc[r] # "fetched"
    BY DEF Init
  <2> QED BY <2>1, <2>2, <2>3 DEF HeldInv, Shows
<1> QED BY <1>1, <1>2, <1>3, <1>4 DEF PullInv

-------------------------------------------------------------------------------
(* Every step is one of ObservedViews, or none.                            *)

Copy == [c \in Clients |-> [lmid |-> client[c].lmid, view |-> client[c].data]]

CopyTrue(c) ==
    /\ Copy[c] = [lmid |-> LMIDOf(client[c].state), view |-> DataOf(client[c].state)]
    /\ Shows(layer[c], seen[c], Copy[c].lmid, Copy[c].view)

LEMMA CopiesTrue ==
    ASSUME Undisturbed, NEW c \in Clients
    PROVE  (PullInv => CopyTrue(c)) /\ (PullInv => CopyTrue(c))'
<1> DEFINE Matches == client[c].lmid = LMIDOf(client[c].state)
                      /\ client[c].data = DataOf(client[c].state)
           x == [state |-> client[c].state, at |-> seen[c]]
           Seen == Shows(layer[c], seen[c], LMIDOf(client[c].state), DataOf(client[c].state))
<1>1. PullInv => Matches
  BY DEF PullInv, Undisturbed, ConsistencyInv, DamageIsSeen, OnlyCorruptDamages,
         ClientLMIDMatches, ClientDataMatches
<1>2. PullInv' => Matches'
  BY DEF PullInv, Undisturbed, ConsistencyInv, DamageIsSeen, OnlyCorruptDamages,
         ClientLMIDMatches, ClientDataMatches
<1>3. x \in Held(c) /\ (x \in Held(c))'
  BY DEF Held
<1>4. PullInv => Seen
  BY <1>3 DEF PullInv, HeldInv
<1>5. PullInv' => Seen'
  BY <1>3 DEF PullInv, HeldInv
<1> QED BY <1>1, <1>2, <1>4, <1>5 DEF Copy, CopyTrue

LEMMA SameMoment ==
    ASSUME NEW states, NEW at, NEW m, NEW v, NEW n, NEW w,
           Shows(states, at, m, v), Shows(states, at, n, w)
    PROVE  m = n /\ v = w
<1>1. CASE at = 0
  BY <1>1 DEF Shows
<1>2. CASE at # 0
  BY <1>2 DEF Shows
<1> QED BY <1>1, <1>2

LEMMA DeliverObserves ==
    ASSUME PullInv, Undisturbed, NEW r \in Requests, Deliver(r)
    PROVE  UNCHANGED <<layer, Copy, seen>> \/ \E c \in Clients : Observed!Observe(c)
<1> USE DEF PullInv
<1>1. PullInv' /\ [Next]_vars /\ UNCHANGED layer
  BY NextPulls DEF Deliver, Next
<1>2. PICK c \in Clients : c = req[r].client /\ pc[r] = "replied"
  BY RequestTypes DEF Deliver
<1>3. \A d \in Clients \ {c} : client'[d] = client[d] /\ seen'[d] = seen[d]
  BY <1>2 DEF Deliver, clientSide, TypeOK, ClientType
<1>4. \A d \in Clients \ {c} : Copy'[d] = Copy[d]
  BY <1>3 DEF Copy
<1>5. /\ DOMAIN Copy = Clients /\ DOMAIN Copy' = Clients /\ DOMAIN seen = Clients
      /\ DOMAIN seen' = Clients
  BY <1>1 DEF Copy, TypeOK, ClientType
<1>6. CASE client'[c].state = client[c].state /\ seen'[c] = seen[c]
  <2>1. Copy'[c] = Copy[c]
    <3>1. CopyTrue(c) /\ CopyTrue(c)'
      BY <1>1, <1>2, CopiesTrue
    <3> QED BY <1>6, <3>1 DEF CopyTrue
  <2>2. Copy' = Copy
    BY <1>4, <1>5, <2>1 DEF Copy
  <2>3. seen' = seen
    BY <1>1, <1>3, <1>6 DEF TypeOK, ClientType
  <2> QED BY <1>1, <2>2, <2>3
<1>7. ASSUME NEW q \in Requests, pc[q] = "replied", req[q].client = c, ~reply[q].nop,
             req[q].base = client[c].state, seen'[c] = reply[q].at
      PROVE  UNCHANGED <<layer, Copy, seen>> \/ Observed!Observe(c)
  <2>1. seen[c] \in Nat /\ seen'[c] \in Nat
    BY <1>1, <1>2 DEF TypeOK, ClientType
  <2>2. seen[c] <= seen'[c]
    <3> DEFINE x == [state |-> client[c].state, at |-> seen[c]]
               y == [state |-> reply[q].state, at |-> reply[q].at]
    <3>1. x \in Held(c) /\ y \in Held(c)
      BY <1>7 DEF Held
    <3>2. Len(x.state) <= Len(y.state)
      BY <1>2, <1>7 DEF TimesInv, DescentInv, IsAncestor
    <3> QED BY <1>2, <1>7, <3>1, <3>2 DEF HeldInv
  <2>3. /\ Shows(layer[c], seen[c], Copy[c].lmid, Copy[c].view)
        /\ Shows(layer[c], seen'[c], Copy'[c].lmid, Copy'[c].view)
    <3>1. CopyTrue(c) /\ CopyTrue(c)'
      BY <1>1, <1>2, CopiesTrue
    <3> QED BY <1>1, <3>1 DEF CopyTrue
  <2>4. /\ Copy[c] = [lmid |-> Copy[c].lmid, view |-> Copy[c].view]
        /\ Copy'[c] = [lmid |-> Copy'[c].lmid, view |-> Copy'[c].view]
    BY <1>2 DEF Copy
  <2>5. CASE seen'[c] = seen[c]
    <3>1. Copy'[c] = Copy[c]
      BY <2>3, <2>4, <2>5, SameMoment
    <3>2. Copy' = Copy
      BY <1>4, <1>5, <3>1 DEF Copy
    <3>3. seen' = seen
      BY <1>1, <1>3, <2>5 DEF TypeOK, ClientType
    <3> QED BY <1>1, <3>2, <3>3
  <2>6. CASE seen'[c] > seen[c]
    <3> DEFINE t == seen'[c]
    <3>1. t \in 1..Len(layer[c]) /\ layer[c][t] = [lmid |-> Copy'[c].lmid, view |-> Copy'[c].view]
      BY <2>1, <2>3, <2>6 DEF Shows
    <3>2. t \in (seen[c] + 1)..Len(layer[c])
      BY <1>2, <2>1, <2>6, <3>1 DEF TypeOK, LayerType
    <3>3. Copy' = [Copy EXCEPT ![c] = layer[c][t]]
      BY <1>4, <1>5, <2>4, <3>1 DEF Copy
    <3>4. seen' = [seen EXCEPT ![c] = t]
      BY <1>1, <1>3 DEF TypeOK, ClientType
    <3> QED BY <1>1, <3>2, <3>3, <3>4 DEF Observed!Observe, Copy
  <2> QED BY <2>1, <2>2, <2>5, <2>6
<1> QED BY <1>1, <1>2, <1>6, <1>7, WhatMovesSeen

LEMMA LayerMovesOn ==
    ASSUME TypeOK, NEW c \in Clients, LayerChange(c)
    PROVE  Observed!MoveOn(c)
<1>1. layer[c] \in Seq(LayerState) /\ layer[c] # << >>
  BY DEF TypeOK, LayerType
<1>2. layer[c][Len(layer[c])].lmid \in Nat
  <2>1. layer[c][Len(layer[c])] \in LayerState
    BY <1>1
  <2> QED BY <2>1 DEF LayerState
<1>3. PICK n \in layer[c][Len(layer[c])].lmid..MaxLMID, v \in Views :
         layer' = [layer EXCEPT ![c] = Append(@, [lmid |-> n, view |-> v])]
  BY DEF LayerChange
<1>4. n \in 0..MaxLMID /\ n >= layer[c][Len(layer[c])].lmid
  <2>1. MaxLMID \in Nat
    BY BoundAssumption
  <2> HIDE <1>3
  <2> QED BY <1>2, <2>1
<1>5. [lmid |-> n, view |-> v] \in Observed!Moment
  BY <1>4 DEF Observed!Moment
<1>6. UNCHANGED <<client, seen>>
  BY DEF LayerChange, clientSide
<1> QED BY <1>3, <1>4, <1>5, <1>6 DEF Observed!MoveOn

LEMMA StepObserves ==
    ASSUME PullInv, Undisturbed, [Next]_vars
    PROVE  [Observed!Next]_(Observed!vars)
<1>1. ASSUME NEW r \in Requests, Deliver(r)
      PROVE  [Observed!Next]_(Observed!vars)
  <2>1. UNCHANGED <<layer, Copy, seen>> \/ \E c \in Clients : Observed!Observe(c)
    BY <1>1, DeliverObserves
  <2>2. CASE UNCHANGED <<layer, Copy, seen>>
    BY <2>2 DEF Observed!vars, Copy
  <2>3. CASE \E c \in Clients : Observed!Observe(c)
    BY <2>3 DEF Observed!Next
  <2> QED BY <2>1, <2>2, <2>3
<1>2. ASSUME NEW c \in Clients, LayerChange(c)
      PROVE  [Observed!Next]_(Observed!vars)
  <2>1. Observed!MoveOn(c)
    BY <1>2, LayerMovesOn DEF PullInv
  <2> QED BY <2>1 DEF Observed!Next
<1>3. ASSUME UNCHANGED <<layer, clientSide>>
      PROVE  [Observed!Next]_(Observed!vars)
  BY <1>3 DEF clientSide, Observed!vars
<1>4. \A c \in Clients : ~Corrupt(c)
  BY DEF Undisturbed, Corrupt, Disrupt
<1> QED BY <1>1, <1>2, <1>3, <1>4, WhoMovesClients, WhoMovesLayers

(* While the data layer answers with its current view and datasets only    *)
(* fast-forward, clients see views of the data layer in order and never a  *)
(* mixture of two (pull, maybeGetAndStoreNewClientView, db.Diff): with any *)
(* number of clients, processes and requests, answers lost or overtaken,   *)
(* handlers panicking and processes crashing.                              *)
THEOREM PullsObserveViews ==
    ASSUME Undisturbed
    PROVE  Spec => ServesObservedViews
<1>1. Init => Observed!Init
  BY DEF Init, Observed!Init
<1>2. PullInv /\ [Next]_vars => PullInv'
  BY NextPulls
<1>3. PullInv /\ [Next]_vars => [Observed!Next]_(Observed!vars)
  BY StepObserves
<1> QED BY <1>1, <1>2, <1>3, InitPulls, PTL DEF Spec, ServesObservedViews, Observed!Spec
=================================================================================

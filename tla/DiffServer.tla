------------------------------ MODULE DiffServer ------------------------------
(***************************************************************************)
(* The pull and inject handlers of the diff server (serve/pull.go,         *)
(* serve/inject.go, serve/service.go) over the per-client databases of     *)
(* db/db.go, db/diff.go and db/commit.go.  Several server processes answer *)
(* requests concurrently over one Noms store; clients pull, retry and lose *)
(* answers; the customer's data layer changes under the fetch.             *)
(*                                                                         *)
(* A commit is the sequence of its ancestry's entries, genesis first: two  *)
(* commits are the same Noms struct exactly when the sequences are equal,  *)
(* and "is an ancestor of" is "is a prefix of".  << >> is "no commit".     *)
(***************************************************************************)
EXTENDS Checksum, Sequences

CONSTANTS
    Clients,        \* client IDs of one account: dataset "client/<id>"
    Servers,        \* processes, each with its own cached Noms Database
    Requests,       \* slots for the requests in flight
    Keys, Values,   \* keys and canonical JSON values of a client view
    Dates,          \* readings of the clock put into a commit
    NoRoot,         \* "this process has not opened the Database"
    MaxExact,       \* integers up to here are exact as float64 (2^53)
    EnableInject,   \* Service.enableInject
    Forms,          \* forms of the requests sent: see RequestForms
    Faults,         \* which misfortunes of the environment may happen
    MaxLayer,       \* bound: states of the data layer per client
    MaxLMID,        \* bound: lastMutationID of the data layer
    MaxCommits,     \* bound: length of a commit chain a fetch may extend
    MaxDisruptions  \* bound: disruptions (crash, delete, injection, ...)

(* A request is "good", or one the handler refuses before it opens the     *)
(* database ("early": method, body, version, authorization, client ID) or  *)
(* after ("late": base state, checksum, URL missing or not authorized; a   *)
(* value of an injected view that does not parse).                         *)
RequestForms == {"good", "early", "late"}

AllFaults == {"stale", "noLMID", "lose", "panic", "crash", "delete", "coldstart", "corrupt"}

ASSUME ExactAssumption == MaxExact \in Nat /\ MaxExact % 4 = 0
ASSUME FlagAssumption == /\ EnableInject \in BOOLEAN
                         /\ Forms \subseteq RequestForms
                         /\ Faults \subseteq AllFaults
ASSUME BoundAssumption ==
    {MaxLayer, MaxLMID, MaxCommits, MaxDisruptions} \subseteq Nat

(* Up to twice MaxExact float64 holds every even number; beyond, ToNumber  *)
(* would round less than the code does.                                    *)
ASSUME LMIDAssumption == MaxLMID <= 2 * MaxExact

VARIABLES
    head,     \* persisted head of each client's dataset
    chunks,   \* the commits that can be read back from the store
    root,     \* nomsen: each process's view of the datasets, or NoRoot
    pc,       \* where each request is
    req,      \* the request being served
    snap,     \* db.head of the request's own db.DB, and (ghost) its time
    cv,       \* the client view response in hand, and the local err
    reply,    \* the answer of a successful pull, on its way
    client,   \* what each client holds: state ID, data, lastMutationID
    layer,    \* history of what the data layer would answer for a client
    asOf,     \* ghost: index in layer of the view at the persisted head
    lost,     \* ghost: the client's dataset was deleted or lost once
    seen,     \* ghost: index in layer of the view the client holds
    dirty,    \* ghost: the client's data was damaged since its last sync
    disruptions

store     == <<head, chunks, root, asOf, lost>>
slot      == <<pc, req, snap, cv, reply>>
clientSide == <<client, seen, dirty>>
vars == <<store, slot, clientSide, layer, disruptions>>

-------------------------------------------------------------------------------
(* Data.                                                                   *)

Views     == UNION {[D -> Values] : D \in SUBSET Keys}
EmptyView == [k \in {} |-> k]
Entry     == [lmid : Nat, data : Views, date : Dates]
Commits   == Seq(Entry)

LMIDOf(h) == IF h = << >> THEN 0 ELSE h[Len(h)].lmid
DataOf(h) == IF h = << >> THEN EmptyView ELSE h[Len(h)].data

IsAncestor(a, b) == /\ Len(a) <= Len(b)
                    /\ \A i \in 1..Len(a) : a[i] = b[i]

(* types.Number(lastMutationID): the nearest float64, ties to even, of     *)
(* integers that LMIDAssumption allows.                                    *)
ToNumber(n) == IF n <= MaxExact \/ n % 2 = 0 THEN n
               ELSE IF n % 4 = 1 THEN n - 1 ELSE n + 1

MakeCommit(basis, date, data, lmid) ==
    Append(basis, [lmid |-> ToNumber(lmid), data |-> data, date |-> date])

(* A JSON patch: optionally clear the map, then set and remove keys.       *)
Patches == [replace : BOOLEAN, put : Views, del : SUBSET Keys]

Changed(from, to) == {k \in DOMAIN to : k \notin DOMAIN from \/ from[k] # to[k]}

(* Mutant of PatchBetween: removed keys are left out.                      *)
PatchWithoutRemoves(replace, from, to) ==
    [replace |-> replace, put |-> [k \in Changed(from, to) |-> to[k]], del |-> {}]

PatchBetween(replace, from, to) ==
    [replace |-> replace,
     put     |-> [k \in Changed(from, to) |-> to[k]],
     del     |-> DOMAIN from \ DOMAIN to]

NopPatch == PatchBetween(FALSE, EmptyView, EmptyView)

ApplyPatch(view, patch) ==
    LET start == IF patch.replace THEN EmptyView ELSE view
    IN  [k \in (DOMAIN start \ patch.del) \cup DOMAIN patch.put |->
            IF k \in DOMAIN patch.put THEN patch.put[k] ELSE start[k]]

NoRequest == [kind |-> "none"]
NoSnap    == [head |-> << >>, at |-> 0]
NoCV      == [ok |-> FALSE, err |-> FALSE, lmid |-> 0, view |-> EmptyView, at |-> 0]
NoReply   == [none |-> TRUE]

Sums       == SUBSET UNION {HashEntry(k, v) : k \in Keys, v \in Values}
RequestSet == [kind : {"pull", "inject"}, client : Clients, server : Servers,
               form : RequestForms, base : Commits, sum : Sums, lmid : Nat]
ReplySet == [nop : BOOLEAN, state : Commits, lmid : Nat, patch : Patches,
             sum : Sums, errorMessage : BOOLEAN, at : Nat]
ViewSet  == [ok : BOOLEAN, err : BOOLEAN, lmid : Nat, view : Views, at : Nat]
SnapSet  == [head : Commits, at : Nat]
LayerState == [lmid : Nat, view : Views]

Running == {"arrived", "genesis", "opened", "fetched", "stored"}

StoreType  == /\ head \in [Clients -> Commits]
              /\ chunks \subseteq Commits
              /\ root \in [Servers -> [Clients -> Commits] \cup {NoRoot}]
              /\ asOf \in [Clients -> Nat]
              /\ lost \in [Clients -> BOOLEAN]

SlotType   == /\ pc \in [Requests -> Running \cup {"idle", "replied"}]
              /\ req \in [Requests -> RequestSet \cup {NoRequest}]
              /\ \A r \in Requests : pc[r] # "idle" => req[r] \in RequestSet
              /\ snap \in [Requests -> SnapSet]
              /\ cv \in [Requests -> ViewSet]
              /\ reply \in [Requests -> ReplySet \cup {NoReply}]
              /\ \A r \in Requests : pc[r] = "replied" => reply[r] \in ReplySet

ClientType == /\ client \in [Clients -> [state : Commits, data : Views, lmid : Nat]]
              /\ seen \in [Clients -> Nat]
              /\ dirty \in [Clients -> BOOLEAN]

LayerType  == /\ layer \in [Clients -> Seq(LayerState)]
              /\ \A c \in Clients : layer[c] # << >>

TypeOK == StoreType /\ SlotType /\ ClientType /\ LayerType /\ disruptions \in Nat

Init ==
    /\ head = [c \in Clients |-> << >>]
    /\ chunks = {}
    /\ root = [s \in Servers |-> NoRoot]
    /\ pc = [r \in Requests |-> "idle"]
    /\ req = [r \in Requests |-> NoRequest]
    /\ snap = [r \in Requests |-> NoSnap]
    /\ cv = [r \in Requests |-> NoCV]
    /\ reply = [r \in Requests |-> NoReply]
    /\ client = [c \in Clients |-> [state |-> << >>, data |-> EmptyView, lmid |-> 0]]
    /\ layer \in [Clients -> {<<[lmid |-> 0, view |-> v]>> : v \in Views}]
    /\ asOf = [c \in Clients |-> 0]
    /\ lost = [c \in Clients |-> FALSE]
    /\ seen = [c \in Clients |-> 0]
    /\ dirty = [c \in Clients |-> FALSE]
    /\ disruptions = 0

-------------------------------------------------------------------------------
(* Requests arrive.                                                        *)

Begin(r, request) ==
    /\ pc[r] = "idle"
    /\ pc' = [pc EXCEPT ![r] = "arrived"]
    /\ req' = [req EXCEPT ![r] = request]

(* The request is over: its slot, and all the handler held, is free.       *)
Free(r) ==
    /\ pc' = [pc EXCEPT ![r] = "idle"]
    /\ req' = [req EXCEPT ![r] = NoRequest]
    /\ snap' = [snap EXCEPT ![r] = NoSnap]
    /\ cv' = [cv EXCEPT ![r] = NoCV]
    /\ reply' = [reply EXCEPT ![r] = NoReply]

(* A client pulls with what it holds.                                      *)
SendPull(r, c, s) ==
    /\ \E form \in Forms :
          Begin(r, [kind |-> "pull", client |-> c, server |-> s, form |-> form,
                    base |-> client[c].state, sum |-> ChecksumOf(client[c].data),
                    lmid |-> client[c].lmid])
    /\ UNCHANGED <<store, snap, cv, reply, clientSide, layer, disruptions>>

(* Somebody injects a client view; it is kept as a response in hand.       *)
SendInject(r, c, s) ==
    /\ EnableInject
    /\ disruptions < MaxDisruptions
    /\ disruptions' = disruptions + 1
    /\ \E form \in Forms :
          Begin(r, [kind |-> "inject", client |-> c, server |-> s, form |-> form,
                    base |-> << >>, sum |-> {}, lmid |-> 0])
    /\ \E n \in 0..MaxLMID, v \in Views :
          cv' = [cv EXCEPT ![r] = [NoCV EXCEPT !.ok = TRUE, !.lmid = n, !.view = v]]
    /\ UNCHANGED <<store, snap, reply, clientSide, layer>>

-------------------------------------------------------------------------------
(* The steps of a handler.                                                 *)

(* Early returns: 4xx or 500 with nothing read or written.                 *)
RejectEarly(r) ==
    /\ pc[r] = "arrived"
    /\ req[r].form = "early"
    /\ Free(r)
    /\ UNCHANGED <<store, clientSide, layer, disruptions>>

(* getNoms opens the account's Database, or rebases the cached one: either *)
(* way the process sees the persisted root.                                *)
CachedRoot(s) == IF root[s] = NoRoot THEN head ELSE root[s]  \* mutant: no rebase
Rebased(s) == head

(* GetDB with a dataset that has a head: db.New adopts it.                 *)
(* Without a head, initLocked goes on to write the genesis commit.         *)
GetDB(r) ==
    LET c == req[r].client
        s == req[r].server
        datasets == Rebased(s)
    IN  /\ pc[r] = "arrived"
        /\ req[r].form # "early"
        /\ root' = [root EXCEPT ![s] = datasets]
        /\ pc' = [pc EXCEPT ![r] = IF datasets[c] = << >> THEN "genesis" ELSE "opened"]
        /\ snap' = [snap EXCEPT ![r] = [head |-> datasets[c], at |-> asOf[c]]]
        /\ UNCHANGED <<head, chunks, asOf, lost, req, cv, reply, clientSide, layer, disruptions>>

(* Noms FastForward: the dataset's persisted head, if any, must be an      *)
(* ancestor of the new commit, or that commit.                             *)
CanFastForward(c, new) == IsAncestor(head[c], new)

MoveHead(r, new, at) ==
    LET c == req[r].client
        newHead == [head EXCEPT ![c] = new]
        newAt == IF head[c] = new THEN asOf[c] ELSE at
    IN  /\ head' = newHead
        /\ chunks' = chunks \cup {new}
        /\ root' = [root EXCEPT ![req[r].server] = newHead]
        /\ asOf' = [asOf EXCEPT ![c] = newAt]
        /\ UNCHANGED lost

SetHead(r, new, at) == MoveHead(r, new, at)  \* mutant of FastForward: overwrites

(* setHeadLocked with a FastForward that succeeds.                         *)
FastForward(r, new, at) == CanFastForward(req[r].client, new) /\ MoveHead(r, new, at)

(* db.ds and db.head move to the commit just made the head.                *)
Adopt(r) == LET c == req[r].client
            IN  snap' = [snap EXCEPT ![r] = [head |-> head'[c], at |-> asOf'[c]]]

(* initLocked on a dataset without a head.                                 *)
Genesis(r) ==
    /\ pc[r] = "genesis"
    /\ \E date \in Dates :
          FastForward(r, MakeCommit(<< >>, date, EmptyView, 0), 0)
    /\ Adopt(r)
    /\ pc' = [pc EXCEPT ![r] = "opened"]
    /\ UNCHANGED <<req, cv, reply, clientSide, layer, disruptions>>

(* The same when another request created a different genesis first: New    *)
(* fails and so does the request, with a 500.                              *)
GenesisConflict(r) ==
    /\ pc[r] = "genesis"
    /\ \E date \in Dates :
          ~CanFastForward(req[r].client, MakeCommit(<< >>, date, EmptyView, 0))
    /\ Free(r)
    /\ UNCHANGED <<store, clientSide, layer, disruptions>>

(* Errors found after the database was opened: 400, 403 or 500.            *)
RejectLate(r) ==
    /\ pc[r] = "opened"
    /\ req[r].form = "late"
    /\ Free(r)
    /\ UNCHANGED <<store, clientSide, layer, disruptions>>

(* The data layer answers: with its current view, or with an earlier one   *)
(* when it reads from a lagging replica ("stale"), or leaving out the      *)
(* lastMutationID, which decodes as 0 ("noLMID").                          *)
AnswerTimes(c) == IF "stale" \in Faults THEN 1..Len(layer[c]) ELSE {Len(layer[c])}
Omissions      == IF "noLMID" \in Faults THEN BOOLEAN ELSE {FALSE}

(* Mutant of Answer: a missing lastMutationID is -1.                       *)
AnswerMinusOne(c, t, omitted) ==
    [ok |-> TRUE, err |-> FALSE,
     lmid |-> IF omitted THEN 0 - 1 ELSE layer[c][t].lmid,
     view |-> layer[c][t].view, at |-> t]

Answer(c, t, omitted) ==
    [ok |-> TRUE, err |-> FALSE,
     lmid |-> IF omitted THEN 0 ELSE layer[c][t].lmid,
     view |-> layer[c][t].view, at |-> t]

Fetch(r) ==
    LET c == req[r].client
    IN  /\ pc[r] = "opened"
        /\ req[r].kind = "pull"
        /\ req[r].form = "good"
        /\ Len(snap[r].head) < MaxCommits
        /\ \E t \in AnswerTimes(c), omitted \in Omissions :
              cv' = [cv EXCEPT ![r] = Answer(c, t, omitted)]
        /\ pc' = [pc EXCEPT ![r] = "fetched"]
        /\ UNCHANGED <<store, req, snap, reply, clientSide, layer, disruptions>>

(* No URL, no connection, a status other than 200, an undecodable body, or *)
(* a view with a value that storeClientView cannot parse.                  *)
FetchFail(r) ==
    /\ pc[r] = "opened"
    /\ req[r].kind = "pull"
    /\ req[r].form = "good"
    /\ cv' = [cv EXCEPT ![r] = [NoCV EXCEPT !.err = TRUE]]
    /\ pc' = [pc EXCEPT ![r] = "stored"]
    /\ UNCHANGED <<store, req, snap, reply, clientSide, layer, disruptions>>

(* The least lastMutationID pull accepts from the data layer.              *)
ClientLMID(r) == req[r].lmid  \* mutant of MinLMID: only the client's
MinLMID(r) == IF req[r].lmid > LMIDOf(snap[r].head)
              THEN req[r].lmid ELSE LMIDOf(snap[r].head)

(* MaybePutData finds the view equal to the one at its head.               *)
SameLMID(r) == cv[r].lmid = LMIDOf(snap[r].head)  \* mutant of SameAsHead: no checksum
SameAsHead(r) ==
    /\ cv[r].lmid = LMIDOf(snap[r].head)
    /\ ChecksumOf(cv[r].view) = ChecksumOf(DataOf(snap[r].head))

(* Mutant of NewCommit: the least acceptable lastMutationID is stored.     *)
NewCommitOfMinLMID(r, date) == MakeCommit(snap[r].head, date, cv[r].view, MinLMID(r))

(* Mutant of NewCommit: made on the persisted head, to avoid conflicts.     *)
NewCommitOnHead(r, date) == MakeCommit(head[req[r].client], date, cv[r].view, cv[r].lmid)

NewCommit(r, date) == MakeCommit(snap[r].head, date, cv[r].view, cv[r].lmid)

(* MaybePutData: nothing to do, a new commit, or a FastForward that fails. *)
PutNop(r) == SameAsHead(r) /\ UNCHANGED store

PutCommit(r) ==
    /\ ~SameAsHead(r)
    /\ \E date \in Dates : FastForward(r, NewCommit(r, date), cv[r].at)

PutConflict(r) ==
    /\ ~SameAsHead(r)
    /\ \E date \in Dates : ~CanFastForward(req[r].client, NewCommit(r, date))
    /\ UNCHANGED store

(* The view would take the head or the client back in time: not stored.    *)
Refuse(r) ==
    /\ pc[r] = "fetched"
    /\ cv[r].lmid < MinLMID(r)
    /\ pc' = [pc EXCEPT ![r] = "stored"]
    /\ UNCHANGED <<store, req, snap, cv, reply, clientSide, layer, disruptions>>

(* pull calls storeClientView, which builds the map and puts it.           *)
Store(r) ==
    /\ pc[r] = "fetched"
    /\ cv[r].lmid >= MinLMID(r)
    /\ \/ PutNop(r) /\ UNCHANGED <<snap, cv>>
       \/ PutCommit(r) /\ Adopt(r) /\ UNCHANGED cv
       \/ PutConflict(r) /\ cv' = [cv EXCEPT ![r].err = TRUE] /\ UNCHANGED snap
    /\ pc' = [pc EXCEPT ![r] = "stored"]
    /\ UNCHANGED <<req, reply, clientSide, layer, disruptions>>

(* inject calls storeClientView whatever the lastMutationID is, and        *)
(* answers 200 or 500.                                                     *)
InjectPut(r) ==
    /\ pc[r] = "opened"
    /\ req[r].kind = "inject"
    /\ req[r].form = "good"
    /\ PutNop(r) \/ PutCommit(r) \/ PutConflict(r)
    /\ Free(r)
    /\ UNCHANGED <<clientSide, layer, disruptions>>

(* db.Diff: an unknown basis, or one whose checksum is not the client's,   *)
(* makes it a full sync.                                                   *)
BasisExists(r) == req[r].base \in chunks  \* mutant of KnownBasis: no checksum
KnownBasis(r) == /\ req[r].base \in chunks
                 /\ ChecksumOf(DataOf(req[r].base)) = req[r].sum

(* Mutant of Diff: a full sync does not clear the client's data.           *)
DiffUncleared(r, to) ==
    PatchBetween(FALSE, IF KnownBasis(r) THEN DataOf(req[r].base) ELSE EmptyView, DataOf(to))

Diff(r, to) ==
    IF KnownBasis(r) THEN PatchBetween(FALSE, DataOf(req[r].base), DataOf(to))
                     ELSE PatchBetween(TRUE, EmptyView, DataOf(to))

(* Refuse to send the client backwards in time.                            *)
NeverBehind(r) == FALSE  \* mutant of BehindClient: no check
NotAhead(r) == LMIDOf(snap[r].head) <= req[r].lmid  \* mutant of BehindClient: off by one
BehindClient(r) == LMIDOf(snap[r].head) < req[r].lmid

(* clientViewInfo.ErrorMessage in the answer.  The deferred function that  *)
(* sets it assigns the local variable after its value was returned: no     *)
(* answer says that its fetch or store failed.                             *)
ErrorMessage(r) == FALSE

(* Mutant of NopPull: with the checksum of the head.                       *)
NopPullOfHead(r) ==
    [nop |-> TRUE, state |-> req[r].base, lmid |-> req[r].lmid, patch |-> NopPatch,
     sum |-> ChecksumOf(DataOf(snap[r].head)), errorMessage |-> ErrorMessage(r), at |-> 0]

NopPull(r) ==
    [nop |-> TRUE, state |-> req[r].base, lmid |-> req[r].lmid, patch |-> NopPatch,
     sum |-> req[r].sum, errorMessage |-> ErrorMessage(r), at |-> 0]

PullResponse(r) ==
    [nop |-> FALSE, state |-> snap[r].head, lmid |-> LMIDOf(snap[r].head),
     patch |-> Diff(r, snap[r].head), sum |-> ChecksumOf(DataOf(snap[r].head)),
     errorMessage |-> ErrorMessage(r), at |-> snap[r].at]

Respond(r) ==
    /\ pc[r] = "stored"
    /\ reply' = [reply EXCEPT ![r] = IF BehindClient(r) THEN NopPull(r)
                                     ELSE PullResponse(r)]
    /\ pc' = [pc EXCEPT ![r] = "replied"]
    /\ snap' = [snap EXCEPT ![r] = NoSnap]
    /\ cv' = [cv EXCEPT ![r] = [NoCV EXCEPT !.err = cv[r].err]]
    /\ UNCHANGED <<store, req, clientSide, layer, disruptions>>

-------------------------------------------------------------------------------
(* The client and the network.                                             *)

(* The client takes an answer only if it still is at the base it asked     *)
(* from: an answer overtaken by a retry is dropped.                        *)
Deliver(r) ==
    LET c == req[r].client
        p == reply[r]
    IN  /\ pc[r] = "replied"
        /\ IF req[r].base = client[c].state
             THEN /\ client' = [client EXCEPT ![c] =
                        [state |-> p.state, lmid |-> p.lmid,
                         data |-> ApplyPatch(client[c].data, p.patch)]]
                  /\ seen' = IF p.nop THEN seen ELSE [seen EXCEPT ![c] = p.at]
                  /\ dirty' = IF p.nop THEN dirty ELSE [dirty EXCEPT ![c] = FALSE]
             ELSE UNCHANGED clientSide
        /\ Free(r)
        /\ UNCHANGED <<store, layer, disruptions>>

(* The answer is lost, or comes after the client gave up waiting.          *)
LoseReply(r) ==
    /\ "lose" \in Faults
    /\ pc[r] = "replied"
    /\ Free(r)
    /\ UNCHANGED <<store, clientSide, layer, disruptions>>

(* The data layer's view of a client changes; mutations may be processed.  *)
LayerChange(c) ==
    LET last == layer[c][Len(layer[c])]
    IN  /\ Len(layer[c]) < MaxLayer
        /\ \E n \in last.lmid..MaxLMID, v \in Views :
              /\ [lmid |-> n, view |-> v] # last
              /\ layer' = [layer EXCEPT ![c] = Append(@, [lmid |-> n, view |-> v])]
        /\ UNCHANGED <<store, slot, clientSide, disruptions>>

-------------------------------------------------------------------------------
(* Disruptions.                                                            *)

Disrupt(fault) ==
    /\ fault \in Faults
    /\ disruptions < MaxDisruptions
    /\ disruptions' = disruptions + 1

(* Noms panics when its storage fails, and panicCatcher answers 500: the   *)
(* request ends between any two of its steps, and the process goes on.     *)
Panic(r) ==
    /\ Disrupt("panic")
    /\ pc[r] \in Running
    /\ Free(r)
    /\ UNCHANGED <<store, clientSide, layer>>

(* The requests in S die with their process.                               *)
Kill(S) ==
    /\ pc' = [r \in Requests |-> IF r \in S THEN "idle" ELSE pc[r]]
    /\ req' = [r \in Requests |-> IF r \in S THEN NoRequest ELSE req[r]]
    /\ snap' = [r \in Requests |-> IF r \in S THEN NoSnap ELSE snap[r]]
    /\ cv' = [r \in Requests |-> IF r \in S THEN NoCV ELSE cv[r]]
    /\ UNCHANGED reply

(* A process stops; its cached Database and its handlers are gone.         *)
Crash(s) ==
    /\ Disrupt("crash")
    /\ Kill({r \in Requests : pc[r] \in Running /\ req[r].server = s})
    /\ root' = [root EXCEPT ![s] = NoRoot]
    /\ UNCHANGED <<head, chunks, asOf, lost, clientSide, layer>>

(* "noms ds -d <db-spec>::<client-id>" (README.md, Debug in production):   *)
(* the dataset is gone, its commits can still be read.                     *)
DeleteClient(c) ==
    /\ Disrupt("delete")
    /\ head[c] # << >>
    /\ head' = [head EXCEPT ![c] = << >>]
    /\ asOf' = [asOf EXCEPT ![c] = 0]
    /\ lost' = [lost EXCEPT ![c] = TRUE]
    /\ UNCHANGED <<chunks, root, slot, clientSide, layer>>

(* "Maybe it's really old or we're starting up cold" (db/diff.go): all     *)
(* processes restart over an empty store.                                  *)
ColdStart ==
    /\ Disrupt("coldstart")
    /\ Kill({r \in Requests : pc[r] \in Running})
    /\ head' = [c \in Clients |-> << >>]
    /\ chunks' = {}
    /\ root' = [s \in Servers |-> NoRoot]
    /\ asOf' = [c \in Clients |-> 0]
    /\ lost' = [c \in Clients |-> TRUE]
    /\ UNCHANGED <<clientSide, layer>>

(* A client with no request in flight loses track of its data.             *)
Corrupt(c) ==
    /\ Disrupt("corrupt")
    /\ \A r \in Requests : pc[r] # "idle" => req[r].client # c
    /\ \E v \in Views \ {client[c].data} :
          client' = [client EXCEPT ![c].data = v]
    /\ dirty' = [dirty EXCEPT ![c] = TRUE]
    /\ UNCHANGED <<store, slot, seen, layer>>

-------------------------------------------------------------------------------
Arrive(r) == \E c \in Clients, s \in Servers : SendPull(r, c, s) \/ SendInject(r, c, s)

Open(r) == RejectEarly(r) \/ GetDB(r) \/ Genesis(r) \/ GenesisConflict(r) \/ RejectLate(r)

Serve(r) == FetchFail(r) \/ Fetch(r) \/ Refuse(r) \/ Store(r) \/ InjectPut(r) \/ Respond(r)

Environment == \/ \E c \in Clients : LayerChange(c) \/ DeleteClient(c) \/ Corrupt(c)
               \/ \E r \in Requests : Panic(r)
               \/ \E s \in Servers : Crash(s)
               \/ ColdStart

Next ==
    \/ \E r \in Requests : Arrive(r) \/ Open(r) \/ Serve(r) \/ Deliver(r) \/ LoseReply(r)
    \/ Environment

Spec == Init /\ [][Next]_vars

(* A process runs its handlers, and an answer arrives or is lost.  No      *)
(* fetch need ever end: the HTTP client has no timeout.  A client keeps    *)
(* pulling, with requests the handler accepts; of infinitely many fetches  *)
(* for it some succeed, and of infinitely many answers to it some arrive.  *)
PullsAgain(c) == \E r \in Requests, s \in Servers :
                     SendPull(r, c, s) /\ req'[r].form = "good"
Fetches(c)    == \E r \in Requests : req[r].kind = "pull" /\ req[r].client = c /\ Fetch(r)
Receives(c)   == \E r \in Requests : req[r].kind = "pull" /\ req[r].client = c /\ Deliver(r)

Fairness ==
    /\ \A r \in Requests : /\ WF_vars(Open(r))
                           /\ WF_vars(Refuse(r) \/ Store(r) \/ InjectPut(r) \/ Respond(r))
                           /\ WF_vars(Deliver(r) \/ LoseReply(r))
    /\ \A c \in Clients : /\ SF_vars(PullsAgain(c))
                          /\ SF_vars(Fetches(c))
                          /\ SF_vars(Receives(c))

FairSpec == Spec /\ Fairness
===============================================================================

------------------------------- MODULE Accounts -------------------------------
(***************************************************************************)
(* The account database (account/db.go, account/records.go) and the        *)
(* handlers that use it: signup (serve/signup/service.go), which opens a   *)
(* database of its own for every form posted; pull, which looks up the     *)
(* account and may add a client view host to it (ClientViewURLAuthorized); *)
(* inject, which only looks it up.  The latter two go through the one      *)
(* account.DB their process shares between all requests.                   *)
(*                                                                         *)
(* The dataset has one commit without ancestry, so its head is just the    *)
(* Records in it, and a Noms root is equal to another one when they are.   *)
(***************************************************************************)
EXTENDS Naturals, FiniteSets

CONSTANTS
    Processes,     \* server processes that answer pulls
    Pulls,         \* pull and inject handlers that may run at once
    Signups,       \* signup handlers that may run at once
    ProcessOf,     \* the process each pull handler runs in
    Hosts,         \* hosts of client view URLs
    NoHost,        \* what inject, and pull in version 2, asks for: no host
    Asks,          \* the accounts and hosts each pull handler may be asked for
    LowestASID,    \* first ID of auto-signup accounts
    RegularAccounts,       \* hard-coded accounts: ID to hosts
    MaxASClientViewHosts,  \* hosts an auto-signup account may collect
    NoHead,        \* "the dataset has no head"
    MaxASID,       \* bound: the last ID there is
    MaxStart       \* bound: no signup starts once this ID was taken

ASSUME ProcessAssumption == ProcessOf \in [Pulls -> Processes]
ASSUME ActorsAssumption ==
    /\ Pulls \cap Signups = {} /\ Processes \cap Signups = {} /\ Pulls \cap Processes = {}

(* The account and host a request is about.                                *)
Tasks  == [id : Nat, host : Hosts \cup {NoHost}]
NoTask == [none |-> TRUE]

ASSUME AsksAssumption ==
    Asks \in [Pulls -> SUBSET Tasks] /\ NoHost \notin Hosts
ASSUME ASIDAssumption ==
    {LowestASID, MaxASClientViewHosts, MaxASID} \subseteq Nat /\ LowestASID <= MaxASID
ASSUME RegularAssumption ==
    /\ DOMAIN RegularAccounts \subseteq 0..(LowestASID - 1)
    /\ \A id \in DOMAIN RegularAccounts : RegularAccounts[id] \subseteq Hosts

VARIABLES
    root,     \* persisted head: Records, or NoHead
    local,    \* per account.DB, the root its Noms Database last saw
    ds,       \* per account.DB, the head of its dataset handle
    head,     \* per account.DB, db.head.Value
    pc,       \* where each process and handler is
    task,     \* the account and host a pull asks for
    records,  \* the Records a handler holds
    basis,    \* history: the Records a handler read
    issued,   \* history: how many people were shown each ID: 0, 1 or 2 and more
    allowed,  \* history: hosts authorized, per auto-signup account
    overlapped,   \* history: running pulls beside which their process ran another
    overwritten   \* history: some write replaced a head its handler had not read

Handlers == Pulls \cup Signups
DBs      == Processes \cup Signups
Actors   == Processes \cup Handlers

DBOf(h) == IF h \in Pulls THEN ProcessOf[h] ELSE h

noms == <<root, local>>
dbs  == <<ds, head>>
held == <<task, records, basis, overlapped>>
history == <<issued, allowed, overwritten>>
vars == <<noms, dbs, pc, held, history>>

-------------------------------------------------------------------------------
IDs == 0..MaxASID

Records == [next : Nat, record : UNION {[S -> SUBSET Hosts] : S \in SUBSET IDs}]

ASSUME NoHeadAssumption == NoHead \notin Records

NoAccounts == [next |-> LowestASID, record |-> [id \in {} |-> {}]]

IsAboveLowestASID(id) == id > LowestASID  \* mutant of IsASID: off by one

IsASID(id) == id >= LowestASID

(* The next ID of a head, the first one when there is none yet.            *)
NextASID(rs) == IF rs = NoHead THEN LowestASID ELSE rs.next

(* ReadAllRecords lays the hard-coded accounts over what was saved.        *)
Overlay(rs) ==
    LET asids == {id \in DOMAIN rs.record : IsASID(id)}
    IN  [rs EXCEPT !.record = [id \in asids \cup DOMAIN RegularAccounts |->
            IF id \in asids THEN rs.record[id] ELSE RegularAccounts[id]]]

AddHost(rs, id, host) == [rs EXCEPT !.record[id] = @ \cup {host}]

AddAccount(rs) ==
    [next |-> rs.next + 1,
     record |-> [id \in DOMAIN rs.record \cup {rs.next} |->
                    IF id = rs.next THEN {} ELSE rs.record[id]]]

Reading == {"reload", "dataset", "init", "initNext", "initRecord", "value"}

TypeOK ==
    /\ root \in Records \cup {NoHead}
    /\ local \in [DBs -> Records \cup {NoHead}]
    /\ ds \in [DBs -> Records \cup {NoHead}]
    /\ head \in [DBs -> Records]
    /\ pc \in [Actors -> {"down", "create", "up", "idle", "decide", "write", "assign"}
                         \cup Reading]
    /\ task \in [Pulls -> Tasks \cup {NoTask}]
    /\ \A h \in Pulls : pc[h] \in {"decide", "write", "assign"} => task[h] \in Tasks
    /\ records \in [Handlers -> Records]
    /\ basis \in [Handlers -> Records]
    /\ issued \in [IDs -> 0..2]
    /\ allowed \subseteq [id : Nat, host : Hosts]
    /\ overlapped \subseteq Pulls
    /\ overwritten \in BOOLEAN

Init ==
    /\ root = NoHead
    /\ local = [d \in DBs |-> NoHead]
    /\ ds = [d \in DBs |-> NoHead]
    /\ head = [d \in DBs |-> NoAccounts]
    /\ pc = [a \in Actors |-> IF a \in Processes THEN "down" ELSE "idle"]
    /\ task = [h \in Pulls |-> NoTask]
    /\ records = [h \in Handlers |-> NoAccounts]
    /\ basis = [h \in Handlers |-> NoAccounts]
    /\ issued = [id \in IDs |-> 0]
    /\ allowed = {}
    /\ overlapped = {}
    /\ overwritten = FALSE

Goto(a, label) == pc' = [pc EXCEPT ![a] = label]

(* The account.DBs in D are gone, with the process or signup they are of.  *)
Close(D) ==
    /\ local' = [d \in DBs |-> IF d \in D THEN NoHead ELSE local[d]]
    /\ ds' = [d \in DBs |-> IF d \in D THEN NoHead ELSE ds[d]]
    /\ head' = [d \in DBs |-> IF d \in D THEN NoAccounts ELSE head[d]]

(* The handler answers; what it held is gone.                              *)
Finish(h) ==
    /\ Goto(h, "idle")
    /\ records' = [records EXCEPT ![h] = NoAccounts]
    /\ basis' = [basis EXCEPT ![h] = NoAccounts]
    /\ task' = IF h \in Pulls THEN [task EXCEPT ![h] = NoTask] ELSE task
    /\ overlapped' = overlapped \ {h}

(* db.mu is held while setHeadLocked is between its SetHead and its return.*)
Locked(d) == \E h \in Handlers : DBOf(h) = d /\ pc[h] = "assign"

-------------------------------------------------------------------------------
(* NewDB: by a process that starts, and by every signup.                   *)

Open(d) ==
    /\ \/ d \in Processes /\ pc[d] = "down"
       \/ d \in Signups /\ pc[d] = "idle" /\ NextASID(root) <= MaxStart
    /\ local' = [local EXCEPT ![d] = root]
    /\ ds' = [ds EXCEPT ![d] = root]
    /\ Goto(d, "create")
    /\ UNCHANGED <<root, head, held, history>>

(* Mutant of MaySetHead: SetHead again after a rebase, until it succeeds.   *)
MaySetAnyHead(d) == d \in DBs

(* Noms SetHead compares the persisted root with the one this Database     *)
(* last saw, not with the one the records were read from.                  *)
MaySetHead(d) == local[d] = root

Opened(d) == Goto(d, IF d \in Processes THEN "up" ELSE "reload")

(* Mutant of Adopt: initLocked does not ask whether there is a head.       *)
AdoptUnasked(d) ==
    /\ pc[d] = "create"
    /\ head' = [head EXCEPT ![d] = ds[d]]
    /\ Opened(d)
    /\ UNCHANGED <<noms, ds, held, history>>

(* initLocked finds a head.                                                *)
Adopt(d) ==
    /\ pc[d] = "create"
    /\ ds[d] # NoHead
    /\ head' = [head EXCEPT ![d] = ds[d]]
    /\ Opened(d)
    /\ UNCHANGED <<noms, ds, held, history>>

(* initLocked sets a first head without accounts.                          *)
Create(d) ==
    /\ pc[d] = "create"
    /\ ds[d] = NoHead
    /\ MaySetHead(d)
    /\ root' = NoAccounts
    /\ local' = [local EXCEPT ![d] = NoAccounts]
    /\ ds' = [ds EXCEPT ![d] = NoAccounts]
    /\ head' = [head EXCEPT ![d] = NoAccounts]
    /\ Opened(d)
    /\ UNCHANGED <<held, history>>

(* Somebody else did: NewDB fails, the process panics, the signup is a 500.*)
CreateConflict(d) ==
    /\ pc[d] = "create"
    /\ ds[d] = NoHead
    /\ ~MaySetHead(d)
    /\ Goto(d, IF d \in Processes THEN "down" ELSE "idle")
    /\ Close({d})
    /\ UNCHANGED <<root, held, history>>

(* A request arrives.                                                      *)
StartPull(h) ==
    /\ pc[h] = "idle"
    /\ pc[ProcessOf[h]] = "up"
    /\ Goto(h, "reload")
    /\ LET others == {g \in Pulls \ {h} : ProcessOf[g] = ProcessOf[h] /\ pc[g] # "idle"}
       IN  overlapped' = IF others = {} THEN overlapped ELSE overlapped \cup others \cup {h}
    /\ UNCHANGED <<noms, dbs, task, records, basis, history>>

-------------------------------------------------------------------------------
(* ReadAllRecords.  Reload waits for db.mu, but lets go of it at once      *)
(* (db.go:138 lacks the defer), so its steps interleave with everything.   *)

Rebase(h) ==
    LET d == DBOf(h)
    IN  /\ pc[h] = "reload"
        /\ ~Locked(d)
        /\ local' = [local EXCEPT ![d] = root]
        /\ Goto(h, "dataset")
        /\ UNCHANGED <<root, dbs, held, history>>

(* Mutant of GetDataset: Reload keeps the dataset handle it has.            *)
KeptDataset(h) ==
    /\ pc[h] = "dataset"
    /\ Goto(h, "init")
    /\ UNCHANGED <<noms, dbs, held, history>>

(* Mutant of GetDataset: from a Database of its own, opened just now.      *)
FreshDataset(h) ==
    LET d == DBOf(h)
    IN  /\ pc[h] = "dataset"
        /\ ds' = [ds EXCEPT ![d] = root]
        /\ Goto(h, "init")
        /\ UNCHANGED <<noms, head, held, history>>

GetDataset(h) ==
    LET d == DBOf(h)
    IN  /\ pc[h] = "dataset"
        /\ ds' = [ds EXCEPT ![d] = local[d]]
        /\ Goto(h, "init")
        /\ UNCHANGED <<noms, head, held, history>>

(* initLocked unmarshals the head and assigns it to db.head, word by word  *)
(* and in either order; there is a head, NewDB saw to that.                *)
InitFirst(h) ==
    LET d == DBOf(h)
    IN  /\ pc[h] = "init"
        /\ records' = [records EXCEPT ![h] = ds[d]]
        /\ \/ /\ head' = [head EXCEPT ![d].next = ds[d].next]
              /\ Goto(h, "initRecord")
           \/ /\ head' = [head EXCEPT ![d].record = ds[d].record]
              /\ Goto(h, "initNext")
        /\ UNCHANGED <<noms, ds, task, basis, overlapped, history>>

InitSecond(h) ==
    LET d == DBOf(h)
    IN  /\ \/ /\ pc[h] = "initNext"
              /\ head' = [head EXCEPT ![d].next = records[h].next]
           \/ /\ pc[h] = "initRecord"
              /\ head' = [head EXCEPT ![d].record = records[h].record]
        /\ Goto(h, "value")
        /\ UNCHANGED <<noms, ds, held, history>>

(* What account and host the request is about matters from here on.        *)
Ask(h) == \/ h \in Signups /\ UNCHANGED task
          \/ h \in Pulls /\ \E asked \in Asks[h] : task' = [task EXCEPT ![h] = asked]

(* HeadValue, then the overlay on a copy.                                  *)
HeadValue(h) ==
    LET d == DBOf(h)
    IN  /\ pc[h] = "value"
        /\ ~Locked(d)
        /\ records' = [records EXCEPT ![h] = Overlay(head[d])]
        /\ basis' = [basis EXCEPT ![h] = Overlay(head[d])]
        /\ Ask(h)
        /\ Goto(h, "decide")
        /\ UNCHANGED <<noms, dbs, overlapped, history>>

-------------------------------------------------------------------------------
(* What the handlers do with the records.                                  *)

Known(h)      == task[h].id \in DOMAIN records[h].record
HostsOf(h)    == records[h].record[task[h].id]
Authorized(h) == Known(h) /\ task[h].host \in HostsOf(h)
MayAlwaysGrow(h) == \* mutant of MayGrow: no limit
    Known(h) /\ task[h].host # NoHost /\ IsASID(task[h].id)
MayGrow(h)    == /\ Known(h)
                 /\ task[h].host # NoHost
                 /\ IsASID(task[h].id)
                 /\ Cardinality(HostsOf(h)) < MaxASClientViewHosts

Permit(h) == allowed' = IF IsASID(task[h].id) THEN allowed \cup {task[h]} ELSE allowed

(* The handler only wanted to know whether there is such an account.       *)
LookedUp(h) ==
    /\ pc[h] = "decide"
    /\ h \in Pulls
    /\ task[h].host = NoHost
    /\ Finish(h)
    /\ UNCHANGED <<noms, dbs, history>>

(* A pull names an account there is not: 400.                              *)
RefuseAccount(h) ==
    /\ pc[h] = "decide"
    /\ h \in Pulls
    /\ task[h].host # NoHost
    /\ ~Known(h)
    /\ Finish(h)
    /\ UNCHANGED <<noms, dbs, history>>

(* The host neither is nor may be added to the account's list: 403.        *)
RefuseHost(h) ==
    /\ pc[h] = "decide"
    /\ h \in Pulls
    /\ task[h].host # NoHost
    /\ Known(h)
    /\ ~Authorized(h) /\ ~MayGrow(h)
    /\ Finish(h)
    /\ UNCHANGED <<noms, dbs, history>>

(* The host is in the account's list.                                      *)
Allow(h) ==
    /\ pc[h] = "decide"
    /\ h \in Pulls
    /\ Authorized(h)
    /\ Permit(h)
    /\ Finish(h)
    /\ UNCHANGED <<noms, dbs, issued, overwritten>>

(* Mutant of AddHostToList: ReadAllRecords overlays the records of db.head *)
(* itself, without CopyRecords.                                            *)
AddHostToHead(h) ==
    LET d == DBOf(h)
    IN  /\ pc[h] = "decide"
        /\ h \in Pulls
        /\ ~Authorized(h) /\ MayGrow(h)
        /\ records' = [records EXCEPT ![h] = AddHost(@, task[h].id, task[h].host)]
        /\ head' = [head EXCEPT ![d].record = AddHost(records[h], task[h].id, task[h].host).record]
        /\ Goto(h, "write")
        /\ UNCHANGED <<noms, ds, task, basis, overlapped, history>>

(* The host goes into the account's list.                                  *)
AddHostToList(h) ==
    /\ pc[h] = "decide"
    /\ h \in Pulls
    /\ ~Authorized(h) /\ MayGrow(h)
    /\ records' = [records EXCEPT ![h] = AddHost(@, task[h].id, task[h].host)]
    /\ Goto(h, "write")
    /\ UNCHANGED <<noms, dbs, task, basis, overlapped, history>>

(* signup takes the next ID.                                               *)
Register(h) ==
    /\ pc[h] = "decide"
    /\ h \in Signups
    /\ records[h].next <= MaxASID
    /\ records' = [records EXCEPT ![h] = AddAccount(@)]
    /\ Goto(h, "write")
    /\ UNCHANGED <<noms, dbs, task, basis, overlapped, history>>

(* Nothing is written when the dataset handle has that head already.       *)
IsHead(h) == ds[DBOf(h)] = records[h]

(* The head, as a handler would read it now.                               *)
Saved == IF root = NoHead THEN NoAccounts ELSE root

Write(h) ==
    LET d == DBOf(h)
    IN  /\ pc[h] = "write"
        /\ ~Locked(d)
        /\ IsHead(h) \/ MaySetHead(d)
        /\ root' = IF IsHead(h) THEN root ELSE records[h]
        /\ local' = IF IsHead(h) THEN local ELSE [local EXCEPT ![d] = records[h]]
        /\ Goto(h, "assign")
        /\ overwritten' = (overwritten \/ (root' # root /\ Overlay(Saved) # basis[h]))
        /\ UNCHANGED <<dbs, held, issued, allowed>>

(* RetryError, which neither caller retries: a 500.                        *)
WriteConflict(h) ==
    LET d == DBOf(h)
    IN  /\ pc[h] = "write"
        /\ ~Locked(d)
        /\ ~IsHead(h)
        /\ ~MaySetHead(d)
        /\ Finish(h)
        /\ \/ h \in Signups /\ Close({h})
           \/ h \in Pulls /\ local' \in {local, [local EXCEPT ![d] = root]} /\ UNCHANGED dbs
        /\ UNCHANGED <<root, history>>

(* setHeadLocked adopts the new head, and the handler answers.             *)
Assign(h) ==
    LET d == DBOf(h)
    IN  /\ pc[h] = "assign"
        /\ Finish(h)
        /\ \/ /\ h \in Pulls
              /\ ds' = [ds EXCEPT ![d] = records[h]]
              /\ head' = [head EXCEPT ![d] = records[h]]
              /\ Permit(h)
              /\ UNCHANGED <<local, issued>>
           \/ /\ h \in Signups
              /\ Close({h})
              /\ issued' = [issued EXCEPT ![basis[h].next] = IF @ = 0 THEN 1 ELSE 2]
              /\ UNCHANGED allowed
        /\ UNCHANGED <<root, overwritten>>

-------------------------------------------------------------------------------
(* A process dies with its handlers; so may a signup.                      *)
Crash(p) ==
    LET dead == {h \in Pulls : ProcessOf[h] = p}
    IN  /\ pc[p] = "up"
        /\ pc' = [a \in Actors |-> IF a = p THEN "down"
                                   ELSE IF a \in dead THEN "idle" ELSE pc[a]]
        /\ task' = [h \in Pulls |-> IF h \in dead THEN NoTask ELSE task[h]]
        /\ records' = [h \in Handlers |-> IF h \in dead THEN NoAccounts ELSE records[h]]
        /\ basis' = [h \in Handlers |-> IF h \in dead THEN NoAccounts ELSE basis[h]]
        /\ overlapped' = overlapped \ dead
        /\ Close({p})
        /\ UNCHANGED <<root, history>>

Abandon(h) ==
    /\ pc[h] # "idle"
    /\ Finish(h)
    /\ Close({h})
    /\ UNCHANGED <<root, history>>

(* Noms panics when its storage fails, before or after what it was called  *)
(* for: the handler ends, the deferred unlock lets go of db.mu, and the    *)
(* process goes on.                                                        *)
Panic(h) ==
    /\ pc[h] \in {"reload", "dataset", "init", "write", "assign"}
    /\ Finish(h)
    /\ UNCHANGED <<noms, dbs, history>>

ReadStep(h)  == Rebase(h) \/ GetDataset(h) \/ InitFirst(h) \/ InitSecond(h) \/ HeadValue(h)
WriteStep(h) == Write(h) \/ WriteConflict(h) \/ Assign(h)

Next ==
    \/ \E d \in DBs : Open(d) \/ Adopt(d) \/ Create(d) \/ CreateConflict(d)
    \/ \E h \in Pulls : StartPull(h)
    \/ \E h \in Handlers : ReadStep(h) \/ WriteStep(h)
    \/ \E h \in Pulls : LookedUp(h) \/ RefuseAccount(h) \/ RefuseHost(h)
    \/ \E h \in Pulls : Allow(h) \/ AddHostToList(h) \/ Panic(h)
    \/ \E h \in Signups : Register(h) \/ Abandon(h)
    \/ \E p \in Processes : Crash(p)

Spec == Init /\ [][Next]_vars
===============================================================================

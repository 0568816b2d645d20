---------------------------- MODULE AccountsProofs ----------------------------
(***************************************************************************)
(* Theorems about Accounts, for every value of its constants.              *)
(***************************************************************************)
EXTENDS AccountsProps, FiniteSetTheorems, TLAPS

-------------------------------------------------------------------------------
(* Records.                                                                *)

LEMMA ConstantFacts ==
    /\ LowestASID \in Nat /\ MaxASID \in Nat /\ MaxASClientViewHosts \in Nat
    /\ LowestASID <= MaxASID
    /\ \A id : id \in IDs <=> id \in Nat /\ id <= MaxASID
    /\ DOMAIN RegularAccounts \subseteq IDs
BY ASIDAssumption, RegularAssumption DEF IDs

(* Accounts and hosts are only added.                                      *)
Follows(new, old) ==
    /\ old.next <= new.next
    /\ \A id \in LowestASID..(old.next - 1) : old.record[id] \subseteq new.record[id]

LEMMA RecordsType ==
    ASSUME NEW rs \in Records
    PROVE  /\ rs # NoHead
           /\ rs.next \in Nat
           /\ DOMAIN rs.record \in SUBSET IDs
           /\ rs.record \in [DOMAIN rs.record -> SUBSET Hosts]
           /\ rs = [next |-> rs.next, record |-> rs.record]
BY NoHeadAssumption DEF Records

LEMMA MakeRecords ==
    ASSUME NEW n \in Nat, NEW S \in SUBSET IDs, NEW f \in [S -> SUBSET Hosts]
    PROVE  [next |-> n, record |-> f] \in Records
BY DEF Records

LEMMA NoAccountsFacts ==
    NoAccounts \in Records /\ Whole(NoAccounts)
<1>1. NoAccounts \in Records
  BY ConstantFacts, MakeRecords DEF NoAccounts
<1>2. Whole(NoAccounts)
  BY ConstantFacts DEF NoAccounts, Whole
<1> QED BY <1>1, <1>2

LEMMA SameRecords ==
    ASSUME NEW r \in Records, NEW s \in Records, r.next = s.next, r.record = s.record
    PROVE  r = s
BY RecordsType

LEMMA PatchedRecords ==
    ASSUME NEW r \in Records, NEW s \in Records
    PROVE  /\ [r EXCEPT !.next = s.next] \in Records
           /\ [r EXCEPT !.record = s.record] \in Records
<1>1. /\ [r EXCEPT !.next = s.next] = [next |-> s.next, record |-> r.record]
      /\ [r EXCEPT !.record = s.record] = [next |-> r.next, record |-> s.record]
  BY RecordsType
<1> QED BY <1>1, RecordsType, MakeRecords

(* ReadAllRecords keeps the accounts that signed up.                       *)
LEMMA OverlayFacts ==
    ASSUME NEW rs \in Records
    PROVE  /\ Overlay(rs) \in Records
           /\ Overlay(rs).next = rs.next
           /\ \A id : IsASID(id) => (id \in DOMAIN Overlay(rs).record <=> id \in DOMAIN rs.record)
           /\ \A id \in DOMAIN rs.record : IsASID(id) => Overlay(rs).record[id] = rs.record[id]
<1> DEFINE asids == {id \in DOMAIN rs.record : IsASID(id)}
           f == [id \in asids \cup DOMAIN RegularAccounts |->
                    IF id \in asids THEN rs.record[id] ELSE RegularAccounts[id]]
<1>1. Overlay(rs) = [next |-> rs.next, record |-> f]
  BY RecordsType DEF Overlay
<1>2. asids \cup DOMAIN RegularAccounts \in SUBSET IDs
  BY ConstantFacts, RecordsType
<1>3. f \in [asids \cup DOMAIN RegularAccounts -> SUBSET Hosts]
  BY RecordsType, RegularAssumption
<1>4. \A id : IsASID(id) => id \notin DOMAIN RegularAccounts
  BY RegularAssumption, ConstantFacts DEF IsASID
<1>5. Overlay(rs) \in Records
  BY <1>1, <1>2, <1>3, RecordsType, MakeRecords
<1> QED BY <1>1, <1>4, <1>5

LEMMA WholeOverlay ==
    ASSUME NEW rs \in Records
    PROVE  /\ Whole(rs) => Whole(Overlay(rs))
           /\ Whole(rs) => Follows(Overlay(rs), rs) /\ Follows(rs, Overlay(rs))
           /\ \A id : IsASID(id) /\ Whole(rs) => (id \in DOMAIN rs.record <=> id \in LowestASID..(rs.next - 1))
<1> USE DEF Whole, Follows
<1>1. \A id \in LowestASID..(rs.next - 1) : IsASID(id)
  BY ConstantFacts, RecordsType DEF IsASID
<1>2. {id \in DOMAIN Overlay(rs).record : IsASID(id)} = {id \in DOMAIN rs.record : IsASID(id)}
  BY OverlayFacts
<1>3. ASSUME Whole(rs) PROVE \A id \in LowestASID..(rs.next - 1) : Overlay(rs).record[id] = rs.record[id]
  BY <1>1, <1>3, OverlayFacts
<1> QED BY <1>1, <1>2, <1>3, OverlayFacts, RecordsType

(* The two ways to write: a host more, or an account more.                 *)
LEMMA AddHostFacts ==
    ASSUME NEW rs \in Records, Whole(rs), NEW id, NEW host,
           IsASID(id), id \in DOMAIN Overlay(rs).record,
           host \in Hosts \ Overlay(rs).record[id],
           Cardinality(Overlay(rs).record[id]) < MaxASClientViewHosts,
           NEW new, new = AddHost(Overlay(rs), id, host)
    PROVE  /\ new \in Records /\ Whole(new)
           /\ new.next = rs.next
           /\ id \in LowestASID..(rs.next - 1)
           /\ \A i \in LowestASID..(rs.next - 1) :
                 new.record[i] = IF i = id THEN rs.record[id] \cup {host} ELSE rs.record[i]
           /\ new # rs /\ Follows(new, rs) /\ ~Follows(rs, new)
<1> DEFINE o == Overlay(rs)
           f == [o.record EXCEPT ![id] = @ \cup {host}]
           T == LowestASID..(rs.next - 1)
<1>1. o \in Records /\ Whole(o) /\ o.next = rs.next
  BY OverlayFacts, WholeOverlay
<1>2. new = [next |-> o.next, record |-> f]
  <2>1. PICK n, r : o = [next |-> n, record |-> r]
    BY <1>1, RecordsType
  <2>2. new = AddHost(o, id, host)
    OBVIOUS
  <2> HIDE DEF o
  <2> QED BY <2>1, <2>2 DEF AddHost
<1>3. f \in [DOMAIN o.record -> SUBSET Hosts] /\ DOMAIN f = DOMAIN o.record
  BY <1>1, RecordsType
<1>4. new \in Records
  BY <1>1, <1>2, <1>3, RecordsType, MakeRecords
<1>5. id \in T /\ id \in DOMAIN rs.record
  BY OverlayFacts, WholeOverlay
<1>6. \A i \in T : i \in DOMAIN o.record /\ i \in DOMAIN rs.record /\ o.record[i] = rs.record[i]
  <2>1. \A i \in T : IsASID(i)
    BY RecordsType, ConstantFacts DEF IsASID
  <2> QED BY <2>1, OverlayFacts, WholeOverlay
<1>7. \A i \in T : new.record[i] = IF i = id THEN rs.record[id] \cup {host} ELSE rs.record[i]
  <2>1. \A i \in T : f[i] = IF i = id THEN o.record[id] \cup {host} ELSE o.record[i]
    BY <1>1, <1>6, RecordsType
  <2>2. new.record = f
    BY <1>2
  <2> QED BY <1>5, <1>6, <2>1, <2>2
<1>8. \A i \in T : IsFiniteSet(rs.record[i]) /\ Cardinality(rs.record[i]) <= MaxASClientViewHosts
  BY DEF Whole
<1>9. IsFiniteSet(rs.record[id] \cup {host})
      /\ Cardinality(rs.record[id] \cup {host}) <= MaxASClientViewHosts
  <2>1. Cardinality(rs.record[id]) \in Nat /\ Cardinality(rs.record[id]) < MaxASClientViewHosts
    BY <1>5, <1>6, <1>8, FS_CardinalityType
  <2>2. IsFiniteSet(rs.record[id] \cup {host})
        /\ Cardinality(rs.record[id] \cup {host}) = Cardinality(rs.record[id]) + 1
    BY <1>5, <1>6, <1>8, FS_AddElement
  <2> QED BY <2>1, <2>2, ConstantFacts
<1>10. Whole(new)
  <2>1. {i \in DOMAIN new.record : IsASID(i)} = LowestASID..(new.next - 1) /\ new.next >= LowestASID
    BY <1>1, <1>2, <1>3 DEF Whole
  <2>2. \A i \in LowestASID..(new.next - 1) :
           IsFiniteSet(new.record[i]) /\ Cardinality(new.record[i]) <= MaxASClientViewHosts
    <3>1. new.next = rs.next
      BY <1>1, <1>2
    <3> QED BY <1>7, <1>8, <1>9, <3>1
  <2> QED BY <2>1, <2>2 DEF Whole
<1>11. new.next = rs.next
  BY <1>1, <1>2
<1>12. Follows(new, rs)
  BY <1>7, <1>11, RecordsType DEF Follows
<1>13. ~Follows(rs, new)
  BY <1>5, <1>6, <1>7, <1>11 DEF Follows
<1>14. new # rs
  BY <1>12, <1>13
<1> QED BY <1>4, <1>5, <1>7, <1>10, <1>11, <1>12, <1>13, <1>14

LEMMA AddAccountFacts ==
    ASSUME NEW rs \in Records, Whole(rs), rs.next \in IDs
    PROVE  LET new == AddAccount(Overlay(rs))
           IN  /\ new \in Records /\ Whole(new)
               /\ new.next = rs.next + 1
               /\ new.record[rs.next] = {}
               /\ \A i \in LowestASID..(rs.next - 1) : new.record[i] = rs.record[i]
               /\ new # rs /\ Follows(new, rs) /\ ~Follows(rs, new)
<1> DEFINE o == Overlay(rs)
           new == AddAccount(o)
           D == DOMAIN o.record \cup {o.next}
           f == [id \in D |-> IF id = o.next THEN {} ELSE o.record[id]]
           T == LowestASID..(rs.next - 1)
<1>1. o \in Records /\ Whole(o) /\ o.next = rs.next /\ rs.next \in Nat /\ rs.next >= LowestASID
  BY OverlayFacts, WholeOverlay, RecordsType DEF Whole
<1>2. new = [next |-> o.next + 1, record |-> f]
  BY DEF AddAccount
<1>3. D \in SUBSET IDs /\ f \in [D -> SUBSET Hosts] /\ DOMAIN f = D
  BY <1>1, RecordsType
<1>4. new \in Records
  BY <1>1, <1>2, <1>3, MakeRecords
<1>5. \A i \in T : i \in DOMAIN o.record /\ i # o.next /\ o.record[i] = rs.record[i]
  <2>1. \A i \in T : IsASID(i) /\ i # o.next
    BY <1>1, ConstantFacts DEF IsASID
  <2> QED BY <2>1, OverlayFacts, WholeOverlay
<1>6. \A i \in T : new.record[i] = rs.record[i]
  BY <1>2, <1>5
<1>7. new.record[rs.next] = {} /\ new.next = rs.next + 1
  BY <1>1, <1>2
<1>8. Whole(new)
  <2>1. {i \in DOMAIN o.record : IsASID(i)} = T
    BY <1>1 DEF Whole
  <2>2. {i \in D : IsASID(i)} = T \cup {o.next}
    BY <1>1, <2>1, ConstantFacts DEF IsASID
  <2>3. T \cup {o.next} = LowestASID..(new.next - 1)
    BY <1>1, <1>7, ConstantFacts
  <2>4. {i \in DOMAIN new.record : IsASID(i)} = LowestASID..(new.next - 1)
    BY <1>2, <1>3, <2>2, <2>3
  <2>5. \A i \in T : IsFiniteSet(rs.record[i]) /\ Cardinality(rs.record[i]) <= MaxASClientViewHosts
    BY DEF Whole
  <2>6. \A i \in LowestASID..(new.next - 1) :
           IsFiniteSet(new.record[i]) /\ Cardinality(new.record[i]) <= MaxASClientViewHosts
    <3>1. IsFiniteSet({}) /\ Cardinality({}) <= MaxASClientViewHosts
      BY FS_EmptySet, ConstantFacts
    <3> QED BY <1>1, <1>6, <1>7, <2>3, <2>5, <3>1
  <2> QED BY <1>1, <1>7, <2>4, <2>6, ConstantFacts DEF Whole
<1>9. Follows(new, rs)
  BY <1>1, <1>6, <1>7 DEF Follows
<1>10. ~Follows(rs, new)
  BY <1>1, <1>7 DEF Follows
<1>11. new # rs
  BY <1>9, <1>10
<1> QED BY <1>4, <1>6, <1>7, <1>8, <1>9, <1>10, <1>11


LEMMA OverlaidFacts ==
    ASSUME NEW rs \in Records
    PROVE  /\ IsOverlaid(Overlay(rs))
           /\ IsOverlaid(rs) => Overlay(rs) = rs
<1> DEFINE asids == {id \in DOMAIN rs.record : IsASID(id)}
           f == [id \in asids \cup DOMAIN RegularAccounts |->
                    IF id \in asids THEN rs.record[id] ELSE RegularAccounts[id]]
<1>1. Overlay(rs) = [next |-> rs.next, record |-> f]
  BY RecordsType DEF Overlay
<1>2. \A id \in DOMAIN RegularAccounts : ~IsASID(id)
  BY RegularAssumption, ConstantFacts DEF IsASID
<1>3. IsOverlaid(Overlay(rs))
  BY <1>1, <1>2 DEF IsOverlaid
<1>4. ASSUME IsOverlaid(rs) PROVE Overlay(rs) = rs
  <2>1. asids \cup DOMAIN RegularAccounts = DOMAIN rs.record
    BY <1>4 DEF IsOverlaid
  <2>2. \A id \in DOMAIN rs.record : f[id] = rs.record[id]
    BY <1>4, <2>1 DEF IsOverlaid
  <2>3. f = rs.record
    BY <2>1, <2>2, RecordsType
  <2> QED BY <1>1, <2>3, RecordsType
<1> QED BY <1>3, <1>4

LEMMA HostAdded ==
    ASSUME NEW rs \in Records, IsOverlaid(rs), rs.next >= LowestASID,
           NEW id \in DOMAIN rs.record, IsASID(id), NEW host \in Hosts
    PROVE  /\ AddHost(rs, id, host) \in Records
           /\ IsSettled(AddHost(rs, id, host))
           /\ AddHost(rs, id, host).next = rs.next
           /\ id \in DOMAIN AddHost(rs, id, host).record
           /\ host \in AddHost(rs, id, host).record[id]
<1> DEFINE f == [rs.record EXCEPT ![id] = @ \cup {host}]
<1>1. AddHost(rs, id, host) = [next |-> rs.next, record |-> f]
  <2>1. PICK n, r : rs = [next |-> n, record |-> r]
    BY RecordsType
  <2> QED BY <2>1 DEF AddHost
<1>2. DOMAIN f = DOMAIN rs.record /\ f \in [DOMAIN rs.record -> SUBSET Hosts]
  BY RecordsType
<1>3. [next |-> rs.next, record |-> f] \in Records
  BY <1>2, RecordsType, MakeRecords
<1>4. \A i \in DOMAIN rs.record : i # id => f[i] = rs.record[i]
  BY RecordsType
<1>5. host \in f[id]
  BY RecordsType
<1>6. IsOverlaid([next |-> rs.next, record |-> f])
  BY <1>2, <1>4 DEF IsOverlaid
<1>7. IsSettled([next |-> rs.next, record |-> f])
  BY <1>2, <1>6 DEF IsSettled
<1> QED BY <1>1, <1>2, <1>3, <1>5, <1>7

LEMMA AccountAdded ==
    ASSUME NEW rs \in Records, IsOverlaid(rs), rs.next >= LowestASID, rs.next \in IDs
    PROVE  /\ AddAccount(rs) \in Records
           /\ IsSettled(AddAccount(rs))
           /\ AddAccount(rs).next = rs.next + 1
<1> DEFINE D == DOMAIN rs.record \cup {rs.next}
           f == [id \in D |-> IF id = rs.next THEN {} ELSE rs.record[id]]
           new == [next |-> rs.next + 1, record |-> f]
<1>1. AddAccount(rs) = new
  BY DEF AddAccount
<1>2. rs.next \in Nat /\ IsASID(rs.next) /\ LowestASID \in Nat
  BY RecordsType, ConstantFacts DEF IsASID
<1>3. D \in SUBSET IDs /\ f \in [D -> SUBSET Hosts] /\ DOMAIN f = D
  BY RecordsType
<1>4. new \in Records
  <2>1. rs.next + 1 \in Nat
    BY <1>2
  <2> HIDE DEF D, f
  <2> QED BY <1>3, <2>1, MakeRecords
<1>5. IsOverlaid(new)
  BY <1>2, <1>3 DEF IsOverlaid
<1>6. IsSettled(new)
  BY <1>2, <1>3, <1>5 DEF IsSettled
<1> QED BY <1>1, <1>4, <1>6

(* Two heads look alike to their readers only if they are one.             *)
LEMMA OverlayTells ==
    ASSUME NEW r \in Records, NEW s \in Records, IsSettled(r), IsSettled(s),
           Overlay(r) = Overlay(s)
    PROVE  r = s
<1>1. CASE IsOverlaid(r) /\ IsOverlaid(s)
  BY <1>1, OverlaidFacts
<1>2. ASSUME NEW a \in Records, NEW b \in Records, a = NoAccounts, Overlay(a) = Overlay(b),
             NEW id \in DOMAIN b.record, IsASID(id)
      PROVE  FALSE
  <2>1. id \in DOMAIN Overlay(b).record /\ id \notin DOMAIN a.record
    BY <1>2, OverlayFacts DEF NoAccounts
  <2> QED BY <1>2, <2>1, OverlayFacts
<1> QED BY <1>1, <1>2 DEF IsSettled

LEMMA WithinFacts ==
    ASSUME NEW r \in Records, NEW old \in Records, NEW new \in Records
    PROVE  /\ Within(NoAccounts, old)
           /\ Within(old, old)
           /\ Within(r, old) => Within(Overlay(r), old)
           /\ Whole(old) /\ Whole(new) /\ Follows(new, old) => Within(old, new)
           /\ Within(r, old) /\ Within(old, new) => Within(r, new)
<1>1. Within(NoAccounts, old) /\ Within(old, old)
  BY DEF Within, NoAccounts
<1>2. Within(r, old) => Within(Overlay(r), old)
  BY OverlayFacts DEF Within
<1>3. ASSUME Whole(old), Whole(new), Follows(new, old) PROVE Within(old, new)
  <2> SUFFICES ASSUME NEW id \in DOMAIN old.record, IsASID(id)
               PROVE  id \in DOMAIN new.record /\ old.record[id] \subseteq new.record[id]
    BY DEF Within
  <2>1. id \in LowestASID..(old.next - 1)
    BY <1>3 DEF Whole
  <2>2. old.next \in Nat /\ new.next \in Nat /\ old.next <= new.next
    BY <1>3, RecordsType DEF Follows
  <2>3. id \in LowestASID..(new.next - 1)
    BY <2>1, <2>2, ConstantFacts
  <2> QED BY <1>3, <2>1, <2>3 DEF Whole, Follows
<1>4. Within(r, old) /\ Within(old, new) => Within(r, new)
  BY DEF Within
<1> QED BY <1>1, <1>2, <1>3, <1>4

-------------------------------------------------------------------------------
(* What a step leaves alone.                                               *)

IInv == TypeOK /\ AccountsInv

LEMMA ActorFacts ==
    ASSUME NEW h \in Handlers
    PROVE  /\ h \in Actors /\ DBOf(h) \in DBs /\ DBOf(h) \in Actors
           /\ h \in Pulls => /\ DBOf(h) = ProcessOf[h] /\ ProcessOf[h] \in Processes
                             /\ h \notin Signups /\ h \notin Processes /\ h # DBOf(h)
           /\ h \in Signups => DBOf(h) = h /\ h \notin Pulls /\ h \notin Processes
BY ProcessAssumption, ActorsAssumption DEF Handlers, Actors, DBs, DBOf

(* Who runs has a database that has a head.                                *)
Runs(h) == pc[h] \in {"reload", "dataset", "init", "initNext", "initRecord", "value",
                      "decide", "write", "assign"}

LEMMA StoreFacts ==
    ASSUME IInv, NEW h \in Handlers, Runs(h)
    PROVE  /\ local[DBOf(h)] \in Records /\ IsSettled(local[DBOf(h)])
           /\ ds[DBOf(h)] \in Records /\ IsSettled(ds[DBOf(h)])
           /\ head[DBOf(h)] \in Records
           /\ root \in Records /\ IsSettled(root) /\ Saved = root
           /\ h \in Pulls => pc[ProcessOf[h]] = "up"
<1>1. CASE h \in Pulls
  <2>1. pc[ProcessOf[h]] = "up"
    BY <1>1 DEF IInv, AccountsInv, StoreInv, Runs
  <2> QED BY <1>1, <2>1, ActorFacts DEF IInv, TypeOK, AccountsInv, StoreInv, Saved
<1>2. CASE h \in Signups
  <2>1. pc[h] \notin {"idle", "create"}
    BY DEF Runs
  <2> QED BY <1>2, <2>1, ActorFacts DEF IInv, TypeOK, AccountsInv, StoreInv, Saved
<1> QED BY <1>1, <1>2 DEF Handlers

(* Handlers that run in one database know that they are not alone.         *)
LEMMA NotAlone ==
    ASSUME IInv, NEW h \in Handlers, NEW g \in Handlers, g # h, DBOf(g) = DBOf(h),
           pc[h] # "idle", pc[g] # "idle"
    PROVE  g \in overlapped /\ h \in overlapped
<1>1. g \in Pulls /\ h \in Pulls /\ ProcessOf[g] = ProcessOf[h]
  BY ActorFacts DEF Handlers
<1> QED BY <1>1 DEF IInv, AccountsInv, OverlapInv

(* What a handler may count on while it is alone is kept by the others.    *)
LEMMA AloneKept ==
    ASSUME IInv, NEW g \in Handlers,
           pc'[g] = pc[g], records'[g] = records[g], basis'[g] = basis[g],
           g \in overlapped => g \in overlapped',
           \/ pc[g] = "idle" \/ g \in overlapped
           \/ /\ local'[DBOf(g)] = local[DBOf(g)] /\ ds'[DBOf(g)] = ds[DBOf(g)]
              /\ head'[DBOf(g)] = head[DBOf(g)]
    PROVE  g \notin overlapped' => AloneInv(g)'
<1>1. g \notin overlapped => AloneInv(g)
  BY DEF IInv, AccountsInv
<1>2. CASE pc[g] = "idle"
  BY <1>2 DEF AloneInv
<1>3. CASE /\ local'[DBOf(g)] = local[DBOf(g)] /\ ds'[DBOf(g)] = ds[DBOf(g)]
           /\ head'[DBOf(g)] = head[DBOf(g)]
  <2>1. DBOf(g)' = DBOf(g)
    BY DEF DBOf
  <2> QED BY <1>1, <1>3, <2>1 DEF AloneInv
<1> QED BY <1>2, <1>3

LEMMA WriteKept ==
    ASSUME IInv, NEW g \in Handlers,
           pc'[g] = pc[g], records'[g] = records[g], basis'[g] = basis[g],
           g \in Pulls => task'[g] = task[g]
    PROVE  WriteInv(g)'
<1>1. WriteInv(g)
  BY DEF IInv, AccountsInv
<1> QED BY <1>1 DEF WriteInv

(* Everything but what a handler and its database are made of.             *)
Elsewhere(h) ==
    /\ \A a \in Actors \ {h} : pc'[a] = pc[a]
    /\ \A g \in Handlers \ {h} : /\ records'[g] = records[g] /\ basis'[g] = basis[g]
                                 /\ g \in Pulls => task'[g] = task[g]
    /\ \A d \in DBs \ {DBOf(h)} : local'[d] = local[d] /\ ds'[d] = ds[d] /\ head'[d] = head[d]
    /\ overlapped' = IF pc'[h] = "idle" THEN overlapped \ {h} ELSE overlapped
    /\ allowed' \in {allowed} \cup {allowed \cup {p} : p \in {q \in [id : Nat, host : Hosts] : IsASID(q.id)}}

RootStep == root' = root \/ (root' # NoHead /\ IsSettled(root'))

(* A step of a handler keeps the invariant if it does for itself.          *)
LEMMA HandlerKeeps ==
    ASSUME IInv, TypeOK', NEW h \in Handlers, Runs(h), Elsewhere(h), RootStep,
           pc'[h] = "idle" \/ Runs(h)',
           local'[DBOf(h)] # NoHead => IsSettled(local'[DBOf(h)]),
           ds'[DBOf(h)] # NoHead => IsSettled(ds'[DBOf(h)]),
           head'[DBOf(h)].next >= LowestASID,
           \/ h \in Signups /\ pc'[h] = "idle"
           \/ local'[DBOf(h)] # NoHead /\ ds'[DBOf(h)] # NoHead,
           h \notin overlapped' => AloneInv(h)', WriteInv(h)',
           ~overwritten' => KeptInv'
    PROVE  IInv'
<1> DEFINE d == DBOf(h)
<1>1. h \in Actors /\ d \in DBs /\ DBOf(h)' = d
  BY ActorFacts DEF DBOf
<1>2. root # NoHead /\ root' # NoHead /\ IsSettled(root')
  BY StoreFacts, RecordsType DEF RootStep
<1>3. StoreInv'
  <2>1. ASSUME NEW e \in DBs
        PROVE  /\ local'[e] # NoHead => root' # NoHead /\ IsSettled(local'[e])
               /\ ds'[e] # NoHead => IsSettled(ds'[e])
               /\ head'[e].next >= LowestASID
               /\ pc'[e] = "create" => ds'[e] = local'[e]
               /\ pc'[e] = "up" \/ (e \in Signups /\ pc'[e] \notin {"idle", "create"})
                     => local'[e] # NoHead /\ ds'[e] # NoHead
    <3>1. CASE e = d
      <4>1. pc'[d] # "create"
        <5>1. CASE h \in Pulls
          <6>1. d \in Actors \ {h} /\ pc[d] = "up"
            BY <5>1, ActorFacts, StoreFacts
          <6> QED BY <6>1 DEF Elsewhere
        <5>2. CASE h \in Signups
          BY <5>2, ActorFacts DEF Runs
        <5> QED BY <5>1, <5>2 DEF Handlers
      <4>2. h \in Pulls => d \notin Signups
        BY ActorFacts, ActorsAssumption
      <4>3. h \in Signups => d = h /\ d \in Signups /\ pc'[d] # "up"
        BY ActorFacts DEF Runs
      <4> HIDE DEF d
      <4>4. /\ local'[d] # NoHead => IsSettled(local'[d])
            /\ ds'[d] # NoHead => IsSettled(ds'[d])
            /\ head'[d].next >= LowestASID
            /\ (h \in Signups /\ pc'[h] = "idle") \/ (local'[d] # NoHead /\ ds'[d] # NoHead)
        BY DEF d
      <4> QED BY <1>2, <3>1, <4>1, <4>2, <4>3, <4>4 DEF Handlers
    <3>2. CASE e # d
      <4>1. e \in Actors \ {h} /\ e \in DBs \ {d}
        BY <3>2, ActorFacts DEF DBs, Actors, Handlers
      <4>2. pc'[e] = pc[e] /\ local'[e] = local[e] /\ ds'[e] = ds[e] /\ head'[e] = head[e]
        BY <4>1 DEF Elsewhere
      <4> QED BY <1>2, <4>2 DEF IInv, AccountsInv, StoreInv
    <3> QED BY <3>1, <3>2
  <2>2. ASSUME NEW g \in Pulls, pc'[g] # "idle" PROVE pc'[ProcessOf[g]] = "up"
    <3>1. pc[g] # "idle"
      BY <2>2 DEF Elsewhere, Actors, Handlers, Runs
    <3>2. ProcessOf[g] \in Actors \ {h}
      BY ProcessAssumption, ActorsAssumption DEF Actors, Handlers
    <3> QED BY <3>1, <3>2 DEF Elsewhere, IInv, AccountsInv, StoreInv
  <2> QED BY <1>2, <2>1, <2>2 DEF StoreInv
<1>4. OverlapInv'
  <2> SUFFICES ASSUME NEW f \in Pulls, NEW g \in Pulls, f # g, ProcessOf[f] = ProcessOf[g],
                      pc'[f] # "idle", pc'[g] # "idle"
               PROVE  {f, g} \subseteq overlapped'
    BY DEF OverlapInv
  <2>1. \A a \in {f, g} : a \in Actors /\ (a # h => pc'[a] = pc[a])
    BY DEF Elsewhere, Actors, Handlers
  <2>2. pc[f] # "idle" /\ pc[g] # "idle"
    BY <2>1 DEF Runs
  <2>3. {f, g} \subseteq overlapped
    BY <2>2 DEF IInv, AccountsInv, OverlapInv
  <2> QED BY <2>3 DEF Elsewhere
<1>5. ASSUME NEW g \in Handlers PROVE (g \notin overlapped' => AloneInv(g)') /\ WriteInv(g)'
  <2>1. CASE g = h
    BY <2>1
  <2>2. CASE g # h
    <3>1. /\ pc'[g] = pc[g] /\ records'[g] = records[g] /\ basis'[g] = basis[g]
          /\ g \in Pulls => task'[g] = task[g]
          /\ g \in overlapped => g \in overlapped'
      BY <2>2, ActorFacts DEF Elsewhere
    <3>2. \/ pc[g] = "idle" \/ g \in overlapped
          \/ /\ local'[DBOf(g)] = local[DBOf(g)] /\ ds'[DBOf(g)] = ds[DBOf(g)]
             /\ head'[DBOf(g)] = head[DBOf(g)]
      <4>1. CASE DBOf(g) = d
        BY <2>2, <4>1, NotAlone DEF Runs
      <4>2. CASE DBOf(g) # d
        <5>1. DBOf(g) \in DBs \ {DBOf(h)}
          BY <4>2, ActorFacts
        <5> QED BY <5>1 DEF Elsewhere
      <4> QED BY <4>1, <4>2
    <3> QED BY <3>1, <3>2, AloneKept, WriteKept
  <2> QED BY <2>1, <2>2
<1>6. \A p \in allowed' : IsASID(p.id)
  BY DEF Elsewhere, IInv, AccountsInv
<1> QED BY <1>3, <1>4, <1>5, <1>6 DEF IInv, AccountsInv

(* So does what is said of the head, when it stays.                        *)
LEMMA KeptQuiet ==
    ASSUME IInv, NEW h \in Handlers, Elsewhere(h), root' = root, overwritten' = overwritten,
           issued' = issued, h \in Signups => pc'[h] # "assign",
           KeptInv =>
              /\ local'[DBOf(h)] # NoHead => Within(local'[DBOf(h)], Saved)
              /\ ds'[DBOf(h)] # NoHead => Within(ds'[DBOf(h)], Saved)
              /\ Within(head'[DBOf(h)], Saved)
              /\ pc'[h] \in {"initNext", "initRecord", "decide", "assign"} => Within(records'[h], Saved)
              /\ \A p \in allowed' \ allowed :
                    p.id \in DOMAIN Saved.record /\ p.host \in Saved.record[p.id]
    PROVE  ~overwritten' => KeptInv'
<1> SUFFICES ASSUME ~overwritten PROVE KeptInv'
  OBVIOUS
<1>1. KeptInv /\ Saved' = Saved
  BY DEF IInv, AccountsInv, Saved
<1>2. WithinInv'
  <2>1. ASSUME NEW d \in DBs
        PROVE  /\ local'[d] # NoHead => Within(local'[d], Saved)
               /\ ds'[d] # NoHead => Within(ds'[d], Saved)
               /\ Within(head'[d], Saved)
    <3>1. CASE d = DBOf(h)
      BY <1>1, <3>1
    <3>2. CASE d # DBOf(h)
      BY <1>1, <3>2 DEF Elsewhere, KeptInv, WithinInv
    <3> QED BY <3>1, <3>2
  <2>2. ASSUME NEW g \in Handlers, pc'[g] \in {"initNext", "initRecord", "decide", "assign"}
        PROVE  Within(records'[g], Saved)
    <3>1. CASE g = h
      BY <1>1, <2>2, <3>1
    <3>2. CASE g # h
      BY <1>1, <2>2, <3>2, ActorFacts DEF Elsewhere, KeptInv, WithinInv
    <3> QED BY <3>1, <3>2
  <2> QED BY <1>1, <2>1, <2>2 DEF WithinInv
<1>3. IssuedInv'
  <2>1. ASSUME NEW g \in Signups, pc'[g] = "assign" PROVE pc[g] = "assign" /\ basis'[g] = basis[g]
    BY <2>1, ActorFacts DEF Elsewhere, Handlers
  <2>2. IssuedInv
    BY <1>1 DEF KeptInv
  <2> QED BY <1>1, <2>1, <2>2 DEF IssuedInv
<1>4. AuthorizedIsSaved'
  BY <1>1 DEF KeptInv, AuthorizedIsSaved
<1>5. Whole(Saved')
  BY <1>1 DEF KeptInv
<1> QED BY <1>2, <1>3, <1>4, <1>5 DEF KeptInv

(* For what a handler does to itself alone.                                *)
LEMMA ElsewhereOf ==
    ASSUME IInv, NEW h \in Handlers, NEW label,
           pc' = [pc EXCEPT ![h] = label], label # "idle", overlapped' = overlapped, allowed' = allowed,
           \A g \in Handlers \ {h} : /\ records'[g] = records[g] /\ basis'[g] = basis[g]
                                     /\ g \in Pulls => task'[g] = task[g],
           \A d \in DBs \ {DBOf(h)} : local'[d] = local[d] /\ ds'[d] = ds[d] /\ head'[d] = head[d]
    PROVE  Elsewhere(h) /\ pc'[h] = label
<1>1. pc'[h] = label /\ \A a \in Actors \ {h} : pc'[a] = pc[a]
  BY ActorFacts DEF IInv, TypeOK
<1> QED BY <1>1 DEF Elsewhere

-------------------------------------------------------------------------------
(* A handler reads.                                                        *)

LEMMA RebaseKeeps ==
    ASSUME IInv, NEW h \in Handlers, Rebase(h)
    PROVE  IInv'
<1> DEFINE d == DBOf(h)
<1>1. h \in Actors /\ d \in DBs /\ pc[h] = "reload" /\ Runs(h)
  BY ActorFacts DEF Rebase, Runs
<1>2. /\ pc' = [pc EXCEPT ![h] = "dataset"] /\ local' = [local EXCEPT ![d] = root]
      /\ root' = root /\ ds' = ds /\ head' = head /\ task' = task /\ records' = records
      /\ basis' = basis /\ overlapped' = overlapped
      /\ issued' = issued /\ allowed' = allowed /\ overwritten' = overwritten
  BY DEF Rebase, Goto, dbs, held, history
<1>3. local'[d] = root /\ \A e \in DBs \ {d} : local'[e] = local[e]
  BY <1>1, <1>2 DEF IInv, TypeOK
<1>4. TypeOK'
  BY <1>1, <1>2 DEF IInv, TypeOK, Reading
<1>5. Elsewhere(h) /\ pc'[h] = "dataset"
  BY <1>2, <1>3, ElsewhereOf, ZenonT(60)
<1>6. AloneInv(h)' /\ WriteInv(h)' /\ Runs(h)'
  BY <1>5 DEF AloneInv, WriteInv, Runs
<1>7. root # NoHead /\ root \in Records /\ IsSettled(root) /\ ds[d] # NoHead /\ IsSettled(ds[d])
      /\ Saved = root
  BY <1>1, StoreFacts, RecordsType
<1>8. ~overwritten' => KeptInv'
  <2>1. KeptInv => Within(ds[d], Saved) /\ Within(head[d], Saved) /\ Within(root, Saved)
    BY <1>1, <1>7, WithinFacts DEF KeptInv, WithinInv
  <2> QED BY <1>2, <1>3, <1>5, <2>1, KeptQuiet
<1>9. head[d].next >= LowestASID
  BY <1>1 DEF IInv, AccountsInv, StoreInv
<1> HIDE DEF d
<1> QED BY <1>1, <1>2, <1>3, <1>4, <1>5, <1>6, <1>7, <1>8, <1>9, HandlerKeeps, SMTT(30) DEF RootStep, d

LEMMA GetDatasetKeeps ==
    ASSUME IInv, NEW h \in Handlers, GetDataset(h)
    PROVE  IInv'
<1> DEFINE d == DBOf(h)
<1>1. h \in Actors /\ d \in DBs /\ pc[h] = "dataset" /\ Runs(h)
  BY ActorFacts DEF GetDataset, Runs
<1>2. /\ pc' = [pc EXCEPT ![h] = "init"] /\ ds' = [ds EXCEPT ![d] = local[d]]
      /\ root' = root /\ local' = local /\ head' = head /\ task' = task /\ records' = records
      /\ basis' = basis /\ overlapped' = overlapped
      /\ issued' = issued /\ allowed' = allowed /\ overwritten' = overwritten
  BY DEF GetDataset, Goto, noms, held, history
<1>3. ds'[d] = local[d] /\ \A e \in DBs \ {d} : ds'[e] = ds[e]
  BY <1>1, <1>2 DEF IInv, TypeOK
<1>4. TypeOK'
  BY <1>1, <1>2 DEF IInv, TypeOK, Reading
<1>5. Elsewhere(h) /\ pc'[h] = "init"
  BY <1>2, <1>3, ElsewhereOf, ZenonT(60)
<1>6. AloneInv(h)' /\ WriteInv(h)' /\ Runs(h)'
  <2>1. DBOf(h)' = d
    BY DEF DBOf
  <2> QED BY <1>2, <1>3, <1>5, <2>1 DEF AloneInv, WriteInv, Runs
<1>7. local[d] # NoHead /\ IsSettled(local[d])
  BY <1>1, StoreFacts, RecordsType
<1>8. ~overwritten' => KeptInv'
  <2>1. KeptInv => Within(local[d], Saved) /\ Within(head[d], Saved)
    BY <1>1, <1>7 DEF KeptInv, WithinInv
  <2> QED BY <1>2, <1>3, <1>5, <2>1, KeptQuiet
<1>9. head[d].next >= LowestASID
  BY <1>1 DEF IInv, AccountsInv, StoreInv
<1> HIDE DEF d
<1> QED BY <1>1, <1>2, <1>3, <1>4, <1>5, <1>6, <1>7, <1>8, <1>9, HandlerKeeps, SMTT(30) DEF RootStep, d

(* A head that takes over a part of other records.                         *)
LEMMA TornHead ==
    ASSUME NEW r \in Records, NEW s \in Records, NEW now
    PROVE  /\ [r EXCEPT !.next = s.next].next = s.next
           /\ [r EXCEPT !.next = s.next].record = r.record
           /\ [r EXCEPT !.record = s.record].record = s.record
           /\ [r EXCEPT !.record = s.record].next = r.next
           /\ Within(r, now) => Within([r EXCEPT !.next = s.next], now)
           /\ Within(s, now) => Within([r EXCEPT !.record = s.record], now)
<1>1. /\ [r EXCEPT !.next = s.next] = [next |-> s.next, record |-> r.record]
      /\ [r EXCEPT !.record = s.record] = [next |-> r.next, record |-> s.record]
  BY RecordsType
<1> QED BY <1>1 DEF Within

LEMMA InitFirstKeeps ==
    ASSUME IInv, NEW h \in Handlers, InitFirst(h)
    PROVE  IInv'
<1> DEFINE d == DBOf(h)
           s == ds[d]
<1>1. h \in Actors /\ d \in DBs /\ pc[h] = "init" /\ Runs(h)
  BY ActorFacts DEF InitFirst, Runs
<1>2. s \in Records /\ IsSettled(s) /\ local[d] \in Records /\ IsSettled(local[d]) /\ head[d] \in Records
  BY <1>1, StoreFacts
<1>3. /\ records' = [records EXCEPT ![h] = s] /\ root' = root /\ local' = local /\ ds' = ds
      /\ task' = task /\ basis' = basis /\ overlapped' = overlapped
      /\ issued' = issued /\ allowed' = allowed /\ overwritten' = overwritten
  BY DEF InitFirst, noms, history
<1>4. PICK label \in {"initNext", "initRecord"}, hd \in Records :
         /\ pc' = [pc EXCEPT ![h] = label] /\ head' = [head EXCEPT ![d] = hd]
         /\ label = "initRecord" => hd = [head[d] EXCEPT !.next = s.next]
         /\ label = "initNext" => hd = [head[d] EXCEPT !.record = s.record]
  <2>1. \/ /\ head' = [head EXCEPT ![d] = [head[d] EXCEPT !.next = s.next]]
           /\ pc' = [pc EXCEPT ![h] = "initRecord"]
        \/ /\ head' = [head EXCEPT ![d] = [head[d] EXCEPT !.record = s.record]]
           /\ pc' = [pc EXCEPT ![h] = "initNext"]
    <3>1. /\ [head EXCEPT ![d].next = s.next] = [head EXCEPT ![d] = [head[d] EXCEPT !.next = s.next]]
          /\ [head EXCEPT ![d].record = s.record] = [head EXCEPT ![d] = [head[d] EXCEPT !.record = s.record]]
      OBVIOUS
    <3> QED BY <3>1 DEF InitFirst, Goto
  <2>2. /\ [head[d] EXCEPT !.next = s.next] \in Records
        /\ [head[d] EXCEPT !.record = s.record] \in Records
    BY <1>2, PatchedRecords
  <2> HIDE DEF d, s
  <2> QED BY <2>1, <2>2
<1>5. /\ records'[h] = s /\ head'[d] = hd
      /\ \A e \in DBs \ {d} : head'[e] = head[e]
      /\ \A g \in Handlers \ {h} : records'[g] = records[g]
  BY <1>1, <1>3, <1>4 DEF IInv, TypeOK
<1> HIDE DEF s
<1>6. TypeOK'
  BY <1>1, <1>2, <1>3, <1>4 DEF IInv, TypeOK, Reading
<1>7. Elsewhere(h) /\ pc'[h] = label
  <2>1. label # "idle" /\ pc' = [pc EXCEPT ![h] = label]
    BY <1>4
  <2>5. CASE label = "initNext"
    <3>1. pc' = [pc EXCEPT ![h] = "initNext"]
      BY <2>1, <2>5
    <3>2. Elsewhere(h) /\ pc'[h] = "initNext"
      BY <1>3, <1>5, <3>1, ElsewhereOf, ZenonT(60)
    <3> QED BY <2>5, <3>2
  <2>6. CASE label = "initRecord"
    <3>1. pc' = [pc EXCEPT ![h] = "initRecord"]
      BY <2>1, <2>6
    <3>2. Elsewhere(h) /\ pc'[h] = "initRecord"
      BY <1>3, <1>5, <3>1, ElsewhereOf, ZenonT(60)
    <3> QED BY <2>6, <3>2
  <2> QED BY <1>4, <2>5, <2>6
<1>8. /\ label = "initRecord" => hd.next = s.next /\ hd.record = head[d].record
      /\ label = "initNext" => hd.record = s.record /\ hd.next = head[d].next
      /\ \A now : Within(head[d], now) /\ Within(s, now) => Within(hd, now)
  <2> DEFINE r == head[d]
  <2> HIDE DEF r
  <2>1. r \in Records /\ s \in Records
    BY <1>2 DEF r
  <2>2. CASE label = "initRecord"
    <3>1. hd = [r EXCEPT !.next = s.next]
      BY <1>4, <2>2 DEF r
    <3> QED BY <2>1, <2>2, <3>1, TornHead DEF r
  <2>3. CASE label = "initNext"
    <3>1. hd = [r EXCEPT !.record = s.record]
      BY <1>4, <2>3 DEF r
    <3> QED BY <2>1, <2>3, <3>1, TornHead DEF r
  <2> QED BY <1>4, <2>2, <2>3
<1>9. h \notin overlapped' => AloneInv(h)'
  <2>1. h \notin overlapped => s = local[d]
    BY <1>1 DEF IInv, AccountsInv, AloneInv, s
  <2>2. DBOf(h)' = d
    BY DEF DBOf
  <2> QED BY <1>3, <1>5, <1>7, <1>8, <2>1, <2>2 DEF AloneInv, s
<1>10. WriteInv(h)' /\ Runs(h)'
  BY <1>2, <1>5, <1>7 DEF WriteInv, Runs, IsSettled
<1>11. ~overwritten' => KeptInv'
  <2>1. KeptInv => Within(local[d], Saved) /\ Within(s, Saved) /\ Within(hd, Saved)
    <3>1. s # NoHead /\ local[d] # NoHead
      BY <1>2, RecordsType
    <3> QED BY <1>1, <1>8, <3>1 DEF KeptInv, WithinInv, s
  <2> QED BY <1>3, <1>5, <1>7, <2>1, KeptQuiet DEF s
<1>12. hd.next >= LowestASID
  <2>1. head[d].next >= LowestASID
    BY <1>1 DEF IInv, AccountsInv, StoreInv
  <2> QED BY <1>2, <1>4, <1>8, <2>1 DEF IsSettled
<1>13. local[d] # NoHead /\ ds[d] # NoHead
  BY <1>2, RecordsType DEF s
<1> HIDE DEF d
<1> QED BY <1>1, <1>2, <1>3, <1>5, <1>6, <1>7, <1>9, <1>10, <1>11, <1>12, <1>13, HandlerKeeps, SMTT(30) DEF RootStep, d, s

LEMMA InitSecondKeeps ==
    ASSUME IInv, NEW h \in Handlers, InitSecond(h)
    PROVE  IInv'
<1> DEFINE d == DBOf(h)
           s == records[h]
<1>1. h \in Actors /\ d \in DBs /\ pc[h] \in {"initNext", "initRecord"} /\ Runs(h)
  BY ActorFacts DEF InitSecond, Runs
<1>2. /\ local[d] \in Records /\ IsSettled(local[d]) /\ head[d] \in Records
      /\ ds[d] \in Records /\ IsSettled(ds[d])
  BY <1>1, StoreFacts
<1>3. s \in Records /\ s.next >= LowestASID
  BY <1>1 DEF IInv, TypeOK, AccountsInv, WriteInv
<1>4. /\ records' = records /\ root' = root /\ local' = local /\ ds' = ds
      /\ task' = task /\ basis' = basis /\ overlapped' = overlapped
      /\ issued' = issued /\ allowed' = allowed /\ overwritten' = overwritten
      /\ pc' = [pc EXCEPT ![h] = "value"]
  BY DEF InitSecond, Goto, noms, held, history
<1>5. PICK hd \in Records :
         /\ head' = [head EXCEPT ![d] = hd]
         /\ pc[h] = "initNext" => hd = [head[d] EXCEPT !.next = s.next]
         /\ pc[h] = "initRecord" => hd = [head[d] EXCEPT !.record = s.record]
  <2>1. \/ /\ head' = [head EXCEPT ![d] = [head[d] EXCEPT !.next = s.next]]
           /\ pc[h] = "initNext"
        \/ /\ head' = [head EXCEPT ![d] = [head[d] EXCEPT !.record = s.record]]
           /\ pc[h] = "initRecord"
    <3>1. /\ [head EXCEPT ![d].next = s.next] = [head EXCEPT ![d] = [head[d] EXCEPT !.next = s.next]]
          /\ [head EXCEPT ![d].record = s.record] = [head EXCEPT ![d] = [head[d] EXCEPT !.record = s.record]]
      OBVIOUS
    <3> QED BY <3>1 DEF InitSecond
  <2>2. /\ [head[d] EXCEPT !.next = s.next] \in Records
        /\ [head[d] EXCEPT !.record = s.record] \in Records
    BY <1>2, <1>3, PatchedRecords
  <2> HIDE DEF d, s
  <2> QED BY <2>1, <2>2
<1>6. head'[d] = hd /\ \A e \in DBs \ {d} : head'[e] = head[e]
  BY <1>1, <1>5 DEF IInv, TypeOK
<1> HIDE DEF s
<1>7. TypeOK'
  BY <1>1, <1>4, <1>5 DEF IInv, TypeOK, Reading
<1>8. Elsewhere(h) /\ pc'[h] = "value"
  BY <1>4, <1>6, ElsewhereOf, ZenonT(60)
<1>9. /\ pc[h] = "initNext" => hd.next = s.next /\ hd.record = head[d].record
      /\ pc[h] = "initRecord" => hd.record = s.record /\ hd.next = head[d].next
      /\ \A now : Within(head[d], now) /\ Within(s, now) => Within(hd, now)
  <2> DEFINE r == head[d]
  <2> HIDE DEF r
  <2>1. r \in Records /\ s \in Records
    BY <1>2, <1>3 DEF r
  <2>2. CASE pc[h] = "initNext"
    <3>1. hd = [r EXCEPT !.next = s.next]
      BY <1>5, <2>2 DEF r
    <3> QED BY <2>1, <2>2, <3>1, TornHead DEF r
  <2>3. CASE pc[h] = "initRecord"
    <3>1. hd = [r EXCEPT !.record = s.record]
      BY <1>5, <2>3 DEF r
    <3> QED BY <2>1, <2>3, <3>1, TornHead DEF r
  <2> QED BY <1>1, <2>2, <2>3
<1>10. h \notin overlapped' => AloneInv(h)'
  <2>1. ASSUME h \notin overlapped PROVE hd = local[d] /\ ds[d] = local[d]
    <3>1. /\ ds[d] = local[d] /\ s = local[d]
          /\ pc[h] = "initRecord" => head[d].next = local[d].next
          /\ pc[h] = "initNext" => head[d].record = local[d].record
      BY <1>1, <2>1 DEF IInv, AccountsInv, AloneInv, s
    <3>2. hd.next = local[d].next /\ hd.record = local[d].record
      BY <1>1, <1>9, <3>1
    <3> QED BY <1>2, <3>1, <3>2, SameRecords
  <2>2. DBOf(h)' = d
    BY DEF DBOf
  <2> QED BY <1>4, <1>6, <1>8, <2>1, <2>2 DEF AloneInv
<1>11. WriteInv(h)' /\ Runs(h)'
  BY <1>8 DEF WriteInv, Runs
<1>12. ~overwritten' => KeptInv'
  <2>1. KeptInv => Within(local[d], Saved) /\ Within(ds[d], Saved) /\ Within(hd, Saved)
    <3>1. ds[d] # NoHead /\ local[d] # NoHead
      BY <1>2, RecordsType
    <3> QED BY <1>1, <1>9, <3>1 DEF KeptInv, WithinInv, s
  <2> QED BY <1>4, <1>6, <1>8, <2>1, KeptQuiet
<1>13. hd.next >= LowestASID
  <2>1. head[d].next >= LowestASID
    BY <1>1 DEF IInv, AccountsInv, StoreInv
  <2> QED BY <1>1, <1>3, <1>9, <2>1
<1>14. local[d] # NoHead /\ ds[d] # NoHead
  BY <1>2, RecordsType
<1> HIDE DEF d
<1> QED BY <1>1, <1>2, <1>4, <1>6, <1>7, <1>8, <1>10, <1>11, <1>12, <1>13, <1>14, HandlerKeeps, SMTT(30) DEF RootStep, d

LEMMA HeadValueKeeps ==
    ASSUME IInv, NEW h \in Handlers, HeadValue(h)
    PROVE  IInv'
<1> DEFINE d == DBOf(h)
           o == Overlay(head[d])
<1>1. h \in Actors /\ d \in DBs /\ pc[h] = "value" /\ Runs(h)
  BY ActorFacts DEF HeadValue, Runs
<1>2. /\ local[d] \in Records /\ IsSettled(local[d]) /\ head[d] \in Records
      /\ ds[d] \in Records /\ IsSettled(ds[d]) /\ local[d] # NoHead /\ ds[d] # NoHead
      /\ root \in Records /\ Saved = root
  BY <1>1, StoreFacts, RecordsType
<1>3. head[d].next >= LowestASID
  BY <1>1 DEF IInv, AccountsInv, StoreInv
<1>4. /\ o \in Records /\ o.next = head[d].next /\ IsOverlaid(o)
      /\ Within(head[d], root) => Within(o, root)
  BY <1>2, OverlayFacts, OverlaidFacts, WithinFacts
<1>5. /\ records' = [records EXCEPT ![h] = o] /\ basis' = [basis EXCEPT ![h] = o]
      /\ local' = local /\ ds' = ds /\ head' = head /\ root' = root
      /\ overlapped' = overlapped
      /\ issued' = issued /\ allowed' = allowed /\ overwritten' = overwritten
      /\ pc' = [pc EXCEPT ![h] = "decide"]
  BY DEF HeadValue, Goto, noms, dbs, history
<1>6. /\ records'[h] = o /\ basis'[h] = o
      /\ \A g \in Handlers \ {h} : records'[g] = records[g] /\ basis'[g] = basis[g]
  BY <1>1, <1>5 DEF IInv, TypeOK
<1>7. /\ task' \in [Pulls -> Tasks \cup {NoTask}]
      /\ h \in Pulls => task'[h] \in Tasks
      /\ \A g \in Pulls \ {h} : task'[g] = task[g]
  <2>1. CASE h \in Pulls
    <3>1. PICK asked \in Asks[h] : task' = [task EXCEPT ![h] = asked]
      BY <2>1, ActorFacts DEF HeadValue, Ask
    <3>2. asked \in Tasks
      BY <2>1, AsksAssumption
    <3> QED BY <2>1, <3>1, <3>2 DEF IInv, TypeOK
  <2>2. CASE h \in Signups
    BY <2>2, ActorFacts DEF HeadValue, Ask, IInv, TypeOK
  <2> QED BY <2>1, <2>2 DEF Handlers
<1> HIDE DEF o
<1>8. TypeOK'
  BY <1>1, <1>4, <1>5, <1>7 DEF IInv, TypeOK, Reading
<1>9. Elsewhere(h) /\ pc'[h] = "decide"
  <2>1. \A g \in Handlers \ {h} : /\ records'[g] = records[g] /\ basis'[g] = basis[g]
                                    /\ g \in Pulls => task'[g] = task[g]
    BY <1>6, <1>7
  <2>2. \A e \in DBs \ {DBOf(h)} : local'[e] = local[e] /\ ds'[e] = ds[e] /\ head'[e] = head[e]
    BY <1>5
  <2>3. pc'[h] = "decide" /\ \A a \in Actors \ {h} : pc'[a] = pc[a]
    BY <1>1, <1>5 DEF IInv, TypeOK
  <2> QED BY <1>5, <2>1, <2>2, <2>3 DEF Elsewhere
<1>10. h \notin overlapped' => AloneInv(h)'
  <2>1. h \notin overlapped => head[d] = local[d] /\ ds[d] = local[d]
    BY <1>1 DEF IInv, AccountsInv, AloneInv
  <2>2. DBOf(h)' = d
    BY DEF DBOf
  <2> QED BY <1>5, <1>6, <1>9, <2>1, <2>2 DEF AloneInv, o
<1>11. WriteInv(h)' /\ Runs(h)'
  BY <1>3, <1>4, <1>6, <1>9 DEF WriteInv, Runs
<1>12. ~overwritten' => KeptInv'
  <2>1. KeptInv => /\ Within(local[d], Saved) /\ Within(ds[d], Saved) /\ Within(head[d], Saved)
                   /\ Within(o, Saved)
    BY <1>1, <1>2, <1>4 DEF KeptInv, WithinInv
  <2> QED BY <1>5, <1>6, <1>9, <2>1, KeptQuiet
<1> HIDE DEF d
<1> QED BY <1>1, <1>2, <1>3, <1>5, <1>8, <1>9, <1>10, <1>11, <1>12, HandlerKeeps, SMTT(30) DEF RootStep, d

-------------------------------------------------------------------------------
(* A handler answers.                                                      *)

LEMMA FinishFacts ==
    ASSUME IInv, NEW h \in Handlers, Finish(h)
    PROVE  /\ pc' = [pc EXCEPT ![h] = "idle"] /\ pc'[h] = "idle"
           /\ \A a \in Actors \ {h} : pc'[a] = pc[a]
           /\ records' \in [Handlers -> Records] /\ basis' \in [Handlers -> Records]
           /\ task' \in [Pulls -> Tasks \cup {NoTask}]
           /\ \A g \in Handlers \ {h} : /\ records'[g] = records[g] /\ basis'[g] = basis[g]
                                        /\ g \in Pulls => task'[g] = task[g]
           /\ overlapped' = overlapped \ {h}
<1>1. h \in Actors
  BY ActorFacts
<1>2. /\ pc' = [pc EXCEPT ![h] = "idle"] /\ pc'[h] = "idle"
      /\ \A a \in Actors \ {h} : pc'[a] = pc[a]
  BY <1>1 DEF Finish, Goto, IInv, TypeOK
<1>3. /\ records' \in [Handlers -> Records] /\ basis' \in [Handlers -> Records]
      /\ \A g \in Handlers \ {h} : records'[g] = records[g] /\ basis'[g] = basis[g]
  BY NoAccountsFacts DEF Finish, IInv, TypeOK
<1>4. /\ task' \in [Pulls -> Tasks \cup {NoTask}]
      /\ \A g \in Pulls \ {h} : task'[g] = task[g]
  BY DEF Finish, IInv, TypeOK
<1> QED BY <1>2, <1>3, <1>4 DEF Finish

LEMMA FinishKeeps ==
    ASSUME IInv, NEW h \in Handlers, Finish(h), Runs(h), root' = root, overwritten' = overwritten,
           local' \in [DBs -> Records \cup {NoHead}],
           ds' \in [DBs -> Records \cup {NoHead}],
           head' \in [DBs -> Records],
           \A e \in DBs \ {DBOf(h)} : local'[e] = local[e] /\ ds'[e] = ds[e] /\ head'[e] = head[e],
           local'[DBOf(h)] # NoHead => IsSettled(local'[DBOf(h)]),
           ds'[DBOf(h)] # NoHead => IsSettled(ds'[DBOf(h)]),
           head'[DBOf(h)].next >= LowestASID,
           h \in Signups \/ (local'[DBOf(h)] # NoHead /\ ds'[DBOf(h)] # NoHead),
           issued' \in [IDs -> 0..2],
           allowed' \in {allowed} \cup {allowed \cup {p} : p \in {q \in [id : Nat, host : Hosts] : IsASID(q.id)}},
           Elsewhere(h) => (~overwritten' => KeptInv')
    PROVE  IInv'
<1>1. /\ pc' = [pc EXCEPT ![h] = "idle"] /\ pc'[h] = "idle"
      /\ \A a \in Actors \ {h} : pc'[a] = pc[a]
      /\ records' \in [Handlers -> Records] /\ basis' \in [Handlers -> Records]
      /\ task' \in [Pulls -> Tasks \cup {NoTask}]
      /\ \A g \in Handlers \ {h} : /\ records'[g] = records[g] /\ basis'[g] = basis[g]
                                   /\ g \in Pulls => task'[g] = task[g]
      /\ overlapped' = overlapped \ {h}
  BY FinishFacts
<1>2. h \in Actors
  BY ActorFacts
<1>3. \A g \in Pulls : pc'[g] \in {"decide", "write", "assign"} => task'[g] \in Tasks
  <2>1. \A g \in Pulls \ {h} : pc'[g] = pc[g] /\ task'[g] = task[g]
    BY <1>1 DEF Actors, Handlers
  <2> QED BY <1>1, <2>1 DEF IInv, TypeOK
<1>4. allowed' \subseteq [id : Nat, host : Hosts]
  BY DEF IInv, TypeOK
<1>5. pc' \in [Actors -> {"down", "create", "up", "idle", "decide", "write", "assign"} \cup Reading]
  BY <1>1 DEF IInv, TypeOK
<1>6. /\ root' \in Records \cup {NoHead} /\ overlapped' \subseteq Pulls
      /\ overwritten' \in BOOLEAN
  BY <1>1 DEF IInv, TypeOK
<1>7. TypeOK'
  BY <1>1, <1>3, <1>4, <1>5, <1>6 DEF TypeOK
<1>8. Elsewhere(h)
  BY <1>1 DEF Elsewhere
<1>9. AloneInv(h)' /\ WriteInv(h)'
  BY <1>1 DEF AloneInv, WriteInv
<1> QED BY <1>1, <1>7, <1>8, <1>9, HandlerKeeps, SMTT(30) DEF RootStep

(* A handler that leaves its database alone.                               *)
LEMMA AnswerKeeps ==
    ASSUME IInv, NEW h \in Handlers, Finish(h), Runs(h), UNCHANGED <<noms, dbs, issued, overwritten>>,
           allowed' \in {allowed} \cup {allowed \cup {p} : p \in {q \in [id : Nat, host : Hosts] : IsASID(q.id)}},
           KeptInv => \A p \in allowed' \ allowed :
                         p.id \in DOMAIN Saved.record /\ p.host \in Saved.record[p.id]
    PROVE  IInv'
<1> DEFINE d == DBOf(h)
<1>1. /\ root' = root /\ local' = local /\ ds' = ds /\ head' = head
      /\ issued' = issued /\ overwritten' = overwritten /\ d \in DBs
  BY ActorFacts DEF noms, dbs
<1>2. /\ local \in [DBs -> Records \cup {NoHead}] /\ ds \in [DBs -> Records \cup {NoHead}]
      /\ head \in [DBs -> Records] /\ issued \in [IDs -> 0..2]
  BY DEF IInv, TypeOK
<1>3. /\ local[d] # NoHead /\ IsSettled(local[d]) /\ ds[d] # NoHead /\ IsSettled(ds[d])
      /\ head[d].next >= LowestASID
  BY <1>1, StoreFacts, RecordsType DEF IInv, AccountsInv, StoreInv
<1>4. pc'[h] = "idle"
  BY FinishFacts
<1>5. KeptInv => Within(local[d], Saved) /\ Within(ds[d], Saved) /\ Within(head[d], Saved)
  BY <1>1, <1>3 DEF KeptInv, WithinInv
<1>6. Elsewhere(h) => (~overwritten' => KeptInv')
  <2> HIDE DEF d
  <2> SUFFICES ASSUME Elsewhere(h) PROVE ~overwritten' => KeptInv'
    OBVIOUS
  <2> QED BY <1>1, <1>4, <1>5, KeptQuiet DEF d
<1> HIDE DEF d
<1> QED BY <1>1, <1>2, <1>3, <1>6, FinishKeeps DEF d

LEMMA EndKeeps ==
    ASSUME IInv, NEW h \in Pulls, LookedUp(h) \/ RefuseAccount(h) \/ RefuseHost(h) \/ Panic(h)
    PROVE  IInv'
<1>1. h \in Handlers /\ Finish(h) /\ Runs(h) /\ UNCHANGED <<noms, dbs, history>>
  BY DEF Handlers, Runs, Panic, LookedUp, RefuseAccount, RefuseHost
<1> QED BY <1>1, AnswerKeeps DEF history

LEMMA AllowKeeps ==
    ASSUME IInv, NEW h \in Pulls, Allow(h)
    PROVE  IInv'
<1>1. /\ h \in Handlers /\ pc[h] = "decide" /\ Finish(h) /\ Runs(h)
      /\ UNCHANGED <<noms, dbs, issued, overwritten>>
      /\ allowed' = IF IsASID(task[h].id) THEN allowed \cup {task[h]} ELSE allowed
      /\ task[h].id \in DOMAIN records[h].record /\ task[h].host \in records[h].record[task[h].id]
  BY DEF Handlers, Runs, Allow, Permit, Authorized, Known, HostsOf
<1>2. task[h] \in Tasks /\ records[h] \in Records
  BY <1>1 DEF IInv, TypeOK
<1>3. task[h] \in [id : Nat, host : Hosts]
  BY <1>1, <1>2, RecordsType DEF Tasks
<1>4. KeptInv /\ IsASID(task[h].id) =>
         task[h].id \in DOMAIN Saved.record /\ task[h].host \in Saved.record[task[h].id]
  BY <1>1 DEF KeptInv, WithinInv, Within
<1> QED BY <1>1, <1>3, <1>4, AnswerKeeps

LEMMA CloseFacts ==
    ASSUME IInv, NEW d \in DBs, Close({d})
    PROVE  /\ local' \in [DBs -> Records \cup {NoHead}] /\ ds' \in [DBs -> Records \cup {NoHead}]
           /\ head' \in [DBs -> Records]
           /\ \A e \in DBs \ {d} : local'[e] = local[e] /\ ds'[e] = ds[e] /\ head'[e] = head[e]
           /\ local'[d] = NoHead /\ ds'[d] = NoHead /\ head'[d] = NoAccounts
           /\ head'[d].next >= LowestASID
<1>1. NoAccounts.next >= LowestASID
  BY NoAccountsFacts DEF Whole
<1> QED BY <1>1, NoAccountsFacts DEF Close, IInv, TypeOK

(* A signup that ends without having changed anything closes its database. *)
LEMMA CloseKeeps ==
    ASSUME IInv, NEW h \in Signups, Finish(h), Runs(h), Close({h}), UNCHANGED <<root, history>>
    PROVE  IInv'
<1>1. h \in Handlers /\ DBOf(h) = h /\ h \in DBs
  BY ActorFacts DEF Handlers
<1>2. /\ root' = root /\ issued' = issued /\ allowed' = allowed /\ overwritten' = overwritten
      /\ issued \in [IDs -> 0..2]
  BY DEF history, IInv, TypeOK
<1>3. /\ local' \in [DBs -> Records \cup {NoHead}] /\ ds' \in [DBs -> Records \cup {NoHead}]
      /\ head' \in [DBs -> Records]
      /\ \A e \in DBs \ {h} : local'[e] = local[e] /\ ds'[e] = ds[e] /\ head'[e] = head[e]
      /\ local'[h] = NoHead /\ ds'[h] = NoHead /\ head'[h] = NoAccounts
      /\ head'[h].next >= LowestASID
  BY <1>1, CloseFacts
<1>4. Within(head'[h], Saved)
  BY <1>3 DEF Within, NoAccounts
<1>5. pc'[h] = "idle"
  BY <1>1, FinishFacts
<1>6. Elsewhere(h) => (~overwritten' => KeptInv')
  <2> SUFFICES ASSUME Elsewhere(h) PROVE ~overwritten' => KeptInv'
    OBVIOUS
  <2> QED BY <1>1, <1>2, <1>3, <1>4, <1>5, KeptQuiet
<1> QED BY <1>1, <1>2, <1>3, <1>6, FinishKeeps

LEMMA WriteConflictKeeps ==
    ASSUME IInv, NEW h \in Handlers, WriteConflict(h)
    PROVE  IInv'
<1> DEFINE d == DBOf(h)
<1>1. /\ Finish(h) /\ Runs(h) /\ root' = root
      /\ issued' = issued /\ allowed' = allowed /\ overwritten' = overwritten
  BY DEF WriteConflict, Runs, history
<1>2. CASE h \in Signups /\ Close({h})
  BY <1>1, <1>2, CloseKeeps DEF history
<1>3. CASE h \in Pulls /\ local' \in {local, [local EXCEPT ![d] = root]} /\ UNCHANGED dbs
  <2>1. /\ local[d] \in Records /\ IsSettled(local[d]) /\ ds[d] \in Records /\ IsSettled(ds[d])
        /\ root \in Records /\ IsSettled(root) /\ Saved = root /\ d \in DBs
        /\ local[d] # NoHead /\ ds[d] # NoHead
    BY <1>1, ActorFacts, StoreFacts, RecordsType
  <2>2. ds' = ds /\ head' = head
    BY <1>3 DEF dbs
  <2>3. /\ local' \in [DBs -> Records \cup {NoHead}] /\ ds \in [DBs -> Records \cup {NoHead}]
        /\ head \in [DBs -> Records] /\ issued \in [IDs -> 0..2]
        /\ \A e \in DBs \ {d} : local'[e] = local[e]
        /\ local'[d] \in {local[d], root}
    BY <1>3, <2>1 DEF IInv, TypeOK
  <2>4. head[d].next >= LowestASID
    BY <2>1 DEF IInv, AccountsInv, StoreInv
  <2>5. local'[d] # NoHead /\ IsSettled(local'[d])
    BY <2>1, <2>3, RecordsType
  <2>6. pc'[h] = "idle"
    BY <1>1, FinishFacts
  <2>7. KeptInv => Within(local'[d], Saved) /\ Within(ds[d], Saved) /\ Within(head[d], Saved)
    BY <2>1, <2>3, WithinFacts DEF KeptInv, WithinInv
  <2>8. Elsewhere(h) => (~overwritten' => KeptInv')
    <3> HIDE DEF d
    <3> SUFFICES ASSUME Elsewhere(h) PROVE ~overwritten' => KeptInv'
      OBVIOUS
    <3>1. h \notin Signups
      BY <1>3, ActorFacts
    <3> QED BY <1>1, <2>2, <2>6, <2>7, <3>1, KeptQuiet DEF d
  <2> HIDE DEF d
  <2> QED BY <1>1, <2>1, <2>2, <2>3, <2>4, <2>5, <2>8, FinishKeeps DEF d
<1> QED BY <1>2, <1>3 DEF WriteConflict

LEMMA AssignPullKeeps ==
    ASSUME IInv, NEW h \in Pulls, Assign(h)
    PROVE  IInv'
<1> DEFINE d == DBOf(h)
           r == records[h]
<1>1. h \in Handlers /\ h \notin Signups /\ d \in DBs
  BY ActorFacts DEF Handlers
<1>2. /\ pc[h] = "assign" /\ Finish(h) /\ Runs(h) /\ root' = root /\ local' = local /\ issued' = issued
      /\ ds' = [ds EXCEPT ![d] = r] /\ head' = [head EXCEPT ![d] = r]
      /\ allowed' = IF IsASID(task[h].id) THEN allowed \cup {task[h]} ELSE allowed
      /\ overwritten' = overwritten
  BY <1>1 DEF Assign, Permit, Runs
<1>3. /\ r \in Records /\ task[h] \in Tasks /\ basis[h] \in Records /\ issued \in [IDs -> 0..2]
      /\ local \in [DBs -> Records \cup {NoHead}] /\ ds' \in [DBs -> Records \cup {NoHead}]
      /\ head' \in [DBs -> Records]
      /\ \A e \in DBs \ {d} : local'[e] = local[e] /\ ds'[e] = ds[e] /\ head'[e] = head[e]
      /\ ds'[d] = r /\ head'[d] = r
  BY <1>1, <1>2 DEF IInv, TypeOK
<1> HIDE DEF r
<1>4. /\ basis[h].next >= LowestASID /\ IsOverlaid(basis[h])
      /\ IsASID(task[h].id) /\ task[h].id \in DOMAIN basis[h].record
      /\ task[h].host \in Hosts
      /\ r = AddHost(basis[h], task[h].id, task[h].host)
  BY <1>1, <1>2 DEF IInv, AccountsInv, WriteInv, r
<1>5. /\ IsSettled(r) /\ r.next = basis[h].next
      /\ task[h].id \in DOMAIN r.record /\ task[h].host \in r.record[task[h].id]
  BY <1>3, <1>4, HostAdded
<1>6. task[h] \in [id : Nat, host : Hosts]
  BY <1>3, <1>4 DEF Tasks
<1>7. KeptInv => Within(r, Saved) /\ Within(local[d], Saved)
  <2>1. local[d] # NoHead
    BY <1>1, <1>2, StoreFacts, RecordsType
  <2> QED BY <1>1, <1>2, <2>1 DEF KeptInv, WithinInv, r
<1>8. KeptInv => task[h].id \in DOMAIN Saved.record /\ task[h].host \in Saved.record[task[h].id]
  BY <1>4, <1>5, <1>7 DEF Within
<1>9. local[d] # NoHead /\ IsSettled(local[d]) /\ r # NoHead
  BY <1>1, <1>2, <1>3, StoreFacts, RecordsType
<1>10. pc'[h] = "idle"
  BY <1>1, <1>2, FinishFacts
<1>11. Elsewhere(h) => (~overwritten' => KeptInv')
  <2> HIDE DEF d
  <2> SUFFICES ASSUME Elsewhere(h) PROVE ~overwritten' => KeptInv'
    OBVIOUS
  <2>1. \A p \in allowed' \ allowed : p = task[h]
    BY <1>2
  <2>2. KeptInv => /\ local'[d] # NoHead => Within(local'[d], Saved)
                   /\ ds'[d] # NoHead => Within(ds'[d], Saved)
                   /\ Within(head'[d], Saved)
    BY <1>2, <1>3, <1>7
  <2> QED BY <1>1, <1>2, <1>8, <1>10, <2>1, <2>2, KeptQuiet DEF d
<1> HIDE DEF d
<1>12. allowed' \in {allowed} \cup {allowed \cup {p} : p \in {q \in [id : Nat, host : Hosts] : IsASID(q.id)}}
  BY <1>2, <1>4, <1>6
<1>13. r.next >= LowestASID
  BY <1>4, <1>5
<1> QED BY <1>1, <1>2, <1>3, <1>5, <1>9, <1>11, <1>12, <1>13, FinishKeeps DEF d

LEMMA AssignSignupKeeps ==
    ASSUME IInv, NEW h \in Signups, Assign(h)
    PROVE  IInv'
<1> DEFINE b == basis[h].next
<1>1. h \in Handlers /\ h \notin Pulls /\ DBOf(h) = h /\ h \in DBs
  BY ActorFacts DEF Handlers
<1>2. /\ pc[h] = "assign" /\ Finish(h) /\ Runs(h) /\ root' = root /\ Close({h})
      /\ issued' = [issued EXCEPT ![b] = IF @ = 0 THEN 1 ELSE 2]
      /\ allowed' = allowed /\ overwritten' = overwritten
  BY <1>1 DEF Assign, Runs
<1>3. b \in IDs /\ issued \in [IDs -> 0..2]
  BY <1>1, <1>2 DEF IInv, TypeOK, AccountsInv, WriteInv
<1>4. /\ issued' \in [IDs -> 0..2]
      /\ issued'[b] = IF issued[b] = 0 THEN 1 ELSE 2
      /\ \A i \in IDs \ {b} : issued'[i] = issued[i]
  BY <1>2, <1>3
<1>5. /\ local' \in [DBs -> Records \cup {NoHead}] /\ ds' \in [DBs -> Records \cup {NoHead}]
      /\ head' \in [DBs -> Records]
      /\ \A e \in DBs \ {h} : local'[e] = local[e] /\ ds'[e] = ds[e] /\ head'[e] = head[e]
      /\ local'[h] = NoHead /\ ds'[h] = NoHead /\ head'[h] = NoAccounts
      /\ head'[h].next >= LowestASID
  BY <1>1, <1>2, CloseFacts
<1>6. /\ pc'[h] = "idle"
      /\ \A a \in Actors \ {h} : pc'[a] = pc[a]
      /\ \A g \in Handlers \ {h} : records'[g] = records[g] /\ basis'[g] = basis[g]
  BY <1>1, <1>2, FinishFacts
<1>7. ASSUME ~overwritten PROVE KeptInv'
  <2>1. KeptInv /\ Saved' = Saved
    BY <1>2, <1>7 DEF IInv, AccountsInv, Saved
  <2>2. /\ b \in LowestASID..(Saved.next - 1) /\ issued[b] = 0
        /\ \A g \in Signups : pc[g] = "assign" /\ basis[g].next = b => g = h
    BY <1>2, <2>1 DEF KeptInv, IssuedInv
  <2>3. IssuedInv'
    <3>1. \A i \in IDs : issued'[i] > 0 => issued'[i] = 1 /\ i \in LowestASID..(Saved.next - 1)
      BY <1>3, <1>4, <2>1, <2>2 DEF KeptInv, IssuedInv
    <3>2. \A g \in Signups : pc'[g] = "assign" => /\ g # h /\ pc[g] = "assign" /\ basis'[g] = basis[g]
                                                  /\ basis[g].next # b
      BY <1>6, <2>2 DEF Actors, Handlers
    <3>3. \A g \in Signups : pc[g] = "assign" =>
             /\ basis[g].next \in LowestASID..(Saved.next - 1) /\ basis[g].next \in IDs
             /\ issued[basis[g].next] = 0
             /\ \A f \in Signups : pc[f] = "assign" /\ basis[f].next = basis[g].next => f = g
      <4>1. \A g \in Signups : pc[g] = "assign" => basis[g].next \in IDs
        BY DEF Handlers, IInv, AccountsInv, WriteInv
      <4> QED BY <2>1, <4>1 DEF KeptInv, IssuedInv
    <3> HIDE DEF b
    <3> QED BY <1>4, <2>1, <3>1, <3>2, <3>3 DEF IssuedInv
  <2>4. WithinInv'
    <3>1. Within(NoAccounts, Saved)
      BY DEF Within, NoAccounts
    <3>2. \A d \in DBs : /\ local'[d] # NoHead => Within(local'[d], Saved)
                         /\ ds'[d] # NoHead => Within(ds'[d], Saved)
                         /\ Within(head'[d], Saved)
      BY <1>5, <2>1, <3>1 DEF KeptInv, WithinInv
    <3>3. \A g \in Handlers : pc'[g] \in {"initNext", "initRecord", "decide", "assign"} =>
             Within(records'[g], Saved)
      BY <1>6, <2>1 DEF KeptInv, WithinInv, Actors
    <3> QED BY <2>1, <3>2, <3>3 DEF WithinInv
  <2>5. AuthorizedIsSaved' /\ Whole(Saved')
    BY <1>2, <1>7, <2>1 DEF KeptInv, AuthorizedIsSaved
  <2> QED BY <2>3, <2>4, <2>5 DEF KeptInv
<1> HIDE DEF b
<1> QED BY <1>1, <1>2, <1>4, <1>5, <1>7, FinishKeeps
-------------------------------------------------------------------------------
(* A handler writes.                                                       *)

(* From deciding to writing.                                               *)
LEMMA ToWriteKeeps ==
    ASSUME IInv, NEW h \in Handlers, pc[h] = "decide", Goto(h, "write"),
           NEW new \in Records, records' = [records EXCEPT ![h] = new],
           UNCHANGED <<noms, dbs, task, basis, overlapped, history>>,
           WriteInv(h)'
    PROVE  IInv'
<1> DEFINE d == DBOf(h)
<1>1. h \in Actors /\ d \in DBs /\ Runs(h)
  BY ActorFacts DEF Runs
<1>2. /\ root' = root /\ local' = local /\ ds' = ds /\ head' = head
      /\ task' = task /\ basis' = basis /\ overlapped' = overlapped
      /\ issued' = issued /\ allowed' = allowed /\ overwritten' = overwritten
      /\ pc' = [pc EXCEPT ![h] = "write"]
      /\ \A g \in Handlers \ {h} : records'[g] = records[g]
  BY DEF Goto, noms, dbs, history, IInv, TypeOK
<1>3. Elsewhere(h) /\ pc'[h] = "write"
  <2> HIDE DEF d
  <2> QED BY <1>2, ElsewhereOf, ZenonT(60)
<1>4. TypeOK'
  <2>1. \A g \in Pulls : pc'[g] \in {"decide", "write", "assign"} => task'[g] \in Tasks
    <3>1. \A g \in Pulls \ {h} : pc'[g] = pc[g]
      BY <1>2 DEF IInv, TypeOK, Actors, Handlers
    <3> QED BY <1>2, <3>1 DEF IInv, TypeOK
  <2> QED BY <1>2, <2>1 DEF IInv, TypeOK
<1>5. /\ local[d] # NoHead /\ IsSettled(local[d]) /\ ds[d] # NoHead /\ IsSettled(ds[d])
      /\ head[d].next >= LowestASID
  BY <1>1, StoreFacts, RecordsType DEF IInv, AccountsInv, StoreInv
<1>6. h \notin overlapped' => AloneInv(h)'
  <2>1. h \notin overlapped => ds[d] = local[d] /\ basis[h] = Overlay(local[d])
    BY DEF IInv, AccountsInv, AloneInv
  <2>2. DBOf(h)' = d
    BY DEF DBOf
  <2> QED BY <1>2, <1>3, <2>1, <2>2 DEF AloneInv
<1>7. Runs(h)'
  BY <1>3 DEF Runs
<1>8. ~overwritten' => KeptInv'
  <2>1. KeptInv => Within(local[d], Saved) /\ Within(ds[d], Saved) /\ Within(head[d], Saved)
    BY <1>1, <1>5 DEF KeptInv, WithinInv
  <2> HIDE DEF d
  <2> QED BY <1>2, <1>3, <2>1, KeptQuiet DEF d
<1> HIDE DEF d
<1> QED BY <1>1, <1>2, <1>3, <1>4, <1>5, <1>6, <1>7, <1>8, HandlerKeeps, SMTT(30) DEF RootStep, d

LEMMA AddHostToListKeeps ==
    ASSUME IInv, NEW h \in Pulls, AddHostToList(h)
    PROVE  IInv'
<1> DEFINE id == task[h].id
           host == task[h].host
           new == AddHost(records[h], id, host)
<1>1. /\ h \in Handlers /\ h \in Actors /\ h \notin Signups /\ pc[h] = "decide"
      /\ pc' = [pc EXCEPT ![h] = "write"]
      /\ UNCHANGED <<noms, dbs, task, basis, overlapped, history>>
      /\ records' = [records EXCEPT ![h] = new]
  BY ActorFacts DEF Handlers, AddHostToList, Goto
<1>2. /\ basis[h] \in Records /\ basis[h].next >= LowestASID /\ IsOverlaid(basis[h])
      /\ records[h] = basis[h] /\ task[h] \in Tasks
  BY <1>1 DEF IInv, TypeOK, AccountsInv, WriteInv
<1>3. /\ IsASID(id) /\ id \in DOMAIN basis[h].record /\ host \in Hosts \ basis[h].record[id]
      /\ Cardinality(basis[h].record[id]) < MaxASClientViewHosts
  BY <1>2 DEF AddHostToList, MayGrow, Authorized, Known, HostsOf, Tasks
<1>4. new \in Records
  <2> HIDE DEF id, host
  <2> QED BY <1>2, <1>3, HostAdded
<1>5. records'[h] = new /\ pc'[h] = "write" /\ basis'[h] = basis[h] /\ task'[h] = task[h]
  BY <1>1 DEF IInv, TypeOK
<1>6. WriteInv(h)'
  BY <1>1, <1>2, <1>3, <1>5 DEF WriteInv
<1> HIDE DEF new
<1> QED BY <1>1, <1>4, <1>6, ToWriteKeeps DEF Goto

LEMMA RegisterKeeps ==
    ASSUME IInv, NEW h \in Signups, Register(h)
    PROVE  IInv'
<1> DEFINE new == AddAccount(records[h])
<1>1. /\ h \in Handlers /\ h \in Actors /\ h \notin Pulls /\ pc[h] = "decide"
      /\ pc' = [pc EXCEPT ![h] = "write"]
      /\ UNCHANGED <<noms, dbs, task, basis, overlapped, history>>
      /\ records' = [records EXCEPT ![h] = new] /\ records[h].next <= MaxASID
  BY ActorFacts DEF Handlers, Register, Goto
<1>2. /\ basis[h] \in Records /\ basis[h].next >= LowestASID /\ IsOverlaid(basis[h])
      /\ records[h] = basis[h]
  BY <1>1 DEF IInv, TypeOK, AccountsInv, WriteInv
<1>3. basis[h].next \in IDs
  BY <1>1, <1>2, RecordsType, ConstantFacts
<1>4. new \in Records
  BY <1>2, <1>3, AccountAdded
<1>5. records'[h] = new /\ pc'[h] = "write" /\ basis'[h] = basis[h]
  BY <1>1 DEF IInv, TypeOK
<1>6. WriteInv(h)'
  BY <1>1, <1>2, <1>3, <1>5 DEF WriteInv
<1> HIDE DEF new
<1> QED BY <1>1, <1>4, <1>6, ToWriteKeeps DEF Goto

(* What a write makes of the head it was computed from.                    *)
Gained(new, old, id, host) ==
    /\ new.next = old.next
    /\ id \in LowestASID..(old.next - 1)
    /\ host \in Hosts \ old.record[id]
    /\ Cardinality(old.record[id]) < MaxASClientViewHosts
    /\ \A i \in LowestASID..(old.next - 1) :
          new.record[i] = IF i = id THEN old.record[id] \cup {host} ELSE old.record[i]

Extended(new, old) ==
    /\ new.next = old.next + 1
    /\ new.record[old.next] = {}
    /\ \A i \in LowestASID..(old.next - 1) : new.record[i] = old.record[i]

LEMMA WritingFacts ==
    ASSUME IInv, NEW h \in Handlers, pc[h] = "write", NEW old \in Records, Whole(old),
           basis[h] = Overlay(old)
    PROVE  /\ records[h] \in Records /\ Whole(records[h])
           /\ records[h] # old /\ Follows(records[h], old)
           /\ h \in Pulls => Gained(records[h], old, task[h].id, task[h].host)
           /\ h \in Signups => Extended(records[h], old)
<1>1. WriteInv(h)
  BY DEF IInv, AccountsInv
<1>2. CASE h \in Pulls
  <2> DEFINE account == task[h].id
             added   == task[h].host
  <2>1. /\ IsASID(account) /\ account \in DOMAIN Overlay(old).record
        /\ added \in Hosts \ Overlay(old).record[account]
        /\ Cardinality(Overlay(old).record[account]) < MaxASClientViewHosts
        /\ records[h] = AddHost(Overlay(old), account, added)
    BY <1>1, <1>2 DEF WriteInv
  <2>2. h \notin Signups
    BY <1>2, ActorFacts
  <2> HIDE DEF account, added
  <2>3. Overlay(old).record[account] = old.record[account]
    BY <2>1, OverlayFacts
  <2> DEFINE written == AddHost(Overlay(old), account, added)
  <2>4. /\ written \in Records /\ Whole(written) /\ written.next = old.next
        /\ account \in LowestASID..(old.next - 1)
        /\ written # old /\ Follows(written, old)
        /\ \A i \in LowestASID..(old.next - 1) :
              written.record[i] = IF i = account THEN old.record[account] \cup {added}
                                                 ELSE old.record[i]
    <3>1. old \in Records /\ Whole(old)
      OBVIOUS
    <3>2. written = AddHost(Overlay(old), account, added)
      OBVIOUS
    <3> HIDE DEF written
    <3> QED BY ONLY <2>1, <3>1, <3>2, AddHostFacts
  <2> HIDE DEF written
  <2>5. Gained(written, old, account, added)
    BY <2>1, <2>3, <2>4 DEF Gained
  <2> QED BY <2>1, <2>2, <2>4, <2>5 DEF written, account, added
<1>3. CASE h \in Signups
  <2>1. records[h] = AddAccount(Overlay(old)) /\ h \notin Pulls /\ old.next \in IDs
    BY <1>1, <1>3, OverlayFacts, ActorFacts DEF WriteInv
  <2> DEFINE new == records[h]
  <2> HIDE DEF new
  <2>2. /\ new \in Records /\ Whole(new) /\ new # old /\ Follows(new, old)
        /\ new.next = old.next + 1 /\ new.record[old.next] = {}
        /\ \A i \in LowestASID..(old.next - 1) : new.record[i] = old.record[i]
    <3>1. new = AddAccount(Overlay(old))
      BY <2>1 DEF new
    <3> QED BY <2>1, <3>1, AddAccountFacts
  <2>3. Extended(new, old)
    BY <2>2 DEF Extended
  <2> QED BY <2>1, <2>2, <2>3 DEF new
<1> QED BY <1>2, <1>3 DEF Handlers

(* A write that loses nothing keeps what is said of the head.              *)
LEMMA HeadReplaced ==
    ASSUME IInv, KeptInv, NEW h \in Handlers, pc[h] = "write", Elsewhere(h), pc'[h] = "assign",
           root \in Records, basis[h] = Overlay(root), root' = records[h],
           local'[DBOf(h)] = records[h], ds' = ds, head' = head,
           records' = records, basis' = basis, issued' = issued, allowed' = allowed,
           ~overwritten
    PROVE  KeptInv'
<1> DEFINE new == records[h]
<1>1. Saved = root /\ Saved' = new /\ Whole(root) /\ new \in Records /\ Whole(new) /\ Follows(new, root)
  <2>1. Saved = root /\ Whole(root)
    BY RecordsType DEF Saved, KeptInv
  <2>2. new \in Records /\ Whole(new) /\ Follows(new, root)
    BY <2>1, WritingFacts
  <2> QED BY <2>1, <2>2, RecordsType DEF Saved
<1>2. h \in Signups => new.next = root.next + 1 /\ basis[h].next = root.next
  BY <1>1, WritingFacts, OverlayFacts DEF Extended
<1>3. root.next \in Nat /\ new.next \in Nat /\ root.next <= new.next /\ LowestASID <= root.next
  BY <1>1, RecordsType DEF Follows, Whole
<1> HIDE DEF new
<1>4. Within(root, new) /\ Within(new, new) /\ \A rs : Within(rs, root) => Within(rs, new)
  <2>1. Within(root, new) /\ Within(new, new)
    BY <1>1, WithinFacts
  <2> QED BY <2>1 DEF Within
<1>5. WithinInv'
  <2>1. ASSUME NEW d \in DBs
        PROVE  /\ local'[d] # NoHead => Within(local'[d], new)
               /\ ds'[d] # NoHead => Within(ds'[d], new)
               /\ Within(head'[d], new)
    <3>1. /\ local[d] # NoHead => Within(local[d], root)
          /\ ds[d] # NoHead => Within(ds[d], root)
          /\ Within(head[d], root)
      BY <1>1 DEF KeptInv, WithinInv
    <3>2. CASE d = DBOf(h)
      BY <1>4, <3>1, <3>2 DEF new
    <3>3. CASE d # DBOf(h)
      BY <1>4, <3>1, <3>3 DEF Elsewhere
    <3> QED BY <3>2, <3>3
  <2>2. ASSUME NEW g \in Handlers, pc'[g] \in {"initNext", "initRecord", "decide", "assign"}
        PROVE  Within(records'[g], new)
    <3>1. CASE g = h
      BY <1>4, <3>1 DEF new
    <3>2. CASE g # h
      BY <1>1, <1>4, <2>2, <3>2, ActorFacts DEF KeptInv, WithinInv, Elsewhere
    <3> QED BY <3>1, <3>2
  <2> QED BY <1>1, <2>1, <2>2 DEF WithinInv
<1>6. IssuedInv'
  <2>1. \A i : i \in LowestASID..(root.next - 1) => i \in LowestASID..(new.next - 1) /\ i # root.next
    BY <1>3, ConstantFacts
  <2>2. \A i \in IDs : issued[i] > 0 => issued[i] = 1 /\ i \in LowestASID..(root.next - 1)
    BY <1>1 DEF KeptInv, IssuedInv
  <2>3. ASSUME NEW g \in Signups, pc'[g] = "assign"
        PROVE  /\ basis[g].next \in LowestASID..(new.next - 1)
               /\ issued[basis[g].next] = 0
               /\ g # h => pc[g] = "assign" /\ basis[g].next \in LowestASID..(root.next - 1)
    <3>1. g # h => pc[g] = "assign"
      BY <2>3, ActorFacts DEF Elsewhere, Handlers
    <3>2. CASE g = h
      <4>1. root.next \in IDs
        BY <1>2, <3>2 DEF IInv, AccountsInv, WriteInv
      <4>2. issued[root.next] = 0
        BY <2>1, <2>2, <4>1 DEF IInv, TypeOK
      <4>3. root.next \in LowestASID..(new.next - 1)
        BY <1>2, <1>3, <3>2, ConstantFacts
      <4> QED BY <1>2, <3>2, <4>2, <4>3
    <3>3. CASE g # h
      BY <1>1, <2>1, <3>1, <3>3 DEF KeptInv, IssuedInv
    <3> QED BY <3>2, <3>3, <3>1
  <2>4. ASSUME NEW g \in Signups, pc'[g] = "assign", NEW f \in Signups, pc'[f] = "assign",
               basis[f].next = basis[g].next
        PROVE  f = g
    <3>1. \A u \in {f, g} : u # h => pc[u] = "assign" /\ basis[u].next \in LowestASID..(root.next - 1)
      BY <2>3, <2>4
    <3>2. CASE f # h /\ g # h
      BY <2>4, <3>1, <3>2 DEF KeptInv, IssuedInv
    <3>3. CASE f # h /\ g = h
      BY <1>2, <2>1, <2>4, <3>1, <3>3
    <3>4. CASE f = h /\ g # h
      BY <1>2, <2>1, <2>4, <3>1, <3>4
    <3> QED BY <3>2, <3>3, <3>4
  <2> QED BY <1>1, <2>1, <2>2, <2>3, <2>4 DEF IssuedInv
<1>7. AuthorizedIsSaved'
  <2> SUFFICES ASSUME ~overwritten', NEW p \in allowed
               PROVE  p.id \in DOMAIN new.record /\ p.host \in new.record[p.id]
    BY <1>1 DEF AuthorizedIsSaved
  <2>1. ~overwritten => p.id \in DOMAIN root.record /\ p.host \in root.record[p.id]
    BY <1>1 DEF KeptInv, AuthorizedIsSaved
  <2>2. IsASID(p.id)
    BY DEF IInv, AccountsInv
  <2> QED BY <1>4, <2>1, <2>2 DEF Within
<1> QED BY <1>1, <1>5, <1>6, <1>7 DEF KeptInv

LEMMA WriteKeeps ==
    ASSUME IInv, NEW h \in Handlers, Write(h)
    PROVE  IInv'
<1> DEFINE d == DBOf(h)
           new == records[h]
<1>1. h \in Actors /\ d \in DBs /\ pc[h] = "write" /\ Runs(h)
  BY ActorFacts DEF Write, Runs
<1>2. /\ local[d] \in Records /\ IsSettled(local[d]) /\ ds[d] \in Records /\ IsSettled(ds[d])
      /\ head[d] \in Records /\ root \in Records /\ Saved = root /\ IsSettled(root)
      /\ local[d] # NoHead /\ ds[d] # NoHead /\ root # NoHead /\ new # NoHead
      /\ new \in Records /\ basis[h] \in Records
  BY <1>1, StoreFacts, RecordsType DEF IInv, TypeOK
<1>3. /\ pc' = [pc EXCEPT ![h] = "assign"] /\ ds' = ds /\ head' = head /\ task' = task
      /\ records' = records /\ basis' = basis /\ overlapped' = overlapped
      /\ issued' = issued /\ allowed' = allowed
      /\ overwritten' = (overwritten \/ (root' # root /\ Overlay(Saved) # basis[h]))
  BY DEF Write, Goto, dbs, held
<1>4. \/ root' = root /\ local' = local /\ new = ds[d]
      \/ root' = new /\ local' = [local EXCEPT ![d] = new] /\ local[d] = root /\ new # ds[d]
  BY DEF Write, IsHead, MaySetHead
<1>5. /\ local' \in [DBs -> Records \cup {NoHead}]
      /\ \A e \in DBs \ {d} : local'[e] = local[e]
      /\ local'[d] = local[d] \/ local'[d] = new
      /\ root' = new => local'[d] = new \/ root = new
      /\ root' \in {root, new} /\ (root' # root => local[d] = root /\ new # ds[d] /\ local'[d] = new)
  BY <1>1, <1>2, <1>4 DEF IInv, TypeOK
<1>6. Elsewhere(h) /\ pc'[h] = "assign"
  <2> HIDE DEF d, new
  <2> QED BY <1>3, <1>5, ElsewhereOf, ZenonT(60) DEF d
<1>7. TypeOK'
  <2>1. \A g \in Pulls : pc'[g] \in {"decide", "write", "assign"} => task'[g] \in Tasks
    <3>1. \A g \in Pulls \ {h} : pc'[g] = pc[g]
      BY <1>3 DEF IInv, TypeOK, Actors, Handlers
    <3> QED BY <1>1, <1>3, <3>1 DEF IInv, TypeOK
  <2>2. overwritten' \in BOOLEAN
    BY <1>3 DEF IInv, TypeOK
  <2> QED BY <1>2, <1>3, <1>5, <2>1, <2>2 DEF IInv, TypeOK
<1>8. IsSettled(new)
  <2>1. WriteInv(h)
    BY DEF IInv, AccountsInv
  <2>2. CASE h \in Pulls
    <3>1. /\ basis[h].next >= LowestASID /\ IsOverlaid(basis[h])
          /\ IsASID(task[h].id) /\ task[h].id \in DOMAIN basis[h].record
          /\ task[h].host \in Hosts
          /\ new = AddHost(basis[h], task[h].id, task[h].host)
      BY <1>1, <2>1, <2>2 DEF WriteInv
    <3> HIDE DEF new
    <3> QED BY <1>2, <3>1, HostAdded
  <2>3. CASE h \in Signups
    BY <1>1, <1>2, <2>1, <2>3, AccountAdded DEF WriteInv
  <2> QED BY <2>2, <2>3 DEF Handlers
<1> HIDE DEF new
<1>9. RootStep
  BY <1>2, <1>5, <1>8 DEF RootStep
<1>10. AloneInv(h)' /\ WriteInv(h)' /\ Runs(h)'
  <2>1. WriteInv(h)
    BY DEF IInv, AccountsInv
  <2> QED BY <1>1, <1>3, <1>6, <2>1 DEF AloneInv, WriteInv, Runs
<1>11. ASSUME ~overwritten' PROVE KeptInv'
  <2>1. ~overwritten /\ KeptInv /\ (root' = root \/ Overlay(root) = basis[h])
    BY <1>2, <1>3, <1>11 DEF IInv, AccountsInv
  <2>2. CASE root' = root
    <3>1. h \notin Signups
      <4> SUFFICES ASSUME h \in Signups PROVE FALSE
        OBVIOUS
      <4>1. h \notin overlapped
        BY ActorFacts DEF IInv, TypeOK
      <4>2. ds[d] = local[d] /\ basis[h] = Overlay(local[d])
        BY <1>1, <4>1 DEF IInv, AccountsInv, AloneInv
      <4>3. new = AddAccount(basis[h]) /\ basis[h].next \in IDs
        BY <1>1 DEF IInv, AccountsInv, WriteInv, new
      <4>4. new.next = basis[h].next + 1
        BY <4>3 DEF AddAccount
      <4>5. basis[h].next = local[d].next /\ local[d].next \in Nat
        BY <1>2, <4>2, OverlayFacts, RecordsType
      <4>6. new # local[d]
        BY <4>4, <4>5
      <4> QED BY <1>4, <2>2, <4>2, <4>6
    <3>2. Within(new, Saved)
      <4>1. Within(ds[d], Saved)
        BY <1>1, <1>2, <2>1 DEF KeptInv, WithinInv
      <4>2. Within(root, Saved)
        BY <1>2, WithinFacts
      <4> QED BY <1>4, <2>2, <4>1, <4>2
    <3>3. Within(local'[d], Saved) /\ Within(ds[d], Saved) /\ Within(head[d], Saved)
      BY <1>1, <1>2, <1>5, <2>1, <3>2 DEF KeptInv, WithinInv
    <3>4. overwritten' = overwritten
      BY <1>7, <1>11, <2>1 DEF IInv, TypeOK
    <3> HIDE DEF d
    <3>5. \A p \in allowed' \ allowed : FALSE
      BY <1>3
    <3> QED BY <1>3, <1>6, <1>11, <2>2, <3>1, <3>2, <3>3, <3>4, <3>5, KeptQuiet DEF d, new
  <2>3. CASE root' # root
    <3>1. root' = new /\ local'[d] = new /\ basis[h] = Overlay(root)
      BY <1>5, <2>1, <2>3
    <3> HIDE DEF d
    <3> QED BY <1>1, <1>2, <1>3, <1>6, <2>1, <3>1, HeadReplaced DEF d, new
  <2> QED BY <2>2, <2>3
<1>12. local'[d] # NoHead /\ IsSettled(local'[d])
  BY <1>2, <1>5, <1>8
<1>13. head[d].next >= LowestASID
  BY <1>1 DEF IInv, AccountsInv, StoreInv
<1> HIDE DEF d
<1> QED BY <1>1, <1>2, <1>3, <1>6, <1>7, <1>9, <1>10, <1>11, <1>12, <1>13, HandlerKeeps, SMTT(30) DEF d

-------------------------------------------------------------------------------
(* Requests that arrive, databases that open, processes that die.          *)

LEMMA StartPullKeeps ==
    ASSUME IInv, NEW h \in Pulls, StartPull(h)
    PROVE  IInv'
<1> DEFINE others == {g \in Pulls \ {h} : ProcessOf[g] = ProcessOf[h] /\ pc[g] # "idle"}
<1>1. h \in Handlers /\ h \in Actors /\ h \notin DBs /\ pc[h] = "idle" /\ pc[ProcessOf[h]] = "up"
  BY ActorsAssumption DEF StartPull, Handlers, Actors, DBs
<1>2. /\ root' = root /\ local' = local /\ ds' = ds /\ head' = head
      /\ task' = task /\ records' = records /\ basis' = basis
      /\ issued' = issued /\ allowed' = allowed /\ overwritten' = overwritten
      /\ pc' = [pc EXCEPT ![h] = "reload"]
      /\ overlapped' = IF others = {} THEN overlapped ELSE overlapped \cup others \cup {h}
  BY DEF StartPull, Goto, noms, dbs, history
<1>3. pc'[h] = "reload" /\ \A a \in Actors \ {h} : pc'[a] = pc[a]
  BY <1>1, <1>2 DEF IInv, TypeOK
<1>4. overlapped \subseteq overlapped' /\ overlapped' \subseteq Pulls
  BY <1>2 DEF IInv, TypeOK
<1>5. TypeOK'
  <2>1. \A g \in Pulls : pc'[g] \in {"decide", "write", "assign"} => task'[g] \in Tasks
    <3>1. \A g \in Pulls \ {h} : pc'[g] = pc[g]
      BY <1>3 DEF Actors, Handlers
    <3> QED BY <1>2, <1>3, <3>1 DEF IInv, TypeOK
  <2> QED BY <1>2, <1>4, <2>1 DEF IInv, TypeOK, Reading
<1>6. StoreInv'
  <2>1. \A d \in DBs : d \in Actors /\ d # h /\ pc'[d] = pc[d]
    BY <1>1, <1>3 DEF DBs, Actors, Handlers
  <2>2. \A g \in Pulls : ProcessOf[g] \in DBs /\ (g # h => pc'[g] = pc[g])
    BY <1>3, ProcessAssumption DEF DBs, Actors, Handlers
  <2>3. StoreInv
    BY DEF IInv, AccountsInv
  <2>4. \A g \in Pulls : pc'[g] # "idle" => pc'[ProcessOf[g]] = "up"
    BY <1>1, <2>1, <2>2, <2>3 DEF StoreInv
  <2> QED BY <1>2, <2>1, <2>3, <2>4 DEF StoreInv
<1>7. OverlapInv'
  <2> SUFFICES ASSUME NEW f \in Pulls, NEW g \in Pulls, f # g, ProcessOf[f] = ProcessOf[g],
                      pc'[f] # "idle", pc'[g] # "idle"
               PROVE  {f, g} \subseteq overlapped'
    BY DEF OverlapInv
  <2>1. \A a \in {f, g} : a # h => pc[a] # "idle"
    BY <1>3 DEF Actors, Handlers
  <2>2. CASE f # h /\ g # h
    BY <1>4, <2>1, <2>2 DEF IInv, AccountsInv, OverlapInv
  <2>3. CASE f = h
    <3>1. g \in others
      BY <2>1, <2>3
    <3> QED BY <1>2, <2>3, <3>1
  <2>4. CASE g = h
    <3>1. f \in others
      BY <2>1, <2>4
    <3> QED BY <1>2, <2>4, <3>1
  <2> QED BY <2>2, <2>3, <2>4
<1>8. ASSUME NEW g \in Handlers PROVE (g \notin overlapped' => AloneInv(g)') /\ WriteInv(g)'
  <2>1. CASE g = h
    BY <1>3, <2>1 DEF AloneInv, WriteInv
  <2>2. CASE g # h
    <3>1. pc'[g] = pc[g]
      BY <1>3, <2>2 DEF Actors
    <3> QED BY <1>2, <1>4, <3>1, AloneKept, WriteKept
  <2> QED BY <2>1, <2>2
<1>9. (\A p \in allowed' : IsASID(p.id)) /\ (~overwritten' => KeptInv')
  <2>1. Saved' = Saved
    BY <1>2 DEF Saved
  <2>2. \A g \in Handlers : pc'[g] \in {"initNext", "initRecord", "decide", "assign"} => pc'[g] = pc[g]
    BY <1>3 DEF Actors
  <2>3. KeptInv => WithinInv'
    BY <1>2, <2>1, <2>2 DEF KeptInv, WithinInv
  <2>4. KeptInv => IssuedInv'
    BY <1>2, <2>1, <2>2 DEF KeptInv, IssuedInv, Handlers
  <2> QED BY <1>2, <2>1, <2>3, <2>4 DEF IInv, AccountsInv, KeptInv, AuthorizedIsSaved
<1> QED BY <1>5, <1>6, <1>7, <1>8, <1>9 DEF IInv, AccountsInv

(* A database that nobody runs over after the step.                        *)
LEMMA DatabaseKeeps ==
    ASSUME IInv, TypeOK', NEW d \in DBs,
           \A g \in Handlers \ {d} :
              \/ pc'[g] = "idle"
              \/ /\ pc'[g] = pc[g] /\ records'[g] = records[g] /\ basis'[g] = basis[g]
                 /\ g \in Pulls => task'[g] = task[g]
                 /\ g \in overlapped => g \in overlapped',
           \A g \in Pulls : ProcessOf[g] = d => pc'[g] = "idle",
           \A e \in DBs \ {d} : /\ pc'[e] = pc[e] /\ local'[e] = local[e]
                                /\ ds'[e] = ds[e] /\ head'[e] = head[e],
           root' = root \/ (root = NoHead /\ root' = NoAccounts),
           local'[d] # NoHead => root' # NoHead /\ IsSettled(local'[d]),
           ds'[d] # NoHead => IsSettled(ds'[d]),
           head'[d].next >= LowestASID,
           pc'[d] \in {"idle", "create", "up", "reload"} \/ (d \in Processes /\ pc'[d] = "down"),
           pc'[d] = "create" => ds'[d] = local'[d],
           pc'[d] \in {"up", "reload"} => local'[d] # NoHead /\ ds'[d] # NoHead,
           KeptInv => /\ local'[d] # NoHead => Within(local'[d], Saved)
                      /\ ds'[d] # NoHead => Within(ds'[d], Saved)
                      /\ Within(head'[d], Saved),
           UNCHANGED history
    PROVE  IInv'
<1>1. /\ issued' = issued /\ allowed' = allowed /\ overwritten' = overwritten
      /\ Saved' = Saved
      /\ root # NoHead => root' # NoHead
      /\ root' # NoHead => IsSettled(root')
  <2>1. NoAccounts # NoHead /\ IsSettled(NoAccounts)
    BY NoAccountsFacts, RecordsType DEF IsSettled, Whole
  <2> QED BY <2>1 DEF history, Saved, IInv, AccountsInv, StoreInv
<1>2. StoreInv'
  <2>1. ASSUME NEW e \in DBs
        PROVE  /\ local'[e] # NoHead => root' # NoHead /\ IsSettled(local'[e])
               /\ ds'[e] # NoHead => IsSettled(ds'[e])
               /\ head'[e].next >= LowestASID
               /\ pc'[e] = "create" => ds'[e] = local'[e]
               /\ pc'[e] = "up" \/ (e \in Signups /\ pc'[e] \notin {"idle", "create"})
                     => local'[e] # NoHead /\ ds'[e] # NoHead
    <3>1. CASE e = d
      <4>1. d \in Signups => pc'[d] # "down"
        BY ActorsAssumption
      <4> QED BY <3>1, <4>1
    <3>2. CASE e # d
      BY <1>1, <3>2 DEF IInv, AccountsInv, StoreInv
    <3> QED BY <3>1, <3>2
  <2>2. ASSUME NEW g \in Pulls, pc'[g] # "idle" PROVE pc'[ProcessOf[g]] = "up"
    <3>1. g # d /\ g \in Handlers /\ ProcessOf[g] \in DBs \ {d}
      BY <2>2, ActorFacts, ActorsAssumption DEF Handlers, DBs
    <3>2. pc[g] # "idle"
      BY <2>2, <3>1
    <3> QED BY <3>1, <3>2 DEF IInv, AccountsInv, StoreInv
  <2> QED BY <1>1, <2>1, <2>2 DEF StoreInv
<1>3. ASSUME NEW g \in Handlers, pc'[g] # "idle", g # d
      PROVE  /\ pc'[g] = pc[g] /\ records'[g] = records[g] /\ basis'[g] = basis[g]
             /\ g \in Pulls => task'[g] = task[g]
             /\ g \in overlapped => g \in overlapped'
             /\ DBOf(g) \in DBs \ {d}
  <2>1. DBOf(g) # d
    BY <1>3, ActorFacts DEF Handlers
  <2> QED BY <1>3, <2>1, ActorFacts
<1>4. OverlapInv'
  <2> SUFFICES ASSUME NEW f \in Pulls, NEW g \in Pulls, f # g, ProcessOf[f] = ProcessOf[g],
                      pc'[f] # "idle", pc'[g] # "idle"
               PROVE  {f, g} \subseteq overlapped'
    BY DEF OverlapInv
  <2>1. \A a \in {f, g} : a \in Handlers /\ a # d
    BY ActorsAssumption DEF Handlers, DBs
  <2>2. pc[f] # "idle" /\ pc[g] # "idle" /\ (f \in overlapped => f \in overlapped')
        /\ (g \in overlapped => g \in overlapped')
    BY <1>3, <2>1
  <2> QED BY <2>2 DEF IInv, AccountsInv, OverlapInv
<1>5. ASSUME NEW g \in Handlers PROVE (g \notin overlapped' => AloneInv(g)') /\ WriteInv(g)'
  <2>1. CASE pc'[g] = "idle" \/ g = d
    <3>1. pc'[g] \in {"idle", "create", "up", "reload", "down"}
      BY <2>1
    <3> QED BY <3>1 DEF AloneInv, WriteInv
  <2>2. CASE pc'[g] # "idle" /\ g # d
    <3>1. /\ local'[DBOf(g)] = local[DBOf(g)] /\ ds'[DBOf(g)] = ds[DBOf(g)]
          /\ head'[DBOf(g)] = head[DBOf(g)]
      BY <1>3, <2>2
    <3> QED BY <1>3, <2>2, <3>1, AloneKept, WriteKept
  <2> QED BY <2>1, <2>2
<1>6. ASSUME ~overwritten' PROVE KeptInv'
  <2>1. KeptInv
    BY <1>1, <1>6 DEF IInv, AccountsInv
  <2>2. \A g \in Handlers :
           pc'[g] \in {"initNext", "initRecord", "decide", "assign"} =>
              pc'[g] = pc[g] /\ records'[g] = records[g] /\ basis'[g] = basis[g]
    BY <1>3
  <2>3. WithinInv'
    <3>1. ASSUME NEW e \in DBs
          PROVE  /\ local'[e] # NoHead => Within(local'[e], Saved)
                 /\ ds'[e] # NoHead => Within(ds'[e], Saved)
                 /\ Within(head'[e], Saved)
      <4>1. CASE e = d
        BY <2>1, <4>1
      <4>2. CASE e # d
        BY <2>1, <4>2 DEF KeptInv, WithinInv
      <4> QED BY <4>1, <4>2
    <3>2. \A g \in Handlers : pc'[g] \in {"initNext", "initRecord", "decide", "assign"} =>
             Within(records'[g], Saved)
      BY <2>1, <2>2 DEF KeptInv, WithinInv
    <3> QED BY <1>1, <3>1, <3>2 DEF WithinInv
  <2>4. IssuedInv'
    BY <1>1, <2>1, <2>2 DEF KeptInv, IssuedInv, Handlers
  <2> QED BY <1>1, <2>1, <2>3, <2>4 DEF KeptInv, AuthorizedIsSaved
<1> QED BY <1>1, <1>2, <1>4, <1>5, <1>6 DEF IInv, AccountsInv

(* One that opens has nobody over it, before or after.                     *)
LEMMA OpenerFacts ==
    ASSUME IInv, NEW d \in DBs,
           pc[d] \in {"idle", "create"} \/ (d \in Processes /\ pc[d] = "down"),
           NEW label, label \in {"idle", "create", "up", "reload"} \/ (d \in Processes /\ label = "down"),
           label = "reload" => d \in Signups,
           pc' = [pc EXCEPT ![d] = label]
    PROVE  /\ d \in Actors /\ pc'[d] = label
           /\ \A a \in Actors \ {d} : pc'[a] = pc[a]
           /\ \A g \in Pulls : ProcessOf[g] = d => pc'[g] = "idle"
           /\ pc' \in [Actors -> {"down", "create", "up", "idle", "decide", "write", "assign"}
                                 \cup Reading]
           /\ \A g \in Pulls : g \in Actors \ {d} /\ pc'[g] = pc[g]
<1>1. d \in Actors
  BY DEF DBs, Actors, Handlers
<1>2. pc'[d] = label /\ \A a \in Actors \ {d} : pc'[a] = pc[a]
  BY <1>1 DEF IInv, TypeOK
<1>3. \A g \in Pulls : g \in Actors \ {d}
  BY ActorsAssumption DEF DBs, Actors, Handlers
<1>4. \A g \in Pulls : ProcessOf[g] = d => pc[g] = "idle"
  BY DEF IInv, AccountsInv, StoreInv
<1>5. pc' \in [Actors -> {"down", "create", "up", "idle", "decide", "write", "assign"} \cup Reading]
  BY <1>1 DEF IInv, TypeOK, Reading
<1> QED BY <1>1, <1>2, <1>3, <1>4, <1>5

LEMMA OpenKeeps ==
    ASSUME IInv, NEW d \in DBs, Open(d)
    PROVE  IInv'
<1>1. /\ pc[d] = "idle" \/ (d \in Processes /\ pc[d] = "down")
      /\ pc' = [pc EXCEPT ![d] = "create"]
      /\ local' = [local EXCEPT ![d] = root] /\ ds' = [ds EXCEPT ![d] = root]
      /\ root' = root /\ head' = head /\ task' = task /\ records' = records /\ basis' = basis
      /\ overlapped' = overlapped /\ UNCHANGED history
  BY DEF Open, Goto, held
<1>2. /\ pc'[d] = "create" /\ d \in Actors
      /\ \A a \in Actors \ {d} : pc'[a] = pc[a]
      /\ \A g \in Pulls : ProcessOf[g] = d => pc'[g] = "idle"
      /\ pc' \in [Actors -> {"down", "create", "up", "idle", "decide", "write", "assign"} \cup Reading]
      /\ \A g \in Pulls : pc'[g] = pc[g]
  BY <1>1, OpenerFacts
<1>3. /\ local'[d] = root /\ ds'[d] = root
      /\ \A e \in DBs \ {d} : local'[e] = local[e] /\ ds'[e] = ds[e] /\ e \in Actors
      /\ \A g \in Handlers : g \in Actors
  BY <1>1 DEF IInv, TypeOK, DBs, Actors, Handlers
<1>4. TypeOK'
  BY <1>1, <1>2 DEF IInv, TypeOK, history
<1>5. root # NoHead => IsSettled(root) /\ Within(root, Saved)
  BY WithinFacts DEF IInv, TypeOK, AccountsInv, StoreInv, Saved
<1>6. head'[d].next >= LowestASID /\ (KeptInv => Within(head'[d], Saved))
  BY <1>1 DEF IInv, AccountsInv, StoreInv, KeptInv, WithinInv
<1> QED BY <1>1, <1>2, <1>3, <1>4, <1>5, <1>6, DatabaseKeeps, SMTT(30)

LEMMA AdoptKeeps ==
    ASSUME IInv, NEW d \in DBs, Adopt(d)
    PROVE  IInv'
<1>1. PICK label \in {"up", "reload"} :
         pc' = [pc EXCEPT ![d] = label] /\ (label = "reload" => d \in Signups)
  BY DEF Adopt, Opened, Goto, DBs
<1>2. /\ pc[d] = "create" /\ ds[d] # NoHead
      /\ head' = [head EXCEPT ![d] = ds[d]] /\ root' = root /\ local' = local /\ ds' = ds
      /\ task' = task /\ records' = records /\ basis' = basis
      /\ overlapped' = overlapped /\ UNCHANGED history
  BY DEF Adopt, noms, held
<1>3. /\ pc'[d] = label /\ d \in Actors
      /\ \A a \in Actors \ {d} : pc'[a] = pc[a]
      /\ \A g \in Pulls : ProcessOf[g] = d => pc'[g] = "idle"
      /\ pc' \in [Actors -> {"down", "create", "up", "idle", "decide", "write", "assign"} \cup Reading]
      /\ \A g \in Pulls : pc'[g] = pc[g]
  BY <1>1, <1>2, OpenerFacts
<1>4. ds[d] \in Records /\ local[d] = ds[d] /\ IsSettled(ds[d]) /\ root # NoHead
  BY <1>2 DEF IInv, TypeOK, AccountsInv, StoreInv
<1>5. /\ head'[d] = ds[d]
      /\ \A e \in DBs \ {d} : head'[e] = head[e] /\ e \in Actors
      /\ \A g \in Handlers : g \in Actors
  BY <1>2 DEF IInv, TypeOK, DBs, Actors, Handlers
<1>6. TypeOK'
  BY <1>2, <1>3, <1>4 DEF IInv, TypeOK, history
<1>7. ds[d].next >= LowestASID
  BY <1>4 DEF IsSettled
<1>8. KeptInv => Within(ds[d], Saved)
  BY <1>2 DEF KeptInv, WithinInv
<1> QED BY <1>1, <1>2, <1>3, <1>4, <1>5, <1>6, <1>7, <1>8, DatabaseKeeps, SMTT(30)

LEMMA CreateKeeps ==
    ASSUME IInv, NEW d \in DBs, Create(d)
    PROVE  IInv'
<1>1. PICK label \in {"up", "reload"} :
         pc' = [pc EXCEPT ![d] = label] /\ (label = "reload" => d \in Signups)
  BY DEF Create, Opened, Goto, DBs
<1>2. /\ pc[d] = "create" /\ ds[d] = NoHead /\ local[d] = root
      /\ root' = NoAccounts /\ local' = [local EXCEPT ![d] = NoAccounts]
      /\ ds' = [ds EXCEPT ![d] = NoAccounts] /\ head' = [head EXCEPT ![d] = NoAccounts]
      /\ task' = task /\ records' = records /\ basis' = basis
      /\ overlapped' = overlapped /\ UNCHANGED history
  BY DEF Create, MaySetHead, held
<1>3. /\ pc'[d] = label /\ d \in Actors
      /\ \A a \in Actors \ {d} : pc'[a] = pc[a]
      /\ \A g \in Pulls : ProcessOf[g] = d => pc'[g] = "idle"
      /\ pc' \in [Actors -> {"down", "create", "up", "idle", "decide", "write", "assign"} \cup Reading]
      /\ \A g \in Pulls : pc'[g] = pc[g]
  BY <1>1, <1>2, OpenerFacts
<1>4. root = NoHead
  BY <1>2 DEF IInv, AccountsInv, StoreInv
<1>5. /\ NoAccounts \in Records /\ NoAccounts # NoHead /\ IsSettled(NoAccounts)
      /\ NoAccounts.next >= LowestASID /\ Within(NoAccounts, Saved)
  BY NoAccountsFacts, RecordsType DEF IsSettled, Whole, Within, NoAccounts
<1>6. /\ local'[d] = NoAccounts /\ ds'[d] = NoAccounts /\ head'[d] = NoAccounts
      /\ \A e \in DBs \ {d} : /\ local'[e] = local[e] /\ ds'[e] = ds[e] /\ head'[e] = head[e]
                              /\ e \in Actors
      /\ \A g \in Handlers : g \in Actors
  BY <1>2 DEF IInv, TypeOK, DBs, Actors, Handlers
<1>7. TypeOK'
  BY <1>2, <1>3, <1>5 DEF IInv, TypeOK, history
<1> QED BY <1>1, <1>2, <1>3, <1>4, <1>5, <1>6, <1>7, DatabaseKeeps, SMTT(30)

LEMMA CreateConflictKeeps ==
    ASSUME IInv, NEW d \in DBs, CreateConflict(d)
    PROVE  IInv'
<1>1. PICK label \in {"down", "idle"} :
         pc' = [pc EXCEPT ![d] = label] /\ (label = "down" => d \in Processes)
  BY DEF CreateConflict, Goto, DBs
<1>2. /\ pc[d] = "create" /\ Close({d}) /\ root' = root
      /\ task' = task /\ records' = records /\ basis' = basis
      /\ overlapped' = overlapped /\ UNCHANGED history
  BY DEF CreateConflict, held
<1>3. /\ pc'[d] = label /\ d \in Actors
      /\ \A a \in Actors \ {d} : pc'[a] = pc[a]
      /\ \A g \in Pulls : ProcessOf[g] = d => pc'[g] = "idle"
      /\ pc' \in [Actors -> {"down", "create", "up", "idle", "decide", "write", "assign"} \cup Reading]
      /\ \A g \in Pulls : pc'[g] = pc[g]
  BY <1>1, <1>2, OpenerFacts
<1>4. /\ local' \in [DBs -> Records \cup {NoHead}] /\ ds' \in [DBs -> Records \cup {NoHead}]
      /\ head' \in [DBs -> Records]
      /\ \A e \in DBs \ {d} : /\ local'[e] = local[e] /\ ds'[e] = ds[e] /\ head'[e] = head[e]
                              /\ e \in Actors
      /\ local'[d] = NoHead /\ ds'[d] = NoHead /\ head'[d] = NoAccounts
      /\ head'[d].next >= LowestASID
      /\ \A g \in Handlers : g \in Actors
  BY <1>2, CloseFacts DEF DBs, Actors, Handlers
<1>5. Within(NoAccounts, Saved)
  BY DEF Within, NoAccounts
<1>6. TypeOK'
  BY <1>2, <1>3, <1>4 DEF IInv, TypeOK, history
<1> QED BY <1>1, <1>2, <1>3, <1>4, <1>5, <1>6, DatabaseKeeps, SMTT(30)

LEMMA AbandonKeeps ==
    ASSUME IInv, NEW h \in Signups, Abandon(h)
    PROVE  IInv'
<1>1. /\ h \in Handlers /\ h \in DBs /\ h \in Actors /\ h \notin Pulls /\ h \notin Processes
      /\ pc[h] # "idle" /\ Finish(h) /\ Close({h}) /\ root' = root /\ UNCHANGED history
  BY ActorFacts DEF Abandon, Handlers
<1>2. CASE Runs(h)
  BY <1>1, <1>2, CloseKeeps
<1>3. CASE ~Runs(h)
  <2>1. \A g \in Pulls : ProcessOf[g] = h => pc[g] = "idle"
    BY <1>1, ProcessAssumption
  <2>2. /\ pc' = [pc EXCEPT ![h] = "idle"] /\ pc'[h] = "idle"
        /\ \A a \in Actors \ {h} : pc'[a] = pc[a]
        /\ records' \in [Handlers -> Records] /\ basis' \in [Handlers -> Records]
        /\ task' \in [Pulls -> Tasks \cup {NoTask}]
        /\ \A g \in Handlers \ {h} : /\ records'[g] = records[g] /\ basis'[g] = basis[g]
                                     /\ g \in Pulls => task'[g] = task[g]
        /\ overlapped' = overlapped \ {h}
    BY <1>1, FinishFacts
  <2>3. /\ local' \in [DBs -> Records \cup {NoHead}] /\ ds' \in [DBs -> Records \cup {NoHead}]
        /\ head' \in [DBs -> Records]
        /\ \A e \in DBs \ {h} : /\ local'[e] = local[e] /\ ds'[e] = ds[e] /\ head'[e] = head[e]
                                /\ e \in Actors
        /\ local'[h] = NoHead /\ ds'[h] = NoHead /\ head'[h] = NoAccounts
        /\ head'[h].next >= LowestASID
        /\ \A g \in Handlers : g \in Actors
    BY <1>1, CloseFacts DEF DBs, Actors, Handlers
  <2>4. TypeOK'
    <3>1. \A g \in Pulls : pc'[g] = pc[g] /\ task'[g] = task[g]
      BY <1>1, <2>2 DEF Actors, Handlers
    <3>2. pc' \in [Actors -> {"down", "create", "up", "idle", "decide", "write", "assign"} \cup Reading]
      BY <2>2 DEF IInv, TypeOK
    <3>3. overlapped' \subseteq Pulls
      BY <2>2 DEF IInv, TypeOK
    <3> QED BY <1>1, <2>2, <2>3, <3>1, <3>2, <3>3 DEF IInv, TypeOK, history
  <2>5. Within(NoAccounts, Saved)
    BY DEF Within, NoAccounts
  <2>6. \A g \in Pulls : ProcessOf[g] = h => pc'[g] = "idle"
    BY <1>1, ProcessAssumption
  <2> QED BY <1>1, <2>2, <2>3, <2>4, <2>5, <2>6, DatabaseKeeps, SMTT(30)
<1> QED BY <1>2, <1>3

LEMMA CrashKeeps ==
    ASSUME IInv, NEW p \in Processes, Crash(p)
    PROVE  IInv'
<1> DEFINE dead == {h \in Pulls : ProcessOf[h] = p}
<1>1. p \in DBs /\ p \in Actors /\ p \notin Handlers
  BY ActorsAssumption DEF DBs, Actors, Handlers
<1>2. /\ pc' = [a \in Actors |-> IF a = p THEN "down" ELSE IF a \in dead THEN "idle" ELSE pc[a]]
      /\ task' = [h \in Pulls |-> IF h \in dead THEN NoTask ELSE task[h]]
      /\ records' = [h \in Handlers |-> IF h \in dead THEN NoAccounts ELSE records[h]]
      /\ basis' = [h \in Handlers |-> IF h \in dead THEN NoAccounts ELSE basis[h]]
      /\ overlapped' = overlapped \ dead
      /\ Close({p}) /\ root' = root /\ UNCHANGED history
  BY DEF Crash
<1>3. /\ pc'[p] = "down"
      /\ \A g \in dead : pc'[g] = "idle"
      /\ \A a \in Actors \ ({p} \cup dead) : pc'[a] = pc[a]
      /\ pc' \in [Actors -> {"down", "create", "up", "idle", "decide", "write", "assign"} \cup Reading]
  BY <1>1, <1>2 DEF IInv, TypeOK, Actors, Handlers
<1>4. /\ task' \in [Pulls -> Tasks \cup {NoTask}]
      /\ records' \in [Handlers -> Records] /\ basis' \in [Handlers -> Records]
      /\ overlapped' \subseteq Pulls
      /\ \A g \in Handlers \ dead : /\ records'[g] = records[g] /\ basis'[g] = basis[g]
                                    /\ g \in Pulls => task'[g] = task[g]
                                    /\ g \in overlapped => g \in overlapped'
  BY <1>2, NoAccountsFacts DEF IInv, TypeOK
<1>5. /\ local' \in [DBs -> Records \cup {NoHead}] /\ ds' \in [DBs -> Records \cup {NoHead}]
      /\ head' \in [DBs -> Records]
      /\ \A e \in DBs \ {p} : local'[e] = local[e] /\ ds'[e] = ds[e] /\ head'[e] = head[e]
      /\ local'[p] = NoHead /\ ds'[p] = NoHead /\ head'[p] = NoAccounts
      /\ head'[p].next >= LowestASID
  BY <1>1, <1>2, CloseFacts
<1>6. /\ \A e \in DBs \ {p} : e \in Actors \ ({p} \cup dead)
      /\ \A g \in Handlers \ dead : g \in Actors \ ({p} \cup dead)
  BY <1>1, ActorsAssumption DEF DBs, Actors, Handlers
<1>7. TypeOK'
  <2>1. \A g \in Pulls : pc'[g] \in {"decide", "write", "assign"} => task'[g] \in Tasks
    <3>1. \A g \in Pulls \ dead : pc'[g] = pc[g] /\ task'[g] = task[g]
      BY <1>3, <1>4, <1>6 DEF Handlers
    <3> QED BY <1>3, <3>1 DEF IInv, TypeOK
  <2> QED BY <1>2, <1>3, <1>4, <1>5, <2>1 DEF IInv, TypeOK, history
<1>8. Within(NoAccounts, Saved)
  BY DEF Within, NoAccounts
<1>9. /\ \A g \in Handlers : pc'[g] = "idle" \/ g \notin dead
      /\ \A g \in Pulls : ProcessOf[g] = p => pc'[g] = "idle"
  BY <1>3
<1> HIDE DEF dead
<1> QED BY <1>1, <1>2, <1>3, <1>4, <1>5, <1>6, <1>7, <1>8, <1>9, DatabaseKeeps, SMTT(30)

-------------------------------------------------------------------------------
(* The inductive invariant.                                                *)

LEMMA InitInv == Init => IInv
<1> SUFFICES ASSUME Init PROVE IInv
  OBVIOUS
<1>1. /\ NoAccounts \in Records /\ Whole(NoAccounts) /\ Saved = NoAccounts
      /\ NoAccounts.next >= LowestASID /\ Within(NoAccounts, NoAccounts)
  BY NoAccountsFacts DEF Init, Saved, Whole, Within
<1>2. /\ \A a \in Processes : a \in Actors /\ pc[a] = "down"
      /\ \A a \in Handlers : a \in Actors /\ pc[a] = "idle"
  BY ActorsAssumption DEF Init, Actors, Handlers
<1>3. TypeOK
  <2>1. pc \in [Actors -> {"down", "idle"}]
    BY DEF Init
  <2>2. pc \in [Actors -> {"down", "create", "up", "idle", "decide", "write", "assign"} \cup Reading]
    BY <2>1
  <2>3. /\ root = NoHead /\ local \in [DBs -> Records \cup {NoHead}]
        /\ ds \in [DBs -> Records \cup {NoHead}] /\ head \in [DBs -> Records]
        /\ records \in [Handlers -> Records] /\ basis \in [Handlers -> Records]
        /\ task \in [Pulls -> Tasks \cup {NoTask}] /\ issued \in [IDs -> 0..2]
        /\ allowed = {} /\ overlapped = {} /\ overwritten = FALSE
    BY <1>1 DEF Init
  <2>4. \A h \in Pulls : pc[h] = "idle"
    BY <1>2 DEF Handlers
  <2> QED BY <2>2, <2>3, <2>4 DEF TypeOK
<1>4. StoreInv
  <2>1. \A d \in DBs : pc[d] \in {"down", "idle"} /\ (d \in Signups => pc[d] = "idle")
    BY <1>2 DEF DBs, Handlers
  <2>2. \A d \in DBs : local[d] = NoHead /\ ds[d] = NoHead /\ head[d] = NoAccounts
    BY DEF Init
  <2>3. root = NoHead /\ \A h \in Pulls : pc[h] = "idle"
    BY <1>2 DEF Init, Handlers
  <2> QED BY <1>1, <2>1, <2>2, <2>3 DEF StoreInv
<1>5. OverlapInv /\ \A h \in Handlers : AloneInv(h) /\ WriteInv(h)
  BY <1>2 DEF OverlapInv, AloneInv, WriteInv, Handlers
<1>6. KeptInv
  <2>1. WithinInv
    BY <1>1, <1>2 DEF WithinInv, Init
  <2>2. IssuedInv /\ AuthorizedIsSaved
    BY <1>2 DEF IssuedInv, AuthorizedIsSaved, Init, Handlers
  <2> QED BY <1>1, <2>1, <2>2 DEF KeptInv
<1>7. allowed = {}
  BY DEF Init
<1> QED BY <1>3, <1>4, <1>5, <1>6, <1>7 DEF IInv, AccountsInv

LEMMA QuietKeeps ==
    ASSUME IInv, UNCHANGED vars
    PROVE  IInv'
<1>1. /\ root' = root /\ local' = local /\ ds' = ds /\ head' = head /\ pc' = pc
      /\ task' = task /\ records' = records /\ basis' = basis /\ overlapped' = overlapped
      /\ issued' = issued /\ allowed' = allowed /\ overwritten' = overwritten
  BY DEF vars, noms, dbs, held, history
<1>2. TypeOK' /\ StoreInv' /\ OverlapInv'
  BY <1>1 DEF IInv, AccountsInv, TypeOK, StoreInv, OverlapInv
<1>3. \A g \in Handlers : (g \notin overlapped' => AloneInv(g)') /\ WriteInv(g)'
  BY <1>1, AloneKept, WriteKept
<1>4. KeptInv => KeptInv'
  BY <1>1 DEF KeptInv, WithinInv, IssuedInv, AuthorizedIsSaved, Saved
<1> QED BY <1>1, <1>2, <1>3, <1>4 DEF IInv, AccountsInv

LEMMA StepInv ==
    ASSUME IInv, [Next]_vars
    PROVE  IInv'
<1>1. ASSUME NEW d \in DBs, Open(d) \/ Adopt(d) \/ Create(d) \/ CreateConflict(d) PROVE IInv'
  BY <1>1, OpenKeeps, AdoptKeeps, CreateKeeps, CreateConflictKeeps
<1>2. ASSUME NEW h \in Pulls, StartPull(h) PROVE IInv'
  BY <1>2, StartPullKeeps
<1>3. ASSUME NEW h \in Handlers, ReadStep(h) PROVE IInv'
  BY <1>3, RebaseKeeps, GetDatasetKeeps, InitFirstKeeps, InitSecondKeeps, HeadValueKeeps DEF ReadStep
<1>4. ASSUME NEW h \in Handlers, WriteStep(h) PROVE IInv'
  BY <1>4, WriteKeeps, WriteConflictKeeps, AssignPullKeeps, AssignSignupKeeps DEF WriteStep, Handlers
<1>5. ASSUME NEW h \in Pulls,
             \/ LookedUp(h) \/ RefuseAccount(h) \/ RefuseHost(h)
             \/ Allow(h) \/ AddHostToList(h) \/ Panic(h)
      PROVE  IInv'
  BY <1>5, EndKeeps, AllowKeeps, AddHostToListKeeps
<1>6. ASSUME NEW h \in Signups, Register(h) \/ Abandon(h) PROVE IInv'
  BY <1>6, RegisterKeeps, AbandonKeeps
<1>7. ASSUME NEW p \in Processes, Crash(p) PROVE IInv'
  BY <1>7, CrashKeeps
<1>8. CASE UNCHANGED vars
  BY <1>8, QuietKeeps
<1> QED BY <1>1, <1>2, <1>3, <1>4, <1>5, <1>6, <1>7, <1>8 DEF Next

(* The database and its handlers always satisfy the inductive invariant,   *)
(* however many requests share a process's account.DB.                     *)
THEOREM Invariant == Spec => []IInv
<1>1. Init => IInv
  BY InitInv
<1>2. IInv /\ [Next]_vars => IInv'
  BY StepInv
<1> QED BY <1>1, <1>2, PTL DEF Spec

-------------------------------------------------------------------------------
(* What follows from it.                                                   *)

(* The account database and its handlers never hold anything but records,  *)
(* hosts and tasks, however many requests share an account.DB: no reload   *)
(* runs into a dataset without a head, none of them writes an ID that is   *)
(* not one (Reload, initLocked, SetHeadWithValue).                         *)
THEOREM TypeCorrect == Spec => []TypeOK
<1>1. IInv => TypeOK
  BY DEF IInv
<1> QED BY <1>1, Invariant, PTL

LEMMA RealConflicts == ASSUME IInv PROVE ConflictsAreReal
<1> SUFFICES ASSUME NEW h \in Handlers, h \notin overlapped, pc[h] = "write",
                    ~MaySetHead(DBOf(h)), Overlay(Saved) = basis[h]
             PROVE  FALSE
  BY DEF ConflictsAreReal
<1> DEFINE l == local[DBOf(h)]
<1>1. /\ l \in Records /\ IsSettled(l) /\ root \in Records /\ IsSettled(root) /\ Saved = root
  BY StoreFacts DEF Runs
<1>2. basis[h] = Overlay(l)
  BY DEF IInv, AccountsInv, AloneInv
<1>3. l # root
  BY DEF MaySetHead
<1> HIDE DEF l
<1> QED BY <1>1, <1>2, <1>3, OverlayTells

(* The write of a handler that no other ran beside in its process is       *)
(* refused only when the head is not what it read: a retry builds on       *)
(* somebody else's progress (SetHeadWithValue, RetryError).                *)
THEOREM RefusedForAReason == Spec => []ConflictsAreReal
<1>1. IInv => ConflictsAreReal
  BY RealConflicts
<1> QED BY <1>1, Invariant, PTL

LEMMA SavedFacts ==
    ASSUME IInv
    PROVE  Saved \in Records /\ (~overwritten => KeptInv /\ Whole(Saved))
BY NoAccountsFacts DEF Saved, IInv, TypeOK, AccountsInv, KeptInv

LEMMA LastingSignups == ASSUME IInv PROVE SignupsLast /\ IDsAreUnique
<1> SUFFICES ASSUME ~overwritten
             PROVE  /\ {id \in IDs : issued[id] > 0} \subseteq DOMAIN Saved.record
                    /\ \A id \in IDs : issued[id] <= 1
  BY DEF SignupsLast, IDsAreUnique
<1>1. KeptInv /\ Whole(Saved)
  BY SavedFacts
<1>2. \A id \in IDs : issued[id] > 0 => issued[id] = 1 /\ id \in LowestASID..(Saved.next - 1)
  BY <1>1 DEF KeptInv, IssuedInv
<1>3. \A id \in IDs : issued[id] \in 0..2
  BY DEF IInv, TypeOK
<1> QED BY <1>1, <1>2, <1>3 DEF Whole

(* Whoever was shown an ID has an account: no crash, and no write that     *)
(* replaced the head it was computed from, loses it (signup, WriteRecords).*)
THEOREM AccountsLast == Spec => []SignupsLast
<1>1. IInv => SignupsLast
  BY LastingSignups
<1> QED BY <1>1, Invariant, PTL

(* No two people are shown the same ID, however many sign up at once, as   *)
(* long as no pull overwrote what it had not read (SetHeadWithValue).      *)
THEOREM OneIDEach == Spec => []IDsAreUnique
<1>1. IInv => IDsAreUnique
  BY LastingSignups
<1> QED BY <1>1, Invariant, PTL

(* Though pulls that share an account.DB tear its db.head, and writes      *)
(* fail, nobody is let in for a host that is not in the saved list, until  *)
(* a write overwrites the list (HeadValue, CopyRecords).                   *)
THEOREM AuthorizedAreSaved == Spec => []AuthorizedIsSaved
<1>1. IInv => AuthorizedIsSaved
  BY SavedFacts DEF KeptInv, AuthorizedIsSaved
<1> QED BY <1>1, Invariant, PTL

LEMMA LimitedHosts == ASSUME IInv PROVE HostsStayLimited
<1> SUFFICES ASSUME ~overwritten, NEW q \in allowed
             PROVE  Cardinality({p \in allowed : p.id = q.id}) <= MaxASClientViewHosts
  BY DEF HostsStayLimited, HostLimit
<1> DEFINE S == {p \in allowed : p.id = q.id}
           T == Saved.record[q.id]
           f == [p \in S |-> p.host]
<1>1. Saved \in Records /\ Whole(Saved) /\ KeptInv
  BY SavedFacts
<1>2. /\ allowed \subseteq [id : Nat, host : Hosts]
      /\ \A p \in allowed : /\ IsASID(p.id)
                            /\ p.id \in DOMAIN Saved.record /\ p.host \in Saved.record[p.id]
  BY <1>1 DEF IInv, TypeOK, AccountsInv, KeptInv, AuthorizedIsSaved
<1>3. IsFiniteSet(T) /\ Cardinality(T) <= MaxASClientViewHosts
  BY <1>1, <1>2 DEF Whole
<1>4. f \in Injection(S, T)
  <2>1. f \in [S -> T]
    BY <1>2
  <2>2. \A a, b \in S : f[a] = f[b] => a = b
    BY <1>2
  <2> QED BY <2>1, <2>2 DEF Injection, IsInjective
<1>5. IsFiniteSet(S) /\ Cardinality(S) <= Cardinality(T)
  BY <1>3, <1>4, FS_Injection
<1>6. Cardinality(S) \in Nat /\ Cardinality(T) \in Nat
  BY <1>3, <1>5, FS_CardinalityType
<1> QED BY <1>3, <1>5, <1>6, ConstantFacts

(* An auto-signup account fetches client views from no more hosts than it  *)
(* may, over all processes, as long as no pull overwrote what it had not   *)
(* read (ClientViewURLAuthorized).                                         *)
THEOREM HostsLimited == Spec => []HostsStayLimited
<1>1. IInv => HostsStayLimited
  BY LimitedHosts
<1> QED BY <1>1, Invariant, PTL

-------------------------------------------------------------------------------
(* How the head changes.                                                   *)

LEMMA HeadChanges ==
    ASSUME IInv, [Next]_vars
    PROVE  \/ root' = root /\ overwritten' = overwritten
           \/ root = NoHead /\ root' = NoAccounts /\ overwritten' = overwritten
           \/ \E h \in Handlers : Write(h)
<1> DEFINE Same == root' = root /\ overwritten' = overwritten
<1>1. ASSUME NEW d \in DBs, Open(d) \/ Adopt(d) \/ Create(d) \/ CreateConflict(d)
      PROVE  Same \/ (root = NoHead /\ root' = NoAccounts /\ overwritten' = overwritten)
  <2>1. CASE Create(d)
    <3>1. root = NoHead
      BY <2>1 DEF Create, MaySetHead, IInv, AccountsInv, StoreInv
    <3> QED BY <2>1, <3>1 DEF Create, history
  <2>2. CASE Open(d) \/ Adopt(d) \/ CreateConflict(d)
    BY <2>2 DEF Open, Adopt, CreateConflict, noms, history
  <2> QED BY <1>1, <2>1, <2>2
<1>2. ASSUME NEW h \in Handlers, ReadStep(h) PROVE Same
  BY <1>2 DEF ReadStep, Rebase, GetDataset, InitFirst, InitSecond, HeadValue, noms, history
<1>3. ASSUME NEW h \in Handlers, WriteStep(h) PROVE Same \/ Write(h)
  BY <1>3 DEF WriteStep, WriteConflict, Assign, history
<1>4. ASSUME NEW h \in Pulls,
             \/ StartPull(h) \/ LookedUp(h) \/ RefuseAccount(h) \/ RefuseHost(h)
             \/ Allow(h) \/ AddHostToList(h) \/ Panic(h)
      PROVE  Same
  BY <1>4 DEF StartPull, LookedUp, RefuseAccount, RefuseHost, Allow, AddHostToList, Panic, noms, history
<1>5. ASSUME NEW h \in Signups, Register(h) \/ Abandon(h) PROVE Same
  BY <1>5 DEF Register, Abandon, noms, history
<1>6. ASSUME NEW p \in Processes, Crash(p) PROVE Same
  BY <1>6 DEF Crash, history
<1>7. CASE UNCHANGED vars
  BY <1>7 DEF vars, noms, history
<1> QED BY <1>1, <1>2, <1>3, <1>4, <1>5, <1>6, <1>7 DEF Next

(* A write that changes the head is of a handler that runs, over a head.   *)
LEMMA WriteFacts ==
    ASSUME IInv, NEW h \in Handlers, Write(h)
    PROVE  /\ pc[h] = "write" /\ pc' = [pc EXCEPT ![h] = "assign"] /\ overlapped' = overlapped
           /\ root \in Records /\ Saved = root /\ root # NoHead
           /\ root' # root => /\ root' = records[h] /\ Saved' = records[h]
                              /\ local[DBOf(h)] = root
                              /\ h \notin overlapped => basis[h] = Overlay(root)
           /\ overwritten' = (overwritten \/ (root' # root /\ Overlay(root) # basis[h]))
<1>1. /\ pc[h] = "write" /\ pc' = [pc EXCEPT ![h] = "assign"] /\ overlapped' = overlapped
      /\ overwritten' = (overwritten \/ (root' # root /\ Overlay(Saved) # basis[h]))
      /\ root' # root => root' = records[h] /\ local[DBOf(h)] = root
  BY DEF Write, Goto, held, MaySetHead
<1>2. root \in Records /\ Saved = root /\ root # NoHead /\ records[h] \in Records
      /\ records[h] # NoHead
  BY <1>1, StoreFacts, RecordsType DEF Runs, IInv, TypeOK
<1>3. h \notin overlapped => basis[h] = Overlay(local[DBOf(h)])
  BY <1>1 DEF IInv, AccountsInv, AloneInv
<1>4. root' # root => Saved' = records[h]
  BY <1>1, <1>2 DEF Saved
<1> QED BY <1>1, <1>2, <1>3, <1>4

(* A write of a handler that no other ran beside in its process replaces   *)
(* what its handler read, not what somebody else has made of it since      *)
(* (SetHeadWithValue).                                                     *)
THEOREM WritesReplaceReads == Spec => WritesFollowReads
<1> DEFINE A == \A h \in Handlers \ overlapped :
                   pc[h] = "write" /\ pc'[h] = "assign" /\ root' # root
                      => Overlay(Saved) = basis[h]
<1>1. IInv /\ [Next]_vars => [A]_vars
  <2> SUFFICES ASSUME IInv, [Next]_vars, NEW h \in Handlers \ overlapped,
                      pc[h] = "write", pc'[h] = "assign", root' # root
               PROVE  Overlay(Saved) = basis[h]
    OBVIOUS
  <2>1. root # NoHead
    BY StoreFacts, RecordsType DEF Runs
  <2>2. PICK g \in Handlers : Write(g)
    BY <2>1, HeadChanges
  <2>3. g = h
    <3>1. pc' = [pc EXCEPT ![g] = "assign"] /\ h \in Actors
      BY <2>2, WriteFacts, ActorFacts
    <3> QED BY <3>1 DEF IInv, TypeOK
  <2> QED BY <2>2, <2>3, WriteFacts
<1> QED BY <1>1, Invariant, PTL DEF Spec, WritesFollowReads

LEMMA RegistryWrite ==
    ASSUME IInv, NEW h \in Handlers, Write(h), root' # root, ~overwritten, ~overwritten',
           overlapped' = overlapped
    PROVE  Registry!Next
<1> DEFINE T == LowestASID..(root.next - 1)
           hosts == [i \in ASIDs |-> Saved.record[i]]
           new == records[h]
<1>1. /\ pc[h] = "write" /\ root \in Records /\ Saved = root /\ Saved' = new
      /\ basis[h] = Overlay(root)
  BY WriteFacts
<1>2. Whole(root)
  BY <1>1, SavedFacts
<1>3. new \in Records /\ Whole(new) /\ root.next \in Nat /\ new.next \in Nat
  BY <1>1, <1>2, WritingFacts, RecordsType
<1>4. ASIDs = T /\ ASIDs' = LowestASID..(new.next - 1)
  BY <1>1, <1>2, <1>3 DEF ASIDs, Whole
<1>5. hosts = [i \in T |-> root.record[i]] /\ hosts' = [i \in LowestASID..(new.next - 1) |-> new.record[i]]
  BY <1>1, <1>4
<1>6. /\ ~overwritten /\ (~overwritten)' = (~overwritten)
      /\ (overlapped # {})' = (overlapped # {})
  OBVIOUS
<1>7. CASE h \in Pulls
  <2>0. PICK account, added : Gained(new, root, account, added)
    <3>1. Gained(new, root, task[h].id, task[h].host)
      BY <1>1, <1>2, <1>7, WritingFacts
    <3> QED BY <3>1
  <2> HIDE DEF new
  <2>1. /\ new.next = root.next /\ account \in T /\ added \in Hosts \ root.record[account]
        /\ Cardinality(root.record[account]) < MaxASClientViewHosts
        /\ \A i \in T : new.record[i] = IF i = account THEN root.record[account] \cup {added}
                                                       ELSE root.record[i]
    BY <2>0 DEF Gained
  <2>2. hosts' = [hosts EXCEPT ![account] = @ \cup {added}]
    BY <1>5, <2>1
  <2>3. DOMAIN hosts = T /\ hosts[account] = root.record[account]
    BY <1>5, <2>1
  <2> HIDE DEF hosts
  <2>4. /\ added \notin hosts[account] /\ Cardinality(hosts[account]) < MaxASClientViewHosts
        /\ Saved'.next = Saved.next
    BY <1>1, <2>1, <2>3
  <2>5. Registry!Cardinality(hosts[account]) = Cardinality(hosts[account])
    BY DEF Registry!Cardinality, Cardinality
  <2>6. Registry!Authorize(account, added)
    BY <1>6, <2>2, <2>4, <2>5 DEF Registry!Authorize, hosts
  <2>7. account \in DOMAIN hosts /\ added \in Hosts
    BY <2>1, <2>3
  <2> QED BY <2>6, <2>7 DEF Registry!Next, hosts
<1>8. CASE h \in Signups
  <2>1. /\ new.next = root.next + 1 /\ new.record[root.next] = {}
        /\ \A i \in T : new.record[i] = root.record[i]
    <3>1. Extended(new, root)
      BY <1>1, <1>2, <1>8, WritingFacts
    <3> QED BY <3>1 DEF Extended
  <2>2. LowestASID..(new.next - 1) = T \cup {root.next} /\ root.next \notin T
    BY <1>2, <1>3, <2>1, ConstantFacts DEF Whole
  <2> HIDE DEF new, T
  <2>3. /\ hosts' = [i \in DOMAIN hosts \cup {Saved.next} |-> IF i = Saved.next THEN {} ELSE hosts[i]]
        /\ Saved'.next = Saved.next + 1
    BY <1>1, <1>5, <2>1, <2>2
  <2>4. Registry!SignUp
    BY <1>6, <2>3 DEF Registry!SignUp
  <2> QED BY <2>4 DEF Registry!Next
<1> QED BY <1>7, <1>8 DEF Handlers

LEMMA RegistryStep ==
    ASSUME IInv, [Next]_vars
    PROVE  [Registry!Next]_Registry!vars
<1>1. CASE Saved' = Saved /\ overwritten' = overwritten
  <2>1. CASE (overlapped' # {}) = (overlapped # {})
    BY <1>1, <2>1 DEF Registry!vars, ASIDs
  <2>2. CASE (overlapped' # {}) = ~(overlapped # {})
    <3>1. Registry!Share
      BY <1>1, <2>2 DEF Registry!Share, ASIDs
    <3> QED BY <3>1 DEF Registry!Next
  <2> QED BY <2>1, <2>2
<1>2. CASE \E h \in Handlers : Write(h)
  <2>1. PICK h \in Handlers : Write(h)
    BY <1>2
  <2>2. /\ overlapped' = overlapped
        /\ root' # root => (h \notin overlapped => basis[h] = Overlay(root))
        /\ overwritten' = (overwritten \/ (root' # root /\ Overlay(root) # basis[h]))
        /\ overwritten \in BOOLEAN
    BY <2>1, WriteFacts DEF IInv, TypeOK
  <2>3. CASE overwritten
    <3>1. Registry!Lost
      BY <2>2, <2>3 DEF Registry!Lost
    <3> QED BY <3>1 DEF Registry!Next
  <2>4. CASE ~overwritten /\ overwritten'
    <3>1. overlapped # {}
      BY <2>2, <2>4
    <3>2. Registry!Lose
      BY <2>2, <2>4, <3>1 DEF Registry!Lose
    <3> QED BY <3>2 DEF Registry!Next
  <2>5. CASE ~overwritten /\ ~overwritten' /\ root' = root
    <3>1. Saved' = Saved /\ overwritten' = overwritten
      BY <2>2, <2>5 DEF Saved
    <3> QED BY <1>1, <3>1
  <2>6. CASE ~overwritten /\ ~overwritten' /\ root' # root
    BY <2>1, <2>2, <2>6, RegistryWrite
  <2> QED BY <2>3, <2>4, <2>5, <2>6
<1>3. CASE root = NoHead /\ root' = NoAccounts /\ overwritten' = overwritten
  <2>1. Saved' = Saved
    BY <1>3, NoAccountsFacts, RecordsType DEF Saved
  <2> QED BY <1>1, <1>3, <2>1
<1>4. CASE root' = root /\ overwritten' = overwritten
  <2>1. Saved' = Saved
    BY <1>4 DEF Saved
  <2> QED BY <1>1, <1>4, <2>1
<1> QED BY <1>2, <1>3, <1>4, HeadChanges

(* Through all that reads, writes, conflicts and crashes may do to each    *)
(* other, the dataset holds a registry: accounts get IDs in order, one at  *)
(* a time, and hosts up to the limit; nothing is taken back, unless pulls  *)
(* of one process overlap and one overwrites what it had not read.         *)
THEOREM IsRegistry == Spec => ImplementsRegistry
<1>1. Init => Registry!Init
  <2> SUFFICES ASSUME Init PROVE Registry!Init
    OBVIOUS
  <2>1. Saved = NoAccounts /\ ASIDs = {} /\ overwritten = FALSE /\ overlapped = {}
    BY DEF Init, Saved, ASIDs, NoAccounts
  <2> QED BY <2>1 DEF Registry!Init, NoAccounts
<1>2. IInv /\ [Next]_vars => [Registry!Next]_Registry!vars
  BY RegistryStep
<1> QED BY <1>1, <1>2, Invariant, PTL DEF Spec, ImplementsRegistry, Registry!Spec
===============================================================================

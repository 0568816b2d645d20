----------------------------- MODULE AccountsProps -----------------------------
(***************************************************************************)
(* What the account database should keep to.  Pulls that overlap in one    *)
(* process share its account.DB and may lose what others wrote; what is    *)
(* said of a head holds as long as nothing was overwritten, and only pulls *)
(* that overlap ever overwrite anything.                                   *)
(***************************************************************************)
EXTENDS Accounts

ASIDs == {id \in DOMAIN Saved.record : IsASID(id)}

(* The account database implements the registry: every new head is the     *)
(* last one with one account or one host more, unless pulls of one process *)
(* overlap and one overwrites what the other saved.                        *)
Registry == INSTANCE AccountRegistry WITH
    MaxHosts <- MaxASClientViewHosts,
    next   <- Saved.next,
    hosts  <- [id \in ASIDs |-> Saved.record[id]],
    intact <- ~overwritten,
    shared <- overlapped # {}

ImplementsRegistry == Registry!Spec

(* "RetryError indicates someone set head out from under us": a write that *)
(* succeeds replaces the records its handler read, whatever other          *)
(* processes and signups do meanwhile, and whatever pulls of its own       *)
(* process did before, if none of them ran beside it (setHeadLocked).      *)
WritesFollowReads ==
    [][\A h \in Handlers \ overlapped :
         pc[h] = "write" /\ pc'[h] = "assign" /\ root' # root
            => Overlay(Saved) = basis[h]]_vars

(* A write is refused only if some other write got in between: what its    *)
(* handler read is no longer the head, so that whoever tries again builds  *)
(* on the progress of somebody else (RetryError).                          *)
ConflictsAreReal ==
    \A h \in Handlers \ overlapped :
        pc[h] = "write" /\ ~IsHead(h) /\ ~MaySetHead(DBOf(h)) => Overlay(Saved) # basis[h]

(* An ID shown to someone who signed up is that of an account, and stays   *)
(* so, until a write overwrites what it did not read (signup,              *)
(* WriteRecords).                                                          *)
SignupsLast ==
    ~overwritten => {id \in IDs : issued[id] > 0} \subseteq DOMAIN Saved.record

(* Until then, no ID is shown to two people (signup, SetHeadWithValue).    *)
IDsAreUnique == ~overwritten => \A id \in IDs : issued[id] <= 1

(* "The Records returned contains pointer types": nobody is let in for a   *)
(* host that another handler only means to add.  A host authorized once is *)
(* in the saved list of its account, though pulls that share an account.DB *)
(* tear db.head and writes fail (HeadValue, CopyRecords).                  *)
AuthorizedIsSaved ==
    ~overwritten => \A p \in allowed :
        p.id \in DOMAIN Saved.record /\ p.host \in Saved.record[p.id]

(* Auto-signup accounts "fetch their client view from any URL from up to   *)
(* some number of unique hosts" (ClientViewURLAuthorized).                 *)
HostLimit ==
    \A id \in {p.id : p \in allowed} :
        Cardinality({p \in allowed : p.id = id}) <= MaxASClientViewHosts

(* The limit holds, over all processes and for hosts asked for at once, as *)
(* long as nothing was overwritten.                                        *)
HostsStayLimited == ~overwritten => HostLimit

-------------------------------------------------------------------------------
(* What the properties rest on.                                            *)

(* What ReadAllRecords returns has the hard-coded accounts and no others   *)
(* below the first of auto-signup.                                         *)
IsOverlaid(rs) ==
    /\ DOMAIN RegularAccounts \subseteq DOMAIN rs.record
    /\ \A id \in DOMAIN rs.record :
          IsASID(id) \/ (id \in DOMAIN RegularAccounts /\ rs.record[id] = RegularAccounts[id])

(* A head is the first one, or was written by a handler for an account.    *)
IsSettled(rs) ==
    /\ rs.next >= LowestASID
    /\ rs = NoAccounts \/ (IsOverlaid(rs) /\ \E id \in DOMAIN rs.record : IsASID(id))

(* What an account.DB has seen are such heads; a process is up, and a      *)
(* signup reads, over a store that has one.                                *)
StoreInv ==
    /\ root # NoHead => IsSettled(root)
    /\ \A d \in DBs :
          /\ local[d] # NoHead => root # NoHead /\ IsSettled(local[d])
          /\ ds[d] # NoHead => IsSettled(ds[d])
          /\ head[d].next >= LowestASID
          /\ pc[d] = "create" => ds[d] = local[d]
          /\ pc[d] = "up" \/ (d \in Signups /\ pc[d] \notin {"idle", "create"})
                => local[d] # NoHead /\ ds[d] # NoHead
    /\ \A h \in Pulls : pc[h] # "idle" => pc[ProcessOf[h]] = "up"

(* Of two pulls that run in one process each knows that it is not alone.   *)
OverlapInv ==
    \A g, h \in Pulls :
        g # h /\ ProcessOf[g] = ProcessOf[h] /\ pc[g] # "idle" /\ pc[h] # "idle"
            => {g, h} \subseteq overlapped

(* A handler that is alone with its account.DB has read what that saw last.*)
AloneInv(h) ==
    LET d == DBOf(h)
    IN  /\ pc[h] \in {"init", "initNext", "initRecord", "value", "decide", "write"}
              => ds[d] = local[d]
        /\ pc[h] \in {"initNext", "initRecord"} => records[h] = local[d]
        /\ pc[h] = "initRecord" => head[d].next = local[d].next
        /\ pc[h] = "initNext" => head[d].record = local[d].record
        /\ pc[h] = "value" => head[d] = local[d]
        /\ pc[h] \in {"decide", "write"} => basis[h] = Overlay(local[d])

(* What any handler writes is what it read with one host or one account    *)
(* more.                                                                   *)
WriteInv(h) ==
    /\ pc[h] \in {"initNext", "initRecord"} => records[h].next >= LowestASID
    /\ pc[h] \in {"decide", "write", "assign"} =>
          basis[h].next >= LowestASID /\ IsOverlaid(basis[h])
    /\ pc[h] = "decide" => records[h] = basis[h]
    /\ h \in Pulls /\ pc[h] \in {"write", "assign"} =>
          LET id == task[h].id
          IN  /\ IsASID(id) /\ id \in DOMAIN basis[h].record
              /\ task[h].host \in Hosts \ basis[h].record[id]
              /\ Cardinality(basis[h].record[id]) < MaxASClientViewHosts
              /\ records[h] = AddHost(basis[h], id, task[h].host)
    /\ h \in Signups /\ pc[h] \in {"write", "assign"} =>
          basis[h].next \in IDs /\ records[h] = AddAccount(basis[h])

(* A head has all the accounts before the next one, none with too many     *)
(* hosts.                                                                  *)
Whole(rs) ==
    /\ rs.next >= LowestASID
    /\ {id \in DOMAIN rs.record : IsASID(id)} = LowestASID..(rs.next - 1)
    /\ \A id \in LowestASID..(rs.next - 1) :
          IsFiniteSet(rs.record[id]) /\ Cardinality(rs.record[id]) <= MaxASClientViewHosts

(* The accounts and hosts of rs, whole or torn, are among those of now.    *)
Within(rs, now) ==
    \A id \in DOMAIN rs.record :
        IsASID(id) => id \in DOMAIN now.record /\ rs.record[id] \subseteq now.record[id]

(* Whatever anybody holds of the accounts was saved.                       *)
WithinInv ==
    /\ \A d \in DBs : /\ local[d] # NoHead => Within(local[d], Saved)
                      /\ ds[d] # NoHead => Within(ds[d], Saved)
                      /\ Within(head[d], Saved)
    /\ \A h \in Handlers : pc[h] \in {"initNext", "initRecord", "decide", "assign"} =>
          Within(records[h], Saved)

(* The ID a signup is about to show is an account's that nobody else shows *)
(* or was shown.                                                           *)
IssuedInv ==
    /\ \A id \in IDs : issued[id] > 0 => issued[id] = 1 /\ id \in LowestASID..(Saved.next - 1)
    /\ \A h \in Signups : pc[h] = "assign" =>
          /\ basis[h].next \in LowestASID..(Saved.next - 1)
          /\ issued[basis[h].next] = 0
          /\ \A g \in Signups : pc[g] = "assign" /\ basis[g].next = basis[h].next => g = h

KeptInv == Whole(Saved) /\ WithinInv /\ IssuedInv /\ AuthorizedIsSaved

AccountsInv ==
    /\ StoreInv
    /\ OverlapInv
    /\ \A h \in Handlers \ overlapped : AloneInv(h)
    /\ \A h \in Handlers : WriteInv(h)
    /\ \A p \in allowed : IsASID(p.id)
    /\ ~overwritten => KeptInv
===============================================================================

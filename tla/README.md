# The diff server in TLA+

A model of the Replicache diff server (`src/`): what a client is promised when
it pulls, what the databases behind the handlers keep to, and which of it is
proved for every number of clients, processes and values.

## The system

A *client* (a browser) holds a copy of its *client view*, a map from keys to
JSON values, with a `lastMutationID`. The customer's *data layer* is the
source of that view. The *diff server* stands between them: on a *pull* it
fetches the current view from the data layer, stores it as a commit in a Noms
dataset of the client's own, and answers with a JSON patch from the commit the
client has to the one at the head of the dataset.

| Part | State | Operations | Talks to |
|---|---|---|---|
| handlers `serve/pull.go`, `inject.go`, `service.go`, `client_view.go` | per process: `nomsen`, a cached Noms Database per account; per request: a `db.DB` | `pull`, `inject`, `GetDB`, `Get` | the data layer over HTTP, the two databases |
| per-client database `db/` | dataset `client/<id>`, a chain of commits (date, checksum, lastMutationID, data) | `New`, `Head`, `MaybePutData`, `Diff` | Noms (FastForward, ReadValue) |
| map `kv/map.go`, `checksum.go` | Noms map and its checksum, kept up to date by the editor | `Edit`, `Set`, `Remove`, `Build` | Noms map editor |
| patch `kv/patch.go` | goroutines of one call | `Diff`, `ApplyPatch` | Noms map diff |
| account database `account/` | one dataset with all `Records` (next ID, hosts per account); one `account.DB` per process, shared by its handlers | `NewDB`, `Reload`, `ReadAllRecords`, `ClientViewURLAuthorized`, `WriteRecords` | Noms (SetHead, Rebase) |
| signup `serve/signup/` | a new `account.DB` per form | GET, POST | account database |
| conversion `util/noms/json` | none | canonical JSON to Noms values and back | map, patch |
| middleware and logging `serve/middleware.go`, `util/loghttp` | the counter of `contextLogger`; per request, what `responseLogger` noted; the log | `contextLogger`, `panicCatcher`, `logHTTP`, the filters | every handler, through its `http.ResponseWriter` |
| entry points `cmd/diffs`, `api/` | the process: one `account.DB`, one `Service`, one counter | start, signal, routes | all of the above |
| utilities | none | | |

What is hard here: requests of one client overlap, in one process or several,
and share nothing but the store; answers get lost and are retried; heads are
deleted and stores start over while clients keep later states; the data layer
lags or never answers; Noms panics when its storage fails, and a request ends
between two of its steps; a process serves many requests through one
`account.DB` and writes one log about them; a call of `kv.Diff` is a pool of
goroutines. `PROJECT.json` lists the hazards one by one
with their lines.

What makes each part correct:

- *handlers and database*: the client's data is that of the commit it names;
  neither client nor head goes back; nothing is confirmed that the data layer
  has not processed; a client that keeps pulling catches up;
- *map*: the incremental checksum is the real one;
- *patch*: whatever way the goroutines interleave, there is one patch, it takes
  the client where it should, and the call returns;
- *accounts*: every write builds on the last one and is refused only for
  another one, IDs are given out once, no account gets more hosts than its
  limit. The code sees to that only for requests that do not share an
  `account.DB`; the properties say how far it holds when they do;
- *middleware*: whatever becomes of a handler, its client gets a status that
  says so, and the log of a pull tells what the client got and what the
  installed filters leave of what it asked: with those of `api/`, no headers
  but the listed ones; with none, as in `cmd/diffs`, all of it.

## The modules

| Module | Models |
|---|---|
| `Checksum` | `hashEntry` as a parameter, XOR, `ComputeChecksum` |
| `DiffServer` | both handlers over the per-client databases, with clients, data layer and disruptions |
| `ObservedViews` | abstract specification: a client observes views of the data layer, whole and in order |
| `DiffServerProps`, `DiffServerMC` | properties (with the refinement mapping) and the invariants they rest on; constants for TLC |
| `DiffServerProofs`, `HeadProofs`, `ObservedProofs` | proofs, each building on the one before |
| `KVMap`, `KVMapMC`, `KVMapProofs` | the map editor and its checksum |
| `KVPatch`, `KVPatchMC` | `db.Diff`/`kv.Diff` as goroutines, then `ApplyPatch`, over one pull after another |
| `JSONPointer`, `JSONPointerProofs` | escaping of keys in paths, order of paths, and what is proved of both |
| `KVPatchProofs` | proofs |
| `NomsJSON` | texts to Noms values and back, canonically |
| `Accounts` | the account database, the part of pull that uses it, and signup |
| `AccountRegistry` | abstract specification: accounts in order, hosts only added, up to a limit; until something is lost, which only sharing requests may do |
| `AccountsProps`, `AccountsMC` | properties (with the refinement mapping) and the invariants they rest on; constants for TLC |
| `AccountsProofs` | proofs |
| `LogFilters` | `filter` over the installed `Filters`, which are `BodyElider` and `HeaderAllowlist` or none |
| `HTTPServer`, `HTTPServerMC` | the process, its routes and middleware, and how each handler answers; constants for TLC |
| `HTTPServerProofs` | proofs |

The models meet in what they leave to each other. `DiffServer` takes from
`Accounts` that a request was authorized or not (its form) and from `KVPatch`
that a patch is the difference of two maps; `KVPatch` takes from `KVMap` that
equal checksums are of equal maps; `Accounts` and `HTTPServer` take from the
handlers only what they ask the accounts for and how they answer.

### DiffServer

A commit is the sequence of its ancestry's entries: equal sequences are equal
Noms structs (so a state ID is a commit), and *ancestor* is *prefix*. `head`
and `chunks` are the store, `root[s]` what process `s` last saw of it. A
request goes through `pc`:

| `pc` | next action | code |
|---|---|---|
| `arrived` | `RejectEarly`, `GetDB` | up to `s.GetDB`: `getNoms` with its rebase and `db.New` |
| `genesis` | `Genesis`, `GenesisConflict` | `initLocked` without a head |
| `opened` | `RejectLate`, `Fetch`, `FetchFail`, `InjectPut` | the other refusals; `Get`; inject's `storeClientView` |
| `fetched` | `Refuse`, `Store` | `LastMutationID >= minLastMutationID`, `storeClientView`, `MaybePutData` |
| `stored` | `Respond` | nop or `db.Diff` |
| `replied` | `Deliver`, `LoseReply` | the answer on its way |
| any but `idle`, `replied` | `Panic`, `Crash`, `ColdStart` | `panicCatcher`; the process ends |

Between any two of these another request, a crash, a deletion or the data layer
may step. Noms operations (`FastForward`, `Rebase`) are atomic, as its store
makes them. `storeClientView` is one step because nobody else sees its map and
the database is reached once. Requests a handler refuses have the form
`"early"` or `"late"`; a malformed request has no other effect. `Panic` ends a
request between two steps, whose effects stay (Noms panics when its storage
fails; `panicCatcher` makes it a 500). A panic during a step is one before or
after it, as each step reaches the store once.

A 32-bit word is the set of its one bits, so XOR is symmetric difference. The
hash of an entry is a constant operator; the runs use one that tells all views
apart (`ExactHash`), which CRC32 does not always do. A `lastMutationID`
goes through `ToNumber`, which rounds above `MaxExact` as a float64 does above
2^53; `LMIDAssumption` keeps the numbers of data layer and injections to twice
that, beyond which a float64 holds fewer of them. The conversion back to uint64
(`db/db.go:127`, `serve/pull.go:139`), exact but for numbers that were rounded
to 2^64, is left out with them.

Not in the code but around it: the client applies an answer only if it is still
at the base it asked from; the data layer never forgets a processed mutation,
though with fault `"stale"` it answers from an earlier state and with
`"noLMID"` without one. `asOf`, `seen`, `dirty` and `lost` are ghosts. `seen`
and `asOf` date what a client and a head hold by the history of the data layer;
`lost` notes that a dataset was deleted, since nothing in the code remembers
what it held.

### KVMap

`stale` is what Noms answers for removed keys, the reason `Remove` asks `Has`
first (`kv/map.go:118-122`).

### KVPatch, JSONPointer and NomsJSON

Keys and paths are sequences of characters; the keys of the run are ones whose
escaped forms are easily confused. A worker receives any change the differ has
left (`Receive`), hands its operation to the collector (`Collect`: both sides
of the unbuffered channel at once) and leaves when the differ has closed its
channel (`Leave`); `Sort` follows when all left, and may pick any permutation
that is in path order, as `sort.Slice` is not stable; `Apply` is one operation
of `ApplyPatch`. `Start` picks any next view, with a known or an unknown basis.

A value travels as JSON text: `OpOf` writes it with `TextOf`, `Applied` reads it
with `ValueIn`, constant operators that `KVPatchMC` gives `NomsJSON`'s `ToJSON`
and `FromJSON`. The maps of the run hold what `FromJSON` makes of texts that
differ in spelling, in the order and repetition of members, and in the sign of
zero. `FromJSON` canonicalizes before it parses; if it did not, -0 would be
stored, written as 0, and the client's map would not be the server's.

### Accounts

Reading takes the steps `Rebase`, `GetDataset`, `InitFirst`, `InitSecond` and
`HeadValue`, because `Reload` unlocks at once (`account/db.go:138` calls
`db.lock()()` without `defer`): all but the last run without the lock, and the
assignment `db.head = head` is two words that can be seen apart. Writing takes
`Write` (SetHead) and `Assign`, between which the lock is held. SetHead compares
the persisted root with the one the process's Noms Database last saw (`local`),
not with the one the records were read from. A conflict is a 500; the caller
does not retry. A handler that asks for no host only looks the account up:
inject, or a pull in a version before hosts were sent. `Panic` ends a pull
where it calls Noms; the deferred unlock lets go of the lock.

`ProcessOf` gives each pull handler its process; handlers of one process share
its `account.DB`, as those of `cmd/diffs` and `api/` do. `basis`, `issued`,
`allowed`, `overlapped` and `overwritten` are ghosts: `overlapped` has the pulls
beside which another one of the same process ran, and `overwritten` becomes true
with the first write that replaces a head other than the one its handler read.
The properties use them as conditions: what is said of heads, IDs and hosts
holds while nothing was overwritten, what is said of a write holds for a handler
that was not overlapped, and the refinement says that only overlapped pulls
overwrite.

### HTTPServer and LogFilters

`process` is the process, which may stop and start (`Start`, `Signal`); `req` is
what it knows of each request: where it is, its handler's calls of the
`ResponseWriter` still to come, what was written (`w`) and what `responseLogger`
noted (`seen`). A request goes through the middleware of its route,
`/pull` through `ContextLogger`, `LogRequest`, its handler, `LogResponse`;
`/inject` only through the catcher of panics; `/` and `/signup` through nothing.
Of the handlers the model has the ways they can answer (`Pull`, `Inject`,
`Hello`, `Signup`): which calls of `WriteHeader` and `Write`, in which order,
and which of their errors are checked. A compressed answer is two writes: what
the `gzip.Writer` writes at once is checked, what its deferred `Close` writes is
not (`ZippedResponse`).
A panic on the handler's goroutine is caught or closes the connection
(`Panic`, `PanicCatcher`); one on a goroutine of `kv.Diff` ends the process
(`DiffPanic`). After `Hangup` writes may fail, and some handlers then call
`WriteHeader` again (`WriteFails`).

A dump is a sequence of tokens: a header line is one, a byte of the body is one.
Compressed bodies are their text with a mark, or with the mark of a part, which
cannot be unzipped. `Filter` runs the filters of `Filters` in their order;
`Installed` are those of `api/diff-service.go:35-36`, and `cmd/diffs` has none.

### Mutants

Beside some definitions stands a changed form of it, marked "mutant of ...":
what the code would do with a plausible bug. No specification uses them; each
breaks a property when it takes the place of the original, which shows that the
property depends on that piece of code. `PROJECT.json` pairs them.

## The runs

Run one with `tlc -config <cfg> <module>`; the `.cfg` gives all bounds.

| Run | Bounds | Shows |
|---|---|---|
| `pulls` | 1 client, 2 processes, 2 pulls, 3 states of the data layer, lost answers | `ConfirmedWasProcessed`, `ClientNeverRewinds`, `HeadNeverOlder`; refinement `ServesObservedViews` |
| `faults` | 1 process, 2 requests of any kind and form, 2 readings of the clock, 2 disruptions (panic, crash, delete, cold start, injection), lost answers | `ClientConsistent`, `ClientLMIDNeverDecreases`, `ChecksumsAgree`, `ClientNeverRewinds` |
| `damaged` | 1 pull at a time, 2 values, 2 disruptions (damage, delete), stale and incomplete answers, lastMutationIDs to 7 with exact numbers to 4 | `TypeOK`, `ClientConsistent`, `ClientLMIDNeverDecreases`, `HeadLMIDNeverDecreases`, `PutKeepsView` |
| `converge` | 2 pulls, lost answers, 1 disruption (panic, crash, delete) | `Converges` |
| `edits` | 3 keys, 3 values | `TypeOK`, `SumIsExact` |
| `patches` | keys `a`, `/`, `~1`, 9 texts of 2 values, 2 workers | `PatchReachesTarget`, `EachChangeOnce`, `PatchInPathOrder`, `DiffReturns`, `TypeOK` |
| `own` | 2 processes with 1 pull or injection each, 2 signups, limit 1, a host per pull | refinement `ImplementsRegistry`, `WritesFollowReads`, `ConflictsAreReal`, `HostsStayLimited`, `SignupsLast`, `IDsAreUnique`, `TypeOK` |
| `shared` | 1 process with 2 pulls for one account, 1 signup, limit 1, the same host or two | refinement `ImplementsRegistry`, `AuthorizedIsSaved`, `WritesFollowReads` |
| `requests` | 2 requests, 2 lives of the process, the filters of `api/`, bodies of 0, 7 and 8 bytes with a maximum of 7 | `RidsTellRequestsApart`, `PullsAreLogged`, `LoggedIsSent`, `StatusTellsOutcome`, `RequestsAreTrimmed`, `TypeOK` |

Why these bounds are enough to be interesting: two requests of one client are
what a race needs, and two processes what a stale cache needs; one key with one
value gives two views, of which one is a subset of the other, so adding,
removing and swapping back all happen, and `damaged` and `patches` have more
values for patches that replace them; three states of the data layer let one
handler hold the first while another stores the third; two disruptions let one
request die after another one lost the dataset it started from; with exact
numbers to 4, 5 is rounded below and 7 above itself, next to 4 and 6; a limit
of one host with two hosts is the smallest limit two pulls can break, and the
signup of `shared` makes the account they share and the head they tear; bodies
of 7 and 8 bytes are on both sides of the elider's limit. `MaxCommits`,
`MaxLayer`, `MaxLMID`, `MaxDisruptions` and `MaxStart` stop the environment (a
fetch, the data layer, disruptions, new signups), never a handler between two
of its steps, except that a pull over a chain of `MaxCommits` commits can only
fail to fetch, and a signup that finds the last ID, `MaxASID`, taken is
abandoned: in `own` the second of two signups that start together still gets an
ID. In `HTTPServer` every request is accepted once and `MaxLives` bounds the
starts, so the system stops there. `Asks` says which accounts and hosts pulls
are about: in `own` each pull has a host of its own and any account, and one of
them may be an injection; in `shared` both are about the account of the signup,
one for one host and the other for either. `Requests` are symmetric in `pulls`,
`faults` and `requests`, readings of the clock in `faults`, `Signups` in `own`;
the liveness runs use no symmetry.

### Fairness

`FairSpec` asks that a process runs its handlers (Go schedules goroutines
fairly): `WF` of `Open` up to the fetch, and of what comes after it; that an
answer arrives or is lost (`WF`); that each client keeps pulling with
acceptable requests, and that of infinitely many fetches for it some succeed and
of infinitely many answers to it some arrive (`SF` of `PullsAgain`, `Fetches`,
`Receives`; `SF` because slots are shared and `Fetch` competes with
`FetchFail`). No single fetch need ever end: `http.DefaultClient`
(`serve/client_view.go:29`) has no timeout. Nothing is assumed of the store or
the data layer; disruptions are bounded, so that they stop. In `KVPatch` each
goroutine is weakly fair.

### Where the code departs from what it says

Each of these runs finds a counterexample to a sentence of the code's comments,
tests or types; `PROJECT.json`, "findings", quotes it.

| Run | What happens |
|---|---|
| `emptykey` | removing the empty key clears the client's map |
| `sharedhosts` | two pulls in one process: a lost update without RetryError, and more hosts than the limit |
| `diffpanic` | a panic on a goroutine of `kv.Diff` is not a 500: the process ends, and with it every request it serves |

`sharedhosts` needs an `account.DB` shared by concurrent requests, as
in `cmd/diffs` and `api/diff-service.go`. `own` shows that the database keeps its
promises when it is not shared, `shared` what is left of them when it is: a tear
alone lets nobody in for a host that is not saved, and what is lost is lost by
handlers that overlap.

More follows from definitions without a run of its own:

- The answer to a pull whose fetch or store failed should say so in
  `clientViewInfo.errorMessage` (`serve/types/types.go:33`), but the deferred
  function of `maybeGetAndStoreNewClientView` (`serve/pull.go:200-206`) sets it
  after the result was copied: it is always empty (`ErrorMessage`). The tests
  (`serve/pull_test.go:170`, `:183`) pin that.
- "HeadValue returns the value at head" (`account/db.go:87`), but `Reload` calls
  `db.lock()()` without `defer` (`account/db.go:138`) and assigns `db.head`, two
  words, unlocked: a pull may read the next ID of the new head and the records
  of the old one (`HeadValue` between `InitFirst` and `InitSecond`). Writing
  that back is a lost update (`overwritten`); without one, `AuthorizedIsSaved`
  says, a tear lets nobody in for a host that is not saved.
- `Get` is said to return an error if the response has no `lastMutationID`
  (`serve/client_view.go:15-16`), but such a response decodes as 0 (`Answer`
  with `omitted`), which only the comparison with the head can refuse.
- `MaybePutData` compares checksums (`SameAsHead`), so a view whose CRC32
  collides with the head's at the same `lastMutationID` is dropped;
  `PutKeepsView` is checked for a checksum without collisions.
- "cvg may be nil, in which case the server skips the client view request in
  pull" (`serve/service.go:43-44`): no code asks, and such a pull panics.
- A pull that panicked has no response line, only the line of `panicCatcher`
  (`PullsAreLogged` counts it as one); `rid` starts over with the process, so
  that `RidsTellRequestsApart` is about the lines of one life.
- "this is expected in unit tests" (`serve/middleware.go:47`) is logged for
  every `/inject` and every `/`, whose chains have no `contextLogger`.
- `"X-Replicache-SyncID"` on the allowlist (`api/diff-service.go:30`) never
  matches a dumped header, which Go spells `X-Replicache-Syncid`: the constants
  of `requests` have it so, and it is left out of the log.
- The CPU profile is started with the name of the trace (`cmd/diffs/main.go:90`).
- Accounts `"0"`, `"00"` and `"sandbox"` are one account for `Lookup` and
  three databases for `getNoms`, which takes the text.

## The proofs

| Theorem | States | Assumes |
|---|---|---|
| `DiffServerProofs!TypeCorrect` | `Spec => []TypeOK` | |
| `ClientsConsistent` | `Spec => []ClientConsistent` | `DamageIsSeen` |
| `ClientLMIDsGrow` | `Spec => ClientLMIDNeverDecreases` | |
| `AnswersAddUp` | `Spec => ChecksumsAgree` | no damage |
| `ClientsDescend` | `Spec => ClientNeverRewinds` | |
| `HeadLMIDsGrow` | `Spec => HeadLMIDNeverDecreases` | no injections |
| `HeadsNeverOlder` | `Spec => HeadNeverOlder` | `OnlyForward` |
| `ConfirmedOnceProcessed` | `Spec => []ConfirmedWasProcessed` | `TrueToLayer` |
| `PullsObserveViews` | `Spec => ServesObservedViews` | `Undisturbed` |
| `StoredViewsKept` | `Spec => PutKeepsView` | `NoCollisions` |
| `KVMapProofs!TypeCorrect` | `Spec => []TypeOK` | |
| `SumsExact` | `Spec => []SumIsExact` | |
| `JSONPointerProofs!UnescapeEscape` | `Unescape(Escape(s)) = s` for every sequence | |
| `KeyAtPath` | `KeyAt(Path(k)) = k` for every sequence | |
| `LessTotal` | of two different paths one is `Less` | |
| `KVPatchProofs!TypeCorrect` | `Spec => []TypeOK` | |
| `ChangesOnce` | `Spec => []EachChangeOnce` | |
| `PathOrder` | `Spec => []PatchInPathOrder` | |
| `ReachesTarget` | `Spec => []PatchReachesTarget` | `RoundTrips`, `NoEmptyKey` |
| `AccountsProofs!TypeCorrect` | `Spec => []TypeOK` | |
| `WritesReplaceReads` | `Spec => WritesFollowReads` | |
| `RefusedForAReason` | `Spec => []ConflictsAreReal` | |
| `AccountsLast` | `Spec => []SignupsLast` | |
| `OneIDEach` | `Spec => []IDsAreUnique` | |
| `AuthorizedAreSaved` | `Spec => []AuthorizedIsSaved` | |
| `HostsLimited` | `Spec => []HostsStayLimited` | |
| `IsRegistry` | `Spec => ImplementsRegistry` | |
| `HTTPServerProofs!TypeCorrect` | `Spec => []TypeOK` | |
| `RidsAreUnique` | `Spec => []RidsTellRequestsApart` | |
| `PullsLogged` | `Spec => []PullsAreLogged` | |
| `SentAsLogged` | `Spec => []LoggedIsSent` | |
| `StatusTells` | `Spec => []StatusTellsOutcome` | |
| `RequestsTrimmed` | `Spec => []RequestsAreTrimmed` | |

They hold for any clients, processes, request slots, keys, values, hash, faults,
dumps and goroutines. Of the constants they use the named assumptions beside
their declarations, which TLC evaluates in every run:

- `DiffServer`: `MaxExact` is a multiple of 4, flags and faults are from their
  sets, bounds are natural numbers, `MaxLMID` is at most twice `MaxExact`, the
  keys of a map are finitely many.
- `Accounts`: hard-coded accounts have IDs below the first of auto-signup,
  every pull has a process, a request is about a host or about none.
- `KVPatch`: keys and workers are finitely many, characters have different codes
  (`CodeAssumption`), a value read back is a value (`ValuesAssumption`, which
  does not say which one).
- `HTTPServer` and `LogFilters`: requests are finitely many, the filters are
  those of `api/` or none, the texts of a response and of an
  error are sequences of tokens, a dump begins with a request line
  (`DumpsAssumption`), lives and the limit of a logged body are natural numbers;
  no line end is on the allowlist (`ListedAssumption`: the regular expression
  asks for a name and a colon).

What a theorem assumes beyond them excludes behaviours under which its property
fails:

- `DamageIsSeen`: clients do not damage their data or the checksum tells views
  apart. With a collision a damaged client's data passes for the base's.
- `NoCollisions`: views with equal checksums are equal, which CRC32 cannot
  promise: with a collision the property fails (see above). `MaybePutData` skips a
  view that has the checksum and the `lastMutationID` of the head.
- `RoundTrips`: a value comes back from its JSON text. `patches` checks it of
  `NomsJSON` inside the whole patch; a value that came back as another one
  would leave the client with that.
- `NoEmptyKey`: removing the empty key clears the map (`emptykey`).
- no damage (`"corrupt" \notin Faults`), even with a perfect checksum: a client
  that damaged its data, got a nop because its dataset was deleted, and whose
  other pull in flight was sent before, ends with data that is not that pull's.
- no injections (`~EnableInject`): an injection stores any `lastMutationID`.
- `OnlyForward`: nothing is injected, deleted or emptied, and the data layer
  answers with its current view; otherwise a later commit may hold an older
  view.
- `TrueToLayer`: nothing is injected, answers have a `lastMutationID`, and
  `MaxLMID <= MaxExact`: a rounded `lastMutationID` is not the one that was
  processed.
- `Undisturbed`: all of these.

**Consistency.** `ClientConsistent` is not inductive: a client becomes
consistent by applying a patch that was computed earlier, from a base it may
have left meanwhile. The invariant `ConsistencyInv` adds what holds of requests
and answers in flight: a request's `lastMutationID` is that of its base; while
the client is still at the base, the request's checksum is that of its data, or
its data is that of the base; an answer is a nop for the base, a full sync, or
the difference from the base's data with the checksum in agreement, and its
`lastMutationID` is that of its state and at least the request's. Lemmas
`PatchApplies`, `FullSyncApplies` and `NopApplies` then give what the client
holds after `Deliver`; one lemma per group of actions shows the rest.
`ClientLMIDNeverDecreases` follows from `RepliesMatch`. `ChecksumsInv` adds to
it that checksums of requests and answers are those of the commits they name.

**Descent.** `DescentInv` orders, for a client whose dataset was never lost, what
it holds, the base of a request, the head its handler goes on with, the state of
an answer, and the persisted head: each is an ancestor of the next. Only two
things happen to a head: it fast-forwards, which lemma `HeadsDescend` reads off
all handler steps at once, or it is lost. A stale cache cannot break the chain
because `GetDB` rebases first, and a slow handler cannot because `FastForward`
compares with the persisted head.

**Heads.** For `HeadLMIDNeverDecreases` a new commit must be compared with the
*persisted* head, while the code compares with the one the handler read. By
`DescentInv` the handler's head is an ancestor of the persisted one; if the
fast-forward succeeds they have the same length and are the same. `NumbersInv`
adds that what is stored is already rounded, so that rounding a number that is
not below it keeps the order. `TimesInv` says the same of the times of views: a
handler's head is not dated later than the dataset's, and equally when it still
is that head; what it fetched is not older than its head.

**Confirmation.** `ProcessedInv`: every commit in use that is not a genesis shows
a state the data layer had, and so does every view in a handler's hands.

**Refinement.** `ObservedViews` lets the data layer change and a client observe
a view not older than the one it last saw. The mapping takes the client's copy
and `seen`. The steps of processes and network are stutters; `Deliver` is an
observation. That it observes a whole view follows from `ConsistencyInv` (the
copy becomes the commit of the answer) and `HeldInv` (commits in use show the
view of the time noted with them); that it goes forward follows from
`DescentInv` (the answer's state is a descendant of the base) and the other half
of `HeldInv` (of commits in use, longer ones are not older). Its step is lemma
`StepObserves`, by one lemma per kind of move: `DeliverObserves`,
`LayerMovesOn`, `WhoMovesClients`, `WhoMovesLayers`.

**Stored views.** By `StoresOrRefuses` a handler gets past storing by `Refuse`
or `Store` only; by `StoreKeeps` a `Store` without an error either made its view
the head or found one with its checksum there.

**Map.** For `SumIsExact` the lemmas `AddEntry` and `DropEntry` say what one entry
does to the parity of every bit; `DropNothing` covers a key that is not there.

**Paths.** That `Unescape` undoes `Escape` needs an induction over strings, done
here on the set of lengths at which it holds: its complement in `Nat` would have
a least element. What `ReplaceAll` makes of the rest of a string is taken apart
from the front, and the four replacements commute with that: a tilde, a slash
and any other character each come back, and what follows is shorter. The order
of replacements is what makes the case of a tilde before a 1 work. `KeyAtPath`
follows, and that no two keys have one path. `LessTotal` takes the least place
where two paths differ.

**Patch.** `Structure` follows each changed key through the goroutines: its
change is with the differ, or its operation is with exactly one worker or at
exactly one place of `r` (`AtMostOnce`), and in none of these only when the
differing is over (`NoneDropped`); a worker that left found the differ empty
and holds nothing (`Finished`), which is why closing the channel after
`wg.Wait` loses nothing. `StructureOnce` turns that into the count of
`EachChangeOnce`. After `Sort` paths are not just in order but strictly so, as
operations differ, different keys have different paths, and `Less` is total;
that fixes the patch. `Reaching` is what `ApplyPatch` keeps: wherever the rest
of the patch does not touch the map it is already as it must be (`Agree`), with
the clearing that may be still ahead counted in (`Basis`). It uses that clearing
comes first (`NothingBeforeRoot`), `AtMostOnce`
(an operation is applied once and no later one undoes it) and `KeyAtPath`.

**Accounts.** None of the properties is inductive by itself, not even `TypeOK`: a
reload needs a head to read, a signup an ID. `AccountsInv` has two halves. What
holds always: `StoreInv`, that every head anybody has seen is the first one or
was written for an account; `WriteInv`, that what a handler writes is what it
read with one account or one host more; `OverlapInv`, that of two pulls in one
process each is overlapped; and `AloneInv`, that a handler that is not has read
what its `account.DB` saw last, part by part as the steps of `Reload` bring it.
So its comparison of roots, which the code makes with `local` and not with what
was read, does compare with what was read. What holds until something is
overwritten (`KeptInv`): the saved head is whole (`Whole`: all accounts before
the next ID, none with too many hosts); whatever anybody holds, torn or not, is
within it (`WithinInv`), because heads only gained accounts and hosts and a tear
mixes two of them; an ID between its write and its answer is an account's and
shown to nobody else (`IssuedInv`); and every authorized host is saved.

`HeadReplaced` is where they meet: a write that finds the head it read adds one
account or one host to it, and any other sets `overwritten`. Steps that leave the
head alone keep `KeptInv` if what they take is within it (`KeptQuiet`,
`TornHead`); a step of one `account.DB` leaves the handlers of others what they
count on (`HandlerKeeps`, `AloneKept`). `RegistryWrite` and `RegistryStep` give
the steps of `AccountRegistry`.

**Requests.** `HTTPServerInv` says of each request what follows from where it is.
`RidInv`: the counter of a life is the number of requests it has numbered, so
that no number is given twice. `LinesInv`: which lines the log has of a request,
and under which number. `HandlerInv`: what was written fits the calls that are
left (`Fits`: an answer has one text, or two errors), and the status written or
still to come (`Eventual`) is that of the outcome. `SeenInv`: while the client
listens, what `responseLogger` noted is what was written; this needs
`HeaderFirst`, because of two statuses net/http keeps the first and
`responseLogger` the last. `AnswerInv`: what is sent is what was written, and
what was logged of it is that, filtered. What a handler may call is a finite
enumeration, of which `HandlingsFacts` takes what the steps need; there is one
lemma per action (`...Keeps`).

**Logged requests.** `RequestsAreTrimmed` says what must be left of a dump, not
how. `ElidedFacts`: the body is cut behind the first blank line, which stays
where it is, so the headers are found again after eliding and nothing of the
cut body passes for one. `KeptFacts`: up to token *n*, what is kept is the
request line and the listed header lines, each with its line end, and has no
blank line (`Joined`), by the same kind of induction as above; `AllowlistFacts`
puts the blank line and the body behind it, `FilterFacts` unrolls the loop over
the filters and `FilterTrims` puts both together. `RequestsLogged` is the
invariant: what the log has of a request is `Filter` of its dump, which nobody
changes once it is accepted (`KeepsDumps`).

Only model-checked: liveness (`Converges`, `DiffReturns`), which is out of the
reach of TLAPS, and what `NomsJSON` computes, that is, that its `ToJSON` and
`FromJSON` satisfy `RoundTrips`: they are recursive over data, and
tlapm cannot reason in a module with `RECURSIVE` operators. Every other property
of a passing run is a theorem.

## What is not modelled

- of `util/noms/json`: texts that do not parse (to `DiffServer` a failed fetch:
  `err` is set and nothing stored), kinds of values that JSON has not, and the
  wrappers `Value`, `List`, `Hash`, `Spec`. Apart from `KVPatch` the models take
  values to be canonical.
- `db.DB.Reload`, which no handler calls.
- of `util/loghttp`: the dump of outgoing requests, which nothing reads, log
  levels, and what other text a log line has.
- templates of signup, formatting of IDs and checksums, response headers,
  protocol versions 0 and 1, which pull refuses.
- Noms itself: chunk storage, its merging of changes to other datasets, garbage.
- of `cmd/diffs` and `api`: flags, credentials, versions, profiles. The channel
  for signals has no buffer (`cmd/diffs/main.go:95`), so that a signal may be
  dropped while the goroutine is not yet waiting; the model lets any be.
- `util/*` otherwise: no state.

## The plan

Done, in this order: `DiffServer` with its abstract specification (the pull
protocol is the point of the system), `KVMap` with its proof, `Accounts` with
its abstract specification, `KVPatch` with `JSONPointer` and `NomsJSON`; then
panics, `HTTPServer` with `LogFilters`, and the proofs of all safety properties
of all of them, with both refinements.

Next:

1. proofs: that `NomsJSON` keeps values, with its operators as recursive functions.
2. model: the early refusals of `DiffServer` composed with `Accounts`; texts that
   do not parse in `NomsJSON`.
3. runs: larger instances of `KVPatch`, and of `DiffServer` with two keys under
   races.

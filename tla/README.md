# A TLA+ verification of the artifact-handoff resolver

The resolver is a Go service that records which artifacts the nodes of a pipeline
Run produced and where copies of them are, and tells a Spawner how a consumer gets
such an artifact: where to place its Pod and what to reuse or fetch. This directory
models the service, its SQLite store down to the statements, and the server process;
it model-checks them on small instances with TLC, and proves with TLAPS, for every
instance, the safety properties, that the service implements its lifecycle specification
and that the SQLite store implements the store contract.

    tlc -workers 2 -config lifecycle_race.cfg MCLifecycle    # one run
    tlapm HandoffProofs.tla                                  # the proofs of a module

`PROJECT.json` lists the components, the runs with their properties, the lines each
definition models (`map`), the hazards, the findings and the theorems.

## The system

| Part | Code | State | Operations |
|---|---|---|---|
| Domain values | `pkg/domain/types.go` | none | validation of artifacts, locations, sources, policies |
| Identities | `internal/ids/ids.go` | none | key strings, separator check |
| Store | `pkg/inventory/store.go`, `memory.go`, `sqlite.go` | tables of artifacts, sources, node terminals, Run lifecycles | one atomic call each: put, get, list |
| Catalog | `pkg/resolver/service.go:109-380` | locals of each request | RegisterArtifact, AddSource, UpdateSourceState, VerifySource |
| Lifecycle | `service.go:939-1093` | locals, the clock, the gauge `ah_gc_backlog_bytes` | NotifyNodeTerminal, FinalizeRun, EvaluateRunGC |
| Resolution | `service.go:382-757` | locals | ResolveHandoff, planning (no target node) and on the consumer's node |
| Transports | `pkg/resolver/http.go`, `grpc.go` | none | one handler per operation, error codes, the answer on the wire |
| Process | `cmd/artifact-handoff-resolver/main.go` | servers, channels, the shutdown deadline | open a store, serve, drain, exit |

**How they interact.** Each request runs in a goroutine of its own. A handler makes
up to four store calls. A store call is atomic (`MemoryStore` holds its mutex,
`SQLiteStore` runs one `BEGIN IMMEDIATE` transaction on a single connection), but
nothing spans two calls. Between any two calls of a handler other handlers run, the
store may fail, the client may cancel, the process may restart.

**What is hard about it.**

- Handlers read a row, decide, and write the *whole* row back: a slower request
  overwrites a faster one (`service.go:996`, `:1039`, `:317`, `:372`).
- A check and the write it protects are two calls: digest immutability (`:140`,
  `:153`), source digests (`:275`, `:278`), deleted sources (`:338`, `:372`).
- A registration is two writes, artifact and sources (`:153`, `:157`), and clients
  retry it.
- ResolveHandoff computes one answer from three reads (`:395`, `:409`, `:414`/`:489`).
- Planning and post-scheduling are two switches that must agree (`:591`, `:645`).
- The two stores differ in what they keep of a source row, and in what a restart
  leaves. `MemoryStore` hands out rows whose locations share pointers with its own,
  and deriving sources writes through them (`:778`).
- A database file may be opened by two processes, may have been written by an older
  or a newer binary, and either process may die between any two statements
  (`sqlite.go:61-268`).
- One deadline covers the drains of two servers, one after the other, and the store
  is closed behind them (`main.go:87-97`).

## The modules

| Module | Models |
|---|---|
| `HTTPSources` | the three checks a URI meets, the host allowlist |
| `Domain` | values, validation, the sources derived from an artifact |
| `Ids` | key strings as sequences of characters |
| `Inventory` | the store's calls as operators from table to table, for both backends |
| `StoreContract` | the store as its clients see it: a call is pending, takes effect in one step, is answered |
| `Migration` | opening a database file: transactions, schema steps, crashes, several processes |
| `SQLiteStore` | the calls on that file, statement by statement |
| `SQLiteContract` | the mapping under which `SQLiteStore` implements `StoreContract` |
| `Lifecycle` | terminals, finalization, GC evaluation, gauge, clock |
| `Catalog` | registration and sources, and what their clients are told |
| `Resolution` | the decision of ResolveHandoff as operators on what it has read |
| `Placement` | one consumer: its plan, then the check on the node where it landed, as received over gRPC |
| `Handoff` | everything together over one store, with ResolveHandoff's reads |
| `HandoffLifecycle` | the mapping under which `Handoff` implements `Lifecycle` |
| `Server` | the process: start, two servers, signal, drains, exit, with requests in progress |
| `MC...` | instances for TLC; `MCMissing` adds a history variable to `Handoff` |
| `LifecycleProofs`, `CatalogProofs`, `HandoffProofs` | theorems about the module of that name |
| `RefinementProofs` | `Handoff` implements `Lifecycle` |
| `DatabaseProofs` | theorems about `Ids` and `SQLiteStore` |
| `ContractProofs` | `SQLiteStore` implements `StoreContract` |
| `ServingProofs` | theorems about `Server` and `Placement` |
| `DomainProofs` | lemmas on validation, derived sources and answers |

**Correspondence.** A table is a function from all keys to a row or `None`. A request
in flight is a record of its locals and a program counter, one per worker (`lc`,
`cat`, `hr`); a worker is a goroutine. An action is the code from one store call up
to the next, the write included, so interleavings of actions are the interleavings
of store calls. `...StoreError` ends a request at any call, as every `if err != nil {
return }` does; `...Restart` drops all requests and, on the memory store, all tables.
The definition named like a store method is that method; the one named like a service
method is the part of it up to its second store call. Definitions marked `Mutant` are
plausible bugs; each replaces the definition that follows it to show that a property
notices. No specification uses them.

`Catalog` keeps the answer of a request (`pc = "reply"`, `err`) until the next one, so
that properties can compare what a client was told with what the store holds;
`toGRPCError` gives the code of an error's class.

**Two refinements.** `Lifecycle` sees a registration as one step, `CommitArtifact`.
`Handoff` replaces it by the registration of `Catalog`. Its refinement mapping takes
the locations out of the artifacts (`Retained`), because deriving sources fills node
names in a stored row, which no lifecycle handler reads; every catalog and resolve step
is then a `CommitArtifact` or a stutter. `StoreContract` is what the handler models
assume of a store: a call that is pending takes effect in one step or not at all. It
starts from any rows, because a store may hold what earlier processes wrote.
`SQLiteStore` implements it under a mapping that reads the committed file through the
code's own queries, so a legacy row (one without `run_id`) is mapped to nothing. Both
refinements are checked and proved.

**What is abstracted.** Names, digests, paths and URIs are model values, except in
`Ids` and the database, where identities are strings. `Parsed` stands for `url.Parse`;
a URI's text may be padded, blank or malformed, and its host may be missing, unlisted
or a private address. `""` is an absent digest and `" "` one that `strings.TrimSpace`
empties. An attempt stands for a producer node and its attempt ID. A source ID is a
hash of artifact, backend and location text, taken to be injective. Timestamps of
artifacts and sources, SampleRunID, messages and counters are left out: no decision
reads them. Listings have a fixed but arbitrary order; what
`Resolution` filters out of a listing it keeps by position, so that lists of any length
can be reasoned about without recursion. The two clock reads of one
evaluation (`service.go:1028`, `:1033`) are one instant. A lifecycle request that fails
its validation returns before any write and is not a step. The clock never goes back;
Go's `time.Now().UTC()` is the wall clock, so a clock set back is outside the model.
SQLite is external: a transaction holds the one write lock and works on a private copy
of the file, and a process that dies loses the copy.

## The runs

| Run | Shows | States |
|---|---|---|
| `lifecycle_race` | two handlers on one Run, errors, restarts: eligibility is justified, counts never overstate | 488 000 |
| `lifecycle_serial` | one handler, two Runs, sizes that overflow: deadline and eligibility are final, the gauge is never negative and is some Run's stored total, Runs do not mix | 1 011 000 |
| `lifecycle_progress` | two workers on one Run: a finalized Run becomes eligible, unless overlapping requests overwrite its finalization | 304 000 |
| `catalog_race` | two catalog requests on two artifacts, client-chosen source IDs, errors, restarts: digests immutable, sources valid and in agreement with their artifact, owners fixed, answers OK and AlreadyExists true | 95 000 |
| `placement` | plan and check agree for every policy, digest and list of at most two sources; candidates usable under the allowlist; a plan says where a local copy is | 67 000 |
| `handoff` | answers from three reads stay true while registrations and GC go on; the service implements `Lifecycle` | 353 000 |
| `database` | two processes on one file: no half migration, legacy rows kept and hidden, refused files untouched, opening ends, the calls implement `StoreContract` | 102 000 |
| `server` | no request is cut, and none meets a closed store, before the deadline; a signal ends the process | 15 000 |

Four runs are expected to find a violation: each checks one sentence of the
repository's documents, comments or tests that the code does not keep.

| Run | Sentence | What happens |
|---|---|---|
| `lifecycle_race_gc` | "A resolve after this point must observe GC_EXPIRED" (`service_concurrency_test.go:374`) | an older, slower request overwrites the eligibility |
| `catalog_verify` | "deleted sources are not verifiable" (`service.go:339`) | a deletion during a verification is lost |
| `catalog_retry` | "same key + same digest = idempotent OK" (`service.go:134`) | a retry resets deleted or stale sources to ready |
| `handoff_missing` | "producer succeeded but artifact not registered" (`README.md:45`) | a producer that registers and ends between two reads is answered MISSING |

`lifecycle_serial` checks the property of `lifecycle_race_gc` too: it holds when
requests for a Run do not overlap, and fails when two do. `RetentionFixed` and
`BacklogHasARun` depend on the same condition, and `FinalizedBecomesEligible` states it:
an EvaluateRunGC that read the Run before a FinalizeRun, and writes after it, takes the
finalization back (`service.go:1039`), and the Run stays blocked until it is finalized
again. `lifecycle_progress` has two workers, so that this happens, and its property says
that nothing else can keep the Run from becoming eligible. `EligibilityIsFinal`,
`RetentionIsFixed` and `BacklogIsSomeRuns` below prove that the condition is enough for
the other three. A total of three or more sizes may wrap to a positive number; the gauge
then reports the wrapped total that the lifecycle stores, and `BacklogHasARun` says no
more than that the two agree.

**Bounds and why they are enough.** Every race here is between two requests on one
row, so two workers and one row show it; `lifecycle_serial` and `catalog_race` have
two Runs or two artifacts because some of their properties are about rows that must
not mix. `MinRetention = 1` with `MaxTime = 2` has instants before, at and after the
deadline, and room for a second finalization; the two larger instances,
`lifecycle_serial` and `lifecycle_progress`, have `MaxTime = 1`, which has an instant
before and one at the deadline, and room for a second finalization still. `MaxInt64 = 3`
lets two sizes overflow.
Offers include an artifact without a digest, one that completes it, one that conflicts
and one that fails its validation; sources include one in a state the resolver does not
know. `handoff` has one worker of each kind: the races
within one kind are the subject of the other runs. It leaves AddSource and
UpdateSourceState out (`SourceOffers`, `RequestedStates` empty) and registers node-local
copies only; which sources are usable is what `placement` enumerates: every list of at
most two registrable sources, ready or stale, over two nodes and an unnamed one, an
allowed host, one not on the list, a private address on the list and a URL of only a
port, and artifacts with every URI that registration lets pass. `database` starts from
a fresh file, two files of before RunIDs (one with some of the later columns) and two
that must be refused; it has two processes because the lock has one holder and one
waiter, and calls of one and two statements, of which the second may conflict with a
legacy row. Its strings are short, but contain the case that matters: a RunID equal to
an old SampleRunID, and a SampleRunID equal to the namespace. `server` has two requests
on each server, so that one may hang while another ends; each makes any number of store
calls.

The memory store, with restarts that empty it, is used in `lifecycle_race`,
`catalog_race` and `handoff`; SQLite, whose tables survive, in `lifecycle_serial` and,
statement by statement, in `database`. The proofs are about both.

**Seen while modelling, without a run of their own.** SQLite's conflict update of a
source keeps backend and digest and replaces the location (`sqlite.go:457`), where the
memory store replaces the row: `StoredSourcesValid` is a property of the memory store.
POLICY_BLOCKED is also answered on the artifact's own node when no local copy is usable
(`service.go:608`; `README.md:93` mentions another node only); `SameNodeOnlyStaysLocal`
states what the code does. A RemoteOK plan without an HTTP source is `local_reuse`
without a node (`service.go:744`; `README.md:95` says `remote_fetch`). The answer to a
SameNodeOnly check also lists remote candidates after the local one (`service.go:593`).
`binding.Required` does not change an answer: both branches give MISSING. A digest
conflict that only the store finds (a lost race, `memory.go:51`, `sqlite.go:316`), and
an ownership conflict of a registration, reach a gRPC client as Internal, where the
same conflict found by the service is AlreadyExists (`grpc.go:33`); so
`AlreadyExistsIsFinal` has no converse. HTTP answers every error of a handler with 400.
`log.Fatal` on a failing server (`main.go:84`), and a signal before `signal.Notify`
(`main.go:78`), end the process without a drain.

**Fairness.** Three runs have liveness properties.

- `lifecycle_progress`: weak fairness of the steps of a request in progress (the Go
  scheduler runs every goroutine that is not blocked, and store calls return) and of
  the clock. Requests are clients' choices and are not fair; the property assumes that
  EvaluateRunGC is called again and again for the Run, that store calls succeed
  (`Faults = FALSE`) and, for its first half, that requests of one Run do not overlap
  (`[]OnePerRun`). Deadlines beyond the bound of the clock are left out.
- `database` (`DatabaseFairness`): a process that is opening the file, or is in a
  transaction, takes its next step: a statement returns, a wait for the lock ends with
  `busy_timeout`, and nothing between two statements waits for anything else. Making
  calls, dying and failing are not fair.
- `server` (`ServerSpec`): `main` takes every step that does not block, and the timer
  of the shutdown context fires. Handlers are not fair: they may hang for ever.

Deadlock is checked in every run: some request can always be made, and a process that
has ended can be started again.

## The proofs

All proofs assume only what the named `ASSUME`s say of the constants: the sets of Runs,
attempts and outputs are finite, bounds are natural numbers, `None` is none of the
values, offers are artifacts, the separator is in no namespace. Workers, keys, digests,
URIs, sizes, requests and the retention are otherwise arbitrary; stores may fail and
restart. TLC evaluates every `ASSUME` on the instance of the runs. Where a theorem needs
more, its statement says so, and it is explained here.

**`LifecycleProofs`.**

- `LifecycleTypeCorrect`: `LifecycleTypeOK` always holds. The work is in the byte
  total (finite, wrapped or not) and in the counts (the listings are finite).
- `GCEligibleIsSound`: `GCEligibleSound` always holds. It is not inductive, since the
  record to be stored travels in a request meanwhile, and its parts were read at
  different times. The inductive invariant `LifecycleIInv` says `LifeSound` of every
  stored record *and* of every record in flight: a finalized record has its deadline
  `MinRetention` after its finalization; an eligible one was evaluated at or after the
  deadline, not in the future, for a Run with an artifact and a terminal; its counts
  do not exceed the store's. `LifeSoundMonotone` is the heart: tables only grow and
  the clock only advances, so what justified a record when it was read justifies it
  when it is written, however many other writes came between. A restart of the memory
  store empties the tables, and with them every record.
- `SnapshotIsConservative`: `SnapshotNeverOverstates` follows from the same invariant.
- `RetentionIsFixed` (`RetentionFixed`) and `EligibilityIsFinal` (`GCEligibleStays`):
  a deadline is never moved and an eligibility never taken back, on every behaviour
  that satisfies `[]OnePerRun`: two requests of *one* Run never overlap, while requests
  of different Runs interleave freely. `lifecycle_race_gc` shows that the hypothesis
  cannot be dropped; the theorems show that nothing else can go wrong, errors and
  restarts included. They are about a store that keeps its rows (`Backend = "sqlite"`,
  or no restart): the memory store forgets everything. The invariant `SerialInv`
  compares each request with the row it will overwrite (`Fresh`): FinalizeRun only
  replaces a row that is not finalized; EvaluateRunGC carries the row's deadline; and
  where the row is eligible, the counts it has read again are not zero, so that it
  decides for eligibility again.
- `BacklogIsSomeRuns` (`BacklogHasARun`), under `[]OnePerRun` and without store errors:
  the gauge is set before the upsert (`service.go:1038`, `:1039`), and a failed upsert
  leaves it without a Run. `BacklogInv` names the Run that backs the gauge, whether its
  row is stored or about to be.

**`CatalogProofs`.** The invariant `CatalogInv` adds to the types and to
`SourceDigestAgrees` what each request in flight knows at its program counter
(`Knows`): before it puts sources, its artifact is stored with its digest; before it
writes or rereads a source, that source agrees with the stored artifact. One lemma per
store call shows that artifacts and digests are kept (`ArtifactsKept`) and that sources
keep their owners; such a step preserves what *every* request knows, so the proof needs
no case for two requests. From it follow

- `CatalogTypeCorrect` (`CatalogTypeOK`), `SourcesAgree` (`SourceDigestAgrees`),
  `HandlersFindAgain` (`NothingVanishes`) and `AlreadyExistsStands`
  (`AlreadyExistsIsFinal`), which are invariants;
- `DigestsNeverChange` (`DigestImmutable`), `OwnersAreFixed` (`SourceOwnerFixed`) and
  `AcknowledgementsHold` (`AcknowledgedIsStored`), which are action properties: only two
  steps answer OK (`OnlyTheseAnswerOK`), and each leaves in the store what it
  acknowledges;
- `MemorySourcesValid` (`StoredSourcesValid`), for the memory store. It needs that a
  registered or derived source passes the validation of its backend, and that filling
  in node names keeps it valid (`DomainProofs`). SQLite is left out because there it
  does not hold of every instance: the conflict update replaces a location and keeps
  the backend.

**`ServingProofs`, on `Placement`.** The resolver's answer is a function of the binding,
the artifact and the listed sources; the module proves facts about that function for lists of any
length, one status at a time, and `AnswersCurrent` carries them to the state machine:
`PlacementInv` says that the plan and the answer are what the resolver computes now.
`PlacementAssumption` only types the artifact and the sources. It does not say that they
passed validation: a source row that SQLite's conflict update has changed may not (see
above), and the theorems do not need it, since the resolver checks every source again.
`AnswerAssumption` says that `None` is no answer.

- `PlansAreHonoured` (`PlanHonoured`): planning and post-scheduling are two switches,
  and for every policy, digest and list they agree.
- `SameNodeOnlyIsKept` (`SameNodeOnlyStaysLocal`), `CandidatesAreUsable`
  (`CandidatesUsable`) and `PlannedCopiesAreFound` (`PlannedCopyIsFound`): a plan
  takes its node from a usable local copy, so the search on that node finds one.
- `PlacementTypeCorrect` (`PlacementTypeOK`) needs that every candidate is made from a
  listed source or from the artifact itself.

**`ServingProofs`, on `Server`.** `ServerTypeCorrect` (`ServerTypeOK`),
`ShutdownCutsNothingEarly` (`CutOnlyPastDeadline`) and `StoreClosedLast`
(`StoreOutlivesHandlers`), for any number of requests and calls. `ServerInv` says for
every place of `main` which of the two servers is drained unless the deadline has passed,
and that each error in `errCh` is that of a server that has stopped.

**`HandoffProofs` and `RefinementProofs`.**

- `ServiceImplementsLifecycle`: `HandoffSpec` implies `ImplementsLifecycle`.
  `HandoffInv` extends `CatalogInv` by two facts about the composition: what a
  registration writes was offered, and a resolve request carries the artifact it read.
  `StepRefines` takes the actions one by one: a lifecycle step is the same step on the
  retained artifacts; a catalog or resolve step is `CommitArtifact` for the key it
  writes, or changes nothing that `Retained` keeps. With it the lifecycle theorems hold
  of the service, whatever the catalog and the resolver do meanwhile.
- `HandoffTypeCorrect` (`HandoffTypeOK`) and `AnswersRemainTrue` (`AnswersStayTrue`).
  The invariant `ServiceInv` joins `HandoffInv` and `LifecycleIInv`, which are about
  disjoint requests on shared tables, with `ResolveSound`: what a resolve request has
  read so far, and what its answer says, is still true of the tables. Terminals and
  digests are write-once and an eligible Run has an artifact and a terminal, so no step
  of the others makes it false. `SourcesFinite` (only finitely many sources were ever
  put) makes a listing a sequence.

**`DatabaseProofs`, on `Ids`.** `ArtifactKeyExact`, `NodeAttemptKeyExact`: the string of a
validated identity is the string of no other components, validated or not, so no lookup
finds another identity's row. `LegacyArtifactKeyDisjoint`, `LegacyNodeAttemptKeyDisjoint`:
no Run's artifact or attempt has the key of a row of before RunIDs. The argument counts
separators and compares where they are.

**`DatabaseProofs`, on `SQLiteStore`.** Any number of processes open, migrate, use and
lose one file. The file changes by a commit or by a statement outside a transaction, so `DatabaseInv` is
mostly about the private copy that a commit will bring: since `BEGIN IMMEDIATE` it has
kept what the file had (`Kept`), and its owner's place in `sqliteMigrate` tells how far
it has got (`AtStatement`). `OfOneKind` says that a row is either of before RunIDs, under
a key of that time, or has the RunID and the key of one identity; the facts about `Ids`
keep the two apart. A process past the migration relies on the version and the columns that were
there when it looked (`PastMigration`), which `Kept` protects from all others. From the
invariant follow

- `DatabaseTypeCorrect` (`DatabaseTypeOK`), `SchemaIsWhole` (`ServingSeesWholeSchema`),
  `NeverHalfMigrated` (`StampedMeansMigrated`) and `ReadsReturnOnlyRuns`
  (`ReadsSeeOnlyRuns`);
- `LegacyRowsStay` (`LegacyRetained`) and `RefusedFilesStay` (`RefusedLeavesFile`), which
  are about every step on the file.

`MigrationAssumption` and `SQLiteStoreAssumption` say what files there are to begin with.
A file without a version was written before RunIDs: its rows have no `run_id` and have
keys made of a SampleRunID, in which, as in every component, the separator cannot occur
(`ids.go`). A file stamped `"2"` is not initial but reached by migrating one. A file of
another version may hold anything. The sources of one call have different IDs, because
`initialSourcesForArtifact` drops the second of two with one ID and every other caller
puts a single source.

**`ContractProofs`.** `SQLiteImplementsContract`: `DatabaseSpec` implies
`ImplementsContract`. `DatabaseInv` does not suffice, since it says what the private copy
has kept and not what the call in progress has written there. `CopyInv`
(`DatabaseProofs`) says just this: while a call is in its transaction, the copy is the
file with the rows of the statements executed so far (`Shows`), each computed from, and
not refused against, the row *of the file*; in a migration the copy has the rows of the
file. It is inductive with `DatabaseInv` because the file does not change while another
process holds the write lock, and because no two rows of a call have the same ID, so a
statement never meets a row of its own call. Every step then is one of four kinds:

- it changes no row and answers no one (`Quiet`): opening, migration, the statements of
  a call that are not refused; a stutter of the contract;
- it makes a call (`Made`), which is the contract's `MakeCall`;
- it ends a call without a commit (`Told`): a refused statement is the contract's
  refusal of the whole call, because the row it met is the file's; an error, a lock
  timeout or the death of the caller is `CallWithoutEffect`;
- it commits (`Took`), and the rows of all statements appear at once: the contract's
  call, in one step, with the answer "ok".

The lemmas `...Read` say what each table shows through the code's queries when a row
changes; that no upsert can reach a legacy row is needed here again.
`SQLiteContractAssumption` only says that `None` is no key and no source.

**Only model-checked.**

- Liveness: `FinalizedBecomesEligible`, `OpeningEnds`, `SignalEndsProcess` (fairness and
  ENABLED are out of the prover's reach).
- `StoredSourcesValid` is proved for the memory store, `BacklogHasARun`,
  `RetentionFixed` and `GCEligibleStays` for requests that do not overlap on a Run: there
  the property is not one of every behaviour.
- The four violations, which are single behaviours.

## Not modelled

- SampleRunID and the listings by sample (`ListArtifactsBySampleRun`,
  `ListRunLifecyclesBySample`, `LegacyDisposition`): grouping of rows for people, read
  by no decision. The two stores differ here: completing an artifact replaces its
  SampleRunID in memory and not in SQLite (`sqlite.go:325`).
- The read-only operations GetArtifact, ListArtifacts, ListSources and
  GetSampleRunLifecycle: one or two reads and no decision.
- JSON and column encodings, the field-by-field protobuf conversions of artifacts,
  sources and lifecycles, HTTP methods and status codes: stateless copies. Legacy HTTP
  artifact IDs (`http.go:304`): the alias is computed from the request it came in and
  replaced by that request's own ID.
- The environment variables (`service.go:888-915`, `main.go:99`): their values are
  constants of the models.
- Loss of acknowledged commits on power loss (`synchronous(NORMAL)`, `sqlite.go:50`),
  and processes of an older version writing to a migrated file.
- A torn write of a shared node name (`service.go:778`), undefined in Go: both writers
  write the same value.
- Metrics other than the gauge: monotone counters that nothing reads.
- The store conformance suite (`storetest`), generated protobuf code, deployment files
  and scripts: no state of the resolver.

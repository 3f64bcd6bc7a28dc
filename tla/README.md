# Verification of the community preview

TLA+ models of the Prufyx community CLI (`src/cli`), the TLC runs that check
them on small instances, and theorems that TLAPS proves for every value of the
constants. They follow the program from a cluster to an exit code and from a
rule bundle to a reader: collection, observation, preparation, evaluation and
verdicts on one side; publication, download, verification and storage of
knowledge on the other; and the commands that write files in between.

## 1. The system

`prufyx-community` answers questions about planned upgrades from *knowledge*:
signed bundles of reviewed rules. A publisher (`prufyx-maintainer`) packs a
bundle with TUF metadata into one file. An operator downloads and imports that
file into a private directory, the *knowledge store*; checks then read the
selected revision from there. `prufyx-collector` gathers facts about a cluster
with `kubectl`; an *observation* reduces them to components with versions and
predicates; an adapter *prepares* one document for one check; the *constraint
engine* judges the transition.

| Part | Where (`src/cli/...`) | State | Talks to |
|---|---|---|---|
| Knowledge store | `internal/knowledge/{import,records,store,profile,open}.go` | files, a lock, a journal | TUF verification, the admit callback |
| TUF verification | `internal/knowledge/{verifier,package,root_chain,root_cache_reset}.go`, vendored go-tuf | prior trust in, new trust out | the store |
| Database update | `internal/communityapp/knowledge_update.go`, `internal/knowledge{fetch,releaseplan}` | the reserved package file | HTTPS, the store |
| Publisher, signer, pack | `internal/maintainer/knowledge{publish,sign,pack}` | roots and roles, signed one by one | the packages the store imports |
| Command runner | `internal/localcollector/runner.go` | process group, pipes, timers | kubectl |
| Collector | `internal/localcollector` | run directory, kubeconfig copy, pages, omissions | the runner |
| Observation, current bundle | `internal/{observation,currentbundle}` | the inventory of a directory | the collector's output |
| Preparation | `internal/{cncfprepare,projectprepare}` | none | one document |
| Constraint engine | `internal/constraintengine` | none | rules, declared input |
| Checks, batch, one command | `internal/{cncfcheck,projectcheck,cncfknowledge,batchcheck,onecommand}` | none | packs, the store, the engine |
| Writers | `internal/validation`, `cmd/prufyx-maintainer/output_pair.go`, `internal/maintainer/sourcecorpus` | staged and published files | the file system |
| Release tools | `internal/maintainer/{releaseworkflow,releasegate,releasesign,releasehelpers}` | an output directory, a checkout | git, go |

What makes these hard to test: two processes and one lock; a dozen durable
writes per import, each of which can be the last; calls that fail after they
took effect, and clean-ups that fail too; a retry that starts from a newer state
than the first attempt; metadata that expires, rolls back and rotates its keys;
processes that ignore TERM and keep pipes open; a server that pages a list that
changes; directories and checkouts that change while they are read; and long
chains of pure code in which one dropped row turns an unknown into a pass.
`PROJECT.json` lists these hazards at the lines where they bite.

## 2. Modules

| Module | What it is |
|---|---|
| `TUFRefresh`, `TUFClient` | One verification, as operators; the persisted trust state under any sequence of packages at any times. |
| `KnowledgeStore`, `KnowledgeRegister` | The store with its files, lock, journal, readers, faults and deaths; and what readers rely on, without any of that. |
| `Publisher` | The offline ceremony that produces packages, beside what a consumer accepts. |
| `KnowledgeUpdate` | `db update`: reserve, fetch, sync, import, look again, report. |
| `BoundedCall`, `CommandRunner` | What one kubectl call promises, and `ExecRunner.Run` that keeps it. |
| `Collector`, `CollectorSystem` | `Collect`, over calls that are only a `BoundedCall`; the two side by side. |
| `Projections`, `ComponentSurface` | What is kept of an answer; what the workloads say of the reviewed components. |
| `ObservationImport`, `ObservationBundle` | Reading a directory that may change; reducing its rows to a bundle. |
| `PrepareWorkloads`, `PrepareServices`, `PrepareResources`, `PreparePrograms`, `PrepareProjects` | The adapters, and in the first what they share. |
| `VersionRange`, `ConstraintEngine` | Ranges and their lint; parsing rules, judging them, scope and gate. |
| `Verdicts` | Packs, rule selection, checks, scope assessment, batches, one command, exit codes. |
| `Writer` | What every writer of files shares: calls that fail, another process, a kill. |
| `OutputPair`, `RunStore`, `FileOutput` | Writers. |
| `ReleaseGate`, `ReleaseWorkflow` | Staging a source tree that may change; the release commands on one directory. |
| `Outputs` | The composition: one of the nine commands above runs per behaviour. |
| `Cases`, `CollectorSurfaces`, `ConstraintCases`, `PrepareCases` | One step applies one pure computation to one bounded input. |
| `MC*` | The instances for TLC. |
| `KnowledgeStoreProofs`, `KnowledgeStoreHistory` | Proofs about the store: floors, register and files; then, on top, receipts, statuses and the journal. |
| `TUFRefreshProofs`, `AlgorithmProofs` | Proofs about one verification; about the trust state over many of them, and version ranges. |
| `CollectorProofs` | Proofs about the runner and the collector. |
| `WriterProofs`, `CommandProofs`, `OutputsProofs` | Proofs about the commands that write: what each keeps true from step to step, in the first two; the theorems about the composition. |

### TUFRefresh

Signed metadata is content addressed, so a hash is the value it names: a
timestamp record contains its snapshot, the snapshot its targets, the targets
their bundle. Keys are one value per kind of role (`uk` for timestamp and
snapshot, `tk` for targets); `linked` says that a root is signed by its
predecessor and itself. `Hops` is the number of successors `loadRoot` consumes;
`RotatesUpdateAuthority` is the cache reset of `root_cache_reset.go`.
`LoadTimestamp`, `LoadSnapshot` and `LoadTargets` follow `updater.go` and
`trustedmetadata.go` branch by branch. Each distinguishes the role held in
memory from the one in the metadata directory, because go-tuf assigns an
expired timestamp or snapshot before it refuses it; `lost` is the case in which
`materialFromTrusted` finds a trusted role without bytes. Root policy, tar
framing, JSON strictness, lengths and thresholds are not modelled here.

### KnowledgeStore and KnowledgeRegister

| Variable | File or code |
|---|---|
| `marker` | `profile.json` |
| `trustCur` | `trust/current.json` |
| `stateFiles` | `trust/states/<digest>/`: the state record and its role files |
| `pending` | `import-pending.json`, the journal |
| `selection`, `admFiles` | `selection.json`; `admissions/<bundle>/<receipt>/{target,trust-receipt,trust-state}.json` |
| `clockFloor` | `clock-floor.json` |
| `litter` | a `.write-*` file of an interrupted write in the store root |
| `holder` | the `flock` on `.lock` |
| `pc`, `call`, `work` | the position and the locals of each call |
| `res`, `opened` | the latest receipt; the revision the latest current reader got |

An action is the code between two durable writes, with the write at its end.
With `Faults`, a write may fail having taken effect or not (`store.write`
reports the failure of the directory sync after the rename). `Crash` is the
death of a process at any point: the kernel drops the lock, and a write in the
store root that was cut short leaves `litter`. Nothing else about a death needs
modelling: every file is written under a temporary name and renamed. The role
files of a state are written by one step, since a reader needs all of them.

A time is a tick; a stored time is `Sec(t)`, rounded down as RFC 3339 does. A
call that reads the clock gets any instant, so clocks may jump in both
directions. Digests are the values they identify. The admit callback is the
function `Admission`; a bundle with revision 0 is one it refuses.

The register has `current` (a revision on offer, or none), `high` (the highest
ever admitted) and `served`. The mapping: `current` is the selection when there
is no journal and the trust pointer is the selection's state; `high` is the
revision floor in the trust pointer's state; `served` is `opened`.

### Publisher and KnowledgeUpdate

`Publisher` is the producer of the packages that `TUFClient` consumes. Keys, a
first root and its successors, the three roles: each is prepared, signed and
finalized by a call of its own over files that an operator carries, so files of
different sessions, bundles and roots can meet. `Admits` is what
`publish package` checks before it stages a package, its limit of eight successor
roots included; `ConsumerAccepts` is the verification of `TUFRefresh`, on the
same documents.

`KnowledgeUpdate` is `db update`. The output file is reserved before the fetch
and is then `empty`, `part`, `whole`, `synced`, `durable`, `altered`, or
somebody else's. The
fetch may be redirected, cut short or too large; a power loss undoes what was
not synced; another process may replace the file before the last look. The
import is the outcome that the store modules allow, with or without a change.

### CommandRunner, Collector and CollectorSystem

`CommandRunner` has `Run` (`phase`), its waiting goroutine and its channel
(`waited`), the context (`expired`), the leader and one descendant of the
process group, and the capped buffer. A descendant is `attached` while it holds
the pipes and `detached` when it closed them. TERM may be ignored, KILL may not,
and every timer may fire at any later moment, so the races between an exit, a
cancel and the grace period are all there.

`Collector` walks through `Collect`: options, the kubeconfig read between two
stats, its private copy, one step per query and context with its omission row,
the CRD list page by page under a budget, the component surface, the manifests,
the removal of the copy. Writes and removals may fail, the process may be
killed, the operator's file may change, and the API server may move to another
version while it pages. A call to kubectl returns whatever a `BoundedCall` can
return. `CommandRunner` is shown to be a `BoundedCall`, so the two are checked
side by side and not as a product.

### Projections, ComponentSurface, ObservationImport, ObservationBundle

A JSON value is absent, of the wrong type, empty, or a value; an item is a
record of the values at the paths the code reads. A projection rejects the
answer or keeps rows; sorted rows are a bag. `ComponentSurface` merges the
containers of all workload files into what is said of a reviewed component, or
into an omission that names the file; a role that another workload makes
ambiguous is an omission too.

`ObservationImport` lists a directory, reads it through its two manifests and
lists it again, one step per entry and read, while another process changes it.
An entry has a content and a stamp, the identity the code compares; that
includes the change time, so an edit always gives a new stamp.
`ObservationBundle` reduces the rows of a context to one row per component and
converts them into the canonical bundle, which is validated again.

### The adapters, the engine and the verdicts

An adapter reads one document. The models keep which readings it makes, in
which order, and what it concludes; a reading is a value, `absent`, or `odd` for
anything of the wrong type, duplicated, misspelt or unresolved. Where an adapter
follows the lexical order of a program (flag parsers, Python and Fluentd
sources, Corefiles), the model reads a sequence token by token.

`VersionRange` has the matcher, the guards of a reviewed range and the overlap
lint over triples of parts up to `MaxPart`. `ConstraintEngine` has the checks of
the parsers, the verdict on a rule, the partition of a document against the
declared scope, the aggregate, and the gate that derives it again. `Verdicts`
has packs, rule selection, the embedded and the external check, scope
assessment, batches and the one-command classification. Identifiers are
numbers, so that ordering checks mean what they mean for strings; a project and
its component have the same number; one `Registry` stands for the fact
registries of both kinds of pack; digests are content; reason codes, wording and
suggested next actions are left out.

### Writer, the writers and the release tools

`Writer` is shared: a program counter, the result, and two budgets, `MaxFaults`
for system calls that fail and `MaxEdits` for steps of another process. Each
writer has one action per system call, its restore and clean-up calls included:
`OutputPair` (`writeOutputPair`), `RunStore` (stage, profile check, reserve,
copy, commit, abort; the clean-up looks, empties, removes and closes in steps of
their own), `FileOutput` (the four ways a single file is written, and
`writeTree`). The other process may take a name, replace what is there, or give
it back, between any two calls.

`ReleaseGate` derives a manifest and stages it while the tree is edited. Its
policy has two schemas, and only the second binds the captured bytes.
`ReleaseWorkflow` runs binary, source, finalize, verify and sign in any order,
any number of times, on one directory, with failures, kills and a checkout that
moves; the content of a file is what it was derived from. In `Outputs` one of
the nine commands runs in each behaviour: they share no state but the budgets.

## 3. Runs

| Run | Instance | Result |
|---|---|---|
| `store_faults` | one process at a time, faults, deaths, marked profile, instants 0..3 at two per second, three packages of which one expires at 2 and one reuses revision 1 for another bundle, both readers | 290,482 states; passes |
| `store_concurrent` | two processes (symmetric), deaths, a root-rotating package asked for with and without a release plan | 383,262 states; passes |
| `store_recovery` | liveness: deaths stop at some point, requests are repeated, packages expire on the way | 52,289 states; passes |
| `tuf_client` | several hundred packages: complete, broken, expiring, older, rotating either key, rotating and back, skipping a root, unsigned root, more roots than the limit; instants 0..2 | 1,162 trust states; passes |
| `collector` | the runner with an output limit of 3 chunks; the collector with two contexts, two base queries, one cert-manager query, three versions of a CRD list of 3 or 4 items in pages of 2, one rewrite of the kubeconfig | 350,003 states; passes |
| `outputs` | nine commands, two faults, two steps of another process, three edits of the release tree, two commits of the same second, two root templates | 2,887,590 states; passes |
| `checks` | the pure computations, one input per behaviour | 608,573 states; passes |
| `rotation_retry`, `bootstrap_retry`, `expired_package`, `run_root`, `release_derivation` | the instances above, or smaller | the disagreements of section 5 |

**The store.** `PointersResolve` and `HistoricalAvailable`: whatever was cut
short, what is pointed to exists, and what was once admitted stays replayable.
`JournalMatchesStore`, `JournalResumable`, `ExactRetryImports` and `Recovers`:
the journal explains the store, the exact retry is taken, it loses nothing, and
repeating it removes the journal, unless its package expired before a retry
could verify it. `FloorsMonotone`, `ServedMonotone`: time, revisions and what
readers saw never go back. `ReceiptTruthful`: a receipt says what changed on
disk, with two processes too; the receipt of a failed write compares with where
its journal began, so it also reports what earlier calls of that journal did,
and never less than its own. `ReadyIsServable`: READY from `Inspect` means that
`OpenCurrent` succeeds at that instant. `ImplementsRegister`: all of it is the
register.

**Trust metadata.** `RolesAuthorized`, `RolesMonotone`, `RefreshIdempotent`,
under packages in any order.

**The collector.** `RunIsBounded` (a refinement), `GroupReaped` and `CallsEnd`
(liveness) for a call; `NothingSilentlyMissing`, `ListOfOneVersion`,
`SnapshotNotTorn` and `LeavesNothingBehind` for a collection.

**The commands that write.** `PairAllOrNothing`, `RunAllOrNothing`,
`FileAndTreeWhole`: what is on disk agrees with what was returned, in every
combination of two faults, a kill and another process. `ForeignUntouched`: no
clean-up removes what somebody else put there, but for the three steps listed
below. `UpdateTruthful`: the store never
runs ahead of the package on disk, and the report says what happened.
`StagedAsBound`, `ImportStable`: what was read while it changed is used only if
it did not. `SignedDerives`: a signed directory derives from its commit, as far
as the code checks it. `PublisherAgrees`: publisher and consumer admit the same
packages.

**The computations.** `NoItemDropped`, `SurfaceFailsClosed`, `ObservationSound`,
`PreparationFailsClosed`: nothing is lost silently between an answer and a fact,
and what could not be read never counts as harmless: a component that runs is
in the surface or is an omission of its file. `RangesSound`,
`ScopeVerdictSound`, `GateAgrees`, `VerdictsTruthful`: a verdict, an aggregate
and an exit code are compared with reference definitions that quantify over the
rules directly.

**Bounds.** Store: two ticks per second and four instants give times inside one
second, in the next one, at an expiry and after it. Three packages give a
bootstrap, a successor and a conflicting reuse of a revision; requests repeat
without bound. One process at a time loses no interleaving of work under the
lock, which is exclusive for any number of processes (`TypeCorrect`). A root
limit of 2 stands for 8: there are chains below, at and above it in
`tuf_client`; the packages of the store runs stay below it. Runner: a
limit of 3 and 5 chunks overflow the buffer; one descendant of each kind is
every way in which the group can outlive its leader. Collector: three versions
of the list are enough for a change at each of the page boundaries, for a list
that grows past its limit and for a repeated token. Outputs: two faults are the
failing call and a failing clean-up of it; two edits let another process take
a name and give it back. Checks: items deviate from a good one in one field,
lists have up to two items, so that a duplicate and a conflict exist; versions
lie on both sides of each bound; packs have two rules.

**Exemptions** that the properties name: `AtExpiry` (a receipt verified in the
very second a role expires, which the refresh accepts and the receipt check
refuses), `Oversized` (more successor roots than one refresh consumes), an
overflowing output in `GroupReaped` (the run returns on the leader's own end),
`Unverifiable` in `Recovers` (no instant the floor admits verifies the journal's
package), and the second faults and the edits in `Outputs`. `ForeignUntouched`
leaves out exactly three steps: the writer whose task is to replace a file, the
undo of an exclusive create, which unlinks by name, and the removal of a stage
name that was taken after the last look. `RunAllOrNothing` and
`FileAndTreeWhole` allow a directory that was made and could not be opened: no
clean-up of the code takes it.

**Fairness.** Store: a call that runs goes on (the code waits only for the lock,
and that times out); the operator repeats every request, also at moments when
the clock is not behind the floor, as the documentation tells them to; processes
eventually stop dying. Collector: Go's scheduler runs `Run`, its goroutine and
`Collect`, and the clock runs (weak fairness of `RunSteps`, `CollectSteps` and
`Timers`). Nothing is assumed of processes, server or disk. No safety property
uses fairness.

**Deadlock** is checked in the store and trust runs. The commands of
`collector`, `outputs` and `checks` end, so it is off there.

## 4. Proofs

### The store

For any set of processes, requests, packages and admissions, any clock
resolution and horizon, with or without faults and the marker. The named
assumptions of `TUFRefresh` and `KnowledgeStore`: a clock resolution of at least
one tick, natural bounds, an absent value that is no process, requests of a
known kind whose files have versions and expiries, an admit callback with an
answer for every bundle that is imported.

All of it rests on one reading of the next-state relation. `StepTable` says what
a step can be: some process enters a call (`Enters`), leaves one (`Leaves`, also
by dying), or moves inside one (`Inner`, a line per action with the program
counters before and after); everybody else stays where they are. `Writes` says
which durable file each line may change and to what. An invariant is then proved
once for the process that moves, and the others follow because only the holder
of the lock is inside.

- **`TypeCorrect`** (`TypeOK`) and **`FloorNeverBack`**. The inductive invariant
  is `Shape /\ Clock`. `Shape` adds the fields of the two local records, and
  that whoever is past `idle` has a request. `Clock` carries the clock
  comparison, made once when a call starts, to the writes that rely on it
  several steps later: only the lock holder writes the floor, so it is still
  what was compared. `SecMonotone` is the arithmetic: rounding down cannot take
  an instant below a stored floor.
- **`FloorNeverLowered`**, with the former **`FloorsNeverBack`**
  (`FloorsMonotone`), and **`ServedNeverBack`** (`ServedMonotone`). The invariant
  is `Trust`: `Held` (the trust pointer's floor is at or above everything
  served, and a selection is exactly the revision its state's floor names) and,
  per process, `InCall` (until it publishes, the pointer is the one it found or
  set itself, and the state in its hands has that floor or a raised one). The
  properties alone are not inductive: the floor that the pointer will get sits
  in `work` long before. Of the verification, only `VerifyState` is needed: it
  hands the floor on unchanged. `AdmitRaises` is `enforceRevisionFloor`.
- **`PointersAlwaysResolve`** (`PointersResolve`). The invariant `Complete` adds
  `Written`: what each process has already put on disk of what it is about to
  point to. Files are never removed, so a death keeps it.
- **`StoreIsRegister`** (`ImplementsRegister`). By `JournalStep` and
  `RegisterStep`, every step of the store is a step of the register or leaves it
  alone: the floor is raised only under a journal, while nothing is on offer; a
  selection goes on offer only by removing the journal.
- **`ReadyAlwaysServable`** (`ReadyIsServable`). The invariant `Ledger` keeps,
  per process, what it has changed so far beside what is on disk (`Accounts`).
  Its one surprising part is the second persistence: it starts from a pointer
  with the floor the call found, so it cannot turn the pointer back to what it
  was and make `trustAdvanced` false again. `Books` says that a selection is a
  receipt of the past for the bundle it admitted, which is what `Inspect` and
  `OpenCurrent` check in different orders.
- **`ReceiptsTrue`** (`ReceiptTruthful`), receipts of success and of failure.
  `Ledger` is enough for the first. A failure receipt compares the pointer with
  the one the journal began with, possibly many calls ago, so a pointer that
  moved away and came back would be reported as unchanged. `Ancestry` excludes
  that: pointer and state in hand descend from the beginning by verifications of
  the journal's own package and by raised floors (`Lineage`, `Traced`), and by
  `NoReturn` such a descendant that left the beginning never becomes it again.
  What it needs of a verification is `VerifyProgress` in `TUFRefreshProofs`.
- **`AlwaysHistorical`** (`HistoricalAvailable`). The binding is the last file
  of an admission. The invariant `History` says that where there is a binding,
  the other files are there, the state is complete, and the receipt repeats what
  request and state agreed on when no role had expired (`Bound`), and carries
  that agreement from `Admits` to the binding (`Agreed`, `Vouched`). It uses
  `SoundState` of the trust metadata, so here the verification matters.
- **`JournalAlwaysMatches`** (`JournalMatchesStore`) and
  **`JournalAlwaysResumable`** (`JournalResumable`). The invariant `Journal` says
  that the pointer is one of the three states the journal names (`Explained`)
  and that verifying the same package again cannot move the state that is being
  published (`Settled`). The second part is what the code silently relies on: a
  retry verifies again, starting from the newer state, and
  `updatePendingAccepted` overwrites the journal's `accepted` before the pointer
  follows. If the second verification went further than the first, a death
  between those two writes would leave a pointer the journal does not name.

The last two theorems have two hypotheses, because without them the properties
are false; both came up while proving.

1. `Repeatable`, on the package of the journal at hand, and on no other: no run
   of more successive roots than one refresh consumes, and no other snapshot
   with the version and key of its own. This is a condition on the input, not a
   fact about the code. The store admits a package with twelve successor roots
   and a refresh consumes eight (`publish package` of this repository issues
   at most eight, `rotated_package.go:34`). Import a longer package and die after
   `publishTrustPointer`, before `updatePendingPublished`. The retry is admitted
   by the journal's `accepted`, consumes the rest of the chain, and overwrites
   `accepted`; let it die before its pointer. The pointer is now none of `prior`,
   `published`, `accepted`, and `beginImportTransaction` (`records.go:78`)
   refuses every later retry: the advice of `docs/knowledge-database.md:27`
   ("retry the exact original signed package") no longer helps. On an instance
   with a limit of one root and a package with two successors, TLC reaches the
   violation of `JournalMatchesStore` in 51 states, a first import included. The
   listed runs have no such package, and the theorems say nothing of its journal;
   journals of other packages in the same store are covered.
2. `OffExpiry`, on the clock. The floor keeps whole seconds. A call in the second
   half of the second in which a role expires, followed by one in its first half,
   sees a valid role after an expired one. Such a clock goes back within the
   second, which the floor cannot notice. TLC reaches this violation too, in 51
   states, with two ticks per second, targets that expire on a whole second and
   a clock at 3 and then at 2. With whole-second clocks the hypothesis holds by
   itself.

### Trust metadata

For any packages, instants and root limit, from the assumptions that every file
has a version and an expiry and every file it refers to a version
(`BootAssumption`, `FilesAssumption`). What one verification guarantees is in
`TUFRefreshProofs`, which the store's proofs use too; `AlgorithmProofs` has the
invariants. The run shows the three properties for a universe chosen by
hand; the theorems say that the choice did not matter.

- **`RolesAlwaysAuthorized`** (`RolesAuthorized`) and **`RolesNeverBack`**
  (`RolesMonotone`). The inductive invariant `SoundState` says more than either:
  a snapshot is no newer than the stored timestamp says, and targets no newer
  than the stored snapshot says. Without that, a snapshot taken over from a newer
  timestamp could be older than the stored one. `TimestampStep`, `SnapshotStep`
  and `TargetsStep` are what one load guarantees; `CacheSound` is why the reset
  on a change of keys is needed; `LongestChain` is why the root loop has an end,
  by the well-foundedness of the naturals.
- **`RefreshAgainSame`** (`RefreshIdempotent`). By `RootAgain`, a chain consumed
  to its end is not consumed again, and a refused root is refused again. Then
  each role either is the stored one, so that the load is the same call, or
  replaced it, and is found up to date (`TimestampLater`, `SnapshotLater`,
  `TargetsLater`, combined in `VerifyLater`).

### The runner and the collector

**`GroupAlwaysReaped`** (`GroupReaped`) and **`RunnerIsBoundedCall`**
(`RunIsBounded`), for any output limit, from `RunnerInv`. `Delivered`: a nil in
the channel means that the leader ended well, that no descendant holds the pipes
and that the buffer has everything. `GivenUp`: a run that drains or has given up
has killed its group, and a killed group has nobody left (`KillEmptiesGroup`).

The collector's theorems hold for any number of contexts, any queries, any
history of the CRD list, any page limit and any number of rewrites, moves of the
server and failed writes. The assumptions: there is a context
(`ContextsAssumption`); the queries are two lists of distinct file names, none
of them one of the collector's own files, as the literals in `collect.go` and
`capture.go` are (`QueriesAssumption`); a version of the list is a list, and a
page has room for an item (`ListAssumption`). The inductive invariant is
`CollectorInv`, whose parts need one another:

- **`SnapshotNeverTorn`** (`SnapshotNotTorn`), from `OneVersion`: versions of the
  operator's file only grow, so what was read between two equal stats is of one.
- **`NothingLeftBehind`** (`LeavesNothingBehind`), from `Tidy`: which of run
  directory, copy and manifest exist at each step, and that every context before
  the current one is closed.
- **`NothingEverMissing`** (`NothingSilentlyMissing`). The property speaks of a
  closed context only. `Accounted` says what holds of an open one: the surfaces
  handled so far (`Handled`, by program counter and query index) are exactly its
  files and omission rows, each once (`Tally`). `Types` keeps the index inside
  its list. `Gapped` is the same for the gaps of the component surface. A step
  of the body handles exactly the next name (`QueryHandles`), and the names are
  distinct, so that a row is never a second one.
- **`AlwaysOneVersion`** (`ListOfOneVersion`), from `Paged`: what was collected
  so far is the head of the list at the version of the first page, up to where
  the token points. `GoodPage` says that a page that is not refused continues or
  completes it.

### The commands that write

For any budgets `MaxFaults` and `MaxEdits` (`WriterAssumption`): the runs allow
two of each, the theorems any number. A command is sequential, so each invariant
says what is on disk before each system call. `OnePart` and `PartSteps` say that
one command runs in a behaviour and the others stay as they began. That each
command's invariant begins true and every step keeps it is shown of the command
alone, in `WriterProofs` and `CommandProofs` (lemmas `...Begins` and `...Kept`);
`OutputsProofs` lifts it to the composition.

- **`PairAlwaysAllOrNothing`** (`PairAllOrNothing`), from `PairInv`: where each
  old file is (`AsFound`, `Aside`), where each new one is, and which of the two
  names another process may have taken. The restore path is reached with one
  fault already spent (`Failed`), which is why only a second one excuses it.
- **`RunAlwaysAllOrNothing`** (`RunAllOrNothing`), for any artifacts and limits
  on their number (`RunAssumption`: the artifacts of the workflow, of a decision
  run and of its reports are some of them). `RunInv` relates what was staged,
  what was created and what was recorded for the clean-up (`Recorded`). The one
  file that can be created and not recorded is the one being copied, and the one
  directory that can be reserved and not cleaned is one that could not be
  opened: disagreement 4 of section 5.
- **`ForeignAlwaysUntouched`** (`ForeignUntouched`), an action property, from
  `RunInv` and `FileInv`: but for the three steps named in section 3, a clean-up
  removes a name only after it looked and found its own.
- **`AlwaysFileAndTreeWhole`** (`FileAndTreeWhole`), for any number of files in a
  tree (`TreeAssumption`: at least the receipt). `TreeInv` says that the files
  recorded for the clean-up are the first so many (`TreeUpTo`): they are created
  in order and removed from the end, so that the receipt is last in and first
  out. A receipt whose own removal failed is the exception, and then the result
  is never COMPLETE.
- **`UpdateAlwaysTruthful`** (`UpdateTruthful`). `UpdateInv` carries the two
  checks of the output path (`PlacesApart`) and the sync of the package
  (`Secured`) up to the import.
- **`AlwaysStagedAsBound`** (`StagedAsBound`). `GateInv` says that the blobs in
  memory, not the tree, are what is staged and, under the second schema, are
  bound to the policy (`BoundBlobs`).
- **`SignedAlwaysDerives`** (`SignedDerives`), for any platforms, commits, commit
  times and legal texts; `ReleaseAssumption` says that no platform has the name
  of another asset or of a command. `Phases` says which command is at which
  step. `Summed`: while there are sums, all archives exist, so that no command
  that writes one passes its preflight. `Attests`: as long as the checkout has
  not moved, tree, revision and staged copy are one commit, and what the
  statement in the making or on disk says of its files is true (`Attested`).
  What a statement says depends on the covered files alone (`DerivesCovered`),
  so a statement that still covers the directory is true of it.
- **`ImportAlwaysStable`** (`ImportStable`). A change gives an entry a stamp that
  it never had (`Stamped`), so what changed since its first look has another one
  at its second (`Shifts`), and one inventory looks at every entry once
  (`Walking`). Between the two, what was read so far is what the manifests list
  less what is queued, with the digests they name (`Reading`, `RootRead`,
  `AllRead`).

### Version ranges

**`RangeUpgrades`**: a range that `validateRange` admits matches strict upgrades
only and covers its own anchor. **`LintComplete`**: two rules that match one
transition are reported by the pack lint. For any versions, bounds and
`MaxPart`; the lemmas on the order of triples are in `AlgorithmProofs` too.

**Only model-checked:**

- Liveness (`Recovers`, `CallsEnd`): fairness and ENABLED are out of the prover's
  reach.
- The computations of `checks` but for the ranges (`NoItemDropped`,
  `SurfaceFailsClosed`, `ObservationSound`, `PreparationFailsClosed`,
  `RangesSound`, `ScopeVerdictSound`, `GateAgrees`, `VerdictsTruthful`): they
  compare recursive definitions over lists with reference definitions, which
  takes induction over data. `RangeUpgrades` and `LintComplete` are the part of
  `RangesSound` that needs none.
- `PublisherAgrees`: the publisher's check and the consumer's root loop unfold
  chains of roots by recursion, and the property compares what both compute.
- `ExactRetryImports`: it holds for packages without a root rotation and is
  refuted for the others (section 5), so there is no statement about every value
  of the constants to prove.

## 5. Disagreements found

1. **A rotating package cannot be retried** (`rotation_retry`).
   `docs/knowledge-database.md:27` tells the operator to retry the exact
   package. If the first attempt got as far as the trust pointer, the retry
   starts at the rotated root, never fetches the package's root member, and
   `ensureAllPackageMembersUsed` (`verifier.go:529`) refuses the package. The
   journal is cleared and the revision stays out until a package without that
   root is published.
2. **A bootstrap that died inside a write cannot be retried**
   (`bootstrap_retry`). The temporary file left in the store root fails
   `pendingRecoveryShapeForProfile` (`store.go:110`) although `Inspect` asks for
   exactly that retry (`open.go:266`).
3. **An expired package leaves a journal silently** (`expired_package`). The
   failure at `import.go:229` carries no `ErrRecoveryRequired`, against
   `docs/cncf-knowledge-database.md:80`.
4. **A failed commit can leave an incomplete public directory** (`run_root`).
   A file that `copyPublishedArtifact` (`run_store.go:556`) created and could not
   finish is not handed to the clean-up, so the directory stays, against the
   comment on `NewRunStore` (`run_store.go:122`). A directory that was reserved
   (`run_store.go:672`) and could not be opened stays as well.
5. **A signed archive may come from another commit** (`release_derivation`).
   `release verify` checks the members, the commit time and the legal texts of a
   binary archive (`releasehelpers.go:520`), not the revision it was built from;
   `docs/signing-provenance.md:22` says that the whole output is re-derived.

Smaller ones, which have no run and are exceptions that a property states or
conditions of a theorem:

- Root chains longer than one refresh consumes, under `Repeatable` above, against
  `docs/knowledge-database.md:27`.
- The clean-up of a stage looks at the stage name and then removes it by name
  (`validation/contracts.go:837` and `:862`); the comment at `:811` avoids opening
  a swapped name, but what was put there after that look goes
  (`ForeignUntouched`).
- A failed exclusive create is undone by name, without a look
  (`sourcecorpus/secure_output.go:89`, `releaseworkflow/secure_output.go:290`;
  `ForeignUntouched`).
- `WriteFailure` "reports whether all locally created output was removed"
  (`sourcecorpus/secure_output.go:14`). A directory that was made and could not
  be opened is not counted; and when the removal of the receipt fails, the
  clean-up goes on and leaves a receipt alone (`FileAndTreeWhole`).
- `docs/one-command-flow.md:44` says that a version mismatch is a component at
  another version. `onecommand.go:427` gives the same outcome for one whose
  version is unknown or disputed (`VerdictsTruthful`).

## 6. Not modelled, and why

- **Formats and cryptography:** tar and JSON framing, signatures, hashes, path
  and permission checks, root policy, key encryption. The models use the values
  that these protect.
- **Rendering and argument parsing**, reason codes, generated data, fixtures.
- **Source capture, staging receipts, knowledge export, intake:** one read or
  fetch, one pure derivation, one exclusive write; the write is a way of
  `FileOutput`.
- **Value inspectors and conformance preflights:** pure checks of one document
  each, of the kind the adapters show; their stores are profiles of
  `KnowledgeStore`.
- **Historical replay of a check** and the shape checks of the embedded
  catalogue; the lists of reviewed version pairs, which are data; the syntactic
  rules of a shipping policy.
- **Maintainer one-off tools** (evidence repin, review records, corpus
  attestation, route metadata, local kind): sequential, over local files and
  external commands.
- The directory of an observation is listed at once where the code reads it in
  batches: a change between two batches is a change between the first and the
  second listing, which the model has.

# A verification of seictl

TLA+ models of [seictl](../src/README.md), the command line of the Sei platform:
the configurations that check them with TLC and the proofs about them that TLAPS
checks. Every definition is translated from the Go source; `PROJECT.json` maps
each to the lines it stands for, lists the runs, the hazards of the code, the
findings and the theorems. Paths below are relative to the repository's root;
line numbers are of the commit under `src/`.

## 1. The system

seictl is not one long-running program. It is a set of commands, most of which
make a few calls against something that other processes change at the same time:
a Kubernetes API server with a controller behind it, the HTTP sidecar of a node,
a file on disk, S3, two chains. What is hard is in the steps between two calls.

| Component | State it keeps or shares | Operations | What makes it correct |
|---|---|---|---|
| **workflow** (`workflow/`) | the `SeiNodeTaskWorkflow` objects (name, uid, generation, spec, status with observedGeneration, finalizer, annotation); the node's adoption pointer and readiness gate; one watch per process | `state-sync` (preflight, apply, watch), `apply`, `--dry-run`, `watch`, `delete` | a terminal phase that a run exits on is the result of what that run asked for; the generation gate hides no result; every run ends |
| **phase watch** (`internal/cliutil/watch.go`) | the informer's stream of events | list, deliver, re-list, timeout | as above; used by `node`, `network` and `workflow` |
| **snapshot upload** (`task/`) | the sidecar's table of tasks; one process per attempt of a Job | submit, poll, classify, time out; `task delete` | exit 0 means an upload of this attempt; no needless second upload; a timeout means that nothing runs any more; attempts end |
| **patch, config patch, genesis patch** (`patch.go`, `config.go`, `outputter.go`, `internal/patch`) | a file, its temporary files, its permissions; the directory that is not synced | read, merge, write in place or elsewhere | the file is always a whole document, and keeps its permissions; a merge changes what it names and nothing else; a guessed target is unambiguous |
| **S3 emit** (`internal/s3`) | the pipe between the gzip goroutine and the uploader; the object at a key | encode, close, upload, join | the key holds the old or the whole new object; the digest seals it; nobody blocks for ever |
| **report** (`report.go`, `report_list.go`, `internal/shadow/fetch.go`) | the bucket that an emit writes and others fill and empty; a continuation token | `list` (paginated), `divergence` (one GET, decoded as it comes) | a listing misses nothing that was there throughout and lists nothing twice; that a report is whole is the emit's promise |
| **shadow comparator** (`internal/shadow`) | the comparison of one height, the reports | Layer 0, 1, 2, verdict | no divergence escapes; a migration fails closed and is not stopped by what it expects |
| **rendering** (`seinode/render.go`, `seinetwork/render.go`, `workflow/render.go`, `internal/cliutil/*.go`) | the object under construction | preset, flags, `--set`, overrides, config values, guards, identity | a guard sees what the last layer wrote; the later layer wins; the identity is the command's |
| **node watch** (`seinode/watch.go`, `internal/cliutil/watch.go`) | one SeiNode, its endpoints, the RPC and the EVM listener of its seid; one deadline | until a phase; until caught up: Running, endpoints, catching_up, EVM | exit 0 rests on answers in the order of the gates; it tells of the seid after a resync; the deadline bounds all of it |
| **await** (`await.go`) | a sleep and an attempt with a timeout each, a deadline that is looked at between them | `await validator` | it ends in time, and does not give up on a validator that is there |
| node and network trees (`seinode/`, `seinetwork/`) | the objects of those kinds | apply, delete, get, list, manifest | rendering, watch (above) |
| **mcp** (`mcp/server.go`), `manifest` | none | the offline renderings | the identity holds without a kubeconfig too |
| raw task verbs | none | single calls | nothing to decide |
| RPC client, S3 clients, output, errors, main, bench, chaos | none | one call each, formatting | nothing that a model tells more of than the code |

Interactions. The commands call the API server (server-side apply, GET, LIST,
WATCH, DELETE); the controller reads the objects and writes their status; another
run of the CLI may do the same to the same name. The upload and the sidecar share
task rows by ID. Patches of one file share nothing but the file. `streamGzip` and
its goroutine share the pipe, the hash and a channel.

What is hard, and hard to test: runs that race for a name, between any two of
their calls; an object deleted and re-created under a watch; a status that was
computed before the spec it is read for; a watch that drops; an answer that is
lost after the request was carried out; a retry that repeats what still runs; two
deadlines that race; a kill or a power loss between two file-system calls; a
writer, a reader and an error in the pipe between them; iteration of a Go map in
any order; checks and writes of one object in the wrong order; an endpoint read
after the phase that published it; a bucket that changes under a listing; a
deadline that is only looked at between two attempts. `PROJECT.json`
lists each at its line, with the properties that would catch it.

## 2. The modules

| Module | What it models | Composes |
|---|---|---|
| `WorkflowCluster` | external: the API server, the controller, the node and the operator's annotation | |
| `StateSync` | the workflow commands and the phase watch | `WorkflowCluster` (EXTENDS) |
| `StateSyncProofs` | theorems about `StateSync` | `StateSync` |
| `SnapshotUpload` | the attempts of the upload Job, with an external sidecar and clock | |
| `SnapshotUploadProofs` | theorems about `SnapshotUpload` | `SnapshotUpload` |
| `AtomicFile` | the promise of an in-place patch | |
| `AtomicPatch` | the patch processes, call by call | implements `AtomicFile` |
| `AtomicPatchProofs` | theorems about `AtomicPatch`, the refinement among them | `AtomicPatch` |
| `ConfigPatch` | the guess of the target and the merge, on values | |
| `ConfigPatchProofs` | theorems about `ConfigPatch` | `ConfigPatch` |
| `AtomicPublish` | the promise of an emit | |
| `StreamGzip` | the emit: goroutine, pipe, uploader, caller | implements `AtomicPublish` |
| `ShadowResults` | `report list` and `report divergence` over the bucket | `StreamGzip` (EXTENDS) |
| `ShadowResultsProofs` | theorems about `StreamGzip`, the refinement among them, and about its readers | `ShadowResults` |
| `ShadowCompare` | the comparator over consecutive blocks | |
| `ShadowCompareProofs` | theorems about `ShadowCompare` | `ShadowCompare` |
| `SeiNode` | external: one node with its controller, seid, chain and clock; `node apply` and `node delete` of another operator | |
| `NodeWatch` | `node watch`, both forms | `SeiNode` (EXTENDS) |
| `AwaitValidator` | `await validator` | `SeiNode` (EXTENDS) |
| `NodeReadiness` | either command over a node that changes | `NodeWatch`, `AwaitValidator` (EXTENDS) |
| `NodeReadinessProofs` | theorems about `NodeReadiness` | `NodeReadiness` |
| `Documents` | documents, nested fields, `--set` paths | |
| `Render` | the layers of the three renderings | `Documents` (EXTENDS) |
| `RenderProofs` | theorems about `Documents` and `Render` | `Render` |
| `MCStateSync`, `MCAtomicPatch`, `MCShadowResults`, `MCShadowCompare`, `MCRender` | instances for TLC | |

### WorkflowCluster and StateSync

A run (an element of `Runs`) is one process with one command line out of
`CommandLines`. `pc` says where it is; each API call is one step, so between
`Preflight` (`state_sync.go:57-71`), `Apply` (`:150-170`) and `List`
(`watch.go:71-87`) the cluster and the other runs do what they like. `appliedGen` is the
generation that the apply answered with, the minimum that
`MatchPhaseAtLeastGeneration` (`watch.go:44-57`) demands. `Deliver` is
`watch.go:89-102`; `Relist` is the informer's own recovery, which drops events and
shows the stored object; `Timeout` and `WatchFails` are the other ends of the select.

The cluster is external and modelled from how the commands use it and from
`workflow/README.md`: `ServerSideApply` creates, edits or leaves the object; the
CEL rules pin the recipe parameters (`Params`), so that a re-apply may only change
the rest of the spec (`Gates`, for instance `target.requirePhase`). A change of the
spec or a deletion mark is a new generation; every status update stamps the one it
was computed from. `DeleteObject` removes an object that nothing finalizes, or
marks it (`delete` prints "deleted" in both cases; foreground propagation and
orphaning add finalizers of their own, background removes at once). One workflow
at a time is adopted; a failed one keeps the node; `ForceRelease` needs the
annotation that only the operator sets. What becomes of a held node is the controller's doing: no
property is stated of it here.

Two fields and two variables are history: `since` (which runs had passed their
preflight when the phase was entered), `fresh` (which had applied when the status
was written), `checked`, `applied`. No guard reads them.

### SnapshotUpload

An attempt is a process; the Job starts the next when one ends with another exit
than 0. `TaskID` is the fresh UUID, `PollOnce` one turn of `pollUntilTerminal`, `classifyUpload`
the verdict. The clock is discrete: `InTime` holds it back where a bound of the
code must act first. The sidecar runs a task from the moment it stores it and
fails it at its own deadline; the answer to a submit may be lost with the task
stored or not.

### AtomicPatch ⊑ AtomicFile, ConfigPatch

A document is the set of the patches merged into it, which is enough to see lost
updates. One action per call of `WriteFileAtomic` (`internal/patch/file.go`), each
of which may fail; `Fail` may leave the temporary file, for the deferred removal discards
its error (`file.go:18-23`), and `FailLate` is a failure after that removal is disarmed.
`behind` holds what a power loss may bring back: a rename is durable only once the
kernel wrote the directory, which nothing forces. `settled` says that the inode of a file is
on disk with its permissions: the sync does that, the chmod after it undoes it, and the kernel does it
again in its own time (`WriteInode`); until then a power loss may bring back the 0600 of the
temporary file (`ModesAfterLoss`). `caught` is history: a power loss came in between at the target. `ConfigPatch` has real values:
`Merge` is `patch.Merge` on documents of two levels with nulls, scalars and maps:
`MergeBy` is one call of it, given what the calls below it do, which at a scalar is to
return the patch (`MergeLeaf`). `Take` is one turn of the loop over the keys of a Go map, in any order.

### StreamGzip ⊑ AtomicPublish

`Encode` to `ClosePipe` are the goroutine with its three deferred functions in
their order; gzip may flush at any record, at which a write to the pipe blocks
until it is read or the reader is closed. The uploader publishes only after it
read the end of the pipe, and aborts on an error; its answer may be lost.

### ShadowResults

The emit of `StreamGzip` publishes one key of a bucket in which other objects come
and go (`Others`). `ListObjects` is one call of the paginator of `report_list.go:99-123`
with what the loop does with its answer; the last one also sorts by height, as an
unstable sort may. `AddPage` is one turn of the loop that adds up the blocks, `PrintList` its end. `GetObject` and `Decode` are `FetchReport`: the
decoder stops at the end of the JSON value, so it does not verify the footer of
the gzip stream. `throughout` and `ever` are history: the keys that were there all
the time of a listing, and at some moment of it.

### SeiNode, NodeWatch, AwaitValidator, NodeReadiness

The node is external but for what another operator does with the same binary:
`NodeApply` creates it, `NodeDelete` marks it. Its controller writes phases and publishes the endpoints
(`SetStatus`), seid starts, catches up, binds its EVM listener and stops. A workflow takes the
steps of `workflow/README.md:27-31` on it, without the status telling: `MarkNotReady`, after which seid still
runs and answers but does not start again, `StopSeid`, `ResetData`, `MarkReady`; its steps on the config
change nothing a watch looks at. It may stop after any of them until `ForceRelease`. `data` is
what the data directory holds, `runs` the data that seid was started on.

`NodeWatch` is `watchAction` and `watchCaughtUp` (`seinode/watch.go:30-140`): `Deliver` with `MatchPhase`,
which has no generation gate; then, for caught-up, one GET of the endpoints,
`WaitCaughtUp` and, where an EVM endpoint was published, `WaitEVMServing`, all under
the context of the watch (`Expire`). `seen` is history: the uid of the node
behind each answer, and the data that the seid behind `catching_up` runs on.

`AwaitValidator` is the loop of `await.go:76-105`: an attempt within the timeout of the
client, the deadline, a sleep. An attempt during which the API serves the validator
throughout succeeds; any other may fail. `Tick` holds the clock back where a timeout
must act first.

The two commands only read and share nothing, so that each behaviour of
`NodeReadiness` has one of them, over everything the node may do meanwhile.

### ShadowCompare

The two chains are chosen in `Init`: receipts per height, and where the execution
changed the state differently. A header tells of the executions before its block
(`Header`). `CompareLayer0`, `CompareLayer1`, `CompareLayer2`, `Verdict` are
`CompareBlock` (`comparator.go:72-150`) with every layer able to fail.

### Documents and Render

A document is a tree of maps, lists and scalars. `writeMap` and `writeList` of
`internal/cliutil/parse.go` call each other along a parsed path, and all they do can be
told from the path: `Along` is what they meet on the way down, `Put` what one of them leaves
at its return (an error below is one above, a map that is missing is made), `Built` those
returns from the last segment up. A field is a path without indices, so `SetNested`
is the same write and `Get` the same walk. `SetIsLocal` says what a write may not touch:
`Beside` is a field that parts from the path at a key, before the path goes into a
list. The assumptions of `Render` say what the flag parsers hand on: paths of
at least one segment, scalar values, sequences of key and value, quantities
that are integers. `Layers` is the
order of the code for each tree; each layer is one action: it writes (`Layer`),
or looks (`Guard`), or refuses. `IsQuantity`, `effectiveSizeGiB`,
`Offerings`, `MergeEntry`, `Duplicates` and the enums are the pure functions the
layers call. The presets are given as far as a layer looks at them. `RequireNamespace`
is the first layer: the commands that reach a cluster fill the namespace from the
kubeconfig, the offline renderings (`manifest`, `mcp`) have none to fill it from. The labels and the
annotations are read back after `--set` and rewritten; one value among them that is no string makes
the code read them as none.

## 3. The runs

Twelve runs; those marked V look for a counterexample to what a comment or a
document says, and find it (section 6).

| Run | Instance | What it shows |
|---|---|---|
| `sync` | 2 runs of every command, 1 name, 2 recipes, 2 gates, fair; 176 thousand states | the workflow commands: `TerminalIsNew`, `GateKillsStaleStatus`, `CompleteIsHonoured`, `SameObjectSameRecipe`, `RunsEnd` |
| `sync_recipe` V | 3 runs, 1 name | `CompletedThisRecipe` fails |
| `upload` | 2 attempts, 8 instants, fair; 420 thousand states | `OkIsOwnUpload`, `PollBoundIsLast`, `NoRedundantUpload`, `AttemptsEnd` |
| `patch_file` | 3 processes, power losses | `WholeDocuments`, `PermissionsHold`, `OnlyOverlapsLose`, the refinement `ImplementsAtomicFile` |
| `config_patch` | every document and patch of two levels; 1.3 million states | `GuessIsUnanimous`, `MergeLaw` |
| `config_nulls` V | the same | `NullsAreRemoved` fails |
| `emit` | 3 records, 5 keys, 2 to an answer, fair; 965 thousand states | `SealMatches`, the refinement `ImplementsAtomicPublish`, `Returns`; `ListingIsFaithful`, `BlocksCover` |
| `shadow` | 3 blocks | `MigrationFailsClosed`, `NothingEscapes`, `NoFalseAlarm` |
| `shadow_attribution` V | 2 blocks | `AttributionIsAccurate` fails |
| `node_ready` | 2 nodes under the name, 2 status updates, 6 instants; 1.5 million states | `ReadyInOrder`, `ResyncVerified`, `CommandsEndInTime`, `ReachableIsFound` |
| `render` | 2 `--set` expressions over all flags and later layers, online and offline; 1.6 million states | `NothingSmuggled`, `IdentityHolds`, `ConfigValuesMerged`, `LastSetWins`, `SetIsLocal` |
| `render_override` V | the node tree | `SetBeatsOverride` fails |

`sync`, `patch_file`, `emit` and `node_ready` also check the type invariant of their module; those
of `SnapshotUpload` and `ShadowCompare` are only proved (section 5), and so is that of
`Render`, as part of its inductive invariant. Each property has a mutant: a definition of the module, changed as a plausible bug
would change it, that breaks the property under the same configuration. The mutants stand
beside the definitions they replace.

Why the bounds are enough.

- `sync`: the properties speak of one run and the object under its name; a
  second run supplies every deletion, re-creation and edit. A run watches one name, so one is enough
  (what a competing adoption does to it, `RefuseAdoption`, the model allows without one).
  The theorems hold for any number of runs and names, so the instance only serves
  to find mistakes before the proof, and to check `RunsEnd`, for which nothing is declared
  symmetric. No counter is bounded: a run makes at most one write, which bounds the generations and the objects.
- `upload`: two attempts are needed for an overlap, a third only repeats it, as an
  attempt never looks at others. The clock has room for two whole attempts one
  after the other (`Horizon`); `Start` does not begin one that can not end.
  The bounds keep the order of the defaults: `PollBound > UploadDeadline + RequestTimeout`.
- `patch_file`: a lost update takes two processes, and a third can hide it or be
  the innocent one that `OnlyOverlapsLose` is about.
- `config_patch`: a key of each of two targets, an unknown key; two levels show
  every pairing of map, scalar, null and absence at a top and an inner level,
  and `Merge` treats deeper levels by the same equation.
- `emit`: three records with a flush after any of them, for the theorems hold for any
  number. Five keys in pages of two make three calls, with keys that appear and
  expire before and behind the token; two of the three comparison pages overlap and
  one sorts against its heights.
- `node_ready`: a second node under the name is what a watch can mistake for the
  first; two status updates are a phase that is left or entered under the watch.
  The await loop has room for two attempts, a sleep between them and the overrun. The
  theorems hold for any timeouts, nodes and updates.
- `shadow`: a header tells of the block before, so three heights show a
  divergence, its announcement and what follows.
- `render`: two `--set` expressions are needed for one to undo, extend or block
  another. The expressions of `MCRender` write every path a layer reads or writes
  and scalars over the maps on the way. At most one flag is wrong at a time:
  the checks of the flags are a conjunction. `MaxConfigValues` is 2 instead of 100.

Deadlock is not checked where the commands end and the rest comes to
rest, which is all of these systems.

## 4. Fairness

Safety properties use `Spec`, without fairness. For liveness:

- `StateSync!FairSpec`: a process takes its next step (`Progress`); its deadline
  is a timer of its own, so `Timeout` of a watch is part of it. Preflight and
  apply have no deadline in the code; that they return at all is the API server's
  answer or its error, both in `Progress`. Nothing is assumed of the controller, of the operator,
  of a watch that fails, or of a re-list.
- `SnapshotUpload!FairSpec`: time passes, the CLI's calls return within the HTTP
  client's timeout, the context ends the poll, the sidecar keeps its own deadline.
  The Job need not start an attempt, nobody need delete a task.
- `ShadowResults!FairResults`, with the fairness of `StreamGzip`: the goroutine, the uploader and the caller are scheduled.
  The uploader either reads on or fails: the SDK does not stop reading. Nothing is assumed
  of the readers and of the other objects.

`NodeReadiness` needs none: the clock is part of the model, and that the commands end in time is
a safety property of it.

## 5. What is proved

`StateSyncProofs`, for every set of runs, names, recipes, gates and command lines:

| Theorem | Statement |
|---|---|
| `TypeCorrect` | `Spec => []TypeOK` |
| `Invariance` | `Spec => []IInv` |
| `NoStaleVerdict` | `Spec => []TerminalIsNew` |
| `GateHolds` | `Spec => []GateKillsStaleStatus` |
| `GateIsReachable` | `Spec => []CompleteIsHonoured` |
| `RecipeHolds` | `Spec => []SameObjectSameRecipe` |

The assumptions are those the modules state: the sentinels `NoCR` and `NoName` are
no objects and no names, there is a recipe, and only `workflow watch` takes
`--until` (`CommandLinesAssumption`).

None of the four safety properties is inductive. They speak of the moment a run exits, and what it
exits on was shown to it earlier: as an event still under way in its watch, or by
a list. `IInv` therefore speaks of `Shown(r)`, the events on their way to a run and the
object stored under its name:

- `ShownIsNew`: whatever a checked run is shown in a terminal phase entered that
  phase after the check. The preflight establishes it (the stored object is not
  terminal), and every later status change records the checked runs.
- `GateMeansFresh`: a shown status at or above a run's gate was written after its
  apply. It needs `Objects` (a status never runs ahead of its spec), since an apply
  that changes the object sets the gate to a generation no status has yet.
- `OwnObject`: what a run is shown of the object it applied has its recipe, and the
  object never falls behind the run's generation.
- `RunStage` and `WatchesItsName`: what a run has and has not done at each step.

A step of the system is described twice, so that the parts of `IInv` need not go
through all the actions: `StoreStep` says how the stored objects evolve, `ShownStep`
that whatever a run is shown after a step was shown before or is the stored object.
Each part then has one lemma, `NextInv` combines them, and each theorem follows
by PTL. TLC checked `IInv` on the instances of section 3 first.

`AtomicPatchProofs`, for every set of processes, without any assumption:

| Theorem | Statement |
|---|---|
| `TypeCorrect` | `Spec => []TypeOK` |
| `Invariance` | `Spec => []IInv` |
| `Whole` | `Spec => []WholeDocuments` |
| `Permissions` | `Spec => []PermissionsHold` |
| `Overlaps` | `Spec => []OnlyOverlapsLose` |
| `Implements` | `Spec => ImplementsAtomicFile` |

What a path holds was a temporary file before, and what a power loss brings back
stood at the path before; `IInv` follows a document through both:

- `Stage`: what each call has made of the temporary file: written before it is
  synced, synced before it is renamed, with the permissions that were read at the rename.
- `Disk`: not only what stands at a path but all that may come back there is whole
  and its content on disk, and at the target has its permissions unless `caught`. This is what the sync
  before the rename is for: a power loss leaves a synced file as it was
  (`DiskAfterLoss`).
- `ReadsAll`: what a started in-place patch read holds every patch done before its
  read, unless an overlapping one had undone it. With it, a rename can only undo
  patches that its process had not seen done, which is `OnlyOverlapsLose`; and a
  read establishes it from `OnlyOverlapsLose`, so each needs the other.

`Implements` rests on `IInv` and on three lemmas: a call or a kill is `Open`, `Replace`,
`GiveUp` or invisible (`AbstractCall`), a write-back settles the target or is invisible,
a power loss is one of the atomic file.

`SnapshotUploadProofs`, for any number of attempts and any bounds with the assumption of the
module, `PollBound > UploadDeadline + RequestTimeout` as the defaults have it (`DefaultTimeoutAssumption`):

| Theorem | Statement |
|---|---|
| `TypeCorrect` | `Spec => []TypeOK` |
| `OkIsOwn` | `Spec => []OkIsOwnUpload` |
| `PollBoundLast` | `Spec => []PollBoundIsLast` |
| `NotRedundant` | `Spec => []NoRedundantUpload` |

`Rows` says that the row under an ID began while the attempt that made the ID
submitted; `Clocks` that no submit and no running row outlasts its bound. `EndsSettled`
is what joins the two deadlines: the poll bound counts from the answer, which came
at most `RequestTimeout` after the row began, so that the sidecar's own
deadline has passed when it fires. `NoRedundantUpload` follows with `Sequential`.

`ShadowResultsProofs`, for payloads of any length, any bucket and answers of any size:

| Theorem | Statement |
|---|---|
| `TypeCorrect` | `Spec => []TypeOK` |
| `Seal` | `Spec => []SealMatches` |
| `Implements` | `Spec => ImplementsAtomicPublish` |
| `ReadingDisturbsNoEmit` | `ResultsSpec => Spec` |
| `ResultsTypeCorrect` | `ResultsSpec => []ResultsTypeOK` |
| `FaithfulListing` | `ResultsSpec => []ListingIsFaithful` |
| `BlocksAreCovered` | `ResultsSpec => []BlocksCover` |

`Stream` follows the records through the pipe: what was read, what the pipe holds and
what gzip has buffered are together the records taken, in their order, with the
footer behind them. `Hashed` puts the hash at the same place, or one record behind
while a write blocks. `Whole` says that without an error the payload is
whole, and `Ends` that the end of the pipe is only read then: the deferred
functions close it last.

Every step of the readers leaves the emit alone (`ReadingDisturbsNoEmit`), so the first three
theorems hold of it among readers too. Of a listing, `Past` are the keys it has gone
past: `Gathered` says that what was there throughout and lies in `Past` is listed,
each key once. A sort is a permutation, so what it does to the set of the entries
is nothing; that is all the last call needs. `Added` ties the sum to the pages added so
far: as many as the heights they cover, when no two of them overlap, and more
otherwise; a page more adds its own heights less those already covered.

`ConfigPatchProofs`, for any keys, hints and scalars:

| Theorem | Statement |
|---|---|
| `UnanimousGuess` | `Spec => []GuessIsUnanimous` |
| `LawOfMerge` | `Spec => []MergeLaw` |

`Unanimous` is the guess in the middle of the loop: every key it took is unknown or of
the target, and one of them made it the target. The law is shown of one call of
`Merge`, then of the call above it; the documents have two levels, as in the model. A null under a
key that the document lacks is not removed: the law says where nulls are, and `config_nulls` refutes the rest.

`ShadowCompareProofs`, for scans of any height over blocks of any number of receipts:

| Theorem | Statement |
|---|---|
| `TypeCorrect` | `Spec => []TypeOK` |
| `FailsClosed` | `Spec => []MigrationFailsClosed` |
| `NoEscape` | `Spec => []NothingEscapes` |
| `NoFalseBlame` | `Spec => []NoFalseAlarm` |

`UnderWay` and `Sound` say that what the layers and the reports hold is what Layer 1
and Layer 2 may find at that very height; `TxAgreement` that Layer 1 finds nothing
exactly when the receipts agree.

`NodeReadinessProofs`, for any timeouts, nodes and updates (`TimeoutAssumption`: the
clock reaches the deadline; `AwaitAssumption`: the loop sleeps):

| Theorem | Statement |
|---|---|
| `TypeCorrect` | `Spec => []TypeOK` |
| `InOrder` | `Spec => []ReadyInOrder` |
| `Verified` | `Spec => []ResyncVerified` |
| `InTime` | `Spec => []CommandsEndInTime` |
| `Found` | `Spec => []ReachableIsFound` |

`NodeInv` ties seid, its data and the plan to the node that is there, which is the last
one created, so that uids never fall. `Order` says which answers a watch has at each
stage. `ResyncKept` is the heart of `Verified`: a watch that began on wiped data finds them wiped until
the node is replaced, and a seid that answers runs on the data that are there. `ServedSince`
and `AwaitClock` place the attempt under way in time: one that began after the
validator was served can not end without it. The actions of the node are
summed up by `Evolves`, so that neither command's invariants go through them.

`RenderProofs`, for any flags, `--set` expressions, overrides, `--config-value` lists, quantities and
bounds that satisfy the assumptions of `Render`:

| Theorem | Statement |
|---|---|
| `LayersHold` | `Spec => []IInv` |
| `NothingIsSmuggled` | `Spec => []NothingSmuggled` |
| `IdentityIsHeld` | `Spec => []IdentityHolds` |
| `ConfigValuesAreMerged` | `Spec => []ConfigValuesMerged` |
| `LastSetHasWon` | `Spec => []LastSetWins` |
| `SetsAreLocal` | `Spec => SetIsLocal` |

The first half is about documents, for paths of any length through documents of any depth:

- `ReadBack`: a write that succeeds is read back at its path.
- `Frame`, `BesideStays`, `FieldStays`: what parts from the path at a key is what it was.
- `PartStays`: a field that is written leaves what a `--set` with indices wrote,
  when the two part at a key, wherever they do.
- `Touched`: whatever is written, a field holds after it what it held, or what was
  written, or a map, a list that was put an item into, or a conflict. Nothing goes missing.
- `FieldWritable`: a field that reads without a conflict can be written.
- `ReassertIs`: `SetName` and the like write their field, or the metadata is no map and
  every one of its fields is a conflict.
- `MergedSays`: a merged list without duplicates says what the last flag of each key says.

A recursive function is shown to exist, and a fact to hold along a path, from the
smallest place where it would fail (`Smallest`), which needs no induction theorem.

The second half is the inductive invariant. None of the properties is inductive: each
speaks of the accepted object and is brought about by one layer, which the later ones must keep.

- `Placed`: the object is a map, and is accepted only after the last layer (`Places` says
  which layer stands where in each tree).
- `Sized`: the size that the preset gives never goes missing, because a write
  makes nothing go missing. Without it a `--set` could take the size away and
  the class would be accepted with none, for `SizeCarriesIOPS` lets a missing size pass.
- `Checked`: what a check has seen holds in every later state: the layers after it
  write the metadata only.
- `Identified`: the namespace is not empty after the first layer, name and namespace are
  asserted after theirs, and the labels and the annotations do not undo them.
- `Configured` and `Stands`: the merged list and the last `--set`, which the later layers
  spare where the two part.

Each inductive invariant was checked by TLC on the instance of its run before it was proved.

Every safety property that a passing run checks is stated by one of these theorems. Only
model-checked: the liveness properties `RunsEnd`, `AttemptsEnd` and
`Returns` (fairness and ENABLED are beyond the proof system), and the four
counterexamples, which are behaviours. What the proofs take as the model has it: documents of
two levels in `ConfigPatch`, since an induction over the depth of a document is beyond the prover.

## 6. Findings

- **The Complete of another recipe** (`sync_recipe`). A watch follows a name, not
  the object that was applied. When the object of a run is deleted and another run
  creates its own under the name, the first exits 0 on a recipe it never asked for.
  `RecipeHolds` shows that this is the only way: on its own object a run
  exits on its own recipe.
- **Attribution of a header mismatch** (`shadow_attribution`). A
  `LastResultsHash` mismatch at height N tells of N-1, but outside a migration
  Layer 1 then compares the receipts of N, and those of N-1 are never compared.
- **Nulls under a new key** (`config_nulls`). `patch.Merge` copies a map that is new to the
  document with the nulls it holds (`merge.go:26`); `README.md:341` says that setting a value to null removes the
  key. TOML has no null, so this concerns JSON. `LawOfMerge` shows that it is the only way a null stays.
- **Overrides over `--set`** (`render_override`). The help of `node apply` puts `--override` below `--set`
  (`seinode/apply.go:107-110`); the code applies it after (`seinode/render.go:157-167`), so it wins.

Seen while modelling, without a run of their own:

- The migration warning is printed from the flags (`state_sync.go:129`); `--set` is applied
  after them and can give both the kind and the backend of a migration without a warning, or change the node
  or the backend that the warning names (`announced` beside `obj` in `Render`).
- The permissions of an in-place patch (`README.md:484`) are set after the only sync (`file.go:28`, `:36`):
  a power loss before the inode is written back can leave the target with 0600. `Permissions` shows that this is
  the only way to lose them.
- A temporary file may stay beside the target after a plain error too: the deferred removal
  discards its own (`file.go:18-23`).
- The preflight tells of every Failed workflow that it still holds the node
  (`state_sync.go:50-51`, as `workflow/README.md:39`); one that was refused at its adoption never did
  (`workflow/README.md:9`).
- A caught-up watch begun after `mark-not-ready` and before `stop-seid` may exit 0 on the seid
  that is about to be stopped: `ResyncVerified` is about a watch begun once the data are wiped.
- An apply that changes nothing leaves the generation, so the gate lets a status
  through that was written before it (`state_sync.go:166-173`); `TerminalIsNew` still holds.
- An apply to an object that is being deleted may take its generation as the gate;
  when the name is re-created the generation restarts at 1, and the run may wait
  for its timeout.
- `workflow/README.md:109` sends the operator to a fresh `--name` after a failure; the
  hint of the refusal (`state_sync.go:51`) is another.
- A task row that is deleted may have had its verdict: `snapshot_upload.go:215`
  reads a 404 as a cancellation.
- `ApplyConfigValues` returns at once without a flag, so duplicates that `--set`
  wrote are only refused when a `--config-value` is given.
- `SetName` and `SetLabels` drop their errors: after `--set metadata=x` the object
  has no name (the API server refuses it). `GetLabels` and `GetAnnotations` drop their errors too: one
  value that `--set` made a number loses all labels, or annotations, of the user, although the comment at
  `seinode/render.go:210-212` lets a `--set` refine them.
- A failing submit of a hung sidecar reads as a timeout.
- The watch of a node has no generation gate: after a re-apply, a Running from
  before it ends the watch at once.
- A probe that runs into the deadline ends as an InternalError, where the help of
  `--timeout` speaks of a Timeout; a Failed that comes with the deadline may read as one.
- An EVM-only node publishes a Tendermint endpoint that nothing listens on: a
  caught-up watch of it never succeeds.
- `node watch` of a name that is not there waits for its whole timeout.
- `await validator` leaves its loop with success when its context is cancelled
  (`await.go:84,103`); nothing cancels it at present, so no step of the model does.
- `FetchReport` reads one JSON value and not the end of the stream: a truncated
  footer goes unnoticed. That it meets no part of a report is the refinement of the emit alone.
- "blocks covered" counts a height of two overlapping pages twice (`BlocksCover`).

## 7. What is not modelled

- The TOML and JSON codecs, the YAML of the presets, the parsing of expressions
  into paths and values: library calls or formatting; a parse error ends the
  command before anything happened.
- Kubernetes beyond what the commands can see: resource versions, field ownership,
  several watchers' bookmarks, admission other than the CEL pins.
- The report builder and its rendering, `bench`, `chaos`, the RPC client, the protocol
  of `mcp`: no state. `get` and `list` of the trees only read and print.
- `network watch` and `network delete`: those of the nodes with other phases.
- The key sources of Layer 2 (`internal/shadow`): what a block touched is
  chosen in `Init`.
- Where `await` takes the address of the API from, and the times of the S3 client.
- In `Render`: `rpcServers`, replicas, chain ID (flags that go the way of
  the image), more than one override; a `--set` of `kind` or `apiVersion`, and an entry of the config values
  with a file name or a key alone: the pair is one value.
- Temporary files that stay behind, through a power loss: nothing reads them. More than one wipe of a node.
- What `report divergence` reads: it is in the model, under the type invariant only.
- Directory fsync, locks: the code has none, and the models show what follows.

## 8. Plan

Done, in this order: `WorkflowCluster` and `StateSync` with their proofs;
`SnapshotUpload`; `AtomicFile` and `AtomicPatch` with their proofs; `ConfigPatch`;
`AtomicPublish` and `StreamGzip`; `ShadowCompare`; `Documents` and `Render`; `ShadowResults`; `SeiNode`,
`NodeWatch`, `AwaitValidator` and `NodeReadiness`; the proofs of `SnapshotUpload`, `StreamGzip`,
`ShadowCompare`, `NodeReadiness`, `ShadowResults`, `ConfigPatch` and `Render`.

Open, most important first:

1. `RunVerdict`, an abstract specification of a state-sync run (check, apply, one
   verdict), refined by `StateSync`.
2. Field ownership of a re-apply (`seinode/apply.go`, `seinetwork/apply.go`): an apply
   with force that omits a flag drops the field.
3. The key sources of Layer 2 and the blocks they may miss.

# Segment Routing Fabric: TLA+ specifications and proofs

Segment Routing Fabric (SRF) is a C++ library and server that keeps *governed
segment lists*: ordered lists of routing segments that publishers submit, that
are bound to generations of profiles, topology, paths and so on, that move
through a lifecycle, and that survive restarts of the coordinator. This
directory models the parts of it that keep state, checks them with TLC on small
instances and proves the central properties with TLAPS for every instance.

Contents: [inventory](#inventory), [modules](#modules), [runs](#runs),
[bounds](#bounds), [fairness](#fairness-and-deadlock), [proofs](#proofs),
[disagreements](#where-the-code-and-its-documentation-disagree),
[what is not modelled](#not-modelled), [plan](#plan).
`PROJECT.json` holds the same in tabular form, with the source lines behind every
definition and one mutation of the code for every property.

## Inventory

The parts of the system, what they keep, what they do, and what makes each correct.

| part | state | operations | correct if |
|---|---|---|---|
| store (`store.cpp`) | lists, attempt records, history, revision; one mutex | `create_list`, `replace_list`, `batch`, `revalidate`, `withdraw`, `revoke`, `retire`, `refresh_currentness`, `register_profile`, `register_policy`, `persist_now`, `load_from_persistence` | commits are based on what is current when they land, applied once per attempt, saved before they are seen, and whole when they have several drafts; closed lists stay closed |
| lifecycle (`lifecycle.cpp`) | none (a table) | look up the successor of a state | with the store's guards, no path leads out of a closed state |
| registry (`registry.cpp`) | profiles and policies with generations, revision; own mutex | register, restore, snapshot | lists are never bound to an entry that a restart loses |
| authority (`authority.cpp`) | publishers, fenced boots, epoch; own mutex | register, heartbeat, mark dead, fence, advance epoch, restore | a fenced boot writes nothing; an epoch is served by one incarnation |
| evidence (`evidence.cpp`) | upstream generations and watermark; own mutex | update, snapshot | a snapshot and its watermark can be compared later |
| validation (`validation.cpp`, `reason.cpp`, `segment.cpp`, `profile.cpp`, `policy.cpp`) | none; a bounded list of reasons per result | check a draft against captured state, combine results | accepts exactly what is well formed, governed and current, and reports what is wrong in the order of the phases |
| state file (`persistence.cpp`) | a file and a temporary file | encode, save (write, flush, rename), load, decode | after a crash the file is a complete image, the last acknowledged or the next, and it loads |
| coordinator (`coordinator.cpp`, `tools/srf_coordinator.cpp`) | connections, sessions, leases, the threads of the process | accept, dispatch, expire leases, stop | writers that end or fall silent are fenced and their lists degrade; `stop` returns, and nothing uses what it has released |
| frames and transport (`wire.cpp`, `transport.cpp`) | assembly buffers, sockets | encode, assemble, send, receive, decode | every request is dispatched at most once and answered by its own response; a message arrives as it was sent or is refused |
| worker (`worker.cpp`) | a connection, request and attempt counters | open, exchange, close | every exchange returns |
| comparison and explanation (`explain.cpp`) | none; a bounded presentation per answer | `diff`, `explain`, `explain_segment`, `explain_missing_capability`, `explain_stale_topology` and others | a comparison tells one revision from the other, an explanation says what validation would, and a cut answer says that it is cut |
| oracle (`oracle_main.cpp`) | none | judge and encode a scenario | judges and encodes as the library does |

How they interact. A worker sends one framed request at a time and waits for the
answer. The coordinator has one thread per connection, an accept loop and a
monitor thread that wakes every 20 ms. Connection threads and the monitor call
the store concurrently. The store composes the registry, the authority table and
the evidence, each behind its own mutex, and writes through the persistence
layer while it holds its mutex.

The behaviours that are hard:

* a mutation is two-phase. It reads the evidence without the lock, captures the
  store under the lock (phase B), validates without it (C), and verifies again,
  saves and swaps under it (D to F). Anything can move in between;
* the tables with their own mutexes can change at any time, also while the
  store's mutex is held;
* every save can fail, and the process can die between any two steps of a save,
  between the save and the swap, and between two steps of a start;
* fencing comes from four sides (goodbye, lost connection, expired lease,
  recovery), and a boot can have several connections;
* limits: attempts, lists, segments, history, publishers, records in a file,
  bytes in a frame, and the largest generation and epoch;
* frames arrive in pieces and connections are lost half way;
* two threads call `stop`, while the accept loop still starts threads and
  others are blocked on sockets;
* the drafts of a batch meet each other only when they are applied;
* the same judgement is made in several places: validation, explanation and
  oracle, encoder and decoder.

The list `hazards` in `PROJECT.json` has each of them at its line with the
properties that would catch it.

## Modules

```
Lifecycle ---- SegmentStore ---- Coordinator ---- MCCoordinator
                 |  |  |  |           |
   GovernedLists-+  |  |  +-- Batch --|-- MCBatch
  (abstract)        |  +- MCSegmentStore
                    |                 |
      SegmentStoreProofs ---- CoordinatorProofs
                    |
          BatchProofs (of Batch)

Validation -- Explanation -- Oracle -- Messages      each with its MC module,
                                        |            MCMessages is checked
                    ValidationProofs ---+
                           |
                    ExplanationProofs
StateFile       FrameStream       Shutdown           each with its proofs in
                                                     StateFileProofs etc.
```

**Lifecycle** is the transition table of `lifecycle.cpp` as a function from
states to functions of events.

**SegmentStore** is the core: the store with registry, authority, evidence and
the durable image. Its variables are the tables (`store`, `registry`,
`evidence`, `publishers`, `fencedBoots`, `epoch`),
the mutex and the image being swapped in (`lock`, `pending`), the program
counters and plans of the threads, the durable image `disk`, and the phase of
the process. One action is one stretch of code between two places where another
thread can interleave:

| code | actions |
|---|---|
| `revalidate` before it calls the common path | `RevalidateRead` |
| phase A, evidence watermark and snapshot | `ReadWatermark`, `ReadSnapshot` |
| phases B and C, attempt lookup, capture and validation | `Replay`, `PrepareCommit`, `PrepareTransition`, `Refuse` |
| phases D to E, verification, limits, next image, save | `Commit`, `CommitTransition`, `RefuseCommit` with `Save` |
| phase F, the swap under the lock | `Swap` |
| `refresh_currentness` | `RefreshReadEvidence`, `RefreshReadEpoch`, `RefreshApply` |
| registration of profiles and policies | `Register`, `RegisterSave`, `AdvanceRegistry` |
| `persist_now` | `PersistNow` |
| tables with their own mutex | `ChangeEvidence`, `AdvanceEpoch`, `RegisterPublisher`, `FenceBoot`, `MarkDead` |
| death and start of the process | `Crash`, `LoadNothing`, `Load`, `DeclareBuiltin`, `Serve` |

Phase C reads nothing but what phase B captured, so both are one action.
Verification, limits, construction of the next image and the save all run under
the store's mutex; what can change meanwhile are the tables with their own
mutexes, and a change of those during the stretch is indistinguishable from one
just before or just after it. The swap is a step of its own, because a crash can
separate it from the save. A dependency is one generation-numbered fact, in four classes that differ
in how a draft is bound to them (see the head of the module). A digest is the
thing it digests.

**GovernedLists** is what a user of the store relies on: per list an
availability status and a generation, per attempt whether it was used. It has
three operations: publish a next generation under a fresh attempt, degrade, and
close for good. `SegmentStore` implements it with the durable image as the
abstract state (`ImplementsGovernedLists`): a commit takes effect when it is
saved, and a crash, a recovery or a refresh is a degradation or a stutter.

**Coordinator** adds connections, sessions, leases, the monitor and the
lifetime of the process. It extends `SegmentStore`; its connection threads and
the monitor are threads of the store, and a request is served by the store's own
actions, interleaved with everything else. `Hello`, `Heartbeat`, `Touch`,
`Request`, `RequestRefresh`, `Goodbye` are the branches of `dispatch`; `End`,
`EraseLease`, `RefreshOnEnd`, `Closing` the end of `handle_connection`;
`ExpireLeases`, `FenceExpired`, `RefreshExpired` the steps of the monitor. Time
is the age of a lease.

**Batch** extends the store with calls of several drafts. `PrepareBatch` checks
every draft against the state that phase B captured; `CommitBatch` verifies, and
applies the drafts in turn to the image that is saved once (`ImageAfter`).
Single drafts, crashes and failed saves are the actions of `SegmentStore`, in
the same run. That the drafts do not see each other before they are applied is
the code's behaviour, with consequences listed
[below](#where-the-code-and-its-documentation-disagree).

**Shutdown** is the end of the process: the thread in `serve()`, the thread that
calls `stop()` when `--hold-ms` is up, the second `stop()` by `main`, the monitor
and the connection threads, each at the places where it waits, checks the flag
or uses the store. What closing a socket does to a thread that is blocked on it
is a parameter of the behaviour (`wakes`): on Windows it ends the call, on POSIX
it does not, and the comment at `coordinator.cpp:103` counts on it. The
unsynchronised `Socket::handle_`, which `stop()` sets to zero while another
thread reads it, is taken as atomic.

**Validation** is phase C of a mutation in detail, which `SegmentStore` takes
for granted where it does not depend on shared state: the checks of the list
(identity, expected generation, what each call requires, transition, superseded
list), of profile, policy, segment structure and limits as operators that return
the reasons they find, the result that reasons are added to (sorted, without
duplicates, at most `max_reasons` of them), and the loop over the drafts of a
batch. A draft carries what phase B captured of the list it is for and of the
one it supersedes. Of the other checks on shared state, before the list
(caller, epoch, scope) and after the segments (capability to currentness), it
carries what they find, so that their reasons take part in order and truncation.
`existing = 0` is a list that does not exist, `MaxGeneration` the exhausted
generation.

**Explanation** extends it with the calls that describe lists: `diff`, and the
explanations that decide something again (`explain_segment`, which validates the
stored content, `explain_missing_capability`, `explain_stale_topology`), and
with the checks of capability and topology they are compared with. A question is
drawn from a set, the answer is one step.

**Oracle** is `oracle_main.cpp`, written from its own source, next to
`validate_segment_sequence`, and the comparison that `tests/oracle` makes of the
two, over every scenario of a set instead of random ones.

**Messages** is the payload of every frame: seven encoders and seven decoders
over sequences of values with widths, and messages that are cut or too long.
`Validation`, `Explanation`, `Oracle` and `Messages` share the definition of a
segment, so that they are one chain of modules and one run.

**StateFile** is the file underneath: the encoding of an image into records, the
checks on decoding, and every step of `save` and `load`. It justifies two things
that `SegmentStore` takes for granted: that a save replaces the image or leaves
it alone, and that what was saved can be loaded. The second holds with the
exceptions listed [below](#where-the-code-and-its-documentation-disagree).

**FrameStream** is one worker and its connections, byte by byte: frames cut into
pieces, blocking sends, refused frames, lost connections, reconnects. The worker
uses one connection at a time, but `serve()` gives every connection a thread at
once (`coordinator.cpp:118-133`), so that a connection which the worker has left
is still served next to its new one, until its thread notices. It justifies that
`Coordinator` takes requests that arrive whole, at most once, and in order
within a connection. Between connections there is no order: a request that was
given up with its connection may be dispatched after later ones. `AnswersMatch` takes a worker that accepts frames at least as large as
the coordinator sends; see [proofs](#proofs) for what happens otherwise.

Mutated forms of definitions (`Verified_NoWatermark` and the like) stand before
the definition they mutate; nothing refers to them except `PROJECT.json`.

## Runs

Passing runs:

| run | instance | what it shows |
|---|---|---|
| `store_races` | two threads, one list, three attempts and two places in the replay table, evidence, registry and epoch that move, saves that fail, crash and restart | `RevisionsAreImmutable`: no generation is changed or skipped. `AttemptAppliedOnce`, `VisibleIsDurable`, `ReplayTableIsBounded`, `HistoryIsSuffix` (ids go on from the last one although the history is cut), `ReplacedIsRecorded`, `ImplementsGovernedLists` (among others: nothing but a commit makes a list available again) |
| `store_recovery` | two publishers, two boots; commits, withdrawal, revocation, retirement, registration and flush; up to three starts | `RecoveryIsConservative`, `WritersFencedOnRecovery`, `BoundRegistryIsDurable`, `EpochNeverReused`, `LineagesStayClosed`, `AckedIsDurable`, `TypeOK` |
| `store_bindings` | one thread, two lists that supersede each other, single drafts and batches of two, all four classes of dependencies, a moving epoch | `BatchIsAtomic`: under an attempt that is not recorded there is nothing, under one that is every draft is committed and what it supersedes is closed, if no other draft of the batch touches it. `CommittedIsFresh`: what lands is bound to the generations that were observed under the verified watermark and registered when it is saved |
| `coordinator` | two connections, one publisher, the monitor, restarts; fairness | `CoordinatorTypeOK`: among the types, that only the lease of a registered publisher is touched or erased, also by a heartbeat on a connection without a session. `LiveSessionsAreLeased`: no order of hello, heartbeat, goodbye, expiry and loss leaves a live session that nobody watches. `FencedWritersDegrade`: once a boot is fenced and has no connection left, its lists stop being available, unless a commit landed after the fence |
| `shutdown` | two connections, `stop` by two threads or by `main` alone, with and without a limit on connections, with sockets that wake and sockets that do not; fairness | `StoreOutlivesItsThreads`: the store is gone only when no connection thread and no monitor is in it or on its way, although `serve` may start a thread later. `NoThreadIsLeft`: what the first `stop` missed the second joins. `StopReturns` and `StopWaitsForPeers`: where closing wakes, everything ends whatever peers do; where it does not, the stopper returns once the peers are gone |
| `validation` | batches: all sequences of up to two out of 11 sound and defective segments and of up to four sound ones, three profiles, two policies, derivations; every call with absent, expected, unexpected and exhausted generations and every state of the list it is for; superseded lists that are unknown, live, withdrawn or closed; single drafts and pairs. Comparisons and explanations over stored lists, evidence and limits of 1, 2 and 9 entries. Scenarios with seven profiles and up to five segments. Messages of every type, whole, cut by 1 to 50 values, and too long | `AcceptsExactlyTheGoverned`: a batch is accepted exactly if every draft satisfies a definition that does not mention the checks and judges repetition by what is digested. `ReasonsAreComplete`: every defect is reported, or the result is full and says that there are more. `RequestPrimaryDominates`: the primary reason of a request is of the earliest phase that has a defect, truncated or not. `DiffIsPatch`: the changes of segments, made to one revision, give those of the other; any other field that is compared is named exactly if it differs. `DiffSeesWhatIsDigested`: segments are reported as changed exactly if their canonical forms differ; of the rest of what is digested, the scope and the identifiers of path, route and constraint are not compared. `ExplanationsAgree`: what an explanation names is what validation finds. `OracleAgrees`: the same encoding of every scenario, the same verdict and the same reasons at the same places, outside the known differences. `MessagesSurvive`: every field arrives where it came from, and nothing that is cut or too long is accepted |
| `state_file` | every step of a save fails or is cut short by a crash; a power loss cuts the file, or a unit of it is overwritten | `AckedStaysInFile`, `SavedFileLoads`, `LoadsWhatWasSaved`: an undamaged file is the last acknowledged image or the next one, complete, and loads; a damaged one is refused, never loaded as something else |
| `frame_stream` | pieces of 1 to 2 bytes, empty, fitting and oversized frames, socket buffers smaller than a frame, two connections and reconnects; fairness | `AnswersMatch`, `AssemblyIsBounded`, `ExchangeReturns`; `DispatchedOnce`: no request twice, those of a connection in order, and an answered one on the connection of its exchange |

`SavedFileLoads` passes with one payload width per profile, and with a limit on
publishers that leaves room for the records of the fenced boots. The run
`profile_width_changes` lifts the first restriction; the theorem `SavedFilesLoad`
states all of them.

The remaining four runs each show one statement of the documentation that the
code does not keep; see [below](#where-the-code-and-its-documentation-disagree).

## Bounds

* Two threads are enough for every race between a capture and a commit: the
  mutex admits one thread to the rest. Two lists are enough for a list and what
  it supersedes. Two attempts give reuse and replay; with three and a table of
  two places the table fills up while a mutation is under way.
* `MaxGeneration` (2 or 3) and `MaxEpoch` (3 to 5) are the largest values of
  the type, not caps on the exploration: the code refuses to go beyond them, and
  so does the model, so that the refusals are part of every run. Every start
  takes a new epoch; 3 allows two starts, 4 three and 5 four.
* `MaxDepGeneration` and `MaxEvidence` bound how often the environment moves.
  One move between a capture and a commit is what the properties are about.
* `Calls` selects the calls an instance makes, transitions by their event, so
  that each run explores one interplay completely; `store_recovery` has all four
  transitions. The theorems have no such restriction, and some interplays are
  left to them: a list that another one superseded and that is then replaced is
  refused by `ClosedForGood`.
* `MaxHistory` is 1 or 2, so that the history is cut early.
* `MaxRevision` (3) bounds the commits in `StateFile`, `MaxRequests` (3) the
  requests in `FrameStream`, where two connections are the worker's own and one
  that it has left. Record and byte sizes are scaled down so that every
  comparison of a size with a limit goes both ways: a header is two bytes, a
  trailer one, a receive buffer two, a socket buffer four, less than a frame.
* In `Validation` depths, widths and limits are scaled down but keep their order.
  Six places for reasons are fewer than the worst drafts fill, so that
  results are cut within a request, between the checks of a request and those
  that follow it, and between two drafts. `max_reasons` is assumed to be at
  least 2: with 1 the only reason is overwritten by the note that there were
  more, with 0 a failed validation looks like a success, and nothing in the code
  checks the limit.
* A batch has two drafts: one that another one meets. Larger ones add nothing
  that two do not have, since drafts are applied one after the other.
* In `Shutdown` two connections are one that `stop` knows and one that it
  missed. With `max_connections` of 1 `serve` ends by itself, with 0 it does not.
* A scenario has up to five segments with a limit of three: one behind the limit
  is still scanned, the next one is not. The values of the fields of a message
  are all different, so that none can stand in for another.
* Symmetry over model values is used in runs without liveness properties only.

## Fairness and deadlock

`FairCoordinatorSpec` assumes weak fairness of three things: a connection thread
that can go on does so (the scheduler; each thread's steps are its own and no
step waits for a peer except reading a frame, which has no fairness); a lease
that is not touched gets old (time); and the monitor goes on (its loop wakes
every 20 ms). Workers owe nothing: no fairness on hello, heartbeat, request,
goodbye or the end of a connection, nor on crashes and restarts.
`coordinator` has saves that succeed: after a refresh whose save fails
the code does not try again until something else asks for a refresh, and makes no promise.

`FrameStream!FairSpec` assumes that the worker and the thread of every connection run and that the network
delivers what was sent or ends the connection: weak fairness of each side's own steps. Nothing
obliges the worker to make a request.

`Shutdown!FairSpec` assumes that each thread of the process goes on when it can:
the scheduler. Peers owe nothing; they may stay connected and silent for ever.
`StopWaitsForPeers` has their departure as its premise, and says nothing of
`serve()`, which on POSIX needs one more connection to notice the flag.

The store, batch and coordinator runs do not report deadlock: with the largest epoch
taken the coordinator refuses to start (`coordinator.cpp`), and the model then
really stops; nor does `validation`, whose model is one call that returns, nor
`shutdown`, whose process ends.
`StateFile` and `FrameStream` are checked for deadlock.

## Proofs

Eight modules are checked by TLAPS. Their theorems hold for any sets of lists,
attempts, publishers, boots, threads and connections, any bodies, any sizes of
frames and tables and any limits that satisfy the assumptions of the modules:
the special value `None` is none of the identifiers, the classes of dependencies
are disjoint, limits are naturals, the history has room for one entry, a body
refers to at least its profile and gives a generation only for what it refers to
or for a fabric-wide generation, and the tables of a state file are finite. TLC
evaluates these assumptions in every run.

The chain from `Validation` to `Messages` has four assumptions more, which say
what the C++ types and the callers of the code provide:

| assumption | says | because |
|---|---|---|
| `ValidationAssumption` | there are at least two places for reasons; profiles, policies and recorded segments have valid ids and generations, one entry per id; what the checks on shared state find is ordered by phase | the registry refuses the others (`registry.cpp:11-15`, `47-51`) and both tables are keyed by id; the evidence is not under the control of the library, and an owner that records an entity under 0, which stands for none, is left out; the checks run in the order of the phases; see [bounds](#bounds) for `max_reasons` |
| `ExplanationAssumption` | a presentation has room for an entry; a stored list is within the limit on segments; the fabric has a topology generation and the keys of profiles are not 0 | a list was accepted under the limits; the last two delimit the model: for an evidence without a topology generation and for a key of 0 the checks have reasons of their own (`validation.cpp:436`, `463`) that are left out |
| `OracleAssumption` | a scenario is a profile and segments | `parseScenario` |
| `MessageAssumption` | a message has the fields of its struct, enumerators that exist, and payloads of less than 65536 bytes | the types in `wire.hpp`; for the payloads see [not modelled](#not-modelled) |

| module | theorem | statement |
|---|---|---|
| `SegmentStoreProofs` | `TypeCorrect` | `Spec => []TypeOK` |
| | `DurableBeforeVisible` | `Spec => []VisibleIsDurable` |
| | `ExactlyOnce` | `Spec => AttemptAppliedOnce` |
| | `ClosedForGood` | `Spec => LineagesStayClosed` |
| | `NoLostUpdate` | `Spec => RevisionsAreImmutable` |
| | `Refinement` | `Spec => ImplementsGovernedLists` |
| | `AcknowledgedStays` | `Spec => []AckedIsDurable` |
| | `HistoryKeepsSuffix` | `Spec => []HistoryIsSuffix` |
| | `ReplayTableStaysBounded` | `Spec => []ReplayTableIsBounded` |
| | `RegistryIsClosed` | `Spec => []BoundRegistryIsDurable` |
| | `RecoveryFencesWriters` | `Spec => []WritersFencedOnRecovery` |
| | `RecoveryStaysConservative` | `Spec => []RecoveryIsConservative` |
| | `EpochsAreFresh` | `~ EpochAdvances` implies `Spec => EpochNeverReused` |
| | `CommitsAreFresh` | `Spec => CommittedIsFresh` |
| | `ReplacementIsRecorded` | `Spec => ReplacedIsRecorded` |
| `BatchProofs` | `BatchesAreAtomic` | `BatchSpec => []BatchIsAtomic` |
| | `BatchesAreDurable` | `BatchSpec => [](TypeOK /\ VisibleIsDurable)` |
| | `BatchesKeepPromises` | `BatchSpec => AttemptAppliedOnce /\ LineagesStayClosed /\ RevisionsAreImmutable` |
| | `BatchesAreFresh` | `BatchSpec => CommittedIsFresh` |
| | `BatchImagesAreSound` | `BatchSpec => [](HistoryIsSuffix /\ ReplayTableIsBounded /\ BoundRegistryIsDurable /\ WritersFencedOnRecovery)` |
| | `BatchesSurviveRestarts` | `BatchSpec => [](AckedIsDurable /\ RecoveryIsConservative)` |
| | `BatchEpochsAreFresh` | `~ EpochAdvances` implies `BatchSpec => EpochNeverReused` |
| `CoordinatorProofs` | `Composition` | `ServedCalls` implies `CoordinatorSpec => Spec` |
| | `ServerKeepsPromises` | all of the theorems of `SegmentStoreProofs`, but the types, of `CoordinatorSpec` |
| | `WritersAreLeased` | `ServedCalls` implies `CoordinatorSpec => [](CoordinatorTypeOK /\ LiveSessionsAreLeased)` |
| | `CoordinatorTypes` | `ServedCalls` implies `CoordinatorSpec => []CoordinatorTypeOK` |
| `ShutdownProofs` | `ShutdownTypes` | `Spec => []TypeOK` |
| | `StoreIsResetLast` | `Spec => []StoreOutlivesItsThreads` |
| | `EveryThreadIsJoined` | `Spec => []NoThreadIsLeft` |
| `FrameStreamProofs` | `AssemblyStaysBounded` | `Spec => []AssemblyIsBounded` |
| | `AnswersAreOwn` | `ResponsesFit` implies `Spec => []AnswersMatch` |
| | `RequestsAreDispatchedOnce` | `ResponsesFit` implies `Spec => []DispatchedOnce` |
| `StateFileProofs` | `StateFileTypes` | `Spec => []TypeOK` |
| | `SavesAreAtomic` | `Spec => []AckedStaysInFile` |
| | `StartsFromASavedImage` | `Spec => LoadsWhatWasSaved` |
| | `SavedFilesLoad` | `DecodableSizes` implies `Spec /\ [][KeepsWidth]_vars /\ []FencedFit => []SavedFileLoads` |
| `ValidationProofs` | `BatchesAreGoverned` | `MessageSpec => []AcceptsExactlyTheGoverned` |
| | `NothingIsWithheld` | `MessageSpec => []ReasonsAreComplete` |
| | `EarlierPhasesDominate` | `MessageSpec => []RequestPrimaryDominates` |
| | `OraclesAgree` | `MessageSpec => []OracleAgrees` |
| `ExplanationProofs` | `ComparisonsArePatches` | `MessageSpec => []DiffIsPatch` |
| | `ComparisonsSeeTheDigest` | `MessageSpec => []DiffSeesWhatIsDigested` |
| | `ExplanationsAreTrue` | `MessageSpec => []ExplanationsAgree` |
| | `MessagesAreFaithful` | `MessageSpec => []MessagesSurvive` |

### The store

The inductive invariant is `IInv == TypeOK /\ LockInv /\ PlanInv /\ DurableInv`
(theorem `Invariance`).

* `VisibleIsDurable` is not inductive: a swap makes visible whatever is
  pending, so one has to know that the pending image is the saved one
  (`DurableInv`), that only the thread that saved holds the lock, and that a
  pending image has a larger revision than the visible one (`LockInv`). Recovery
  rewrites lists in memory before they are saved, so while the process starts
  the lists are the saved ones or their recovered forms.
* `PlanInv` is what makes the two-phase commit work. What phase B found out
  (the attempt is free, the generation is the expected one, the superseded list
  is live, the lifecycle admits the event) is not looked at again in phase E,
  which compares revisions only. `PlanInv` says that the findings still hold as
  long as the revision is the captured one, which needs that every swap
  increases the revision.
* `DiskInv` (theorem `DiskInvariance`) adds that an absent list is `Declared`
  and an active list is `Current` on disk, which the refinement needs to tell
  the abstract status from the concrete one.

The second part of the module classifies every step by what it does to the durable
image (`DiskMoves`, `ListsMove`): nothing, one commit, one closing transition,
or a weakening by recovery, refresh or registration. Each of the action
properties and the refinement follow from that classification.

The third part is about everything else in an image. It first sorts the steps by
what they do to the four images (on disk, visible, pending, and the tables that
have no lock): `ImageStep`. Then `ImageInv` is inductive (theorem
`ImageInvariance`):

* `ImagesInv` says of each image that its history is gapless and short enough,
  its replay table within its limit, that the writers of its lists are in its
  tables, that what its lists are bound to is registered in it, and that a list
  is bound to what its body needs; and of the visible and the pending image that
  the live registry and authority table are never behind them. The last part is what a save relies
  on: it writes the list that was validated with the registry as it is now.
* `CapturedInv` says of a prepared call that its writer is in the authority
  table, that there is room for its attempt as long as the store has not moved,
  and that its draft resolved against the view it captured, which is the present
  registry as long as the registry revision is the captured one.
* `EvidenceInv` (theorem `WatermarkVouches`) says that a snapshot is the
  present evidence as long as the watermark is the one read before it. The order
  of the two reads matters: with the snapshot first the invariant fails.
* `AckInv`, `EpochInv` and `AvailableInv` carry acknowledgements, epochs and
  availability. `EpochInv` needs that nothing but a start advances the epoch
  (`~ EpochAdvances`), which is so in the coordinator; an epoch that a
  caller of the library advances in memory may never be saved, and the next
  start takes it again.

### Batches

`CommitBatch` is no step of the store, so the invariants of the store are shown
again for it. `BatchInv` (theorem `BatchInvariance`) is `DiskInv` with

* `RestInv`: what phase B found out about every further draft of a batch still
  holds as long as the store revision is the captured one, `PlanInv` for the
  drafts that are not in `plan`;
* `TransitionsInv`: a transition records nothing that would pass for a commit;
* `PayloadInv`, the type of `payload`, and `BatchIsAtomic` itself.

The image a batch saves is a recursive function of its drafts. The lemma
`ImagesAre` shows that the function exists; what the image is after `k` drafts
(`ListsAfter`: each list that one of them is for has its next generation, closed
lists stay closed, and if no two drafts touch the same list the superseded ones
are closed) goes by induction over `k`. The induction theorems of the library take an operator,
which the provers cannot instantiate, so the proofs take the least `k` at which
a statement fails, which exists by `WFMin`.

`BatchesKeepPromises` includes `LineagesStayClosed` and does not contradict the
run `batch_reopens`: the list that a batch supersedes and replaces is never saved
as closed, so no closed lineage is reopened; the draft that superseded it was
committed without effect.

`BatchImageInv` (theorem `BatchImageInvariance`) adds `ImageInv` of the store and
`RestCaptured`: every further draft of a batch resolves in the view its call
captured. `BoundAfter`, again by induction over the drafts, says that after `k` of them
a list either keeps its binding and is no more available than it was, or is bound
to what one of its drafts resolved; with the watermark, the registry revision and
the epoch verified in phase E that is what is in force (`DraftsAreCurrent`), so
the image is as good as the one it is built from (`BatchImageOk`). The four
theorems on freshness, images, restarts and epochs follow as for single drafts.
`ReplacedIsRecorded` has no theorem here: it assumes a history of two entries or more,
and a batch appends up to three for every draft, so that a short history drops
the revision that an early draft replaced within the same commit.

### The server

`Composition` shows that every action of the coordinator is an action of the
store or leaves its variables alone. `ServedCalls` says that the store answers
the calls that the server makes: creation, revalidation and refresh. The set
`Calls` exists only to make instances small.

`LiveSessionsAreLeased` looks at a session and a lease; `LeaseInv` adds what
connects them: a registered session names the boot that the authority table has
for its publisher, so that a later hello of another boot cannot revive it; a
connection that is about to erase its lease has fenced its boot; a lease that is
about to be touched is that of a registered publisher, which stays registered
until the process ends; and the monitor has publishers to fence only between the
two steps of an expiry.

### The end of the process

`ShutdownInv` relates where each thread is to the flag and to the two sets of
connections that `stop()` takes. The hard part is `StopInv`: once a caller of
`stop()` has taken the workers, every thread that is still in the store belongs
to one of the callers; a thread that `serve()` starts later finds the flag set
before it reaches the store.

### The stream

`ExchangeInv` describes every state of the worker as one of four (`Phase`): it has
no connection (`Idle`), nothing of an exchange is in flight (`Quiet`), part of a
request is (`Asked`), or part of the response to the present request is
(`Answered`), where the pieces in the sockets and in the assembler put together
are a prefix of the frame. The other connections are not in any of these, since
their threads run on with what the worker left them. Of every connection that is
served, `HeldInv` says that what it holds is at most a part of one request, and
`CarryInv` that this request was not dispatched, is later than those the
connection brought before, and is on no other connection. Together with the
order of what was dispatched (`DispatchInv`) this is what `DispatchedOnce` needs
when an old thread dispatches late.

`ResponsesFit == ServerMax <= WorkerMax` is needed. With `WorkerMax` 1 and
`ServerMax` 2, TLC finds an exchange that takes the answer to the request
before it: a response that the worker refuses at its header stays in the
stream, since `exchange` returns without closing the connection
(`worker.cpp:84-88`), the next exchange starts with an empty assembler on the
same stream, and request ids are not compared. The two limits are separate
(`coordinator.hpp:22`, `worker.hpp:18`) and equal by default (`limits.hpp:27`);
the sources do not say whether they may differ.

### The state file

`DecodesToItself` is the lemma under everything: decoding the encoding of an
image gives that image. `StateInv` says what the file holds at every step of a
save: the acknowledged image until the rename and the new one after it, and of a
damaged file that it is shorter than its header says or has a record that its
CRC does not fit. `SavesAreAtomic` and `StartsFromASavedImage` follow.

`SavedFilesLoad` has four conditions that the code relies on and does not
enforce, and fails without each of them; TLC gives the counterexample:

| condition | without it |
|---|---|
| `KeepsWidth`: a profile keeps its payload width | the digests of its lists do not fit (run `profile_width_changes`) |
| `FencedFit`: publishers and fenced boots together are within the limit on publishers | the plausible number of records has no term for fenced boots (`persistence.cpp:769`); one publisher, one fenced boot and a limit of 1 |
| `DecodableSizes`, widths | `register_profile` takes a width above the largest payload that `decode_profile` takes |
| `DecodableSizes`, references | `register_policy` takes more references than `decode_policy` does |

### Validation

The checks are folds and concatenations over sequences, and the induction
theorems of the library cannot be used with them (see [batches](#batches)). The
lemmas `AddAllRun` and `FlattenRun` turn a fold into a function of the prefixes,
and every statement about a fold is shown at the shortest prefix where it fails
(`NoFailure`).

`ValidationInv` says that `combined` is `Complete` for what was found of the
drafts so far, and that `result` and `status` are what the last draft and the
end of the loop made them. `Complete(result, found)` is the relation between a
bounded result and the set of all findings; what makes it inductive is that
`Add` overwrites the last reason with the note only when the result is full, and
that a result that has the note takes nothing more (`AddAllCompletes`,
`AbsorbCompletes`: the same for the results of two drafts that are both cut).

* `BatchesAreGoverned`: one lemma per check says when it finds nothing
  (`ListLifecycleIs`, `LifecycleIs`, `CheckProfileIs`, `CheckPolicyIs`,
  `CheckStructuralIs`, `CheckLimitsIs`), and
  `NothingFoundOfGoverned` that all of them find nothing exactly of a governed
  draft. The scan is bounded by `max_segments`, so a draft with a defect behind
  the bound must be refused for its length; and repetition is judged by
  `SegmentSemanticEqual` in the code and by the canonical form in `Governed`
  (`SameCanonicalForm`), which are the same for payloads within the width only:
  a wider one is refused for its width.
* `EarlierPhasesDominate`: the reasons of a request come in the order of their
  phases (`LaterPhases`, `OnePhase`), and a full result never gives up a reason
  of the first phase that has one, since there are two places and the note takes
  the last (`AddAllKeepsFirst`).

### Comparisons and explanations

`AnswerInv` says that an answer is the value of the operator for its question;
the rest is about the operators. `PresentIs` says of a bounded presentation that
it has the first entries, counts all of them and is marked exactly if it lacks
one.

* `ComparisonsArePatches`: the entries with an index are one per place where the
  revisions differ, and as many insertions or removals as the lengths differ by
  (`SegmentChangesAre`), so that `Patched` has the length and at each place the
  segment of the later revision (`PatchIs`). This is so of segments only. The
  other entries tell what the code tells (`Detail`): of profile and policy the
  identifier and not the generation, of the authority the epoch and neither
  publisher nor boot, although a change of any of these makes an entry
  (`explain.cpp:146-175`); and of dependencies the theorem only counts the
  entries, since they do not say which one changed. `ComparisonsSeeTheDigest` rests on
  `CanonicalAlike`: padding to any width that no payload exceeds tells the same
  segments apart.
* `ExplanationsAreTrue`: `explain_segment` keeps the reasons of a validation that
  have the index of the segment, and an index of 0 is also that of reasons about
  the whole list. `Blames` says of each check which indices it blames and why;
  `RequestBlames` puts them together for the whole request.

### Oracle and library

Both are described as relations between the name of a reason, its index and its
detail (`LibraryGives`, `OracleGives`), from lemmas that say of each check which
triples it tells (`Tells`). `SameAtPlaces` compares the two relations place by
place: within `JointReasons` each place has a reason of the one exactly if it
has one of the other. The number of reasons is compared by `SamePlaces`: a
reason is determined by its place, so equal places are equal numbers. The
encodings agree because padding a payload and stripping its zeros first is the
same (`CanonicalForms`).

### Messages

A decoder is followed by its place in the payload: `Reads` says of a reader that
it has read the fields up to some place and has the rest of the payload before
it. `TakeReads` shows that a `Take` at the place where its layout was written
moves on by the layout and reads what was written, or finds that the payload
ends before it; `RepeatReads` the same for a repeated field, element by element.
Each message then is a chain of such steps (`MutationSurvives`,
`ResponseSurvives` and the others). `DamagedArrives` says what a payload that was
cut or goes on has in common with the one that was written.

### What the proofs changed

Three statements that TLC had checked on the small instance were false in
general; the proofs did not go through and showed where:

* `ExplanationsAgree` counted a repetition of an earlier segment whose payload
  is wider than the profile allows. For the code it equals nothing
  (`canonical.cpp:45`): it is refused for its width, and the later segment is not
  blamed. The property
  now counts repetitions of segments that fit;
* `OracleAgrees` said that the library's result is cut exactly if the oracle has
  more reasons than there are places. If the result is just full, a further
  reason that is already in it cuts it as well (`reason.cpp:290-303`): `add`
  looks for room before it looks for duplicates. The property now says that more
  reasons than places are always announced, and that a result that is cut had at
  least as many reasons as places;
* `DiffSeesWhatIsDigested` needs that the profile of the list is still
  registered; no profile is ever removed, but nothing in the module said so.

### Only model-checked

* liveness (`FencedWritersDegrade`, `ExchangeReturns`, `StopReturns`,
  `StopWaitsForPeers`): fairness and ENABLED are out of the prover's reach.

Every invariant and every action property that a run checks is stated by a theorem,
of the specification that the run checks.

## Where the code and its documentation disagree

Each of these is a run in which TLC finds a counterexample; the quotations are in
`PROJECT.json`.

| run | what happens |
|---|---|
| `fenced_never_commits` | a boot that is fenced while its mutation is being validated still commits: phase E compares the watermark, the registry revision, the epoch and the store revision, not the authority table that phase B captured (`store.cpp:707`). Over the wire the same keeps a list available after its writer has ended, when the commit lands after the last re-evaluation; this is why `FencedWritersDegrade` excepts boots with such a commit |
| `fenced_forever` | a fence is kept in memory until some later save; after a crash before it the boot can register again (`authority.cpp:119`) |
| `batch_reopens` | a batch that supersedes a list and replaces it commits both, and the superseded list is active again: each draft was validated against the state before the other (`store.cpp:594`) |
| `profile_width_changes` | after a profile changes its payload width the saved file does not load (`persistence.cpp:588`) |

The models have these behaviours too; they have no run of their own:

* `ReplaceList` over the wire is served with `create_list`, which refuses a list
  that exists (`coordinator.cpp:324`), so a worker cannot re-derive a list by
  replacement as `README.md:235-236` asks it to;
* in a batch, two drafts that create the same list both commit as its first
  generation, and the history has both; a draft may supersede the list that an
  earlier draft replaces; two drafts that supersede the same list refuse the
  whole batch in phase E;
* on POSIX `stop()` does not "unblock any connection thread that is waiting on a
  live peer socket" (`coordinator.cpp:103`): it waits until the peers leave, and
  `serve()` until one more connects (`StopWaitsForPeers`);
* `main` prints the epoch of a server whose store `stop()` has reset
  (`srf_coordinator.cpp:117`);
* `explain_segment` does not pass on that the validation it made was truncated:
  it may answer `Ok` for a segment whose reasons had no place, marked as complete
  (`README.md:360`: "a bounded one is never presented as complete").
  `explain_missing_capability` adds its `Ok` also if the entries did not fit a
  limit of 0;
* `diff` notices a new generation of profile or policy and a new publisher or
  boot, and its entry shows only the identifier or the epoch, which may be the
  same as before (`explain.cpp:148`, `152`, `174`);
* `diff` says that a dependency changed but not which, and does not compare the
  identifiers of path, route and constraint nor the scope
  (`explain.cpp:158-172`);
* of the differences that `tests/oracle/test_oracle.cpp:36-48` lists between
  oracle and library, three are gone (over-wide payloads, the invalid kind, the
  structural scan), and two that exist are not listed: for a segment that gives a
  topology or policy generation and no entity the library adds
  `SegmentMissingBinding`, and for repeats of payloads that are too wide and
  equal when cut only the oracle reports duplicates;
* `decode_response` fails without a reason when the frame ends before
  `idempotent_replay` (`wire.cpp:651`), and `exchange` then returns a response
  some of whose fields are already filled in;
* the limit on the total of segments is compared for new lists only
  (`store.cpp:754`), so replacements exceed it;
* a transition does not look up its attempt and overwrites the record of a
  commit (`store.cpp:866`);
* `revalidate` does not carry over the generations of path, route and
  constraint, so a list bound to one of them can never be revalidated, and loses
  a demanded topology or capability generation (`store.cpp:848`);
* dead publishers count against the limit on publishers, which `limits.hpp:24`
  describes as one on live sessions (`authority.cpp:76`);
* the plausible record count of a file has no term for fenced boots
  (`persistence.cpp:769`);
* `reason.hpp:16-17` says that a defect in an earlier phase always dominates one
  in a later phase. The superseded list is looked at after `validate_request`
  (`store.cpp:633`): if the result is full by then its reasons, which are of
  the lifecycle phase, are lost, and with them the status `NotFound` or
  `Conflict`. The same happens to the second draft of a batch;
* an acknowledged save is renamed into place but not synchronised to the device
  (`persistence.cpp:992`).

## Not modelled

* digests (`digest.cpp`, most of `canonical.cpp`): byte arithmetic; the modules use a digest as the thing it digests, that is, without collisions;
* `explain`, `explain_currentness`, `explain_supersession`, snapshots,
  `derive_list`'s path to a draft and the other read-only calls: lookups in one
  image that decide nothing and change nothing;
* which reason a refusal gives, outside the chain from `Validation` to
  `Messages`: in the other modules a refusal is a step that changes nothing;
* parsing and printing: the oracle's scenarios, command lines, the port file;
* payloads of more than 65535 bytes, whose length `write_segment` cuts to 16 bits
  without a check (`wire.cpp:28`);
* the process helper, the command-line worker, examples, benchmark and tests;
* corruption that a CRC does not detect.

## Plan

In order, the most important behaviour first. Done are `Lifecycle`,
`SegmentStore` with its abstraction `GovernedLists`, `Coordinator`, `StateFile`,
`FrameStream`, `Validation`, `Batch`, `Shutdown`, `Explanation`, `Oracle`,
`Messages`, and the proof of every safety property that a run checks of the
specification of its component and, for the store, also with batches among the
calls.

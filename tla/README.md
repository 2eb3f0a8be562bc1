# AnimaOS: a TLA+ verification project

AnimaOS runs an autonomous agent as a process: a *somatic loop* drains sensory
input, arbitrates it, schedules it as tasks, dispatches them to a language-model
backend, sleeps when idle, trains on what it experienced, and answers to an
operator through a console. This directory holds TLA+ models of the parts of it
whose correctness depends on order, interleaving and failure, the TLC
configurations that check them on small instances, and TLAPS proofs of the
properties that matter most for every instance. All paths are relative to the
repository, which is under `src/`.

## 1. Inventory

### Components, their state and their operations

| Component | State | Operations | What makes it correct |
|---|---|---|---|
| Scheduler (`crates/scheduler/src/mlfq.rs`) | three FIFO tiers; dispatch count; boost interval | `push`, `select_optimal_task`, `boost_all_to_high`, `check_and_boost`, `dispatch_task` | FIFO per tier, strict priority, nobody overtaken by a boost, bounded waiting with it |
| Somatic loop (`crates/vita/src/lib.rs`) | agenda, sensory id counter, `operator_tasks`, lifecycle state, last signals, shutdown flag, audit log | one iteration: poll, boost, ingest, inject intentions, sample, sleep or dispatch, record | every packet becomes one task or one audited drop; one task runs at a time; nothing runs twice; prompt shutdown |
| Striatal Gate (`gate.rs`, `motivation_gate.rs`, `crates/motivation`) | none (drives are read) | `decide`, `decide_motivated` | urgent and forced guidance always passes |
| Sensory bridge (`crates/senses`) | shared FIFO of packets, active bounds | `packetize_*`, `next_prioritized_packet` | a packet accepted is delivered once, in order |
| Prospective memory (`prospective.rs`) | intentions with due time, `dispatched` flag | `add_*`, `inject_due_intentions`, `complete`, `flush` | each occurrence of an intention runs once |
| Conversation (`conversation.rs` in vita and in the hosted kernel) | session transcript | `compose`, `record_reply`, `record_question` | reads as a dialogue, only operator tasks in it |
| Supervisor and `serve` (`kernels/hosted/src/commands.rs`) | consecutive failures, signal flags | `supervise_somatic_loop`, approval drainer | restarts are bounded, a signal ends the agent |
| Adapter library (`crates/finetune/src/library.rs`) | registered adapters, two clearance maps, mounts | `register`, `evict_one`, `record_adoption`, `record_operator_approval`, `revoke_operator_approval`, `mount_gated`, `unmount` | what is served has both clearances for exactly these weights; capacity |
| Approval queue (`crates/lifecycle`) | proposals with status, log | `enqueue`, `approve`, `reject`, `rollback`, the adapter and skill bridges | a proposal is decided once; what needs a decision gets before the operator |
| Console (`crates/console`) | event hub (sequence, replay ring, current values, subscribers), audit tailer (offset, correlation links) | approval actions, guidance, event stream with `Last-Event-ID` | a page sees every event once and in order, under the message that caused it; decisions reach the component they are about |
| Skills (`crates/skills`) | registry with states; episode summaries | reflection, promotion gate, `register`, `promote`, `rollback`, `quarantine`, `kill_switch` | nothing unapproved is active, nothing withdrawn comes back, what is proposed gets before the operator |
| Memory and sleep (`crates/memory`, `crates/vita/src/sleep.rs`) | L1 store, L2 cache, L3 archive and its file, archive ids | pruning, demotion, replay validation and rollback, dreaming, compilation, consolidation | nothing is lost silently between tiers, what is archived stays |
| Audit log (`crates/vita/src/audit.rs`) | memory ring, file sink, HMAC sidecar with its running MAC, failure flag | `push`, `extend_chain`, reopening, `verify_audit_chain`, `load_entries_from_file` | complete, recoverable, tamper-evident without false alarms |
| Cortex bridge (`cortex_bridge.rs`) | transcript, tool-call count, child process, socket file | `invoke` through the chat or the Python bridge | well-formed transcript, truthful audit trail, nothing left behind, always returns |
| Praxis and tool cache (`crates/praxis`, `crates/tool-cache`) | drivers, circuit breakers, cache entries | `register`, `dispatch`, `record_success`, `record_failure`, `get`, `insert`, `clear` | a hit answers the request, a failing tool is cut off |
| Sessions and `jsonstore` | session records in memory and in one JSON file, its `.tmp` sibling | `open`, `insert`, `append_turn`, `archive`, `flush`, `atomic_write` | the file parses after a crash, what was acknowledged is kept, a restart continues the conversation |
| Other stores (jobs, webhooks, alerts, quota, users, consent) | JSON files | load, modify, `atomic_write` | as above |
| Corpus (`crates/corpus`) | bump allocators, PCB, system-call table | allocate, schedule | disjoint allocations under concurrency |

The remaining crates (defence, constitution, analytics, metrics, diagnostics,
comms, knowledge graph, kv-controller, configuration, protocol types) are text
classifiers, reports, numeric policies or adapters without a protocol of their
own. `PROJECT.json` lists every component with its status.

### Interaction

* Console and sensor threads push packets into the bridge's queue; the loop pops
  them. The queue's mutex is the only thing they share with the loop.
* The loop owns the `LifecycleManager` exclusively. Other threads hold only
  handles made before it started: the shutdown flag, the skill registry, the
  conversation, the adapter library.
* The supervisor runs the loop under `catch_unwind` and re-enters it with the
  same manager: agenda, ids, audit log and conversation survive a panic, the
  dispatch in flight does not.
* Consolidation, evaluators, console connections and the router meet in the
  adapter library; the approval queue has a lock of its own, and no code holds
  both locks at once.
* The approval drainer polls the skill registry, queues what it finds and appends
  to the audit file through a handle of its own; the console decides in the queue.
* The audit file is the only channel from the loop to the console: the tailer
  follows it, the hub fans it out, and pages keep a cursor across restarts.
* `serve` and the `anima sessions` commands share the session file with no lock.
* Tool calls run with no lock held, between two visits to the registry's and the
  cache's locks.

### Hard behaviours

Panics inside a dispatch, signals at any point of an iteration, handles that
outlive what they were made for, capacity limits (`operator_tasks`, the library),
decisions that arrive after their subject changed, two-lock updates, starvation,
clamped arithmetic at its ends; writes that stop half-way and processes that end
between two of them, two processes on one file, a child process that hangs or
dies, pages that reconnect to a restarted agent, ids that start again. Section "hazards" of `PROJECT.json` lists them
line by line with the properties that watch them.

## 2. Modules

| Module | Models | Notes |
|---|---|---|
| `Agenda` | `TaskAgenda`, `check_and_boost` | constant-level operators, shared by the next two state machines |
| `Mlfq` | the scheduler under endless arrivals | one step each for boost, arrival and dispatch |
| `StriatalGate` | the gate's arithmetic | exact integers: percentages in, ten-thousandths out |
| `SomaticLoop` | loop, bridge, gate, agenda, intentions, conversation, audit, shutdown, supervisor | composes `Agenda` and `StriatalGate` |
| `TaskLifecycle` | what the loop promises about a task | abstract specification |
| `MCSomaticLoop` | packets, readings and moods for TLC | |
| `AdapterAdoption` | library, adoption gate, approval queue, console | one lock per step |
| `AuditLog` | the audit file, its HMAC sidecar, the handles on them | one `write(2)` per step |
| `OperatorFeed` | audit file, tailer, hub, event stream, the operator's page | the agent reduced to the entries `SomaticLoop` writes about a task |
| `SkillApproval` | reflection, skill registry, approval drainer, queue, console, bridge | one lock per step |
| `ToolPath`, `MCToolPath` | tool cache, tool registry, circuit breaker, several callers | one lock per step, the driver's run between two |
| `SessionFile` | session store, `atomic_write`, `serve` and the CLI on one file | one system call per step |
| `CortexInvocation` | both cortex bridges, call after call | one step per branch of `invoke` |
| `SleepMemory` | L1, the L3 archive and its file, replay, over sleep cycles and restarts | one demotion per step |
| `MlfqProofs`, `SomaticLoopProofs`, `AdapterAdoptionProofs`, `SkillApprovalProofs`, `SleepMemoryProofs`, `CortexInvocationProofs`, `SessionFileProofs`, `AuditLogProofs` | proofs | |

Operators named after an action with a twist (`TopWithoutPoll`, `RevokeOnly`,
`BoostLowFirst`, ...) are mutants: the plausible bug that the property named
with them in `PROJECT.json` catches. No specification uses them.

### How the state and the steps correspond to the code

*Agenda and Mlfq.* An agenda is a function from tier to FIFO of ids; a task's
`mlfq_level` is the tier it sits in. `dispatch_count` is only asked whether it is
a positive multiple of `boost_interval`, so its phase is kept, not its value.
`waited` and `before` are history variables: the dispatches a queued task has
watched, and who had arrived behind whom.

*SomaticLoop.* `pc` says where the loop thread stands: `supervise`, `top` (steps
0 and 1), `ingest` (step 2, one packet per step, since producers may push between
two pops), `inject` (intentions, then steps 3 to 6), `dispatch` (the await),
`crashed`. A loop step runs from one access to state another thread can touch to
the next. `Admit` and `Decline` are the whole body of the ingestion loop: id,
link entry, gate decision, `operator_tasks`, push. `Begin` is everything from
`select_optimal_task` to the await, the `RouterDecision` entry of
`resolve_dispatch_backend` included (`serve` always installs the tier map);
`Complete`, `Fail` and `Panic` are the ends
of it. The audit log is kept per task id, as the sequence of entries that carry
the id. `FirstSensoryId` stands for `1 << 63`: sensory and intention ids are
disjoint ranges, in the same order as in the code. `crashes` is the history of the
runs the supervisor caught, each healthy (a minute or more) or early. `signals` is `last_signals`,
the reading of an earlier iteration.

*AdapterAdoption.* The four maps of `AdapterLibrary` are four functions with
`None` for an absent key; an artifact is its digest. `Register` is the whole of
`register` including the eviction; `TurnedAway` its error path, which
`run_consolidation` ignores. `Settle` is what `serve_approval_action` does under
the queue lock, `SettleInLibrary` what it does afterwards under the library lock;
what it carries in between is `settling`. Any unmounted entry may be the eviction
victim, because `created_at_ns` is the trainer's clock and the fixture trainer
stamps a constant. The evaluation's verdict is a choice. At this commit the
evaluators' and the router's calls come from tests; the library's documentation
says who is meant to make them, and the model lets them come from any thread.

*AuditLog.* `writeln!` on a `File` is two writes, so a line is the sequence of
texts written before its newline and the last line of a file is the one still
open; two handles can interleave inside a line. A MAC is the sequence of entries
it commits to (HMAC is taken to be injective). `pc` of a handle says which of the
four writes of `push` comes next. An entry that does not serialise and a handle
whose sink failed both end in `PushInMemory`. `Restart` may come anywhere.

*OperatorFeed.* The agent's thread writes handler by handler: `Intake` (the link
when the packet carries a message id, the gate's decision when it is arbitrated),
`Start` (`TaskStarted`, `RouterDecision`), `Settle` (`TaskCompleted` or `TaskFailed`,
a request for help, or nothing after a panic). Entries that the tailer publishes
without looking at a task (`RouterDecision`, `HelpRequested`, snapshots of drives and
affect, a watchdog trip) are notes. `log` is the file, `offset` what the tailer consumed, an event
carries its id (the byte offset of its line's end, or the hub's counter for
events published directly), its line and the message stamped on it. `chan` is what
a connection has still to write: the snapshot of `subscribe`, then live events.
Of what the page shows the last line is kept, and in `again` any line that came
twice or late. Direct events are `Accepted` and `AuthLockout`, which go to the ring;
`ConsoleService::publish`, meant for the driver's `State`, has no caller.
`Restart` empties the agent, the tailer and the hub and leaves the file and the
page with its cursor. The guard of `PublishDirect` states what the ids rely on:
fewer direct events come between two lines than a line has bytes.

*SkillApproval.* A skill is the pair of tools it was drafted from. `Dream` is
`run_self_improvement_reflection` as a whole, since it holds the registry's lock
throughout. The drainer's three phases are three actions because it takes one lock
at a time. `Deciders` chooses between the console, which only settles the queue,
and code that goes through `SkillApprovalBridge` and the registry. At this commit
only tests and a CLI demonstration do the latter.

*ToolPath.* A call is `Lookup` (cache lock), `Admit` (registry lock), the driver's
run, `Succeed` or `Fail` (registry lock), `Keep` (cache lock). An answer remembers
the driver that gave it. `Hash` is a parameter; the run uses one that collides.

*SessionFile.* Names and descriptors refer to inodes, as they do in the file
system, because the `.tmp` name is shared. `mem` is each process's copy of the
store. An operation changes the copy and then goes through `create`, `write` and
`rename`; `acked` collects what answered `Ok`. A store that cannot be read at start
is replaced by one in memory, as `SessionConversation::open_at` does.

*CortexInvocation.* `todo`, `declared` and `answered` are the part of `messages`
that a provider checks. The child may exit or hang anywhere. `send` is the place
where the caller is in `send_ipc`: a running child takes the frame when it likes, an
ended one makes the send fail. `leaks` records the two early returns of
`PythonCortexBridge::invoke` that precede any cleanup, `orphans` the children one of
them leaves. A poisoned lock is a `CortexFault` to the caller but is not recorded as
one; the model calls it an error. The
Python bridge has no caller on the serving path; the chat bridge serves `anima ask`.

*SleepMemory.* A node's kind fixes its embedding and its decay; two nodes of one
kind are what replay cannot tell apart. `Sleep` is pruning and validation;
demotions follow one at a time, each rewriting the file; `Reinsert` ends the cycle.
The hosted kernel attaches neither L1 contents nor an archive yet: the library's
callers do.

## 3. Runs

| Run | States | Checks |
|---|---|---|
| `mlfq` | 92k | `WaitBounded`, `NoOvertaking`, `NoStarvation` |
| `somatic` | 236k | `TypeOK`, `ImplementsLifecycle`, `AuditOrder`, `ConversationFollows`, `OperatorHeard`, `OperatorTasksPending`, `GateKeepsUrgent`, `GivesUpOnStreak`, `ShutdownPrompt`, `PacketsSettle`, `ShutdownCompletes` |
| `adapters` | 99k | `ServedCleared`, `WithinCapacity`, `SignOffStands` |
| `audit` | 45k | `QuietLogVerifies`, `SidecarWithinLog`, `OneLostPerRestart`, `RecentRecoverable` |
| `audit_two_writers` | | violates `QuietLogVerifies` |
| `feed` | 995k | `LinesOnceInOrder`, `NoLineSkipped`, `StampedRight`, `EveryLineShown` |
| `skills` | 72k | `ActiveOnlyApproved`, `WithdrawnStaysOut`, `ProposedReachesOperator` |
| `skills_console` | | violates `ApprovedBecomesActive` |
| `tools` | 1.4M | `CacheSound`, `HitAnswersRequest`, `FailuresContained` |
| `sessions` | 1.1M | `WholeUnlessRaced`, `AckedKept`, `ConversationContinues` |
| `cortex` | 55k | `TranscriptAnswered`, `OutcomeAudited`, `NothingLeft`, `InvokeReturns` |
| `sleep` | 234k | `ArchivedStays`, `LossAccounted` |

Every module has a `TypeOK` except `ToolPath`. It is an invariant of the `somatic`
run and part of the invariants proved in section 4, except for `SleepMemory`, whose
invariant asks only that its counters are naturals, and for `OperatorFeed`, about
which nothing is proved.

**What the violations show.** Each states what a document or comment of the
repository says and what the code does otherwise; `PROJECT.json` quotes the line.

1. With the approval drainer's own handle on the audit file, a log nobody touched
   fails `verify_audit_chain`: each handle extends its own copy of the chain.
2. A skill the operator approves on the console is never promoted.

**Exact statements of what holds.** Several properties name the exceptions the code
has, because the sentence in its comments is stronger than what it does:

* the audit log loses up to one acknowledged entry per process that ended inside a
  push, glued to the line it left open (`OneLostPerRestart`); what left the memory
  ring can be read back unless it was never written, because its own or an earlier
  write failed, or it was that entry, the first its process wrote
  (`RecentRecoverable`). Both are statements about one handle: the
  drainer's second one can put its text on a line of the loop's, and both entries are
  then unreadable with no restart at all;
* after a restart, entries of a task that no operator message caused may be
  stamped with a message of the earlier run whose task had the same id
  (`StampedRight` excludes them); `RouterDecision` and `HelpRequested` are about a
  task and carry no message at all;
* the session file is whole and complete unless two flushes overlap or one process
  writes from a copy older than the file (`WholeUnlessRaced`, `AckedKept`);
* calls already running when a breaker opens are recorded past the threshold, at
  most one per other caller; a failure of a driver that was replaced meanwhile
  counts against its successor (`FailuresContained`); answers of a driver that was
  replaced are served until they expire (`HitAnswersRequest` asks for the request's own
  payload, not for the current driver); a cache with `max_entries` 0
  holds one entry (`CacheSound`);
* a socket file is left behind when the listener's mode, the spawn or the stream's
  mode fails, and the task's later invocations then fail at bind; in the last of the
  three cases the child is left too, neither killed nor reaped (`NothingLeft`);
* "a dead/wedged cortex can never pin vita forever" holds of connecting and reading
  only: `send_ipc` has no write timeout and the last `wait` none either, so a live
  child that does not take a frame, or does not exit after its last one, holds the
  caller (`InvokeReturns` names these two and shows there is no third), and so does
  one that keeps sending, of which the model has `MaxFrames`;
* two losses of memories are reported by nothing: a demotion under an id the archive
  already has, since ids start at 0 in every process, and a rolled-back copy that
  replaces a newer memory under its key (`LossAccounted`).

**Known divergences without a run of their own.** They follow directly from the
models above or from one missing call:

* a boosted task still waits behind all of High, so the bound in the header of
  `mlfq.rs` (`boost_interval` dispatches) is not the bound; `WaitBounded` is;
* `serve` never boosts: `LifecycleManager::new` leaves the interval at 0, and
  `Mlfq` starves a Low task at that value;
* `dispatch_task` says that slice accounting "never over-draws"; a budget of 0 takes
  one token, because the comparison follows the count;
* the documentation of `task_cancel` and `cancel_current_task` has signal handlers
  and other threads cancel the running task; the loop holds the manager exclusively
  while it runs and nobody outside tests takes a handle, so nothing is ever cancelled;
* `gate.rs` says every invocation is preceded by a gate decision; sensor packets and
  due intentions are not gated (`Admit`, `Inject` in `SomaticLoop`);
* nothing calls `IntentionStore::complete`, so a recurring intention fires once;
* weights registered again under a digest that was decided before lose their
  sign-off and can never be proposed again;
* reflection truncates to `max_patterns` before known skills are filtered out, so
  frequent known patterns keep new ones from being proposed (`Patterns`);
* nothing resets the watchdog, so a trip is logged again with every completion.

**Bounds and why they are enough.** *Mlfq*: four tasks that come back after
dispatch, four levels (one out of range), interval 3, backlog 4: the bound of
`WaitBounded` is reached and one less would fail, and two tasks can wait in each of
two tiers when a boost comes. *SomaticLoop*:
two packets from one of each kind the code tells apart (forced, urgent, ordinary,
not the operator's), one intention, both ends of the gate's arithmetic, two
restarts, and room for one tracked operator task, so that eviction happens; two
packets and an intention are enough for one task to wait, one to run and one to
be queued behind it. *AdapterAdoption*: two adapters, one of them a baked variant,
for one slot; two digests; one mount point; two evaluators and two consoles, so
that a stale decision or settlement can overtake a current one. *AuditLog*: five
pushes over a ring of two with slack one, two restarts and two failed writes: a
torn line, its continuation by the next process and a second failure after it.
*OperatorFeed*: five lines, so that a message goes from its link through decision,
start and route to its reply and, in a shorter life, another one follows; two packets
over all processes, one place in the ring and among the links, so that both overflow
and a reply goes without its stamp; one loss of the connection or of the agent; one
note, value or direct event (`MaxOther`), since each multiplies the orders. *SkillApproval*: three tools give three pairs for a report of two,
one of them flagged; two episodes; either lock may be poisoned. *ToolPath*: two
callers, a cached and a bypassed tool, three payloads of which two collide, one
cache place, threshold two, two drivers, one tick for expiry and cool-down.
*SessionFile*: `serve` and one overlapping CLI call, two starts each, two sessions,
three turns, one failed call. *CortexInvocation*: four invocations of two tasks,
three turns of up to three tool calls against a limit of four, so that the limit
falls inside a turn; four frames, with a send before, between and after them. *SleepMemory*: two keys, a kind that fades, one
that fades and decodes to another, one that stays; four memories, three cycles,
an archive of three, a sample of two; one restart and one failed write.

**Fairness.** `WF(LoopStep)` (and `WF(Step)` in `Mlfq`): the loop is a thread the
operating system schedules, nothing it waits for is held by another thread for
long, and a backend call returns (the HTTP backends in `llm-backends` set a request
timeout). Producers, signals and operators get no fairness. `PacketsSettle`
therefore speaks of packets once no more come in, which is what the bound on
packets gives it. *OperatorFeed*: the tailer's thread polls for ever, a browser's
`EventSource` reconnects by itself, and a connection's thread writes what it has.
*SkillApproval*: the drainer's thread loops, and the loop goes on dreaming; nobody
has to decide anything. *CortexInvocation*: the caller's thread runs, calls of the
provider and of tools return, connect and read time out, a send to an ended child
fails; nothing is assumed of a send to a live one, and the child owes nothing.

**Deadlock** is checked in `mlfq`, `somatic`, `adapters` and `tools` (`Terminated` is
the step of a process that has ended). In the others the bounds on pushes, lines,
episodes, starts, invocations and cycles let the model stop where the program would
wait for more input.

## 4. Proofs

TLAPS checks the proofs from the named assumptions on the constants, which every
run evaluates: intervals and bounds are naturals, limits positive, inputs have
their types, `None` and `NoTask` are no ids, and `NoTask` is no packet. The theorems hold for every value of
the constants, not only for those of the configurations.

* **`MlfqProofs.BoundedWaiting`** (`WaitBounded`). The bound is not inductive. The
  invariant `WaitInv` adds: the backlog is kept, with one place free when the
  loop comes round after a dispatch; a task that is not queued has waited 0; a
  task below High has watched at most the dispatches since the last boost; a task
  at position *i* of High has watched at most `BoostInterval + Backlog - 1 - i`.
  A boost adds the tiers behind High, where position and lag trade off against
  each other. The lemmas on positions under push, pop and boost come first.
  `NobodyOvertaken` proves `NoOvertaking`: two tasks in order stay in order under
  push, pop and boost (`OrderStep`), the boost being the case where two tiers are
  appended to High in turn (`BoostKeepsOrder`).
* **`SomaticLoopProofs`**. `SafeInv` joins types, ids left for queued packets, a
  task whenever a dispatch is under way, a crash counter that is the length of the
  last streak of early crashes, below the limit unless the supervisor gave up, at most one late start and none still possible
  after it, and a justification for each declined packet. From it follow
  `TypeCorrect`, `SupervisorPersists`, `PromptShutdown` and
  `UrgentGuidanceKept`; the last rests on `UrgentInvokes`: for every reading and
  mood, the value of a High packet saturates at 1.0 and no threshold passes 0.99.
  `LifeInv`, which uses `SafeInv`, follows a task through the loop: an id that was
  not handed out has no log and is nowhere (`FreshInv`); a task waits in the agenda
  at most once, not while it runs, and its log then holds intake entries only
  (`QueuedInv`, with lemmas on what push, pop and boost do to the contents
  of the tiers); the log of the running task ends with its start and route (`RunningInv`);
  every turn of the conversation is of a started task and the open one is the last
  (`ConversationInv`); an operator task with fewer than `MaxTracked` later ones is
  still tracked, and its dispatch composed (`TrackedInv`). None of the four
  properties is inductive without these: a second start would break `AuditOrder`,
  and only `QueuedInv` says there is none. `LogAttributable`, `TranscriptFollows`,
  `TrackedTasksWait` and `EveryMessageHeard` follow.
* **`SomaticLoopProofs.LoopRefinesLifecycle`** (`ImplementsLifecycle`). The
  refinement of `TaskLifecycle` step by step, with `LifeInv` on both sides of a step:
  `Admit` and `Inject` are `Queue`, `Decline` is `Drop`, `Begin` is `Start`,
  `Complete`, `Fail` and `Panic` are `End`, and every other step leaves the status of
  every task as it is. The mapping reads status from the agenda, the task in flight
  and the log, so that a task cannot be counted in two places.
* **`AdapterAdoptionProofs`**. `ServedCleared` is not inductive because a sign-off
  reaches the library in a step of its own. `ClearanceInv` adds that each
  clearance is for the registered digest, an operator's also for a proposal the
  queue has approved, and that what a console carries agrees with the queue,
  where a decided proposal never changes. `SignOffOnlyRevokedWithCause` proves the
  action property from the same invariant (a rejection under way is never about
  weights that were signed off), `CapacityRespected` counts the library's entries.
* **`SkillApprovalProofs`**. `WithdrawnStaysOut` is not inductive: `promote` would
  bring any skill back. `WithdrawnSettled` adds that a withdrawn skill's proposal is
  settled, or was never made because the skill was auto-promoted, and
  `NothingToHandOver` that with auto-promotion nothing is ever handed over. With
  `ActiveOnlyApproved` and the types (the bridge tracks exactly the skills that have
  a proposal) they are inductive, and give `OnlyApprovedActive` and
  `WithdrawnForGood`.
* **`SleepMemoryProofs`**. The invariant relates the three places a memory can be:
  the file is contained in the index and what the index has beyond it was reported
  (`DiskWithinIndex`), before a restart ids are fresh (`FreshIds`), the first cycle
  finds an empty archive (`FirstCycleEmpty`), and between cycles nothing is on its
  way (`AwakeSettled`). `ArchiveKeepsItsWord` and `EveryLossAccounted` follow.
* **`CortexInvocationProofs`**. `CortexInv` says which bridge is at which place
  (`BridgeOf`); that within an answer each declared call is answered or still in the
  inner loop's list (`DialogueInv`); that a running invocation has recorded vetoes
  only (`TrailInv`); that a child exists only while an invocation owns one, a
  socket only for its own task or among the leaks, and an orphan only among them
  (`ProcessInv`). From it
  follow `EveryCallAnswered`, `TrailTellsOutcome` and `ChildAndSocketGone`.
* **`SessionFileProofs`**. `StoreInv` says that while no two flushes overlapped the
  `.tmp` inode belongs to the one process that is writing and the path names another
  one, which is whole (`OneFlush`); that the file, and each copy as recent as it,
  hold all that was acknowledged, the session last talked in, and, of the sessions
  `serve` created, only ones begun when the older ones were archived (`KeptInv`); and
  that no copy mentions a session not yet created (`KnownInv`). `KeptInv` is what
  makes `ConversationContinues` inductive: `serve` resumes the newest active session
  of the file it reads. That this newest one exists for every number of sessions is
  proved from the well-foundedness of `<` on the naturals. `NeverCorrupted`,
  `AcknowledgedStays` and `SameConversation` follow.
* **`AuditLogProofs`**. For any number of handles, `LogInv`: entries are numbered by
  their pushes and a push extends the chain only by an entry that is in the file
  (`EntryInv`); every chain, on disk or in a handle, is of written entries in order
  and older than the entry about to extend it (`ChainInv`); an entry with *n* places
  of a ring behind it has *n* later pushes (`RingInv`), which is why the drain only
  takes out entries that `max_entries` later ones stand behind. `SidecarSound`
  (`SidecarWithinLog`) follows. For one handle (`Handles = {h}`), `DiskInv`: a line
  left open by an earlier process means fewer losses than restarts and nothing
  written yet by this one, so that the newline which ends it may lose one entry, and
  only the first; and `QuietInv`, line by line: while nothing disturbed the log its
  *i*-th line is one entry, the sidecar's *i*-th line the MAC of the first *i*, `prev`
  the last of them, and each place of `push` says which of the two files is ahead.
  The restart case needs `ChainInv` too: the MAC read back must not look torn.
  `LogVerifies` (`QuietLogVerifies`), `FewLost` (`OneLostPerRestart`) and
  `DroppedIsRecoverable` (`RecentRecoverable`) follow. The hypothesis of one handle
  is needed: with two the run `audit_two_writers` violates the first, and the other
  two fail as well.

**Only model-checked:** `NoStarvation`, `PacketsSettle`, `ShutdownCompletes`,
`EveryLineShown`, `ProposedReachesOperator` and `InvokeReturns` (liveness under
fairness is out of the prover's reach); `LinesOnceInOrder`, `NoLineSkipped` and
`StampedRight` of `OperatorFeed`; `CacheSound`, `HitAnswersRequest` and
`FailuresContained` of `ToolPath`. These six safety properties are not proved yet;
section 6 says where to start.

## 5. Not modelled, and why

Within the modelled components: counters, statistics and histories no decision
reads; cost classes and the choice of a backend; the validation of packet contents (a
rejected packet changes nothing); `max_iterations`, which `serve` leaves unset; the
trimming of the conversation to its context budget; panics outside the backend call,
except as poisoned locks in `SkillApproval`; the text of prompts, audit entries and
frames. Cancellation is not modelled because nothing cancels. The dream walk, the compilation and
the L2 cache neither move memories between tiers nor change the registry.
`SessionStore::delete` has no caller. In `OperatorFeed` all lines have one length
and a page holds one connection; file rotation and truncation are not modelled.

The repository has some 105 thousand lines, most of them outside the reach of a
state machine worth checking: CLI commands that print or edit one record, text
classifiers and rule matchers, numeric code (quantisation, KV-cache policy, decay,
analytics), boot and TLS code of the microVM, tests inside the source files, and
types. The models cover the code in which threads, processes and failures meet;
the map names the lines. `PROJECT.json` lists the components left out, each with
the reason.

## 6. Plan

1. *Done*: all modules and runs above; the safety theorems of the scheduler, the
   loop, adapter adoption, skill approval, sleep memory, the cortex bridges, the
   session file and the audit log; the refinement of `TaskLifecycle`.
2. Proofs still open, with the invariant each needs beyond the property:
   `ToolPath.FailuresContained` (a closed breaker has counted fewer failures than the
   threshold, a half-open one none, and for an open one the failures counted plus the
   callers still running stay within the bound), `CacheSound` and
   `HitAnswersRequest`; `OperatorFeed.LinesOnceInOrder` (ids grow along the ring and
   the channel, and the cursor is never behind the last line shown).
3. If the code grows callers for them: intention completion, webhook delivery from
   the loop, the Python bridge in `serve`, an archive attached to the agent.

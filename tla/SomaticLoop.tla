----------------------------- MODULE SomaticLoop -----------------------------
(***************************************************************************)
(* The serving agent: the somatic execution loop (crates/vita/src/lib.rs), *)
(* the sensory queue that feeds it, the Striatal Gate, the agenda, the     *)
(* conversation, prospective memory, and the supervisor that restarts the  *)
(* loop (kernels/hosted/src/commands.rs).                                  *)
(*                                                                         *)
(* Threads: the loop; the console threads that push packets into the       *)
(* queue; the signal handler that raises the shutdown flag.  A loop step   *)
(* runs from one access to that shared state to the next; everything else  *)
(* the loop touches is its own.  That includes the cancellation token:     *)
(* the loop holds the manager exclusively, nobody on the serving path      *)
(* takes a handle before it does, so no dispatch is ever cancelled.        *)
(***************************************************************************)
EXTENDS Agenda, StriatalGate, FiniteSets

CONSTANTS
    MaxPackets,         \* bound: packets submitted in one behaviour
    NumIntentions,      \* bound: intentions in the prospective store
    OfferedPackets,     \* the packets the console and the sensors submit
    SignalSamples,      \* what the sensor bundle may read
    Moods,              \* the drive states of the motivated gate
    BoostInterval,      \* scheduler.boost_interval, 0 as LifecycleManager::new leaves it
    GateOperatorInput,  \* gate_operator_input
    MaxTracked,         \* MAX_TRACKED_OPERATOR_TASKS
    MaxRestarts,        \* MAX_SOMATIC_RESTARTS
    NoTask

\* PrioritizedPacket, less its payload.  Only packetize_text_forced_tagged sets
\* an override reason, on an operator's packet at Critical priority.
Packets == {p \in [origin : {"operator", "internal"}, priority : Priorities,
                   forced : BOOLEAN, linked : BOOLEAN] :
              p.forced => p.origin = "operator" /\ p.priority = "critical"}

ASSUME BoundsAssumption == MaxPackets \in Nat /\ NumIntentions \in Nat /\ BoostInterval \in Nat
ASSUME LimitsAssumption == MaxTracked \in Nat \ {0} /\ MaxRestarts \in Nat \ {0}
ASSUME InputsAssumption ==
    /\ OfferedPackets \subseteq Packets
    /\ SignalSamples \subseteq Signals
    /\ Moods \subseteq Mood
    /\ GateOperatorInput \in BOOLEAN
ASSUME NoTaskAssumption == NoTask \notin Nat \cup Packets

IntentionIds == 0 .. NumIntentions - 1

\* Mutant: sensory ids start where the intention ids do.
SensoryFromZero == 0

\* next_sensory_task_id starts at 1 << 63, above every intention id.
FirstSensoryId == NumIntentions

SensoryIds == FirstSensoryId .. FirstSensoryId + MaxPackets - 1

Ids == IntentionIds \cup SensoryIds

VARIABLES
    pc,             \* where the loop thread stands
    queue,          \* SensoryBridge.queue
    shutdown,       \* the cooperative shutdown flag
    agenda,         \* the task agenda, ids by tier
    phase,          \* the phase of dispatch_count, see Agenda
    nextId,         \* next_sensory_task_id
    operatorTasks,  \* operator_tasks
    state,          \* LifecycleState
    signals,        \* last_signals
    inflight,       \* the task being dispatched, or NoTask
    composed,       \* operator_task, a local of the dispatch
    intentions,     \* the store: "future", "due", "overdue" or "dispatched"
    dueNow,         \* due_ids, a local of inject_due_intentions
    conversation,   \* the session's turns: <<role, task id>>
    audit,          \* the audit log, split by task id
    failures,       \* consecutive_failures of the supervisor
    crashes,        \* history: for each caught crash, how long the run had lasted
    packetOf,       \* history: the packet each sensory id was given to
    lateStarts      \* history: tasks started after the shutdown request

loopVars == <<agenda, phase, nextId, operatorTasks, state, signals,
              inflight, composed, conversation, audit, packetOf>>
vars == <<pc, queue, shutdown, intentions, dueNow, failures, crashes, lateStarts, loopVars>>

Roles == {"user", "reply", "question"}
Entries == {"Linked", "GateInvoke", "GateDrop", "Started", "Routed", "Completed",
            "Failed", "HelpRequested"}

Init ==
    /\ pc = "supervise"
    /\ queue = <<>>
    /\ shutdown = FALSE
    /\ agenda = EmptyAgenda /\ phase = 0
    /\ nextId = FirstSensoryId
    /\ operatorTasks = {}
    /\ state = "Awake"
    /\ signals = Neutral
    /\ inflight = NoTask /\ composed = FALSE
    /\ intentions = [i \in IntentionIds |-> "future"] /\ dueNow = {}
    /\ conversation = <<>>
    /\ audit = [id \in Ids |-> <<>>]
    /\ failures = 0 /\ crashes = <<>>
    /\ packetOf = [id \in SensoryIds |-> NoTask]
    /\ lateStarts = 0

Log(id, entries) == audit' = [audit EXCEPT ![id] = @ \o entries]

Logged(id, entry) == \E i \in 1 .. Len(audit[id]) : audit[id][i] = entry

Stopped == pc \in {"exited", "gaveup"}

-----------------------------------------------------------------------------
(* The other threads *)

\* SensoryBridge::packetize_*: a packet that passed validation joins the queue.
Submit(p) ==
    /\ ~Stopped
    /\ nextId - FirstSensoryId + Len(queue) < MaxPackets
    /\ queue' = Append(queue, p)
    /\ UNCHANGED <<pc, shutdown, intentions, dueNow, failures, crashes, lateStarts, loopVars>>

\* SIGTERM or SIGINT: signal_hook raises the flag shutdown_handle shares.
RequestShutdown ==
    /\ ~Stopped /\ ~shutdown
    /\ shutdown' = TRUE
    /\ UNCHANGED <<pc, queue, intentions, dueNow, failures, crashes, lateStarts, loopVars>>

\* Wall-clock time passes an intention's due time, and later its grace period.
\* The loop reads the clock once per scan: what passes while it pushes the
\* intentions it found is seen by its next scan.
Tick(i) ==
    /\ ~Stopped /\ dueNow = {}
    /\ intentions[i] \in {"future", "due"}
    /\ intentions' = [intentions EXCEPT ![i] = IF @ = "future" THEN "due" ELSE "overdue"]
    /\ UNCHANGED <<pc, queue, shutdown, dueNow, failures, crashes, lateStarts, loopVars>>

-----------------------------------------------------------------------------
(* The loop thread *)

\* supervise_somatic_loop, head of its loop: enter somatic_execution_loop
\* unless a shutdown is already requested.
Supervise ==
    /\ pc = "supervise"
    /\ pc' = IF shutdown THEN "exited" ELSE "top"
    /\ UNCHANGED <<queue, shutdown, intentions, dueNow, failures, crashes, lateStarts, loopVars>>

\* Mutant: the loop never polls the shutdown flag.
TopWithoutPoll ==
    /\ pc = "top"
    /\ pc' = "ingest"
    /\ agenda' = CheckAndBoost(agenda, phase, BoostInterval)
    /\ UNCHANGED <<queue, shutdown, intentions, dueNow, failures, crashes, lateStarts,
                   phase, nextId, operatorTasks, state, signals, inflight,
                   composed, conversation, audit, packetOf>>

\* Steps 0 and 1: the shutdown poll, then the starvation boost.
Top ==
    /\ pc = "top"
    /\ pc' = IF shutdown THEN "exited" ELSE "ingest"
    /\ agenda' = IF shutdown THEN agenda ELSE CheckAndBoost(agenda, phase, BoostInterval)
    /\ UNCHANGED <<queue, shutdown, intentions, dueNow, failures, crashes, lateStarts,
                   phase, nextId, operatorTasks, state, signals, inflight,
                   composed, conversation, audit, packetOf>>

\* priority_to_mlfq_tier
TierFor(priority) ==
    IF priority \in {"critical", "high"} THEN 0 ELSE IF priority = "normal" THEN 1 ELSE 2

Gated(p) == p.forced \/ (p.origin = "operator" /\ GateOperatorInput)

\* Mutant: a full operator_tasks turns the new id away.
TrackUnlessFull(set, id) == IF Cardinality(set) >= MaxTracked THEN set ELSE set \cup {id}

\* operator_tasks evicts its lowest id when it is full.
Track(set, id) ==
    (IF Cardinality(set) >= MaxTracked THEN {x \in set : \E y \in set : y < x} ELSE set) \cup {id}

LinkEntry(p) == IF p.linked THEN <<"Linked">> ELSE <<>>

\* What the two outcomes of step 2 for one packet have in common.
Ingest(p) ==
    /\ pc = "ingest"
    /\ queue # <<>> /\ p = Head(queue)
    /\ queue' = Tail(queue)
    /\ nextId' = nextId + 1
    /\ packetOf' = [packetOf EXCEPT ![nextId] = p]
    /\ UNCHANGED <<pc, shutdown, intentions, dueNow, failures, crashes, lateStarts, phase,
                   state, signals, inflight, composed, conversation>>

\* Step 2, a packet that is not gated or that the gate invokes: it becomes a
\* task, and an operator's task is remembered for the conversation.
Admit(p, mood) ==
    /\ Ingest(p)
    /\ Gated(p) => Invoke(p.priority, p.forced, signals, mood)
    /\ Log(nextId, LinkEntry(p) \o (IF Gated(p) THEN <<"GateInvoke">> ELSE <<>>))
    /\ agenda' = Push(agenda, TierFor(p.priority), nextId)
    /\ operatorTasks' = IF p.origin = "operator" THEN Track(operatorTasks, nextId)
                        ELSE operatorTasks

\* Step 2, the gate declines: the decision is audited and the packet is gone.
Decline(p, mood) ==
    /\ Ingest(p)
    /\ Gated(p) /\ ~Invoke(p.priority, p.forced, signals, mood)
    /\ Log(nextId, LinkEntry(p) \o <<"GateDrop">>)
    /\ UNCHANGED <<agenda, operatorTasks>>

\* The queue is found empty: inject_due_intentions collects what is due.
ScanIntentions ==
    /\ pc = "ingest" /\ queue = <<>>
    /\ dueNow' = {i \in IntentionIds : intentions[i] \in {"due", "overdue"}}
    /\ pc' = "inject"
    /\ UNCHANGED <<queue, shutdown, intentions, failures, crashes, lateStarts, loopVars>>

\* inject_due_intentions, one intention in store order: High, or Low once it is
\* overdue by more than the grace period; marked dispatched.
Inject(i) ==
    /\ pc = "inject"
    /\ i \in dueNow /\ \A j \in dueNow : i <= j
    /\ agenda' = Push(agenda, IF intentions[i] = "overdue" THEN 2 ELSE 0, i)
    /\ intentions' = [intentions EXCEPT ![i] = "dispatched"]
    /\ dueNow' = dueNow \ {i}
    /\ UNCHANGED <<pc, queue, shutdown, failures, crashes, lateStarts, phase, nextId,
                   operatorTasks, state, signals, inflight, composed,
                   conversation, audit, packetOf>>

\* Step 4: at most once a second the sensor bundle gives a new reading, which
\* the gate uses from the next intake on.
SampleSignals == signals' \in {signals} \cup SignalSamples

\* Step 5, nothing to do: sleep (a no-op when asleep) and go round again.
Sleep ==
    /\ pc = "inject" /\ dueNow = {}
    /\ IsEmpty(agenda)
    /\ SampleSignals
    /\ state' = "Sleep"
    /\ pc' = "top"
    /\ UNCHANGED <<queue, shutdown, intentions, dueNow, failures, crashes, lateStarts,
                   agenda, phase, nextId, operatorTasks, inflight, composed,
                   conversation, audit, packetOf>>

\* Mutant: the id stays in operator_tasks after dispatch.
KeepOperatorTask(id) == operatorTasks' = operatorTasks

TakeOperatorTask(id) == operatorTasks' = operatorTasks \ {id}

\* Step 6 up to the await: wake, TaskStarted, compose the operator's turn,
\* RouterDecision for dispatch-<id> (serve installs per-tier backends, so
\* resolve_dispatch_backend always logs its choice), dispatch_task.
Begin(t) ==
    /\ pc = "inject" /\ dueNow = {}
    /\ IsTop(agenda, t)
    /\ SampleSignals
    /\ state' = "Awake"
    /\ agenda' = PopTier(agenda, t)
    /\ inflight' = Head(agenda[t])
    /\ Log(inflight', <<"Started", "Routed">>)
    /\ composed' = (inflight' \in operatorTasks)
    /\ TakeOperatorTask(inflight')
    /\ conversation' = IF composed' THEN Append(conversation, <<"user", inflight'>>)
                       ELSE conversation
    /\ phase' = NextPhase(phase, BoostInterval)
    /\ lateStarts' = IF shutdown THEN lateStarts + 1 ELSE lateStarts
    /\ pc' = "dispatch"
    /\ UNCHANGED <<queue, shutdown, intentions, dueNow, failures, crashes, nextId, packetOf>>

\* The dispatch is over one way or another: what its ends have in common.
EndDispatch ==
    /\ pc = "dispatch"
    /\ inflight' = NoTask /\ composed' = FALSE
    /\ UNCHANGED <<queue, shutdown, intentions, dueNow, failures, crashes, lateStarts,
                   agenda, phase, nextId, operatorTasks, state, signals,
                   packetOf>>

\* Mutant: the question is put to the operator before the answer is recorded.
QuestionThenReply(id, unsure) ==
    (IF unsure THEN << <<"question", id>> >> ELSE <<>>) \o << <<"reply", id>> >>

\* record_reply, then record_question when the confidence is low.
AgentTurns(id, unsure) ==
    << <<"reply", id>> >> \o (IF unsure THEN << <<"question", id>> >> ELSE <<>>)

\* dispatch_task returns Ok: reply, TaskCompleted, then for an operator's task
\* answered with low confidence the question and HelpRequested.
Complete(unsure) ==
    /\ EndDispatch
    /\ conversation' = IF composed THEN conversation \o AgentTurns(inflight, unsure)
                       ELSE conversation
    /\ Log(inflight, <<"Completed">> \o
                     (IF unsure /\ composed THEN <<"HelpRequested">> ELSE <<>>))
    /\ pc' = "top"

\* Mutant: a failed dispatch is put back on the agenda.
FailAndRequeue ==
    /\ pc = "dispatch"
    /\ inflight' = NoTask /\ composed' = FALSE
    /\ Log(inflight, <<"Failed">>)
    /\ agenda' = Push(agenda, 2, inflight)
    /\ pc' = "top"
    /\ UNCHANGED <<queue, shutdown, intentions, dueNow, failures, crashes, lateStarts,
                   phase, nextId, operatorTasks, state, signals, packetOf,
                   conversation>>

\* dispatch_task returns Err, a provider's error: TaskFailed, no retry, nothing said to the operator.
Fail ==
    /\ EndDispatch
    /\ Log(inflight, <<"Failed">>)
    /\ pc' = "top"
    /\ UNCHANGED conversation

\* The backend panics: the unwinding drops the task with the loop's locals.
Panic ==
    /\ EndDispatch
    /\ pc' = "crashed"
    /\ UNCHANGED <<conversation, audit>>

\* A run of a minute or more was healthy.
Runs == {"healthy", "early"}

\* Mutant: the counter is reset after the crash has been counted.
ResetAfterCount(run) == IF run = "healthy" THEN 0 ELSE failures + 1

\* The crash counter starts again at the crash of a healthy run.
CountFailure(run) == IF run = "healthy" THEN 1 ELSE failures + 1

\* Mutant: the supervisor gives up one crash too late.
RestartPastLimit(run) ==
    /\ pc = "crashed"
    /\ failures' = CountFailure(run)
    /\ crashes' = Append(crashes, run)
    /\ pc' = IF failures' > MaxRestarts THEN "gaveup" ELSE "supervise"
    /\ UNCHANGED <<queue, shutdown, intentions, dueNow, lateStarts, loopVars>>

\* supervise_somatic_loop after catch_unwind: give up at MaxRestarts failures in
\* a row, else go round again.
Restart(run) ==
    /\ pc = "crashed"
    /\ failures' = CountFailure(run)
    /\ crashes' = Append(crashes, run)
    /\ pc' = IF failures' >= MaxRestarts THEN "gaveup" ELSE "supervise"
    /\ UNCHANGED <<queue, shutdown, intentions, dueNow, lateStarts, loopVars>>

\* The process ends after the supervisor has returned.
Terminated == Stopped /\ UNCHANGED vars

LoopStep ==
    \/ Supervise \/ Top \/ ScanIntentions \/ Sleep
    \/ \E p \in OfferedPackets, mood \in Moods : Admit(p, mood) \/ Decline(p, mood)
    \/ \E i \in IntentionIds : Inject(i)
    \/ \E t \in Tiers : Begin(t)
    \/ \E unsure \in BOOLEAN : Complete(unsure)
    \/ Fail \/ Panic
    \/ \E run \in Runs : Restart(run)

Environment ==
    \/ \E p \in OfferedPackets : Submit(p)
    \/ RequestShutdown
    \/ \E i \in IntentionIds : Tick(i)

Next == LoopStep \/ Environment \/ Terminated

Spec == Init /\ [][Next]_vars

\* The loop thread is scheduled again and again, and a backend call returns.
FairSpec == Spec /\ WF_vars(LoopStep)

-----------------------------------------------------------------------------
(* Properties *)

\* Types of the manager's, the bridge's and the supervisor's state.
TypeOK ==
    /\ pc \in {"supervise", "top", "ingest", "inject", "dispatch", "crashed", "exited", "gaveup"}
    /\ queue \in Seq(OfferedPackets)
    /\ shutdown \in BOOLEAN /\ composed \in BOOLEAN
    /\ agenda \in [Tiers -> Seq(Ids)]
    /\ phase \in Nat /\ failures \in 0 .. MaxRestarts /\ lateStarts \in Nat
    /\ nextId \in Nat
    /\ operatorTasks \in SUBSET SensoryIds
    /\ state \in {"Awake", "Sleep"}
    /\ signals \in Signals
    /\ inflight \in Ids \cup {NoTask}
    /\ intentions \in [IntentionIds -> {"future", "due", "overdue", "dispatched"}]
    /\ dueNow \in SUBSET IntentionIds
    /\ conversation \in Seq(Roles \X Ids)
    /\ audit \in [Ids -> Seq(Entries)]
    /\ packetOf \in [SensoryIds -> OfferedPackets \cup {NoTask}]
    /\ crashes \in Seq(Runs)

\* What has become of a task, read off the agenda and the audit log.
StatusOf(id) ==
    IF inflight = id THEN "running"
    ELSE IF Logged(id, "Completed") THEN "completed"
    ELSE IF Logged(id, "Failed") THEN "failed"
    ELSE IF Logged(id, "Started") THEN "lost"
    ELSE IF Logged(id, "GateDrop") THEN "dropped"
    ELSE IF Queued(agenda, id) THEN "queued" ELSE "none"

TaskStatus == [id \in Ids |-> StatusOf(id)]

Lifecycle == INSTANCE TaskLifecycle WITH status <- TaskStatus

\* The loop implements the abstract task life cycle: across intake, boosts,
\* injection, failures, panics and supervisor restarts no admitted task
\* vanishes, none runs twice, and two never run at once.
ImplementsLifecycle == Lifecycle!Spec

\* A log reader can attribute a task's entries: the link to the operator's
\* message comes first, the gate decision before TaskStarted, at most one
\* start, the choice of its backend directly after that, its outcome directly
\* after the choice, a help request directly after the completion it doubts,
\* and nothing after a declined decision.
AuditOrder ==
    \A id \in Ids : \A i \in 1 .. Len(audit[id]) :
        LET entry == audit[id][i]
            previous == audit[id][i - 1]
        IN  /\ entry = "Linked" => i = 1
            /\ entry \in {"GateInvoke", "GateDrop"} =>
                  \A j \in 1 .. i - 1 : audit[id][j] = "Linked"
            /\ entry = "GateDrop" => i = Len(audit[id])
            /\ entry = "Started" =>
                  \A j \in 1 .. i - 1 : audit[id][j] \in {"Linked", "GateInvoke"}
            /\ entry = "Routed" => i > 1 /\ previous = "Started"
            /\ entry \in {"Completed", "Failed"} => i > 1 /\ previous = "Routed"
            /\ entry = "HelpRequested" => i > 1 /\ previous = "Completed"

FromOperator(id) == packetOf[id] # NoTask /\ packetOf[id].origin = "operator"

\* compose, record_reply and record_question keep the transcript readable as a
\* dialogue: a reply directly follows the turn it answers, a question the reply
\* it doubts, and each operator message appears once and only as the
\* operator's, however tasks are queued, fail or crash in between.
ConversationFollows ==
    \A i \in 1 .. Len(conversation) :
        LET role == conversation[i][1]
            id == conversation[i][2]
        IN  /\ id \in SensoryIds /\ FromOperator(id)
            /\ role = "user" => \A j \in 1 .. i - 1 : conversation[j][2] # id
            /\ role = "reply" => i > 1 /\ conversation[i - 1] = <<"user", id>>
            /\ role = "question" => i > 1 /\ conversation[i - 1] = <<"reply", id>>

Spoken(role, id) == \E i \in 1 .. Len(conversation) : conversation[i] = <<role, id>>

\* Operator messages admitted after id; only they can push id out of operator_tasks.
AdmittedAfter(id) ==
    {x \in SensoryIds : x > id /\ FromOperator(x) /\ ~Logged(x, "GateDrop")}

\* With conversation memory installed "each dispatch is composed through it
\* and each completion recorded back", as far as operator_tasks reaches: a
\* dispatched operator message is in the transcript, with its reply once it
\* completed, unless at least MAX_TRACKED_OPERATOR_TASKS later ones came in.
OperatorHeard ==
    \A id \in SensoryIds :
        FromOperator(id) /\ Cardinality(AdmittedAfter(id)) < MaxTracked =>
            /\ Logged(id, "Started") => Spoken("user", id)
            /\ Logged(id, "Completed") => Spoken("reply", id)

\* operator_tasks "must not leak an entry": it only holds operator tasks that
\* still wait in the agenda.
OperatorTasksPending ==
    \A id \in operatorTasks :
        Queued(agenda, id) /\ FromOperator(id)

\* However stressed the agent and whatever its drives, the gate declines only
\* an operator's unforced packet of Low or Normal priority: sensor input is
\* never arbitrated, High, Critical and forced guidance always gets through.
GateKeepsUrgent ==
    \A id \in SensoryIds :
        Logged(id, "GateDrop") =>
            /\ packetOf[id].origin = "operator"
            /\ ~packetOf[id].forced
            /\ packetOf[id].priority \in {"low", "normal"}

\* supervise_somatic_loop: "faults spread across a long lifetime never reach
\* the give-up cap".  It has given up exactly when it has caught MaxRestarts
\* crashes and none of the last MaxRestarts - 1 runs it caught was healthy (the
\* crash of a healthy run is the first of its streak).
GivesUpOnStreak ==
    pc = "gaveup" <=>
        /\ Len(crashes) >= MaxRestarts
        /\ \A i \in Len(crashes) - MaxRestarts + 2 .. Len(crashes) : crashes[i] = "early"

\* KERN-3: after SIGTERM or SIGINT at most the iteration under way still
\* starts a task.
ShutdownPrompt == lateStarts <= 1

\* Once no more packets come in, every packet a console thread or sensor queued
\* is in the end dispatched to an outcome, declined, or lost to a panic, unless
\* the agent stops first.
PacketsSettle ==
    \A id \in SensoryIds :
        (id < nextId + Len(queue)) ~>
            (Stopped \/ StatusOf(id) \in {"dropped", "completed", "failed", "lost"})

\* A requested shutdown ends the loop.
ShutdownCompletes == shutdown ~> Stopped
=============================================================================

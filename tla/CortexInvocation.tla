-------------------------- MODULE CortexInvocation --------------------------
(***************************************************************************)
(* CortexBackend::invoke (crates/vita/src/cortex_bridge.rs), one call       *)
(* after another on one caller's thread, through either bridge:            *)
(*                                                                         *)
(*   chat    ChatCortexBridge runs the plan/act/observe loop itself over a *)
(*           chat provider, bounded in turns and in tool calls;            *)
(*   python  PythonCortexBridge binds a socket named after the task,       *)
(*           spawns a child that connects to it, and serves the frames the *)
(*           child sends until it completes.                               *)
(*                                                                         *)
(* Both screen every tool call and the final output through the defence    *)
(* layer; its verdict, the provider's answer, a tool's result and          *)
(* everything the child does are choices of the environment.               *)
(***************************************************************************)
EXTENDS Naturals, Sequences, FiniteSets

CONSTANTS
    Tasks,           \* task ids, which name the sockets
    MaxTurns,        \* max_turns
    MaxToolCalls,    \* max_tool_calls
    MaxFanout,       \* bound: tool calls in one answer of the provider
    MaxFrames,       \* bound: frames a child sends (the code has no bound)
    MaxInvocations   \* bound: calls of invoke

ASSUME BoundsAssumption ==
    {MaxTurns, MaxToolCalls, MaxFanout, MaxFrames, MaxInvocations} \subseteq Nat

VARIABLES
    pc, bridge, task,
    turn,      \* turns of the chat loop taken
    frames,    \* frames of the child handled
    made,      \* tool_calls_made
    todo,      \* tool calls of the current answer not yet looked at
    declared,  \* tool calls the assistant turns of `messages` declare
    answered,  \* tool calls `messages` holds a result for
    child,     \* the child process: none, running, exited (not yet reaped)
    sockets,   \* tasks whose socket file exists
    orphans,   \* tasks whose child was left to itself, neither killed nor reaped
    trail,     \* audit entries of this invocation
    outcome,   \* what invoke returned: none while it runs
    invocations,
    leaks      \* history: tasks whose socket or child no return path cleans up

vars == <<pc, bridge, task, turn, frames, made, todo, declared, answered, child,
          sockets, orphans, trail, outcome, invocations, leaks>>

dialogue == <<turn, todo, declared, answered>>
process == <<child, sockets, orphans, leaks>>
call == <<bridge, task, invocations>>

Init ==
    /\ pc = "idle" /\ bridge = "chat" /\ task \in Tasks
    /\ turn = 0 /\ frames = 0 /\ made = 0
    /\ todo = <<>> /\ declared = {} /\ answered = {}
    /\ child = "none" /\ sockets = {} /\ orphans = {}
    /\ trail = <<>> /\ outcome = "none"
    /\ invocations = 0 /\ leaks = {}

\* The verdicts of screen_tool_call and of the final screening; a poisoned lock
\* ends the whole invocation.  It is returned as a CortexError::CortexFault, but
\* with no CortexFault entry; it is called "error" here, and "fault" only what the
\* provider or the cortex reported.
Verdicts == {"allow", "veto", "poisoned"}

Returns(result) ==
    /\ pc' = "idle"
    /\ outcome' = result

Invoke(b, t) ==
    /\ pc = "idle"
    /\ invocations < MaxInvocations
    /\ invocations' = invocations + 1
    /\ bridge' = b /\ task' = t
    /\ turn' = 0 /\ frames' = 0 /\ made' = 0
    /\ todo' = <<>> /\ declared' = {} /\ answered' = {}
    /\ trail' = <<>>

-----------------------------------------------------------------------------
(* ChatCortexBridge *)

ChatStart(t) ==
    /\ Invoke("chat", t)
    /\ pc' = "chat"
    /\ outcome' = "none"
    /\ UNCHANGED process

\* chat_complete fails.
ChatFails ==
    /\ pc = "chat" /\ turn < MaxTurns
    /\ trail' = Append(trail, "fault")
    /\ Returns("fault")
    /\ UNCHANGED <<call, dialogue, frames, made, process>>

\* An answer without tool calls is the final one; so is no answer when the turns
\* are used up.
ChatEnds ==
    /\ pc = "chat"
    /\ pc' = "finish"
    /\ UNCHANGED <<call, dialogue, frames, made, process, trail, outcome>>

\* The assistant turn is recorded with every tool call it declares.
ChatCallsTools(n) ==
    LET calls == [i \in 1..n |-> <<turn, i>>]
    IN /\ pc = "chat" /\ turn < MaxTurns
       /\ todo' = calls
       /\ declared' = declared \cup {calls[i] : i \in 1..n}
       /\ pc' = "calls"
       /\ UNCHANGED <<call, turn, answered, frames, made, process, trail, outcome>>

\* One tool call: counted, screened, dispatched unless vetoed, its result or its
\* error recorded.
ChatTool(verdict) ==
    /\ pc = "calls" /\ todo # <<>>
    /\ made < MaxToolCalls
    /\ made' = made + 1
    /\ todo' = Tail(todo)
    /\ IF verdict = "poisoned"
       THEN Returns("error") /\ UNCHANGED <<answered, trail>>
       ELSE /\ answered' = answered \cup {Head(todo)}
            /\ trail' = IF verdict = "veto" THEN Append(trail, "veto") ELSE trail
            /\ UNCHANGED <<pc, outcome>>
    /\ UNCHANGED <<call, turn, declared, frames, process>>

\* Mutant: the inner loop is left and the outer one goes on.
ChatToolLimitNextTurn ==
    /\ pc = "calls" /\ todo # <<>>
    /\ made >= MaxToolCalls
    /\ pc' = "chat"
    /\ turn' = turn + 1
    /\ todo' = <<>>
    /\ UNCHANGED <<call, declared, answered, frames, made, process, trail, outcome>>

\* The tool-call ceiling is reached mid-turn: both loops are left.
ChatToolLimit ==
    /\ pc = "calls" /\ todo # <<>>
    /\ made >= MaxToolCalls
    /\ pc' = "finish"
    /\ UNCHANGED <<call, dialogue, frames, made, process, trail, outcome>>

ChatNextTurn ==
    /\ pc = "calls" /\ todo = <<>>
    /\ pc' = "chat"
    /\ turn' = turn + 1
    /\ UNCHANGED <<call, todo, declared, answered, frames, made, process, trail, outcome>>

Chat ==
    \/ ChatFails \/ ChatEnds \/ ChatToolLimit \/ ChatNextTurn
    \/ \E n \in 1..MaxFanout : ChatCallsTools(n)
    \/ \E verdict \in Verdicts : ChatTool(verdict)

-----------------------------------------------------------------------------
(* PythonCortexBridge: the child's life *)

\* bind creates the socket file, and fails on one that is there.
PythonBind(t) ==
    /\ Invoke("python", t)
    /\ IF t \in sockets
       THEN Returns("error") /\ UNCHANGED sockets
       ELSE /\ pc' = "spawn" /\ outcome' = "none"
            /\ sockets' = sockets \cup {t}
    /\ UNCHANGED <<child, orphans, leaks>>

Spawn ==
    /\ pc = "spawn"
    /\ child' = "running"
    /\ pc' = "accept"
    /\ UNCHANGED <<call, dialogue, frames, made, sockets, orphans, leaks, trail, outcome>>

\* The listener cannot be set up or python3 cannot be started: `?` returns
\* before anything owns the socket file.
SpawnFails ==
    /\ pc = "spawn"
    /\ leaks' = leaks \cup {task}
    /\ Returns("error")
    /\ UNCHANGED <<call, dialogue, frames, made, child, sockets, orphans, trail>>

\* kill and wait, and the socket file removed: Drop for ChildGuard, and each
\* error arm of the accept loop.
CleanUp ==
    /\ child' = "none"
    /\ sockets' = sockets \ {task}
    /\ UNCHANGED <<orphans, leaks>>

\* A connection made before the child ended is still accepted; InvokeRequest is
\* sent over it first.
Accept ==
    /\ pc = "accept"
    /\ pc' = "send"
    /\ UNCHANGED <<call, dialogue, frames, made, process, trail, outcome>>

\* The stream cannot be configured: `?` returns before ChildGuard::new, and the
\* dropped Child goes on running, or stays a zombie.
StreamSetupFails ==
    /\ pc = "accept"
    /\ leaks' = leaks \cup {task}
    /\ orphans' = orphans \cup {task}
    /\ child' = "none"  \* no invocation's any more
    /\ Returns("error")
    /\ UNCHANGED <<call, dialogue, frames, made, sockets, trail>>

\* Mutant: the arm of an exited child leaves the socket to the guard.
AcceptFailsUnclean ==
    /\ pc = "accept"
    /\ IF child = "exited" THEN child' = "none" /\ UNCHANGED <<sockets, orphans, leaks>> ELSE CleanUp
    /\ Returns("error")
    /\ UNCHANGED <<call, dialogue, frames, made, trail>>

\* The child exited first, CONNECT_TIMEOUT passed, or accept failed.
AcceptFails ==
    /\ pc = "accept"
    /\ CleanUp
    /\ Returns("error")
    /\ UNCHANGED <<call, dialogue, frames, made, trail>>

\* The child ends by itself.
ChildExits ==
    /\ child = "running"
    /\ child' = "exited"
    /\ UNCHANGED <<pc, call, dialogue, frames, made, sockets, orphans, leaks, trail, outcome>>

-----------------------------------------------------------------------------
(* PythonCortexBridge: run_message_loop.  What an exited child sent before   *)
(* is still read.  Only reads have a timeout: a frame sent to a child that   *)
(* lives and does not read waits for it.                                   *)

\* The child has taken the frame.
Sent ==
    /\ pc = "send" /\ child = "running"
    /\ pc' = "loop"
    /\ UNCHANGED <<call, dialogue, frames, made, process, trail, outcome>>

\* The connection is closed, as it is once the child has ended.
SendFails ==
    /\ pc = "send"
    /\ CleanUp
    /\ Returns("error")
    /\ UNCHANGED <<call, dialogue, frames, made, trail>>

\* Mutant: the stream has no read timeout.
IpcFailsOnEof ==
    /\ pc = "loop" /\ child = "exited"
    /\ CleanUp
    /\ Returns("error")
    /\ UNCHANGED <<call, dialogue, frames, made, trail>>

\* EOF, READ_TIMEOUT or a bad frame.
IpcFails ==
    /\ pc = "loop"
    /\ CleanUp
    /\ Returns("error")
    /\ UNCHANGED <<call, dialogue, frames, made, trail>>

Frame ==
    /\ pc = "loop"
    /\ frames < MaxFrames
    /\ frames' = frames + 1
    /\ UNCHANGED <<call, dialogue>>

ToolCallFrame(verdict) ==
    /\ Frame
    /\ made' = made + 1
    /\ IF verdict = "poisoned"
       THEN CleanUp /\ Returns("error") /\ UNCHANGED trail
       ELSE /\ trail' = IF verdict = "veto" THEN Append(trail, "veto") ELSE trail
            /\ pc' = "send"
            /\ UNCHANGED <<process, outcome>>

\* The planner's answer, or an empty one, is sent back.
LlmRequestFrame ==
    /\ Frame
    /\ pc' = "send"
    /\ UNCHANGED <<made, process, trail, outcome>>

\* An unknown frame is ignored.
OtherFrame ==
    /\ Frame
    /\ UNCHANGED <<pc, made, process, trail, outcome>>

CortexErrorFrame ==
    /\ Frame
    /\ trail' = Append(trail, "fault")
    /\ CleanUp
    /\ Returns("fault")
    /\ UNCHANGED made

InvokeComplete ==
    /\ Frame
    /\ pc' = "finish"
    /\ UNCHANGED <<made, process, trail, outcome>>

\* into_inner, child.wait() with no timeout, the socket file removed.
Reap ==
    /\ pc = "reap" /\ child = "exited"
    /\ CleanUp
    /\ pc' = "idle"
    /\ UNCHANGED <<call, dialogue, frames, made, trail, outcome>>

Python ==
    \/ Spawn \/ SpawnFails \/ Accept \/ StreamSetupFails \/ AcceptFails
    \/ Sent \/ SendFails \/ IpcFails \/ LlmRequestFrame \/ OtherFrame \/ CortexErrorFrame \/ InvokeComplete \/ Reap
    \/ \E verdict \in Verdicts : ToolCallFrame(verdict)

-----------------------------------------------------------------------------
(* The end of both: CortexInvoked, the final screening, CortexCompleted *)

\* Mutant: CortexCompleted is recorded before the output is screened.
FinishedTrailEager(verdict) ==
    trail \o IF verdict = "veto" THEN <<"invoked", "completed", "veto">>
             ELSE <<"invoked", "completed">>

FinishedTrail(verdict) ==
    trail \o CASE verdict = "allow" -> <<"invoked", "completed">>
               [] verdict = "veto" -> <<"invoked", "veto">>
               [] verdict = "poisoned" -> <<"invoked">>

Result(verdict) ==
    CASE verdict = "allow" -> "ok" [] verdict = "veto" -> "vetoed"
      [] verdict = "poisoned" -> "error"

Finish(verdict) ==
    /\ pc = "finish"
    /\ trail' = FinishedTrail(verdict)
    /\ outcome' = Result(verdict)
    /\ IF bridge = "python" /\ verdict # "poisoned"
       THEN pc' = "reap" /\ UNCHANGED process
       ELSE /\ pc' = "idle"
            /\ IF bridge = "python" THEN CleanUp ELSE UNCHANGED process
    /\ UNCHANGED <<call, dialogue, frames, made>>

Bridge == Chat \/ Python \/ \E verdict \in Verdicts : Finish(verdict)

Next ==
    \/ \E t \in Tasks : ChatStart(t) \/ PythonBind(t)
    \/ Bridge
    \/ ChildExits

Spec == Init /\ [][Next]_vars

\* The two waits for the child that nothing bounds: write_all in send_ipc and
\* child.wait() after its last frame.
Blocked == pc \in {"send", "reap"} /\ child = "running"

\* The caller's thread runs on: a call of the provider or of a tool returns, with
\* an answer or an error, a read and a connect time out, and a send to a child
\* that has ended fails.  The child promises nothing, to read least of all.
FairSpec == Spec /\ WF_vars(Bridge /\ ~Blocked)

-----------------------------------------------------------------------------
(* Properties *)

Has(entry) == \E i \in DOMAIN trail : trail[i] = entry

\* Types of the state.
TypeOK ==
    /\ pc \in {"idle", "chat", "calls", "spawn", "accept", "send", "loop",
            "finish", "reap"}
    /\ bridge \in {"chat", "python"} /\ task \in Tasks
    /\ turn \in 0..MaxTurns /\ frames \in 0..MaxFrames /\ made \in Nat
    /\ todo \in Seq(Nat \X Nat)
    /\ declared \subseteq Nat \X Nat /\ answered \subseteq declared
    /\ child \in {"none", "running", "exited"}
    /\ sockets \subseteq Tasks /\ orphans \subseteq Tasks /\ leaks \subseteq Tasks
    /\ trail \in Seq({"fault", "veto", "invoked", "completed"})
    /\ outcome \in {"none", "ok", "vetoed", "fault", "error"}
    /\ invocations \in 0..MaxInvocations

\* "OpenAI-compatible providers reject the next request if the following
\* tool-result messages are not preceded by an assistant turn declaring the
\* matching tool_calls" (ChatCortexBridge::invoke), and as much if a declared
\* call has no result: at each chat_complete the transcript answers exactly what
\* it declares, whatever was vetoed, failed, or cut off by max_tool_calls.
TranscriptAnswered ==
    pc = "chat" /\ turn < MaxTurns => answered = declared

\* "The audit trail only records successful completions - vetoed attempts are
\* recorded exclusively via DefenceVeto entries" (invoke): CortexCompleted is
\* there exactly when the caller got, or is about to get, an Ok, once and last;
\* a fault the cortex or the provider reported is recorded as one.
OutcomeAudited ==
    pc \in {"idle", "reap"} =>
        /\ outcome = "ok" <=> Has("completed")
        /\ outcome = "fault" <=> Has("fault")
        /\ outcome = "vetoed" => trail[Len(trail)] = "veto"
        /\ Has("completed") =>
              trail[Len(trail)] = "completed" /\ trail[Len(trail) - 1] = "invoked"

\* "The process is killed and reaped on any error path" (invoke, ChildGuard): no
\* child and no socket file outlives its invocation, but for the two early
\* returns that no guard covers yet.
NothingLeft ==
    pc = "idle" => child = "none" /\ sockets \cup orphans \subseteq leaks

\* "A dead/wedged cortex can never pin vita forever" (invoke), as far as the code
\* keeps it: the caller is back again and again, whatever a child fails to do, as
\* long as it does not send frames, or the bytes of one, for ever (MaxFrames);
\* the only way to be pinned is by a live child that does not take the frame
\* sent to it, or that does not exit after its last one.
InvokeReturns ==
    []<>(pc = "idle") \/ <>[]Blocked
=============================================================================

----------------------- MODULE CortexInvocationProofs -----------------------
(***************************************************************************)
(* For every set of tasks and all limits on turns, tool calls, frames and  *)
(* invocations: the transcript a provider is sent answers every tool call  *)
(* it declares, the audit trail of an invocation tells its outcome, and no *)
(* child process or socket file outlives the invocation that made it,      *)
(* except through the two early returns no guard covers.                   *)
(***************************************************************************)
EXTENDS CortexInvocation, SequenceTheorems, TLAPS

\* While the child is the bridge's to clean up.
Owning == pc \in {"spawn", "accept", "send", "loop", "reap"} \/ (pc = "finish" /\ bridge = "python")

\* Which bridge is at which place of its code.
BridgeOf ==
    /\ pc \in {"chat", "calls"} => bridge = "chat"
    /\ pc \in {"spawn", "accept", "send", "loop", "reap"} => bridge = "python"

\* Between two requests every declared call is answered; within an answer, every
\* declared call is answered or still in the inner loop's list.
DialogueInv ==
    /\ pc = "calls" => turn < MaxTurns
    /\ pc = "chat" => answered = declared
    /\ pc = "calls" => declared = answered \cup {todo[i] : i \in 1 .. Len(todo)}

\* A running invocation has recorded vetoes only; nothing is decided yet.
TrailInv ==
    /\ pc \notin {"idle", "reap"} => trail \in Seq({"veto"})
    /\ OutcomeAudited

\* Only an invocation that owns a child or a socket has one, and the socket is
\* that of its own task.
ProcessInv ==
    /\ ~Owning \/ pc = "spawn" => child = "none"
    /\ orphans \subseteq leaks
    /\ sockets \subseteq leaks \cup (IF Owning THEN {task} ELSE {})

CortexInv == TypeOK /\ BridgeOf /\ DialogueInv /\ TrailInv /\ ProcessInv

-----------------------------------------------------------------------------
(* The audit trail of one invocation *)

\* A trail of vetoes has no other entry, and a veto more keeps it one.
LEMMA VetoTrail ==
    ASSUME TypeOK, trail \in Seq({"veto"})
    PROVE  /\ ~Has("completed") /\ ~Has("fault")
           /\ Append(trail, "veto") \in Seq({"veto"})
<1>1. \A i \in DOMAIN trail : trail[i] = "veto"  OBVIOUS
<1>2. Append(trail, "veto") \in Seq({"veto"})  OBVIOUS
<1> QED  BY <1>1, <1>2 DEF Has

\* An invocation that returns an error records nothing more.
LEMMA ReturnsError ==
    ASSUME TypeOK, trail \in Seq({"veto"}), Returns("error"), trail' = trail
    PROVE  TrailInv'
<1>1. ~Has("completed") /\ ~Has("fault")  BY VetoTrail
<1>2. ~Has("completed")' /\ ~Has("fault")'  BY <1>1 DEF Has
<1> QED  BY <1>2 DEF Returns, TrailInv, OutcomeAudited

\* A fault is recorded and returned.
LEMMA ReturnsFault ==
    ASSUME TypeOK, trail \in Seq({"veto"}), Returns("fault"), trail' = Append(trail, "fault")
    PROVE  TrailInv' /\ trail' \in Seq({"fault", "veto", "invoked", "completed"})
<1>1. /\ trail' \in Seq({"fault", "veto", "invoked", "completed"})
      /\ Len(trail') = Len(trail) + 1 /\ trail'[Len(trail) + 1] = "fault"
      /\ \A i \in 1 .. Len(trail) : trail'[i] = "veto"
      /\ Len(trail) \in Nat
  BY DEF TypeOK
<1>2. DOMAIN trail' = 1 .. Len(trail) + 1  BY <1>1
<1>3. \A i \in DOMAIN trail' : trail'[i] \in {"veto", "fault"}  BY <1>1, <1>2
<1>4. ~Has("completed")'  BY <1>3 DEF Has
<1>5. Has("fault")'  BY <1>1, <1>2 DEF Has
<1> QED  BY <1>1, <1>4, <1>5 DEF Returns, TrailInv, OutcomeAudited

\* What Finish appends and returns, verdict by verdict.
LEMMA FinishCases ==
    /\ FinishedTrail("allow") = trail \o <<"invoked", "completed">>
    /\ FinishedTrail("veto") = trail \o <<"invoked", "veto">>
    /\ FinishedTrail("poisoned") = trail \o <<"invoked">>
    /\ Result("allow") = "ok" /\ Result("veto") = "vetoed" /\ Result("poisoned") = "error"
BY Zenon DEF FinishedTrail, Result

\* Whatever the final verdict, the trail after Finish tells it.
LEMMA FinishTrail ==
    ASSUME TypeOK, trail \in Seq({"veto"}), NEW verdict \in Verdicts, Finish(verdict)
    PROVE  /\ TrailInv'
           /\ trail' \in Seq({"fault", "veto", "invoked", "completed"})
           /\ outcome' \in {"ok", "vetoed", "error"}
<1> DEFINE All == {"fault", "veto", "invoked", "completed"}
<1>1. /\ trail' = FinishedTrail(verdict) /\ outcome' = Result(verdict)
      /\ pc' \in {"idle", "reap"}
  BY DEF Finish
<1>2. Len(trail) \in Nat /\ \A i \in 1 .. Len(trail) : trail[i] = "veto"  OBVIOUS
<1>3. trail \in Seq(All)  BY DEF TypeOK
<1>4. CASE verdict = "allow"
  <2>1. trail' = trail \o <<"invoked", "completed">> /\ outcome' = "ok"
    BY <1>1, <1>4, FinishCases
  <2>2. /\ trail' \in Seq(All) /\ Len(trail') = Len(trail) + 2
        /\ trail'[Len(trail) + 1] = "invoked" /\ trail'[Len(trail) + 2] = "completed"
        /\ \A i \in 1 .. Len(trail) : trail'[i] = "veto"
    BY <1>2, <1>3, <2>1
  <2>3. \A i \in DOMAIN trail' : trail'[i] # "fault"  BY <1>2, <2>2
  <2>4. ~Has("fault")' /\ Has("completed")'  BY <1>2, <2>2, <2>3 DEF Has
  <2>5. trail'[Len(trail')] = "completed" /\ trail'[Len(trail') - 1] = "invoked"
    BY <1>2, <2>2
  <2> QED  BY <1>1, <2>1, <2>2, <2>4, <2>5 DEF TrailInv, OutcomeAudited
<1>5. CASE verdict = "veto"
  <2>1. trail' = trail \o <<"invoked", "veto">> /\ outcome' = "vetoed"
    BY <1>1, <1>5, FinishCases
  <2>2. /\ trail' \in Seq(All) /\ Len(trail') = Len(trail) + 2
        /\ trail'[Len(trail) + 1] = "invoked" /\ trail'[Len(trail) + 2] = "veto"
        /\ \A i \in 1 .. Len(trail) : trail'[i] = "veto"
    BY <1>2, <1>3, <2>1
  <2>3. \A i \in DOMAIN trail' : trail'[i] \in {"veto", "invoked"}  BY <1>2, <2>2
  <2>4. ~Has("fault")' /\ ~Has("completed")'  BY <2>3 DEF Has
  <2>5. trail'[Len(trail')] = "veto"  BY <1>2, <2>2
  <2> QED  BY <1>1, <2>1, <2>2, <2>4, <2>5 DEF TrailInv, OutcomeAudited
<1>6. CASE verdict = "poisoned"
  <2>1. trail' = trail \o <<"invoked">> /\ outcome' = "error"
    BY <1>1, <1>6, FinishCases
  <2>2. /\ trail' \in Seq(All) /\ Len(trail') = Len(trail) + 1
        /\ trail'[Len(trail) + 1] = "invoked"
        /\ \A i \in 1 .. Len(trail) : trail'[i] = "veto"
    BY <1>2, <1>3, <2>1
  <2>3. \A i \in DOMAIN trail' : trail'[i] \in {"veto", "invoked"}  BY <1>2, <2>2
  <2>4. ~Has("fault")' /\ ~Has("completed")'  BY <2>3 DEF Has
  <2> QED  BY <1>1, <2>1, <2>2, <2>4 DEF TrailInv, OutcomeAudited
<1> QED  BY <1>4, <1>5, <1>6 DEF Verdicts

-----------------------------------------------------------------------------
(* The steps *)

\* A call of invoke begins, through either bridge.
LEMMA StartSteps ==
    ASSUME CortexInv, NEW t \in Tasks, ChatStart(t) \/ PythonBind(t)
    PROVE  CortexInv'
<1> USE BoundsAssumption DEF CortexInv
<1>1. /\ pc = "idle" /\ invocations' = invocations + 1 /\ invocations < MaxInvocations
      /\ task' = t /\ turn' = 0 /\ frames' = 0 /\ made' = 0
      /\ todo' = <<>> /\ declared' = {} /\ answered' = {} /\ trail' = <<>>
      /\ UNCHANGED <<child, orphans, leaks>>
  BY DEF ChatStart, PythonBind, Invoke, process
<1>2. child = "none" /\ sockets \subseteq leaks  BY <1>1 DEF ProcessInv, Owning
<1>3. CASE ChatStart(t)
  <2>1. pc' = "chat" /\ bridge' = "chat" /\ outcome' = "none" /\ sockets' = sockets
    BY <1>3 DEF ChatStart, Invoke, process
  <2>2. TypeOK'  BY <1>1, <2>1 DEF TypeOK
  <2>3. TrailInv'  BY <1>1, <2>1 DEF TrailInv, OutcomeAudited
  <2> QED  BY <1>1, <1>2, <2>1, <2>2, <2>3 DEF BridgeOf, DialogueInv, ProcessInv, Owning
<1>4. CASE PythonBind(t) /\ t \in sockets
  <2>1. pc' = "idle" /\ bridge' = "python" /\ outcome' = "error" /\ sockets' = sockets
    BY <1>4 DEF PythonBind, Invoke, Returns
  <2>2. TypeOK'  BY <1>1, <2>1 DEF TypeOK
  <2>3. TrailInv'  BY <1>1, <2>1 DEF TrailInv, OutcomeAudited, Has
  <2> QED  BY <1>1, <1>2, <2>1, <2>2, <2>3 DEF BridgeOf, DialogueInv, ProcessInv, Owning
<1>5. CASE PythonBind(t) /\ t \notin sockets
  <2>1. /\ pc' = "spawn" /\ bridge' = "python" /\ outcome' = "none"
        /\ sockets' = sockets \cup {t}
    BY <1>5 DEF PythonBind, Invoke
  <2>2. TypeOK'  BY <1>1, <2>1 DEF TypeOK
  <2>3. TrailInv'  BY <1>1, <2>1 DEF TrailInv, OutcomeAudited
  <2> QED  BY <1>1, <1>2, <2>1, <2>2, <2>3 DEF BridgeOf, DialogueInv, ProcessInv, Owning
<1> QED  BY <1>3, <1>4, <1>5

\* The plan/act/observe loop over the provider.
LEMMA ChatStep ==
    ASSUME CortexInv, Chat
    PROVE  CortexInv'
<1> USE BoundsAssumption DEF CortexInv
<1>1. CASE ChatFails
  <2>1. /\ pc = "chat" /\ pc' = "idle" /\ outcome' = "fault" /\ trail' = Append(trail, "fault")
        /\ UNCHANGED <<bridge, task, invocations, turn, todo, declared, answered, frames, made,
                       child, sockets, orphans, leaks>>
    BY <1>1 DEF ChatFails, Returns, call, dialogue, process
  <2>2. TrailInv' /\ trail' \in Seq({"fault", "veto", "invoked", "completed"})
    BY <2>1, ReturnsFault DEF TrailInv, Returns
  <2>3. TypeOK'  BY <2>1, <2>2 DEF TypeOK
  <2> QED  BY <2>1, <2>2, <2>3 DEF BridgeOf, DialogueInv, ProcessInv, Owning
<1>2. CASE ChatEnds \/ ChatToolLimit
  <2>1. /\ pc \in {"chat", "calls"} /\ pc' = "finish"
        /\ UNCHANGED <<bridge, task, invocations, turn, todo, declared, answered, frames, made,
                       child, sockets, orphans, leaks, trail, outcome>>
    BY <1>2 DEF ChatEnds, ChatToolLimit, call, dialogue, process
  <2>2. TypeOK'  BY <2>1 DEF TypeOK
  <2> QED  BY <2>1, <2>2 DEF BridgeOf, DialogueInv, ProcessInv, Owning, TrailInv, OutcomeAudited
<1>3. CASE ChatNextTurn
  <2>1. /\ pc = "calls" /\ todo = <<>> /\ pc' = "chat" /\ turn' = turn + 1
        /\ UNCHANGED <<bridge, task, invocations, todo, declared, answered, frames, made,
                       child, sockets, orphans, leaks, trail, outcome>>
    BY <1>3 DEF ChatNextTurn, call, process
  <2>2. TypeOK'  BY <2>1 DEF TypeOK, DialogueInv
  <2>3. answered = declared
    <3>1. {todo[i] : i \in 1 .. Len(todo)} = {}  BY <2>1
    <3> QED  BY <2>1, <3>1 DEF DialogueInv
  <2> QED  BY <2>1, <2>2, <2>3 DEF BridgeOf, DialogueInv, ProcessInv, Owning, TrailInv, OutcomeAudited
<1>4. ASSUME NEW n \in 1 .. MaxFanout, ChatCallsTools(n) PROVE CortexInv'
  <2> DEFINE calls == [i \in 1 .. n |-> <<turn, i>>]
  <2>1. /\ pc = "chat" /\ turn < MaxTurns /\ pc' = "calls" /\ todo' = calls
        /\ declared' = declared \cup {calls[i] : i \in 1 .. n}
        /\ UNCHANGED <<bridge, task, invocations, turn, answered, frames, made,
                       child, sockets, orphans, leaks, trail, outcome>>
    BY <1>4 DEF ChatCallsTools, call, process
  <2>2. calls \in Seq(Nat \X Nat) /\ Len(calls) = n
    <3>1. calls \in [1 .. n -> Nat \X Nat]  BY DEF TypeOK
    <3> QED  BY <3>1
  <2>3. \A i \in 1 .. n : calls[i] \in Nat \X Nat  BY DEF TypeOK
  <2> HIDE DEF calls
  <2>4. declared' \subseteq Nat \X Nat /\ answered' \subseteq declared'
    BY <2>1, <2>3 DEF TypeOK
  <2>5. TypeOK'  BY <2>1, <2>2, <2>4 DEF TypeOK
  <2>6. declared' = answered' \cup {todo'[i] : i \in 1 .. Len(todo')}
    BY <2>1, <2>2 DEF DialogueInv
  <2> QED  BY <2>1, <2>5, <2>6 DEF BridgeOf, DialogueInv, ProcessInv, Owning, TrailInv, OutcomeAudited
<1>5. ASSUME NEW verdict \in Verdicts, ChatTool(verdict) PROVE CortexInv'
  <2>1. /\ pc = "calls" /\ todo # <<>> /\ made' = made + 1 /\ todo' = Tail(todo)
        /\ UNCHANGED <<bridge, task, invocations, turn, declared, frames, child, sockets, orphans, leaks>>
    BY <1>5 DEF ChatTool, call, process
  <2>2. /\ todo \in Seq(Nat \X Nat) /\ Tail(todo) \in Seq(Nat \X Nat)
        /\ Len(todo) \in Nat /\ Len(todo) >= 1
        /\ Len(Tail(todo)) = Len(todo) - 1 /\ Head(todo) = todo[1]
        /\ \A i \in 1 .. Len(Tail(todo)) : Tail(todo)[i] = todo[i + 1]
    BY <2>1 DEF TypeOK
  <2>3. {todo[i] : i \in 1 .. Len(todo)} =
          {Head(todo)} \cup {Tail(todo)[i] : i \in 1 .. Len(Tail(todo))}
    <3>1. \A i \in 1 .. Len(todo) : i = 1 \/ (i - 1 \in 1 .. Len(Tail(todo)) /\ todo[i] = Tail(todo)[i - 1])
      BY <2>2
    <3>2. \A i \in 1 .. Len(Tail(todo)) : i + 1 \in 1 .. Len(todo)  BY <2>2
    <3>3. 1 \in 1 .. Len(todo)  BY <2>2
    <3> DEFINE rest == {Tail(todo)[i] : i \in 1 .. Len(Tail(todo))}
    <3>4. ASSUME NEW i \in 1 .. Len(todo) PROVE todo[i] \in {Head(todo)} \cup rest
      BY <2>2, <3>1
    <3>5. ASSUME NEW i \in 1 .. Len(Tail(todo))
          PROVE  Tail(todo)[i] \in {todo[j] : j \in 1 .. Len(todo)}
      BY <2>2, <3>2
    <3>6. Head(todo) \in {todo[j] : j \in 1 .. Len(todo)}  BY <2>2, <3>3
    <3> QED  BY <3>4, <3>5, <3>6
  <2>4. Head(todo) \in declared  BY <2>1, <2>3 DEF DialogueInv
  <2>5. made' \in Nat /\ turn < MaxTurns  BY <2>1 DEF TypeOK, DialogueInv
  <2>6. CASE verdict = "poisoned"
    <3>1. pc' = "idle" /\ outcome' = "error" /\ UNCHANGED <<answered, trail>>
      BY <1>5, <2>6 DEF ChatTool, Returns
    <3>2. TrailInv'  BY <2>1, <3>1, ReturnsError DEF TrailInv, Returns
    <3>3. TypeOK'  BY <2>1, <2>2, <2>5, <3>1 DEF TypeOK
    <3> QED  BY <2>1, <3>1, <3>2, <3>3 DEF BridgeOf, DialogueInv, ProcessInv, Owning
  <2>7. CASE verdict # "poisoned"
    <3>1. /\ answered' = answered \cup {Head(todo)} /\ UNCHANGED <<pc, outcome>>
          /\ trail' = IF verdict = "veto" THEN Append(trail, "veto") ELSE trail
      BY <1>5, <2>7 DEF ChatTool
    <3>2. trail' \in Seq({"veto"})  BY <2>1, <3>1, VetoTrail DEF TrailInv
    <3>3. trail' \in Seq({"fault", "veto", "invoked", "completed"})  BY <3>2
    <3>4. TypeOK'  BY <2>1, <2>2, <2>4, <2>5, <3>1, <3>3 DEF TypeOK
    <3>5. declared' = answered' \cup {todo'[i] : i \in 1 .. Len(todo')}
      BY <2>1, <2>3, <3>1 DEF DialogueInv
    <3>6. TrailInv'  BY <2>1, <3>1, <3>2 DEF TrailInv, OutcomeAudited
    <3> QED  BY <2>1, <2>5, <3>1, <3>4, <3>5, <3>6 DEF BridgeOf, DialogueInv, ProcessInv, Owning
  <2> QED  BY <2>6, <2>7
<1> QED  BY <1>1, <1>2, <1>3, <1>4, <1>5 DEF Chat

\* The invocation ends with an error and its child and socket are gone.
LEMMA CleanReturn ==
    ASSUME CortexInv, pc \in {"accept", "send", "loop"}, CleanUp,
           UNCHANGED <<call, dialogue>>, frames' \in 0 .. MaxFrames, made' \in Nat,
           \/ Returns("error") /\ trail' = trail
           \/ Returns("fault") /\ trail' = Append(trail, "fault")
    PROVE  CortexInv'
<1> USE DEF CortexInv
<1>1. /\ child' = "none" /\ sockets' = sockets \ {task} /\ pc' = "idle"
      /\ leaks' = leaks /\ orphans' = orphans
      /\ outcome' \in {"error", "fault"}
      /\ UNCHANGED <<bridge, task, invocations, turn, todo, declared, answered>>
  BY DEF CleanUp, Returns, call, dialogue
<1>2. trail \in Seq({"veto"})  BY DEF TrailInv
<1>3. TrailInv' /\ trail' \in Seq({"fault", "veto", "invoked", "completed"})
  BY <1>2, ReturnsError, ReturnsFault DEF TypeOK
<1>4. TypeOK'  BY <1>1, <1>3 DEF TypeOK
<1> QED  BY <1>1, <1>3, <1>4 DEF BridgeOf, DialogueInv, ProcessInv, Owning

\* The child's life and the frames it sends.
LEMMA PythonStep ==
    ASSUME CortexInv, Python
    PROVE  CortexInv'
<1> USE BoundsAssumption DEF CortexInv
<1>1. CASE Spawn \/ Accept \/ Sent \/ LlmRequestFrame \/ OtherFrame \/ InvokeComplete
  <2>1. /\ pc \in {"spawn", "accept", "send", "loop"}
        /\ pc' \in {"accept", "send", "loop", "finish"}
        /\ bridge = "python"
        /\ UNCHANGED <<bridge, task, invocations, turn, todo, declared, answered, made,
                       sockets, orphans, leaks, trail, outcome>>
        /\ child' \in {"running", child} /\ frames' \in 0 .. MaxFrames
    <3>1. frames \in Nat /\ frames <= MaxFrames /\ MaxFrames \in Nat  BY DEF TypeOK
    <3>2. bridge = "python"
      BY <1>1 DEF Spawn, Accept, Sent, LlmRequestFrame, OtherFrame, InvokeComplete, Frame,
         BridgeOf
    <3>3. CASE Spawn  BY <3>1, <3>2, <3>3 DEF Spawn, call, dialogue
    <3>4. CASE Accept  BY <3>1, <3>2, <3>4 DEF Accept, call, dialogue, process
    <3>5. CASE OtherFrame  BY <3>1, <3>2, <3>5 DEF OtherFrame, Frame, call, dialogue, process
    <3>6. CASE InvokeComplete
      BY <3>1, <3>2, <3>6 DEF InvokeComplete, Frame, call, dialogue, process
    <3>7. CASE Sent  BY <3>1, <3>2, <3>7 DEF Sent, call, dialogue, process
    <3>8. CASE LlmRequestFrame
      BY <3>1, <3>2, <3>8 DEF LlmRequestFrame, Frame, call, dialogue, process
    <3> QED  BY <1>1, <3>3, <3>4, <3>5, <3>6, <3>7, <3>8
  <2>2. TypeOK'  BY <2>1 DEF TypeOK
  <2> QED  BY <2>1, <2>2 DEF BridgeOf, DialogueInv, ProcessInv, Owning, TrailInv, OutcomeAudited
<1>2. CASE SpawnFails \/ StreamSetupFails
  <2>1. /\ pc \in {"spawn", "accept"} /\ pc' = "idle" /\ outcome' = "error"
        /\ leaks' = leaks \cup {task} /\ orphans' \in {orphans, orphans \cup {task}}
        /\ child' = "none" \/ (pc = "spawn" /\ child' = child)
        /\ UNCHANGED <<bridge, task, invocations, turn, todo, declared, answered, frames, made,
                       sockets, trail>>
    BY <1>2 DEF SpawnFails, StreamSetupFails, Returns, call, dialogue
  <2>2. TypeOK'  BY <2>1 DEF TypeOK
  <2>3. TrailInv'  BY <2>1, ReturnsError DEF TrailInv, Returns
  <2> QED  BY <2>1, <2>2, <2>3 DEF BridgeOf, DialogueInv, ProcessInv, Owning
<1>3. CASE AcceptFails \/ SendFails \/ IpcFails
  <2>1. frames' \in 0 .. MaxFrames /\ made' \in Nat
    BY <1>3 DEF AcceptFails, SendFails, IpcFails, TypeOK
  <2> QED  BY <1>3, <2>1, CleanReturn DEF AcceptFails, SendFails, IpcFails
<1>4. CASE CortexErrorFrame
  <2>1. frames' \in 0 .. MaxFrames /\ made' \in Nat
    BY <1>4 DEF CortexErrorFrame, Frame, TypeOK
  <2> QED  BY <1>4, <2>1, CleanReturn DEF CortexErrorFrame, Frame
<1>5. CASE Reap
  <2>1. /\ pc = "reap" /\ pc' = "idle" /\ child' = "none" /\ sockets' = sockets \ {task}
        /\ UNCHANGED <<bridge, task, invocations, turn, todo, declared, answered, frames, made,
                       orphans, leaks, trail, outcome>>
    BY <1>5 DEF Reap, CleanUp, call, dialogue
  <2>2. TypeOK'  BY <2>1 DEF TypeOK
  <2>3. TrailInv'  BY <2>1 DEF TrailInv, OutcomeAudited, Has
  <2> QED  BY <2>1, <2>2, <2>3 DEF BridgeOf, DialogueInv, ProcessInv, Owning
<1>6. ASSUME NEW verdict \in Verdicts, ToolCallFrame(verdict) PROVE CortexInv'
  <2>1. /\ pc = "loop" /\ frames' \in 0 .. MaxFrames /\ made' \in Nat
        /\ UNCHANGED <<call, dialogue>>
    BY <1>6 DEF ToolCallFrame, Frame, TypeOK
  <2>2. CASE verdict = "poisoned"
    BY <1>6, <2>1, <2>2, CleanReturn DEF ToolCallFrame
  <2>3. CASE verdict # "poisoned"
    <3>1. /\ trail' = IF verdict = "veto" THEN Append(trail, "veto") ELSE trail
          /\ pc' = "send" /\ UNCHANGED <<process, outcome>>
      BY <1>6, <2>3 DEF ToolCallFrame
    <3>2. trail' \in Seq({"veto"})  BY <2>1, <3>1, VetoTrail DEF TrailInv
    <3>3. trail' \in Seq({"fault", "veto", "invoked", "completed"})  BY <3>2
    <3>4. TypeOK'  BY <2>1, <3>1, <3>3 DEF TypeOK, call, dialogue, process
    <3>5. TrailInv'  BY <2>1, <3>1, <3>2 DEF TrailInv, OutcomeAudited
    <3> QED
      BY <2>1, <3>1, <3>4, <3>5
      DEF BridgeOf, DialogueInv, ProcessInv, Owning, call, dialogue, process
  <2> QED  BY <2>2, <2>3
<1> QED  BY <1>1, <1>2, <1>3, <1>4, <1>5, <1>6 DEF Python

\* CortexInvoked, the final screening, CortexCompleted.
LEMMA FinishStep ==
    ASSUME CortexInv, NEW verdict \in Verdicts, Finish(verdict)
    PROVE  CortexInv'
<1> USE DEF CortexInv
<1>1. /\ pc = "finish" /\ pc' \in {"idle", "reap"}
      /\ pc' = "reap" => bridge = "python"
      /\ UNCHANGED <<bridge, task, invocations, turn, todo, declared, answered, frames, made,
                     orphans, leaks>>
  BY DEF Finish, call, dialogue, process, CleanUp
<1>2. \/ pc' = "reap" /\ UNCHANGED <<child, sockets>>
      \/ pc' = "idle" /\ child' = "none" /\ sockets' = sockets \ {task}
      \/ pc' = "idle" /\ bridge = "chat" /\ UNCHANGED <<child, sockets>>
  BY DEF Finish, process, CleanUp, TypeOK
<1>3. /\ TrailInv' /\ outcome' \in {"ok", "vetoed", "error"}
      /\ trail' \in Seq({"fault", "veto", "invoked", "completed"})
  BY <1>1, FinishTrail DEF TrailInv
<1>4. TypeOK'  BY <1>1, <1>2, <1>3 DEF TypeOK
<1>5. ProcessInv'  BY <1>1, <1>2 DEF ProcessInv, Owning
<1> QED  BY <1>1, <1>3, <1>4, <1>5 DEF BridgeOf, DialogueInv

\* The child ends by itself, at any moment of its life.
LEMMA ChildExitsStep ==
    ASSUME CortexInv, ChildExits
    PROVE  CortexInv'
<1> USE DEF CortexInv
<1>1. /\ child = "running" /\ child' = "exited"
      /\ UNCHANGED <<pc, bridge, task, invocations, turn, todo, declared, answered, frames, made,
                     sockets, orphans, leaks, trail, outcome>>
  BY DEF ChildExits, call, dialogue
<1>2. TypeOK'  BY <1>1 DEF TypeOK
<1>3. TrailInv'  BY <1>1 DEF TrailInv, OutcomeAudited, Has
<1> QED  BY <1>1, <1>2, <1>3 DEF BridgeOf, DialogueInv, ProcessInv, Owning

-----------------------------------------------------------------------------
(* The theorems *)

\* CortexInv holds in every reachable state of either bridge.
THEOREM Invariance == Spec => []CortexInv
<1>1. Init => CortexInv
  BY BoundsAssumption DEF Init, CortexInv, TypeOK, BridgeOf, DialogueInv, TrailInv,
     OutcomeAudited, Has, ProcessInv, Owning
<1>2. CortexInv /\ [Next]_vars => CortexInv'
  <2> SUFFICES ASSUME CortexInv, [Next]_vars PROVE CortexInv'  OBVIOUS
  <2>1. CASE UNCHANGED vars
    BY <2>1 DEF vars, CortexInv, TypeOK, BridgeOf, DialogueInv, TrailInv, OutcomeAudited,
       Has, ProcessInv, Owning
  <2>2. CASE \E t \in Tasks : ChatStart(t) \/ PythonBind(t)  BY <2>2, StartSteps
  <2>3. CASE Bridge  BY <2>3, ChatStep, PythonStep, FinishStep DEF Bridge
  <2>4. CASE ChildExits  BY <2>4, ChildExitsStep
  <2> QED  BY <2>1, <2>2, <2>3, <2>4 DEF Next
<1> QED  BY <1>1, <1>2, PTL DEF Spec

\* The type invariant of both bridges.
THEOREM TypeCorrect == Spec => []TypeOK
<1>1. CortexInv => TypeOK  BY DEF CortexInv
<1> QED  BY <1>1, Invariance, PTL

\* For every limit on turns, tool calls and calls per answer, the transcript of
\* each chat_complete answers exactly the calls it declares, whatever was
\* vetoed, failed or cut off (ChatCortexBridge::invoke).
THEOREM EveryCallAnswered == Spec => []TranscriptAnswered
<1>1. CortexInv => TranscriptAnswered  BY DEF CortexInv, DialogueInv, TranscriptAnswered
<1> QED  BY <1>1, Invariance, PTL

\* CortexCompleted is recorded exactly for the invocations that return Ok, last
\* and after CortexInvoked, and a fault exactly for those that return one, on
\* every path of both bridges.
THEOREM TrailTellsOutcome == Spec => []OutcomeAudited
<1>1. CortexInv => OutcomeAudited  BY DEF CortexInv, TrailInv
<1> QED  BY <1>1, Invariance, PTL

\* Between invocations there is no child, and no socket file but those of the
\* two early returns no guard covers.
THEOREM ChildAndSocketGone == Spec => []NothingLeft
<1>1. CortexInv => NothingLeft  BY DEF CortexInv, ProcessInv, Owning, NothingLeft
<1> QED  BY <1>1, Invariance, PTL
=============================================================================

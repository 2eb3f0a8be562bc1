---------------------------- MODULE OperatorFeed ----------------------------
(***************************************************************************)
(* What reaches the operator's page: the audit file the agent appends to,  *)
(* the tailer that follows it and ties entries to operator messages        *)
(* (crates/console/src/audit.rs), the hub that fans events out and keeps a *)
(* replay ring (hub.rs), and the SSE connection with its Last-Event-ID     *)
(* cursor (server.rs, serve_events).  The page reconnects after a network  *)
(* blip and after a restart of the agent; a restart empties everything but *)
(* the file and the page, and starts task ids again from their first value *)
(* (crates/vita/src/lib.rs, next_sensory_task_id).                         *)
(*                                                                         *)
(* The agent is abstracted to the entries its one thread writes about its  *)
(* tasks, handler by handler, in the order the somatic loop writes them    *)
(* (module SomaticLoop).  Every line has the same length; what a page      *)
(* renders is the line and the message the tailer stamped on it.           *)
(***************************************************************************)
EXTENDS Integers, Sequences, FiniteSets, SequencesExt

CONSTANTS
    Values,           \* kinds of entry of which only the latest is replayed
    LineBytes,        \* length of an audit line
    ReplayCapacity,   \* REPLAY_CAPACITY
    MaxTrackedLinks,  \* MAX_TRACKED_LINKS
    MaxLines,         \* bound: lines written
    MaxOther,         \* bound: notes and values among them, and events published
                      \* straight to the hub, together
    MaxTasks,         \* bound: packets taken in, by all processes
    MaxLosses         \* bound: connections lost and restarts of the agent

ASSUME LineAssumption == LineBytes \in Nat \ {0, 1}
ASSUME CapacityAssumption ==
    ReplayCapacity \in Nat \ {0} /\ MaxTrackedLinks \in Nat \ {0}
ASSUME FeedBounds == {MaxLines, MaxOther, MaxTasks, MaxLosses} \subseteq Nat
ASSUME KindsAssumption == Values \subseteq {"state", "vitals"}

VARIABLES
    log,       \* the audit file
    tasks,     \* state of each task of this process: [id -> stage and cause]
    nextTask,  \* next_sensory_task_id, counted from its first value
    offset,    \* lines the tailer consumed
    links,     \* CorrelationTracker::links
    hubSeq,    \* HubInner::seq
    recent,    \* HubInner::recent, the replay ring
    current,   \* last_state and last_vitals
    online,    \* whether the page has a connection
    since,     \* last_event_id of the connection
    chan,      \* snapshot and live events the connection has still to write
    cursor,    \* the id of the last event the page rendered
    rendered,  \* the last line of the audit log the page shows
    again,     \* history: lines shown twice, or after a later one
    burst,     \* direct events published since the last line was
    missed,    \* history: lines after it that left the ring while the page was away
    dropped,   \* history: messages whose link the tracker dropped to make room
    packets,   \* packets taken in
    directs, restarts, blips

agent == <<log, tasks, nextTask, packets>>
tailer == <<offset, links, dropped>>
hub == <<hubSeq, recent, current, burst>>
page == <<online, since, chan, cursor, rendered, again, missed>>
counters == <<directs, restarts, blips>>
vars == <<agent, tailer, hub, page, counters>>

TaskIds == 1..MaxTasks
Messages == 1..MaxLines
None == 0
\* "note" is any other entry: RouterDecision, HelpRequested, the snapshots of
\* drives and affect, a watchdog trip.
Kinds == {"link", "gate", "blocked", "start", "settled", "note"} \cup Values
NoTask == [stage |-> "none", cause |-> None]
Nothing == [seq |-> -1, line |-> 0, stamp |-> None]

Init ==
    /\ log = <<>>
    /\ tasks = [t \in TaskIds |-> NoTask]
    /\ nextTask = 1 /\ packets = 0
    /\ offset = 0
    /\ links = [t \in TaskIds |-> None]
    /\ dropped = {}
    /\ hubSeq = 0
    /\ recent = <<>>
    /\ current = [v \in Values |-> Nothing]
    /\ burst = 0
    /\ missed = {}
    /\ online = FALSE
    /\ since = -1
    /\ chan = <<>>
    /\ cursor = -1
    /\ rendered = [line |-> 0, stamp |-> None]
    /\ again = {}
    /\ directs = 0 /\ restarts = 0 /\ blips = 0

-----------------------------------------------------------------------------
(* The agent: somatic_execution_loop, handler by handler *)

Entry(kind, t, cause) == [kind |-> kind, task |-> t, cause |-> cause]
Note(t) == Entry("note", t, None)

\* At most one of an optional entry.
Perhaps(entry) == {<<>>, <<entry>>}

OtherLines(lines) == Len(SelectSeq(lines, LAMBDA l : l.kind \in Values \cup {"note"}))

Write(entries) ==
    /\ Len(log) + Len(entries) <= MaxLines
    /\ log' = log \o entries
    /\ OtherLines(log') + directs <= MaxOther
    /\ UNCHANGED <<tailer, hub, page, counters>>

Idle == \A t \in TaskIds : tasks[t].stage # "running"

\* A packet is taken in: OperatorMessageLinked first, when it carries an id,
\* then the gate's decision, when it is arbitrated, after the snapshots of drives
\* and affect (one note for both) when the gate is the motivated one.  A blocked
\* packet becomes no task.  Message ids are the consoles' and never used twice.
Intake(tagged, gated) ==
    LET t == nextTask
        m == IF tagged THEN 1 + Len(SelectSeq(log, LAMBDA l : l.kind = "link")) ELSE None
        link == IF tagged THEN <<Entry("link", t, m)>> ELSE <<>>
    IN /\ Idle /\ packets < MaxTasks
       /\ packets' = packets + 1
       /\ nextTask' = t + 1
       /\ tasks' = [tasks EXCEPT ![t] =
                       IF gated = "blocked" THEN NoTask ELSE [stage |-> "queued", cause |-> m]]
       /\ IF gated = "no"
          THEN Write(link)
          ELSE \E drives \in Perhaps(Note(t)) : Write(link \o drives \o <<Entry(gated, t, m)>>)

\* TaskStarted, and RouterDecision when there is a backend per tier.
Start(t) ==
    /\ Idle /\ tasks[t].stage = "queued"
    /\ tasks' = [tasks EXCEPT ![t].stage = "running"]
    /\ \E routed \in Perhaps(Note(t)) : Write(<<Entry("start", t, tasks[t].cause)>> \o routed)
    /\ UNCHANGED <<nextTask, packets>>

\* The reply, after a watchdog trip and before a request for help, or the failure
\* that ends the task; or a panic, with nothing written.
Settle(t) ==
    /\ tasks[t].stage = "running"
    /\ tasks' = [tasks EXCEPT ![t] = NoTask]
    /\ \/ \E trip, help \in Perhaps(Note(t)) :
             Write(trip \o <<Entry("settled", t, tasks[t].cause)>> \o help)
       \/ Write(<<>>)
    /\ UNCHANGED <<nextTask, packets>>

\* SleepEntered, WakeEntered, SleepPhaseStarted; InteroceptiveSnapshot.
WriteValue(v) ==
    /\ Idle
    /\ Write(<<Entry(v, 0, None)>>)
    /\ UNCHANGED <<tasks, nextTask, packets>>

-----------------------------------------------------------------------------
(* The hub *)

EndOf(line) == line * LineBytes

\* Lines the page has not come to.
Unseen(lines) == {l \in lines : l > rendered.line}

\* publish_locked: the sequence counter moves past the event, the ring or the
\* current value keeps it, and every subscriber gets it.
Publish(seq, line, stamp) ==
    LET event == [seq |-> seq, line |-> line, stamp |-> stamp]
        kind == IF line = 0 THEN "direct" ELSE log[line].kind
        grown == Append(recent, event)
    IN /\ hubSeq' = IF hubSeq > seq + 1 THEN hubSeq ELSE seq + 1
       /\ IF kind \in Values
          THEN /\ current' = [current EXCEPT ![kind] = event]
               /\ UNCHANGED <<recent, missed>>
          ELSE /\ recent' = IF Len(grown) > ReplayCapacity THEN Tail(grown) ELSE grown
               /\ missed' = IF Len(grown) > ReplayCapacity /\ ~online
                            THEN missed \cup Unseen({Head(grown).line})
                            ELSE missed
               /\ UNCHANGED current
       /\ chan' = IF online THEN Append(chan, event) ELSE chan

\* ConsoleHub::publish: Accepted and AuthLockout, which go to the ring.  Fewer of
\* them come between two published lines than a line has bytes.
PublishDirect ==
    /\ OtherLines(log) + directs < MaxOther
    /\ burst + 1 < LineBytes
    /\ directs' = directs + 1
    /\ burst' = burst + 1
    /\ Publish(hubSeq, 0, None)
    /\ UNCHANGED <<agent, tailer, online, since, cursor, rendered, again, restarts, blips>>

-----------------------------------------------------------------------------
(* The tailer: AuditTailer::drain_from, one complete line *)

Tracked == {t \in TaskIds : links[t] # None}

\* The link with the lowest task id makes room.
LinksWithRoom ==
    IF Cardinality(Tracked) < MaxTrackedLinks
    THEN links
    ELSE [links EXCEPT ![CHOOSE t \in Tracked : \A u \in Tracked : t <= u] = None]

Evicted == {links[t] : t \in {u \in TaskIds : LinksWithRoom[u] # links[u]}}

\* Mutant: a link does not replace an older one of the same task id.
TailFirstLink(line) ==
    /\ links' = IF links[line.task] = None
                THEN [LinksWithRoom EXCEPT ![line.task] = line.cause]
                ELSE links
    /\ dropped' = dropped \cup Evicted
    /\ UNCHANGED <<hub, page>>

\* CorrelationTracker::translate of a link: no event.
TailLink(line) ==
    /\ links' = [LinksWithRoom EXCEPT ![line.task] = line.cause]
    /\ dropped' = dropped \cup Evicted
    /\ UNCHANGED <<hub, page>>

\* ... of the gate's decision on a task, its start and its end: stamped, and the
\* link is released when the task is settled or will not exist.
TailTask(line) ==
    /\ links' = IF line.kind \in {"blocked", "settled"}
                THEN [links EXCEPT ![line.task] = None]
                ELSE links
    /\ Publish(EndOf(offset + 1), offset + 1, links[line.task])
    /\ burst' = 0
    /\ UNCHANGED <<dropped, online, since, cursor, rendered, again>>

\* ... of a state or vitals entry; vitals that come too soon are dropped.
TailValue(line) ==
    /\ \/ /\ Publish(EndOf(offset + 1), offset + 1, None)
          /\ burst' = 0
       \/ /\ line.kind = "vitals"
          /\ UNCHANGED <<hub, chan, missed>>
    /\ UNCHANGED <<links, dropped, online, since, cursor, rendered, again>>

\* ... of any other entry: published as it is, task or no task.
TailOther ==
    /\ Publish(EndOf(offset + 1), offset + 1, None)
    /\ burst' = 0
    /\ UNCHANGED <<links, dropped, online, since, cursor, rendered, again>>

TailerReads ==
    /\ offset < Len(log)
    /\ offset' = offset + 1
    /\ LET line == log[offset + 1]
       IN \/ line.kind = "link" /\ TailLink(line)
          \/ line.kind \in Values /\ TailValue(line)
          \/ line.kind = "note" /\ TailOther
          \/ line.kind \notin Values \cup {"link", "note"} /\ TailTask(line)
    /\ UNCHANGED <<agent, counters>>

-----------------------------------------------------------------------------
(* The page and its connection: serve_events *)

\* Mutant: a subscriber starts with the current values only.
SnapshotOfValues ==
    SetToSortSeq({current[v] : v \in Values} \ {Nothing}, LAMBDA a, b : a.seq < b.seq)

\* subscribe: current values and ring, in publish order.
Snapshot ==
    SetToSortSeq(({current[v] : v \in Values} \ {Nothing}) \cup {recent[i] : i \in DOMAIN recent},
                 LAMBDA a, b : a.seq < b.seq)

\* Mutant: the connection starts from the hub's sequence, not the page's.
ConnectAtHead ==
    /\ ~online
    /\ online' = TRUE
    /\ since' = hubSeq - 1
    /\ chan' = Snapshot
    /\ UNCHANGED <<agent, tailer, hub, cursor, rendered, again, missed, counters>>

Connect ==
    /\ ~online
    /\ online' = TRUE
    /\ since' = cursor
    /\ chan' = Snapshot
    /\ UNCHANGED <<agent, tailer, hub, cursor, rendered, again, missed, counters>>

\* The browser takes an event; only lines of the log are shown as such.
Render(event) ==
    /\ cursor' = event.seq
    /\ IF event.line = 0
       THEN UNCHANGED <<rendered, again, missed>>
       ELSE /\ rendered' = [line |-> event.line, stamp |-> event.stamp]
            /\ again' = IF event.line <= rendered.line THEN again \cup {event.line} ELSE again
            /\ missed' = {l \in missed : l > event.line}

\* Mutant: the live path does not look at the cursor.
DeliverUnfiltered ==
    /\ online /\ chan # <<>>
    /\ chan' = Tail(chan)
    /\ Render(Head(chan))
    /\ UNCHANGED <<agent, tailer, hub, online, since, counters>>

\* An event is written to the page unless the connection's cursor covers it.
Deliver ==
    /\ online /\ chan # <<>>
    /\ chan' = Tail(chan)
    /\ IF Head(chan).seq <= since
       THEN UNCHANGED <<cursor, rendered, again, missed>>
       ELSE Render(Head(chan))
    /\ UNCHANGED <<agent, tailer, hub, online, since, counters>>

\* The network drops the connection; what was not written is gone with it.
Blip ==
    /\ online /\ blips + restarts < MaxLosses
    /\ blips' = blips + 1
    /\ online' = FALSE
    /\ chan' = <<>> /\ since' = -1
    /\ missed' = missed \cup Unseen({chan[i].line : i \in DOMAIN chan}
                                      \ {recent[i].line : i \in DOMAIN recent})
    /\ UNCHANGED <<agent, tailer, hubSeq, recent, current, burst, cursor, rendered, again,
                   directs, restarts>>

\* The agent process ends and starts again: the file and the page remain.
Restart ==
    /\ blips + restarts < MaxLosses
    /\ restarts' = restarts + 1
    /\ tasks' = [t \in TaskIds |-> NoTask]
    /\ nextTask' = 1
    /\ offset' = 0
    /\ links' = [t \in TaskIds |-> None]
    /\ hubSeq' = 0
    /\ recent' = <<>>
    /\ current' = [v \in Values |-> Nothing]
    /\ burst' = 0
    /\ online' = FALSE
    /\ chan' = <<>> /\ since' = -1
    /\ UNCHANGED <<log, packets, missed, dropped, cursor, rendered, again, directs, blips>>

Next ==
    \/ \E tagged \in BOOLEAN, gated \in {"no", "gate", "blocked"} : Intake(tagged, gated)
    \/ \E t \in TaskIds : Start(t)
    \/ \E t \in TaskIds : Settle(t)
    \/ \E v \in Values : WriteValue(v)
    \/ PublishDirect
    \/ TailerReads
    \/ Connect
    \/ Deliver
    \/ Blip
    \/ Restart

Spec == Init /\ [][Next]_vars

\* The tailer's thread runs, the browser reconnects, the connection writes.
FairSpec == Spec /\ WF_vars(TailerReads) /\ WF_vars(Connect) /\ WF_vars(Deliver)

-----------------------------------------------------------------------------
(* Properties *)

Events == [seq : Int, line : 0..MaxLines, stamp : {None} \cup Messages]

\* Types of the state: HubInner, CorrelationTracker, Subscription.
TypeOK ==
    /\ log \in Seq([kind : Kinds, task : 0..MaxTasks, cause : {None} \cup Messages])
    /\ tasks \in [TaskIds -> [stage : {"none", "queued", "running"},
                              cause : {None} \cup Messages]]
    /\ nextTask \in Nat /\ offset \in 0..Len(log)
    /\ links \in [TaskIds -> {None} \cup Messages]
    /\ Cardinality(Tracked) <= MaxTrackedLinks
    /\ hubSeq \in Nat /\ burst \in Nat
    /\ recent \in Seq(Events) /\ Len(recent) <= ReplayCapacity
    /\ current \in [Values -> Events]
    /\ online \in BOOLEAN /\ dropped \subseteq Messages
    /\ since \in Int /\ cursor \in Int
    /\ chan \in Seq(Events)
    /\ rendered \in [line : 0..MaxLines, stamp : {None} \cup Messages]
    /\ missed \subseteq 1..MaxLines /\ again \subseteq 1..MaxLines

\* "a reconnecting page is replayed only what it has not seen, whether the gap
\* was a network blip or a full agent restart" (serve_events): a page never
\* shows a line of the audit log twice, nor two lines out of order.
LinesOnceInOrder == again = {}

\* Whether the tailer always publishes the line.
Published(l) == log[l].kind \notin Values \cup {"link"}

\* ... and no line between two it shows is missing, unless the line left the
\* replay ring while the page was away, or is a value that a later one
\* replaces or is never published.
NoLineSkipped ==
    [][\A l \in rendered.line + 1 .. rendered'.line - 1 : Published(l) => l \in missed]_vars

\* The message stamped on an event is the one that caused the task the event
\* is about (CorrelationTracker): on the gate's decision, the start and the reply
\* or failure, across restarts for the tasks of messages; such an event goes
\* without its stamp only when the tracker dropped that message's link for want
\* of room.
StampedRight ==
    rendered.line # 0 =>
        LET cause == log[rendered.line].cause
        IN \/ rendered.stamp = cause
           \/ rendered.stamp = None /\ cause \in dropped
           \/ cause = None /\ restarts > 0

\* Every line that is always published is in the end on the page, or left the
\* ring while the page was away: the page catches up with the log again and
\* again.
CaughtUp == \A l \in 1..Len(log) : Published(l) => rendered.line >= l \/ l \in missed

EveryLineShown == []<>CaughtUp
=============================================================================

----------------------------- MODULE SessionFile -----------------------------
(***************************************************************************)
(* The conversation store (crates/sessions), its atomic writer             *)
(* (crates/jsonstore) and the processes that share the file: `serve`, which *)
(* records every turn of the conversation (kernels/hosted/conversation.rs), *)
(* and `anima sessions new|append|archive` (kernels/hosted/commands.rs).   *)
(* Each process loads the whole file, changes its own copy and rewrites    *)
(* the whole file from it; nothing locks the file between them.            *)
(*                                                                         *)
(* A step is one system call.  The path and its .tmp sibling are names of  *)
(* inodes: an open descriptor keeps writing to its inode whatever the      *)
(* names do.  The contents of a store are the facts it states: a session,  *)
(* its archiving, a turn in it (turns are numbered in the order they are   *)
(* made, which is the order a session lists them in).                      *)
(***************************************************************************)
EXTENDS Naturals, FiniteSets, FiniteSetsExt

CONSTANTS
    Clis,         \* invocations of the CLI that may overlap
    MaxSessions,  \* bound: sessions created
    MaxTurns,     \* bound: turns appended
    MaxStarts,    \* bound: starts of each process
    MaxFaults     \* bound: system calls that fail

ASSUME BoundsAssumption ==
    /\ {MaxSessions, MaxTurns, MaxStarts, MaxFaults} \subseteq Nat
    /\ IsFiniteSet(Clis)
    /\ "serve" \notin Clis

Procs == {"serve"} \cup Clis

\* One inode for each name and each descriptor is always enough.
Inodes == 1..(2 + Cardinality(Procs))
None == 0

SessionFact(s) == <<"session", s, 0>>
ArchivedFact(s) == <<"archived", s, 0>>
TurnFact(s, t) == <<"turn", s, t>>
Nothing == <<"nothing", 0, 0>>

Facts ==
    {SessionFact(s) : s \in 1..MaxSessions}
    \cup {ArchivedFact(s) : s \in 1..MaxSessions}
    \cup {TurnFact(s, t) : s \in 1..MaxSessions, t \in 1..MaxTurns}

VARIABLES
    data,      \* contents of each inode
    target,    \* inode the path names
    tmp,       \* inode the .tmp sibling names
    pc, fd,    \* where each process is in flush, and its descriptor
    mem,       \* SessionStore::sessions of each process
    backed,    \* SessionStore::path is Some
    sid,       \* SessionConversation::session_id
    pending,   \* the fact whose call is waiting for its flush
    sessions, turns, starts, faults,
    acked,     \* history: facts whose call returned Ok from a file-backed store
    stale,     \* history: the path was renamed over since the process read or wrote it
    raced,     \* history: two flushes overlapped
    overwrote, \* history: a flush replaced a file newer than its own copy
    talked,    \* history: session of the last turn `serve` recorded
    manual     \* history: sessions created from the CLI

files == <<data, target, tmp>>
history == <<acked, stale, raced, overwrote, talked, manual>>
vars == <<files, pc, fd, mem, backed, sid, pending, sessions, turns, starts,
          faults, history>>

Whole(facts) == [kind |-> "whole", facts |-> facts]
Blank == [kind |-> "blank", facts |-> {}]
Torn == [kind |-> "torn", facts |-> {}]

Active(facts) ==
    {s \in 1..MaxSessions : SessionFact(s) \in facts /\ ArchivedFact(s) \notin facts}

Init ==
    /\ data = [i \in Inodes |-> Blank]
    /\ target = None /\ tmp = None
    /\ pc = [p \in Procs |-> "down"]
    /\ fd = [p \in Procs |-> None]
    /\ mem = [p \in Procs |-> {}]
    /\ backed = [p \in Procs |-> FALSE]
    /\ sid = None
    /\ pending = [p \in Procs |-> Nothing]
    /\ sessions = 0 /\ turns = 0 /\ faults = 0
    /\ starts = [p \in Procs |-> 0]
    /\ acked = {}
    /\ stale = [p \in Procs |-> FALSE]
    /\ raced = FALSE /\ overwrote = FALSE
    /\ talked = None
    /\ manual = {}

-----------------------------------------------------------------------------
(* SessionStore::open, and what each process does with it *)

\* The facts a read of the path gives, when it gives any.
Readable == target = None \/ data[target].kind = "whole"
Loaded == IF target # None /\ data[target].kind = "whole" THEN data[target].facts ELSE {}

Start(p) ==
    /\ pc[p] = "down" /\ starts[p] < MaxStarts
    /\ starts' = [starts EXCEPT ![p] = @ + 1]
    /\ backed' = [backed EXCEPT ![p] = Readable]
    /\ stale' = [stale EXCEPT ![p] = FALSE]

\* Mutant: the query forgets active_only.
ContinuedAnyStatus(facts) ==
    Max({None} \cup {s \in 1..MaxSessions : SessionFact(s) \in facts})

\* The head of list(for_user, active_only): the newest active session.
Continued(facts) == IF Active(facts) = {} THEN None ELSE Max(Active(facts))

\* SessionConversation::open_at continues a session ...
ServeContinues ==
    /\ Start("serve")
    /\ Continued(Loaded) # None
    /\ sid' = Continued(Loaded)
    /\ mem' = [mem EXCEPT !["serve"] = Loaded]
    /\ pc' = [pc EXCEPT !["serve"] = "ready"]
    /\ UNCHANGED <<files, fd, pending, sessions, turns, faults, acked, raced,
                   overwrote, talked, manual>>

\* ... or starts one, and flushes it with `let _ =`.
ServeCreates ==
    /\ Start("serve")
    /\ Continued(Loaded) = None
    /\ sessions < MaxSessions
    /\ sessions' = sessions + 1
    /\ sid' = sessions + 1
    /\ mem' = [mem EXCEPT !["serve"] = Loaded \cup {SessionFact(sessions + 1)}]
    /\ pc' = [pc EXCEPT !["serve"] = IF Readable THEN "create" ELSE "ready"]
    /\ UNCHANGED <<files, fd, pending, turns, faults, acked, raced, overwrote,
                   talked, manual>>

CliOpens(p) ==
    /\ p \in Clis
    /\ Start(p)
    /\ mem' = [mem EXCEPT ![p] = Loaded]
    /\ pc' = [pc EXCEPT ![p] = "ready"]
    /\ UNCHANGED <<files, fd, sid, pending, sessions, turns, faults, acked, raced,
                   overwrote, talked, manual>>

-----------------------------------------------------------------------------
(* The calls that change a store.  Each ends in flush, which does nothing  *)
(* for a store that is not file-backed.                                    *)

AfterCall(p) == IF p = "serve" THEN "ready" ELSE "down"

Change(p, fact) ==
    /\ pc[p] = "ready"
    /\ mem' = [mem EXCEPT ![p] = @ \cup {fact}]
    /\ pending' = [pending EXCEPT ![p] = IF backed[p] THEN fact ELSE Nothing]
    /\ pc' = [pc EXCEPT ![p] = IF backed[p] THEN "create" ELSE AfterCall(p)]
    /\ UNCHANGED <<files, fd, backed, sid, starts, faults, acked, stale, raced,
                   overwrote, talked>>

\* SessionConversation::append and `sessions append`.
AppendTurn(p, s) ==
    /\ turns < MaxTurns
    /\ s \in Active(mem[p])
    /\ p = "serve" => s = sid
    /\ turns' = turns + 1
    /\ Change(p, TurnFact(s, turns + 1))
    /\ UNCHANGED <<sessions, manual>>

\* `sessions new`, for the operator's own user id.
NewSession(p) ==
    /\ p \in Clis
    /\ sessions < MaxSessions
    /\ sessions' = sessions + 1
    /\ manual' = manual \cup {sessions + 1}
    /\ Change(p, SessionFact(sessions + 1))
    /\ UNCHANGED turns

\* `sessions archive`.
Archive(p, s) ==
    /\ p \in Clis
    /\ s \in Active(mem[p])
    /\ Change(p, ArchivedFact(s))
    /\ UNCHANGED <<sessions, turns, manual>>

\* The CLI returns without changing the store: a listing, or an error.
CliReturns(p) ==
    /\ p \in Clis
    /\ pc[p] = "ready"
    /\ pc' = [pc EXCEPT ![p] = "down"]
    /\ UNCHANGED <<files, fd, mem, backed, sid, pending, sessions, turns, starts,
                   faults, history>>

-----------------------------------------------------------------------------
(* jsonstore::atomic_write *)

MidWrite(p) == pc[p] \in {"write", "rename"}

\* The inode of a file that is created: no name and no descriptor refers to it.
Unused == Inodes \ ({target, tmp} \cup {fd[p] : p \in Procs})
Fresh == {i \in Unused : \A j \in Unused : i <= j}

\* Mutant: the bytes go straight to the path.
CreateInPlace(p) ==
    \E inode \in IF target = None THEN Fresh ELSE {target} :
      /\ target' = inode
      /\ tmp' = inode
      /\ fd' = [fd EXCEPT ![p] = inode]
      /\ data' = [data EXCEPT ![inode] = Blank]

\* fs::write opens the shared .tmp: the file is created, or truncated.
CreateTmp(p) ==
    \E inode \in IF tmp = None THEN Fresh ELSE {tmp} :
      /\ tmp' = inode
      /\ fd' = [fd EXCEPT ![p] = inode]
      /\ data' = [data EXCEPT ![inode] = Blank]
      /\ UNCHANGED target

Create(p) ==
    /\ pc[p] = "create"
    /\ CreateTmp(p)
    /\ raced' = (raced \/ \E q \in Procs \ {p} : MidWrite(q))
    /\ pc' = [pc EXCEPT ![p] = "write"]
    /\ UNCHANGED <<mem, backed, sid, pending, sessions, turns, starts, faults, acked,
                   stale, overwrote, talked, manual>>

\* What the inode holds after write_all at offset 0: a longer text another
\* process left there sticks out behind this one.
WriteOutcomes(old, new) == IF old = Blank \/ old = new THEN {new} ELSE {new, Torn}

Write(p) ==
    /\ pc[p] = "write"
    /\ \E text \in WriteOutcomes(data[fd[p]], Whole(mem[p])) :
         data' = [data EXCEPT ![fd[p]] = text]
    /\ fd' = [fd EXCEPT ![p] = None]
    /\ pc' = [pc EXCEPT ![p] = "rename"]
    /\ UNCHANGED <<target, tmp, mem, backed, sid, pending, sessions, turns, starts,
                   faults, history>>

\* A return of flush: append, `new` and `archive` report it, nothing retries it.
Return(p) ==
    /\ pc' = [pc EXCEPT ![p] = AfterCall(p)]
    /\ pending' = [pending EXCEPT ![p] = Nothing]

\* rename(2) moves the name, whoever wrote the file under it.
Rename(p) ==
    /\ pc[p] = "rename"
    /\ tmp # None
    /\ target' = tmp
    /\ tmp' = None
    /\ Return(p)
    /\ acked' = acked \cup ({pending[p]} \ {Nothing})
    /\ stale' = [q \in Procs |-> q # p]
    /\ overwrote' = (overwrote \/ stale[p])
    /\ talked' = IF p = "serve" /\ pending[p] # Nothing THEN sid ELSE talked
    /\ UNCHANGED <<data, fd, mem, backed, sid, sessions, turns, starts, faults, raced,
                   manual>>

\* Another flush renamed the .tmp away first.
RenameFails(p) ==
    /\ pc[p] = "rename"
    /\ tmp = None
    /\ Return(p)
    /\ UNCHANGED <<files, fd, mem, backed, sid, sessions, turns, starts, faults,
                   history>>

\* What write_all leaves when it stops part of the way, by error or by crash.
Interrupted(p) ==
    IF pc[p] = "write"
    THEN \E text \in {data[fd[p]], Torn} : data' = [data EXCEPT ![fd[p]] = text]
    ELSE UNCHANGED data

\* Mutant: the error of a flush is dropped.
FlushFailsSilently(p) ==
    /\ pc[p] \in {"create", "write"}
    /\ faults < MaxFaults
    /\ faults' = faults + 1
    /\ Interrupted(p)
    /\ fd' = [fd EXCEPT ![p] = None]
    /\ Return(p)
    /\ acked' = acked \cup ({pending[p]} \ {Nothing})
    /\ UNCHANGED <<target, tmp, mem, backed, sid, sessions, turns, starts, stale,
                   raced, overwrote, talked, manual>>

\* A full disk or a read-only directory.
FlushFails(p) ==
    /\ pc[p] \in {"create", "write"}
    /\ faults < MaxFaults
    /\ faults' = faults + 1
    /\ Interrupted(p)
    /\ fd' = [fd EXCEPT ![p] = None]
    /\ Return(p)
    /\ UNCHANGED <<target, tmp, mem, backed, sid, sessions, turns, starts, history>>

\* A process ends at any point.
Crash(p) ==
    /\ pc[p] # "down"
    /\ Interrupted(p)
    /\ fd' = [fd EXCEPT ![p] = None]
    /\ pc' = [pc EXCEPT ![p] = "down"]
    /\ pending' = [pending EXCEPT ![p] = Nothing]
    /\ UNCHANGED <<target, tmp, mem, backed, sid, sessions, turns, starts, faults,
                   history>>

-----------------------------------------------------------------------------

Next ==
    \/ ServeContinues
    \/ ServeCreates
    \/ \E p \in Procs :
         \/ CliOpens(p)
         \/ \E s \in 1..MaxSessions : AppendTurn(p, s) \/ Archive(p, s)
         \/ NewSession(p)
         \/ CliReturns(p)
         \/ Create(p)
         \/ Write(p)
         \/ Rename(p)
         \/ RenameFails(p)
         \/ FlushFails(p)
         \/ Crash(p)

Spec == Init /\ [][Next]_vars

-----------------------------------------------------------------------------
(* Properties *)

Contents == [kind : {"whole", "blank", "torn"}, facts : SUBSET Facts]

\* Types of the files, the copies and the descriptors.
TypeOK ==
    /\ data \in [Inodes -> Contents]
    /\ target \in Inodes \cup {None}
    /\ tmp \in Inodes \cup {None}
    /\ pc \in [Procs -> {"down", "ready", "create", "write", "rename"}]
    /\ fd \in [Procs -> Inodes \cup {None}]
    /\ mem \in [Procs -> SUBSET Facts]
    /\ backed \in [Procs -> BOOLEAN]
    /\ sid \in 0..MaxSessions
    /\ pending \in [Procs -> Facts \cup {Nothing}]
    /\ sessions \in 0..MaxSessions /\ turns \in 0..MaxTurns
    /\ faults \in 0..MaxFaults /\ starts \in [Procs -> 0..MaxStarts]
    /\ acked \subseteq Facts
    /\ stale \in [Procs -> BOOLEAN]
    /\ raced \in BOOLEAN /\ overwrote \in BOOLEAN
    /\ talked \in 0..MaxSessions
    /\ manual \subseteq 1..MaxSessions

\* "A crash never leaves a corrupted file" (SessionStore::flush): whatever
\* process stops or fails, and wherever, the path names a file that parses -
\* as long as no two flushes were under way at once.
WholeUnlessRaced == raced \/ Readable

\* A session, a turn or an archiving whose call answered Ok is in the file from
\* then on, across crashes, failed flushes and restarts.  What can take it away
\* is another process: flushes that overlap, or one that rewrites the file from
\* a copy it read before.
AckedKept == raced \/ overwrote \/ acked \subseteq Loaded

\* "A restart continues the same conversation rather than starting a fresh one"
\* (SessionConversation::open): a running `serve` has an active session to
\* append to, and it is the one it last recorded a turn in, unless the operator
\* archived that one or made a newer one.
ConversationContinues ==
    pc["serve"] # "down" =>
        /\ sid \in Active(mem["serve"])
        /\ \/ raced \/ overwrote \/ talked \in {None, sid}
           \/ ArchivedFact(talked) \in mem["serve"]
           \/ sid > talked /\ sid \in manual
=============================================================================

------------------------------ MODULE AuditLog ------------------------------
(***************************************************************************)
(* The agent's durable audit trail (crates/vita/src/audit.rs): the JSONL   *)
(* file, the detached HMAC sidecar that makes it tamper-evident, and the   *)
(* handles that append to both.  In `serve` two handles are open on the    *)
(* same file: the loop's, and the one the approval drainer opens for       *)
(* itself (kernels/hosted/src/commands.rs, AuditLog::from_env).            *)
(*                                                                         *)
(* A step is one write(2).  writeln! on an unbuffered File issues two, the *)
(* text and then the newline, and append mode makes each of them atomic;   *)
(* so the file is a sequence of lines, each the sequence of texts written  *)
(* to it, and its last line is the one that no newline has ended yet.      *)
(* HMAC-SHA256 is taken to be injective: the MAC of a chain is the         *)
(* sequence of the entries it commits to.                                  *)
(***************************************************************************)
EXTENDS Naturals, Sequences, FiniteSets, FiniteSetsExt

CONSTANTS
    Handles,      \* AuditLog values opened on the file, not clones of one another
    MaxInMemory,  \* max_entries: soft cap of the in-memory ring
    MaxPushes,    \* bound: entries pushed
    MaxRestarts,  \* bound: times the process ends and starts again
    MaxFaults     \* bound: writes the operating system fails

ASSUME BoundsAssumption ==
    {MaxInMemory, MaxPushes, MaxRestarts, MaxFaults} \subseteq Nat

VARIABLES
    file,       \* the .jsonl file
    side,       \* the .hmac sidecar
    pc,         \* where each handle is inside push
    cur,        \* the entry each handle is pushing
    prev,       \* IntegrityChain::prev of each handle
    failed,     \* sink_failed of each handle
    entries,    \* the in-memory ring of each handle
    pushes, restarts, faults,
    persisted,  \* history: entries push wrote to the file with no error
    opened,     \* history: pushes before the process last started
    clean       \* history: no write failed and no process ended inside a push

vars == <<file, side, pc, cur, prev, failed, entries, pushes, restarts, faults,
          persisted, opened, clean>>

sinks == <<file, side, prev, failed>>
history == <<restarts, faults, persisted, opened, clean>>

\* What a write that failed half-way may leave: text that is no entry and no MAC.
Torn == 0
TornMac == <<Torn>>

\* The 32 zero bytes a chain starts from.
Genesis == <<>>

Empty == << <<>> >>

Init ==
    /\ file = Empty
    /\ side = Empty
    /\ pc = [h \in Handles |-> "idle"]
    /\ cur = [h \in Handles |-> Torn]
    /\ prev = [h \in Handles |-> Genesis]
    /\ failed = [h \in Handles |-> FALSE]
    /\ entries = [h \in Handles |-> <<>>]
    /\ pushes = 0 /\ restarts = 0 /\ faults = 0
    /\ persisted = {}
    /\ opened = 0
    /\ clean = TRUE

-----------------------------------------------------------------------------
(* Files *)

\* write_all of a text, and of the newline.
WriteText(f, text) == [f EXCEPT ![Len(f)] = Append(@, text)]
WriteNewline(f) == Append(f, <<>>)

\* A write the operating system fails leaves nothing, or part of the text.
FailedWrites(f, torn) == {f, WriteText(f, torn)}

\* BufRead::lines: what follows the last newline is a line unless it is empty.
Lines(f) == IF f[Len(f)] = <<>> THEN SubSeq(f, 1, Len(f) - 1) ELSE f

\* Mutant: reopening starts a new chain.
ReadNoChainMac(s) == Genesis

\* read_last_chain_mac: the last line that is not blank, if it is one MAC.
ReadLastChainMac(s) ==
    LET written == {i \in DOMAIN s : s[i] # <<>>}
        last == s[Max(written)]
    IN IF written = {} \/ Len(last) # 1 \/ last = <<TornMac>> THEN Genesis ELSE last[1]

\* verify_audit_chain answers ChainVerification::Ok.
ChainVerifies ==
    LET jsonl == Lines(file)
        chain == Lines(side)
    IN /\ Len(jsonl) = Len(chain)
       /\ \A i \in DOMAIN jsonl :
            /\ Len(jsonl[i]) = 1
            /\ chain[i] = << [j \in 1..i |-> jsonl[j][1]] >>

\* load_entries_from_file: a line that is not one entry is skipped.
LoadEntries == {e \in 1..pushes : \E i \in DOMAIN file : file[i] = <<e>>}

-----------------------------------------------------------------------------
(* AuditLog::push *)

\* Mutant: the drain takes one entry too many.
RememberTooFew(h, e) ==
    LET grown == Append(entries[h], e)
    IN entries' = [entries EXCEPT ![h] =
                     IF Len(grown) > MaxInMemory
                     THEN SubSeq(grown, Len(grown) - MaxInMemory + 2, Len(grown))
                     ELSE grown]

\* The in-memory ring overshoots its cap by a slack and is then drained to it.
Remember(h, e) ==
    LET grown == Append(entries[h], e)
        slack == Max({MaxInMemory \div 8, 1})
        overflow == IF MaxInMemory > 0 /\ Len(grown) >= MaxInMemory + slack
                    THEN Len(grown) - MaxInMemory
                    ELSE 0
    IN entries' = [entries EXCEPT ![h] = SubSeq(grown, overflow + 1, Len(grown))]

\* sink_failed is set, or the entry does not serialise: memory only.
PushInMemory(h) ==
    /\ pc[h] = "idle" /\ pushes < MaxPushes
    /\ pushes' = pushes + 1
    /\ Remember(h, pushes + 1)
    /\ UNCHANGED <<sinks, pc, cur, history>>

\* The text of the line reaches the file.
PushLine(h) ==
    /\ pc[h] = "idle" /\ pushes < MaxPushes
    /\ ~failed[h]
    /\ pushes' = pushes + 1
    /\ cur' = [cur EXCEPT ![h] = pushes + 1]
    /\ file' = WriteText(file, pushes + 1)
    /\ pc' = [pc EXCEPT ![h] = "newline"]
    /\ UNCHANGED <<side, prev, failed, entries, history>>

\* Its newline does: the line is durable and the chain is extended next.
PushNewline(h) ==
    /\ pc[h] = "newline"
    /\ file' = WriteNewline(file)
    /\ persisted' = persisted \cup {cur[h]}
    /\ pc' = [pc EXCEPT ![h] = "mac"]
    /\ UNCHANGED <<side, cur, prev, failed, entries, pushes, restarts, faults, opened, clean>>

\* extend_chain: the MAC over the handle's own chain, then its newline.
ExtendChain(h) ==
    /\ pc[h] = "mac"
    /\ side' = WriteText(side, Append(prev[h], cur[h]))
    /\ pc' = [pc EXCEPT ![h] = "macnewline"]
    /\ UNCHANGED <<file, cur, prev, failed, entries, pushes, history>>

ChainExtended(h) ==
    /\ pc[h] = "macnewline"
    /\ side' = WriteNewline(side)
    /\ prev' = [prev EXCEPT ![h] = Append(@, cur[h])]
    /\ pc' = [pc EXCEPT ![h] = "idle"]
    /\ Remember(h, cur[h])
    /\ UNCHANGED <<file, failed, cur, pushes, history>>

-----------------------------------------------------------------------------
(* Faults *)

\* Mutant: the failure is reported and not remembered.
SinkFailsUnflagged(h) ==
    /\ faults < MaxFaults
    /\ faults' = faults + 1
    /\ clean' = FALSE
    /\ pc' = [pc EXCEPT ![h] = "idle"]
    /\ UNCHANGED <<failed, prev, restarts, persisted, opened>>

\* A write or a flush fails: the handle never touches either file again.
SinkFails(h) ==
    /\ faults < MaxFaults
    /\ faults' = faults + 1
    /\ clean' = FALSE
    /\ failed' = [failed EXCEPT ![h] = TRUE]
    /\ pc' = [pc EXCEPT ![h] = "idle"]
    /\ UNCHANGED <<prev, restarts, persisted, opened>>

LineFails(h) ==
    /\ pc[h] = "idle" /\ pushes < MaxPushes
    /\ ~failed[h]
    /\ pushes' = pushes + 1
    /\ file' \in FailedWrites(file, Torn)
    /\ Remember(h, pushes + 1)
    /\ SinkFails(h)
    /\ UNCHANGED <<side, cur>>

\* Mutant: the chain is extended although the line was not written.
NewlineFailsUnnoticed(h) ==
    /\ pc[h] = "newline"
    /\ faults < MaxFaults
    /\ faults' = faults + 1
    /\ clean' = FALSE
    /\ pc' = [pc EXCEPT ![h] = "mac"]
    /\ UNCHANGED <<file, side, cur, prev, failed, entries, pushes, restarts, persisted, opened>>

NewlineFails(h) ==
    /\ pc[h] = "newline"
    /\ Remember(h, cur[h])
    /\ SinkFails(h)
    /\ UNCHANGED <<file, side, cur, pushes>>

\* A sidecar write that fails disables the sink and does not advance `prev`.
MacFails(h) ==
    /\ \/ pc[h] = "mac" /\ side' \in FailedWrites(side, TornMac)
       \/ pc[h] = "macnewline" /\ side' = side
    /\ Remember(h, cur[h])
    /\ SinkFails(h)
    /\ UNCHANGED <<file, cur, pushes>>

\* The process ends, anywhere in a push, and starts again: with_file_hmac opens
\* both files for appending and seeds each handle's chain from the sidecar.
Restart ==
    /\ restarts < MaxRestarts
    /\ restarts' = restarts + 1
    /\ clean' = (clean /\ \A h \in Handles : pc[h] = "idle")
    /\ pc' = [h \in Handles |-> "idle"]
    /\ prev' = [h \in Handles |-> ReadLastChainMac(side)]
    /\ failed' = [h \in Handles |-> FALSE]
    /\ entries' = [h \in Handles |-> <<>>]
    /\ opened' = pushes
    /\ UNCHANGED <<file, side, cur, pushes, faults, persisted>>

Next ==
    \/ \E h \in Handles :
        \/ PushInMemory(h) \/ PushLine(h) \/ PushNewline(h)
        \/ ExtendChain(h) \/ ChainExtended(h)
        \/ LineFails(h) \/ NewlineFails(h) \/ MacFails(h)
    \/ Restart

Spec == Init /\ [][Next]_vars

-----------------------------------------------------------------------------
(* Properties *)

\* Types of the state: audit.rs AuditLog, IntegrityChain.
TypeOK ==
    /\ file \in Seq(Seq(Nat)) /\ Len(file) > 0
    /\ side \in Seq(Seq(Seq(Nat))) /\ Len(side) > 0
    /\ pc \in [Handles -> {"idle", "newline", "mac", "macnewline"}]
    /\ cur \in [Handles -> Nat]
    /\ prev \in [Handles -> Seq(Nat)]
    /\ failed \in [Handles -> BOOLEAN]
    /\ entries \in [Handles -> Seq(Nat)]
    /\ pushes \in Nat /\ restarts \in Nat /\ faults \in Nat
    /\ persisted \subseteq Nat /\ opened \in Nat
    /\ clean \in BOOLEAN

\* A log nobody tampered with verifies: between pushes, when no write failed
\* and no process ended inside one, verify_audit_chain answers Ok, however
\* often the log was closed and reopened (audit.rs, "mac_i commits to the
\* entire prefix"; with_file_hmac resumes the chain).
QuietLogVerifies ==
    clean /\ (\A h \in Handles : pc[h] = "idle") => ChainVerifies

\* "the sidecar never commits to a line the log itself is missing"
\* (AuditLog::push): whatever failed and whenever the process ended, every
\* entry a recorded MAC commits to was written to the log by a push that saw
\* no error, in the order the MAC says.
SidecarWithinLog ==
    \A i \in DOMAIN side : \A k \in DOMAIN side[i] :
        side[i][k] # TornMac =>
            LET mac == side[i][k]
            IN /\ \A j \in DOMAIN mac : mac[j] \in persisted
               /\ \A j \in 1..(Len(mac) - 1) : mac[j] < mac[j + 1]

\* Reading the log back (load_entries_from_file) loses at most one entry whose
\* push reported no error for every time the process ended: the one glued to
\* the line an interrupted push left open.
OneLostPerRestart ==
    Cardinality(persisted \ LoadEntries) <= restarts

\* "dropping old in-memory entries loses nothing the operator cannot recover
\* from disk" (AuditLog::push), made exact.  Of what was pushed since the
\* process started, the last max_entries are in a handle's memory or in its
\* push, whatever failed; an older one that was written with no error can be
\* read back, unless it is the first one this process wrote and the line an
\* earlier process left open swallowed it.
RecentRecoverable ==
    \A e \in (opened + 1)..pushes :
        \/ \E h \in Handles : pc[h] # "idle" /\ cur[h] = e
        \/ \E h \in Handles : \E i \in DOMAIN entries[h] : entries[h][i] = e
        \/ /\ MaxInMemory > 0 /\ pushes - e >= MaxInMemory
           /\ \/ e \notin persisted \ LoadEntries
              \/ restarts > 0 /\ \A d \in persisted : d <= opened \/ e <= d
=============================================================================

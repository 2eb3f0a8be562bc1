-------------------------- MODULE SessionFileProofs --------------------------
(***************************************************************************)
(* For every number of CLI invocations, sessions, turns, starts and        *)
(* faults: while no two flushes overlapped the session file always parses, *)
(* what was acknowledged stays in it as long as no process rewrote it from *)
(* an old copy, and a restarted `serve` goes on with the conversation it   *)
(* had.                                                                    *)
(***************************************************************************)
EXTENDS SessionFile, WellFoundedInduction, TLAPS

\* A process holds a descriptor exactly while it writes.
Descriptors == \A p \in Procs : fd[p] # None <=> pc[p] = "write"

\* A fact waiting for its flush is in the copy that is flushed.
PendingInv ==
    \A p \in Procs : pending[p] # Nothing =>
        pending[p] \in mem[p] /\ pc[p] \in {"create", "write", "rename"}

\* No copy mentions a session that was not created yet.
Known(facts) ==
    \A s \in 1..MaxSessions : SessionFact(s) \in facts \/ ArchivedFact(s) \in facts => s <= sessions
KnownInv ==
    /\ \A p \in Procs : Known(mem[p])
    /\ \A i \in Inodes : Known(data[i].facts)

\* While no two flushes overlapped, the .tmp sibling belongs to the one process
\* that is writing, and the path names another inode that is whole.
OneFlush ==
    ~raced =>
        /\ \A p, q \in Procs : MidWrite(p) /\ MidWrite(q) => p = q
        /\ \A p \in Procs : pc[p] = "write" => fd[p] = tmp /\ data[tmp] = Blank
        /\ \A p \in Procs : pc[p] = "rename" => tmp # None /\ data[tmp] = Whole(mem[p])
        /\ target # None => target # tmp /\ data[target].kind = "whole"

\* What a copy must hold: everything acknowledged, the session last talked in,
\* and of the sessions `serve` created only ones begun when all older ones were
\* archived.
Kept(facts) ==
    /\ acked \subseteq facts
    /\ talked # None => SessionFact(talked) \in facts
    /\ \A s, older \in 1..MaxSessions :
         older < s /\ SessionFact(s) \in facts /\ SessionFact(older) \in facts =>
             s \in manual \/ ArchivedFact(older) \in facts

\* The file holds it, and so does every copy that is not out of date.
KeptInv ==
    ~raced /\ ~overwrote =>
        /\ Kept(Loaded)
        /\ \A p \in Procs : pc[p] # "down" /\ ~stale[p] => Kept(mem[p])

StoreInv ==
    /\ TypeOK /\ Descriptors /\ PendingInv /\ KnownInv
    /\ OneFlush /\ KeptInv /\ ConversationContinues

-----------------------------------------------------------------------------
(* Facts and the newest session *)

\* Facts of different kinds, or about different sessions, differ.
LEMMA FactsDiffer ==
    \A s, t, n :
        /\ SessionFact(s) # ArchivedFact(t) /\ TurnFact(s, n) # SessionFact(t)
        /\ TurnFact(s, n) # ArchivedFact(t)
        /\ SessionFact(s) = SessionFact(t) => s = t
        /\ ArchivedFact(s) = ArchivedFact(t) => s = t
        /\ Nothing # SessionFact(s) /\ Nothing # ArchivedFact(s) /\ Nothing # TurnFact(s, n)
BY DEF SessionFact, ArchivedFact, TurnFact, Nothing

\* The facts about sessions and turns within the bounds.
LEMMA FactTypes ==
    /\ \A s \in 1..MaxSessions : SessionFact(s) \in Facts /\ ArchivedFact(s) \in Facts
    /\ \A s \in 1..MaxSessions, t \in 1..MaxTurns : TurnFact(s, t) \in Facts
    /\ Nothing \notin Facts
<1>1. \A s \in 1..MaxSessions : SessionFact(s) \in Facts /\ ArchivedFact(s) \in Facts  BY DEF Facts
<1>2. \A s \in 1..MaxSessions, t \in 1..MaxTurns : TurnFact(s, t) \in Facts  BY DEF Facts
<1>3. Nothing \notin Facts  BY FactsDiffer DEF Facts
<1> QED  BY <1>1, <1>2, <1>3

\* The largest of a set of session numbers is one of them.
LEMMA MaxFacts ==
    ASSUME NEW n \in Nat, NEW S \in SUBSET (1..n), S # {}
    PROVE  Max(S) \in S /\ \A s \in S : s <= Max(S)
<1> DEFINE T == {n - s : s \in S}
           R == OpToRel(<, Nat)
<1>1. \A s \in S : s \in Nat /\ s <= n /\ n - s \in Nat  OBVIOUS
<1>2. T \subseteq Nat /\ T # {}  BY <1>1
<1>3. IsWellFoundedOn(R, Nat)  BY NatLessThanWellFounded
<1>4. PICK x \in T : \A y \in T : ~(<<y, x>> \in R)
  <2> HIDE DEF T, R
  <2> QED  BY <1>2, <1>3, WFMin
<1>5. \A y \in T : ~(y < x)  BY <1>2, <1>4 DEF OpToRel
<1>6. PICK m \in S : x = n - m  OBVIOUS
<1>7. \A s \in S : m >= s
  <2> SUFFICES ASSUME NEW s \in S PROVE m >= s  OBVIOUS
  <2>1. n - s \in T  OBVIOUS
  <2>2. ~(n - s < n - m)  BY <1>5, <1>6, <2>1
  <2>3. m \in Nat /\ s \in Nat /\ n \in Nat  BY <1>1
  <2> HIDE DEF T, R
  <2> QED  BY <2>2, <2>3
<1>8. Max(S) \in S /\ \A s \in S : Max(S) >= s
  BY <1>7 DEF Max
<1> QED  BY <1>1, <1>8

\* The session a restart continues is the newest active one.
LEMMA ContinuedFacts ==
    ASSUME NEW facts
    PROVE  /\ Continued(facts) \in 0..MaxSessions
           /\ Continued(facts) # None =>
                Continued(facts) \in Active(facts) /\ \A s \in Active(facts) : s <= Continued(facts)
           /\ Continued(facts) = None => Active(facts) = {}
<1>1. MaxSessions \in Nat  BY BoundsAssumption
<1>2. Active(facts) \in SUBSET (1..MaxSessions)  BY DEF Active
<1>3. CASE Active(facts) = {}  BY <1>1, <1>3 DEF Continued, None
<1>4. CASE Active(facts) # {}
  <2>1. Continued(facts) = Max(Active(facts))  BY <1>4 DEF Continued
  <2>2. Continued(facts) \in Active(facts) /\ \A s \in Active(facts) : s <= Continued(facts)
    BY <1>1, <1>2, <1>4, <2>1, MaxFacts
  <2>3. Continued(facts) \in 1..MaxSessions  BY <1>2, <2>2
  <2> QED  BY <1>1, <2>2, <2>3 DEF None
<1> QED  BY <1>3, <1>4

-----------------------------------------------------------------------------
(* What a step that leaves the file alone keeps *)

\* The file at the path is what it was.
LEMMA LoadedKept ==
    ASSUME target' = target, target # None => data'[target] = data[target]
    PROVE  Loaded' = Loaded /\ (Readable' <=> Readable)
BY DEF Loaded, Readable

\* What the file gives to a process that opens it.
LEMMA LoadedFacts ==
    ASSUME StoreInv
    PROVE  /\ Loaded \in SUBSET Facts /\ Known(Loaded)
           /\ ~raced => Readable
<1> USE DEF StoreInv
<1>1. target \in Inodes \cup {None} /\ data \in [Inodes -> Contents]  BY DEF TypeOK
<1>2. Loaded \in SUBSET Facts  BY <1>1 DEF Loaded, Contents
<1>3. Known({})  BY DEF Known
<1>4. Known(Loaded)  BY <1>1, <1>3 DEF Loaded, KnownInv
<1>5. ~raced => Readable  BY DEF OneFlush, Readable
<1> QED  BY <1>2, <1>4, <1>5

\* A process opens the store: it reads the file, and possibly adds a session.
LEMMA OpenStep ==
    ASSUME StoreInv, NEW p \in Procs, Start(p), NEW facts \in SUBSET Facts,
           NEW place \in {"ready", "create"}, sid' \in 0..MaxSessions,
           mem' = [mem EXCEPT ![p] = facts], pc' = [pc EXCEPT ![p] = place],
           UNCHANGED <<files, fd, pending, turns, faults, acked, raced, overwrote, talked, manual>>,
           sessions' \in 0..MaxSessions, sessions <= sessions', Known(facts)',
           ~raced /\ ~overwrote => Kept(facts),
           ConversationContinues'
    PROVE  StoreInv'
<1> USE DEF StoreInv
<1>1. /\ pc[p] = "down" /\ starts[p] < MaxStarts
      /\ starts' = [starts EXCEPT ![p] = @ + 1]
      /\ backed' = [backed EXCEPT ![p] = Readable]
      /\ stale' = [stale EXCEPT ![p] = FALSE]
  BY DEF Start
<1>2. UNCHANGED <<data, target, tmp>>  BY DEF files
<1>3. /\ pc'[p] = place /\ mem'[p] = facts /\ ~stale'[p]
      /\ \A q \in Procs : q # p => pc'[q] = pc[q] /\ mem'[q] = mem[q] /\ stale'[q] = stale[q]
  BY <1>1 DEF TypeOK
<1>4. TypeOK'
  <2>1. MaxStarts \in Nat  BY BoundsAssumption
  <2>2. starts' \in [Procs -> 0..MaxStarts]  BY <1>1, <2>1 DEF TypeOK
  <2>3. backed' \in [Procs -> BOOLEAN] /\ stale' \in [Procs -> BOOLEAN]
    <3>1. Readable \in BOOLEAN  BY DEF Readable
    <3> QED  BY <1>1, <3>1, Zenon DEF TypeOK
  <2>4. /\ mem' \in [Procs -> SUBSET Facts]
        /\ pc' \in [Procs -> {"down", "ready", "create", "write", "rename"}]
    BY DEF TypeOK
  <2> QED  BY <1>2, <2>2, <2>3, <2>4 DEF TypeOK
<1>5. Descriptors'  BY <1>1, <1>3 DEF Descriptors
<1>6. PendingInv'  BY <1>1, <1>3 DEF PendingInv
<1>7. KnownInv'
  <2>1. sessions \in Nat /\ sessions' \in Nat  BY DEF TypeOK
  <2>2. ASSUME NEW F, Known(F) PROVE Known(F)'  BY <2>1, <2>2 DEF Known
  <2> QED  BY <1>2, <1>3, <2>2 DEF KnownInv
<1>8. OneFlush'  BY <1>1, <1>2, <1>3 DEF OneFlush, MidWrite
<1>9. KeptInv'
  <2>1. ASSUME NEW F PROVE Kept(F)' <=> Kept(F)  BY DEF Kept
  <2>2. Loaded' = Loaded  BY <1>2, LoadedKept
  <2> SUFFICES ASSUME ~raced, ~overwrote
               PROVE  /\ Kept(Loaded)'
                      /\ \A q \in Procs : pc'[q] # "down" /\ ~stale'[q] => Kept(mem[q])'
    BY DEF KeptInv
  <2>3. Kept(Loaded)'  BY <2>1, <2>2 DEF KeptInv, Kept
  <2>4. ASSUME NEW q \in Procs, pc'[q] # "down", ~stale'[q] PROVE Kept(mem[q])'
    <3>1. CASE q = p  BY <1>3, <3>1 DEF Kept
    <3>2. CASE q # p
      <4>1. Kept(mem[q]) /\ mem'[q] = mem[q]  BY <1>3, <2>4, <3>2 DEF KeptInv
      <4> QED  BY <4>1 DEF Kept
    <3> QED  BY <3>1, <3>2
  <2> QED  BY <2>3, <2>4
<1> QED  BY <1>4, <1>5, <1>6, <1>7, <1>8, <1>9

\* SessionConversation::open_at continues the newest active session: the one it
\* last talked in, unless that is archived or the operator made a newer one.
LEMMA ServeContinuesStep ==
    ASSUME StoreInv, ServeContinues
    PROVE  StoreInv'
<1> USE DEF StoreInv
<1>1. /\ Start("serve") /\ Continued(Loaded) # None /\ sid' = Continued(Loaded)
      /\ mem' = [mem EXCEPT !["serve"] = Loaded] /\ pc' = [pc EXCEPT !["serve"] = "ready"]
      /\ UNCHANGED <<files, fd, pending, sessions, turns, faults, acked, raced, overwrote, talked, manual>>
  BY DEF ServeContinues
<1>2. PICK facts : facts = Loaded  OBVIOUS
<1>3. facts \in SUBSET Facts /\ Known(facts)  BY <1>2, LoadedFacts
<1>4. /\ sid' \in 1..MaxSessions /\ sid' \in Active(facts) /\ \A s \in Active(facts) : s <= sid'
  BY <1>1, <1>2, ContinuedFacts DEF None, Active
<1>5. ~raced /\ ~overwrote => Kept(facts)  BY <1>2 DEF KeptInv
<1>6. Known(facts)'  BY <1>1, <1>3 DEF Known
<1>7. ConversationContinues'
  <2>1. mem'["serve"] = facts  BY <1>1, <1>2 DEF TypeOK, Procs
  <2>2. Active(mem'["serve"]) = Active(facts)  BY <2>1
  <2>3. CASE raced \/ overwrote  BY <1>1, <1>4, <2>2, <2>3 DEF ConversationContinues
  <2>4. CASE ~raced /\ ~overwrote /\ talked # None /\ talked # sid' /\ ArchivedFact(talked) \notin facts
    <3>1. talked \in 1..MaxSessions  BY <2>4 DEF TypeOK, None
    <3>2. SessionFact(talked) \in facts  BY <1>5, <2>4 DEF Kept
    <3>3. talked \in Active(facts)  BY <2>4, <3>1, <3>2 DEF Active
    <3>4. talked < sid'  BY <1>4, <2>4, <3>1, <3>3
    <3>5. SessionFact(sid') \in facts  BY <1>4 DEF Active
    <3>6. sid' \in manual  BY <1>4, <1>5, <2>4, <3>1, <3>2, <3>4, <3>5 DEF Kept
    <3> QED  BY <1>1, <1>4, <2>2, <3>1, <3>4, <3>6 DEF ConversationContinues
  <2>5. CASE talked \in {None, sid'} \/ ArchivedFact(talked) \in facts
    BY <1>1, <1>4, <2>1, <2>2, <2>5 DEF ConversationContinues
  <2> QED  BY <2>3, <2>4, <2>5
<1>8. "serve" \in Procs /\ sid' \in 0..MaxSessions /\ sessions' \in 0..MaxSessions /\ sessions <= sessions'
  BY <1>1, <1>4 DEF Procs, TypeOK
<1> QED  BY <1>1, <1>2, <1>3, <1>5, <1>6, <1>7, <1>8, OpenStep

\* ... or starts a session when the file has no active one.
LEMMA ServeCreatesStep ==
    ASSUME StoreInv, ServeCreates
    PROVE  StoreInv'
<1> USE DEF StoreInv
<1>1. PICK new, old, facts, place :
        /\ new = sessions + 1 /\ old = Loaded /\ facts = old \cup {SessionFact(new)}
        /\ place = IF Readable THEN "create" ELSE "ready"
  OBVIOUS
<1>2. /\ Start("serve") /\ Continued(old) = None /\ sessions < MaxSessions
      /\ sessions' = new /\ sid' = new
      /\ mem' = [mem EXCEPT !["serve"] = facts] /\ pc' = [pc EXCEPT !["serve"] = place]
      /\ UNCHANGED <<files, fd, pending, turns, faults, acked, raced, overwrote, talked, manual>>
  BY <1>1 DEF ServeCreates
<1>3. place \in {"ready", "create"}  BY <1>1
<1>4. new \in 1..MaxSessions /\ sessions \in Nat /\ sessions < new /\ new = sessions + 1
  BY <1>1, <1>2, BoundsAssumption DEF TypeOK
<1>5. Active(old) = {} /\ old \in SUBSET Facts /\ Known(old)
  BY <1>1, <1>2, ContinuedFacts, LoadedFacts
<1>6. facts \in SUBSET Facts  BY <1>1, <1>4, <1>5, FactTypes
<1>7. Known(facts)'  BY <1>1, <1>2, <1>4, <1>5, FactsDiffer DEF Known
<1>8. new \in Active(facts)
  <2>1. ArchivedFact(new) \notin old  BY <1>4, <1>5 DEF Known
  <2> QED  BY <1>1, <1>4, <2>1, FactsDiffer DEF Active
<1>9. ~raced /\ ~overwrote => Kept(facts)
  <2> SUFFICES ASSUME ~raced, ~overwrote PROVE Kept(facts)  OBVIOUS
  <2>1. Kept(old)  BY <1>1 DEF KeptInv
  <2>2. acked \subseteq facts /\ (talked # None => SessionFact(talked) \in facts)
    BY <1>1, <2>1 DEF Kept
  <2>3. ASSUME NEW s \in 1..MaxSessions, NEW older \in 1..MaxSessions,
               older < s, SessionFact(s) \in facts, SessionFact(older) \in facts
        PROVE  s \in manual \/ ArchivedFact(older) \in facts
    <3>1. CASE s = new
      <4>1. SessionFact(older) \in old  BY <1>1, <2>3, <3>1, FactsDiffer
      <4> QED  BY <1>1, <1>5, <4>1 DEF Active
    <3>2. CASE s # new
      <4>1. SessionFact(s) \in old  BY <1>1, <2>3, <3>2, FactsDiffer
      <4>2. s <= sessions  BY <1>5, <4>1 DEF Known
      <4>3. older # new  BY <1>4, <2>3, <4>2
      <4>4. SessionFact(older) \in old  BY <1>1, <2>3, <4>3, FactsDiffer
      <4> QED  BY <1>1, <2>1, <2>3, <4>1, <4>4 DEF Kept
    <3> QED  BY <3>1, <3>2
  <2> QED  BY <2>2, <2>3 DEF Kept
<1>10. ConversationContinues'
  <2>1. mem'["serve"] = facts  BY <1>2 DEF TypeOK, Procs
  <2>2. sid' \in Active(mem'["serve"])  BY <1>2, <1>8, <2>1
  <2>3. raced \/ overwrote \/ talked = None \/ ArchivedFact(talked) \in facts
    <3> SUFFICES ASSUME ~raced, ~overwrote, talked # None PROVE ArchivedFact(talked) \in facts  OBVIOUS
    <3>1. SessionFact(talked) \in old  BY <1>1 DEF KeptInv, Kept
    <3>2. talked \in 1..MaxSessions  BY DEF TypeOK, None
    <3> QED  BY <1>1, <1>5, <3>1, <3>2 DEF Active
  <2> QED  BY <1>2, <2>1, <2>2, <2>3 DEF ConversationContinues
<1>11. "serve" \in Procs /\ sid' \in 0..MaxSessions /\ sessions' \in 0..MaxSessions /\ sessions <= sessions'
  BY <1>2, <1>4 DEF Procs
<1> QED  BY <1>2, <1>3, <1>6, <1>7, <1>9, <1>10, <1>11, OpenStep

\* The CLI opens the store.
LEMMA CliOpensStep ==
    ASSUME StoreInv, NEW p \in Procs, CliOpens(p)
    PROVE  StoreInv'
<1> USE DEF StoreInv
<1>1. PICK facts : facts = Loaded  OBVIOUS
<1>2. /\ p \in Clis /\ Start(p) /\ mem' = [mem EXCEPT ![p] = facts] /\ pc' = [pc EXCEPT ![p] = "ready"]
      /\ UNCHANGED <<files, fd, sid, pending, sessions, turns, faults, acked, raced, overwrote, talked, manual>>
  BY <1>1 DEF CliOpens
<1>3. facts \in SUBSET Facts /\ Known(facts)  BY <1>1, LoadedFacts
<1>4. Known(facts)'  BY <1>2, <1>3 DEF Known
<1>5. ~raced /\ ~overwrote => Kept(facts)  BY <1>1 DEF KeptInv
<1>6. p # "serve" /\ "serve" \in Procs  BY <1>2, BoundsAssumption DEF Procs
<1>7. pc'["serve"] = pc["serve"] /\ mem'["serve"] = mem["serve"]  BY <1>2, <1>6 DEF TypeOK
<1>8. ConversationContinues'  BY <1>2, <1>7 DEF ConversationContinues, Active
<1>9. sid' \in 0..MaxSessions /\ sessions' \in 0..MaxSessions /\ sessions <= sessions'
  BY <1>2 DEF TypeOK
<1> QED  BY <1>2, <1>3, <1>4, <1>5, <1>8, <1>9, OpenStep

-----------------------------------------------------------------------------
(* The calls that change a store *)

\* A call adds one fact to the copy of its process.
LEMMA ChangeStep ==
    ASSUME StoreInv, NEW p \in Procs, NEW fact \in Facts, Change(p, fact),
           sessions' \in 0..MaxSessions, sessions <= sessions', turns' \in 0..MaxTurns,
           manual \subseteq manual', manual' \subseteq 1..MaxSessions,
           NEW facts, facts = mem[p] \cup {fact}, Known(facts)', Kept(mem[p]) => Kept(facts)',
           p = "serve" => \A s : fact # ArchivedFact(s)
    PROVE  StoreInv'
<1> USE DEF StoreInv
<1>1. /\ pc[p] = "ready" /\ mem' = [mem EXCEPT ![p] = facts]
      /\ pending' = [pending EXCEPT ![p] = IF backed[p] THEN fact ELSE Nothing]
      /\ pc' = [pc EXCEPT ![p] = IF backed[p] THEN "create" ELSE AfterCall(p)]
      /\ UNCHANGED <<files, fd, backed, sid, starts, faults, acked, stale, raced, overwrote, talked>>
  BY DEF Change
<1>2. UNCHANGED <<data, target, tmp>>  BY <1>1 DEF files
<1>3. facts \in SUBSET Facts  BY DEF TypeOK
<1>4. AfterCall(p) \in {"ready", "down"}  BY DEF AfterCall
<1>5. /\ pc'[p] \in {"ready", "down", "create"} /\ mem'[p] = facts
      /\ pending'[p] \in {fact, Nothing} /\ (pending'[p] # Nothing => pc'[p] = "create")
      /\ \A q \in Procs : q # p => pc'[q] = pc[q] /\ mem'[q] = mem[q] /\ pending'[q] = pending[q]
  BY <1>1, <1>4 DEF TypeOK
<1>6. TypeOK'
  <2>1. /\ mem' \in [Procs -> SUBSET Facts] /\ pending' \in [Procs -> Facts \cup {Nothing}]
        /\ pc' \in [Procs -> {"down", "ready", "create", "write", "rename"}]
    BY <1>1, <1>3, <1>4 DEF TypeOK
  <2> QED  BY <1>1, <1>2, <2>1 DEF TypeOK
<1>7. Descriptors'  BY <1>1, <1>5 DEF Descriptors
<1>8. PendingInv'  BY <1>5 DEF PendingInv
<1>9. KnownInv'
  <2>1. sessions \in Nat /\ sessions' \in Nat  BY DEF TypeOK
  <2>2. ASSUME NEW F, Known(F) PROVE Known(F)'  BY <2>1, <2>2 DEF Known
  <2> QED  BY <1>2, <1>5, <2>2 DEF KnownInv
<1>10. OneFlush'  BY <1>1, <1>2, <1>5 DEF OneFlush, MidWrite
<1>11. KeptInv'
  <2>1. Loaded' = Loaded  BY <1>2, LoadedKept
  <2>2. ASSUME NEW F, Kept(F) PROVE Kept(F)'  BY <1>1, <2>2 DEF Kept
  <2> SUFFICES ASSUME ~raced, ~overwrote
               PROVE  /\ Kept(Loaded)'
                      /\ \A q \in Procs : pc'[q] # "down" /\ ~stale'[q] => Kept(mem[q])'
    BY <1>1 DEF KeptInv
  <2>3. Kept(Loaded)'
    <3>1. PICK F : F = Loaded  OBVIOUS
    <3>2. Kept(F)'  BY <2>2, <3>1 DEF KeptInv
    <3> QED  BY <2>1, <3>1, <3>2 DEF Kept
  <2>4. ASSUME NEW q \in Procs, pc'[q] # "down", ~stale'[q] PROVE Kept(mem[q])'
    <3>1. CASE q = p
      <4>1. Kept(facts)'  BY <1>1, <2>4, <3>1 DEF KeptInv
      <4> QED  BY <1>5, <3>1, <4>1 DEF Kept
    <3>2. CASE q # p
      <4>1. PICK F : F = mem[q]  OBVIOUS
      <4>2. Kept(F)'  BY <1>1, <1>5, <2>2, <2>4, <3>2, <4>1 DEF KeptInv
      <4> QED  BY <1>5, <3>2, <4>1, <4>2 DEF Kept
    <3> QED  BY <3>1, <3>2
  <2> QED  BY <2>3, <2>4
<1>12. ConversationContinues'
  <2>1. CASE p = "serve"
    <3>1. mem["serve"] \subseteq facts /\ \A s : ArchivedFact(s) \in facts => ArchivedFact(s) \in mem["serve"]
      BY <2>1
    <3>2. Active(mem["serve"]) \subseteq Active(facts)  BY <3>1 DEF Active
    <3>3. Active(mem'["serve"]) = Active(facts)  BY <1>5, <2>1
    <3>4. pc["serve"] # "down"  BY <1>1, <2>1
    <3> QED  BY <1>1, <1>5, <2>1, <3>1, <3>2, <3>3, <3>4 DEF ConversationContinues
  <2>2. CASE p # "serve"
    <3>1. pc'["serve"] = pc["serve"] /\ mem'["serve"] = mem["serve"]  BY <1>5, <2>2 DEF Procs
    <3> QED  BY <1>1, <3>1 DEF ConversationContinues, Active
  <2> QED  BY <2>1, <2>2
<1> QED  BY <1>6, <1>7, <1>8, <1>9, <1>10, <1>11, <1>12

\* A turn, an archiving and a new session.
LEMMA CallSteps ==
    ASSUME StoreInv, NEW p \in Procs,
           \/ \E s \in 1..MaxSessions : AppendTurn(p, s) \/ Archive(p, s)
           \/ NewSession(p)
    PROVE  StoreInv'
<1> USE DEF StoreInv
<1>0. /\ sessions \in 0..MaxSessions /\ turns \in 0..MaxTurns /\ manual \subseteq 1..MaxSessions
      /\ Known(mem[p]) /\ MaxSessions \in Nat /\ MaxTurns \in Nat
  BY BoundsAssumption DEF TypeOK, KnownInv
<1>1. ASSUME NEW s \in 1..MaxSessions, AppendTurn(p, s) PROVE StoreInv'
  <2>1. PICK fact : fact = TurnFact(s, turns + 1)  OBVIOUS
  <2>2. /\ turns < MaxTurns /\ turns' = turns + 1 /\ Change(p, fact) /\ UNCHANGED <<sessions, manual>>
    BY <1>1, <2>1 DEF AppendTurn
  <2>3. fact \in Facts /\ turns' \in 0..MaxTurns  BY <1>0, <2>1, <2>2, FactTypes
  <2>4. PICK facts : facts = mem[p] \cup {fact}  OBVIOUS
  <2>5. \A x : fact # ArchivedFact(x) /\ fact # SessionFact(x)  BY <2>1, FactsDiffer
  <2>6. Known(facts)'  BY <1>0, <2>2, <2>4, <2>5 DEF Known
  <2>7. Kept(mem[p]) => Kept(facts)'
    <3>1. acked' = acked /\ talked' = talked  BY <2>2 DEF Change
    <3> QED  BY <2>2, <2>4, <2>5, <3>1 DEF Kept
  <2> QED  BY <1>0, <2>2, <2>3, <2>4, <2>5, <2>6, <2>7, ChangeStep
<1>2. ASSUME NEW s \in 1..MaxSessions, Archive(p, s) PROVE StoreInv'
  <2>1. PICK fact : fact = ArchivedFact(s)  OBVIOUS
  <2>2. /\ p \in Clis /\ s \in Active(mem[p]) /\ Change(p, fact) /\ UNCHANGED <<sessions, turns, manual>>
    BY <1>2, <2>1 DEF Archive
  <2>3. fact \in Facts  BY <2>1, FactTypes
  <2>4. PICK facts : facts = mem[p] \cup {fact}  OBVIOUS
  <2>5. \A x : fact # SessionFact(x) /\ (fact = ArchivedFact(x) => x = s)  BY <2>1, FactsDiffer
  <2>6. Known(facts)'
    <3>1. s <= sessions  BY <1>0, <2>2 DEF Known, Active
    <3> QED  BY <1>0, <2>2, <2>4, <2>5, <3>1 DEF Known
  <2>7. Kept(mem[p]) => Kept(facts)'
    <3>1. acked' = acked /\ talked' = talked  BY <2>2 DEF Change
    <3> QED  BY <2>2, <2>4, <2>5, <3>1 DEF Kept
  <2>8. p # "serve"  BY <2>2, BoundsAssumption
  <2> QED  BY <1>0, <2>2, <2>3, <2>4, <2>6, <2>7, <2>8, ChangeStep
<1>3. ASSUME NewSession(p) PROVE StoreInv'
  <2>1. PICK new, fact : new = sessions + 1 /\ fact = SessionFact(new)  OBVIOUS
  <2>2. /\ p \in Clis /\ sessions < MaxSessions /\ sessions' = new /\ manual' = manual \cup {new}
        /\ Change(p, fact) /\ turns' = turns
    BY <1>3, <2>1 DEF NewSession
  <2>3. new \in 1..MaxSessions /\ sessions < new /\ new = sessions + 1  BY <1>0, <2>1, <2>2
  <2>4. fact \in Facts  BY <2>1, <2>3, FactTypes
  <2>5. PICK facts : facts = mem[p] \cup {fact}  OBVIOUS
  <2>6. \A x : fact # ArchivedFact(x) /\ (fact = SessionFact(x) => x = new)  BY <2>1, FactsDiffer
  <2>7. Known(facts)'  BY <1>0, <2>2, <2>3, <2>5, <2>6 DEF Known
  <2>8. Kept(mem[p]) => Kept(facts)'
    <3> SUFFICES ASSUME Kept(mem[p]) PROVE Kept(facts)'  OBVIOUS
    <3>1. acked' = acked /\ talked' = talked  BY <2>2 DEF Change
    <3>2. acked \subseteq facts /\ (talked # None => SessionFact(talked) \in facts)  BY <2>5 DEF Kept
    <3>3. ASSUME NEW s \in 1..MaxSessions, NEW older \in 1..MaxSessions,
                 older < s, SessionFact(s) \in facts, SessionFact(older) \in facts
          PROVE  s \in manual' \/ ArchivedFact(older) \in facts
      <4>1. CASE s = new  BY <2>2, <4>1
      <4>2. CASE s # new
        <5>1. SessionFact(s) \in mem[p]  BY <2>5, <2>6, <3>3, <4>2
        <5>2. s <= sessions  BY <1>0, <5>1 DEF Known
        <5>3. older # new  BY <1>0, <2>3, <3>3, <5>2
        <5>4. SessionFact(older) \in mem[p]  BY <2>5, <2>6, <3>3, <5>3
        <5> QED  BY <2>2, <2>5, <3>3, <5>1, <5>4 DEF Kept
      <4> QED  BY <4>1, <4>2
    <3> QED  BY <3>1, <3>2, <3>3 DEF Kept
  <2>9. p # "serve"  BY <2>2, BoundsAssumption
  <2>10. manual' \subseteq 1..MaxSessions /\ sessions' \in 0..MaxSessions /\ sessions <= sessions'
    BY <1>0, <2>2, <2>3
  <2> QED  BY <1>0, <2>2, <2>4, <2>5, <2>7, <2>8, <2>9, <2>10, ChangeStep
<1> QED  BY <1>1, <1>2, <1>3

-----------------------------------------------------------------------------
(* atomic_write, up to the rename *)

\* A step of a flush that leaves the path, and what it names, alone.
LEMMA FlushStep ==
    ASSUME StoreInv, NEW p \in Procs, pc[p] # "down",
           NEW place \in {"down", "ready", "write", "rename"}, pc' = [pc EXCEPT ![p] = place],
           UNCHANGED <<target, mem, backed, sid, sessions, turns, starts, acked, stale,
                       overwrote, talked, manual>>,
           data' \in [Inodes -> Contents], tmp' \in Inodes \cup {None},
           fd' \in [Procs -> Inodes \cup {None}], pending' \in [Procs -> Facts \cup {Nothing}],
           faults' \in 0..MaxFaults, raced' \in BOOLEAN, raced => raced',
           \A i \in Inodes : Known(data'[i].facts),
           Descriptors', PendingInv', OneFlush',
           ~raced' => (target # None => data'[target] = data[target])
    PROVE  StoreInv'
<1> USE DEF StoreInv
<1>1. /\ pc'[p] = place /\ \A q \in Procs : q # p => pc'[q] = pc[q]
      /\ pc' \in [Procs -> {"down", "ready", "create", "write", "rename"}]
  BY DEF TypeOK
<1>2. TypeOK'  BY <1>1 DEF TypeOK
<1>3. KnownInv'  BY DEF KnownInv, Known
<1>4. KeptInv'
  <2> SUFFICES ASSUME ~raced', ~overwrote'
               PROVE  /\ Kept(Loaded)'
                      /\ \A q \in Procs : pc'[q] # "down" /\ ~stale'[q] => Kept(mem[q])'
    BY DEF KeptInv
  <2>1. Loaded' = Loaded  BY LoadedKept
  <2>2. Kept(Loaded) /\ \A q \in Procs : pc[q] # "down" /\ ~stale[q] => Kept(mem[q])  BY DEF KeptInv
  <2>3. Kept(Loaded)'  BY <2>1, <2>2 DEF Kept
  <2>4. \A q \in Procs : pc'[q] # "down" => pc[q] # "down"  BY <1>1
  <2> QED  BY <2>2, <2>3, <2>4 DEF Kept
<1>5. ConversationContinues'
  <2>1. pc'["serve"] # "down" => pc["serve"] # "down"  BY <1>1 DEF Procs
  <2> QED  BY <2>1 DEF ConversationContinues, Active
<1> QED  BY <1>2, <1>3, <1>4, <1>5

\* Types of what a write leaves.
LEMMA ContentTypes ==
    /\ Blank \in Contents /\ Torn \in Contents
    /\ \A facts \in SUBSET Facts : Whole(facts) \in Contents
    /\ Known(Blank.facts) /\ Known(Torn.facts)
    /\ \A facts : Whole(facts).facts = facts /\ Whole(facts).kind = "whole"
    /\ Blank # Torn /\ \A facts : Whole(facts) # Blank
<1>1. Known({})  BY DEF Known
<1> QED  BY <1>1 DEF Blank, Torn, Whole, Contents

\* fs::write opens the .tmp sibling.
LEMMA CreateStep ==
    ASSUME StoreInv, NEW p \in Procs, Create(p)
    PROVE  StoreInv'
<1> USE DEF StoreInv
<1>1. PICK inode \in IF tmp = None THEN Fresh ELSE {tmp} :
        /\ tmp' = inode /\ fd' = [fd EXCEPT ![p] = inode]
        /\ data' = [data EXCEPT ![inode] = Blank] /\ target' = target
  BY DEF Create, CreateTmp
<1>2. /\ pc[p] = "create" /\ pc' = [pc EXCEPT ![p] = "write"]
      /\ raced' = (raced \/ \E q \in Procs \ {p} : MidWrite(q))
      /\ UNCHANGED <<mem, backed, sid, pending, sessions, turns, starts, faults, acked,
                     stale, overwrote, talked, manual>>
  BY DEF Create
<1>3. inode \in Inodes /\ inode # None /\ (~raced => inode # target)
  <2>1. CASE tmp = None
    <3>1. inode \in Inodes /\ inode # target  BY <1>1, <2>1 DEF Fresh, Unused
    <3> QED  BY <3>1 DEF Inodes, None
  <2>2. CASE tmp # None
    <3>1. inode = tmp /\ tmp \in Inodes  BY <1>1, <2>2 DEF TypeOK
    <3>2. ~raced /\ target # None => target # tmp  BY DEF OneFlush
    <3> QED  BY <2>2, <3>1, <3>2
  <2> QED  BY <2>1, <2>2
<1>4. /\ pc'[p] = "write" /\ fd'[p] = inode
      /\ \A q \in Procs : q # p => pc'[q] = pc[q] /\ fd'[q] = fd[q]
      /\ data'[inode] = Blank /\ \A i \in Inodes : i # inode => data'[i] = data[i]
      /\ data \in [Inodes -> Contents]
  BY <1>1, <1>2, <1>3 DEF TypeOK
<1>5. data' \in [Inodes -> Contents] /\ fd' \in [Procs -> Inodes \cup {None}]
  BY <1>1, <1>3, ContentTypes DEF TypeOK
<1>6. raced' \in BOOLEAN /\ (raced => raced')
      /\ (~raced' => ~raced /\ \A q \in Procs : q # p => ~MidWrite(q))
  <2>1. raced \in BOOLEAN  BY DEF TypeOK
  <2>2. raced' \in BOOLEAN  BY <1>2, <2>1, Zenon
  <2>3. (raced => raced') /\ (~raced' => ~raced /\ \A q \in Procs : q # p => ~MidWrite(q))
    BY <1>2, <2>1
  <2> QED  BY <2>2, <2>3
<1>7. \A i \in Inodes : Known(data'[i].facts)  BY <1>4, ContentTypes DEF KnownInv
<1>8. Descriptors'  BY <1>3, <1>4 DEF Descriptors
<1>9. PendingInv'  BY <1>2, <1>4 DEF PendingInv
<1>10. OneFlush'
  <2> SUFFICES ASSUME ~raced'
               PROVE  /\ \A q, r \in Procs : MidWrite(q)' /\ MidWrite(r)' => q = r
                      /\ \A q \in Procs : pc'[q] = "write" => fd'[q] = tmp' /\ data'[tmp'] = Blank
                      /\ \A q \in Procs : pc'[q] = "rename" => tmp' # None /\ data'[tmp'] = Whole(mem'[q])
                      /\ target' # None => target' # tmp' /\ data'[target'].kind = "whole"
    BY DEF OneFlush
  <2>1. \A q \in Procs : q # p => pc'[q] \notin {"write", "rename"}  BY <1>4, <1>6 DEF MidWrite
  <2>2. target # None => target \in Inodes /\ data[target].kind = "whole"  BY <1>6 DEF OneFlush, TypeOK
  <2> QED  BY <1>1, <1>3, <1>4, <1>6, <2>1, <2>2 DEF MidWrite
<1>11. ~raced' => (target # None => data'[target] = data[target])
  BY <1>3, <1>4, <1>6 DEF TypeOK
<1>12. faults' \in 0..MaxFaults /\ pending' \in [Procs -> Facts \cup {Nothing}] /\ tmp' \in Inodes \cup {None}
  BY <1>1, <1>2, <1>3 DEF TypeOK
<1> QED  BY <1>1, <1>2, <1>5, <1>6, <1>7, <1>8, <1>9, <1>10, <1>11, <1>12, FlushStep

\* write_all fills it.
LEMMA WriteStep ==
    ASSUME StoreInv, NEW p \in Procs, Write(p)
    PROVE  StoreInv'
<1> USE DEF StoreInv
<1>1. PICK text \in WriteOutcomes(data[fd[p]], Whole(mem[p])) : data' = [data EXCEPT ![fd[p]] = text]
  BY DEF Write
<1>2. /\ pc[p] = "write" /\ fd' = [fd EXCEPT ![p] = None] /\ pc' = [pc EXCEPT ![p] = "rename"]
      /\ UNCHANGED <<target, tmp, mem, backed, sid, pending, sessions, turns, starts, faults, history>>
  BY DEF Write
<1>3. UNCHANGED <<acked, stale, raced, overwrote, talked, manual>>  BY <1>2 DEF history
<1>4. PICK inode : inode = fd[p]  OBVIOUS
<1>5. inode \in Inodes  BY <1>2, <1>4 DEF Descriptors, TypeOK
<1>6. text \in {Whole(mem[p]), Torn} /\ (data[inode] = Blank => text = Whole(mem[p]))
  BY <1>1, <1>4 DEF WriteOutcomes
<1>7. /\ pc'[p] = "rename" /\ fd'[p] = None
      /\ \A q \in Procs : q # p => pc'[q] = pc[q] /\ fd'[q] = fd[q]
      /\ data'[inode] = text /\ \A i \in Inodes : i # inode => data'[i] = data[i]
      /\ mem[p] \in SUBSET Facts
  BY <1>1, <1>2, <1>4, <1>5 DEF TypeOK
<1>8. data' \in [Inodes -> Contents] /\ fd' \in [Procs -> Inodes \cup {None}]
  <2>1. text \in Contents  BY <1>6, <1>7, ContentTypes
  <2> QED  BY <1>1, <1>2, <1>4, <2>1 DEF TypeOK
<1>9. \A i \in Inodes : Known(data'[i].facts)
  <2>1. Known(text.facts)  BY <1>6, ContentTypes DEF KnownInv
  <2> QED  BY <1>7, <2>1 DEF KnownInv
<1>10. Descriptors'  BY <1>7 DEF Descriptors
<1>11. PendingInv'  BY <1>2, <1>7 DEF PendingInv
<1>12. ~raced => /\ inode = tmp /\ data[inode] = Blank
                 /\ target # None => target # tmp /\ target \in Inodes /\ data[target].kind = "whole"
                 /\ \A q \in Procs : q # p => ~MidWrite(q)
  BY <1>2, <1>4 DEF OneFlush, TypeOK, MidWrite
<1>13. OneFlush'
  <2> SUFFICES ASSUME ~raced'
               PROVE  /\ \A q, r \in Procs : MidWrite(q)' /\ MidWrite(r)' => q = r
                      /\ \A q \in Procs : pc'[q] = "write" => fd'[q] = tmp' /\ data'[tmp'] = Blank
                      /\ \A q \in Procs : pc'[q] = "rename" => tmp' # None /\ data'[tmp'] = Whole(mem'[q])
                      /\ target' # None => target' # tmp' /\ data'[target'].kind = "whole"
    BY DEF OneFlush
  <2>1. \A q \in Procs : q # p => pc'[q] \notin {"write", "rename"}  BY <1>3, <1>7, <1>12 DEF MidWrite
  <2>2. tmp' # None  BY <1>2, <1>3, <1>5, <1>12 DEF Inodes, None
  <2> QED  BY <1>2, <1>3, <1>6, <1>7, <1>12, <2>1, <2>2 DEF MidWrite
<1>14. ~raced' => (target # None => data'[target] = data[target])  BY <1>3, <1>7, <1>12
<1>15. /\ faults' \in 0..MaxFaults /\ pending' \in [Procs -> Facts \cup {Nothing}]
       /\ tmp' \in Inodes \cup {None} /\ raced' \in BOOLEAN /\ (raced => raced')
  BY <1>2, <1>3 DEF TypeOK
<1>16. pc[p] # "down"  BY <1>2
<1> QED  BY <1>2, <1>3, <1>8, <1>9, <1>10, <1>11, <1>13, <1>14, <1>15, <1>16, FlushStep

\* A flush stops part of the way: by an error, by the rename that finds no file,
\* or because the process ends.
LEMMA AbandonStep ==
    ASSUME StoreInv, NEW p \in Procs, pc[p] # "down",
           NEW place \in {"down", "ready"}, pc' = [pc EXCEPT ![p] = place],
           Interrupted(p), fd' = [fd EXCEPT ![p] = None],
           pending' = [pending EXCEPT ![p] = Nothing], faults' \in 0..MaxFaults,
           UNCHANGED <<target, tmp, mem, backed, sid, sessions, turns, starts, history>>
    PROVE  StoreInv'
<1> USE DEF StoreInv
<1>1. UNCHANGED <<acked, stale, raced, overwrote, talked, manual>>  BY DEF history
<1>2. /\ pc'[p] = place /\ fd'[p] = None /\ pending'[p] = Nothing
      /\ \A q \in Procs : q # p => pc'[q] = pc[q] /\ fd'[q] = fd[q] /\ pending'[q] = pending[q]
  BY DEF TypeOK
<1>3. PICK inode : inode = fd[p]  OBVIOUS
<1>4. \/ data' = data
      \/ pc[p] = "write" /\ data' = [data EXCEPT ![inode] = Torn]
  <2>1. CASE pc[p] = "write"
    <3>1. PICK text \in {data[inode], Torn} : data' = [data EXCEPT ![inode] = text]
      BY <1>3, <2>1 DEF Interrupted
    <3>2. CASE text = data[inode]  BY <3>1, <3>2 DEF TypeOK
    <3> QED  BY <2>1, <3>1, <3>2
  <2>2. CASE pc[p] # "write"  BY <2>2 DEF Interrupted
  <2> QED  BY <2>1, <2>2
<1>5. pc[p] = "write" => inode \in Inodes  BY <1>3 DEF Descriptors, TypeOK
<1>6. data' \in [Inodes -> Contents] /\ \A i \in Inodes : Known(data'[i].facts)
  BY <1>4, <1>5, ContentTypes DEF TypeOK, KnownInv
<1>7. /\ fd' \in [Procs -> Inodes \cup {None}] /\ pending' \in [Procs -> Facts \cup {Nothing}]
      /\ tmp' \in Inodes \cup {None} /\ raced' \in BOOLEAN /\ (raced => raced')
  BY <1>1 DEF TypeOK
<1>8. Descriptors'  BY <1>2 DEF Descriptors
<1>9. PendingInv'  BY <1>2 DEF PendingInv
<1>10. ~raced => /\ pc[p] = "write" => inode = tmp /\ \A q \in Procs : q # p => ~MidWrite(q)
                 /\ target # None => target # tmp /\ target \in Inodes /\ data[target].kind = "whole"
  BY <1>3 DEF OneFlush, TypeOK, MidWrite
<1>11. ~raced => (target # None => data'[target] = data[target])
  BY <1>4, <1>5, <1>10 DEF TypeOK
<1>12. OneFlush'
  <2> SUFFICES ASSUME ~raced'
               PROVE  /\ \A q, r \in Procs : MidWrite(q)' /\ MidWrite(r)' => q = r
                      /\ \A q \in Procs : pc'[q] = "write" => fd'[q] = tmp' /\ data'[tmp'] = Blank
                      /\ \A q \in Procs : pc'[q] = "rename" => tmp' # None /\ data'[tmp'] = Whole(mem'[q])
                      /\ target' # None => target' # tmp' /\ data'[target'].kind = "whole"
    BY DEF OneFlush
  <2>1. \A q \in Procs : pc'[q] \in {"write", "rename"} => q # p /\ pc'[q] = pc[q] /\ MidWrite(q)
    BY <1>2 DEF MidWrite
  <2>2. \A q \in Procs : MidWrite(q) /\ q # p => data' = data  BY <1>1, <1>4, <1>10
  <2> QED  BY <1>1, <1>2, <1>10, <1>11, <2>1, <2>2 DEF MidWrite, OneFlush
<1> QED  BY <1>1, <1>6, <1>7, <1>8, <1>9, <1>11, <1>12, FlushStep

\* The ends of a call that do not rename: all but Rename.
LEMMA EndSteps ==
    ASSUME StoreInv, NEW p \in Procs, RenameFails(p) \/ CliReturns(p) \/ FlushFails(p) \/ Crash(p)
    PROVE  StoreInv'
<1> USE DEF StoreInv
<1>1. AfterCall(p) \in {"ready", "down"}  BY DEF AfterCall
<1>2. faults \in 0..MaxFaults /\ MaxFaults \in Nat  BY BoundsAssumption DEF TypeOK
<1>3. pc[p] # "write" => fd = [fd EXCEPT ![p] = None]  BY DEF Descriptors, TypeOK
<1>4. pc[p] = "ready" => pending = [pending EXCEPT ![p] = Nothing]  BY DEF PendingInv, TypeOK
<1>5. CASE RenameFails(p)
  <2>1. /\ pc[p] = "rename" /\ pc' = [pc EXCEPT ![p] = AfterCall(p)]
        /\ pending' = [pending EXCEPT ![p] = Nothing]
        /\ UNCHANGED <<data, target, tmp, fd, mem, backed, sid, sessions, turns, starts, faults, history>>
    BY <1>5 DEF RenameFails, Return, files
  <2>2. Interrupted(p) /\ fd' = [fd EXCEPT ![p] = None] /\ faults' \in 0..MaxFaults
    BY <1>2, <1>3, <2>1 DEF Interrupted
  <2> QED  BY <1>1, <2>1, <2>2, AbandonStep
<1>6. CASE CliReturns(p)
  <2>1. /\ pc[p] = "ready" /\ pc' = [pc EXCEPT ![p] = "down"]
        /\ UNCHANGED <<data, target, tmp, fd, mem, backed, sid, pending, sessions, turns, starts,
                       faults, history>>
    BY <1>6 DEF CliReturns, files
  <2>2. /\ Interrupted(p) /\ fd' = [fd EXCEPT ![p] = None] /\ faults' \in 0..MaxFaults
        /\ pending' = [pending EXCEPT ![p] = Nothing]
    BY <1>2, <1>3, <1>4, <2>1 DEF Interrupted
  <2> QED  BY <2>1, <2>2, AbandonStep
<1>7. CASE FlushFails(p)
  <2>1. /\ pc[p] # "down" /\ pc' = [pc EXCEPT ![p] = AfterCall(p)] /\ Interrupted(p)
        /\ fd' = [fd EXCEPT ![p] = None] /\ pending' = [pending EXCEPT ![p] = Nothing]
        /\ faults < MaxFaults /\ faults' = faults + 1
        /\ UNCHANGED <<target, tmp, mem, backed, sid, sessions, turns, starts, history>>
    BY <1>7 DEF FlushFails, Return
  <2>2. faults' \in 0..MaxFaults  BY <1>2, <2>1
  <2> QED  BY <1>1, <2>1, <2>2, AbandonStep
<1>8. CASE Crash(p)
  <2>1. /\ pc[p] # "down" /\ pc' = [pc EXCEPT ![p] = "down"] /\ Interrupted(p)
        /\ fd' = [fd EXCEPT ![p] = None] /\ pending' = [pending EXCEPT ![p] = Nothing]
        /\ faults' \in 0..MaxFaults
        /\ UNCHANGED <<target, tmp, mem, backed, sid, sessions, turns, starts, history>>
    BY <1>2, <1>8 DEF Crash
  <2> QED  BY <2>1, AbandonStep
<1> QED  BY <1>5, <1>6, <1>7, <1>8

-----------------------------------------------------------------------------
(* The rename *)

\* The path now names what the process wrote, which holds everything that was
\* acknowledged before unless its copy was out of date.
LEMMA RenameStep ==
    ASSUME StoreInv, NEW p \in Procs, Rename(p)
    PROVE  StoreInv'
<1> USE DEF StoreInv
<1>1. /\ pc[p] = "rename" /\ tmp # None /\ target' = tmp /\ tmp' = None
      /\ pc' = [pc EXCEPT ![p] = AfterCall(p)] /\ pending' = [pending EXCEPT ![p] = Nothing]
      /\ acked' = acked \cup ({pending[p]} \ {Nothing})
      /\ stale' = [q \in Procs |-> q # p]
      /\ overwrote' = (overwrote \/ stale[p])
      /\ talked' = IF p = "serve" /\ pending[p] # Nothing THEN sid ELSE talked
      /\ UNCHANGED <<data, fd, mem, backed, sid, sessions, turns, starts, faults, raced, manual>>
  BY DEF Rename, Return
<1>2. AfterCall(p) \in {"ready", "down"}  BY DEF AfterCall
<1>3. /\ pc'[p] \in {"ready", "down"} /\ pending'[p] = Nothing /\ ~stale'[p]
      /\ \A q \in Procs : q # p => pc'[q] = pc[q] /\ pending'[q] = pending[q] /\ stale'[q]
  BY <1>1, <1>2 DEF TypeOK
<1>4. overwrote' \in BOOLEAN /\ (~overwrote' => ~overwrote /\ ~stale[p])
  <2>1. overwrote \in BOOLEAN /\ stale[p] \in BOOLEAN  BY DEF TypeOK
  <2>2. overwrote' \in BOOLEAN  BY <1>1, <2>1, Zenon
  <2>3. ~overwrote' => ~overwrote /\ ~stale[p]  BY <1>1, <2>1
  <2> QED  BY <2>2, <2>3
<1>5. TypeOK'
  <2>1. stale' \in [Procs -> BOOLEAN]
    <3>1. \A q \in Procs : (q # p) \in BOOLEAN  OBVIOUS
    <3> QED  BY <1>1, <3>1, Zenon
  <2>2. /\ pc' \in [Procs -> {"down", "ready", "create", "write", "rename"}]
        /\ pending' \in [Procs -> Facts \cup {Nothing}] /\ acked' \subseteq Facts
        /\ talked' \in 0..MaxSessions /\ target' \in Inodes \cup {None} /\ tmp' \in Inodes \cup {None}
    BY <1>1, <1>2 DEF TypeOK
  <2> QED  BY <1>1, <1>4, <2>1, <2>2 DEF TypeOK
<1>6. Descriptors'  BY <1>1, <1>3 DEF Descriptors
<1>7. PendingInv'  BY <1>1, <1>3 DEF PendingInv
<1>8. KnownInv'  BY <1>1 DEF KnownInv, Known
<1>9. ~raced => /\ data[tmp] = Whole(mem[p]) /\ \A q \in Procs : q # p => ~MidWrite(q)
  BY <1>1 DEF OneFlush, MidWrite
<1>10. OneFlush'
  <2> SUFFICES ASSUME ~raced'
               PROVE  /\ \A q, r \in Procs : MidWrite(q)' /\ MidWrite(r)' => q = r
                      /\ \A q \in Procs : pc'[q] = "write" => fd'[q] = tmp' /\ data'[tmp'] = Blank
                      /\ \A q \in Procs : pc'[q] = "rename" => tmp' # None /\ data'[tmp'] = Whole(mem'[q])
                      /\ target' # None => target' # tmp' /\ data'[target'].kind = "whole"
    BY DEF OneFlush
  <2>1. \A q \in Procs : pc'[q] \notin {"write", "rename"}  BY <1>1, <1>3, <1>9 DEF MidWrite
  <2>2. data'[target'].kind = "whole"  BY <1>1, <1>9, ContentTypes
  <2> QED  BY <1>1, <2>1, <2>2 DEF MidWrite
<1>11. KeptInv'
  <2> SUFFICES ASSUME ~raced, ~overwrote'
               PROVE  /\ Kept(Loaded)'
                      /\ \A q \in Procs : pc'[q] # "down" /\ ~stale'[q] => Kept(mem[q])'
    BY <1>1 DEF KeptInv
  <2>1. PICK facts : facts = mem[p]  OBVIOUS
  <2>2. Kept(facts)  BY <1>1, <1>4, <2>1 DEF KeptInv
  <2>3. Loaded' = facts
    <3>1. data'[target'] = Whole(facts) /\ target' # None  BY <1>1, <1>9, <2>1
    <3> QED  BY <3>1, ContentTypes DEF Loaded
  <2>4. Kept(facts)'
    <3>1. acked' \subseteq facts  BY <1>1, <2>1, <2>2 DEF Kept, PendingInv
    <3>2. talked' # None => SessionFact(talked') \in facts
      <4>1. CASE p = "serve"
        <5>1. SessionFact(sid) \in facts  BY <1>1, <2>1, <4>1 DEF ConversationContinues, Active
        <5> QED  BY <1>1, <2>2, <5>1 DEF Kept
      <4>2. CASE p # "serve"  BY <1>1, <2>2, <4>2 DEF Kept
      <4> QED  BY <4>1, <4>2
    <3> QED  BY <1>1, <2>2, <3>1, <3>2 DEF Kept
  <2>5. Kept(Loaded)'  BY <2>3, <2>4 DEF Kept
  <2>6. ASSUME NEW q \in Procs, ~stale'[q] PROVE Kept(mem[q])'
    <3>1. q = p /\ mem'[q] = facts  BY <1>1, <1>3, <2>1, <2>6
    <3> QED  BY <2>4, <3>1 DEF Kept
  <2> QED  BY <2>5, <2>6
<1>12. ConversationContinues'
  <2>1. pc'["serve"] # "down" => pc["serve"] # "down"  BY <1>1, <1>3 DEF Procs
  <2>2. overwrote => overwrote'  BY <1>1
  <2> QED  BY <1>1, <2>1, <2>2 DEF ConversationContinues, Active
<1> QED  BY <1>5, <1>6, <1>7, <1>8, <1>10, <1>11, <1>12

-----------------------------------------------------------------------------
(* The theorems *)

\* StoreInv holds in every reachable state.
THEOREM StoreInvariant == Spec => []StoreInv
<1>1. Init => StoreInv
  <2> SUFFICES ASSUME Init PROVE StoreInv  OBVIOUS
  <2> USE DEF Init
  <2>1. /\ MaxSessions \in Nat /\ MaxTurns \in Nat /\ MaxStarts \in Nat /\ MaxFaults \in Nat
    BY BoundsAssumption
  <2>2. TypeOK
    <3>1. data \in [Inodes -> Contents]  BY ContentTypes
    <3>2. /\ target \in Inodes \cup {None} /\ tmp \in Inodes \cup {None} /\ fd \in [Procs -> Inodes \cup {None}]
          /\ pc \in [Procs -> {"down", "ready", "create", "write", "rename"}]
          /\ mem \in [Procs -> SUBSET Facts] /\ pending \in [Procs -> Facts \cup {Nothing}]
      OBVIOUS
    <3>3. /\ backed \in [Procs -> BOOLEAN] /\ stale \in [Procs -> BOOLEAN]
          /\ raced \in BOOLEAN /\ overwrote \in BOOLEAN
      OBVIOUS
    <3>4. /\ sid \in 0..MaxSessions /\ talked \in 0..MaxSessions /\ sessions \in 0..MaxSessions
          /\ turns \in 0..MaxTurns /\ faults \in 0..MaxFaults /\ starts \in [Procs -> 0..MaxStarts]
      BY <2>1 DEF None
    <3>5. acked \subseteq Facts /\ manual \subseteq 1..MaxSessions  OBVIOUS
    <3> HIDE DEF Init
    <3> QED  BY <3>1, <3>2, <3>3, <3>4, <3>5 DEF TypeOK
  <2>3. Descriptors /\ PendingInv  BY DEF Descriptors, PendingInv
  <2>4. KnownInv  BY ContentTypes DEF KnownInv, Known
  <2>5. OneFlush  BY DEF OneFlush, MidWrite
  <2>6. KeptInv  BY DEF KeptInv, Kept, Loaded
  <2>7. ConversationContinues  BY DEF ConversationContinues, Procs
  <2> QED  BY <2>2, <2>3, <2>4, <2>5, <2>6, <2>7 DEF StoreInv
<1>2. StoreInv /\ [Next]_vars => StoreInv'
  <2> SUFFICES ASSUME StoreInv, [Next]_vars PROVE StoreInv'  OBVIOUS
  <2>1. CASE UNCHANGED vars
    BY <2>1 DEF vars, files, history, StoreInv, TypeOK, Descriptors, PendingInv, KnownInv, Known,
                OneFlush, MidWrite, KeptInv, Kept, Loaded, ConversationContinues, Active
  <2>2. CASE Next
    BY <2>2, ServeContinuesStep, ServeCreatesStep, CliOpensStep, CallSteps, CreateStep, WriteStep,
       RenameStep, EndSteps DEF Next
  <2> QED  BY <2>1, <2>2
<1> QED  BY <1>1, <1>2, PTL DEF Spec

\* The type invariant of the files, the copies and the descriptors.
THEOREM TypeCorrect == Spec => []TypeOK
<1>1. StoreInv => TypeOK  BY DEF StoreInv
<1> QED  BY <1>1, StoreInvariant, PTL

\* "A crash never leaves a corrupted file" (SessionStore::flush): wherever a
\* process stops or fails, the path names a file that parses, unless two flushes
\* of the shared .tmp overlapped.
THEOREM NeverCorrupted == Spec => []WholeUnlessRaced
<1>1. StoreInv => WholeUnlessRaced  BY LoadedFacts DEF WholeUnlessRaced
<1> QED  BY <1>1, StoreInvariant, PTL

\* What a call answered Ok for is in the file from then on, unless flushes
\* overlapped or a process rewrote the file from a copy it read before.
THEOREM AcknowledgedStays == Spec => []AckedKept
<1>1. StoreInv => AckedKept  BY DEF StoreInv, KeptInv, Kept, AckedKept
<1> QED  BY <1>1, StoreInvariant, PTL

\* A running `serve` has an active session, and it is the one it last recorded a
\* turn in unless the operator archived that one or made a newer one.
THEOREM SameConversation == Spec => []ConversationContinues
<1>1. StoreInv => ConversationContinues  BY DEF StoreInv
<1> QED  BY <1>1, StoreInvariant, PTL
=============================================================================

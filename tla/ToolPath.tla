------------------------------ MODULE ToolPath ------------------------------
(***************************************************************************)
(* A tool call's way through CachedToolRegistry (crates/tool-cache/src/    *)
(* lib.rs), ToolRegistry (crates/praxis/src/registry.rs) and the circuit   *)
(* breaker of its tool (circuit.rs), for several callers at once.          *)
(*                                                                         *)
(* A call takes the cache's lock, then the registry's, runs the driver     *)
(* with no lock held, takes the registry's lock again to record the        *)
(* outcome and the cache's to keep the answer: one action each.  An answer *)
(* is the tool, the payload and the driver it came from.  Time is a clock  *)
(* that ticks.                                                             *)
(***************************************************************************)
EXTENDS Integers, FiniteSets, FiniteSetsExt

CONSTANTS
    Callers,       \* threads that dispatch
    Tools,         \* tool ids
    Bypass,        \* CacheConfig::bypass_tools
    Payloads,
    Hash(_),       \* fnv1a_hash
    Threshold,     \* DEFAULT_OPEN_THRESHOLD
    Cooldown,      \* CircuitBreaker::cooldown
    Ttl,           \* CacheConfig::default_ttl_ms
    MaxEntries,    \* CacheConfig::max_entries
    MaxDrivers,    \* bound: drivers registered under one id
    MaxTime        \* bound: ticks of the clock

ASSUME PathAssumption ==
    /\ IsFiniteSet(Callers) /\ Callers # {}
    /\ Bypass \subseteq Tools
    /\ Threshold \in Nat \ {0}
    /\ {Cooldown, Ttl, MaxEntries, MaxDrivers, MaxTime} \subseteq Nat

VARIABLES
    now,
    driver,    \* the driver registered under each id
    breaker,   \* its circuit breaker
    cache,     \* ToolCacheInner::entries
    call,      \* the call each caller is in
    failures   \* history: failures recorded for a tool since its last success,
               \* its last probe or its registration

vars == <<now, driver, breaker, cache, call, failures>>

Never == -1
Healthy == [count |-> 0, state |-> "closed", last |-> Never]
Idle == [at |-> "idle"]
Key(t, p) == <<t, Hash(p)>>
Answers == [tool : Tools, payload : Payloads, driver : 1..MaxDrivers]

Init ==
    /\ now = 0
    /\ driver = [t \in Tools |-> 1]
    /\ breaker = [t \in Tools |-> Healthy]
    /\ cache = {}
    /\ call = [c \in Callers |-> Idle]
    /\ failures = [t \in Tools |-> 0]

At(c, place) == call[c].at = place
Goto(c, place) == call' = [call EXCEPT ![c].at = place]

-----------------------------------------------------------------------------
(* ToolCache *)

Expired(e) == now >= e.expires

\* Mutant: the hash alone decides.
HitByHash(t, p) == {e \in cache : e.key = Key(t, p) /\ ~Expired(e)}

\* ToolCacheInner::get: the entry under the key, if it is live and of this payload.
Hit(t, p) == {e \in cache : e.key = Key(t, p) /\ ~Expired(e) /\ e.answer.payload = p}

\* dispatch_with_outcome up to the lookup; an expired entry is dropped by it.
Lookup(c, t, p) ==
    /\ At(c, "idle")
    /\ LET hit == IF t \in Bypass THEN {} ELSE Hit(t, p)
       IN /\ call' = [call EXCEPT ![c] =
                        [at |-> IF hit = {} THEN "dispatch" ELSE "hit",
                         tool |-> t, payload |-> p, driver |-> 0,
                         got |-> {e.answer : e \in hit}]]
          /\ cache' = IF t \in Bypass
                      THEN cache
                      ELSE {e \in cache : e.key # Key(t, p) \/ ~Expired(e)}
    /\ UNCHANGED <<now, driver, breaker, failures>>

ReturnHit(c) ==
    /\ At(c, "hit")
    /\ call' = [call EXCEPT ![c] = Idle]
    /\ UNCHANGED <<now, driver, breaker, cache, failures>>

Entry(c) ==
    [key |-> Key(call[c].tool, call[c].payload), inserted |-> now, expires |-> now + Ttl,
     answer |-> [tool |-> call[c].tool, payload |-> call[c].payload, driver |-> call[c].driver]]

\* Mutant: the key is not looked for before an entry is displaced or added.
InsertBlindly(entry) == cache' = cache \cup {entry}

\* ToolCacheInner::insert: the oldest entry makes room for a new key.
Insert(entry) ==
    LET others == {e \in cache : e.key # entry.key}
    IN IF others = cache /\ cache # {} /\ Cardinality(cache) >= MaxEntries
       THEN \E oldest \in cache :
               /\ \A e \in cache : oldest.inserted <= e.inserted
               /\ cache' = (cache \ {oldest}) \cup {entry}
       ELSE cache' = others \cup {entry}

Keep(c) ==
    /\ At(c, "insert")
    /\ Insert(Entry(c))
    /\ call' = [call EXCEPT ![c] = Idle]
    /\ UNCHANGED <<now, driver, breaker, failures>>

EvictExpired ==
    /\ cache' = {e \in cache : ~Expired(e)}
    /\ UNCHANGED <<now, driver, breaker, call, failures>>

ClearCache ==
    /\ cache' = {}
    /\ UNCHANGED <<now, driver, breaker, call, failures>>

-----------------------------------------------------------------------------
(* ToolRegistry and CircuitBreaker *)

\* verify_pathway_health under the registry's lock.
Cooled(b) == b.last # Never /\ now - b.last > Cooldown

Admit(c) ==
    /\ At(c, "dispatch")
    /\ LET t == call[c].tool
           b == breaker[t]
       IN IF b.state # "open"
          THEN /\ call' = [call EXCEPT ![c].at = "running", ![c].driver = driver[t]]
               /\ UNCHANGED <<breaker, failures>>
          ELSE IF Cooled(b)
          THEN /\ call' = [call EXCEPT ![c].at = "running", ![c].driver = driver[t]]
               /\ breaker' = [breaker EXCEPT ![t].state = "halfopen"]
               /\ failures' = [failures EXCEPT ![t] = 0]
          ELSE /\ call' = [call EXCEPT ![c] = Idle]
               /\ UNCHANGED <<breaker, failures>>
    /\ UNCHANGED <<now, driver, cache>>

\* The driver answers and dispatch records it: record_success.
Succeed(c) ==
    /\ At(c, "running")
    /\ LET t == call[c].tool
       IN /\ breaker' = [breaker EXCEPT ![t].count = 0,
                           ![t].state = IF @ = "halfopen" THEN "closed" ELSE @]
          /\ failures' = [failures EXCEPT ![t] = 0]
          /\ IF t \in Bypass THEN call' = [call EXCEPT ![c] = Idle] ELSE Goto(c, "insert")
    /\ UNCHANGED <<now, driver, cache>>

\* Mutant: the breaker opens past its threshold.
RecordFailureLate(b) ==
    [count |-> b.count + 1, last |-> now,
     state |-> IF b.count + 1 > Threshold THEN "open" ELSE b.state]

\* record_failure.
RecordFailure(b) ==
    [count |-> b.count + 1, last |-> now,
     state |-> IF b.count + 1 >= Threshold THEN "open" ELSE b.state]

\* ... or fails, and dispatch records that in the breaker it finds by then.
Fail(c) ==
    /\ At(c, "running")
    /\ LET t == call[c].tool
       IN /\ breaker' = [breaker EXCEPT ![t] = RecordFailure(@)]
          /\ failures' = [failures EXCEPT ![t] = @ + 1]
    /\ call' = [call EXCEPT ![c] = Idle]
    /\ UNCHANGED <<now, driver, cache>>

\* register: another driver under the same id, with a breaker of its own.
Register(t) ==
    /\ driver[t] < MaxDrivers
    /\ driver' = [driver EXCEPT ![t] = @ + 1]
    /\ breaker' = [breaker EXCEPT ![t] = Healthy]
    /\ failures' = [failures EXCEPT ![t] = 0]
    /\ UNCHANGED <<now, cache, call>>

Tick ==
    /\ now < MaxTime
    /\ now' = now + 1
    /\ UNCHANGED <<driver, breaker, cache, call, failures>>

Next ==
    \/ \E c \in Callers, t \in Tools, p \in Payloads : Lookup(c, t, p)
    \/ \E c \in Callers : ReturnHit(c) \/ Admit(c) \/ Succeed(c) \/ Fail(c) \/ Keep(c)
    \/ EvictExpired
    \/ ClearCache
    \/ \E t \in Tools : Register(t)
    \/ Tick

Spec == Init /\ [][Next]_vars

-----------------------------------------------------------------------------
(* Properties *)

\* One entry per key, none for a bypassed tool, and never more entries than the
\* configured number (one, where that number is zero), whatever callers insert
\* at the same time.
CacheSound ==
    /\ \A e, f \in cache : e.key = f.key => e = f
    /\ \A e \in cache : e.answer.tool \notin Bypass /\ e.key = Key(e.answer.tool, e.answer.payload)
    /\ Cardinality(cache) <= Max({MaxEntries, 1})

\* "an FNV-1a collision must never return a different payload's response"
\* (CacheEntry): what a caller is given from the cache answers its own request,
\* by a driver that was registered under the tool's id.
HitAnswersRequest ==
    \A c \in Callers : At(c, "hit") =>
        \A a \in call[c].got :
            /\ a.tool = call[c].tool /\ a.payload = call[c].payload
            /\ a.driver \in 1..driver[a.tool]

\* A breaker that counted its threshold of failures with no success is not
\* closed, and while no probe is let through, a tool that only fails is run at
\* most Threshold + callers - 1 times: calls under way when the breaker opens
\* are the only ones past the threshold.
FailuresContained ==
    \A t \in Tools :
        /\ breaker[t].count >= Threshold => breaker[t].state # "closed"
        /\ failures[t] <= Threshold + Cardinality(Callers) - 1
=============================================================================

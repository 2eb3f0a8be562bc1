--------------------------- MODULE AuditLogProofs ---------------------------
(***************************************************************************)
(* For any number of handles, entries, restarts and failed writes and      *)
(* every ring size: no recorded MAC commits to an entry that is not in the *)
(* log.  For one handle, whatever the restarts and failures: a log that    *)
(* nothing disturbed verifies, reading the log back loses at most one      *)
(* entry per restart, and what the ring dropped can be read back.          *)
(***************************************************************************)
EXTENDS AuditLog, SequenceTheorems, FiniteSetTheorems, WellFoundedInduction, TLAPS

\* A list of entries that a MAC may commit to: written, and in push order.
Chained(mac) ==
    /\ \A j \in DOMAIN mac : mac[j] \in persisted
    /\ \A j \in 1..(Len(mac) - 1) : mac[j] < mac[j + 1]

\* Entries are numbered by their pushes; a push extends the chain only by an
\* entry that is in the file.
EntryInv ==
    /\ persisted \subseteq 1..pushes /\ opened <= pushes
    /\ \A h \in Handles : pc[h] # "idle" => cur[h] \in 1..pushes
    /\ \A h \in Handles : pc[h] \in {"mac", "macnewline"} => cur[h] \in persisted

\* Every chain, recorded or about to be extended, is of written entries, and the
\* entry that extends it is the newest.
ChainInv ==
    /\ \A h \in Handles : Chained(prev[h])
    /\ \A h \in Handles : pc[h] # "idle" => \A j \in DOMAIN prev[h] : prev[h][j] < cur[h]
    /\ SidecarWithinLog

\* Each place of the ring behind an entry stands for a later push.
Pushing(e) == \E h \in Handles : pc[h] # "idle" /\ cur[h] = e
Remembered(e) == \E h \in Handles : \E i \in DOMAIN entries[h] : entries[h][i] = e
RingInv ==
    /\ \A h \in Handles : \A k \in DOMAIN entries[h] :
          /\ entries[h][k] + (Len(entries[h]) - k) <= pushes
          /\ pc[h] # "idle" => entries[h][k] + (Len(entries[h]) - k) < cur[h]
    /\ \A e \in (opened + 1)..pushes :
          Pushing(e) \/ Remembered(e) \/ (MaxInMemory > 0 /\ pushes - e >= MaxInMemory)

\* What holds for any number of handles.
LogInv == TypeOK /\ EntryInv /\ ChainInv /\ RingInv

\* The line that no newline has ended, and the entries on lines of their own.
OpenLine == file[Len(file)]
Complete == {e \in 1..pushes : \E i \in 1..(Len(file) - 1) : file[i] = <<e>>}
Lost == persisted \ Complete

\* The open line holds text of an earlier push that this handle's next newline
\* will end together with its own.
Spoiled(h) ==
    IF pc[h] = "idle" THEN ~failed[h] /\ OpenLine # <<>>
                      ELSE pc[h] = "newline" /\ OpenLine # <<cur[h]>>

\* An entry is lost only to a restart, and is then the first of its process.
DiskInv(h) ==
    /\ Cardinality(Lost) <= restarts
    /\ Spoiled(h) => Cardinality(Lost) < restarts /\ \A d \in persisted : d <= opened
    /\ pc[h] = "newline" => \A d \in persisted : d < cur[h]
    /\ pc[h] \in {"mac", "macnewline"} => OpenLine = <<>>
    /\ \A e \in Lost : e <= opened \/ (restarts > 0 /\ \A d \in persisted : d <= opened \/ e <= d)

\* The first n entries of the file.
Prefix(n) == [j \in 1..n |-> file[j][1]]

\* A log no write and no restart disturbed: one entry per line, one MAC per
\* line of the prefix it ends, and the handle's chain is the last of them.
QuietInv(h) ==
    clean =>
        /\ \A i \in 1..(Len(file) - 1) : Len(file[i]) = 1
        /\ \A i \in 1..(Len(side) - 1) : side[i] = << Prefix(i) >>
        /\ prev[h] = Prefix(Len(side) - 1)
        /\ Len(file) = IF pc[h] \in {"mac", "macnewline"} THEN Len(side) + 1 ELSE Len(side)
        /\ pc[h] \in {"mac", "macnewline"} => file[Len(side)] = <<cur[h]>>
        /\ OpenLine = IF pc[h] = "newline" THEN <<cur[h]>> ELSE <<>>
        /\ side[Len(side)] = IF pc[h] = "macnewline" THEN << Append(prev[h], cur[h]) >> ELSE <<>>

\* What holds in addition for one handle.
OneHandleInv(h) == LogInv /\ DiskInv(h) /\ QuietInv(h)

-----------------------------------------------------------------------------
(* Files and the ring *)

\* Writing a text changes the open line and no other.
LEMMA TextWritten ==
    ASSUME NEW S, NEW f \in Seq(Seq(S)), Len(f) > 0, NEW x \in S
    PROVE  LET g == WriteText(f, x)
           IN  /\ g \in Seq(Seq(S)) /\ Len(g) = Len(f)
               /\ \A i \in 1..(Len(f) - 1) : g[i] = f[i]
               /\ g[Len(f)] = Append(f[Len(f)], x)
<1> DEFINE n == Len(f)
           line == Append(f[n], x)
<1>1. n \in Nat /\ n \in 1..n  OBVIOUS
<1>2. f[n] \in Seq(S)  BY <1>1, ElementOfSeq
<1>3. line \in Seq(S)  BY <1>2
<1>4. WriteText(f, x) = [f EXCEPT ![n] = line]  BY DEF WriteText
<1> HIDE DEF line
<1>5. /\ [f EXCEPT ![n] = line] \in Seq(Seq(S)) /\ Len([f EXCEPT ![n] = line]) = n
      /\ \A j \in 1..n : [f EXCEPT ![n] = line][j] = IF j = n THEN line ELSE f[j]
  BY <1>1, <1>3, ExceptSeq
<1>6. \A i \in 1..(n - 1) : i \in 1..n /\ i # n  BY <1>1
<1> QED  BY <1>1, <1>4, <1>5, <1>6 DEF line

\* Writing a newline ends the open line and opens an empty one.
LEMMA NewlineWritten ==
    ASSUME NEW S, NEW f \in Seq(Seq(S))
    PROVE  LET g == WriteNewline(f)
           IN  /\ g \in Seq(Seq(S)) /\ Len(g) = Len(f) + 1 /\ Len(g) > 0
               /\ \A i \in 1..Len(f) : g[i] = f[i]
               /\ g[Len(f) + 1] = <<>>
<1>1. <<>> \in Seq(S)  BY EmptySeq
<1> QED  BY <1>1 DEF WriteNewline

\* What push leaves in the ring: its entry last, and before it what is not
\* drained, in the places it had, o places further to the front.
Drained(old, new, e, o) ==
    /\ o \in 0..Len(old) /\ Len(new) = Len(old) + 1 - o
    /\ \A k \in 1..Len(new) : new[k] = IF k + o = Len(old) + 1 THEN e ELSE old[k + o]
    /\ o > 0 => MaxInMemory > 0 /\ o = Len(old) + 1 - MaxInMemory

\* The drain of AuditLog::push takes only what is over the cap, from the front.
LEMMA RingAfterPush ==
    ASSUME entries \in [Handles -> Seq(Nat)], NEW h \in Handles, NEW e \in Nat, Remember(h, e)
    PROVE  /\ entries' \in [Handles -> Seq(Nat)]
           /\ \A g \in Handles : g # h => entries'[g] = entries[g]
           /\ \E o \in Nat : Drained(entries[h], entries'[h], e, o)
<1> DEFINE old == entries[h]
           grown == Append(old, e)
           slack == Max({MaxInMemory \div 8, 1})
           o == IF MaxInMemory > 0 /\ Len(grown) >= MaxInMemory + slack
                THEN Len(grown) - MaxInMemory
                ELSE 0
           new == SubSeq(grown, o + 1, Len(grown))
<1>1. MaxInMemory \in Nat  BY BoundsAssumption
<1>2. slack \in Nat
  <2> DEFINE m == MaxInMemory \div 8
  <2>1. m \in Nat  BY <1>1
  <2> HIDE DEF m
  <2>2. \E x \in {m, 1} : \A y \in {m, 1} : x >= y  BY <2>1
  <2>3. Max({m, 1}) \in {m, 1}  BY <2>2 DEF Max
  <2> QED  BY <2>1, <2>3 DEF m
<1>3. /\ old \in Seq(Nat) /\ grown \in Seq(Nat) /\ Len(grown) = Len(old) + 1 /\ Len(old) \in Nat
      /\ \A k \in 1..Len(old) : grown[k] = old[k]
      /\ grown[Len(old) + 1] = e
  OBVIOUS
<1>4. entries' = [entries EXCEPT ![h] = new]  BY DEF Remember
<1> HIDE DEF grown, slack, old
<1>5. /\ o \in 0..Len(old)
      /\ o > 0 => MaxInMemory > 0 /\ o = Len(old) + 1 - MaxInMemory
  BY <1>1, <1>2, <1>3
<1> HIDE DEF o
<1>6. \A k \in (o + 1)..Len(grown) : grown[k] \in Nat
  <2>1. \A k \in (o + 1)..Len(grown) : k \in 1..Len(grown)  BY <1>3, <1>5
  <2> QED  BY <1>3, <2>1, ElementOfSeq
<1>7. /\ new \in Seq(Nat)
      /\ Len(new) = IF o + 1 <= Len(grown) THEN Len(grown) - (o + 1) + 1 ELSE 0
      /\ \A k \in 1..(Len(grown) - (o + 1) + 1) : new[k] = grown[(o + 1) + k - 1]
  <2>1. o + 1 \in Int /\ Len(grown) \in Int  BY <1>3, <1>5
  <2> QED  BY <1>6, <2>1, SubSeqProperties
<1> HIDE DEF new
<1>8. Len(new) = Len(old) + 1 - o  BY <1>3, <1>5, <1>7
<1>9. ASSUME NEW k \in 1..Len(new)
      PROVE  new[k] = IF k + o = Len(old) + 1 THEN e ELSE old[k + o]
  <2>1. k \in 1..(Len(grown) - (o + 1) + 1) /\ (o + 1) + k - 1 = k + o
    BY <1>3, <1>5, <1>8
  <2>2. new[k] = grown[k + o]  BY <1>7, <2>1
  <2>3. k + o \in 1..Len(old) \/ k + o = Len(old) + 1  BY <1>3, <1>5, <1>8
  <2>4. k + o \in 1..Len(old) => k + o # Len(old) + 1  BY <1>3, <1>5
  <2> QED  BY <1>3, <2>2, <2>3, <2>4
<1>10. entries'[h] = new  BY <1>4
<1>11. Drained(old, new, e, o)  BY <1>5, <1>8, <1>9 DEF Drained
<1> QED  BY <1>4, <1>5, <1>7, <1>10, <1>11 DEF old

\* The largest of a set of line numbers is one of them.
LEMMA LargestLine ==
    ASSUME NEW n \in Nat, NEW S \in SUBSET (1..n), S # {}
    PROVE  Max(S) \in S /\ \A s \in S : s <= Max(S)
<1> DEFINE T == {n - s : s \in S}
           R == OpToRel(<, Nat)
<1>1. \A s \in S : s \in Nat /\ s <= n /\ n - s \in Nat  OBVIOUS
<1>2. T \subseteq Nat /\ T # {}  BY <1>1
<1>3. IsWellFoundedOn(R, Nat)  BY NatLessThanWellFounded
<1>4. PICK x \in T : \A y \in T : ~(<<y, x>> \in R)
  <2> HIDE DEF T, R
  <2> QED  BY <1>2, <1>3, WFMin
<1>5. \A y \in T : ~(y < x)  BY <1>2, <1>4 DEF OpToRel
<1>6. PICK m \in S : x = n - m  OBVIOUS
<1>7. \A s \in S : m >= s
  <2> SUFFICES ASSUME NEW s \in S PROVE m >= s  OBVIOUS
  <2>1. n - s \in T  OBVIOUS
  <2>2. ~(n - s < n - m)  BY <1>5, <1>6, <2>1
  <2>3. m \in Nat /\ s \in Nat /\ n \in Nat  BY <1>1
  <2> HIDE DEF T, R
  <2> QED  BY <2>2, <2>3
<1>8. Max(S) \in S /\ \A s \in S : Max(S) >= s
  BY <1>7 DEF Max
<1> QED  BY <1>1, <1>8

\* read_last_chain_mac: the MAC on the last line written, when that line is one
\* MAC, and else the start of a chain.
LEMMA LastMacRead ==
    ASSUME NEW s \in Seq(Seq(Seq(Nat)))
    PROVE  LET mac == ReadLastChainMac(s)
           IN  /\ mac \in Seq(Nat)
               /\ \/ mac = Genesis
                  \/ \E i \in 1..Len(s) : 1 \in 1..Len(s[i]) /\ mac = s[i][1] /\ mac # TornMac
               /\ \A n \in 1..Len(s) :
                     /\ s[n] # <<>> /\ Len(s[n]) = 1 /\ s[n][1] # TornMac
                     /\ \A i \in 1..Len(s) : s[i] # <<>> => i <= n
                     => mac = s[n][1]
               /\ (\A i \in 1..Len(s) : s[i] = <<>>) => mac = Genesis
<1> DEFINE written == {i \in 1..Len(s) : s[i] # <<>>}
           m == Max(written)
           last == s[m]
           mac == ReadLastChainMac(s)
<1>1. Len(s) \in Nat /\ DOMAIN s = 1..Len(s) /\ written \in SUBSET (1..Len(s))  OBVIOUS
<1>2. mac = IF written = {} \/ Len(last) # 1 \/ last = <<TornMac>> THEN Genesis ELSE last[1]
  BY <1>1 DEF ReadLastChainMac
<1>3. written # {} => m \in written /\ \A i \in written : i <= m
  <2> HIDE DEF written
  <2> QED  BY <1>1, LargestLine
<1>4. Genesis \in Seq(Nat)  BY DEF Genesis
<1> HIDE DEF m, mac
<1>5. ASSUME written # {}, Len(last) = 1, last # <<TornMac>>
      PROVE  m \in 1..Len(s) /\ mac = last[1] /\ mac \in Seq(Nat) /\ mac # TornMac
  <2>1. m \in 1..Len(s)  BY <1>3, <1>5
  <2>2. last \in Seq(Seq(Nat))  BY <2>1
  <2>3. last[1] \in Seq(Nat)  BY <1>5, <2>2
  <2>4. last = <<last[1]>>  BY <1>5, <2>2
  <2>5. mac = last[1]  BY <1>2, <1>5
  <2> QED  BY <1>5, <2>1, <2>3, <2>4, <2>5
<1>6. \/ mac = Genesis
      \/ \E i \in 1..Len(s) : 1 \in 1..Len(s[i]) /\ mac = s[i][1] /\ mac # TornMac
  <2>1. CASE written = {} \/ Len(last) # 1 \/ last = <<TornMac>>  BY <1>2, <2>1
  <2>2. CASE written # {} /\ Len(last) = 1 /\ last # <<TornMac>>
    <3>1. m \in 1..Len(s) /\ mac = s[m][1] /\ mac # TornMac  BY <1>5, <2>2
    <3>2. 1 \in 1..Len(s[m])  BY <2>2
    <3> QED  BY <3>1, <3>2
  <2> QED  BY <2>1, <2>2
<1>7. ASSUME NEW n \in 1..Len(s), s[n] # <<>>, Len(s[n]) = 1, s[n][1] # TornMac,
             \A i \in 1..Len(s) : s[i] # <<>> => i <= n
      PROVE  mac = s[n][1]
  <2>1. n \in written  BY <1>7
  <2>2. m \in written  BY <1>3, <2>1
  <2>3. m \in 1..Len(s) /\ s[m] # <<>>  BY <2>2
  <2>4. n <= m  BY <1>3, <2>1
  <2>5. m <= n  BY <1>7, <2>3
  <2>6. m = n  BY <1>1, <2>3, <2>4, <2>5
  <2>7. last # <<TornMac>>  BY <1>7, <2>6
  <2> QED  BY <1>2, <1>7, <2>1, <2>6, <2>7
<1>8. ASSUME \A i \in 1..Len(s) : s[i] = <<>> PROVE mac = Genesis
  BY <1>2, <1>8
<1> QED  BY <1>2, <1>4, <1>5, <1>6, <1>7, <1>8 DEF mac

-----------------------------------------------------------------------------
(* What holds for any number of handles: LogInv *)

\* The types are kept by every write, failure and restart.
LEMMA TypeStep ==
    ASSUME TypeOK, [Next]_vars
    PROVE  TypeOK'
<1> USE DEF TypeOK
<1>1. pushes + 1 \in Nat /\ Torn \in Nat /\ TornMac \in Seq(Nat)  BY DEF Torn, TornMac
<1>2. \A x \in Nat : WriteText(file, x) \in Seq(Seq(Nat)) /\ Len(WriteText(file, x)) > 0
  BY TextWritten
<1>3. WriteNewline(file) \in Seq(Seq(Nat)) /\ Len(WriteNewline(file)) > 0  BY NewlineWritten
<1>4. \A x \in Seq(Nat) : WriteText(side, x) \in Seq(Seq(Seq(Nat))) /\ Len(WriteText(side, x)) > 0
  BY TextWritten
<1>5. WriteNewline(side) \in Seq(Seq(Seq(Nat))) /\ Len(WriteNewline(side)) > 0
  BY NewlineWritten
<1>6. ASSUME NEW h \in Handles, NEW e \in Nat, Remember(h, e)
      PROVE  entries' \in [Handles -> Seq(Nat)]
  BY <1>6, RingAfterPush
<1>7. ASSUME NEW h \in Handles, SinkFails(h)
      PROVE  /\ pc' \in [Handles -> {"idle", "newline", "mac", "macnewline"}]
             /\ failed' \in [Handles -> BOOLEAN] /\ clean' \in BOOLEAN
             /\ prev' \in [Handles -> Seq(Nat)] /\ restarts' \in Nat /\ faults' \in Nat
             /\ persisted' \subseteq Nat /\ opened' \in Nat
  <2>1. clean' \in BOOLEAN  BY <1>7, Zenon DEF SinkFails
  <2>2. failed' \in [Handles -> BOOLEAN]
    <3>1. failed' = [failed EXCEPT ![h] = TRUE]  BY <1>7 DEF SinkFails
    <3> QED  BY <3>1
  <2>3. pc' \in [Handles -> {"idle", "newline", "mac", "macnewline"}]
    <3>1. pc' = [pc EXCEPT ![h] = "idle"]  BY <1>7 DEF SinkFails
    <3> QED  BY <3>1
  <2> QED  BY <1>7, <2>1, <2>2, <2>3 DEF SinkFails
<1>8. ASSUME NEW h \in Handles, PushInMemory(h) PROVE TypeOK'
  BY <1>1, <1>6, <1>8 DEF PushInMemory, sinks, history
<1>9. ASSUME NEW h \in Handles, PushLine(h) PROVE TypeOK'
  BY <1>1, <1>2, <1>9 DEF PushLine, history
<1>10. ASSUME NEW h \in Handles, PushNewline(h) PROVE TypeOK'
  BY <1>3, <1>10 DEF PushNewline
<1>11. ASSUME NEW h \in Handles, ExtendChain(h) PROVE TypeOK'
  <2>1. Append(prev[h], cur[h]) \in Seq(Nat)  OBVIOUS
  <2> QED  BY <1>4, <1>11, <2>1 DEF ExtendChain, history
<1>12. ASSUME NEW h \in Handles, ChainExtended(h) PROVE TypeOK'
  <2>1. Append(prev[h], cur[h]) \in Seq(Nat)  OBVIOUS
  <2> QED  BY <1>5, <1>6, <1>12, <2>1 DEF ChainExtended, history
<1>13. ASSUME NEW h \in Handles, LineFails(h) PROVE TypeOK'
  <2>1. entries' \in [Handles -> Seq(Nat)]  BY <1>1, <1>6, <1>13 DEF LineFails
  <2>2. file' = file \/ file' = WriteText(file, Torn)  BY <1>13 DEF LineFails, FailedWrites
  <2>3. file' \in Seq(Seq(Nat)) /\ Len(file') > 0  BY <1>1, <1>2, <2>2
  <2>4. UNCHANGED <<side, cur>> /\ pushes' \in Nat  BY <1>1, <1>13 DEF LineFails
  <2> QED  BY <1>7, <1>13, <2>1, <2>3, <2>4 DEF LineFails
<1>14. ASSUME NEW h \in Handles, NewlineFails(h) PROVE TypeOK'
  <2>1. entries' \in [Handles -> Seq(Nat)]  BY <1>6, <1>14 DEF NewlineFails
  <2> QED  BY <1>7, <1>14, <2>1 DEF NewlineFails
<1>15. ASSUME NEW h \in Handles, MacFails(h) PROVE TypeOK'
  <2>1. side' = side \/ side' = WriteText(side, TornMac)  BY <1>15 DEF MacFails, FailedWrites
  <2>2. side' \in Seq(Seq(Seq(Nat))) /\ Len(side') > 0  BY <1>1, <1>4, <2>1
  <2>3. entries' \in [Handles -> Seq(Nat)]  BY <1>6, <1>15 DEF MacFails
  <2>4. UNCHANGED <<file, cur, pushes>>  BY <1>15 DEF MacFails
  <2> QED  BY <1>7, <1>15, <2>2, <2>3, <2>4 DEF MacFails
<1>16. CASE Restart
  <2>1. ReadLastChainMac(side) \in Seq(Nat)  BY LastMacRead
  <2>2. <<>> \in Seq(Nat)  OBVIOUS
  <2>3. clean' \in BOOLEAN  BY <1>16, Zenon DEF Restart
  <2> QED  BY <1>16, <2>1, <2>2, <2>3 DEF Restart
<1>17. CASE UNCHANGED vars  BY <1>17 DEF vars
<1> QED
  BY <1>8, <1>9, <1>10, <1>11, <1>12, <1>13, <1>14, <1>15, <1>16, <1>17 DEF Next

\* Entries are numbered in push order, and a chain is extended by written ones.
LEMMA EntryStep ==
    ASSUME TypeOK, EntryInv, [Next]_vars
    PROVE  EntryInv'
<1> USE DEF TypeOK, EntryInv
<1>1. ASSUME NEW h \in Handles, PushInMemory(h) PROVE EntryInv'
  BY <1>1 DEF PushInMemory, history
<1>2. ASSUME NEW h \in Handles, PushLine(h) PROVE EntryInv'
  BY <1>2 DEF PushLine, history
<1>3. ASSUME NEW h \in Handles, PushNewline(h) PROVE EntryInv'
  BY <1>3 DEF PushNewline
<1>4. ASSUME NEW h \in Handles, ExtendChain(h) PROVE EntryInv'
  BY <1>4 DEF ExtendChain, history
<1>5. ASSUME NEW h \in Handles, ChainExtended(h) PROVE EntryInv'
  BY <1>5 DEF ChainExtended, history
<1>6. ASSUME NEW h \in Handles, LineFails(h) PROVE EntryInv'
  BY <1>6 DEF LineFails, SinkFails
<1>7. ASSUME NEW h \in Handles, NewlineFails(h) \/ MacFails(h) PROVE EntryInv'
  BY <1>7 DEF NewlineFails, MacFails, SinkFails
<1>8. CASE Restart  BY <1>8 DEF Restart
<1>9. CASE UNCHANGED vars  BY <1>9 DEF vars
<1> QED  BY <1>1, <1>2, <1>3, <1>4, <1>5, <1>6, <1>7, <1>8, <1>9 DEF Next

\* The sidecar's property survives a text that is torn or a chain of written
\* entries.
LEMMA SidecarText ==
    ASSUME TypeOK, SidecarWithinLog, persisted' = persisted,
           NEW mac \in Seq(Nat), mac = TornMac \/ Chained(mac), side' = WriteText(side, mac)
    PROVE  SidecarWithinLog'
<1> DEFINE n == Len(side)
           line == side[n]
           new == WriteText(side, mac)
<1>1. side \in Seq(Seq(Seq(Nat))) /\ n \in Nat /\ n > 0  BY DEF TypeOK
<1>2. line \in Seq(Seq(Nat))  BY <1>1
<1>3. /\ new \in Seq(Seq(Seq(Nat))) /\ Len(new) = n
      /\ \A i \in 1..(n - 1) : new[i] = side[i]
      /\ new[n] = Append(line, mac)
  BY <1>1, TextWritten
<1> HIDE DEF new
<1>4. ASSUME NEW i \in 1..n, NEW k \in 1..Len(new[i])
      PROVE  (k \in 1..Len(side[i]) /\ new[i][k] = side[i][k]) \/ new[i][k] = mac
  <2>1. CASE i # n
    <3>1. i \in 1..(n - 1)  BY <1>1, <2>1
    <3> QED  BY <1>3, <3>1
  <2>2. CASE i = n
    <3> DEFINE m == Len(line)
    <3>1. /\ m \in Nat /\ Len(Append(line, mac)) = m + 1 /\ Append(line, mac)[m + 1] = mac
          /\ \A j \in 1..m : Append(line, mac)[j] = line[j]
      BY <1>2
    <3>2. k \in 1..(m + 1) /\ new[i] = Append(line, mac) /\ side[i] = line  BY <1>3, <2>2, <3>1
    <3> HIDE DEF m, line
    <3>3. k \in 1..m \/ k = m + 1  BY <3>1, <3>2
    <3> QED  BY <3>1, <3>2, <3>3 DEF m
  <2> QED  BY <2>1, <2>2
<1>5. ASSUME NEW i \in 1..n, NEW k \in 1..Len(new[i]), new[i][k] # TornMac
      PROVE  Chained(new[i][k])
  <2>1. CASE new[i][k] = mac  BY <1>5, <2>1
  <2>2. CASE k \in 1..Len(side[i]) /\ new[i][k] = side[i][k]
    <3>1. k \in DOMAIN side[i] /\ i \in DOMAIN side  BY <1>1, <2>2
    <3> QED  BY <1>5, <2>2, <3>1 DEF SidecarWithinLog, Chained
  <2> QED  BY <1>4, <2>1, <2>2
<1>6. \A i \in DOMAIN new : i \in 1..n /\ DOMAIN new[i] = 1..Len(new[i])  BY <1>3
<1>7. side' = new  BY DEF new
<1> QED  BY <1>5, <1>6, <1>7 DEF SidecarWithinLog, Chained

\* ... and a newline.
LEMMA SidecarNewline ==
    ASSUME TypeOK, SidecarWithinLog, persisted' = persisted, side' = WriteNewline(side)
    PROVE  SidecarWithinLog'
<1> DEFINE n == Len(side)
           new == WriteNewline(side)
<1>1. side \in Seq(Seq(Seq(Nat))) /\ n \in Nat  BY DEF TypeOK
<1>2. /\ new \in Seq(Seq(Seq(Nat))) /\ Len(new) = n + 1
      /\ \A i \in 1..n : new[i] = side[i]
      /\ new[n + 1] = <<>>
  BY <1>1, NewlineWritten
<1>3. side' = new  OBVIOUS
<1> HIDE DEF new
<1>4. \A i \in DOMAIN new : i \in 1..n \/ (i = n + 1 /\ DOMAIN new[i] = {})  BY <1>1, <1>2
<1>5. \A i \in 1..n : i \in DOMAIN side  BY <1>1
<1> QED  BY <1>2, <1>3, <1>4, <1>5 DEF SidecarWithinLog

\* Extending a chain of written entries by a newer written one.
LEMMA ChainGrows ==
    ASSUME NEW mac \in Seq(Nat), Chained(mac), NEW e \in Nat, e \in persisted,
           \A j \in DOMAIN mac : mac[j] < e
    PROVE  Chained(Append(mac, e))
<1> DEFINE new == Append(mac, e)
           n == Len(mac)
<1>1. /\ n \in Nat /\ Len(new) = n + 1 /\ new[n + 1] = e /\ DOMAIN new = 1..(n + 1)
      /\ DOMAIN mac = 1..n /\ \A j \in 1..n : new[j] = mac[j]
  OBVIOUS
<1> HIDE DEF new, n
<1>2. \A j \in DOMAIN new : j \in 1..n \/ j = n + 1  BY <1>1
<1>3. \A j \in DOMAIN new : new[j] \in persisted  BY <1>1, <1>2 DEF Chained
<1>4. ASSUME NEW j \in 1..(Len(new) - 1) PROVE new[j] < new[j + 1]
  <2>1. j \in 1..n /\ (j = n \/ (j \in 1..(n - 1) /\ j + 1 \in 1..n))  BY <1>1
  <2>2. CASE j = n  BY <1>1, <2>1, <2>2
  <2>3. CASE j \in 1..(n - 1) /\ j + 1 \in 1..n  BY <1>1, <2>1, <2>3 DEF Chained, n
  <2> QED  BY <2>1, <2>2, <2>3
<1> QED  BY <1>3, <1>4 DEF Chained, new

\* A step that leaves the sidecar and the chains alone.
LEMMA ChainKept ==
    ASSUME ChainInv, persisted \subseteq persisted', side' = side, prev' = prev,
           \A h \in Handles : pc'[h] # "idle" =>
               \/ pc[h] # "idle" /\ cur'[h] = cur[h]
               \/ \A j \in DOMAIN prev[h] : prev[h][j] < cur'[h]
    PROVE  ChainInv'
<1>1. \A h \in Handles : Chained(prev[h])'  BY DEF ChainInv, Chained
<1>2. SidecarWithinLog'  BY DEF ChainInv, SidecarWithinLog
<1>3. \A h \in Handles : pc'[h] # "idle" => \A j \in DOMAIN prev'[h] : prev'[h][j] < cur'[h]
  BY DEF ChainInv
<1> QED  BY <1>1, <1>2, <1>3 DEF ChainInv

\* Every MAC, on disk or in a handle, commits to written entries in order.
LEMMA ChainStep ==
    ASSUME TypeOK, EntryInv, ChainInv, [Next]_vars
    PROVE  ChainInv'
<1>1. ASSUME NEW h \in Handles, PushInMemory(h) PROVE ChainInv'
  BY <1>1, ChainKept DEF PushInMemory, sinks, history
<1>2. ASSUME NEW h \in Handles, PushLine(h) PROVE ChainInv'
  <2>1. \A j \in DOMAIN prev[h] : prev[h][j] < pushes + 1
    <3>1. \A j \in DOMAIN prev[h] : prev[h][j] \in 1..pushes  BY DEF ChainInv, Chained, EntryInv
    <3> QED  BY <3>1 DEF TypeOK
  <2>2. \A g \in Handles : pc'[g] # "idle" =>
               \/ pc[g] # "idle" /\ cur'[g] = cur[g]
               \/ \A j \in DOMAIN prev[g] : prev[g][j] < cur'[g]
    BY <1>2, <2>1 DEF PushLine, TypeOK
  <2> QED  BY <1>2, <2>2, ChainKept DEF PushLine, history
<1>3. ASSUME NEW h \in Handles, PushNewline(h) PROVE ChainInv'
  <2>1. \A g \in Handles : pc'[g] # "idle" => pc[g] # "idle" /\ cur'[g] = cur[g]
    BY <1>3 DEF PushNewline, TypeOK
  <2> QED  BY <1>3, <2>1, ChainKept DEF PushNewline
<1>4. ASSUME NEW h \in Handles, ExtendChain(h) PROVE ChainInv'
  <2> DEFINE mac == Append(prev[h], cur[h])
  <2>1. mac \in Seq(Nat) /\ side' = WriteText(side, mac) /\ UNCHANGED <<prev, cur, persisted>>
    BY <1>4 DEF ExtendChain, TypeOK, history
  <2>2. Chained(mac)
    BY <1>4, ChainGrows DEF ExtendChain, TypeOK, ChainInv, EntryInv
  <2>3. SidecarWithinLog'
    <3> HIDE DEF mac
    <3> QED  BY <2>1, <2>2, SidecarText DEF ChainInv
  <2>4. \A g \in Handles : pc'[g] # "idle" => pc[g] # "idle"
    BY <1>4 DEF ExtendChain, TypeOK
  <2>5. \A g \in Handles : Chained(prev[g])'  BY <2>1 DEF ChainInv, Chained
  <2> QED  BY <2>1, <2>3, <2>4, <2>5 DEF ChainInv
<1>5. ASSUME NEW h \in Handles, ChainExtended(h) PROVE ChainInv'
  <2> DEFINE mac == Append(prev[h], cur[h])
  <2>1. UNCHANGED <<cur, persisted>> /\ side' = WriteNewline(side)
    BY <1>5 DEF ChainExtended, history
  <2>2. Chained(mac)
    BY <1>5, ChainGrows DEF ChainExtended, TypeOK, ChainInv, EntryInv
  <2>3. SidecarWithinLog'  BY <2>1, SidecarNewline DEF ChainInv
  <2> HIDE DEF mac
  <2>4. \A g \in Handles : prev'[g] = IF g = h THEN mac ELSE prev[g]
    BY <1>5 DEF ChainExtended, TypeOK, mac
  <2>5. \A g \in Handles : Chained(prev[g])'  BY <2>1, <2>2, <2>4 DEF ChainInv, Chained
  <2>6. \A g \in Handles : pc'[g] # "idle" => pc[g] # "idle" /\ g # h
    BY <1>5 DEF ChainExtended, TypeOK
  <2> QED  BY <2>1, <2>3, <2>4, <2>5, <2>6 DEF ChainInv
<1>6. ASSUME NEW h \in Handles, SinkFails(h), cur' = cur
      PROVE  /\ prev' = prev /\ persisted' = persisted
             /\ \A g \in Handles : pc'[g] # "idle" => pc[g] # "idle" /\ cur'[g] = cur[g]
  BY <1>6 DEF SinkFails, TypeOK
<1>7. ASSUME NEW h \in Handles, LineFails(h) \/ NewlineFails(h) PROVE ChainInv'
  BY <1>6, <1>7, ChainKept DEF LineFails, NewlineFails
<1>8. ASSUME NEW h \in Handles, MacFails(h) PROVE ChainInv'
  <2>1. SinkFails(h) /\ cur' = cur  BY <1>8 DEF MacFails
  <2>2. side' = side \/ side' = WriteText(side, TornMac)  BY <1>8 DEF MacFails, FailedWrites
  <2>3. CASE side' = side  BY <1>6, <2>1, <2>3, ChainKept
  <2>4. CASE side' = WriteText(side, TornMac)
    <3>1. TornMac \in Seq(Nat)  BY DEF TornMac, Torn
    <3>2. SidecarWithinLog'  BY <1>6, <2>1, <2>4, <3>1, SidecarText DEF ChainInv
    <3>3. \A g \in Handles : Chained(prev[g])'  BY <1>6, <2>1 DEF ChainInv, Chained
    <3>4. \A g \in Handles : pc'[g] # "idle" => \A j \in DOMAIN prev'[g] : prev'[g][j] < cur'[g]
      BY <1>6, <2>1 DEF ChainInv
    <3> QED  BY <3>2, <3>3, <3>4 DEF ChainInv
  <2> QED  BY <2>2, <2>3, <2>4
<1>9. CASE Restart
  <2> DEFINE mac == ReadLastChainMac(side)
  <2>1. \/ mac = Genesis
        \/ \E i \in 1..Len(side) : 1 \in 1..Len(side[i]) /\ mac = side[i][1] /\ mac # TornMac
    BY LastMacRead DEF TypeOK
  <2> HIDE DEF mac
  <2>2. Chained(mac)
    <3>1. CASE mac = Genesis  BY <3>1 DEF Genesis, Chained
    <3>2. ASSUME NEW i \in 1..Len(side), 1 \in 1..Len(side[i]), mac = side[i][1], mac # TornMac
          PROVE  Chained(mac)
      <4>1. i \in DOMAIN side /\ 1 \in DOMAIN side[i]  BY <3>2 DEF TypeOK
      <4> QED  BY <3>2, <4>1 DEF ChainInv, SidecarWithinLog, Chained
    <3> QED  BY <2>1, <3>1, <3>2
  <2>3. /\ \A g \in Handles : prev'[g] = mac /\ pc'[g] = "idle"
        /\ side' = side /\ persisted' = persisted
    BY <1>9 DEF Restart, mac
  <2>4. \A g \in Handles : Chained(prev[g])'  BY <2>2, <2>3 DEF Chained
  <2>5. SidecarWithinLog'  BY <2>3 DEF ChainInv, SidecarWithinLog
  <2> QED  BY <2>3, <2>4, <2>5 DEF ChainInv
<1>10. CASE UNCHANGED vars  BY <1>10, ChainKept DEF vars, ChainInv
<1> QED  BY <1>1, <1>2, <1>3, <1>4, <1>5, <1>7, <1>8, <1>9, <1>10 DEF Next

\* What is m places behind an entry is at least m behind a later one.
LEMMA FurtherBehind ==
    ASSUME NEW x \in Nat, NEW e \in Nat, NEW p \in Nat, NEW m \in Nat, e - x >= m, e <= p
    PROVE  p - x >= m
OBVIOUS

\* The end of a push: the entry enters the ring, and what the drain takes out of
\* it has max_entries later ones behind it.
LEMMA RingGrows ==
    ASSUME TypeOK, EntryInv, RingInv, NEW h \in Handles, NEW e \in Nat, Remember(h, e),
           \A k \in DOMAIN entries[h] : entries[h][k] + (Len(entries[h]) - k) < e,
           pushes' \in Nat, pushes <= pushes', e <= pushes', opened' = opened,
           \A x \in (pushes + 1)..pushes' : x = e,
           pc[h] # "idle" => cur[h] = e,
           pc'[h] = "idle", \A g \in Handles : g # h => pc'[g] = pc[g] /\ cur'[g] = cur[g]
    PROVE  RingInv'
<1> DEFINE old == entries[h]
           new == entries'[h]
           n == Len(old)
<1>1. /\ entries' \in [Handles -> Seq(Nat)]
      /\ \A g \in Handles : g # h => entries'[g] = entries[g]
      /\ \E o \in Nat : Drained(old, new, e, o)
  BY RingAfterPush DEF TypeOK
<1>2. PICK o \in Nat : Drained(old, new, e, o)  BY <1>1
<1>3. /\ old \in Seq(Nat) /\ new \in Seq(Nat) /\ n \in Nat /\ DOMAIN old = 1..n
      /\ DOMAIN new = 1..Len(new) /\ MaxInMemory \in Nat /\ pushes \in Nat /\ opened \in Nat
  BY <1>1, BoundsAssumption DEF TypeOK
<1> HIDE DEF old, new, n
<1>4. /\ o \in 0..n /\ Len(new) = n + 1 - o
      /\ \A k \in 1..Len(new) : new[k] = IF k + o = n + 1 THEN e ELSE old[k + o]
      /\ o > 0 => MaxInMemory > 0 /\ o = n + 1 - MaxInMemory
  BY <1>2 DEF Drained, n
<1>5. \A k \in 1..n : old[k] \in Nat  BY <1>3, ElementOfSeq DEF n
<1>6. \A k \in 1..n : old[k] + (n - k) < e  BY <1>3 DEF old, n
<1>7. \A k \in 1..n : old[k] \in Nat /\ old[k] + (n - k) < e  BY <1>5, <1>6
<1>8. n \in Nat /\ o \in 0..n /\ Len(new) = n + 1 - o  BY <1>3, <1>4
<1>9. ASSUME NEW k \in DOMAIN new PROVE new[k] + (Len(new) - k) <= pushes'
  <2>1. k \in 1..(n + 1 - o)  BY <1>3, <1>4
  <2>2. CASE k + o = n + 1
    <3>1. new[k] = e /\ Len(new) - k = 0  BY <1>3, <1>4, <2>1, <2>2
    <3> QED  BY <3>1
  <2>3. CASE k + o # n + 1
    <3>1. k + o \in 1..n /\ k \in 1..Len(new)  BY <1>8, <2>1, <2>3
    <3>2. new[k] = old[k + o]  BY <1>4, <2>3, <3>1
    <3>3. old[k + o] \in Nat /\ old[k + o] + (n - (k + o)) < e  BY <1>7, <3>1
    <3> DEFINE v == old[k + o]
    <3>4. v \in Nat /\ v + (n - (k + o)) < e /\ new[k] = v  BY <3>2, <3>3
    <3> HIDE DEF v
    <3> QED  BY <1>8, <2>1, <3>4
  <2> QED  BY <2>2, <2>3
<1>10. ASSUME NEW g \in Handles, g # h, NEW k \in DOMAIN entries'[g]
      PROVE  /\ entries'[g][k] + (Len(entries'[g]) - k) <= pushes'
             /\ pc'[g] # "idle" => entries'[g][k] + (Len(entries'[g]) - k) < cur'[g]
  <2>1. entries'[g] = entries[g] /\ pc'[g] = pc[g] /\ cur'[g] = cur[g]  BY <1>1, <1>10
  <2>2. /\ entries[g][k] + (Len(entries[g]) - k) <= pushes
        /\ pc[g] # "idle" => entries[g][k] + (Len(entries[g]) - k) < cur[g]
    BY <1>10, <2>1 DEF RingInv
  <2>3. entries[g][k] + (Len(entries[g]) - k) \in Int
    <3>1. entries[g] \in Seq(Nat)  BY DEF TypeOK
    <3>2. k \in 1..Len(entries[g])  BY <1>10, <2>1, <3>1
    <3>3. entries[g][k] \in Nat /\ Len(entries[g]) \in Nat /\ k \in Nat  BY <3>1, <3>2
    <3> QED  BY <3>3
  <2> QED  BY <1>3, <2>1, <2>2, <2>3
<1>11. ASSUME NEW x \in (opened' + 1)..pushes'
      PROVE  Pushing(x)' \/ Remembered(x)' \/ (MaxInMemory > 0 /\ pushes' - x >= MaxInMemory)
  <2>1. ASSUME x = e PROVE Remembered(x)'
    <3>1. n + 1 - o \in DOMAIN new /\ new[n + 1 - o] = e  BY <1>3, <1>4
    <3> QED  BY <2>1, <3>1 DEF Remembered, new
  <2>2. ASSUME x # e, Pushing(x) PROVE Pushing(x)'
    <3>1. PICK g \in Handles : pc[g] # "idle" /\ cur[g] = x  BY <2>2 DEF Pushing
    <3>2. g # h  BY <2>2, <3>1
    <3> QED  BY <3>1, <3>2 DEF Pushing
  <2>3. ASSUME x # e, Remembered(x)
        PROVE  Remembered(x)' \/ (MaxInMemory > 0 /\ pushes' - x >= MaxInMemory)
    <3>1. PICK g \in Handles : \E i \in DOMAIN entries[g] : entries[g][i] = x
      BY <2>3 DEF Remembered
    <3>2. PICK i \in DOMAIN entries[g] : entries[g][i] = x  BY <3>1
    <3>3. CASE g # h  BY <1>1, <3>2, <3>3 DEF Remembered
    <3>4. CASE g = h
      <4>1. i \in 1..n /\ old[i] = x  BY <1>3, <3>2, <3>4 DEF old
      <4>2. CASE i > o
        <5>1. i - o \in DOMAIN new /\ (i - o) + o = i /\ i # n + 1  BY <1>3, <1>4, <4>1, <4>2
        <5>2. new[i - o] = x  BY <1>3, <1>4, <4>1, <5>1
        <5> QED  BY <5>1, <5>2 DEF Remembered, new
      <4>3. CASE i <= o
        <5>1. MaxInMemory > 0 /\ o = n + 1 - MaxInMemory  BY <1>4, <4>1, <4>3
        <5>2. x + (n - i) < e /\ x \in Nat /\ e <= pushes'  BY <1>7, <4>1
        <5>3. i \in 1..n /\ MaxInMemory \in Nat  BY <1>3, <4>1
        <5>4. n - i >= MaxInMemory - 1  BY <1>8, <4>3, <5>1, <5>3
        <5>5. e - x >= MaxInMemory  BY <1>8, <5>2, <5>3, <5>4
        <5>6. pushes' - x >= MaxInMemory  BY <5>2, <5>3, <5>5, FurtherBehind
        <5> QED  BY <5>1, <5>6
      <4> QED  BY <1>4, <4>1, <4>2, <4>3
    <3> QED  BY <3>3, <3>4
  <2>4. ASSUME x # e, MaxInMemory > 0, pushes - x >= MaxInMemory
        PROVE  pushes' - x >= MaxInMemory
    BY <1>3, <2>4
  <2>5. CASE x = e  BY <2>1, <2>5
  <2>6. CASE x # e
    <3>1. x \in (opened + 1)..pushes  BY <1>3, <2>6
    <3>2. Pushing(x) \/ Remembered(x) \/ (MaxInMemory > 0 /\ pushes - x >= MaxInMemory)
      BY <3>1 DEF RingInv
    <3> QED  BY <2>2, <2>3, <2>4, <2>6, <3>2
  <2> QED  BY <2>5, <2>6
<1>12. ASSUME NEW g \in Handles, NEW k \in DOMAIN entries'[g]
      PROVE  /\ entries'[g][k] + (Len(entries'[g]) - k) <= pushes'
             /\ pc'[g] # "idle" => entries'[g][k] + (Len(entries'[g]) - k) < cur'[g]
  <2>1. CASE g = h  BY <1>9, <1>12, <2>1 DEF new
  <2>2. CASE g # h  BY <1>10, <1>12, <2>2
  <2> QED  BY <2>1, <2>2
<1> QED  BY <1>11, <1>12 DEF RingInv

\* A step inside a push, which leaves the ring alone.
LEMMA RingKept ==
    ASSUME RingInv, entries' = entries, pushes' = pushes, opened' = opened,
           \A g \in Handles : pc'[g] # "idle" <=> pc[g] # "idle",
           cur' = cur
    PROVE  RingInv'
BY DEF RingInv, Pushing, Remembered

\* The ring holds the last max_entries of what was pushed since the start.
LEMMA RingStep ==
    ASSUME TypeOK, EntryInv, RingInv, [Next]_vars
    PROVE  RingInv'
<1>1. pushes \in Nat /\ opened \in Nat /\ pc \in [Handles -> {"idle", "newline", "mac", "macnewline"}]
  BY DEF TypeOK
<1>2. \A h \in Handles : \A k \in DOMAIN entries[h] :
         /\ entries[h][k] + (Len(entries[h]) - k) <= pushes
         /\ entries[h][k] + (Len(entries[h]) - k) \in Int
  <2> SUFFICES ASSUME NEW h \in Handles, NEW k \in DOMAIN entries[h]
               PROVE  entries[h][k] + (Len(entries[h]) - k) \in Int
    BY DEF RingInv
  <2>1. entries[h] \in Seq(Nat) /\ k \in 1..Len(entries[h])  BY DEF TypeOK
  <2>2. entries[h][k] \in Nat /\ Len(entries[h]) \in Nat /\ k \in Nat  BY <2>1
  <2> QED  BY <2>2
<1>3. \A h \in Handles : \A k \in DOMAIN entries[h] :
         entries[h][k] + (Len(entries[h]) - k) < pushes + 1
  BY <1>1, <1>2
<1>4. ASSUME NEW h \in Handles, pc[h] = "idle", pushes' = pushes + 1, Remember(h, pushes + 1),
             opened' = opened, pc' = [pc EXCEPT ![h] = "idle"], cur' = cur
      PROVE  RingInv'
  <2>1. pushes + 1 \in Nat /\ \A x \in (pushes + 1)..pushes' : x = pushes + 1  BY <1>1, <1>4
  <2> QED  BY <1>1, <1>3, <1>4, <2>1, RingGrows
<1>5. ASSUME NEW h \in Handles, pc[h] # "idle", pushes' = pushes, Remember(h, cur[h]),
             opened' = opened, pc' = [pc EXCEPT ![h] = "idle"], cur' = cur
      PROVE  RingInv'
  <2>1. cur[h] \in Nat /\ cur[h] <= pushes /\ \A x \in (pushes + 1)..pushes' : x = cur[h]
    BY <1>1, <1>5 DEF EntryInv
  <2>2. \A k \in DOMAIN entries[h] : entries[h][k] + (Len(entries[h]) - k) < cur[h]
    BY <1>5 DEF RingInv
  <2> QED  BY <1>1, <1>5, <2>1, <2>2, RingGrows
<1>6. ASSUME NEW h \in Handles, PushInMemory(h) PROVE RingInv'
  <2>1. pc' = [pc EXCEPT ![h] = "idle"]  BY <1>1, <1>6 DEF PushInMemory
  <2> QED  BY <1>4, <1>6, <2>1 DEF PushInMemory, history
<1>7. ASSUME NEW h \in Handles, PushLine(h) PROVE RingInv'
  <2>1. /\ pushes' = pushes + 1 /\ opened' = opened /\ entries' = entries /\ pc'[h] = "newline"
        /\ cur'[h] = pushes + 1
        /\ \A g \in Handles : g # h => pc'[g] = pc[g] /\ cur'[g] = cur[g]
        /\ pc[h] = "idle"
    BY <1>1, <1>7 DEF PushLine, history, TypeOK
  <2>2. ASSUME NEW x \in (opened' + 1)..pushes'
        PROVE  Pushing(x)' \/ Remembered(x)' \/ (MaxInMemory > 0 /\ pushes' - x >= MaxInMemory)
    <3>1. CASE x = pushes + 1  BY <2>1, <3>1 DEF Pushing
    <3>2. CASE x # pushes + 1
      <4>1. x \in (opened + 1)..pushes  BY <1>1, <2>1, <3>2
      <4>2. Pushing(x) \/ Remembered(x) \/ (MaxInMemory > 0 /\ pushes - x >= MaxInMemory)
        BY <4>1 DEF RingInv
      <4>3. Pushing(x) => Pushing(x)'  BY <2>1 DEF Pushing
      <4>4. Remembered(x) => Remembered(x)'  BY <2>1 DEF Remembered
      <4>5. MaxInMemory \in Nat  BY BoundsAssumption
      <4> QED  BY <1>1, <2>1, <4>1, <4>2, <4>3, <4>4, <4>5
    <3> QED  BY <3>1, <3>2
  <2>3. ASSUME NEW g \in Handles, NEW k \in DOMAIN entries'[g]
        PROVE  /\ entries'[g][k] + (Len(entries'[g]) - k) <= pushes'
               /\ pc'[g] # "idle" => entries'[g][k] + (Len(entries'[g]) - k) < cur'[g]
    <3> DEFINE v == entries[g][k] + (Len(entries[g]) - k)
    <3>1. v \in Int /\ v <= pushes /\ v < pushes + 1 /\ (pc[g] # "idle" => v < cur[g])
      BY <1>2, <1>3, <2>1, <2>3 DEF RingInv
    <3>2. entries'[g][k] + (Len(entries'[g]) - k) = v  BY <2>1
    <3> HIDE DEF v
    <3> QED  BY <1>1, <2>1, <3>1, <3>2
  <2> QED  BY <2>2, <2>3 DEF RingInv
<1>8. ASSUME NEW h \in Handles, PushNewline(h) \/ ExtendChain(h) PROVE RingInv'
  <2>1. \A g \in Handles : pc'[g] # "idle" <=> pc[g] # "idle"
    BY <1>1, <1>8 DEF PushNewline, ExtendChain
  <2> QED  BY <1>8, <2>1, RingKept DEF PushNewline, ExtendChain, history
<1>9. ASSUME NEW h \in Handles, ChainExtended(h) PROVE RingInv'
  BY <1>5, <1>9 DEF ChainExtended, history
<1>10. ASSUME NEW h \in Handles, LineFails(h) PROVE RingInv'
  BY <1>4, <1>10 DEF LineFails, SinkFails
<1>11. ASSUME NEW h \in Handles, NewlineFails(h) \/ MacFails(h) PROVE RingInv'
  <2>1. pc[h] # "idle"  BY <1>11 DEF NewlineFails, MacFails
  <2> QED  BY <1>5, <1>11, <2>1 DEF NewlineFails, MacFails, SinkFails
<1>12. CASE Restart
  <2>1. /\ \A g \in Handles : pc'[g] = "idle" /\ entries'[g] = <<>>
        /\ opened' = pushes /\ pushes' = pushes
    BY <1>12 DEF Restart
  <2>2. \A g \in Handles : DOMAIN entries'[g] = {}  BY <2>1
  <2>3. (opened' + 1)..pushes' = {}  BY <1>1, <2>1
  <2> QED  BY <2>1, <2>2, <2>3 DEF RingInv
<1>13. CASE UNCHANGED vars  BY <1>13, RingKept DEF vars
<1> QED  BY <1>6, <1>7, <1>8, <1>9, <1>10, <1>11, <1>12, <1>13 DEF Next

\* The state after Init: no handle is in a push, and nothing is written.
LEMMA LogInitial ==
    ASSUME Init
    PROVE  LogInv
<1> USE DEF Init
<1>1. TypeOK
  <2>1. <<>> \in Seq(Nat) /\ Empty \in Seq(Seq(Nat)) /\ Empty \in Seq(Seq(Seq(Nat))) /\ Len(Empty) = 1
    BY DEF Empty
  <2>2. clean \in BOOLEAN  BY Zenon
  <2> QED  BY <2>1, <2>2 DEF TypeOK, Torn, Genesis
<1>2. EntryInv  BY DEF EntryInv
<1>3. ChainInv
  <2>1. \A h \in Handles : Chained(prev[h])  BY DEF Chained, Genesis
  <2>2. \A i \in DOMAIN side : DOMAIN side[i] = {}  BY DEF Empty
  <2>3. SidecarWithinLog  BY <2>2 DEF SidecarWithinLog
  <2> QED  BY <2>1, <2>3 DEF ChainInv
<1>4. RingInv
  <2>1. \A h \in Handles : DOMAIN entries[h] = {}  OBVIOUS
  <2> QED  BY <2>1 DEF RingInv
<1> QED  BY <1>1, <1>2, <1>3, <1>4 DEF LogInv

\* Every write, every failure and every restart keeps it.
LEMMA LogStep ==
    ASSUME LogInv, [Next]_vars
    PROVE  LogInv'
BY TypeStep, EntryStep, ChainStep, RingStep DEF LogInv

\* For any number of handles on the file, whatever fails and whenever the process
\* ends: entries are numbered by their pushes, every chain is of written entries in
\* order, and a place in the ring stands for a later push.
THEOREM LogInvariant == Spec => []LogInv
<1>1. Init => LogInv  BY LogInitial
<1>2. LogInv /\ [Next]_vars => LogInv'  BY LogStep
<1> QED  BY <1>1, <1>2, PTL DEF Spec

\* The types of the handles, the two files and the ring (audit.rs AuditLog).
THEOREM TypeCorrect == Spec => []TypeOK
<1>1. LogInv => TypeOK  BY DEF LogInv
<1> QED  BY <1>1, LogInvariant, PTL

\* "the sidecar never commits to a line the log itself is missing"
\* (AuditLog::push): for any number of handles on one file.
THEOREM SidecarSound == Spec => []SidecarWithinLog
<1>1. LogInv => SidecarWithinLog  BY DEF LogInv, ChainInv
<1> QED  BY <1>1, LogInvariant, PTL

-----------------------------------------------------------------------------
(* One handle: what is read back *)

\* A write never takes a finished line away, so what can be read stays readable.
LEMMA CompleteKept ==
    ASSUME TypeOK, TypeOK', pushes <= pushes',
           \/ file' = file
           \/ \E x \in Nat : file' = WriteText(file, x)
           \/ file' = WriteNewline(file)
    PROVE  Complete \subseteq Complete'
<1> DEFINE n == Len(file)
<1>1. file \in Seq(Seq(Nat)) /\ n \in Nat /\ n > 0 /\ pushes \in Nat /\ pushes' \in Nat
  BY DEF TypeOK
<1>2. \A x \in Nat : LET g == WriteText(file, x)
                     IN  Len(g) = n /\ \A i \in 1..(n - 1) : g[i] = file[i]
  BY <1>1, TextWritten
<1>3. LET g == WriteNewline(file) IN Len(g) = n + 1 /\ \A i \in 1..n : g[i] = file[i]
  BY <1>1, NewlineWritten
<1>4. (Len(file') = n \/ Len(file') = n + 1) /\ \A i \in 1..(n - 1) : file'[i] = file[i]
  <2>1. CASE file' = file  BY <2>1
  <2>2. ASSUME NEW x \in Nat, file' = WriteText(file, x)
        PROVE  Len(file') = n /\ \A i \in 1..(n - 1) : file'[i] = file[i]
    BY <1>2, <2>2
  <2>3. CASE file' = WriteNewline(file)
    <3>1. \A i \in 1..(n - 1) : i \in 1..n  BY <1>1
    <3> QED  BY <1>3, <2>3, <3>1
  <2> QED  BY <2>1, <2>2, <2>3
<1> HIDE DEF n
<1>5. \A i \in 1..(n - 1) : i \in 1..(Len(file') - 1)  BY <1>1, <1>4
<1>6. \A e \in 1..pushes : e \in 1..pushes'  BY <1>1
<1> SUFFICES ASSUME NEW e \in Complete PROVE e \in Complete'  OBVIOUS
<1>7. e \in 1..pushes /\ \E i \in 1..(n - 1) : file[i] = <<e>>  BY DEF Complete, n
<1>8. PICK i \in 1..(n - 1) : file[i] = <<e>>  BY <1>7
<1> QED  BY <1>4, <1>5, <1>6, <1>7, <1>8 DEF Complete

\* There are finitely many entries to lose.
LEMMA LostFinite ==
    ASSUME TypeOK, EntryInv
    PROVE  IsFiniteSet(Lost) /\ Cardinality(Lost) \in Nat
<1>1. IsFiniteSet(1..pushes)
  <2>1. pushes \in Nat  BY DEF TypeOK
  <2> QED  BY <2>1, FS_Interval
<1>2. Lost \subseteq 1..pushes  BY DEF Lost, EntryInv
<1>3. IsFiniteSet(Lost)  BY <1>1, <1>2, FS_Subset
<1> QED  BY <1>3, FS_CardinalityType

\* A step that writes no entry and starts no process.
LEMMA DiskKept ==
    ASSUME TypeOK, EntryInv, NEW h \in Handles, DiskInv(h), Complete \subseteq Complete',
           persisted' = persisted, opened' = opened, restarts' = restarts,
           Spoiled(h)' => Spoiled(h),
           pc'[h] = "newline" => \A d \in persisted : d < cur'[h],
           pc'[h] \in {"mac", "macnewline"} => OpenLine' = <<>>
    PROVE  DiskInv(h)'
<1>1. Lost' \subseteq Lost  BY DEF Lost
<1>2. /\ IsFiniteSet(Lost) /\ Cardinality(Lost) \in Nat
  BY LostFinite
<1>3. /\ Cardinality(Lost)' \in Nat /\ Cardinality(Lost)' <= Cardinality(Lost)
  <2>1. IsFiniteSet(Lost') /\ Cardinality(Lost') <= Cardinality(Lost)
    BY <1>1, <1>2, FS_Subset
  <2> QED  BY <2>1, FS_CardinalityType
<1>4. restarts \in Nat  BY DEF TypeOK
<1>5. Cardinality(Lost)' <= restarts'  BY <1>2, <1>3, <1>4 DEF DiskInv
<1>6. Spoiled(h)' => Cardinality(Lost)' < restarts' /\ \A d \in persisted' : d <= opened'
  <2> SUFFICES ASSUME Spoiled(h)' PROVE Cardinality(Lost)' < restarts' /\ \A d \in persisted' : d <= opened'
    OBVIOUS
  <2>1. Cardinality(Lost) < restarts /\ \A d \in persisted : d <= opened  BY DEF DiskInv
  <2> QED  BY <1>2, <1>3, <1>4, <2>1
<1>7. \A e \in Lost' :
        e <= opened' \/ (restarts' > 0 /\ \A d \in persisted' : d <= opened' \/ e <= d)
  BY <1>1 DEF DiskInv
<1> QED  BY <1>5, <1>6, <1>7 DEF DiskInv

\* The newline of a push: its entry is on a line of its own, or is the one that a
\* spoiled line costs.
LEMMA DiskNewline ==
    ASSUME TypeOK, TypeOK', EntryInv, NEW h \in Handles, DiskInv(h), PushNewline(h)
    PROVE  DiskInv(h)'
<1> DEFINE n == Len(file)
           c == cur[h]
<1>1. /\ pc[h] = "newline" /\ pc'[h] = "mac" /\ persisted' = persisted \cup {c}
      /\ file' = WriteNewline(file)
      /\ opened' = opened /\ restarts' = restarts /\ pushes' = pushes
  BY DEF PushNewline, TypeOK
<1>2. /\ file \in Seq(Seq(Nat)) /\ n \in Nat /\ n > 0 /\ restarts \in Nat /\ pushes \in Nat
      /\ opened \in Nat /\ c \in Nat
  <2>1. file \in Seq(Seq(Nat)) /\ n > 0 /\ cur \in [Handles -> Nat]  BY DEF TypeOK
  <2>2. restarts \in Nat /\ pushes \in Nat /\ opened \in Nat  BY DEF TypeOK
  <2> QED  BY <2>1, <2>2
<1>3. Len(file') = n + 1 /\ (\A i \in 1..n : file'[i] = file[i]) /\ file'[n + 1] = <<>>
  BY <1>1, <1>2, NewlineWritten
<1>4. OpenLine' = <<>>  BY <1>3 DEF OpenLine
<1>5. Complete \subseteq Complete'  BY <1>1, <1>2, CompleteKept
<1>6. c \in 1..pushes  BY <1>1 DEF EntryInv
<1>7. \A d \in persisted : d < c  BY <1>1 DEF DiskInv
<1>8. /\ IsFiniteSet(Lost) /\ Cardinality(Lost) \in Nat /\ Cardinality(Lost) <= restarts
  BY LostFinite DEF DiskInv
<1>9. ~Spoiled(h)'  BY <1>1 DEF Spoiled
<1>10. \A e \in Lost : e \in persisted' /\
          (e <= opened' \/ (restarts' > 0 /\ \A d \in persisted' : d <= opened' \/ e <= d))
  <2> SUFFICES ASSUME NEW e \in Lost, ~(e <= opened)
               PROVE  /\ e \in persisted'
                      /\ restarts' > 0 /\ \A d \in persisted' : d <= opened' \/ e <= d
    BY <1>1 DEF Lost
  <2>1. e \in persisted /\ e < c  BY <1>7 DEF Lost
  <2>2. restarts > 0 /\ \A d \in persisted : d <= opened \/ e <= d  BY DEF DiskInv
  <2>3. e <= c
    <3>1. e \in Nat  BY <2>1 DEF EntryInv
    <3> QED  BY <1>2, <2>1, <3>1
  <2> QED  BY <1>1, <2>1, <2>2, <2>3
<1>11. CASE OpenLine = <<c>>
  <2>1. c \in Complete'
    <3>1. file[n] = <<c>>  BY <1>11 DEF OpenLine
    <3> HIDE DEF n, c
    <3>2. n \in 1..n /\ (n + 1) - 1 = n  BY <1>2
    <3>3. n \in 1..(Len(file') - 1) /\ file'[n] = <<c>>  BY <1>3, <3>1, <3>2
    <3> QED  BY <1>1, <1>6, <3>3 DEF Complete
  <2>2. Lost' \subseteq Lost  BY <1>1, <1>5, <2>1 DEF Lost
  <2>3. Cardinality(Lost') <= Cardinality(Lost) /\ Cardinality(Lost') \in Nat
    BY <1>8, <2>2, FS_Subset, FS_CardinalityType
  <2>4. Cardinality(Lost)' <= restarts'  BY <1>1, <1>2, <1>8, <2>3
  <2>5. \A e \in Lost' :
          e <= opened' \/ (restarts' > 0 /\ \A d \in persisted' : d <= opened' \/ e <= d)
    BY <1>10, <2>2
  <2> QED  BY <1>1, <1>4, <1>9, <2>4, <2>5 DEF DiskInv
<1>12. CASE OpenLine # <<c>>
  <2>1. Cardinality(Lost) < restarts /\ \A d \in persisted : d <= opened
    BY <1>1, <1>12 DEF DiskInv, Spoiled
  <2>2. Lost' \subseteq Lost \cup {c}  BY <1>1, <1>5 DEF Lost
  <2>3. IsFiniteSet(Lost \cup {c}) /\ Cardinality(Lost \cup {c}) <= Cardinality(Lost) + 1
    <3>1. /\ IsFiniteSet(Lost \cup {c})
          /\ Cardinality(Lost \cup {c}) = IF c \in Lost THEN Cardinality(Lost) ELSE Cardinality(Lost) + 1
      BY <1>8, FS_AddElement
    <3> QED  BY <1>8, <3>1
  <2>4. /\ Cardinality(Lost') <= Cardinality(Lost \cup {c})
        /\ Cardinality(Lost') \in Nat /\ Cardinality(Lost \cup {c}) \in Nat
    BY <2>2, <2>3, FS_Subset, FS_CardinalityType
  <2>5. Cardinality(Lost)' <= restarts'  BY <1>1, <1>2, <1>8, <2>1, <2>3, <2>4
  <2>6. restarts' > 0  BY <1>1, <1>2, <1>8, <2>1
  <2>7. \A d \in persisted' : d <= opened' \/ c <= d
    <3>1. c <= c  BY <1>2
    <3> QED  BY <1>1, <2>1, <3>1
  <2>8. \A e \in Lost' :
          e <= opened' \/ (restarts' > 0 /\ \A d \in persisted' : d <= opened' \/ e <= d)
    BY <1>10, <2>2, <2>6, <2>7
  <2> QED  BY <1>1, <1>4, <1>9, <2>5, <2>8 DEF DiskInv
<1> QED  BY <1>11, <1>12

\* A restart may spoil the open line, and raises the count that allows for it.
LEMMA DiskRestart ==
    ASSUME TypeOK, EntryInv, NEW h \in Handles, DiskInv(h), Restart
    PROVE  DiskInv(h)'
<1>1. /\ restarts' = restarts + 1 /\ opened' = pushes /\ pc'[h] = "idle"
      /\ file' = file /\ pushes' = pushes /\ persisted' = persisted
  BY DEF Restart
<1>2. restarts \in Nat /\ pushes \in Nat /\ Cardinality(Lost) \in Nat  BY LostFinite DEF TypeOK
<1>3. Lost' = Lost  BY <1>1 DEF Lost, Complete
<1>4. Cardinality(Lost)' < restarts'
  <2>1. Cardinality(Lost) <= restarts  BY DEF DiskInv
  <2> QED  BY <1>1, <1>2, <1>3, <2>1
<1>5. \A d \in persisted' : d <= opened'  BY <1>1, <1>2 DEF EntryInv
<1>6. \A e \in Lost' : e <= opened'  BY <1>5 DEF Lost
<1>7. Cardinality(Lost)' <= restarts'  BY <1>1, <1>2, <1>3, <1>4
<1> QED  BY <1>1, <1>4, <1>5, <1>6, <1>7 DEF DiskInv

\* With one handle, every step loses an entry only to a line that an earlier
\* process left open.
LEMMA DiskStep ==
    ASSUME TypeOK, TypeOK', EntryInv, NEW h, Handles = {h}, DiskInv(h), [Next]_vars
    PROVE  DiskInv(h)'
<1>1. /\ h \in Handles /\ pushes \in Nat /\ pc \in [Handles -> {"idle", "newline", "mac", "macnewline"}]
      /\ \A d \in persisted : d \in 1..pushes
  BY DEF TypeOK, EntryInv
<1>2. CASE PushInMemory(h)
  <2>1. /\ file' = file /\ pc' = pc /\ cur' = cur /\ failed' = failed /\ pushes' = pushes + 1
        /\ persisted' = persisted /\ opened' = opened /\ restarts' = restarts
    BY <1>2 DEF PushInMemory, sinks, history
  <2>2. pushes <= pushes'  BY <1>1, <2>1
  <2>3. Complete \subseteq Complete'  BY <2>1, <2>2, CompleteKept
  <2>4. Spoiled(h)' = Spoiled(h) /\ OpenLine' = OpenLine  BY <2>1 DEF Spoiled, OpenLine
  <2> QED  BY <1>1, <2>1, <2>3, <2>4, DiskKept DEF DiskInv
<1>3. CASE PushLine(h)
  <2> DEFINE n == Len(file)
             line == file[n]
  <2>1. /\ pc[h] = "idle" /\ ~failed[h] /\ pushes' = pushes + 1 /\ cur'[h] = pushes + 1
        /\ pc'[h] = "newline" /\ file' = WriteText(file, pushes + 1)
        /\ persisted' = persisted /\ opened' = opened /\ restarts' = restarts
    BY <1>1, <1>3 DEF PushLine, history, TypeOK
  <2>2. pushes <= pushes' /\ pushes + 1 \in Nat  BY <1>1, <2>1
  <2>3. Complete \subseteq Complete'  BY <2>1, <2>2, CompleteKept
  <2>4. \A d \in persisted : d < cur'[h]  BY <1>1, <2>1
  <2>5. OpenLine' = Append(OpenLine, pushes + 1)
    <3>1. file \in Seq(Seq(Nat)) /\ n > 0  BY DEF TypeOK
    <3>2. PICK x \in Nat : x = pushes + 1  BY <2>2
    <3>3. LET g == WriteText(file, x) IN Len(g) = n /\ g[n] = Append(line, x)
      BY <3>1, TextWritten
    <3> QED  BY <2>1, <3>2, <3>3 DEF OpenLine
  <2>6. OpenLine = <<>> => OpenLine' = <<pushes + 1>>  BY <2>5
  <2>7. Spoiled(h)' => Spoiled(h)  BY <2>1, <2>6 DEF Spoiled
  <2> QED  BY <1>1, <2>1, <2>3, <2>4, <2>7, DiskKept
<1>4. CASE PushNewline(h)  BY <1>1, <1>4, DiskNewline
<1>5. CASE ExtendChain(h) \/ ChainExtended(h)
  <2>1. /\ file' = file /\ cur' = cur /\ failed' = failed /\ pushes' = pushes
        /\ persisted' = persisted /\ opened' = opened /\ restarts' = restarts
        /\ pc[h] \in {"mac", "macnewline"} /\ pc'[h] \in {"macnewline", "idle"}
    BY <1>1, <1>5 DEF ExtendChain, ChainExtended, history
  <2>2. Complete \subseteq Complete'  BY <2>1 DEF Complete
  <2>3. OpenLine' = <<>>  BY <2>1 DEF OpenLine, DiskInv
  <2>4. ~Spoiled(h)'  BY <2>1, <2>3 DEF Spoiled
  <2> QED  BY <1>1, <2>1, <2>2, <2>3, <2>4, DiskKept
<1>6. CASE LineFails(h) \/ NewlineFails(h) \/ MacFails(h)
  <2>1. /\ failed'[h] /\ pc'[h] = "idle"
        /\ persisted' = persisted /\ opened' = opened /\ restarts' = restarts
    <3>1. SinkFails(h)  BY <1>6 DEF LineFails, NewlineFails, MacFails
    <3>2. failed'[h]  BY <1>1, <3>1 DEF SinkFails, TypeOK
    <3> QED  BY <1>1, <3>1, <3>2 DEF SinkFails
  <2>2. file' = file \/ file' = WriteText(file, Torn)
    BY <1>6 DEF LineFails, NewlineFails, MacFails, FailedWrites
  <2>3. pushes <= pushes'  BY <1>1, <1>6 DEF LineFails, NewlineFails, MacFails
  <2>4. Torn \in Nat  BY DEF Torn
  <2>5. Complete \subseteq Complete'  BY <2>2, <2>3, <2>4, CompleteKept
  <2>6. ~Spoiled(h)'  BY <2>1 DEF Spoiled
  <2> QED  BY <1>1, <2>1, <2>5, <2>6, DiskKept
<1>7. CASE Restart  BY <1>1, <1>7, DiskRestart
<1>8. CASE UNCHANGED vars
  BY <1>8 DEF vars, DiskInv, Spoiled, Lost, Complete, OpenLine
<1> QED  BY <1>2, <1>3, <1>4, <1>5, <1>6, <1>7, <1>8 DEF Next

-----------------------------------------------------------------------------
(* One handle: the undisturbed log *)

\* Lines that a step leaves alone keep their prefix.
LEMMA PrefixKept ==
    ASSUME NEW n \in Nat, \A j \in 1..n : file'[j] = file[j]
    PROVE  \A i \in 0..n : Prefix(i)' = Prefix(i)
<1> SUFFICES ASSUME NEW i \in 0..n PROVE Prefix(i)' = Prefix(i)  OBVIOUS
<1>1. \A j \in 1..i : j \in 1..n  OBVIOUS
<1>2. \A j \in 1..i : file'[j][1] = file[j][1]  BY <1>1
<1> QED  BY <1>2 DEF Prefix

\* The text of a push, on the empty line it finds.
LEMMA QuietLine ==
    ASSUME TypeOK, NEW h \in Handles, QuietInv(h), clean, PushLine(h)
    PROVE  QuietInv(h)'
<1> DEFINE n == Len(file)
           e == pushes + 1
<1>1. /\ file \in Seq(Seq(Nat)) /\ n \in Nat /\ n > 0 /\ e \in Nat
      /\ side \in Seq(Seq(Seq(Nat))) /\ Len(side) \in Nat
  BY DEF TypeOK
<1>2. /\ pc[h] = "idle" /\ pc'[h] = "newline" /\ cur'[h] = e /\ side' = side /\ prev' = prev
      /\ file' = WriteText(file, e)
  BY DEF PushLine, TypeOK
<1>3. /\ \A i \in 1..(n - 1) : Len(file[i]) = 1
      /\ \A i \in 1..(Len(side) - 1) : side[i] = << Prefix(i) >>
      /\ prev[h] = Prefix(Len(side) - 1) /\ n = Len(side) /\ file[n] = <<>>
      /\ side[Len(side)] = <<>>
  BY <1>2 DEF QuietInv, OpenLine
<1> HIDE DEF e
<1>4. Len(file') = n /\ (\A i \in 1..(n - 1) : file'[i] = file[i]) /\ file'[n] = Append(file[n], e)
  BY <1>1, <1>2, TextWritten
<1>5. file'[n] = <<e>>  BY <1>3, <1>4
<1> HIDE DEF n
<1>6. \A i \in 0..(n - 1) : Prefix(i)' = Prefix(i)  
  <2>1. n - 1 \in Nat  BY <1>1
  <2> QED  BY <1>4, <2>1, PrefixKept
<1>7. \A i \in 1..(n - 1) : i \in 0..(n - 1)  BY <1>1
<1>8. n - 1 \in 0..(n - 1)  BY <1>1
<1>9. \A i \in 1..(Len(side') - 1) : side'[i] = << Prefix(i)' >>  BY <1>2, <1>3, <1>6, <1>7
<1>10. prev'[h] = Prefix(Len(side) - 1)'  BY <1>2, <1>3, <1>6, <1>8
<1> QED  BY <1>2, <1>3, <1>4, <1>5, <1>9, <1>10 DEF QuietInv, OpenLine

\* Its newline: the file is one line ahead of the sidecar.
LEMMA QuietNewline ==
    ASSUME TypeOK, NEW h \in Handles, QuietInv(h), clean, PushNewline(h)
    PROVE  QuietInv(h)'
<1> DEFINE n == Len(file)
<1>1. /\ file \in Seq(Seq(Nat)) /\ n \in Nat /\ n > 0
      /\ side \in Seq(Seq(Seq(Nat))) /\ Len(side) \in Nat
  BY DEF TypeOK
<1>2. /\ pc[h] = "newline" /\ pc'[h] = "mac" /\ cur' = cur /\ side' = side /\ prev' = prev
      /\ file' = WriteNewline(file)
  BY DEF PushNewline, TypeOK
<1>3. /\ \A i \in 1..(n - 1) : Len(file[i]) = 1
      /\ \A i \in 1..(Len(side) - 1) : side[i] = << Prefix(i) >>
      /\ prev[h] = Prefix(Len(side) - 1) /\ n = Len(side) /\ file[n] = <<cur[h]>>
      /\ side[Len(side)] = <<>>
  BY <1>2 DEF QuietInv, OpenLine
<1>4. Len(file') = n + 1 /\ (\A i \in 1..n : file'[i] = file[i]) /\ file'[n + 1] = <<>>
  BY <1>1, <1>2, NewlineWritten
<1>5. Len(file[n]) = 1  BY <1>3
<1> HIDE DEF n
<1>6. \A i \in 0..n : Prefix(i)' = Prefix(i)  BY <1>1, <1>4, PrefixKept
<1>7. \A i \in 1..(n - 1) : i \in 0..n  BY <1>1
<1>8. n - 1 \in 0..n /\ n \in 1..n  BY <1>1
<1>9. \A i \in 1..(Len(side') - 1) : side'[i] = << Prefix(i)' >>  BY <1>2, <1>3, <1>6, <1>7
<1>10. prev'[h] = Prefix(Len(side) - 1)'  BY <1>2, <1>3, <1>6, <1>8
<1>11. \A i \in 1..(Len(file') - 1) : Len(file'[i]) = 1
  <2>1. \A i \in 1..(Len(file') - 1) : i \in 1..n /\ (i \in 1..(n - 1) \/ i = n)  BY <1>1, <1>4
  <2> QED  BY <1>3, <1>4, <1>5, <2>1
<1> QED  BY <1>2, <1>3, <1>4, <1>8, <1>9, <1>10, <1>11 DEF QuietInv, OpenLine

\* extend_chain writes the MAC of the whole prefix, on the empty line it finds.
LEMMA QuietMac ==
    ASSUME TypeOK, NEW h \in Handles, QuietInv(h), clean, ExtendChain(h)
    PROVE  QuietInv(h)'
<1> DEFINE mac == Append(prev[h], cur[h])
<1>1. PICK m \in Nat : m = Len(side)  BY DEF TypeOK
<1>2. side \in Seq(Seq(Seq(Nat))) /\ m \in Nat /\ m > 0 /\ mac \in Seq(Nat)  BY <1>1 DEF TypeOK
<1>3. /\ pc[h] = "mac" /\ pc'[h] = "macnewline" /\ cur' = cur /\ file' = file /\ prev' = prev
      /\ side' = WriteText(side, mac)
  BY DEF ExtendChain, TypeOK
<1>4. /\ \A i \in 1..(Len(file) - 1) : Len(file[i]) = 1
      /\ \A i \in 1..(m - 1) : side[i] = << Prefix(i) >>
      /\ prev[h] = Prefix(m - 1) /\ Len(file) = m + 1 /\ file[m] = <<cur[h]>> /\ OpenLine = <<>>
      /\ side[m] = <<>>
  BY <1>1, <1>3 DEF QuietInv
<1> HIDE DEF mac
<1>5. Len(side') = m /\ (\A i \in 1..(m - 1) : side'[i] = side[i]) /\ side'[m] = Append(side[m], mac)
  BY <1>1, <1>2, <1>3, TextWritten
<1>6. side'[m] = <<mac>>  BY <1>4, <1>5
<1>7. OpenLine' = OpenLine /\ \A i : Prefix(i)' = Prefix(i)  BY <1>3 DEF OpenLine, Prefix
<1>8. \A i \in 1..(m - 1) : side'[i] = << Prefix(i)' >>  BY <1>4, <1>5, <1>7
<1>9. prev'[h] = Prefix(m - 1)'  BY <1>3, <1>4, <1>7
<1>10. prev'[h] = Prefix(Len(side) - 1)'  BY <1>5, <1>9 DEF Prefix
<1> QED  BY <1>3, <1>4, <1>5, <1>6, <1>7, <1>8, <1>10 DEF QuietInv, mac

\* A prefix and the line after it.
LEMMA PrefixGrows ==
    ASSUME TypeOK, NEW n \in Nat, n > 0, NEW e \in Nat, file[n] = <<e>>, Prefix(n - 1) \in Seq(Nat)
    PROVE  Append(Prefix(n - 1), e) = Prefix(n)
<1> DEFINE old == Prefix(n - 1)
           new == Append(old, e)
<1>1. old \in Seq(Nat) /\ DOMAIN old = 1..(n - 1) /\ \A j \in 1..(n - 1) : old[j] = file[j][1]
  BY DEF Prefix
<1>2. Len(old) = n - 1
  <2>1. Len(old) \in Nat /\ DOMAIN old = 1..Len(old)  BY <1>1
  <2> HIDE DEF old
  <2>2. 1..Len(old) = 1..(n - 1)  BY <1>1, <2>1
  <2> QED  BY <2>1, <2>2
<1> HIDE DEF old
<1>3. /\ new \in Seq(Nat) /\ Len(new) = n /\ DOMAIN new = 1..n
      /\ new[n] = e /\ \A j \in 1..(n - 1) : new[j] = old[j]
  BY <1>1, <1>2
<1> HIDE DEF new
<1>4. file[n][1] = e  OBVIOUS
<1>5. \A j \in 1..n : new[j] = file[j][1]
  <2>1. \A j \in 1..n : j \in 1..(n - 1) \/ j = n  OBVIOUS
  <2> QED  BY <1>1, <1>3, <1>4, <2>1
<1>6. new = [j \in 1..n |-> new[j]]  BY <1>3
<1>7. new = Prefix(n)  BY <1>5, <1>6 DEF Prefix
<1> QED  BY <1>7 DEF new, old

\* The newline of the MAC: sidecar and file are level again, and `prev` has moved.
LEMMA QuietMacNewline ==
    ASSUME TypeOK, NEW h \in Handles, QuietInv(h), clean, ChainExtended(h)
    PROVE  QuietInv(h)'
<1> DEFINE mac == Append(prev[h], cur[h])
<1>1. PICK m \in Nat : m = Len(side)  BY DEF TypeOK
<1>2. /\ side \in Seq(Seq(Seq(Nat))) /\ m \in Nat /\ m > 0 /\ mac \in Seq(Nat)
      /\ prev[h] \in Seq(Nat) /\ cur[h] \in Nat
  BY <1>1 DEF TypeOK
<1>3. /\ pc[h] = "macnewline" /\ pc'[h] = "idle" /\ cur' = cur /\ file' = file /\ prev'[h] = mac
      /\ side' = WriteNewline(side)
  BY DEF ChainExtended, TypeOK
<1>4. /\ \A i \in 1..(Len(file) - 1) : Len(file[i]) = 1
      /\ \A i \in 1..(m - 1) : side[i] = << Prefix(i) >>
      /\ prev[h] = Prefix(m - 1) /\ Len(file) = m + 1 /\ file[m] = <<cur[h]>> /\ OpenLine = <<>>
      /\ side[m] = << mac >>
  BY <1>1, <1>3 DEF QuietInv
<1>5. mac = Prefix(m)  BY <1>2, <1>4, PrefixGrows
<1> HIDE DEF mac
<1>6. Len(side') = m + 1 /\ (\A i \in 1..m : side'[i] = side[i]) /\ side'[m + 1] = <<>>
  BY <1>1, <1>2, <1>3, NewlineWritten
<1>7. OpenLine' = OpenLine /\ \A i : Prefix(i)' = Prefix(i)  BY <1>3 DEF OpenLine, Prefix
<1>8. \A i \in 1..m : side'[i] = << Prefix(i)' >>
  <2>1. \A i \in 1..m : i \in 1..(m - 1) \/ i = m  BY <1>2
  <2> QED  BY <1>4, <1>5, <1>6, <1>7, <2>1
<1>9. (m + 1) - 1 = m  BY <1>2
<1>10. \A i \in 1..(Len(side') - 1) : side'[i] = << Prefix(i)' >>  BY <1>6, <1>8, <1>9
<1>11. prev'[h] = Prefix(m)' /\ Len(side') - 1 = m  BY <1>3, <1>5, <1>6, <1>7, <1>9
<1>12. prev'[h] = Prefix(Len(side) - 1)'  BY <1>11 DEF Prefix
<1> QED  BY <1>3, <1>4, <1>6, <1>7, <1>10, <1>12 DEF QuietInv

\* with_file_hmac resumes the chain: the MAC it reads back is the one of the
\* whole file.
LEMMA QuietRestart ==
    ASSUME TypeOK, EntryInv, ChainInv, NEW h \in Handles, QuietInv(h), clean, pc[h] = "idle", Restart
    PROVE  QuietInv(h)'
<1> DEFINE mac == ReadLastChainMac(side)
<1>1. PICK m \in Nat : m = Len(side)  BY DEF TypeOK
<1>2. side \in Seq(Seq(Seq(Nat))) /\ m > 0 /\ prev[h] \in Seq(Nat)  BY <1>1 DEF TypeOK
<1>3. pc'[h] = "idle" /\ file' = file /\ side' = side /\ prev'[h] = mac  BY DEF Restart
<1>4. /\ \A i \in 1..(Len(file) - 1) : Len(file[i]) = 1
      /\ \A i \in 1..(m - 1) : side[i] = << Prefix(i) >>
      /\ prev[h] = Prefix(m - 1) /\ Len(file) = m /\ OpenLine = <<>> /\ side[m] = <<>>
  BY <1>1 DEF QuietInv
<1>5. /\ \A n \in 1..m :
            /\ side[n] # <<>> /\ Len(side[n]) = 1 /\ side[n][1] # TornMac
            /\ \A i \in 1..m : side[i] # <<>> => i <= n
            => mac = side[n][1]
      /\ (\A i \in 1..m : side[i] = <<>>) => mac = Genesis
  BY <1>1, <1>2, LastMacRead
<1> HIDE DEF mac
<1>6. mac = Prefix(m - 1)
  <2>1. CASE m = 1
    <3>1. \A i \in 1..m : side[i] = <<>>  BY <1>4, <2>1
    <3>2. mac = <<>>  BY <1>5, <3>1 DEF Genesis
    <3>3. Prefix(m - 1) = <<>>  BY <2>1 DEF Prefix
    <3> QED  BY <3>2, <3>3
  <2>2. CASE m # 1
    <3> DEFINE n == m - 1
    <3>1. n \in 1..m /\ n \in 1..(m - 1) /\ n \in Nat /\ 1 \in 1..n  BY <1>2, <2>2
    <3>2. \A i \in 1..m : side[i] # <<>> => i <= n
      <4>1. \A i \in 1..m : i = m \/ i <= n  BY <1>1
      <4> QED  BY <1>4, <4>1
    <3>3. side[n] = << Prefix(n) >>  BY <1>4, <3>1
    <3>4. prev[h] = Prefix(n)  BY <1>4
    <3> HIDE DEF n
    <3>5. side[n] # <<>> /\ Len(side[n]) = 1 /\ side[n][1] = Prefix(n)  BY <3>3
    <3>6. Prefix(n) # TornMac
      <4>1. 1 \in DOMAIN prev[h]  BY <3>1, <3>4 DEF Prefix
      <4>2. prev[h][1] \in 1..pushes  BY <4>1 DEF ChainInv, Chained, EntryInv
      <4>3. TornMac[1] = 0  BY DEF TornMac, Torn
      <4>4. prev[h][1] # 0  BY <4>2
      <4> QED  BY <3>4, <4>3, <4>4
    <3>7. mac = Prefix(n)  BY <1>5, <3>1, <3>2, <3>5, <3>6
    <3> QED  BY <3>7 DEF n
  <2> QED  BY <2>1, <2>2
<1>7. OpenLine' = OpenLine /\ \A i : Prefix(i)' = Prefix(i)  BY <1>3 DEF OpenLine, Prefix
<1>8. prev'[h] = Prefix(Len(side) - 1)'  BY <1>1, <1>3, <1>6 DEF Prefix
<1>9. \A i \in 1..(Len(side') - 1) : side'[i] = << Prefix(i)' >>  BY <1>1, <1>3, <1>4, <1>7
<1> QED  BY <1>1, <1>3, <1>4, <1>7, <1>8, <1>9 DEF QuietInv

\* With one handle, every step that leaves the log undisturbed keeps file,
\* sidecar and chain in step.
LEMMA QuietStep ==
    ASSUME TypeOK, EntryInv, ChainInv, NEW h, Handles = {h}, QuietInv(h), [Next]_vars
    PROVE  QuietInv(h)'
<1>1. h \in Handles  OBVIOUS
<1>2. CASE ~clean'  BY <1>2 DEF QuietInv
<1>3. CASE clean'
  <2>1. CASE PushInMemory(h) \/ UNCHANGED vars
    BY <2>1 DEF PushInMemory, sinks, history, vars, QuietInv, OpenLine, Prefix
  <2>2. CASE PushLine(h)
    <3>1. clean  BY <1>3, <2>2 DEF PushLine, history
    <3> QED  BY <1>1, <2>2, <3>1, QuietLine
  <2>3. CASE PushNewline(h)
    <3>1. clean  BY <1>3, <2>3 DEF PushNewline
    <3> QED  BY <1>1, <2>3, <3>1, QuietNewline
  <2>4. CASE ExtendChain(h)
    <3>1. clean  BY <1>3, <2>4 DEF ExtendChain, history
    <3> QED  BY <1>1, <2>4, <3>1, QuietMac
  <2>5. CASE ChainExtended(h)
    <3>1. clean  BY <1>3, <2>5 DEF ChainExtended, history
    <3> QED  BY <1>1, <2>5, <3>1, QuietMacNewline
  <2>6. CASE LineFails(h) \/ NewlineFails(h) \/ MacFails(h)
    <3>1. SinkFails(h)  BY <2>6 DEF LineFails, NewlineFails, MacFails
    <3>2. ~clean'  BY <3>1 DEF SinkFails
    <3> QED  BY <1>3, <3>2
  <2>7. CASE Restart
    <3>1. clean /\ pc[h] = "idle"  BY <1>1, <1>3, <2>7, Zenon DEF Restart
    <3> QED  BY <1>1, <2>7, <3>1, QuietRestart
  <2> QED  BY <2>1, <2>2, <2>3, <2>4, <2>5, <2>6, <2>7 DEF Next
<1> QED  BY <1>2, <1>3

-----------------------------------------------------------------------------
(* One handle: the results *)

\* The empty log has lost nothing and is in step with its empty sidecar.
LEMMA OneHandleInitial ==
    ASSUME Init, NEW h, Handles = {h}
    PROVE  OneHandleInv(h)
<1>1. LogInv  BY LogInitial
<1>2. DiskInv(h)
  <2>1. Lost = {}  BY DEF Init, Lost
  <2>2. Cardinality(Lost) = 0  BY <2>1, FS_EmptySet
  <2>3. file[Len(file)] = <<>>  BY DEF Init, Empty
  <2>4. pc[h] = "idle" /\ restarts = 0 /\ persisted = {}  BY DEF Init
  <2>5. ~Spoiled(h)  BY <2>3, <2>4 DEF Spoiled, OpenLine
  <2> QED  BY <2>1, <2>2, <2>4, <2>5 DEF DiskInv
<1>3. QuietInv(h)
  <2>1. Len(file) = 1 /\ Len(side) = 1 /\ file[1] = <<>> /\ side[1] = <<>>  BY DEF Init, Empty
  <2>2. pc[h] = "idle" /\ prev[h] = <<>>  BY DEF Init, Genesis
  <2>3. Prefix(0) = <<>>  BY DEF Prefix
  <2>4. 1..(1 - 1) = {} /\ 1 - 1 = 0  OBVIOUS
  <2> QED  BY <2>1, <2>2, <2>3, <2>4 DEF QuietInv, OpenLine
<1> QED  BY <1>1, <1>2, <1>3 DEF OneHandleInv

\* With one handle on the file, whatever fails and whenever the process ends,
\* entries are lost only to restarts, and a log that nothing disturbed has one
\* entry and one MAC of its prefix per line.
THEOREM OneHandleInvariant ==
    ASSUME NEW CONSTANT h, Handles = {h}
    PROVE  Spec => []OneHandleInv(h)
<1>1. Init => OneHandleInv(h)  BY OneHandleInitial
<1>2. OneHandleInv(h) /\ [Next]_vars => OneHandleInv(h)'
  <2> SUFFICES ASSUME OneHandleInv(h), [Next]_vars PROVE OneHandleInv(h)'  OBVIOUS
  <2>1. TypeOK /\ EntryInv /\ ChainInv /\ LogInv /\ DiskInv(h) /\ QuietInv(h)
    BY DEF OneHandleInv, LogInv
  <2>2. LogInv' /\ TypeOK'
    <3>1. LogInv'  BY <2>1, LogStep
    <3> QED  BY <3>1 DEF LogInv
  <2>3. DiskInv(h)'  BY <2>1, <2>2, DiskStep
  <2>4. QuietInv(h)'  BY <2>1, QuietStep
  <2> QED  BY <2>2, <2>3, <2>4 DEF OneHandleInv
<1> QED  BY <1>1, <1>2, PTL DEF Spec

\* An undisturbed log verifies: verify_audit_chain answers Ok between pushes,
\* however often the one handle was closed and reopened.
THEOREM LogVerifies ==
    ASSUME NEW CONSTANT h, Handles = {h}
    PROVE  Spec => []QuietLogVerifies
<1>1. OneHandleInv(h) => QuietLogVerifies
  <2> SUFFICES ASSUME OneHandleInv(h), clean, \A g \in Handles : pc[g] = "idle"
               PROVE  ChainVerifies
    BY DEF QuietLogVerifies
  <2>1. PICK m \in Nat : m = Len(side)  BY DEF OneHandleInv, LogInv, TypeOK
  <2>2. /\ file \in Seq(Seq(Nat)) /\ side \in Seq(Seq(Seq(Nat))) /\ m > 0 /\ pc[h] = "idle"
    BY <2>1 DEF OneHandleInv, LogInv, TypeOK
  <2>3. /\ \A i \in 1..(m - 1) : Len(file[i]) = 1 /\ side[i] = << Prefix(i) >>
        /\ Len(file) = m /\ file[m] = <<>> /\ side[m] = <<>>
    BY <2>1, <2>2 DEF OneHandleInv, QuietInv, OpenLine
  <2> DEFINE jsonl == SubSeq(file, 1, m - 1)
             chain == SubSeq(side, 1, m - 1)
  <2>4. Lines(file) = jsonl /\ Lines(side) = chain  BY <2>1, <2>3 DEF Lines
  <2>5. 1 \in Int /\ m - 1 \in Int /\ (\A i \in 1..(m - 1) : i \in 1..m)  BY <2>2
  <2>6. /\ jsonl \in Seq(Seq(Nat))
        /\ Len(jsonl) = (IF 1 <= m - 1 THEN (m - 1) - 1 + 1 ELSE 0)
        /\ \A i \in 1..((m - 1) - 1 + 1) : jsonl[i] = file[1 + i - 1]
    <3>1. \A i \in 1..(m - 1) : file[i] \in Seq(Nat)  BY <2>2, <2>3, <2>5, ElementOfSeq
    <3> QED  BY <2>5, <3>1, SubSeqProperties
  <2>7. /\ chain \in Seq(Seq(Seq(Nat)))
        /\ Len(chain) = (IF 1 <= m - 1 THEN (m - 1) - 1 + 1 ELSE 0)
        /\ \A i \in 1..((m - 1) - 1 + 1) : chain[i] = side[1 + i - 1]
    <3>1. \A i \in 1..(m - 1) : side[i] \in Seq(Seq(Nat))  BY <2>1, <2>2, <2>5, ElementOfSeq
    <3> QED  BY <2>5, <3>1, SubSeqProperties
  <2> HIDE DEF jsonl, chain
  <2>8. (m - 1) - 1 + 1 = m - 1 /\ \A i \in 1..(m - 1) : 1 + i - 1 = i  BY <2>2
  <2>9. Len(jsonl) = m - 1 /\ Len(chain) = m - 1  BY <2>2, <2>6, <2>7
  <2>10. \A i \in 1..(m - 1) : jsonl[i] = file[i] /\ chain[i] = side[i]  BY <2>6, <2>7, <2>8
  <2>11. DOMAIN jsonl = 1..(m - 1)  BY <2>6, <2>9
  <2>12. ASSUME NEW i \in DOMAIN jsonl
         PROVE  Len(jsonl[i]) = 1 /\ chain[i] = << [j \in 1..i |-> jsonl[j][1]] >>
    <3>1. i \in 1..(m - 1) /\ \A j \in 1..i : j \in 1..(m - 1)  BY <2>11
    <3>2. \A j \in 1..i : jsonl[j] = file[j]  BY <2>10, <3>1
    <3>3. [j \in 1..i |-> jsonl[j][1]] = Prefix(i)  BY <3>2 DEF Prefix
    <3> QED  BY <2>3, <2>10, <3>1, <3>3
  <2> QED  BY <2>4, <2>9, <2>12 DEF ChainVerifies
<1> QED  BY <1>1, OneHandleInvariant, PTL

\* What is on a finished line of its own is read back.
LEMMA CompleteLoaded ==
    ASSUME TypeOK
    PROVE  persisted \ LoadEntries \subseteq Lost
<1>1. DOMAIN file = 1..Len(file) /\ Len(file) \in Nat  BY DEF TypeOK
<1>2. \A i \in 1..(Len(file) - 1) : i \in DOMAIN file  BY <1>1
<1> QED  BY <1>2 DEF Lost, Complete, LoadEntries

\* load_entries_from_file loses at most one written entry per restart.
THEOREM FewLost ==
    ASSUME NEW CONSTANT h, Handles = {h}
    PROVE  Spec => []OneLostPerRestart
<1>1. OneHandleInv(h) => OneLostPerRestart
  <2> SUFFICES ASSUME OneHandleInv(h) PROVE OneLostPerRestart  OBVIOUS
  <2> DEFINE missing == persisted \ LoadEntries
  <2>1. TypeOK /\ EntryInv /\ DiskInv(h)  BY DEF OneHandleInv, LogInv
  <2>2. missing \subseteq Lost  BY <2>1, CompleteLoaded
  <2>3. IsFiniteSet(Lost) /\ Cardinality(Lost) \in Nat  BY <2>1, LostFinite
  <2> HIDE DEF missing
  <2>4. Cardinality(missing) <= Cardinality(Lost) /\ Cardinality(missing) \in Nat
    BY <2>2, <2>3, FS_Subset, FS_CardinalityType
  <2>5. restarts \in Nat /\ Cardinality(Lost) <= restarts  BY <2>1 DEF TypeOK, DiskInv
  <2>6. Cardinality(missing) <= restarts  BY <2>3, <2>4, <2>5
  <2> QED  BY <2>6 DEF OneLostPerRestart, missing
<1> QED  BY <1>1, OneHandleInvariant, PTL

\* What the ring dropped can be read back, but for the first entry of a process
\* that started behind an open line.
THEOREM DroppedIsRecoverable ==
    ASSUME NEW CONSTANT h, Handles = {h}
    PROVE  Spec => []RecentRecoverable
<1>1. OneHandleInv(h) => RecentRecoverable
  <2> SUFFICES ASSUME OneHandleInv(h), NEW e \in (opened + 1)..pushes
               PROVE  \/ Pushing(e)
                      \/ Remembered(e)
                      \/ /\ MaxInMemory > 0 /\ pushes - e >= MaxInMemory
                         /\ \/ e \notin persisted \ LoadEntries
                            \/ restarts > 0 /\ \A d \in persisted : d <= opened \/ e <= d
    BY DEF RecentRecoverable, Pushing, Remembered
  <2>1. TypeOK /\ RingInv /\ DiskInv(h)  BY DEF OneHandleInv, LogInv
  <2>2. Pushing(e) \/ Remembered(e) \/ (MaxInMemory > 0 /\ pushes - e >= MaxInMemory)
    BY <2>1 DEF RingInv
  <2>3. ~(e <= opened)
    <3>1. opened \in Nat /\ pushes \in Nat  BY <2>1 DEF TypeOK
    <3> QED  BY <3>1
  <2>4. e \in persisted \ LoadEntries => e \in Lost  BY <2>1, CompleteLoaded
  <2>5. e \in Lost => restarts > 0 /\ \A d \in persisted : d <= opened \/ e <= d
    BY <2>1, <2>3 DEF DiskInv
  <2> QED  BY <2>2, <2>4, <2>5
<1> QED  BY <1>1, OneHandleInvariant, PTL
=============================================================================

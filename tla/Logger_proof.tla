----------------------------- MODULE Logger_proof -----------------------------
(***************************************************************************)
(* Proofs that a line of base/log/Logging.cc shows the second it was       *)
(* logged in, that a FATAL line is flushed before the process aborts, and  *)
(* what fits in the buffer, for any threads, zones, sinks, clock and       *)
(* messages.                                                               *)
(***************************************************************************)
EXTENDS Logger, SequenceTheorems, WellFoundedInduction, TLAPS

Shown == [second : Nat, in : Zones]

TypeOK ==
  /\ clock \in Clocks /\ zone \in Zones /\ output \in Sinks /\ flush \in Sinks
  /\ lastSecond \in [LogThreads -> Nat] /\ time \in [LogThreads -> Shown]
  /\ setSince \in [LogThreads -> BOOLEAN]
  /\ pc \in [LogThreads -> {"idle", "output", "flush", "abort"}]
  /\ DOMAIN line = LogThreads
  /\ pending \in [Sinks -> SUBSET LogThreads]

(* t_time shows t_lastSecond, in the present zone or one that has been        *)
(* replaced since.                                                            *)
CacheInv ==
  \A t \in LogThreads :
    /\ time[t].second = lastSecond[t]
    /\ time[t].in # zone => setSince[t]

LineInv(ln) ==
  /\ ln.message \in Messages
  /\ ln.shown.second = ln.second
  /\ ln.shown.in # ln.suffix => ln.setSince

(* A thread about to abort has flushed its line, and nobody exchanges g_flush *)
(* or g_output behind its back.                                               *)
FatalInv ==
  /\ \A t \in LogThreads : pc[t] = "abort" /\ output = flush => t \notin pending[output]
  /\ aborted # Nobody => aborted \in LogThreads /\ pc[aborted] = "abort"

IInv ==
  /\ TypeOK /\ CacheInv /\ FatalInv
  /\ \A t \in LogThreads : pc[t] = "output" => LineInv(line[t])

(* Nothing has been rendered, in UTC. *)
LEMMA InitIInv == Init => IInv
<1> SUFFICES ASSUME Init PROVE IInv
  OBVIOUS
<1>1. NoZone \in Zones /\ [second |-> 0, in |-> NoZone] \in Shown
  BY LoggerAssumption DEF Shown
<1>2. TypeOK
  BY <1>1 DEF Init, TypeOK
<1>3. CacheInv /\ FatalInv /\ \A t \in LogThreads : pc[t] # "output"
  BY DEF Init, CacheInv, FatalInv
<1> QED BY <1>2, <1>3 DEF IInv

(* The time comes from the cache, which is right for this second. *)
LEMMA LogIInv ==
  ASSUME IInv, NEW t \in LogThreads, NEW l, NEW m \in Messages, Log(t, l, m)
  PROVE  IInv'
<1>1. /\ clock \in Nat /\ clock \in Clocks /\ zone \in Zones /\ pc[t] = "idle" /\ Alive
      /\ FormatTime(t)
      /\ line' = [line EXCEPT ![t] = [level |-> l, second |-> clock, shown |-> time'[t],
                                      suffix |-> zone, setSince |-> setSince'[t], message |-> m]]
      /\ pc' = [pc EXCEPT ![t] = "output"]
      /\ UNCHANGED <<clock, logLevel, zone, output, flush, pending, aborted>>
  BY LoggerAssumption DEF Log, globals, IInv, TypeOK
<1>2. /\ lastSecond' \in [LogThreads -> Nat] /\ time' \in [LogThreads -> Shown]
      /\ setSince' \in [LogThreads -> BOOLEAN]
      /\ CacheInv' /\ time'[t].second = clock
  <2>1. CASE clock # lastSecond[t]
    <3>1. /\ lastSecond' = [lastSecond EXCEPT ![t] = clock]
          /\ time' = [u \in LogThreads |-> IF u = t THEN [second |-> clock, in |-> zone] ELSE time[u]]
          /\ setSince' = [setSince EXCEPT ![t] = FALSE]
      BY <1>1, <2>1 DEF FormatTime, Caches
    <3>2. [second |-> clock, in |-> zone] \in Shown
      BY <1>1 DEF Shown
    <3>3. /\ lastSecond' \in [LogThreads -> Nat] /\ time' \in [LogThreads -> Shown]
          /\ setSince' \in [LogThreads -> BOOLEAN]
      BY <1>1, <3>1, <3>2 DEF IInv, TypeOK
    <3>4. ASSUME NEW u \in LogThreads
          PROVE  time'[u].second = lastSecond'[u] /\ (time'[u].in # zone' => setSince'[u])
      BY <1>1, <3>1 DEF IInv, TypeOK, CacheInv
    <3> QED BY <3>1, <3>3, <3>4 DEF CacheInv
  <2>2. CASE clock = lastSecond[t]
    <3>1. UNCHANGED <<lastSecond, time, setSince>>
      BY <1>1, <2>2 DEF FormatTime, cache
    <3> QED BY <1>1, <2>2, <3>1 DEF IInv, TypeOK, CacheInv
  <2> QED BY <2>1, <2>2
<1>3. TypeOK'
  BY <1>1, <1>2 DEF IInv, TypeOK
<1>4. ASSUME NEW u \in LogThreads, pc'[u] = "output" PROVE LineInv(line'[u])
  <2>1. CASE u = t
    <3>1. /\ line'[u].second = clock /\ line'[u].shown = time'[t] /\ line'[u].suffix = zone
          /\ line'[u].setSince = setSince'[t] /\ line'[u].message = m
      BY <1>1, <2>1 DEF IInv, TypeOK
    <3>2. time'[t].in # zone => setSince'[t]
      BY <1>1, <1>2 DEF CacheInv
    <3> QED BY <1>2, <3>1, <3>2 DEF LineInv
  <2>2. CASE u # t
    <3>1. line'[u] = line[u] /\ pc[u] = "output"
      BY <1>1, <1>4, <2>2 DEF IInv, TypeOK
    <3> QED BY <3>1 DEF IInv
  <2> QED BY <2>1, <2>2
<1>5. FatalInv'
  BY <1>1 DEF IInv, TypeOK, FatalInv
<1> QED BY <1>2, <1>3, <1>4, <1>5 DEF IInv

(* ~Logger(): the line goes out, a FATAL one is flushed, then the process     *)
(* ends.                                                                      *)
LEMMA OutputIInv ==
  ASSUME IInv, NEW t \in LogThreads, Output(t) \/ FlushFatal(t) \/ Abort(t)
  PROVE  IInv'
<1>0. UNCHANGED <<clock, zone, output, flush, lastSecond, time, setSince>>
  BY DEF Output, FlushFatal, Abort, globals, cache
<1>1. CASE Output(t)
  <2>1. /\ pending' = [pending EXCEPT ![output] = @ \cup {t}] /\ pc[t] = "output"
        /\ pc' = [pc EXCEPT ![t] = AfterOutput(line[t].level)]
        /\ line' = [line EXCEPT ![t] = NoLine] /\ aborted' = aborted
        /\ AfterOutput(line[t].level) \in {"flush", "idle"}
    BY <1>1 DEF Output, AfterOutput
  <2>2. TypeOK'
    BY <1>0, <2>1 DEF IInv, TypeOK
  <2>3. FatalInv'
    BY <1>0, <2>1 DEF IInv, TypeOK, FatalInv
  <2>4. ASSUME NEW u \in LogThreads, pc'[u] = "output" PROVE LineInv(line'[u])
    <3>1. u # t /\ line'[u] = line[u] /\ pc[u] = "output"
      BY <2>1, <2>4 DEF IInv, TypeOK
    <3> QED BY <3>1 DEF IInv
  <2> QED BY <1>0, <2>2, <2>3, <2>4 DEF IInv, CacheInv
<1>2. CASE FlushFatal(t)
  <2>1. /\ pending' = [pending EXCEPT ![flush] = {}] /\ pc[t] = "flush"
        /\ pc' = [pc EXCEPT ![t] = "abort"] /\ UNCHANGED <<line, aborted>>
    BY <1>2 DEF FlushFatal
  <2>2. TypeOK'
    BY <1>0, <2>1 DEF IInv, TypeOK
  <2>3. FatalInv'
    BY <1>0, <2>1 DEF IInv, TypeOK, FatalInv
  <2>4. \A u \in LogThreads : pc'[u] = "output" => pc[u] = "output"
    BY <2>1 DEF IInv, TypeOK
  <2> QED BY <1>0, <2>1, <2>2, <2>3, <2>4 DEF IInv, CacheInv
<1>3. CASE Abort(t)
  <2>1. aborted' = t /\ pc[t] = "abort" /\ UNCHANGED <<pc, line, pending>>
    BY <1>3 DEF Abort
  <2> QED BY <1>0, <2>1 DEF IInv, TypeOK, CacheInv, FatalInv
<1> QED BY <1>1, <1>2, <1>3

(* Globals change while nobody logs, and a new zone makes every cache old. *)
LEMMA ConfigureIInv == IInv /\ Configure => IInv'
<1> SUFFICES ASSUME IInv, Configure PROVE IInv'
  OBVIOUS
<1>1. /\ aborted = Nobody /\ \A t \in LogThreads : pc[t] = "idle"
      /\ UNCHANGED <<clock, lastSecond, time, pc, line, pending, aborted>>
  BY DEF Configure, NobodyLogs, Alive
<1>2. FatalInv' /\ \A t \in LogThreads : pc'[t] # "output"
  BY <1>1 DEF FatalInv
<1>3. /\ zone' \in Zones /\ output' \in Sinks /\ flush' \in Sinks
      /\ setSince' \in [LogThreads -> BOOLEAN] /\ CacheInv'
  <2>1. CASE UNCHANGED <<zone, setSince>>
    BY <1>1, <2>1 DEF Configure, IInv, TypeOK, CacheInv
  <2>2. CASE /\ zone' \in Zones /\ setSince' = [t \in LogThreads |-> TRUE]
             /\ UNCHANGED <<logLevel, output, flush>>
    BY <1>1, <2>2 DEF IInv, TypeOK, CacheInv
  <2> QED BY <2>1, <2>2 DEF Configure
<1> QED BY <1>1, <1>2, <1>3 DEF IInv, TypeOK

(* The clock and the sinks' own writing *)
LEMMA OtherIInv ==
  ASSUME IInv, (\E s \in Sinks : SinkWrites(s)) \/ (\E c \in Clocks : ClockChanges(c)) \/ UNCHANGED vars
  PROVE  IInv'
<1>1. ASSUME NEW s \in Sinks, SinkWrites(s) PROVE IInv'
  <2>1. /\ pending' = [pending EXCEPT ![s] = {}]
        /\ UNCHANGED <<clock, zone, output, flush, lastSecond, time, setSince, pc, line, aborted>>
    BY <1>1 DEF SinkWrites, globals, cache
  <2> QED BY <2>1 DEF IInv, TypeOK, CacheInv, FatalInv
<1>2. ASSUME NEW c \in Clocks, ClockChanges(c) PROVE IInv'
  <2>1. clock' = c /\ UNCHANGED <<zone, output, flush, lastSecond, time, setSince, pc, line, pending, aborted>>
    BY <1>2 DEF ClockChanges, globals, cache
  <2> QED BY <2>1 DEF IInv, TypeOK, CacheInv, FatalInv
<1>3. CASE UNCHANGED vars
  BY <1>3 DEF vars, globals, cache, IInv, TypeOK, CacheInv, FatalInv
<1> QED BY <1>1, <1>2, <1>3

(* Every step of the logging threads keeps the invariant. *)
LEMMA StepIInv == IInv /\ [Next]_vars => IInv'
<1> SUFFICES ASSUME IInv, [Next]_vars PROVE IInv'
  OBVIOUS
<1> QED BY LogIInv, OutputIInv, ConfigureIInv, OtherIInv DEF Next

LEMMA Invariant == Spec => []IInv
BY InitIInv, StepIInv, PTL DEF Spec

(* The time cache of a thread never shows another second, and shows another   *)
(* zone only if the zone was set after that second had been rendered.         *)
THEOREM LoggerTimesRight == Spec => []TimesRight
<1>1. IInv => TimesRight
  BY DEF IInv, TimesRight, Composed, LineInv
<1> QED BY <1>1, Invariant, PTL

(* ~Logger() loses no FATAL line in the sink that g_flush flushes. *)
THEOREM LoggerFatalLineSurvives == Spec => []FatalLineSurvives
<1>1. IInv => FatalLineSurvives
  BY DEF IInv, FatalInv, FatalLineSurvives
<1> QED BY <1>1, Invariant, PTL

-----------------------------------------------------------------------------
(* The buffer.  What a sequence of pieces uses of it is defined by recursion  *)
(* along the sequence, and shown by way of the least place where it is wrong. *)

(* Of some numbers one is the least. *)
LEMMA Least ==
  ASSUME NEW T, T \subseteq Nat, T # {}
  PROVE  \E n \in T : \A m \in T : ~ (m < n)
<1> DEFINE less == OpToRel(<, Nat)
<1>1. \A m, n \in Nat : m < n => <<m, n>> \in less
  BY DEF OpToRel
<1>2. IsWellFoundedOn(less, Nat)
  BY NatLessThanWellFounded
<1> HIDE DEF less
<1>3. PICK n \in T : \A m \in T : ~ (<<m, n>> \in less)
  BY <1>2, WFMin
<1> QED BY <1>1, <1>3

(* f goes on from a with g, up to n. *)
Continues(f, a, g, n) ==
  /\ DOMAIN f = 0..n /\ f[0] = a
  /\ \A i \in 1..n : f[i] = g[<<f[i - 1], i>>]

(* Such a function is there for every n. *)
LEMMA Recursion ==
  ASSUME NEW a, NEW g, NEW n \in Nat
  PROVE  \E f : Continues(f, a, g, n)
<1> DEFINE Bad == {m \in Nat : ~ \E f : Continues(f, a, g, m)}
<1>1. ASSUME NEW m \in Bad, \A k \in Bad : ~ (k < m) PROVE FALSE
  <2>1. CASE m = 0
    <3> DEFINE f == [i \in 0..0 |-> a]
    <3>1. Continues(f, a, g, 0)
      BY DEF Continues
    <3> QED BY <2>1, <3>1
  <2>2. CASE m # 0
    <3>1. m - 1 \in Nat /\ m - 1 \notin Bad
      BY <1>1, <2>2
    <3>2. PICK f : Continues(f, a, g, m - 1)
      BY <3>1
    <3> DEFINE h == [i \in 0..m |-> IF i = m THEN g[<<f[m - 1], m>>] ELSE f[i]]
    <3>3. DOMAIN h = 0..m /\ h[0] = a
      BY <2>2, <3>1, <3>2 DEF Continues
    <3>4. ASSUME NEW i \in 1..m PROVE h[i] = g[<<h[i - 1], i>>]
      <4>1. i - 1 \in 0..m /\ i - 1 # m /\ h[i - 1] = f[i - 1]
        BY <3>1
      <4>2. CASE i = m
        BY <3>1, <4>1, <4>2
      <4>3. CASE i # m
        <5>1. i \in 1..(m - 1) /\ h[i] = f[i]
          BY <3>1, <4>3
        <5> QED BY <3>2, <4>1, <5>1 DEF Continues
      <4> QED BY <4>2, <4>3
    <3>5. Continues(h, a, g, m)
      <4> HIDE DEF h
      <4> QED BY <3>3, <3>4 DEF Continues
    <3> HIDE DEF h
    <3> QED BY <3>5
  <2> QED BY <2>1, <2>2
<1>2. Bad \subseteq Nat
  OBVIOUS
<1>3. Bad = {}
  <2> HIDE DEF Bad
  <2> QED BY <1>1, <1>2, Least
<1> QED BY <1>3

(* Induction up to n, for a set *)
LEMMA Upward ==
  ASSUME NEW n \in Nat, NEW G, 0 \in G, \A i \in 1..n : i - 1 \in G => i \in G
  PROVE  \A i \in 0..n : i \in G
<1> DEFINE Bad == {i \in 0..n : i \notin G}
<1>1. ASSUME NEW i \in Bad, \A k \in Bad : ~ (k < i) PROVE FALSE
  <2>1. i \in 1..n
    BY <1>1
  <2>2. i - 1 \in 0..n /\ i - 1 < i
    BY <2>1
  <2> QED BY <1>1, <2>1, <2>2
<1>2. Bad \subseteq Nat
  OBVIOUS
<1>3. Bad = {}
  <2> HIDE DEF Bad
  <2> QED BY <1>1, <1>2, Least
<1> QED BY <1>3

(* What stays in S under g stays there. *)
LEMMA Stays ==
  ASSUME NEW f, NEW a, NEW g, NEW n \in Nat, NEW S, Continues(f, a, g, n),
         a \in S, \A s \in S, i \in 1..n : g[<<s, i>>] \in S
  PROVE  \A i \in 0..n : f[i] \in S
<1> DEFINE G == {i \in 0..n : f[i] \in S}
<1>1. 0 \in G
  BY DEF Continues
<1>2. ASSUME NEW i \in 1..n, i - 1 \in G PROVE i \in G
  <2>1. f[i - 1] \in S /\ i \in 0..n
    BY <1>2
  <2>2. f[i] = g[<<f[i - 1], i>>]
    BY DEF Continues
  <2> QED BY <2>1, <2>2
<1> HIDE DEF G
<1>3. \A i \in 0..n : i \in G
  BY <1>1, <1>2, Upward
<1> QED BY <1>3 DEF G

(* How full the buffer is after each piece *)
IsUsed(f, pieces) ==
  f = [i \in 0..Len(pieces) |-> IF i = 0 THEN 0 ELSE Appended(f[i - 1], pieces[i])]

(* How long the pieces are together after each of them *)
IsLength(f, pieces) ==
  f = [i \in 0..Len(pieces) |-> IF i = 0 THEN 0 ELSE f[i - 1] + pieces[i].len]

LEMMA UsedSteps ==
  ASSUME NEW pieces \in Seq(Piece)
  PROVE  \E f : IsUsed(f, pieces) /\ UsedBy(pieces) = f[Len(pieces)]
<1> DEFINE n == Len(pieces)
           g == [p \in Nat \X (1..n) |-> Appended(p[1], pieces[p[2]])]
           used == CHOOSE f : f = [i \in 0..Len(pieces) |-> IF i = 0 THEN 0 ELSE Appended(f[i - 1], pieces[i])]
<1>1. n \in Nat
  BY LenProperties
<1>2. \A i \in 1..n : pieces[i] \in Piece
  BY ElementOfSeq
<1>3. PICK f : Continues(f, 0, g, n)
  <2> HIDE DEF g, n
  <2> QED BY <1>1, Recursion
<1>4. \A s \in Nat, i \in 1..n : g[<<s, i>>] = Appended(s, pieces[i])
  <2> HIDE DEF n
  <2> QED OBVIOUS
<1>5. \A s \in Nat, i \in 1..n : Appended(s, pieces[i]) \in Nat
  <2>1. ASSUME NEW s \in Nat, NEW p \in Piece PROVE Appended(s, p) \in Nat
    BY DEF Appended, Piece
  <2> QED BY <1>2, <2>1
<1>6. \A i \in 0..n : f[i] \in Nat
  <2>1. \A s \in Nat, i \in 1..n : g[<<s, i>>] \in Nat
    BY <1>4, <1>5, Zenon
  <2>2. 0 \in Nat
    OBVIOUS
  <2> HIDE DEF g, n
  <2> DEFINE N == Nat
  <2>3. Continues(f, 0, g, n) /\ n \in Nat /\ 0 \in N /\ \A s \in N, i \in 1..n : g[<<s, i>>] \in N
    BY <1>1, <1>3, <2>1, <2>2, Zenon
  <2> HIDE DEF N
  <2>4. \A i \in 0..n : f[i] \in N
    BY <2>3, Stays
  <2> QED BY <2>4 DEF N
<1>7. \A i \in 1..n : f[i] = Appended(f[i - 1], pieces[i])
  <2> HIDE DEF g, n
  <2>1. ASSUME NEW i \in 1..n PROVE i - 1 \in 0..n
    BY <1>1
  <2> QED BY <1>3, <1>4, <1>6, <2>1 DEF Continues
<1>8. IsUsed(f, pieces)
  <2>1. \A i \in 0..n : i = 0 \/ i \in 1..n
    BY <1>1
  <2>2. f = [i \in 0..n |-> f[i]] /\ f[0] = 0
    BY <1>3 DEF Continues
  <2>3. \A i \in 0..n : f[i] = IF i = 0 THEN 0 ELSE Appended(f[i - 1], pieces[i])
    <3> HIDE DEF n, g
    <3> QED BY <1>7, <2>1, <2>2
  <2> HIDE DEF n, g
  <2>4. f = [i \in 0..n |-> IF i = 0 THEN 0 ELSE Appended(f[i - 1], pieces[i])]
    BY <2>2, <2>3, Zenon
  <2> QED BY <2>4 DEF IsUsed, n
<1>9. IsUsed(used, pieces)
  BY <1>8, Zenon DEF IsUsed
<1>10. UsedBy(pieces) = used[Len(pieces)]
  BY Zenon DEF UsedBy
<1> HIDE DEF used
<1> QED BY <1>9, <1>10

LEMMA LengthSteps ==
  ASSUME NEW pieces \in Seq(Piece)
  PROVE  \E f : IsLength(f, pieces) /\ Length(pieces) = f[Len(pieces)]
<1> DEFINE n == Len(pieces)
           g == [p \in Nat \X (1..n) |-> p[1] + pieces[p[2]].len]
           total == CHOOSE f : f = [i \in 0..Len(pieces) |-> IF i = 0 THEN 0 ELSE f[i - 1] + pieces[i].len]
<1>1. n \in Nat
  BY LenProperties
<1>2. \A i \in 1..n : pieces[i] \in Piece
  BY ElementOfSeq
<1>3. PICK f : Continues(f, 0, g, n)
  <2> HIDE DEF g, n
  <2> QED BY <1>1, Recursion
<1>4. \A s \in Nat, i \in 1..n : g[<<s, i>>] = s + pieces[i].len
  <2> HIDE DEF n
  <2> QED OBVIOUS
<1>5. \A s \in Nat, i \in 1..n : s + pieces[i].len \in Nat
  <2>1. \A p \in Piece : p.len \in Nat
    BY DEF Piece
  <2> QED BY <1>2, <2>1
<1>6. \A i \in 0..n : f[i] \in Nat
  <2>1. \A s \in Nat, i \in 1..n : g[<<s, i>>] \in Nat
    BY <1>4, <1>5, Zenon
  <2>2. 0 \in Nat
    OBVIOUS
  <2> HIDE DEF g, n
  <2> DEFINE N == Nat
  <2>3. Continues(f, 0, g, n) /\ n \in Nat /\ 0 \in N /\ \A s \in N, i \in 1..n : g[<<s, i>>] \in N
    BY <1>1, <1>3, <2>1, <2>2, Zenon
  <2> HIDE DEF N
  <2>4. \A i \in 0..n : f[i] \in N
    BY <2>3, Stays
  <2> QED BY <2>4 DEF N
<1>7. \A i \in 1..n : f[i] = f[i - 1] + pieces[i].len
  <2> HIDE DEF g, n
  <2>1. ASSUME NEW i \in 1..n PROVE i - 1 \in 0..n
    BY <1>1
  <2> QED BY <1>3, <1>4, <1>6, <2>1 DEF Continues
<1>8. IsLength(f, pieces)
  <2>1. \A i \in 0..n : i = 0 \/ i \in 1..n
    BY <1>1
  <2>2. f = [i \in 0..n |-> f[i]] /\ f[0] = 0
    BY <1>3 DEF Continues
  <2>3. \A i \in 0..n : f[i] = IF i = 0 THEN 0 ELSE f[i - 1] + pieces[i].len
    <3> HIDE DEF n, g
    <3> QED BY <1>7, <2>1, <2>2
  <2> HIDE DEF n, g
  <2>4. f = [i \in 0..n |-> IF i = 0 THEN 0 ELSE f[i - 1] + pieces[i].len]
    BY <2>2, <2>3, Zenon
  <2> QED BY <2>4 DEF IsLength, n
<1>9. IsLength(total, pieces)
  BY <1>8, Zenon DEF IsLength
<1>10. Length(pieces) = total[Len(pieces)]
  BY Zenon DEF Length
<1> HIDE DEF total
<1> QED BY <1>9, <1>10

LEMMA OnePiece ==
  ASSUME NEW u \in 0..(kSmallBuffer - 1), NEW v \in Nat, NEW p \in Piece,
         v <= kSmallBuffer - kMaxNumericSize => u = v
  PROVE  /\ Appended(u, p) \in 0..(kSmallBuffer - 1) /\ v + p.len \in Nat
         /\ v + p.len <= kSmallBuffer - kMaxNumericSize => Appended(u, p) = v + p.len
<1> DEFINE len == p.len
           numeric == p.numeric
           all == v + len
           used == Appended(u, p)
<1>1. len \in Nat /\ (numeric => len \in 1..(kMaxNumericSize - 1)) /\ numeric \in BOOLEAN
  BY Zenon DEF Piece
<1>2. /\ numeric => used = IF kSmallBuffer - u >= kMaxNumericSize THEN u + len ELSE u
      /\ ~numeric => used = IF kSmallBuffer - u > len THEN u + len ELSE u
  BY Zenon DEF Appended, Fits
<1> HIDE DEF len, numeric, used
<1>3. u \in Nat /\ u <= 3999 /\ (v <= 3968 => u = v)
  BY DEF kSmallBuffer, kMaxNumericSize
<1>4. \/ used = u + len /\ u + len < 4000
      \/ used = u /\ u + len > 3968
  <2>1. CASE numeric
    <3>1. len \in Nat /\ len < 32 /\ used = IF 4000 - u >= 32 THEN u + len ELSE u
      BY <1>1, <1>2, <2>1 DEF kSmallBuffer, kMaxNumericSize
    <3> QED BY <1>3, <3>1
  <2>2. CASE ~numeric
    <3>1. len \in Nat /\ used = IF 4000 - u > len THEN u + len ELSE u
      BY <1>1, <1>2, <2>2 DEF kSmallBuffer, kMaxNumericSize
    <3> QED BY <1>3, <3>1
  <2> QED BY <2>1, <2>2
<1>5. len \in Nat
  BY <1>1, Zenon
<1>6. used \in 0..3999 /\ all \in Nat
  <2>1. CASE used = u + len /\ u + len < 4000
    BY <1>3, <1>5, <2>1
  <2>2. CASE used = u
    BY <1>3, <1>5, <2>2
  <2> QED BY <1>4, <2>1, <2>2
<1>7. ASSUME all <= 3968 PROVE used = all
  <2>1. v <= 3968 /\ u = v
    BY <1>3, <1>5, <1>7
  <2> QED BY <1>3, <1>4, <1>5, <1>7, <2>1
<1> QED BY <1>6, <1>7 DEF used, len, kSmallBuffer, kMaxNumericSize

(* The buffer is never full, and what leaves room for a number went in whole. *)
LEMMA Fill ==
  ASSUME NEW pieces \in Seq(Piece)
  PROVE  /\ UsedBy(pieces) \in 0..(kSmallBuffer - 1)
         /\ Length(pieces) <= kSmallBuffer - kMaxNumericSize => UsedBy(pieces) = Length(pieces)
<1> DEFINE n == Len(pieces)
<1>1. PICK f : IsUsed(f, pieces) /\ UsedBy(pieces) = f[n]
  BY UsedSteps
<1>2. PICK h : IsLength(h, pieces) /\ Length(pieces) = h[n]
  BY LengthSteps
<1>3. n \in Nat /\ \A i \in 1..n : pieces[i] \in Piece
  BY LenProperties, ElementOfSeq
<1>4. f[0] = 0 /\ h[0] = 0
  BY <1>1, <1>2, <1>3 DEF IsUsed, IsLength
<1>5. \A i \in 1..n : f[i] = Appended(f[i - 1], pieces[i]) /\ h[i] = h[i - 1] + pieces[i].len
  BY <1>1, <1>2, <1>3 DEF IsUsed, IsLength
<1> DEFINE G == {i \in 0..n : /\ f[i] \in 0..(kSmallBuffer - 1) /\ h[i] \in Nat
                              /\ h[i] <= kSmallBuffer - kMaxNumericSize => f[i] = h[i]}
<1>6. 0 \in G
  BY <1>3, <1>4 DEF kSmallBuffer, kMaxNumericSize
<1>7. ASSUME NEW i \in 1..n, i - 1 \in G PROVE i \in G
  <2>1. pieces[i] \in Piece /\ i \in 0..n
    BY <1>3
  <2>2. /\ f[i - 1] \in 0..(kSmallBuffer - 1) /\ h[i - 1] \in Nat
        /\ h[i - 1] <= kSmallBuffer - kMaxNumericSize => f[i - 1] = h[i - 1]
    BY <1>7
  <2>3. /\ f[i] \in 0..(kSmallBuffer - 1) /\ h[i] \in Nat
        /\ h[i] <= kSmallBuffer - kMaxNumericSize => f[i] = h[i]
    BY <1>5, <2>1, <2>2, OnePiece
  <2> QED BY <2>1, <2>3
<1>8. \A i \in 0..n : i \in G
  <2> HIDE DEF G, n
  <2> QED BY <1>3, <1>6, <1>7, Upward
<1>9. n \in G
  BY <1>3, <1>8
<1> HIDE DEF n
<1> QED BY <1>1, <1>2, <1>9

LEMMA PiecesAreSeq ==
  ASSUME NEW ln, ln.message \in Messages
  PROVE  Pieces(ln) \in Seq(Piece)
<1>1. \A k \in Nat : Text(k) \in Piece
  BY DEF Text, Piece
<1>2. Number(3) \in Piece
  BY DEF Number, Piece, kMaxNumericSize
<1>3. TimePieces(ln.suffix) \in Seq(Piece) /\ <<Text(6), Text(6)>> \in Seq(Piece)
  BY <1>1 DEF TimePieces
<1>4. Header(ln.suffix) \in Seq(Piece)
  BY <1>3, ConcatProperties DEF Header
<1>5. FuncPieces(ln.level) \in Seq(Piece) /\ Finish \in Seq(Piece)
  BY <1>1, <1>2 DEF FuncPieces, Finish
<1>6. ln.message \in Seq(Piece)
  BY LoggerAssumption
<1> QED BY <1>4, <1>5, <1>6, ConcatProperties DEF Pieces

(* The buffer of a line always has room for the NUL that debugString() and    *)
(* convert() put at its end; the newline is lost only when one byte is left;  *)
(* and a line that leaves room for one more number has all its pieces.        *)
THEOREM LoggerLinesFit == Spec => []LinesFit
<1>1. ASSUME IInv PROVE LinesFit
  <2> SUFFICES ASSUME NEW t \in LogThreads, pc[t] = "output"
               PROVE  LET used  == UsedBy(Pieces(line[t]))
                          total == Length(Pieces(line[t]))
                      IN /\ Appended(used, Newline) < kSmallBuffer
                         /\ ~Fits(used, Newline) => used = kSmallBuffer - 1
                         /\ total <= kSmallBuffer - kMaxNumericSize => used = total
    BY DEF LinesFit, Composed
  <2>1. line[t].message \in Messages
    BY <1>1 DEF IInv, LineInv
  <2> DEFINE used == UsedBy(Pieces(line[t]))
             total == Length(Pieces(line[t]))
  <2>2. used \in 0..(kSmallBuffer - 1) /\ (total <= kSmallBuffer - kMaxNumericSize => used = total)
    BY <2>1, PiecesAreSeq, Fill
  <2> HIDE DEF used
  <2>3. Appended(used, Newline) < kSmallBuffer /\ (~Fits(used, Newline) => used = kSmallBuffer - 1)
    BY <2>2 DEF Appended, Fits, Newline, Text, kSmallBuffer
  <2> QED BY <2>2, <2>3 DEF used
<1> QED BY <1>1, Invariant, PTL

=============================================================================

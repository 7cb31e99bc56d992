------------------------- MODULE AsyncLogging_proof -------------------------
(***************************************************************************)
(* Proofs that the assertions of AsyncLogging::threadFunc() hold, and that *)
(* no line is lost, repeated or out of order, for any lines, any size of   *)
(* buffers and any limit of the backlog.                                   *)
(***************************************************************************)
EXTENDS AsyncLogging, FiniteSetTheorems, SequenceTheorems, TLAPS

Buffer == [lines : Seq(Lines), length : Nat]

Clean == {b \in Buffer : b.lines = <<>> /\ b.length = 0}

TypeOK ==
  /\ running \in BOOLEAN /\ count \in Int
  /\ owner \in {"new", "starting", "started", "stopping", "joining", "stopped"}
  /\ backend \in {"none", "begin", "head", "lock", "asleep", "woken", "write", "done"}
  /\ currentBuffer \in Buffer /\ nextBuffer \in Clean \cup {NoBuffer}
  /\ buffers \in Seq(Buffer) /\ buffersToWrite \in Seq(Buffer)
  /\ newBuffer1 \in Clean \cup {NoBuffer} /\ newBuffer2 \in Clean \cup {NoBuffer}

(* start() does not return before the back end has counted down, so stop()    *)
(* cannot clear running_ under its first assertion.                           *)
StartInv ==
  /\ backend = "none" <=> owner = "new"
  /\ count = IF backend \in {"none", "begin"} THEN 1 ELSE 0
  /\ backend = "begin" => running /\ owner = "starting"

(* No spare buffer in the front means that one is full, so that a turn which  *)
(* uses up both spares of the back end has two buffers to recycle.            *)
SpareInv ==
  /\ nextBuffer = NoBuffer => buffers # <<>>
  /\ backend # "write" =>
       newBuffer1 # NoBuffer /\ newBuffer2 # NoBuffer /\ buffersToWrite = <<>>
  /\ backend = "write" =>
       /\ newBuffer1 = NoBuffer /\ Len(buffersToWrite) >= 1
       /\ newBuffer2 = NoBuffer => Len(buffersToWrite) >= 2

IInv == TypeOK /\ StartInv /\ SpareInv

(* A buffer is not a null pointer, and an empty one is clean. *)
LEMMA Buffers == NoBuffer \notin Buffer /\ Empty \in Clean
BY AsyncAssumption DEF Buffer, Clean, Empty

(* FixedBuffer::append() gives a buffer. *)
LEMMA StoredType == \A b \in Buffer, x \in Lines : Stored(b, x) \in Buffer
<1> TAKE b \in Buffer, x \in Lines
<1>1. b.lines \in Seq(Lines) /\ b.length \in Nat /\ Size[x] \in Nat
  BY AsyncAssumption DEF Buffer
<1>2. Append(b.lines, x) \in Seq(Lines) /\ b.length + Size[x] \in Nat
  BY <1>1
<1> QED BY <1>2 DEF Stored, Buffer

(* resize(2), and the erase() that keeps two of a backlog. *)
LEMMA FirstTwo ==
  ASSUME NEW s \in Seq(Buffer), Len(s) >= 2
  PROVE  SubSeq(s, 1, 2) \in Seq(Buffer) /\ Len(SubSeq(s, 1, 2)) = 2
<1>1. \A i \in 1..2 : s[i] \in Buffer
  OBVIOUS
<1> QED BY <1>1, SubSeqProperties

(* Cutting a backlog and resize(2) leave as many buffers as can be recycled.  *)
LEMMA RecyclableType ==
  ASSUME buffersToWrite \in Seq(Buffer)
  PROVE  /\ Recyclable \in Seq(Buffer)
         /\ Len(buffersToWrite) >= 2 => Len(Recyclable) >= 2
         /\ Len(buffersToWrite) >= 1 => Len(Recyclable) >= 1
<1>0. DropLimit \in Nat /\ DropLimit >= 2 /\ Len(buffersToWrite) \in Nat
  BY AsyncAssumption
<1>1. /\ Kept \in Seq(Buffer)
      /\ Len(buffersToWrite) >= 2 => Len(Kept) >= 2
      /\ Len(buffersToWrite) >= 1 => Len(Kept) >= 1
  <2>1. CASE Len(buffersToWrite) > DropLimit
    <3>1. Kept = SubSeq(buffersToWrite, 1, 2) /\ Len(buffersToWrite) >= 2
      BY <1>0, <2>1 DEF Kept
    <3> QED BY <1>0, <3>1, FirstTwo
  <2>2. CASE ~(Len(buffersToWrite) > DropLimit)
    BY <2>2 DEF Kept
  <2> QED BY <2>1, <2>2
<1>2. CASE Len(Kept) > 2
  <2>1. Len(Kept) >= 2 /\ Recyclable = SubSeq(Kept, 1, 2)
    BY <1>1, <1>2 DEF Recyclable
  <2> QED BY <1>1, <2>1, FirstTwo
<1>3. CASE ~(Len(Kept) > 2)
  <2>1. Recyclable = Kept
    BY <1>3 DEF Recyclable
  <2> QED BY <1>1, <2>1
<1> QED BY <1>2, <1>3

(* Nothing has been logged or started. *)
LEMMA InitIInv == Init => IInv
<1> SUFFICES ASSUME Init PROVE IInv
  OBVIOUS
<1>1. Empty \in Clean /\ Empty \in Buffer /\ Empty # NoBuffer /\ LatchCount = 1
  BY Buffers, AsyncAssumption DEF Clean
<1>2. TypeOK
  <2>1. <<>> \in Seq(Buffer)
    OBVIOUS
  <2>2. running \in BOOLEAN /\ owner = "new" /\ backend = "none"
    BY Zenon DEF Init
  <2>4. count \in Int
    BY <1>1 DEF Init, LatchInit
  <2>3. buffers \in Seq(Buffer) /\ buffersToWrite \in Seq(Buffer)
    BY <2>1 DEF Init
  <2> QED BY <1>1, <2>2, <2>3, <2>4 DEF Init, TypeOK
<1>3. StartInv /\ SpareInv
  BY <1>1 DEF Init, LatchInit, StartInv, SpareInv
<1> QED BY <1>2, <1>3 DEF IInv

(* start(), stop(), and the owner in the latch *)
LEMMA OwnerIInv ==
  IInv /\ (Start \/ StopFlag \/ OwnerStep \/ LatchStep) => IInv'
<1> SUFFICES ASSUME IInv, Start \/ StopFlag \/ OwnerStep \/ LatchStep PROVE IInv'
  OBVIOUS
<1> USE DEF IInv, TypeOK, StartInv, SpareInv, front, spare, control, latchVars
<1>1. CASE Start
  <2>1. UNCHANGED <<front, spare>> /\ running' = TRUE /\ owner' = "starting" /\ backend' = "begin"
    BY <1>1, Zenon DEF Start
  <2>2. count' = count /\ backend = "none"
    BY <1>1 DEF Start, WaitCall
  <2> QED BY <2>1, <2>2
<1>2. CASE StopFlag
  BY <1>2 DEF StopFlag
<1>3. CASE StartReturn
  BY <1>3 DEF StartReturn, WaitReturn
<1>4. CASE StopNotify
  BY <1>4 DEF StopNotify, Notified
<1>5. CASE StopReturn
  BY <1>5 DEF StopReturn
<1>6. CASE LatchStep
  BY <1>6 DEF LatchStep, WaitSleep, WaitWakesAlone
<1> QED BY <1>1, <1>2, <1>3, <1>4, <1>5, <1>6 DEF OwnerStep

(* append(): a spare buffer is used up only when a full one is put away. *)
LEMMA AppendIInv ==
  ASSUME IInv, NEW x \in Lines, AppendFits(x) \/ AppendRotates(x)
  PROVE  IInv'
<1> USE DEF IInv, StartInv, SpareInv, spare, control, latchVars
<1>0. currentBuffer \in Buffer /\ Empty \in Buffer
  BY Buffers DEF TypeOK, Clean
<1>1. CASE AppendFits(x)
  <2>1. currentBuffer' \in Buffer
    BY <1>0, <1>1, StoredType DEF AppendFits
  <2> QED BY <1>1, <2>1 DEF AppendFits, TypeOK
<1>2. CASE AppendRotates(x)
  <2>1. currentBuffer' \in Buffer
    <3>1. (IF nextBuffer # NoBuffer THEN nextBuffer ELSE Empty) \in Buffer
      BY <1>0 DEF TypeOK, Clean
    <3>2. currentBuffer' = Stored(IF nextBuffer # NoBuffer THEN nextBuffer ELSE Empty, x)
      BY <1>2, Zenon DEF AppendRotates
    <3> QED BY <3>1, <3>2, StoredType
  <2>2. buffers' \in Seq(Buffer) /\ buffers' # <<>>
    BY <1>0, <1>2 DEF AppendRotates, TypeOK
  <2>3. TypeOK'
    BY <1>2, <2>1, <2>2 DEF AppendRotates, Notified, TypeOK
  <2>4. StartInv' /\ SpareInv'
    BY <1>2, <2>2 DEF AppendRotates, Notified
  <2> QED BY <2>3, <2>4
<1> QED BY <1>1, <1>2

(* The back end takes as many buffers as it gives spares away, and gets as    *)
(* many clean ones back from what it has written.                             *)
LEMMA BackendIInv == IInv /\ BackendStep => IInv'
<1> SUFFICES ASSUME IInv, BackendStep PROVE IInv'
  OBVIOUS
<1> USE DEF IInv, StartInv, SpareInv, front, spare, control, latchVars
<1>1. CASE BackendBegins
  BY <1>1 DEF BackendBegins, CountDown, TypeOK
<1>2. CASE BackendTests
  BY <1>2 DEF BackendTests, TypeOK
<1>3. CASE BackendSleeps
  BY <1>3 DEF BackendSleeps, TypeOK
<1>4. CASE BackendTimesOut
  BY <1>4 DEF BackendTimesOut, TypeOK
<1>5. CASE BackendSwaps
  <2>1. backend \in {"lock", "woken"} /\ newBuffer1 \in Clean /\ newBuffer2 \in Clean
    BY <1>5 DEF BackendSwaps, HasLock, TypeOK
  <2>2. newBuffer1 \in Buffer /\ newBuffer2 \in Buffer /\ newBuffer2 # NoBuffer
    BY <2>1, Buffers DEF Clean
  <2>3. buffers \in Seq(Buffer) /\ currentBuffer \in Buffer
    BY DEF TypeOK
  <2>4. /\ buffersToWrite' \in Seq(Buffer) /\ Len(buffersToWrite') >= 1
        /\ buffers # <<>> => Len(buffersToWrite') >= 2
    BY <1>5, <2>3 DEF BackendSwaps
  <2>5. TypeOK'
    BY <1>5, <2>1, <2>2, <2>4 DEF BackendSwaps, TypeOK
  <2>6. StartInv' /\ SpareInv'
    BY <1>5, <2>1, <2>2, <2>4 DEF BackendSwaps
  <2> QED BY <2>5, <2>6
<1>6. CASE BackendWrites
  <2>1. backend = "write" /\ newBuffer1 = NoBuffer
    BY <1>6 DEF BackendWrites
  <2>2. newBuffer1' = Empty /\ newBuffer2' = IF newBuffer2 = NoBuffer THEN Empty ELSE newBuffer2
    BY <1>6, <2>1 DEF BackendWrites, Reset
  <2>3. /\ Empty \in Clean /\ Empty # NoBuffer
    BY Buffers DEF Clean
  <2>4. newBuffer1' \in Clean /\ newBuffer1' # NoBuffer
        /\ newBuffer2' \in Clean /\ newBuffer2' # NoBuffer
    BY <2>2, <2>3 DEF TypeOK
  <2>5. buffersToWrite' = <<>> /\ buffersToWrite' \in Seq(Buffer) /\ backend' = "head"
    BY <1>6 DEF BackendWrites
  <2> QED BY <1>6, <2>1, <2>4, <2>5 DEF BackendWrites, TypeOK
<1> QED BY <1>1, <1>2, <1>3, <1>4, <1>5, <1>6 DEF BackendStep

(* Every step of the logger keeps the invariant. *)
LEMMA StepIInv == IInv /\ [Next]_asyncVars => IInv'
<1> SUFFICES ASSUME IInv, [Next]_asyncVars PROVE IInv'
  OBVIOUS
<1>1. CASE Next
  BY <1>1, OwnerIInv, AppendIInv, BackendIInv DEF Next
<1>2. CASE UNCHANGED asyncVars
  BY <1>2 DEF asyncVars, IInv, TypeOK, StartInv, SpareInv, front, spare, control, latchVars
<1> QED BY <1>1, <1>2

(* At most as many of two spares are missing as there are buffers. *)
LEMMA Missing ==
  ASSUME IInv, backend = "write"
  PROVE  Len(Recyclable) >= Cardinality({i \in 1..2 : <<newBuffer1, newBuffer2>>[i] = NoBuffer})
<1> DEFINE M == {i \in 1..2 : <<newBuffer1, newBuffer2>>[i] = NoBuffer}
<1>1. /\ Len(Recyclable) \in Nat /\ Len(Recyclable) >= 1
      /\ newBuffer2 = NoBuffer => Len(Recyclable) >= 2
  BY RecyclableType DEF IInv, TypeOK, SpareInv
<1>2. newBuffer1 = NoBuffer
  BY DEF IInv, SpareInv
<1>3. CASE newBuffer2 = NoBuffer
  <2>1. M = {1} \cup {2}
    BY <1>2, <1>3
  <2>2. IsFiniteSet({1}) /\ Cardinality({1}) = 1
    BY FS_Singleton, Zenon
  <2>3. Cardinality({1} \cup {2}) = 2
    BY <2>2, FS_AddElement
  <2>4. Cardinality(M) = 2
    BY <2>1, <2>3, Zenon
  <2> QED BY <1>1, <1>3, <2>4
<1>4. CASE newBuffer2 # NoBuffer
  <2>1. M = {1}
    BY <1>2, <1>4
  <2>2. Cardinality({1}) = 1
    BY FS_Singleton
  <2> QED BY <1>1, <2>1, <2>2
<1> QED BY <1>3, <1>4

(* The assertions of threadFunc() follow from the invariant. *)
LEMMA IInvAssertions == IInv => AssertionsHold
<1> SUFFICES ASSUME IInv PROVE AssertionsHold
  OBVIOUS
<1>1. backend = "begin" => running
  BY DEF IInv, StartInv
<1>2. backend \in {"lock", "asleep", "woken"} =>
        \A b \in {newBuffer1, newBuffer2} : b # NoBuffer /\ b.length = 0
  BY DEF IInv, TypeOK, SpareInv, Clean
<1> QED BY <1>1, <1>2, Missing DEF AssertionsHold

(* The assertions of threadFunc() hold: running_ is set when the back end     *)
(* begins, and whatever mix of full, current and dropped buffers a turn has,  *)
(* two clean spares are there at its head and enough to recycle at its end.   *)
THEOREM AsyncAssertionsHold == Spec => []AssertionsHold
BY InitIInv, StepIInv, IInvAssertions, PTL DEF Spec

-----------------------------------------------------------------------------
(* What is at a place of a chunk is in the contents, and nothing else. *)
LEMMA ContentsFacts ==
  ASSUME NEW C, NEW x
  PROVE  x \in Contents(C) <=> \E c \in DOMAIN C : \E i \in DOMAIN C[c] : C[c][i] = x
BY DEF Contents, ToSet

(* A new line takes the last place, the other lines keep theirs. *)
LastTaken(C, D, x) ==
  \A c \in DOMAIN D : \A i \in DOMAIN D[c] :
    \/ c \in DOMAIN C /\ i \in DOMAIN C[c] /\ D[c][i] = C[c][i] /\ D[c][i] # x
    \/ /\ D[c][i] = x
       /\ \A d \in DOMAIN D : \A j \in DOMAIN D[d] : ~(c < d \/ (c = d /\ i < j))

LEMMA LastPlace ==
  ASSUME NEW C, NEW D, NEW A, NEW B, NEW x, NEW m \in Nat, InOrder(C, A), LastTaken(C, D, x),
         DOMAIN A = 1..m, DOMAIN B = 1..(m + 1), B[m + 1] = x,
         \A a \in DOMAIN A : A[a] # x /\ B[a] = A[a]
  PROVE  InOrder(D, B)
<1>1. ASSUME NEW c \in DOMAIN D, NEW d \in DOMAIN D, NEW i \in DOMAIN D[c], NEW j \in DOMAIN D[d],
             c < d \/ (c = d /\ i < j),
             NEW a \in DOMAIN B, NEW b \in DOMAIN B, B[a] = D[c][i], B[b] = D[d][j]
      PROVE  a < b
  <2>1. c \in DOMAIN C /\ i \in DOMAIN C[c] /\ D[c][i] = C[c][i] /\ D[c][i] # x
    BY <1>1 DEF LastTaken
  <2>2. a # m + 1
    BY <1>1, <2>1
  <2>3. a \in DOMAIN A /\ A[a] = C[c][i]
    BY <1>1, <2>1, <2>2
  <2>4. CASE b = m + 1
    BY <2>3, <2>4
  <2>5. CASE b # m + 1
    <3>1. b \in DOMAIN A /\ A[b] = D[d][j] /\ D[d][j] # x
      BY <1>1, <2>5
    <3>2. d \in DOMAIN C /\ j \in DOMAIN C[d] /\ D[d][j] = C[d][j]
      BY <3>1 DEF LastTaken
    <3>3. A[b] = C[d][j]
      BY <3>1, <3>2
    <3> QED BY <1>1, <2>1, <2>3, <3>1, <3>2, <3>3 DEF InOrder
  <2> QED BY <2>4, <2>5
<1> QED BY <1>1 DEF InOrder

(* Chunks that leave out places keep the order of the others. *)
LEMMA PlacesGone ==
  ASSUME NEW C, NEW D, NEW A, InOrder(C, A),
         NEW S, \A c \in DOMAIN D : c \in S \/ DOMAIN D[c] = {},
         NEW from \in [S -> DOMAIN C], \A c \in S : D[c] = C[from[c]],
         \A c, d \in S : c < d => from[c] < from[d]
  PROVE  InOrder(D, A)
<1>1. ASSUME NEW c \in DOMAIN D, NEW d \in DOMAIN D, NEW i \in DOMAIN D[c], NEW j \in DOMAIN D[d],
             c < d \/ (c = d /\ i < j),
             NEW a \in DOMAIN A, NEW b \in DOMAIN A, A[a] = D[c][i], A[b] = D[d][j]
      PROVE  a < b
  <2>1. c \in S /\ d \in S
    BY <1>1
  <2>2. /\ from[c] \in DOMAIN C /\ from[d] \in DOMAIN C
        /\ i \in DOMAIN C[from[c]] /\ j \in DOMAIN C[from[d]]
        /\ from[c] < from[d] \/ (from[c] = from[d] /\ i < j)
        /\ A[a] = C[from[c]][i] /\ A[b] = C[from[d]][j]
    BY <1>1, <2>1
  <2> QED BY <2>2 DEF InOrder
<1> QED BY <1>1 DEF InOrder

(* No line is in two chunks. *)
LEMMA NotTwice ==
  ASSUME NEW C, NEW A, InOrder(C, A), NEW a \in DOMAIN A, DOMAIN A \subseteq Nat,
         NEW c \in DOMAIN C, NEW d \in DOMAIN C, DOMAIN C \subseteq Nat,
         NEW i \in DOMAIN C[c], NEW j \in DOMAIN C[d], C[c][i] = A[a], C[d][j] = A[a]
  PROVE  c = d
<1>1. ~(c < d)
  <2>1. c < d => a < a
    BY Zenon DEF InOrder
  <2> QED BY <2>1
<1>2. ~(d < c)
  <2>1. d < c => a < a
    BY Zenon DEF InOrder
  <2> QED BY <2>1
<1> QED BY <1>1, <1>2

(* One chunk for each buffer *)
LEMMA LinesOfType ==
  ASSUME NEW s \in Seq(Buffer)
  PROVE  /\ LinesOf(s) \in Seq(Seq(Lines)) /\ Len(LinesOf(s)) = Len(s)
         /\ \A c \in 1..Len(s) : LinesOf(s)[c] = s[c].lines
<1>1. Len(s) \in Nat /\ \A c \in 1..Len(s) : s[c] \in Buffer
  BY LenProperties, ElementOfSeq
<1>2. \A c \in 1..Len(s) : s[c].lines \in Seq(Lines)
  BY <1>1 DEF Buffer
<1>3. LinesOf(s) \in [1..Len(s) -> Seq(Lines)] /\ \A c \in 1..Len(s) : LinesOf(s)[c] = s[c].lines
  BY <1>2 DEF LinesOf
<1>4. LinesOf(s) \in Seq(Seq(Lines))
  BY <1>1, <1>3, SeqDef
<1>5. Len(LinesOf(s)) = Len(s)
  BY <1>1, <1>3, <1>4, LenProperties
<1> QED BY <1>3, <1>4, <1>5

(* Chunks for any contents of the buffers *)
Chain(o, w, f, b) == o \o LinesOf(w \o Append(f, b))

IsChain(C, o, w, f, b, n, m, k) ==
  /\ n \in Nat /\ m \in Nat /\ k \in Nat /\ DOMAIN C = 1..(n + m + k + 1)
  /\ \A c \in 1..n : C[c] = o[c]
  /\ \A c \in (n + 1)..(n + m) : C[c] = w[c - n].lines
  /\ \A c \in (n + m + 1)..(n + m + k) : C[c] = f[c - n - m].lines
  /\ C[n + m + k + 1] = b.lines
  /\ \A c \in DOMAIN C : DOMAIN C[c] \subseteq Nat

LEMMA ChainPlaces ==
  ASSUME NEW o \in Seq(Seq(Lines)), NEW w \in Seq(Buffer), NEW f \in Seq(Buffer), NEW b \in Buffer
  PROVE  IsChain(Chain(o, w, f, b), o, w, f, b, Len(o), Len(w), Len(f))
<1> DEFINE n == Len(o)
           m == Len(w)
           k == Len(f)
           a == Append(f, b)
           p == w \o a
           q == LinesOf(p)
           C == Chain(o, w, f, b)
<1>1. n \in Nat /\ m \in Nat /\ k \in Nat
  BY LenProperties
<1> HIDE DEF n, m, k
<1>2. /\ a \in Seq(Buffer) /\ Len(a) = k + 1 /\ a[k + 1] = b
      /\ \A c \in 1..k : a[c] = f[c]
  BY AppendProperties DEF k
<1> HIDE DEF a
<1>3. /\ p \in Seq(Buffer) /\ Len(p) = m + (k + 1)
      /\ \A c \in 1..(m + (k + 1)) : p[c] = IF c <= m THEN w[c] ELSE a[c - m]
  <2>1. /\ p \in Seq(Buffer) /\ Len(p) = Len(w) + Len(a)
        /\ \A c \in 1..(Len(w) + Len(a)) : p[c] = IF c <= Len(w) THEN w[c] ELSE a[c - Len(w)]
    BY <1>2, ConcatProperties
  <2> QED BY <1>2, <2>1, Zenon DEF m
<1> HIDE DEF p
<1>4. /\ q \in Seq(Seq(Lines)) /\ Len(q) = m + (k + 1)
      /\ \A c \in 1..(m + (k + 1)) : q[c] = p[c].lines
  BY <1>3, LinesOfType
<1> HIDE DEF q
<1>5. /\ C \in Seq(Seq(Lines)) /\ Len(C) = n + (m + (k + 1))
      /\ \A c \in 1..(n + (m + (k + 1))) : C[c] = IF c <= n THEN o[c] ELSE q[c - n]
  <2>1. C = o \o q
    BY DEF Chain, p, q, a
  <2> HIDE DEF C
  <2>2. /\ C \in Seq(Seq(Lines)) /\ Len(C) = Len(o) + Len(q)
        /\ \A c \in 1..(Len(o) + Len(q)) : C[c] = IF c <= Len(o) THEN o[c] ELSE q[c - Len(o)]
    BY <1>4, <2>1, ConcatProperties
  <2> QED BY <1>4, <2>2, Zenon DEF n
<1> HIDE DEF C
<1>6. DOMAIN C = 1..(n + m + k + 1)
  <2>1. n + (m + (k + 1)) = n + m + k + 1
    BY <1>1
  <2> QED BY <1>5, <2>1, LenProperties
<1>7. \A c \in DOMAIN C : DOMAIN C[c] \subseteq Nat
  <2>1. ASSUME NEW c \in DOMAIN C PROVE DOMAIN C[c] \subseteq Nat
    <3>1. C[c] \in Seq(Lines)
      BY <1>5, <2>1, ElementOfSeq, LenProperties
    <3>2. DOMAIN C[c] = 1..Len(C[c]) /\ Len(C[c]) \in Nat
      BY <3>1, LenProperties
    <3> QED BY <3>2
  <2> QED BY <2>1
<1>8. ASSUME NEW c \in 1..n PROVE C[c] = o[c]
  BY <1>1, <1>5
<1>9. ASSUME NEW c \in (n + 1)..(n + m + k + 1)
      PROVE  /\ C[c] = p[c - n].lines
             /\ p[c - n] = IF c <= n + m THEN w[c - n] ELSE a[c - n - m]
  <2>1. c - n \in 1..(m + (k + 1)) /\ c \in 1..(n + (m + (k + 1))) /\ ~(c <= n)
        /\ (c <= n + m <=> c - n <= m)
    BY <1>1
  <2>2. C[c] = q[c - n] /\ q[c - n] = p[c - n].lines
        /\ p[c - n] = IF c - n <= m THEN w[c - n] ELSE a[(c - n) - m]
    BY <1>3, <1>4, <1>5, <2>1
  <2> QED BY <2>1, <2>2
<1>10. ASSUME NEW c \in (n + 1)..(n + m) PROVE C[c] = w[c - n].lines
  <2>1. c \in (n + 1)..(n + m + k + 1) /\ c <= n + m
    BY <1>1
  <2> QED BY <1>9, <2>1
<1>11. ASSUME NEW c \in (n + m + 1)..(n + m + k) PROVE C[c] = f[c - n - m].lines
  <2>1. c \in (n + 1)..(n + m + k + 1) /\ ~(c <= n + m) /\ c - n - m \in 1..k
    BY <1>1
  <2>2. C[c] = p[c - n].lines /\ p[c - n] = a[c - n - m]
    BY <1>9, <2>1
  <2>3. a[c - n - m] = f[c - n - m]
    BY <1>2, <2>1
  <2> QED BY <2>2, <2>3
<1>12. C[n + m + k + 1] = b.lines
  <2>1. /\ n + m + k + 1 \in (n + 1)..(n + m + k + 1) /\ ~(n + m + k + 1 <= n + m)
        /\ (n + m + k + 1) - n - m = k + 1
    BY <1>1
  <2> DEFINE c == n + m + k + 1
  <2>2. C[c] = p[c - n].lines /\ p[c - n] = a[c - n - m]
    BY <1>9, <2>1
  <2> QED BY <1>2, <2>1, <2>2
<1> QED BY <1>1, <1>6, <1>7, <1>8, <1>10, <1>11, <1>12 DEF C, IsChain, n, m, k

(* The lines in the chunks are those appended, in that order. *)
OrderInv ==
  /\ appended \in Seq(Lines) /\ output \in Seq(Seq(Lines))
  /\ dropped \subseteq ToSet(appended)
  /\ NoLineLostOrRepeated

LEMMA ChunksAreChain ==
  /\ Chunks = Chain(output, buffersToWrite, buffers, currentBuffer)
  /\ Chunks' = Chain(output', buffersToWrite', buffers', currentBuffer')
BY DEF Chunks, Pipeline, Chain

(* append() puts one more line behind the others, or leaves it out. *)
LEMMA Appended ==
  ASSUME OrderInv, NEW x \in Lines, NotYet(x), appended' = Append(appended, x), UNCHANGED <<output, dropped>>,
         DOMAIN Chunks \subseteq DOMAIN Chunks',
         \A c \in DOMAIN Chunks' : \A i \in DOMAIN Chunks'[c] :
           \/ c \in DOMAIN Chunks /\ i \in DOMAIN Chunks[c] /\ Chunks'[c][i] = Chunks[c][i]
           \/ /\ Chunks'[c][i] = x
              /\ \A d \in DOMAIN Chunks' : \A j \in DOMAIN Chunks'[d] : ~(c < d \/ (c = d /\ i < j)),
         \A c \in DOMAIN Chunks : \A i \in DOMAIN Chunks[c] :
           i \in DOMAIN Chunks'[c] /\ Chunks'[c][i] = Chunks[c][i],
         Size[x] < BufferSize <=>
           \E c \in DOMAIN Chunks' : \E i \in DOMAIN Chunks'[c] : Chunks'[c][i] = x
  PROVE  OrderInv'
<1> DEFINE m == Len(appended)
<1>1. /\ m \in Nat /\ DOMAIN appended = 1..m /\ DOMAIN appended' = 1..(m + 1) /\ appended'[m + 1] = x
      /\ \A a \in DOMAIN appended : appended[a] # x /\ appended'[a] = appended[a]
      /\ appended' \in Seq(Lines)
  <2>1. m \in Nat /\ DOMAIN appended = 1..m
    BY LenProperties DEF OrderInv
  <2>2. /\ appended' \in Seq(Lines) /\ Len(appended') = m + 1 /\ appended'[m + 1] = x
        /\ \A a \in 1..m : appended'[a] = appended[a]
    BY AppendProperties DEF OrderInv
  <2>3. DOMAIN appended' = 1..(m + 1)
    BY <2>2, LenProperties
  <2> QED BY <2>1, <2>2, <2>3 DEF NotYet
<1> HIDE DEF m
<1>2. \A y : y \in ToSet(appended') <=> (y \in ToSet(appended) \/ y = x)
  <2>1. ASSUME NEW y \in ToSet(appended') PROVE y \in ToSet(appended) \/ y = x
    <3>1. PICK a \in 1..(m + 1) : appended'[a] = y
      BY <1>1 DEF ToSet
    <3>2. a # m + 1 => a \in 1..m
      BY <1>1
    <3> QED BY <1>1, <3>1, <3>2 DEF ToSet
  <2>2. ASSUME NEW y \in ToSet(appended) PROVE y \in ToSet(appended')
    <3>1. PICK a \in 1..m : appended[a] = y
      BY <1>1 DEF ToSet
    <3>2. a \in 1..(m + 1)
      BY <1>1
    <3> QED BY <1>1, <3>1, <3>2 DEF ToSet
  <2>3. x \in ToSet(appended')
    <3>1. m + 1 \in 1..(m + 1)
      BY <1>1
    <3> QED BY <1>1, <3>1 DEF ToSet
  <2> QED BY <2>1, <2>2, <2>3
<1>3. x \notin ToSet(appended)
  BY <1>1 DEF ToSet
<1>4. \A c \in DOMAIN Chunks : \A i \in DOMAIN Chunks[c] : Chunks[c][i] # x
  <2>1. x \notin Contents(Chunks)
    BY <1>3 DEF OrderInv, NoLineLostOrRepeated
  <2> QED BY <2>1, ContentsFacts
<1> DEFINE C == Chunks
           D == Chunks'
<1>5. /\ InOrder(C, appended) /\ DOMAIN C \subseteq DOMAIN D
      /\ \A c \in DOMAIN D : \A i \in DOMAIN D[c] :
           \/ c \in DOMAIN C /\ i \in DOMAIN C[c] /\ D[c][i] = C[c][i] /\ D[c][i] # x
           \/ /\ D[c][i] = x
              /\ \A d \in DOMAIN D : \A j \in DOMAIN D[d] : ~(c < d \/ (c = d /\ i < j))
      /\ \A c \in DOMAIN C : \A i \in DOMAIN C[c] : i \in DOMAIN D[c] /\ D[c][i] = C[c][i]
      /\ Size[x] < BufferSize <=> \E c \in DOMAIN D : \E i \in DOMAIN D[c] : D[c][i] = x
  BY <1>4 DEF OrderInv, NoLineLostOrRepeated
<1>6. Contents(C) = {y \in ToSet(appended) : Size[y] < BufferSize /\ y \notin dropped}
  BY DEF OrderInv, NoLineLostOrRepeated
<1> HIDE DEF C, D
<1>7. LastTaken(C, D, x)
  BY <1>5 DEF LastTaken
<1>8. InOrder(D, appended')
  <2> DEFINE B == appended'
  <2>1. /\ DOMAIN appended = 1..m /\ DOMAIN B = 1..(m + 1) /\ B[m + 1] = x
        /\ \A a \in DOMAIN appended : appended[a] # x /\ B[a] = appended[a]
    BY <1>1
  <2> HIDE DEF B
  <2>2. InOrder(D, B)
    BY <1>1, <1>5, <1>7, <2>1, LastPlace
  <2> QED BY <2>2 DEF B
<1>9. \A y : y \in Contents(D) <=> (y \in Contents(C) \/ (y = x /\ Size[x] < BufferSize))
  <2>1. ASSUME NEW y \in Contents(D) PROVE y \in Contents(C) \/ (y = x /\ Size[x] < BufferSize)
    <3>1. PICK c \in DOMAIN D : \E i \in DOMAIN D[c] : D[c][i] = y
      BY ContentsFacts
    <3>2. PICK i \in DOMAIN D[c] : D[c][i] = y
      BY <3>1
    <3>3. CASE c \in DOMAIN C /\ i \in DOMAIN C[c] /\ D[c][i] = C[c][i]
      BY <3>2, <3>3, ContentsFacts
    <3>4. CASE D[c][i] = x
      BY <1>5, <3>2, <3>4
    <3> QED BY <1>5, <3>3, <3>4
  <2>2. ASSUME NEW y \in Contents(C) PROVE y \in Contents(D)
    <3>1. PICK c \in DOMAIN C : \E i \in DOMAIN C[c] : C[c][i] = y
      BY ContentsFacts
    <3>2. PICK i \in DOMAIN C[c] : C[c][i] = y
      BY <3>1
    <3>3. c \in DOMAIN D /\ i \in DOMAIN D[c] /\ D[c][i] = y
      BY <1>5, <3>2
    <3> QED BY <3>3, ContentsFacts
  <2>3. Size[x] < BufferSize => x \in Contents(D)
    BY <1>5, ContentsFacts
  <2> QED BY <2>1, <2>2, <2>3
<1>10. Contents(D) = {y \in ToSet(appended') : Size[y] < BufferSize /\ y \notin dropped}
  <2>1. x \notin dropped
    BY <1>3 DEF OrderInv
  <2> QED BY <1>2, <1>6, <1>9, <2>1
<1>11. NoLineLostOrRepeated'
  BY <1>8, <1>10 DEF NoLineLostOrRepeated, D
<1>12. dropped \subseteq ToSet(appended')
  BY <1>2 DEF OrderInv
<1> QED BY <1>1, <1>11, <1>12 DEF OrderInv

(* FixedBuffer::append() stores a line behind the others, or not at all. *)
LEMMA StoredLines ==
  ASSUME NEW b \in Buffer, NEW x \in Lines
  PROVE  Stored(b, x).lines = IF BufferSize - b.length > Size[x] THEN Append(b.lines, x) ELSE b.lines
BY DEF Stored

LEMMA AppendFitsOrder ==
  ASSUME IInv, OrderInv, NEW x \in Lines, AppendFits(x)
  PROVE  OrderInv'
<1> DEFINE n == Len(output)
           m == Len(buffersToWrite)
           k == Len(buffers)
           N == n + m + k + 1
           b == Stored(currentBuffer, x)
           C == Chunks
           D == Chunks'
           l == Len(currentBuffer.lines)
<1>1. /\ NotYet(x) /\ BufferSize - currentBuffer.length > Size[x] /\ currentBuffer' = b
      /\ appended' = Append(appended, x) /\ UNCHANGED <<buffers, buffersToWrite, output, dropped>>
  BY DEF AppendFits, control, spare, written
<1>2. /\ output \in Seq(Seq(Lines)) /\ buffersToWrite \in Seq(Buffer) /\ buffers \in Seq(Buffer)
      /\ currentBuffer \in Buffer /\ b \in Buffer
  BY StoredType DEF IInv, TypeOK, OrderInv
<1>3. /\ currentBuffer.lines \in Seq(Lines) /\ currentBuffer.length \in Nat
      /\ BufferSize \in Nat /\ Size[x] \in Nat
  BY <1>2, AsyncAssumption DEF Buffer
<1>4. b.lines = Append(currentBuffer.lines, x)
  BY <1>1, <1>2, StoredLines
<1>5. /\ l \in Nat /\ DOMAIN currentBuffer.lines = 1..l /\ DOMAIN b.lines = 1..(l + 1)
      /\ b.lines[l + 1] = x /\ \A i \in 1..l : b.lines[i] = currentBuffer.lines[i]
  BY <1>3, <1>4, LenProperties, AppendProperties
<1>6. C = Chain(output, buffersToWrite, buffers, currentBuffer) /\ D = Chain(output, buffersToWrite, buffers, b)
  BY <1>1, ChunksAreChain
<1> HIDE DEF b, C, D, l
<1>7. /\ n \in Nat /\ m \in Nat /\ k \in Nat /\ DOMAIN C = 1..N /\ DOMAIN D = 1..N
      /\ C[N] = currentBuffer.lines /\ D[N] = b.lines
      /\ \A c \in 1..N : c # N => D[c] = C[c]
  <2>1. /\ IsChain(C, output, buffersToWrite, buffers, currentBuffer, n, m, k)
        /\ IsChain(D, output, buffersToWrite, buffers, b, n, m, k)
    BY <1>2, <1>6, ChainPlaces
  <2> HIDE DEF n, m, k
  <2>2. \A c \in 1..N : c # N => c \in 1..n \/ c \in (n + 1)..(n + m) \/ c \in (n + m + 1)..(n + m + k)
    BY <2>1 DEF IsChain
  <2> QED BY <2>1, <2>2 DEF IsChain
<1> HIDE DEF n, m, k
<1>8. \A c \in DOMAIN D : \A i \in DOMAIN D[c] :
           \/ c \in DOMAIN C /\ i \in DOMAIN C[c] /\ D[c][i] = C[c][i]
           \/ /\ D[c][i] = x
              /\ \A d \in DOMAIN D : \A j \in DOMAIN D[d] : ~(c < d \/ (c = d /\ i < j))
  <2>1. ASSUME NEW c \in DOMAIN D, NEW i \in DOMAIN D[c], ~(c \in DOMAIN C /\ i \in DOMAIN C[c] /\ D[c][i] = C[c][i])
        PROVE  /\ D[c][i] = x
               /\ \A d \in DOMAIN D : \A j \in DOMAIN D[d] : ~(c < d \/ (c = d /\ i < j))
    <3>1. c = N /\ i = l + 1
      BY <1>5, <1>7, <2>1
    <3> QED BY <1>5, <1>7, <3>1
  <2> QED BY <2>1
<1>9. ASSUME NEW c \in DOMAIN C, NEW i \in DOMAIN C[c] PROVE i \in DOMAIN D[c] /\ D[c][i] = C[c][i]
  <2>1. CASE c = N
    BY <1>5, <1>7, <2>1
  <2> QED BY <1>7, <2>1
<1>10. Size[x] < BufferSize /\ \E c \in DOMAIN D : \E i \in DOMAIN D[c] : D[c][i] = x
  <2>1. Size[x] < BufferSize
    BY <1>1, <1>3
  <2>2. N \in DOMAIN D /\ l + 1 \in DOMAIN D[N] /\ D[N][l + 1] = x
    BY <1>5, <1>7
  <2> QED BY <2>1, <2>2
<1> QED BY <1>1, <1>7, <1>8, <1>9, <1>10, Appended DEF C, D

LEMMA AppendRotatesOrder ==
  ASSUME IInv, OrderInv, NEW x \in Lines, AppendRotates(x)
  PROVE  OrderInv'
<1> DEFINE n == Len(output)
           m == Len(buffersToWrite)
           k == Len(buffers)
           N == n + m + k + 1
           f == Append(buffers, currentBuffer)
           e == IF nextBuffer # NoBuffer THEN nextBuffer ELSE Empty
           b == Stored(e, x)
           C == Chunks
           D == Chunks'
<1>1. /\ NotYet(x) /\ buffers' = f /\ currentBuffer' = b
      /\ appended' = Append(appended, x) /\ UNCHANGED <<buffersToWrite, output, dropped>>
  BY DEF AppendRotates, control, spare, written
<1>2. e \in Clean /\ e \in Buffer /\ e.lines = <<>> /\ e.length = 0
  BY Buffers DEF IInv, TypeOK, Clean
<1> HIDE DEF e
<1>3. /\ output \in Seq(Seq(Lines)) /\ buffersToWrite \in Seq(Buffer) /\ buffers \in Seq(Buffer)
      /\ currentBuffer \in Buffer /\ b \in Buffer
  BY <1>2, StoredType DEF IInv, TypeOK, OrderInv
<1>4. f \in Seq(Buffer) /\ Len(f) = k + 1 /\ f[k + 1] = currentBuffer /\ \A c \in 1..k : f[c] = buffers[c]
  BY <1>3, AppendProperties
<1>5. /\ BufferSize \in Nat /\ Size[x] \in Nat
      /\ b.lines = IF BufferSize > Size[x] THEN Append(<<>>, x) ELSE <<>>
  <2>1. BufferSize \in Nat /\ Size[x] \in Nat
    BY AsyncAssumption
  <2>2. b.lines = IF BufferSize - 0 > Size[x] THEN Append(<<>>, x) ELSE <<>>
    BY <1>2, StoredLines
  <2> QED BY <2>1, <2>2
<1>6. C = Chain(output, buffersToWrite, buffers, currentBuffer) /\ D = Chain(output, buffersToWrite, f, b)
  BY <1>1, ChunksAreChain
<1> HIDE DEF b, C, D, f
<1>7. /\ N \in Nat /\ DOMAIN C = 1..N /\ DOMAIN D = 1..(N + 1) /\ D[N + 1] = b.lines
      /\ \A c \in 1..N : D[c] = C[c]
  <2>1. /\ IsChain(C, output, buffersToWrite, buffers, currentBuffer, n, m, k)
        /\ IsChain(D, output, buffersToWrite, f, b, n, m, Len(f))
    BY <1>3, <1>4, <1>6, ChainPlaces
  <2> HIDE DEF n, m, k
  <2> USE DEF IsChain
  <2>2. /\ IsChain(D, output, buffersToWrite, f, b, n, m, k + 1)
        /\ N \in (n + m + 1)..(n + m + (k + 1)) /\ N - n - m = k + 1
        /\ N \in Nat /\ n + m + (k + 1) + 1 = N + 1
    BY <1>4, <2>1
  <2>3. ASSUME NEW c \in 1..N PROVE D[c] = C[c]
    <3>1. CASE c \in 1..n
      BY <2>1, <3>1
    <3>2. CASE c \in (n + 1)..(n + m)
      BY <2>1, <3>2
    <3>3. CASE c \in (n + m + 1)..(n + m + k)
      <4>1. c \in (n + m + 1)..(n + m + (k + 1)) /\ c - n - m \in 1..k
        BY <2>1, <3>3
      <4>2. D[c] = f[c - n - m].lines
        BY <2>2, <4>1
      <4>3. C[c] = buffers[c - n - m].lines
        BY <2>1, <3>3
      <4> QED BY <1>4, <4>1, <4>2, <4>3
    <3>4. CASE c = N
      BY <1>4, <2>1, <2>2, <3>4
    <3> QED BY <2>1, <3>1, <3>2, <3>3, <3>4
  <2> QED BY <2>1, <2>2, <2>3
<1> HIDE DEF n, m, k, N
<1>8. DOMAIN b.lines = (IF BufferSize > Size[x] THEN {1} ELSE {}) /\ (BufferSize > Size[x] => b.lines[1] = x)
  BY <1>5
<1>9. \A c \in DOMAIN D : \A i \in DOMAIN D[c] :
           \/ c \in DOMAIN C /\ i \in DOMAIN C[c] /\ D[c][i] = C[c][i]
           \/ /\ D[c][i] = x
              /\ \A d \in DOMAIN D : \A j \in DOMAIN D[d] : ~(c < d \/ (c = d /\ i < j))
  <2>1. ASSUME NEW c \in DOMAIN D, NEW i \in DOMAIN D[c], ~(c \in DOMAIN C /\ i \in DOMAIN C[c] /\ D[c][i] = C[c][i])
        PROVE  /\ D[c][i] = x
               /\ \A d \in DOMAIN D : \A j \in DOMAIN D[d] : ~(c < d \/ (c = d /\ i < j))
    <3>1. c = N + 1 /\ i = 1 /\ BufferSize > Size[x]
      BY <1>7, <1>8, <2>1
    <3> QED BY <1>7, <1>8, <3>1
  <2> QED BY <2>1
<1>10. \A c \in DOMAIN C : \A i \in DOMAIN C[c] : i \in DOMAIN D[c] /\ D[c][i] = C[c][i]
  BY <1>7
<1>11. \A c \in DOMAIN C : \A i \in DOMAIN C[c] : C[c][i] # x
  <2>1. x \notin Contents(C)
    BY <1>1 DEF OrderInv, NoLineLostOrRepeated, NotYet, ToSet, C
  <2> QED BY <2>1, ContentsFacts
<1>12. Size[x] < BufferSize <=> \E c \in DOMAIN D : \E i \in DOMAIN D[c] : D[c][i] = x
  <2>1. ASSUME Size[x] < BufferSize PROVE \E c \in DOMAIN D : \E i \in DOMAIN D[c] : D[c][i] = x
    <3>1. N + 1 \in DOMAIN D /\ 1 \in DOMAIN D[N + 1] /\ D[N + 1][1] = x
      BY <1>5, <1>7, <1>8, <2>1
    <3> QED BY <3>1
  <2>2. ASSUME NEW c \in DOMAIN D, NEW i \in DOMAIN D[c], D[c][i] = x PROVE Size[x] < BufferSize
    <3>1. c = N + 1
      BY <1>7, <1>11, <2>2
    <3> QED BY <1>5, <1>7, <1>8, <3>1
  <2> QED BY <2>1, <2>2
<1>13. DOMAIN C \subseteq DOMAIN D
  BY <1>7
<1> QED BY <1>1, <1>9, <1>10, <1>12, <1>13, Appended DEF C, D

(* The front end's buffers become the back end's, in the same order. *)
LEMMA SwapsOrder ==
  ASSUME IInv, OrderInv, BackendSwaps
  PROVE  OrderInv'
<1> DEFINE n == Len(output)
           k == Len(buffers)
           N == n + k + 1
           f == Append(buffers, currentBuffer)
           C == Chunks
           D == Chunks'
<1>1. /\ buffersToWrite' = f /\ buffers' = buffersToWrite /\ currentBuffer' = newBuffer1
      /\ UNCHANGED <<output, dropped, appended>>
  BY DEF BackendSwaps, written
<1>2. /\ buffersToWrite = <<>> /\ Len(buffersToWrite) = 0
      /\ newBuffer1 \in Buffer /\ newBuffer1.lines = <<>>
  BY DEF IInv, TypeOK, SpareInv, BackendSwaps, HasLock, Clean
<1>3. /\ output \in Seq(Seq(Lines)) /\ buffersToWrite \in Seq(Buffer) /\ buffers \in Seq(Buffer)
      /\ currentBuffer \in Buffer
  BY DEF IInv, TypeOK, OrderInv
<1>4. f \in Seq(Buffer) /\ Len(f) = k + 1 /\ f[k + 1] = currentBuffer /\ \A c \in 1..k : f[c] = buffers[c]
  BY <1>3, AppendProperties
<1>5. /\ C = Chain(output, buffersToWrite, buffers, currentBuffer)
      /\ D = Chain(output, f, buffersToWrite, newBuffer1)
  BY <1>1, ChunksAreChain
<1> HIDE DEF C, D, f
<1>6. /\ N \in Nat /\ DOMAIN C = 1..N /\ DOMAIN D = 1..(N + 1) /\ D[N + 1] = <<>>
      /\ \A c \in 1..N : D[c] = C[c]
  <2>1. /\ IsChain(C, output, buffersToWrite, buffers, currentBuffer, n, 0, k)
        /\ IsChain(D, output, f, buffersToWrite, newBuffer1, n, k + 1, 0)
    BY <1>2, <1>3, <1>4, <1>5, ChainPlaces
  <2> HIDE DEF n, k
  <2> USE DEF IsChain
  <2>2. /\ N \in Nat /\ n + 0 + k + 1 = N /\ n + (k + 1) + 0 + 1 = N + 1
        /\ N \in (n + 1)..(n + (k + 1)) /\ N - n = k + 1
    BY <2>1
  <2>3. ASSUME NEW c \in 1..N PROVE D[c] = C[c]
    <3>1. CASE c \in 1..n
      BY <2>1, <3>1
    <3>2. CASE c \in (n + 1)..(n + k)
      <4>1. /\ c \in (n + 1)..(n + (k + 1)) /\ c - n \in 1..k /\ c \in (n + 0 + 1)..(n + 0 + k)
            /\ c - n - 0 = c - n
        BY <2>1, <3>2
      <4>2. D[c] = f[c - n].lines /\ C[c] = buffers[c - n].lines
        BY <2>1, <4>1
      <4> QED BY <1>4, <4>1, <4>2
    <3>3. CASE c = N
      <4>1. D[N] = f[k + 1].lines /\ C[N] = currentBuffer.lines
        BY <2>1, <2>2
      <4> QED BY <1>4, <3>3, <4>1
    <3> QED BY <2>1, <3>1, <3>2, <3>3
  <2>4. DOMAIN C = 1..N
    BY <2>1, <2>2
  <2>5. DOMAIN D = 1..(N + 1) /\ D[N + 1] = <<>>
    BY <1>2, <2>1, <2>2
  <2> QED BY <2>2, <2>3, <2>4, <2>5
<1> HIDE DEF n, k, N
<1>7. DOMAIN D[N + 1] = {}
  BY <1>6
<1>8. InOrder(D, appended)
  <2> DEFINE S == 1..N
             from == [c \in S |-> c]
  <2>1. InOrder(C, appended)
    BY DEF OrderInv, NoLineLostOrRepeated, C
  <2>2. \A c \in DOMAIN D : c \in S \/ DOMAIN D[c] = {}
    BY <1>6, <1>7
  <2>3. from \in [S -> DOMAIN C] /\ (\A c \in S : D[c] = C[from[c]]) /\ \A c, d \in S : c < d => from[c] < from[d]
    BY <1>6
  <2> HIDE DEF S, from
  <2> QED BY <2>1, <2>2, <2>3, PlacesGone
<1>9. \A y : y \in Contents(D) <=> y \in Contents(C)
  <2>1. ASSUME NEW y \in Contents(D) PROVE y \in Contents(C)
    <3>1. PICK c \in DOMAIN D : \E i \in DOMAIN D[c] : D[c][i] = y
      BY ContentsFacts
    <3>2. c \in DOMAIN C /\ D[c] = C[c]
      BY <1>6, <1>7, <3>1
    <3> QED BY <3>1, <3>2, ContentsFacts
  <2>2. ASSUME NEW y \in Contents(C) PROVE y \in Contents(D)
    <3>1. PICK c \in DOMAIN C : \E i \in DOMAIN C[c] : C[c][i] = y
      BY ContentsFacts
    <3>2. c \in DOMAIN D /\ D[c] = C[c]
      BY <1>6, <3>1
    <3> QED BY <3>1, <3>2, ContentsFacts
  <2> QED BY <2>1, <2>2
<1>10. Contents(D) = {y \in ToSet(appended) : Size[y] < BufferSize /\ y \notin dropped}
  BY <1>9 DEF OrderInv, NoLineLostOrRepeated, C
<1> QED BY <1>1, <1>8, <1>10 DEF OrderInv, NoLineLostOrRepeated, D

(* A part of the buffers, from the front, is kept. *)
LEMMA KeptFacts ==
  ASSUME buffersToWrite \in Seq(Buffer)
  PROVE  /\ Kept \in Seq(Buffer) /\ Len(Kept) <= Len(buffersToWrite)
         /\ \A i \in 1..Len(Kept) : Kept[i] = buffersToWrite[i]
<1>0. DropLimit \in Nat /\ DropLimit >= 2 /\ Len(buffersToWrite) \in Nat
  BY AsyncAssumption
<1>1. CASE Len(buffersToWrite) > DropLimit
  <2>1. Kept = SubSeq(buffersToWrite, 1, 2) /\ Len(buffersToWrite) >= 2
    BY <1>0, <1>1 DEF Kept
  <2>2. \A i \in 1..2 : buffersToWrite[i] \in Buffer
    BY <2>1
  <2>3. /\ SubSeq(buffersToWrite, 1, 2) \in Seq(Buffer) /\ Len(SubSeq(buffersToWrite, 1, 2)) = 2
        /\ \A i \in 1..2 : SubSeq(buffersToWrite, 1, 2)[i] = buffersToWrite[i]
    BY <2>1, <2>2
  <2> QED BY <2>1, <2>3
<1>2. CASE ~(Len(buffersToWrite) > DropLimit)
  BY <1>0, <1>2 DEF Kept
<1> QED BY <1>1, <1>2

(* The chunks without those from number n + p + 1 to n + m *)
IsCut(D, C, n, p, m, k) ==
  /\ DOMAIN D = 1..(n + p + k + 1)
  /\ \A c \in 1..(n + p) : D[c] = C[c]
  /\ \A c \in (n + p + 1)..(n + p + k + 1) : D[c] = C[c + (m - p)]

LEMMA CutOrder ==
  ASSUME NEW C, NEW D, NEW A, NEW n \in Nat, NEW m \in Nat, NEW p \in Nat, NEW k \in Nat, p <= m,
         InOrder(C, A), DOMAIN C = 1..(n + m + k + 1), IsCut(D, C, n, p, m, k)
  PROVE  InOrder(D, A)
<1> DEFINE S == DOMAIN D
           from == [c \in S |-> IF c <= n + p THEN c ELSE c + (m - p)]
<1>1. from \in [S -> DOMAIN C]
  BY DEF IsCut
<1>2. \A c \in S : D[c] = C[from[c]]
  <2>1. ASSUME NEW c \in S PROVE D[c] = C[from[c]]
    <3>1. CASE c <= n + p
      BY <3>1 DEF IsCut
    <3>2. CASE ~(c <= n + p)
      <4>1. c \in (n + p + 1)..(n + p + k + 1)
        BY <3>2 DEF IsCut
      <4> QED BY <3>2, <4>1 DEF IsCut
    <3> QED BY <3>1, <3>2
  <2> QED BY <2>1
<1>3. \A c, d \in S : c < d => from[c] < from[d]
  BY DEF IsCut
<1> HIDE DEF from
<1> QED BY <1>1, <1>2, <1>3, PlacesGone

(* What is left are the lines that are not in the chunks cut out. *)
LEMMA CutContents ==
  ASSUME NEW C, NEW D, NEW A, NEW n \in Nat, NEW m \in Nat, NEW p \in Nat, NEW k \in Nat, p <= m,
         InOrder(C, A), DOMAIN C = 1..(n + m + k + 1), IsCut(D, C, n, p, m, k),
         DOMAIN A \subseteq Nat, Contents(C) \subseteq ToSet(A), NEW y
  PROVE  y \in Contents(D) <=>
           /\ y \in Contents(C)
           /\ ~ \E c \in (n + p + 1)..(n + m) : \E i \in DOMAIN C[c] : C[c][i] = y
<1>0. DOMAIN C \subseteq Nat
  OBVIOUS
<1>1. ASSUME y \in Contents(D)
      PROVE  /\ y \in Contents(C)
             /\ ~ \E c \in (n + p + 1)..(n + m) : \E i \in DOMAIN C[c] : C[c][i] = y
  <2>1. PICK c \in DOMAIN D : \E i \in DOMAIN D[c] : D[c][i] = y
    BY <1>1, ContentsFacts
  <2>2. PICK d \in DOMAIN C : d \notin (n + p + 1)..(n + m) /\ D[c] = C[d]
    <3>1. CASE c \in 1..(n + p)
      <4>1. c \in DOMAIN C /\ c \notin (n + p + 1)..(n + m)
        BY <3>1
      <4> QED BY <3>1, <4>1 DEF IsCut
    <3>2. CASE c \in (n + p + 1)..(n + p + k + 1)
      <4>1. c + (m - p) \in DOMAIN C /\ c + (m - p) \notin (n + p + 1)..(n + m)
        BY <3>2
      <4> QED BY <3>2, <4>1 DEF IsCut
    <3> QED BY <2>1, <3>1, <3>2 DEF IsCut
  <2>3. PICK j \in DOMAIN C[d] : C[d][j] = y
    BY <2>1, <2>2
  <2>4. y \in Contents(C)
    BY <2>3, ContentsFacts
  <2>5. PICK a \in DOMAIN A : A[a] = y
    BY <2>4 DEF ToSet
  <2>6. ASSUME NEW e \in (n + p + 1)..(n + m), NEW i \in DOMAIN C[e], C[e][i] = y PROVE FALSE
    <3>1. e \in DOMAIN C
      OBVIOUS
    <3>2. C[e][i] = A[a] /\ C[d][j] = A[a]
      BY <2>3, <2>5, <2>6
    <3>3. e = d
      BY <1>0, <3>1, <3>2, NotTwice
    <3> QED BY <2>2, <3>3
  <2> QED BY <2>4, <2>6
<1>2. ASSUME y \in Contents(C), ~ \E c \in (n + p + 1)..(n + m) : \E i \in DOMAIN C[c] : C[c][i] = y
      PROVE  y \in Contents(D)
  <2>1. PICK c \in DOMAIN C : \E i \in DOMAIN C[c] : C[c][i] = y
    BY <1>2, ContentsFacts
  <2>2. c \notin (n + p + 1)..(n + m)
    BY <1>2, <2>1
  <2>3. CASE c <= n + p
    <3>1. c \in 1..(n + p) /\ c \in DOMAIN D
      BY <2>3 DEF IsCut
    <3>2. D[c] = C[c]
      BY <3>1 DEF IsCut
    <3> QED BY <2>1, <3>1, <3>2, ContentsFacts
  <2>4. CASE ~(c <= n + p)
    <3>1. /\ c - (m - p) \in (n + p + 1)..(n + p + k + 1) /\ c - (m - p) \in DOMAIN D
          /\ (c - (m - p)) + (m - p) = c
      BY <2>2, <2>4 DEF IsCut
    <3>2. D[c - (m - p)] = C[c]
      BY <3>1 DEF IsCut
    <3> QED BY <2>1, <3>1, <3>2, ContentsFacts
  <2> QED BY <2>3, <2>4
<1> QED BY <1>1, <1>2

(* What the chunks are after a turn that writes q of the buffers as chunks. *)
LEMMA WrittenCut ==
  ASSUME IInv, OrderInv, buffersToWrite' = <<>>, UNCHANGED <<buffers, currentBuffer>>,
         NEW q \in Nat, q <= Len(buffersToWrite), output' \in Seq(Seq(Lines)), Len(output') = Len(output) + q,
         \A c \in 1..Len(output) : output'[c] = output[c],
         \A c \in (Len(output) + 1)..(Len(output) + q) : output'[c] = buffersToWrite[c - Len(output)].lines
  PROVE  IsCut(Chunks', Chunks, Len(output), q, Len(buffersToWrite), Len(buffers))
<1> DEFINE n == Len(output)
           m == Len(buffersToWrite)
           k == Len(buffers)
           C == Chunks
           D == Chunks'
           o == output'
<1>1. /\ output \in Seq(Seq(Lines)) /\ buffersToWrite \in Seq(Buffer) /\ buffers \in Seq(Buffer)
      /\ currentBuffer \in Buffer /\ <<>> \in Seq(Buffer) /\ Len(<<>>) = 0
  BY DEF IInv, TypeOK, OrderInv
<1>2. /\ C = Chain(output, buffersToWrite, buffers, currentBuffer)
      /\ D = Chain(o, <<>>, buffers, currentBuffer)
  BY ChunksAreChain
<1>3. /\ o \in Seq(Seq(Lines)) /\ Len(o) = n + q /\ q <= m
      /\ \A c \in 1..n : o[c] = output[c]
      /\ \A c \in (n + 1)..(n + q) : o[c] = buffersToWrite[c - n].lines
  OBVIOUS
<1> HIDE DEF C, D, o
<1>4. /\ IsChain(C, output, buffersToWrite, buffers, currentBuffer, n, m, k)
      /\ IsChain(D, o, <<>>, buffers, currentBuffer, n + q, 0, k)
  <2>1. IsChain(D, o, <<>>, buffers, currentBuffer, Len(o), Len(<<>>), k)
    BY <1>1, <1>2, <1>3, ChainPlaces
  <2> QED BY <1>1, <1>2, <1>3, <2>1, ChainPlaces
<1> HIDE DEF n, m, k
<1> USE DEF IsChain
<1>5. n \in Nat /\ m \in Nat /\ k \in Nat /\ q <= m
  BY <1>3, <1>4
<1>6. DOMAIN D = 1..(n + q + k + 1)
  <2>1. n + q + 0 + k + 1 = n + q + k + 1
    BY <1>5
  <2> QED BY <1>4, <2>1
<1>7. ASSUME NEW c \in 1..(n + q) PROVE D[c] = C[c]
  <2>1. D[c] = o[c]
    BY <1>4
  <2>2. CASE c <= n
    <3>1. c \in 1..n
      BY <1>5, <2>2
    <3> QED BY <1>3, <1>4, <2>1, <3>1
  <2>3. CASE ~(c <= n)
    <3>1. c \in (n + 1)..(n + q) /\ c \in (n + 1)..(n + m)
      BY <1>5, <2>3
    <3> QED BY <1>3, <1>4, <2>1, <3>1
  <2> QED BY <2>2, <2>3
<1>8. ASSUME NEW c \in (n + q + 1)..(n + q + k + 1) PROVE D[c] = C[c + (m - q)]
  <2>1. CASE c = n + q + k + 1
    <3>1. /\ n + q + 0 + k + 1 = c /\ n + m + k + 1 = c + (m - q)
      BY <1>5, <2>1
    <3>2. D[n + q + 0 + k + 1] = currentBuffer.lines /\ C[n + m + k + 1] = currentBuffer.lines
      BY <1>4
    <3> QED BY <3>1, <3>2
  <2>2. CASE c # n + q + k + 1
    <3>1. /\ c \in (n + q + 0 + 1)..(n + q + 0 + k)
          /\ c + (m - q) \in (n + m + 1)..(n + m + k)
          /\ (c + (m - q)) - n - m = c - (n + q) - 0
      BY <1>5, <2>2
    <3>2. D[c] = buffers[c - (n + q) - 0].lines /\ C[c + (m - q)] = buffers[(c + (m - q)) - n - m].lines
      BY <1>4, <3>1
    <3> QED BY <3>1, <3>2
  <2> QED BY <2>1, <2>2
<1> QED BY <1>6, <1>7, <1>8 DEF IsCut, n, m, k, C, D

(* The back end writes its buffers behind what it has written, all of them or *)
(* the first two, or nothing if they have no lines.                           *)
LEMMA WritesOrder ==
  ASSUME IInv, OrderInv, BackendWrites
  PROVE  OrderInv'
<1> DEFINE n == Len(output)
           m == Len(buffersToWrite)
           p == Len(Kept)
           k == Len(buffers)
           K == LinesOf(Kept)
           E == UNION {ToSet(buffersToWrite[i].lines) : i \in (p + 1)..m}
           C == Chunks
           D == Chunks'
<1>1. /\ output' = IF Contents(K) = {} THEN output ELSE output \o K
      /\ dropped' = dropped \cup E /\ buffersToWrite' = <<>>
      /\ UNCHANGED <<buffers, currentBuffer, appended>>
  BY DEF BackendWrites, front
<1>2. /\ output \in Seq(Seq(Lines)) /\ buffersToWrite \in Seq(Buffer) /\ buffers \in Seq(Buffer)
      /\ currentBuffer \in Buffer
  BY DEF IInv, TypeOK, OrderInv
<1>3. /\ Kept \in Seq(Buffer) /\ n \in Nat /\ m \in Nat /\ p \in Nat /\ k \in Nat /\ p <= m
      /\ \A i \in 1..p : Kept[i] = buffersToWrite[i]
  BY <1>2, KeptFacts, LenProperties
<1>4. /\ K \in Seq(Seq(Lines)) /\ Len(K) = p /\ \A c \in 1..p : K[c] = buffersToWrite[c].lines
  BY <1>3, LinesOfType
<1> HIDE DEF K
<1>5. PICK q \in {0, p} :
        /\ IsCut(D, C, n, q, m, k) /\ output' \in Seq(Seq(Lines))
        /\ q # p => Contents(K) = {}
  <2>1. CASE Contents(K) = {}
    <3>1. /\ output' = output /\ output' \in Seq(Seq(Lines)) /\ Len(output') = n + 0
          /\ \A c \in 1..n : output'[c] = output[c]
      BY <1>1, <1>2, <1>3, <2>1
    <3>2. ~ \E c \in (n + 1)..(n + 0) : TRUE
      BY <1>3
    <3>3. IsCut(D, C, n, 0, m, k)
      BY <1>1, <1>3, <3>1, <3>2, WrittenCut
    <3> QED BY <2>1, <3>1, <3>3
  <2>2. CASE Contents(K) # {}
    <3>1. output' = output \o K
      BY <1>1, <2>2
    <3>2. /\ output' \in Seq(Seq(Lines)) /\ Len(output') = n + Len(K)
          /\ \A c \in 1..(n + Len(K)) : output'[c] = IF c <= n THEN output[c] ELSE K[c - n]
      <4> DEFINE O == output \o K
      <4>1. /\ O \in Seq(Seq(Lines)) /\ Len(O) = Len(output) + Len(K)
            /\ \A c \in 1..(Len(output) + Len(K)) :
                 O[c] = IF c <= Len(output) THEN output[c] ELSE K[c - Len(output)]
        BY <1>2, <1>4, ConcatProperties
      <4> HIDE DEF O, C, D, E
      <4> QED BY <3>1, <4>1, Zenon DEF O
    <3>3. Len(output') = n + p /\ \A c \in 1..(n + p) : output'[c] = IF c <= n THEN output[c] ELSE K[c - n]
      BY <1>4, <3>2
    <3>4. \A c \in 1..n : output'[c] = output[c]
      BY <1>3, <3>3
    <3>5. ASSUME NEW c \in (n + 1)..(n + p) PROVE output'[c] = buffersToWrite[c - n].lines
      <4>1. c \in 1..(n + p) /\ ~(c <= n) /\ c - n \in 1..p
        BY <1>3
      <4>2. output'[c] = K[c - n]
        BY <3>3, <4>1
      <4> QED BY <1>4, <4>1, <4>2
    <3>6. IsCut(D, C, n, p, m, k)
      BY <1>1, <1>3, <3>2, <3>3, <3>4, <3>5, WrittenCut
    <3> QED BY <3>2, <3>6
  <2> QED BY <2>1, <2>2
<1> HIDE DEF C, D
<1>6. /\ IsChain(C, output, buffersToWrite, buffers, currentBuffer, n, m, k)
      /\ DOMAIN C = 1..(n + m + k + 1)
      /\ \A c \in (n + 1)..(n + m) : C[c] = buffersToWrite[c - n].lines
  <2>1. IsChain(C, output, buffersToWrite, buffers, currentBuffer, n, m, k)
    BY <1>2, ChainPlaces, ChunksAreChain DEF C
  <2> QED BY <2>1 DEF IsChain
<1>7. /\ InOrder(C, appended) /\ DOMAIN appended \subseteq Nat /\ Contents(C) \subseteq ToSet(appended)
      /\ Contents(C) = {x \in ToSet(appended) : Size[x] < BufferSize /\ x \notin dropped}
      /\ dropped \subseteq ToSet(appended)
  BY LenProperties DEF OrderInv, NoLineLostOrRepeated, C
<1> DEFINE Gone(y) == \E c \in (n + q + 1)..(n + m) : \E i \in DOMAIN C[c] : C[c][i] = y
<1> HIDE DEF n, m, p, k
<1>8. q \in Nat /\ q <= m
  BY <1>3
<1>9. InOrder(D, appended)
  BY <1>3, <1>5, <1>6, <1>7, <1>8, CutOrder
<1>10. \A y : y \in Contents(D) <=> y \in Contents(C) /\ ~Gone(y)
  <2> TAKE y
  <2> QED BY <1>3, <1>5, <1>6, <1>7, <1>8, CutContents
<1>11. \A y : y \in E <=> \E i \in (p + 1)..m : \E j \in DOMAIN buffersToWrite[i].lines : buffersToWrite[i].lines[j] = y
  BY DEF ToSet
<1> HIDE DEF E
<1>12. ASSUME NEW y, Gone(y) PROVE y \in E
  <2>1. PICK c \in (n + q + 1)..(n + m) : \E i \in DOMAIN C[c] : C[c][i] = y
    BY <1>12
  <2>2. c \in (n + 1)..(n + m) /\ c - n \in (q + 1)..m
    BY <1>3, <1>8
  <2>3. C[c] = buffersToWrite[c - n].lines
    BY <1>6, <2>2
  <2>4. CASE c - n \in (p + 1)..m
    BY <1>11, <2>1, <2>3, <2>4
  <2>5. CASE c - n \notin (p + 1)..m
    <3>1. c - n \in 1..p /\ q # p
      BY <1>3, <1>8, <2>2, <2>5
    <3>2. K[c - n] = C[c] /\ c - n \in DOMAIN K
      BY <1>3, <1>4, <2>3, <3>1, LenProperties
    <3>3. y \in Contents(K)
      BY <2>1, <3>2, ContentsFacts
    <3> QED BY <1>5, <3>1, <3>3
  <2> QED BY <2>4, <2>5
<1>13. ASSUME NEW y \in E PROVE Gone(y) /\ y \in Contents(C)
  <2>1. PICK i \in (p + 1)..m : \E j \in DOMAIN buffersToWrite[i].lines : buffersToWrite[i].lines[j] = y
    BY <1>11
  <2>2. /\ n + i \in (n + 1)..(n + m) /\ (n + i) - n = i /\ n + i \in (n + q + 1)..(n + m)
        /\ n + i \in DOMAIN C
    BY <1>3, <1>6, <1>8
  <2>3. C[n + i] = buffersToWrite[i].lines
    BY <1>6, <2>2
  <2>4. Gone(y)
    BY <2>1, <2>2, <2>3
  <2>5. y \in Contents(C)
    BY <2>1, <2>2, <2>3, ContentsFacts
  <2> QED BY <2>4, <2>5
<1> HIDE DEF Gone
<1>14. \A y : y \in Contents(D) <=> y \in ToSet(appended) /\ Size[y] < BufferSize /\ y \notin dropped'
  <2>1. \A y : y \in E => Gone(y)
    BY <1>13
  <2>2. \A y : Gone(y) => y \in E
    BY <1>12
  <2> QED BY <1>1, <1>7, <1>10, <2>1, <2>2
<1>15. dropped' \subseteq ToSet(appended')
  <2>1. \A y : y \in E => y \in ToSet(appended)
    BY <1>7, <1>13
  <2> QED BY <1>1, <1>7, <2>1
<1>16. Contents(D) = {x \in ToSet(appended') : Size[x] < BufferSize /\ x \notin dropped'}
  BY <1>1, <1>14
<1> QED BY <1>1, <1>5, <1>9, <1>15, <1>16 DEF OrderInv, NoLineLostOrRepeated, D

(* Nothing has been logged. *)
LEMMA InitOrder == Init => OrderInv
<1> SUFFICES ASSUME Init PROVE OrderInv
  OBVIOUS
<1>1. /\ appended = <<>> /\ output = <<>> /\ dropped = {} /\ buffersToWrite = <<>>
      /\ buffers = <<>> /\ currentBuffer = Empty
  BY DEF Init
<1>2. /\ appended \in Seq(Lines) /\ output \in Seq(Seq(Lines)) /\ Len(output) = 0 /\ DOMAIN appended = {}
      /\ buffers \in Seq(Buffer) /\ buffersToWrite \in Seq(Buffer) /\ Len(<<>>) = 0
      /\ currentBuffer \in Buffer /\ currentBuffer.lines = <<>>
  BY <1>1, Buffers DEF Clean, Empty
<1> DEFINE C == Chunks
<1>3. IsChain(C, output, buffersToWrite, buffers, currentBuffer, 0, 0, 0)
  BY <1>1, <1>2, ChainPlaces, ChunksAreChain
<1> HIDE DEF C
<1>4. \A c \in DOMAIN C : DOMAIN C[c] = {}
  BY <1>2, <1>3 DEF IsChain
<1>5. InOrder(C, appended)
  BY <1>2 DEF InOrder
<1>6. \A y : y \notin Contents(C)
  BY <1>4, ContentsFacts
<1>7. \A y : y \notin ToSet(appended)
  BY <1>2 DEF ToSet
<1> QED BY <1>1, <1>2, <1>5, <1>6, <1>7 DEF OrderInv, NoLineLostOrRepeated, C

LEMMA OrderStutters ==
  ASSUME OrderInv, UNCHANGED <<currentBuffer, buffers, buffersToWrite, output, dropped, appended>>
  PROVE  OrderInv'
BY DEF OrderInv, NoLineLostOrRepeated, Chunks, Pipeline

(* Every step keeps the lines in order. *)
LEMMA StepOrder == IInv /\ OrderInv /\ [Next]_asyncVars => OrderInv'
<1> SUFFICES ASSUME IInv, OrderInv, [Next]_asyncVars PROVE OrderInv'
  OBVIOUS
<1> DEFINE Still == UNCHANGED <<currentBuffer, buffers, buffersToWrite, output, dropped, appended>>
<1>1. CASE Start \/ StopFlag \/ OwnerStep \/ LatchStep
  <2>1. Still
    BY <1>1 DEF Start, StopFlag, OwnerStep, LatchStep, StartReturn, StopNotify, StopReturn, front, spare, written
  <2> QED BY <2>1, OrderStutters
<1>2. CASE BackendBegins \/ BackendTests \/ BackendSleeps \/ BackendTimesOut
  <2>1. Still
    BY <1>2 DEF BackendBegins, BackendTests, BackendSleeps, BackendTimesOut, front, spare, written
  <2> QED BY <2>1, OrderStutters
<1>3. CASE UNCHANGED asyncVars
  <2>1. Still
    BY <1>3 DEF asyncVars, front, spare, written
  <2> QED BY <2>1, OrderStutters
<1> QED BY <1>1, <1>2, <1>3, AppendFitsOrder, AppendRotatesOrder, SwapsOrder, WritesOrder DEF Next, BackendStep

(* No line is lost, repeated or out of order, however the buffers rotate      *)
(* between the front end and the back end: each line that fits is in one      *)
(* chunk or buffer, behind those appended before it, unless it was in a       *)
(* backlog that was dropped.  What is in a buffer when the back end has ended *)
(* stays there unwritten.                                                     *)
THEOREM AsyncLosesNoLine == Spec => []NoLineLostOrRepeated
<1>1. OrderInv => NoLineLostOrRepeated
  BY DEF OrderInv
<1> QED BY <1>1, InitIInv, StepIInv, InitOrder, StepOrder, PTL DEF Spec

=============================================================================

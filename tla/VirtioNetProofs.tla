-------------------------- MODULE VirtioNetProofs --------------------------
(***************************************************************************)
(* The safety properties of VirtioNet, for queues of every size, every set *)
(* of frames and every number of calls.  The first part states what the    *)
(* operators of VirtQueue do: how pushing, popping, taking and giving back *)
(* change the windows of the two rings, and how they move a descriptor     *)
(* from one place to another.                                              *)
(***************************************************************************)
EXTENDS VirtioNet, Integers, SequenceTheorems, FiniteSetTheorems, TLAPS

(* Division with remainder.                                                *)

LEMMA DivMod ==
  ASSUME NEW n \in Nat \ {0}, NEW a \in Int
  PROVE  a \div n \in Int /\ a % n \in 0 .. (n - 1) /\ a = n * (a \div n) + (a % n)
OBVIOUS

LEMMA ModSmall ==
  ASSUME NEW n \in Nat \ {0}, NEW a \in 0 .. (2 * n - 1)
  PROVE  a % n = IF a < n THEN a ELSE a - n
OBVIOUS

\* A multiple of n that lies between -n and n is zero.
LEMMA SmallMultiple ==
  ASSUME NEW n \in Nat \ {0}, NEW k \in Int, n * k < n, -n < n * k
  PROVE  k = 0
<1>1. CASE k >= 1
  <2>1. n * k >= n * 1
    BY <1>1
  <2>2. QED
    BY <2>1
<1>2. CASE k <= -1
  <2>1. n * k <= n * (-1)
    BY <1>2
  <2>2. QED
    BY <2>1
<1>3. QED
  BY <1>1, <1>2

\* Numbers less than n apart are equal when their remainders are.
LEMMA ModInjective ==
  ASSUME NEW n \in Nat \ {0}, NEW a \in Int, NEW b \in Int,
         a - b < n, b - a < n, a % n = b % n
  PROVE  a = b
<1> DEFINE k == (b \div n) - (a \div n)
<1>1. k \in Int /\ b - a = n * k
  BY DivMod
<1>2. k = 0
  BY <1>1, SmallMultiple
<1>3. QED
  BY <1>1, <1>2

\* Adding multiples of n does not change the remainder.
LEMMA ModShift ==
  ASSUME NEW n \in Nat \ {0}, NEW a \in Int, NEW k \in Int
  PROVE  (a + n * k) % n = a % n
<1> DEFINE b == a + n * k
           j == (b \div n) - (a \div n) - k
<1>1. b \in Int
  OBVIOUS
<1>2. j \in Int /\ n * j = (a % n) - (b % n)
  <2>1. n * j = n * (b \div n) - n * (a \div n) - n * k
    BY <1>1, DivMod
  <2>2. QED
    BY <1>1, <2>1, DivMod
<1>3. a % n \in 0 .. (n - 1) /\ b % n \in 0 .. (n - 1)
  BY <1>1, DivMod, Zenon
<1>4. j = 0
  BY <1>2, <1>3, SmallMultiple
<1>5. QED
  BY <1>2, <1>3, <1>4

\* The size of a queue divides the number of index values.
LEMMA SlotWraps ==
  ASSUME NEW a \in Int
  PROVE  Slot(a - IdxMod) = Slot(a)
<1> USE QueueAssumption
<1> DEFINE k == IdxMod \div Qsz
<1>1. IdxMod \in Int /\ Qsz \in Nat \ {0} /\ IdxMod % Qsz = 0
  OBVIOUS
<1>2. k \in Int /\ IdxMod = Qsz * k
  BY <1>1, DivMod
<1> HIDE DEF k
<1>3. a - IdxMod = a + Qsz * (-k) /\ -k \in Int
  BY <1>2
<1>4. QED
  BY <1>1, <1>3, ModShift, Zenon DEF Slot

-----------------------------------------------------------------------------
(* Indices and windows.                                                    *)

LEMMA SlotType ==
  ASSUME NEW a \in Int
  PROVE  Slot(a) \in Desc
BY QueueAssumption, DivMod, Zenon DEF Slot, Desc

LEMMA SuccIs ==
  ASSUME NEW a \in Index
  PROVE  Succ(a) \in Index /\ Succ(a) = IF a + 1 = IdxMod THEN 0 ELSE a + 1
<1>1. IdxMod \in Nat \ {0, 1} /\ a + 1 \in 0 .. (2 * IdxMod - 1) /\ a \in 0 .. (IdxMod - 1)
  BY QueueAssumption DEF Index
<1>2. (a + 1) % IdxMod = IF a + 1 < IdxMod THEN a + 1 ELSE a + 1 - IdxMod
  BY <1>1
<1>3. QED
  BY <1>1, <1>2 DEF Succ, Index

LEMMA DistanceIs ==
  ASSUME NEW a \in Index, NEW b \in Index
  PROVE  /\ Distance(a, b) \in 0 .. (IdxMod - 1)
         /\ Distance(a, b) = IF a <= b THEN b - a ELSE b + IdxMod - a
         /\ Distance(a, b) = 0 <=> a = b
<1>1. IdxMod \in Nat \ {0} /\ b + IdxMod - a \in 0 .. (2 * IdxMod - 1)
  BY QueueAssumption DEF Index
<1>2. PICK c \in 0 .. (2 * IdxMod - 1) : c = b + IdxMod - a
  BY <1>1, Zenon
<1>3. c % IdxMod = IF c < IdxMod THEN c ELSE c - IdxMod
  BY <1>1, ModSmall, Zenon
<1>4. QED
  BY <1>1, <1>2, <1>3 DEF Distance, Index

\* Publishing a slot and consuming one change the distance by one.
LEMMA DistanceSucc ==
  ASSUME NEW a \in Index, NEW b \in Index
  PROVE  /\ Distance(a, b) < IdxMod - 1 => Distance(a, Succ(b)) = Distance(a, b) + 1
         /\ a # b => Distance(Succ(a), b) = Distance(a, b) - 1
<1>1. a \in 0 .. (IdxMod - 1) /\ b \in 0 .. (IdxMod - 1) /\ IdxMod \in Nat \ {0, 1}
  BY QueueAssumption DEF Index
<1>2. /\ Succ(a) \in Index /\ Succ(a) = IF a + 1 = IdxMod THEN 0 ELSE a + 1
      /\ Succ(b) \in Index /\ Succ(b) = IF b + 1 = IdxMod THEN 0 ELSE b + 1
  BY SuccIs, Zenon
<1>3. \A x, y \in Index : Distance(x, y) = IF x <= y THEN y - x ELSE y + IdxMod - x
  BY DistanceIs, Zenon
<1>4. Distance(a, b) < IdxMod - 1 => Distance(a, Succ(b)) = Distance(a, b) + 1
  <2>1. /\ Distance(a, b) = IF a <= b THEN b - a ELSE b + IdxMod - a
        /\ Distance(a, Succ(b)) = IF a <= Succ(b) THEN Succ(b) - a ELSE Succ(b) + IdxMod - a
    BY <1>2, <1>3, Zenon
  <2>2. QED
    BY <1>1, <1>2, <2>1
<1>5. a # b => Distance(Succ(a), b) = Distance(a, b) - 1
  <2>1. /\ Distance(a, b) = IF a <= b THEN b - a ELSE b + IdxMod - a
        /\ Distance(Succ(a), b) = IF Succ(a) <= b THEN b - Succ(a) ELSE b + IdxMod - Succ(a)
    BY <1>2, <1>3, Zenon
  <2>2. QED
    BY <1>1, <1>2, <2>1
<1>6. QED
  BY <1>4, <1>5, Zenon

LEMMA WindowType ==
  ASSUME NEW ring \in [Desc -> Desc], NEW a \in Index, NEW b \in Index
  PROVE  /\ Window(ring, a, b) \in Seq(Desc)
         /\ Len(Window(ring, a, b)) = Distance(a, b)
         /\ DOMAIN Window(ring, a, b) = 1 .. Distance(a, b)
         /\ \A i \in 1 .. Distance(a, b) : Window(ring, a, b)[i] = ring[Slot(a + i - 1)]
<1>1. Distance(a, b) \in Nat
  BY DistanceIs, QueueAssumption
<1>2. \A i \in 1 .. Distance(a, b) : ring[Slot(a + i - 1)] \in Desc
  <2> TAKE i \in 1 .. Distance(a, b)
  <2>1. a + i - 1 \in Int
    BY <1>1 DEF Index
  <2>2. QED
    BY <2>1, SlotType, Zenon
<1>3. QED
  BY <1>1, <1>2 DEF Window

\* The slot of an index behind the first one of a window.
LEMMA SlotAhead ==
  ASSUME NEW a \in Index, NEW b \in Index
  PROVE  Slot(a + Distance(a, b)) = Slot(b)
<1>1. a \in Int /\ b \in Int /\ IdxMod \in Int /\ Distance(a, b) \in Int
  BY DistanceIs, QueueAssumption DEF Index
<1>2. CASE a <= b
  BY <1>1, <1>2, DistanceIs
<1>3. CASE ~(a <= b)
  <2>1. PICK c \in Int : c = a + Distance(a, b)
    BY <1>1
  <2>2. c - IdxMod = b
    BY <1>1, <1>3, <2>1, DistanceIs
  <2>3. Slot(c - IdxMod) = Slot(c)
    BY SlotWraps, Zenon
  <2>4. QED
    BY <2>1, <2>2, <2>3, Zenon
<1>4. QED
  BY <1>2, <1>3, Zenon


\* Writing the slot behind a window that is not full leaves the window alone.
LEMMA WindowSlot ==
  ASSUME NEW ring \in [Desc -> Desc], NEW a \in Index, NEW b \in Index, NEW d \in Desc,
         Distance(a, b) < Qsz
  PROVE  Window([ring EXCEPT ![Slot(b)] = d], a, b) = Window(ring, a, b)
<1>1. a \in Int /\ Distance(a, b) \in Nat /\ Qsz \in Nat \ {0}
  BY DistanceIs, QueueAssumption DEF Index
<1>2. \A i \in 1 .. Distance(a, b) : Slot(a + i - 1) # Slot(b)
  <2> TAKE i \in 1 .. Distance(a, b)
  <2>1. PICK x \in Int, y \in Int : x = a + i - 1 /\ y = a + Distance(a, b)
    BY <1>1
  <2>2. x # y /\ x - y < Qsz /\ y - x < Qsz
    BY <1>1, <2>1
  <2>3. x % Qsz # y % Qsz
    BY <1>1, <2>2, ModInjective, Zenon
  <2>4. Slot(y) = Slot(b)
    BY <2>1, SlotAhead, Zenon
  <2>5. QED
    BY <2>1, <2>3, <2>4, Zenon DEF Slot
<1>3. \A i \in 1 .. Distance(a, b) : Slot(a + i - 1) \in Desc
  <2> TAKE i \in 1 .. Distance(a, b)
  <2>1. a + i - 1 \in Int
    BY <1>1
  <2>2. QED
    BY <2>1, SlotType, Zenon
<1>4. QED
  BY <1>2, <1>3, Zenon DEF Window

\* Advancing the index behind a window puts the slot there at its end.
LEMMA WindowPublish ==
  ASSUME NEW ring \in [Desc -> Desc], NEW a \in Index, NEW b \in Index,
         Distance(a, b) < IdxMod - 1
  PROVE  Window(ring, a, Succ(b)) = Append(Window(ring, a, b), ring[Slot(b)])
<1> DEFINE w == Window(ring, a, b)
           v == Window(ring, a, Succ(b))
           n == Distance(a, b)
<1>1. /\ w \in Seq(Desc) /\ Len(w) = n
      /\ \A i \in 1 .. n : w[i] = ring[Slot(a + i - 1)]
  BY WindowType, Zenon
<1>2. Succ(b) \in Index /\ n \in Nat /\ a \in Int
  BY SuccIs, DistanceIs, QueueAssumption DEF Index
<1>3. Distance(a, Succ(b)) = n + 1
  BY DistanceSucc, Zenon
<1>4. /\ v \in Seq(Desc) /\ Len(v) = n + 1
      /\ \A i \in 1 .. (n + 1) : v[i] = ring[Slot(a + i - 1)]
  <2>1. /\ v \in Seq(Desc) /\ Len(v) = Distance(a, Succ(b))
        /\ \A i \in 1 .. Distance(a, Succ(b)) : v[i] = ring[Slot(a + i - 1)]
    BY <1>2, WindowType, Zenon
  <2>2. QED
    BY <1>3, <2>1, Zenon
<1>5. ring[Slot(b)] \in Desc
  BY SlotType DEF Index
<1>6. a + (n + 1) - 1 = a + n
  BY <1>2
<1>7. v[n + 1] = ring[Slot(b)]
  BY <1>2, <1>4, <1>6, SlotAhead
<1> HIDE DEF v, w
<1>8. v = Append(w, ring[Slot(b)])
  <2> DEFINE u == Append(w, ring[Slot(b)])
  <2>1. /\ u \in Seq(Desc) /\ Len(u) = n + 1 /\ u[n + 1] = ring[Slot(b)]
        /\ \A i \in 1 .. n : u[i] = w[i]
    BY <1>1, <1>5, AppendProperties
  <2> HIDE DEF u, n
  <2>2. \A i \in 1 .. (n + 1) : v[i] = u[i]
    <3> TAKE i \in 1 .. (n + 1)
    <3>1. i \in 1 .. n \/ i = n + 1
      BY <1>2
    <3>2. QED
      BY <1>1, <1>4, <1>7, <2>1, <3>1, Zenon
  <2>3. v = u
    BY <1>4, <2>1, <2>2, SeqEqual, Zenon
  <2>4. QED
    BY <2>3, Zenon DEF u
<1>9. QED
  BY <1>8, Zenon DEF v, w

\* Advancing the index at the front takes the first slot away.
LEMMA WindowPop ==
  ASSUME NEW ring \in [Desc -> Desc], NEW a \in Index, NEW b \in Index, a # b
  PROVE  /\ Window(ring, a, b) # << >>
         /\ Head(Window(ring, a, b)) = ring[Slot(a)]
         /\ Window(ring, Succ(a), b) = Tail(Window(ring, a, b))
<1> DEFINE w == Window(ring, a, b)
           v == Window(ring, Succ(a), b)
           n == Distance(a, b)
<1>1. /\ w \in Seq(Desc) /\ Len(w) = n
      /\ \A i \in 1 .. n : w[i] = ring[Slot(a + i - 1)]
  BY WindowType, Zenon
<1>2. Succ(a) \in Index /\ n \in Nat \ {0} /\ a \in Int /\ IdxMod \in Int
  BY SuccIs, DistanceIs, QueueAssumption DEF Index
<1>3. Distance(Succ(a), b) = n - 1
  BY DistanceSucc, Zenon
<1>4. /\ v \in Seq(Desc) /\ Len(v) = n - 1
      /\ \A i \in 1 .. (n - 1) : v[i] = ring[Slot(Succ(a) + i - 1)]
  <2>1. /\ v \in Seq(Desc) /\ Len(v) = Distance(Succ(a), b)
        /\ \A i \in 1 .. Distance(Succ(a), b) : v[i] = ring[Slot(Succ(a) + i - 1)]
    BY <1>2, WindowType, Zenon
  <2>2. QED
    BY <1>3, <2>1, Zenon
<1>5. \A i \in 1 .. (n - 1) : Slot(Succ(a) + i - 1) = Slot(a + (i + 1) - 1)
  <2> TAKE i \in 1 .. (n - 1)
  <2>1. PICK x \in Int : x = a + i
    BY <1>2
  <2>2. Succ(a) + i - 1 = x \/ Succ(a) + i - 1 = x - IdxMod
    BY <1>2, <2>1, SuccIs
  <2>3. Slot(x - IdxMod) = Slot(x)
    BY SlotWraps, Zenon
  <2>4. a + (i + 1) - 1 = x
    BY <1>2, <2>1
  <2>5. QED
    BY <2>2, <2>3, <2>4, Zenon
<1>6. w # << >> /\ w[1] = ring[Slot(a)]
  <2>1. a + 1 - 1 = a /\ 1 \in 1 .. n
    BY <1>2
  <2>2. QED
    BY <1>1, <1>2, <2>1, EmptySeq, Zenon
<1> HIDE DEF v, w
<1>7. Head(w) = w[1]
  BY <1>1, <1>6
<1>8. v = Tail(w)
  <2>1. /\ Tail(w) \in Seq(Desc) /\ Len(Tail(w)) = n - 1
        /\ \A i \in 1 .. (n - 1) : Tail(w)[i] = w[i + 1]
    BY <1>1, <1>6, HeadTailProperties
  <2>2. \A i \in 1 .. (n - 1) : i + 1 \in 1 .. n
    BY <1>2
  <2>3. \A i \in 1 .. (n - 1) : v[i] = Tail(w)[i]
    BY <1>1, <1>4, <1>5, <2>1, <2>2, Zenon
  <2>4. QED
    BY <1>4, <2>1, <2>3, SeqEqual, Zenon
<1>9. QED
  BY <1>6, <1>7, <1>8, Zenon DEF v, w

-----------------------------------------------------------------------------
(* How often a descriptor occurs in a sequence.                            *)

LEMMA CountFinite ==
  ASSUME NEW s \in Seq(Desc), NEW d
  PROVE  /\ IsFiniteSet({i \in DOMAIN s : s[i] = d})
         /\ Count(s, d) \in Nat
<1>1. DOMAIN s = 1 .. Len(s) /\ Len(s) \in Nat
  OBVIOUS
<1>2. IsFiniteSet(1 .. Len(s))
  BY <1>1, FS_Interval
<1>3. {i \in DOMAIN s : s[i] = d} \in SUBSET (1 .. Len(s))
  BY <1>1, Zenon
<1>4. IsFiniteSet({i \in DOMAIN s : s[i] = d})
  BY <1>2, <1>3, FS_Subset, Zenon
<1>5. QED
  BY <1>4, FS_CardinalityType, Zenon DEF Count

LEMMA CountZero ==
  ASSUME NEW s \in Seq(Desc), NEW d
  PROVE  Count(s, d) = 0 <=> \A i \in 1 .. Len(s) : s[i] # d
<1> DEFINE S == {i \in DOMAIN s : s[i] = d}
<1>1. IsFiniteSet(S)
  BY CountFinite, Zenon
<1>2. Cardinality(S) = 0 <=> S = {}
  BY <1>1, FS_EmptySet, Zenon
<1>3. DOMAIN s = 1 .. Len(s)
  OBVIOUS
<1>4. QED
  BY <1>2, <1>3, Zenon DEF Count

LEMMA CountEmpty ==
  ASSUME NEW d
  PROVE  Count(<< >>, d) = 0
<1>1. << >> \in Seq(Desc) /\ Len(<< >>) = 0
  OBVIOUS
<1>2. \A i \in 1 .. 0 : <<>>[i] # d
  OBVIOUS
<1>3. QED
  BY <1>1, <1>2, CountZero, Zenon

LEMMA CountAppend ==
  ASSUME NEW s \in Seq(Desc), NEW e \in Desc, NEW d
  PROVE  Count(Append(s, e), d) = Count(s, d) + (IF e = d THEN 1 ELSE 0)
<1> DEFINE t == Append(s, e)
           n == Len(s)
           S == {i \in 1 .. n : s[i] = d}
           T == {i \in 1 .. (n + 1) : t[i] = d}
<1>1. /\ n \in Nat /\ DOMAIN s = 1 .. n /\ DOMAIN t = 1 .. (n + 1) /\ t[n + 1] = e
      /\ \A i \in 1 .. n : t[i] = s[i]
  BY AppendProperties
<1>2. Count(s, d) = Cardinality(S) /\ Count(t, d) = Cardinality(T)
  BY <1>1, Zenon DEF Count
<1>3. IsFiniteSet(S) /\ Cardinality(S) \in Nat
  BY <1>1, CountFinite, <1>2, Zenon
<1>4. T = IF e = d THEN S \cup {n + 1} ELSE S
  <2> HIDE DEF t, n
  <2>1. \A i : i \in 1 .. (n + 1) <=> i \in 1 .. n \/ i = n + 1
    BY <1>1
  <2>2. QED
    BY <1>1, <2>1, Zenon
<1>5. n + 1 \notin S
  BY <1>1
<1> HIDE DEF S, T, t, n
<1>6. Cardinality(S \cup {n + 1}) = Cardinality(S) + 1
  BY <1>3, <1>5, FS_AddElement, Zenon
<1>7. QED
  BY <1>2, <1>3, <1>4, <1>6 DEF t

\* The stack without its top.
LEMMA CountFront ==
  ASSUME NEW s \in Seq(Desc), s # << >>, NEW d
  PROVE  LET f == SubSeq(s, 1, Len(s) - 1) IN
         /\ f \in Seq(Desc) /\ s[Len(s)] \in Desc /\ Len(f) = Len(s) - 1
         /\ s = Append(f, s[Len(s)])
         /\ Count(s, d) = Count(f, d) + (IF s[Len(s)] = d THEN 1 ELSE 0)
<1> DEFINE n == Len(s)
           f == SubSeq(s, 1, n - 1)
<1>1. n \in Nat \ {0} /\ s[n] \in Desc
  BY EmptySeq, ElementOfSeq
<1>2. f \in Seq(Desc) /\ Len(f) = n - 1 /\ \A i \in 1 .. (n - 1) : f[i] = s[i]
  <2>1. PICK m \in Int : m = n - 1
    BY <1>1
  <2>2. \A i \in 1 .. m : s[i] \in Desc
    BY <2>1, ElementOfSeq
  <2>3. /\ SubSeq(s, 1, m) \in Seq(Desc)
        /\ Len(SubSeq(s, 1, m)) = IF 1 <= m THEN m - 1 + 1 ELSE 0
        /\ \A i \in 1 .. m - 1 + 1 : SubSeq(s, 1, m)[i] = s[1 + i - 1]
    BY <2>2, SubSeqProperties
  <2>4. m - 1 + 1 = m /\ \A i \in 1 .. m : 1 + i - 1 = i
    BY <2>1
  <2>5. QED
    BY <1>1, <2>1, <2>3, <2>4
<1>3. s = Append(f, s[n])
  <2> DEFINE u == Append(f, s[n])
  <2>1. u \in Seq(Desc) /\ Len(u) = n /\ u[n] = s[n] /\ \A i \in 1 .. (n - 1) : u[i] = f[i]
    BY <1>1, <1>2, AppendProperties
  <2> HIDE DEF f, u, n
  <2>2. \A i \in 1 .. n : i \in 1 .. (n - 1) \/ i = n
    BY <1>1
  <2>3. \A i \in 1 .. n : u[i] = s[i]
    BY <1>2, <2>1, <2>2, Zenon
  <2>4. Len(s) = n
    BY Zenon DEF n
  <2>5. u = s
    BY <2>1, <2>3, <2>4, SeqEqual, Zenon
  <2>6. QED
    BY <2>5, Zenon DEF u
<1>4. Count(Append(f, s[n]), d) = Count(f, d) + (IF s[n] = d THEN 1 ELSE 0)
  BY <1>1, <1>2, CountAppend, Zenon
<1>5. QED
  BY <1>1, <1>2, <1>3, <1>4, Zenon

\* A window without its first slot.
LEMMA CountTail ==
  ASSUME NEW s \in Seq(Desc), s # << >>, NEW d
  PROVE  /\ Tail(s) \in Seq(Desc) /\ Head(s) \in Desc
         /\ Count(s, d) = Count(Tail(s), d) + (IF Head(s) = d THEN 1 ELSE 0)
<1> DEFINE t == Tail(s)
           n == Len(s)
           S == {i \in 2 .. n : s[i] = d}
           T == {i \in 1 .. (n - 1) : t[i] = d}
<1>1. /\ n \in Nat \ {0} /\ DOMAIN s = 1 .. n
      /\ t \in Seq(Desc) /\ Len(t) = n - 1 /\ Head(s) \in Desc
      /\ \A i \in 1 .. (n - 1) : t[i] = s[i + 1]
  BY HeadTailProperties, EmptySeq
<1>2. Head(s) = s[1] /\ DOMAIN t = 1 .. (n - 1)
  BY <1>1
<1>3. Count(t, d) = Cardinality(T) /\ IsFiniteSet(T) /\ Cardinality(T) \in Nat
  BY <1>1, <1>2, CountFinite, Zenon DEF Count
<1>4. IsFiniteSet(S) /\ Cardinality(S) = Cardinality(T)
  <2> DEFINE g == [i \in T |-> i + 1]
  <2>1. g \in [T -> S]
    BY <1>1
  <2>2. \A i, j \in T : g[i] = g[j] => i = j
    BY <1>1
  <2>3. \A j \in S : \E i \in T : g[i] = j
    <3> TAKE j \in S
    <3>1. j \in 2 .. n /\ j - 1 \in 1 .. (n - 1) /\ (j - 1) + 1 = j
      BY <1>1
    <3>2. j - 1 \in T
      BY <1>1, <3>1, Zenon
    <3>3. QED
      BY <3>1, <3>2, Zenon
  <2>4. g \in Bijection(T, S)
    BY <2>1, <2>2, <2>3, Zenon DEF Bijection, Injection, Surjection, IsInjective
  <2>5. ExistsBijection(T, S)
    BY <2>4, Zenon DEF ExistsBijection
  <2>6. IsFiniteSet(T)
    BY <1>3, Zenon
  <2> HIDE DEF S, T
  <2>7. QED
    BY <2>5, <2>6, FS_Bijection, Zenon
<1>5. {i \in DOMAIN s : s[i] = d} = IF s[1] = d THEN S \cup {1} ELSE S
  <2> HIDE DEF n
  <2>1. \A i : i \in 1 .. n <=> i \in 2 .. n \/ i = 1
    BY <1>1
  <2>2. QED
    BY <1>1, <2>1, Zenon
<1>6. 1 \notin S
  OBVIOUS
<1> HIDE DEF S, T, t, n
<1>7. Cardinality(S \cup {1}) = Cardinality(S) + 1
  BY <1>4, <1>6, FS_AddElement, Zenon
<1>8. Count(s, d) = Cardinality(IF s[1] = d THEN S \cup {1} ELSE S)
  BY <1>5, Zenon DEF Count
<1>9. QED
  BY <1>1, <1>2, <1>3, <1>4, <1>7, <1>8 DEF t

\* Two places of the same descriptor count twice.
LEMMA CountOnce ==
  ASSUME NEW s \in Seq(Desc), NEW i \in 1 .. Len(s), NEW j \in 1 .. Len(s),
         s[i] = s[j], Count(s, s[i]) <= 1
  PROVE  i = j
<1> DEFINE S == {k \in DOMAIN s : s[k] = s[i]}
<1>1. IsFiniteSet(S) /\ Cardinality(S) \in Nat /\ Cardinality(S) <= 1
  BY CountFinite, Zenon DEF Count
<1>2. i \in S /\ j \in S
  OBVIOUS
<1> HIDE DEF S
<1>3. Cardinality(S) # 0
  BY <1>1, <1>2, FS_EmptySet, Zenon
<1>4. \E x : S = {x}
  <2>1. Cardinality(S) = 1
    BY <1>1, <1>3
  <2>2. QED
    BY <1>1, <2>1, FS_Singleton, Zenon
<1>5. QED
  BY <1>2, <1>4

\* Descriptors that occur once leave room for one that does not occur.
LEMMA PigeonHole ==
  ASSUME NEW s \in Seq(Desc), \A d \in Desc : Count(s, d) <= 1,
         NEW e \in Desc, Count(s, e) = 0
  PROVE  Len(s) < Qsz
<1> DEFINE D == Desc \ {e}
<1>1. Qsz \in Nat \ {0} /\ Len(s) \in Nat /\ DOMAIN s = 1 .. Len(s)
  BY QueueAssumption
<1>2. IsFiniteSet(Desc) /\ Cardinality(Desc) = Qsz
  <2>1. PICK m \in Int : m = Qsz - 1
    BY <1>1
  <2>2. IsFiniteSet(0 .. m) /\ Cardinality(0 .. m) = IF 0 > m THEN 0 ELSE m - 0 + 1
    BY FS_Interval
  <2>3. QED
    BY <1>1, <2>1, <2>2 DEF Desc
<1>3. IsFiniteSet(D) /\ Cardinality(D) = Qsz - 1
  BY <1>2, FS_RemoveElement, Zenon
<1>4. IsFiniteSet(1 .. Len(s)) /\ Cardinality(1 .. Len(s)) = Len(s)
  <2>1. PICK m \in Nat : m = Len(s)
    BY <1>1, Zenon
  <2>2. IsFiniteSet(1 .. m) /\ Cardinality(1 .. m) = IF 1 > m THEN 0 ELSE m - 1 + 1
    BY FS_Interval, SMTT(30)
  <2>3. QED
    BY <2>1, <2>2, SMTT(30)
<1>5. s \in [1 .. Len(s) -> D]
  <2>1. \A i \in 1 .. Len(s) : s[i] \in Desc /\ s[i] # e
    BY CountZero, ElementOfSeq, Zenon
  <2>2. s = [i \in 1 .. Len(s) |-> s[i]]
    BY <1>1, LenProperties, Zenon
  <2>3. QED
    BY <2>1, <2>2, Zenon
<1>6. \A i, j \in 1 .. Len(s) : s[i] = s[j] => i = j
  <2>1. \A i \in 1 .. Len(s) : Count(s, s[i]) <= 1
    BY ElementOfSeq, Zenon
  <2>2. QED
    BY <2>1, CountOnce, Zenon
<1>7. ~ (Cardinality(D) < Cardinality(1 .. Len(s)))
  BY <1>3, <1>4, <1>5, <1>6, FS_PigeonHole
<1>8. QED
  BY <1>1, <1>3, <1>4, <1>7

-----------------------------------------------------------------------------
(* The operations of a queue.                                              *)

\* Every descriptor is in exactly one place, extra being in the driver's hands.
Balanced(q, extra) == \A d \in Desc : Places(q, extra, d) = 1

LEMMA WindowsType ==
  ASSUME NEW q \in VirtQueueType
  PROVE  /\ q.free \in Seq(Desc)
         /\ AvailWindow(q) \in Seq(Desc) /\ Len(AvailWindow(q)) = Distance(q.devIdx, q.availIdx)
         /\ UsedWindow(q) \in Seq(Desc) /\ Len(UsedWindow(q)) = Distance(q.lastUsed, q.usedIdx)
BY WindowType, ZenonT(30) DEF VirtQueueType, AvailWindow, UsedWindow

LEMMA CountsNat ==
  ASSUME NEW q \in VirtQueueType, NEW extra \in Seq(Desc), NEW d
  PROVE  /\ Count(q.free, d) \in Nat /\ Count(AvailWindow(q), d) \in Nat
         /\ Count(UsedWindow(q), d) \in Nat /\ Count(extra, d) \in Nat
BY WindowsType, CountFinite, Zenon

LEMMA CountOne ==
  ASSUME NEW c \in Desc, NEW d
  PROVE  <<c>> \in Seq(Desc) /\ Count(<<c>>, d) = IF c = d THEN 1 ELSE 0
<1>1. << >> \in Seq(Desc) /\ Append(<< >>, c) = <<c>> /\ <<c>> \in Seq(Desc)
  OBVIOUS
<1>2. Count(Append(<< >>, c), d) = Count(<< >>, d) + (IF c = d THEN 1 ELSE 0)
  BY <1>1, CountAppend, Zenon
<1>3. QED
  BY <1>1, <1>2, CountEmpty

\* A ring has room for a descriptor that is in another place.
LEMMA RoomForAvail ==
  ASSUME NEW q \in VirtQueueType, NEW c \in Desc, Balanced(q, <<c>>)
  PROVE  Distance(q.devIdx, q.availIdx) < Qsz
<1> DEFINE w == AvailWindow(q)
<1>1. w \in Seq(Desc) /\ Len(w) = Distance(q.devIdx, q.availIdx)
  BY WindowsType, Zenon
<1>2. \A d \in Desc : Count(w, d) <= 1 /\ (d = c => Count(w, d) = 0)
  <2> TAKE d \in Desc
  <2>1. Places(q, <<c>>, d) = 1
    BY Zenon DEF Balanced
  <2>2. /\ <<c>> \in Seq(Desc) /\ Count(<<c>>, d) = IF c = d THEN 1 ELSE 0
        /\ Count(q.free, d) \in Nat /\ Count(w, d) \in Nat /\ Count(UsedWindow(q), d) \in Nat
    BY CountOne, CountsNat, Zenon
  <2>3. QED
    BY <2>1, <2>2 DEF Places
<1> HIDE DEF w
<1>3. QED
  BY <1>1, <1>2, PigeonHole, Zenon

LEMMA RoomForUsed ==
  ASSUME NEW q \in VirtQueueType, NEW extra \in Seq(Desc), Balanced(q, extra),
         NEW c \in Desc, c \in q.held
  PROVE  Distance(q.lastUsed, q.usedIdx) < Qsz
<1> DEFINE w == UsedWindow(q)
<1>1. w \in Seq(Desc) /\ Len(w) = Distance(q.lastUsed, q.usedIdx)
  BY WindowsType, Zenon
<1>2. \A d \in Desc : Count(w, d) <= 1 /\ (d = c => Count(w, d) = 0)
  <2> TAKE d \in Desc
  <2>1. Places(q, extra, d) = 1
    BY Zenon DEF Balanced
  <2>2. QED
    BY <2>1, CountsNat DEF Places
<1> HIDE DEF w
<1>3. QED
  BY <1>1, <1>2, PigeonHole, Zenon

\* alloc_desc moves the top of the stack into the driver's hands.
LEMMA AllocMoves ==
  ASSUME NEW q \in VirtQueueType, CanAlloc(q), Balanced(q, << >>)
  PROVE  /\ AllocDesc(q) \in Desc /\ AfterAlloc(q) \in VirtQueueType
         /\ Len(q.free) \in Nat \ {0} /\ Len(AfterAlloc(q).free) = Len(q.free) - 1
         /\ AvailWindow(AfterAlloc(q)) = AvailWindow(q)
         /\ UsedWindow(AfterAlloc(q)) = UsedWindow(q)
         /\ AfterAlloc(q).held = q.held
         /\ Balanced(AfterAlloc(q), <<AllocDesc(q)>>)
<1> DEFINE f == SubSeq(q.free, 1, Len(q.free) - 1)
           r == AfterAlloc(q)
<1>1. q.free \in Seq(Desc) /\ q.free # << >>
  BY Zenon DEF VirtQueueType, CanAlloc
<1>2. /\ f \in Seq(Desc) /\ AllocDesc(q) \in Desc /\ Len(f) = Len(q.free) - 1
      /\ \A d : Count(q.free, d) = Count(f, d) + (IF AllocDesc(q) = d THEN 1 ELSE 0)
  BY <1>1, CountFront, Zenon DEF AllocDesc
<1>3. Len(q.free) \in Nat \ {0}
  BY <1>1, EmptySeq, Zenon
<1> HIDE DEF f
<1>4. r = [q EXCEPT !.free = f]
  BY Zenon DEF AfterAlloc, f
<1>5. /\ r \in VirtQueueType /\ r.free = f /\ r.held = q.held
      /\ AvailWindow(r) = AvailWindow(q) /\ UsedWindow(r) = UsedWindow(q)
  BY <1>2, <1>4, Zenon DEF VirtQueueType, AvailWindow, UsedWindow
<1>6. ASSUME NEW d \in Desc
      PROVE  Places(r, <<AllocDesc(q)>>, d) = 1
  <2>1. Places(q, << >>, d) = 1
    BY Zenon DEF Balanced
  <2>2. Count(f, d) \in Nat
    BY <1>2, CountFinite, Zenon
  <2> HIDE DEF r
  <2>3. QED
    BY <1>2, <1>5, <2>1, <2>2, CountOne, CountEmpty, CountsNat, SMTT(30) DEF Places
<1>7. QED
  BY <1>2, <1>3, <1>5, <1>6, Zenon DEF Balanced

\* The first half of push leaves the descriptor in the driver's hands.
LEMMA PushSlotKeeps ==
  ASSUME NEW q \in VirtQueueType, NEW c \in Desc, Balanced(q, <<c>>)
  PROVE  /\ PushSlot(q, c) \in VirtQueueType
         /\ PushSlot(q, c).availRing[Slot(PushSlot(q, c).availIdx)] = c
         /\ PushSlot(q, c).free = q.free /\ PushSlot(q, c).held = q.held
         /\ AvailWindow(PushSlot(q, c)) = AvailWindow(q)
         /\ UsedWindow(PushSlot(q, c)) = UsedWindow(q)
         /\ Balanced(PushSlot(q, c), <<c>>)
<1> DEFINE r == PushSlot(q, c)
           g == [q.availRing EXCEPT ![Slot(q.availIdx)] = c]
<1>1. Slot(q.availIdx) \in Desc
  BY SlotType DEF VirtQueueType, Index
<1>2. g \in [Desc -> Desc] /\ g[Slot(q.availIdx)] = c
  BY <1>1, Zenon DEF VirtQueueType
<1>3. Window(g, q.devIdx, q.availIdx) = Window(q.availRing, q.devIdx, q.availIdx)
  BY RoomForAvail, WindowSlot DEF VirtQueueType
<1>4. r = [q EXCEPT !.availRing = g]
  BY Zenon DEF PushSlot, VirtQueueType
<1> HIDE DEF r, g
<1>5. /\ r \in VirtQueueType /\ r.availRing = g /\ r.availIdx = q.availIdx
      /\ r.free = q.free /\ r.held = q.held /\ r.devIdx = q.devIdx
      /\ UsedWindow(r) = UsedWindow(q)
  BY <1>2, <1>4, Zenon DEF VirtQueueType, UsedWindow
<1>6. AvailWindow(r) = AvailWindow(q)
  BY <1>3, <1>5, Zenon DEF AvailWindow
<1>7. Balanced(r, <<c>>)
  BY <1>5, <1>6, Zenon DEF Balanced, Places
<1>8. QED
  BY <1>2, <1>5, <1>6, <1>7, Zenon DEF r

\* The index that hands the slot to the device moves the descriptor into the
\* available ring, behind what is there.
LEMMA PushIdxMoves ==
  ASSUME NEW q \in VirtQueueType, NEW c \in Desc, Balanced(q, <<c>>),
         q.availRing[Slot(q.availIdx)] = c
  PROVE  /\ PushIdx(q) \in VirtQueueType
         /\ PushIdx(q).free = q.free /\ PushIdx(q).held = q.held
         /\ AvailWindow(PushIdx(q)) = Append(AvailWindow(q), c)
         /\ UsedWindow(PushIdx(q)) = UsedWindow(q)
         /\ Balanced(PushIdx(q), << >>)
<1> DEFINE r == PushIdx(q)
<1>1. q.availIdx \in Index /\ q.devIdx \in Index /\ q.availRing \in [Desc -> Desc]
  BY Zenon DEF VirtQueueType
<1>2. Succ(q.availIdx) \in Index
  BY <1>1, SuccIs, Zenon
<1>3. Distance(q.devIdx, q.availIdx) < IdxMod - 1
  <2>1. Distance(q.devIdx, q.availIdx) \in Int
    BY <1>1, DistanceIs, QueueAssumption
  <2>2. QED
    BY <2>1, RoomForAvail, QueueAssumption
<1>4. Window(q.availRing, q.devIdx, Succ(q.availIdx))
        = Append(Window(q.availRing, q.devIdx, q.availIdx), c)
  BY <1>1, <1>3, WindowPublish, Zenon
<1>5. r = [q EXCEPT !.availIdx = Succ(q.availIdx)]
  BY Zenon DEF PushIdx
<1> HIDE DEF r
<1>6. /\ r \in VirtQueueType /\ r.availRing = q.availRing /\ r.availIdx = Succ(q.availIdx)
      /\ r.free = q.free /\ r.held = q.held /\ r.devIdx = q.devIdx
      /\ UsedWindow(r) = UsedWindow(q)
  BY <1>2, <1>5, Zenon DEF VirtQueueType, UsedWindow
<1>7. AvailWindow(r) = Append(AvailWindow(q), c)
  BY <1>4, <1>6, Zenon DEF AvailWindow
<1>8. ASSUME NEW d \in Desc
      PROVE  Places(r, << >>, d) = 1
  <2>1. Places(q, <<c>>, d) = 1
    BY Zenon DEF Balanced
  <2>2. Count(AvailWindow(r), d) = Count(AvailWindow(q), d) + (IF c = d THEN 1 ELSE 0)
    BY <1>7, CountAppend, WindowsType
  <2>3. Count(<<c>>, d) = (IF c = d THEN 1 ELSE 0) /\ Count(<< >>, d) = 0
    BY CountOne, CountEmpty, Zenon
  <2>4. /\ Count(q.free, d) \in Nat /\ Count(AvailWindow(q), d) \in Nat /\ Count(UsedWindow(q), d) \in Nat
        /\ Count(r.free, d) \in Nat /\ Count(AvailWindow(r), d) \in Nat /\ Count(UsedWindow(r), d) \in Nat
    BY <1>6, WindowsType, CountFinite, Zenon
  <2>5. QED
    BY <1>6, <2>1, <2>2, <2>3, <2>4 DEF Places
<1>9. QED
  BY <1>6, <1>7, <1>8, Zenon DEF Balanced, r

\* pop_used moves the first descriptor of the used ring into the driver's hands.
LEMMA PopMoves ==
  ASSUME NEW q \in VirtQueueType, HasUsed(q), Balanced(q, << >>)
  PROVE  /\ AfterPop(q) \in VirtQueueType /\ UsedElem(q) \in Desc
         /\ AfterPop(q).free = q.free /\ AfterPop(q).held = q.held
         /\ UsedWindow(q) # << >> /\ UsedElem(q) = Head(UsedWindow(q))
         /\ UsedWindow(AfterPop(q)) = Tail(UsedWindow(q))
         /\ AvailWindow(AfterPop(q)) = AvailWindow(q)
         /\ Balanced(AfterPop(q), <<UsedElem(q)>>)
<1> DEFINE r == AfterPop(q)
           e == UsedElem(q)
<1>1. /\ q.lastUsed \in Index /\ q.usedIdx \in Index /\ q.usedRing \in [Desc -> Desc]
      /\ q.lastUsed # q.usedIdx
  BY Zenon DEF VirtQueueType, HasUsed
<1>2. Succ(q.lastUsed) \in Index
  BY <1>1, SuccIs, Zenon
<1>3. e \in Desc
  BY <1>1, SlotType DEF UsedElem, Index
<1>4. r = [q EXCEPT !.lastUsed = Succ(q.lastUsed)]
  BY Zenon DEF AfterPop
<1>5. UsedWindow(q) # << >> /\ e = Head(UsedWindow(q))
  BY <1>1, WindowPop, Zenon DEF UsedWindow, UsedElem
<1> HIDE DEF r, e
<1>6. /\ r \in VirtQueueType /\ r.usedRing = q.usedRing /\ r.usedIdx = q.usedIdx
      /\ r.free = q.free /\ r.held = q.held /\ r.lastUsed = Succ(q.lastUsed)
      /\ AvailWindow(r) = AvailWindow(q)
  BY <1>2, <1>4, Zenon DEF VirtQueueType, AvailWindow
<1>7. UsedWindow(r) = Tail(UsedWindow(q))
  BY <1>1, <1>6, WindowPop, Zenon DEF UsedWindow
<1>8. ASSUME NEW d \in Desc
      PROVE  Places(r, <<e>>, d) = 1
  <2>1. Places(q, << >>, d) = 1
    BY Zenon DEF Balanced
  <2>2. Count(UsedWindow(q), d) = Count(UsedWindow(r), d) + (IF e = d THEN 1 ELSE 0)
    BY <1>5, <1>7, CountTail, WindowsType, Zenon
  <2>3. Count(<<e>>, d) = (IF e = d THEN 1 ELSE 0) /\ Count(<< >>, d) = 0 /\ <<e>> \in Seq(Desc)
    BY <1>3, CountOne, CountEmpty, Zenon
  <2>4. /\ Count(q.free, d) \in Nat /\ Count(AvailWindow(q), d) \in Nat /\ Count(UsedWindow(q), d) \in Nat
        /\ Count(r.free, d) \in Nat /\ Count(AvailWindow(r), d) \in Nat /\ Count(UsedWindow(r), d) \in Nat
    BY <1>6, WindowsType, CountFinite, Zenon
  <2>5. QED
    BY <1>6, <2>1, <2>2, <2>3, <2>4 DEF Places
<1>9. QED
  BY <1>3, <1>5, <1>6, <1>7, <1>8, Zenon DEF Balanced, r, e

\* free_desc moves a descriptor from the driver's hands to the stack.
LEMMA FreeMoves ==
  ASSUME NEW q \in VirtQueueType, NEW e \in Desc, Balanced(q, <<e>>)
  PROVE  /\ FreeDesc(q, e) \in VirtQueueType
         /\ Len(q.free) \in Nat /\ Len(FreeDesc(q, e).free) = Len(q.free) + 1
         /\ FreeDesc(q, e).held = q.held
         /\ AvailWindow(FreeDesc(q, e)) = AvailWindow(q)
         /\ UsedWindow(FreeDesc(q, e)) = UsedWindow(q)
         /\ Balanced(FreeDesc(q, e), << >>)
<1> DEFINE r == FreeDesc(q, e)
<1>1. ~ (e >= Qsz)
  BY QueueAssumption DEF Desc
<1>2. q.free \in Seq(Desc) /\ Append(q.free, e) \in Seq(Desc) /\ Len(q.free) \in Nat
      /\ Len(Append(q.free, e)) = Len(q.free) + 1
  BY DEF VirtQueueType
<1>3. r = [q EXCEPT !.free = Append(q.free, e)]
  BY <1>1, Zenon DEF FreeDesc
<1> HIDE DEF r
<1>4. /\ r \in VirtQueueType /\ r.free = Append(q.free, e) /\ r.held = q.held
      /\ AvailWindow(r) = AvailWindow(q) /\ UsedWindow(r) = UsedWindow(q)
  BY <1>2, <1>3, Zenon DEF VirtQueueType, AvailWindow, UsedWindow
<1>5. ASSUME NEW d \in Desc
      PROVE  Places(r, << >>, d) = 1
  <2>1. Places(q, <<e>>, d) = 1
    BY Zenon DEF Balanced
  <2>2. Count(r.free, d) = Count(q.free, d) + (IF e = d THEN 1 ELSE 0)
    BY <1>2, <1>4, CountAppend
  <2>3. Count(<<e>>, d) = (IF e = d THEN 1 ELSE 0) /\ Count(<< >>, d) = 0 /\ <<e>> \in Seq(Desc)
    BY CountOne, CountEmpty, Zenon
  <2>4. /\ Count(q.free, d) \in Nat /\ Count(AvailWindow(q), d) \in Nat /\ Count(UsedWindow(q), d) \in Nat
        /\ Count(r.free, d) \in Nat /\ Count(AvailWindow(r), d) \in Nat /\ Count(UsedWindow(r), d) \in Nat
    BY <1>4, WindowsType, CountFinite, Zenon
  <2>5. QED
    BY <1>4, <2>1, <2>2, <2>3, <2>4 DEF Places
<1>6. QED
  BY <1>2, <1>4, <1>5, Zenon DEF Balanced, r

\* The device takes the first descriptor of the available ring.
LEMMA DevTakeMoves ==
  ASSUME NEW q \in VirtQueueType, NEW extra \in Seq(Desc), DevSees(q), Balanced(q, extra)
  PROVE  /\ DevTake(q) \in VirtQueueType /\ DevNext(q) \in Desc
         /\ DevTake(q).free = q.free
         /\ DevTake(q).held = q.held \cup {DevNext(q)} /\ DevNext(q) \notin q.held
         /\ AvailWindow(q) # << >> /\ DevNext(q) = Head(AvailWindow(q))
         /\ AvailWindow(DevTake(q)) = Tail(AvailWindow(q))
         /\ UsedWindow(DevTake(q)) = UsedWindow(q)
         /\ DevTake(q).availRing = q.availRing /\ DevTake(q).availIdx = q.availIdx
         /\ Balanced(DevTake(q), extra)
<1> DEFINE r == DevTake(q)
           e == DevNext(q)
<1>1. /\ q.devIdx \in Index /\ q.availIdx \in Index /\ q.availRing \in [Desc -> Desc]
      /\ q.devIdx # q.availIdx
  BY Zenon DEF VirtQueueType, DevSees
<1>2. Succ(q.devIdx) \in Index
  BY <1>1, SuccIs, Zenon
<1>3. e \in Desc
  BY <1>1, SlotType DEF DevNext, Index
<1>4. r = [q EXCEPT !.devIdx = Succ(q.devIdx), !.held = q.held \cup {e}]
  BY Zenon DEF DevTake
<1>5. AvailWindow(q) # << >> /\ e = Head(AvailWindow(q))
  BY <1>1, WindowPop, Zenon DEF AvailWindow, DevNext
<1> HIDE DEF r, e
<1>6. /\ r \in VirtQueueType /\ r.availRing = q.availRing /\ r.availIdx = q.availIdx
      /\ r.free = q.free /\ r.held = q.held \cup {e} /\ r.devIdx = Succ(q.devIdx)
      /\ UsedWindow(r) = UsedWindow(q)
  BY <1>2, <1>3, <1>4, Zenon DEF VirtQueueType, UsedWindow
<1>7. AvailWindow(r) = Tail(AvailWindow(q))
  BY <1>1, <1>6, WindowPop, Zenon DEF AvailWindow
<1>8. ASSUME NEW d \in Desc
      PROVE  Places(r, extra, d) = 1 /\ (d = e => d \notin q.held)
  <2>1. Places(q, extra, d) = 1
    BY Zenon DEF Balanced
  <2>2. Count(AvailWindow(q), d) = Count(AvailWindow(r), d) + (IF e = d THEN 1 ELSE 0)
    BY <1>5, <1>7, CountTail, WindowsType, Zenon
  <2>3. Count(extra, d) \in Nat
    BY CountFinite, Zenon
  <2>4. /\ Count(q.free, d) \in Nat /\ Count(AvailWindow(q), d) \in Nat /\ Count(UsedWindow(q), d) \in Nat
        /\ Count(r.free, d) \in Nat /\ Count(AvailWindow(r), d) \in Nat /\ Count(UsedWindow(r), d) \in Nat
    BY <1>6, WindowsType, CountFinite, Zenon
  <2>5. d \in r.held <=> d \in q.held \/ d = e
    BY <1>6, Zenon
  <2>6. QED
    BY <1>6, <2>1, <2>2, <2>3, <2>4, <2>5, SMTT(30) DEF Places
<1>9. QED
  BY <1>3, <1>5, <1>6, <1>7, <1>8, Zenon DEF Balanced, r, e

\* The device gives a descriptor back, behind what is in the used ring.
LEMMA DevPutMoves ==
  ASSUME NEW q \in VirtQueueType, NEW extra \in Seq(Desc), Balanced(q, extra),
         NEW e \in Desc, e \in q.held
  PROVE  /\ DevPut(q, e) \in VirtQueueType
         /\ DevPut(q, e).free = q.free /\ DevPut(q, e).held = q.held \ {e}
         /\ AvailWindow(DevPut(q, e)) = AvailWindow(q)
         /\ UsedWindow(DevPut(q, e)) = Append(UsedWindow(q), e)
         /\ Count(UsedWindow(q), e) = 0
         /\ DevPut(q, e).availRing = q.availRing /\ DevPut(q, e).availIdx = q.availIdx
         /\ Balanced(DevPut(q, e), extra)
<1> DEFINE r == DevPut(q, e)
           g == [q.usedRing EXCEPT ![Slot(q.usedIdx)] = e]
<1>1. q.lastUsed \in Index /\ q.usedIdx \in Index /\ q.usedRing \in [Desc -> Desc]
  BY Zenon DEF VirtQueueType
<1>2. Slot(q.usedIdx) \in Desc /\ Succ(q.usedIdx) \in Index
  BY <1>1, SlotType, SuccIs DEF Index
<1>3. g \in [Desc -> Desc] /\ g[Slot(q.usedIdx)] = e
  BY <1>1, <1>2, Zenon
<1>4. Distance(q.lastUsed, q.usedIdx) < Qsz
  BY RoomForUsed, Zenon
<1>5. Window(g, q.lastUsed, q.usedIdx) = Window(q.usedRing, q.lastUsed, q.usedIdx)
  BY <1>1, <1>4, WindowSlot, Zenon
<1>6. r = [q EXCEPT !.usedRing = g, !.usedIdx = Succ(q.usedIdx), !.held = q.held \ {e}]
  BY Zenon DEF DevPut, VirtQueueType
<1> HIDE DEF r, g
<1>7. Distance(q.lastUsed, q.usedIdx) < IdxMod - 1
  <2>1. Distance(q.lastUsed, q.usedIdx) \in Int
    BY <1>1, DistanceIs, QueueAssumption
  <2>2. QED
    BY <1>4, <2>1, QueueAssumption
<1>8. Window(g, q.lastUsed, Succ(q.usedIdx)) = Append(Window(g, q.lastUsed, q.usedIdx), e)
  BY <1>1, <1>3, <1>7, WindowPublish, Zenon
<1>9. /\ r \in VirtQueueType /\ r.usedRing = g /\ r.usedIdx = Succ(q.usedIdx)
      /\ r.free = q.free /\ r.held = q.held \ {e} /\ r.lastUsed = q.lastUsed
      /\ AvailWindow(r) = AvailWindow(q)
      /\ r.availRing = q.availRing /\ r.availIdx = q.availIdx
  BY <1>2, <1>3, <1>6, Zenon DEF VirtQueueType, AvailWindow
<1>10. UsedWindow(r) = Append(UsedWindow(q), e)
  BY <1>5, <1>8, <1>9, Zenon DEF UsedWindow
<1>11. ASSUME NEW d \in Desc
       PROVE  Places(r, extra, d) = 1 /\ (d = e => Count(UsedWindow(q), d) = 0)
  <2>1. Places(q, extra, d) = 1
    BY Zenon DEF Balanced
  <2>2. Count(UsedWindow(r), d) = Count(UsedWindow(q), d) + (IF e = d THEN 1 ELSE 0)
    BY <1>10, CountAppend, WindowsType
  <2>3. Count(extra, d) \in Nat
    BY CountFinite, Zenon
  <2>4. /\ Count(q.free, d) \in Nat /\ Count(AvailWindow(q), d) \in Nat /\ Count(UsedWindow(q), d) \in Nat
        /\ Count(r.free, d) \in Nat /\ Count(AvailWindow(r), d) \in Nat /\ Count(UsedWindow(r), d) \in Nat
    BY <1>9, WindowsType, CountFinite, Zenon
  <2>5. d \in r.held <=> d \in q.held /\ d # e
    BY <1>9, Zenon
  <2>6. QED
    BY <1>9, <2>1, <2>2, <2>3, <2>4, <2>5 DEF Places
<1>12. QED
  BY <1>9, <1>10, <1>11, Zenon DEF Balanced, r

-----------------------------------------------------------------------------
(* The state of a queue at the start.                                      *)

LEMMA CountUnique ==
  ASSUME NEW s \in Seq(Desc), NEW d, NEW k \in 1 .. Len(s),
         \A i \in 1 .. Len(s) : s[i] = d <=> i = k
  PROVE  Count(s, d) = 1
<1>1. {i \in DOMAIN s : s[i] = d} = {k}
  OBVIOUS
<1>2. QED
  BY <1>1, FS_Singleton, Zenon DEF Count

\* An empty window.
LEMMA EmptyWindow ==
  ASSUME NEW ring \in [Desc -> Desc], NEW a \in Index
  PROVE  Window(ring, a, a) = << >>
<1>1. Distance(a, a) = 0
  BY DistanceIs, Zenon
<1>2. Window(ring, a, a) \in Seq(Desc) /\ Len(Window(ring, a, a)) = 0
  BY <1>1, WindowType, Zenon
<1>3. QED
  BY <1>2, EmptySeq, Zenon

LEMMA NewBalanced ==
  /\ New \in VirtQueueType /\ Balanced(New, << >>)
  /\ Len(New.free) = Qsz /\ New.held = {}
  /\ AvailWindow(New) = << >> /\ UsedWindow(New) = << >>
<1> DEFINE f == [i \in 1 .. Qsz |-> Qsz - i]
           z == [s \in Desc |-> 0]
<1>1. Qsz \in Nat \ {0} /\ 0 \in Desc /\ 0 \in Index /\ z \in [Desc -> Desc]
  BY QueueAssumption DEF Desc, Index
<1>2. \A i \in 1 .. Qsz : Qsz - i \in Desc
  BY <1>1 DEF Desc
<1>3. f \in Seq(Desc) /\ Len(f) = Qsz /\ \A i \in 1 .. Qsz : f[i] = Qsz - i
  BY <1>1, <1>2
<1> HIDE DEF f, z
<1>4. New = [free |-> f, availRing |-> z, availIdx |-> 0, usedRing |-> z, usedIdx |-> 0,
             lastUsed |-> 0, devIdx |-> 0, held |-> {}]
  BY Zenon DEF New, f, z
<1>5. New \in VirtQueueType
  BY <1>1, <1>3, <1>4, Zenon DEF VirtQueueType
<1>6. AvailWindow(New) = << >> /\ UsedWindow(New) = << >>
  BY <1>1, <1>4, EmptyWindow, Zenon DEF AvailWindow, UsedWindow
<1>7. ASSUME NEW d \in Desc
      PROVE  Places(New, << >>, d) = 1
  <2>1. PICK k \in 1 .. Qsz : k = Qsz - d
    BY <1>1 DEF Desc
  <2>2. \A i \in 1 .. Len(f) : f[i] = d <=> i = k
    <3>1. d \in Int /\ \A i \in 1 .. Qsz : Qsz - i = d <=> i = k
      BY <1>1, <2>1 DEF Desc
    <3>2. QED
      BY <1>3, <3>1, Zenon
  <2>3. k \in 1 .. Len(f)
    BY <1>3, Zenon
  <2>4. Count(f, d) = 1
    BY <1>3, <2>2, <2>3, CountUnique, Zenon
  <2>5. New.free = f /\ d \notin New.held
    BY <1>4, Zenon
  <2>6. QED
    BY <1>6, <2>4, <2>5, CountEmpty DEF Places
<1>8. QED
  BY <1>3, <1>4, <1>5, <1>6, <1>7, Zenon DEF Balanced

\* A queue whose descriptors are all available, as prime_rx leaves it.
LEMMA PrimedBalanced ==
  ASSUME NEW q \in VirtQueueType, q.free = << >>, q.held = {},
         \A s \in Desc : q.availRing[s] = s, q.availIdx = Qsz, q.devIdx = 0,
         q.usedIdx = 0, q.lastUsed = 0
  PROVE  Balanced(q, << >>) /\ UsedWindow(q) = << >>
<1> DEFINE w == AvailWindow(q)
<1>1. Qsz \in Nat \ {0} /\ 0 \in Index /\ Qsz \in Index
  BY QueueAssumption DEF Index
<1>2. q.usedRing \in [Desc -> Desc] /\ q.availRing \in [Desc -> Desc]
  BY Zenon DEF VirtQueueType
<1>3. Distance(0, Qsz) = Qsz
  BY <1>1, DistanceIs
<1>4. w \in Seq(Desc) /\ Len(w) = Qsz /\ \A i \in 1 .. Qsz : w[i] = q.availRing[Slot(0 + i - 1)]
  <2>1. w = Window(q.availRing, 0, Qsz)
    BY Zenon DEF AvailWindow
  <2>2. /\ w \in Seq(Desc) /\ Len(w) = Distance(0, Qsz)
        /\ \A i \in 1 .. Distance(0, Qsz) : w[i] = q.availRing[Slot(0 + i - 1)]
    BY <1>1, <1>2, <2>1, WindowType, SMTT(30)
  <2>3. QED
    BY <1>3, <2>2, Zenon
<1>5. \A i \in 1 .. Qsz : w[i] = i - 1
  <2> TAKE i \in 1 .. Qsz
  <2>1. PICK x \in 0 .. (Qsz - 1) : x = i - 1 /\ 0 + i - 1 = x
    BY <1>1
  <2>2. x % Qsz = x
    BY <1>1
  <2>3. w[i] = q.availRing[Slot(x)]
    BY <1>4, <2>1, Zenon
  <2>4. QED
    BY <2>1, <2>2, <2>3, Zenon DEF Slot, Desc
<1>6. UsedWindow(q) = << >>
  BY <1>1, <1>2, EmptyWindow DEF UsedWindow
<1> HIDE DEF w
<1>7. ASSUME NEW d \in Desc
      PROVE  Places(q, << >>, d) = 1
  <2>1. PICK k \in 1 .. Qsz : k = d + 1
    BY <1>1 DEF Desc
  <2>2. d \in Int /\ \A i \in 1 .. Qsz : i - 1 = d <=> i = k
    BY <1>1, <2>1 DEF Desc
  <2>3. \A i \in 1 .. Len(w) : w[i] = d <=> i = k
    BY <1>4, <1>5, <2>2, Zenon
  <2>4. k \in 1 .. Len(w)
    BY <1>4, Zenon
  <2>5. Count(w, d) = 1
    BY <1>4, <2>3, <2>4, CountUnique, Zenon
  <2>6. QED
    BY <1>6, <2>5, CountEmpty DEF Places, w
<1>8. QED
  BY <1>6, <1>7, Zenon DEF Balanced

-----------------------------------------------------------------------------
(* The inductive invariant.                                                *)

Sending == pc \in {"txslot", "txidx", "txwait"}

InFlight == IF Sending THEN 1 ELSE 0

Received == [frame : Frame, len : Nat]
Packet == [frame : Frame \cup {None}, len : 0 .. MAX_FRAME_LEN]

\* The types of what is not a queue, the histories included.
Types ==
  /\ txBuf \in Frame \cup {None} /\ frame \in Frame \cup {None}
  /\ txLen \in [Desc -> 0 .. MAX_FRAME_LEN] /\ rxBuf \in [Desc -> Frame \cup {None}]
  /\ pc \in Pc /\ cur \in Desc /\ panicked \in BOOLEAN /\ timeouts \in Nat
  /\ accepted \in Seq(Frame) /\ wire \in Seq(Packet)
  /\ arrived \in Seq(Frame) /\ delivered \in Seq(Received)
  /\ Sending => frame \in Frame

\* The transmit queue.  Each descriptor missing from the stack is that of the
\* running call or of one that timed out: what TxComplete frees may be either.
TxInv ==
  /\ tx \in VirtQueueType /\ Balanced(tx, TxInHand)
  /\ pc = "txidx" => tx.availRing[Slot(tx.availIdx)] = cur
  /\ Len(tx.free) + timeouts + InFlight = Qsz
  /\ panicked => timeouts >= Qsz
  /\ Len(accepted) + timeouts + InFlight <= MaxSends

TxEmpty == AvailWindow(tx) = << >> /\ UsedWindow(tx) = << >> /\ tx.held = {}

\* While no call has timed out the queue holds the descriptor of the running
\* call and nothing else, and the device has seen it once or not yet.
SentInv ==
  timeouts = 0 =>
    /\ pc # "txwait" => TxEmpty /\ Len(wire) = Len(accepted)
    /\ pc = "txwait" =>
         \/ /\ AvailWindow(tx) = <<cur>> /\ UsedWindow(tx) = << >> /\ tx.held = {}
            /\ Len(wire) = Len(accepted)
         \/ /\ AvailWindow(tx) = << >> /\ UsedWindow(tx) = << >> /\ tx.held = {cur}
            /\ Len(wire) = Len(accepted) + 1
         \/ /\ AvailWindow(tx) = << >> /\ UsedWindow(tx) = <<cur>> /\ tx.held = {}
            /\ Len(wire) = Len(accepted) + 1
    /\ Sending => txBuf = frame /\ txLen[cur] = FrameLen(frame)
    /\ \A i \in 1 .. Len(wire) :
         wire[i].frame = (IF i <= Len(accepted) THEN accepted[i] ELSE frame)
           /\ wire[i].len = FrameLen(wire[i].frame)

\* The receive queue.
RxInv ==
  /\ rx \in VirtQueueType /\ Balanced(rx, RxInHand)
  /\ pc = "rxidx" => rx.availRing[Slot(rx.availIdx)] = cur

\* ReceivedIntact, element by element.
ReceivedInv ==
  /\ Len(arrived) = Len(delivered) + Len(UsedWindow(rx))
  /\ \A i \in 1 .. Len(delivered) : arrived[i] = delivered[i].frame
  /\ \A i \in 1 .. Len(UsedWindow(rx)) :
       arrived[Len(delivered) + i] = rxBuf[UsedWindow(rx)[i]]

IInv == Types /\ TxInv /\ SentInv /\ RxInv /\ ReceivedInv

-----------------------------------------------------------------------------

LEMMA InitInv == Init => IInv
<1> SUFFICES ASSUME Init PROVE IInv
  BY Zenon
<1>1. Qsz \in Nat \ {0} /\ 0 \in Desc /\ MAX_FRAME_LEN \in Nat /\ MaxSends \in Nat
  BY QueueAssumption, FrameAssumption DEF Desc
<1>2. /\ New \in VirtQueueType /\ Balanced(New, << >>) /\ Len(New.free) = Qsz
      /\ New.held = {} /\ AvailWindow(New) = << >> /\ UsedWindow(New) = << >>
  BY NewBalanced, Zenon
<1>3. rx \in VirtQueueType /\ Balanced(rx, << >>) /\ UsedWindow(rx) = << >>
  <2> DEFINE g == [s \in Desc |-> s]
  <2>1. g \in [Desc -> Desc] /\ << >> \in Seq(Desc) /\ Qsz \in Index
    BY QueueAssumption DEF Index
  <2>2. /\ New.held = {} /\ New.devIdx = 0 /\ New.usedIdx = 0 /\ New.lastUsed = 0
    BY Zenon DEF New
  <2>3. rx = [New EXCEPT !.free = << >>, !.availRing = g, !.availIdx = Qsz]
    BY Zenon DEF Init
  <2>4. \A s \in Desc : g[s] = s
    BY Zenon
  <2> HIDE DEF g
  <2>5. /\ rx \in VirtQueueType /\ rx.free = << >> /\ rx.availRing = g /\ rx.availIdx = Qsz
        /\ rx.held = New.held /\ rx.devIdx = New.devIdx /\ rx.usedIdx = New.usedIdx
        /\ rx.lastUsed = New.lastUsed
    BY <1>2, <2>1, <2>3, Zenon DEF VirtQueueType
  <2>6. QED
    BY <2>2, <2>4, <2>5, PrimedBalanced, Zenon
<1>4. Types
  BY <1>1 DEF Init, Types, Pc, Sending
<1>5. TxInv
  BY <1>1, <1>2 DEF Init, TxInv, TxInHand, InFlight, Sending
<1>6. SentInv
  BY <1>2 DEF Init, SentInv, TxEmpty, Sending
<1>7. RxInv
  BY <1>3, Zenon DEF Init, RxInv, RxInHand
<1>8. ReceivedInv
  <2>1. Len(arrived) = 0 /\ Len(delivered) = 0 /\ Len(UsedWindow(rx)) = 0
    BY <1>3, Zenon DEF Init
  <2>2. QED
    BY <2>1 DEF ReceivedInv
<1>9. QED
  BY <1>4, <1>5, <1>6, <1>7, <1>8, Zenon DEF IInv

\* A step that leaves the receiving side alone.
LEMMA RxKept ==
  ASSUME RxInv, ReceivedInv, UNCHANGED rxVars,
         UNCHANGED <<pc, cur>> \/ ({pc, pc'} \cap {"rxslot", "rxidx"} = {})
  PROVE  RxInv' /\ ReceivedInv'
<1>1. rx' = rx /\ rxBuf' = rxBuf /\ arrived' = arrived /\ delivered' = delivered
  BY Zenon DEF rxVars
<1>2. ReceivedInv'
  BY <1>1, Zenon DEF ReceivedInv
<1>3. RxInHand' = RxInHand /\ (pc' = "rxidx" => pc = "rxidx" /\ cur' = cur)
  BY Zenon DEF RxInHand
<1>4. QED
  BY <1>1, <1>2, <1>3, Zenon DEF RxInv

\* A step that leaves the sending side alone.
LEMMA TxKept ==
  ASSUME TxInv, SentInv, UNCHANGED txVars,
         UNCHANGED <<pc, cur>> \/ ({pc, pc'} \cap {"txslot", "txidx", "txwait"} = {})
  PROVE  TxInv' /\ SentInv'
<1>1. /\ tx' = tx /\ txBuf' = txBuf /\ txLen' = txLen /\ frame' = frame
      /\ panicked' = panicked /\ timeouts' = timeouts /\ accepted' = accepted /\ wire' = wire
  BY Zenon DEF txVars
<1>2. /\ TxInHand' = TxInHand /\ (Sending' <=> Sending)
      /\ (pc' = "txidx" => pc = "txidx" /\ cur' = cur)
      /\ (pc' = "txwait" <=> pc = "txwait") /\ (Sending => cur' = cur)
      /\ (pc = "txwait" => Sending)
  BY Zenon DEF TxInHand, Sending
<1>3. InFlight' = InFlight
  BY <1>2, Zenon DEF InFlight
<1>4. TxInv'
  BY <1>1, <1>2, <1>3, Zenon DEF TxInv
<1>5. SentInv'
  BY <1>1, <1>2, Zenon DEF SentInv, TxEmpty
<1>6. QED
  BY <1>4, <1>5, Zenon

-----------------------------------------------------------------------------
(* The steps of send_frame.                                                *)

LEMMA SendFrameStep ==
  ASSUME IInv, ~panicked, NEW f \in Frame, SendFrame(f)
  PROVE  IInv'
<1> USE DEF IInv
<1>1. /\ pc = "idle" /\ ~Sending /\ TxInHand = << >> /\ InFlight = 0
      /\ FrameLen(f) \in 0 .. MAX_FRAME_LEN
      /\ txBuf' = f /\ frame' = f /\ timeouts' = timeouts /\ accepted' = accepted
      /\ wire' = wire /\ UNCHANGED rxVars
      /\ Len(accepted) + timeouts < MaxSends
  BY FrameAssumption DEF SendFrame, Sending, TxInHand, InFlight, Sends
<1>2. RxInv' /\ ReceivedInv'
  <2>1. {pc, pc'} \cap {"rxslot", "rxidx"} = {}
    BY <1>1, Zenon DEF SendFrame
  <2>2. QED
    BY <1>1, <2>1, RxKept, Zenon
<1>3. CASE CanAlloc(tx)
  <2>1. /\ cur' = AllocDesc(tx) /\ tx' = AfterAlloc(tx) /\ pc' = "txslot"
        /\ txLen' = [txLen EXCEPT ![AllocDesc(tx)] = FrameLen(f)] /\ panicked' = panicked
    BY <1>3, Zenon DEF SendFrame
  <2>2. /\ AllocDesc(tx) \in Desc /\ AfterAlloc(tx) \in VirtQueueType
        /\ Len(tx.free) \in Nat \ {0} /\ Len(AfterAlloc(tx).free) = Len(tx.free) - 1
        /\ AvailWindow(AfterAlloc(tx)) = AvailWindow(tx)
        /\ UsedWindow(AfterAlloc(tx)) = UsedWindow(tx)
        /\ AfterAlloc(tx).held = tx.held
        /\ Balanced(AfterAlloc(tx), <<AllocDesc(tx)>>)
    BY <1>1, <1>3, AllocMoves, Zenon DEF TxInv
  <2>3. Sending' /\ InFlight' = 1 /\ TxInHand' = <<AllocDesc(tx)>>
    BY <2>1, Zenon DEF Sending, InFlight, TxInHand
  <2>4. Types'
    BY <1>1, <2>1, <2>2, Zenon DEF Types, rxVars, Pc, Sending
  <2>5. TxInv'
    BY <1>1, <2>1, <2>2, <2>3, FrameAssumption, SMTT(30) DEF TxInv, Types
  <2>6. SentInv'
    <3>1. txLen'[cur'] = FrameLen(f)
      BY <2>1, <2>2, Zenon DEF Types
    <3>2. timeouts = 0 => TxEmpty'
      BY <1>1, <2>1, <2>2, Zenon DEF SentInv, TxEmpty
    <3>3. timeouts = 0 => \A i \in 1 .. Len(wire) : i <= Len(accepted)
      BY <1>1, SMTT(30) DEF SentInv
    <3>4. QED
      BY <1>1, <2>1, <3>1, <3>2, <3>3, Zenon DEF SentInv
  <2>7. QED
    BY <1>2, <2>4, <2>5, <2>6, Zenon
<1>4. CASE ~CanAlloc(tx)
  <2>1. panicked' = TRUE /\ tx' = tx /\ txLen' = txLen /\ cur' = cur /\ pc' = pc
    BY <1>4, Zenon DEF SendFrame
  <2>2. ~Sending' /\ InFlight' = 0 /\ TxInHand' = << >>
    BY <1>1, <2>1, Zenon DEF Sending, InFlight, TxInHand
  <2>3. Types'
    BY <1>1, <2>1, <2>2, Zenon DEF Types, rxVars
  <2>4. timeouts = Qsz
    <3>1. Len(tx.free) = 0
      BY <1>4 DEF CanAlloc
    <3>2. QED
      BY <1>1, <3>1, QueueAssumption DEF TxInv, Types
  <2>5. TxInv'
    BY <1>1, <2>1, <2>2, <2>4, QueueAssumption, SMTT(30) DEF TxInv
  <2>6. SentInv'
    BY <1>1, <2>1, <2>4, QueueAssumption, Zenon DEF SentInv
  <2>7. QED
    BY <1>2, <2>3, <2>5, <2>6, Zenon
<1>5. QED
  BY <1>3, <1>4, Zenon

LEMMA TxPushSlotStep ==
  ASSUME IInv, TxPushSlot
  PROVE  IInv'
<1> USE DEF IInv
<1>1. /\ pc = "txslot" /\ pc' = "txidx" /\ tx' = PushSlot(tx, cur) /\ cur' = cur
      /\ txBuf' = txBuf /\ txLen' = txLen /\ frame' = frame /\ panicked' = panicked
      /\ timeouts' = timeouts /\ accepted' = accepted /\ wire' = wire /\ UNCHANGED rxVars
  BY Zenon DEF TxPushSlot
<1>2. /\ Sending /\ InFlight = 1 /\ TxInHand = <<cur>>
      /\ Sending' /\ InFlight' = 1 /\ TxInHand' = <<cur>>
  BY <1>1, Zenon DEF Sending, InFlight, TxInHand
<1>3. /\ PushSlot(tx, cur) \in VirtQueueType
      /\ PushSlot(tx, cur).availRing[Slot(PushSlot(tx, cur).availIdx)] = cur
      /\ PushSlot(tx, cur).free = tx.free /\ PushSlot(tx, cur).held = tx.held
      /\ AvailWindow(PushSlot(tx, cur)) = AvailWindow(tx)
      /\ UsedWindow(PushSlot(tx, cur)) = UsedWindow(tx)
      /\ Balanced(PushSlot(tx, cur), <<cur>>)
  BY <1>2, PushSlotKeeps, Zenon DEF TxInv, Types
<1>4. RxInv' /\ ReceivedInv'
  BY <1>1, RxKept, Zenon
<1>5. Types'
  BY <1>1, <1>2, Zenon DEF Types, rxVars, Pc
<1>6. TxInv'
  BY <1>1, <1>2, <1>3, Zenon DEF TxInv
<1>7. SentInv'
  BY <1>1, <1>2, <1>3, Zenon DEF SentInv, TxEmpty
<1>8. QED
  BY <1>4, <1>5, <1>6, <1>7, Zenon

LEMMA TxPushIdxStep ==
  ASSUME IInv, TxPushIdx
  PROVE  IInv'
<1> USE DEF IInv
<1>1. /\ pc = "txidx" /\ pc' = "txwait" /\ tx' = PushIdx(tx) /\ cur' = cur
      /\ txBuf' = txBuf /\ txLen' = txLen /\ frame' = frame /\ panicked' = panicked
      /\ timeouts' = timeouts /\ accepted' = accepted /\ wire' = wire /\ UNCHANGED rxVars
  BY Zenon DEF TxPushIdx
<1>2. /\ Sending /\ InFlight = 1 /\ TxInHand = <<cur>>
      /\ Sending' /\ InFlight' = 1 /\ TxInHand' = << >>
  BY <1>1, Zenon DEF Sending, InFlight, TxInHand
<1>3. /\ PushIdx(tx) \in VirtQueueType
      /\ PushIdx(tx).free = tx.free /\ PushIdx(tx).held = tx.held
      /\ AvailWindow(PushIdx(tx)) = Append(AvailWindow(tx), cur)
      /\ UsedWindow(PushIdx(tx)) = UsedWindow(tx)
      /\ Balanced(PushIdx(tx), << >>)
  BY <1>1, <1>2, PushIdxMoves, Zenon DEF TxInv, Types
<1>4. RxInv' /\ ReceivedInv'
  BY <1>1, RxKept, Zenon
<1>5. Types'
  BY <1>1, <1>2, Zenon DEF Types, rxVars, Pc
<1>6. TxInv'
  BY <1>1, <1>2, <1>3, Zenon DEF TxInv
<1>7. SentInv'
  <2>1. timeouts = 0 => AvailWindow(PushIdx(tx)) = <<cur>>
    BY <1>1, <1>3, SMTT(30) DEF SentInv, TxEmpty
  <2>2. QED
    BY <1>1, <1>2, <1>3, <2>1, Zenon DEF SentInv, TxEmpty
<1>8. QED
  BY <1>4, <1>5, <1>6, <1>7, Zenon

LEMMA TxCompleteStep ==
  ASSUME IInv, TxComplete
  PROVE  IInv'
<1> USE DEF IInv
<1> DEFINE p == AfterPop(tx)
           e == UsedElem(tx)
           q == FreeDesc(p, e)
<1>1. /\ pc = "txwait" /\ HasUsed(tx) /\ pc' = "idle" /\ tx' = q /\ cur' = cur
      /\ txBuf' = txBuf /\ txLen' = txLen /\ frame' = frame /\ panicked' = panicked
      /\ timeouts' = timeouts /\ accepted' = Append(accepted, frame) /\ wire' = wire
      /\ UNCHANGED rxVars
  BY Zenon DEF TxComplete, Completed
<1>2. /\ Sending /\ InFlight = 1 /\ TxInHand = << >>
      /\ ~Sending' /\ InFlight' = 0 /\ TxInHand' = << >>
  BY <1>1, Zenon DEF Sending, InFlight, TxInHand
<1>3. /\ p \in VirtQueueType /\ e \in Desc /\ p.free = tx.free /\ p.held = tx.held
      /\ UsedWindow(tx) # << >> /\ e = Head(UsedWindow(tx))
      /\ UsedWindow(p) = Tail(UsedWindow(tx)) /\ AvailWindow(p) = AvailWindow(tx)
      /\ Balanced(p, <<e>>)
  BY <1>1, <1>2, PopMoves, Zenon DEF TxInv
<1> HIDE DEF p, e
<1>4. /\ q \in VirtQueueType /\ Len(p.free) \in Nat /\ Len(q.free) = Len(p.free) + 1
      /\ q.held = p.held /\ AvailWindow(q) = AvailWindow(p) /\ UsedWindow(q) = UsedWindow(p)
      /\ Balanced(q, << >>)
  BY <1>3, FreeMoves, Zenon
<1> HIDE DEF q
<1>5. RxInv' /\ ReceivedInv'
  BY <1>1, RxKept, Zenon
<1>6. /\ frame \in Frame /\ accepted' \in Seq(Frame) /\ Len(accepted') = Len(accepted) + 1
      /\ Len(accepted) \in Nat /\ accepted'[Len(accepted) + 1] = frame
      /\ \A i \in 1 .. Len(accepted) : accepted'[i] = accepted[i]
  BY <1>1, <1>2, AppendProperties, SMTT(30) DEF Types
<1>7. Types'
  BY <1>1, <1>2, <1>6, Zenon DEF Types, rxVars, Pc
<1>8. TxInv'
  BY <1>1, <1>2, <1>3, <1>4, <1>6, FrameAssumption, QueueAssumption, SMTT(30) DEF TxInv, Types
<1>9. SentInv'
  <2> SUFFICES ASSUME timeouts = 0 PROVE SentInv'
    BY <1>1, Zenon DEF SentInv
  <2>1. /\ AvailWindow(tx) = << >> /\ UsedWindow(tx) = <<cur>> /\ tx.held = {}
        /\ Len(wire) = Len(accepted) + 1
    BY <1>1, <1>3, Zenon DEF SentInv
  <2>2. Tail(<<cur>>) = << >>
    OBVIOUS
  <2>3. TxEmpty'
    BY <1>1, <1>3, <1>4, <2>1, <2>2, Zenon DEF TxEmpty
  <2>4. ASSUME NEW i \in 1 .. Len(wire)
        PROVE  wire[i].frame = accepted'[i] /\ i <= Len(accepted')
    <3>1. i \in 1 .. Len(accepted) \/ i = Len(accepted) + 1
      BY <1>6, <2>1
    <3>2. i \in 1 .. Len(accepted) => i <= Len(accepted)
      BY <1>6
    <3>3. ~ (Len(accepted) + 1 <= Len(accepted))
      BY <1>6
    <3>4. wire[i].frame = IF i <= Len(accepted) THEN accepted[i] ELSE frame
      BY Zenon DEF SentInv
    <3>5. QED
      BY <1>6, <2>1, <3>1, <3>2, <3>3, <3>4, SMTT(30)
  <2>5. QED
    BY <1>1, <1>2, <1>6, <2>1, <2>3, <2>4, Zenon DEF SentInv
<1>10. QED
  BY <1>5, <1>7, <1>8, <1>9, Zenon

LEMMA TxTimeoutStep ==
  ASSUME IInv, TxTimeout
  PROVE  IInv'
<1> USE DEF IInv
<1>1. /\ pc = "txwait" /\ pc' = "idle" /\ tx' = tx /\ cur' = cur
      /\ txBuf' = txBuf /\ txLen' = txLen /\ frame' = frame /\ panicked' = panicked
      /\ timeouts' = timeouts + 1 /\ accepted' = accepted /\ wire' = wire /\ UNCHANGED rxVars
  BY Zenon DEF TxTimeout
<1>2. /\ Sending /\ InFlight = 1 /\ TxInHand = << >>
      /\ ~Sending' /\ InFlight' = 0 /\ TxInHand' = << >>
  BY <1>1, Zenon DEF Sending, InFlight, TxInHand
<1>3. RxInv' /\ ReceivedInv'
  BY <1>1, RxKept, Zenon
<1>4. Types'
  BY <1>1, <1>2 DEF Types, rxVars, Pc
<1>5. TxInv'
  <2>1. timeouts \in Nat /\ Len(tx.free) \in Nat /\ Len(accepted) \in Nat
    BY WindowsType, SMTT(30) DEF TxInv, Types
  <2>2. /\ Len(tx.free) + (timeouts + 1) + 0 = Qsz
        /\ Len(accepted) + (timeouts + 1) + 0 <= MaxSends
    <3>1. Len(tx.free) + timeouts + 1 = Qsz /\ Len(accepted) + timeouts + 1 <= MaxSends
      BY <1>2, Zenon DEF TxInv
    <3>2. PICK a \in Nat, b \in Nat : a = Len(tx.free) /\ b = Len(accepted)
      BY <2>1, Zenon
    <3>3. a + timeouts + 1 = Qsz /\ b + timeouts + 1 <= MaxSends
      BY <3>1, <3>2, Zenon
    <3>4. a + (timeouts + 1) + 0 = Qsz /\ b + (timeouts + 1) + 0 <= MaxSends
      BY <2>1, <3>3, FrameAssumption, QueueAssumption
    <3>5. QED
      BY <3>2, <3>4, Zenon
  <2>3. timeouts >= Qsz => timeouts + 1 >= Qsz
    BY <2>1, QueueAssumption, SMTT(30)
  <2>4. QED
    BY <1>1, <1>2, <2>2, <2>3, Zenon DEF TxInv
<1>6. SentInv'
  BY <1>1 DEF SentInv, Types
<1>7. QED
  BY <1>3, <1>4, <1>5, <1>6, Zenon

-----------------------------------------------------------------------------
(* The steps of recv_frame.                                                *)

LEMMA PollRxStep ==
  ASSUME IInv, NEW cap \in Caps, PollRx(cap)
  PROVE  IInv'
<1> USE DEF IInv
<1> DEFINE q == AfterPop(rx)
           e == UsedElem(rx)
           w == UsedWindow(rx)
           x == Truncated(rxBuf[e], cap)
<1>1. /\ pc = "idle" /\ HasUsed(rx) /\ rx' = q /\ cur' = e /\ pc' = "rxslot"
      /\ delivered' = Append(delivered, x) /\ rxBuf' = rxBuf /\ arrived' = arrived
      /\ UNCHANGED txVars
  BY Zenon DEF PollRx
<1>2. RxInHand = << >> /\ RxInHand' = <<e>>
  BY <1>1, Zenon DEF RxInHand
<1>3. /\ q \in VirtQueueType /\ e \in Desc
      /\ w # << >> /\ e = Head(w) /\ UsedWindow(q) = Tail(w)
      /\ Balanced(q, <<e>>)
  BY <1>1, <1>2, PopMoves, Zenon DEF RxInv
<1>4. /\ w \in Seq(Desc) /\ Len(w) \in Nat \ {0} /\ w[1] = e
      /\ Len(Tail(w)) = Len(w) - 1
      /\ \A i \in 1 .. Len(Tail(w)) : Tail(w)[i] = w[i + 1]
  <2>1. w \in Seq(Desc)
    BY WindowsType, Zenon DEF RxInv
  <2> HIDE DEF w
  <2>2. QED
    BY <1>3, <2>1, HeadTailProperties, EmptySeq, SMTT(30)
<1> HIDE DEF q, e, w
<1>5. rxBuf[e] \in Frame /\ rxBuf[e] = arrived[Len(delivered) + 1]
  <2>1. 1 \in 1 .. Len(w) /\ Len(delivered) \in Nat
    BY <1>4 DEF Types
  <2>2. arrived[Len(delivered) + 1] = rxBuf[e] /\ Len(delivered) + 1 \in 1 .. Len(arrived)
    BY <1>4, <2>1 DEF ReceivedInv, w
  <2>3. QED
    BY <2>2, ElementOfSeq, Zenon DEF Types
<1>6. x \in Received /\ x.frame = rxBuf[e]
  BY <1>5, FrameAssumption, Zenon DEF Truncated, Received
<1> HIDE DEF x
<1>7. /\ Len(delivered) \in Nat /\ delivered' \in Seq(Received)
      /\ Len(delivered') = Len(delivered) + 1
      /\ delivered'[Len(delivered) + 1] = x
      /\ \A i \in 1 .. Len(delivered) : delivered'[i] = delivered[i]
  BY <1>1, <1>6, AppendProperties DEF Types
<1>8. TxInv' /\ SentInv'
  BY <1>1, TxKept, Zenon
<1>9. Types'
  BY <1>1, <1>3, <1>7, Zenon DEF Types, txVars, Pc, Sending
<1>10. RxInv'
  BY <1>1, <1>2, <1>3, Zenon DEF RxInv
<1>11. ReceivedInv'
  <2>1. UsedWindow(rx') = Tail(w)
    BY <1>1, <1>3, Zenon
  <2>2. Len(arrived) = Len(delivered') + Len(Tail(w))
    BY <1>4, <1>7 DEF ReceivedInv, w
  <2>3. ASSUME NEW i \in 1 .. Len(delivered')
        PROVE  arrived[i] = delivered'[i].frame
    <3>1. i \in 1 .. Len(delivered) \/ i = Len(delivered) + 1
      BY <1>7
    <3>2. QED
      BY <1>5, <1>6, <1>7, <3>1, Zenon DEF ReceivedInv
  <2>4. ASSUME NEW i \in 1 .. Len(Tail(w))
        PROVE  arrived[Len(delivered') + i] = rxBuf[Tail(w)[i]]
    <3>1. i + 1 \in 1 .. Len(w) /\ Len(delivered') + i = Len(delivered) + (i + 1)
      BY <1>4, <1>7
    <3>2. arrived[Len(delivered) + (i + 1)] = rxBuf[w[i + 1]]
      BY <3>1, Zenon DEF ReceivedInv, w
    <3>3. QED
      BY <1>4, <3>1, <3>2, Zenon
  <2>5. QED
    BY <1>1, <2>1, <2>2, <2>3, <2>4, Zenon DEF ReceivedInv
<1>12. QED
  BY <1>8, <1>9, <1>10, <1>11, Zenon

LEMMA RecyclePushSlotStep ==
  ASSUME IInv, RecyclePushSlot
  PROVE  IInv'
<1> USE DEF IInv
<1>1. /\ pc = "rxslot" /\ pc' = "rxidx" /\ rx' = PushSlot(rx, cur) /\ cur' = cur
      /\ rxBuf' = rxBuf /\ arrived' = arrived /\ delivered' = delivered /\ UNCHANGED txVars
  BY Zenon DEF RecyclePushSlot
<1>2. RxInHand = <<cur>> /\ RxInHand' = <<cur>>
  BY <1>1, Zenon DEF RxInHand
<1>3. /\ PushSlot(rx, cur) \in VirtQueueType
      /\ PushSlot(rx, cur).availRing[Slot(PushSlot(rx, cur).availIdx)] = cur
      /\ UsedWindow(PushSlot(rx, cur)) = UsedWindow(rx)
      /\ Balanced(PushSlot(rx, cur), <<cur>>)
  BY <1>2, PushSlotKeeps, Zenon DEF RxInv, Types
<1>4. TxInv' /\ SentInv'
  BY <1>1, TxKept, Zenon
<1>5. Types'
  BY <1>1, Zenon DEF Types, txVars, Pc, Sending
<1>6. RxInv' /\ ReceivedInv'
  BY <1>1, <1>2, <1>3, Zenon DEF RxInv, ReceivedInv
<1>7. QED
  BY <1>4, <1>5, <1>6, Zenon

LEMMA RecyclePushIdxStep ==
  ASSUME IInv, RecyclePushIdx
  PROVE  IInv'
<1> USE DEF IInv
<1>1. /\ pc = "rxidx" /\ pc' = "idle" /\ rx' = PushIdx(rx) /\ cur' = cur
      /\ rxBuf' = rxBuf /\ arrived' = arrived /\ delivered' = delivered /\ UNCHANGED txVars
  BY Zenon DEF RecyclePushIdx
<1>2. RxInHand = <<cur>> /\ RxInHand' = << >>
  BY <1>1, Zenon DEF RxInHand
<1>3. /\ PushIdx(rx) \in VirtQueueType /\ UsedWindow(PushIdx(rx)) = UsedWindow(rx)
      /\ Balanced(PushIdx(rx), << >>)
  BY <1>1, <1>2, PushIdxMoves, Zenon DEF RxInv, Types
<1>4. TxInv' /\ SentInv'
  BY <1>1, TxKept, Zenon
<1>5. Types'
  BY <1>1, Zenon DEF Types, txVars, Pc, Sending
<1>6. RxInv' /\ ReceivedInv'
  BY <1>1, <1>2, <1>3, Zenon DEF RxInv, ReceivedInv
<1>7. QED
  BY <1>4, <1>5, <1>6, Zenon

-----------------------------------------------------------------------------
(* The steps of the device, at any moment of the driver's.                 *)

LEMMA InHandType ==
  ASSUME Types
  PROVE  TxInHand \in Seq(Desc) /\ RxInHand \in Seq(Desc)
BY SMTT(30) DEF Types, TxInHand, RxInHand

LEMMA DevTransmitStep ==
  ASSUME IInv, DevTransmit
  PROVE  IInv'
<1> USE DEF IInv
<1> DEFINE q == DevTake(tx)
           e == DevNext(tx)
           x == [frame |-> txBuf, len |-> txLen[e]]
<1>1. /\ DevSees(tx) /\ tx' = q /\ wire' = Append(wire, x) /\ pc' = pc /\ cur' = cur
      /\ txBuf' = txBuf /\ txLen' = txLen /\ frame' = frame /\ panicked' = panicked
      /\ timeouts' = timeouts /\ accepted' = accepted /\ UNCHANGED rxVars
  BY Zenon DEF DevTransmit
<1>2. TxInHand' = TxInHand /\ InFlight' = InFlight /\ (Sending' <=> Sending)
  BY <1>1, Zenon DEF TxInHand, InFlight, Sending
<1>3. /\ q \in VirtQueueType /\ e \in Desc /\ q.free = tx.free /\ q.held = tx.held \cup {e}
      /\ AvailWindow(tx) # << >> /\ e = Head(AvailWindow(tx))
      /\ AvailWindow(q) = Tail(AvailWindow(tx)) /\ UsedWindow(q) = UsedWindow(tx)
      /\ q.availRing = tx.availRing /\ q.availIdx = tx.availIdx
      /\ Balanced(q, TxInHand)
  BY <1>1, DevTakeMoves, InHandType, Zenon DEF TxInv
<1> HIDE DEF q, e
<1>4. x \in Packet /\ x.frame = txBuf /\ x.len = txLen[e]
  BY <1>3, Zenon DEF Types, Packet
<1> HIDE DEF x
<1>5. /\ Len(wire) \in Nat /\ wire' \in Seq(Packet) /\ Len(wire') = Len(wire) + 1
      /\ wire'[Len(wire) + 1] = x /\ \A i \in 1 .. Len(wire) : wire'[i] = wire[i]
  BY <1>1, <1>4, AppendProperties DEF Types
<1>6. RxInv' /\ ReceivedInv'
  BY <1>1, RxKept, Zenon
<1>7. Types'
  BY <1>1, <1>2, <1>5, Zenon DEF Types, rxVars
<1>8. TxInv'
  BY <1>1, <1>2, <1>3, Zenon DEF TxInv
<1>9. SentInv'
  <2> SUFFICES ASSUME timeouts = 0 PROVE SentInv'
    BY <1>1, Zenon DEF SentInv
  <2>1. /\ pc = "txwait" /\ AvailWindow(tx) = <<cur>> /\ UsedWindow(tx) = << >>
        /\ tx.held = {} /\ Len(wire) = Len(accepted)
    BY <1>3, Zenon DEF SentInv, TxEmpty
  <2>2. e = cur /\ AvailWindow(q) = << >> /\ q.held = {cur}
    BY <1>3, <2>1, SMTT(30)
  <2>3. Sending /\ txBuf = frame /\ txLen[cur] = FrameLen(frame)
    BY <2>1, Zenon DEF Sending, SentInv
  <2>4. ASSUME NEW i \in 1 .. Len(wire')
        PROVE  /\ wire'[i].frame = (IF i <= Len(accepted) THEN accepted[i] ELSE frame)
               /\ wire'[i].len = FrameLen(wire'[i].frame)
    <3>1. i \in 1 .. Len(wire) \/ i = Len(wire) + 1
      BY <1>5, SMTT(30)
    <3>2. CASE i \in 1 .. Len(wire)
      BY <1>5, <3>2, Zenon DEF SentInv
    <3>3. CASE i = Len(wire) + 1
      <4>1. ~ (i <= Len(accepted))
        BY <1>5, <2>1, <3>3, SMTT(30)
      <4>2. QED
        BY <1>4, <1>5, <2>2, <2>3, <3>3, <4>1, Zenon
    <3>4. QED
      BY <3>1, <3>2, <3>3, Zenon
  <2>5. QED
    BY <1>1, <1>2, <1>3, <1>5, <2>1, <2>2, <2>3, <2>4, Zenon DEF SentInv
<1>10. QED
  BY <1>6, <1>7, <1>8, <1>9, Zenon

LEMMA DevTxDoneStep ==
  ASSUME IInv, NEW d \in Desc, DevTxDone(d)
  PROVE  IInv'
<1> USE DEF IInv
<1> DEFINE q == DevPut(tx, d)
<1>1. /\ d \in tx.held /\ tx' = q /\ wire' = wire /\ pc' = pc /\ cur' = cur
      /\ txBuf' = txBuf /\ txLen' = txLen /\ frame' = frame /\ panicked' = panicked
      /\ timeouts' = timeouts /\ accepted' = accepted /\ UNCHANGED rxVars
  BY Zenon DEF DevTxDone
<1>2. TxInHand' = TxInHand /\ InFlight' = InFlight /\ (Sending' <=> Sending)
  BY <1>1, Zenon DEF TxInHand, InFlight, Sending
<1>3. /\ q \in VirtQueueType /\ q.free = tx.free /\ q.held = tx.held \ {d}
      /\ AvailWindow(q) = AvailWindow(tx) /\ UsedWindow(q) = Append(UsedWindow(tx), d)
      /\ q.availRing = tx.availRing /\ q.availIdx = tx.availIdx
      /\ Balanced(q, TxInHand)
  BY <1>1, DevPutMoves, InHandType, Zenon DEF TxInv
<1> HIDE DEF q
<1>4. RxInv' /\ ReceivedInv'
  BY <1>1, RxKept, Zenon
<1>5. Types'
  BY <1>1, <1>2, Zenon DEF Types, rxVars
<1>6. TxInv'
  BY <1>1, <1>2, <1>3, Zenon DEF TxInv
<1>7. SentInv'
  <2> SUFFICES ASSUME timeouts = 0 PROVE SentInv'
    BY <1>1, ZenonT(30) DEF SentInv
  <2>1. /\ pc = "txwait" /\ AvailWindow(tx) = << >> /\ UsedWindow(tx) = << >>
        /\ tx.held = {cur} /\ Len(wire) = Len(accepted) + 1
    BY <1>1, Zenon DEF SentInv, TxEmpty
  <2>2. d = cur /\ UsedWindow(q) = <<cur>> /\ q.held = {} /\ AvailWindow(q) = << >>
    BY <1>1, <1>3, <2>1, SMTT(30)
  <2>3. QED
    BY <1>1, <1>2, <2>1, <2>2, Zenon DEF SentInv
<1>8. QED
  BY <1>4, <1>5, <1>6, <1>7, Zenon

LEMMA DevRxTakeStep ==
  ASSUME IInv, DevRxTake
  PROVE  IInv'
<1> USE DEF IInv
<1>1. /\ DevSees(rx) /\ rx' = DevTake(rx) /\ pc' = pc /\ cur' = cur
      /\ rxBuf' = rxBuf /\ arrived' = arrived /\ delivered' = delivered /\ UNCHANGED txVars
  BY Zenon DEF DevRxTake
<1>2. RxInHand' = RxInHand
  BY <1>1, Zenon DEF RxInHand
<1>3. /\ DevTake(rx) \in VirtQueueType /\ UsedWindow(DevTake(rx)) = UsedWindow(rx)
      /\ DevTake(rx).availRing = rx.availRing /\ DevTake(rx).availIdx = rx.availIdx
      /\ Balanced(DevTake(rx), RxInHand)
  BY <1>1, DevTakeMoves, InHandType, Zenon DEF RxInv
<1>4. TxInv' /\ SentInv'
  BY <1>1, TxKept, Zenon
<1>5. Types'
  BY <1>1, Zenon DEF Types, txVars, Sending
<1>6. RxInv' /\ ReceivedInv'
  BY <1>1, <1>2, <1>3, Zenon DEF RxInv, ReceivedInv
<1>7. QED
  BY <1>4, <1>5, <1>6, Zenon

LEMMA DevReceiveStep ==
  ASSUME IInv, NEW d \in Desc, NEW f \in Frame, DevReceive(d, f)
  PROVE  IInv'
<1> USE DEF IInv
<1> DEFINE q == DevPut(rx, d)
           w == UsedWindow(rx)
           v == UsedWindow(q)
<1>1. /\ d \in rx.held /\ rx' = q /\ rxBuf' = [rxBuf EXCEPT ![d] = f]
      /\ arrived' = Append(arrived, f) /\ delivered' = delivered /\ pc' = pc /\ cur' = cur
      /\ UNCHANGED txVars
  BY Zenon DEF DevReceive
<1>2. RxInHand' = RxInHand
  BY <1>1, Zenon DEF RxInHand
<1>3. /\ q \in VirtQueueType /\ v = Append(w, d) /\ Count(w, d) = 0
      /\ q.availRing = rx.availRing /\ q.availIdx = rx.availIdx
      /\ Balanced(q, RxInHand)
  BY <1>1, DevPutMoves, InHandType, ZenonT(30) DEF RxInv
<1>4. w \in Seq(Desc) /\ Len(w) \in Nat
  BY WindowsType, SMTT(30) DEF RxInv
<1>5. \A i \in 1 .. Len(w) : w[i] \in Desc /\ w[i] # d
  <2> HIDE DEF w
  <2>1. QED
    BY <1>3, <1>4, CountZero, ElementOfSeq, Zenon
<1> HIDE DEF q, w, v
<1>6. /\ Len(v) = Len(w) + 1 /\ v[Len(w) + 1] = d
      /\ \A i \in 1 .. Len(w) : v[i] = w[i]
  BY <1>3, <1>4, AppendProperties, SMTT(30)
<1>7. /\ Len(arrived) \in Nat /\ arrived' \in Seq(Frame) /\ Len(arrived') = Len(arrived) + 1
      /\ arrived'[Len(arrived) + 1] = f
      /\ \A i \in 1 .. Len(arrived) : arrived'[i] = arrived[i]
  BY <1>1, AppendProperties, SMTT(30) DEF Types
<1>8. /\ rxBuf' \in [Desc -> Frame \cup {None}] /\ rxBuf'[d] = f
      /\ \A i \in 1 .. Len(w) : rxBuf'[w[i]] = rxBuf[w[i]]
  BY <1>1, <1>5, Zenon DEF Types
<1>9. TxInv' /\ SentInv'
  BY <1>1, TxKept, Zenon
<1>10. Types'
  BY <1>1, <1>7, <1>8, Zenon DEF Types, txVars, Sending
<1>11. RxInv'
  BY <1>1, <1>2, <1>3, Zenon DEF RxInv
<1>12. ReceivedInv'
  <2>1. UsedWindow(rx') = v
    BY <1>1, Zenon DEF v
  <2>2. /\ Len(arrived) = Len(delivered) + Len(w) /\ Len(delivered) \in Nat
        /\ \A i \in 1 .. Len(delivered) : arrived[i] = delivered[i].frame
        /\ \A i \in 1 .. Len(w) : arrived[Len(delivered) + i] = rxBuf[w[i]]
    BY SMTT(30) DEF ReceivedInv, Types, w
  <2>3. Len(arrived') = Len(delivered) + Len(v)
    <3>1. /\ Len(arrived') = Len(arrived) + 1 /\ Len(v) = Len(w) + 1
          /\ Len(arrived) = Len(delivered) + Len(w) /\ Len(delivered) \in Nat /\ Len(w) \in Nat
      BY <1>4, <1>6, <1>7, <2>2, Zenon
    <3>2. QED
      BY ONLY <3>1, SMTT(30)
  <2>4. ASSUME NEW i \in 1 .. Len(delivered)
        PROVE  arrived'[i] = delivered[i].frame
    <3>1. i \in 1 .. Len(arrived)
      BY <1>4, <2>2, SMTT(30)
    <3>2. QED
      BY <1>7, <2>2, <3>1, Zenon
  <2>5. ASSUME NEW i \in 1 .. Len(v)
        PROVE  arrived'[Len(delivered) + i] = rxBuf'[v[i]]
    <3>1. i \in 1 .. Len(w) \/ i = Len(w) + 1
      BY <1>4, <1>6, SMTT(30)
    <3>2. CASE i \in 1 .. Len(w)
      <4>1. Len(delivered) + i \in 1 .. Len(arrived)
        BY <1>4, <2>2, <3>2, SMTT(30)
      <4>2. QED
        BY <1>6, <1>7, <1>8, <2>2, <3>2, <4>1, Zenon
    <3>3. CASE i = Len(w) + 1
      <4>1. Len(delivered) + i = Len(arrived) + 1
        BY <1>4, <2>2, <3>3
      <4>2. QED
        BY <1>6, <1>7, <1>8, <3>3, <4>1, Zenon
    <3>4. QED
      BY <3>1, <3>2, <3>3, Zenon
  <2>6. QED
    BY <1>1, <2>1, <2>3, <2>4, <2>5, ZenonT(30) DEF ReceivedInv
<1>13. QED
  BY <1>9, <1>10, <1>11, <1>12, Zenon

-----------------------------------------------------------------------------

LEMMA NextInv == IInv /\ [Next]_vars => IInv'
<1> SUFFICES ASSUME IInv, [Next]_vars PROVE IInv'
  BY Zenon
<1>1. CASE UNCHANGED vars
  <2>1. UNCHANGED txVars /\ UNCHANGED rxVars /\ UNCHANGED <<pc, cur>>
    BY <1>1, Zenon DEF vars
  <2>2. TxInv' /\ SentInv' /\ RxInv' /\ ReceivedInv'
    BY <2>1, TxKept, RxKept, Zenon DEF IInv
  <2>3. Types'
    BY <2>1, Zenon DEF IInv, Types, Sending, txVars, rxVars
  <2>4. QED
    BY <2>2, <2>3, Zenon DEF IInv
<1>2. CASE Next
  <2>1. ~panicked /\ Running
    BY <1>2, Zenon DEF Next
  <2>2. CASE \E f \in Frame : SendFrame(f)
    BY <2>1, <2>2, SendFrameStep, Zenon
  <2>3. CASE \E cap \in Caps : PollRx(cap)
    BY <2>3, PollRxStep, Zenon
  <2>4. CASE DriverStep
    BY <2>4, TxPushSlotStep, TxPushIdxStep, TxCompleteStep, TxTimeoutStep,
       RecyclePushSlotStep, RecyclePushIdxStep, Zenon DEF DriverStep
  <2>5. CASE Device
    BY <2>5, DevTransmitStep, DevTxDoneStep, DevRxTakeStep, DevReceiveStep, Zenon DEF Device
  <2>6. QED
    BY <2>1, <2>2, <2>3, <2>4, <2>5, Zenon DEF Running
<1>3. QED
  BY <1>1, <1>2, Zenon

\* IInv is an invariant of the driver and the device: where each descriptor of
\* the two queues is, and what the histories of sent and received frames say.
THEOREM Invariance == Spec => []IInv
BY InitInv, NextInv, PTL DEF Spec

\* The queues are sound: descriptors are neither lost nor duplicated, whatever
\* order the device gives them back in and however late, and alloc_desc panics
\* only after as many time-outs as the queue has descriptors.
THEOREM QueuesAreSound == Spec => []QueuesSound
<1>1. IInv => QueuesSound
  <2> SUFFICES ASSUME IInv PROVE QueuesSound
    BY Zenon
  <2>1. timeouts \in 0 .. MaxSends
    BY FrameAssumption, SMTT(30) DEF IInv, Types, TxInv, InFlight
  <2>2. TypeOK
    BY <2>1, Zenon DEF IInv, Types, TxInv, RxInv, TypeOK
  <2>3. DescriptorsConserved
    BY Zenon DEF IInv, TxInv, RxInv, Balanced, DescriptorsConserved
  <2>4. PanicNeedsTimeouts
    BY Zenon DEF IInv, TxInv, PanicNeedsTimeouts
  <2>5. QED
    BY <2>2, <2>3, <2>4, Zenon DEF QueuesSound
<1>2. QED
  BY <1>1, Invariance, PTL

\* send_frame reports as sent what the device transmitted, once and in order.
THEOREM SentOnceHolds == Spec => []SentOnce
<1>1. IInv => SentOnce
  <2> SUFFICES ASSUME IInv, timeouts = 0 PROVE SentOnce
    BY Zenon DEF SentOnce
  <2>1. Len(accepted) \in Nat /\ (Len(wire) = Len(accepted) \/ Len(wire) = Len(accepted) + 1)
    BY DEF IInv, Types, SentInv
  <2>2. Len(wire) \in Len(accepted) .. (Len(accepted) + 1)
    BY <2>1, SMTT(30)
  <2>3. QED
    BY <2>2, Zenon DEF IInv, SentInv, SentOnce
<1>2. QED
  BY <1>1, Invariance, PTL

\* recv_frame returns what arrived, in the order it arrived in.
THEOREM ReceivedIntactHolds == Spec => []ReceivedIntact
<1>1. IInv => ReceivedIntact
  <2> SUFFICES ASSUME IInv PROVE ReceivedIntact
    BY Zenon
  <2> DEFINE w == UsedWindow(rx)
             a == [i \in 1 .. Len(delivered) |-> delivered[i].frame]
             b == [i \in 1 .. Len(w) |-> rxBuf[w[i]]]
             B == Frame \cup {None}
  <2>1. Len(delivered) \in Nat /\ w \in Seq(Desc) /\ Len(w) \in Nat /\ arrived \in Seq(B)
    BY WindowsType DEF IInv, Types, RxInv
  <2>2. \A i \in 1 .. Len(w) : rxBuf[w[i]] \in B
    BY <2>1, ElementOfSeq, Zenon DEF IInv, Types
  <2>3. \A i \in 1 .. Len(delivered) : delivered[i].frame \in B
    <3>1. \A i \in 1 .. Len(delivered) : delivered[i] \in Received
      BY ElementOfSeq, Zenon DEF IInv, Types
    <3>2. QED
      BY <3>1, Zenon DEF Received
  <2>4. /\ Len(arrived) = Len(delivered) + Len(w)
        /\ \A i \in 1 .. Len(delivered) : arrived[i] = delivered[i].frame
        /\ \A i \in 1 .. Len(w) : arrived[Len(delivered) + i] = rxBuf[w[i]]
    BY Zenon DEF IInv, ReceivedInv
  <2> HIDE DEF w, B
  <2>5. a \in Seq(B) /\ Len(a) = Len(delivered) /\ b \in Seq(B) /\ Len(b) = Len(w)
    BY <2>1, <2>2, <2>3, SMTT(30)
  <2>6. /\ a \o b \in Seq(B) /\ Len(a \o b) = Len(delivered) + Len(w)
        /\ \A i \in 1 .. Len(a) + Len(b) :
             (a \o b)[i] = IF i <= Len(a) THEN a[i] ELSE b[i - Len(a)]
    BY <2>5, ConcatProperties, SMTT(30)
  <2>7. ASSUME NEW i \in 1 .. Len(arrived)
        PROVE  arrived[i] = (a \o b)[i]
    <3>1. i \in 1 .. Len(delivered) \/ i - Len(delivered) \in 1 .. Len(w)
      BY <2>1, <2>4, SMTT(30)
    <3>2. QED
      BY <2>1, <2>4, <2>5, <2>6, <3>1, SMTT(30)
  <2>8. arrived = a \o b
    BY <2>1, <2>4, <2>6, <2>7, SeqEqual, Zenon
  <2>9. QED
    BY <2>8, Zenon DEF ReceivedIntact, w
<1>2. QED
  BY <1>1, Invariance, PTL

=============================================================================

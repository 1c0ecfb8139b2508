----------------------------- MODULE CommonLemmas -----------------------------
(***************************************************************************)
(* Facts about finite sets and sequences that the proofs of several        *)
(* components need: the least element that a scan from the front finds,    *)
(* how counts change when something is taken or given back, and the rings  *)
(* of the shared memory as queues.                                         *)
(***************************************************************************)
EXTENDS Integers, Sequences, FiniteSets, FiniteSetsExt, SequencesExt,
        FiniteSetTheorems, SequenceTheorems, TLAPS

(* A non-empty set of numbers has a least element: the one that a scan     *)
(* from the front of a table finds.                                        *)
LEMMA LeastElement ==
  ASSUME NEW S \in SUBSET Nat, S # {}
  PROVE  Min(S) \in S /\ \A y \in S : Min(S) <= y
<1> DEFINE Below(x) == {y \in S : y <= x}
           Segments == {Below(x) : x \in S}
<1>1. \A x \in S : Below(x) \in FiniteSubsetsOf(Nat)
  <2> SUFFICES ASSUME NEW x \in S PROVE Below(x) \in FiniteSubsetsOf(Nat)
    OBVIOUS
  <2>1. x \in Nat /\ Below(x) \in SUBSET Nat /\ \A y \in Below(x) : y <= x
    OBVIOUS
  <2> HIDE DEF Below
  <2>2. IsFiniteSet(Below(x))
    BY <2>1, FS_BoundedSetOfNaturals
  <2> QED BY <2>1, <2>2 DEF FiniteSubsetsOf
<1>2. IsWellFoundedOn(StrictSubsetOrdering(Nat), FiniteSubsetsOf(Nat))
  BY FS_StrictSubsetOrderingWellFounded
<1>3. Segments \subseteq FiniteSubsetsOf(Nat) /\ Segments # {}
  <2> HIDE DEF Below
  <2> QED BY <1>1
<1>4. \E B \in Segments : \A C \in Segments : ~(<<C, B>> \in StrictSubsetOrdering(Nat))
  <2> HIDE DEF Segments
  <2> QED BY <1>2, <1>3, WFMin
<1>5. PICK x \in S : \A y \in S : ~(<<Below(y), Below(x)>> \in StrictSubsetOrdering(Nat))
  BY <1>4
<1>6. \A y \in S : x <= y
  <2> SUFFICES ASSUME NEW y \in S, y < x PROVE FALSE
    OBVIOUS
  <2>0. \A z \in S : z \in Nat
    OBVIOUS
  <2>1. Below(y) \subseteq Below(x) /\ x \in Below(x) /\ x \notin Below(y)
    <3>1. ASSUME NEW z \in Below(y) PROVE z \in Below(x)
      BY <2>0
    <3>2. x \in Below(x) /\ x \notin Below(y)
      BY <2>0
    <3> QED BY <3>1, <3>2
  <2>2. Below(y) \in SUBSET Nat /\ Below(x) \in SUBSET Nat /\ Below(y) # Below(x)
    BY <2>1
  <2> HIDE DEF Below
  <2>3. <<Below(y), Below(x)>> \in StrictSubsetOrdering(Nat)
    BY <2>1, <2>2 DEF StrictSubsetOrdering
  <2> QED BY <1>5, <2>3
<1> QED BY <1>6 DEF Min

(* A function on 0 .. n that is given by its first value and a step from   *)
(* each value to the next exists: what is needed to use the defining       *)
(* equation of a walk or of a sum.                                         *)
Iterated(f, T, b, G, n) ==
  /\ f \in [0 .. n -> T] /\ f[0] = b
  /\ \A i \in 1 .. n : f[i] = G[i][f[i-1]]

LEMMA Iterates ==
  ASSUME NEW T, NEW b \in T, NEW G \in [Nat -> [T -> T]], NEW n \in Nat
  PROVE  \E f : Iterated(f, T, b, G, n)
<1> DEFINE Is(k, f) == f[0] = b /\ \A i \in 1 .. k : f[i] = G[i][f[i-1]]
           Bad == {k \in Nat : ~ \E f \in [0 .. k -> T] : Is(k, f)}
<1>1. Bad = {}
  <2> SUFFICES ASSUME Bad # {} PROVE FALSE
    OBVIOUS
  <2> DEFINE m == Min(Bad)
  <2>1. m \in Bad /\ \A k \in Bad : m <= k
    <3>1. Bad \in SUBSET Nat
      OBVIOUS
    <3> HIDE DEF Bad
    <3> QED BY <3>1, LeastElement
  <2>2. m \in Nat /\ ~ \E f \in [0 .. m -> T] : Is(m, f)
    <3> HIDE DEF m, Is
    <3> QED BY <2>1
  <2> HIDE DEF m
  <2>3. m # 0
    <3> SUFFICES ASSUME m = 0 PROVE FALSE
      OBVIOUS
    <3> DEFINE f == [i \in 0 .. 0 |-> b]
    <3>1. f \in [0 .. 0 -> T] /\ Is(0, f)
      OBVIOUS
    <3> HIDE DEF f, Is
    <3> QED BY <2>2, <3>1
  <2>4. m - 1 \in Nat /\ \E f \in [0 .. (m - 1) -> T] : Is(m - 1, f)
    <3>1. m - 1 \in Nat /\ ~(m <= m - 1)
      BY <2>2, <2>3
    <3> HIDE DEF Is
    <3> QED BY <2>1, <3>1
  <2>5. PICK f \in [0 .. (m - 1) -> T] : Is(m - 1, f)
    <3> HIDE DEF Is
    <3> QED BY <2>4
  <2> DEFINE g == [i \in 0 .. m |-> IF i = m THEN G[m][f[m-1]] ELSE f[i]]
  <2>6. f[m-1] \in T /\ G[m][f[m-1]] \in T
    <3>1. m - 1 \in 0 .. (m - 1)
      BY <2>4
    <3>2. f[m-1] \in T
      BY <3>1
    <3> QED BY <2>2, <3>2
  <2>7. g \in [0 .. m -> T]
    <3> SUFFICES ASSUME NEW i \in 0 .. m PROVE g[i] \in T
      OBVIOUS
    <3>1. CASE i = m
      BY <2>6, <3>1
    <3>2. CASE i # m
      <4>1. i \in 0 .. (m - 1)
        BY <2>2, <3>2
      <4> QED BY <3>2, <4>1
    <3> QED BY <3>1, <3>2
  <2>8. g[0] = b
    BY <2>2, <2>3, <2>5
  <2>9. ASSUME NEW i \in 1 .. m PROVE g[i] = G[i][g[i-1]]
    <3>1. i - 1 \in 0 .. m /\ i - 1 # m /\ g[i-1] = f[i-1]
      BY <2>2
    <3>2. CASE i = m
      BY <2>2, <3>1, <3>2
    <3>3. CASE i # m
      <4>1. i \in 1 .. (m - 1)
        BY <2>2, <3>3
      <4>2. f[i] = G[i][f[i-1]]
        BY <2>5, <4>1
      <4> QED BY <2>2, <3>1, <3>3, <4>2
    <3> QED BY <3>2, <3>3
  <2>10. Is(m, g)
    BY <2>8, <2>9
  <2> HIDE DEF Is, g
  <2> QED BY <2>2, <2>7, <2>10
<1>2. \E f \in [0 .. n -> T] : Is(n, f)
  <2> HIDE DEF Is
  <2> QED BY <1>1
<1> QED BY <1>2 DEF Iterated

(* What holds at first and from each step to the next holds to the end.    *)
LEMMA StepByStep ==
  ASSUME NEW n \in Nat, NEW S, 0 \in S, \A i \in 1 .. n : i - 1 \in S => i \in S
  PROVE  \A i \in 0 .. n : i \in S
<1> DEFINE Bad == {i \in 0 .. n : i \notin S}
           m == Min(Bad)
<1> SUFFICES ASSUME Bad # {} PROVE FALSE
  OBVIOUS
<1>1. m \in Bad /\ \A i \in Bad : m <= i
  <2>1. Bad \in SUBSET Nat
    OBVIOUS
  <2> HIDE DEF Bad
  <2> QED BY <2>1, LeastElement
<1>2. m \in 0 .. n /\ m \notin S
  <2> HIDE DEF m
  <2> QED BY <1>1
<1> HIDE DEF m
<1>3. m \in 1 .. n
  BY <1>2
<1>4. m - 1 \in 0 .. n /\ ~(m <= m - 1)
  BY <1>3
<1>5. m - 1 \notin Bad
  <2> HIDE DEF Bad
  <2> QED BY <1>1, <1>4
<1> QED BY <1>2, <1>3, <1>4, <1>5

(* Where a walk has come to rest it stays.                                 *)
LEMMA Settles ==
  ASSUME NEW f, NEW n \in Nat, NEW k \in 0 .. n,
         \A i \in (k + 1) .. n : f[i-1] = f[k] => f[i] = f[k]
  PROVE  \A i \in k .. n : f[i] = f[k]
<1> DEFINE Bad == {i \in k .. n : f[i] # f[k]}
           m == Min(Bad)
<1> SUFFICES ASSUME Bad # {} PROVE FALSE
  OBVIOUS
<1>1. m \in Bad /\ \A i \in Bad : m <= i
  <2>1. Bad \in SUBSET Nat
    OBVIOUS
  <2> HIDE DEF Bad
  <2> QED BY <2>1, LeastElement
<1> HIDE DEF m
<1>2. m \in (k + 1) .. n /\ m - 1 \in k .. n /\ ~(m <= m - 1)
  BY <1>1
<1>3. f[m-1] = f[k]
  BY <1>1, <1>2
<1> QED BY <1>1, <1>2, <1>3

(* Taking what was free adds its number to what is in use.                 *)
LEMMA CountTaken ==
  ASSUME NEW S, NEW T, IsFiniteSet(S), IsFiniteSet(T), S \cap T = {}
  PROVE  /\ IsFiniteSet(S \cup T)
         /\ Cardinality(S \cup T) = Cardinality(S) + Cardinality(T)
         /\ Cardinality(S) \in Nat /\ Cardinality(T) \in Nat
<1>1. Cardinality(S) \in Nat /\ Cardinality(T) \in Nat
  BY FS_CardinalityType
<1>2. /\ IsFiniteSet(S \cup T)
      /\ Cardinality(S \cup T) = Cardinality(S) + Cardinality(T) - Cardinality(S \cap T)
  BY FS_Union
<1>3. Cardinality(S \cap T) = 0
  BY FS_EmptySet
<1> QED BY <1>1, <1>2, <1>3

(* Giving back what was in use takes its number away.                      *)
LEMMA CountGiven ==
  ASSUME NEW S, NEW T \in SUBSET S, IsFiniteSet(S)
  PROVE  /\ IsFiniteSet(S \ T) /\ IsFiniteSet(T)
         /\ Cardinality(S \ T) = Cardinality(S) - Cardinality(T)
         /\ Cardinality(S) \in Nat /\ Cardinality(T) \in Nat
<1>1. IsFiniteSet(T) /\ IsFiniteSet(S \ T)
  BY FS_Subset, FS_Difference
<1>2. S = (S \ T) \cup T /\ (S \ T) \cap T = {}
  OBVIOUS
<1>3. Cardinality(S) = Cardinality(S \ T) + Cardinality(T)
  BY <1>1, <1>2, CountTaken
<1>4. Cardinality(S \ T) \in Nat /\ Cardinality(T) \in Nat
  BY <1>1, FS_CardinalityType
<1> QED BY <1>1, <1>3, <1>4

(* Sequences of at most m elements: what a fixed array and a count hold.   *)
LEMMA BoundedSeqIs ==
  ASSUME NEW S, NEW m \in Nat, NEW s
  PROVE  s \in BoundedSeq(S, m) <=> s \in Seq(S) /\ Len(s) <= m
<1>1. ASSUME s \in BoundedSeq(S, m) PROVE s \in Seq(S) /\ Len(s) <= m
  <2>1. PICK k \in 0 .. m : s \in [1 .. k -> S]
    BY <1>1 DEF BoundedSeq, SeqOf
  <2> QED BY <2>1
<1>2. ASSUME s \in Seq(S), Len(s) <= m PROVE s \in BoundedSeq(S, m)
  <2>1. s \in [1 .. Len(s) -> S] /\ Len(s) \in 0 .. m
    BY <1>2, LenProperties
  <2> QED BY <2>1 DEF BoundedSeq, SeqOf
<1> QED BY <1>1, <1>2

(* Appending to a sequence adds to the set of its elements.                *)
LEMMA AppendToSet ==
  ASSUME NEW S, NEW s \in Seq(S), NEW e \in S
  PROVE  ToSet(Append(s, e)) = ToSet(s) \cup {e}
<1>1. /\ Append(s, e) \in Seq(S) /\ Len(Append(s, e)) = Len(s) + 1
      /\ \A i \in 1 .. Len(s) : Append(s, e)[i] = s[i]
      /\ Append(s, e)[Len(s) + 1] = e
  BY AppendProperties
<1>2. /\ DOMAIN s = 1 .. Len(s) /\ Len(s) \in Nat
      /\ DOMAIN Append(s, e) = 1 .. (Len(s) + 1)
  BY <1>1, LenProperties
<1>3. DOMAIN Append(s, e) = DOMAIN s \cup {Len(s) + 1}
  BY <1>2
<1> QED BY <1>1, <1>2, <1>3 DEF ToSet

(* Moving the first element of one sequence to the end of another.         *)
LEMMA ConcatShift ==
  ASSUME NEW S, NEW s \in Seq(S), NEW t \in Seq(S), t # << >>
  PROVE  Append(s, Head(t)) \o Tail(t) = s \o t
<1>1. /\ Head(t) \in S /\ Tail(t) \in Seq(S) /\ Len(Tail(t)) = Len(t) - 1
      /\ \A i \in 1 .. Len(Tail(t)) : Tail(t)[i] = t[i + 1]
      /\ Len(s) \in Nat /\ Len(t) \in Nat /\ Len(t) >= 1 /\ Head(t) = t[1]
  BY HeadTailProperties, EmptySeq, LenProperties
<1> DEFINE a == Append(s, Head(t))
           u == Tail(t)
<1>2. /\ a \in Seq(S) /\ Len(a) = Len(s) + 1
      /\ \A i \in 1 .. Len(s) : a[i] = s[i]
      /\ a[Len(s) + 1] = t[1]
  BY <1>1, AppendProperties
<1>3. /\ u \in Seq(S) /\ Len(u) = Len(t) - 1
      /\ \A i \in 1 .. (Len(t) - 1) : u[i] = t[i + 1]
  BY <1>1
<1> HIDE DEF a, u
<1>4. /\ a \o u \in Seq(S) /\ Len(a \o u) = Len(a) + Len(u)
      /\ \A i \in 1 .. Len(a) + Len(u) :
            (a \o u)[i] = IF i <= Len(a) THEN a[i] ELSE u[i - Len(a)]
  BY <1>2, <1>3, ConcatProperties
<1>5. /\ s \o t \in Seq(S) /\ Len(s \o t) = Len(s) + Len(t)
      /\ \A i \in 1 .. Len(s) + Len(t) :
            (s \o t)[i] = IF i <= Len(s) THEN s[i] ELSE t[i - Len(s)]
  BY ConcatProperties
<1>6. Len(a \o u) = Len(s \o t)
  BY <1>1, <1>2, <1>3, <1>4, <1>5
<1>7. ASSUME NEW i \in 1 .. Len(a \o u) PROVE (a \o u)[i] = (s \o t)[i]
  <2>0. i \in 1 .. (Len(a) + Len(u)) /\ i \in 1 .. (Len(s) + Len(t))
    BY <1>4, <1>5, <1>6
  <2>1. CASE i \in 1 .. Len(s)
    BY <1>1, <1>2, <1>4, <1>5, <2>0, <2>1
  <2>2. CASE i = Len(s) + 1
    <3>1. (a \o u)[i] = t[1]
      BY <1>1, <1>2, <1>4, <2>0, <2>2
    <3>2. (s \o t)[i] = t[1]
      BY <1>1, <1>5, <2>0, <2>2
    <3> QED BY <3>1, <3>2
  <2>3. CASE i > Len(s) + 1
    <3>1. (a \o u)[i] = u[i - (Len(s) + 1)]
      BY <1>1, <1>2, <1>4, <2>0, <2>3
    <3>2. i - (Len(s) + 1) \in 1 .. (Len(t) - 1)
      BY <1>1, <2>0, <2>3
    <3>3. u[i - (Len(s) + 1)] = t[(i - (Len(s) + 1)) + 1]
      BY <1>3, <3>2
    <3>4. (i - (Len(s) + 1)) + 1 = i - Len(s)
      BY <1>1, <2>0
    <3>5. (s \o t)[i] = t[i - Len(s)]
      BY <1>1, <1>5, <2>0, <2>3
    <3> QED BY <3>1, <3>3, <3>4, <3>5
  <2> QED BY <1>1, <2>0, <2>1, <2>2, <2>3
<1>8. a \o u = s \o t
  BY <1>4, <1>5, <1>6, <1>7, SeqEqual
<1> QED BY <1>8 DEF a, u

(* Appending to the second of two sequences appends to their sequence.     *)
LEMMA ConcatAppend ==
  ASSUME NEW S, NEW s \in Seq(S), NEW t \in Seq(S), NEW e \in S
  PROVE  s \o Append(t, e) = Append(s \o t, e)
<1>1. Append(t, e) = t \o <<e>> /\ <<e>> \in Seq(S)
  BY AppendIsConcat
<1>2. s \o t \in Seq(S)
  BY ConcatProperties
<1>3. Append(s \o t, e) = (s \o t) \o <<e>>
  BY <1>2, AppendIsConcat
<1>4. (s \o t) \o <<e>> = s \o (t \o <<e>>)
  BY <1>1, ConcatAssociative
<1> QED BY <1>1, <1>3, <1>4

-----------------------------------------------------------------------------
(* A ring of N slots with one slot kept free, as every ring of the shared  *)
(* memory is: its next index, how much it holds, and the queue it stands   *)
(* for, oldest first.                                                      *)
RingNext(N, i) == (i + 1) % N
RingCount(N, h, t) == (h + N - t) % N
RingSeq(N, h, t, s) == [i \in 1 .. RingCount(N, h, t) |-> s[(t + i - 1) % N]]

(* Remainders of the index arithmetic the ring uses, without %.            *)
LEMMA RingMod ==
  ASSUME NEW N \in Nat \ {0, 1}, NEW x \in 0 .. (2 * N - 1)
  PROVE  x % N = IF x < N THEN x ELSE x - N
<1>1. CASE x < N
  BY <1>1
<1>2. CASE ~(x < N)
  BY <1>2
<1> QED BY <1>1, <1>2

(* The successor of an index (head + 1) % size is an index.                *)
LEMMA RingNextIs ==
  ASSUME NEW N \in Nat \ {0, 1}, NEW i \in 0 .. (N - 1)
  PROVE  /\ RingNext(N, i) = IF i = N - 1 THEN 0 ELSE i + 1
         /\ RingNext(N, i) \in 0 .. (N - 1)
<1> DEFINE x == i + 1
<1>1. x \in 0 .. (2 * N - 1)
  OBVIOUS
<1>2. x % N = IF x < N THEN x ELSE x - N
  <2> HIDE DEF x
  <2> QED BY <1>1, RingMod
<1> QED BY <1>2 DEF RingNext

(* How many entries the ring holds, without %.                             *)
LEMMA RingCountIs ==
  ASSUME NEW N \in Nat \ {0, 1}, NEW h \in 0 .. (N - 1), NEW t \in 0 .. (N - 1)
  PROVE  /\ RingCount(N, h, t) = IF h >= t THEN h - t ELSE h - t + N
         /\ RingCount(N, h, t) \in 0 .. (N - 1)
<1> DEFINE x == h + N - t
<1>1. x \in 0 .. (2 * N - 1)
  OBVIOUS
<1>2. x % N = IF x < N THEN x ELSE x - N
  <2> HIDE DEF x
  <2> QED BY <1>1, RingMod
<1> QED BY <1>2 DEF RingCount

(* Where the i-th queued entry is, without %.                              *)
LEMMA RingSlotIs ==
  ASSUME NEW N \in Nat \ {0, 1}, NEW t \in 0 .. (N - 1), NEW i \in 1 .. N
  PROVE  /\ (t + i - 1) % N = IF t + i - 1 < N THEN t + i - 1
                                                    ELSE t + i - 1 - N
         /\ (t + i - 1) % N \in 0 .. (N - 1)
<1> DEFINE x == t + i - 1
<1>1. x \in 0 .. (2 * N - 1)
  OBVIOUS
<1>2. x % N = IF x < N THEN x ELSE x - N
  <2> HIDE DEF x
  <2> QED BY <1>1, RingMod
<1> QED BY <1>2

(* The queue a ring stands for: how long it is and what is in it.         *)
LEMMA RingSeqIs ==
  ASSUME NEW N \in Nat \ {0, 1}, NEW h \in 0 .. (N - 1), NEW t \in 0 .. (N - 1),
         NEW s
  PROVE  /\ Len(RingSeq(N, h, t, s)) = RingCount(N, h, t)
         /\ \A i \in 1 .. RingCount(N, h, t) :
               /\ i \in 1 .. N
               /\ RingSeq(N, h, t, s)[i] = s[(t + i - 1) % N]
<1>1. RingCount(N, h, t) \in 0 .. (N - 1)
  BY RingCountIs
<1>2. \A i \in 1 .. RingCount(N, h, t) : i \in 1 .. N
  BY <1>1
<1>3. Len(RingSeq(N, h, t, s)) = RingCount(N, h, t)
  BY <1>1 DEF RingSeq
<1> QED BY <1>2, <1>3 DEF RingSeq

(* It is a sequence of what the slots hold.                                *)
LEMMA RingSeqType ==
  ASSUME NEW N \in Nat \ {0, 1}, NEW h \in 0 .. (N - 1), NEW t \in 0 .. (N - 1),
         NEW E, NEW s \in [0 .. (N - 1) -> E]
  PROVE  RingSeq(N, h, t, s) \in Seq(E)
<1>1. RingCount(N, h, t) \in 0 .. (N - 1)
  BY RingCountIs
<1>2. \A i \in 1 .. RingCount(N, h, t) : i \in 1 .. N
  BY <1>1
<1>3. \A i \in 1 .. RingCount(N, h, t) : s[(t + i - 1) % N] \in E
  BY <1>2, RingSlotIs
<1>4. RingSeq(N, h, t, s) \in [1 .. RingCount(N, h, t) -> E]
  BY <1>3 DEF RingSeq
<1> QED BY <1>1, <1>4

(* Writing into slot head does not change the queue: head is not one of    *)
(* its slots.                                                              *)
LEMMA RingWriteKeeps ==
  ASSUME NEW N \in Nat \ {0, 1}, NEW h \in 0 .. (N - 1), NEW t \in 0 .. (N - 1),
         NEW s, NEW r, \A j \in (0 .. (N - 1)) \ {h} : r[j] = s[j]
  PROVE  RingSeq(N, h, t, r) = RingSeq(N, h, t, s)
<1>1. \A i \in 1 .. RingCount(N, h, t) : (t + i - 1) % N \in (0 .. (N - 1)) \ {h}
  <2> SUFFICES ASSUME NEW i \in 1 .. RingCount(N, h, t)
               PROVE (t + i - 1) % N \in (0 .. (N - 1)) \ {h}
    OBVIOUS
  <2>1. /\ RingCount(N, h, t) = IF h >= t THEN h - t ELSE h - t + N
        /\ i \in 1 .. N
    BY RingCountIs, RingSeqIs
  <2>2. /\ (t + i - 1) % N = IF t + i - 1 < N THEN t + i - 1
                                                   ELSE t + i - 1 - N
        /\ (t + i - 1) % N \in 0 .. (N - 1)
    BY <2>1, RingSlotIs
  <2> QED BY <2>1, <2>2
<1> QED BY <1>1 DEF RingSeq

(* Publishing the next head appends the entry in slot head.                *)
LEMMA RingAppends ==
  ASSUME NEW N \in Nat \ {0, 1}, NEW h \in 0 .. (N - 1), NEW t \in 0 .. (N - 1),
         NEW E, NEW s \in [0 .. (N - 1) -> E], RingNext(N, h) # t
  PROVE  /\ Len(RingSeq(N, h, t, s)) < N - 1
         /\ RingSeq(N, RingNext(N, h), t, s) = Append(RingSeq(N, h, t, s), s[h])
<1> DEFINE n == RingCount(N, h, t)
           q == RingSeq(N, h, t, s)
           r == RingSeq(N, RingNext(N, h), t, s)
<1>1. /\ RingNext(N, h) = IF h = N - 1 THEN 0 ELSE h + 1
      /\ RingNext(N, h) \in 0 .. (N - 1)
  BY RingNextIs
<1>2. /\ n = IF h >= t THEN h - t ELSE h - t + N
      /\ n \in 0 .. (N - 1)
      /\ RingCount(N, RingNext(N, h), t) = IF RingNext(N, h) >= t
                                  THEN RingNext(N, h) - t
                                  ELSE RingNext(N, h) - t + N
  BY <1>1, RingCountIs
<1>3. RingCount(N, RingNext(N, h), t) = n + 1 /\ n < N - 1
  BY <1>1, <1>2
<1>4. (t + (n + 1) - 1) % N = h
  <2>1. n + 1 \in 1 .. N
    BY <1>2, <1>3
  <2>2. (t + (n + 1) - 1) % N = IF t + (n + 1) - 1 < N
                                   THEN t + (n + 1) - 1
                                   ELSE t + (n + 1) - 1 - N
    BY <2>1, RingSlotIs
  <2> QED BY <1>2, <2>2
<1>5. /\ q \in Seq(E) /\ Len(q) = n
      /\ \A i \in 1 .. n : q[i] = s[(t + i - 1) % N]
  <2>1. q \in Seq(E)
    BY RingSeqType
  <2>2. Len(q) = n
    BY RingSeqIs
  <2>3. \A i \in 1 .. n : q[i] = s[(t + i - 1) % N]
    BY DEF RingSeq
  <2>4. \A i \in 1 .. n : i \in 1 .. N
    BY <1>2
  <2> QED BY <2>1, <2>2, <2>3, <2>4
<1>6. /\ r \in Seq(E) /\ Len(r) = n + 1
      /\ \A i \in 1 .. (n + 1) : r[i] = s[(t + i - 1) % N]
  <2> DEFINE g == RingNext(N, h)
  <2>1. g \in 0 .. (N - 1) /\ RingCount(N, g, t) = n + 1
    BY <1>1, <1>3
  <2> HIDE DEF g, n
  <2>2. RingSeq(N, g, t, s) \in Seq(E)
    BY <2>1, RingSeqType
  <2>3. Len(RingSeq(N, g, t, s)) = RingCount(N, g, t)
    BY <2>1, RingSeqIs
  <2>4. \A i \in 1 .. RingCount(N, g, t) :
           RingSeq(N, g, t, s)[i] = s[(t + i - 1) % N]
    BY DEF RingSeq
  <2> QED BY <2>1, <2>2, <2>3, <2>4 DEF g
<1>7. s[h] \in E
  OBVIOUS
<1>8. /\ Append(q, s[h]) \in Seq(E)
      /\ Len(Append(q, s[h])) = n + 1
      /\ \A i \in 1 .. n : Append(q, s[h])[i] = q[i]
      /\ Append(q, s[h])[n + 1] = s[h]
  BY <1>5, <1>7, AppendProperties
<1>9. \A i \in 1 .. (n + 1) : r[i] = Append(q, s[h])[i]
  <2> SUFFICES ASSUME NEW i \in 1 .. (n + 1)
               PROVE r[i] = Append(q, s[h])[i]
    OBVIOUS
  <2>1. CASE i \in 1 .. n
    BY <2>1, <1>5, <1>6, <1>8
  <2>2. CASE i = n + 1
    BY <2>2, <1>4, <1>6, <1>8
  <2>3. n \in Nat
    BY <1>2
  <2>4. i \in 1 .. n \/ i = n + 1
    <3> HIDE DEF n
    <3> QED BY <2>3
  <2> QED BY <2>1, <2>2, <2>4
<1>10. r = Append(q, s[h])
  <2> HIDE DEF q, r, n
  <2> QED BY <1>6, <1>8, <1>9, SeqEqual
<1> QED BY <1>3, <1>5, <1>10

(* Advancing tail removes the first entry, the one in slot tail.           *)
LEMMA RingRemoves ==
  ASSUME NEW N \in Nat \ {0, 1}, NEW h \in 0 .. (N - 1), NEW t \in 0 .. (N - 1),
         NEW E, NEW s \in [0 .. (N - 1) -> E], t # h
  PROVE  /\ RingSeq(N, h, t, s) # << >>
         /\ Head(RingSeq(N, h, t, s)) = s[t]
         /\ RingSeq(N, h, RingNext(N, t), s) = Tail(RingSeq(N, h, t, s))
<1> DEFINE n == RingCount(N, h, t)
           q == RingSeq(N, h, t, s)
           r == RingSeq(N, h, RingNext(N, t), s)
<1>1. /\ RingNext(N, t) = IF t = N - 1 THEN 0 ELSE t + 1
      /\ RingNext(N, t) \in 0 .. (N - 1)
  BY RingNextIs
<1>2. /\ n = IF h >= t THEN h - t ELSE h - t + N
      /\ n \in 0 .. (N - 1)
      /\ RingCount(N, h, RingNext(N, t)) = IF h >= RingNext(N, t)
                                  THEN h - RingNext(N, t)
                                  ELSE h - RingNext(N, t) + N
  BY <1>1, RingCountIs
<1>3. RingCount(N, h, RingNext(N, t)) = n - 1 /\ n >= 1
  BY <1>1, <1>2
<1>4. /\ q \in Seq(E) /\ Len(q) = n
      /\ \A i \in 1 .. n : i \in 1 .. N /\ q[i] = s[(t + i - 1) % N]
  <2>1. q \in Seq(E)
    BY RingSeqType
  <2>2. Len(q) = n
    BY RingSeqIs
  <2>3. \A i \in 1 .. n : q[i] = s[(t + i - 1) % N]
    BY DEF RingSeq
  <2>4. \A i \in 1 .. n : i \in 1 .. N
    BY <1>2
  <2> QED BY <2>1, <2>2, <2>3, <2>4
<1>5. /\ r \in Seq(E) /\ Len(r) = n - 1
      /\ \A i \in 1 .. (n - 1) : r[i] = s[(RingNext(N, t) + i - 1) % N]
  <2> DEFINE u == RingNext(N, t)
  <2>1. u \in 0 .. (N - 1) /\ RingCount(N, h, u) = n - 1
    BY <1>1, <1>3
  <2> HIDE DEF u
  <2>2. RingSeq(N, h, u, s) \in Seq(E)
    BY <2>1, RingSeqType
  <2>3. Len(RingSeq(N, h, u, s)) = RingCount(N, h, u)
    BY <2>1, RingSeqIs
  <2>4. \A i \in 1 .. RingCount(N, h, u) :
           RingSeq(N, h, u, s)[i] = s[(u + i - 1) % N]
    BY DEF RingSeq
  <2> QED BY <2>1, <2>2, <2>3, <2>4 DEF u
<1>6. \A i \in 1 .. (n - 1) :
        (RingNext(N, t) + i - 1) % N = (t + (i + 1) - 1) % N
  <2> SUFFICES ASSUME NEW i \in 1 .. (n - 1)
               PROVE (RingNext(N, t) + i - 1) % N = (t + (i + 1) - 1) % N
    OBVIOUS
  <2>1. i \in 1 .. N /\ i + 1 \in 1 .. N
    BY <1>2, <1>3
  <2>2. (RingNext(N, t) + i - 1) % N = IF RingNext(N, t) + i - 1 < N
                                      THEN RingNext(N, t) + i - 1
                                      ELSE RingNext(N, t) + i - 1 - N
    BY <1>1, <2>1, RingSlotIs
  <2>3. (t + (i + 1) - 1) % N = IF t + (i + 1) - 1 < N
                                   THEN t + (i + 1) - 1
                                   ELSE t + (i + 1) - 1 - N
    BY <2>1, RingSlotIs
  <2> QED BY <1>1, <1>2, <2>1, <2>2, <2>3
<1>7. q # << >>
  BY <1>3, <1>4
<1>8. /\ Tail(q) \in Seq(E) /\ Len(Tail(q)) = n - 1
      /\ \A i \in 1 .. (n - 1) : Tail(q)[i] = q[i + 1]
  BY <1>4, <1>7, HeadTailProperties
<1>9. \A i \in 1 .. (n - 1) : r[i] = Tail(q)[i]
  <2> SUFFICES ASSUME NEW i \in 1 .. (n - 1)
               PROVE r[i] = Tail(q)[i]
    OBVIOUS
  <2>1. i + 1 \in 1 .. n
    BY <1>2
  <2>2. q[i + 1] = s[(t + (i + 1) - 1) % N]
    BY <1>4, <2>1
  <2> QED BY <1>5, <1>6, <1>8, <2>2
<1>10. r = Tail(q)
  <2> HIDE DEF q, r, n
  <2> QED BY <1>5, <1>8, <1>9, SeqEqual
<1>11. Head(q) = s[t]
  <2>1. 1 \in 1 .. n /\ Head(q) = q[1]
    BY <1>2, <1>3, <1>4
  <2>2. q[1] = s[(t + 1 - 1) % N] /\ 1 \in 1 .. N
    BY <1>4, <2>1
  <2>3. (t + 1 - 1) % N = IF t + 1 - 1 < N THEN t + 1 - 1
                                                 ELSE t + 1 - 1 - N
    BY <2>2, RingSlotIs
  <2> QED BY <2>1, <2>2, <2>3
<1> QED BY <1>7, <1>10, <1>11

=============================================================================

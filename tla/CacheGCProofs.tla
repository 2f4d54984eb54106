---------------------------- MODULE CacheGCProofs ----------------------------
(***************************************************************************)
(* Proofs about a garbage collection of the cache, HTgc.c, for any tree of *)
(* directories, files, limits and tables: its report, .cache_info and the  *)
(* disk agree (BooksAgree), there is room afterwards and nothing that has  *)
(* expired is left (Collected), and it takes no more than it must          *)
(* (NoMoreThanNeeded).                                                     *)
(*                                                                         *)
(* The first part is about sums over sets of files, the second about the   *)
(* table of values, the third about the walk.                              *)
(***************************************************************************)
EXTENDS CacheGC, FiniteSetTheorems, WellFoundedInduction, TLAPS

-----------------------------------------------------------------------------
(* Induction                                                               *)

\* A set of numbers has a least one.
LEMMA LeastNatural ==
    ASSUME NEW T, T \subseteq Nat, T # {}
    PROVE  \E m \in T : \A k \in T : m <= k
<1>1. \E m \in T : \A k \in T : ~ (<<k, m>> \in OpToRel(<, Nat))
  BY WFMin, NatLessThanWellFounded
<1>2. OpToRel(<, Nat) = {p \in Nat \X Nat : p[1] < p[2]}
  BY Zenon DEF OpToRel
<1>3. \A k, m \in Nat : k < m => <<k, m>> \in {p \in Nat \X Nat : p[1] < p[2]}
  OBVIOUS
<1>4. PICK m \in T : \A k \in T : ~ (<<k, m>> \in OpToRel(<, Nat))
  BY <1>1
<1>5. \A k \in T : ~ (k < m)
  BY <1>2, <1>3, <1>4, Zenon
<1> QED
  BY <1>5

\* Induction up to n, for a set.
LEMMA UpTo ==
    ASSUME NEW n \in Nat, NEW T, 0 \in T, \A i \in 1 .. n : i - 1 \in T => i \in T
    PROVE  \A i \in 0 .. n : i \in T
<1> DEFINE out == {i \in 0 .. n : i \notin T}
<1>1. SUFFICES ASSUME out # {} PROVE FALSE
  OBVIOUS
<1>2. out \subseteq Nat
  OBVIOUS
<1>3. PICK m \in out : \A k \in out : m <= k
  <2> HIDE DEF out
  <2> QED
    BY <1>1, <1>2, LeastNatural
<1>4. m \in 1 .. n
  BY <1>3
<1>5. m - 1 \in 0 .. n /\ ~ (m <= m - 1)
  BY <1>4
<1>6. m - 1 \in T
  BY <1>3, <1>5
<1> QED
  BY <1>3, <1>4, <1>6

-----------------------------------------------------------------------------
(* Sums over sets of files                                                 *)

\* The element that a sum takes next.
Pick(s) == CHOOSE f \in s : TRUE

\* The size that a gives for a file.
Size(a, f) == a[f].bytes

\* The bytes of the files fs, of which a says the size.
Total(a, fs) == MapThenSumSet(LAMBDA f : a[f].bytes, fs)

\* g has the sum of each subset of fs.
Sums(a, fs, g) ==
    g = [s \in SUBSET fs |-> IF s = {} THEN 0 ELSE a[Pick(s)].bytes + g[s \ {Pick(s)}]]

\* The recursive function by which a sum is defined exists where the set is finite.
LEMMA SumsExist ==
    ASSUME NEW a, NEW fs, IsFiniteSet(fs)
    PROVE  \E g : Sums(a, fs, g)
<1> DEFINE Next1(g, s) == IF s = {} THEN 0 ELSE a[Pick(s)].bytes + g[s \ {Pick(s)}]
           n == Cardinality(fs)
           T == {k \in 0 .. n : \E g : \A s \in SUBSET fs : Cardinality(s) <= k => g[s] = Next1(g, s)}
<1>1. n \in Nat
  BY FS_CardinalityType
<1>2. \A s \in SUBSET fs : IsFiniteSet(s) /\ Cardinality(s) \in 0 .. n
  BY <1>1, FS_Subset, FS_CardinalityType
<1>3. 0 \in T
  <2> DEFINE g == [s \in SUBSET fs |-> 0]
  <2>1. \A s \in SUBSET fs : Cardinality(s) <= 0 => s = {}
    BY <1>2, FS_EmptySet
  <2>2. \A s \in SUBSET fs : Cardinality(s) <= 0 => g[s] = Next1(g, s)
    BY <2>1
  <2>3. 0 \in 0 .. n
    BY <1>1
  <2> HIDE DEF g, Next1, n
  <2> QED
    BY <2>2, <2>3
<1>4. ASSUME NEW k \in 1 .. n, k - 1 \in T PROVE k \in T
  <2>1. PICK g : \A s \in SUBSET fs : Cardinality(s) <= k - 1 => g[s] = Next1(g, s)
    BY <1>4
  <2> DEFINE h == [s \in SUBSET fs |-> Next1(g, s)]
  <2>2. ASSUME NEW s \in SUBSET fs, Cardinality(s) <= k PROVE h[s] = Next1(h, s)
    <3>1. CASE s = {}
      BY <3>1
    <3>2. CASE s # {}
      <4>1. Pick(s) \in s
        BY <3>2 DEF Pick
      <4> DEFINE t == s \ {Pick(s)}
      <4>2. t \in SUBSET fs /\ Cardinality(t) = Cardinality(s) - 1
        BY <4>1, <1>2, FS_RemoveElement
      <4>3. Cardinality(t) <= k - 1
        BY <4>2, <2>2, <1>1, <1>2
      <4>4. g[t] = h[t]
        BY <4>2, <4>3, <2>1
      <4> QED
        BY <3>2, <4>4
    <3> QED
      BY <3>1, <3>2
  <2>3. \A s \in SUBSET fs : Cardinality(s) <= k => h[s] = Next1(h, s)
    BY <2>2
  <2>4. k \in 0 .. n
    BY <1>1
  <2> HIDE DEF h, Next1, n
  <2> QED
    BY <2>3, <2>4
<1>5. n \in T
  <2>1. n \in 0 .. n
    BY <1>1
  <2> HIDE DEF T, n
  <2> QED
    BY <1>1, <1>3, <1>4, <2>1, UpTo
<1>6. PICK g : \A s \in SUBSET fs : Cardinality(s) <= n => g[s] = Next1(g, s)
  BY <1>5
<1>7. \A s \in SUBSET fs : g[s] = Next1(g, s)
  <2>1. \A s \in SUBSET fs : Cardinality(s) <= n
    BY <1>1, <1>2
  <2> HIDE DEF Next1, n
  <2> QED
    BY <1>6, <2>1
<1> DEFINE h == [s \in SUBSET fs |-> g[s]]
<1>8. \A s \in SUBSET fs : h[s] = Next1(h, s)
  <2> TAKE s \in SUBSET fs
  <2>1. s # {} => s \ {Pick(s)} \in SUBSET fs
    OBVIOUS
  <2>2. h[s] = Next1(g, s)
    BY <1>7
  <2> QED
    BY <2>1, <2>2
<1>9. h = [s \in SUBSET fs |-> Next1(h, s)]
  <2> HIDE DEF Next1
  <2> QED
    BY <1>8
<1>10. Sums(a, fs, h)
  <2>1. h = [s \in SUBSET fs |-> IF s = {} THEN 0 ELSE a[Pick(s)].bytes + h[s \ {Pick(s)}]]
    BY <1>9
  <2> HIDE DEF h
  <2> QED
    BY <2>1 DEF Sums
<1> HIDE DEF h
<1> QED
  BY <1>10

\* Sums of a set do not depend on the set it is a part of.
LEMMA SumsAgree ==
    ASSUME NEW a, NEW fs, NEW gs, NEW g, NEW h, Sums(a, fs, g), Sums(a, gs, h),
           NEW s, s \subseteq fs, s \subseteq gs, IsFiniteSet(s)
    PROVE  g[s] = h[s]
<1> DEFINE n == Cardinality(s)
           T == {k \in 0 .. n : \A t \in SUBSET s : Cardinality(t) = k => g[t] = h[t]}
<1>1. n \in Nat
  BY FS_CardinalityType
<1>2. \A t \in SUBSET s : IsFiniteSet(t) /\ Cardinality(t) \in 0 .. n
  BY <1>1, FS_Subset, FS_CardinalityType
<1>3. ASSUME NEW t \in SUBSET s
      PROVE  /\ t = {} => g[t] = 0 /\ h[t] = 0
             /\ t # {} => /\ g[t] = a[Pick(t)].bytes + g[t \ {Pick(t)}]
                          /\ h[t] = a[Pick(t)].bytes + h[t \ {Pick(t)}]
  BY DEF Sums
<1>4. 0 \in T
  <2>1. \A t \in SUBSET s : Cardinality(t) = 0 => t = {}
    BY <1>2, FS_EmptySet
  <2>2. \A t \in SUBSET s : Cardinality(t) = 0 => g[t] = h[t]
    BY <2>1, <1>3
  <2> QED
    BY <1>1, <2>2
<1>5. ASSUME NEW k \in 1 .. n, k - 1 \in T PROVE k \in T
  <2>1. ASSUME NEW t \in SUBSET s, Cardinality(t) = k PROVE g[t] = h[t]
    <3>1. t # {}
      BY <2>1, <1>1, FS_EmptySet
    <3>2. Pick(t) \in t
      BY <3>1 DEF Pick
    <3>3. t \ {Pick(t)} \in SUBSET s /\ Cardinality(t \ {Pick(t)}) = k - 1
      BY <2>1, <3>2, <1>2, FS_RemoveElement
    <3>4. g[t \ {Pick(t)}] = h[t \ {Pick(t)}]
      BY <3>3, <1>5
    <3> QED
      BY <3>1, <3>4, <1>3
  <2> QED
    BY <2>1, <1>1
<1>6. n \in T
  <2>1. n \in 0 .. n
    BY <1>1
  <2> HIDE DEF T, n
  <2> QED
    BY <1>1, <1>4, <1>5, <2>1, UpTo
<1> QED
  BY <1>6

\* A sum over a set that is not empty: the next element, and the others.
LEMMA TotalNext ==
    ASSUME NEW a, NEW fs, IsFiniteSet(fs)
    PROVE  /\ fs = {} => Total(a, fs) = 0
           /\ fs # {} => /\ Pick(fs) \in fs
                         /\ Total(a, fs) = Size(a, Pick(fs)) + Total(a, fs \ {Pick(fs)})
<1> DEFINE F(s) == CHOOSE g : Sums(a, s, g)
<1>1. \A s : Total(a, s) = F(s)[s]
  BY Zenon DEF Total, MapThenSumSet, MapThenFoldSet, Sums, Pick
<1>2. ASSUME NEW s \in SUBSET fs PROVE Sums(a, s, F(s))
  <2>1. IsFiniteSet(s)
    BY FS_Subset
  <2>2. \E g : Sums(a, s, g)
    BY <2>1, SumsExist
  <2> QED
    BY <2>2
<1>3. CASE fs = {}
  <2>1. Sums(a, fs, F(fs))
    BY <1>2
  <2>2. F(fs)[fs] = 0
    <3> HIDE DEF F
    <3> QED
      BY <2>1, <1>3 DEF Sums
  <2> HIDE DEF F
  <2> QED
    BY <1>1, <1>3, <2>2
<1>4. CASE fs # {}
  <2>1. Pick(fs) \in fs
    BY <1>4 DEF Pick
  <2> DEFINE rest == fs \ {Pick(fs)}
  <2>2. Sums(a, fs, F(fs)) /\ Sums(a, rest, F(rest)) /\ IsFiniteSet(rest)
    BY <1>2, FS_Subset
  <2>3. F(fs)[rest] = F(rest)[rest]
    <3>1. rest \subseteq fs /\ rest \subseteq rest
      OBVIOUS
    <3> HIDE DEF F, rest
    <3> QED
      BY <2>2, <3>1, SumsAgree
  <2>4. F(fs)[fs] = Size(a, Pick(fs)) + F(fs)[rest]
    <3> HIDE DEF F
    <3> QED
      BY <2>2, <1>4 DEF Sums, Size
  <2> QED
    BY <1>1, <1>4, <2>1, <2>3, <2>4
<1> QED
  BY <1>3, <1>4

\* A finite set of files whose sizes are numbers.
Sized(a, fs) == IsFiniteSet(fs) /\ \A f \in fs : Size(a, f) \in Nat

\* What is a part of such a set is such a set.
LEMMA SizedPart ==
    ASSUME NEW a, NEW fs, Sized(a, fs), NEW gs, gs \subseteq fs
    PROVE  Sized(a, gs) /\ Cardinality(gs) \in Nat /\ Cardinality(gs) <= Cardinality(fs)
BY FS_Subset, FS_CardinalityType DEF Sized

\* Claims about sized sets by induction on their number of elements: a set T of numbers
\* that has 0, and k with k - 1, has the number of elements of fs.
LEMMA BySize ==
    ASSUME NEW fs, IsFiniteSet(fs), NEW T, 0 \in T,
           \A k \in 1 .. Cardinality(fs) : k - 1 \in T => k \in T
    PROVE  Cardinality(fs) \in T
<1>1. Cardinality(fs) \in Nat
  BY FS_CardinalityType
<1>2. \A i \in 0 .. Cardinality(fs) : i \in T
  BY <1>1, UpTo
<1>3. Cardinality(fs) \in 0 .. Cardinality(fs)
  BY <1>1
<1> QED
  BY <1>2, <1>3

\* A sum is a number.
LEMMA TotalType ==
    ASSUME NEW a, NEW fs, Sized(a, fs)
    PROVE  Total(a, fs) \in Nat
<1> DEFINE n == Cardinality(fs)
           T == {k \in 0 .. n : \A s \in SUBSET fs : Cardinality(s) = k => Total(a, s) \in Nat}
<1>1. n \in Nat /\ IsFiniteSet(fs)
  BY FS_CardinalityType DEF Sized
<1>2. ASSUME NEW s \in SUBSET fs PROVE Sized(a, s) /\ IsFiniteSet(s)
  BY SizedPart DEF Sized
<1>3. 0 \in T
  <2>1. ASSUME NEW s \in SUBSET fs, Cardinality(s) = 0 PROVE Total(a, s) \in Nat
    <3>1. s = {} /\ IsFiniteSet(s)
      BY <1>2, <2>1, FS_EmptySet
    <3>2. Total(a, s) = 0
      BY <3>1, TotalNext
    <3> QED
      BY <3>2
  <2> QED
    BY <1>1, <2>1
<1>4. ASSUME NEW k \in 1 .. n, k - 1 \in T PROVE k \in T
  <2>1. ASSUME NEW s \in SUBSET fs, Cardinality(s) = k PROVE Total(a, s) \in Nat
    <3>1. s # {} /\ IsFiniteSet(s)
      BY <2>1, <1>1, <1>2, FS_EmptySet
    <3>2. Pick(s) \in s /\ Total(a, s) = Size(a, Pick(s)) + Total(a, s \ {Pick(s)})
      BY <3>1, TotalNext
    <3>3. s \ {Pick(s)} \in SUBSET fs /\ Cardinality(s \ {Pick(s)}) = k - 1
      BY <2>1, <3>1, <3>2, FS_RemoveElement
    <3>4. Total(a, s \ {Pick(s)}) \in Nat /\ Size(a, Pick(s)) \in Nat
      BY <3>2, <3>3, <1>4 DEF Sized
    <3> QED
      BY <3>2, <3>4
  <2> QED
    BY <2>1, <1>1
<1>5. n \in T
  <2> HIDE DEF T
  <2> QED
    BY <1>1, <1>3, <1>4, BySize
<1> QED
  BY <1>5

\* The order does not matter: any element can be taken first.
LEMMA TotalAny ==
    ASSUME NEW a, NEW fs, Sized(a, fs), NEW f \in fs
    PROVE  Total(a, fs) = Size(a, f) + Total(a, fs \ {f})
<1> DEFINE n == Cardinality(fs)
           T == {k \in 0 .. n : \A s \in SUBSET fs : Cardinality(s) = k =>
                    \A x \in s : Total(a, s) = Size(a, x) + Total(a, s \ {x})}
<1>1. n \in Nat /\ IsFiniteSet(fs)
  BY FS_CardinalityType DEF Sized
<1>2. ASSUME NEW s \in SUBSET fs PROVE Sized(a, s) /\ IsFiniteSet(s)
  BY SizedPart DEF Sized
<1>3. 0 \in T
  <2>1. \A s \in SUBSET fs : Cardinality(s) = 0 =>
            \A x \in s : Total(a, s) = Size(a, x) + Total(a, s \ {x})
    BY <1>2, FS_EmptySet
  <2> QED
    BY <1>1, <2>1
<1>4. ASSUME NEW k \in 1 .. n, k - 1 \in T PROVE k \in T
  <2>1. ASSUME NEW s \in SUBSET fs, Cardinality(s) = k, NEW x \in s
        PROVE  Total(a, s) = Size(a, x) + Total(a, s \ {x})
    <3> DEFINE p == Pick(s)
    <3>1. p \in s /\ Total(a, s) = Size(a, p) + Total(a, s \ {p}) /\ IsFiniteSet(s)
      BY <1>2, TotalNext
    <3>2. CASE x = p
      BY <3>1, <3>2
    <3>3. CASE x # p
      <4>1. s \ {p} \in SUBSET fs /\ Cardinality(s \ {p}) = k - 1
        BY <2>1, <3>1, FS_RemoveElement
      <4>2. s \ {x} \in SUBSET fs /\ Cardinality(s \ {x}) = k - 1
        BY <2>1, <3>1, FS_RemoveElement
      <4>3. Total(a, s \ {p}) = Size(a, x) + Total(a, (s \ {p}) \ {x})
        <5>1. x \in s \ {p}
          BY <3>3
        <5> HIDE DEF p
        <5> QED
          BY <4>1, <5>1, <1>4
      <4>4. Total(a, s \ {x}) = Size(a, p) + Total(a, (s \ {x}) \ {p})
        <5>1. p \in s \ {x}
          BY <3>1, <3>3
        <5> HIDE DEF p
        <5> QED
          BY <4>2, <5>1, <1>4
      <4>5. (s \ {p}) \ {x} = (s \ {x}) \ {p}
        OBVIOUS
      <4>6. Size(a, p) \in Nat /\ Size(a, x) \in Nat
        BY <3>1 DEF Sized
      <4>7. Total(a, (s \ {p}) \ {x}) \in Nat
        <5>1. Sized(a, (s \ {p}) \ {x})
          BY <1>2
        <5> QED
          BY <5>1, TotalType
      <4>8. \A b, c, d \in Nat : b + (c + d) = c + (b + d)
        OBVIOUS
      <4>9. Size(a, p) + (Size(a, x) + Total(a, (s \ {p}) \ {x}))
              = Size(a, x) + (Size(a, p) + Total(a, (s \ {p}) \ {x}))
        BY <4>6, <4>7, <4>8, Zenon
      <4> HIDE DEF p
      <4> QED
        BY <3>1, <4>3, <4>4, <4>5, <4>9, Zenon
    <3> QED
      BY <3>2, <3>3
  <2>2. \A s \in SUBSET fs : Cardinality(s) = k =>
            \A x \in s : Total(a, s) = Size(a, x) + Total(a, s \ {x})
    BY <2>1
  <2> QED
    BY <2>2, <1>1
<1>5. n \in T
  <2> HIDE DEF T
  <2> QED
    BY <1>1, <1>3, <1>4, BySize
<1> QED
  BY <1>5

\* The sum over two sets that have nothing in common.
LEMMA TotalUnion ==
    ASSUME NEW a, NEW fs, NEW gs, Sized(a, fs), Sized(a, gs), fs \cap gs = {}
    PROVE  /\ Sized(a, fs \cup gs)
           /\ Total(a, fs \cup gs) = Total(a, fs) + Total(a, gs)
<1> DEFINE n == Cardinality(gs)
           T == {k \in 0 .. n : \A s \in SUBSET gs : Cardinality(s) = k =>
                    Total(a, fs \cup s) = Total(a, fs) + Total(a, s)}
<1>1. n \in Nat /\ IsFiniteSet(gs)
  BY FS_CardinalityType DEF Sized
<1>2. ASSUME NEW s \in SUBSET gs
      PROVE  /\ Sized(a, s) /\ IsFiniteSet(s) /\ Sized(a, fs \cup s)
             /\ Total(a, fs) \in Nat /\ Total(a, s) \in Nat
  <2>1. Sized(a, s)
    BY SizedPart
  <2>2. Sized(a, fs \cup s)
    BY <2>1, FS_Union DEF Sized
  <2> QED
    BY <2>1, <2>2, TotalType DEF Sized
<1>3. 0 \in T
  <2>1. ASSUME NEW s \in SUBSET gs, Cardinality(s) = 0
        PROVE  Total(a, fs \cup s) = Total(a, fs) + Total(a, s)
    <3>1. s = {} /\ fs \cup s = fs
      BY <1>2, <2>1, FS_EmptySet
    <3>2. Total(a, s) = 0
      BY <3>1, <1>2, TotalNext
    <3>3. Total(a, fs) + 0 = Total(a, fs)
      <4>1. Total(a, fs) \in Nat
        BY TotalType
      <4> QED
        BY <4>1
    <3> QED
      BY <3>1, <3>2, <3>3, Zenon
  <2> QED
    BY <1>1, <2>1
<1>4. ASSUME NEW k \in 1 .. n, k - 1 \in T PROVE k \in T
  <2>1. ASSUME NEW s \in SUBSET gs, Cardinality(s) = k
        PROVE  Total(a, fs \cup s) = Total(a, fs) + Total(a, s)
    <3>1. PICK x \in s : TRUE
      BY <2>1, <1>1, FS_EmptySet
    <3>2. s \ {x} \in SUBSET gs /\ Cardinality(s \ {x}) = k - 1
      BY <2>1, <3>1, <1>2, FS_RemoveElement
    <3>3. Total(a, s) = Size(a, x) + Total(a, s \ {x})
      <4>1. Sized(a, s) /\ x \in s
        BY <1>2, <3>1
      <4> QED
        BY <4>1, TotalAny
    <3>4. Total(a, fs \cup s) = Size(a, x) + Total(a, (fs \cup s) \ {x})
      <4>1. Sized(a, fs \cup s) /\ x \in fs \cup s
        BY <1>2, <3>1
      <4> QED
        BY <4>1, TotalAny
    <3>5. (fs \cup s) \ {x} = fs \cup (s \ {x})
      BY <3>1
    <3>6. Total(a, fs \cup (s \ {x})) = Total(a, fs) + Total(a, s \ {x})
      BY <3>2, <1>4
    <3>7. Size(a, x) \in Nat
      BY <3>1 DEF Sized
    <3>8. Total(a, s \ {x}) \in Nat /\ Total(a, fs) \in Nat
      BY <3>2, <1>2
    <3>9. \A b, c, d \in Nat : b + (c + d) = c + (b + d)
      OBVIOUS
    <3>10. Size(a, x) + (Total(a, fs) + Total(a, s \ {x}))
             = Total(a, fs) + (Size(a, x) + Total(a, s \ {x}))
      BY <3>7, <3>8, <3>9, Zenon
    <3> QED
      BY <3>3, <3>4, <3>5, <3>6, <3>10, Zenon
  <2> QED
    BY <2>1, <1>1
<1>5. n \in T
  <2> HIDE DEF T
  <2> QED
    BY <1>1, <1>3, <1>4, BySize
<1> QED
  BY <1>2, <1>5

\* The sum over a part, and over what is left.
LEMMA TotalPart ==
    ASSUME NEW a, NEW fs, Sized(a, fs), NEW gs, gs \subseteq fs
    PROVE  /\ Total(a, gs) \in Nat /\ Total(a, fs \ gs) \in Nat /\ Total(a, fs) \in Nat
           /\ Total(a, fs) = Total(a, gs) + Total(a, fs \ gs)
<1>1. Sized(a, gs) /\ Sized(a, fs \ gs)
  BY SizedPart
<1>2. gs \cap (fs \ gs) = {} /\ gs \cup (fs \ gs) = fs
  OBVIOUS
<1>3. Total(a, gs \cup (fs \ gs)) = Total(a, gs) + Total(a, fs \ gs)
  BY <1>1, <1>2, TotalUnion
<1> QED
  BY <1>1, <1>2, <1>3, TotalType

-----------------------------------------------------------------------------
(* The tree of directories                                                 *)

\* The root of a directory is that of the one above it.
LEMMA RootIs ==
    \A d \in Dir : Root[d] = IF Parent[d] = None THEN d ELSE Root[Parent[d]]
<1> DEFINE Up(g, d) == IF Parent[d] = None THEN d ELSE g[Parent[d]]
           n == Cardinality(Dir)
<1>1. n \in Nat
  BY FS_CardinalityType, GCAssumption
<1>2. PICK depth \in [Dir -> 0 .. n] : \A d \in Dir : Parent[d] # None => depth[Parent[d]] < depth[d]
  BY TreeAssumption
<1>3. \A d \in Dir : Parent[d] # None => Parent[d] \in Dir
  BY GCAssumption
<1> DEFINE T == {k \in 0 .. n : \E g : \A d \in Dir : depth[d] <= k => g[d] = Up(g, d)}
<1>4. \A d \in Dir : depth[d] \in 0 .. n
  BY <1>2
<1>5. 0 \in T
  <2> DEFINE g == [d \in Dir |-> d]
  <2>1. \A d \in Dir : depth[d] <= 0 => Parent[d] = None
    BY <1>2, <1>3, <1>4, <1>1
  <2>2. \A d \in Dir : depth[d] <= 0 => g[d] = Up(g, d)
    BY <2>1
  <2>3. 0 \in 0 .. n
    BY <1>1
  <2> HIDE DEF g, Up, n
  <2> QED
    BY <2>2, <2>3
<1>6. ASSUME NEW k \in 1 .. n, k - 1 \in T PROVE k \in T
  <2>1. PICK g : \A d \in Dir : depth[d] <= k - 1 => g[d] = Up(g, d)
    BY <1>6
  <2> DEFINE h == [d \in Dir |-> Up(g, d)]
  <2>2. ASSUME NEW d \in Dir, depth[d] <= k PROVE h[d] = Up(h, d)
    <3>1. CASE Parent[d] = None
      BY <3>1
    <3>2. CASE Parent[d] # None
      <4>1. Parent[d] \in Dir /\ depth[Parent[d]] <= k - 1
        BY <3>2, <2>2, <1>1, <1>2, <1>3, <1>4
      <4>2. h[Parent[d]] = g[Parent[d]]
        BY <4>1, <2>1
      <4> QED
        BY <3>2, <4>2
    <3> QED
      BY <3>1, <3>2
  <2>3. \A d \in Dir : depth[d] <= k => h[d] = Up(h, d)
    BY <2>2
  <2>4. k \in 0 .. n
    BY <1>1
  <2> HIDE DEF h, Up, n
  <2> QED
    BY <2>3, <2>4
<1>7. n \in T
  <2>1. n \in 0 .. n
    BY <1>1
  <2> HIDE DEF T, n
  <2> QED
    BY <1>1, <1>5, <1>6, <2>1, UpTo
<1>8. PICK g : \A d \in Dir : depth[d] <= n => g[d] = Up(g, d)
  BY <1>7
<1> DEFINE h == [d \in Dir |-> g[d]]
<1>9. \A d \in Dir : h[d] = Up(h, d)
  <2> TAKE d \in Dir
  <2>1. depth[d] <= n
    BY <1>1, <1>4
  <2>2. g[d] = Up(g, d)
    BY <1>8, <2>1
  <2> QED
    BY <2>2, <1>3
<1>10. h = [d \in Dir |-> Up(h, d)]
  <2> HIDE DEF Up
  <2> QED
    BY <1>9
<1>11. h = [d \in Dir |-> IF Parent[d] = None THEN d ELSE h[Parent[d]]]
  BY <1>10
<1>12. \E f : f = [d \in Dir |-> IF Parent[d] = None THEN d ELSE f[Parent[d]]]
  <2> HIDE DEF h
  <2> QED
    BY <1>11
<1>13. Root = [d \in Dir |-> IF Parent[d] = None THEN d ELSE Root[Parent[d]]]
  BY <1>12 DEF Root
<1> QED
  BY <1>13

-----------------------------------------------------------------------------
(* The table of values                                                     *)

\* A value has an entry of the table, and those whose entry is below the n-th are those
\* below the threshold that begins there.
LEMMA IndexBelow ==
    ASSUME NEW v \in Nat, 2 * v < 11 * TABLE_SIZE
    PROVE  /\ make_ind(v) \in 0 .. TABLE_SIZE - 1
           /\ \A n \in 1 .. TABLE_SIZE : make_ind(v) < n <=> v < ThresholdAt(n)
<1>1. PICK k \in Nat : TABLE_SIZE = 20 * k /\ k > 0
  <2>1. TABLE_SIZE = 20 * (TABLE_SIZE \div 20) /\ TABLE_SIZE \div 20 \in Nat
    BY TableAssumption
  <2> QED
    BY <2>1, TableAssumption
<1>2. TABLE_SIZE \div 2 = 10 * k /\ (9 * TABLE_SIZE) \div 20 = 9 * k /\ v < 110 * k
  BY <1>1
<1>3. CASE v < 10 * k
  <2>1. make_ind(v) = v
    BY <1>1, <1>2, <1>3 DEF make_ind
  <2>2. \A n \in 1 .. TABLE_SIZE : v < n <=> v < ThresholdAt(n)
    BY <1>1, <1>2, <1>3 DEF ThresholdAt
  <2> QED
    BY <1>1, <1>3, <2>1, <2>2
<1>4. CASE ~ (v < 10 * k)
  <2>1. PICK q \in Nat : q = (v - 10 * k) \div 10
    BY <1>1, <1>4
  <2>2. 10 * q <= v - 10 * k /\ v - 10 * k < 10 * q + 10 /\ q < 10 * k
    BY <2>1, <1>1, <1>2, <1>4
  <2>3. make_ind(v) = q + 10 * k
    BY <1>1, <1>2, <1>4, <2>1, <2>2 DEF make_ind
  <2>4. \A n \in 1 .. TABLE_SIZE : q + 10 * k < n <=> v < ThresholdAt(n)
    BY <1>1, <1>2, <1>4, <2>2 DEF ThresholdAt
  <2> QED
    BY <1>1, <2>2, <2>3, <2>4
<1> QED
  BY <1>3, <1>4

\* Files with the attributes that files may have.
AttributesType == attributes \in [File -> Attributes]

\* What a file is worth has an entry of the table.
LEMMA EvalType ==
    ASSUME AttributesType, NEW d, NEW f \in File
    PROVE  eval(d, f) \in Nat /\ 2 * eval(d, f) < 11 * TABLE_SIZE
BY TableAssumption DEF eval, AttributesType

\* Any set of files can be summed up.
LEMMA SizedFiles ==
    ASSUME AttributesType, NEW fs, fs \subseteq File
    PROVE  Sized(attributes, fs) /\ Bytes(fs) = Total(attributes, fs) /\ Bytes(fs) \in Nat
<1>1. Sized(attributes, fs)
  BY FS_Subset, GCAssumption, TableAssumption DEF Sized, Size, AttributesType
<1>2. Bytes(fs) = Total(attributes, fs)
  BY Zenon DEF Bytes, Total, MapThenSumSet, MapThenFoldSet
<1> QED
  BY <1>1, <1>2, TotalType

\* The files whose entry is below the n-th.
Below(d, fs, n) == {f \in fs : make_ind(eval(d, f)) < n}

\* What find_threshold() promises: the files below the threshold are those below an entry,
\* they have enough bytes, and those below the entry before it have not.
LEMMA ThresholdFound ==
    ASSUME AttributesType, NEW d, NEW fs, fs \subseteq File,
           NEW must \in Nat, must <= Bytes(fs)
    PROVE  \E n \in 1 .. TABLE_SIZE :
              /\ {f \in fs : eval(d, f) < find_threshold(must, d, fs)} = Below(d, fs, n)
              /\ Bytes(Below(d, fs, n)) >= must
              /\ n > 1 => Bytes(Below(d, fs, n - 1)) < must
<1> DEFINE enough == {n \in 1 .. TABLE_SIZE : Bytes(Below(d, fs, n)) >= must}
<1>1. TABLE_SIZE \in Nat /\ TABLE_SIZE \in 1 .. TABLE_SIZE
  BY TableAssumption
<1>2. \A f \in fs : /\ make_ind(eval(d, f)) \in 0 .. TABLE_SIZE - 1
                    /\ \A n \in 1 .. TABLE_SIZE :
                          make_ind(eval(d, f)) < n <=> eval(d, f) < ThresholdAt(n)
  BY EvalType, IndexBelow
<1>3. Below(d, fs, TABLE_SIZE) = fs
  BY <1>1, <1>2 DEF Below
<1>4. TABLE_SIZE \in enough
  BY <1>1, <1>3, SizedFiles
<1>5. enough \subseteq Nat
  OBVIOUS
<1>6. PICK n \in enough : \A k \in enough : n <= k
  <2> HIDE DEF enough
  <2> QED
    BY <1>4, <1>5, LeastNatural
<1>7. Min(enough) = n
  <2>1. Min(enough) \in enough /\ \A k \in enough : Min(enough) <= k
    <3> HIDE DEF enough
    <3> QED
      BY <1>6 DEF Min
  <2> QED
    BY <2>1, <1>5, <1>6
<1>8. find_threshold(must, d, fs) = ThresholdAt(n)
  <2>1. find_threshold(must, d, fs) = ThresholdAt(IF enough = {} THEN TABLE_SIZE ELSE Min(enough))
    BY DEF find_threshold, Below
  <2> HIDE DEF enough
  <2> QED
    BY <1>4, <1>7, <2>1
<1>9. n \in 1 .. TABLE_SIZE /\ Bytes(Below(d, fs, n)) >= must
  BY <1>6
<1>10. {f \in fs : eval(d, f) < ThresholdAt(n)} = Below(d, fs, n)
  BY <1>2, <1>9 DEF Below
<1>11. ASSUME n > 1 PROVE Bytes(Below(d, fs, n - 1)) < must
  <2>1. n - 1 \in 1 .. TABLE_SIZE /\ ~ (n <= n - 1)
    BY <1>1, <1>9, <1>11
  <2>2. n - 1 \notin enough
    <3> HIDE DEF enough
    <3> QED
      BY <2>1, <1>6
  <2>3. ~ (Bytes(Below(d, fs, n - 1)) >= must)
    BY <2>1, <2>2
  <2>4. Bytes(Below(d, fs, n - 1)) \in Nat
    <3>1. Below(d, fs, n - 1) \subseteq File
      BY DEF Below
    <3> QED
      BY <3>1, SizedFiles
  <2> QED
    BY <2>3, <2>4
<1> QED
  BY <1>8, <1>9, <1>10, <1>11

-----------------------------------------------------------------------------
(* The invariant of the walk                                               *)

\* The files in the directories that were read; those that are still in memory, for a
\* directory above; and those that a collection has dealt with.
Read == {f \in File : Place[f] \in readDirs}
Waiting == UNION {memory[e] : e \in {e \in Dir : Parent[e] \notin readDirs}}
Settled == Read \ Waiting

\* The walk is bottom up.
BottomUp == \A d \in readDirs : Children(d) \subseteq readDirs

\* What a directory keeps in memory is its own, from below its root; a root keeps nothing.
MemoryInv ==
    /\ \A d \in Dir : memory[d] # {} => d \in readDirs /\ Parent[d] # None
    /\ \A d \in Dir : \A f \in memory[d] : f \in Read /\ Root[Place[f]] = Root[d]
    /\ \A d, e \in Dir : d # e /\ Parent[d] \notin readDirs /\ Parent[e] \notin readDirs
                            => memory[d] \cap memory[e] = {}

\* What no collection has dealt with is on disk; of the others, those on disk have entries
\* in .cache_info and have not expired.
DiskInv ==
    /\ File \ Settled \subseteq files
    /\ infos \subseteq files /\ Settled \cap files \subseteq infos
    /\ \A f \in Settled \cap files :
          attributes[f].expired => keep_expired /\ Root[Place[f]] = Http

\* The totals are right, and enough was collected of what was dealt with, but for the
\* rounding of each collection.
TotalsInv ==
    /\ bytes_total = Total(attributes, Read)
    /\ bytes_collected + Total(attributes, files) = Total(attributes, File)
    /\ MaxK > 0 => (10 * usage - 9 * MaxK) * Total(attributes, Settled)
                      <= 10 * usage * (bytes_collected + collections)

WalkInv == TypeOK /\ BottomUp /\ MemoryInv /\ DiskInv /\ TotalsInv

\* The walk begins with nothing read, and everything on disk.
LEMMA WalkInit == Init => WalkInv
<1> SUFFICES ASSUME Init PROVE WalkInv
  OBVIOUS
<1>1. Read = {} /\ Settled = {} /\ files = File
  BY GCAssumption DEF Init, Read, Settled
<1>2. TypeOK /\ BottomUp
  BY GCAssumption DEF Init, TypeOK, BottomUp
<1>3. MemoryInv
  BY DEF Init, MemoryInv
<1>4. DiskInv
  BY <1>1 DEF Init, DiskInv
<1>5. TotalsInv
  <2>1. IsFiniteSet({})
    BY FS_EmptySet
  <2>2. Total(attributes, {}) = 0
    BY <2>1, TotalNext
  <2>3. Total(attributes, File) \in Nat
    BY SizedFiles, TotalType DEF Init, AttributesType
  <2>4. usage \in Nat /\ MaxK \in Nat /\ bytes_total = 0 /\ bytes_collected = 0 /\ collections = 0
    BY GCAssumption DEF Init
  <2>5. 0 + Total(attributes, File) = Total(attributes, File)
    BY <2>3
  <2>6. (10 * usage - 9 * MaxK) * 0 <= 10 * usage * (0 + 0)
    BY <2>4
  <2> QED
    BY <1>1, <2>2, <2>4, <2>5, <2>6, Zenon DEF TotalsInv
<1> QED
  BY <1>2, <1>3, <1>4, <1>5 DEF WalkInv

\* What gc_read_dir() has of a tree when its directory was read: files on disk that no
\* collection has dealt with, all below one root.
LEMMA TreeInMemory ==
    ASSUME WalkInv, NEW d \in Dir, ReadDir(d)
    PROVE  /\ InMemory(d) \subseteq File \cap files /\ InMemory(d) \cap Settled = {}
           /\ FilesOf(d) \cap Read = {} /\ Read' = Read \cup FilesOf(d)
           /\ \A f \in InMemory(d) : f \in Read' /\ Root[Place[f]] = Root[d]
           /\ d \notin readDirs /\ readDirs' = readDirs \cup {d}
           /\ \A e \in Children(d) : e # d /\ e \in readDirs
           /\ Parent[d] \notin readDirs'
<1>1. /\ d \notin readDirs /\ readDirs' = readDirs \cup {d} /\ readDirs \subseteq Dir
      /\ Children(d) \subseteq readDirs
  BY DEF ReadDir, WalkInv, TypeOK
<1>2. memory \in [Dir -> SUBSET File] /\ Place \in [File -> Dir] /\ None \notin Dir
  BY GCAssumption DEF WalkInv, TypeOK
<1>3. Read' = Read \cup FilesOf(d) /\ FilesOf(d) \cap Read = {}
  BY <1>1 DEF Read, FilesOf
<1>4. \A e \in Children(d) : e \in Dir /\ Parent[e] = d /\ e # d /\ memory[e] \subseteq Waiting
  BY <1>1 DEF Children, Waiting
<1>5. \A f \in InMemory(d) : f \in FilesOf(d) \/ \E e \in Children(d) : f \in memory[e]
  BY DEF InMemory
<1>6. \A f \in InMemory(d) : f \in File /\ f \notin Settled
  BY <1>2, <1>3, <1>4, <1>5 DEF FilesOf, Settled
<1>7. InMemory(d) \subseteq files
  BY <1>6 DEF WalkInv, DiskInv
<1>8. ASSUME NEW f \in InMemory(d) PROVE f \in Read' /\ Root[Place[f]] = Root[d]
  <2>1. CASE f \in FilesOf(d)
    BY <1>3, <2>1 DEF FilesOf
  <2>2. ASSUME NEW e \in Children(d), f \in memory[e] PROVE f \in Read' /\ Root[Place[f]] = Root[d]
    <3>1. f \in Read /\ Root[Place[f]] = Root[e]
      BY <1>4, <2>2 DEF WalkInv, MemoryInv
    <3>2. Root[e] = Root[d]
      BY <1>2, <1>4, RootIs
    <3> QED
      BY <1>3, <3>1, <3>2
  <2> QED
    BY <1>5, <2>1, <2>2
<1>9. Parent[d] \notin readDirs /\ Parent[d] # d
  <2>1. Parent[d] \in readDirs => d \in Children(Parent[d]) /\ Children(Parent[d]) \subseteq readDirs
    BY DEF WalkInv, BottomUp, Children
  <2>2. Parent[d] = d => d \in Children(d)
    BY DEF Children
  <2> QED
    BY <1>1, <2>1, <2>2
<1> QED
  BY <1>1, <1>3, <1>4, <1>6, <1>7, <1>8, <1>9

\* A tree that is left to the caller: it is now the memory of its directory.
LEMMA TreeLeft ==
    ASSUME WalkInv, NEW d \in Dir, ReadDir(d), Parent[d] # None,
           memory' = [memory EXCEPT ![d] = InMemory(d)]
    PROVE  MemoryInv' /\ BottomUp' /\ Settled' = Settled /\ memory' \in [Dir -> SUBSET File]
<1>1. memory \in [Dir -> SUBSET File] /\ readDirs \subseteq Dir /\ None \notin Dir
  BY GCAssumption DEF WalkInv, TypeOK
<1>2. memory'[d] = InMemory(d) /\ \A e \in Dir : e # d => memory'[e] = memory[e]
  BY <1>1
<1>3. memory' \in [Dir -> SUBSET File]
  BY <1>1, TreeInMemory
<1>4. BottomUp'
  BY TreeInMemory DEF WalkInv, BottomUp
<1>5. \A e \in Dir : Parent[e] \notin readDirs' <=> Parent[e] \notin readDirs /\ e \notin Children(d)
  BY TreeInMemory DEF Children
<1>6. \A f \in InMemory(d) : f \in FilesOf(d) \/ \E e \in Children(d) : f \in memory[e]
  BY DEF InMemory
<1>7. MemoryInv'
  <2>1. ASSUME NEW e \in Dir, memory'[e] # {} PROVE e \in readDirs' /\ Parent[e] # None
    BY <1>2, <2>1, TreeInMemory DEF WalkInv, MemoryInv
  <2>2. ASSUME NEW e \in Dir, NEW f \in memory'[e] PROVE f \in Read' /\ Root[Place[f]] = Root[e]
    BY <1>2, <2>2, TreeInMemory DEF WalkInv, MemoryInv
  <2>3. ASSUME NEW e \in Dir, e # d, Parent[e] \notin readDirs' PROVE memory[e] \cap InMemory(d) = {}
    <3>1. Parent[e] \notin readDirs /\ e \notin Children(d)
      BY <1>5, <2>3
    <3>2. memory[e] \cap FilesOf(d) = {}
      BY TreeInMemory DEF WalkInv, MemoryInv
    <3>3. \A c \in Children(d) : memory[e] \cap memory[c] = {}
      <4> TAKE c \in Children(d)
      <4>1. c \in Dir /\ Parent[c] \notin readDirs /\ c # e
        BY <3>1, TreeInMemory DEF Children
      <4> QED
        BY <3>1, <4>1 DEF WalkInv, MemoryInv
    <3> QED
      BY <1>6, <3>2, <3>3
  <2>4. ASSUME NEW e \in Dir, NEW c \in Dir, e # c, Parent[e] \notin readDirs', Parent[c] \notin readDirs'
        PROVE  memory'[e] \cap memory'[c] = {}
    <3>1. CASE e = d
      BY <1>2, <2>3, <2>4, <3>1
    <3>2. CASE c = d
      BY <1>2, <2>3, <2>4, <3>2
    <3>3. CASE e # d /\ c # d
      BY <1>2, <1>5, <2>4, <3>3 DEF WalkInv, MemoryInv
    <3> QED
      BY <3>1, <3>2, <3>3
  <2> QED
    BY <2>1, <2>2, <2>4 DEF MemoryInv
<1>8. \A f : f \in Waiting <=> \E e \in Dir : Parent[e] \notin readDirs /\ f \in memory[e]
  BY DEF Waiting
<1>9. \A f : f \in Waiting' <=> \E e \in Dir : Parent[e] \notin readDirs' /\ f \in memory'[e]
  BY DEF Waiting
<1>10. memory[d] = {}
  BY TreeInMemory DEF WalkInv, MemoryInv
<1>11. ASSUME NEW f PROVE f \in Waiting' <=> f \in Waiting \/ f \in FilesOf(d)
  <2>1. ASSUME f \in Waiting' PROVE f \in Waiting \/ f \in FilesOf(d)
    <3>1. PICK e \in Dir : Parent[e] \notin readDirs' /\ f \in memory'[e]
      BY <1>9, <2>1
    <3>2. CASE e = d
      <4>1. f \in FilesOf(d) \/ \E c \in Children(d) : f \in memory[c]
        BY <1>2, <1>6, <3>1, <3>2
      <4>2. \A c \in Children(d) : c \in Dir /\ Parent[c] \notin readDirs
        BY TreeInMemory DEF Children
      <4> QED
        BY <1>8, <4>1, <4>2
    <3>3. CASE e # d
      BY <1>2, <1>5, <1>8, <3>1, <3>3
    <3> QED
      BY <3>2, <3>3
  <2>2. ASSUME f \in Waiting PROVE f \in Waiting'
    <3>1. PICK e \in Dir : Parent[e] \notin readDirs /\ f \in memory[e]
      BY <1>8, <2>2
    <3>2. CASE e \in Children(d)
      <4>1. f \in memory'[d] /\ Parent[d] \notin readDirs'
        BY <1>2, <3>1, <3>2, TreeInMemory DEF InMemory
      <4> QED
        BY <1>9, <4>1
    <3>3. CASE e \notin Children(d)
      <4>1. e # d /\ Parent[e] \notin readDirs' /\ f \in memory'[e]
        BY <1>2, <1>5, <1>10, <3>1, <3>3
      <4> QED
        BY <1>9, <4>1
    <3> QED
      BY <3>2, <3>3
  <2>3. f \in FilesOf(d) => f \in memory'[d] /\ Parent[d] \notin readDirs'
    BY <1>2, TreeInMemory DEF InMemory
  <2> QED
    BY <1>9, <2>1, <2>2, <2>3
<1>12. Settled' = Settled
  <2>1. Settled' = Read' \ Waiting' /\ Settled = Read \ Waiting
    BY DEF Settled
  <2>2. Read' = Read \cup FilesOf(d) /\ FilesOf(d) \cap Read = {}
    BY TreeInMemory
  <2> QED
    BY <1>11, <2>1, <2>2
<1> QED
  BY <1>3, <1>4, <1>7, <1>12

\* A tree that is collected: its files have been dealt with, and no others.
LEMMA TreeCollected ==
    ASSUME WalkInv, NEW d \in Dir, ReadDir(d), memory' = memory
    PROVE  MemoryInv' /\ BottomUp' /\ Settled' = Settled \cup InMemory(d)
<1>1. memory \in [Dir -> SUBSET File] /\ readDirs \subseteq Dir /\ None \notin Dir
  BY GCAssumption DEF WalkInv, TypeOK
<1>2. BottomUp'
  BY TreeInMemory DEF WalkInv, BottomUp
<1>3. \A e \in Dir : Parent[e] \notin readDirs' <=> Parent[e] \notin readDirs /\ e \notin Children(d)
  BY TreeInMemory DEF Children
<1>4. \A f : f \in InMemory(d) <=> f \in FilesOf(d) \/ \E e \in Children(d) : f \in memory[e]
  BY DEF InMemory
<1>5. MemoryInv'
  <2>1. \A e \in Dir : memory'[e] # {} => e \in readDirs' /\ Parent[e] # None
    BY TreeInMemory DEF WalkInv, MemoryInv
  <2>2. \A e \in Dir : \A f \in memory'[e] : f \in Read' /\ Root[Place[f]] = Root[e]
    BY TreeInMemory DEF WalkInv, MemoryInv
  <2>3. \A c, e \in Dir : c # e /\ Parent[c] \notin readDirs' /\ Parent[e] \notin readDirs'
                              => memory'[c] \cap memory'[e] = {}
    BY <1>3 DEF WalkInv, MemoryInv
  <2> QED
    BY <2>1, <2>2, <2>3 DEF MemoryInv
<1>6. \A f : f \in Waiting <=> \E e \in Dir : Parent[e] \notin readDirs /\ f \in memory[e]
  BY DEF Waiting
<1>7. \A f : f \in Waiting' <=> \E e \in Dir : Parent[e] \notin readDirs' /\ f \in memory[e]
  BY DEF Waiting
<1>8. ASSUME NEW f, f \in Waiting' PROVE f \in Waiting /\ f \notin InMemory(d)
  <2>1. PICK e \in Dir : Parent[e] \notin readDirs' /\ f \in memory[e]
    BY <1>7, <1>8
  <2>2. Parent[e] \notin readDirs /\ e \notin Children(d)
    BY <1>3, <2>1
  <2>3. f \notin FilesOf(d)
    BY <2>1, TreeInMemory DEF WalkInv, MemoryInv
  <2>4. ASSUME NEW c \in Children(d) PROVE f \notin memory[c]
    <3>1. c \in Dir /\ Parent[c] \notin readDirs /\ c # e
      BY <2>2, TreeInMemory DEF Children
    <3> QED
      BY <2>1, <2>2, <3>1 DEF WalkInv, MemoryInv
  <2> QED
    BY <1>4, <1>6, <2>1, <2>2, <2>3, <2>4
<1>9. ASSUME NEW f, f \in Waiting, f \notin InMemory(d) PROVE f \in Waiting'
  <2>1. PICK e \in Dir : Parent[e] \notin readDirs /\ f \in memory[e]
    BY <1>6, <1>9
  <2>2. e \notin Children(d)
    BY <1>4, <1>9, <2>1
  <2> QED
    BY <1>3, <1>7, <2>1, <2>2
<1>10. Settled' = Settled \cup InMemory(d)
  <2>1. Settled' = Read' \ Waiting' /\ Settled = Read \ Waiting
    BY DEF Settled
  <2>2. /\ Read' = Read \cup FilesOf(d) /\ FilesOf(d) \cap Read = {}
        /\ InMemory(d) \subseteq Read' /\ FilesOf(d) \subseteq InMemory(d)
    BY <1>4, TreeInMemory
  <2>3. Waiting' = Waiting \ InMemory(d)
    BY <1>8, <1>9
  <2> QED
    BY <2>1, <2>2, <2>3, TreeInMemory
<1> QED
  BY <1>2, <1>5, <1>10

-----------------------------------------------------------------------------
(* What a collection removes                                               *)

\* Products keep an order.
LEMMA TimesMonotone ==
    ASSUME NEW y \in Nat, NEW b \in Int, NEW c \in Int, b <= c
    PROVE  y * b <= y * c
OBVIOUS

\* A part x of y, of B bytes, in integers.
LEMMA Fraction ==
    ASSUME NEW x \in Nat, NEW y \in Nat, NEW B \in Nat, y > 0, x <= y
    PROVE  LET q == (x * B) \div y IN
           q \in Nat /\ q <= B /\ x * B <= y * (q + 1)
<1> DEFINE p == x * B
           q == p \div y
<1>1. p \in Nat
  OBVIOUS
<1>2. q \in Nat /\ y * q <= p /\ p <= y * q + y
  <2> HIDE DEF p
  <2> QED
    BY <1>1
<1>3. p <= y * B
  OBVIOUS
<1>4. q <= B
  <2>1. SUFFICES ASSUME B + 1 <= q PROVE FALSE
    BY <1>2
  <2> HIDE DEF p, q
  <2>2. y * (B + 1) <= y * q
    BY <1>2, <2>1, TimesMonotone
  <2>3. y * (B + 1) = y * B + y /\ y * B \in Nat /\ y * q \in Nat
    BY <1>2
  <2> QED
    BY <1>1, <1>2, <1>3, <2>2, <2>3
<1>5. y * (q + 1) = y * q + y
  <2> HIDE DEF q
  <2> QED
    BY <1>2
<1> QED
  BY <1>2, <1>4, <1>5

\* The bytes to collect of what is in memory, and what they are enough for.
LEMMA MustCollectIs ==
    ASSUME AttributesType, usage \in Nat, NEW fs, fs \subseteq File
    PROVE  /\ MustCollect(fs) \in Nat /\ MustCollect(fs) <= Bytes(fs)
           /\ MaxK > 0 => (10 * usage - 9 * MaxK) * Bytes(fs) <= 10 * usage * (MustCollect(fs) + 1)
<1> DEFINE B == Bytes(fs)
           x == 10 * usage - 9 * MaxK
           y == 10 * usage
<1>1. B \in Nat
  BY SizedFiles
<1>2. MaxK \in Nat
  BY GCAssumption
<1>3. CASE MaxK = 0 \/ usage = 0 \/ 10 * usage < 9 * MaxK
  <2>1. MustCollect(fs) = 0
    BY <1>3 DEF MustCollect
  <2>2. MaxK > 0 => x <= 0 /\ x \in Int
    BY <1>2, <1>3
  <2>3. MaxK > 0 => x * B <= 0
    <3> HIDE DEF x, B
    <3> QED
      BY <1>1, <2>2
  <2>4. y * (0 + 1) \in Nat
    OBVIOUS
  <2>5. MaxK > 0 => x * B <= y * (0 + 1)
    <3>1. MaxK > 0 => x * B \in Int
      <4> HIDE DEF x, B
      <4> QED
        BY <1>1, <2>2
    <3> HIDE DEF x, B, y
    <3> QED
      BY <2>3, <2>4, <3>1
  <2>6. 0 \in Nat /\ 0 <= B
    BY <1>1
  <2> QED
    BY <2>1, <2>5, <2>6, Zenon
<1>4. CASE ~ (MaxK = 0 \/ usage = 0 \/ 10 * usage < 9 * MaxK)
  <2>1. MustCollect(fs) = (x * B) \div y
    BY <1>4 DEF MustCollect
  <2>2. x \in Nat /\ y \in Nat /\ y > 0 /\ x <= y
    BY <1>2, <1>4
  <2> HIDE DEF B, x, y
  <2>3. (x * B) \div y \in Nat /\ (x * B) \div y <= B /\ x * B <= y * (((x * B) \div y) + 1)
    BY <1>1, <2>2, Fraction
  <2> QED
    BY <2>1, <2>3 DEF B, x, y
<1> QED
  BY <1>3, <1>4

\* The files that a collection of a directory removes of those in memory.
Victims(d, fs) == {f \in fs : eval(Root[d], f) < find_threshold(MustCollect(fs), Root[d], fs)}

\* They are those below an entry of the table that has enough, where the one before it has
\* too little.
LEMMA VictimsAre ==
    ASSUME WalkInv, NEW d, NEW fs, fs \subseteq File
    PROVE  \E n \in 1 .. TABLE_SIZE :
              /\ Victims(d, fs) = Below(Root[d], fs, n)
              /\ Bytes(Victims(d, fs)) >= MustCollect(fs)
              /\ n > 1 => Bytes(Below(Root[d], fs, n - 1)) < MustCollect(fs)
<1>1. AttributesType /\ usage \in Nat
  BY GCAssumption DEF WalkInv, TypeOK, AttributesType
<1>2. MustCollect(fs) \in Nat /\ MustCollect(fs) <= Bytes(fs)
  BY <1>1, MustCollectIs
<1> QED
  BY <1>1, <1>2, ThresholdFound DEF Victims

\* A file that has expired is worth nothing, and what is worth nothing is removed.
LEMMA ExpiredAreVictims ==
    ASSUME WalkInv, NEW d, NEW fs, fs \subseteq File, NEW f \in fs, Expired(Root[d], f)
    PROVE  f \in Victims(d, fs)
<1>1. PICK n \in 1 .. TABLE_SIZE : Victims(d, fs) = Below(Root[d], fs, n)
  BY VictimsAre
<1>2. eval(Root[d], f) = 0
  BY DEF eval
<1>3. TABLE_SIZE \in Nat /\ TABLE_SIZE > 0
  BY TableAssumption
<1>4. TABLE_SIZE \div 2 > 0
  BY TableAssumption
<1>5. make_ind(0) = 0
  BY <1>3, <1>4 DEF make_ind
<1> QED
  BY <1>1, <1>2, <1>3, <1>5 DEF Below

\* Where the account of what was dealt with and collected holds, a collection of B bytes
\* keeps it.
LEMMA AccountKept ==
    ASSUME NEW x \in Int, NEW y \in Nat, NEW S \in Nat, NEW C \in Nat, NEW c \in Nat,
           NEW B \in Nat, NEW must \in Nat, NEW v \in Nat,
           x * S <= y * (C + c), x * B <= y * (must + 1), must <= v
    PROVE  x * (S + B) <= y * ((C + v) + (c + 1))
<1>1. y * (must + 1) <= y * (v + 1)
  BY TimesMonotone
<1>2. x * (S + B) = x * S + x * B
  OBVIOUS
<1>3. y * ((C + v) + (c + 1)) = y * (C + c) + y * (v + 1)
  OBVIOUS
<1>4. /\ x * S \in Int /\ x * B \in Int /\ y * (C + c) \in Int
      /\ y * (v + 1) \in Int /\ y * (must + 1) \in Int
  OBVIOUS
<1> QED
  BY <1>1, <1>2, <1>3, <1>4

\* Reading a directory adds the bytes of its files to the total.
LEMMA ReadCounted ==
    ASSUME WalkInv, NEW d \in Dir, ReadDir(d), attributes' = attributes
    PROVE  /\ bytes_total' = Total(attributes', Read')
           /\ Total(attributes, Settled) \in Nat /\ Total(attributes, InMemory(d)) \in Nat
           /\ Total(attributes, Settled \cup InMemory(d))
                = Total(attributes, Settled) + Total(attributes, InMemory(d))
<1>1. AttributesType
  BY DEF WalkInv, TypeOK, AttributesType
<1>2. Read \subseteq File /\ Settled \subseteq File /\ FilesOf(d) \subseteq File /\ InMemory(d) \subseteq File
  BY TreeInMemory DEF Read, Settled, FilesOf
<1>3. /\ Sized(attributes, Read) /\ Sized(attributes, Settled)
      /\ Sized(attributes, FilesOf(d)) /\ Sized(attributes, InMemory(d))
      /\ Bytes(FilesOf(d)) = Total(attributes, FilesOf(d))
  BY <1>1, <1>2, SizedFiles
<1>4. Total(attributes, Read \cup FilesOf(d)) = Total(attributes, Read) + Total(attributes, FilesOf(d))
  <2>1. Read \cap FilesOf(d) = {}
    BY TreeInMemory
  <2> QED
    BY <1>3, <2>1, TotalUnion
<1>5. bytes_total' = Total(attributes, Read) + Total(attributes, FilesOf(d))
  BY <1>3, Zenon DEF ReadDir, WalkInv, TotalsInv
<1>6. Read' = Read \cup FilesOf(d)
  BY TreeInMemory
<1>7. bytes_total' = Total(attributes', Read')
  BY <1>4, <1>5, <1>6, Zenon
<1>8. Settled \cap InMemory(d) = {}
  BY TreeInMemory
<1> QED
  BY <1>3, <1>7, <1>8, TotalUnion, TotalType

\* A tree that is left to the caller keeps the invariant.
LEMMA LeavingKeeps ==
    ASSUME WalkInv, NEW d \in Dir, gc_read_dir(d), ~ DoCollect(d)
    PROVE  WalkInv'
<1>1. /\ ReadDir(d) /\ memory' = [memory EXCEPT ![d] = InMemory(d)] /\ Parent[d] # None
      /\ attributes' = attributes /\ keep_expired' = keep_expired /\ usage' = usage
      /\ files' = files /\ dirs' = dirs /\ infos' = infos
      /\ bytes_collected' = bytes_collected /\ collections' = collections
  BY DEF gc_read_dir, DoCollect, setting
<1>2. MemoryInv' /\ BottomUp' /\ Settled' = Settled /\ memory' \in [Dir -> SUBSET File]
  BY <1>1, TreeLeft
<1>3. bytes_total' = Total(attributes', Read')
  BY <1>1, ReadCounted
<1>4. bytes_total' \in Nat
  <2>1. AttributesType
    BY DEF WalkInv, TypeOK, AttributesType
  <2>2. FilesOf(d) \subseteq File
    BY DEF FilesOf
  <2>3. Bytes(FilesOf(d)) \in Nat
    BY <2>1, <2>2, SizedFiles
  <2> QED
    BY <1>1, <2>3 DEF ReadDir, WalkInv, TypeOK
<1>5. TypeOK'
  BY <1>1, <1>2, <1>4, TreeInMemory DEF WalkInv, TypeOK
<1>6. DiskInv'
  BY <1>1, <1>2 DEF WalkInv, DiskInv
<1>7. TotalsInv'
  <2>1. TotalsInv
    BY DEF WalkInv
  <2> QED
    BY <1>1, <1>2, <1>3, <2>1, Zenon DEF TotalsInv
<1> QED
  BY <1>2, <1>5, <1>6, <1>7 DEF WalkInv

\* A collection keeps the invariant.
LEMMA CollectingKeeps ==
    ASSUME WalkInv, NEW d \in Dir, gc_read_dir(d), DoCollect(d)
    PROVE  WalkInv'
<1> DEFINE fs == InMemory(d)
           victims == Victims(d, InMemory(d))
<1>1. /\ ReadDir(d) /\ memory' = memory
      /\ attributes' = attributes /\ keep_expired' = keep_expired /\ usage' = usage
      /\ files' = files \ victims /\ infos' = (infos \ victims) \cup (fs \ victims)
      /\ dirs' \subseteq dirs
      /\ bytes_collected' = bytes_collected + Bytes(victims) /\ collections' = collections + 1
  BY DEF gc_read_dir, collect, Victims, setting
<1>2. MemoryInv' /\ BottomUp' /\ Settled' = Settled \cup fs
  BY <1>1, TreeCollected
<1>3. /\ bytes_total' = Total(attributes', Read')
      /\ Total(attributes, Settled) \in Nat /\ Total(attributes, fs) \in Nat
      /\ Total(attributes, Settled \cup fs) = Total(attributes, Settled) + Total(attributes, fs)
  BY <1>1, ReadCounted
<1>4. AttributesType /\ usage \in Nat /\ MaxK \in Nat /\ bytes_collected \in Nat /\ collections \in Nat
  BY GCAssumption DEF WalkInv, TypeOK, AttributesType
<1>5. fs \subseteq File \cap files /\ fs \cap Settled = {} /\ victims \subseteq fs
  BY <1>1, TreeInMemory DEF Victims
<1>6. files \subseteq File /\ infos \subseteq File /\ dirs \subseteq Dir /\ FilesOf(d) \subseteq File
  BY DEF WalkInv, TypeOK, FilesOf
<1>7. /\ Bytes(fs) = Total(attributes, fs) /\ Bytes(victims) = Total(attributes, victims)
      /\ Bytes(victims) \in Nat /\ Bytes(FilesOf(d)) \in Nat
  <2>1. victims \subseteq File /\ fs \subseteq File
    BY <1>5
  <2> HIDE DEF victims, fs
  <2> QED
    BY <1>4, <1>6, <2>1, SizedFiles
<1>8. TypeOK'
  <2>1. bytes_total' \in Nat /\ bytes_collected' \in Nat /\ collections' \in Nat
    BY <1>1, <1>4, <1>7 DEF ReadDir, WalkInv, TypeOK
  <2>2. readDirs' \subseteq Dir
    BY <1>1, TreeInMemory DEF WalkInv, TypeOK
  <2> HIDE DEF victims, fs
  <2> QED
    BY <1>1, <1>5, <1>6, <2>1, <2>2 DEF WalkInv, TypeOK
<1>9. DiskInv'
  <2>1. /\ File \ Settled \subseteq files /\ infos \subseteq files /\ Settled \cap files \subseteq infos
        /\ \A f \in Settled \cap files :
              attributes[f].expired => keep_expired /\ Root[Place[f]] = Http
    BY DEF WalkInv, DiskInv
  <2>2. ASSUME NEW f \in fs \ victims, attributes[f].expired
        PROVE  keep_expired /\ Root[Place[f]] = Http
    <3>1. ~ Expired(Root[d], f)
      BY <1>5, <2>2, ExpiredAreVictims
    <3>2. Root[Place[f]] = Root[d]
      BY <1>1, <2>2, TreeInMemory
    <3> QED
      BY <2>2, <3>1, <3>2 DEF Expired
  <2> HIDE DEF victims, fs
  <2>3. File \ Settled' \subseteq files'
    BY <1>1, <1>2, <1>5, <2>1
  <2>4. infos' \subseteq files' /\ Settled' \cap files' \subseteq infos'
    BY <1>1, <1>2, <1>5, <2>1
  <2>5. ASSUME NEW f \in Settled' \cap files', attributes[f].expired
        PROVE  keep_expired /\ Root[Place[f]] = Http
    BY <1>1, <1>2, <2>1, <2>2, <2>5
  <2> QED
    BY <1>1, <2>3, <2>4, <2>5 DEF DiskInv
<1>10. TotalsInv'
  <2>1. TotalsInv
    BY DEF WalkInv
  <2>2. bytes_collected' + Total(attributes', files') = Total(attributes', File)
    <3>1. Sized(attributes, files)
      BY <1>4, <1>6, SizedFiles
    <3>2. victims \subseteq files
      BY <1>5
    <3>3. /\ Total(attributes, victims) \in Nat /\ Total(attributes, files \ victims) \in Nat
          /\ Total(attributes, files) = Total(attributes, victims) + Total(attributes, files \ victims)
      <4> HIDE DEF victims
      <4> QED
        BY <3>1, <3>2, TotalPart
    <3> DEFINE v == Total(attributes, victims)
               w == Total(attributes, files \ victims)
    <3>4. bytes_collected + (v + w) = Total(attributes, File)
      BY <2>1, <3>3, Zenon DEF TotalsInv
    <3>5. (bytes_collected + v) + w = bytes_collected + (v + w)
      <4>1. v \in Nat /\ w \in Nat
        BY <3>3
      <4> HIDE DEF v, w
      <4> QED
        BY <1>4, <4>1
    <3>6. attributes' = attributes /\ files' = files \ victims /\ bytes_collected' = bytes_collected + v
      BY <1>1, <1>7
    <3> HIDE DEF victims
    <3> QED
      BY <3>4, <3>5, <3>6, Zenon
  <2>3. ASSUME MaxK > 0
        PROVE  (10 * usage' - 9 * MaxK) * Total(attributes', Settled')
                  <= 10 * usage' * (bytes_collected' + collections')
    <3> DEFINE x == 10 * usage - 9 * MaxK
               y == 10 * usage
               S == Total(attributes, Settled)
               B == Total(attributes, fs)
               v == Bytes(victims)
               must == MustCollect(fs)
    <3>1. x \in Int /\ y \in Nat
      BY <1>4
    <3>2. x * S <= y * (bytes_collected + collections)
      BY <2>1, <2>3 DEF TotalsInv
    <3>3. must \in Nat /\ x * B <= y * (must + 1)
      <4>1. fs \subseteq File
        BY <1>5
      <4>2. must \in Nat /\ x * Bytes(fs) <= y * (must + 1)
        <5> HIDE DEF fs
        <5> QED
          BY <1>4, <2>3, <4>1, MustCollectIs
      <4> QED
        BY <1>7, <4>2, Zenon
    <3>4. v >= must
      <4>1. fs \subseteq File
        BY <1>5
      <4> QED
        BY <4>1, VictimsAre
    <3>5. S \in Nat /\ B \in Nat /\ v \in Nat /\ bytes_collected \in Nat /\ collections \in Nat
      BY <1>3, <1>4, <1>7
    <3>6. x * (S + B) <= y * ((bytes_collected + v) + (collections + 1))
      <4>1. must <= v
        BY <3>3, <3>4, <3>5
      <4> HIDE DEF x, y, S, B, v, must
      <4> QED
        BY <3>1, <3>2, <3>3, <3>5, <4>1, AccountKept
    <3>7. Total(attributes', Settled') = S + B
      BY <1>1, <1>2, <1>3, Zenon
    <3> QED
      BY <1>1, <3>6, <3>7, Zenon
  <2> QED
    BY <1>3, <2>2, <2>3 DEF TotalsInv
<1> QED
  BY <1>2, <1>8, <1>9, <1>10 DEF WalkInv

-----------------------------------------------------------------------------
(* Theorems                                                                *)

\* Every state of a collection satisfies the invariant.
THEOREM WalkInductive == Spec => []WalkInv
<1>1. ASSUME WalkInv, [Next]_vars PROVE WalkInv'
  <2>1. CASE Next
    <3>1. PICK d \in Dir : gc_read_dir(d)
      BY <2>1 DEF Next
    <3> QED
      BY <1>1, <3>1, LeavingKeeps, CollectingKeeps
  <2>2. CASE UNCHANGED vars
    BY <1>1, <2>2 DEF vars, setting, totals, WalkInv, TypeOK, BottomUp, MemoryInv, DiskInv,
                      TotalsInv, Read, Waiting, Settled
  <2> QED
    BY <1>1, <2>1, <2>2
<1> QED
  BY <1>1, WalkInit, PTL DEF Spec

\* The variables of a collection have their types: the totals are numbers, and nothing is in
\* memory, on disk or in .cache_info but files.
THEOREM CollectionTypeCorrect == Spec => []TypeOK
<1>1. WalkInv => TypeOK
  BY DEF WalkInv
<1> QED
  BY <1>1, WalkInductive, PTL

\* Nothing is in memory at the end of the walk: all files have been dealt with.
LEMMA AllSettled ==
    ASSUME WalkInv, Done
    PROVE  Read = File /\ Settled = File
<1>1. Place \in [File -> Dir] /\ Parent \in [Dir -> Dir \cup {None}]
  BY GCAssumption
<1>2. Read = File
  BY <1>1 DEF Done, Read
<1>3. \A e \in Dir : Parent[e] \notin readDirs => memory[e] = {}
  BY <1>1 DEF Done, WalkInv, MemoryInv
<1>4. Waiting = {}
  BY <1>3 DEF Waiting
<1> QED
  BY <1>2, <1>4 DEF Settled

\* BooksAgree: at the end of a walk the totals that gc() reports to the parent are what was
\* found and removed, and the entries in the .cache_info files are those of the files that
\* are left, whichever trees were collected on the way for want of memory.
THEOREM BooksOfCollection == Spec => []BooksAgree
<1>1. ASSUME WalkInv PROVE BooksAgree
  <2>1. AttributesType /\ files \subseteq File
    BY <1>1 DEF WalkInv, TypeOK, AttributesType
  <2>2. /\ Bytes(File) = Total(attributes, File) /\ Bytes(File) \in Nat
        /\ Bytes(files) = Total(attributes, files) /\ Bytes(files) \in Nat
    BY <2>1, SizedFiles
  <2>3. ASSUME Done PROVE bytes_total = Bytes(File) /\ bytes_total - bytes_collected = Bytes(files)
    <3>1. bytes_total = Bytes(File)
      BY <1>1, <2>2, <2>3, AllSettled DEF WalkInv, TotalsInv
    <3>2. bytes_collected + Bytes(files) = Bytes(File) /\ bytes_collected \in Nat
      BY <1>1, <2>2 DEF WalkInv, TotalsInv, TypeOK
    <3> QED
      BY <2>2, <3>1, <3>2
  <2>4. Done => infos = files
    BY <1>1, <2>1, AllSettled DEF WalkInv, DiskInv
  <2> QED
    BY <2>3, <2>4 DEF BooksAgree, ReportTrue, InfosMatch
<1> QED
  BY <1>1, WalkInductive, PTL

\* What is left after a walk: F of B bytes, when enough of them were collected for an
\* estimate u of at least B.
LEMMA RoomLeft ==
    ASSUME NEW u \in Nat, NEW m \in Nat, NEW B \in Nat, NEW F \in Nat, NEW c \in Nat, NEW C \in Nat,
           B <= u, C + F = B, (10 * u - 9 * m) * B <= 10 * u * (C + c)
    PROVE  10 * F <= 9 * m + 10 * c
<1>1. CASE u = 0
  BY <1>1
<1>2. CASE u > 0
  <2>1. (10 * u - 9 * m) * B = 10 * u * B - 9 * m * B
    OBVIOUS
  <2>2. 10 * u * (C + c) = 10 * u * (B - F) + 10 * u * c
    OBVIOUS
  <2>3. 10 * u * (B - F) = 10 * u * B - 10 * u * F
    OBVIOUS
  <2>4. 9 * m * B <= 9 * m * u
    <3>1. 9 * m \in Nat
      OBVIOUS
    <3> QED
      BY <3>1, TimesMonotone
  <2>5. 10 * u * F <= 9 * m * u + 10 * u * c
    <3>1. /\ 10 * u * B \in Int /\ 9 * m * B \in Int /\ 10 * u * F \in Int /\ 10 * u * c \in Int
          /\ 9 * m * u \in Int
      OBVIOUS
    <3> QED
      BY <2>1, <2>2, <2>3, <2>4, <3>1
  <2>6. u * (10 * F) <= u * (9 * m + 10 * c)
    <3>1. u * (10 * F) = 10 * u * F /\ u * (9 * m + 10 * c) = 9 * m * u + 10 * u * c
      OBVIOUS
    <3> QED
      BY <2>5, <3>1
  <2>7. SUFFICES ASSUME 10 * F >= 9 * m + 10 * c + 1 PROVE FALSE
    OBVIOUS
  <2>8. u * (9 * m + 10 * c + 1) <= u * (10 * F)
    BY <2>7, TimesMonotone
  <2>9. u * (9 * m + 10 * c + 1) = u * (9 * m + 10 * c) + u
    OBVIOUS
  <2>10. u * (9 * m + 10 * c) \in Int /\ u * (10 * F) \in Int
    OBVIOUS
  <2> QED
    BY <1>2, <2>6, <2>8, <2>9, <2>10
<1> QED
  BY <1>1, <1>2

\* Collected: after a collection that began with an estimate not below the truth at most nine
\* tenths of the limit are on disk, but for a byte of each collection; and nothing that has
\* expired, unless it is an http document and those are kept (KeepExpired).
THEOREM RoomAfterCollection == Spec => []Collected
<1>1. ASSUME WalkInv PROVE LimitRestored
  <2>1. SUFFICES ASSUME Done, bytes_total <= usage, MaxK > 0
                 PROVE  10 * Bytes(files) <= 9 * MaxK + 10 * collections
    BY DEF LimitRestored
  <2>2. AttributesType /\ files \subseteq File
    BY <1>1 DEF WalkInv, TypeOK, AttributesType
  <2>3. /\ Bytes(File) = Total(attributes, File) /\ Bytes(File) \in Nat
        /\ Bytes(files) = Total(attributes, files) /\ Bytes(files) \in Nat
    BY <2>2, SizedFiles
  <2>4. usage \in Nat /\ MaxK \in Nat /\ collections \in Nat /\ bytes_collected \in Nat
    BY <1>1, GCAssumption DEF WalkInv, TypeOK
  <2>5. /\ bytes_total = Bytes(File) /\ bytes_collected + Bytes(files) = Bytes(File)
        /\ (10 * usage - 9 * MaxK) * Bytes(File) <= 10 * usage * (bytes_collected + collections)
    BY <1>1, <2>1, <2>3, AllSettled, Zenon DEF WalkInv, TotalsInv
  <2>6. Bytes(File) <= usage
    BY <2>1, <2>5
  <2> QED
    BY <2>3, <2>4, <2>5, <2>6, RoomLeft
<1>2. ASSUME WalkInv PROVE ExpiredCollected
  <2>1. files \subseteq File
    BY <1>2 DEF WalkInv, TypeOK
  <2> QED
    BY <1>2, <2>1, AllSettled DEF ExpiredCollected, WalkInv, DiskInv
<1>3. WalkInv => Collected
  BY <1>1, <1>2 DEF Collected
<1> QED
  BY <1>3, WalkInductive, PTL

\* NoMoreThanNeeded: a collection removes files that are worth nothing, or so few that
\* without those of its last entry of the table it would have been too little.
THEOREM CollectionIsMinimal == Spec => NoMoreThanNeeded
<1> DEFINE Minimal == \A d \in Dir : d \in readDirs' \ readDirs /\ files' # files =>
             LET fs == InMemory(d)
                 gone == files \ files'
                 top == {f \in gone : \A g \in gone :
                             make_ind(eval(Root[d], g)) <= make_ind(eval(Root[d], f))}
             IN  \/ \A f \in gone : make_ind(eval(Root[d], f)) = 0
                 \/ Bytes(gone \ top) < MustCollect(fs)
<1>1. ASSUME WalkInv, Next, NEW d \in Dir, d \in readDirs' \ readDirs, files' # files
      PROVE  LET fs == InMemory(d)
                 gone == files \ files'
                 top == {f \in gone : \A g \in gone :
                             make_ind(eval(Root[d], g)) <= make_ind(eval(Root[d], f))}
             IN  \/ \A f \in gone : make_ind(eval(Root[d], f)) = 0
                 \/ Bytes(gone \ top) < MustCollect(fs)
  <2> DEFINE fs == InMemory(d)
             ind(f) == make_ind(eval(Root[d], f))
             gone == files \ files'
             top == {f \in gone : \A g \in gone : ind(g) <= ind(f)}
  <2>1. gc_read_dir(d)
    <3>1. PICK e \in Dir : gc_read_dir(e)
      BY <1>1 DEF Next
    <3>2. readDirs' = readDirs \cup {e}
      BY <3>1 DEF gc_read_dir, ReadDir
    <3> QED
      BY <1>1, <3>1, <3>2
  <2>2. ReadDir(d) /\ files' = files \ Victims(d, fs)
    BY <1>1, <2>1 DEF gc_read_dir, collect, Victims
  <2>3. fs \subseteq File \cap files
    BY <1>1, <2>2, TreeInMemory
  <2>4. gone = Victims(d, fs)
    BY <2>2, <2>3 DEF Victims
  <2>5. PICK n \in 1 .. TABLE_SIZE :
           /\ Victims(d, fs) = Below(Root[d], fs, n)
           /\ n > 1 => Bytes(Below(Root[d], fs, n - 1)) < MustCollect(fs)
    BY <1>1, <2>3, VictimsAre
  <2>6. AttributesType
    BY <1>1 DEF WalkInv, TypeOK, AttributesType
  <2>7. TABLE_SIZE \in Nat /\ n \in Nat
    BY TableAssumption
  <2>8. \A f \in fs : ind(f) \in 0 .. TABLE_SIZE - 1
    BY <2>3, <2>6, EvalType, IndexBelow
  <2>9. CASE n = 1
    <3>1. \A f \in gone : ind(f) \in 0 .. TABLE_SIZE - 1 /\ ind(f) < 1
      BY <2>4, <2>5, <2>8, <2>9 DEF Below
    <3>2. \A f \in gone : ind(f) = 0
      BY <2>7, <3>1
    <3> QED
      BY <3>2
  <2>10. CASE n > 1
    <3>1. ASSUME NEW f \in gone \ top PROVE f \in Below(Root[d], fs, n - 1)
      <4>1. PICK g \in gone : ~ (ind(g) <= ind(f))
        BY <3>1
      <4>2. f \in fs /\ g \in fs /\ ind(g) < n
        BY <2>4, <2>5, <3>1, <4>1 DEF Below
      <4>3. ind(f) \in Nat /\ ind(g) \in Nat
        BY <2>7, <2>8, <4>2
      <4>4. ind(f) < n - 1
        BY <2>7, <4>1, <4>2, <4>3
      <4> QED
        BY <4>2, <4>4 DEF Below
    <3>2. Below(Root[d], fs, n - 1) \subseteq File /\ gone \ top \subseteq Below(Root[d], fs, n - 1)
      BY <2>3, <3>1 DEF Below
    <3>3. Bytes(gone \ top) \in Nat /\ Bytes(Below(Root[d], fs, n - 1)) \in Nat
          /\ Bytes(gone \ top) <= Bytes(Below(Root[d], fs, n - 1))
      <4> DEFINE few == gone \ top
                 more == Below(Root[d], fs, n - 1)
      <4>1. few \subseteq more /\ few \subseteq File /\ more \subseteq File
        BY <3>2
      <4> HIDE DEF few, more
      <4>2. /\ Sized(attributes, more) /\ Bytes(few) = Total(attributes, few)
            /\ Bytes(more) = Total(attributes, more)
        BY <2>6, <4>1, SizedFiles
      <4>3. /\ Total(attributes, few) \in Nat /\ Total(attributes, more \ few) \in Nat
            /\ Total(attributes, more) = Total(attributes, few) + Total(attributes, more \ few)
        BY <4>1, <4>2, TotalPart
      <4>4. Bytes(few) \in Nat /\ Bytes(more) \in Nat /\ Bytes(few) <= Bytes(more)
        BY <4>2, <4>3
      <4> QED
        BY <4>4 DEF few, more
    <3>4. MustCollect(fs) \in Nat
      BY <1>1, <2>3, <2>6, MustCollectIs, GCAssumption DEF WalkInv, TypeOK
    <3>5. Bytes(gone \ top) < MustCollect(fs)
      BY <2>5, <2>10, <3>3, <3>4
    <3> QED
      BY <3>5
  <2> QED
    BY <2>7, <2>9, <2>10
<1>2. ASSUME WalkInv, [Next]_vars PROVE [Minimal]_vars
  BY <1>1, <1>2
<1> QED
  BY <1>2, WalkInductive, PTL DEF Spec, NoMoreThanNeeded

=============================================================================

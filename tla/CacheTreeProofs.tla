--------------------------- MODULE CacheTreeProofs ---------------------------
(***************************************************************************)
(* Proofs about CacheTree.  What a name leads to, Norm, is what is left of *)
(* it without suffixes and indices: all system calls move a document only  *)
(* between names that lead to the same place, and the plain names that     *)
(* URLs make are told apart by where they lead.  So whatever children do   *)
(* beside each other, what is at a name is the document of the URLs that   *)
(* lead there.  That it is not lost needs more (InTurn), and that they     *)
(* work one after the other.                                               *)
(***************************************************************************)
EXTENDS CacheTree, SequenceTheorems, WellFoundedInduction, TLAPS

\* A set of numbers has a least one.
LEMMA LeastNatural ==
    ASSUME NEW T, T \subseteq Nat, T # {}
    PROVE  \E m \in T : \A k \in T : m <= k
<1>1. \E m \in T : \A k \in T : ~ (<<k, m>> \in OpToRel(<, Nat))
  BY WFMin, NatLessThanWellFounded
<1>2. OpToRel(<, Nat) = {p \in Nat \X Nat : p[1] < p[2]}
  BY Zenon DEF OpToRel
<1>3. \A k, m \in Nat : k < m => <<k, m>> \in {p \in Nat \X Nat : p[1] < p[2]}
  OBVIOUS
<1>4. PICK m \in T : \A k \in T : ~ (<<k, m>> \in OpToRel(<, Nat))
  BY <1>1
<1>5. \A k \in T : ~ (k < m)
  BY <1>2, <1>3, <1>4, Zenon
<1> QED
  BY <1>5

\* Induction up to n, for a set.
LEMMA UpTo ==
    ASSUME NEW n \in Nat, NEW T, 0 \in T, \A i \in 1 .. n : i - 1 \in T => i \in T
    PROVE  \A i \in 0 .. n : i \in T
<1> DEFINE out == {i \in 0 .. n : i \notin T}
<1>1. SUFFICES ASSUME out # {} PROVE FALSE
  OBVIOUS
<1>2. out \subseteq Nat
  OBVIOUS
<1>3. PICK m \in out : \A k \in out : m <= k
  <2> HIDE DEF out
  <2> QED
    BY <1>1, <1>2, LeastNatural
<1>4. m \in 1 .. n
  BY <1>3
<1>5. m - 1 \in 0 .. n /\ ~ (m <= m - 1)
  BY <1>4
<1>6. m - 1 \in T
  BY <1>3, <1>5
<1> QED
  BY <1>3, <1>4, <1>6

-----------------------------------------------------------------------------
(* Names                                                                   *)

Name == Seq(Component)

\* The components of names, and changes of a name's end.
LEMMA NameEnds ==
    ASSUME NEW n \in Name, n # <<>>
    PROVE  /\ Len(n) \in Nat \ {0}
           /\ Front(n) \in Name /\ Len(Front(n)) = Len(n) - 1
           /\ \A i \in 1 .. Len(n) - 1 : Front(n)[i] = n[i]
           /\ Last(n) \in Component /\ n = Append(Front(n), Last(n))
<1>1. Len(n) \in Nat \ {0}
  BY DEF Name
<1>2. Front(n) \in Name /\ Len(Front(n)) = Len(n) - 1 /\ \A i \in 1 .. Len(n) - 1 : Front(n)[i] = n[i]
  <2>1. \A i \in 1 .. Len(n) - 1 : n[i] \in Component
    BY <1>1 DEF Name
  <2>2. 1 \in Int /\ Len(n) - 1 \in Int
    BY <1>1
  <2>3. /\ SubSeq(n, 1, Len(n) - 1) \in Seq(Component)
        /\ Len(SubSeq(n, 1, Len(n) - 1)) = IF 1 <= Len(n) - 1 THEN (Len(n) - 1) - 1 + 1 ELSE 0
        /\ \A i \in 1 .. (Len(n) - 1) - 1 + 1 : SubSeq(n, 1, Len(n) - 1)[i] = n[1 + i - 1]
    BY <2>1, <2>2, SubSeqProperties
  <2>4. Front(n) = SubSeq(n, 1, Len(n) - 1)
    BY Zenon DEF Front
  <2> DEFINE f == SubSeq(n, 1, Len(n) - 1)
  <2>5. f \in Name /\ Len(f) = Len(n) - 1 /\ \A i \in 1 .. Len(n) - 1 : f[i] = n[i]
    <3>1. f \in Name
      BY <2>3 DEF Name
    <3>2. Len(f) = Len(n) - 1
      <4> HIDE DEF f
      <4>1. Len(f) = IF 1 <= Len(n) - 1 THEN (Len(n) - 1) - 1 + 1 ELSE 0
        BY <2>3 DEF f
      <4>2. ASSUME 1 <= Len(n) - 1 PROVE Len(f) = Len(n) - 1
        BY <1>1, <4>1, <4>2
      <4>3. ASSUME ~ (1 <= Len(n) - 1) PROVE Len(f) = Len(n) - 1
        <5>1. Len(n) - 1 = 0
          <6>1. \A k \in Nat \ {0} : ~ (1 <= k - 1) => k - 1 = 0
            OBVIOUS
          <6> QED
            BY <1>1, <4>3, <6>1, Zenon
        <5> QED
          BY <4>1, <4>3, <5>1
      <4> QED
        BY <4>2, <4>3
    <3>3. \A i \in 1 .. Len(n) - 1 : f[i] = n[i]
      <4> HIDE DEF f
      <4>1. \A i \in 1 .. (Len(n) - 1) - 1 + 1 : f[i] = n[1 + i - 1]
        BY <2>3 DEF f
      <4>2. \A i \in 1 .. Len(n) - 1 : i \in 1 .. (Len(n) - 1) - 1 + 1 /\ 1 + i - 1 = i
        BY <1>1
      <4> QED
        BY <4>1, <4>2
    <3> QED
      BY <3>1, <3>2, <3>3
  <2> HIDE DEF f
  <2>6. f = Front(n)
    BY <2>4 DEF f
  <2> QED
    BY <2>5, <2>6
<1>3. Last(n) \in Component
  BY <1>1 DEF Last, Name
<1>4. /\ Append(Front(n), Last(n)) \in Name /\ Len(Append(Front(n), Last(n))) = Len(n)
      /\ \A i \in 1 .. Len(n) - 1 : Append(Front(n), Last(n))[i] = Front(n)[i]
      /\ Append(Front(n), Last(n))[Len(n)] = Last(n)
  BY <1>1, <1>2, <1>3, AppendProperties DEF Name
<1>5. \A i \in 1 .. Len(n) : n[i] = Append(Front(n), Last(n))[i]
  BY <1>1, <1>2, <1>4 DEF Last
<1>6. n = Append(Front(n), Last(n))
  BY <1>4, <1>5, SeqEqual DEF Name
<1> QED
  BY <1>1, <1>2, <1>3, <1>6

\* A longer name, and its parts.
LEMMA AppendEnds ==
    ASSUME NEW n \in Name, NEW c \in Component
    PROVE  /\ Append(n, c) \in Name /\ Append(n, c) # <<>> /\ Len(Append(n, c)) = Len(n) + 1
           /\ \A i \in 1 .. Len(n) : Append(n, c)[i] = n[i]
           /\ Append(n, c)[Len(n) + 1] = c
           /\ Front(Append(n, c)) = n /\ Last(Append(n, c)) = c
<1>1. /\ Append(n, c) \in Name /\ Append(n, c) # <<>> /\ Len(Append(n, c)) = Len(n) + 1
      /\ \A i \in 1 .. Len(n) : Append(n, c)[i] = n[i]
      /\ Append(n, c)[Len(n) + 1] = c
  BY AppendProperties DEF Name
<1>2. Last(Append(n, c)) = c
  BY <1>1 DEF Last
<1>3. Append(n, c) = Append(Front(Append(n, c)), Last(Append(n, c))) /\ Front(Append(n, c)) \in Name
  BY <1>1, NameEnds
<1>4. Front(Append(n, c)) = n
  BY <1>2, <1>3, AppendInjective DEF Name
<1> QED
  BY <1>1, <1>2, <1>4

\* The names of locks and backups differ from the copy's in the suffix of the end.
LEMMA WithEnds ==
    ASSUME NEW n \in Name, n # <<>>, NEW x \in Suffix
    PROVE  /\ With(n, x) \in Name /\ With(n, x) # <<>> /\ Len(With(n, x)) = Len(n)
           /\ Front(With(n, x)) = Front(n) /\ Last(With(n, x)) = Part(Last(n).base, x)
           /\ \A i \in 1 .. Len(n) - 1 : With(n, x)[i] = n[i]
           /\ With(n, x)[Len(n)] = Part(Last(n).base, x)
           /\ Part(Last(n).base, x).suffix = x /\ Part(Last(n).base, x).base = Last(n).base
<1>1. Part(Last(n).base, x) \in Component
  BY NameEnds DEF Part, Component
<1>2. Part(Last(n).base, x).suffix = x /\ Part(Last(n).base, x).base = Last(n).base
  BY DEF Part
<1>3. /\ Front(n) \in Name /\ Len(n) \in Nat \ {0} /\ Len(Front(n)) = Len(n) - 1
      /\ \A i \in 1 .. Len(n) - 1 : Front(n)[i] = n[i]
  BY NameEnds
<1> DEFINE w == Append(Front(n), Part(Last(n).base, x))
<1>4. /\ w \in Name /\ w # <<>> /\ Len(w) = Len(Front(n)) + 1
      /\ \A i \in 1 .. Len(Front(n)) : w[i] = Front(n)[i]
      /\ w[Len(Front(n)) + 1] = Part(Last(n).base, x)
      /\ Front(w) = Front(n) /\ Last(w) = Part(Last(n).base, x)
  <2> HIDE DEF w
  <2> QED
    BY <1>1, <1>3, AppendEnds DEF w
<1>5. With(n, x) = w
  BY DEF With
<1> HIDE DEF w
<1> QED
  BY <1>2, <1>3, <1>4, <1>5

\* Suffixes and components that the cache uses.
LEMMA OwnComponents ==
    /\ "" \in Suffix /\ ".cache_lock" \in Suffix /\ ".cache_tmp" \in Suffix
    /\ INDEX_FILE \in Component /\ WELCOME_FILE \in Component
    /\ INDEX_FILE.base = ".cache_dirindex" /\ INDEX_FILE.suffix = ""
    /\ WELCOME_FILE.base = ".cache_welcome" /\ WELCOME_FILE.suffix = ""
BY DEF Suffix, Base, Component, INDEX_FILE, WELCOME_FILE, Part

\* The beginning of a name, and names that begin alike.
LEMMA Beginning ==
    ASSUME NEW n \in Name, NEW i \in 0 .. Len(n)
    PROVE  /\ SubSeq(n, 1, i) \in Name /\ Len(SubSeq(n, 1, i)) = i
           /\ \A j \in 1 .. i : SubSeq(n, 1, i)[j] = n[j]
<1>1. Len(n) \in Nat /\ \A j \in 1 .. i : n[j] \in Component
  BY DEF Name
<1>2. 1 \in Int /\ i \in Int
  BY <1>1
<1>3. /\ SubSeq(n, 1, i) \in Seq(Component)
      /\ Len(SubSeq(n, 1, i)) = IF 1 <= i THEN i - 1 + 1 ELSE 0
      /\ \A j \in 1 .. i - 1 + 1 : SubSeq(n, 1, i)[j] = n[1 + j - 1]
  BY <1>1, <1>2, SubSeqProperties
<1> QED
  BY <1>1, <1>3 DEF Name

\* What follows a prefix.
LEMMA Suffixed ==
    ASSUME NEW n \in Name, NEW m \in Name, IsPrefix(n, m)
    PROVE  /\ SubSeq(m, Len(n) + 1, Len(m)) \in Name
           /\ m = n \o SubSeq(m, Len(n) + 1, Len(m))
           /\ m # n => SubSeq(m, Len(n) + 1, Len(m)) # <<>>
<1>1. Len(n) \in Nat /\ Len(m) \in Nat /\ Len(n) <= Len(m)
  BY DEF IsPrefix, Name
<1>2. SubSeq(n, 1, Len(n)) = n /\ SubSeq(m, 1, Len(n)) = n /\ SubSeq(m, 1, Len(m)) = m
  BY SubSeqFull DEF IsPrefix, Name
<1>3. SubSeq(m, 1, Len(n)) \o SubSeq(m, Len(n) + 1, Len(m)) = SubSeq(m, 1, Len(m))
  <2>1. 1 \in 1 .. Len(m) + 1 /\ Len(n) \in 1 - 1 .. Len(m) /\ Len(m) \in Len(n) .. Len(m)
    BY <1>1
  <2> QED
    BY <2>1, ConcatAdjacentSubSeq DEF Name
<1>4. SubSeq(m, Len(n) + 1, Len(m)) \in Name
  <2>1. \A i \in Len(n) + 1 .. Len(m) : m[i] \in Component
    BY <1>1 DEF Name
  <2>2. Len(n) + 1 \in Int /\ Len(m) \in Int
    BY <1>1
  <2> QED
    BY <2>1, <2>2, SubSeqProperties DEF Name
<1>5. n \o <<>> = n
  BY ConcatEmptySeq DEF Name
<1> QED
  BY <1>2, <1>3, <1>4, <1>5

\* A name and what was added to it.
LEMMA Extended ==
    ASSUME NEW n \in Name, NEW r \in Name
    PROVE  /\ n \o r \in Name /\ Len(n \o r) = Len(n) + Len(r) /\ IsPrefix(n, n \o r)
           /\ SubSeq(n \o r, Len(n) + 1, Len(n \o r)) = r
           /\ n \o r = n <=> r = <<>>
           /\ n # <<>> => n \o r # <<>>
<1>1. /\ n \o r \in Name /\ Len(n \o r) = Len(n) + Len(r) /\ Len(n) \in Nat /\ Len(r) \in Nat
      /\ \A i \in 1 .. Len(n) + Len(r) : (n \o r)[i] = IF i <= Len(n) THEN n[i] ELSE r[i - Len(n)]
  BY ConcatProperties DEF Name
<1>2. SubSeq(n \o r, 1, Len(n)) = n
  <2>1. /\ SubSeq(n \o r, 1, Len(n)) \in Name /\ Len(SubSeq(n \o r, 1, Len(n))) = Len(n)
        /\ \A j \in 1 .. Len(n) : SubSeq(n \o r, 1, Len(n))[j] = (n \o r)[j]
    <3>1. Len(n) \in 0 .. Len(n \o r)
      BY <1>1
    <3> QED
      BY <1>1, <3>1, Beginning
  <2>2. \A j \in 1 .. Len(n) : SubSeq(n \o r, 1, Len(n))[j] = n[j]
    BY <1>1, <2>1
  <2> QED
    BY <2>1, <2>2, SeqEqual DEF Name
<1>3. SubSeq(n, 1, Len(n)) = n
  BY SubSeqFull DEF Name
<1>4. IsPrefix(n, n \o r)
  BY <1>1, <1>2, <1>3 DEF IsPrefix
<1> DEFINE rest == SubSeq(n \o r, Len(n) + 1, Len(n \o r))
<1>5. rest \in Name /\ n \o r = n \o rest
  BY <1>1, <1>4, Suffixed
<1>6. rest = r
  <2> HIDE DEF rest
  <2>1. /\ Len(n \o rest) = Len(n) + Len(rest) /\ Len(rest) \in Nat
        /\ \A i \in 1 .. Len(n) + Len(rest) : (n \o rest)[i] = IF i <= Len(n) THEN n[i] ELSE rest[i - Len(n)]
    BY <1>5, ConcatProperties DEF Name
  <2>2. Len(rest) = Len(r)
    BY <1>1, <1>5, <2>1
  <2>3. ASSUME NEW i \in 1 .. Len(r) PROVE rest[i] = r[i]
    <3>1. Len(n) + i \in 1 .. Len(n) + Len(r) /\ ~ (Len(n) + i <= Len(n)) /\ Len(n) + i - Len(n) = i
      BY <1>1
    <3>2. (n \o r)[Len(n) + i] = r[i]
      BY <1>1, <3>1
    <3>3. (n \o rest)[Len(n) + i] = rest[i]
      BY <2>1, <2>2, <3>1
    <3> QED
      BY <1>5, <3>2, <3>3
  <2> QED
    BY <1>5, <2>2, <2>3, SeqEqual DEF Name
<1>7. /\ n \o r = n <=> r = <<>>
      /\ n # <<>> => n \o r # <<>>
  BY ConcatEqualIffEmpty DEF Name
<1> QED
  BY <1>1, <1>4, <1>6, <1>7

\* What moves with a directory keeps its place in it.
LEMMA MovedIs ==
    ASSUME NEW n \in Name, NEW r \in Name, NEW to
    PROVE  Moved(n \o r, n, to) = to \o r
BY Extended DEF Moved

-----------------------------------------------------------------------------
(* What a name leads to: its components' bases, less the indices of directories. *)

INDEX == ".cache_dirindex"
Step(s, c) == IF c.base = INDEX THEN s ELSE Append(s, c.base)

\* f follows the components of n up to the k-th.
Follows(n, k, f) ==
    /\ f \in [0 .. k -> Seq(Base)] /\ f[0] = <<>>
    /\ \A i \in 1 .. k : f[i] = Step(f[i - 1], n[i])

Norm(n) == (CHOOSE f : Follows(n, Len(n), f))[Len(n)]

\* A step keeps names names.
LEMMA StepType ==
    ASSUME NEW s \in Seq(Base), NEW c \in Component
    PROVE  Step(s, c) \in Seq(Base)
BY AppendProperties DEF Step, Component

\* There is one that follows them all.
LEMMA Followed ==
    ASSUME NEW n \in Name
    PROVE  \E f : Follows(n, Len(n), f)
<1> DEFINE T == {k \in 0 .. Len(n) : \E f : Follows(n, k, f)}
<1>1. Len(n) \in Nat /\ \A i \in 1 .. Len(n) : n[i] \in Component
  BY DEF Name
<1>2. 0 \in T
  <2> DEFINE f == [i \in 0 .. 0 |-> <<>>]
  <2>1. Follows(n, 0, f)
    BY EmptySeq DEF Follows
  <2>2. 0 \in 0 .. Len(n)
    BY <1>1
  <2> HIDE DEF f
  <2> QED
    BY <2>1, <2>2
<1>3. ASSUME NEW i \in 1 .. Len(n), i - 1 \in T PROVE i \in T
  <2>1. PICK f : Follows(n, i - 1, f)
    BY <1>3
  <2>2. i \in Nat /\ i - 1 \in Nat /\ i - 1 \in 0 .. i - 1 /\ i \in 0 .. Len(n)
    BY <1>1, <1>3
  <2> DEFINE g == [j \in 0 .. i |-> IF j = i THEN Step(f[i - 1], n[i]) ELSE f[j]]
  <2>3. Step(f[i - 1], n[i]) \in Seq(Base)
    BY <1>1, <2>1, <2>2, StepType DEF Follows
  <2>4. \A j \in 0 .. i : j # i => j \in 0 .. i - 1
    BY <2>2
  <2>5. g \in [0 .. i -> Seq(Base)]
    BY <2>1, <2>3, <2>4 DEF Follows
  <2>6. g[0] = <<>> /\ g[i] = Step(f[i - 1], n[i]) /\ \A j \in 0 .. i - 1 : g[j] = f[j]
    <3>1. 0 \in 0 .. i /\ 0 # i /\ i \in 0 .. i /\ \A j \in 0 .. i - 1 : j \in 0 .. i /\ j # i
      BY <2>2
    <3>2. g[0] = f[0] /\ g[i] = Step(f[i - 1], n[i]) /\ \A j \in 0 .. i - 1 : g[j] = f[j]
      BY <3>1
    <3> HIDE DEF g
    <3> QED
      BY <2>1, <3>2 DEF Follows
  <2> HIDE DEF g
  <2>7. ASSUME NEW j \in 1 .. i PROVE g[j] = Step(g[j - 1], n[j])
    <3>1. j = i \/ (j \in 1 .. i - 1 /\ j \in 0 .. i - 1)
      BY <2>2
    <3>2. j - 1 \in 0 .. i - 1
      BY <2>2
    <3>3. ASSUME j \in 1 .. i - 1 PROVE f[j] = Step(f[j - 1], n[j])
      BY <2>1, <3>3 DEF Follows
    <3> QED
      BY <2>6, <3>1, <3>2, <3>3, Zenon
  <2>8. Follows(n, i, g)
    BY <2>5, <2>6, <2>7 DEF Follows
  <2> QED
    BY <2>2, <2>8
<1>4. \A i \in 0 .. Len(n) : i \in T
  <2> HIDE DEF T
  <2> QED
    BY <1>1, <1>2, <1>3, UpTo
<1>5. Len(n) \in 0 .. Len(n)
  BY <1>1
<1> QED
  BY <1>4, <1>5

\* What follows names that begin alike does so alike.
LEMMA FollowsAlike ==
    ASSUME NEW n, NEW m, NEW k \in Nat, NEW l \in Nat, k <= l, \A i \in 1 .. k : n[i] = m[i],
           NEW f, Follows(n, k, f), NEW g, Follows(m, l, g)
    PROVE  f[k] = g[k]
<1> DEFINE T == {i \in 0 .. k : f[i] = g[i]}
<1>1. 0 \in T
  BY DEF Follows
<1>2. ASSUME NEW i \in 1 .. k, i - 1 \in T PROVE i \in T
  <2>1. i \in 1 .. l /\ i \in 0 .. k
    OBVIOUS
  <2>2. f[i] = Step(f[i - 1], n[i]) /\ g[i] = Step(g[i - 1], m[i])
    BY <2>1 DEF Follows
  <2> QED
    BY <1>2, <2>1, <2>2
<1>3. \A i \in 0 .. k : i \in T
  <2> HIDE DEF T
  <2> QED
    BY <1>1, <1>2, UpTo
<1>4. k \in 0 .. k
  OBVIOUS
<1> QED
  BY <1>3, <1>4

\* The first steps of a name give what the function says.
LEMMA NormIs ==
    ASSUME NEW n \in Name
    PROVE  /\ Norm(n) \in Seq(Base)
           /\ \E f : Follows(n, Len(n), f) /\ Norm(n) = f[Len(n)]
<1> DEFINE f == CHOOSE f : Follows(n, Len(n), f)
<1>1. Follows(n, Len(n), f)
  BY Followed
<1>2. Norm(n) = f[Len(n)]
  BY DEF Norm
<1>3. Len(n) \in Nat /\ Len(n) \in 0 .. Len(n)
  BY DEF Name
<1> HIDE DEF f
<1>4. Norm(n) \in Seq(Base)
  BY <1>1, <1>2, <1>3 DEF Follows
<1> QED
  BY <1>1, <1>2, <1>4

\* The empty name leads to itself.
LEMMA NormEmpty == <<>> \in Name /\ Norm(<<>>) = <<>>
<1>1. <<>> \in Name /\ Len(<<>>) = 0
  BY EmptySeq DEF Name
<1> QED
  BY <1>1, NormIs DEF Follows

\* One component more.
LEMMA NormAppend ==
    ASSUME NEW n \in Name, NEW c \in Component
    PROVE  Norm(Append(n, c)) = Step(Norm(n), c)
<1> DEFINE m == Append(n, c)
<1>1. /\ m \in Name /\ Len(m) = Len(n) + 1 /\ Len(n) \in Nat
      /\ (\A i \in 1 .. Len(n) : m[i] = n[i]) /\ m[Len(n) + 1] = c
  BY AppendEnds DEF Name
<1> HIDE DEF m
<1>2. PICK f : Follows(n, Len(n), f) /\ Norm(n) = f[Len(n)]
  BY NormIs
<1>3. PICK g : Follows(m, Len(m), g) /\ Norm(m) = g[Len(m)]
  BY <1>1, NormIs
<1>4. f[Len(n)] = g[Len(n)]
  <2>1. /\ Len(n) <= Len(n) + 1 /\ Len(n) + 1 \in Nat
        /\ \A i \in 1 .. Len(n) : n[i] = m[i]
    BY <1>1
  <2>2. Follows(m, Len(n) + 1, g)
    BY <1>1, <1>3
  <2> QED
    <3>1. Follows(n, Len(n), f)
      BY <1>2
    <3> DEFINE k == Len(n)
               l == Len(n) + 1
    <3>2. /\ k \in Nat /\ l \in Nat /\ k <= l /\ (\A i \in 1 .. k : n[i] = m[i])
          /\ Follows(n, k, f) /\ Follows(m, l, g)
      BY <1>1, <2>1, <2>2, <3>1
    <3> HIDE DEF k, l
    <3>3. f[k] = g[k]
      BY <3>2, FollowsAlike
    <3> QED
      BY <3>3 DEF k
<1>5. Len(n) + 1 \in 1 .. Len(m) /\ Len(n) + 1 - 1 = Len(n)
  BY <1>1
<1>6. g[Len(n) + 1] = Step(g[Len(n) + 1 - 1], m[Len(n) + 1])
  BY <1>3, <1>5 DEF Follows
<1>7. Norm(m) = Step(Norm(n), c)
  BY <1>1, <1>2, <1>3, <1>4, <1>5, <1>6, Zenon
<1> QED
  BY <1>7 DEF m

\* A name in a directory leads to what it leads to there, after the directory.
LEMMA NormConcat ==
    ASSUME NEW n \in Name, NEW r \in Name
    PROVE  Norm(n \o r) = Norm(n) \o Norm(r)
<1> DEFINE b(i) == SubSeq(r, 1, i)
           T == {i \in 0 .. Len(r) : Norm(n \o b(i)) = Norm(n) \o Norm(b(i))}
<1>1. Len(r) \in Nat /\ Norm(n) \in Seq(Base) /\ (\A i \in 1 .. Len(r) : r[i] \in Component)
  BY NormIs DEF Name
<1>2. 0 \in T
  <2>1. b(0) = <<>>
    BY SubSeqEmpty
  <2>2. n \o b(0) = n /\ Norm(n) \o Norm(b(0)) = Norm(n)
    BY <1>1, <2>1, NormEmpty, ConcatEmptySeq DEF Name
  <2>3. 0 \in 0 .. Len(r)
    BY <1>1
  <2> QED
    BY <2>2, <2>3
<1>3. ASSUME NEW i \in 1 .. Len(r), i - 1 \in T PROVE i \in T
  <2> DEFINE s == b(i - 1)
  <2>1. i - 1 \in 0 .. Len(r) /\ i \in 0 .. Len(r) /\ i \in Nat
    BY <1>1
  <2>2. s \in Name
    BY <2>1, Beginning
  <2>3. b(i) = Append(s, r[i])
    <3>1. /\ b(i) \in Name /\ Len(b(i)) = i /\ \A j \in 1 .. i : b(i)[j] = r[j]
      BY <2>1, Beginning
    <3>2. /\ Len(s) = i - 1 /\ \A j \in 1 .. i - 1 : s[j] = r[j]
      BY <2>1, Beginning
    <3> HIDE DEF s, b
    <3>3. /\ Append(s, r[i]) \in Name /\ Len(Append(s, r[i])) = i - 1 + 1
          /\ \A j \in 1 .. i - 1 : Append(s, r[i])[j] = s[j]
          /\ Append(s, r[i])[i - 1 + 1] = r[i]
      BY <1>1, <2>2, <3>2, AppendEnds
    <3>4. i - 1 + 1 = i /\ \A j \in 1 .. i : j \in 1 .. i - 1 \/ j = i
      BY <2>1
    <3>5. \A j \in 1 .. i : b(i)[j] = Append(s, r[i])[j]
      BY <3>1, <3>2, <3>3, <3>4
    <3>6. Len(b(i)) = Len(Append(s, r[i]))
      BY <3>1, <3>3, <3>4
    <3> QED
      BY <3>1, <3>3, <3>5, <3>6, SeqEqual DEF Name
  <2> HIDE DEF s, b
  <2>4. Norm(n \o s) = Norm(n) \o Norm(s)
    BY <1>3 DEF s
  <2>5. n \o Append(s, r[i]) = Append(n \o s, r[i])
    <3>1. <<r[i]>> \in Name
      BY <1>1 DEF Name
    <3>2. n \o s \in Name
      BY <2>2, Extended
    <3>3. Append(s, r[i]) = s \o <<r[i]>> /\ Append(n \o s, r[i]) = (n \o s) \o <<r[i]>>
      BY <1>1, <2>2, <3>2, AppendIsConcat DEF Name
    <3>4. (n \o s) \o <<r[i]>> = n \o (s \o <<r[i]>>)
      BY <2>2, <3>1, ConcatAssociative DEF Name
    <3> QED
      BY <3>3, <3>4
  <2>6. Norm(n \o b(i)) = Step(Norm(n) \o Norm(s), r[i])
    <3>1. n \o s \in Name
      BY <2>2, Extended
    <3> QED
      BY <1>1, <2>3, <2>4, <2>5, <3>1, NormAppend
  <2>7. Norm(b(i)) = Step(Norm(s), r[i])
    BY <1>1, <2>2, <2>3, NormAppend
  <2>8. Step(Norm(n) \o Norm(s), r[i]) = Norm(n) \o Step(Norm(s), r[i])
    <3>1. Norm(s) \in Seq(Base) /\ r[i].base \in Base /\ <<r[i].base>> \in Seq(Base)
      BY <1>1, <2>2, NormIs DEF Component
    <3>2. Norm(n) \o Norm(s) \in Seq(Base)
      BY <1>1, <3>1, ConcatProperties
    <3>3. /\ Append(Norm(s), r[i].base) = Norm(s) \o <<r[i].base>>
          /\ Append(Norm(n) \o Norm(s), r[i].base) = (Norm(n) \o Norm(s)) \o <<r[i].base>>
      BY <3>1, <3>2, AppendIsConcat
    <3>4. (Norm(n) \o Norm(s)) \o <<r[i].base>> = Norm(n) \o (Norm(s) \o <<r[i].base>>)
      BY <1>1, <3>1, ConcatAssociative
    <3> QED
      BY <3>3, <3>4 DEF Step
  <2>9. Norm(n \o b(i)) = Norm(n) \o Norm(b(i))
    BY <2>6, <2>7, <2>8
  <2> QED
    BY <2>1, <2>9
<1>4. \A i \in 0 .. Len(r) : i \in T
  <2> HIDE DEF T
  <2> QED
    BY <1>1, <1>2, <1>3, UpTo
<1>5. Len(r) \in 0 .. Len(r) /\ b(Len(r)) = r
  BY <1>1, SubSeqFull DEF Name
<1> HIDE DEF b
<1> QED
  BY <1>4, <1>5

\* A name without an index leads to all its components.
LEMMA NormPlain ==
    ASSUME NEW n \in Name, \A i \in 1 .. Len(n) : n[i].base # INDEX
    PROVE  Len(Norm(n)) = Len(n) /\ \A i \in 1 .. Len(n) : Norm(n)[i] = n[i].base
<1>1. PICK f : Follows(n, Len(n), f) /\ Norm(n) = f[Len(n)]
  BY NormIs
<1>2. Len(n) \in Nat /\ Len(n) \in 0 .. Len(n) /\ \A i \in 1 .. Len(n) : n[i].base \in Base
  <2>1. Len(n) \in Nat /\ \A i \in 1 .. Len(n) : n[i] \in Component
    BY DEF Name
  <2>2. \A c \in Component : c.base \in Base
    BY DEF Component
  <2> QED
    BY <2>1, <2>2
<1> DEFINE T == {k \in 0 .. Len(n) : Len(f[k]) = k /\ \A j \in 1 .. k : f[k][j] = n[j].base}
<1>3. 0 \in T
  BY <1>1, <1>2 DEF Follows
<1>4. ASSUME NEW i \in 1 .. Len(n), i - 1 \in T PROVE i \in T
  <2>1. i - 1 \in 0 .. Len(n) /\ i \in 0 .. Len(n) /\ i \in Nat
    BY <1>2
  <2>2. f[i - 1] \in Seq(Base) /\ f[i] = Append(f[i - 1], n[i].base)
    BY <1>1, <2>1 DEF Follows, Step
  <2>3. Len(f[i - 1]) = i - 1 /\ \A j \in 1 .. i - 1 : f[i - 1][j] = n[j].base
    BY <1>4
  <2>4. /\ Len(f[i]) = i - 1 + 1
        /\ \A j \in 1 .. i - 1 : f[i][j] = f[i - 1][j]
        /\ f[i][i - 1 + 1] = n[i].base
    BY <1>2, <2>2, <2>3, AppendProperties
  <2>5. i - 1 + 1 = i /\ \A j \in 1 .. i : j \in 1 .. i - 1 \/ j = i
    BY <2>1
  <2> QED
    BY <2>1, <2>3, <2>4, <2>5
<1>5. \A i \in 0 .. Len(n) : i \in T
  <2> HIDE DEF T
  <2> QED
    BY <1>2, <1>3, <1>4, UpTo
<1> QED
  BY <1>1, <1>2, <1>5

-----------------------------------------------------------------------------
(* The names of copies.                                                    *)

\* A URL that is cached.
Cached(u) == u \in Url /\ cache_file_name(u) # Absent

\* A name with nothing of the cache's own, but perhaps a welcome file.
PlainPart(c) == c.suffix = "" /\ c.base # INDEX
PlainName(n) == \A i \in 1 .. Len(n) : PlainPart(n[i])

\* What a URL with a name has been found not to be.
LEMMA ReservedIs ==
    ASSUME NEW u, Cached(u)
    PROVE  /\ u \notin Search \cup TooLong /\ ~ reserved_name(u)
           /\ Access[u] \in {"http", "ftp", "gopher"}
           /\ cache_file_name(u) = <<Part(Access[u], ""), Part(LowerCase[HostName[u]], "")>> \o Path[u]
                                   \o IF u \in Slash THEN <<WELCOME_FILE>> ELSE <<>>
BY Zenon DEF Cached, cache_file_name

\* The components of a URL's path, of which there may be none.
LEMMA PathIs ==
    ASSUME NEW u, Cached(u)
    PROVE  /\ Path[u] \in Name
           /\ PlainName(Path[u])
           /\ u \notin Slash /\ Path[u] # <<>> => Last(Path[u]).base # ".cache_welcome"
<1>1. Path[u] \in Name /\ Len(Path[u]) \in Nat /\ DOMAIN Path[u] = 1 .. Len(Path[u])
  BY UrlAssumption DEF Cached, Name
<1>2. ASSUME NEW c \in Component, c.suffix = "", c.base \in {INDEX, ".cache_welcome"}
      PROVE  c \in {CACHE_INFO, INDEX_FILE, WELCOME_FILE}
  BY <1>2 DEF Component, INDEX_FILE, WELCOME_FILE, Part, INDEX
<1>3. ASSUME u \notin Slash, Path[u] # <<>>
      PROVE  Last(Path[u]).suffix = "" /\ Last(Path[u]).base \notin {INDEX, ".cache_welcome"}
  <2>1. Last(Path[u]) \in Component
    BY <1>1, <1>3, NameEnds
  <2>2. Last(Path[u]) \notin {CACHE_INFO, INDEX_FILE, WELCOME_FILE} /\ Last(Path[u]).suffix = ""
    BY <1>3, ReservedIs DEF reserved_name
  <2> QED
    BY <1>2, <2>1, <2>2
<1>4. ASSUME NEW i \in 1 .. Len(Path[u])
      PROVE  PlainPart(Path[u][i])
  <2>1. ASSUME i < Len(Path[u]) \/ u \in Slash
        PROVE  PlainPart(Path[u][i])
    BY <1>1, <2>1, OwnNames DEF Cached, INDEX, PlainPart
  <2>2. ASSUME ~ (i < Len(Path[u]) \/ u \in Slash)
        PROVE  PlainPart(Path[u][i])
    <3>1. i = Len(Path[u]) /\ Path[u] # <<>>
      BY <1>1, <2>2
    <3>2. Last(Path[u]) = Path[u][i]
      BY <3>1 DEF Last
    <3> QED
      BY <1>3, <2>2, <3>1, <3>2 DEF PlainPart
  <2> QED
    BY <2>1, <2>2
<1> QED
  BY <1>1, <1>3, <1>4, Zenon DEF PlainName

HostPart(u) == <<Part(Access[u], ""), Part(LowerCase[HostName[u]], "")>>
WelcomePart(u) == IF u \in Slash THEN <<WELCOME_FILE>> ELSE <<>>

\* Names of up to two components.
LEMMA ShortNames ==
    ASSUME NEW c \in Component, NEW d \in Component, PlainPart(c), PlainPart(d)
    PROVE  /\ <<c>> \in Name /\ Len(<<c>>) = 1 /\ <<c>>[1] = c /\ PlainName(<<c>>)
           /\ <<c, d>> \in Name /\ Len(<<c, d>>) = 2 /\ <<c, d>>[1] = c /\ <<c, d>>[2] = d
           /\ PlainName(<<c, d>>)
           /\ <<>> \in Name /\ Len(<<>>) = 0 /\ PlainName(<<>>)
<1>1. <<c>> \in Name /\ Len(<<c>>) = 1 /\ <<c>>[1] = c
  BY DEF Name
<1>2. <<c, d>> \in Name
  BY DEF Name
<1>3. Len(<<c, d>>) = 2 /\ <<c, d>>[1] = c /\ <<c, d>>[2] = d
  OBVIOUS
<1>4. <<>> \in Name /\ Len(<<>>) = 0
  BY EmptySeq DEF Name
<1>5. ASSUME NEW n, Len(n) = 1, n[1] = c PROVE PlainName(n)
  BY <1>5 DEF PlainName
<1>6. ASSUME NEW n, Len(n) = 2, n[1] = c, n[2] = d PROVE PlainName(n)
  <2>1. \A i \in 1 .. 2 : i = 1 \/ i = 2
    OBVIOUS
  <2> QED
    BY <1>6, <2>1 DEF PlainName
<1>7. PlainName(<<>>)
  BY <1>4 DEF PlainName
<1> QED
  BY <1>1, <1>2, <1>3, <1>4, <1>5, <1>6, <1>7, Zenon

\* The length of a name is a natural number.
LEMMA NameLength ==
    ASSUME NEW n \in Name
    PROVE  Len(n) \in Nat /\ (Len(n) >= 2 => n # <<>>)
BY EmptySeq DEF Name

\* The beginning of the name of a copy, and what comes after a slash.
LEMMA CopyEnds ==
    ASSUME NEW u, Cached(u)
    PROVE  /\ HostPart(u) \in Name /\ Len(HostPart(u)) = 2
           /\ HostPart(u)[1] = Part(Access[u], "") /\ HostPart(u)[2] = Part(LowerCase[HostName[u]], "")
           /\ PlainName(HostPart(u))
           /\ WelcomePart(u) \in Name /\ PlainName(WelcomePart(u))
           /\ u \in Slash => Len(WelcomePart(u)) = 1 /\ WelcomePart(u)[1] = WELCOME_FILE
           /\ u \notin Slash => Len(WelcomePart(u)) = 0
           /\ cache_file_name(u) = (HostPart(u) \o Path[u]) \o WelcomePart(u)
<1>1. Part(Access[u], "") \in Component /\ Part(LowerCase[HostName[u]], "") \in Component
  BY DEF Cached, Part, Component, Base, Suffix
<1>2. Access[u] # INDEX /\ LowerCase[HostName[u]] # INDEX
  BY ReservedIs, OwnNames DEF Cached, INDEX
<1>3. PlainPart(Part(Access[u], "")) /\ PlainPart(Part(LowerCase[HostName[u]], ""))
  BY <1>2 DEF Part, PlainPart
<1>4. /\ HostPart(u) \in Name /\ Len(HostPart(u)) = 2
      /\ HostPart(u)[1] = Part(Access[u], "") /\ HostPart(u)[2] = Part(LowerCase[HostName[u]], "")
      /\ PlainName(HostPart(u))
  BY <1>1, <1>3, ShortNames, Zenon DEF HostPart
<1>5. WELCOME_FILE \in Component /\ PlainPart(WELCOME_FILE)
  BY OwnComponents DEF INDEX, PlainPart
<1>6. ASSUME u \in Slash
      PROVE  /\ WelcomePart(u) \in Name /\ Len(WelcomePart(u)) = 1 /\ WelcomePart(u)[1] = WELCOME_FILE
             /\ PlainName(WelcomePart(u))
  <2>1. WelcomePart(u) = <<WELCOME_FILE>>
    BY <1>6, Zenon DEF WelcomePart
  <2>2. <<WELCOME_FILE>> \in Name /\ Len(<<WELCOME_FILE>>) = 1 /\ <<WELCOME_FILE>>[1] = WELCOME_FILE
        /\ PlainName(<<WELCOME_FILE>>)
    BY <1>5, ShortNames, Zenon
  <2> QED
    BY <2>1, <2>2, Zenon
<1>7. ASSUME u \notin Slash
      PROVE  WelcomePart(u) \in Name /\ Len(WelcomePart(u)) = 0 /\ PlainName(WelcomePart(u))
  <2>1. WelcomePart(u) = <<>>
    BY <1>7, Zenon DEF WelcomePart
  <2> QED
    BY <1>5, <2>1, ShortNames, Zenon
<1>8. cache_file_name(u) = (HostPart(u) \o Path[u]) \o WelcomePart(u)
  BY ReservedIs, Zenon DEF HostPart, WelcomePart
<1> QED
  BY <1>4, <1>6, <1>7, <1>8

\* Plain names make plain names.
LEMMA PlainConcat ==
    ASSUME NEW a \in Name, NEW b \in Name, PlainName(a), PlainName(b)
    PROVE  a \o b \in Name /\ Len(a \o b) = Len(a) + Len(b) /\ PlainName(a \o b)
<1>1. /\ a \o b \in Name /\ Len(a \o b) = Len(a) + Len(b) /\ Len(a) \in Nat /\ Len(b) \in Nat
      /\ \A i \in 1 .. Len(a) + Len(b) : (a \o b)[i] = IF i <= Len(a) THEN a[i] ELSE b[i - Len(a)]
  BY ConcatProperties DEF Name
<1>2. ASSUME NEW i \in 1 .. Len(a) + Len(b)
      PROVE  PlainPart((a \o b)[i])
  <2>1. ASSUME i <= Len(a) PROVE PlainPart((a \o b)[i])
    <3>1. i \in 1 .. Len(a)
      BY <1>1, <2>1
    <3> QED
      BY <1>1, <2>1, <3>1 DEF PlainName
  <2>2. ASSUME ~ (i <= Len(a)) PROVE PlainPart((a \o b)[i])
    <3>1. i - Len(a) \in 1 .. Len(b)
      BY <1>1, <2>2
    <3> QED
      BY <1>1, <2>2, <3>1 DEF PlainName
  <2> QED
    BY <2>1, <2>2
<1> QED
  BY <1>1, <1>2 DEF PlainName

\* What the names of all copies have in common.
LEMMA CopyName ==
    ASSUME NEW u, Cached(u)
    PROVE  /\ cache_file_name(u) \in Name /\ Len(cache_file_name(u)) >= 2
           /\ PlainName(cache_file_name(u)) /\ cache_file_name(u) # <<>>
<1>1. Path[u] \in Name /\ PlainName(Path[u]) /\ Len(Path[u]) \in Nat
  BY PathIs, NameLength, Zenon
<1>2. /\ HostPart(u) \o Path[u] \in Name /\ Len(HostPart(u) \o Path[u]) = Len(HostPart(u)) + Len(Path[u])
      /\ PlainName(HostPart(u) \o Path[u])
  BY <1>1, CopyEnds, PlainConcat, Zenon
<1>3. Len(WelcomePart(u)) \in Nat /\ Len(HostPart(u)) = 2
  BY CopyEnds, NameLength, Zenon
<1>4. /\ cache_file_name(u) \in Name /\ PlainName(cache_file_name(u))
      /\ Len(cache_file_name(u)) = Len(HostPart(u) \o Path[u]) + Len(WelcomePart(u))
  <2>1. WelcomePart(u) \in Name /\ PlainName(WelcomePart(u))
    BY CopyEnds, Zenon
  <2>2. /\ (HostPart(u) \o Path[u]) \o WelcomePart(u) \in Name
        /\ PlainName((HostPart(u) \o Path[u]) \o WelcomePart(u))
        /\ Len((HostPart(u) \o Path[u]) \o WelcomePart(u)) = Len(HostPart(u) \o Path[u]) + Len(WelcomePart(u))
    BY <1>2, <2>1, PlainConcat, Zenon
  <2>3. cache_file_name(u) = (HostPart(u) \o Path[u]) \o WelcomePart(u)
    BY CopyEnds, Zenon
  <2> QED
    BY <2>2, <2>3, Zenon
<1>5. Len(cache_file_name(u)) >= 2
  <2>1. \A k, l \in Nat : (2 + k) + l >= 2
    OBVIOUS
  <2> QED
    BY <1>1, <1>2, <1>3, <1>4, <2>1, Zenon
<1> QED
  BY <1>4, <1>5, NameLength, Zenon

\* The components of the name of a copy.
PartsOf(u, n, k) ==
    /\ k \in Nat /\ k = Len(Path[u])
    /\ u \in Slash => Len(n) = k + 3 /\ n[k + 3] = WELCOME_FILE
    /\ u \notin Slash => Len(n) = k + 2
    /\ n[1] = Part(Access[u], "") /\ n[2] = Part(LowerCase[HostName[u]], "")
    /\ \A i \in 1 .. k : n[i + 2] = Path[u][i]

\* Where the parts of a URL are in the name of its copy.
LEMMA CopyParts ==
    ASSUME NEW u, Cached(u)
    PROVE  PartsOf(u, cache_file_name(u), Len(Path[u]))
<1> DEFINE h == HostPart(u)
           w == WelcomePart(u)
           k == Len(Path[u])
           n == cache_file_name(u)
<1>1. h \in Name /\ Len(h) = 2 /\ h[1] = Part(Access[u], "") /\ h[2] = Part(LowerCase[HostName[u]], "")
  BY CopyEnds
<1>2. /\ w \in Name /\ Len(w) \in Nat /\ (u \in Slash => Len(w) = 1 /\ w[1] = WELCOME_FILE)
      /\ (u \notin Slash => Len(w) = 0)
  BY CopyEnds, NameLength, Zenon
<1>3. Path[u] \in Name /\ k \in Nat /\ k = Len(Path[u])
  BY PathIs, NameLength, Zenon
<1>4. n = (h \o Path[u]) \o w
  BY CopyEnds
<1> HIDE DEF h, w, k, n
<1>5. /\ h \o Path[u] \in Name /\ Len(h \o Path[u]) = 2 + k
      /\ \A i \in 1 .. 2 + k : (h \o Path[u])[i] = IF i <= 2 THEN h[i] ELSE Path[u][i - 2]
  <2>1. /\ h \o Path[u] \in Name /\ Len(h \o Path[u]) = Len(h) + Len(Path[u])
        /\ \A i \in 1 .. Len(h) + Len(Path[u]) :
              (h \o Path[u])[i] = IF i <= Len(h) THEN h[i] ELSE Path[u][i - Len(h)]
    BY <1>1, <1>3, ConcatProperties DEF Name
  <2> QED
    BY <1>1, <1>3, <2>1
<1> DEFINE m == Len(w)
<1>6. m \in Nat /\ (u \in Slash => m = 1) /\ (u \notin Slash => m = 0)
  BY <1>2
<1>7. /\ Len(n) = 2 + k + m
      /\ \A i \in 1 .. 2 + k + m : n[i] = IF i <= 2 + k THEN (h \o Path[u])[i] ELSE w[i - (2 + k)]
  <2>1. /\ Len((h \o Path[u]) \o w) = Len(h \o Path[u]) + Len(w)
        /\ \A i \in 1 .. Len(h \o Path[u]) + Len(w) : ((h \o Path[u]) \o w)[i] =
              IF i <= Len(h \o Path[u]) THEN (h \o Path[u])[i] ELSE w[i - Len(h \o Path[u])]
    BY <1>2, <1>5, ConcatProperties DEF Name
  <2> QED
    BY <1>4, <1>5, <2>1
<1> HIDE DEF m
<1>8. n[1] = h[1] /\ n[2] = h[2]
  <2>1. 1 \in 1 .. 2 + k + m /\ 2 \in 1 .. 2 + k + m /\ 1 \in 1 .. 2 + k /\ 2 \in 1 .. 2 + k
        /\ 1 <= 2 + k /\ 2 <= 2 + k
    BY <1>3, <1>6
  <2> QED
    BY <1>5, <1>7, <2>1
<1>9. ASSUME NEW i \in 1 .. k PROVE n[i + 2] = Path[u][i]
  <2>1. i + 2 \in 1 .. 2 + k + m /\ i + 2 \in 1 .. 2 + k /\ i + 2 <= 2 + k /\ ~ (i + 2 <= 2) /\ i + 2 - 2 = i
    BY <1>3, <1>6
  <2> QED
    BY <1>5, <1>7, <2>1
<1>10. ASSUME u \in Slash PROVE Len(n) = k + 3 /\ n[k + 3] = WELCOME_FILE
  <2>1. m = 1 /\ w[1] = WELCOME_FILE
    BY <1>2, <1>6, <1>10
  <2>2. k + 3 \in 1 .. 2 + k + m /\ ~ (k + 3 <= 2 + k) /\ k + 3 - (2 + k) = 1 /\ 2 + k + m = k + 3
    BY <1>3, <2>1
  <2> DEFINE e == k + 3
  <2>3. e \in 1 .. 2 + k + m /\ ~ (e <= 2 + k) /\ e - (2 + k) = 1 /\ Len(n) = e
    <3>1. Len(n) = 2 + k + m
      BY <1>7
    <3> QED
      BY <1>3, <1>6, <2>2, <3>1
  <2> HIDE DEF e
  <2>4. n[e] = WELCOME_FILE /\ Len(n) = e
    BY <1>7, <2>1, <2>3
  <2> QED
    BY <2>4 DEF e
<1>11. ASSUME u \notin Slash PROVE Len(n) = k + 2
  <2>1. m = 0
    BY <1>6, <1>11
  <2> QED
    BY <1>3, <1>7, <2>1
<1>12. PartsOf(u, n, k)
  BY <1>1, <1>3, <1>8, <1>9, <1>10, <1>11 DEF PartsOf
<1> QED
  BY <1>12 DEF n, k

\* Plain names that lead to the same are the same.
LEMMA PlainSame ==
    ASSUME NEW n \in Name, NEW m \in Name, PlainName(n), PlainName(m), Norm(n) = Norm(m)
    PROVE  n = m
<1>1. Len(Norm(n)) = Len(n) /\ \A i \in 1 .. Len(n) : Norm(n)[i] = n[i].base
  BY NormPlain DEF PlainName, PlainPart
<1>2. Len(Norm(m)) = Len(m) /\ \A i \in 1 .. Len(m) : Norm(m)[i] = m[i].base
  BY NormPlain DEF PlainName, PlainPart
<1>3. Len(n) = Len(m)
  BY <1>1, <1>2
<1>4. ASSUME NEW i \in 1 .. Len(n) PROVE n[i] = m[i]
  <2>1. n[i] \in Component /\ m[i] \in Component
    BY <1>3 DEF Name
  <2>2. n[i].base = m[i].base /\ n[i].suffix = m[i].suffix
    BY <1>1, <1>2, <1>3 DEF PlainName, PlainPart
  <2>3. \A c, d \in Component : c.base = d.base /\ c.suffix = d.suffix => c = d
    BY DEF Component
  <2> QED
    BY <2>1, <2>2, <2>3
<1> QED
  BY <1>3, <1>4, SeqEqual DEF Name

\* Copies of one name are copies of one document.
LEMMA CopySame ==
    ASSUME NEW u, NEW v, Cached(u), Cached(v), cache_file_name(u) = cache_file_name(v)
    PROVE  SameDocument(u, v)
<1> DEFINE n == cache_file_name(u)
           k == Len(Path[u])
           l == Len(Path[v])
<1>1. PartsOf(u, n, k) /\ PartsOf(v, n, l)
  BY CopyParts
<1> HIDE DEF n, k, l
<1>2. Access[u] = Access[v] /\ LowerCase[HostName[u]] = LowerCase[HostName[v]]
  <2>1. \A x, y : Part(x, "") = Part(y, "") => x = y
    BY DEF Part
  <2>2. Part(Access[u], "") = Part(Access[v], "")
        /\ Part(LowerCase[HostName[u]], "") = Part(LowerCase[HostName[v]], "")
    BY <1>1 DEF PartsOf
  <2> QED
    BY <2>1, <2>2, Zenon
<1>3. Path[u] \in Name /\ Path[v] \in Name
  BY PathIs
<1>4. ASSUME NEW a, NEW b, Cached(b), NEW m, NEW j, NEW i,
             PartsOf(a, m, j), PartsOf(b, m, i), a \in Slash, b \notin Slash
      PROVE  FALSE
  <2>1. i \in Nat /\ Len(m) = i + 2 /\ (\A e \in 1 .. i : m[e + 2] = Path[b][e]) /\ i = Len(Path[b])
    BY <1>4 DEF PartsOf
  <2>2. j \in Nat /\ Len(m) = j + 3 /\ m[j + 3] = WELCOME_FILE
    BY <1>4 DEF PartsOf
  <2>3. i = j + 1 /\ i \in 1 .. i /\ i + 2 = j + 3 /\ i # 0
    BY <2>1, <2>2
  <2>4. Path[b][i] = WELCOME_FILE
    BY <2>1, <2>2, <2>3
  <2>5. Path[b] # <<>>
    BY <2>1, <2>3, EmptySeq
  <2>6. Last(Path[b]) = WELCOME_FILE
    BY <2>1, <2>4 DEF Last
  <2> QED
    BY <1>4, <2>5, <2>6, PathIs, OwnComponents
<1>5. u \in Slash <=> v \in Slash
  BY <1>1, <1>4
<1>6. k = l
  <2>1. k \in Nat /\ l \in Nat /\ ((Len(n) = k + 3 /\ Len(n) = l + 3) \/ (Len(n) = k + 2 /\ Len(n) = l + 2))
    BY <1>1, <1>5, Zenon DEF PartsOf
  <2> QED
    BY <2>1
<1>7. Path[u] = Path[v]
  <2>1. Len(Path[u]) = Len(Path[v]) /\ Len(Path[u]) = k
    BY <1>1, <1>6 DEF PartsOf
  <2>2. ASSUME NEW i \in 1 .. Len(Path[u]) PROVE Path[u][i] = Path[v][i]
    BY <1>1, <1>6, <2>1 DEF PartsOf
  <2> QED
    BY <1>3, <2>1, <2>2, SeqEqual DEF Name
<1> QED
  BY <1>2, <1>5, <1>7 DEF SameDocument

\* So are those whose names lead to the same.
LEMMA SameName ==
    ASSUME NEW u, NEW v, Cached(u), Cached(v), Norm(cache_file_name(u)) = Norm(cache_file_name(v))
    PROVE  cache_file_name(u) = cache_file_name(v) /\ SameDocument(u, v)
BY CopyName, PlainSame, CopySame

\* Suffixes of the end, and an index, do not change what a name leads to.
LEMMA NormWith ==
    ASSUME NEW n \in Name, n # <<>>, NEW x \in Suffix
    PROVE  Norm(With(n, x)) = Norm(n)
<1>1. /\ Front(n) \in Name /\ Last(n) \in Component /\ n = Append(Front(n), Last(n))
  BY NameEnds
<1>2. Part(Last(n).base, x) \in Component /\ Part(Last(n).base, x).base = Last(n).base
  BY <1>1 DEF Part, Component
<1>3. Norm(With(n, x)) = Step(Norm(Front(n)), Part(Last(n).base, x))
  BY <1>1, <1>2, NormAppend DEF With
<1>4. Norm(n) = Step(Norm(Front(n)), Last(n))
  BY <1>1, NormAppend
<1> QED
  BY <1>2, <1>3, <1>4 DEF Step

\* An index leads to where its directory does.
LEMMA NormIndex ==
    ASSUME NEW n \in Name
    PROVE  Norm(Append(n, INDEX_FILE)) = Norm(n)
BY OwnComponents, NormAppend DEF Step, INDEX

-----------------------------------------------------------------------------
(* The tree.                                                               *)

\* A prefix is what something was added to.
LEMMA PrefixIs ==
    ASSUME NEW n \in Name, NEW m \in Name
    PROVE  IsPrefix(n, m) <=> \E r \in Name : m = n \o r
<1>1. ASSUME IsPrefix(n, m) PROVE \E r \in Name : m = n \o r
  BY <1>1, Suffixed
<1>2. ASSUME NEW r \in Name, m = n \o r PROVE IsPrefix(n, m)
  BY <1>2, Extended
<1> QED
  BY <1>1, <1>2

\* What begins a beginning begins the name.
LEMMA PrefixTransitive ==
    ASSUME NEW a \in Name, NEW b \in Name, NEW c \in Name, IsPrefix(a, b), IsPrefix(b, c)
    PROVE  IsPrefix(a, c) /\ Len(a) <= Len(b)
<1>1. PICK r \in Name : b = a \o r
  BY PrefixIs
<1>2. PICK s \in Name : c = b \o s
  BY PrefixIs
<1>3. r \o s \in Name
  BY Extended
<1>4. c = a \o (r \o s)
  BY <1>1, <1>2, ConcatAssociative DEF Name
<1>5. Len(a) <= Len(b)
  BY DEF IsPrefix
<1> QED
  BY <1>3, <1>4, <1>5, PrefixIs

\* The beginning of a name is a prefix of it, and of nothing shorter.
LEMMA BeginningPrefix ==
    ASSUME NEW n \in Name, NEW i \in 0 .. Len(n)
    PROVE  SubSeq(n, 1, i) \in Name /\ Len(SubSeq(n, 1, i)) = i /\ IsPrefix(SubSeq(n, 1, i), n)
<1> DEFINE b == SubSeq(n, 1, i)
<1>1. b \in Name /\ Len(b) = i
  BY Beginning
<1>2. i <= Len(n)
  BY DEF Name
<1>3. SubSeq(b, 1, Len(b)) = b
  BY <1>1, SubSeqFull DEF Name
<1>4. IsPrefix(b, n)
  <2>1. b = SubSeq(n, 1, i)
    OBVIOUS
  <2> HIDE DEF b
  <2> QED
    BY <1>1, <1>2, <1>3, <2>1 DEF IsPrefix
<1> QED
  BY <1>1, <1>4

\* The beginning of a name that consists of two.
LEMMA BeginningOfTwo ==
    ASSUME NEW n \in Name, NEW r \in Name, NEW i \in 0 .. Len(n) + Len(r)
    PROVE  /\ i <= Len(n) => SubSeq(n \o r, 1, i) = SubSeq(n, 1, i)
           /\ Len(n) <= i =>
                 i - Len(n) \in 0 .. Len(r) /\ SubSeq(n \o r, 1, i) = n \o SubSeq(r, 1, i - Len(n))
<1>1. /\ n \o r \in Name /\ Len(n \o r) = Len(n) + Len(r) /\ Len(n) \in Nat /\ Len(r) \in Nat
      /\ \A j \in 1 .. Len(n) + Len(r) : (n \o r)[j] = IF j <= Len(n) THEN n[j] ELSE r[j - Len(n)]
  BY ConcatProperties DEF Name
<1> DEFINE b == SubSeq(n \o r, 1, i)
<1>2. b \in Name /\ Len(b) = i /\ \A j \in 1 .. i : b[j] = (n \o r)[j]
  BY <1>1, Beginning
<1>3. i \in Nat /\ \A j \in 1 .. i : j \in 1 .. Len(n) + Len(r)
  BY <1>1
<1> HIDE DEF b
<1>4. ASSUME i <= Len(n) PROVE b = SubSeq(n, 1, i)
  <2> DEFINE c == SubSeq(n, 1, i)
  <2>1. c \in Name /\ Len(c) = i /\ \A j \in 1 .. i : c[j] = n[j]
    BY <1>1, <1>4, Beginning
  <2> HIDE DEF c
  <2>2. \A j \in 1 .. i : j <= Len(n)
    BY <1>1, <1>4
  <2>3. \A j \in 1 .. i : b[j] = c[j]
    BY <1>1, <1>2, <1>3, <2>1, <2>2
  <2>4. b = c
    BY <1>2, <2>1, <2>3, SeqEqual DEF Name
  <2> QED
    BY <2>4 DEF c
<1>5. ASSUME Len(n) <= i
      PROVE  i - Len(n) \in 0 .. Len(r) /\ b = n \o SubSeq(r, 1, i - Len(n))
  <2> DEFINE k == i - Len(n)
             c == SubSeq(r, 1, k)
  <2>1. k \in 0 .. Len(r) /\ k \in Nat /\ Len(n) + k = i
    BY <1>1, <1>5
  <2> HIDE DEF k
  <2>2. c \in Name /\ Len(c) = k /\ \A j \in 1 .. k : c[j] = r[j]
    BY <2>1, Beginning
  <2> HIDE DEF c
  <2>3. /\ n \o c \in Name /\ Len(n \o c) = Len(n) + Len(c)
        /\ \A j \in 1 .. Len(n) + Len(c) : (n \o c)[j] = IF j <= Len(n) THEN n[j] ELSE c[j - Len(n)]
    BY <2>2, ConcatProperties DEF Name
  <2>4. ASSUME NEW j \in 1 .. i PROVE b[j] = (n \o c)[j]
    <3>1. j \in 1 .. Len(n) + Len(r) /\ j \in 1 .. Len(n) + Len(c) /\ (~ (j <= Len(n)) => j - Len(n) \in 1 .. k)
      BY <1>1, <1>3, <2>1, <2>2
    <3>2. b[j] = IF j <= Len(n) THEN n[j] ELSE r[j - Len(n)]
      BY <1>1, <1>2, <3>1
    <3>3. (n \o c)[j] = IF j <= Len(n) THEN n[j] ELSE c[j - Len(n)]
      BY <2>3, <3>1
    <3> QED
      BY <2>2, <3>1, <3>2, <3>3
  <2>5. b = n \o c
    BY <1>2, <2>1, <2>2, <2>3, <2>4, SeqEqual DEF Name
  <2> QED
    BY <2>1, <2>5 DEF k, c
<1> QED
  BY <1>4, <1>5 DEF b

\* What is in the tree is in directories.
WellFormed ==
    \A n \in DOMAIN tree :
        /\ n \in Name /\ n # <<>> /\ tree[n] \in Url \cup {"dir"}
        /\ \A i \in 1 .. Len(n) - 1 : SubSeq(n, 1, i) \in DOMAIN tree /\ tree[SubSeq(n, 1, i)] = "dir"

\* Nothing is below what is no directory.
LEMMA NothingBelow ==
    ASSUME WellFormed, NEW n \in Name, n # <<>>, ~ IsDir(n), NEW m \in DOMAIN tree, IsPrefix(n, m)
    PROVE  m = n
<1>1. m \in Name /\ Len(m) \in Nat /\ Len(n) \in Nat \ {0}
  BY NameEnds, NameLength DEF WellFormed
<1>2. Len(n) <= Len(m) /\ SubSeq(m, 1, Len(n)) = n
  <2>1. SubSeq(n, 1, Len(n)) = n
    BY SubSeqFull DEF Name
  <2> QED
    BY <2>1 DEF IsPrefix
<1>3. Len(n) = Len(m)
  <2>1. SUFFICES ASSUME Len(n) # Len(m) PROVE FALSE
    OBVIOUS
  <2>2. Len(n) \in 1 .. Len(m) - 1
    BY <1>1, <1>2, <2>1
  <2>3. n \in DOMAIN tree /\ tree[n] = "dir"
    BY <1>2, <2>2 DEF WellFormed
  <2> QED
    BY <2>3 DEF IsDir, Stat
<1> QED
  BY <1>1, <1>2, <1>3, SubSeqFull DEF Name

\* What rename() does to the tree: what is old, or below it, moves; all else stays.
Moves(old, new) ==
    /\ \A m \in DOMAIN tree' :
          \/ m \in DOMAIN tree /\ ~ IsPrefix(old, m) /\ ~ IsPrefix(new, m) /\ tree'[m] = tree[m]
          \/ \E r \in Name : m = new \o r /\ old \o r \in DOMAIN tree /\ tree'[m] = tree[old \o r]
    /\ \A m \in DOMAIN tree : ~ IsPrefix(old, m) /\ ~ IsPrefix(new, m) => m \in DOMAIN tree' /\ tree'[m] = tree[m]
    /\ \A r \in Name : old \o r \in DOMAIN tree =>
          new \o r \in DOMAIN tree' /\ tree'[new \o r] = tree[old \o r]

\* Nothing is below the new name.
LEMMA RenameOver ==
    ASSUME WellFormed, NEW old \in Name, old # <<>>, NEW new \in Name, new # <<>>, CanRename(old, new),
           NEW m \in DOMAIN tree, IsPrefix(new, m)
    PROVE  m = new
<1>1. ASSUME ~ IsDir(new) PROVE m = new
  BY <1>1, NothingBelow
<1>2. ASSUME IsDir(new) PROVE m = new
  <2>1. "dir" # Absent
    BY UrlAssumption
  <2>2. Stat(new) = "dir"
    BY <1>2 DEF IsDir
  <2>3. Below(new) = {}
    BY <2>1, <2>2 DEF CanRename, IsReg
  <2> QED
    BY <2>3 DEF Below
<1> QED
  BY <1>1, <1>2

\* rename() in the terms above.
LEMMA RenameDoes ==
    ASSUME WellFormed, NEW old \in Name, old # <<>>, NEW new \in Name, new # <<>>,
           CanRename(old, new), Rename(old, new)
    PROVE  Moves(old, new)
<1> DEFINE stay == DOMAIN tree \ (Below(old) \cup {old, new})
           goes == Below(old) \cup {old}
           D == stay \cup {Moved(k, old, new) : k \in goes \cap DOMAIN tree}
<1>1. tree' = [m \in D |-> IF IsPrefix(new, m) THEN tree[Moved(m, new, old)] ELSE tree[m]]
  BY Zenon DEF Rename
<1>2. DOMAIN tree' = D /\ \A m \in D : tree'[m] = IF IsPrefix(new, m) THEN tree[Moved(m, new, old)] ELSE tree[m]
  <2> HIDE DEF D
  <2> QED
    BY <1>1
<1>3. ASSUME NEW m \in DOMAIN tree PROVE m \in Name
  BY DEF WellFormed
<1>4. IsPrefix(old, old)
  BY DEF IsPrefix, Name
<1>5. \A m \in DOMAIN tree : m \in goes <=> IsPrefix(old, m)
  BY <1>4 DEF Below
<1>6. \A m \in DOMAIN tree : m \in stay <=> ~ IsPrefix(old, m) /\ ~ IsPrefix(new, m)
  <2>1. IsPrefix(new, new)
    BY DEF IsPrefix, Name
  <2>2. \A m \in DOMAIN tree : IsPrefix(new, m) <=> m = new
    BY <2>1, RenameOver
  <2> HIDE DEF goes
  <2>3. \A m \in DOMAIN tree : m \in stay <=> m \notin goes /\ m # new
    BY DEF goes
  <2> QED
    BY <1>5, <2>2, <2>3
<1>7. ASSUME NEW m \in DOMAIN tree, IsPrefix(old, m)
      PROVE  \E r \in Name : m = old \o r /\ Moved(m, old, new) = new \o r
  <2>1. PICK r \in Name : m = old \o r
    BY <1>3, <1>7, PrefixIs
  <2> QED
    BY <2>1, MovedIs
<1>8. ASSUME NEW r \in Name, old \o r \in DOMAIN tree
      PROVE  new \o r \in D /\ tree'[new \o r] = tree[old \o r]
  <2>1. IsPrefix(old, old \o r) /\ IsPrefix(new, new \o r)
    BY Extended
  <2>2. Moved(old \o r, old, new) = new \o r /\ Moved(new \o r, new, old) = old \o r
    BY MovedIs
  <2>3. old \o r \in goes \cap DOMAIN tree
    BY <1>5, <1>8, <2>1
  <2>4. new \o r \in D
    <3> HIDE DEF goes, stay
    <3> QED
      BY <2>2, <2>3
  <2> HIDE DEF D
  <2> QED
    BY <1>2, <2>1, <2>2, <2>4
<1> HIDE DEF goes, stay
<1>9. ASSUME NEW m \in DOMAIN tree, ~ IsPrefix(old, m), ~ IsPrefix(new, m)
      PROVE  m \in D /\ tree'[m] = tree[m]
  <2>1. m \in D
    BY <1>6, <1>9
  <2> HIDE DEF D
  <2> QED
    BY <1>2, <1>9, <2>1
<1>10. ASSUME NEW m \in D
       PROVE  \/ m \in DOMAIN tree /\ ~ IsPrefix(old, m) /\ ~ IsPrefix(new, m) /\ tree'[m] = tree[m]
              \/ \E r \in Name : m = new \o r /\ old \o r \in DOMAIN tree /\ tree'[m] = tree[old \o r]
  <2>1. ASSUME m \in stay
        PROVE  m \in DOMAIN tree /\ ~ IsPrefix(old, m) /\ ~ IsPrefix(new, m) /\ tree'[m] = tree[m]
    <3>1. m \in DOMAIN tree
      BY <2>1 DEF stay
    <3> QED
      BY <1>6, <1>9, <2>1, <3>1
  <2>2. ASSUME NEW k \in goes \cap DOMAIN tree, m = Moved(k, old, new)
        PROVE  \E r \in Name : m = new \o r /\ old \o r \in DOMAIN tree /\ tree'[m] = tree[old \o r]
    BY <1>5, <1>7, <1>8, <2>2
  <2> QED
    BY <2>1, <2>2
<1> HIDE DEF D
<1> QED
  BY <1>2, <1>8, <1>9, <1>10, Zenon DEF Moves

\* A document is where its URL leads to, however often its copy was moved.
Contents ==
    \A n \in DOMAIN tree : tree[n] # "dir" => Cached(tree[n]) /\ Norm(n) = Norm(cache_file_name(tree[n]))

TreeRight == WellFormed /\ Contents

\* A directory's beginnings are directories.
LEMMA BeginningsOfDir ==
    ASSUME WellFormed, NEW n \in Name, n # <<>>, IsDir(Front(n)), NEW i \in 1 .. Len(n) - 1
    PROVE  SubSeq(n, 1, i) \in DOMAIN tree /\ tree[SubSeq(n, 1, i)] = "dir"
<1> DEFINE f == Front(n)
<1>1. f \in Name /\ Len(f) = Len(n) - 1 /\ Len(n) \in Nat \ {0} /\ f = SubSeq(n, 1, Len(n) - 1)
  BY NameEnds DEF Front
<1>2. f # <<>>
  <2>1. Len(<<>>) = 0 /\ Len(n) - 1 # 0
    BY <1>1, EmptySeq
  <2> HIDE DEF f
  <2> QED
    BY <1>1, <2>1
<1>3. f \in DOMAIN tree /\ tree[f] = "dir"
  <2>1. Absent # "dir"
    BY UrlAssumption
  <2> QED
    BY <1>2, <2>1 DEF IsDir, Stat
<1>4. SubSeq(n, 1, i) = SubSeq(f, 1, i)
  <2>1. i \in 0 .. Len(n) /\ i \in 0 .. Len(f)
    BY <1>1
  <2> HIDE DEF f
  <2>2. \A j \in 1 .. Len(n) - 1 : f[j] = n[j]
    BY NameEnds DEF f
  <2>3. /\ SubSeq(n, 1, i) \in Name /\ Len(SubSeq(n, 1, i)) = i /\ \A j \in 1 .. i : SubSeq(n, 1, i)[j] = n[j]
    BY <2>1, Beginning
  <2>4. /\ SubSeq(f, 1, i) \in Name /\ Len(SubSeq(f, 1, i)) = i /\ \A j \in 1 .. i : SubSeq(f, 1, i)[j] = f[j]
    BY <1>1, <2>1, Beginning
  <2>5. \A j \in 1 .. i : SubSeq(n, 1, i)[j] = SubSeq(f, 1, i)[j]
    BY <1>1, <2>2, <2>3, <2>4
  <2> QED
    BY <2>3, <2>4, <2>5, SeqEqual DEF Name
<1> HIDE DEF f
<1>5. ASSUME i = Len(f) PROVE SubSeq(f, 1, i) = f
  BY <1>1, <1>5, SubSeqFull DEF Name
<1>6. ASSUME i # Len(f) PROVE SubSeq(f, 1, i) \in DOMAIN tree /\ tree[SubSeq(f, 1, i)] = "dir"
  <2>1. i \in 1 .. Len(f) - 1
    BY <1>1, <1>6
  <2> QED
    BY <1>3, <2>1 DEF WellFormed
<1> QED
  BY <1>3, <1>4, <1>5, <1>6

\* What has moved is in directories again.
LEMMA MovesWellFormed ==
    ASSUME WellFormed, NEW old \in Name, old # <<>>, NEW new \in Name, new # <<>>,
           CanRename(old, new), Moves(old, new)
    PROVE  WellFormed'
<1>1. ASSUME NEW m \in DOMAIN tree', NEW i \in 1 .. Len(m) - 1,
             m \in DOMAIN tree, ~ IsPrefix(old, m), ~ IsPrefix(new, m)
      PROVE  SubSeq(m, 1, i) \in DOMAIN tree' /\ tree'[SubSeq(m, 1, i)] = "dir"
  <2> DEFINE b == SubSeq(m, 1, i)
  <2>1. m \in Name /\ b \in DOMAIN tree /\ tree[b] = "dir"
    BY <1>1 DEF WellFormed
  <2>2. i \in 0 .. Len(m)
    BY <2>1, NameLength
  <2>3. b \in Name /\ IsPrefix(b, m)
    BY <2>1, <2>2, BeginningPrefix
  <2> HIDE DEF b
  <2>4. ~ IsPrefix(old, b) /\ ~ IsPrefix(new, b)
    BY <1>1, <2>1, <2>3, PrefixTransitive
  <2>5. b \in DOMAIN tree' /\ tree'[b] = "dir"
    BY <2>1, <2>4 DEF Moves
  <2> QED
    BY <2>5 DEF b
<1>2. ASSUME NEW i \in 1 .. Len(new) - 1
      PROVE  SubSeq(new, 1, i) \in DOMAIN tree' /\ tree'[SubSeq(new, 1, i)] = "dir"
  <2> DEFINE b == SubSeq(new, 1, i)
  <2>1. IsDir(Front(new)) /\ ~ IsStrictPrefix(old, new)
    BY DEF CanRename
  <2>2. b \in DOMAIN tree /\ tree[b] = "dir"
    BY <2>1, BeginningsOfDir
  <2>3. i \in 0 .. Len(new) /\ Len(new) \in Nat /\ i < Len(new) /\ i \in Nat
    BY NameLength
  <2>4. b \in Name /\ IsPrefix(b, new) /\ Len(b) = i
    BY <2>3, BeginningPrefix
  <2> HIDE DEF b
  <2>5. ~ IsPrefix(new, b)
    BY <2>3, <2>4 DEF IsPrefix
  <2>6. ~ IsPrefix(old, b)
    <3>1. SUFFICES ASSUME IsPrefix(old, b) PROVE FALSE
      OBVIOUS
    <3>2. IsPrefix(old, new) /\ Len(old) <= Len(b)
      BY <2>4, <3>1, PrefixTransitive
    <3>3. old # new
      BY <2>3, <2>4, <3>2
    <3> QED
      BY <2>1, <3>2, <3>3 DEF IsStrictPrefix
  <2>7. b \in DOMAIN tree' /\ tree'[b] = "dir"
    BY <2>2, <2>5, <2>6 DEF Moves
  <2> QED
    BY <2>7 DEF b
<1>3. ASSUME NEW r \in Name, old \o r \in DOMAIN tree, NEW i \in 1 .. Len(new \o r) - 1
      PROVE  SubSeq(new \o r, 1, i) \in DOMAIN tree' /\ tree'[SubSeq(new \o r, 1, i)] = "dir"
  <2>1. /\ Len(new \o r) = Len(new) + Len(r) /\ Len(old \o r) = Len(old) + Len(r)
        /\ Len(new) \in Nat /\ Len(r) \in Nat /\ Len(old) \in Nat \ {0}
    BY Extended, NameLength, NameEnds
  <2>2. i \in 0 .. Len(new) + Len(r)
    BY <2>1
  <2>3. ASSUME i < Len(new)
        PROVE  SubSeq(new \o r, 1, i) \in DOMAIN tree' /\ tree'[SubSeq(new \o r, 1, i)] = "dir"
    <3>1. i \in 1 .. Len(new) - 1 /\ i <= Len(new)
      BY <2>1, <2>3
    <3>2. SubSeq(new \o r, 1, i) = SubSeq(new, 1, i)
      BY <2>2, <3>1, BeginningOfTwo
    <3> QED
      BY <1>2, <3>1, <3>2
  <2>4. ASSUME ~ (i < Len(new))
        PROVE  SubSeq(new \o r, 1, i) \in DOMAIN tree' /\ tree'[SubSeq(new \o r, 1, i)] = "dir"
    <3> DEFINE j == i - Len(new)
               s == SubSeq(r, 1, j)
    <3>1. Len(new) <= i
      BY <2>1, <2>2, <2>4
    <3>2. SubSeq(new \o r, 1, i) = new \o s /\ j \in 0 .. Len(r)
      BY <2>2, <3>1, BeginningOfTwo
    <3>3. s \in Name
      BY <3>2, Beginning
    <3>4. /\ Len(old) + j \in 0 .. Len(old) + Len(r) /\ Len(old) <= Len(old) + j /\ Len(old) + j - Len(old) = j
          /\ Len(old) + j \in 1 .. Len(old \o r) - 1
      BY <2>1, <3>1, <3>2
    <3>5. SubSeq(old \o r, 1, Len(old) + j) = old \o s
      <4> DEFINE e == Len(old) + j
      <4>1. e \in 0 .. Len(old) + Len(r) /\ Len(old) <= e
        BY <3>4
      <4>2. e - Len(old) = j
        BY <3>4
      <4> HIDE DEF e, j
      <4>3. SubSeq(old \o r, 1, e) = old \o SubSeq(r, 1, e - Len(old))
        BY <4>1, BeginningOfTwo
      <4> QED
        BY <4>2, <4>3 DEF e
    <3>6. old \o s \in DOMAIN tree /\ tree[old \o s] = "dir"
      BY <1>3, <3>4, <3>5 DEF WellFormed
    <3>7. new \o s \in DOMAIN tree' /\ tree'[new \o s] = "dir"
      BY <3>3, <3>6 DEF Moves
    <3> QED
      BY <3>2, <3>7
  <2> QED
    BY <2>3, <2>4
<1>4. ASSUME NEW m \in DOMAIN tree'
      PROVE  /\ m \in Name /\ m # <<>> /\ tree'[m] \in Url \cup {"dir"}
             /\ \A i \in 1 .. Len(m) - 1 : SubSeq(m, 1, i) \in DOMAIN tree' /\ tree'[SubSeq(m, 1, i)] = "dir"
  <2>1. ASSUME m \in DOMAIN tree /\ ~ IsPrefix(old, m) /\ ~ IsPrefix(new, m) /\ tree'[m] = tree[m]
        PROVE  m \in Name /\ m # <<>> /\ tree'[m] \in Url \cup {"dir"}
    BY <2>1 DEF WellFormed
  <2>2. ASSUME NEW r \in Name, m = new \o r /\ old \o r \in DOMAIN tree /\ tree'[m] = tree[old \o r]
        PROVE  m \in Name /\ m # <<>> /\ tree'[m] \in Url \cup {"dir"}
    BY <2>2, Extended DEF WellFormed
  <2>3. ASSUME NEW r \in Name, m = new \o r, old \o r \in DOMAIN tree
        PROVE  \A i \in 1 .. Len(m) - 1 : SubSeq(m, 1, i) \in DOMAIN tree' /\ tree'[SubSeq(m, 1, i)] = "dir"
    BY <1>3, <2>3
  <2>4. \/ m \in DOMAIN tree /\ ~ IsPrefix(old, m) /\ ~ IsPrefix(new, m) /\ tree'[m] = tree[m]
        \/ \E r \in Name : m = new \o r /\ old \o r \in DOMAIN tree /\ tree'[m] = tree[old \o r]
    BY DEF Moves
  <2> QED
    BY <1>1, <2>1, <2>2, <2>3, <2>4
<1> QED
  BY <1>4 DEF WellFormed

\* A move between names that lead to the same place keeps contents right.
LEMMA MovesContents ==
    ASSUME WellFormed, Contents, NEW old \in Name, NEW new \in Name, Norm(old) = Norm(new), Moves(old, new)
    PROVE  Contents'
<1>1. ASSUME NEW m \in DOMAIN tree', tree'[m] # "dir"
      PROVE  Cached(tree'[m]) /\ Norm(m) = Norm(cache_file_name(tree'[m]))
  <2>1. ASSUME NEW r \in Name, m = new \o r /\ old \o r \in DOMAIN tree /\ tree'[m] = tree[old \o r]
        PROVE  Cached(tree'[m]) /\ Norm(m) = Norm(cache_file_name(tree'[m]))
    <3>1. Norm(new \o r) = Norm(new) \o Norm(r) /\ Norm(old \o r) = Norm(old) \o Norm(r)
      BY NormConcat
    <3>2. Cached(tree[old \o r]) /\ Norm(old \o r) = Norm(cache_file_name(tree[old \o r]))
      BY <1>1, <2>1 DEF Contents
    <3>3. Norm(new \o r) = Norm(old \o r)
      BY <3>1
    <3> QED
      BY <2>1, <3>2, <3>3
  <2>2. ASSUME m \in DOMAIN tree, tree'[m] = tree[m]
        PROVE  Cached(tree'[m]) /\ Norm(m) = Norm(cache_file_name(tree'[m]))
    BY <1>1, <2>2 DEF Contents
  <2> QED
    BY <2>1, <2>2 DEF Moves
<1> QED
  BY <1>1 DEF Contents

\* rename() to a name that leads to the same leaves the tree right.
LEMMA RenameKeeps ==
    ASSUME TreeRight, NEW old \in Name, old # <<>>, NEW new \in Name, new # <<>>, Norm(old) = Norm(new),
           Rename(old, new)
    PROVE  TreeRight'
<1>1. ASSUME CanRename(old, new) PROVE TreeRight'
  BY <1>1, RenameDoes, MovesWellFormed, MovesContents DEF TreeRight
<1>2. ASSUME ~ CanRename(old, new) PROVE TreeRight'
  <2>1. tree' = tree
    BY <1>2 DEF Rename
  <2> QED
    BY <2>1 DEF TreeRight, WellFormed, Contents
<1> QED
  BY <1>1, <1>2

\* So do mkdir() and a new lock.
LEMMA PlusKeeps ==
    ASSUME TreeRight, NEW n \in Name, n # <<>>, Stat(n) = Absent, IsDir(Front(n)), NEW w,
           w = "dir" \/ (Cached(w) /\ Norm(n) = Norm(cache_file_name(w))), tree' = Plus(n, w)
    PROVE  TreeRight'
<1>1. DOMAIN tree' = DOMAIN tree \cup {n} /\ \A m \in DOMAIN tree \cup {n} : tree'[m] = IF m = n THEN w ELSE tree[m]
  BY DEF Plus
<1>2. n \notin DOMAIN tree
  <2>1. ASSUME n \in DOMAIN tree PROVE FALSE
    <3>1. tree[n] = Absent /\ tree[n] \in Url \cup {"dir"}
      BY <2>1 DEF Stat, TreeRight, WellFormed
    <3> QED
      BY <3>1, UrlAssumption
  <2> QED
    BY <2>1
<1>3. \A m \in DOMAIN tree : m \in DOMAIN tree' /\ tree'[m] = tree[m]
  BY <1>1, <1>2
<1>4. n \in DOMAIN tree' /\ tree'[n] = w /\ \A m \in DOMAIN tree' : m = n \/ m \in DOMAIN tree
  BY <1>1
<1>5. \A i \in 1 .. Len(n) - 1 : SubSeq(n, 1, i) \in DOMAIN tree /\ tree[SubSeq(n, 1, i)] = "dir"
  BY BeginningsOfDir DEF TreeRight
<1>6. w \in Url \cup {"dir"}
  BY DEF Cached
<1>7. WellFormed'
  BY <1>3, <1>4, <1>5, <1>6 DEF TreeRight, WellFormed
<1>8. Contents'
  BY <1>3, <1>4 DEF TreeRight, Contents
<1> QED
  BY <1>7, <1>8 DEF TreeRight

\* And unlink().
LEMMA UnlinkKeeps ==
    ASSUME TreeRight, NEW n \in Name, n # <<>>, Unlink(n)
    PROVE  TreeRight'
<1>1. ASSUME IsReg(n) PROVE TreeRight'
  <2>1. DOMAIN tree' = DOMAIN tree \ {n} /\ \A m \in DOMAIN tree \ {n} : tree'[m] = tree[m]
    BY <1>1 DEF Unlink, Minus
  <2>2. ASSUME NEW m \in DOMAIN tree, m # n, NEW i \in 1 .. Len(m) - 1
        PROVE  SubSeq(m, 1, i) \in DOMAIN tree' /\ tree'[SubSeq(m, 1, i)] = "dir"
    <3>1. SubSeq(m, 1, i) \in DOMAIN tree /\ tree[SubSeq(m, 1, i)] = "dir"
      BY DEF TreeRight, WellFormed
    <3>2. SubSeq(m, 1, i) # n
      BY <1>1, <3>1 DEF IsReg, Stat
    <3> QED
      BY <2>1, <3>1, <3>2
  <2>3. WellFormed'
    BY <2>1, <2>2 DEF TreeRight, WellFormed
  <2>4. Contents'
    BY <2>1 DEF TreeRight, Contents
  <2> QED
    BY <2>3, <2>4 DEF TreeRight
<1>2. ASSUME ~ IsReg(n) PROVE TreeRight'
  <2>1. tree' = tree
    BY <1>2 DEF Unlink
  <2> QED
    BY <2>1 DEF TreeRight, WellFormed, Contents
<1> QED
  BY <1>1, <1>2

-----------------------------------------------------------------------------
(* Children beside each other.                                             *)

LoopLabel == {"mkdir", "aside", "dir", "index", "entry_index"}
PlaceLabel == {"place", "lock"} \cup LoopLabel
Label == PlaceLabel \cup {"free", "exit", "locked", "break", "stat", "verdict", "refresh", "backup", "transfer",
    "install", "discard", "entry", "restore", "unlock", "entry304", "cancel", "open"}

TypesRight ==
    /\ pc \in [Child -> Label] /\ url \in [Child -> Url \cup {Absent}]
    /\ cfn \in [Child -> Name] /\ cur \in [Child -> Nat \ {0}]
    /\ create \in [Child -> BOOLEAN] /\ ims \in [Child -> BOOLEAN]
    /\ served \in [Child -> Url \cup {"dir", Absent}]
    /\ together \in BOOLEAN /\ kept \subseteq Url

\* What a child works at leads to what it was asked for.
ChildRight(p) ==
    /\ pc[p] \notin {"free", "exit"} =>
          Cached(url[p]) /\ cfn[p] # <<>> /\ Norm(cfn[p]) = Norm(cache_file_name(url[p]))
    /\ pc[p] \in PlaceLabel => cur[p] <= Len(cfn[p])
    /\ pc[p] \in LoopLabel => cur[p] < Len(cfn[p])
    /\ pc[p] # "exit" => served[p] = Absent
    /\ served[p] \in {Absent, "dir"} \/ SameDocument(served[p], url[p])

AnyTime == TypesRight /\ TreeRight /\ \A p \in Child : ChildRight(p)

\* What a step leaves of another child.
Stays(q) ==
    /\ pc'[q] = pc[q] /\ url'[q] = url[q] /\ cfn'[q] = cfn[q] /\ cur'[q] = cur[q]
    /\ create'[q] = create[q] /\ ims'[q] = ims[q] /\ served'[q] = served[q]

\* A step of one child leaves what others remember.
LEMMA OthersStay ==
    ASSUME TypesRight, NEW p \in Child, ChildNext(p), NEW q \in Child, q # p
    PROVE  Stays(q)
<1> USE DEF TypesRight, Stays, Goto
<1>1. ASSUME NEW u \in Url, Lookup(p, u) PROVE Stays(q)
  BY <1>1 DEF Lookup
<1>2. ASSUME locked(p) PROVE Stays(q)
  BY <1>2 DEF locked, place
<1>3. ASSUME locked_break(p) PROVE Stays(q)
  BY <1>3 DEF locked_break, place
<1>4. ASSUME lookup_stat(p) PROVE Stays(q)
  BY <1>4 DEF lookup_stat, place
<1>5. ASSUME lookup_info(p) PROVE Stays(q)
  BY <1>5 DEF lookup_info, place
<1>6. ASSUME lookup_refresh(p) PROVE Stays(q)
  BY <1>6 DEF lookup_refresh, place, do_lock
<1>7. ASSUME lookup_backup(p) PROVE Stays(q)
  BY <1>7 DEF lookup_backup, place
<1>8. ASSUME lookup_create(p) PROVE Stays(q)
  BY <1>8 DEF lookup_create, place, do_lock
<1>9. ASSUME place_stat(p) PROVE Stays(q)
  BY <1>9 DEF place_stat, place, NextLevel
<1>10. ASSUME place_mkdir(p) PROVE Stays(q)
  BY <1>10 DEF place_mkdir, place, NextLevel
<1>11. ASSUME place_aside(p) PROVE Stays(q)
  BY <1>11 DEF place_aside, place
<1>12. ASSUME place_dir(p) PROVE Stays(q)
  BY <1>12 DEF place_dir, place
<1>13. ASSUME place_index(p) PROVE Stays(q)
  BY <1>13 DEF place_index, place
<1>14. ASSUME place_entry(p) PROVE Stays(q)
  BY <1>14 DEF place_entry, place, NextLevel
<1>15. ASSUME cache_free(p) PROVE Stays(q)
  BY <1>15 DEF cache_free, place
<1>16. ASSUME created_install(p) PROVE Stays(q)
  BY <1>16 DEF created_install, place
<1>17. ASSUME created_discard(p) PROVE Stays(q)
  BY <1>17 DEF created_discard, place
<1>18. ASSUME created_entry(p) PROVE Stays(q)
  BY <1>18 DEF created_entry, place
<1>19. ASSUME not_modified_restore(p) PROVE Stays(q)
  BY <1>19 DEF not_modified_restore, place
<1>20. ASSUME not_modified_unlock(p) PROVE Stays(q)
  BY <1>20 DEF not_modified_unlock, place
<1>21. ASSUME not_modified_entry(p) PROVE Stays(q)
  BY <1>21 DEF not_modified_entry, place
<1>22. ASSUME cache_cancel(p) PROVE Stays(q)
  BY <1>22 DEF cache_cancel, place
<1>23. ASSUME OpenCached(p) PROVE Stays(q)
  BY <1>23 DEF OpenCached, place
<1> HIDE DEF TypesRight, Stays, Goto
<1> QED
  BY <1>1, <1>2, <1>3, <1>4, <1>5, <1>6, <1>7, <1>8, <1>9, <1>10, <1>11, <1>12, <1>13, <1>14, <1>15,
     <1>16, <1>17, <1>18, <1>19, <1>20, <1>21, <1>22, <1>23 DEF ChildNext

\* So what they remember stays right.
LEMMA OthersRight ==
    ASSUME NEW q, ChildRight(q), Stays(q)
    PROVE  ChildRight(q)'
BY DEF ChildRight, Stays

\* Names that are made from the name of a copy.
LEMMA NamesOf ==
    ASSUME NEW n \in Name, n # <<>>
    PROVE  /\ LockName(n) \in Name /\ LockName(n) # <<>> /\ Norm(LockName(n)) = Norm(n)
           /\ Front(LockName(n)) = Front(n) /\ Last(LockName(n)).suffix = ".cache_lock"
           /\ Len(LockName(n)) = Len(n)
           /\ TmpName(n) \in Name /\ TmpName(n) # <<>> /\ Norm(TmpName(n)) = Norm(n)
           /\ Front(TmpName(n)) = Front(n) /\ Last(TmpName(n)).suffix = ".cache_tmp"
           /\ Len(TmpName(n)) = Len(n)
           /\ Append(n, INDEX_FILE) \in Name /\ Append(n, INDEX_FILE) # <<>>
           /\ Norm(Append(n, INDEX_FILE)) = Norm(n)
           /\ Front(Append(n, INDEX_FILE)) = n /\ Last(Append(n, INDEX_FILE)) = INDEX_FILE
           /\ Len(Append(n, INDEX_FILE)) = Len(n) + 1
<1>1. ASSUME NEW x \in Suffix
      PROVE  /\ With(n, x) \in Name /\ With(n, x) # <<>> /\ Norm(With(n, x)) = Norm(n)
             /\ Front(With(n, x)) = Front(n) /\ Last(With(n, x)).suffix = x
             /\ Len(With(n, x)) = Len(n)
  BY WithEnds, NormWith
<1>2. ".cache_lock" \in Suffix /\ ".cache_tmp" \in Suffix /\ INDEX_FILE \in Component
  BY OwnComponents
<1> QED
  BY <1>1, <1>2, AppendEnds, NormIndex, Zenon DEF LockName, TmpName

\* The beginning of a name is a name.
LEMMA LevelIs ==
    ASSUME NEW n \in Name, NEW i \in Nat \ {0}, i <= Len(n)
    PROVE  /\ SubSeq(n, 1, i) \in Name /\ SubSeq(n, 1, i) # <<>> /\ Len(SubSeq(n, 1, i)) = i
           /\ i \in 1 .. Len(n)
<1>1. i \in 1 .. Len(n) /\ i \in 0 .. Len(n)
  BY NameLength
<1>2. SubSeq(n, 1, i) \in Name /\ Len(SubSeq(n, 1, i)) = i
  BY <1>1, Beginning
<1> QED
  BY <1>1, <1>2, EmptySeq

\* What stat() may find.
LEMMA StatType ==
    ASSUME WellFormed, NEW n
    PROVE  Stat(n) \in Url \cup {"dir", Absent}
BY DEF WellFormed, Stat

\* A child at work.
LEMMA AtWork ==
    ASSUME AnyTime, NEW p \in Child, pc[p] \notin {"free", "exit"}
    PROVE  /\ cfn[p] \in Name /\ cfn[p] # <<>> /\ Cached(url[p]) /\ Norm(cfn[p]) = Norm(cache_file_name(url[p]))
           /\ url[p] \in Url /\ served[p] = Absent /\ cur[p] \in Nat \ {0}
BY DEF AnyTime, TypesRight, ChildRight, Cached

\* do_lock() leaves the tree right.
LEMMA LockKeeps ==
    ASSUME AnyTime, NEW p \in Child, pc[p] \notin {"free", "exit"}, NEW next, do_lock(p, next)
    PROVE  TreeRight'
<1> DEFINE l == LockName(cfn[p])
<1>1. /\ cfn[p] \in Name /\ cfn[p] # <<>> /\ Cached(url[p]) /\ Norm(cfn[p]) = Norm(cache_file_name(url[p]))
  BY AtWork
<1>2. l \in Name /\ l # <<>> /\ Norm(l) = Norm(cfn[p])
  BY <1>1, NamesOf
<1>3. ASSUME Stat(l) = Absent /\ IsDir(Front(l)) PROVE TreeRight'
  <2>1. tree' = Plus(l, url[p])
    BY <1>3 DEF do_lock
  <2> HIDE DEF l
  <2> QED
    BY <1>1, <1>2, <1>3, <2>1, PlusKeeps DEF AnyTime
<1>4. ASSUME ~ (Stat(l) = Absent /\ IsDir(Front(l))) PROVE TreeRight'
  <2>1. tree' = tree
    BY <1>4 DEF do_lock
  <2> QED
    BY <2>1 DEF AnyTime, TreeRight, WellFormed, Contents
<1> QED
  BY <1>3, <1>4

\* mkdir() leaves the tree right.
LEMMA MkdirKeeps ==
    ASSUME TreeRight, NEW n \in Name, n # <<>>, Mkdir(n)
    PROVE  TreeRight'
<1>1. ASSUME CanMkdir(n) PROVE TreeRight'
  BY <1>1, PlusKeeps DEF Mkdir, CanMkdir
<1>2. ASSUME ~ CanMkdir(n) PROVE TreeRight'
  <2>1. tree' = tree
    BY <1>2 DEF Mkdir
  <2> QED
    BY <2>1 DEF TreeRight, WellFormed, Contents
<1> QED
  BY <1>1, <1>2

\* A tree that does not change stays right.
LEMMA SameTreeKeeps ==
    ASSUME TreeRight, UNCHANGED tree
    PROVE  TreeRight'
BY DEF TreeRight, WellFormed, Contents

\* The types after a step.
LEMMA TypesStep ==
    ASSUME AnyTime, NEW p \in Child, ChildNext(p)
    PROVE  TypesRight'
<1> USE DEF TypesRight, Goto, Label, PlaceLabel, LoopLabel
<1>0. TypesRight /\ WellFormed
  BY DEF AnyTime, TreeRight
<1>1. ASSUME NEW u \in Url, Lookup(p, u) PROVE TypesRight'
  <2>1. cache_file_name(u) # Absent => cache_file_name(u) \in Name
    BY CopyName DEF Cached
  <2>2. cfn' \in [Child -> Name] /\ pc' \in [Child -> Label]
    <3>1. ASSUME cache_file_name(u) # Absent, Goto(p, "locked"), cfn' = [cfn EXCEPT ![p] = cache_file_name(u)]
          PROVE  cfn' \in [Child -> Name] /\ pc' \in [Child -> Label]
      BY <1>0, <2>1, <3>1
    <3>2. ASSUME Goto(p, "exit"), cfn' = cfn
          PROVE  cfn' \in [Child -> Name] /\ pc' \in [Child -> Label]
      BY <1>0, <3>2
    <3> QED
      BY <1>1, <3>1, <3>2 DEF Lookup
  <2>3. together' \in BOOLEAN
    BY <1>1 DEF Lookup
  <2>4. url' \in [Child -> Url \cup {Absent}] /\ UNCHANGED <<cur, create, ims, served, kept>>
    BY <1>0, <1>1 DEF Lookup
  <2> QED
    BY <1>0, <2>2, <2>3, <2>4
<1>2. ASSUME locked(p) PROVE TypesRight'
  BY <1>0, <1>2 DEF locked, place, history
<1>3. ASSUME locked_break(p) PROVE TypesRight'
  BY <1>0, <1>3 DEF locked_break, place, history
<1>4. ASSUME lookup_stat(p) PROVE TypesRight'
  <2>1. Append(cfn[p], INDEX_FILE) \in Name
    BY <1>0, OwnComponents, AppendEnds
  <2> QED
    <3>1. cfn' \in [Child -> Name]
      BY <1>0, <1>4, <2>1 DEF lookup_stat, place
    <3>2. cur' \in [Child -> Nat \ {0}]
      BY <1>0, <1>4 DEF lookup_stat, place
    <3>3. create' \in [Child -> BOOLEAN]
      BY <1>0, <1>4 DEF lookup_stat, place
    <3>4. pc' \in [Child -> Label]
      BY <1>0, <1>4 DEF lookup_stat
    <3>5. UNCHANGED <<url, ims, served, together, kept>>
      BY <1>4 DEF lookup_stat, history
    <3> QED
      BY <1>0, <3>1, <3>2, <3>3, <3>4, <3>5
<1>5. ASSUME lookup_info(p) PROVE TypesRight'
  BY <1>0, <1>5 DEF lookup_info, place, history
<1>6. ASSUME lookup_refresh(p) PROVE TypesRight'
  BY <1>0, <1>6 DEF lookup_refresh, place, do_lock, history
<1>7. ASSUME lookup_backup(p) PROVE TypesRight'
  BY <1>0, <1>7 DEF lookup_backup, place
<1>8. ASSUME lookup_create(p) PROVE TypesRight'
  BY <1>0, <1>8 DEF lookup_create, place, do_lock, history
<1>9. ASSUME place_stat(p) PROVE TypesRight'
  <2>1. cfn' = cfn
    BY <1>9 DEF place_stat, place, NextLevel
  <2>2. cur' \in [Child -> Nat \ {0}]
    BY <1>0, <1>9 DEF place_stat, place, NextLevel
  <2>3. create' \in [Child -> BOOLEAN]
    BY <1>0, <1>9 DEF place_stat, place, NextLevel
  <2>4. pc' \in [Child -> Label]
    BY <1>0, <1>9 DEF place_stat
  <2>5. UNCHANGED <<url, ims, served, together, kept>>
    BY <1>9 DEF place_stat, history
  <2> QED
    BY <1>0, <2>1, <2>2, <2>3, <2>4, <2>5
<1>10. ASSUME place_mkdir(p) PROVE TypesRight'
  BY <1>0, <1>10 DEF place_mkdir, place, NextLevel, history
<1>11. ASSUME place_aside(p) PROVE TypesRight'
  BY <1>0, <1>11 DEF place_aside, place, history
<1>12. ASSUME place_dir(p) PROVE TypesRight'
  BY <1>0, <1>12 DEF place_dir, place, history
<1>13. ASSUME place_index(p) PROVE TypesRight'
  BY <1>0, <1>13 DEF place_index, place, history
<1>14. ASSUME place_entry(p) PROVE TypesRight'
  BY <1>0, <1>14 DEF place_entry, place, NextLevel, history
<1>15. ASSUME cache_free(p) PROVE TypesRight'
  BY <1>0, <1>15 DEF cache_free, place, history
<1>16. ASSUME created_install(p) PROVE TypesRight'
  <2>1. url[p] \in Url
    BY <1>16, AtWork DEF created_install
  <2> QED
    BY <1>0, <1>16, <2>1 DEF created_install, place
<1>17. ASSUME created_discard(p) PROVE TypesRight'
  BY <1>0, <1>17 DEF created_discard, place, history
<1>18. ASSUME created_entry(p) PROVE TypesRight'
  BY <1>0, <1>18 DEF created_entry, place, history
<1>19. ASSUME not_modified_restore(p) PROVE TypesRight'
  <2>1. url[p] \in Url
    BY <1>19, AtWork DEF not_modified_restore
  <2> QED
    BY <1>0, <1>19, <2>1 DEF not_modified_restore, place
<1>20. ASSUME not_modified_unlock(p) PROVE TypesRight'
  BY <1>0, <1>20 DEF not_modified_unlock, place, history
<1>21. ASSUME not_modified_entry(p) PROVE TypesRight'
  BY <1>0, <1>21 DEF not_modified_entry, place, history
<1>22. ASSUME cache_cancel(p) PROVE TypesRight'
  BY <1>0, <1>22 DEF cache_cancel, place, history
<1>23. ASSUME OpenCached(p) PROVE TypesRight'
  BY <1>0, <1>23, StatType DEF OpenCached, place, history
<1> HIDE DEF TypesRight, Goto, Label
<1> QED
  BY <1>1, <1>2, <1>3, <1>4, <1>5, <1>6, <1>7, <1>8, <1>9, <1>10, <1>11, <1>12, <1>13, <1>14, <1>15,
     <1>16, <1>17, <1>18, <1>19, <1>20, <1>21, <1>22, <1>23 DEF ChildNext

\* The names of the directories that create_cache_place comes to.
LEMMA LevelOf ==
    ASSUME AnyTime, NEW p \in Child, pc[p] \in PlaceLabel
    PROVE  /\ Level(p) \in Name /\ Level(p) # <<>> /\ Len(Level(p)) = cur[p]
           /\ cur[p] \in Nat \ {0} /\ cur[p] <= Len(cfn[p])
<1>1. cfn[p] \in Name /\ cur[p] \in Nat \ {0} /\ cur[p] <= Len(cfn[p])
  BY DEF AnyTime, TypesRight, ChildRight
<1> QED
  BY <1>1, LevelIs DEF Level

\* The tree after a step.
LEMMA TreeStep ==
    ASSUME AnyTime, NEW p \in Child, ChildNext(p)
    PROVE  TreeRight'
<1>0. TypesRight /\ TreeRight
  BY DEF AnyTime
<1>1. ASSUME NEW u \in Url, Lookup(p, u) PROVE TreeRight'
  BY <1>0, <1>1, SameTreeKeeps DEF Lookup
<1>2. ASSUME locked(p) PROVE TreeRight'
  BY <1>0, <1>2, SameTreeKeeps DEF locked
<1>3. ASSUME locked_break(p) PROVE TreeRight'
  <2>1. cfn[p] \in Name /\ cfn[p] # <<>> /\ Unlink(LockName(cfn[p]))
    BY <1>3, AtWork DEF locked_break
  <2> QED
    BY <1>0, <2>1, NamesOf, UnlinkKeeps
<1>4. ASSUME lookup_stat(p) PROVE TreeRight'
  BY <1>0, <1>4, SameTreeKeeps DEF lookup_stat
<1>5. ASSUME lookup_info(p) PROVE TreeRight'
  BY <1>0, <1>5, SameTreeKeeps DEF lookup_info
<1>6. ASSUME lookup_refresh(p) PROVE TreeRight'
  BY <1>6, LockKeeps DEF lookup_refresh
<1>7. ASSUME lookup_backup(p) PROVE TreeRight'
  <2>1. cfn[p] \in Name /\ cfn[p] # <<>> /\ Rename(cfn[p], TmpName(cfn[p]))
    BY <1>7, AtWork DEF lookup_backup
  <2>2. TmpName(cfn[p]) \in Name /\ TmpName(cfn[p]) # <<>> /\ Norm(TmpName(cfn[p])) = Norm(cfn[p])
    BY <2>1, NamesOf
  <2> QED
    BY <1>0, <2>1, <2>2, RenameKeeps
<1>8. ASSUME lookup_create(p) PROVE TreeRight'
  BY <1>8, LockKeeps DEF lookup_create
<1>9. ASSUME place_stat(p) PROVE TreeRight'
  BY <1>0, <1>9, SameTreeKeeps DEF place_stat
<1>10. ASSUME place_mkdir(p) PROVE TreeRight'
  <2>1. Mkdir(Level(p)) /\ pc[p] \in PlaceLabel
    BY <1>10 DEF place_mkdir, PlaceLabel, LoopLabel
  <2> QED
    BY <1>0, <2>1, LevelOf, MkdirKeeps
<1>11. ASSUME place_aside(p) PROVE TreeRight'
  <2>1. Rename(Level(p), TmpName(Level(p))) /\ pc[p] \in PlaceLabel
    BY <1>11 DEF place_aside, PlaceLabel, LoopLabel
  <2>2. Level(p) \in Name /\ Level(p) # <<>>
    BY <2>1, LevelOf
  <2>3. TmpName(Level(p)) \in Name /\ TmpName(Level(p)) # <<>> /\ Norm(TmpName(Level(p))) = Norm(Level(p))
    BY <2>2, NamesOf
  <2> QED
    BY <1>0, <2>1, <2>2, <2>3, RenameKeeps
<1>12. ASSUME place_dir(p) PROVE TreeRight'
  <2>1. Mkdir(Level(p)) /\ pc[p] \in PlaceLabel
    BY <1>12 DEF place_dir, PlaceLabel, LoopLabel
  <2> QED
    BY <1>0, <2>1, LevelOf, MkdirKeeps
<1>13. ASSUME place_index(p) PROVE TreeRight'
  <2>1. Rename(TmpName(Level(p)), Append(Level(p), INDEX_FILE)) /\ pc[p] \in PlaceLabel
    BY <1>13 DEF place_index, PlaceLabel, LoopLabel
  <2>2. Level(p) \in Name /\ Level(p) # <<>>
    BY <2>1, LevelOf
  <2>3. /\ TmpName(Level(p)) \in Name /\ TmpName(Level(p)) # <<>> /\ Norm(TmpName(Level(p))) = Norm(Level(p))
        /\ Append(Level(p), INDEX_FILE) \in Name /\ Append(Level(p), INDEX_FILE) # <<>>
        /\ Norm(Append(Level(p), INDEX_FILE)) = Norm(Level(p))
    BY <2>2, NamesOf
  <2> QED
    BY <1>0, <2>1, <2>3, RenameKeeps
<1>14. ASSUME place_entry(p) PROVE TreeRight'
  BY <1>0, <1>14, SameTreeKeeps DEF place_entry
<1>15. ASSUME cache_free(p) PROVE TreeRight'
  BY <1>0, <1>15, SameTreeKeeps DEF cache_free
<1>16. ASSUME created_install(p) PROVE TreeRight'
  <2>1. cfn[p] \in Name /\ cfn[p] # <<>> /\ Rename(LockName(cfn[p]), cfn[p])
    BY <1>16, AtWork DEF created_install
  <2>2. LockName(cfn[p]) \in Name /\ LockName(cfn[p]) # <<>> /\ Norm(LockName(cfn[p])) = Norm(cfn[p])
    BY <2>1, NamesOf
  <2> QED
    BY <1>0, <2>1, <2>2, RenameKeeps
<1>17. ASSUME created_discard(p) PROVE TreeRight'
  <2>1. cfn[p] \in Name /\ cfn[p] # <<>> /\ Unlink(TmpName(cfn[p]))
    BY <1>17, AtWork DEF created_discard
  <2> QED
    BY <1>0, <2>1, NamesOf, UnlinkKeeps
<1>18. ASSUME created_entry(p) PROVE TreeRight'
  BY <1>0, <1>18, SameTreeKeeps DEF created_entry
<1>19. ASSUME not_modified_restore(p) PROVE TreeRight'
  <2>1. cfn[p] \in Name /\ cfn[p] # <<>> /\ Rename(TmpName(cfn[p]), cfn[p])
    BY <1>19, AtWork DEF not_modified_restore
  <2>2. TmpName(cfn[p]) \in Name /\ TmpName(cfn[p]) # <<>> /\ Norm(TmpName(cfn[p])) = Norm(cfn[p])
    BY <2>1, NamesOf
  <2> QED
    BY <1>0, <2>1, <2>2, RenameKeeps
<1>20. ASSUME not_modified_unlock(p) PROVE TreeRight'
  <2>1. cfn[p] \in Name /\ cfn[p] # <<>> /\ Unlink(LockName(cfn[p]))
    BY <1>20, AtWork DEF not_modified_unlock
  <2> QED
    BY <1>0, <2>1, NamesOf, UnlinkKeeps
<1>21. ASSUME not_modified_entry(p) PROVE TreeRight'
  BY <1>0, <1>21, SameTreeKeeps DEF not_modified_entry
<1>22. ASSUME cache_cancel(p) PROVE TreeRight'
  <2>1. Cached(url[p]) /\ Unlink(LockName(cache_file_name(url[p])))
    BY <1>22, AtWork DEF cache_cancel
  <2>2. cache_file_name(url[p]) \in Name /\ cache_file_name(url[p]) # <<>>
    BY <2>1, CopyName
  <2> QED
    BY <1>0, <2>1, <2>2, NamesOf, UnlinkKeeps
<1>23. ASSUME OpenCached(p) PROVE TreeRight'
  BY <1>0, <1>23, SameTreeKeeps DEF OpenCached
<1> QED
  BY <1>1, <1>2, <1>3, <1>4, <1>5, <1>6, <1>7, <1>8, <1>9, <1>10, <1>11, <1>12, <1>13, <1>14, <1>15,
     <1>16, <1>17, <1>18, <1>19, <1>20, <1>21, <1>22, <1>23 DEF ChildNext

\* A child goes from one label to another, and nothing else changes of it.
LEMMA GoesOn ==
    ASSUME AnyTime, NEW p \in Child, pc[p] \notin {"free", "exit"}, NEW l \in Label \ LoopLabel,
           l \in PlaceLabel => pc[p] \in PlaceLabel,
           pc'[p] = l, cfn'[p] = cfn[p], cur'[p] = cur[p], url'[p] = url[p], served'[p] = served[p]
    PROVE  ChildRight(p)'
<1>1. ChildRight(p)
  BY DEF AnyTime
<1> QED
  BY <1>1, UrlAssumption DEF ChildRight, Label, PlaceLabel, LoopLabel

\* So in the loop of create_cache_place.
LEMMA GoesOnInLoop ==
    ASSUME AnyTime, NEW p \in Child, pc[p] \in PlaceLabel, cur[p] < Len(cfn[p]), NEW l \in LoopLabel,
           pc'[p] = l, cfn'[p] = cfn[p], cur'[p] = cur[p], url'[p] = url[p], served'[p] = served[p]
    PROVE  ChildRight(p)'
<1>1. ChildRight(p)
  BY DEF AnyTime
<1> QED
  BY <1>1 DEF ChildRight, PlaceLabel, LoopLabel

\* And to the next directory.
LEMMA GoesOnToNext ==
    ASSUME AnyTime, NEW p \in Child, pc[p] \in PlaceLabel, cur[p] < Len(cfn[p]),
           pc'[p] = "place", cfn'[p] = cfn[p], cur'[p] = cur[p] + 1, url'[p] = url[p], served'[p] = served[p]
    PROVE  ChildRight(p)'
<1>1. ChildRight(p) /\ cur[p] \in Nat /\ Len(cfn[p]) \in Nat
  BY NameLength DEF AnyTime, TypesRight
<1>2. cur[p] + 1 <= Len(cfn[p])
  BY <1>1
<1> QED
  BY <1>1, <1>2 DEF ChildRight, PlaceLabel, LoopLabel

\* The child after a step of its own.
LEMMA ChildStep ==
    ASSUME AnyTime, NEW p \in Child, ChildNext(p)
    PROVE  ChildRight(p)'
<1>0. TypesRight /\ TreeRight /\ ChildRight(p)
  BY DEF AnyTime
<1> DEFINE To(l) == /\ pc'[p] = l /\ cfn'[p] = cfn[p] /\ cur'[p] = cur[p]
                    /\ url'[p] = url[p] /\ served'[p] = served[p]
<1>a. ASSUME NEW l \in Label \ PlaceLabel, pc[p] \notin {"free", "exit"}, To(l) PROVE ChildRight(p)'
  BY <1>a, GoesOn DEF Label, PlaceLabel, LoopLabel
<1>b. ASSUME NEW u \in Url, Lookup(p, u) PROVE ChildRight(p)'
  <2>1. pc[p] = "free" /\ url'[p] = u /\ served'[p] = served[p] /\ served[p] = Absent
    BY <1>0, <1>b DEF Lookup, TypesRight, ChildRight
  <2>2. ASSUME cache_file_name(u) # Absent, pc'[p] = "locked", cfn'[p] = cache_file_name(u) PROVE ChildRight(p)'
    <3>1. Cached(u) /\ cache_file_name(u) # <<>>
      BY <2>2, CopyName DEF Cached
    <3> QED
      BY <2>1, <2>2, <3>1 DEF ChildRight, PlaceLabel, LoopLabel
  <2>3. ASSUME pc'[p] = "exit" PROVE ChildRight(p)'
    BY <2>1, <2>3 DEF ChildRight, PlaceLabel, LoopLabel
  <2>4. \/ cache_file_name(u) # Absent /\ pc'[p] = "locked" /\ cfn'[p] = cache_file_name(u)
        \/ pc'[p] = "exit"
    BY <1>0, <1>b DEF Lookup, Goto, TypesRight
  <2> QED
    BY <2>2, <2>3, <2>4
<1>1. ASSUME locked(p) PROVE ChildRight(p)'
  <2>1. pc[p] \notin {"free", "exit"} /\ (To("exit") \/ To("break") \/ To("stat"))
    BY <1>0, <1>1 DEF locked, Goto, place, TypesRight
  <2> HIDE DEF To
  <2> QED
    BY <1>a, <2>1 DEF Label, PlaceLabel, LoopLabel
<1>2. ASSUME locked_break(p) PROVE ChildRight(p)'
  <2>1. pc[p] \notin {"free", "exit"} /\ (To("stat"))
    BY <1>0, <1>2 DEF locked_break, Goto, place, TypesRight
  <2> HIDE DEF To
  <2> QED
    BY <1>a, <2>1 DEF Label, PlaceLabel, LoopLabel
<1>3. ASSUME lookup_info(p) PROVE ChildRight(p)'
  <2>1. pc[p] \notin {"free", "exit"} /\ (To("refresh") \/ To("open"))
    BY <1>0, <1>3 DEF lookup_info, Goto, place, TypesRight
  <2> HIDE DEF To
  <2> QED
    BY <1>a, <2>1 DEF Label, PlaceLabel, LoopLabel
<1>4. ASSUME lookup_refresh(p) PROVE ChildRight(p)'
  <2>1. pc[p] \notin {"free", "exit"} /\ (To("backup") \/ To("exit"))
    BY <1>0, <1>4 DEF lookup_refresh, Goto, place, TypesRight, do_lock
  <2> HIDE DEF To
  <2> QED
    BY <1>a, <2>1 DEF Label, PlaceLabel, LoopLabel
<1>5. ASSUME lookup_backup(p) PROVE ChildRight(p)'
  <2>1. pc[p] \notin {"free", "exit"} /\ (To("transfer"))
    BY <1>0, <1>5 DEF lookup_backup, Goto, place, TypesRight
  <2> HIDE DEF To
  <2> QED
    BY <1>a, <2>1 DEF Label, PlaceLabel, LoopLabel
<1>6. ASSUME lookup_create(p) PROVE ChildRight(p)'
  <2>1. pc[p] \notin {"free", "exit"} /\ (To("transfer") \/ To("exit"))
    BY <1>0, <1>6 DEF lookup_create, Goto, place, TypesRight, do_lock
  <2> HIDE DEF To
  <2> QED
    BY <1>a, <2>1 DEF Label, PlaceLabel, LoopLabel
<1>7. ASSUME cache_free(p) PROVE ChildRight(p)'
  <2>1. pc[p] \notin {"free", "exit"} /\ (To("install") \/ To("cancel") \/ To("restore"))
    BY <1>0, <1>7 DEF cache_free, Goto, place, TypesRight
  <2> HIDE DEF To
  <2> QED
    BY <1>a, <2>1 DEF Label, PlaceLabel, LoopLabel
<1>8. ASSUME created_install(p) PROVE ChildRight(p)'
  <2>1. pc[p] \notin {"free", "exit"} /\ (To("discard") \/ To("entry"))
    BY <1>0, <1>8 DEF created_install, Goto, place, TypesRight
  <2> HIDE DEF To
  <2> QED
    BY <1>a, <2>1 DEF Label, PlaceLabel, LoopLabel
<1>9. ASSUME created_discard(p) PROVE ChildRight(p)'
  <2>1. pc[p] \notin {"free", "exit"} /\ (To("entry"))
    BY <1>0, <1>9 DEF created_discard, Goto, place, TypesRight
  <2> HIDE DEF To
  <2> QED
    BY <1>a, <2>1 DEF Label, PlaceLabel, LoopLabel
<1>10. ASSUME created_entry(p) PROVE ChildRight(p)'
  <2>1. pc[p] \notin {"free", "exit"} /\ (To("exit"))
    BY <1>0, <1>10 DEF created_entry, Goto, place, TypesRight
  <2> HIDE DEF To
  <2> QED
    BY <1>a, <2>1 DEF Label, PlaceLabel, LoopLabel
<1>11. ASSUME not_modified_restore(p) PROVE ChildRight(p)'
  <2>1. pc[p] \notin {"free", "exit"} /\ (To("unlock"))
    BY <1>0, <1>11 DEF not_modified_restore, Goto, place, TypesRight
  <2> HIDE DEF To
  <2> QED
    BY <1>a, <2>1 DEF Label, PlaceLabel, LoopLabel
<1>12. ASSUME not_modified_unlock(p) PROVE ChildRight(p)'
  <2>1. pc[p] \notin {"free", "exit"} /\ (To("entry304"))
    BY <1>0, <1>12 DEF not_modified_unlock, Goto, place, TypesRight
  <2> HIDE DEF To
  <2> QED
    BY <1>a, <2>1 DEF Label, PlaceLabel, LoopLabel
<1>13. ASSUME not_modified_entry(p) PROVE ChildRight(p)'
  <2>1. pc[p] \notin {"free", "exit"} /\ (To("open"))
    BY <1>0, <1>13 DEF not_modified_entry, Goto, place, TypesRight
  <2> HIDE DEF To
  <2> QED
    BY <1>a, <2>1 DEF Label, PlaceLabel, LoopLabel
<1>14. ASSUME cache_cancel(p) PROVE ChildRight(p)'
  <2>1. pc[p] \notin {"free", "exit"} /\ (To("exit"))
    BY <1>0, <1>14 DEF cache_cancel, Goto, place, TypesRight
  <2> HIDE DEF To
  <2> QED
    BY <1>a, <2>1 DEF Label, PlaceLabel, LoopLabel
<1>15. ASSUME lookup_stat(p) PROVE ChildRight(p)'
  <2>1. pc[p] \notin {"free", "exit"} /\ url'[p] = url[p] /\ served'[p] = served[p]
    BY <1>0, <1>15 DEF lookup_stat, TypesRight
  <2>2. ASSUME To("verdict") PROVE ChildRight(p)'
    <3> HIDE DEF To
    <3> QED
      BY <1>a, <2>1, <2>2 DEF Label, PlaceLabel, LoopLabel
  <2>3. ASSUME pc[p] = "stat", pc'[p] = "stat", cfn'[p] = Append(cfn[p], INDEX_FILE) PROVE ChildRight(p)'
    <3>1. cfn'[p] # <<>> /\ Norm(cfn'[p]) = Norm(cfn[p])
      BY <2>1, <2>3, AtWork, NamesOf
    <3> QED
      BY <1>0, <2>1, <2>3, <3>1 DEF ChildRight, PlaceLabel, LoopLabel
  <2>4. ASSUME pc'[p] = "place", cfn'[p] = cfn[p], cur'[p] = 1 PROVE ChildRight(p)'
    <3>1. 1 <= Len(cfn[p])
      BY <2>1, AtWork, NameEnds
    <3> QED
      BY <1>0, <2>1, <2>4, <3>1 DEF ChildRight, PlaceLabel, LoopLabel
  <2>5. \/ To("verdict")
        \/ pc[p] = "stat" /\ pc'[p] = "stat" /\ cfn'[p] = Append(cfn[p], INDEX_FILE)
        \/ pc'[p] = "place" /\ cfn'[p] = cfn[p] /\ cur'[p] = 1
    BY <1>0, <1>15 DEF lookup_stat, Goto, place, TypesRight
  <2> HIDE DEF To
  <2> QED
    BY <2>2, <2>3, <2>4, <2>5
<1>c. ASSUME NEW l \in LoopLabel, pc[p] \in PlaceLabel, cur[p] < Len(cfn[p]), To(l) PROVE ChildRight(p)'
  BY <1>c, GoesOnInLoop
<1>d. ASSUME pc[p] \in PlaceLabel, cur[p] < Len(cfn[p]), pc'[p] = "place", cfn'[p] = cfn[p],
             cur'[p] = cur[p] + 1, url'[p] = url[p], served'[p] = served[p]
      PROVE  ChildRight(p)'
  BY <1>d, GoesOnToNext
<1>e. ASSUME pc[p] \in LoopLabel PROVE pc[p] \in PlaceLabel /\ cur[p] < Len(cfn[p])
  BY <1>0, <1>e DEF ChildRight, PlaceLabel
<1>16. ASSUME place_stat(p) PROVE ChildRight(p)'
  <2>1. pc[p] = "place" /\ url'[p] = url[p] /\ served'[p] = served[p]
    BY <1>0, <1>16 DEF place_stat, TypesRight
  <2>2. ASSUME To("lock") PROVE ChildRight(p)'
    BY <2>1, <2>2, GoesOn DEF Label, PlaceLabel, LoopLabel
  <2>3. \/ To("lock")
        \/ cur[p] < Len(cfn[p]) /\ (To("mkdir") \/ To("aside"))
        \/ /\ cur[p] < Len(cfn[p]) /\ pc'[p] = "place" /\ cfn'[p] = cfn[p] /\ cur'[p] = cur[p] + 1
    BY <1>0, <1>16 DEF place_stat, Goto, place, NextLevel, TypesRight
  <2> HIDE DEF To
  <2> QED
    BY <1>c, <1>d, <2>1, <2>2, <2>3 DEF PlaceLabel, LoopLabel
<1>17. ASSUME place_mkdir(p) PROVE ChildRight(p)'
  <2>1. /\ pc[p] \in LoopLabel /\ pc[p] \notin {"free", "exit"}
        /\ \/ To("exit")
           \/ /\ pc'[p] = "place" /\ cfn'[p] = cfn[p] /\ cur'[p] = cur[p] + 1
              /\ url'[p] = url[p] /\ served'[p] = served[p]
    BY <1>0, <1>17 DEF place_mkdir, Goto, place, NextLevel, TypesRight, LoopLabel
  <2> HIDE DEF To
  <2> QED
    BY <1>a, <1>d, <1>e, <2>1 DEF Label, PlaceLabel, LoopLabel
<1>18. ASSUME place_aside(p) PROVE ChildRight(p)'
  <2>1. pc[p] \in LoopLabel /\ To("dir")
    BY <1>0, <1>18 DEF place_aside, Goto, place, TypesRight, LoopLabel
  <2> HIDE DEF To
  <2> QED
    BY <1>c, <1>e, <2>1 DEF LoopLabel
<1>19. ASSUME place_dir(p) PROVE ChildRight(p)'
  <2>1. pc[p] \in LoopLabel /\ To("index")
    BY <1>0, <1>19 DEF place_dir, Goto, place, TypesRight, LoopLabel
  <2> HIDE DEF To
  <2> QED
    BY <1>c, <1>e, <2>1 DEF LoopLabel
<1>20. ASSUME place_index(p) PROVE ChildRight(p)'
  <2>1. pc[p] \in LoopLabel /\ To("entry_index")
    BY <1>0, <1>20 DEF place_index, Goto, place, TypesRight, LoopLabel
  <2> HIDE DEF To
  <2> QED
    BY <1>c, <1>e, <2>1 DEF LoopLabel
<1>21. ASSUME place_entry(p) PROVE ChildRight(p)'
  <2>1. /\ pc[p] \in LoopLabel /\ pc'[p] = "place" /\ cfn'[p] = cfn[p] /\ cur'[p] = cur[p] + 1
        /\ url'[p] = url[p] /\ served'[p] = served[p]
    BY <1>0, <1>21 DEF place_entry, Goto, place, NextLevel, TypesRight, LoopLabel
  <2> QED
    BY <1>d, <1>e, <2>1
<1>22. ASSUME OpenCached(p) PROVE ChildRight(p)'
  <2>1. pc[p] = "open" /\ pc'[p] = "exit" /\ url'[p] = url[p] /\ served'[p] = Stat(cfn[p])
    BY <1>0, <1>22 DEF OpenCached, Goto, TypesRight
  <2>2. Cached(url[p]) /\ Norm(cfn[p]) = Norm(cache_file_name(url[p]))
    BY <2>1, AtWork
  <2>3. ASSUME Stat(cfn[p]) \notin {Absent, "dir"} PROVE SameDocument(Stat(cfn[p]), url[p])
    <3>1. cfn[p] \in DOMAIN tree /\ Stat(cfn[p]) = tree[cfn[p]]
      BY <2>3 DEF Stat
    <3>2. Cached(tree[cfn[p]]) /\ Norm(cfn[p]) = Norm(cache_file_name(tree[cfn[p]]))
      BY <1>0, <2>3, <3>1 DEF TreeRight, Contents
    <3> QED
      BY <2>2, <3>1, <3>2, SameName
  <2> QED
    BY <2>1, <2>3 DEF ChildRight, PlaceLabel, LoopLabel
<1> QED
  BY <1>b, <1>1, <1>2, <1>3, <1>4, <1>5, <1>6, <1>7, <1>8, <1>9, <1>10, <1>11, <1>12, <1>13, <1>14,
     <1>15, <1>16, <1>17, <1>18, <1>19, <1>20, <1>21, <1>22 DEF ChildNext

\* The invariant of children beside each other is kept by every step.
LEMMA AnyTimeStep ==
    ASSUME AnyTime, [TreeNext]_treeVars
    PROVE  AnyTime'
<1>1. ASSUME NEW p \in Child, ChildNext(p) PROVE AnyTime'
  <2>1. TypesRight' /\ TreeRight' /\ ChildRight(p)'
    BY <1>1, TypesStep, TreeStep, ChildStep
  <2>2. ASSUME NEW q \in Child, q # p PROVE ChildRight(q)'
    BY <1>1, <2>2, OthersStay, OthersRight DEF AnyTime
  <2> QED
    BY <2>1, <2>2 DEF AnyTime
<1>2. ASSUME UNCHANGED treeVars PROVE AnyTime'
  <2>1. UNCHANGED <<tree, pc, url, cfn, cur, create, ims, served, together, kept>>
    BY <1>2 DEF treeVars, place, history
  <2> QED
    BY <2>1 DEF AnyTime, TypesRight, TreeRight, WellFormed, Contents, ChildRight
<1> QED
  BY <1>1, <1>2 DEF TreeNext

\* It holds of any tree that a daemon may find.
LEMMA AnyTimeInit ==
    ASSUME TreeInit
    PROVE  AnyTime
<1>1. TypesRight
  <2>1. pc \in [Child -> Label]
    BY DEF TreeInit, Label
  <2>2. /\ url \in [Child -> Url \cup {Absent}] /\ cur \in [Child -> Nat \ {0}] /\ cfn \in [Child -> Name]
    <3>1. url \in [Child -> Url \cup {Absent}]
      BY DEF TreeInit
    <3>2. cur = [p \in Child |-> 1]
      BY Zenon DEF TreeInit
    <3>4. cur \in [Child -> Nat \ {0}]
      BY <3>2
    <3>3. <<>> \in Name /\ cfn = [p \in Child |-> <<>>]
      BY NormEmpty DEF TreeInit
    <3> QED
      BY <3>1, <3>3, <3>4
  <2>3. /\ create \in [Child -> BOOLEAN] /\ ims \in [Child -> BOOLEAN]
        /\ served \in [Child -> Url \cup {"dir", Absent}] /\ together \in BOOLEAN
    BY DEF TreeInit
  <2>4. kept \subseteq Url
    <3>1. \A n \in DOMAIN tree : tree[n] # "dir" => tree[n] \in Url
      BY OldTreeAssumption DEF TreeInit
    <3> QED
      BY <3>1, Zenon DEF TreeInit
  <2> QED
    BY <2>1, <2>2, <2>3, <2>4 DEF TypesRight
<1>2. WellFormed
  <2>1. ASSUME NEW n \in DOMAIN tree
        PROVE  /\ n \in Name /\ n # <<>> /\ tree[n] \in Url \cup {"dir"}
               /\ \A i \in 1 .. Len(n) - 1 : SubSeq(n, 1, i) \in DOMAIN tree /\ tree[SubSeq(n, 1, i)] = "dir"
    <3>1. /\ n \in Seq(Component) /\ n # <<>>
          /\ \A i \in 1 .. Len(n) - 1 : SubSeq(n, 1, i) \in DOMAIN tree /\ tree[SubSeq(n, 1, i)] = "dir"
          /\ tree[n] # "dir" => tree[n] \in Url
      BY OldTreeAssumption DEF TreeInit
    <3> QED
      BY <3>1 DEF Name
  <2> QED
    BY <2>1 DEF WellFormed
<1>3. Contents
  <2>1. ASSUME NEW n \in DOMAIN tree, tree[n] # "dir"
        PROVE  Cached(tree[n]) /\ Norm(n) = Norm(cache_file_name(tree[n]))
    <3> DEFINE c == cache_file_name(tree[n])
    <3>1. /\ tree[n] \in Url /\ c # Absent
          /\ \E m \in {c, Append(c, INDEX_FILE)} : n \in {m, LockName(m), TmpName(m)}
      BY <2>1, OldTreeAssumption DEF TreeInit
    <3>2. Cached(tree[n])
      BY <3>1 DEF Cached
    <3>3. c \in Name /\ c # <<>>
      BY <3>2, CopyName
    <3> HIDE DEF c
    <3>4. PICK m \in {c, Append(c, INDEX_FILE)} : n \in {m, LockName(m), TmpName(m)}
      BY <3>1
    <3>5. m \in Name /\ m # <<>> /\ Norm(m) = Norm(c)
      BY <3>3, <3>4, NamesOf
    <3>6. Norm(n) = Norm(c)
      BY <3>4, <3>5, NamesOf
    <3> QED
      BY <3>2, <3>6 DEF c
  <2> QED
    BY <2>1 DEF Contents
<1>4. ASSUME NEW p \in Child PROVE ChildRight(p)
  <2>1. pc[p] = "free" /\ served[p] = Absent
    BY DEF TreeInit
  <2> QED
    BY <2>1 DEF ChildRight, PlaceLabel, LoopLabel
<1> QED
  BY <1>1, <1>2, <1>3, <1>4 DEF AnyTime, TreeRight

-----------------------------------------------------------------------------
(* What a system call changes.                                             *)

\* What there is after open() or mkdir().
LEMMA PlusStat ==
    ASSUME WellFormed, NEW n, NEW w, tree' = Plus(n, w)
    PROVE  \A m : Stat(m)' = IF m = n THEN w ELSE Stat(m)
<1>1. DOMAIN tree' = DOMAIN tree \cup {n} /\ \A m \in DOMAIN tree \cup {n} : tree'[m] = IF m = n THEN w ELSE tree[m]
  BY DEF Plus
<1> QED
  BY <1>1 DEF Stat

\* What there is after unlink().
LEMMA UnlinkStat ==
    ASSUME WellFormed, NEW n, Unlink(n)
    PROVE  \A m : Stat(m)' = IF m = n /\ IsReg(n) THEN Absent ELSE Stat(m)
<1>1. ASSUME IsReg(n) PROVE \A m : Stat(m)' = IF m = n THEN Absent ELSE Stat(m)
  <2>1. DOMAIN tree' = DOMAIN tree \ {n} /\ \A m \in DOMAIN tree \ {n} : tree'[m] = tree[m]
    BY <1>1 DEF Unlink, Minus
  <2> QED
    BY <2>1 DEF Stat
<1>2. ASSUME ~ IsReg(n) PROVE \A m : Stat(m)' = Stat(m)
  BY <1>2 DEF Unlink, Stat
<1> QED
  BY <1>1, <1>2

\* rename() of a file succeeds unless there is a directory of the new name.
LEMMA CanMove ==
    ASSUME WellFormed, NEW old \in Name, old # <<>>, IsReg(old), NEW new \in Name, new # <<>>,
           IsDir(Front(new)), Stat(new) # "dir"
    PROVE  CanRename(old, new)
<1>1. old \in DOMAIN tree /\ tree[old] # "dir"
  BY DEF IsReg, Stat
<1>2. ~ IsStrictPrefix(old, new)
  <2>1. SUFFICES ASSUME IsPrefix(old, new), old # new PROVE FALSE
    BY DEF IsStrictPrefix
  <2>2. Len(old) \in Nat \ {0} /\ Len(new) \in Nat /\ Len(old) <= Len(new) /\ SubSeq(new, 1, Len(old)) = old
    <3>1. SubSeq(old, 1, Len(old)) = old
      BY SubSeqFull DEF Name
    <3> QED
      BY <2>1, <3>1, NameEnds, NameLength DEF IsPrefix
  <2>3. Len(old) # Len(new)
    <3>1. SubSeq(new, 1, Len(new)) = new
      BY SubSeqFull DEF Name
    <3> QED
      BY <2>1, <2>2, <3>1
  <2>4. Len(old) \in 1 .. Len(new) - 1
    BY <2>2, <2>3
  <2>5. SubSeq(new, 1, Len(old)) \in DOMAIN tree /\ tree[SubSeq(new, 1, Len(old))] = "dir"
    <3> DEFINE i == Len(old)
    <3>1. i \in 1 .. Len(new) - 1
      BY <2>4
    <3> HIDE DEF i
    <3>2. SubSeq(new, 1, i) \in DOMAIN tree /\ tree[SubSeq(new, 1, i)] = "dir"
      BY <3>1, BeginningsOfDir
    <3> QED
      BY <3>2 DEF i
  <2> QED
    BY <1>1, <2>2, <2>5
<1>3. Stat(new) = Absent \/ IsReg(new)
  BY DEF IsReg
<1> QED
  BY <1>1, <1>2, <1>3 DEF CanRename

\* What there is after rename() of a file.
LEMMA MoveStat ==
    ASSUME WellFormed, NEW old \in Name, old # <<>>, IsReg(old), NEW new \in Name, new # <<>>, old # new,
           IsDir(Front(new)), Stat(new) # "dir", Rename(old, new)
    PROVE  \A m : Stat(m)' = IF m = new THEN Stat(old) ELSE IF m = old THEN Absent ELSE Stat(m)
<1>1. CanRename(old, new)
  BY CanMove
<1>2. Moves(old, new)
  BY <1>1, RenameDoes
<1>3. old \in DOMAIN tree /\ tree[old] # "dir" /\ tree[old] # Absent /\ ~ IsDir(old) /\ Stat(old) = tree[old]
  BY DEF IsReg, Stat, IsDir
<1>4. <<>> \in Name /\ old \o <<>> = old /\ new \o <<>> = new
  BY NormEmpty, ConcatEmptySeq DEF Name
<1>5. ASSUME NEW r \in Name, old \o r \in DOMAIN tree PROVE r = <<>>
  <2>1. IsPrefix(old, old \o r)
    BY Extended
  <2>2. old \o r = old
    BY <1>3, <1>5, <2>1, NothingBelow
  <2> QED
    BY <2>2, Extended
<1>6. new \in DOMAIN tree' /\ tree'[new] = tree[old]
  BY <1>2, <1>3, <1>4 DEF Moves
<1>7. ASSUME NEW m \in DOMAIN tree, m # old, m # new PROVE m \in DOMAIN tree' /\ tree'[m] = tree[m]
  <2>1. ~ IsPrefix(old, m)
    BY <1>3, <1>7, NothingBelow
  <2>2. ~ IsPrefix(new, m)
    BY <1>1, <1>7, RenameOver
  <2> QED
    BY <1>2, <2>1, <2>2 DEF Moves
<1>8. ASSUME NEW m \in DOMAIN tree', m # new PROVE m \in DOMAIN tree /\ m # old
  <2>1. IsPrefix(old, old)
    BY DEF IsPrefix, Name
  <2>2. \A r \in Name : m = new \o r /\ old \o r \in DOMAIN tree => FALSE
    BY <1>4, <1>5, <1>8
  <2> QED
    BY <1>2, <2>1, <2>2 DEF Moves
<1>9. ASSUME NEW m PROVE Stat(m)' = IF m = new THEN Stat(old) ELSE IF m = old THEN Absent ELSE Stat(m)
  <2>1. ASSUME m = new PROVE Stat(m)' = Stat(old)
    BY <1>3, <1>6, <2>1 DEF Stat
  <2>2. ASSUME m = old, m # new PROVE Stat(m)' = Absent
    BY <1>8, <2>2 DEF Stat
  <2>3. ASSUME m # old, m # new PROVE Stat(m)' = Stat(m)
    BY <1>7, <1>8, <2>3 DEF Stat
  <2> QED
    BY <2>1, <2>2, <2>3
<1> QED
  BY <1>9

-----------------------------------------------------------------------------
(* Children one after the other.                                           *)

\* How a name ends.
Ending(n) == Last(n).suffix

\* How the names that the cache makes end.
LEMMA Endings ==
    ASSUME NEW n \in Name, n # <<>>
    PROVE  /\ Ending(LockName(n)) = ".cache_lock" /\ Ending(TmpName(n)) = ".cache_tmp"
           /\ Ending(Append(n, INDEX_FILE)) = ""
           /\ PlainName(n) => Ending(n) = ""
           /\ ~ PlainName(LockName(n)) /\ ~ PlainName(TmpName(n)) /\ ~ PlainName(Append(n, INDEX_FILE))
<1>1. ASSUME NEW m \in Name, m # <<>>, PlainName(m) PROVE PlainPart(Last(m))
  <2>1. Len(m) \in 1 .. Len(m) /\ Last(m) = m[Len(m)]
    BY NameEnds, <1>1 DEF Last
  <2> QED
    BY <1>1, <2>1 DEF PlainName
<1>2. /\ Last(LockName(n)).suffix = ".cache_lock" /\ LockName(n) \in Name /\ LockName(n) # <<>>
      /\ Last(TmpName(n)).suffix = ".cache_tmp" /\ TmpName(n) \in Name /\ TmpName(n) # <<>>
      /\ Last(Append(n, INDEX_FILE)) = INDEX_FILE /\ Append(n, INDEX_FILE) \in Name /\ Append(n, INDEX_FILE) # <<>>
  BY NamesOf
<1>3. INDEX_FILE.suffix = "" /\ ~ PlainPart(INDEX_FILE)
  BY OwnComponents DEF PlainPart, INDEX
<1>4. ~ PlainPart(Last(LockName(n))) /\ ~ PlainPart(Last(TmpName(n))) /\ ~ PlainPart(Last(Append(n, INDEX_FILE)))
  BY <1>2, <1>3 DEF PlainPart
<1>5. /\ Ending(LockName(n)) = ".cache_lock" /\ Ending(TmpName(n)) = ".cache_tmp"
      /\ Ending(Append(n, INDEX_FILE)) = ""
  BY <1>2, <1>3 DEF Ending
<1>6. PlainName(n) => Ending(n) = ""
  BY <1>1 DEF PlainPart, Ending
<1> QED
  BY <1>1, <1>2, <1>4, <1>5, <1>6

\* An index belongs to one directory.
LEMMA IndexOf ==
    ASSUME NEW n \in Name, NEW m \in Name, Append(n, INDEX_FILE) = Append(m, INDEX_FILE)
    PROVE  n = m
<1>1. INDEX_FILE \in Component
  BY OwnComponents
<1>2. Front(Append(n, INDEX_FILE)) = n /\ Front(Append(m, INDEX_FILE)) = m
  BY <1>1, AppendEnds
<1> QED
  BY <1>2

\* The beginnings of a plain name, and what follows in it.
LEMMA PlainBeginning ==
    ASSUME NEW n \in Name, NEW i \in Nat \ {0}, i <= Len(n)
    PROVE  /\ PlainName(n) => PlainName(SubSeq(n, 1, i))
           /\ i < Len(n) => Front(SubSeq(n, 1, i + 1)) = SubSeq(n, 1, i)
           /\ i < Len(n) => SubSeq(Append(n, INDEX_FILE), 1, i) = SubSeq(n, 1, i)
           /\ SubSeq(n, 1, Len(n)) = n /\ SubSeq(Append(n, INDEX_FILE), 1, Len(n)) = n
           /\ Front(SubSeq(n, 1, 1)) = <<>>
<1>1. Len(n) \in Nat /\ i \in 0 .. Len(n) /\ \A j \in 1 .. i : j \in 1 .. Len(n)
  BY NameLength
<1> DEFINE b == SubSeq(n, 1, i)
<1>2. b \in Name /\ Len(b) = i /\ \A j \in 1 .. i : b[j] = n[j]
  BY <1>1, Beginning
<1>3. ASSUME PlainName(n) PROVE PlainName(b)
  <2> HIDE DEF b
  <2> QED
    BY <1>1, <1>2, <1>3 DEF PlainName
<1>4. ASSUME i < Len(n) PROVE Front(SubSeq(n, 1, i + 1)) = b
  <2> DEFINE c == SubSeq(n, 1, i + 1)
  <2>1. i + 1 \in 0 .. Len(n) /\ i + 1 - 1 = i /\ \A j \in 1 .. i : j \in 1 .. i + 1
    BY <1>1, <1>4
  <2>2. c \in Name /\ Len(c) = i + 1 /\ \A j \in 1 .. i + 1 : c[j] = n[j]
    BY <2>1, Beginning
  <2>3. c # <<>>
    <3>1. Len(<<>>) = 0 /\ i + 1 # 0
      BY EmptySeq
    <3> HIDE DEF c
    <3> QED
      BY <2>2, <3>1
  <2> HIDE DEF b, c
  <2>4. Front(c) \in Name /\ Len(Front(c)) = i /\ \A j \in 1 .. i : Front(c)[j] = c[j]
    <3>1. Front(c) \in Name /\ Len(Front(c)) = Len(c) - 1 /\ \A j \in 1 .. Len(c) - 1 : Front(c)[j] = c[j]
      BY <2>2, <2>3, NameEnds
    <3>2. Len(c) - 1 = i
      BY <2>1, <2>2
    <3> QED
      BY <3>1, <3>2
  <2>5. \A j \in 1 .. i : Front(c)[j] = b[j]
    BY <1>2, <2>1, <2>2, <2>4
  <2>6. Front(c) = b
    BY <1>2, <2>4, <2>5, SeqEqual DEF Name
  <2> QED
    BY <2>6 DEF c
<1>5. ASSUME NEW k \in 1 .. Len(n) PROVE SubSeq(Append(n, INDEX_FILE), 1, k) = SubSeq(n, 1, k)
  <2> DEFINE m == Append(n, INDEX_FILE)
  <2>1. m \in Name /\ Len(m) = Len(n) + 1 /\ \A j \in 1 .. Len(n) : m[j] = n[j]
    BY OwnComponents, AppendEnds
  <2> HIDE DEF m
  <2>2. k \in 0 .. Len(n) /\ k \in 0 .. Len(m) /\ \A j \in 1 .. k : j \in 1 .. Len(n)
    BY <1>1, <2>1
  <2>3. /\ SubSeq(m, 1, k) \in Name /\ Len(SubSeq(m, 1, k)) = k /\ \A j \in 1 .. k : SubSeq(m, 1, k)[j] = m[j]
    BY <2>1, <2>2, Beginning
  <2>4. /\ SubSeq(n, 1, k) \in Name /\ Len(SubSeq(n, 1, k)) = k /\ \A j \in 1 .. k : SubSeq(n, 1, k)[j] = n[j]
    BY <2>2, Beginning
  <2>5. \A j \in 1 .. k : SubSeq(m, 1, k)[j] = SubSeq(n, 1, k)[j]
    BY <2>1, <2>2, <2>3, <2>4
  <2>6. SubSeq(m, 1, k) = SubSeq(n, 1, k)
    BY <2>3, <2>4, <2>5, SeqEqual DEF Name
  <2> QED
    BY <2>6 DEF m
<1>6. SubSeq(n, 1, Len(n)) = n
  BY SubSeqFull DEF Name
<1>7. Len(n) \in 1 .. Len(n) /\ i \in 1 .. Len(n) /\ 1 \in 0 .. Len(n)
  BY <1>1
<1>8. Front(SubSeq(n, 1, 1)) = <<>>
  <2> DEFINE c == SubSeq(n, 1, 1)
  <2>1. c \in Name /\ Len(c) = 1
    BY <1>7, Beginning
  <2> HIDE DEF c
  <2>2. c # <<>>
    BY <2>1, EmptySeq
  <2>3. Front(c) \in Name /\ Len(Front(c)) = 0
    BY <2>1, <2>2, NameEnds
  <2>4. Front(c) = <<>>
    BY <2>3, EmptySeq DEF Name
  <2> QED
    BY <2>4 DEF c
<1> QED
  BY <1>3, <1>4, <1>5, <1>6, <1>7, <1>8

\* Where the copy of a URL is.
Copied(u) ==
    LET n == cache_file_name(u) IN IsReg(n) \/ (IsDir(n) /\ IsReg(Append(n, INDEX_FILE)))

\* It is being moved into a directory.
Moving(p, u) == pc[p] \in {"dir", "index"} /\ cache_file_name(u) = Level(p)

\* Until there is a backup.
EarlyLabel == PlaceLabel \cup {"free", "locked", "break", "stat", "verdict", "refresh", "backup"}

\* What a child that works alone has found or done: the name of its copy; what
\* is there; the directories above it; and its lock and its backup.
NameFound(p) ==
    LET n == cache_file_name(url[p])
    IN  cfn[p] = n \/ (cfn[p] = Append(n, INDEX_FILE) /\ IsDir(n))

CopyState(p) ==
    /\ pc[p] \in {"verdict", "refresh", "backup"} => IsReg(cfn[p])
    /\ pc[p] \in PlaceLabel \cup {"transfer", "install", "restore"} => ~ IsDir(cfn[p])

LevelState(p) ==
    /\ pc[p] \in PlaceLabel => IsDir(Front(Level(p)))
    /\ pc[p] = "lock" => cur[p] = Len(cfn[p])
    /\ pc[p] = "aside" => IsReg(Level(p))
    /\ pc[p] = "dir" => Stat(Level(p)) = Absent
    /\ pc[p] \in {"dir", "index"} => IsReg(TmpName(Level(p)))
    /\ pc[p] \in {"index", "entry_index"} => IsDir(Level(p))

OwnFiles(p) ==
    /\ pc[p] \in {"backup", "transfer", "install"} => IsReg(LockName(cfn[p]))
    /\ pc[p] = "restore" \/ (pc[p] = "transfer" /\ ims[p]) => IsReg(TmpName(cfn[p]))

Alone(p) == Working(p) => NameFound(p) /\ CopyState(p) /\ LevelState(p) /\ OwnFiles(p)

OneAtWork == \A p, q \in Child : Working(p) /\ Working(q) => p = q
PlainDirs == \A n \in Name : Stat(n) = "dir" => PlainName(n)
KeptThere == \A u \in kept : Cached(u) /\ (Copied(u) \/ \E p \in Child : Moving(p, u))
NoBackup == \A p \in Child : pc[p] \in EarlyLabel => ~ ims[p]

InTurn == OneAtWork /\ PlainDirs /\ (\A p \in Child : Alone(p)) /\ KeptThere /\ NoBackup

\* What system calls leave as it was.
DirsStay == \A m \in Name : IsDir(m) => IsDir(m)'
NoNewDir == \A m \in Name : IsDir(m)' => IsDir(m)
CopiesStay == \A m \in Name : Ending(m) = "" /\ IsReg(m) => IsReg(m)'

\* unlink() of a lock or a backup takes no directory and no copy.
LEMMA UnlinkQuiet ==
    ASSUME WellFormed, PlainDirs, NEW n \in Name, Ending(n) # "", Unlink(n)
    PROVE  PlainDirs' /\ DirsStay /\ NoNewDir /\ CopiesStay
<1>1. \A m : Stat(m)' = IF m = n /\ IsReg(n) THEN Absent ELSE Stat(m)
  BY UnlinkStat
<1>2. "dir" # Absent
  BY UrlAssumption
<1> QED
  BY <1>1, <1>2 DEF PlainDirs, DirsStay, NoNewDir, CopiesStay, IsDir, IsReg

\* A new file, or a new directory, takes nothing that was there.
LEMMA PlusQuiet ==
    ASSUME WellFormed, PlainDirs, NEW n \in Name, n # <<>>, NEW w \in Url \cup {"dir"}, Stat(n) = Absent,
           tree' = Plus(n, w), w = "dir" => PlainName(n)
    PROVE  /\ PlainDirs' /\ DirsStay /\ CopiesStay
           /\ w # "dir" => NoNewDir /\ IsReg(n)'
           /\ w = "dir" => IsDir(n)'
           /\ \A m \in Name : IsReg(m) => IsReg(m)'
           /\ \A m \in Name : m # n /\ ~ IsDir(m) => ~ IsDir(m)'
<1>1. \A m : Stat(m)' = IF m = n THEN w ELSE Stat(m)
  BY PlusStat
<1>2. "dir" # Absent /\ (w # "dir" => w # Absent)
  BY UrlAssumption
<1> QED
  BY <1>1, <1>2 DEF PlainDirs, DirsStay, NoNewDir, CopiesStay, IsDir, IsReg

\* rename() of a file takes nothing but its old name.
LEMMA MoveQuiet ==
    ASSUME WellFormed, PlainDirs, NEW old \in Name, old # <<>>, IsReg(old), NEW new \in Name, new # <<>>,
           old # new, IsDir(Front(new)), ~ IsDir(new), Rename(old, new)
    PROVE  /\ PlainDirs' /\ DirsStay /\ NoNewDir
           /\ IsReg(new)' /\ Stat(old)' = Absent
           /\ \A m \in Name : m # old /\ IsReg(m) => IsReg(m)'
<1>1. Stat(new) # "dir"
  BY DEF IsDir
<1>2. \A m : Stat(m)' = IF m = new THEN Stat(old) ELSE IF m = old THEN Absent ELSE Stat(m)
  BY <1>1, MoveStat
<1>3. "dir" # Absent
  BY UrlAssumption
<1> QED
  BY <1>1, <1>2, <1>3 DEF PlainDirs, DirsStay, NoNewDir, IsDir, IsReg

\* A copy that is found stays found.
LEMMA CopiedStays ==
    ASSUME NEW u, Cached(u), Copied(u), DirsStay,
           IsReg(cache_file_name(u)) => IsReg(cache_file_name(u))',
           IsDir(cache_file_name(u)) /\ IsReg(Append(cache_file_name(u), INDEX_FILE))
               => IsReg(Append(cache_file_name(u), INDEX_FILE))'
    PROVE  Copied(u)'
<1> DEFINE n == cache_file_name(u)
<1>1. n \in Name
  BY CopyName
<1>2. IsDir(n) => IsDir(n)'
  BY <1>1 DEF DirsStay
<1> QED
  BY <1>2 DEF Copied

\* The names that a copy may have.
LEMMA CopyNames ==
    ASSUME NEW u, Cached(u)
    PROVE  /\ cache_file_name(u) \in Name /\ cache_file_name(u) # <<>> /\ PlainName(cache_file_name(u))
           /\ Ending(cache_file_name(u)) = ""
           /\ Append(cache_file_name(u), INDEX_FILE) \in Name /\ Append(cache_file_name(u), INDEX_FILE) # <<>>
           /\ Ending(Append(cache_file_name(u), INDEX_FILE)) = ""
           /\ ~ PlainName(Append(cache_file_name(u), INDEX_FILE))
BY CopyName, Endings, NamesOf

\* A copy stays found when no copy is taken.
LEMMA CopiedStill ==
    ASSUME NEW u, Cached(u), Copied(u), DirsStay, CopiesStay
    PROVE  Copied(u)'
<1>1. /\ IsReg(cache_file_name(u)) => IsReg(cache_file_name(u))'
      /\ IsReg(Append(cache_file_name(u), INDEX_FILE)) => IsReg(Append(cache_file_name(u), INDEX_FILE))'
  BY CopyNames DEF CopiesStay
<1> QED
  BY <1>1, CopiedStays

\* The child that works is the only one, before the step and after it.
LEMMA OnlyOne ==
    ASSUME AnyTime, InTurn, NEW p \in Child, Working(p), ChildNext(p)
    PROVE  /\ OneAtWork'
           /\ \A q \in Child : q # p => ~ Working(q) /\ ~ Working(q)'
           /\ \A q \in Child : q # p => Alone(q)'
           /\ \A q \in Child : q # p => pc'[q] = pc[q] /\ ims'[q] = ims[q]
<1>1. \A q \in Child : q # p => Stays(q)
  BY OthersStay DEF AnyTime
<1>2. \A q \in Child : q # p => ~ Working(q)
  BY DEF InTurn, OneAtWork
<1>3. \A q \in Child : q # p => pc'[q] = pc[q] /\ ims'[q] = ims[q]
  BY <1>1 DEF Stays
<1>4. \A q \in Child : q # p => ~ Working(q)'
  BY <1>2, <1>3 DEF Working
<1> QED
  BY <1>2, <1>3, <1>4 DEF OneAtWork, Alone


-----------------------------------------------------------------------------

\* What is in the tree is in a directory.
LEMMA InDirectory ==
    ASSUME WellFormed, NEW n, Stat(n) # Absent
    PROVE  n \in Name /\ n # <<>> /\ IsDir(Front(n))
<1>1. n \in DOMAIN tree
  BY DEF Stat
<1>2. n \in Name /\ n # <<>>
  BY <1>1 DEF WellFormed
<1>3. Len(n) \in Nat \ {0} /\ Front(n) \in Name /\ Len(Front(n)) = Len(n) - 1
  BY <1>2, NameEnds
<1>4. ASSUME Len(n) = 1 PROVE IsDir(Front(n))
  <2>1. Len(Front(n)) = 0
    BY <1>3, <1>4
  <2> QED
    BY <1>3, <2>1, EmptySeq DEF IsDir, Name
<1>5. ASSUME Len(n) # 1 PROVE IsDir(Front(n))
  <2>1. Len(n) - 1 \in 1 .. Len(n) - 1
    BY <1>3, <1>5
  <2>2. SubSeq(n, 1, Len(n) - 1) \in DOMAIN tree /\ tree[SubSeq(n, 1, Len(n) - 1)] = "dir"
    <3> DEFINE i == Len(n) - 1
    <3>1. \A k \in 1 .. i : SubSeq(n, 1, k) \in DOMAIN tree /\ tree[SubSeq(n, 1, k)] = "dir"
      BY <1>1 DEF WellFormed
    <3>2. i \in 1 .. i
      BY <2>1
    <3> HIDE DEF i
    <3>3. SubSeq(n, 1, i) \in DOMAIN tree /\ tree[SubSeq(n, 1, i)] = "dir"
      BY <3>1, <3>2
    <3> QED
      BY <3>3 DEF i
  <2> QED
    BY <2>2 DEF IsDir, Stat, Front
<1> QED
  BY <1>2, <1>4, <1>5

\* A component that has no suffix and is no index is plain.
LEMMA PlainComponent ==
    ASSUME NEW c \in Component, c.suffix = "", c # INDEX_FILE
    PROVE  PlainPart(c)
<1>1. c = [base |-> c.base, suffix |-> c.suffix]
  BY DEF Component
<1>2. INDEX_FILE = [base |-> ".cache_dirindex", suffix |-> ""]
  BY DEF INDEX_FILE, Part
<1>3. c.base # ".cache_dirindex"
  BY <1>1, <1>2
<1> QED
  BY <1>3 DEF PlainPart, INDEX

\* The invariant of children one after the other holds of the trees a daemon may find.
LEMMA InTurnInit ==
    ASSUME TreeInit
    PROVE  InTurn
<1>1. \A p \in Child : pc[p] = "free" /\ ~ ims[p]
  BY DEF TreeInit
<1>2. OneAtWork /\ (\A p \in Child : Alone(p)) /\ NoBackup
  BY <1>1 DEF OneAtWork, Alone, Working, NoBackup
<1>3. WellFormed
  BY AnyTimeInit DEF AnyTime, TreeRight
<1>4. PlainDirs
  <2>1. ASSUME NEW n \in Name, Stat(n) = "dir", NEW i \in 1 .. Len(n)
        PROVE  n[i] \in Component /\ n[i].suffix = "" /\ n[i] # INDEX_FILE
    <3>1. n \in DOMAIN tree /\ tree[n] = "dir" /\ tree \in OldTree
      BY <2>1, UrlAssumption DEF Stat, TreeInit
    <3>2. DOMAIN n = 1 .. Len(n) /\ n[i] \in Component
      BY DEF Name
    <3> QED
      BY <3>1, <3>2, OldTreeAssumption
  <2>2. ASSUME NEW n \in Name, Stat(n) = "dir" PROVE PlainName(n)
    <3>1. \A i \in 1 .. Len(n) : PlainPart(n[i])
      BY <2>1, <2>2, PlainComponent, Zenon
    <3> QED
      BY <3>1 DEF PlainName
  <2> QED
    BY <2>2 DEF PlainDirs
<1>5. ASSUME NEW u \in kept PROVE Cached(u) /\ Copied(u)
  <2>1. PICK n \in DOMAIN tree : Ending(n) = "" /\ tree[n] = u /\ u # "dir"
    BY DEF TreeInit, Ending
  <2> DEFINE c == cache_file_name(u)
  <2>2. /\ u \in Url /\ c # Absent
        /\ \E m \in {c, Append(c, INDEX_FILE)} : n \in {m, LockName(m), TmpName(m)}
    BY <2>1, OldTreeAssumption DEF TreeInit
  <2>3. Cached(u)
    BY <2>2 DEF Cached
  <2>4. c \in Name /\ c # <<>> /\ Append(c, INDEX_FILE) \in Name /\ Append(c, INDEX_FILE) # <<>>
    BY <2>3, CopyNames
  <2> HIDE DEF c
  <2>5. PICK m \in {c, Append(c, INDEX_FILE)} : n \in {m, LockName(m), TmpName(m)}
    BY <2>2
  <2>6. Ending(LockName(m)) = ".cache_lock" /\ Ending(TmpName(m)) = ".cache_tmp"
    <3>1. m \in Name /\ m # <<>>
      BY <2>4, <2>5, Zenon
    <3> QED
      BY <3>1, Endings, Zenon
  <2>7. n = m
    BY <2>1, <2>5, <2>6
  <2>8. Stat(n) = u /\ u # Absent
    BY <2>1, <2>2, UrlAssumption DEF Stat
  <2>9. IsReg(n)
    BY <2>1, <2>8 DEF IsReg
  <2>10. ASSUME n = Append(c, INDEX_FILE) PROVE IsDir(c)
    <3>1. Front(Append(c, INDEX_FILE)) = c
      BY <2>4, NamesOf
    <3> QED
      BY <1>3, <2>8, <2>10, <3>1, InDirectory
  <2>11. Copied(u)
    BY <2>5, <2>7, <2>9, <2>10 DEF Copied, c
  <2> QED
    BY <2>3, <2>11
<1> QED
  BY <1>2, <1>4, <1>5 DEF InTurn, KeptThere

\* Alone, a child works at the copy of its URL or at the index in its place, and
\* the directories that it comes to are named as those of copies are.
LEMMA NamesAtWork ==
    ASSUME AnyTime, NEW p \in Child, Working(p), NameFound(p)
    PROVE  /\ Cached(url[p]) /\ url[p] \in Url
           /\ cfn[p] \in Name /\ cfn[p] # <<>> /\ Ending(cfn[p]) = ""
           /\ Len(cfn[p]) \in Nat \ {0}
           /\ \A i \in Nat \ {0} : i < Len(cfn[p]) => PlainName(SubSeq(cfn[p], 1, i))
<1> DEFINE n == cache_file_name(url[p])
           m == Append(n, INDEX_FILE)
<1>1. Cached(url[p]) /\ url[p] \in Url
  BY AtWork DEF Working
<1>2. n \in Name /\ n # <<>> /\ PlainName(n) /\ Ending(n) = "" /\ m \in Name /\ m # <<>> /\ Ending(m) = ""
      /\ Len(m) = Len(n) + 1 /\ Len(n) \in Nat \ {0}
  BY <1>1, CopyNames, NamesOf, NameEnds
<1>3. ASSUME NEW i \in Nat \ {0}, i <= Len(n)
      PROVE  PlainName(SubSeq(n, 1, i)) /\ PlainName(SubSeq(m, 1, i))
  <2>1. PlainName(SubSeq(n, 1, i))
    BY <1>2, <1>3, PlainBeginning
  <2>2. SubSeq(m, 1, i) = SubSeq(n, 1, i)
    <3>1. ASSUME i < Len(n) PROVE SubSeq(m, 1, i) = SubSeq(n, 1, i)
      BY <1>2, <1>3, <3>1, PlainBeginning
    <3>2. ASSUME i = Len(n) PROVE SubSeq(m, 1, i) = SubSeq(n, 1, i)
      <4>1. SubSeq(n, 1, Len(n)) = n /\ SubSeq(m, 1, Len(n)) = n
        BY <1>2, <1>3, PlainBeginning
      <4>2. SubSeq(n, 1, i) = n /\ SubSeq(m, 1, i) = n
        BY <3>2, <4>1, Zenon
      <4> QED
        BY <4>2, Zenon
    <3>3. i < Len(n) \/ i = Len(n)
      <4>1. Len(n) \in Nat
        BY <1>2
      <4> QED
        BY <1>3, <4>1
    <3> QED
      BY <3>1, <3>2, <3>3, Zenon
  <2> QED
    BY <2>1, <2>2
<1>4. cfn[p] = n \/ cfn[p] = m
  BY DEF NameFound
<1> HIDE DEF n, m
<1>6. Len(cfn[p]) \in Nat \ {0} /\ Len(cfn[p]) <= Len(n) + 1
  <2>1. Len(cfn[p]) = Len(n) \/ Len(cfn[p]) = Len(m)
    BY <1>4, Zenon
  <2>2. Len(m) = Len(n) + 1 /\ Len(n) \in Nat \ {0}
    BY <1>2
  <2> QED
    BY <2>1, <2>2
<1>5. ASSUME NEW i \in Nat \ {0}, i < Len(cfn[p]) PROVE PlainName(SubSeq(cfn[p], 1, i))
  <2>1. i <= Len(n)
    <3>1. Len(n) \in Nat
      BY <1>2
    <3> QED
      BY <1>5, <1>6, <3>1
  <2> QED
    BY <1>3, <1>4, <2>1
<1> QED
  BY <1>1, <1>2, <1>4, <1>5, <1>6

-----------------------------------------------------------------------------
(* A child that works alone.                                               *)

\* What it finds.
LEMMA Turn ==
    ASSUME AnyTime, InTurn, NEW p \in Child, Working(p)
    PROVE  /\ WellFormed /\ PlainDirs
           /\ NameFound(p) /\ CopyState(p) /\ LevelState(p) /\ OwnFiles(p)
           /\ \A u \in kept : Cached(u) /\ (Copied(u) \/ Moving(p, u))
           /\ pc[p] \notin {"dir", "index"} => \A u \in kept : Cached(u) /\ Copied(u)
           /\ pc[p] \in EarlyLabel => ~ ims[p]
<1>1. WellFormed /\ PlainDirs /\ Alone(p)
  BY DEF AnyTime, TreeRight, InTurn
<1>2. \A q \in Child : q # p => ~ Working(q)
  BY DEF InTurn, OneAtWork
<1>3. ASSUME NEW u \in kept PROVE Cached(u) /\ (Copied(u) \/ Moving(p, u))
  <2>1. \A q \in Child : Moving(q, u) => q = p
    BY <1>2 DEF Moving, Working
  <2> QED
    BY <2>1 DEF InTurn, KeptThere
<1>4. pc[p] \notin {"dir", "index"} => \A u \in kept : ~ Moving(p, u)
  BY DEF Moving
<1> QED
  BY <1>1, <1>3, <1>4 DEF Alone, InTurn, NoBackup

\* What it leaves.
Leaves(p) ==
    /\ PlainDirs' /\ KeptThere'
    /\ Alone(p)'
    /\ pc'[p] \in EarlyLabel => ~ ims'[p]

\* What the child leaves and what the others keep make the invariant.
LEMMA InTurnFrom ==
    ASSUME AnyTime, InTurn, NEW p \in Child, Working(p), ChildNext(p), Leaves(p)
    PROVE  InTurn'
<1>1. /\ OneAtWork'
      /\ \A q \in Child : q # p => Alone(q)'
      /\ \A q \in Child : q # p => pc'[q] = pc[q] /\ ims'[q] = ims[q]
  BY OnlyOne
<1>2. \A q \in Child : Alone(q)'
  BY <1>1 DEF Leaves
<1>3. NoBackup'
  BY <1>1 DEF Leaves, InTurn, NoBackup
<1> QED
  BY <1>1, <1>2, <1>3 DEF Leaves, InTurn

\* The name it works at stays the one it found.
LEMMA NameStays ==
    ASSUME AnyTime, NEW p \in Child, Working(p), NameFound(p), DirsStay, cfn'[p] = cfn[p], url'[p] = url[p]
    PROVE  NameFound(p)'
<1>1. cache_file_name(url[p]) \in Name
  BY AtWork, CopyName DEF Working
<1>2. IsDir(cache_file_name(url[p])) => IsDir(cache_file_name(url[p]))'
  BY <1>1 DEF DirsStay
<1> QED
  BY <1>2 DEF NameFound

\* The documents that were kept, after a step that takes none away.
LEMMA KeptStay ==
    ASSUME AnyTime, InTurn, NEW p \in Child, Working(p), pc[p] \notin {"dir", "index"}, kept' = kept,
           DirsStay, CopiesStay
    PROVE  KeptThere'
<1>1. \A u \in kept : Cached(u) /\ Copied(u)
  BY Turn
<1>2. \A u \in kept : Copied(u)'
  BY <1>1, CopiedStill
<1> QED
  BY <1>1, <1>2 DEF KeptThere

\* Steps that leave the tree alone.
LEMMA TreeSame ==
    ASSUME AnyTime, InTurn, NEW p \in Child, Working(p), pc[p] \notin {"dir", "index"}, kept' = kept,
           tree' = tree
    PROVE  PlainDirs' /\ KeptThere' /\ DirsStay
<1>1. WellFormed /\ PlainDirs
  BY Turn
<1>2. PlainDirs' /\ DirsStay /\ CopiesStay
  BY <1>1 DEF PlainDirs, DirsStay, CopiesStay, IsDir, IsReg, Stat
<1> QED
  BY <1>2, KeptStay

\* Steps that look at the tree leave it as it was.
LEMMA LooksLeave ==
    ASSUME AnyTime, InTurn, NEW p \in Child, locked(p) \/ lookup_stat(p) \/ lookup_info(p) \/ cache_free(p)
    PROVE  Working(p) /\ Leaves(p)
<1>1. Working(p)
  BY DEF locked, lookup_stat, lookup_info, cache_free, Working
<1>2. /\ pc[p] \in {"locked", "stat", "verdict", "transfer"} /\ kept' = kept /\ tree' = tree
      /\ url' = url /\ ims' = ims
  BY DEF locked, lookup_stat, lookup_info, cache_free, history
<1>3. PlainDirs' /\ KeptThere' /\ DirsStay
  BY <1>1, <1>2, TreeSame
<1>4. /\ NameFound(p) /\ CopyState(p) /\ LevelState(p) /\ OwnFiles(p)
      /\ pc[p] \in EarlyLabel => ~ ims[p]
  BY <1>1, Turn
<1>5. \A n : (IsDir(n) <=> IsDir(n)') /\ (IsReg(n) <=> IsReg(n)')
  BY <1>2 DEF IsDir, IsReg, Stat
<1>6. pc \in [Child -> Label] /\ cfn \in [Child -> Name] /\ cur \in [Child -> Nat \ {0}]
  BY DEF AnyTime, TypesRight
<1> USE DEF Leaves, Alone, CopyState, LevelState, OwnFiles, Goto, PlaceLabel, LoopLabel, EarlyLabel
<1>7. ASSUME locked(p) PROVE Leaves(p)
  <2>1. NameFound(p)'
    BY <1>1, <1>3, <1>4, <1>7, NameStays DEF locked, place
  <2>2. pc'[p] \in {"exit", "break", "stat"} /\ pc[p] = "locked"
    BY <1>6, <1>7 DEF locked
  <2> QED
    BY <1>2, <1>3, <1>4, <2>1, <2>2
<1>8. ASSUME lookup_info(p) PROVE Leaves(p)
  <2>1. NameFound(p)'
    BY <1>1, <1>3, <1>4, <1>8, NameStays DEF lookup_info, place
  <2>2. pc'[p] \in {"open", "refresh"} /\ pc[p] = "verdict" /\ cfn' = cfn
    BY <1>6, <1>8 DEF lookup_info, place
  <2>3. IsReg(cfn[p])'
    BY <1>4, <1>5, <2>2
  <2> QED
    BY <1>2, <1>3, <1>4, <2>1, <2>2, <2>3
<1>9. ASSUME cache_free(p) PROVE Leaves(p)
  <2>1. NameFound(p)'
    BY <1>1, <1>3, <1>4, <1>9, NameStays DEF cache_free, place
  <2>2. pc'[p] \in {"install", "cancel", "restore"} /\ pc[p] = "transfer" /\ cfn' = cfn
    BY <1>6, <1>9 DEF cache_free, place
  <2>3. pc'[p] = "restore" => ims[p]
    BY <1>6, <1>9 DEF cache_free
  <2>4. ~ IsDir(cfn[p])' /\ IsReg(LockName(cfn[p]))' /\ (ims[p] => IsReg(TmpName(cfn[p]))')
    BY <1>4, <1>5, <2>2
  <2> QED
    BY <1>2, <1>3, <1>4, <2>1, <2>2, <2>3, <2>4
<1>10. ASSUME lookup_stat(p) PROVE Leaves(p)
  <2>1. CASE IsReg(cfn[p]) /\ Goto(p, "verdict") /\ UNCHANGED place
    <3>1. NameFound(p)'
      BY <1>1, <1>2, <1>3, <1>4, <2>1, NameStays DEF place
    <3>2. pc'[p] = "verdict" /\ cfn' = cfn /\ pc[p] = "stat"
      BY <1>6, <1>10, <2>1 DEF place, lookup_stat
    <3>3. IsReg(cfn[p])'
      BY <1>5, <2>1, <3>2
    <3> QED
      BY <1>2, <1>3, <1>4, <3>1, <3>2, <3>3
  <2>2. CASE IsDir(cfn[p]) /\ cfn' = [cfn EXCEPT ![p] = Append(@, INDEX_FILE)] /\ pc' = pc
    <3>1. NameFound(p)'
      <4> DEFINE n == cache_file_name(url[p])
      <4>1. ASSUME cfn[p] = n PROVE cfn'[p] = Append(n, INDEX_FILE) /\ IsDir(n)'
        <5>1. cfn'[p] = Append(cfn[p], INDEX_FILE)
          BY <1>6, <2>2
        <5>2. url'[p] = url[p] /\ IsDir(cfn[p])
          BY <1>2, <2>2
        <5>3. IsDir(cache_file_name(url[p]))'
          BY <1>5, <4>1, <5>2
        <5> QED
          BY <4>1, <5>1, <5>3
      <4>2. ASSUME cfn[p] = Append(n, INDEX_FILE) PROVE FALSE
        <5>1. /\ ~ PlainName(Append(n, INDEX_FILE)) /\ Append(n, INDEX_FILE) \in Name
              /\ Append(n, INDEX_FILE) # <<>>
          BY <1>1, AtWork, CopyNames DEF Working
        <5>2. \A m \in Name : Stat(m) = "dir" => PlainName(m)
          BY <1>1, Turn DEF PlainDirs
        <5> QED
          BY <2>2, <4>2, <5>1, <5>2 DEF IsDir
      <4> QED
        BY <1>2, <1>4, <4>1, <4>2 DEF NameFound
    <3>2. pc[p] = "stat"
      BY <1>10 DEF lookup_stat
    <3> QED
      BY <1>2, <1>3, <1>4, <2>2, <3>1, <3>2
  <2>3. CASE Stat(cfn[p]) = Absent /\ Goto(p, "place") /\ cur' = [cur EXCEPT ![p] = 1] /\ cfn' = cfn
    <3>1. NameFound(p)'
      BY <1>1, <1>2, <1>3, <1>4, <2>3, NameStays
    <3>2. pc'[p] = "place" /\ cur'[p] = 1 /\ pc[p] = "stat"
      BY <1>6, <1>10, <2>3 DEF lookup_stat
    <3>3. ~ IsDir(cfn[p])'
      <4>1. cfn[p] # <<>> /\ "dir" # Absent
        BY <1>1, AtWork, UrlAssumption DEF Working
      <4>2. ~ IsDir(cfn[p])
        BY <2>3, <4>1 DEF IsDir
      <4> QED
        BY <1>5, <2>3, <4>2
    <3>4. IsDir(Front(Level(p)))'
      <4>1. cfn[p] \in Name /\ 1 \in Nat \ {0} /\ 1 <= Len(cfn[p])
        <5>1. cfn[p] \in Name /\ Len(cfn[p]) \in Nat \ {0}
          BY <1>1, <1>4, NamesAtWork, Zenon
        <5> QED
          BY <5>1
      <4>2. Front(SubSeq(cfn[p], 1, 1)) = <<>>
        BY <4>1, PlainBeginning
      <4>3. Front(SubSeq(cfn'[p], 1, cur'[p])) = <<>>
        BY <2>3, <3>2, <4>2
      <4> QED
        BY <4>3 DEF Level, IsDir
    <3> QED
      BY <1>2, <1>3, <1>4, <3>1, <3>2, <3>3, <3>4
  <2> QED
    BY <1>10, <2>1, <2>2, <2>3 DEF lookup_stat
<1> QED
  BY <1>1, <1>7, <1>8, <1>9, <1>10

\* A child that writes an entry, or sends the copy, leaves the tree alone.
LEMMA EntriesLeave ==
    ASSUME AnyTime, InTurn, NEW p \in Child, created_entry(p) \/ not_modified_entry(p) \/ OpenCached(p)
    PROVE  Working(p) /\ Leaves(p)
<1>1. Working(p)
  BY DEF created_entry, not_modified_entry, OpenCached, Working
<1>2. /\ pc[p] \in {"entry", "entry304", "open"} /\ kept' = kept /\ tree' = tree
      /\ url' = url /\ cfn' = cfn
  BY DEF created_entry, not_modified_entry, OpenCached, history, place
<1>3. PlainDirs' /\ KeptThere' /\ DirsStay
  BY <1>1, <1>2, TreeSame
<1>4. NameFound(p)'
  BY <1>1, <1>2, <1>3, Turn, NameStays
<1>5. pc'[p] \in {"exit", "open"}
  BY DEF created_entry, not_modified_entry, OpenCached, Goto, AnyTime, TypesRight
<1> QED
  BY <1>1, <1>3, <1>4, <1>5
     DEF Leaves, Alone, Working, CopyState, LevelState, OwnFiles, PlaceLabel, LoopLabel, EarlyLabel

\* A lock or a backup that goes.
LEMMA UnlinksLeave ==
    ASSUME AnyTime, InTurn, NEW p \in Child,
           locked_break(p) \/ created_discard(p) \/ not_modified_unlock(p) \/ cache_cancel(p)
    PROVE  Working(p) /\ Leaves(p)
<1>1. Working(p)
  BY DEF locked_break, created_discard, not_modified_unlock, cache_cancel, Working
<1>2. /\ pc[p] \in {"break", "discard", "unlock", "cancel"} /\ kept' = kept
      /\ url' = url /\ cfn' = cfn /\ ims' = ims
  BY DEF locked_break, created_discard, not_modified_unlock, cache_cancel, history, place
<1>3. PICK n \in {LockName(cfn[p]), TmpName(cfn[p]), LockName(cache_file_name(url[p]))} : Unlink(n)
  BY DEF locked_break, created_discard, not_modified_unlock, cache_cancel
<1>4. n \in Name /\ Ending(n) # ""
  <2>1. cfn[p] \in Name /\ cfn[p] # <<>> /\ cache_file_name(url[p]) \in Name /\ cache_file_name(url[p]) # <<>>
    BY <1>1, AtWork, CopyName DEF Working
  <2>2. ASSUME NEW m \in Name, m # <<>>
        PROVE  /\ LockName(m) \in Name /\ Ending(LockName(m)) # ""
               /\ TmpName(m) \in Name /\ Ending(TmpName(m)) # ""
    BY <2>2, NamesOf, Endings
  <2> QED
    BY <1>3, <2>1, <2>2, Zenon
<1>5. /\ WellFormed /\ PlainDirs /\ NameFound(p)
      /\ pc[p] \in EarlyLabel => ~ ims[p]
  BY <1>1, Turn
<1>6. PlainDirs' /\ DirsStay /\ NoNewDir /\ CopiesStay
  BY <1>3, <1>4, <1>5, UnlinkQuiet
<1>7. KeptThere' /\ NameFound(p)'
  BY <1>1, <1>2, <1>5, <1>6, KeptStay, NameStays
<1>8. pc'[p] \in {"stat", "entry", "entry304", "exit"} /\ (pc[p] # "break" => pc'[p] # "stat")
  BY DEF locked_break, created_discard, not_modified_unlock, cache_cancel, Goto, AnyTime, TypesRight
<1> QED
  BY <1>1, <1>2, <1>5, <1>6, <1>7, <1>8
     DEF Leaves, Alone, Working, CopyState, LevelState, OwnFiles, PlaceLabel, LoopLabel, EarlyLabel

\* do_lock(): the lock is there after it, or the child gives up.
LEMMA LocksLeave ==
    ASSUME AnyTime, InTurn, NEW p \in Child, lookup_refresh(p) \/ lookup_create(p)
    PROVE  Working(p) /\ Leaves(p)
<1> DEFINE l == LockName(cfn[p])
<1>1. Working(p)
  BY DEF lookup_refresh, lookup_create, Working
<1>2. /\ pc[p] \in {"refresh", "lock"} /\ kept' = kept /\ url' = url /\ cfn' = cfn /\ ims' = ims
      /\ do_lock(p, IF pc[p] = "refresh" THEN "backup" ELSE "transfer")
  BY DEF lookup_refresh, lookup_create, history, place
<1>3. /\ WellFormed /\ PlainDirs /\ NameFound(p) /\ CopyState(p)
      /\ pc[p] \in EarlyLabel => ~ ims[p]
  BY <1>1, Turn
<1>4. cfn[p] \in Name /\ cfn[p] # <<>> /\ Ending(cfn[p]) = "" /\ url[p] \in Url
  BY <1>1, <1>3, NamesAtWork
<1>5. l \in Name /\ l # <<>>
  BY <1>4, NamesOf
<1>6. ASSUME Stat(l) = Absent /\ IsDir(Front(l)) PROVE Leaves(p)
  <2>1. /\ tree' = Plus(l, url[p]) /\ (pc[p] = "refresh" => pc'[p] = "backup")
        /\ (pc[p] = "lock" => pc'[p] = "transfer")
    BY <1>2, <1>6 DEF do_lock, Goto, AnyTime, TypesRight
  <2>2. url[p] # "dir"
    BY <1>4, UrlAssumption
  <2>3. PlainDirs' /\ DirsStay /\ CopiesStay /\ NoNewDir /\ IsReg(l)'
    <3> HIDE DEF l
    <3>1. PlainDirs' /\ DirsStay /\ CopiesStay /\ NoNewDir
      BY <1>3, <1>4, <1>5, <1>6, <2>1, <2>2, PlusQuiet
    <3>2. IsReg(LockName(cfn[p]))'
      <4>1. \A m : Stat(m)' = IF m = l THEN url[p] ELSE Stat(m)
        BY <1>3, <2>1, PlusStat
      <4>2. url[p] # Absent
        BY <1>4, UrlAssumption
      <4>3. l = LockName(cfn[p]) /\ cfn' = cfn
        BY <1>2 DEF l
      <4>4. Stat(LockName(cfn[p]))' = url[p]
        BY <4>1, <4>3
      <4> QED
        BY <2>2, <4>2, <4>4 DEF IsReg
    <3> QED
      BY <3>1, <3>2 DEF l
  <2>4. KeptThere' /\ NameFound(p)'
    BY <1>1, <1>2, <1>3, <2>3, KeptStay, NameStays
  <2>5. pc'[p] = "backup" => IsReg(cfn[p])'
    <3>1. pc'[p] = "backup" => IsReg(cfn[p])
      BY <1>2, <1>3, <2>1 DEF CopyState
    <3>2. IsReg(cfn[p]) => IsReg(cfn[p])'
      BY <1>2, <1>4, <2>3 DEF CopiesStay
    <3> QED
      BY <3>1, <3>2
  <2>6. pc'[p] = "transfer" => ~ IsDir(cfn[p])'
    <3>1. pc'[p] = "transfer" => ~ IsDir(cfn[p])
      BY <1>2, <1>3, <2>1 DEF CopyState, PlaceLabel
    <3>2. IsDir(cfn[p])' => IsDir(cfn[p])
      BY <1>2, <1>4, <2>3 DEF NoNewDir
    <3> QED
      BY <3>1, <3>2
  <2> HIDE DEF l
  <2>7. IsReg(LockName(cfn[p]))'
    BY <2>3 DEF l
  <2>8. ~ ims'[p] /\ pc'[p] \in {"backup", "transfer"}
    BY <1>2, <1>3, <2>1 DEF EarlyLabel, PlaceLabel
  <2> QED
    BY <2>3, <2>4, <2>5, <2>6, <2>7, <2>8
       DEF Leaves, Alone, CopyState, LevelState, OwnFiles, PlaceLabel, LoopLabel, EarlyLabel
<1>7. ASSUME ~ (Stat(l) = Absent /\ IsDir(Front(l))) PROVE Leaves(p)
  <2>1. tree' = tree /\ pc'[p] = "exit"
    BY <1>2, <1>7 DEF do_lock, Goto, AnyTime, TypesRight
  <2>2. PlainDirs' /\ KeptThere'
    BY <1>1, <1>2, <2>1, TreeSame
  <2> QED
    BY <2>1, <2>2 DEF Leaves, Alone, Working, EarlyLabel, PlaceLabel, LoopLabel
<1> QED
  BY <1>1, <1>6, <1>7

\* The copy becomes the backup.
LEMMA BackupLeaves ==
    ASSUME AnyTime, InTurn, NEW p \in Child, lookup_backup(p)
    PROVE  Working(p) /\ Leaves(p)
<1> DEFINE n == cache_file_name(url[p])
<1>1. Working(p) /\ pc[p] = "backup" /\ url' = url /\ cfn' = cfn
  BY DEF lookup_backup, Working, place
<1>2. pc'[p] = "transfer"
  BY DEF lookup_backup, Goto, AnyTime, TypesRight
<1>3. /\ WellFormed /\ PlainDirs /\ NameFound(p) /\ CopyState(p) /\ OwnFiles(p)
      /\ \A u \in kept : Cached(u) /\ Copied(u)
  BY <1>1, Turn
<1>4. cfn[p] \in Name /\ cfn[p] # <<>> /\ Ending(cfn[p]) = "" /\ Cached(url[p])
  BY <1>1, <1>3, NamesAtWork
<1>5. IsReg(cfn[p]) /\ IsReg(LockName(cfn[p]))
  BY <1>1, <1>3 DEF CopyState, OwnFiles
<1>6. /\ TmpName(cfn[p]) \in Name /\ TmpName(cfn[p]) # <<>> /\ TmpName(cfn[p]) # cfn[p]
      /\ LockName(cfn[p]) \in Name /\ LockName(cfn[p]) # cfn[p] /\ ~ PlainName(TmpName(cfn[p]))
      /\ Front(TmpName(cfn[p])) = Front(cfn[p])
  <2>1. Ending(LockName(cfn[p])) = ".cache_lock" /\ Ending(TmpName(cfn[p])) = ".cache_tmp"
    BY <1>4, Endings
  <2>2. LockName(cfn[p]) # cfn[p] /\ TmpName(cfn[p]) # cfn[p]
    BY <1>4, <2>1
  <2> QED
    BY <1>4, <2>2, NamesOf, Endings
<1>7. IsDir(Front(TmpName(cfn[p]))) /\ ~ IsDir(TmpName(cfn[p])) /\ ~ IsDir(cfn[p])
  <2>1. IsDir(Front(cfn[p]))
    BY <1>3, <1>5, InDirectory DEF IsReg
  <2>2. ~ IsDir(TmpName(cfn[p]))
    BY <1>3, <1>6 DEF PlainDirs, IsDir
  <2> QED
    BY <1>4, <1>5, <1>6, <2>1, <2>2 DEF IsReg, IsDir
<1>8. Rename(cfn[p], TmpName(cfn[p]))
  BY DEF lookup_backup
<1>9. /\ PlainDirs' /\ DirsStay /\ NoNewDir
      /\ \A m \in Name : m # cfn[p] /\ IsReg(m) => IsReg(m)'
      /\ IsReg(TmpName(cfn[p]))'
  <2>1. /\ PlainDirs' /\ DirsStay /\ NoNewDir
        /\ \A m \in Name : m # cfn[p] /\ IsReg(m) => IsReg(m)'
    BY <1>3, <1>4, <1>5, <1>6, <1>7, <1>8, MoveQuiet
  <2>2. \A m : Stat(m)' = IF m = TmpName(cfn[p]) THEN Stat(cfn[p]) ELSE IF m = cfn[p] THEN Absent ELSE Stat(m)
    <3>1. Stat(TmpName(cfn[p])) # "dir"
      BY <1>7 DEF IsDir
    <3> QED
      BY <1>3, <1>4, <1>5, <1>6, <1>7, <1>8, <3>1, MoveStat
  <2>3. Stat(TmpName(cfn[p]))' = Stat(cfn[p])
    BY <1>1, <2>2
  <2>4. IsReg(TmpName(cfn[p]))'
    BY <1>5, <2>3 DEF IsReg
  <2> QED
    BY <2>1, <2>4
<1>10. NameFound(p)' /\ IsReg(LockName(cfn[p]))' /\ ~ IsDir(cfn[p])'
  <2>1. NameFound(p)'
    BY <1>1, <1>3, <1>9, NameStays
  <2>2. IsReg(LockName(cfn[p]))'
    BY <1>1, <1>5, <1>6, <1>9
  <2>3. ~ IsDir(cfn[p])'
    BY <1>1, <1>4, <1>7, <1>9 DEF NoNewDir
  <2> QED
    BY <2>1, <2>2, <2>3
<1>11. ASSUME NEW u \in kept, cache_file_name(u) # n PROVE Copied(u)'
  <2> DEFINE k == cache_file_name(u)
  <2>1. /\ k \in Name /\ PlainName(k) /\ Append(k, INDEX_FILE) \in Name /\ ~ PlainName(Append(k, INDEX_FILE))
        /\ n \in Name /\ PlainName(n) /\ ~ PlainName(Append(n, INDEX_FILE)) /\ Cached(u) /\ Copied(u)
    BY <1>3, <1>4, CopyNames
  <2>2. cfn[p] = n \/ cfn[p] = Append(n, INDEX_FILE)
    BY <1>3 DEF NameFound
  <2>3. Append(k, INDEX_FILE) # Append(n, INDEX_FILE)
    BY <1>11, <2>1, IndexOf
  <2> HIDE DEF k, n
  <2>4. k # cfn[p] /\ Append(k, INDEX_FILE) # cfn[p]
    <3>1. k # n
      BY <1>11 DEF k
    <3> QED
      BY <2>1, <2>2, <2>3, <3>1
  <2>5. /\ IsReg(k) => IsReg(k)'
        /\ IsReg(Append(k, INDEX_FILE)) => IsReg(Append(k, INDEX_FILE))'
    <3> USE DEF k
    <3> QED
      BY <1>9, <2>1, <2>4
  <2> QED
    BY <1>9, <2>1, <2>5, CopiedStays DEF k
<1>12. KeptThere'
  <2>1. kept' = {u \in kept : cache_file_name(u) # n}
    BY DEF lookup_backup
  <2> HIDE DEF n
  <2> QED
    BY <1>3, <1>11, <2>1 DEF KeptThere
<1> QED
  BY <1>1, <1>2, <1>9, <1>10, <1>12
     DEF Leaves, Alone, CopyState, LevelState, OwnFiles, PlaceLabel, LoopLabel, EarlyLabel

\* A name for a directory: what a child in create_cache_place knows of it.
LEMMA LevelFacts ==
    ASSUME AnyTime, InTurn, NEW p \in Child, pc[p] \in LoopLabel, NEW d, d = Level(p)
    PROVE  /\ Working(p)
           /\ WellFormed /\ PlainDirs /\ NameFound(p) /\ ~ ims[p]
           /\ d \in Name /\ d # <<>> /\ PlainName(d) /\ IsDir(Front(d)) /\ d # cfn[p] /\ cur[p] < Len(cfn[p])
           /\ cfn[p] \in Name /\ cfn[p] # <<>> /\ ~ IsDir(cfn[p])
           /\ TmpName(d) \in Name /\ TmpName(d) # <<>> /\ Front(TmpName(d)) = Front(d)
           /\ TmpName(d) # d /\ ~ IsDir(TmpName(d)) /\ Ending(TmpName(d)) # ""
           /\ Append(d, INDEX_FILE) \in Name /\ Append(d, INDEX_FILE) # <<>>
           /\ Front(Append(d, INDEX_FILE)) = d /\ ~ IsDir(Append(d, INDEX_FILE))
           /\ TmpName(d) # Append(d, INDEX_FILE)
<1>1. Working(p) /\ pc[p] \in PlaceLabel
  BY DEF LoopLabel, PlaceLabel, Working
<1>2. /\ WellFormed /\ PlainDirs /\ NameFound(p) /\ CopyState(p) /\ LevelState(p) /\ ~ ims[p]
  BY <1>1, Turn DEF EarlyLabel
<1>3. d \in Name /\ d # <<>> /\ Len(d) = cur[p] /\ cur[p] \in Nat \ {0}
  BY <1>1, LevelOf
<1>4. cur[p] < Len(cfn[p])
  BY DEF AnyTime, ChildRight
<1>5. cfn[p] \in Name /\ cfn[p] # <<>> /\ ~ IsDir(cfn[p]) /\ IsDir(Front(d))
  BY <1>1, <1>2, AtWork DEF CopyState, LevelState, Working
<1>6. PlainName(d)
  <2>1. \A i \in Nat \ {0} : i < Len(cfn[p]) => PlainName(SubSeq(cfn[p], 1, i))
    BY <1>1, <1>2, NamesAtWork, Zenon
  <2> QED
    BY <1>3, <1>4, <2>1 DEF Level
<1>7. d # cfn[p]
  <2>1. Len(d) \in Nat /\ Len(d) < Len(cfn[p])
    BY <1>3, <1>4
  <2>2. ~ (Len(d) < Len(d))
    BY <2>1
  <2> QED
    BY <2>1, <2>2, Zenon
<1>8. /\ TmpName(d) \in Name /\ TmpName(d) # <<>> /\ Front(TmpName(d)) = Front(d)
      /\ Append(d, INDEX_FILE) \in Name /\ Append(d, INDEX_FILE) # <<>>
      /\ Front(Append(d, INDEX_FILE)) = d
  BY <1>3, NamesOf
<1>9. /\ Ending(TmpName(d)) = ".cache_tmp" /\ Ending(Append(d, INDEX_FILE)) = "" /\ Ending(d) = ""
      /\ ~ PlainName(TmpName(d)) /\ ~ PlainName(Append(d, INDEX_FILE))
  BY <1>3, <1>6, Endings
<1>10. ~ IsDir(TmpName(d)) /\ ~ IsDir(Append(d, INDEX_FILE))
  BY <1>2, <1>8, <1>9 DEF PlainDirs, IsDir
<1>11. TmpName(d) # d /\ TmpName(d) # Append(d, INDEX_FILE) /\ Ending(TmpName(d)) # ""
  BY <1>9
<1> QED
  BY <1>1, <1>2, <1>3, <1>4, <1>5, <1>6, <1>7, <1>8, <1>10, <1>11

\* The loop looks at a directory.
LEMMA StatLeaves ==
    ASSUME AnyTime, InTurn, NEW p \in Child, place_stat(p)
    PROVE  Working(p) /\ Leaves(p)
<1>1. /\ Working(p) /\ pc[p] = "place" /\ tree' = tree /\ kept' = kept
      /\ url' = url /\ cfn' = cfn /\ ims' = ims
  BY DEF place_stat, Working, history, place, NextLevel
<1>2. PlainDirs' /\ KeptThere' /\ DirsStay
  BY <1>1, TreeSame
<1>3. /\ NameFound(p) /\ ~ IsDir(cfn[p]) /\ IsDir(Front(Level(p))) /\ ~ ims[p]
  BY <1>1, Turn DEF CopyState, LevelState, PlaceLabel, EarlyLabel
<1>4. \A n : (IsDir(n) <=> IsDir(n)') /\ (IsReg(n) <=> IsReg(n)')
  BY <1>1 DEF IsDir, IsReg, Stat
<1>5. NameFound(p)' /\ ~ IsDir(cfn[p])'
  BY <1>1, <1>2, <1>3, <1>4, NameStays
<1>6. cfn[p] \in Name /\ cur[p] \in Nat \ {0} /\ cur[p] <= Len(cfn[p])
  BY <1>1, LevelOf, AtWork DEF PlaceLabel
<1>7. ASSUME cur' = cur, pc'[p] \in {"lock", "mkdir", "aside"},
             pc'[p] = "lock" => cur[p] = Len(cfn[p]), pc'[p] = "aside" => IsReg(Level(p))
      PROVE  LevelState(p)'
  <2>1. Level(p)' = Level(p)
    BY <1>1, <1>7 DEF Level
  <2>2. IsDir(Front(Level(p)))' /\ (pc'[p] = "aside" => IsReg(Level(p))')
    BY <1>3, <1>4, <1>7, <2>1
  <2> QED
    BY <1>1, <1>7, <2>2 DEF LevelState
<1>8. ASSUME cur'[p] = cur[p] + 1, pc'[p] = "place", cur[p] < Len(cfn[p]), IsDir(Level(p))
      PROVE  LevelState(p)'
  <2>1. Front(SubSeq(cfn[p], 1, cur[p] + 1)) = SubSeq(cfn[p], 1, cur[p])
    BY <1>6, <1>8, PlainBeginning
  <2>2. Front(Level(p)') = Level(p)
    BY <1>1, <1>8, <2>1 DEF Level
  <2>3. IsDir(Front(Level(p)))'
    BY <1>4, <1>8, <2>2
  <2> QED
    BY <1>8, <2>3 DEF LevelState
<1>9. LevelState(p)' /\ pc'[p] \in {"lock", "mkdir", "aside", "place"}
  <2>0. pc \in [Child -> Label] /\ cur \in [Child -> Nat \ {0}]
    BY DEF AnyTime, TypesRight
  <2>1. CASE cur[p] = Len(cfn[p]) /\ Goto(p, "lock") /\ UNCHANGED place
    <3>1. pc'[p] = "lock" /\ cur' = cur
      BY <2>0, <2>1 DEF Goto, place
    <3> QED
      BY <1>7, <2>1, <3>1
  <2>2. CASE Goto(p, "mkdir") /\ cur' = cur
    <3>1. pc'[p] = "mkdir"
      BY <2>0, <2>2 DEF Goto
    <3> QED
      BY <1>7, <2>2, <3>1
  <2>3. CASE IsReg(Level(p)) /\ Goto(p, "aside") /\ UNCHANGED place
    <3>1. pc'[p] = "aside" /\ cur' = cur
      BY <2>0, <2>3 DEF Goto, place
    <3> QED
      BY <1>7, <2>3, <3>1
  <2>4. CASE cur[p] < Len(cfn[p]) /\ IsDir(Level(p)) /\ NextLevel(p) /\ pc' = pc
    <3>1. pc'[p] = "place" /\ cur'[p] = cur[p] + 1
      BY <1>1, <2>0, <2>4 DEF NextLevel
    <3> QED
      BY <1>8, <2>4, <3>1
  <2> QED
    BY <2>1, <2>2, <2>3, <2>4 DEF place_stat
<1> QED
  BY <1>1, <1>2, <1>3, <1>5, <1>9
     DEF Leaves, Alone, CopyState, OwnFiles, PlaceLabel, LoopLabel, EarlyLabel

\* A directory is made, or cannot be.
LEMMA MkdirLeaves ==
    ASSUME AnyTime, InTurn, NEW p \in Child, place_mkdir(p)
    PROVE  Working(p) /\ Leaves(p)
<1>1. /\ pc[p] = "mkdir" /\ kept' = kept /\ url' = url /\ cfn' = cfn /\ ims' = ims /\ Mkdir(Level(p))
  BY DEF place_mkdir, history, place, NextLevel
<1>2. PICK d : d = Level(p)
  OBVIOUS
<1>3. /\ Working(p) /\ WellFormed /\ PlainDirs /\ NameFound(p) /\ ~ ims[p]
      /\ d \in Name /\ d # <<>> /\ PlainName(d) /\ d # cfn[p] /\ cur[p] < Len(cfn[p])
      /\ cfn[p] \in Name /\ ~ IsDir(cfn[p])
  BY <1>1, <1>2, LevelFacts DEF LoopLabel
<1>4. ASSUME ~ CanMkdir(d) PROVE Leaves(p)
  <2>1. tree' = tree /\ pc'[p] = "exit"
    BY <1>1, <1>2, <1>4 DEF Mkdir, place_mkdir, Goto, AnyTime, TypesRight
  <2>2. PlainDirs' /\ KeptThere'
    BY <1>1, <1>3, <2>1, TreeSame
  <2> QED
    BY <2>1, <2>2 DEF Leaves, Alone, Working, EarlyLabel, PlaceLabel, LoopLabel
<1>5. ASSUME CanMkdir(d) PROVE Leaves(p)
  <2>1. tree' = Plus(d, "dir") /\ pc'[p] = "place" /\ cur'[p] = cur[p] + 1 /\ Stat(d) = Absent
    BY <1>1, <1>2, <1>5 DEF Mkdir, CanMkdir, place_mkdir, Goto, NextLevel, AnyTime, TypesRight
  <2>2. /\ PlainDirs' /\ DirsStay /\ CopiesStay /\ IsDir(d)'
        /\ \A m \in Name : m # d /\ ~ IsDir(m) => ~ IsDir(m)'
    BY <1>3, <2>1, PlusQuiet
  <2>3. KeptThere' /\ NameFound(p)'
    BY <1>1, <1>3, <2>2, KeptStay, NameStays
  <2>4. ~ IsDir(cfn[p])'
    BY <1>1, <1>3, <2>2
  <2>5. IsDir(Front(Level(p)))'
    <3>1. cur[p] \in Nat \ {0} /\ cur[p] <= Len(cfn[p])
      BY <1>1, LevelOf DEF PlaceLabel, LoopLabel
    <3>2. Front(SubSeq(cfn[p], 1, cur[p] + 1)) = SubSeq(cfn[p], 1, cur[p])
      BY <1>3, <3>1, PlainBeginning
    <3>3. Front(Level(p)') = d
      BY <1>1, <1>2, <2>1, <3>2 DEF Level
    <3> QED
      BY <2>2, <3>3
  <2> QED
    BY <1>1, <1>3, <2>1, <2>2, <2>3, <2>4, <2>5
       DEF Leaves, Alone, CopyState, LevelState, OwnFiles, PlaceLabel, LoopLabel, EarlyLabel
<1> QED
  BY <1>3, <1>4, <1>5

\* A copy is moved out of the way of the directory.
LEMMA AsideLeaves ==
    ASSUME AnyTime, InTurn, NEW p \in Child, place_aside(p)
    PROVE  Working(p) /\ Leaves(p)
<1>1. /\ pc[p] = "aside" /\ kept' = kept /\ url' = url /\ cfn' = cfn /\ cur' = cur /\ ims' = ims
      /\ Rename(Level(p), TmpName(Level(p))) /\ pc'[p] = "dir"
  BY DEF place_aside, history, place, Goto, AnyTime, TypesRight
<1>2. PICK d : d = Level(p)
  OBVIOUS
<1>3. /\ Working(p) /\ WellFormed /\ PlainDirs /\ NameFound(p) /\ ~ ims[p]
      /\ d \in Name /\ d # <<>> /\ PlainName(d) /\ IsDir(Front(d)) /\ d # cfn[p]
      /\ cfn[p] \in Name /\ ~ IsDir(cfn[p])
      /\ TmpName(d) \in Name /\ TmpName(d) # <<>> /\ Front(TmpName(d)) = Front(d)
      /\ TmpName(d) # d /\ ~ IsDir(TmpName(d))
  BY <1>1, <1>2, LevelFacts DEF LoopLabel
<1>4. IsReg(d)
  BY <1>1, <1>2, <1>3, Turn DEF LevelState
<1>5. /\ PlainDirs' /\ DirsStay /\ NoNewDir /\ IsReg(TmpName(d))' /\ Stat(d)' = Absent
      /\ \A m \in Name : m # d /\ IsReg(m) => IsReg(m)'
  BY <1>1, <1>2, <1>3, <1>4, MoveQuiet
<1>6. Level(p)' = d
  BY <1>1, <1>2 DEF Level
<1>7. NameFound(p)' /\ ~ IsDir(cfn[p])'
  BY <1>1, <1>3, <1>5, NameStays DEF NoNewDir
<1>8. /\ IsDir(Front(Level(p)))' /\ (Stat(Level(p)) = Absent)' /\ IsReg(TmpName(Level(p)))'
  <2>1. IsDir(Front(d))'
    BY <1>3, <1>5, NameEnds DEF DirsStay
  <2> QED
    BY <1>5, <1>6, <2>1
<1>9. ASSUME NEW u \in kept PROVE Cached(u) /\ (Copied(u)' \/ Moving(p, u)')
  <2> DEFINE k == cache_file_name(u)
  <2>1. Cached(u) /\ Copied(u)
    BY <1>1, <1>3, Turn
  <2>2. k \in Name /\ PlainName(k) /\ Append(k, INDEX_FILE) \in Name /\ ~ PlainName(Append(k, INDEX_FILE))
    BY <2>1, CopyNames
  <2>3. ASSUME k # d PROVE Copied(u)'
    <3>1. /\ IsReg(k) => IsReg(k)'
          /\ IsReg(Append(k, INDEX_FILE)) => IsReg(Append(k, INDEX_FILE))'
      BY <1>3, <1>5, <2>2, <2>3
    <3> QED
      BY <1>5, <2>1, <3>1, CopiedStays
  <2>4. ASSUME k = d PROVE Moving(p, u)'
    BY <1>1, <1>6, <2>4 DEF Moving
  <2> QED
    BY <2>1, <2>3, <2>4
<1>10. KeptThere'
  BY <1>1, <1>9 DEF KeptThere
<1> QED
  BY <1>1, <1>3, <1>5, <1>7, <1>8, <1>10
     DEF Leaves, Alone, CopyState, LevelState, OwnFiles, PlaceLabel, LoopLabel, EarlyLabel

\* The directory is made; the copy waits beside it.
LEMMA DirLeaves ==
    ASSUME AnyTime, InTurn, NEW p \in Child, place_dir(p)
    PROVE  Working(p) /\ Leaves(p)
<1>1. /\ pc[p] = "dir" /\ kept' = kept /\ url' = url /\ cfn' = cfn /\ cur' = cur /\ ims' = ims
      /\ Mkdir(Level(p)) /\ pc'[p] = "index"
  BY DEF place_dir, history, place, Goto, AnyTime, TypesRight
<1>2. PICK d : d = Level(p)
  OBVIOUS
<1>3. /\ Working(p) /\ WellFormed /\ PlainDirs /\ NameFound(p) /\ ~ ims[p]
      /\ d \in Name /\ d # <<>> /\ PlainName(d) /\ IsDir(Front(d)) /\ d # cfn[p]
      /\ cfn[p] \in Name /\ ~ IsDir(cfn[p]) /\ TmpName(d) \in Name
  BY <1>1, <1>2, LevelFacts DEF LoopLabel
<1>4. /\ Stat(d) = Absent /\ IsReg(TmpName(d))
      /\ \A u \in kept : Cached(u) /\ (Copied(u) \/ Moving(p, u))
  BY <1>1, <1>2, <1>3, Turn DEF LevelState
<1>5. tree' = Plus(d, "dir")
  BY <1>1, <1>2, <1>3, <1>4 DEF Mkdir, CanMkdir
<1>6. /\ PlainDirs' /\ DirsStay /\ CopiesStay /\ IsDir(d)'
      /\ \A m \in Name : IsReg(m) => IsReg(m)'
      /\ \A m \in Name : m # d /\ ~ IsDir(m) => ~ IsDir(m)'
  BY <1>3, <1>4, <1>5, PlusQuiet
<1>7. Level(p)' = d
  BY <1>1, <1>2 DEF Level
<1>8. NameFound(p)' /\ ~ IsDir(cfn[p])'
  <2>1. NameFound(p)'
    BY <1>1, <1>3, <1>6, NameStays
  <2>2. ~ IsDir(cfn[p])'
    BY <1>1, <1>3, <1>6
  <2> QED
    BY <2>1, <2>2
<1>9. /\ IsDir(Front(Level(p)))' /\ IsDir(Level(p))' /\ IsReg(TmpName(Level(p)))'
  <2>1. IsDir(Front(d))' /\ IsReg(TmpName(d))'
    BY <1>3, <1>4, <1>6, NameEnds DEF DirsStay
  <2> QED
    BY <1>6, <1>7, <2>1
<1>10. ASSUME NEW u \in kept PROVE Cached(u) /\ (Copied(u)' \/ Moving(p, u)')
  <2>1. ASSUME Moving(p, u) PROVE Moving(p, u)'
    BY <1>1, <1>2, <1>7, <2>1 DEF Moving
  <2>2. ASSUME Copied(u) PROVE Copied(u)'
    BY <1>4, <1>6, <2>2, CopiedStill
  <2> QED
    BY <1>4, <2>1, <2>2
<1>11. KeptThere'
  BY <1>1, <1>10 DEF KeptThere
<1> QED
  BY <1>1, <1>3, <1>6, <1>8, <1>9, <1>11
     DEF Leaves, Alone, CopyState, LevelState, OwnFiles, PlaceLabel, LoopLabel, EarlyLabel

\* The copy is moved into the directory, and found there.
LEMMA IndexLeaves ==
    ASSUME AnyTime, InTurn, NEW p \in Child, place_index(p)
    PROVE  Working(p) /\ Leaves(p)
<1>1. /\ pc[p] = "index" /\ kept' = kept /\ url' = url /\ cfn' = cfn /\ cur' = cur /\ ims' = ims
      /\ Rename(TmpName(Level(p)), Append(Level(p), INDEX_FILE)) /\ pc'[p] = "entry_index"
  BY DEF place_index, history, place, Goto, AnyTime, TypesRight
<1>2. PICK d : d = Level(p)
  OBVIOUS
<1>3. /\ Working(p) /\ WellFormed /\ PlainDirs /\ NameFound(p) /\ ~ ims[p]
      /\ d \in Name /\ d # <<>> /\ IsDir(Front(d))
      /\ cfn[p] \in Name /\ ~ IsDir(cfn[p])
      /\ TmpName(d) \in Name /\ TmpName(d) # <<>> /\ Ending(TmpName(d)) # ""
      /\ Append(d, INDEX_FILE) \in Name /\ Append(d, INDEX_FILE) # <<>>
      /\ Front(Append(d, INDEX_FILE)) = d /\ ~ IsDir(Append(d, INDEX_FILE))
      /\ TmpName(d) # Append(d, INDEX_FILE)
  BY <1>1, <1>2, LevelFacts DEF LoopLabel
<1>4. /\ IsDir(d) /\ IsReg(TmpName(d))
      /\ \A u \in kept : Cached(u) /\ (Copied(u) \/ Moving(p, u))
  BY <1>1, <1>2, <1>3, Turn DEF LevelState
<1>5. /\ PlainDirs' /\ DirsStay /\ NoNewDir /\ IsReg(Append(d, INDEX_FILE))'
      /\ \A m \in Name : m # TmpName(d) /\ IsReg(m) => IsReg(m)'
  <2>1. Rename(TmpName(d), Append(d, INDEX_FILE)) /\ IsDir(Front(Append(d, INDEX_FILE)))
    BY <1>1, <1>2, <1>3, <1>4
  <2> QED
    BY <1>3, <1>4, <2>1, MoveQuiet
<1>6. CopiesStay
  BY <1>3, <1>5 DEF CopiesStay
<1>7. Level(p)' = d
  BY <1>1, <1>2 DEF Level
<1>8. NameFound(p)' /\ ~ IsDir(cfn[p])'
  BY <1>1, <1>3, <1>5, NameStays DEF NoNewDir
<1>9. IsDir(d)' /\ IsDir(Front(Level(p)))' /\ IsDir(Level(p))'
  <2>1. IsDir(Front(d))' /\ IsDir(d)'
    BY <1>3, <1>4, <1>5, NameEnds DEF DirsStay
  <2> QED
    BY <1>7, <2>1
<1>10. ASSUME NEW u \in kept PROVE Cached(u) /\ Copied(u)'
  <2>1. ASSUME Moving(p, u) PROVE Copied(u)'
    <3>1. cache_file_name(u) = d
      BY <1>2, <2>1 DEF Moving
    <3> QED
      BY <1>5, <1>9, <3>1 DEF Copied
  <2>2. ASSUME Copied(u) PROVE Copied(u)'
    BY <1>4, <1>5, <1>6, <2>2, CopiedStill
  <2> QED
    BY <1>4, <2>1, <2>2
<1>11. KeptThere'
  BY <1>1, <1>10 DEF KeptThere
<1> QED
  BY <1>1, <1>3, <1>5, <1>8, <1>9, <1>11
     DEF Leaves, Alone, CopyState, LevelState, OwnFiles, PlaceLabel, LoopLabel, EarlyLabel

\* The loop goes on to what is in it.
LEMMA LoopLeaves ==
    ASSUME AnyTime, InTurn, NEW p \in Child, place_entry(p)
    PROVE  Working(p) /\ Leaves(p)
<1>1. /\ pc[p] = "entry_index" /\ kept' = kept /\ url' = url /\ cfn' = cfn /\ ims' = ims /\ tree' = tree
      /\ pc'[p] = "place" /\ cur'[p] = cur[p] + 1
  BY DEF place_entry, history, Goto, NextLevel, AnyTime, TypesRight
<1>2. PICK d : d = Level(p)
  OBVIOUS
<1>3. /\ Working(p) /\ NameFound(p) /\ ~ ims[p] /\ cur[p] < Len(cfn[p])
      /\ cfn[p] \in Name /\ ~ IsDir(cfn[p])
  BY <1>1, <1>2, LevelFacts DEF LoopLabel
<1>4. IsDir(d)
  BY <1>1, <1>2, <1>3, Turn DEF LevelState
<1>5. PlainDirs' /\ KeptThere' /\ DirsStay
  BY <1>1, <1>3, TreeSame
<1>6. NameFound(p)'
  BY <1>1, <1>3, <1>5, NameStays
<1>7. \A n : IsDir(n) <=> IsDir(n)'
  BY <1>1 DEF IsDir, Stat
<1>8. ~ IsDir(cfn[p])' /\ IsDir(Front(Level(p)))'
  <2>1. cur[p] \in Nat \ {0} /\ cur[p] <= Len(cfn[p])
    BY <1>1, LevelOf DEF PlaceLabel, LoopLabel
  <2>2. Front(SubSeq(cfn[p], 1, cur[p] + 1)) = SubSeq(cfn[p], 1, cur[p])
    BY <1>3, <2>1, PlainBeginning
  <2>3. Front(Level(p)') = d
    BY <1>1, <1>2, <2>2 DEF Level
  <2> QED
    BY <1>1, <1>3, <1>4, <1>7, <2>3
<1> QED
  BY <1>1, <1>3, <1>5, <1>6, <1>8
     DEF Leaves, Alone, CopyState, LevelState, OwnFiles, PlaceLabel, LoopLabel, EarlyLabel

\* A new copy, or the old one again.
LEMMA CopiesLeave ==
    ASSUME AnyTime, InTurn, NEW p \in Child, created_install(p) \/ not_modified_restore(p)
    PROVE  Working(p) /\ Leaves(p)
<1>1. /\ Working(p) /\ pc[p] \in {"install", "restore"} /\ url' = url /\ cfn' = cfn
      /\ kept' = kept \cup {url[p]}
  BY DEF created_install, not_modified_restore, Working, place
<1>2. pc'[p] \in {"discard", "entry", "unlock"}
  BY DEF created_install, not_modified_restore, Goto, AnyTime, TypesRight
<1>3. /\ WellFormed /\ PlainDirs /\ NameFound(p) /\ CopyState(p) /\ OwnFiles(p)
      /\ \A u \in kept : Cached(u) /\ Copied(u)
  BY <1>1, Turn
<1>4. cfn[p] \in Name /\ cfn[p] # <<>> /\ Ending(cfn[p]) = "" /\ Cached(url[p])
  BY <1>1, <1>3, NamesAtWork
<1>5. PICK n \in {LockName(cfn[p]), TmpName(cfn[p])} : Rename(n, cfn[p]) /\ IsReg(n)
  BY <1>1, <1>3 DEF created_install, not_modified_restore, OwnFiles
<1>6. n \in Name /\ n # <<>> /\ Front(n) = Front(cfn[p]) /\ Ending(n) # ""
  <2>1. /\ LockName(cfn[p]) \in Name /\ LockName(cfn[p]) # <<>> /\ Front(LockName(cfn[p])) = Front(cfn[p])
        /\ TmpName(cfn[p]) \in Name /\ TmpName(cfn[p]) # <<>> /\ Front(TmpName(cfn[p])) = Front(cfn[p])
        /\ Ending(LockName(cfn[p])) # "" /\ Ending(TmpName(cfn[p])) # ""
    BY <1>4, NamesOf, Endings
  <2> QED
    BY <1>5, <2>1, Zenon
<1>7. PICK c : c = cfn[p]
  OBVIOUS
<1>8. c \in Name /\ c # <<>> /\ ~ IsDir(c) /\ IsDir(Front(c)) /\ n # c
  <2>1. ~ IsDir(c)
    BY <1>1, <1>3, <1>7 DEF CopyState
  <2>2. IsDir(Front(n))
    BY <1>3, <1>5, InDirectory DEF IsReg
  <2> QED
    BY <1>4, <1>6, <1>7, <2>1, <2>2
<1>9. /\ PlainDirs' /\ DirsStay /\ NoNewDir /\ IsReg(c)'
      /\ \A m \in Name : m # n /\ IsReg(m) => IsReg(m)'
  BY <1>3, <1>5, <1>6, <1>7, <1>8, MoveQuiet
<1>10. CopiesStay
  BY <1>6, <1>9 DEF CopiesStay
<1>11. NameFound(p)'
  BY <1>1, <1>3, <1>9, NameStays
<1>12. Copied(url[p])'
  <2>1. PICK u : u = url[p]
    OBVIOUS
  <2>2. c = cache_file_name(u) \/ (c = Append(cache_file_name(u), INDEX_FILE) /\ IsDir(cache_file_name(u)))
    BY <1>3, <1>7, <2>1 DEF NameFound
  <2>3. IsDir(cache_file_name(u)) => IsDir(cache_file_name(u))'
    <3>1. cache_file_name(u) \in Name
      BY <1>4, <2>1, CopyNames
    <3> QED
      BY <1>9, <3>1 DEF DirsStay
  <2>4. Copied(u)'
    BY <1>9, <2>2, <2>3 DEF Copied
  <2> QED
    BY <1>1, <2>1, <2>4
<1>13. KeptThere'
  <2>1. \A u \in kept : Cached(u) /\ Copied(u)'
    BY <1>3, <1>9, <1>10, CopiedStill
  <2>2. \A u \in kept' : Cached(u) /\ Copied(u)'
    <3>1. PICK u : u = url[p]
      OBVIOUS
    <3>2. Cached(u) /\ Copied(u)' /\ kept' = kept \cup {u}
      BY <1>1, <1>4, <1>12, <3>1
    <3> QED
      BY <2>1, <3>2
  <2> QED
    BY <2>2 DEF KeptThere
<1> QED
  BY <1>1, <1>2, <1>9, <1>11, <1>13
     DEF Leaves, Alone, CopyState, LevelState, OwnFiles, PlaceLabel, LoopLabel, EarlyLabel

\* A child that begins when none is at work.
LEMMA LookupAlone ==
    ASSUME AnyTime, InTurn, NEW p \in Child, NEW v \in Url, Lookup(p, v), ~ together'
    PROVE  InTurn'
<1>1. /\ \A q \in Child : ~ Working(q)
      /\ pc[p] = "free" /\ tree' = tree /\ kept' = kept /\ ims' = ims /\ url'[p] = v
  BY DEF Lookup, AnyTime, TypesRight
<1>2. \A q \in Child : q # p => pc'[q] = pc[q]
  BY DEF Lookup, Goto, AnyTime, TypesRight
<1>3. pc'[p] \in {"locked", "exit"} /\ (pc'[p] = "locked" => cfn'[p] = cache_file_name(v))
  BY DEF Lookup, Goto, AnyTime, TypesRight
<1>4. \A q \in Child : q # p => ~ Working(q)'
  BY <1>1, <1>2 DEF Working
<1>5. OneAtWork' /\ PlainDirs' /\ NoBackup'
  <2>1. PlainDirs'
    BY <1>1 DEF InTurn, PlainDirs, Stat
  <2>2. NoBackup'
    BY <1>1, <1>2 DEF InTurn, NoBackup, EarlyLabel
  <2> QED
    BY <1>4, <2>1, <2>2 DEF OneAtWork
<1>6. Alone(p)'
  BY <1>1, <1>3 DEF Alone, Working, NameFound, CopyState, LevelState, OwnFiles, PlaceLabel, LoopLabel
<1>7. \A q \in Child : Alone(q)'
  BY <1>4, <1>6 DEF Alone
<1>8. KeptThere'
  <2>1. \A u : Copied(u) => Copied(u)'
    BY <1>1 DEF Copied, IsReg, IsDir, Stat
  <2>2. \A u \in kept, q \in Child : ~ Moving(q, u)
    BY <1>1 DEF Moving, Working
  <2> QED
    BY <1>1, <2>1, <2>2 DEF InTurn, KeptThere
<1> QED
  BY <1>5, <1>7, <1>8 DEF InTurn

\* The invariant is kept by every step that does not begin beside another child.
LEMMA InTurnStep ==
    ASSUME AnyTime, InTurn, NEW p \in Child, ChildNext(p), ~ together'
    PROVE  InTurn'
<1>1. CASE \E v \in Url : Lookup(p, v)
  BY <1>1, LookupAlone
<1>2. CASE ~ \E v \in Url : Lookup(p, v)
  <2>1. Working(p) /\ Leaves(p)
    BY <1>2, LooksLeave, EntriesLeave, UnlinksLeave, LocksLeave, BackupLeaves, StatLeaves, MkdirLeaves,
       AsideLeaves, DirLeaves, IndexLeaves, LoopLeaves, CopiesLeave DEF ChildNext
  <2> QED
    BY <2>1, InTurnFrom
<1> QED
  BY <1>1, <1>2

\* Work that was done together is not forgotten.
LEMMA TogetherStays ==
    ASSUME NEW p \in Child, ChildNext(p), together
    PROVE  together'
BY DEF ChildNext, history, Lookup, locked, locked_break, lookup_stat, lookup_info, lookup_refresh,
       lookup_backup, lookup_create, place_stat, place_mkdir, place_aside, place_dir, place_index,
       place_entry, cache_free, created_install, created_discard, created_entry, not_modified_restore,
       not_modified_unlock, not_modified_entry, cache_cancel, OpenCached

-----------------------------------------------------------------------------
(* What follows.                                                           *)

TreeInvariant == AnyTime /\ (together \/ InTurn)

\* The names and the contents of the tree stay right whatever the children do
\* beside each other (HTCache.c, create_cache_place, cache_created,
\* cache_not_modified), and as long as they work one after the other each finds
\* and leaves the tree as its system calls expect it.
THEOREM TreeInductive == TreeSpec => []TreeInvariant
<1>1. TreeInit => TreeInvariant
  BY AnyTimeInit, InTurnInit DEF TreeInvariant
<1>2. TreeInvariant /\ [TreeNext]_treeVars => TreeInvariant'
  <2> SUFFICES ASSUME TreeInvariant, [TreeNext]_treeVars PROVE TreeInvariant'
    OBVIOUS
  <2>1. ASSUME NEW p \in Child, ChildNext(p) PROVE TreeInvariant'
    <3>1. AnyTime'
      BY <2>1, AnyTimeStep DEF TreeInvariant
    <3>2. together' \/ InTurn'
      BY <2>1, InTurnStep, TogetherStays DEF TreeInvariant
    <3> QED
      BY <3>1, <3>2 DEF TreeInvariant
  <2>2. ASSUME UNCHANGED treeVars PROVE TreeInvariant'
    <3>1. AnyTime'
      BY <2>2 DEF treeVars, place, history, TreeInvariant, AnyTime, TypesRight, TreeRight, WellFormed, Contents,
                  ChildRight
    <3>2. (together \/ InTurn)'
      BY <2>2 DEF treeVars, place, history, TreeInvariant, InTurn, OneAtWork, PlainDirs, Alone, KeptThere, NoBackup,
                  Working, NameFound, CopyState, LevelState, OwnFiles, Copied, Moving, Level, IsDir, IsReg, Stat
    <3> QED
      BY <3>1, <3>2 DEF TreeInvariant
  <2> QED
    BY <2>1, <2>2 DEF TreeNext
<1> QED
  BY <1>1, <1>2, PTL DEF TreeSpec

\* A copy that is where its URL leads to is that of the URL's document.
LEMMA CopiedFound ==
    ASSUME TreeRight, NEW u, Cached(u), Copied(u)
    PROVE  Found(u)
<1> DEFINE n == cache_file_name(u)
           m == Append(n, INDEX_FILE)
<1>1. n \in Name /\ m \in Name /\ Norm(m) = Norm(n)
  BY CopyNames, NamesOf
<1>2. ASSUME NEW k \in {n, m}, IsReg(k) PROVE SameDocument(Stat(k), u)
  <2>1. k \in DOMAIN tree /\ tree[k] # "dir" /\ Stat(k) = tree[k]
    BY <1>2 DEF IsReg, Stat
  <2>2. Cached(tree[k]) /\ Norm(k) = Norm(cache_file_name(tree[k]))
    BY <2>1 DEF TreeRight, Contents
  <2>3. Norm(k) = Norm(cache_file_name(u))
    BY <1>1
  <2>4. SameDocument(tree[k], u)
    BY <2>2, <2>3, SameName
  <2> QED
    BY <2>1, <2>4
<1> QED
  BY <1>2 DEF Found, Copied

\* Whatever children do to the cache beside each other, a client is sent the
\* document it asked for; and as long as they work one after the other the
\* directories of a lock are there when it is made, and a document that was put
\* into the cache is found there (HTCache.c, cache_lookup, create_cache_place,
\* cache_created; HTCacheInfo.c).
THEOREM CopiesWhereFound == TreeSpec => []CopiesFound
<1>1. TreeInvariant => CopiesFound
  <2> SUFFICES ASSUME TreeInvariant PROVE CopiesFound
    OBVIOUS
  <2>1. OwnDocument
    BY DEF TreeInvariant, AnyTime, ChildRight, OwnDocument
  <2>2. ASSUME NEW p \in Child, pc[p] = "lock", ~ together PROVE IsDir(Front(cfn[p]))
    <3>1. AnyTime /\ InTurn /\ Working(p)
      BY <2>2 DEF TreeInvariant, Working
    <3>2. cur[p] = Len(cfn[p]) /\ IsDir(Front(Level(p)))
      BY <2>2, <3>1, Turn DEF LevelState, PlaceLabel
    <3>3. Level(p) = cfn[p]
      <4>1. SubSeq(cfn[p], 1, Len(cfn[p])) = cfn[p]
        BY <3>1, AtWork, SubSeqFull DEF Name, Working
      <4> QED
        BY <3>2, <4>1 DEF Level
    <3> QED
      BY <3>2, <3>3
  <2>3. ASSUME ~ together, \A p \in Child : ~ Working(p), NEW u \in kept PROVE Found(u)
    <3>1. AnyTime /\ InTurn
      BY <2>3 DEF TreeInvariant
    <3>2. \A q \in Child : ~ Moving(q, u)
      BY <2>3 DEF Moving, Working
    <3>3. Cached(u) /\ Copied(u)
      BY <3>1, <3>2 DEF InTurn, KeptThere
    <3> QED
      BY <3>1, <3>3, CopiedFound DEF AnyTime
  <2> QED
    BY <2>1, <2>2, <2>3 DEF CopiesFound, PlaceReady, StaysFound
<1> QED
  BY <1>1, TreeInductive, PTL
=============================================================================

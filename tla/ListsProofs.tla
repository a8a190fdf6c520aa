----------------------------- MODULE ListsProofs -----------------------------
(***************************************************************************)
(* What RemoveAll returns, for every list: the facts about removal that    *)
(* the proofs about the connectors, the brokers and the managers need.     *)
(*                                                                         *)
(* The induction is on sets of naturals, by the least number of a set that *)
(* is not empty.                                                           *)
(***************************************************************************)
EXTENDS Lists, SequencesExt, FiniteSetTheorems, WellFoundedInduction, TLAPS

\* Every set of naturals that is not empty has a least element.
LEMMA Smallest ==
    ASSUME NEW T \in SUBSET Nat, T # {}
    PROVE  \E n \in T : \A m \in T : n <= m
<1>1. PICK n \in T : \A m \in T : ~ (<<m, n>> \in OpToRel(<, Nat))
  BY WFMin, NatLessThanWellFounded, Zenon
<1>2. ASSUME NEW m \in T PROVE n <= m
  <2>1. ~ (m < n)
    BY <1>1 DEF OpToRel
  <2> QED BY <2>1
<1> QED BY <1>2

\* A set that has 0 and with every natural up to a limit the next one has them all.
LEMMA Induction ==
    ASSUME NEW N \in Nat, NEW P, 0 \in P,
           \A n \in 0 .. N - 1 : n \in P => n + 1 \in P
    PROVE  0 .. N \subseteq P
<1>1. SUFFICES ASSUME (0 .. N) \ P # {} PROVE FALSE
  OBVIOUS
<1>2. PICK n \in (0 .. N) \ P : \A m \in (0 .. N) \ P : n <= m
  <2> DEFINE T == (0 .. N) \ P
  <2>1. T \in SUBSET Nat /\ T # {}
    BY <1>1
  <2> HIDE DEF T
  <2>2. \E n \in T : \A m \in T : n <= m
    BY <2>1, Smallest
  <2> QED BY <2>2 DEF T
<1>3. n # 0 /\ n - 1 \in 0 .. N - 1 /\ n - 1 \in P
  BY <1>2
<1>4. n \in P
  BY <1>3
<1> QED BY <1>2, <1>4

\* The recursion of Kept on the first k elements.
IsKept(f, list, x, k) ==
    f = [n \in 0 .. k |-> IF n = 0 THEN <<>>
                          ELSE IF list[n] = x THEN f[n - 1]
                          ELSE Append(f[n - 1], list[n])]

LEMMA KeptExists ==
    ASSUME NEW S, NEW list \in Seq(S), NEW x
    PROVE  IsKept(Kept(list, x), list, x, Len(list))
<1> DEFINE P == {k \in Nat : \E f : IsKept(f, list, x, k)}
<1>1. 0 \in P
  <2>1. IsKept([n \in 0 .. 0 |-> <<>>], list, x, 0)
    BY DEF IsKept
  <2> QED BY <2>1
<1>2. ASSUME NEW k \in Nat, k \in P PROVE k + 1 \in P
  <2>1. PICK f : IsKept(f, list, x, k)
    BY <1>2
  <2> DEFINE g == [n \in 0 .. k + 1 |->
                      IF n = k + 1
                      THEN IF list[n] = x THEN f[n - 1] ELSE Append(f[n - 1], list[n])
                      ELSE f[n]]
  <2>2. IsKept(g, list, x, k + 1)
    <3>1. ASSUME NEW n \in 0 .. k + 1
          PROVE  g[n] = IF n = 0 THEN <<>>
                        ELSE IF list[n] = x THEN g[n - 1]
                        ELSE Append(g[n - 1], list[n])
      <4>1. CASE n = k + 1
        <5>1. g[n - 1] = f[n - 1]
          BY <4>1
        <5> QED BY <4>1, <5>1
      <4>2. CASE n = 0
        BY <2>1, <4>2 DEF IsKept
      <4>3. CASE n \in 1 .. k
        <5>1. g[n] = f[n] /\ g[n - 1] = f[n - 1] /\ n \in 0 .. k /\ n # 0
          BY <4>3
        <5> HIDE DEF g
        <5> QED BY <2>1, <5>1 DEF IsKept
      <4> QED BY <4>1, <4>2, <4>3
    <3> QED BY <3>1 DEF IsKept
  <2> QED BY <2>2
<1>3. Len(list) \in P
  <2> HIDE DEF P
  <2>1. Len(list) \in Nat
    OBVIOUS
  <2>2. \A k \in 0 .. Len(list) - 1 : k \in P => k + 1 \in P
    BY <1>2, <2>1
  <2>3. 0 .. Len(list) \subseteq P
    BY <1>1, <2>1, <2>2, Induction
  <2> QED BY <2>1, <2>3
<1> QED BY <1>3 DEF Kept, IsKept

\* The recursion, one element at a time.
LEMMA KeptStep ==
    ASSUME NEW S, NEW list \in Seq(S), NEW x
    PROVE  /\ Kept(list, x)[0] = <<>>
           /\ \A n \in 0 .. Len(list) - 1 :
                 Kept(list, x)[n + 1] = IF list[n + 1] = x THEN Kept(list, x)[n]
                                        ELSE Append(Kept(list, x)[n], list[n + 1])
<1> DEFINE f == Kept(list, x)
<1>1. IsKept(f, list, x, Len(list)) /\ Len(list) \in Nat
  BY KeptExists
<1> HIDE DEF f
<1>2. f[0] = <<>>
  BY <1>1 DEF IsKept
<1>3. ASSUME NEW n \in 0 .. Len(list) - 1
      PROVE  f[n + 1] = IF list[n + 1] = x THEN f[n] ELSE Append(f[n], list[n + 1])
  <2>1. n + 1 \in 0 .. Len(list) /\ n + 1 # 0 /\ (n + 1) - 1 = n
    BY <1>1
  <2> QED BY <1>1, <2>1 DEF IsKept
<1> QED BY <1>2, <1>3 DEF f


\* Appending a value adds that value and leaves the others where they are.
LEMMA AppendElements ==
    ASSUME NEW S, NEW s \in Seq(S), NEW e \in S
    PROVE  /\ Append(s, e) \in Seq(S)
           /\ Len(Append(s, e)) = Len(s) + 1
           /\ \A i \in 1 .. Len(s) : Append(s, e)[i] = s[i]
           /\ Append(s, e)[Len(s) + 1] = e
           /\ \A y : Contains(Append(s, e), y) <=> Contains(s, y) \/ y = e
<1> DEFINE t == Append(s, e)
<1>1. /\ t \in Seq(S)
      /\ Len(s) \in Nat
      /\ Len(t) = Len(s) + 1
      /\ \A i \in 1 .. Len(s) : t[i] = s[i]
      /\ t[Len(s) + 1] = e
  OBVIOUS
<1> HIDE DEF t
<1>2. ASSUME NEW y, Contains(t, y) PROVE Contains(s, y) \/ y = e
  <2>1. PICK i \in 1 .. Len(t) : t[i] = y
    BY <1>2 DEF Contains
  <2>2. CASE i = Len(s) + 1
    BY <1>1, <2>1, <2>2
  <2>3. CASE i \in 1 .. Len(s)
    BY <1>1, <2>1, <2>3 DEF Contains
  <2> QED BY <1>1, <2>2, <2>3
<1>3. ASSUME NEW y, Contains(s, y) PROVE Contains(t, y)
  <2>1. PICK i \in 1 .. Len(s) : s[i] = y
    BY <1>3 DEF Contains
  <2>2. i \in 1 .. Len(t) /\ t[i] = y
    BY <1>1, <2>1
  <2> QED BY <2>2 DEF Contains
<1>4. Contains(t, e)
  <2>1. Len(s) + 1 \in 1 .. Len(t)
    BY <1>1
  <2> QED BY <1>1, <2>1 DEF Contains
<1> QED BY <1>1, <1>2, <1>3, <1>4 DEF t

\* y is among the first n elements.
Among(list, n, y) == \E i \in 1 .. n : list[i] = y

\* What is kept of the first n elements has their values, but not x.
LEMMA KeptElements ==
    ASSUME NEW S, NEW list \in Seq(S), NEW x, NEW n \in 0 .. Len(list)
    PROVE  /\ Kept(list, x)[n] \in Seq(S)
           /\ \A y : Contains(Kept(list, x)[n], y) <=>
                        y # x /\ Among(list, n, y)
<1> DEFINE kept == Kept(list, x)
           P == {m \in 0 .. Len(list) :
                    /\ kept[m] \in Seq(S)
                    /\ \A y : Contains(kept[m], y) <=> y # x /\ Among(list, m, y)}
<1>1. /\ Len(list) \in Nat
      /\ kept[0] = <<>>
      /\ \A m \in 0 .. Len(list) - 1 :
            kept[m + 1] = IF list[m + 1] = x THEN kept[m]
                          ELSE Append(kept[m], list[m + 1])
  BY KeptStep
<1>2. ASSUME NEW m \in 0 .. Len(list) - 1, NEW y
      PROVE  Among(list, m + 1, y) <=> Among(list, m, y) \/ y = list[m + 1]
  <2>1. Among(list, m + 1, y) => Among(list, m, y) \/ y = list[m + 1]
    BY DEF Among
  <2>2. m + 1 \in 1 .. m + 1
    OBVIOUS
  <2> QED BY <2>1, <2>2 DEF Among
<1>3. \A y : ~ Among(list, 0, y)
  BY DEF Among
<1> HIDE DEF kept
<1>4. 0 \in P
  <2>1. <<>> \in Seq(S) /\ \A y : ~ Contains(<<>>, y)
    BY DEF Contains
  <2>2. 0 \in 0 .. Len(list)
    BY <1>1
  <2>3. \A y : Contains(kept[0], y) <=> y # x /\ Among(list, 0, y)
    BY <1>1, <1>3, <2>1
  <2> QED BY <1>1, <2>1, <2>2, <2>3
<1>5. ASSUME NEW m \in 0 .. Len(list) - 1, m \in P PROVE m + 1 \in P
  <2>1. kept[m] \in Seq(S) /\ list[m + 1] \in S /\ m + 1 \in 0 .. Len(list)
    BY <1>1, <1>5
  <2>2. CASE list[m + 1] = x
    BY <1>1, <1>2, <1>5, <2>1, <2>2
  <2>3. CASE list[m + 1] # x
    <3>1. kept[m + 1] = Append(kept[m], list[m + 1])
      BY <1>1, <2>3
    <3>2. /\ kept[m + 1] \in Seq(S)
          /\ \A y : Contains(kept[m + 1], y) <=> Contains(kept[m], y)
                                                  \/ y = list[m + 1]
      BY <2>1, <3>1, AppendElements
    <3> QED BY <1>2, <1>5, <2>1, <2>3, <3>2
  <2> QED BY <2>2, <2>3
<1>6. 0 .. Len(list) \subseteq P
  <2> HIDE DEF P
  <2> QED BY <1>1, <1>4, <1>5, Induction
<1> QED BY <1>6 DEF kept

\* RemoveAll returns a list over the same set, of the same values but x.
LEMMA RemoveAllElements ==
    ASSUME NEW S, NEW list \in Seq(S), NEW x
    PROVE  /\ RemoveAll(list, x) \in Seq(S)
           /\ \A y : Contains(RemoveAll(list, x), y) <=> y # x /\ Contains(list, y)
<1>1. Len(list) \in 0 .. Len(list)
  OBVIOUS
<1>2. /\ Kept(list, x)[Len(list)] \in Seq(S)
      /\ \A y : Contains(Kept(list, x)[Len(list)], y) <=>
                   y # x /\ Among(list, Len(list), y)
  BY <1>1, KeptElements
<1>3. \A y : Contains(list, y) <=> Among(list, Len(list), y)
  BY DEF Contains, Among
<1> QED BY <1>2, <1>3 DEF RemoveAll

\* The first element stays the first, if it is not the one that is taken out.
LEMMA RemoveAllHead ==
    ASSUME NEW S, NEW list \in Seq(S), NEW x, list # <<>>, list[1] # x
    PROVE  RemoveAll(list, x) # <<>> /\ RemoveAll(list, x)[1] = list[1]
<1> DEFINE kept == Kept(list, x)
           P == {m \in 0 .. Len(list) :
                    m > 0 => Len(kept[m]) > 0 /\ kept[m][1] = list[1]}
<1>1. /\ Len(list) \in Nat \ {0}
      /\ kept[0] = <<>>
      /\ \A m \in 0 .. Len(list) - 1 :
            kept[m + 1] = IF list[m + 1] = x THEN kept[m]
                          ELSE Append(kept[m], list[m + 1])
  BY KeptStep
<1>2. \A m \in 0 .. Len(list) : kept[m] \in Seq(S)
  BY KeptElements
<1> HIDE DEF kept
<1>3. 0 \in P
  BY <1>1
<1>4. ASSUME NEW m \in 0 .. Len(list) - 1, m \in P PROVE m + 1 \in P
  <2>1. kept[m] \in Seq(S) /\ list[m + 1] \in S /\ m + 1 \in 0 .. Len(list)
    BY <1>1, <1>2
  <2>2. CASE list[m + 1] = x
    BY <1>1, <1>4, <2>1, <2>2
  <2>3. CASE list[m + 1] # x
    <3>1. kept[m + 1] = Append(kept[m], list[m + 1])
      BY <1>1, <2>3
    <3>2. /\ Len(kept[m + 1]) = Len(kept[m]) + 1
          /\ \A i \in 1 .. Len(kept[m]) : kept[m + 1][i] = kept[m][i]
          /\ kept[m + 1][Len(kept[m]) + 1] = list[m + 1]
      BY <2>1, <3>1, AppendElements
    <3>3. CASE m = 0
      BY <1>1, <2>1, <3>2, <3>3
    <3>4. CASE m > 0
      BY <1>4, <2>1, <3>2, <3>4
    <3> QED BY <3>3, <3>4
  <2> QED BY <2>2, <2>3
<1>5. 0 .. Len(list) \subseteq P
  <2> HIDE DEF P
  <2> QED BY <1>1, <1>3, <1>4, Induction
<1> QED BY <1>1, <1>2, <1>5 DEF RemoveAll, kept

\* A list without duplicates.
Unique(list) == \A i, j \in 1 .. Len(list) : list[i] = list[j] => i = j

LEMMA AppendUnique ==
    ASSUME NEW S, NEW s \in Seq(S), NEW e \in S, Unique(s), ~ Contains(s, e)
    PROVE  Unique(Append(s, e))
<1> DEFINE t == Append(s, e)
<1>1. /\ Len(s) \in Nat
      /\ Len(t) = Len(s) + 1
      /\ \A i \in 1 .. Len(s) : t[i] = s[i]
      /\ t[Len(s) + 1] = e
  BY AppendElements
<1> HIDE DEF t
<1>2. ASSUME NEW i \in 1 .. Len(t), NEW j \in 1 .. Len(t), t[i] = t[j]
      PROVE  i = j
  <2>1. CASE i \in 1 .. Len(s) /\ j \in 1 .. Len(s)
    BY <1>1, <1>2, <2>1 DEF Unique
  <2>2. CASE i = Len(s) + 1 /\ j = Len(s) + 1
    BY <2>2
  <2>3. CASE i \in 1 .. Len(s) /\ j = Len(s) + 1
    BY <1>1, <1>2, <2>3 DEF Contains
  <2>4. CASE i = Len(s) + 1 /\ j \in 1 .. Len(s)
    BY <1>1, <1>2, <2>4 DEF Contains
  <2> QED BY <1>1, <2>1, <2>2, <2>3, <2>4
<1> QED BY <1>2 DEF Unique, t

\* Taking values out of a list without duplicates makes none.
LEMMA RemoveAllUnique ==
    ASSUME NEW S, NEW list \in Seq(S), NEW x, Unique(list)
    PROVE  Unique(RemoveAll(list, x))
<1> DEFINE kept == Kept(list, x)
           P == {m \in 0 .. Len(list) : Unique(kept[m])}
<1>1. /\ Len(list) \in Nat
      /\ kept[0] = <<>>
      /\ \A m \in 0 .. Len(list) - 1 :
            kept[m + 1] = IF list[m + 1] = x THEN kept[m]
                          ELSE Append(kept[m], list[m + 1])
  BY KeptStep
<1>2. ASSUME NEW m \in 0 .. Len(list)
      PROVE  /\ kept[m] \in Seq(S)
             /\ \A y : Contains(kept[m], y) <=>
                          y # x /\ Among(list, m, y)
  BY KeptElements
<1> HIDE DEF kept
<1>3. 0 \in P
  BY <1>1 DEF Unique
<1>4. ASSUME NEW m \in 0 .. Len(list) - 1, m \in P PROVE m + 1 \in P
  <2>1. kept[m] \in Seq(S) /\ list[m + 1] \in S /\ m + 1 \in 0 .. Len(list)
    BY <1>1, <1>2
  <2>2. CASE list[m + 1] = x
    BY <1>1, <1>4, <2>1, <2>2
  <2>3. CASE list[m + 1] # x
    <3>1. kept[m + 1] = Append(kept[m], list[m + 1])
      BY <1>1, <2>3
    <3>2. ~ Contains(kept[m], list[m + 1])
      <4>1. SUFFICES ASSUME Contains(kept[m], list[m + 1]) PROVE FALSE
        OBVIOUS
      <4>2. PICK i \in 1 .. m : list[i] = list[m + 1]
        <5>1. m \in 0 .. Len(list)
          BY <1>1
        <5> QED BY <1>2, <4>1, <5>1 DEF Among
      <4> QED BY <1>1, <4>2 DEF Unique
    <3>3. Unique(kept[m + 1])
      BY <1>4, <2>1, <3>1, <3>2, AppendUnique
    <3> QED BY <2>1, <3>3
  <2> QED BY <2>2, <2>3
<1>5. 0 .. Len(list) \subseteq P
  <2> HIDE DEF P
  <2> QED BY <1>1, <1>3, <1>4, Induction
<1> QED BY <1>1, <1>5 DEF RemoveAll, kept

\* The elements of a list are its head and those of its tail.
LEMMA HeadAndTailElements ==
    ASSUME NEW S, NEW s \in Seq(S), s # <<>>
    PROVE  \A y : Contains(s, y) <=> y = Head(s) \/ Contains(Tail(s), y)
<1> DEFINE t == Tail(s)
<1>1. /\ Len(s) \in Nat \ {0} /\ Len(t) = Len(s) - 1
      /\ Head(s) = s[1]
      /\ \A i \in 1 .. Len(t) : t[i] = s[i + 1]
  OBVIOUS
<1> HIDE DEF t
<1>2. ASSUME NEW y, Contains(s, y) PROVE y = Head(s) \/ Contains(t, y)
  <2>1. PICK i \in 1 .. Len(s) : s[i] = y
    BY <1>2 DEF Contains
  <2>2. CASE i # 1
    <3>1. i - 1 \in 1 .. Len(t) /\ (i - 1) + 1 = i
      BY <1>1, <2>2
    <3>2. t[i - 1] = y
      BY <1>1, <2>1, <3>1
    <3> QED BY <3>1, <3>2 DEF Contains
  <2> QED BY <1>1, <2>1, <2>2
<1>3. Contains(s, Head(s))
  BY <1>1 DEF Contains
<1>4. ASSUME NEW y, Contains(t, y) PROVE Contains(s, y)
  <2>1. PICK i \in 1 .. Len(t) : t[i] = y
    BY <1>4 DEF Contains
  <2>2. i + 1 \in 1 .. Len(s) /\ s[i + 1] = y
    BY <1>1, <2>1
  <2> QED BY <2>2 DEF Contains
<1> QED BY <1>2, <1>3, <1>4 DEF t

\* Two lists, one after the other, have the values of both.
LEMMA ConcatElements ==
    ASSUME NEW S, NEW s \in Seq(S), NEW t \in Seq(S)
    PROVE  \A y : Contains(s \o t, y) <=> Contains(s, y) \/ Contains(t, y)
<1> DEFINE u == s \o t
<1>1. /\ Len(s) \in Nat /\ Len(t) \in Nat /\ Len(u) = Len(s) + Len(t)
      /\ \A i \in 1 .. Len(s) : u[i] = s[i]
      /\ \A i \in 1 .. Len(t) : u[Len(s) + i] = t[i]
  OBVIOUS
<1> HIDE DEF u
<1>2. ASSUME NEW y, Contains(u, y) PROVE Contains(s, y) \/ Contains(t, y)
  <2>1. PICK i \in 1 .. Len(u) : u[i] = y
    BY <1>2 DEF Contains
  <2>2. CASE i \in 1 .. Len(s)
    BY <1>1, <2>1, <2>2 DEF Contains
  <2>3. CASE i \notin 1 .. Len(s)
    <3>1. i - Len(s) \in 1 .. Len(t) /\ Len(s) + (i - Len(s)) = i
      BY <1>1, <2>3
    <3>2. t[i - Len(s)] = y
      BY <1>1, <2>1, <3>1
    <3> QED BY <3>1, <3>2 DEF Contains
  <2> QED BY <2>2, <2>3
<1>3. ASSUME NEW y, Contains(s, y) PROVE Contains(u, y)
  <2>1. PICK i \in 1 .. Len(s) : s[i] = y
    BY <1>3 DEF Contains
  <2>2. i \in 1 .. Len(u) /\ u[i] = y
    BY <1>1, <2>1
  <2> QED BY <2>2 DEF Contains
<1>4. ASSUME NEW y, Contains(t, y) PROVE Contains(u, y)
  <2>1. PICK i \in 1 .. Len(t) : t[i] = y
    BY <1>4 DEF Contains
  <2>2. Len(s) + i \in 1 .. Len(u) /\ u[Len(s) + i] = y
    BY <1>1, <2>1
  <2> QED BY <2>2 DEF Contains
<1> QED BY <1>2, <1>3, <1>4 DEF u

\* A list without duplicates has a value at one place or at none.
LEMMA Places ==
    ASSUME NEW S, NEW list \in Seq(S), Unique(list), NEW x
    PROVE  Cardinality({i \in DOMAIN list : list[i] = x})
               = IF Contains(list, x) THEN 1 ELSE 0
<1>1. DOMAIN list = 1 .. Len(list)
  OBVIOUS
<1>2. CASE Contains(list, x)
  <2>1. PICK i \in 1 .. Len(list) : list[i] = x
    BY <1>2 DEF Contains
  <2>2. {j \in DOMAIN list : list[j] = x} = {i}
    BY <1>1, <2>1 DEF Unique
  <2> QED BY <1>2, <2>2, FS_Singleton
<1>3. CASE ~ Contains(list, x)
  <2>1. {j \in DOMAIN list : list[j] = x} = {}
    BY <1>1, <1>3 DEF Contains
  <2> QED BY <1>3, <2>1, FS_EmptySet
<1> QED BY <1>2, <1>3
=============================================================================

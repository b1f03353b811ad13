---------------------------- MODULE PagingProofs ----------------------------
(* Proofs about Paging, for every page size, batch, ceiling and set of      *)
(* cells. Only is a recursive function, so what it returns is shown by      *)
(* induction over sequences, stated with a set in the place of a predicate. *)
EXTENDS Paging, SequenceTheorems, FunctionTheorems, FiniteSetTheorems, WellFoundedInduction, TLAPS

-----------------------------------------------------------------------------
(* Induction over numbers and sequences, with a set for the predicate.      *)

LEMMA LeastNumber ==
    ASSUME NEW T, T \subseteq Nat, T # {}
    PROVE  \E x \in T : \A y \in T : x <= y
<1> DEFINE R == OpToRel(<, Nat)
<1>1. IsWellFoundedOn(R, Nat)
  BY NatLessThanWellFounded
<1>2. \A x, y \in Nat : (<<x, y>> \in R) <=> x < y
  BY DEF OpToRel
<1> HIDE DEF R
<1>3. PICK x \in T : \A y \in T : ~(<<y, x>> \in R)
  BY <1>1, WFMin, Zenon
<1>4. ASSUME NEW y \in T PROVE x <= y
  <2>1. x \in Nat /\ y \in Nat
    OBVIOUS
  <2>2. ~(y < x)
    BY <1>2, <1>3, <2>1, Zenon
  <2> QED
    BY <2>1, <2>2
<1> QED
  BY <1>4

LEMMA NumbersByInduction ==
    ASSUME NEW P, 0 \in P, \A n \in Nat : n \in P => n + 1 \in P
    PROVE  Nat \subseteq P
<1> SUFFICES ASSUME Nat \ P # {} PROVE FALSE
  OBVIOUS
<1>1. PICK x \in Nat \ P : \A y \in Nat \ P : x <= y
  BY LeastNumber
<1>2. x # 0 /\ x - 1 \in Nat /\ x - 1 < x
  BY <1>1
<1>3. x - 1 \in P
  BY <1>1, <1>2
<1> QED
  BY <1>1, <1>2, <1>3

\* A set that holds the empty sequence and is closed under Append.
LEMMA SequencesByInduction ==
    ASSUME NEW T, NEW P, <<>> \in P, \A s \in Seq(T), e \in T : s \in P => Append(s, e) \in P
    PROVE  Seq(T) \subseteq P
<1> DEFINE Q == {n \in Nat : \A s \in Seq(T) : Len(s) = n => s \in P}
<1>1. 0 \in Q
  BY EmptySeq
<1>2. ASSUME NEW n \in Nat, n \in Q PROVE n + 1 \in Q
  <2> SUFFICES ASSUME NEW s \in Seq(T), Len(s) = n + 1 PROVE s \in P
    OBVIOUS
  <2>1. PICK f \in Seq(T), e \in T : s = Append(f, e)
    BY SequenceEmptyOrAppend, EmptySeq
  <2>2. Len(f) = n
    BY <2>1, AppendProperties
  <2> QED
    BY <1>2, <2>1, <2>2
<1>3. Nat \subseteq Q
  <2> HIDE DEF Q
  <2> QED
    BY <1>1, <1>2, NumbersByInduction
<1> QED
  BY <1>3

-----------------------------------------------------------------------------
(* What Only returns.                                                       *)

\* f is the function by which Only is defined, up to n.
IsOnly(f, s, n, S) ==
    f = [k \in 0..n |-> IF k = 0 THEN <<>>
                        ELSE IF s[k] \in S THEN Append(f[k - 1], s[k]) ELSE f[k - 1]]

LEMMA OnlyExists ==
    ASSUME NEW s, NEW S, NEW n \in Nat
    PROVE  \E f : IsOnly(f, s, n, S)
<1> DEFINE P == {m \in Nat : \E f : IsOnly(f, s, m, S)}
<1>1. 0 \in P
  <2>1. IsOnly([k \in 0..0 |-> <<>>], s, 0, S)
    BY DEF IsOnly
  <2> QED
    BY <2>1
<1>2. ASSUME NEW m \in Nat, m \in P PROVE m + 1 \in P
  <2>1. PICK f : IsOnly(f, s, m, S)
    BY <1>2
  <2> DEFINE e == IF s[m + 1] \in S THEN Append(f[m], s[m + 1]) ELSE f[m]
             g == [k \in 0..(m + 1) |-> IF k = m + 1 THEN e ELSE f[k]]
  <2>2. \A k \in 0..(m + 1) : g[k] = (IF k = 0 THEN <<>>
              ELSE IF s[k] \in S THEN Append(g[k - 1], s[k]) ELSE g[k - 1])
    <3> SUFFICES ASSUME NEW k \in 0..(m + 1)
                 PROVE g[k] = (IF k = 0 THEN <<>>
                    ELSE IF s[k] \in S THEN Append(g[k - 1], s[k]) ELSE g[k - 1])
      OBVIOUS
    <3>1. CASE k = m + 1
      <4>1. g[k] = e /\ g[k - 1] = f[m] /\ k # 0
        BY <3>1
      <4> QED
        BY <3>1, <4>1
    <3>2. CASE k \in 0..m /\ k # 0
      <4>1. g[k] = f[k] /\ g[k - 1] = f[k - 1]
        BY <3>2
      <4>2. f[k] = (IF s[k] \in S THEN Append(f[k - 1], s[k]) ELSE f[k - 1])
        BY <2>1, <3>2 DEF IsOnly
      <4> QED
        BY <3>2, <4>1, <4>2
    <3>3. CASE k = 0
      <4>1. g[k] = f[k]
        BY <3>3
      <4> QED
        BY <2>1, <3>3, <4>1 DEF IsOnly
    <3> QED
      BY <3>1, <3>2, <3>3
  <2>3. IsOnly(g, s, m + 1, S)
    <3> DEFINE h == [k \in 0..(m + 1) |-> IF k = 0 THEN <<>>
              ELSE IF s[k] \in S THEN Append(g[k - 1], s[k]) ELSE g[k - 1]]
    <3>1. g = h
      <4>1. \A k \in 0..(m + 1) : g[k] = h[k]
        <5> HIDE DEF g
        <5> QED BY <2>2
      <4>2. DOMAIN g = 0..(m + 1) /\ DOMAIN h = 0..(m + 1)
        OBVIOUS
      <4>3. g = [k \in DOMAIN g |-> g[k]]
        OBVIOUS
      <4> HIDE DEF g, h
      <4>4. h = [k \in DOMAIN h |-> h[k]]
        BY DEF h
      <4> QED BY <4>1, <4>2, <4>3, <4>4
    <3> QED
      BY <3>1 DEF IsOnly
  <2> QED
    BY <2>3
<1>3. Nat \subseteq P
  <2> HIDE DEF P
  <2> QED
    BY <1>1, <1>2, NumbersByInduction
<1> QED
  BY <1>3

\* Only(s, S) is the last value of a function that adds one cell at a time.
LEMMA OnlyFunction ==
    ASSUME NEW T, NEW s \in Seq(T), NEW S
    PROVE  \E f : /\ f[0] = <<>>
                  /\ \A k \in 0..(Len(s) - 1) :
                       f[k + 1] = IF s[k + 1] \in S THEN Append(f[k], s[k + 1]) ELSE f[k]
                  /\ Only(s, S) = f[Len(s)]
<1> DEFINE f == CHOOSE f : IsOnly(f, s, Len(s), S)
<1>1. IsOnly(f, s, Len(s), S)
  BY OnlyExists
<1>2. Only(s, S) = f[Len(s)]
  BY DEF Only, IsOnly
<1> HIDE DEF f
<1>3. \A j \in 0..Len(s) : f[j] = IF j = 0 THEN <<>>
                             ELSE IF s[j] \in S THEN Append(f[j - 1], s[j]) ELSE f[j - 1]
  BY <1>1 DEF IsOnly
<1>4. ASSUME NEW k \in 0..(Len(s) - 1)
      PROVE  f[k + 1] = IF s[k + 1] \in S THEN Append(f[k], s[k + 1]) ELSE f[k]
  <2>1. k + 1 \in 0..Len(s) /\ k + 1 # 0 /\ (k + 1) - 1 = k
    OBVIOUS
  <2> QED
    BY <1>3, <2>1, Zenon
<1>5. f[0] = <<>>
  BY <1>3
<1> QED
  BY <1>2, <1>4, <1>5

LEMMA OnlyEmpty ==
    ASSUME NEW S
    PROVE  Only(<<>>, S) = <<>>
<1>1. <<>> \in Seq({}) /\ Len(<<>>) = 0
  OBVIOUS
<1>2. PICK f : f[0] = <<>> /\ Only(<<>>, S) = f[Len(<<>>)]
  BY <1>1, OnlyFunction
<1> QED
  BY <1>1, <1>2

LEMMA OnlyAppend ==
    ASSUME NEW T, NEW s \in Seq(T), NEW e \in T, NEW S
    PROVE  Only(Append(s, e), S) = IF e \in S THEN Append(Only(s, S), e) ELSE Only(s, S)
<1> DEFINE t == Append(s, e)
           n == Len(s)
<1>1. t \in Seq(T) /\ Len(t) = n + 1 /\ t[n + 1] = e /\ \A k \in 1..n : t[k] = s[k]
  OBVIOUS
<1>2. PICK f : /\ f[0] = <<>>
               /\ \A k \in 0..(n - 1) :
                    f[k + 1] = IF s[k + 1] \in S THEN Append(f[k], s[k + 1]) ELSE f[k]
               /\ Only(s, S) = f[n]
  BY OnlyFunction
<1>3. PICK g : /\ g[0] = <<>>
               /\ \A k \in 0..(Len(t) - 1) :
                    g[k + 1] = IF t[k + 1] \in S THEN Append(g[k], t[k + 1]) ELSE g[k]
               /\ Only(t, S) = g[Len(t)]
  BY <1>1, OnlyFunction
<1>4. n \in Nat
  OBVIOUS
<1> HIDE DEF t, n
<1> DEFINE P == {k \in Nat : k <= n => f[k] = g[k]}
<1>5. Nat \subseteq P
  <2>1. 0 \in P
    BY <1>2, <1>3
  <2>2. ASSUME NEW k \in Nat, k \in P PROVE k + 1 \in P
    <3> SUFFICES ASSUME k + 1 <= n PROVE f[k + 1] = g[k + 1]
      OBVIOUS
    <3>1. /\ k \in 0..(n - 1) /\ k \in 0..(Len(t) - 1)
          /\ f[k] = g[k] /\ t[k + 1] = s[k + 1]
      BY <1>1, <1>4, <2>2
    <3> QED
      BY <1>2, <1>3, <3>1
  <2> HIDE DEF P
  <2> QED
    BY <2>1, <2>2, NumbersByInduction
<1>6. f[n] = g[n]
  BY <1>4, <1>5
<1>7. g[n + 1] = IF t[n + 1] \in S THEN Append(g[n], t[n + 1]) ELSE g[n]
  <2>1. n \in 0..(Len(t) - 1)
    BY <1>1, <1>4
  <2> QED
    BY <1>3, <2>1
<1> QED
  BY <1>1, <1>2, <1>3, <1>6, <1>7 DEF t

LEMMA OnlyType ==
    ASSUME NEW T, NEW s \in Seq(T), NEW S
    PROVE  Only(s, S) \in Seq(T \cap S)
<1> DEFINE P == {r \in Seq(T) : Only(r, S) \in Seq(T \cap S)}
<1>1. <<>> \in P
  BY OnlyEmpty, EmptySeq
<1>2. ASSUME NEW r \in Seq(T), NEW e \in T, r \in P PROVE Append(r, e) \in P
  <2>1. Only(Append(r, e), S) = IF e \in S THEN Append(Only(r, S), e) ELSE Only(r, S)
    BY OnlyAppend
  <2>2. e \in S => Append(Only(r, S), e) \in Seq(T \cap S)
    BY <1>2, AppendProperties
  <2> QED
    BY <1>2, <2>1, <2>2, AppendProperties
<1>3. Seq(T) \subseteq P
  <2> HIDE DEF P
  <2> QED
    BY <1>1, <1>2, SequencesByInduction
<1> QED
  BY <1>3

\* The cells of one type.
LEMMA OnlySeq ==
    ASSUME NEW T, NEW s \in Seq(T), NEW S
    PROVE  Only(s, S) \in Seq(T)
<1>1. Only(s, S) \in Seq(T \cap S) /\ T \cap S \subseteq T
  BY OnlyType
<1> QED
  BY <1>1, SeqMonotonic

LEMMA ConcatAppend ==
    ASSUME NEW T, NEW s \in Seq(T), NEW t \in Seq(T), NEW e \in T
    PROVE  s \o Append(t, e) = Append(s \o t, e)
<1>1. Append(t, e) = t \o <<e>> /\ <<e>> \in Seq(T) /\ s \o t \in Seq(T)
  BY AppendIsConcat, ConcatProperties
<1>2. Append(s \o t, e) = (s \o t) \o <<e>>
  BY <1>1, AppendIsConcat
<1> QED
  BY <1>1, <1>2, ConcatAssociative

LEMMA OnlyConcat ==
    ASSUME NEW T, NEW s \in Seq(T), NEW t \in Seq(T), NEW S
    PROVE  Only(s \o t, S) = Only(s, S) \o Only(t, S)
<1> DEFINE P == {r \in Seq(T) : Only(s \o r, S) = Only(s, S) \o Only(r, S)}
<1>1. <<>> \in P
  BY OnlyEmpty, EmptySeq, OnlySeq, ConcatEmptySeq
<1>2. ASSUME NEW r \in Seq(T), NEW e \in T, r \in P PROVE Append(r, e) \in P
  <2>1. s \o Append(r, e) = Append(s \o r, e) /\ s \o r \in Seq(T)
    BY ConcatAppend, ConcatProperties
  <2>2. Only(s \o Append(r, e), S)
          = IF e \in S THEN Append(Only(s \o r, S), e) ELSE Only(s \o r, S)
    BY <2>1, OnlyAppend
  <2>3. Only(Append(r, e), S) = IF e \in S THEN Append(Only(r, S), e) ELSE Only(r, S)
    BY OnlyAppend
  <2>4. Only(s, S) \o Append(Only(r, S), e) = Append(Only(s, S) \o Only(r, S), e)
    BY OnlySeq, ConcatAppend
  <2>5. Only(s \o Append(r, e), S) = Only(s, S) \o Only(Append(r, e), S)
    BY <1>2, <2>2, <2>3, <2>4
  <2> QED
    BY <2>5, AppendProperties
<1>3. Seq(T) \subseteq P
  <2> HIDE DEF P
  <2> QED
    BY <1>1, <1>2, SequencesByInduction
<1> QED
  BY <1>3

LEMMA ElementsOf ==
    ASSUME NEW T, NEW s \in Seq(T)
    PROVE  /\ ToSet(s) = {s[i] : i \in 1..Len(s)}
           /\ ToSet(s) \subseteq T
           /\ s \in Seq(ToSet(s))
           /\ ToSet(<<>>) = {}
           /\ \A e \in T : ToSet(Append(s, e)) = ToSet(s) \cup {e}
<1>1. ToSet(s) = {s[i] : i \in 1..Len(s)} /\ ToSet(s) \subseteq T /\ ToSet(<<>>) = {}
  BY DEF ToSet
<1>2. s \in Seq(ToSet(s))
  BY <1>1, SeqDef, LenProperties
<1>3. ASSUME NEW e \in T PROVE ToSet(Append(s, e)) = ToSet(s) \cup {e}
  <2>1. Len(Append(s, e)) = Len(s) + 1 /\ DOMAIN Append(s, e) = 1..(Len(s) + 1)
    OBVIOUS
  <2> QED
    BY <1>1, <2>1, AppendProperties DEF ToSet
<1> QED
  BY <1>1, <1>2, <1>3

LEMMA ElementsOfConcat ==
    ASSUME NEW T, NEW s \in Seq(T), NEW t \in Seq(T)
    PROVE  ToSet(s \o t) = ToSet(s) \cup ToSet(t)
<1>1. s \o t \in Seq(T) /\ Len(s \o t) = Len(s) + Len(t)
  BY ConcatProperties
<1>5. /\ ToSet(s \o t) = {(s \o t)[i] : i \in 1..Len(s \o t)}
      /\ ToSet(s) = {s[i] : i \in 1..Len(s)} /\ ToSet(t) = {t[i] : i \in 1..Len(t)}
  BY <1>1, ElementsOf
<1>2. ASSUME NEW i \in 1..Len(s) PROVE s[i] \in ToSet(s \o t)
  <2>1. (s \o t)[i] = s[i] /\ i \in 1..Len(s \o t)
    BY <1>1, ConcatProperties
  <2> QED
    BY <1>5, <2>1
<1>3. ASSUME NEW i \in 1..Len(t) PROVE t[i] \in ToSet(s \o t)
  <2>1. (s \o t)[Len(s) + i] = t[i] /\ Len(s) + i \in 1..Len(s \o t)
    BY <1>1, ConcatProperties
  <2> QED
    BY <1>5, <2>1
<1>4. ASSUME NEW i \in 1..Len(s \o t) PROVE (s \o t)[i] \in ToSet(s) \cup ToSet(t)
  <2>1. (s \o t)[i] = IF i <= Len(s) THEN s[i] ELSE t[i - Len(s)]
    BY <1>1, ConcatProperties
  <2>2. i <= Len(s) => i \in 1..Len(s)
    OBVIOUS
  <2>3. ~(i <= Len(s)) => i - Len(s) \in 1..Len(t)
    BY <1>1
  <2> QED
    BY <2>1, <2>2, <2>3, ElementsOf
<1> QED
  BY <1>2, <1>3, <1>4, <1>5

LEMMA OnlyElements ==
    ASSUME NEW T, NEW s \in Seq(T), NEW S
    PROVE  ToSet(Only(s, S)) = ToSet(s) \cap S
<1> DEFINE P == {r \in Seq(T) : ToSet(Only(r, S)) = ToSet(r) \cap S}
<1>1. <<>> \in P
  BY OnlyEmpty, EmptySeq, ElementsOf
<1>2. ASSUME NEW r \in Seq(T), NEW e \in T, r \in P PROVE Append(r, e) \in P
  <2>1. ToSet(Append(r, e)) = ToSet(r) \cup {e} /\ Append(r, e) \in Seq(T)
    BY ElementsOf, AppendProperties
  <2>2. ToSet(Append(Only(r, S), e)) = ToSet(Only(r, S)) \cup {e}
    BY ElementsOf, OnlySeq
  <2>3. Only(Append(r, e), S) = IF e \in S THEN Append(Only(r, S), e) ELSE Only(r, S)
    BY OnlyAppend
  <2>4. ToSet(Only(Append(r, e), S)) = ToSet(Append(r, e)) \cap S
    BY <1>2, <2>1, <2>2, <2>3
  <2> QED
    BY <2>1, <2>4
<1>3. Seq(T) \subseteq P
  <2> HIDE DEF P
  <2> QED
    BY <1>1, <1>2, SequencesByInduction
<1> QED
  BY <1>3

LEMMA InjectiveConcat ==
    ASSUME NEW T, NEW s \in Seq(T), NEW t \in Seq(T)
    PROVE  IsInjective(s \o t) <=> /\ IsInjective(s) /\ IsInjective(t)
                                   /\ ToSet(s) \cap ToSet(t) = {}
<1> DEFINE u == s \o t
           n == Len(s)
           m == Len(t)
<1>1. u \in Seq(T) /\ Len(u) = n + m /\ n \in Nat /\ m \in Nat
      /\ \A i \in 1..(n + m) : u[i] = IF i <= n THEN s[i] ELSE t[i - n]
  BY ConcatProperties
<1>2. DOMAIN s = 1..n /\ DOMAIN t = 1..m /\ DOMAIN u = 1..(n + m)
  BY <1>1
<1>3. ToSet(s) = {s[i] : i \in 1..n} /\ ToSet(t) = {t[i] : i \in 1..m}
  BY ElementsOf
<1> HIDE DEF u, n, m
<1>4. ASSUME IsInjective(u) PROVE IsInjective(s) /\ IsInjective(t) /\ ToSet(s) \cap ToSet(t) = {}
  <2>1. ASSUME NEW i \in 1..n, NEW j \in 1..n, s[i] = s[j] PROVE i = j
    BY <1>1, <1>2, <1>4, <2>1 DEF IsInjective
  <2>2. ASSUME NEW i \in 1..m, NEW j \in 1..m, t[i] = t[j] PROVE i = j
    <3>1. /\ n + i \in 1..(n + m) /\ n + j \in 1..(n + m)
          /\ ~(n + i <= n) /\ ~(n + j <= n) /\ (n + i) - n = i /\ (n + j) - n = j
      BY <1>1
    <3>2. u[n + i] = t[i] /\ u[n + j] = t[j]
      BY <1>1, <3>1
    <3>3. n + i = n + j
      BY <1>2, <1>4, <2>2, <3>1, <3>2 DEF IsInjective
    <3> QED
      BY <1>1, <3>3
  <2>3. ASSUME NEW i \in 1..n, NEW j \in 1..m, s[i] = t[j] PROVE FALSE
    <3>1. n + j \in 1..(n + m) /\ ~(n + j <= n) /\ (n + j) - n = j /\ i \in 1..(n + m) /\ i <= n
      BY <1>1
    <3>2. u[n + j] = t[j] /\ u[i] = s[i]
      BY <1>1, <3>1
    <3>3. n + j = i
      BY <1>2, <1>4, <2>3, <3>1, <3>2 DEF IsInjective
    <3> QED
      BY <1>1, <3>3
  <2> QED
    BY <1>2, <1>3, <2>1, <2>2, <2>3 DEF IsInjective
<1>5. ASSUME IsInjective(s), IsInjective(t), ToSet(s) \cap ToSet(t) = {},
             NEW i \in 1..(n + m), NEW j \in 1..(n + m), u[i] = u[j]
      PROVE  i = j
  <2>1. CASE i <= n /\ j <= n
    <3>1. i \in 1..n /\ j \in 1..n /\ u[i] = s[i] /\ u[j] = s[j]
      BY <1>1, <2>1
    <3> QED
      BY <1>2, <1>5, <3>1 DEF IsInjective
  <2>2. CASE ~(i <= n) /\ ~(j <= n)
    <3>1. i - n \in 1..m /\ j - n \in 1..m /\ u[i] = t[i - n] /\ u[j] = t[j - n]
      BY <1>1, <2>2
    <3>2. i - n = j - n
      BY <1>2, <1>5, <3>1 DEF IsInjective
    <3> QED
      BY <1>1, <3>2
  <2>3. CASE i <= n /\ ~(j <= n)
    <3>1. i \in 1..n /\ j - n \in 1..m /\ u[i] = s[i] /\ u[j] = t[j - n]
      BY <1>1, <2>3
    <3>2. s[i] \in ToSet(s) /\ t[j - n] \in ToSet(t)
      BY <1>3, <3>1
    <3> QED
      BY <1>5, <3>1, <3>2
  <2>4. CASE ~(i <= n) /\ j <= n
    <3>1. j \in 1..n /\ i - n \in 1..m /\ u[j] = s[j] /\ u[i] = t[i - n]
      BY <1>1, <2>4
    <3>2. s[j] \in ToSet(s) /\ t[i - n] \in ToSet(t)
      BY <1>3, <3>1
    <3> QED
      BY <1>5, <3>1, <3>2
  <2> QED
    BY <2>1, <2>2, <2>3, <2>4
<1>6. ASSUME IsInjective(s), IsInjective(t), ToSet(s) \cap ToSet(t) = {}
      PROVE  IsInjective(u)
  BY <1>2, <1>5, <1>6 DEF IsInjective
<1> QED
  BY <1>4, <1>6 DEF u

LEMMA InjectiveSingleton ==
    ASSUME NEW e
    PROVE  IsInjective(<<e>>) /\ IsInjective(<<>>) /\ ToSet(<<e>>) = {e}
BY DEF IsInjective, ToSet

LEMMA InjectiveAppend ==
    ASSUME NEW T, NEW s \in Seq(T), NEW e \in T
    PROVE  IsInjective(Append(s, e)) <=> IsInjective(s) /\ e \notin ToSet(s)
<1>1. Append(s, e) = s \o <<e>> /\ <<e>> \in Seq(T)
  BY AppendIsConcat
<1>2. IsInjective(s \o <<e>>)
        <=> IsInjective(s) /\ IsInjective(<<e>>) /\ ToSet(s) \cap ToSet(<<e>>) = {}
  BY <1>1, InjectiveConcat, Zenon
<1>3. ToSet(s) \cap {e} = {} <=> e \notin ToSet(s)
  OBVIOUS
<1>4. IsInjective(<<e>>) /\ ToSet(<<e>>) = {e}
  BY InjectiveSingleton
<1> QED
  BY <1>1, <1>2, <1>3, <1>4, Zenon

LEMMA OnlyInjective ==
    ASSUME NEW T, NEW s \in Seq(T), NEW S, IsInjective(s)
    PROVE  IsInjective(Only(s, S))
<1> DEFINE P == {r \in Seq(T) : IsInjective(r) => IsInjective(Only(r, S))}
<1>1. <<>> \in P
  BY OnlyEmpty, EmptySeq
<1>2. ASSUME NEW r \in Seq(T), NEW e \in T, r \in P PROVE Append(r, e) \in P
  <2>1. /\ Append(r, e) = r \o <<e>> /\ <<e>> \in Seq(T) /\ Append(r, e) \in Seq(T)
        /\ Append(Only(r, S), e) = Only(r, S) \o <<e>> /\ Only(r, S) \in Seq(T)
    BY AppendIsConcat, OnlySeq, AppendProperties
  <2>2. IsInjective(Append(r, e)) <=> IsInjective(r) /\ e \notin ToSet(r)
    BY <2>1, InjectiveAppend, Zenon
  <2>3. IsInjective(Append(Only(r, S), e)) <=> IsInjective(Only(r, S)) /\ e \notin ToSet(Only(r, S))
    BY <2>1, InjectiveAppend, Zenon
  <2>4. ToSet(Only(r, S)) \subseteq ToSet(r)
    BY OnlyElements
  <2>5. CASE e \in S
    <3>1. Only(Append(r, e), S) = Append(Only(r, S), e)
      BY <2>5, OnlyAppend
    <3> QED
      BY <1>2, <2>1, <2>2, <2>3, <2>4, <3>1, Zenon
  <2>6. CASE e \notin S
    <3>1. Only(Append(r, e), S) = Only(r, S)
      BY <2>6, OnlyAppend
    <3> QED
      BY <1>2, <2>1, <2>2, <3>1, Zenon
  <2> QED
    BY <2>5, <2>6
<1>3. Seq(T) \subseteq P
  <2> HIDE DEF P
  <2> QED
    BY <1>1, <1>2, SequencesByInduction
<1> QED
  BY <1>3

LEMMA OnlyTwice ==
    ASSUME NEW T, NEW s \in Seq(T), NEW M, NEW S, S \subseteq M
    PROVE  Only(Only(s, M), S) = Only(s, S)
<1> DEFINE P == {r \in Seq(T) : Only(Only(r, M), S) = Only(r, S)}
<1>1. <<>> \in P
  BY OnlyEmpty, EmptySeq
<1>2. ASSUME NEW r \in Seq(T), NEW e \in T, r \in P PROVE Append(r, e) \in P
  <2>1. Only(Append(Only(r, M), e), S)
          = IF e \in S THEN Append(Only(Only(r, M), S), e) ELSE Only(Only(r, M), S)
    BY OnlySeq, OnlyAppend
  <2>2. Only(Append(r, e), M) = IF e \in M THEN Append(Only(r, M), e) ELSE Only(r, M)
    BY OnlyAppend
  <2>3. Only(Append(r, e), S) = IF e \in S THEN Append(Only(r, S), e) ELSE Only(r, S)
    BY OnlyAppend
  <2> QED
    BY <1>2, <2>1, <2>2, <2>3, AppendProperties
<1>3. Seq(T) \subseteq P
  <2> HIDE DEF P
  <2> QED
    BY <1>1, <1>2, SequencesByInduction
<1> QED
  BY <1>3

\* Only what the sequence holds of the set matters.
LEMMA OnlySame ==
    ASSUME NEW T, NEW s \in Seq(T), NEW S1, NEW S2, S1 \cap T = S2 \cap T
    PROVE  Only(s, S1) = Only(s, S2)
<1> DEFINE P == {r \in Seq(T) : Only(r, S1) = Only(r, S2)}
<1>1. <<>> \in P
  BY OnlyEmpty, EmptySeq
<1>2. ASSUME NEW r \in Seq(T), NEW e \in T, r \in P PROVE Append(r, e) \in P
  <2>1. Only(Append(r, e), S1) = IF e \in S1 THEN Append(Only(r, S1), e) ELSE Only(r, S1)
    BY OnlyAppend
  <2>2. Only(Append(r, e), S2) = IF e \in S2 THEN Append(Only(r, S2), e) ELSE Only(r, S2)
    BY OnlyAppend
  <2>3. e \in S1 <=> e \in S2
    OBVIOUS
  <2> QED
    BY <1>2, <2>1, <2>2, <2>3, AppendProperties
<1>3. Seq(T) \subseteq P
  <2> HIDE DEF P
  <2> QED
    BY <1>1, <1>2, SequencesByInduction
<1> QED
  BY <1>3

LEMMA OnlyAll ==
    ASSUME NEW T, NEW s \in Seq(T), NEW S, T \subseteq S
    PROVE  Only(s, S) = s
<1> DEFINE P == {r \in Seq(T) : Only(r, S) = r}
<1>1. <<>> \in P
  BY OnlyEmpty, EmptySeq
<1>2. ASSUME NEW r \in Seq(T), NEW e \in T, r \in P PROVE Append(r, e) \in P
  BY <1>2, OnlyAppend, AppendProperties
<1>3. Seq(T) \subseteq P
  <2> HIDE DEF P
  <2> QED
    BY <1>1, <1>2, SequencesByInduction
<1> QED
  BY <1>3

-----------------------------------------------------------------------------
(* The first cells of a sequence, and the others.                           *)

Smaller(n, m) == IF n < m THEN n ELSE m
Take(s, n) == SubSeq(s, 1, Smaller(n, Len(s)))
Drop(s, n) == SubSeq(s, Smaller(n, Len(s)) + 1, Len(s))

LEMMA TakeDrop ==
    ASSUME NEW T, NEW s \in Seq(T), NEW n \in Nat
    PROVE  /\ Take(s, n) \in Seq(T) /\ Drop(s, n) \in Seq(T)
           /\ n <= Len(s) => Len(Take(s, n)) = n /\ Len(Drop(s, n)) = Len(s) - n
           /\ Len(s) <= n => Len(Take(s, n)) = Len(s) /\ Len(Drop(s, n)) = 0
           /\ Take(s, n) \o Drop(s, n) = s
<1>1. PICK k \in Nat : k = Smaller(n, Len(s))
  BY LenProperties DEF Smaller
<1>2. /\ k <= Len(s) /\ Len(s) \in Nat
      /\ n <= Len(s) => k = n
      /\ Len(s) <= n => k = Len(s)
  BY <1>1, LenProperties DEF Smaller
<1>3. SubSeq(s, 1, k) \in Seq(T) /\ Len(SubSeq(s, 1, k)) = k
  <2>1. 1 \in Int /\ k \in Int /\ \A i \in 1..k : s[i] \in T
    BY <1>2, ElementOfSeq
  <2>2. Len(SubSeq(s, 1, k)) = IF 1 <= k THEN k - 1 + 1 ELSE 0
    BY <2>1, SubSeqProperties
  <2> QED
    BY <2>1, <2>2, SubSeqProperties
<1>4. SubSeq(s, k + 1, Len(s)) \in Seq(T) /\ Len(SubSeq(s, k + 1, Len(s))) = Len(s) - k
  <2>1. k + 1 \in Int /\ Len(s) \in Int /\ \A i \in (k + 1)..Len(s) : s[i] \in T
    BY <1>2, ElementOfSeq
  <2>2. /\ SubSeq(s, k + 1, Len(s)) \in Seq(T)
        /\ Len(SubSeq(s, k + 1, Len(s))) = IF k + 1 <= Len(s) THEN Len(s) - (k + 1) + 1 ELSE 0
    BY <2>1, SubSeqProperties
  <2>3. (IF k + 1 <= Len(s) THEN Len(s) - (k + 1) + 1 ELSE 0) = Len(s) - k
    BY <1>2
  <2> QED
    BY <2>2, <2>3
<1>5. SubSeq(s, 1, k) \o SubSeq(s, k + 1, Len(s)) = s
  <2>1. 1 \in 1..(Len(s) + 1) /\ k \in (1 - 1)..Len(s) /\ Len(s) \in k..Len(s)
    BY <1>2
  <2> QED
    BY <2>1, ConcatAdjacentSubSeq, SubSeqFull
<1>6. Take(s, n) = SubSeq(s, 1, k) /\ Drop(s, n) = SubSeq(s, k + 1, Len(s))
  BY <1>1 DEF Take, Drop
<1>7. /\ n <= Len(s) => k = n /\ Len(s) - k = Len(s) - n
      /\ Len(s) <= n => k = Len(s) /\ Len(s) - k = 0
  BY <1>2
<1> QED
  BY <1>3, <1>4, <1>5, <1>6, <1>7

LEMMA SplitUnique ==
    ASSUME NEW T, NEW a \in Seq(T), NEW b \in Seq(T), NEW c \in Seq(T), NEW d \in Seq(T),
           a \o b = c \o d, Len(a) = Len(c)
    PROVE  a = c /\ b = d
<1>1. /\ Len(a \o b) = Len(a) + Len(b) /\ Len(c \o d) = Len(c) + Len(d)
      /\ \A i \in 1..(Len(a) + Len(b)) : (a \o b)[i] = IF i <= Len(a) THEN a[i] ELSE b[i - Len(a)]
      /\ \A i \in 1..(Len(c) + Len(d)) : (c \o d)[i] = IF i <= Len(c) THEN c[i] ELSE d[i - Len(c)]
  BY ConcatProperties
<1>2. Len(a) \in Nat /\ Len(b) \in Nat /\ Len(d) \in Nat /\ Len(b) = Len(d)
  BY <1>1, LenProperties
<1>3. ASSUME NEW i \in 1..Len(a) PROVE a[i] = c[i]
  <2>1. i \in 1..(Len(a) + Len(b)) /\ i \in 1..(Len(c) + Len(d)) /\ i <= Len(a) /\ i <= Len(c)
    BY <1>2
  <2> QED
    BY <1>1, <2>1
<1>4. ASSUME NEW i \in 1..Len(b) PROVE b[i] = d[i]
  <2>1. /\ Len(a) + i \in 1..(Len(a) + Len(b)) /\ Len(a) + i \in 1..(Len(c) + Len(d))
        /\ ~(Len(a) + i <= Len(a)) /\ ~(Len(a) + i <= Len(c))
        /\ (Len(a) + i) - Len(a) = i /\ (Len(a) + i) - Len(c) = i
    BY <1>2
  <2> QED
    BY <1>1, <2>1
<1> QED
  BY <1>2, <1>3, <1>4, SeqEqual

LEMMA TakeAll ==
    ASSUME NEW T, NEW s \in Seq(T), NEW n \in Nat, Len(s) <= n
    PROVE  Take(s, n) = s /\ Drop(s, n) = <<>>
<1>1. Smaller(n, Len(s)) = Len(s) /\ Len(s) \in Int /\ Len(s) + 1 \in Int /\ Len(s) < Len(s) + 1
  BY LenProperties DEF Smaller
<1> QED
  BY <1>1, SubSeqFull, SubSeqEmpty DEF Take, Drop

LEMMA TakeNone ==
    ASSUME NEW T, NEW s \in Seq(T)
    PROVE  Take(s, 0) = <<>> /\ Drop(s, 0) = s
<1>1. Smaller(0, Len(s)) = 0
  BY LenProperties DEF Smaller
<1> QED
  BY <1>1, SubSeqFull, SubSeqEmpty DEF Take, Drop

LEMMA ConcatThree ==
    ASSUME NEW T, NEW a \in Seq(T), NEW b \in Seq(T), NEW c \in Seq(T)
    PROVE  (a \o b) \o c = a \o (b \o c)
OBVIOUS

LEMMA TakeOfConcat ==
    ASSUME NEW T, NEW a \in Seq(T), NEW b \in Seq(T), NEW n \in Nat
    PROVE  /\ n <= Len(a) => Take(a \o b, n) = Take(a, n) /\ Drop(a \o b, n) = Drop(a, n) \o b
           /\ Len(a) <= n => /\ Take(a \o b, n) = a \o Take(b, n - Len(a))
                             /\ Drop(a \o b, n) = Drop(b, n - Len(a))
<1>1. a \o b \in Seq(T) /\ Len(a \o b) = Len(a) + Len(b)
  BY ConcatProperties
<1>2. Len(a) \in Nat /\ Len(b) \in Nat
  BY LenProperties
<1>3. PICK c, d : /\ c = Take(a \o b, n) /\ d = Drop(a \o b, n)
  OBVIOUS
<1>4. c \in Seq(T) /\ d \in Seq(T) /\ c \o d = a \o b
  BY <1>1, <1>3, TakeDrop
<1>5. /\ n <= Len(a) + Len(b) => Len(c) = n
      /\ Len(a) + Len(b) <= n => Len(c) = Len(a) + Len(b)
  <2>1. PICK u \in Seq(T) : u = a \o b
    BY <1>1
  <2>2. /\ n <= Len(u) => Len(Take(u, n)) = n
        /\ Len(u) <= n => Len(Take(u, n)) = Len(u)
    BY TakeDrop
  <2> QED
    BY <1>1, <1>3, <2>1, <2>2, Zenon
<1>6. ASSUME n <= Len(a) PROVE Take(a, n) = c /\ Drop(a, n) \o b = d
  <2>1. PICK e, f : e = Take(a, n) /\ f = Drop(a, n)
    OBVIOUS
  <2>2. e \in Seq(T) /\ f \in Seq(T)
    BY <2>1, TakeDrop
  <2>3. e \o f = a
    BY <2>1, TakeDrop
  <2>4. Len(e) = n
    <3>1. Len(Take(a, n)) = n
      BY <1>6, TakeDrop
    <3> QED
      BY <2>1, <3>1
  <2>5. f \o b \in Seq(T)
    BY <2>2, ConcatProperties
  <2>6. (e \o f) \o b = e \o (f \o b)
    BY <2>2, ConcatThree, SMT
  <2>7. Len(c) = Len(e)
    BY <1>2, <1>5, <1>6, <2>4
  <2>8. e \o (f \o b) = c \o d
    BY <1>4, <2>3, <2>6, Zenon
  <2>9. e = c /\ f \o b = d
    BY <1>4, <2>2, <2>5, <2>7, <2>8, SplitUnique
  <2> QED
    BY <2>1, <2>9, Zenon
<1>7. ASSUME Len(a) <= n PROVE a \o Take(b, n - Len(a)) = c /\ Drop(b, n - Len(a)) = d
  <2>1. n - Len(a) \in Nat
    BY <1>2, <1>7
  <2>2. PICK k \in Nat : k = n - Len(a)
    BY <2>1
  <2>3. PICK e, f : e = Take(b, k) /\ f = Drop(b, k)
    OBVIOUS
  <2>4. e \in Seq(T) /\ f \in Seq(T)
    BY <2>3, TakeDrop
  <2>0. e \o f = b
    BY <2>3, TakeDrop
  <2>5. /\ k <= Len(b) => Len(e) = k
        /\ Len(b) <= k => Len(e) = Len(b)
    BY <2>3, TakeDrop
  <2>6. a \o e \in Seq(T) /\ Len(a \o e) = Len(a) + Len(e)
    BY <2>4, ConcatProperties
  <2>7. (a \o e) \o f = a \o (e \o f)
    BY <2>4, ConcatAssociative
  <2>8. Len(a \o e) = Len(c)
    BY <1>2, <1>5, <2>2, <2>5, <2>6
  <2>9. (a \o e) \o f = c \o d
    BY <1>4, <2>0, <2>7, Zenon
  <2>10. a \o e = c /\ f = d
    BY <1>4, <2>4, <2>6, <2>8, <2>9, SplitUnique
  <2> QED
    BY <2>2, <2>3, <2>10, Zenon
<1> QED
  BY <1>3, <1>6, <1>7, Zenon

LEMMA TakePastFirst ==
    ASSUME NEW T, NEW a \in Seq(T), NEW b \in Seq(T), NEW n \in Nat, Len(a) <= n
    PROVE  /\ Take(a \o b, n) = a \o Take(b, n - Len(a))
           /\ Drop(a \o b, n) = Drop(b, n - Len(a))
BY TakeOfConcat, Zenon

LEMMA TakeMore ==
    ASSUME NEW T, NEW s \in Seq(T), NEW n \in Nat, NEW k \in Nat
    PROVE  /\ Take(s, n + k) = Take(s, n) \o Take(Drop(s, n), k)
           /\ Drop(s, n + k) = Drop(Drop(s, n), k)
<1>1. PICK a, b : a = Take(s, n) /\ b = Drop(s, n)
  OBVIOUS
<1>2. a \in Seq(T) /\ b \in Seq(T)
  BY <1>1, TakeDrop
<1>0. a \o b = s
  BY <1>1, TakeDrop
<1>3. n <= Len(s) => Len(a) = n
  BY <1>1, TakeDrop
<1>4. Len(s) \in Nat
  BY LenProperties
<1>5. CASE n <= Len(s)
  <2>1. PICK m \in Nat : m = n + k
    OBVIOUS
  <2>2. Len(a) <= m /\ m - Len(a) = k
    BY <1>3, <1>5, <2>1
  <2>3. /\ Take(a \o b, m) = a \o Take(b, m - Len(a))
        /\ Drop(a \o b, m) = Drop(b, m - Len(a))
    BY <1>2, <2>2, TakePastFirst, Zenon
  <2> QED
    BY <1>0, <1>1, <2>1, <2>2, <2>3, Zenon
<1>6. CASE ~(n <= Len(s))
  <2>1. Len(s) <= n /\ Len(s) <= n + k /\ n + k \in Nat
    BY <1>4, <1>6
  <2>2. Take(s, n) = s /\ Drop(s, n) = <<>> /\ Take(s, n + k) = s /\ Drop(s, n + k) = <<>>
    BY <2>1, TakeAll
  <2>3. Take(<<>>, k) = <<>> /\ Drop(<<>>, k) = <<>>
    <3>1. <<>> \in Seq(T) /\ Len(<<>>) <= k
      BY EmptySeq
    <3> QED
      BY <3>1, TakeAll
  <2>4. s \o <<>> = s
    BY ConcatEmptySeq
  <2> QED
    BY <2>2, <2>3, <2>4
<1> QED
  BY <1>5, <1>6

\* A window of Python's is what Take leaves of what Drop leaves.
LEMMA WindowIsTakeDrop ==
    ASSUME NEW T, NEW s \in Seq(T), NEW first \in Nat, NEW count \in Nat
    PROVE  Window(s, first, count) = Take(Drop(s, first), count)
<1> DEFINE last == IF first + count < Len(s) THEN first + count ELSE Len(s)
           d == Drop(s, first)
           t == Take(d, count)
<1>1. Len(s) \in Nat /\ \A i \in 1..Len(s) : s[i] \in T
  BY LenProperties, ElementOfSeq
<1>2. /\ d \in Seq(T)
      /\ first <= Len(s) => Len(d) = Len(s) - first
      /\ Len(s) <= first => Len(d) = 0
  BY TakeDrop
<1>3. /\ t \in Seq(T)
      /\ count <= Len(d) => Len(t) = count
      /\ Len(d) <= count => Len(t) = Len(d)
  BY <1>2, TakeDrop
<1>4. CASE first < Len(s)
  <2> HIDE DEF t
  <2>1. d = SubSeq(s, first + 1, Len(s))
    BY <1>4 DEF Drop, Smaller
  <2>2. \A i \in 1..Len(d) : d[i] = s[first + i]
    <3>1. \A i \in 1..(Len(s) - (first + 1) + 1) : SubSeq(s, first + 1, Len(s))[i] = s[(first + 1) + i - 1]
      BY <1>1, SubSeqProperties
    <3>2. \A i \in 1..Len(d) : i \in 1..(Len(s) - (first + 1) + 1) /\ (first + 1) + i - 1 = first + i
      BY <1>1, <1>2, <1>4
    <3> QED
      BY <2>1, <3>1, <3>2
  <2>3. \A i \in 1..Len(t) : t[i] = d[i]
    <3>1. t = SubSeq(d, 1, Len(t))
      BY <1>3 DEF Take, t, Smaller
    <3>2. \A i \in 1..Len(t) : i \in 1..Len(d) /\ d[i] \in T
      BY <1>2, <1>3, ElementOfSeq, LenProperties
    <3>3. \A i \in 1..(Len(t) - 1 + 1) : SubSeq(d, 1, Len(t))[i] = d[1 + i - 1]
      BY <1>3, <3>2, SubSeqProperties, LenProperties
    <3>4. \A i \in 1..Len(t) : i \in 1..(Len(t) - 1 + 1) /\ 1 + i - 1 = i
      BY <1>3, LenProperties
    <3> QED
      BY <3>1, <3>3, <3>4
  <2> DEFINE w == SubSeq(s, first + 1, last)
  <2>4. w \in Seq(T) /\ Len(w) = last - first /\ \A i \in 1..(last - first) : w[i] = s[first + i]
    <3>1. /\ last \in Int /\ last <= Len(s) /\ first <= last
          /\ \A i \in (first + 1)..last : s[i] \in T
      BY <1>1, <1>4
    <3> HIDE DEF last
    <3>2. /\ SubSeq(s, first + 1, last) \in Seq(T)
          /\ Len(SubSeq(s, first + 1, last)) = IF first + 1 <= last THEN last - (first + 1) + 1 ELSE 0
          /\ \A i \in 1..(last - (first + 1) + 1) : SubSeq(s, first + 1, last)[i] = s[(first + 1) + i - 1]
      BY <3>1, SubSeqProperties
    <3>3. \A i \in 1..(last - first) : i \in 1..(last - (first + 1) + 1) /\ (first + 1) + i - 1 = first + i
      BY <3>1
    <3> QED
      BY <3>1, <3>2, <3>3
  <2>5. Len(t) = last - first /\ Len(t) <= Len(d) /\ Len(t) \in Nat
    <3>1. Len(d) = Len(s) - first /\ Len(d) \in Nat
      BY <1>1, <1>2, <1>4
    <3>2. CASE first + count < Len(s)
      BY <1>1, <1>3, <3>1, <3>2
    <3>3. CASE ~(first + count < Len(s))
      BY <1>1, <1>3, <1>4, <3>1, <3>3
    <3> QED
      BY <3>2, <3>3
  <2> HIDE DEF d, w
  <2>6. \A i \in 1..Len(w) : w[i] = t[i]
    BY <1>2, <2>2, <2>3, <2>4, <2>5
  <2>7. w = t
    BY <1>3, <2>4, <2>5, <2>6, SeqEqual
  <2> QED
    BY <2>7 DEF Window, w, t, d
<1>5. CASE ~(first < Len(s))
  <2>1. Len(d) = 0 /\ last = Len(s) /\ Len(s) < first + 1
    BY <1>1, <1>2, <1>5
  <2>2. SubSeq(s, first + 1, last) = <<>>
    <3> HIDE DEF last
    <3> QED
      BY <1>1, <2>1, SubSeqEmpty
  <2>3. Len(t) = 0
    BY <1>2, <1>3, <2>1
  <2>4. t = <<>>
    <3> HIDE DEF t
    <3> QED
      BY <1>3, <2>3, EmptySeq
  <2> QED
    BY <2>2, <2>4 DEF Window
<1> QED
  BY <1>4, <1>5

LEMMA ElementsFinite ==
    ASSUME NEW T, NEW s \in Seq(T)
    PROVE  /\ IsFiniteSet(ToSet(s)) /\ Cardinality(ToSet(s)) \in Nat
           /\ Cardinality(ToSet(s)) <= Len(s)
           /\ IsInjective(s) => Cardinality(ToSet(s)) = Len(s)
<1>1. s \in [1..Len(s) -> T] /\ Len(s) \in Nat /\ DOMAIN s = 1..Len(s)
  BY LenProperties
<1>2. ToSet(s) = {s[i] : i \in 1..Len(s)}
  BY ElementsOf
<1>3. s \in Surjection(1..Len(s), ToSet(s))
  BY <1>1, <1>2 DEF Surjection
<1>4. IsFiniteSet(1..Len(s)) /\ Cardinality(1..Len(s)) = Len(s)
  <2>1. 1 \in Int /\ Len(s) \in Int /\ (1 > Len(s) => Len(s) = 0) /\ Len(s) - 1 + 1 = Len(s)
    BY <1>1
  <2> QED
    BY <2>1, FS_Interval
<1>5. /\ IsFiniteSet(ToSet(s)) /\ Cardinality(ToSet(s)) <= Len(s)
      /\ Cardinality(ToSet(s)) = Len(s) <=> s \in Injection(1..Len(s), ToSet(s))
  BY <1>3, <1>4, FS_Surjection
<1>6. IsInjective(s) => s \in Injection(1..Len(s), ToSet(s))
  BY <1>3 DEF Injection, Surjection
<1> QED
  BY <1>5, <1>6, FS_CardinalityType

LEMMA TakeTake ==
    ASSUME NEW T, NEW s \in Seq(T), NEW n \in Nat
    PROVE  Take(s, Len(Take(s, n))) = Take(s, n) /\ Drop(s, Len(Take(s, n))) = Drop(s, n)
<1>1. CASE n <= Len(s)
  <2>1. Len(Take(s, n)) = n
    BY <1>1, TakeDrop
  <2> QED
    BY <2>1, Zenon
<1>2. CASE Len(s) <= n
  <2>1. Take(s, n) = s /\ Drop(s, n) = <<>>
    BY <1>2, TakeAll
  <2>2. Len(s) \in Nat /\ Len(s) <= Len(s)
    BY LenProperties
  <2>3. Take(s, Len(s)) = s /\ Drop(s, Len(s)) = <<>>
    BY <2>2, TakeAll
  <2> QED
    BY <2>1, <2>3, Zenon
<1>3. Len(s) \in Nat
  BY LenProperties
<1> QED
  BY <1>1, <1>2, <1>3

\* A window as long as the sequence is what is left of it.
LEMMA FullWindow ==
    ASSUME NEW T, NEW s \in Seq(T), NEW first \in Nat
    PROVE  Window(s, first, Len(s)) = Drop(s, first)
<1>1. PICK d : d = Drop(s, first)
  OBVIOUS
<1>2. d \in Seq(T)
  BY <1>1, TakeDrop
<1>3. Len(d) <= Len(s) /\ Len(s) \in Nat
  <2>1. /\ first <= Len(s) => Len(d) = Len(s) - first
        /\ Len(s) <= first => Len(d) = 0
    BY <1>1, TakeDrop
  <2>2. Len(s) \in Nat
    BY LenProperties
  <2> QED
    BY <2>1, <2>2
<1>4. Window(s, first, Len(s)) = Take(d, Len(s))
  BY <1>1, <1>3, WindowIsTakeDrop
<1>5. Take(d, Len(s)) = d
  BY <1>2, <1>3, TakeAll
<1> QED
  BY <1>1, <1>4, <1>5, Zenon

LEMMA SuffixOfConcat ==
    ASSUME NEW T, NEW a \in Seq(T), NEW b \in Seq(T)
    PROVE  IsSuffix(b, a \o b)
<1> DEFINE u == a \o b
           rb == Reverse(b)
           ru == Reverse(u)
           n == Len(b)
           m == Len(u)
<1>1. /\ u \in Seq(T) /\ m = Len(a) + n /\ n \in Nat /\ m \in Nat /\ n <= m
      /\ \A i \in 1..n : u[Len(a) + i] = b[i]
  <2>1. /\ u \in Seq(T) /\ m = Len(a) + n
        /\ \A i \in 1..Len(u) : u[i] = IF i <= Len(a) THEN a[i] ELSE b[i - Len(a)]
    BY ConcatProperties
  <2>2. Len(a) \in Nat /\ n \in Nat
    BY LenProperties
  <2> HIDE DEF u, n, m
  <2>3. ASSUME NEW i \in 1..n PROVE u[Len(a) + i] = b[i]
    <3>1. /\ Len(a) + i \in 1..Len(u) /\ ~(Len(a) + i <= Len(a))
          /\ (Len(a) + i) - Len(a) = i
      BY <2>1, <2>2 DEF m
    <3> QED
      BY <2>1, <3>1
  <2> QED
    BY <2>1, <2>2, <2>3
<1>2. \A i \in 1..n : b[i] \in T
  BY ElementOfSeq
<1>3. \A i \in 1..m : u[i] \in T
  BY <1>1, ElementOfSeq
<1>4. /\ rb \in Seq(T) /\ Len(rb) = n /\ ru \in Seq(T) /\ Len(ru) = m
      /\ \A i \in 1..n : rb[i] = b[(n - i) + 1]
      /\ \A i \in 1..m : ru[i] = u[(m - i) + 1]
  <2>1. /\ rb = [i \in 1..n |-> b[(n - i) + 1]]
        /\ ru = [i \in 1..m |-> u[(m - i) + 1]]
    BY DEF Reverse
  <2> HIDE DEF u, n, m, rb, ru
  <2>2. \A i \in 1..n : b[(n - i) + 1] \in T
    BY <1>1, <1>2
  <2>3. \A i \in 1..m : u[(m - i) + 1] \in T
    BY <1>1, <1>3
  <2> QED
    BY <1>1, <2>1, <2>2, <2>3
<1> HIDE DEF u, n, m, rb, ru
<1>5. \A i \in 1..n : ru[i] = rb[i]
  <2> SUFFICES ASSUME NEW i \in 1..n PROVE ru[i] = rb[i]
    OBVIOUS
  <2>1. /\ i \in 1..m /\ (n - i) + 1 \in 1..n
        /\ (m - i) + 1 = Len(a) + ((n - i) + 1)
    BY <1>1, LenProperties
  <2> QED
    BY <1>1, <1>4, <2>1
<1>6. SubSeq(rb, 1, n) = SubSeq(ru, 1, n)
  <2>1. \A i \in 1..n : rb[i] \in T /\ ru[i] \in T
    BY <1>1, <1>4, ElementOfSeq
  <2>2. /\ SubSeq(rb, 1, n) \in Seq(T) /\ SubSeq(ru, 1, n) \in Seq(T)
        /\ Len(SubSeq(rb, 1, n)) = n /\ Len(SubSeq(ru, 1, n)) = n
        /\ \A i \in 1..n : SubSeq(rb, 1, n)[i] = rb[i] /\ SubSeq(ru, 1, n)[i] = ru[i]
    <3>1. \A x \in Seq(T) : (\A i \in 1..n : x[i] \in T) =>
            /\ SubSeq(x, 1, n) \in Seq(T)
            /\ Len(SubSeq(x, 1, n)) = n
            /\ \A i \in 1..n : SubSeq(x, 1, n)[i] = x[i]
      <4> SUFFICES ASSUME NEW x \in Seq(T), \A i \in 1..n : x[i] \in T
                   PROVE  /\ SubSeq(x, 1, n) \in Seq(T)
                          /\ Len(SubSeq(x, 1, n)) = n
                          /\ \A i \in 1..n : SubSeq(x, 1, n)[i] = x[i]
        OBVIOUS
      <4>1. /\ SubSeq(x, 1, n) \in Seq(T)
            /\ Len(SubSeq(x, 1, n)) = IF 1 <= n THEN n - 1 + 1 ELSE 0
            /\ \A i \in 1..(n - 1 + 1) : SubSeq(x, 1, n)[i] = x[1 + i - 1]
        BY <1>1, SubSeqProperties
      <4>2. n - 1 + 1 = n /\ \A i \in 1..n : 1 + i - 1 = i
        BY <1>1
      <4>3. Len(SubSeq(x, 1, n)) = n
        BY <1>1, <4>1
      <4> QED
        BY <4>1, <4>2, <4>3
    <3> QED
      BY <1>4, <2>1, <3>1
  <2> QED
    BY <1>5, <2>2, SeqEqual
<1> QED
  BY <1>1, <1>4, <1>6 DEF IsSuffix, IsPrefix, u, rb, ru

LEMMA InsertAtIs ==
    ASSUME NEW T, NEW s \in Seq(T), NEW i \in 1..(Len(s) + 1), NEW c
    PROVE  /\ InsertAt(s, i, c) = (Take(s, i - 1) \o <<c>>) \o Drop(s, i - 1)
           /\ Len(Take(s, i - 1)) = i - 1
<1>1. i - 1 \in Nat /\ i - 1 <= Len(s) /\ (i - 1) + 1 = i /\ Len(s) \in Nat
  BY LenProperties
<1>2. Smaller(i - 1, Len(s)) = i - 1
  BY <1>1 DEF Smaller
<1>3. Take(s, i - 1) = SubSeq(s, 1, i - 1) /\ Drop(s, i - 1) = SubSeq(s, i, Len(s))
  BY <1>1, <1>2 DEF Take, Drop
<1>4. Len(Take(s, i - 1)) = i - 1
  BY <1>1, TakeDrop
<1> QED
  BY <1>3, <1>4 DEF InsertAt

-----------------------------------------------------------------------------
(* Counting cells of a sequence.                                            *)

CountIn(cells, s) == Cardinality(cells \cap ToSet(s))

LEMMA CountType ==
    ASSUME NEW T, NEW s \in Seq(T), NEW cells
    PROVE  /\ IsFiniteSet(cells \cap ToSet(s))
           /\ CountIn(cells, s) \in Nat
           /\ CountIn(cells, s) <= Len(s)
<1>1. IsFiniteSet(ToSet(s)) /\ Cardinality(ToSet(s)) \in Nat /\ Cardinality(ToSet(s)) <= Len(s)
  BY ElementsFinite
<1>2. /\ IsFiniteSet(cells \cap ToSet(s))
      /\ Cardinality(cells \cap ToSet(s)) <= Cardinality(ToSet(s))
  BY <1>1, FS_Intersection
<1>3. Cardinality(cells \cap ToSet(s)) \in Nat /\ Len(s) \in Nat
  BY <1>2, FS_CardinalityType, LenProperties
<1> QED
  BY <1>1, <1>2, <1>3 DEF CountIn

LEMMA CountInSubset ==
    ASSUME NEW T, NEW s \in Seq(T), NEW cells, NEW part,
           part \subseteq cells \cap ToSet(s)
    PROVE  /\ IsFiniteSet(part) /\ Cardinality(part) \in Nat
           /\ Cardinality(part) <= CountIn(cells, s)
<1>1. IsFiniteSet(cells \cap ToSet(s))
  BY CountType
<1>2. IsFiniteSet(part) /\ Cardinality(part) <= Cardinality(cells \cap ToSet(s))
  BY <1>1, FS_Subset
<1> QED
  BY <1>2, FS_CardinalityType DEF CountIn

LEMMA CountOfConcat ==
    ASSUME NEW T, NEW a \in Seq(T), NEW b \in Seq(T), NEW cells
    PROVE  /\ CountIn(cells, a) <= CountIn(cells, a \o b)
           /\ CountIn(cells, b) <= CountIn(cells, a \o b)
           /\ CountIn(cells, a \o b) <= CountIn(cells, a) + Len(b)
           /\ CountIn(cells, a \o b) <= CountIn(cells, b) + Len(a)
<1>1. ToSet(a \o b) = ToSet(a) \cup ToSet(b) /\ a \o b \in Seq(T)
  BY ElementsOfConcat, ConcatProperties
<1>2. CountIn(cells, a) <= CountIn(cells, a \o b)
  <2>1. cells \cap ToSet(a) \subseteq cells \cap ToSet(a \o b)
    BY <1>1
  <2> QED
    BY <1>1, <2>1, CountInSubset DEF CountIn
<1>3. CountIn(cells, b) <= CountIn(cells, a \o b)
  <2>1. cells \cap ToSet(b) \subseteq cells \cap ToSet(a \o b)
    BY <1>1
  <2> QED
    BY <1>1, <2>1, CountInSubset DEF CountIn
<1> DEFINE x == cells \cap ToSet(a)
           y == cells \cap ToSet(b)
<1>4. /\ IsFiniteSet(x) /\ IsFiniteSet(y)
      /\ Cardinality(x) \in Nat /\ Cardinality(y) \in Nat
      /\ Cardinality(x) <= Len(a) /\ Cardinality(y) <= Len(b)
  BY CountType DEF CountIn
<1>5. cells \cap ToSet(a \o b) = x \cup y
  BY <1>1
<1> HIDE DEF x, y
<1>6. /\ Cardinality(x \cup y) = Cardinality(x) + Cardinality(y) - Cardinality(x \cap y)
      /\ Cardinality(x \cap y) \in Nat
  BY <1>4, FS_Union, FS_Intersection, FS_CardinalityType
<1>7. Len(a) \in Nat /\ Len(b) \in Nat
  BY LenProperties
<1>8. /\ Cardinality(x \cup y) <= Cardinality(x) + Len(b)
      /\ Cardinality(x \cup y) <= Cardinality(y) + Len(a)
  BY <1>4, <1>6, <1>7
<1> QED
  BY <1>2, <1>3, <1>5, <1>8 DEF CountIn, x, y

LEMMA CountOfTake ==
    ASSUME NEW T, NEW s \in Seq(T), NEW cells, NEW n \in Nat, NEW k \in Nat
    PROVE  /\ CountIn(cells, Take(s, n)) <= CountIn(cells, Take(s, n + k))
           /\ CountIn(cells, Take(s, n + k)) <= CountIn(cells, Take(s, n)) + k
           /\ CountIn(cells, Drop(s, n + k)) <= CountIn(cells, Drop(s, n))
           /\ CountIn(cells, Drop(s, n)) <= CountIn(cells, Drop(s, n + k)) + k
<1>1. PICK a, d : a = Take(s, n) /\ d = Drop(s, n)
  OBVIOUS
<1>2. a \in Seq(T) /\ d \in Seq(T)
  BY <1>1, TakeDrop
<1>3. PICK t, e : t = Take(d, k) /\ e = Drop(d, k)
  OBVIOUS
<1>4. t \in Seq(T) /\ e \in Seq(T)
  BY <1>2, <1>3, TakeDrop
<1>5. t \o e = d
  BY <1>2, <1>3, TakeDrop
<1>6. Len(t) <= k
  <2>1. /\ k <= Len(d) => Len(t) = k
        /\ Len(d) <= k => Len(t) = Len(d)
    BY <1>2, <1>3, TakeDrop
  <2>2. Len(d) \in Nat
    BY <1>2, LenProperties
  <2> QED
    BY <2>1, <2>2
<1>7. Take(s, n + k) = a \o t /\ Drop(s, n + k) = e
  BY <1>1, <1>3, TakeMore
<1>8. /\ CountIn(cells, a) <= CountIn(cells, a \o t)
      /\ CountIn(cells, a \o t) <= CountIn(cells, a) + Len(t)
  BY <1>2, <1>4, CountOfConcat
<1>9. /\ CountIn(cells, e) <= CountIn(cells, t \o e)
      /\ CountIn(cells, t \o e) <= CountIn(cells, e) + Len(t)
  BY <1>4, CountOfConcat
<1>10. /\ CountIn(cells, a) \in Nat /\ CountIn(cells, e) \in Nat
       /\ CountIn(cells, t \o e) \in Nat
  BY <1>2, <1>4, <1>5, CountType
<1>10a. CountIn(cells, a \o t) \in Nat /\ Len(t) \in Nat
  BY <1>2, <1>4, ConcatProperties, CountType, LenProperties
<1>11. /\ CountIn(cells, a \o t) <= CountIn(cells, a) + k
       /\ CountIn(cells, t \o e) <= CountIn(cells, e) + k
  BY <1>6, <1>8, <1>9, <1>10, <1>10a
<1> QED
  BY <1>1, <1>5, <1>7, <1>8, <1>9, <1>11, Zenon

-----------------------------------------------------------------------------
(* What a walk that stands at a place of the listing has missed and repeated. *)

Excess(x, y) == IF x > y THEN x - y ELSE 0

\* The cells of a set before place b of the listing r that the walk w lacks.
Missing(r, cells, b, w) == CountIn(cells \ ToSet(w), Take(r, b))

\* What the walk holds twice, and what it will hold twice when it goes on from b.
Repeats(r, b, w) == Len(w) - Cardinality(ToSet(w)) + CountIn(ToSet(w), Drop(r, b))

LEMMA WalkType ==
    ASSUME NEW T, NEW r \in Seq(T), NEW cells, NEW b \in Nat, NEW w \in Seq(T)
    PROVE  Missing(r, cells, b, w) \in Nat /\ Repeats(r, b, w) \in Nat
<1>1. Take(r, b) \in Seq(T) /\ Drop(r, b) \in Seq(T)
  BY TakeDrop
<1>2. CountIn(cells \ ToSet(w), Take(r, b)) \in Nat /\ CountIn(ToSet(w), Drop(r, b)) \in Nat
  BY <1>1, CountType
<1>3. Len(w) \in Nat /\ Cardinality(ToSet(w)) \in Nat /\ Cardinality(ToSet(w)) <= Len(w)
  BY LenProperties, ElementsFinite
<1> QED
  BY <1>2, <1>3 DEF Missing, Repeats

\* Going on from another place of the same listing.
LEMMA Shifting ==
    ASSUME NEW T, NEW r \in Seq(T), NEW cells, NEW x \in Nat, NEW y \in Nat, NEW w \in Seq(T)
    PROVE  /\ Missing(r, cells, x, w) <= Missing(r, cells, y, w) + Excess(x, y)
           /\ Repeats(r, x, w) <= Repeats(r, y, w) + Excess(y, x)
<1>1. PICK c1, c2 : c1 = cells \ ToSet(w) /\ c2 = ToSet(w)
  OBVIOUS
<1>2. Take(r, x) \in Seq(T) /\ Drop(r, x) \in Seq(T) /\ Take(r, y) \in Seq(T) /\ Drop(r, y) \in Seq(T)
  BY TakeDrop
<1>3. /\ CountIn(c1, Take(r, x)) \in Nat /\ CountIn(c1, Take(r, y)) \in Nat
      /\ CountIn(c2, Drop(r, x)) \in Nat /\ CountIn(c2, Drop(r, y)) \in Nat
  BY <1>2, CountType
<1>4. CASE x <= y
  <2>1. PICK k \in Nat : y = x + k
    <3>1. y - x \in Nat /\ y = x + (y - x)
      BY <1>4
    <3> QED
      BY <3>1
  <2>2. /\ CountIn(c1, Take(r, x)) <= CountIn(c1, Take(r, y))
        /\ CountIn(c2, Drop(r, x)) <= CountIn(c2, Drop(r, y)) + k
    BY <2>1, CountOfTake
  <2>3. Excess(x, y) = 0 /\ Excess(y, x) = k
    BY <1>4, <2>1 DEF Excess
  <2>4. Len(w) - Cardinality(c2) \in Int
    BY <1>1, LenProperties, ElementsFinite
  <2> QED
    BY <1>1, <1>3, <2>2, <2>3, <2>4 DEF Missing, Repeats
<1>5. CASE y <= x
  <2>1. PICK k \in Nat : x = y + k
    <3>1. x - y \in Nat /\ x = y + (x - y)
      BY <1>5
    <3> QED
      BY <3>1
  <2>2. /\ CountIn(c1, Take(r, x)) <= CountIn(c1, Take(r, y)) + k
        /\ CountIn(c2, Drop(r, x)) <= CountIn(c2, Drop(r, y))
    BY <2>1, CountOfTake
  <2>3. Excess(x, y) = k /\ Excess(y, x) = 0
    BY <1>5, <2>1 DEF Excess
  <2>4. Len(w) - Cardinality(c2) \in Int
    BY <1>1, LenProperties, ElementsFinite
  <2> QED
    BY <1>1, <1>3, <2>2, <2>3, <2>4 DEF Missing, Repeats
<1> QED
  BY <1>4, <1>5

\* Collecting the next i cells changes neither count for the worse.
LEMMA Collecting ==
    ASSUME NEW T, NEW r \in Seq(T), IsInjective(r), NEW cells, NEW w \in Seq(T),
           NEW b \in Nat, NEW i \in Nat
    PROVE  /\ Missing(r, cells, b + i, w \o Take(Drop(r, b), i)) <= Missing(r, cells, b, w)
           /\ Repeats(r, b + i, w \o Take(Drop(r, b), i)) = Repeats(r, b, w)
<1>1. PICK a, d : a = Take(r, b) /\ d = Drop(r, b)
  OBVIOUS
<1>2. a \in Seq(T) /\ d \in Seq(T)
  BY <1>1, TakeDrop
<1>2a. a \o d = r
  BY <1>1, TakeDrop
<1>3. PICK t, e : t = Take(d, i) /\ e = Drop(d, i)
  OBVIOUS
<1>4. t \in Seq(T) /\ e \in Seq(T)
  BY <1>2, <1>3, TakeDrop
<1>5. t \o e = d
  BY <1>2, <1>3, TakeDrop
<1>6. Take(r, b + i) = a \o t /\ Drop(r, b + i) = e
  BY <1>1, <1>3, TakeMore
<1>7. IsInjective(d)
  BY <1>2, <1>2a, InjectiveConcat
<1>8. IsInjective(t) /\ ToSet(t) \cap ToSet(e) = {}
  BY <1>4, <1>5, <1>7, InjectiveConcat
<1>9. ToSet(w \o t) = ToSet(w) \cup ToSet(t) /\ ToSet(a \o t) = ToSet(a) \cup ToSet(t)
  BY <1>2, <1>4, ElementsOfConcat
<1>9a. ToSet(d) = ToSet(t) \cup ToSet(e)
  BY <1>4, <1>5, ElementsOfConcat
<1>10. CountIn(cells \ ToSet(w \o t), a \o t) <= CountIn(cells \ ToSet(w), a)
  <2>1. (cells \ ToSet(w \o t)) \cap ToSet(a \o t) \subseteq (cells \ ToSet(w)) \cap ToSet(a)
    BY <1>9
  <2>2. Cardinality((cells \ ToSet(w \o t)) \cap ToSet(a \o t)) <= CountIn(cells \ ToSet(w), a)
    BY <1>2, <2>1, CountInSubset
  <2> QED
    BY <2>2 DEF CountIn
<1>11. Len(w \o t) - Cardinality(ToSet(w \o t)) + CountIn(ToSet(w \o t), e)
         = Len(w) - Cardinality(ToSet(w)) + CountIn(ToSet(w), d)
  <2>1. PICK W, Q, E : W = ToSet(w) /\ Q = ToSet(t) /\ E = ToSet(e)
    OBVIOUS
  <2>2. IsFiniteSet(W) /\ IsFiniteSet(Q) /\ IsFiniteSet(E) /\ Cardinality(Q) = Len(t)
    BY <1>4, <1>8, <2>1, ElementsFinite
  <2>3. Cardinality(W \cup Q) = Cardinality(W) + Cardinality(Q) - Cardinality(W \cap Q)
    BY <2>2, FS_Union
  <2>4. Cardinality(W \cap (Q \cup E)) = Cardinality(W \cap Q) + Cardinality(W \cap E)
    <3>1. IsFiniteSet(W \cap Q) /\ IsFiniteSet(W \cap E)
      BY <2>2, FS_Intersection
    <3>2. W \cap (Q \cup E) = (W \cap Q) \cup (W \cap E) /\ (W \cap Q) \cap (W \cap E) = {}
      BY <1>8, <2>1
    <3>3. Cardinality((W \cap Q) \cup (W \cap E))
            = Cardinality(W \cap Q) + Cardinality(W \cap E) - Cardinality({})
      BY <3>1, <3>2, FS_Union
    <3>4. Cardinality({}) = 0
      BY FS_EmptySet
    <3>5. Cardinality(W \cap Q) \in Nat /\ Cardinality(W \cap E) \in Nat
      BY <3>1, FS_CardinalityType
    <3>6. Cardinality((W \cap Q) \cup (W \cap E)) = Cardinality(W \cap Q) + Cardinality(W \cap E)
      BY <3>3, <3>4, <3>5
    <3> QED
      BY <3>2, <3>6, Zenon
  <2>5. (W \cup Q) \cap E = W \cap E
    BY <1>8, <2>1
  <2>6. Len(w \o t) = Len(w) + Len(t)
    BY <1>4, ConcatProperties
  <2>7. /\ Cardinality(W) \in Nat /\ Cardinality(W \cap Q) \in Nat /\ Cardinality(W \cap E) \in Nat
        /\ Len(w) \in Nat /\ Len(t) \in Nat
    BY <1>4, <2>2, FS_Intersection, FS_CardinalityType, LenProperties
  <2>8. /\ CountIn(ToSet(w \o t), e) = Cardinality(W \cap E)
        /\ CountIn(ToSet(w), d) = Cardinality(W \cap (Q \cup E))
        /\ ToSet(w \o t) = W \cup Q
    BY <1>9, <1>9a, <2>1, <2>5 DEF CountIn
  <2> QED
    BY <2>1, <2>2, <2>3, <2>4, <2>6, <2>7, <2>8
<1> QED
  BY <1>1, <1>3, <1>6, <1>10, <1>11 DEF Missing, Repeats

-----------------------------------------------------------------------------
(* The invariant of the walk: its types and the locals of a request.        *)

Listing == Only(rows, Matching)
Readable == Only(rows, Shown)

\* The readable cells among those the request has examined.
Passed == Only(Take(Listing, scan.examined), Shown)

Scan == [collected : Seq(CellId), skipped : Nat, examined : Nat, store_offset : Nat]

Shape ==
    /\ rows \in Seq(CellId) /\ IsInjective(rows) /\ view \in [CellId -> View]
    /\ kind \in {"list", "search"} /\ pc \in {"scanning", "answered", "done"}
    /\ more \in BOOLEAN /\ quiet \in BOOLEAN
    /\ offset \in Nat /\ returned \in Seq(CellId) /\ scan \in Scan

Locals ==
    /\ scan.store_offset = scan.examined /\ scan.examined < ScanCeiling + ScanBatch
    /\ scan.skipped <= offset /\ (scan.skipped < offset => scan.collected = <<>>)
    /\ kind = "search" => scan = NewScan
    /\ pc = "scanning" =>
          /\ scan.examined < ScanCeiling /\ Len(scan.collected) <= Limit
          /\ Len(returned) <= offset
          /\ scan.examined = 0 => scan = NewScan
          /\ \E j \in Nat : scan.examined = j * ScanBatch
    /\ Len(returned) <= offset + Limit

LEMMA ConstantTypes ==
    /\ Limit \in Nat /\ Limit > 0 /\ ScanBatch \in Nat /\ ScanBatch > 0
    /\ ScanCeiling \in Nat /\ ScanCeiling > 0
BY PagingAssumption

LEMMA NewScanType ==
    /\ NewScan \in Scan /\ NewScan.collected = <<>> /\ NewScan.skipped = 0
    /\ NewScan.examined = 0 /\ NewScan.store_offset = 0
<1>1. <<>> \in Seq(CellId) /\ 0 \in Nat
  BY EmptySeq
<1> QED
  BY <1>1 DEF NewScan, Scan

LEMMA ListingType ==
    ASSUME Shape
    PROVE  /\ Listing \in Seq(CellId) /\ Readable \in Seq(CellId)
           /\ IsInjective(Listing) /\ IsInjective(Readable)
           /\ Only(Listing, Shown) = Readable
<1>1. rows \in Seq(CellId) /\ IsInjective(rows)
  BY DEF Shape
<1>2. Listing \in Seq(CellId) /\ Readable \in Seq(CellId)
  BY <1>1, OnlySeq DEF Listing, Readable
<1>3. IsInjective(Listing) /\ IsInjective(Readable)
  BY <1>1, OnlyInjective DEF Listing, Readable
<1>4. Shown \subseteq Matching
  BY DEF Shown, Matching
<1>5. Only(Only(rows, Matching), Shown) = Only(rows, Shown)
  BY <1>1, <1>4, OnlyTwice
<1> QED
  BY <1>2, <1>3, <1>5 DEF Listing, Readable

LEMMA PassedType ==
    ASSUME Shape
    PROVE  /\ Passed \in Seq(CellId)
           /\ Readable = Passed \o Only(Drop(Listing, scan.examined), Shown)
           /\ Only(Drop(Listing, scan.examined), Shown) \in Seq(CellId)
<1>1. scan.examined \in Nat
  BY DEF Shape, Scan
<1>2. PICK l : l = Listing
  OBVIOUS
<1>3. l \in Seq(CellId) /\ Only(l, Shown) = Readable
  BY <1>2, ListingType
<1>4. PICK a, d : a = Take(l, scan.examined) /\ d = Drop(l, scan.examined)
  OBVIOUS
<1>5. a \in Seq(CellId) /\ d \in Seq(CellId)
  BY <1>1, <1>3, <1>4, TakeDrop
<1>6. a \o d = l
  BY <1>1, <1>3, <1>4, TakeDrop
<1>7. Only(a \o d, Shown) = Only(a, Shown) \o Only(d, Shown)
  BY <1>5, OnlyConcat
<1>8. Only(a, Shown) \in Seq(CellId) /\ Only(d, Shown) \in Seq(CellId)
  BY <1>5, OnlySeq
<1> QED
  BY <1>2, <1>3, <1>4, <1>6, <1>7, <1>8 DEF Passed

-----------------------------------------------------------------------------
(* One batch of a listing.                                                  *)

\* batch is the next one, r its readable cells, s what is made of it, o what is
\* left of the offset before it.
OneBatch(batch, r, s, o) ==
    /\ o \in Nat
    /\ batch \in Seq(CellId) /\ r \in Seq(CellId) /\ s \in Scan
    /\ batch = Take(Drop(Listing, scan.examined), ScanBatch)
    /\ Len(batch) <= ScanBatch
    /\ s.collected = scan.collected \o Drop(r, o)
    /\ s.skipped = scan.skipped + Smaller(o, Len(r))
    /\ s.examined = scan.examined + Len(batch) /\ s.store_offset = s.examined
    /\ Take(Listing, s.examined) = Take(Listing, scan.examined) \o batch
    /\ Only(Take(Listing, s.examined), Shown) = Passed \o r

LEMMA BatchExamined ==
    ASSUME Shape, Locals, NEW batch, batch = Query(ScanBatch, scan.store_offset),
           NEW r, r = Only(batch, Shown), NEW s, s = Examined(scan, batch),
           NEW o, o = offset - scan.skipped
    PROVE  OneBatch(batch, r, s, o)
<1>1. /\ scan.examined \in Nat /\ scan.skipped \in Nat /\ offset \in Nat
      /\ scan.collected \in Seq(CellId) /\ scan.store_offset = scan.examined
      /\ scan.skipped <= offset
  BY DEF Shape, Locals, Scan
<1>2. o \in Nat
  BY <1>1
<1>3. ScanBatch \in Nat
  BY ConstantTypes
<1>4. PICK l, e : l = Listing /\ e = scan.examined
  OBVIOUS
<1>5. l \in Seq(CellId) /\ e \in Nat
  BY <1>1, <1>4, ListingType
<1>6. PICK a, d : a = Take(l, e) /\ d = Drop(l, e)
  OBVIOUS
<1>7. a \in Seq(CellId) /\ d \in Seq(CellId)
  BY <1>5, <1>6, TakeDrop
<1>8. batch = Take(d, ScanBatch)
  <2>1. batch = Window(l, e, ScanBatch)
    BY <1>1, <1>4 DEF Query, Listing
  <2> QED
    BY <1>3, <1>5, <1>6, <2>1, WindowIsTakeDrop
<1>9. batch \in Seq(CellId)
  BY <1>3, <1>7, <1>8, TakeDrop
<1>10. Len(batch) <= ScanBatch /\ Len(batch) \in Nat
  <2>1. /\ ScanBatch <= Len(d) => Len(batch) = ScanBatch
        /\ Len(d) <= ScanBatch => Len(batch) = Len(d)
    BY <1>3, <1>7, <1>8, TakeDrop
  <2>2. Len(d) \in Nat
    BY <1>7, LenProperties
  <2> QED
    BY <1>3, <2>1, <2>2
<1>11. r \in Seq(CellId)
  BY <1>9, OnlySeq
<1>12. Take(l, e + Len(batch)) = a \o batch
  <2>1. Take(l, e + Len(batch)) = Take(l, e) \o Take(Drop(l, e), Len(batch))
    BY <1>5, <1>10, TakeMore
  <2>2. Take(d, Len(batch)) = batch
    BY <1>3, <1>7, <1>8, TakeTake
  <2> QED
    BY <1>6, <2>1, <2>2
<1>13. Only(a \o batch, Shown) = Only(a, Shown) \o r
  <2>1. PICK S : S = Shown
    OBVIOUS
  <2>2. \A x, y \in Seq(CellId) : Only(x \o y, S) = Only(x, S) \o Only(y, S)
    BY OnlyConcat
  <2>3. Only(a \o batch, S) = Only(a, S) \o Only(batch, S)
    BY <1>7, <1>9, <2>2, Zenon
  <2> QED
    BY <2>1, <2>3, Zenon
<1>14. PICK k : k = Smaller(o, Len(r))
  OBVIOUS
<1>15. k \in Nat /\ Smaller(k, Len(r)) = k /\ k <= Len(r)
  BY <1>2, <1>11, <1>14, LenProperties DEF Smaller
<1>16. Window(r, k, Len(r)) = Drop(r, o)
  <2>1. Window(r, k, Len(r)) = Drop(r, k)
    BY <1>11, <1>15, FullWindow
  <2>2. Drop(r, k) = Drop(r, o)
    BY <1>14, <1>15 DEF Drop
  <2> QED
    BY <2>1, <2>2
<1>17. s = [collected    |-> scan.collected \o Drop(r, o),
            skipped      |-> scan.skipped + k,
            examined     |-> scan.examined + Len(batch),
            store_offset |-> scan.store_offset + Len(batch)]
  <2>1. s = [collected    |-> scan.collected \o Window(r, k, Len(r)),
             skipped      |-> scan.skipped + k,
             examined     |-> scan.examined + Len(batch),
             store_offset |-> scan.store_offset + Len(batch)]
    BY <1>14 DEF Examined, Smaller
  <2> QED
    BY <1>16, <2>1
<1>18. scan.collected \o Drop(r, o) \in Seq(CellId)
  BY <1>1, <1>2, <1>11, TakeDrop, ConcatProperties
<1>19. s \in Scan
  <2>1. scan.skipped + k \in Nat /\ scan.examined + Len(batch) \in Nat
        /\ scan.store_offset + Len(batch) \in Nat
    BY <1>1, <1>10, <1>15
  <2> QED
    BY <1>17, <1>18, <2>1 DEF Scan
<1>20. /\ s.collected = scan.collected \o Drop(r, o)
       /\ s.skipped = scan.skipped + k
       /\ s.examined = scan.examined + Len(batch) /\ s.store_offset = s.examined
  <2>1. PICK x1, x2, x3 : /\ x1 = scan.collected \o Drop(r, o) /\ x2 = scan.skipped + k
                          /\ x3 = scan.examined + Len(batch)
    OBVIOUS
  <2>2. s = [collected |-> x1, skipped |-> x2, examined |-> x3, store_offset |-> x3]
    BY <1>1, <1>17, <2>1, Zenon
  <2>3. s.collected = x1 /\ s.skipped = x2 /\ s.examined = x3 /\ s.store_offset = x3
    BY <2>2
  <2> QED
    BY <2>1, <2>3
<1> QED
  BY <1>2, <1>4, <1>6, <1>8, <1>9, <1>10, <1>11, <1>12, <1>13, <1>14, <1>19, <1>20 DEF Passed, OneBatch

-----------------------------------------------------------------------------
(* A cell in its place among the others.                                    *)

Around(a, c, b) == (a \o <<c>>) \o b

Placed(r, others, c) ==
    \E a, b \in Seq(CellId \ {c}) : others = a \o b /\ r = Around(a, c, b)

PlacedAt(r, others, c, p) ==
    \E a, b \in Seq(CellId \ {c}) : others = a \o b /\ r = Around(a, c, b) /\ p = Len(a) + 1

LEMMA OnlySingle ==
    ASSUME NEW c, NEW S
    PROVE  /\ c \in S => Only(<<c>>, S) = <<c>>
           /\ c \notin S => Only(<<c>>, S) = <<>>
<1>1. <<>> \in Seq({c}) /\ c \in {c} /\ Append(<<>>, c) = <<c>>
  OBVIOUS
<1>2. Only(Append(<<>>, c), S) = IF c \in S THEN Append(Only(<<>>, S), c) ELSE Only(<<>>, S)
  BY <1>1, OnlyAppend
<1> QED
  BY <1>1, <1>2, OnlyEmpty

LEMMA InjectiveLonger ==
    ASSUME NEW T, NEW s \in Seq(T), NEW e \in T
    PROVE  IsInjective(s \o <<e>>) <=> IsInjective(s) /\ e \notin ToSet(s)
<1>1. Append(s, e) = s \o <<e>>
  BY AppendIsConcat
<1> QED
  BY <1>1, InjectiveAppend

LEMMA SubSeqOne ==
    ASSUME NEW T, NEW s \in Seq(T), NEW p \in 1..Len(s)
    PROVE  SubSeq(s, p, p) = <<s[p]>>
<1>1. p \in Int /\ p \in Nat
  BY LenProperties
<1>2. \A i \in p..p : s[i] \in T
  BY ElementOfSeq
<1>3. /\ SubSeq(s, p, p) \in Seq(T)
      /\ Len(SubSeq(s, p, p)) = IF p <= p THEN p - p + 1 ELSE 0
      /\ \A i \in 1..(p - p + 1) : SubSeq(s, p, p)[i] = s[p + i - 1]
  BY <1>1, <1>2, SubSeqProperties
<1>4. Len(SubSeq(s, p, p)) = 1 /\ 1 \in 1..(p - p + 1) /\ p + 1 - 1 = p
  BY <1>1, <1>3
<1>5. SubSeq(s, p, p)[1] = s[p]
  BY <1>3, <1>4
<1>6. PICK x, y : x = SubSeq(s, p, p) /\ y = s[p]
  OBVIOUS
<1>7. x \in Seq(T) /\ Len(x) = 1 /\ x[1] = y /\ y \in T
  BY <1>3, <1>4, <1>5, <1>6, ElementOfSeq
<1>8. x = <<y>>
  BY <1>7
<1> QED
  BY <1>6, <1>8

LEMMA OnlyOfOthers ==
    ASSUME NEW T, NEW a \in Seq(T), NEW b \in Seq(T), NEW c \in T, NEW S, c \notin S
    PROVE  Only(Around(a, c, b), S) = Only(a, S) \o Only(b, S)
<1>1. \A x, y \in Seq(T) : Only(x \o y, S) = Only(x, S) \o Only(y, S)
  BY OnlyConcat
<1>2. <<c>> \in Seq(T) /\ a \o <<c>> \in Seq(T)
  BY ConcatProperties
<1>3. Only((a \o <<c>>) \o b, S) = (Only(a, S) \o Only(<<c>>, S)) \o Only(b, S)
  BY <1>1, <1>2, Zenon
<1>4. Only(a, S) \o <<>> = Only(a, S)
  BY OnlySeq, ConcatEmptySeq
<1> QED
  BY <1>3, <1>4, OnlySingle, Zenon DEF Around

LEMMA OnlyWithIt ==
    ASSUME NEW T, NEW a \in Seq(T), NEW b \in Seq(T), NEW c \in T, NEW S, c \in S
    PROVE  Only(Around(a, c, b), S) = Around(Only(a, S), c, Only(b, S))
<1>1. \A x, y \in Seq(T) : Only(x \o y, S) = Only(x, S) \o Only(y, S)
  BY OnlyConcat
<1>2. <<c>> \in Seq(T) /\ a \o <<c>> \in Seq(T)
  BY ConcatProperties
<1>3. Only((a \o <<c>>) \o b, S) = (Only(a, S) \o Only(<<c>>, S)) \o Only(b, S)
  BY <1>1, <1>2, Zenon
<1> QED
  BY <1>3, OnlySingle, Zenon DEF Around

LEMMA PlacedType ==
    ASSUME NEW c \in CellId, NEW others \in Seq(CellId \ {c}), NEW r, Placed(r, others, c)
    PROVE  /\ r \in Seq(CellId)
           /\ Len(r) = Len(others) + 1
           /\ ToSet(r) = ToSet(others) \cup {c}
           /\ IsInjective(others) => IsInjective(r)
<1>1. PICK a \in Seq(CellId \ {c}), b \in Seq(CellId \ {c}) :
         others = a \o b /\ r = Around(a, c, b)
  BY DEF Placed
<1>2. a \in Seq(CellId) /\ b \in Seq(CellId) /\ <<c>> \in Seq(CellId)
  BY SeqMonotonic
<1>3. c \notin ToSet(a) /\ c \notin ToSet(b)
  BY ElementsOf
<1>4. PICK x : x = a \o <<c>>
  OBVIOUS
<1>5. /\ x \in Seq(CellId) /\ Len(x) = Len(a) + 1
      /\ ToSet(x) = ToSet(a) \cup {c}
  <2>1. x \in Seq(CellId) /\ Len(x) = Len(a) + 1
    BY <1>2, <1>4, ConcatProperties
  <2>2. ToSet(<<c>>) = {c}
    BY DEF ToSet
  <2>3. ToSet(a \o <<c>>) = ToSet(a) \cup ToSet(<<c>>)
    BY <1>2, ElementsOfConcat
  <2> QED
    BY <1>4, <2>1, <2>2, <2>3
<1>6. IsInjective(x) <=> IsInjective(a) /\ c \notin ToSet(a)
  <2>1. \A y \in Seq(CellId) : IsInjective(y \o <<c>>) <=> IsInjective(y) /\ c \notin ToSet(y)
    BY InjectiveLonger
  <2> QED
    BY <1>2, <1>4, <2>1, Zenon
<1>7. /\ r \in Seq(CellId) /\ Len(r) = Len(x) + Len(b)
      /\ ToSet(r) = ToSet(x) \cup ToSet(b)
  <2>1. r = x \o b
    BY <1>1, <1>4, Zenon DEF Around
  <2>2. r \in Seq(CellId) /\ Len(r) = Len(x) + Len(b)
    BY <1>2, <1>5, <2>1, ConcatProperties
  <2>3. \A y, z \in Seq(CellId) : ToSet(y \o z) = ToSet(y) \cup ToSet(z)
    BY ElementsOfConcat
  <2>4. ToSet(r) = ToSet(x) \cup ToSet(b)
    BY <1>2, <1>5, <2>1, <2>3, Zenon
  <2> QED
    BY <2>2, <2>4
<1>8. Len(others) = Len(a) + Len(b) /\ ToSet(others) = ToSet(a) \cup ToSet(b)
  BY <1>1, <1>2, ConcatProperties, ElementsOfConcat
<1>9. Len(r) = Len(others) + 1
  BY <1>2, <1>5, <1>7, <1>8, LenProperties
<1>10. ToSet(r) = ToSet(others) \cup {c}
  BY <1>5, <1>7, <1>8
<1>11. ASSUME IsInjective(others) PROVE IsInjective(r)
  <2>1. IsInjective(a) /\ IsInjective(b) /\ ToSet(a) \cap ToSet(b) = {}
    BY <1>1, <1>2, <1>11, InjectiveConcat
  <2>2. IsInjective(x) /\ ToSet(x) \cap ToSet(b) = {}
    BY <1>3, <1>5, <1>6, <2>1
  <2> QED
    BY <1>1, <1>2, <1>4, <1>5, <2>1, <2>2, InjectiveConcat DEF Around
<1> QED
  BY <1>7, <1>9, <1>10, <1>11

\* The order without c.
LEMMA OthersOfRows ==
    ASSUME NEW r \in Seq(CellId), IsInjective(r), NEW c \in CellId
    PROVE  /\ Only(r, CellId \ {c}) \in Seq(CellId \ {c})
           /\ IsInjective(Only(r, CellId \ {c}))
           /\ c \notin ToSet(r) => Only(r, CellId \ {c}) = r
<1>1. PICK O : O = CellId \ {c}
  OBVIOUS
<1>2. Only(r, O) \in Seq(O)
  <2>1. CellId \cap O = O
    BY <1>1
  <2> QED
    BY <2>1, OnlyType
<1>3. IsInjective(Only(r, O))
  BY OnlyInjective
<1>4. ASSUME c \notin ToSet(r) PROVE Only(r, O) = r
  <2>1. r \in Seq(ToSet(r)) /\ ToSet(r) \subseteq CellId
    BY ElementsOf
  <2>2. ToSet(r) \subseteq O
    BY <1>1, <1>4, <2>1
  <2> QED
    BY <2>1, <2>2, OnlyAll
<1> QED
  BY <1>1, <1>2, <1>3, <1>4

\* The place of c, and the order without it.
LEMMA PlaceOfCell ==
    ASSUME NEW r \in Seq(CellId), IsInjective(r), NEW c \in CellId,
           NEW p \in DOMAIN r, r[p] = c
    PROVE  PlacedAt(r, Only(r, CellId \ {c}), c, p)
<1>1. PICK O : O = CellId \ {c}
  OBVIOUS
<1>2. p \in 1..Len(r) /\ Len(r) \in Nat
  BY LenProperties
<1>3. PICK q \in Nat : p = q + 1
  <2>1. p - 1 \in Nat /\ p = (p - 1) + 1
    BY <1>2
  <2> QED
    BY <2>1
<1>4. PICK a, b : a = Take(r, q) /\ b = Drop(r, p)
  OBVIOUS
<1>5. p \in Nat /\ q <= Len(r) /\ p <= Len(r)
  BY <1>2, <1>3
<1>6. a \in Seq(CellId) /\ b \in Seq(CellId)
  BY <1>4, <1>5, TakeDrop
<1>7. Len(a) = q
  BY <1>4, <1>5, TakeDrop
<1>8. Take(r, p) = a \o Take(Drop(r, q), 1)
  BY <1>3, <1>4, TakeMore
<1>9. Take(Drop(r, q), 1) = <<c>>
  <2>1. Window(r, q, 1) = Take(Drop(r, q), 1)
    BY WindowIsTakeDrop
  <2>2. Window(r, q, 1) = SubSeq(r, p, p)
    BY <1>2, <1>3 DEF Window
  <2>3. SubSeq(r, p, p) = <<r[p]>>
    BY <1>2, SubSeqOne
  <2> QED
    BY <2>1, <2>2, <2>3
<1>10. Take(r, p) \o b = r
  BY <1>4, <1>5, TakeDrop
<1>11. r = Around(a, c, b)
  BY <1>8, <1>9, <1>10, Zenon DEF Around
<1>12. c \notin ToSet(a) /\ c \notin ToSet(b)
  <2>1. PICK x : x = a \o <<c>>
    OBVIOUS
  <2>2. x \in Seq(CellId)
    BY <1>6, <2>1, ConcatProperties
  <2>3. ToSet(x) = ToSet(a) \cup ToSet(<<c>>) /\ c \in ToSet(<<c>>)
    <3>1. c \in ToSet(<<c>>)
      BY DEF ToSet
    <3>2. <<c>> \in Seq(CellId)
      OBVIOUS
    <3> QED
      <4>1. \A y, z \in Seq(CellId) : ToSet(y \o z) = ToSet(y) \cup ToSet(z)
        BY ElementsOfConcat
      <4> QED
        BY <1>6, <2>1, <3>1, <3>2, <4>1, Zenon
  <2>4. IsInjective(x) /\ ToSet(x) \cap ToSet(b) = {}
    <3>1. \A y, z \in Seq(CellId) :
             IsInjective(y \o z) => IsInjective(y) /\ ToSet(y) \cap ToSet(z) = {}
      BY InjectiveConcat
    <3>2. r = x \o b
      BY <1>11, <2>1 DEF Around
    <3> QED
      BY <1>6, <2>2, <3>1, <3>2, Zenon
  <2>6. \A y \in Seq(CellId) : IsInjective(y \o <<c>>) => c \notin ToSet(y)
    BY InjectiveLonger
  <2>5. c \notin ToSet(a)
    BY <1>6, <2>1, <2>4, <2>6, Zenon
  <2> QED
    BY <2>3, <2>4, <2>5
<1>13. a \in Seq(O) /\ b \in Seq(O)
  <2>1. /\ a \in Seq(ToSet(a)) /\ b \in Seq(ToSet(b))
        /\ ToSet(a) \subseteq CellId /\ ToSet(b) \subseteq CellId
    BY <1>6, ElementsOf
  <2>2. ToSet(a) \subseteq O /\ ToSet(b) \subseteq O
    BY <1>1, <1>12, <2>1
  <2> QED
    BY <2>1, <2>2, SeqMonotonic
<1>14. Only(r, O) = a \o b
  <2>1. Only(a, O) = a /\ Only(b, O) = b
    BY <1>13, OnlyAll
  <2>2. c \notin O
    BY <1>1
  <2>3. \A x, y \in Seq(CellId) : Only(Around(x, c, y), O) = Only(x, O) \o Only(y, O)
    BY <2>2, OnlyOfOthers
  <2>4. Only(Around(a, c, b), O) = Only(a, O) \o Only(b, O)
    BY <1>6, <2>3, Zenon
  <2> QED
    BY <1>11, <2>1, <2>4, Zenon
<1> QED
  BY <1>1, <1>3, <1>7, <1>11, <1>13, <1>14 DEF PlacedAt

LEMMA InsertedIsPlaced ==
    ASSUME NEW c \in CellId, NEW others \in Seq(CellId \ {c}), NEW i \in 1..(Len(others) + 1)
    PROVE  Placed(InsertAt(others, i, c), others, c)
<1>1. i - 1 \in Nat
  BY LenProperties
<1>2. PICK a, b : a = Take(others, i - 1) /\ b = Drop(others, i - 1)
  OBVIOUS
<1>3. a \in Seq(CellId \ {c}) /\ b \in Seq(CellId \ {c})
  BY <1>1, <1>2, TakeDrop
<1>4. a \o b = others
  BY <1>1, <1>2, TakeDrop
<1>5. InsertAt(others, i, c) = Around(a, c, b)
  BY <1>2, InsertAtIs, Zenon DEF Around
<1> QED
  BY <1>3, <1>4, <1>5, Zenon DEF Placed

LEMMA InsertedBetween ==
    ASSUME NEW c \in CellId, NEW a \in Seq(CellId \ {c}), NEW b \in Seq(CellId \ {c})
    PROVE  InsertAt(a \o b, Len(a) + 1, c) = Around(a, c, b)
<1>1. PICK u, i, n : u = a \o b /\ i = Len(a) + 1 /\ n = Len(a)
  OBVIOUS
<1>2. u \in Seq(CellId \ {c}) /\ Len(u) = Len(a) + Len(b)
  BY <1>1, ConcatProperties
<1>3. n \in Nat /\ Len(a) \in Nat /\ Len(b) \in Nat /\ i \in 1..(Len(u) + 1) /\ i - 1 = n
  BY <1>1, <1>2, LenProperties
<1>4. InsertAt(u, i, c) = (Take(u, i - 1) \o <<c>>) \o Drop(u, i - 1)
  BY <1>2, <1>3, InsertAtIs
<1>5. Take(u, n) = a /\ Drop(u, n) = b
  <2>1. PICK x, y : x = Take(u, n) /\ y = Drop(u, n)
    OBVIOUS
  <2>2. x \in Seq(CellId \ {c}) /\ y \in Seq(CellId \ {c})
    BY <1>2, <1>3, <2>1, TakeDrop
  <2>3. x \o y = u
    BY <1>2, <1>3, <2>1, TakeDrop
  <2>4. Len(x) = n
    BY <1>2, <1>3, <2>1, TakeDrop
  <2>5. x \o y = a \o b /\ Len(x) = Len(a)
    BY <1>1, <2>3, <2>4
  <2>6. x = a /\ y = b
    BY <2>2, <2>5, SplitUnique
  <2> QED
    BY <2>1, <2>6
<1> QED
  BY <1>1, <1>3, <1>4, <1>5, Zenon DEF Around

-----------------------------------------------------------------------------
(* The writes of others.                                                    *)

\* Every write of others is a Disturb of this kind: it keeps the place of the
\* cell or what the walk makes of it.
Write(c, v, i) ==
    /\ Disturb(c, v, i) /\ v \in View
    /\ i \in 0..(Len(Only(rows, CellId \ {c})) + 1)
    /\ c \in ToSet(rows) /\ i # 0 => i = PositionOf(c) \/ v = view[c]

LEMMA PositionType ==
    ASSUME NEW c \in ToSet(rows)
    PROVE  PositionOf(c) \in DOMAIN rows /\ rows[PositionOf(c)] = c
<1>1. \E p \in DOMAIN rows : rows[p] = c
  BY DEF ToSet
<1> QED
  BY <1>1 DEF PositionOf

LEMMA OthersLength ==
    ASSUME Shape, NEW c \in CellId
    PROVE  /\ c \in ToSet(rows) => DOMAIN rows = 1..(Len(Only(rows, CellId \ {c})) + 1)
           /\ c \notin ToSet(rows) => Only(rows, CellId \ {c}) = rows
<1>1. PICK r : r = rows
  OBVIOUS
<1>2. r \in Seq(CellId) /\ IsInjective(r)
  BY <1>1 DEF Shape
<1>3. PICK o : o = Only(r, CellId \ {c})
  OBVIOUS
<1>4. c \notin ToSet(r) => o = r
  BY <1>2, <1>3, OthersOfRows
<1>5. ASSUME c \in ToSet(r) PROVE DOMAIN r = 1..(Len(o) + 1)
  <2>1. PICK p \in DOMAIN r : r[p] = c
    BY <1>5 DEF ToSet
  <2>2. PlacedAt(r, o, c, p)
    BY <1>2, <1>3, <2>1, PlaceOfCell
  <2>3. Placed(r, o, c)
    BY <2>2 DEF Placed, PlacedAt
  <2>4. o \in Seq(CellId \ {c})
    BY <1>2, <1>3, OthersOfRows
  <2>5. Len(r) = Len(o) + 1
    BY <2>3, <2>4, PlacedType
  <2>6. DOMAIN r = 1..Len(r)
    BY <1>2, LenProperties
  <2> QED
    BY <2>5, <2>6
<1> QED
  BY <1>1, <1>3, <1>4, <1>5

LEMMA OthersWrite ==
    ASSUME Shape, NEW c \in CellId, Rewrite(c) \/ Reorder(c) \/ Insert(c) \/ Purge(c)
    PROVE  \E v \in View, i \in Nat : Write(c, v, i)
<1> DEFINE n == Len(Only(rows, CellId \ {c}))
<1>0. n \in Nat
  BY OthersOfRows, LenProperties DEF Shape
<1>1. /\ c \in ToSet(rows) => DOMAIN rows = 1..(n + 1)
      /\ c \notin ToSet(rows) => Len(rows) = n
  BY OthersLength
<1>2. view[c] \in View
  BY DEF Shape
<1>3. ASSUME Rewrite(c) PROVE \E v \in View, i \in Nat : Write(c, v, i)
  <2>1. PICK v \in View : Disturb(c, v, PositionOf(c))
    BY <1>3 DEF Rewrite
  <2>2. c \in ToSet(rows)
    BY <1>3 DEF Rewrite
  <2>3. PositionOf(c) \in 1..(n + 1)
    BY <1>1, <2>2, PositionType
  <2> HIDE DEF n
  <2>4. PositionOf(c) \in Nat /\ PositionOf(c) \in 0..(n + 1)
    BY <1>0, <2>3
  <2> QED
    BY <2>1, <2>4 DEF Write, n
<1>4. ASSUME Reorder(c) PROVE \E v \in View, i \in Nat : Write(c, v, i)
  <2>1. PICK i \in DOMAIN rows : Disturb(c, view[c], i)
    BY <1>4 DEF Reorder
  <2>2. c \in ToSet(rows)
    BY <1>4 DEF Reorder
  <2>3. i \in 1..(n + 1)
    BY <1>1, <2>2
  <2> HIDE DEF n
  <2>4. i \in Nat /\ i \in 0..(n + 1)
    BY <1>0, <2>3
  <2> QED
    BY <1>2, <2>1, <2>4 DEF Write, n
<1>5. ASSUME Insert(c) PROVE \E v \in View, i \in Nat : Write(c, v, i)
  <2>1. PICK v \in View, i \in 1..(Len(rows) + 1) : Disturb(c, v, i)
    BY <1>5 DEF Insert
  <2>2. c \notin ToSet(rows)
    BY <1>5 DEF Insert
  <2>3. i \in 1..(n + 1)
    BY <1>1, <2>2
  <2> HIDE DEF n
  <2>4. i \in Nat /\ i \in 0..(n + 1)
    BY <1>0, <2>3
  <2> QED
    BY <2>1, <2>2, <2>4 DEF Write, n
<1>6. ASSUME Purge(c) PROVE \E v \in View, i \in Nat : Write(c, v, i)
  <2>1. Disturb(c, view[c], 0)
    BY <1>6 DEF Purge
  <2> HIDE DEF n
  <2>2. 0 \in Nat /\ 0 \in 0..(n + 1)
    BY <1>0
  <2> QED
    BY <1>2, <2>1, <2>2 DEF Write, n
<1> QED
  BY <1>3, <1>4, <1>5, <1>6

\* Where a write leaves the rows.
LEMMA WriteEffect ==
    ASSUME Shape, NEW c \in CellId, NEW v, NEW i, Write(c, v, i),
           NEW others, others = Only(rows, CellId \ {c})
    PROVE  /\ others \in Seq(CellId \ {c}) /\ IsInjective(others)
           /\ c \notin ToSet(rows) => rows = others
           /\ c \in ToSet(rows) => Placed(rows, others, c)
           /\ i = 0 => rows' = others
           /\ i # 0 => Placed(rows', others, c)
           /\ c \in ToSet(rows) /\ i = PositionOf(c) => rows' = rows
<1>1. PICK r : r = rows
  OBVIOUS
<1>2. r \in Seq(CellId) /\ IsInjective(r)
  BY <1>1 DEF Shape
<1>3. others = Only(r, CellId \ {c})
  BY <1>1
<1>4. /\ others \in Seq(CellId \ {c}) /\ IsInjective(others)
      /\ c \notin ToSet(r) => r = others
  BY <1>2, <1>3, OthersOfRows
<1>5. rows' = IF i = 0 THEN others ELSE InsertAt(others, i, c)
  BY DEF Write, Disturb
<1>6. i \in 0..(Len(others) + 1)
  BY DEF Write
<1>7. i # 0 => Placed(rows', others, c)
  <2> SUFFICES ASSUME i # 0 PROVE Placed(rows', others, c)
    OBVIOUS
  <2>1. i \in 1..(Len(others) + 1)
    BY <1>4, <1>6, LenProperties
  <2>2. rows' = InsertAt(others, i, c)
    BY <1>5
  <2>3. Placed(InsertAt(others, i, c), others, c)
    BY <1>4, <2>1, InsertedIsPlaced
  <2> QED
    BY <2>2, <2>3
<1>8. ASSUME c \in ToSet(r)
      PROVE  PlacedAt(r, others, c, PositionOf(c))
  <2>1. PositionOf(c) \in DOMAIN r /\ r[PositionOf(c)] = c
    BY <1>1, <1>8, PositionType
  <2> QED
    BY <1>2, <1>3, <2>1, PlaceOfCell
<1>9. c \in ToSet(r) => Placed(r, others, c)
  BY <1>8 DEF Placed, PlacedAt
<1>10. ASSUME c \in ToSet(r), i = PositionOf(c) PROVE rows' = r
  <2>1. PICK a \in Seq(CellId \ {c}), b \in Seq(CellId \ {c}) :
                 others = a \o b /\ r = Around(a, c, b) /\ PositionOf(c) = Len(a) + 1
    BY <1>8, <1>10 DEF PlacedAt
  <2>2. i = Len(a) + 1 /\ i # 0
    BY <1>10, <2>1, LenProperties
  <2>3. rows' = InsertAt(others, i, c)
    BY <1>5, <2>2
  <2>4. InsertAt(a \o b, Len(a) + 1, c) = Around(a, c, b)
    BY InsertedBetween
  <2> QED
    BY <2>1, <2>2, <2>3, <2>4
<1> QED
  BY <1>1, <1>4, <1>5, <1>7, <1>9, <1>10

-----------------------------------------------------------------------------
(* Shape and Locals are kept.                                               *)

LEMMA FirstWindow ==
    ASSUME NEW T, NEW s \in Seq(T), NEW n \in Nat
    PROVE  Window(s, 0, n) = Take(s, n)
<1>1. Window(s, 0, n) = Take(Drop(s, 0), n)
  BY WindowIsTakeDrop
<1>2. Drop(s, 0) = s
  BY TakeNone
<1> QED
  BY <1>1, <1>2

LEMMA TakeLength ==
    ASSUME NEW T, NEW s \in Seq(T), NEW n \in Nat
    PROVE  Take(s, n) \in Seq(T) /\ Len(Take(s, n)) <= n /\ Len(Take(s, n)) <= Len(s)
<1>1. /\ n <= Len(s) => Len(Take(s, n)) = n
      /\ Len(s) <= n => Len(Take(s, n)) = Len(s)
  BY TakeDrop
<1>2. Len(s) \in Nat
  BY LenProperties
<1>3. Take(s, n) \in Seq(T)
  BY TakeDrop
<1> QED
  BY <1>1, <1>2, <1>3

\* The three ends of a batch.
Full(s) ==
    /\ Len(s.collected) > Limit
    /\ Answer(s, Take(s.collected, Limit), TRUE)

Ended(s, batch) ==
    /\ ~(Len(s.collected) > Limit)
    /\ Len(batch) < ScanBatch \/ s.examined >= ScanCeiling
    /\ Answer(s, s.collected, FALSE)

Continued(s, batch) ==
    /\ ~(Len(s.collected) > Limit)
    /\ ~(Len(batch) < ScanBatch \/ s.examined >= ScanCeiling)
    /\ scan' = s /\ UNCHANGED <<offset, returned, more, pc>>

LEMMA BatchEnds ==
    ASSUME NEW s \in Scan, NEW batch, EndOfBatch(s, batch)
    PROVE  Full(s) \/ Ended(s, batch) \/ Continued(s, batch)
<1>1. s.collected \in Seq(CellId) /\ Limit \in Nat
  BY ConstantTypes DEF Scan
<1>2. Window(s.collected, 0, Limit) = Take(s.collected, Limit)
  BY <1>1, FirstWindow
<1> QED
  BY <1>2 DEF EndOfBatch, Full, Ended, Continued

LEMMA ScanLocals ==
    ASSUME Shape, Locals, ScanStep
    PROVE  Shape' /\ Locals'
<1>1. PICK batch : batch = Query(ScanBatch, scan.store_offset)
  OBVIOUS
<1>2. PICK s : s = Examined(scan, batch)
  OBVIOUS
<1>3. /\ kind = "list" /\ pc = "scanning" /\ EndOfBatch(s, batch)
      /\ UNCHANGED <<rows, view, kind, steady, departures, arrivals, quiet>>
  BY <1>1, <1>2 DEF ScanStep, history
<1>4. PICK o, r : o = offset - scan.skipped /\ r = Only(batch, Shown)
  OBVIOUS
<1>5. /\ o \in Nat /\ batch \in Seq(CellId) /\ r \in Seq(CellId) /\ s \in Scan
      /\ Len(batch) <= ScanBatch
      /\ s.collected = scan.collected \o Drop(r, o)
      /\ s.skipped = scan.skipped + Smaller(o, Len(r))
      /\ s.examined = scan.examined + Len(batch) /\ s.store_offset = s.examined
  <2>1. OneBatch(batch, r, s, o)
    BY <1>1, <1>2, <1>4, BatchExamined
  <2> QED
    BY <2>1 DEF OneBatch
<1>6. /\ scan.examined \in Nat /\ scan.skipped \in Nat /\ offset \in Nat
      /\ scan.examined < ScanCeiling /\ scan.skipped <= offset
      /\ (scan.skipped < offset => scan.collected = <<>>)
      /\ Len(returned) <= offset
      /\ \E j \in Nat : scan.examined = j * ScanBatch
      /\ returned \in Seq(CellId)
  BY <1>3 DEF Shape, Locals, Scan
<1>7. Len(batch) \in Nat /\ Len(r) \in Nat /\ Len(returned) \in Nat
  BY <1>5, <1>6, LenProperties
<1>8. s.collected \in Seq(CellId) /\ s.skipped \in Nat /\ s.examined \in Nat
  BY <1>5 DEF Scan
<1>9. s.skipped <= offset /\ s.examined < ScanCeiling + ScanBatch
  <2>1. Smaller(o, Len(r)) <= o /\ Smaller(o, Len(r)) \in Nat
    BY <1>5, <1>7 DEF Smaller
  <2>2. s.skipped <= offset
    BY <1>4, <1>5, <1>6, <2>1
  <2>3. s.examined < ScanCeiling + ScanBatch
    BY <1>5, <1>6, <1>7, ConstantTypes
  <2> QED
    BY <2>2, <2>3
<1>10. s.skipped < offset => s.collected = <<>>
  <2> SUFFICES ASSUME s.skipped < offset PROVE s.collected = <<>>
    OBVIOUS
  <2>1. scan.skipped < offset /\ Len(r) <= o
    <3>1. Smaller(o, Len(r)) \in Nat /\ (Smaller(o, Len(r)) = o \/ Len(r) <= o)
      BY <1>5, <1>7 DEF Smaller
    <3> QED
      BY <1>4, <1>5, <1>6, <3>1
  <2>2. Drop(r, o) = <<>>
    BY <1>5, <2>1, TakeAll
  <2>3. scan.collected = <<>>
    BY <1>6, <2>1
  <2>4. <<>> \o <<>> = <<>>
    OBVIOUS
  <2> QED
    BY <1>5, <2>2, <2>3, <2>4
<1>11. /\ scan' = s /\ offset' = offset
       /\ returned' \in Seq(CellId) /\ more' \in BOOLEAN
       /\ \/ pc' = "answered" /\ Len(returned') <= offset + Limit
          \/ /\ pc' = "scanning" /\ returned' = returned
             /\ Len(s.collected) <= Limit /\ Len(batch) = ScanBatch
             /\ s.examined < ScanCeiling
  <2>1. CASE Full(s)
    <3>1. PICK page : page = Take(s.collected, Limit)
      OBVIOUS
    <3>2. page \in Seq(CellId) /\ Len(page) <= Limit /\ Len(page) \in Nat
      BY <1>8, <3>1, ConstantTypes, TakeLength, LenProperties
    <3>3. returned' = returned \o page /\ more' = TRUE /\ pc' = "answered" /\ scan' = s /\ offset' = offset
      BY <2>1, <3>1 DEF Full, Answer
    <3>4. returned \o page \in Seq(CellId) /\ Len(returned \o page) = Len(returned) + Len(page)
      BY <1>6, <3>2, ConcatProperties
    <3>5. Len(returned \o page) <= offset + Limit
      BY <1>6, <1>7, <3>2, <3>4, ConstantTypes
    <3> QED
      BY <3>3, <3>4, <3>5
  <2>2. CASE Ended(s, batch)
    <3>1. PICK page : page = s.collected
      OBVIOUS
    <3>2. page \in Seq(CellId) /\ Len(page) <= Limit /\ Len(page) \in Nat
      <4>1. ~(Len(page) > Limit)
        BY <2>2, <3>1 DEF Ended
      <4> QED
        BY <1>8, <3>1, <4>1, ConstantTypes, LenProperties
    <3>3. returned' = returned \o page /\ more' = FALSE /\ pc' = "answered" /\ scan' = s /\ offset' = offset
      BY <2>2, <3>1 DEF Ended, Answer
    <3>4. returned \o page \in Seq(CellId) /\ Len(returned \o page) = Len(returned) + Len(page)
      BY <1>6, <3>2, ConcatProperties
    <3>5. Len(returned \o page) <= offset + Limit
      BY <1>6, <1>7, <3>2, <3>4, ConstantTypes
    <3> QED
      BY <3>3, <3>4, <3>5
  <2>3. CASE Continued(s, batch)
    <3>1. /\ scan' = s /\ offset' = offset /\ returned' = returned /\ more' = more /\ pc' = pc
          /\ ~(Len(s.collected) > Limit) /\ ~(Len(batch) < ScanBatch) /\ ~(s.examined >= ScanCeiling)
      BY <2>3 DEF Continued
    <3>2. Len(s.collected) <= Limit /\ Len(batch) = ScanBatch /\ s.examined < ScanCeiling
      BY <1>5, <1>7, <1>8, <3>1, ConstantTypes, LenProperties
    <3>3. more \in BOOLEAN
      BY DEF Shape
    <3> QED
      BY <1>3, <1>6, <3>1, <3>2, <3>3
  <2> QED
    BY <1>3, <1>5, <2>1, <2>2, <2>3, BatchEnds
<1>12. Shape'
  <2>1. pc' \in {"scanning", "answered", "done"}
    BY <1>11
  <2> QED
    BY <1>3, <1>5, <1>11, <2>1 DEF Shape
<1>13. Len(returned') <= offset' + Limit
  BY <1>6, <1>7, <1>11, ConstantTypes
<1>14. ASSUME pc' = "scanning"
       PROVE  /\ scan'.examined < ScanCeiling /\ Len(scan'.collected) <= Limit
              /\ Len(returned') <= offset'
              /\ scan'.examined # 0
              /\ \E j \in Nat : scan'.examined = j * ScanBatch
  <2>1. /\ returned' = returned /\ Len(s.collected) <= Limit /\ Len(batch) = ScanBatch
        /\ s.examined < ScanCeiling
    BY <1>11, <1>14
  <2>2. PICK j \in Nat : scan.examined = j * ScanBatch
    BY <1>6
  <2>3. s.examined = (j + 1) * ScanBatch /\ j + 1 \in Nat
    <3>1. ScanBatch \in Nat
      BY ConstantTypes
    <3>2. (j + 1) * ScanBatch = j * ScanBatch + ScanBatch
      BY <3>1
    <3> QED
      BY <1>5, <2>1, <2>2, <3>2
  <2>4. s.examined # 0
    BY <1>5, <1>6, <2>1, ConstantTypes
  <2> QED
    BY <1>6, <1>11, <2>1, <2>3, <2>4
<1>15. Locals'
  <2>1. kind' # "search"
    BY <1>3
  <2> QED
    BY <1>5, <1>9, <1>10, <1>11, <1>13, <1>14, <2>1 DEF Locals
<1> QED
  BY <1>12, <1>15

LEMMA SearchLocals ==
    ASSUME Shape, Locals, SearchStep
    PROVE  Shape' /\ Locals'
<1>1. PICK cells : cells = Search(Limit + 1, offset)
  OBVIOUS
<1>2. PICK page : page = Window(cells, 0, Limit)
  OBVIOUS
<1>3. /\ kind = "search" /\ pc = "scanning" /\ pc' = "answered"
      /\ scan' = scan /\ offset' = offset /\ returned' = returned \o page
      /\ more' = (Len(cells) > Limit)
      /\ UNCHANGED <<rows, view, kind, steady, departures, arrivals, quiet>>
  BY <1>1, <1>2 DEF SearchStep, Answer, history
<1>4. offset \in Nat /\ returned \in Seq(CellId) /\ Len(returned) <= offset
  BY <1>3 DEF Shape, Locals
<1>5. cells \in Seq(CellId)
  <2>1. PICK r : r = Readable
    OBVIOUS
  <2>2. r \in Seq(CellId) /\ cells = Window(r, offset, Limit + 1) /\ Limit + 1 \in Nat
    BY <1>1, <2>1, ListingType, ConstantTypes DEF Search, Readable
  <2>3. cells = Take(Drop(r, offset), Limit + 1)
    BY <1>4, <2>2, WindowIsTakeDrop
  <2>4. Drop(r, offset) \in Seq(CellId)
    BY <1>4, <2>2, TakeDrop
  <2> QED
    BY <2>2, <2>3, <2>4, TakeLength
<1>6. page \in Seq(CellId) /\ Len(page) <= Limit
  <2>1. Limit \in Nat
    BY ConstantTypes
  <2>2. page = Take(cells, Limit)
    BY <1>2, <1>5, <2>1, FirstWindow
  <2> QED
    BY <1>5, <2>1, <2>2, TakeLength
<1>7. returned \o page \in Seq(CellId) /\ Len(returned \o page) = Len(returned) + Len(page)
  BY <1>4, <1>6, ConcatProperties
<1>8. Len(returned \o page) <= offset + Limit
  <2>1. Len(page) \in Nat /\ Len(returned) \in Nat
    BY <1>4, <1>6, LenProperties
  <2> QED
    BY <1>4, <1>6, <1>7, <2>1, ConstantTypes
<1>9. Shape'
  BY <1>3, <1>7 DEF Shape
<1>10. Locals'
  BY <1>3, <1>8 DEF Locals
<1> QED
  BY <1>9, <1>10

LEMMA NextLocals ==
    ASSUME Shape, Locals, NextPage
    PROVE  Shape' /\ Locals'
<1>1. /\ rows' = rows /\ view' = view /\ kind' = kind /\ pc = "answered" /\ returned' = returned
      /\ more' = more
  BY DEF NextPage
<1>2. CASE more
  <2>1. offset' = offset + Limit /\ scan' = NewScan /\ pc' = "scanning" /\ quiet' = TRUE
    BY <1>2 DEF NextPage
  <2>2. offset \in Nat /\ offset + Limit \in Nat /\ Len(returned) <= offset + Limit
        /\ Len(returned) \in Nat
    BY ConstantTypes, LenProperties DEF Shape, Locals
  <2>3. Shape'
    BY <1>1, <2>1, <2>2, NewScanType DEF Shape
  <2>4. Len(returned) <= (offset + Limit) + Limit
    BY <2>2, ConstantTypes
  <2>5. 0 = 0 * ScanBatch /\ 0 \in Nat /\ 0 < ScanCeiling /\ 0 < ScanCeiling + ScanBatch /\ 0 <= Limit
    BY ConstantTypes
  <2>6. Len(<<>>) = 0
    OBVIOUS
  <2>7. 0 <= offset + Limit
    BY <2>2
  <2>8. Locals'
    BY <1>1, <2>1, <2>2, <2>4, <2>5, <2>6, <2>7, NewScanType DEF Locals
  <2> QED
    BY <2>3, <2>8
<1>3. CASE ~more
  <2>1. pc' = "done" /\ UNCHANGED <<offset, scan, returned, more, quiet>>
    BY <1>3 DEF NextPage
  <2>2. Shape'
    BY <1>1, <2>1 DEF Shape
  <2>3. Locals'
    BY <1>1, <2>1 DEF Locals
  <2> QED
    BY <2>2, <2>3
<1> QED
  BY <1>2, <1>3

LEMMA WriteLocals ==
    ASSUME Shape, Locals, NEW c \in CellId, NEW v, NEW i, Write(c, v, i)
    PROVE  Shape' /\ Locals'
<1>1. PICK others : others = Only(rows, CellId \ {c})
  OBVIOUS
<1>2. /\ others \in Seq(CellId \ {c}) /\ IsInjective(others)
      /\ i = 0 => rows' = others
      /\ i # 0 => Placed(rows', others, c)
  BY <1>1, WriteEffect
<1>3. others \in Seq(CellId)
  BY <1>2, SeqMonotonic
<1>4. rows' \in Seq(CellId) /\ IsInjective(rows')
  <2>1. CASE i = 0
    BY <1>2, <1>3, <2>1
  <2>2. CASE i # 0
    BY <1>2, <2>2, PlacedType
  <2> QED
    BY <2>1, <2>2
<1>5. view' \in [CellId -> View]
  BY DEF Write, Disturb, Shape, View
<1>6. /\ kind' = kind /\ offset' = offset /\ scan' = scan /\ returned' = returned
      /\ more' = more /\ pc' = pc /\ quiet' = FALSE
  BY DEF Write, Disturb, server
<1>7. Shape'
  BY <1>4, <1>5, <1>6 DEF Shape
<1>8. Locals'
  BY <1>6 DEF Locals
<1> QED
  BY <1>7, <1>8

LEMMA InitLocals ==
    ASSUME Init
    PROVE  Shape /\ Locals
<1>1. rows \in Seq(CellId) /\ IsInjective(rows)
  <2>1. PICK m \in 0..Cardinality(CellId) : rows \in [1..m -> CellId]
    BY DEF Init, SeqOf
  <2>2. Cardinality(CellId) \in Nat
    BY PagingAssumption, FS_CardinalityType
  <2>3. m \in Nat
    BY <2>1, <2>2
  <2> QED
    BY <2>1, <2>3, SeqDef DEF Init
<1>2. view \in [CellId -> View] /\ kind \in {"list", "search"}
  BY DEF Init
<1>3. offset = 0 /\ scan = NewScan /\ returned = <<>> /\ more = FALSE /\ pc = "scanning" /\ quiet = TRUE
  BY DEF Init
<1>4. <<>> \in Seq(CellId) /\ Len(<<>>) = 0
  BY EmptySeq
<1>5. Shape
  BY <1>1, <1>2, <1>3, <1>4, NewScanType DEF Shape
<1>6. 0 = 0 * ScanBatch /\ 0 \in Nat /\ 0 < ScanCeiling /\ 0 < ScanCeiling + ScanBatch /\ 0 <= Limit /\ 0 <= 0 + Limit
  BY ConstantTypes
<1>7. Locals
  BY <1>3, <1>4, <1>6, NewScanType DEF Locals
<1> QED
  BY <1>5, <1>7

LEMMA StepLocals ==
    ASSUME Shape, Locals, [Next]_vars
    PROVE  Shape' /\ Locals'
<1>1. CASE ScanStep
  BY <1>1, ScanLocals
<1>2. CASE SearchStep
  BY <1>2, SearchLocals
<1>3. CASE NextPage
  BY <1>3, NextLocals
<1>4. ASSUME NEW c \in CellId, Rewrite(c) \/ Reorder(c) \/ Insert(c) \/ Purge(c)
      PROVE  Shape' /\ Locals'
  BY <1>4, OthersWrite, WriteLocals
<1>5. CASE UNCHANGED vars
  BY <1>5 DEF vars, server, history, Shape, Locals
<1> QED
  BY <1>1, <1>2, <1>3, <1>4, <1>5 DEF Next

LEMMA TypeFromLocals ==
    ASSUME Shape, Locals
    PROVE  TypeOK
<1>1. ToSet(rows) \subseteq CellId
  BY ElementsOf DEF Shape
<1>2. scan.skipped \in 0..offset
  BY DEF Shape, Locals, Scan
<1> QED
  BY <1>1, <1>2 DEF Shape, Locals, TypeOK

\* The locals of a request stay in their ranges, whatever others write.
THEOREM Typed == Spec => []TypeOK
<1>1. Init => Shape /\ Locals
  BY InitLocals
<1>2. (Shape /\ Locals) /\ [Next]_vars => (Shape /\ Locals)'
  BY StepLocals
<1>3. Shape /\ Locals => TypeOK
  BY TypeFromLocals
<1> QED
  BY <1>1, <1>2, <1>3, PTL DEF Spec

-----------------------------------------------------------------------------
(* A page answered while nothing was written.                               *)

LEMMA TakeOfTake ==
    ASSUME NEW T, NEW s \in Seq(T), NEW n \in Nat
    PROVE  Take(Take(s, n + 1), n) = Take(s, n)
<1>1. PICK a, b : a = Take(s, n) /\ b = Drop(s, n)
  OBVIOUS
<1>2. a \in Seq(T) /\ b \in Seq(T)
  BY <1>1, TakeDrop
<1>3. PICK t : t = Take(b, 1)
  OBVIOUS
<1>4. t \in Seq(T)
  BY <1>2, <1>3, TakeDrop
<1>5. Take(s, n + 1) = a \o t
  BY <1>1, <1>3, TakeMore
<1>6. CASE n <= Len(s)
  <2>1. Len(a) = n
    BY <1>1, <1>6, TakeDrop
  <2>2. n <= Len(a)
    BY <2>1
  <2>3. \A x, y \in Seq(T) : n <= Len(x) => Take(x \o y, n) = Take(x, n)
    BY TakeOfConcat
  <2>4. Take(a \o t, n) = Take(a, n)
    BY <1>2, <1>4, <2>2, <2>3, Zenon
  <2>5. Len(a) <= n
    BY <2>1
  <2>6. Take(a, n) = a
    BY <1>2, <2>5, TakeAll
  <2> QED
    BY <1>1, <1>5, <2>4, <2>6
<1>7. CASE ~(n <= Len(s))
  <2>1. Len(s) <= n /\ Len(s) <= n + 1 /\ n + 1 \in Nat
    BY <1>7, LenProperties
  <2> QED
    BY <2>1, TakeAll
<1> QED
  BY <1>6, <1>7

\* What is collected of a longer prefix.
LEMMA CollectedOf ==
    ASSUME NEW T, NEW p \in Seq(T), NEW r \in Seq(T), NEW n \in Nat,
           NEW o, o = n - Smaller(n, Len(p))
    PROVE  Drop(p, n) \o Drop(r, o) = Drop(p \o r, n)
<1>1. Len(p) \in Nat
  BY LenProperties
<1>2. CASE n <= Len(p)
  <2>1. Smaller(n, Len(p)) = n
    BY <1>1, <1>2 DEF Smaller
  <2>2. o = 0
    BY <2>1
  <2>3. Drop(r, o) = r
    BY <2>2, TakeNone
  <2>4. Drop(p \o r, n) = Drop(p, n) \o r
    BY <1>2, TakeOfConcat
  <2> QED
    BY <2>3, <2>4
<1>3. CASE ~(n <= Len(p))
  <2>1. Smaller(n, Len(p)) = Len(p) /\ Len(p) <= n
    BY <1>1, <1>3 DEF Smaller
  <2>2. o = n - Len(p) /\ o \in Nat
    BY <1>1, <2>1
  <2>3. Drop(p, n) = <<>>
    BY <2>1, TakeAll
  <2>4. Drop(p \o r, n) = Drop(r, n - Len(p))
    BY <2>1, TakePastFirst
  <2>5. Drop(r, o) \in Seq(T)
    BY <2>2, TakeDrop
  <2>6. <<>> \o Drop(r, o) = Drop(r, o)
    BY <2>5, ConcatEmptySeq
  <2> QED
    BY <2>2, <2>3, <2>4, <2>6
<1> QED
  BY <1>2, <1>3

LEMMA SkippedOf ==
    ASSUME NEW n \in Nat, NEW x \in Nat, NEW y \in Nat
    PROVE  Smaller(n, x) + Smaller(n - Smaller(n, x), y) = Smaller(n, x + y)
BY DEF Smaller

\* scanned is the end of the batch that reaches the ceiling.
Scanned == ((ScanCeiling + ScanBatch - 1) \div ScanBatch) * ScanBatch

LEMMA Multiples ==
    ASSUME NEW b \in Nat, NEW x \in Nat, NEW y \in Nat, x <= y
    PROVE  x * b <= y * b
<1>1. PICK k \in Nat : y = x + k
  <2>1. y - x \in Nat /\ y = x + (y - x)
    OBVIOUS
  <2> QED
    BY <2>1
<1>2. (x + k) * b = x * b + k * b /\ k * b \in Nat /\ x * b \in Nat
  OBVIOUS
<1> QED
  BY <1>1, <1>2

LEMMA ScannedIs ==
    ASSUME NEW j \in Nat, NEW e, e = j * ScanBatch, e < ScanCeiling
    PROVE  /\ Scanned \in Nat /\ e + ScanBatch <= Scanned
           /\ e + ScanBatch >= ScanCeiling => Scanned = e + ScanBatch
<1>1. PICK b, n : b = ScanBatch /\ n = ScanCeiling
  OBVIOUS
<1>2. b \in Nat /\ b > 0 /\ n \in Nat /\ n > 0
  BY <1>1, ConstantTypes
<1>3. PICK q : q = (n + b - 1) \div b
  OBVIOUS
<1>4. q \in Nat /\ q * b <= n + b - 1 /\ n + b - 1 < (q + 1) * b
  <2>1. n + b - 1 \in Nat
    BY <1>2
  <2>2. PICK m \in Nat : m = n + b - 1
    BY <2>1
  <2>3. q = m \div b
    BY <1>3, <2>2
  <2>4. q \in Int /\ q * b <= m /\ m < q * b + b
    BY <1>2, <2>3
  <2>5. q \in Nat
    BY <1>2, <2>3
  <2>6. (q + 1) * b = q * b + b
    BY <1>2, <2>5
  <2> QED
    BY <2>2, <2>4, <2>5, <2>6
<1>5. Scanned = q * b
  BY <1>1, <1>3 DEF Scanned
<1>6. (j + 1) * b = e + b /\ e \in Nat
  <2>1. (j + 1) * b = j * b + b /\ j * b \in Nat
    BY <1>2
  <2> QED
    BY <1>1, <2>1
<1>7. e < n
  BY <1>1
<1>8. j + 1 <= q
  <2> SUFFICES ASSUME ~(j + 1 <= q) PROVE FALSE
    OBVIOUS
  <2>1. q + 1 <= j + 1 /\ q + 1 \in Nat /\ j + 1 \in Nat
    BY <1>4
  <2>2. (q + 1) * b <= (j + 1) * b
    BY <1>2, <2>1, Multiples
  <2>3. (q + 1) * b \in Nat
    BY <1>2, <2>1
  <2> QED
    BY <1>2, <1>4, <1>6, <1>7, <2>2, <2>3
<1>9. (j + 1) * b <= q * b
  BY <1>2, <1>4, <1>8, Multiples
<1>10. q * b \in Nat
  BY <1>2, <1>4
<1>11. ASSUME e + b >= n PROVE q * b = e + b
  <2>1. q <= j + 1
    <3> SUFFICES ASSUME ~(q <= j + 1) PROVE FALSE
      OBVIOUS
    <3>1. j + 2 <= q /\ j + 2 \in Nat
      BY <1>4
    <3>2. (j + 2) * b <= q * b
      BY <1>2, <1>4, <3>1, Multiples
    <3>3. (j + 2) * b = (j + 1) * b + b
      BY <1>2
    <3> QED
      BY <1>2, <1>4, <1>6, <1>10, <1>11, <3>2, <3>3
  <2>2. q = j + 1
    BY <1>4, <1>8, <2>1
  <2> QED
    BY <1>6, <2>2
<1> QED
  BY <1>1, <1>5, <1>6, <1>9, <1>10, <1>11

\* The page and its has_more, from what is collected of a prefix.
LEMMA FullPage ==
    ASSUME NEW T, NEW p \in Seq(T), NEW x \in Seq(T), NEW n \in Nat, NEW m \in Nat,
           Len(Drop(p, n)) > m
    PROVE  /\ Window(p \o x, n, m) = Take(Drop(p, n), m)
           /\ Len(p \o x) > n + m
<1>1. PICK d : d = Drop(p, n)
  OBVIOUS
<1>2. d \in Seq(T) /\ Len(d) > m
  BY <1>1, TakeDrop
<1>3. Len(p) \in Nat /\ Len(x) \in Nat /\ Len(d) \in Nat
  BY <1>2, LenProperties
<1>4. n <= Len(p) /\ Len(d) = Len(p) - n
  <2>1. /\ n <= Len(p) => Len(d) = Len(p) - n
        /\ Len(p) <= n => Len(d) = 0
    BY <1>1, TakeDrop
  <2> QED
    BY <1>2, <1>3, <2>1
<1>5. p \o x \in Seq(T) /\ Len(p \o x) = Len(p) + Len(x)
  BY ConcatProperties
<1>6. Drop(p \o x, n) = d \o x
  <2>1. Drop(p \o x, n) = Drop(p, n) \o x
    BY <1>4, TakeOfConcat
  <2> QED
    BY <1>1, <2>1
<1>7. Take(d \o x, m) = Take(d, m)
  <2>1. m <= Len(d)
    BY <1>2, <1>3
  <2>2. \A y, z \in Seq(T) : m <= Len(y) => Take(y \o z, m) = Take(y, m)
    BY TakeOfConcat
  <2> QED
    BY <1>2, <2>1, <2>2, Zenon
<1>8. Window(p \o x, n, m) = Take(Drop(p \o x, n), m)
  BY <1>5, WindowIsTakeDrop
<1>9. Len(p \o x) > n + m
  BY <1>2, <1>3, <1>4, <1>5
<1> QED
  BY <1>1, <1>6, <1>7, <1>8, <1>9

LEMMA LastPage ==
    ASSUME NEW T, NEW p \in Seq(T), NEW n \in Nat, NEW m \in Nat,
           ~(Len(Drop(p, n)) > m)
    PROVE  /\ Window(p, n, m) = Drop(p, n)
           /\ ~(Len(p) > n + m)
<1>1. PICK d : d = Drop(p, n)
  OBVIOUS
<1>2. d \in Seq(T)
  BY <1>1, TakeDrop
<1>3. Len(p) \in Nat /\ Len(d) \in Nat
  BY <1>2, LenProperties
<1>4. Len(d) <= m
  BY <1>1, <1>3
<1>5. Take(d, m) = d
  BY <1>2, <1>4, TakeAll
<1>6. Window(p, n, m) = Take(d, m)
  BY <1>1, WindowIsTakeDrop
<1>7. /\ n <= Len(p) => Len(d) = Len(p) - n
      /\ Len(p) <= n => Len(d) = 0
  BY <1>1, TakeDrop
<1>8. ~(Len(p) > n + m)
  BY <1>3, <1>4, <1>7
<1> QED
  BY <1>1, <1>5, <1>6, <1>8

\* While nothing is written, a listing has collected exactly what its offset
\* leaves of the readable cells it has examined.
Windowed ==
    pc = "scanning" /\ quiet /\ kind = "list" =>
        /\ scan.skipped = Smaller(offset, Len(Passed))
        /\ scan.collected = Drop(Passed, offset)

\* What the page is a window of.
Walked == IF kind = "search" THEN Readable ELSE Only(Take(Listing, Scanned), Shown)

Paged ==
    pc = "answered" /\ quiet =>
        /\ more <=> Len(Walked) > offset + Limit
        /\ IsSuffix(Window(Walked, offset, Limit), returned)

LEMMA ScannedType == Scanned \in Nat
<1>1. 0 \in Nat /\ 0 = 0 * ScanBatch /\ 0 < ScanCeiling
  BY ConstantTypes
<1> QED
  BY <1>1, ScannedIs

LEMMA WalkedType ==
    ASSUME Shape
    PROVE  Walked \in Seq(CellId)
<1>1. PICK l, sh : l = Listing /\ sh = Shown
  OBVIOUS
<1>2. l \in Seq(CellId) /\ Readable \in Seq(CellId)
  BY <1>1, ListingType
<1>3. Take(l, Scanned) \in Seq(CellId)
  BY <1>2, ScannedType, TakeDrop
<1>4. Only(Take(l, Scanned), sh) \in Seq(CellId)
  BY <1>3, OnlySeq
<1> QED
  BY <1>1, <1>2, <1>4 DEF Walked

LEMMA PagedIsWindow ==
    ASSUME Shape, Paged
    PROVE  PageIsWindow
<1>1. Query(Scanned, 0) = Take(Listing, Scanned)
  <2>1. Listing \in Seq(CellId) /\ Scanned \in Nat
    BY ListingType, ScannedType
  <2>2. Query(Scanned, 0) = Window(Listing, 0, Scanned)
    BY DEF Query, Listing
  <2> QED
    BY <2>1, <2>2, FirstWindow
<1>2. Walked = IF kind = "search" THEN Only(rows, Shown) ELSE Only(Query(Scanned, 0), Shown)
  BY <1>1 DEF Walked, Readable
<1>3. PICK w : w = Walked
  OBVIOUS
<1>4. ASSUME pc = "answered", quiet
      PROVE  /\ more = (Len(w) > offset + Limit)
             /\ IsSuffix(Window(w, offset, Limit), returned)
  <2>1. /\ more <=> Len(w) > offset + Limit
        /\ IsSuffix(Window(w, offset, Limit), returned)
    BY <1>3, <1>4 DEF Paged
  <2>2. PICK a, b : a = Len(w) /\ b = offset + Limit
    OBVIOUS
  <2>3. a \in Nat /\ b \in Nat /\ more \in BOOLEAN
    BY <1>3, <2>2, WalkedType, ConstantTypes, LenProperties DEF Shape
  <2>4. more <=> a > b
    BY <2>1, <2>2
  <2>5. more = (a > b)
    BY <2>3, <2>4
  <2> QED
    BY <2>1, <2>2, <2>5
<1>5. w = IF kind = "search" THEN Only(rows, Shown) ELSE Only(Query(Scanned, 0), Shown)
  BY <1>2, <1>3
<1> QED
  BY <1>4, <1>5 DEF PageIsWindow, Scanned

\* The answer of a batch, as Windowed describes what it collects.
LEMMA AnswerOfBatch ==
    ASSUME Shape, Locals, Windowed, kind = "list", pc = "scanning", quiet,
           NEW batch, NEW r, NEW s, NEW o, o = offset - scan.skipped,
           OneBatch(batch, r, s, o)
    PROVE  /\ s.skipped = Smaller(offset, Len(Passed \o r))
           /\ s.collected = Drop(Passed \o r, offset)
           /\ Full(s) => /\ Len(Walked) > offset + Limit
                         /\ Take(s.collected, Limit) = Window(Walked, offset, Limit)
           /\ Ended(s, batch) => /\ ~(Len(Walked) > offset + Limit)
                                /\ s.collected = Window(Walked, offset, Limit)
<1>1. PICK p, l, e, n : p = Passed /\ l = Listing /\ e = scan.examined /\ n = offset
  OBVIOUS
<1>2. /\ p \in Seq(CellId) /\ l \in Seq(CellId) /\ e \in Nat /\ n \in Nat
      /\ e < ScanCeiling /\ \E j \in Nat : e = j * ScanBatch
  BY <1>1, PassedType, ListingType DEF Shape, Locals, Scan
<1>3. /\ o \in Nat /\ batch \in Seq(CellId) /\ r \in Seq(CellId) /\ s \in Scan
      /\ batch = Take(Drop(l, e), ScanBatch)
      /\ Len(batch) <= ScanBatch
      /\ s.collected = scan.collected \o Drop(r, o)
      /\ s.skipped = scan.skipped + Smaller(o, Len(r))
      /\ s.examined = e + Len(batch)
      /\ Only(Take(l, s.examined), Shown) = p \o r
  BY <1>1 DEF OneBatch
<1>4. scan.skipped = Smaller(n, Len(p)) /\ scan.collected = Drop(p, n)
  BY <1>1 DEF Windowed
<1>5. Len(p) \in Nat /\ Len(r) \in Nat /\ Len(batch) \in Nat /\ s.examined \in Nat
  BY <1>2, <1>3, LenProperties DEF Scan
<1>6. o = n - Smaller(n, Len(p))
  BY <1>1, <1>4
<1>7. s.skipped = Smaller(n, Len(p \o r))
  <2>1. Len(p \o r) = Len(p) + Len(r)
    BY <1>2, <1>3, ConcatProperties
  <2>2. \A x, y \in Nat : Smaller(n, x) + Smaller(n - Smaller(n, x), y) = Smaller(n, x + y)
    BY <1>2, SkippedOf
  <2>3. Smaller(n, Len(p)) + Smaller(n - Smaller(n, Len(p)), Len(r)) = Smaller(n, Len(p) + Len(r))
    BY <1>5, <2>2, Zenon
  <2> QED
    BY <1>3, <1>4, <1>6, <2>1, <2>3
<1>8. s.collected = Drop(p \o r, n)
  <2>0. \A x, y \in Seq(CellId) : \A k : k = n - Smaller(n, Len(x)) => Drop(x, n) \o Drop(y, k) = Drop(x \o y, n)
    BY <1>2, CollectedOf
  <2>1. Drop(p, n) \o Drop(r, o) = Drop(p \o r, n)
    BY <1>2, <1>3, <1>6, <2>0, Zenon
  <2> QED
    BY <1>3, <1>4, <2>1
<1>9. PICK q : q = p \o r
  OBVIOUS
<1>10. q \in Seq(CellId)
  BY <1>2, <1>3, <1>9, ConcatProperties
<1>11. Walked = Only(Take(l, Scanned), Shown)
  BY <1>1 DEF Walked
<1>12. s.examined <= Scanned /\ Scanned \in Nat
       /\ (s.examined = e + ScanBatch /\ s.examined >= ScanCeiling => Scanned = s.examined)
  <2>1. PICK j \in Nat : e = j * ScanBatch
    BY <1>2
  <2>2. /\ Scanned \in Nat /\ e + ScanBatch <= Scanned
        /\ e + ScanBatch >= ScanCeiling => Scanned = e + ScanBatch
    BY <1>2, <2>1, ScannedIs
  <2>3. PICK x : x = s.examined
    OBVIOUS
  <2>4. x \in Nat /\ x <= e + ScanBatch
    BY <1>2, <1>3, <1>5, <2>3, ConstantTypes
  <2>5. x <= Scanned
    BY <1>2, <2>2, <2>4, ConstantTypes
  <2> QED
    BY <2>2, <2>3, <2>5
<1>13. PICK x \in Seq(CellId) : Walked = q \o x
  <2>1. PICK k \in Nat : Scanned = s.examined + k
    <3>1. Scanned - s.examined \in Nat /\ Scanned = s.examined + (Scanned - s.examined)
      BY <1>5, <1>12
    <3> QED
      BY <3>1
  <2>2. PICK a, t : a = Take(l, s.examined) /\ t = Take(Drop(l, s.examined), k)
    OBVIOUS
  <2>3. a \in Seq(CellId) /\ t \in Seq(CellId)
    <3>1. a \in Seq(CellId) /\ Drop(l, s.examined) \in Seq(CellId)
      BY <1>2, <1>5, <2>2, TakeDrop
    <3> QED
      BY <2>2, <3>1, TakeDrop
  <2>4. Take(l, Scanned) = a \o t
    <3>1. Take(l, s.examined + k) = Take(l, s.examined) \o Take(Drop(l, s.examined), k)
      BY <1>2, <1>5, TakeMore
    <3> QED
      BY <2>1, <2>2, <3>1
  <2>5. \A y, z \in Seq(CellId) : Only(y \o z, Shown) = Only(y, Shown) \o Only(z, Shown)
    BY OnlyConcat
  <2>6. Only(a \o t, Shown) = Only(a, Shown) \o Only(t, Shown)
    BY <2>3, <2>5, Zenon
  <2>7. Only(t, Shown) \in Seq(CellId)
    BY <2>3, OnlySeq
  <2>8. Only(a, Shown) = q
    BY <1>3, <1>9, <2>2
  <2> QED
    BY <1>11, <2>4, <2>6, <2>7, <2>8
<1>14. Limit \in Nat /\ ScanBatch \in Nat /\ ScanCeiling \in Nat
  BY ConstantTypes
<1>15. ASSUME Full(s)
       PROVE  /\ Len(Walked) > n + Limit
              /\ Take(s.collected, Limit) = Window(Walked, n, Limit)
  <2>1. Len(Drop(q, n)) > Limit
    BY <1>8, <1>9, <1>15 DEF Full
  <2>2. /\ Window(q \o x, n, Limit) = Take(Drop(q, n), Limit)
        /\ Len(q \o x) > n + Limit
    BY <1>2, <1>10, <1>13, <1>14, <2>1, FullPage
  <2> QED
    BY <1>8, <1>9, <1>13, <2>2
<1>16. ASSUME Ended(s, batch)
       PROVE  /\ ~(Len(Walked) > n + Limit)
              /\ s.collected = Window(Walked, n, Limit)
  <2>1. ~(Len(Drop(q, n)) > Limit)
    BY <1>8, <1>9, <1>16 DEF Ended
  <2>2. Take(l, Scanned) = Take(l, s.examined)
    <3>1. CASE Len(batch) < ScanBatch
      <4>1. PICK d : d = Drop(l, e)
        OBVIOUS
      <4>2. d \in Seq(CellId)
        BY <1>2, <4>1, TakeDrop
      <4>3. /\ ScanBatch <= Len(d) => Len(batch) = ScanBatch
            /\ Len(d) <= ScanBatch => Len(batch) = Len(d)
        BY <1>3, <1>14, <4>1, <4>2, TakeDrop
      <4>4. Len(d) \in Nat /\ Len(l) \in Nat
        BY <1>2, <4>2, LenProperties
      <4>5. Len(batch) = Len(d)
        BY <1>5, <1>14, <3>1, <4>3, <4>4
      <4>6. /\ e <= Len(l) => Len(d) = Len(l) - e
            /\ Len(l) <= e => Len(d) = 0
        BY <1>2, <4>1, TakeDrop
      <4>7. Len(l) <= s.examined /\ Len(l) <= Scanned
        BY <1>2, <1>3, <1>5, <1>12, <4>4, <4>5, <4>6
      <4>8. Take(l, s.examined) = l
        BY <1>2, <1>5, <4>7, TakeAll
      <4>9. Take(l, Scanned) = l
        BY <1>2, <1>12, <4>7, TakeAll
      <4> QED
        BY <4>8, <4>9
    <3>2. CASE ~(Len(batch) < ScanBatch)
      <4>1. s.examined >= ScanCeiling
        BY <1>16, <3>2 DEF Ended
      <4>2. Len(batch) = ScanBatch
        BY <1>3, <1>5, <1>14, <3>2
      <4> QED
        BY <1>3, <1>12, <4>1, <4>2
    <3> QED
      BY <3>1, <3>2
  <2>3. Walked = q
    BY <1>3, <1>9, <1>11, <2>2
  <2>4. Window(q, n, Limit) = Drop(q, n) /\ ~(Len(q) > n + Limit)
    BY <1>2, <1>10, <1>14, <2>1, LastPage
  <2> QED
    BY <1>8, <1>9, <2>3, <2>4
<1> QED
  BY <1>1, <1>7, <1>8, <1>15, <1>16

LEMMA ScanPaged ==
    ASSUME Shape, Locals, Windowed, Paged, ScanStep
    PROVE  Windowed' /\ Paged'
<1>1. PICK batch : batch = Query(ScanBatch, scan.store_offset)
  OBVIOUS
<1>2. PICK s : s = Examined(scan, batch)
  OBVIOUS
<1>3. /\ kind = "list" /\ pc = "scanning" /\ EndOfBatch(s, batch)
      /\ UNCHANGED <<rows, view, kind, quiet>>
  BY <1>1, <1>2 DEF ScanStep
<1>4. PICK o, r : o = offset - scan.skipped /\ r = Only(batch, Shown)
  OBVIOUS
<1>5. OneBatch(batch, r, s, o)
  BY <1>1, <1>2, <1>4, BatchExamined
<1>6. s \in Scan /\ Only(Take(Listing, s.examined), Shown) = Passed \o r
  BY <1>5 DEF OneBatch
<1>7. Full(s) \/ Ended(s, batch) \/ Continued(s, batch)
  BY <1>3, <1>6, BatchEnds
<1>8. Shown' = Shown /\ Listing' = Listing /\ Readable' = Readable
  BY <1>3 DEF Listing, Readable, Shown, Matching
<1>9. Walked' = Walked
  BY <1>3, <1>8 DEF Walked
<1>10. scan' = s /\ offset' = offset
  BY <1>7 DEF Full, Ended, Continued, Answer
<1>11. Passed' = Passed \o r
  BY <1>6, <1>8, <1>10 DEF Passed
<1>12. returned \in Seq(CellId) /\ offset \in Nat /\ Limit \in Nat
  BY ConstantTypes DEF Shape
<1>13. Walked \in Seq(CellId)
  BY WalkedType
<1>14. PICK page : page = Window(Walked, offset, Limit)
  OBVIOUS
<1>15. page \in Seq(CellId)
  <2>1. PICK d : d = Drop(Walked, offset)
    OBVIOUS
  <2>2. d \in Seq(CellId)
    BY <1>12, <1>13, <2>1, TakeDrop
  <2>3. page = Take(d, Limit)
    BY <1>12, <1>13, <1>14, <2>1, WindowIsTakeDrop
  <2> QED
    BY <1>12, <2>2, <2>3, TakeDrop
<1>16. IsSuffix(page, returned \o page)
  BY <1>12, <1>15, SuffixOfConcat
<1>17. CASE quiet
  <2>1. /\ s.skipped = Smaller(offset, Len(Passed \o r))
        /\ s.collected = Drop(Passed \o r, offset)
        /\ Full(s) => /\ Len(Walked) > offset + Limit
                      /\ Take(s.collected, Limit) = Window(Walked, offset, Limit)
        /\ Ended(s, batch) => /\ ~(Len(Walked) > offset + Limit)
                             /\ s.collected = Window(Walked, offset, Limit)
    BY <1>3, <1>4, <1>5, <1>17, AnswerOfBatch
  <2>2. CASE Full(s)
    <3>1. more' = TRUE /\ returned' = returned \o page /\ pc' = "answered"
      BY <1>14, <2>1, <2>2 DEF Full, Answer
    <3>2. more' <=> Len(Walked') > offset' + Limit
      BY <1>9, <1>10, <2>1, <2>2, <3>1
    <3>3. IsSuffix(Window(Walked', offset', Limit), returned')
      BY <1>9, <1>10, <1>14, <1>16, <3>1
    <3> QED
      BY <3>1, <3>2, <3>3 DEF Paged, Windowed
  <2>3. CASE Ended(s, batch)
    <3>1. more' = FALSE /\ returned' = returned \o page /\ pc' = "answered"
      BY <1>14, <2>1, <2>3 DEF Ended, Answer
    <3>2. more' <=> Len(Walked') > offset' + Limit
      <4>1. ~(Len(Walked') > offset' + Limit)
        BY <1>9, <1>10, <2>1, <2>3, Zenon
      <4> QED
        BY <3>1, <4>1, Zenon
    <3>3. IsSuffix(Window(Walked', offset', Limit), returned')
      BY <1>9, <1>10, <1>14, <1>16, <3>1
    <3> QED
      BY <3>1, <3>2, <3>3 DEF Paged, Windowed
  <2>4. CASE Continued(s, batch)
    <3>1. pc' = "scanning"
      BY <1>3, <2>4 DEF Continued
    <3>2. /\ scan'.skipped = Smaller(offset', Len(Passed'))
          /\ scan'.collected = Drop(Passed', offset')
      BY <1>10, <1>11, <2>1
    <3> QED
      BY <3>1, <3>2 DEF Paged, Windowed
  <2> QED
    BY <1>7, <2>2, <2>3, <2>4
<1>18. CASE ~quiet
  <2>1. ~quiet'
    BY <1>3, <1>18
  <2> QED
    BY <2>1 DEF Windowed, Paged
<1> QED
  BY <1>17, <1>18

LEMMA SearchPaged ==
    ASSUME Shape, Locals, Windowed, Paged, SearchStep
    PROVE  Windowed' /\ Paged'
<1>1. PICK cells : cells = Search(Limit + 1, offset)
  OBVIOUS
<1>2. PICK page : page = Window(cells, 0, Limit)
  OBVIOUS
<1>3. /\ kind = "search" /\ pc' = "answered" /\ offset' = offset
      /\ returned' = returned \o page
      /\ more' = (Len(cells) > Limit)
      /\ UNCHANGED <<rows, view, kind, quiet>>
  BY <1>1, <1>2 DEF SearchStep, Answer
<1>4. PICK r, n, m : r = Readable /\ n = offset /\ m = Limit
  OBVIOUS
<1>5. r \in Seq(CellId) /\ n \in Nat /\ m \in Nat /\ m + 1 \in Nat /\ returned \in Seq(CellId)
  BY <1>4, ListingType, ConstantTypes DEF Shape
<1>6. Walked' = r
  <2>1. Readable' = Readable
    BY <1>3 DEF Readable, Shown
  <2> QED
    BY <1>3, <1>4, <2>1 DEF Walked
<1>7. PICK d : d = Drop(r, n)
  OBVIOUS
<1>8. d \in Seq(CellId)
  BY <1>5, <1>7, TakeDrop
<1>9. cells = Take(d, m + 1)
  <2>1. cells = Window(r, n, m + 1)
    BY <1>1, <1>4 DEF Search, Readable
  <2> QED
    BY <1>5, <1>7, <2>1, WindowIsTakeDrop
<1>10. cells \in Seq(CellId)
  BY <1>5, <1>8, <1>9, TakeDrop
<1>11. page = Take(cells, m)
  BY <1>2, <1>4, <1>5, <1>10, FirstWindow
<1>12. page = Take(d, m)
  BY <1>5, <1>8, <1>9, <1>11, TakeOfTake
<1>13. Window(r, n, m) = page
  BY <1>5, <1>7, <1>12, WindowIsTakeDrop
<1>14. page \in Seq(CellId)
  BY <1>5, <1>8, <1>12, TakeDrop
<1>15. IsSuffix(page, returned \o page)
  BY <1>5, <1>14, SuffixOfConcat
<1>16. Len(cells) > m <=> Len(r) > n + m
  <2>1. /\ m + 1 <= Len(d) => Len(cells) = m + 1
        /\ Len(d) <= m + 1 => Len(cells) = Len(d)
    BY <1>5, <1>8, <1>9, TakeDrop
  <2>2. /\ n <= Len(r) => Len(d) = Len(r) - n
        /\ Len(r) <= n => Len(d) = 0
    BY <1>5, <1>7, TakeDrop
  <2>3. Len(r) \in Nat /\ Len(d) \in Nat
    BY <1>5, <1>8, LenProperties
  <2> QED
    BY <1>5, <2>1, <2>2, <2>3
<1>17. more' <=> Len(Walked') > offset' + Limit
  <2>1. more' = (Len(cells) > m)
    BY <1>3, <1>4
  <2>2. (Len(cells) > m) = (Len(r) > n + m)
    BY <1>16
  <2> QED
    BY <1>3, <1>4, <1>6, <2>1, <2>2
<1>18. IsSuffix(Window(Walked', offset', Limit), returned')
  BY <1>3, <1>4, <1>6, <1>13, <1>15
<1> QED
  BY <1>3, <1>17, <1>18 DEF Windowed, Paged

LEMMA NewScanWindowed ==
    ASSUME NEW n \in Nat, NEW l \in Seq(CellId), NEW S
    PROVE  /\ NewScan.skipped = Smaller(n, Len(Only(Take(l, NewScan.examined), S)))
           /\ NewScan.collected = Drop(Only(Take(l, NewScan.examined), S), n)
<1>1. Take(l, 0) = <<>>
  BY TakeNone
<1>2. Only(<<>>, S) = <<>>
  BY OnlyEmpty
<1>3. <<>> \in Seq(CellId) /\ Len(<<>>) = 0 /\ Len(<<>>) <= n
  BY EmptySeq
<1>4. Drop(<<>>, n) = <<>>
  BY <1>3, TakeAll
<1>5. Smaller(n, 0) = 0
  BY DEF Smaller
<1> QED
  BY <1>1, <1>2, <1>3, <1>4, <1>5, NewScanType

LEMMA NextPaged ==
    ASSUME Shape, Locals, Windowed, Paged, NextPage
    PROVE  Windowed' /\ Paged'
<1>1. rows' = rows /\ view' = view /\ pc = "answered"
  BY DEF NextPage
<1>2. CASE more
  <2>1. offset' = offset + Limit /\ scan' = NewScan /\ pc' = "scanning"
    BY <1>2 DEF NextPage
  <2>2. offset + Limit \in Nat
    BY ConstantTypes DEF Shape
  <2>3. Listing' = Listing /\ Shown' = Shown
    BY <1>1 DEF Listing, Shown, Matching
  <2>4. PICK l, S, n : l = Listing /\ S = Shown /\ n = offset + Limit
    OBVIOUS
  <2>5. l \in Seq(CellId) /\ n \in Nat
    BY <2>2, <2>4, ListingType
  <2>6. Passed' = Only(Take(l, NewScan.examined), S)
    BY <2>1, <2>3, <2>4 DEF Passed
  <2>7. /\ NewScan.skipped = Smaller(n, Len(Only(Take(l, NewScan.examined), S)))
        /\ NewScan.collected = Drop(Only(Take(l, NewScan.examined), S), n)
    BY <2>5, NewScanWindowed
  <2> QED
    BY <2>1, <2>4, <2>6, <2>7 DEF Windowed, Paged
<1>3. CASE ~more
  <2>1. pc' = "done"
    BY <1>3 DEF NextPage
  <2> QED
    BY <2>1 DEF Windowed, Paged
<1> QED
  BY <1>2, <1>3

LEMMA WritePaged ==
    ASSUME NEW c \in CellId, NEW v, NEW i, Write(c, v, i)
    PROVE  Windowed' /\ Paged'
<1>1. quiet' = FALSE
  BY DEF Write, Disturb
<1> QED
  BY <1>1 DEF Windowed, Paged

LEMMA InitPaged ==
    ASSUME Init
    PROVE  Windowed /\ Paged
<1>1. offset = 0 /\ scan = NewScan /\ pc = "scanning"
  BY DEF Init
<1>2. PICK l, S : l = Listing /\ S = Shown
  OBVIOUS
<1>3. l \in Seq(CellId)
  BY <1>2, InitLocals, ListingType
<1>4. Passed = Only(Take(l, NewScan.examined), S)
  BY <1>1, <1>2 DEF Passed
<1>5. /\ NewScan.skipped = Smaller(0, Len(Only(Take(l, NewScan.examined), S)))
      /\ NewScan.collected = Drop(Only(Take(l, NewScan.examined), S), 0)
  BY <1>3, NewScanWindowed
<1> QED
  BY <1>1, <1>4, <1>5 DEF Windowed, Paged

LEMMA StepPaged ==
    ASSUME Shape, Locals, Windowed, Paged, [Next]_vars
    PROVE  Windowed' /\ Paged'
<1>1. CASE ScanStep
  BY <1>1, ScanPaged
<1>2. CASE SearchStep
  BY <1>2, SearchPaged
<1>3. CASE NextPage
  BY <1>3, NextPaged
<1>4. ASSUME NEW c \in CellId, Rewrite(c) \/ Reorder(c) \/ Insert(c) \/ Purge(c)
      PROVE  Windowed' /\ Paged'
  BY <1>4, OthersWrite, WritePaged
<1>5. CASE UNCHANGED vars
  BY <1>5 DEF vars, server, history, Windowed, Paged, Passed, Listing, Readable, Shown, Matching, Walked
<1> QED
  BY <1>1, <1>2, <1>3, <1>4, <1>5 DEF Next

\* A page answered while nothing was written is the window of what the caller
\* may read, for any batch, ceiling, offset and store.
THEOREM PagesAreWindows == Spec => []PageIsWindow
<1> DEFINE IInv == Shape /\ Locals /\ Windowed /\ Paged
<1>1. Init => IInv
  BY InitLocals, InitPaged
<1>2. IInv /\ [Next]_vars => IInv'
  BY StepLocals, StepPaged
<1>3. IInv => PageIsWindow
  BY PagedIsWindow
<1> QED
  BY <1>1, <1>2, <1>3, PTL DEF Spec

-----------------------------------------------------------------------------
(* Where a cell stands when a sequence is cut.                              *)

\* The cell c, put somewhere in n, is in the first b cells of r, or after them.
PlacedEarly(r, n, c, b) ==
    \E k \in Nat : /\ b = k + 1
                   /\ ToSet(Take(r, b)) = ToSet(Take(n, k)) \cup {c}
                   /\ Drop(r, b) = Drop(n, k)

PlacedLate(r, n, c, b) ==
    /\ Take(r, b) = Take(n, b)
    /\ ToSet(Drop(r, b)) = ToSet(Drop(n, b)) \cup {c}

LEMMA SingleSeq ==
    ASSUME NEW T, NEW c \in T
    PROVE  <<c>> \in Seq(T)
OBVIOUS

LEMMA AroundIs ==
    ASSUME NEW T, NEW a \in Seq(T), NEW d \in Seq(T), NEW c \in T
    PROVE  Around(a, c, d) = a \o (<<c>> \o d)
<1>1. PICK y : y = <<c>>
  OBVIOUS
<1>2. y \in Seq(T)
  BY <1>1
<1>3. (a \o y) \o d = a \o (y \o d)
  BY <1>2, ConcatAssociative
<1> QED
  BY <1>1, <1>3 DEF Around

LEMMA AroundSeq ==
    ASSUME NEW T, NEW a \in Seq(T), NEW d \in Seq(T), NEW c \in T
    PROVE  Around(a, c, d) \in Seq(T)
<1>1. PICK y : y = <<c>>
  OBVIOUS
<1>2. y \in Seq(T)
  BY <1>1
<1>3. PICK x : x = a \o y
  OBVIOUS
<1>4. x \in Seq(T)
  BY <1>2, <1>3, ConcatProperties
<1>5. x \o d \in Seq(T)
  BY <1>4, ConcatProperties
<1> QED
  BY <1>1, <1>3, <1>5 DEF Around

LEMMA FirstThenOne ==
    ASSUME NEW T, NEW a \in Seq(T), NEW c \in T, NEW x, x = a \o <<c>>
    PROVE  x \in Seq(T) /\ Len(x) = Len(a) + 1
<1>1. PICK y : y = <<c>>
  OBVIOUS
<1>2. y \in Seq(T) /\ Len(y) = 1
  BY <1>1
<1> QED
  BY <1>1, <1>2, ConcatProperties

LEMMA AroundLength ==
    ASSUME NEW T, NEW a \in Seq(T), NEW d \in Seq(T), NEW c \in T
    PROVE  Len(Around(a, c, d)) = Len(a) + 1 + Len(d)
<1>1. PICK x : x = a \o <<c>>
  OBVIOUS
<1>2. x \in Seq(T) /\ Len(x) = Len(a) + 1
  BY <1>1, FirstThenOne
<1>3. Len(x \o d) = Len(x) + Len(d)
  BY <1>2, ConcatProperties
<1> QED
  BY <1>1, <1>2, <1>3 DEF Around

LEMMA ElementsAround ==
    ASSUME NEW T, NEW a \in Seq(T), NEW d \in Seq(T), NEW c \in T
    PROVE  ToSet(Around(a, c, d)) = ToSet(a \o d) \cup {c}
<1>1. PICK y : y = <<c>>
  OBVIOUS
<1>2. y \in Seq(T) /\ ToSet(y) = {c}
  BY <1>1, InjectiveSingleton
<1>3. PICK x : x = a \o y
  OBVIOUS
<1>4. x \in Seq(T)
  BY <1>2, <1>3, ConcatProperties
<1>5. ToSet(x \o d) = ToSet(x) \cup ToSet(d)
  BY <1>4, ElementsOfConcat
<1>6. ToSet(a \o y) = ToSet(a) \cup ToSet(y)
  BY <1>2, ElementsOfConcat
<1>7. ToSet(a \o d) = ToSet(a) \cup ToSet(d)
  BY ElementsOfConcat
<1>8. Around(a, c, d) = x \o d
  BY <1>1, <1>3 DEF Around
<1> QED
  BY <1>2, <1>3, <1>5, <1>6, <1>7, <1>8

LEMMA LateTake ==
    ASSUME NEW T, NEW a \in Seq(T), NEW d \in Seq(T), NEW c \in T, NEW n \in Nat, n <= Len(a)
    PROVE  /\ Take(Around(a, c, d), n) = Take(a \o d, n)
           /\ Take(a \o d, n) = Take(a, n)
           /\ PlacedLate(Around(a, c, d), a \o d, c, n)
<1>1. PICK y : y = <<c>> \o d
  OBVIOUS
<1>2. y \in Seq(T) /\ Around(a, c, d) = a \o y
  <2>1. <<c>> \in Seq(T)
    BY SingleSeq
  <2> QED
    BY <1>1, <2>1, AroundIs, ConcatProperties
<1>3. /\ \A v \in Seq(T) : Take(a \o v, n) = Take(a, n)
      /\ \A v \in Seq(T) : Drop(a \o v, n) = Drop(a, n) \o v
  BY TakeOfConcat
<1>4. /\ Take(a \o y, n) = Take(a, n) /\ Take(a \o d, n) = Take(a, n)
      /\ Drop(a \o y, n) = Drop(a, n) \o y /\ Drop(a \o d, n) = Drop(a, n) \o d
  BY <1>2, <1>3, Zenon
<1>5. PICK b : b = Drop(a, n)
  OBVIOUS
<1>6. b \in Seq(T)
  BY <1>5, TakeDrop
<1>7. b \o y = Around(b, c, d)
  BY <1>1, <1>6, AroundIs
<1>8. ToSet(Around(b, c, d)) = ToSet(b \o d) \cup {c}
  BY <1>6, ElementsAround
<1>9. /\ Take(Around(a, c, d), n) = Take(a \o d, n)
      /\ Take(a \o d, n) = Take(a, n)
  BY <1>2, <1>4
<1>10. ToSet(Drop(Around(a, c, d), n)) = ToSet(Drop(a \o d, n)) \cup {c}
  BY <1>2, <1>4, <1>5, <1>7, <1>8
<1> QED
  BY <1>9, <1>10 DEF PlacedLate

LEMMA EarlyTake ==
    ASSUME NEW T, NEW a \in Seq(T), NEW d \in Seq(T), NEW c \in T, NEW k \in Nat, Len(a) <= k
    PROVE  /\ Take(Around(a, c, d), k + 1) = Around(a, c, Take(d, k - Len(a)))
           /\ Take(a \o d, k) = a \o Take(d, k - Len(a))
           /\ PlacedEarly(Around(a, c, d), a \o d, c, k + 1)
<1>1. PICK x, n, j : x = a \o <<c>> /\ n = k + 1 /\ j = k - Len(a)
  OBVIOUS
<1>2. x \in Seq(T) /\ Len(x) = Len(a) + 1 /\ Around(a, c, d) = x \o d
  BY <1>1, FirstThenOne DEF Around
<1>3. Len(a) \in Nat
  BY LenProperties
<1>4. n \in Nat /\ j \in Nat /\ Len(x) <= n /\ n - Len(x) = j
  BY <1>1, <1>2, <1>3
<1>5. /\ Take(x \o d, n) = x \o Take(d, n - Len(x))
      /\ Drop(x \o d, n) = Drop(d, n - Len(x))
  BY <1>2, <1>4, TakePastFirst
<1>6. /\ Take(a \o d, k) = a \o Take(d, k - Len(a))
      /\ Drop(a \o d, k) = Drop(d, k - Len(a))
  BY TakePastFirst
<1>7. PICK t : t = Take(d, j)
  OBVIOUS
<1>8. t \in Seq(T)
  BY <1>4, <1>7, TakeDrop
<1>9. x \o t = Around(a, c, t)
  BY <1>1 DEF Around
<1>10. ToSet(Around(a, c, t)) = ToSet(a \o t) \cup {c}
  BY <1>8, ElementsAround
<1>11. /\ Take(Around(a, c, d), n) = Around(a, c, t) /\ Take(a \o d, k) = a \o t
       /\ Drop(Around(a, c, d), n) = Drop(a \o d, k)
  BY <1>1, <1>2, <1>4, <1>5, <1>6, <1>7, <1>9
<1>12. PlacedEarly(Around(a, c, d), a \o d, c, n)
  BY <1>1, <1>10, <1>11 DEF PlacedEarly
<1> QED
  BY <1>1, <1>7, <1>11, <1>12

\* Wherever a sequence is cut, a cell of it is before or after the cut.
LEMMA PlacedSomewhere ==
    ASSUME NEW c \in CellId, NEW n \in Seq(CellId \ {c}), NEW r, Placed(r, n, c), NEW b \in Nat
    PROVE  PlacedEarly(r, n, c, b) \/ PlacedLate(r, n, c, b)
<1>1. PICK a \in Seq(CellId \ {c}), d \in Seq(CellId \ {c}) : n = a \o d /\ r = Around(a, c, d)
  BY DEF Placed
<1>2. a \in Seq(CellId) /\ d \in Seq(CellId)
  BY SeqMonotonic
<1>3. Len(a) \in Nat
  BY LenProperties
<1>4. CASE b <= Len(a)
  BY <1>1, <1>2, <1>4, LateTake
<1>5. CASE ~(b <= Len(a))
  <2>1. PICK k \in Nat : b = k + 1
    <3>1. b - 1 \in Nat /\ b = (b - 1) + 1
      BY <1>3, <1>5
    <3> QED
      BY <3>1
  <2>2. Len(a) <= k
    BY <1>3, <1>5, <2>1
  <2> QED
    BY <1>1, <1>2, <2>1, <2>2, EarlyTake
<1> QED
  BY <1>4, <1>5

-----------------------------------------------------------------------------
(* What one cell among the others adds to a count.                          *)

Mark(c, cells) == IF c \in cells THEN 1 ELSE 0

LEMMA MarkType ==
    ASSUME NEW c, NEW cells
    PROVE  /\ Mark(c, cells) \in Nat /\ Mark(c, cells) <= 1
           /\ c \notin cells => Mark(c, cells) = 0
           /\ c \in cells => Mark(c, cells) = 1
BY DEF Mark

LEMMA CountOfOthers ==
    ASSUME NEW c \in CellId, NEW s \in Seq(CellId \ {c}), NEW cells
    PROVE  CountIn(cells, s) = CountIn(cells \ {c}, s)
<1>1. ToSet(s) \subseteq CellId \ {c}
  BY ElementsOf
<1>2. cells \cap ToSet(s) = (cells \ {c}) \cap ToSet(s)
  BY <1>1
<1> QED
  BY <1>2 DEF CountIn

LEMMA CountWithIt ==
    ASSUME NEW c \in CellId, NEW s \in Seq(CellId \ {c}), NEW t,
           ToSet(t) = ToSet(s) \cup {c}, NEW cells
    PROVE  CountIn(cells, t) = CountIn(cells \ {c}, s) + Mark(c, cells)
<1>1. ToSet(s) \subseteq CellId \ {c}
  BY ElementsOf
<1>2. PICK x : x = (cells \ {c}) \cap ToSet(s)
  OBVIOUS
<1>3. IsFiniteSet(x) /\ Cardinality(x) \in Nat
  BY <1>2, CountType DEF CountIn
<1>4. c \notin x
  BY <1>2
<1>5. CASE c \in cells
  <2>1. cells \cap ToSet(t) = x \cup {c}
    BY <1>1, <1>2, <1>5
  <2>2. Cardinality(x \cup {c}) = Cardinality(x) + 1
    BY <1>3, <1>4, FS_AddElement
  <2> QED
    BY <1>2, <1>5, <2>1, <2>2 DEF CountIn, Mark
<1>6. CASE c \notin cells
  <2>1. cells \cap ToSet(t) = x
    BY <1>1, <1>2, <1>6
  <2> QED
    <3>1. PICK k : k = Cardinality(x)
      OBVIOUS
    <3>2. k \in Nat /\ k + 0 = k
      BY <1>3, <3>1
    <3>3. CountIn(cells, t) = k /\ CountIn(cells \ {c}, s) = k /\ Mark(c, cells) = 0
      BY <1>2, <1>6, <2>1, <3>1, MarkType DEF CountIn
    <3> QED
      BY <3>2, <3>3
<1> QED
  BY <1>5, <1>6

LEMMA CountEarly ==
    ASSUME NEW c \in CellId, NEW n \in Seq(CellId \ {c}), NEW r, NEW b \in Nat,
           PlacedEarly(r, n, c, b), NEW cells
    PROVE  \E k \in Nat : /\ b = k + 1
                          /\ CountIn(cells, Take(r, b))
                               = CountIn(cells \ {c}, Take(n, k)) + Mark(c, cells)
                          /\ CountIn(cells, Drop(r, b)) = CountIn(cells \ {c}, Drop(n, k))
<1>1. PICK k \in Nat : /\ b = k + 1
                       /\ ToSet(Take(r, b)) = ToSet(Take(n, k)) \cup {c}
                       /\ Drop(r, b) = Drop(n, k)
  BY DEF PlacedEarly
<1>2. PICK s, d : s = Take(n, k) /\ d = Drop(n, k)
  OBVIOUS
<1>3. s \in Seq(CellId \ {c}) /\ d \in Seq(CellId \ {c})
  BY <1>2, TakeDrop
<1>4. CountIn(cells, Take(r, b)) = CountIn(cells \ {c}, s) + Mark(c, cells)
  <2>1. PICK t : t = Take(r, b)
    OBVIOUS
  <2>2. ToSet(t) = ToSet(s) \cup {c}
    BY <1>1, <1>2, <2>1
  <2>3. CountIn(cells, t) = CountIn(cells \ {c}, s) + Mark(c, cells)
    BY <1>3, <2>2, CountWithIt
  <2> QED
    BY <2>1, <2>3
<1>5. CountIn(cells, d) = CountIn(cells \ {c}, d)
  BY <1>3, CountOfOthers
<1> QED
  BY <1>1, <1>2, <1>4, <1>5

LEMMA CountLate ==
    ASSUME NEW c \in CellId, NEW n \in Seq(CellId \ {c}), NEW r, NEW b \in Nat,
           PlacedLate(r, n, c, b), NEW cells
    PROVE  /\ CountIn(cells, Take(r, b)) = CountIn(cells \ {c}, Take(n, b))
           /\ CountIn(cells, Drop(r, b)) = CountIn(cells \ {c}, Drop(n, b)) + Mark(c, cells)
<1>1. PICK s, d : s = Take(n, b) /\ d = Drop(n, b)
  OBVIOUS
<1>2. s \in Seq(CellId \ {c}) /\ d \in Seq(CellId \ {c})
  BY <1>1, TakeDrop
<1>3. Take(r, b) = s /\ ToSet(Drop(r, b)) = ToSet(d) \cup {c}
  BY <1>1 DEF PlacedLate
<1>4. CountIn(cells, s) = CountIn(cells \ {c}, s)
  BY <1>2, CountOfOthers
<1>5. CountIn(cells, Drop(r, b)) = CountIn(cells \ {c}, d) + Mark(c, cells)
  BY <1>2, <1>3, CountWithIt
<1> QED
  BY <1>1, <1>3, <1>4, <1>5

LEMMA CountAbsent ==
    ASSUME NEW c \in CellId, NEW n \in Seq(CellId \ {c}), NEW b \in Nat, NEW cells
    PROVE  /\ CountIn(cells, Take(n, b)) = CountIn(cells \ {c}, Take(n, b))
           /\ CountIn(cells, Drop(n, b)) = CountIn(cells \ {c}, Drop(n, b))
<1>1. PICK s, d : s = Take(n, b) /\ d = Drop(n, b)
  OBVIOUS
<1>2. s \in Seq(CellId \ {c}) /\ d \in Seq(CellId \ {c})
  BY <1>1, TakeDrop
<1> QED
  BY <1>1, <1>2, CountOfOthers

LEMMA DropAbsent ==
    ASSUME NEW c \in CellId, NEW n \in Seq(CellId \ {c}), NEW b \in Nat, NEW cells
    PROVE  CountIn(cells, Drop(n, b)) = CountIn(cells \ {c}, Drop(n, b))
<1>1. PICK d : d = Drop(n, b)
  OBVIOUS
<1>2. d \in Seq(CellId \ {c})
  BY <1>1, TakeDrop
<1> QED
  BY <1>1, <1>2, CountOfOthers

LEMMA TakeLate ==
    ASSUME NEW c \in CellId, NEW n \in Seq(CellId \ {c}), NEW r, NEW b \in Nat,
           PlacedLate(r, n, c, b), NEW cells
    PROVE  CountIn(cells, Take(r, b)) = CountIn(cells \ {c}, Take(n, b))
<1>1. PICK s : s = Take(n, b)
  OBVIOUS
<1>2. s \in Seq(CellId \ {c})
  BY <1>1, TakeDrop
<1>3. Take(r, b) = s
  BY <1>1 DEF PlacedLate
<1> QED
  BY <1>1, <1>2, <1>3, CountOfOthers

LEMMA DropEarly ==
    ASSUME NEW c \in CellId, NEW n \in Seq(CellId \ {c}), NEW r, NEW b \in Nat,
           PlacedEarly(r, n, c, b), NEW cells
    PROVE  \E k \in Nat : b = k + 1 /\ CountIn(cells, Drop(r, b)) = CountIn(cells \ {c}, Drop(n, k))
<1>1. PICK k \in Nat : b = k + 1 /\ Drop(r, b) = Drop(n, k)
  BY DEF PlacedEarly
<1>2. CountIn(cells, Drop(n, k)) = CountIn(cells \ {c}, Drop(n, k))
  BY DropAbsent
<1> QED
  BY <1>1, <1>2

LEMMA CountsAreNumbers ==
    ASSUME NEW T, NEW n \in Seq(T), NEW b \in Nat, NEW cells
    PROVE  CountIn(cells, Take(n, b)) \in Nat /\ CountIn(cells, Drop(n, b)) \in Nat
<1>1. Take(n, b) \in Seq(T) /\ Drop(n, b) \in Seq(T)
  BY TakeDrop
<1> QED
  BY <1>1, CountType

LEMMA CountOneMore ==
    ASSUME NEW T, NEW n \in Seq(T), NEW k \in Nat, NEW cells
    PROVE  /\ CountIn(cells, Take(n, k)) <= CountIn(cells, Take(n, k + 1))
           /\ CountIn(cells, Take(n, k + 1)) <= CountIn(cells, Take(n, k)) + 1
           /\ CountIn(cells, Drop(n, k + 1)) <= CountIn(cells, Drop(n, k))
           /\ CountIn(cells, Drop(n, k)) <= CountIn(cells, Drop(n, k + 1)) + 1
BY CountOfTake

\* At any place, the cell c adds or takes no more than itself.
LEMMA CountPlaced ==
    ASSUME NEW c \in CellId, NEW n \in Seq(CellId \ {c}), NEW r, r = n \/ Placed(r, n, c),
           NEW b \in Nat, NEW cells
    PROVE  /\ CountIn(cells, Take(r, b)) <= CountIn(cells \ {c}, Take(n, b)) + Mark(c, cells)
           /\ CountIn(cells \ {c}, Take(n, b)) + Mark(c, cells) <= CountIn(cells, Take(r, b)) + 1
           /\ CountIn(cells \ {c}, Drop(n, b)) <= CountIn(cells, Drop(r, b))
           /\ CountIn(cells, Drop(r, b)) <= CountIn(cells \ {c}, Drop(n, b)) + 1
<1>1. PICK rest, g, h, e : /\ rest = cells \ {c} /\ e = Mark(c, cells)
                           /\ g = CountIn(rest, Take(n, b)) /\ h = CountIn(rest, Drop(n, b))
  OBVIOUS
<1>2. g \in Nat /\ h \in Nat /\ e \in Nat /\ e <= 1
  BY <1>1, CountsAreNumbers, MarkType
<1>0. PICK u, w : u = CountIn(cells, Take(r, b)) /\ w = CountIn(cells, Drop(r, b))
  OBVIOUS
<1> SUFFICES u <= g + e /\ g + e <= u + 1 /\ h <= w /\ w <= h + 1
  BY <1>0, <1>1
<1>3. CASE r = n
  <2>1. CountIn(cells, Take(n, b)) = g /\ CountIn(cells, Drop(n, b)) = h
    BY <1>1, CountAbsent
  <2> QED
    BY <1>0, <1>2, <1>3, <2>1
<1>4. CASE PlacedEarly(r, n, c, b)
  <2>1. PICK k \in Nat : /\ b = k + 1
                         /\ CountIn(cells, Take(r, b)) = CountIn(rest, Take(n, k)) + e
                         /\ CountIn(cells, Drop(r, b)) = CountIn(rest, Drop(n, k))
    BY <1>1, <1>4, CountEarly
  <2>2. /\ CountIn(rest, Take(n, k)) <= CountIn(rest, Take(n, k + 1))
        /\ CountIn(rest, Take(n, k + 1)) <= CountIn(rest, Take(n, k)) + 1
        /\ CountIn(rest, Drop(n, k + 1)) <= CountIn(rest, Drop(n, k))
        /\ CountIn(rest, Drop(n, k)) <= CountIn(rest, Drop(n, k + 1)) + 1
    BY CountOneMore
  <2>3. CountIn(rest, Take(n, k)) \in Nat /\ CountIn(rest, Drop(n, k)) \in Nat
    BY CountsAreNumbers
  <2>4. PICK x, y : x = CountIn(rest, Take(n, k)) /\ y = CountIn(rest, Drop(n, k))
    OBVIOUS
  <2>5. x \in Nat /\ y \in Nat /\ x <= g /\ g <= x + 1 /\ h <= y /\ y <= h + 1
    BY <1>1, <2>1, <2>2, <2>3, <2>4
  <2>6. u = x + e /\ w = y
    BY <1>0, <2>1, <2>4
  <2> QED
    BY <1>2, <2>5, <2>6
<1>5. CASE PlacedLate(r, n, c, b)
  <2>1. u = g /\ w = h + e
    BY <1>0, <1>1, <1>5, CountLate
  <2> QED
    BY <1>2, <2>1
<1> QED
  BY <1>3, <1>4, <1>5, PlacedSomewhere

-----------------------------------------------------------------------------
(* A cell among the others when the listing is cut between two batches.     *)

LEMMA OnlyShorter ==
    ASSUME NEW T, NEW s \in Seq(T), NEW S
    PROVE  Len(Only(s, S)) <= Len(s)
<1> DEFINE P == {r \in Seq(T) : Len(Only(r, S)) <= Len(r)}
<1>1. <<>> \in P
  BY OnlyEmpty, EmptySeq
<1>2. ASSUME NEW r \in Seq(T), NEW x \in T, r \in P PROVE Append(r, x) \in P
  <2>1. Only(Append(r, x), S) = IF x \in S THEN Append(Only(r, S), x) ELSE Only(r, S)
    BY OnlyAppend
  <2>2. PICK u : u = Only(r, S)
    OBVIOUS
  <2>3. u \in Seq(T) /\ Len(u) \in Nat /\ Len(r) \in Nat /\ Len(u) <= Len(r)
    BY <1>2, <2>2, OnlySeq, LenProperties
  <2>4. Len(Append(u, x)) = Len(u) + 1 /\ Len(Append(r, x)) = Len(r) + 1
    BY <2>3, AppendProperties
  <2>5. Len(Only(Append(r, x), S)) <= Len(Append(r, x))
    BY <2>1, <2>2, <2>3, <2>4
  <2> QED
    BY <2>5, AppendProperties
<1>3. Seq(T) \subseteq P
  <2> HIDE DEF P
  <2> QED
    BY <1>1, <1>2, SequencesByInduction
<1> QED
  BY <1>3

LEMMA OnlyConcats ==
    ASSUME NEW T, NEW S
    PROVE  \A u, v \in Seq(T) : Only(u \o v, S) = Only(u, S) \o Only(v, S)
BY OnlyConcat

LEMMA CutBounds ==
    ASSUME NEW T, NEW n \in Seq(T), NEW S, NEW k \in Nat,
           NEW lo, lo = Len(Only(Take(n, k), S)), NEW hi, hi = Len(Only(Take(n, k + 1), S))
    PROVE  lo \in Nat /\ hi \in Nat /\ lo <= hi /\ hi <= lo + 1
<1>1. PICK a, d : a = Take(n, k) /\ d = Drop(n, k)
  OBVIOUS
<1>2. a \in Seq(T) /\ d \in Seq(T)
  BY <1>1, TakeDrop
<1>3. PICK t : t = Take(d, 1)
  OBVIOUS
<1>4. t \in Seq(T) /\ Len(t) <= 1
  BY <1>2, <1>3, TakeLength
<1>5. Take(n, k + 1) = a \o t
  BY <1>1, <1>3, TakeMore
<1>6. Only(a \o t, S) = Only(a, S) \o Only(t, S)
  <2>1. \A u, v \in Seq(T) : Only(u \o v, S) = Only(u, S) \o Only(v, S)
    BY OnlyConcat
  <2> QED
    BY <1>2, <1>4, <2>1, Zenon
<1>7. PICK x, y : x = Only(a, S) /\ y = Only(t, S)
  OBVIOUS
<1>8. x \in Seq(T) /\ y \in Seq(T)
  BY <1>2, <1>4, <1>7, OnlySeq
<1>9. Len(x \o y) = Len(x) + Len(y) /\ Len(x) \in Nat /\ Len(y) \in Nat
  BY <1>8, ConcatProperties, LenProperties
<1>10. Len(y) <= Len(t) /\ Len(t) \in Nat
  BY <1>4, <1>7, OnlyShorter, LenProperties
<1>11. lo = Len(x) /\ hi = Len(x) + Len(y)
  BY <1>1, <1>5, <1>6, <1>7, <1>9
<1> QED
  BY <1>4, <1>9, <1>10, <1>11

\* How many readable cells were passed (m), and where the cell c is: the first
\* e cells of the listing l were examined, o readable ones are to be skipped, r
\* is what is readable of l, q what is readable without c. Of the others, lo or
\* hi readable ones were passed.
Apart(r, q, m, hi) == m = hi /\ r = q

Hidden(l, r, q, m, lo, e, S, c) ==
    m = lo /\ r = q /\ c \in ToSet(Take(l, e)) /\ c \notin S

Inside(r, q, m, lo, o, c) == m = lo + 1 /\ PlacedEarly(r, q, c, m + o)

Near(r, q, m, hi, o, c) == m = hi /\ PlacedEarly(r, q, c, m + o)

Ahead(l, r, q, m, hi, e, o, S, c) ==
    m = hi /\ PlacedLate(r, q, c, m + o) /\ c \notin ToSet(Take(l, e)) /\ c \in S

Cut(l, r, q, m, lo, hi, e, o, S, c) ==
    \/ Apart(r, q, m, hi)
    \/ Hidden(l, r, q, m, lo, e, S, c)
    \/ Inside(r, q, m, lo, o, c)
    \/ Near(r, q, m, hi, o, c)
    \/ Ahead(l, r, q, m, hi, e, o, S, c)

LEMMA CutBefore ==
    ASSUME NEW c \in CellId, NEW a \in Seq(CellId \ {c}), NEW d \in Seq(CellId \ {c}), NEW S,
           NEW k \in Nat, k + 1 <= Len(a), NEW o \in Nat,
           NEW l, l = Around(a, c, d), NEW n, n = a \o d, NEW r, r = Only(l, S),
           NEW q, q = Only(n, S), NEW hi, hi = Len(Only(Take(n, k + 1), S)),
           NEW m, m = Len(Only(Take(l, k + 1), S))
    PROVE  Apart(r, q, m, hi) \/ Near(r, q, m, hi, o, c) \/ Ahead(l, r, q, m, hi, k + 1, o, S, c)
<1>1. a \in Seq(CellId) /\ d \in Seq(CellId)
  BY SeqMonotonic
<1>2. n \in Seq(CellId \ {c})
  BY ConcatProperties
<1>3. PICK e : e = k + 1
  OBVIOUS
<1>4. e \in Nat /\ e <= Len(a)
  BY <1>3
<1>5. Take(l, e) = Take(n, e)
  BY <1>1, <1>4, LateTake
<1>6. m = hi
  BY <1>3, <1>5
<1>7. PICK x, y : x = Only(a, S) /\ y = Only(d, S)
  OBVIOUS
<1>8. x \in Seq(CellId \ {c}) /\ y \in Seq(CellId \ {c})
  BY <1>7, OnlySeq
<1>9. q = x \o y
  <2>1. \A u, v \in Seq(CellId) : Only(u \o v, S) = Only(u, S) \o Only(v, S)
    BY OnlyConcats, Zenon
  <2>2. Only(a \o d, S) = Only(a, S) \o Only(d, S)
    BY <1>1, <2>1, Zenon
  <2> QED
    BY <1>7, <2>2
<1>10. CASE c \notin S
  <2>1. Only(Around(a, c, d), S) = Only(a, S) \o Only(d, S)
    <3>1. \A u, v \in Seq(CellId) : Only(Around(u, c, v), S) = Only(u, S) \o Only(v, S)
      BY <1>10, OnlyOfOthers
    <3> QED
      BY <1>1, <3>1, Zenon
  <2> QED
    BY <1>6, <1>7, <1>9, <2>1 DEF Apart
<1>11. CASE c \in S
  <2>1. Only(Around(a, c, d), S) = Around(Only(a, S), c, Only(d, S))
    BY <1>1, <1>11, OnlyWithIt
  <2>2. Placed(r, q, c)
    BY <1>7, <1>8, <1>9, <2>1 DEF Placed
  <2>3. q \in Seq(CellId \ {c})
    BY <1>2, OnlySeq
  <2>4. Take(n, e) \in Seq(CellId \ {c})
    BY <1>2, <1>4, TakeDrop
  <2>5. c \notin ToSet(Take(l, e))
    BY <1>5, <2>4, ElementsOf
  <2>6. m \in Nat
    <3>1. Only(Take(n, e), S) \in Seq(CellId \ {c})
      BY <2>4, OnlySeq
    <3> QED
      BY <1>3, <1>6, <3>1, LenProperties
  <2>7. m + o \in Nat
    BY <2>6
  <2>8. PlacedEarly(r, q, c, m + o) \/ PlacedLate(r, q, c, m + o)
    BY <2>2, <2>3, <2>7, PlacedSomewhere
  <2> QED
    BY <1>3, <1>6, <1>11, <2>5, <2>8 DEF Near, Ahead
<1> QED
  BY <1>10, <1>11

LEMMA CutAfter ==
    ASSUME NEW c \in CellId, NEW a \in Seq(CellId \ {c}), NEW d \in Seq(CellId \ {c}), NEW S,
           NEW k \in Nat, Len(a) <= k, NEW o \in Nat,
           NEW l, l = Around(a, c, d), NEW n, n = a \o d, NEW r, r = Only(l, S),
           NEW q, q = Only(n, S), NEW lo, lo = Len(Only(Take(n, k), S)),
           NEW m, m = Len(Only(Take(l, k + 1), S))
    PROVE  Hidden(l, r, q, m, lo, k + 1, S, c) \/ Inside(r, q, m, lo, o, c)
<1>1. a \in Seq(CellId) /\ d \in Seq(CellId)
  BY SeqMonotonic
<1>2. k - Len(a) \in Nat
  BY LenProperties
<1>3. PICK t : t = Take(d, k - Len(a))
  OBVIOUS
<1>4. t \in Seq(CellId \ {c}) /\ t \in Seq(CellId)
  BY <1>1, <1>2, <1>3, TakeDrop
<1>5. Take(l, k + 1) = Around(a, c, t) /\ Take(n, k) = a \o t
  BY <1>1, <1>3, EarlyTake
<1>6. PICK x, y, z : x = Only(a, S) /\ y = Only(d, S) /\ z = Only(t, S)
  OBVIOUS
<1>7. x \in Seq(CellId) /\ y \in Seq(CellId) /\ z \in Seq(CellId)
  BY <1>1, <1>4, <1>6, OnlySeq
<1>0. \A u, v \in Seq(CellId) : Only(u \o v, S) = Only(u, S) \o Only(v, S)
  BY OnlyConcats, Zenon
<1>8. q = x \o y
  <2>1. Only(a \o d, S) = Only(a, S) \o Only(d, S)
    BY <1>0, <1>1, Zenon
  <2> QED
    BY <1>6, <2>1
<1>9. Only(a \o t, S) = x \o z
  <2>1. Only(a \o t, S) = Only(a, S) \o Only(t, S)
    BY <1>0, <1>1, <1>4, Zenon
  <2> QED
    BY <1>6, <2>1
<1>10. Len(x \o z) = Len(x) + Len(z) /\ Len(x) \in Nat /\ Len(z) \in Nat
  BY <1>7, ConcatProperties, LenProperties
<1>11. lo = Len(x) + Len(z)
  BY <1>5, <1>9, <1>10
<1>12. CASE c \notin S
  <2>0. \A u, v \in Seq(CellId) : Only(Around(u, c, v), S) = Only(u, S) \o Only(v, S)
    BY <1>12, OnlyOfOthers
  <2>1. Only(Around(a, c, d), S) = Only(a, S) \o Only(d, S)
    BY <1>1, <2>0, Zenon
  <2>2. Only(Around(a, c, t), S) = Only(a, S) \o Only(t, S)
    BY <1>1, <1>4, <2>0, Zenon
  <2>3. ToSet(Around(a, c, t)) = ToSet(a \o t) \cup {c}
    BY <1>1, <1>4, ElementsAround
  <2>4. r = q
    BY <1>6, <1>8, <2>1
  <2>5. m = lo
    BY <1>5, <1>6, <1>9, <2>2
  <2>6. c \in ToSet(Take(l, k + 1))
    BY <1>5, <2>3
  <2> QED
    BY <1>12, <2>4, <2>5, <2>6 DEF Hidden
<1>13. CASE c \in S
  <2>1. Only(Around(a, c, d), S) = Around(Only(a, S), c, Only(d, S))
    BY <1>1, <1>13, OnlyWithIt
  <2>2. Only(Around(a, c, t), S) = Around(Only(a, S), c, Only(t, S))
    BY <1>1, <1>4, <1>13, OnlyWithIt
  <2>3. r = Around(x, c, y)
    BY <1>6, <2>1
  <2>4. Len(Around(x, c, z)) = Len(x) + 1 + Len(z)
    BY <1>7, AroundLength
  <2>5. m = Len(x) + 1 + Len(z)
    BY <1>5, <1>6, <2>2, <2>4
  <2>6. PICK j : j = lo + o
    OBVIOUS
  <2>7. j \in Nat /\ Len(x) <= j /\ m = lo + 1 /\ m + o = j + 1
    <3>1. PICK f, g : f = Len(x) /\ g = Len(z)
      OBVIOUS
    <3>2. f \in Nat /\ g \in Nat /\ lo = f + g /\ m = f + 1 + g /\ j = lo + o
      BY <1>10, <1>11, <2>5, <2>6, <3>1
    <3>3. j \in Nat /\ f <= j
      BY <3>2
    <3>4. m = lo + 1
      BY <3>2
    <3>5. lo \in Nat
      BY <3>2
    <3>6. (lo + 1) + o = (lo + o) + 1
      BY <3>5
    <3> QED
      BY <3>1, <3>2, <3>3, <3>4, <3>6, Zenon
  <2>8. PlacedEarly(Around(x, c, y), x \o y, c, j + 1)
    BY <1>7, <2>7, EarlyTake
  <2> QED
    BY <1>8, <2>3, <2>7, <2>8 DEF Inside
<1> QED
  BY <1>12, <1>13

LEMMA Cutting ==
    ASSUME NEW c \in CellId, NEW n \in Seq(CellId \ {c}), NEW l, l = n \/ Placed(l, n, c), NEW S,
           NEW k \in Nat, NEW o \in Nat, NEW r, r = Only(l, S), NEW q, q = Only(n, S),
           NEW lo, lo = Len(Only(Take(n, k), S)), NEW hi, hi = Len(Only(Take(n, k + 1), S)),
           NEW m, m = Len(Only(Take(l, k + 1), S))
    PROVE  Cut(l, r, q, m, lo, hi, k + 1, o, S, c)
<1>1. CASE l = n
  BY <1>1 DEF Cut, Apart
<1>2. CASE Placed(l, n, c)
  <2>1. PICK a \in Seq(CellId \ {c}), d \in Seq(CellId \ {c}) : n = a \o d /\ l = Around(a, c, d)
    BY <1>2 DEF Placed
  <2>2. k + 1 <= Len(a) \/ Len(a) <= k
    BY LenProperties
  <2>3. CASE k + 1 <= Len(a)
    <3>1. Apart(r, q, m, hi) \/ Near(r, q, m, hi, o, c) \/ Ahead(l, r, q, m, hi, k + 1, o, S, c)
      BY <2>1, <2>3, CutBefore
    <3> QED
      BY <3>1 DEF Cut
  <2>4. CASE Len(a) <= k
    <3>1. Hidden(l, r, q, m, lo, k + 1, S, c) \/ Inside(r, q, m, lo, o, c)
      BY <2>1, <2>4, CutAfter
    <3> QED
      BY <3>1 DEF Cut
  <2> QED
    BY <2>2, <2>3, <2>4
<1> QED
  BY <1>1, <1>2

-----------------------------------------------------------------------------
(* What a walk in the middle of a scan has missed and will repeat, whatever *)
(* place the cell c takes: the counts differ by no more than one.           *)

LEMMA ExcessType ==
    \A x, y \in Nat : /\ Excess(x, y) \in Nat
                      /\ Excess(x, y + 1) <= Excess(x, y) /\ Excess(x, y) <= Excess(x, y + 1) + 1
                      /\ Excess(x, y) <= Excess(x + 1, y) /\ Excess(x + 1, y) <= Excess(x, y) + 1
BY DEF Excess

\* v is in the band of two values in which what the walk has missed stays when
\* c is written: g1 and g0 count the others, ex is the excess of what was seen.
MissedBand(v, lo, hi, g1, g0, ex, mark) ==
    /\ lo = hi => g0 + ex + mark <= v + 1 /\ v <= g0 + ex + mark
    /\ lo < hi => g1 + ex <= v /\ v <= g1 + ex + 1

LEMMA MissedInCut ==
    ASSUME NEW c \in CellId, NEW q \in Seq(CellId \ {c}), NEW l, NEW r, r = q \/ Placed(r, q, c),
           NEW lo \in Nat, NEW hi \in Nat, lo <= hi, hi <= lo + 1, NEW m \in Nat,
           NEW e, NEW o \in Nat, NEW S, NEW seen \in Nat, NEW cells,
           Cut(l, r, q, m, lo, hi, e, o, S, c)
    PROVE  MissedBand(CountIn(cells, Take(r, m + o)) + Excess(seen, m), lo, hi,
                      CountIn(cells \ {c}, Take(q, lo + o)),
                      CountIn(cells \ {c}, Take(q, hi + o)),
                      Excess(seen, hi), Mark(c, cells))
<1>1. PICK rest, g1, g0, u, mark :
         /\ rest = cells \ {c} /\ mark = Mark(c, cells)
         /\ g1 = CountIn(rest, Take(q, lo + o)) /\ g0 = CountIn(rest, Take(q, hi + o))
         /\ u = CountIn(cells, Take(r, m + o))
  OBVIOUS
<1>2. PICK x1, x0, xm : x1 = Excess(seen, lo) /\ x0 = Excess(seen, hi) /\ xm = Excess(seen, m)
  OBVIOUS
<1>3. lo + o \in Nat /\ hi + o \in Nat /\ m + o \in Nat
  OBVIOUS
<1>4. g1 \in Nat /\ g0 \in Nat /\ mark \in Nat /\ mark <= 1
  BY <1>1, <1>3, CountsAreNumbers, MarkType
<1>5. hi = lo \/ hi = lo + 1
  OBVIOUS
<1>6. /\ hi = lo => g0 = g1 /\ x0 = x1
      /\ hi = lo + 1 => g1 <= g0 /\ g0 <= g1 + 1 /\ x0 <= x1 /\ x1 <= x0 + 1
  <2>1. ASSUME hi = lo + 1 PROVE g1 <= g0 /\ g0 <= g1 + 1 /\ x0 <= x1 /\ x1 <= x0 + 1
    <3>1. hi + o = (lo + o) + 1
      BY <2>1
    <3>2. /\ CountIn(rest, Take(q, lo + o)) <= CountIn(rest, Take(q, (lo + o) + 1))
          /\ CountIn(rest, Take(q, (lo + o) + 1)) <= CountIn(rest, Take(q, lo + o)) + 1
      BY <1>3, CountOneMore
    <3>3. Excess(seen, lo + 1) <= Excess(seen, lo) /\ Excess(seen, lo) <= Excess(seen, lo + 1) + 1
      BY ExcessType
    <3> QED
      BY <1>1, <1>2, <2>1, <3>1, <3>2, <3>3
  <2> QED
    BY <1>1, <1>2, <2>1
<1>7. x1 \in Nat /\ x0 \in Nat /\ xm \in Nat
  BY <1>2, ExcessType
<1>8. /\ u <= CountIn(rest, Take(q, m + o)) + mark
      /\ CountIn(rest, Take(q, m + o)) + mark <= u + 1
  BY <1>1, <1>3, CountPlaced
<1>9. u \in Nat
  <2>1. r \in Seq(CellId)
    BY SeqMonotonic, PlacedType
  <2> QED
    BY <1>1, <1>3, <2>1, CountsAreNumbers
<1> SUFFICES MissedBand(u + xm, lo, hi, g1, g0, x0, mark)
  BY <1>1, <1>2
<1>10. CASE Apart(r, q, m, hi)
  <2>1. u = g0
    BY <1>1, <1>3, <1>10, CountAbsent DEF Apart
  <2>2. xm = x0
    BY <1>2, <1>10 DEF Apart
  <2> QED
    BY <1>4, <1>5, <1>6, <1>7, <2>1, <2>2 DEF MissedBand
<1>11. CASE Hidden(l, r, q, m, lo, e, S, c)
  <2>1. u = g1
    BY <1>1, <1>3, <1>11, CountAbsent DEF Hidden
  <2>2. xm = x1
    BY <1>2, <1>11 DEF Hidden
  <2> QED
    BY <1>4, <1>5, <1>6, <1>7, <2>1, <2>2 DEF MissedBand
<1>12. CASE Inside(r, q, m, lo, o, c)
  <2>1. PICK k \in Nat : m + o = k + 1 /\ u = CountIn(rest, Take(q, k)) + mark
    BY <1>1, <1>3, <1>12, CountEarly DEF Inside
  <2>2. m = lo + 1
    BY <1>12 DEF Inside
  <2>3. k = lo + o
    BY <2>1, <2>2
  <2>4. u = g1 + mark
    BY <1>1, <2>1, <2>3
  <2>5. xm <= x1 /\ x1 <= xm + 1
    BY <1>2, <2>2, ExcessType
  <2>6. hi = lo + 1 => xm = x0
    BY <1>2, <2>2
  <2> QED
    BY <1>4, <1>5, <1>6, <1>7, <2>4, <2>5, <2>6 DEF MissedBand
<1>13. CASE Near(r, q, m, hi, o, c)
  <2>1. PICK k \in Nat : m + o = k + 1 /\ u = CountIn(rest, Take(q, k)) + mark
    BY <1>1, <1>3, <1>13, CountEarly DEF Near
  <2>2. m = hi /\ xm = x0
    BY <1>2, <1>13 DEF Near
  <2>3. u <= g0 + mark /\ g0 + mark <= u + 1
    BY <1>1, <1>8, <2>2
  <2>4. hi = lo + 1 => u = g1 + mark
    <3>1. hi = lo + 1 => k = lo + o
      BY <2>1, <2>2
    <3> QED
      BY <1>1, <2>1, <3>1
  <2> QED
    BY <1>4, <1>5, <1>6, <1>7, <1>9, <2>2, <2>3, <2>4 DEF MissedBand
<1>14. CASE Ahead(l, r, q, m, hi, e, o, S, c)
  <2>1. u = CountIn(rest, Take(q, m + o))
    BY <1>1, <1>3, <1>14, TakeLate DEF Ahead
  <2>2. m = hi /\ xm = x0
    BY <1>2, <1>14 DEF Ahead
  <2>3. u = g0
    BY <1>1, <2>1, <2>2
  <2> QED
    BY <1>4, <1>5, <1>6, <1>7, <2>2, <2>3 DEF MissedBand
<1> QED
  BY <1>10, <1>11, <1>12, <1>13, <1>14 DEF Cut

\* The same for what it will repeat, except when c is hidden behind the cut and
\* comes to light ahead of it.
RepeatedBand(v, hidden, ahead, lo, hi, h1, h0, x1, x0) ==
    /\ lo = hi => h0 + x0 <= v /\ v <= h0 + x0 + 1
    /\ lo < hi => \/ hidden /\ v = h1 + x1
                  \/ ahead /\ h0 + x0 <= v /\ v <= h0 + x0 + 1
                  \/ v = h0 + x0
                  \/ v = h1 + x0

LEMMA RepeatedInCut ==
    ASSUME NEW c \in CellId, NEW q \in Seq(CellId \ {c}), NEW l, NEW r, r = q \/ Placed(r, q, c),
           NEW lo \in Nat, NEW hi \in Nat, lo <= hi, hi <= lo + 1, NEW m \in Nat,
           NEW e, NEW o \in Nat, NEW S, NEW seen \in Nat, NEW cells,
           Cut(l, r, q, m, lo, hi, e, o, S, c)
    PROVE  RepeatedBand(CountIn(cells, Drop(r, m + o)) + Excess(m, seen),
                        Hidden(l, r, q, m, lo, e, S, c), Ahead(l, r, q, m, hi, e, o, S, c), lo, hi,
                        CountIn(cells \ {c}, Drop(q, lo + o)),
                        CountIn(cells \ {c}, Drop(q, hi + o)),
                        Excess(lo, seen), Excess(hi, seen))
<1>1. PICK rest, h1, h0, u, mark :
         /\ rest = cells \ {c} /\ mark = Mark(c, cells)
         /\ h1 = CountIn(rest, Drop(q, lo + o)) /\ h0 = CountIn(rest, Drop(q, hi + o))
         /\ u = CountIn(cells, Drop(r, m + o))
  OBVIOUS
<1>2. PICK x1, x0, xm : x1 = Excess(lo, seen) /\ x0 = Excess(hi, seen) /\ xm = Excess(m, seen)
  OBVIOUS
<1>3. lo + o \in Nat /\ hi + o \in Nat /\ m + o \in Nat
  OBVIOUS
<1>4. h1 \in Nat /\ h0 \in Nat /\ mark \in Nat /\ mark <= 1
  BY <1>1, <1>3, CountsAreNumbers, MarkType
<1>5. hi = lo \/ hi = lo + 1
  OBVIOUS
<1>6. hi = lo => h0 = h1 /\ x0 = x1
  BY <1>1, <1>2
<1>7. x1 \in Nat /\ x0 \in Nat /\ xm \in Nat
  BY <1>2, ExcessType
<1>8. CountIn(rest, Drop(q, m + o)) <= u /\ u <= CountIn(rest, Drop(q, m + o)) + 1
  BY <1>1, <1>3, CountPlaced
<1>9. u \in Nat
  <2>1. r \in Seq(CellId)
    BY SeqMonotonic, PlacedType
  <2> QED
    BY <1>1, <1>3, <2>1, CountsAreNumbers
<1>15. PICK b1, b2 : /\ b1 = Hidden(l, r, q, m, lo, e, S, c)
                     /\ b2 = Ahead(l, r, q, m, hi, e, o, S, c)
  OBVIOUS
<1> SUFFICES RepeatedBand(u + xm, b1, b2, lo, hi, h1, h0, x1, x0)
  BY <1>1, <1>2, <1>15
<1>10. CASE Apart(r, q, m, hi)
  <2>1. u = h0
    BY <1>1, <1>3, <1>10, DropAbsent DEF Apart
  <2>2. xm = x0
    BY <1>2, <1>10 DEF Apart
  <2> QED
    BY <1>4, <1>5, <1>7, <2>1, <2>2 DEF RepeatedBand
<1>11. CASE Hidden(l, r, q, m, lo, e, S, c)
  <2>1. u = h1
    BY <1>1, <1>3, <1>11, DropAbsent DEF Hidden
  <2>2. xm = x1
    BY <1>2, <1>11 DEF Hidden
  <2>3. b1
    BY <1>11, <1>15
  <2> QED
    BY <1>4, <1>5, <1>6, <1>7, <2>1, <2>2, <2>3 DEF RepeatedBand
<1>12. CASE Inside(r, q, m, lo, o, c)
  <2>1. PICK k \in Nat : m + o = k + 1 /\ u = CountIn(rest, Drop(q, k))
    BY <1>1, <1>3, <1>12, DropEarly DEF Inside
  <2>2. m = lo + 1
    BY <1>12 DEF Inside
  <2>3. k = lo + o
    BY <2>1, <2>2
  <2>4. u = h1
    BY <1>1, <2>1, <2>3
  <2>5. x1 <= xm /\ xm <= x1 + 1
    BY <1>2, <2>2, ExcessType
  <2>6. hi = lo + 1 => xm = x0
    BY <1>2, <2>2
  <2> QED
    BY <1>4, <1>5, <1>6, <1>7, <2>4, <2>5, <2>6 DEF RepeatedBand
<1>13. CASE Near(r, q, m, hi, o, c)
  <2>1. PICK k \in Nat : m + o = k + 1 /\ u = CountIn(rest, Drop(q, k))
    BY <1>1, <1>3, <1>13, DropEarly DEF Near
  <2>2. m = hi /\ xm = x0
    BY <1>2, <1>13 DEF Near
  <2>3. h0 <= u /\ u <= h0 + 1
    BY <1>1, <1>8, <2>2
  <2>4. hi = lo + 1 => u = h1
    <3>1. hi = lo + 1 => k = lo + o
      BY <2>1, <2>2
    <3> QED
      BY <1>1, <2>1, <3>1
  <2> QED
    BY <1>4, <1>5, <1>7, <1>9, <2>2, <2>3, <2>4 DEF RepeatedBand
<1>14. CASE Ahead(l, r, q, m, hi, e, o, S, c)
  <2>1. m = hi /\ xm = x0
    BY <1>2, <1>14 DEF Ahead
  <2>2. h0 <= u /\ u <= h0 + 1
    BY <1>1, <1>8, <2>1
  <2>3. b2
    BY <1>14, <1>15
  <2> QED
    BY <1>4, <1>5, <1>7, <1>9, <2>1, <2>2, <2>3 DEF RepeatedBand
<1> QED
  BY <1>10, <1>11, <1>12, <1>13, <1>14 DEF Cut

-----------------------------------------------------------------------------
(* A walk accounted for by what left and what came.                         *)

\* At place b of the listing r the walk w has missed no more of the cells than
\* dep, and will repeat no more than arr, with so many to spare.
At(r, cells, b, w, ahead, behind, dep, arr) ==
    /\ Missing(r, cells, b, w) + ahead <= dep
    /\ Repeats(r, b, w) + behind <= arr

LEMMA CollectingMisses ==
    ASSUME NEW T, NEW r \in Seq(T), IsInjective(r), NEW cells, NEW w \in Seq(T),
           NEW b \in Nat, NEW i \in Nat
    PROVE  Missing(r, cells, b + i, w \o Take(Drop(r, b), i)) <= Missing(r, cells, b, w)
BY Collecting

LEMMA CollectingRepeats ==
    ASSUME NEW T, NEW r \in Seq(T), IsInjective(r), NEW w \in Seq(T), NEW b \in Nat, NEW i \in Nat
    PROVE  Repeats(r, b + i, w \o Take(Drop(r, b), i)) = Repeats(r, b, w)
BY Collecting

LEMMA Stepping ==
    ASSUME NEW T, NEW r \in Seq(T), IsInjective(r), NEW cells, NEW w \in Seq(T),
           NEW b \in Nat, NEW i \in Nat, NEW ahead \in Nat, NEW behind \in Nat,
           NEW dep \in Nat, NEW arr \in Nat, At(r, cells, b, w, ahead, behind, dep, arr)
    PROVE  At(r, cells, b + i, w \o Take(Drop(r, b), i), ahead, behind, dep, arr)
<1>1. PICK u : u = w \o Take(Drop(r, b), i)
  OBVIOUS
<1>2. u \in Seq(T)
  <2>1. PICK d : d = Drop(r, b)
    OBVIOUS
  <2>2. d \in Seq(T)
    BY <2>1, TakeDrop
  <2>3. PICK t : t = Take(d, i)
    OBVIOUS
  <2>4. t \in Seq(T)
    BY <2>2, <2>3, TakeDrop
  <2> QED
    BY <1>1, <2>1, <2>3, <2>4, ConcatProperties
<1>3. /\ Missing(r, cells, b + i, u) <= Missing(r, cells, b, w)
      /\ Repeats(r, b + i, u) = Repeats(r, b, w)
  <2>1. /\ Missing(r, cells, b + i, w \o Take(Drop(r, b), i)) <= Missing(r, cells, b, w)
        /\ Repeats(r, b + i, w \o Take(Drop(r, b), i)) = Repeats(r, b, w)
    BY CollectingMisses, CollectingRepeats
  <2> QED
    BY <1>1, <2>1
<1>4. PICK x1, x2, y1, y2 : /\ x1 = Missing(r, cells, b, w) /\ x2 = Repeats(r, b, w)
                            /\ y1 = Missing(r, cells, b + i, u) /\ y2 = Repeats(r, b + i, u)
  OBVIOUS
<1>5. x1 \in Nat /\ x2 \in Nat
  BY <1>4, WalkType
<1>6. y1 \in Nat /\ y2 \in Nat
  <2>1. b + i \in Nat
    OBVIOUS
  <2> QED
    BY <1>2, <1>4, <2>1, WalkType
<1>7. x1 + ahead <= dep /\ x2 + behind <= arr
  BY <1>4 DEF At
<1>8. y1 <= x1 /\ y2 = x2
  BY <1>3, <1>4
<1>9. y1 + ahead <= dep /\ y2 + behind <= arr
  BY <1>5, <1>6, <1>7, <1>8
<1> QED
  BY <1>1, <1>4, <1>9 DEF At

LEMMA Moving ==
    ASSUME NEW T, NEW r \in Seq(T), NEW cells, NEW w \in Seq(T), NEW x \in Nat, NEW y \in Nat,
           NEW dep \in Nat, NEW arr \in Nat,
           At(r, cells, y, w, Excess(x, y), Excess(y, x), dep, arr)
    PROVE  At(r, cells, x, w, 0, 0, dep, arr)
<1>1. PICK x1, x2, y1, y2, e1, e2 :
         /\ x1 = Missing(r, cells, x, w) /\ x2 = Repeats(r, x, w)
         /\ y1 = Missing(r, cells, y, w) /\ y2 = Repeats(r, y, w)
         /\ e1 = Excess(x, y) /\ e2 = Excess(y, x)
  OBVIOUS
<1>2. x1 \in Nat /\ x2 \in Nat /\ y1 \in Nat /\ y2 \in Nat
  BY <1>1, WalkType
<1>3. e1 \in Nat /\ e2 \in Nat
  BY <1>1, ExcessType
<1>4. x1 <= y1 + e1 /\ x2 <= y2 + e2
  BY <1>1, Shifting
<1>5. y1 + e1 <= dep /\ y2 + e2 <= arr
  BY <1>1 DEF At
<1>6. x1 + 0 <= dep /\ x2 + 0 <= arr
  BY <1>2, <1>3, <1>4, <1>5
<1> QED
  BY <1>1, <1>6 DEF At

LEMMA ExcessShift ==
    \A x, y, k \in Nat : Excess(x + k, y + k) = Excess(x, y)
BY DEF Excess

\* The cells a scan collects of a batch are the next ones of the listing.
LEMMA NextCells ==
    ASSUME NEW T, NEW p \in Seq(T), NEW q \in Seq(T), NEW x \in Seq(T), NEW o \in Nat,
           NEW i \in Nat, i <= Len(Drop(q, o))
    PROVE  Take(Drop(p \o (q \o x), Len(p) + o), i) = Take(Drop(q, o), i)
<1>1. PICK y, b : y = q \o x /\ b = Len(p) + o
  OBVIOUS
<1>2. y \in Seq(T)
  BY <1>1, ConcatProperties
<1>3. Len(p) \in Nat /\ Len(q) \in Nat
  BY LenProperties
<1>4. b \in Nat /\ Len(p) <= b /\ b - Len(p) = o
  BY <1>1, <1>3
<1>5. Drop(p \o y, b) = Drop(y, b - Len(p))
  BY <1>2, <1>4, TakePastFirst
<1>6. Drop(p \o (q \o x), Len(p) + o) = Drop(y, o)
  BY <1>1, <1>4, <1>5
<1>7. CASE o <= Len(q)
  <2>1. PICK d : d = Drop(q, o)
    OBVIOUS
  <2>2. d \in Seq(T)
    BY <2>1, TakeDrop
  <2>3. Drop(q \o x, o) = Drop(q, o) \o x
    BY <1>7, TakeOfConcat
  <2>4. \A u, v \in Seq(T) : i <= Len(u) => Take(u \o v, i) = Take(u, i)
    BY TakeOfConcat
  <2>5. i <= Len(d)
    BY <2>1
  <2>6. Take(d \o x, i) = Take(d, i)
    BY <2>2, <2>4, <2>5, Zenon
  <2> QED
    BY <1>1, <1>6, <2>1, <2>3, <2>6
<1>8. CASE ~(o <= Len(q))
  <2>1. Len(q) <= o
    BY <1>3, <1>8
  <2>2. Len(Drop(q, o)) = 0
    BY <2>1, TakeDrop
  <2>3. i = 0
    BY <2>2
  <2>4. Drop(y, o) \in Seq(T) /\ Drop(q, o) \in Seq(T)
    BY <1>2, TakeDrop
  <2> QED
    BY <1>6, <2>3, <2>4, TakeNone
<1> QED
  BY <1>7, <1>8

\* The counts of a scan in progress, while a batch is taken in.
LEMMA NextCellsAnywhere ==
    ASSUME NEW T, NEW p \in Seq(T), NEW q \in Seq(T), NEW x \in Seq(T), NEW o \in Nat
    PROVE  \A i \in Nat : i <= Len(Drop(q, o))
              => Take(Drop(p \o (q \o x), Len(p) + o), i) = Take(Drop(q, o), i)
<1> SUFFICES ASSUME NEW i \in Nat, i <= Len(Drop(q, o))
             PROVE  Take(Drop(p \o (q \o x), Len(p) + o), i) = Take(Drop(q, o), i)
  OBVIOUS
<1> QED
  BY NextCells

LEMMA Gathering ==
    ASSUME NEW T, NEW p \in Seq(T), NEW q \in Seq(T), NEW x \in Seq(T), NEW o \in Nat,
           NEW r \in Seq(T), r = p \o (q \o x), IsInjective(r), NEW cells,
           NEW w \in Seq(T), NEW t, t = Drop(q, o), NEW a \in Nat, NEW b, b = Len(p) + o,
           NEW dep \in Nat, NEW arr \in Nat,
           At(r, cells, b, w, Excess(a, Len(p)), Excess(Len(p), a), dep, arr),
           NEW i \in Nat, i <= Len(t)
    PROVE  /\ At(r, cells, b + i, w \o Take(t, i), Excess(a, Len(p)), Excess(Len(p), a), dep, arr)
           /\ At(r, cells, (a + o) + i, w \o Take(t, i), 0, 0, dep, arr)
<1>1. PICK m, e1, e2 : m = Len(p) /\ e1 = Excess(a, m) /\ e2 = Excess(m, a)
  OBVIOUS
<1>2. m \in Nat
  BY <1>1, LenProperties
<1>3. e1 \in Nat /\ e2 \in Nat
  BY <1>1, <1>2, ExcessType
<1>4. b \in Nat /\ b = m + o
  BY <1>1, <1>2
<1>5. Take(Drop(r, b), i) = Take(t, i)
  <2>1. i <= Len(Drop(q, o))
    OBVIOUS
  <2>2. \A n \in Nat : n <= Len(Drop(q, o))
              => Take(Drop(p \o (q \o x), Len(p) + o), n) = Take(Drop(q, o), n)
    BY NextCellsAnywhere
  <2>3. Take(Drop(p \o (q \o x), Len(p) + o), i) = Take(Drop(q, o), i)
    BY <2>1, <2>2, Zenon
  <2> QED
    BY <2>3, Zenon
<1>6. At(r, cells, b, w, e1, e2, dep, arr)
  BY <1>1
<1>7. At(r, cells, b + i, w \o Take(Drop(r, b), i), e1, e2, dep, arr)
  BY <1>3, <1>4, <1>6, Stepping
<1>8. PICK u : u = w \o Take(t, i)
  OBVIOUS
<1>9. At(r, cells, b + i, u, e1, e2, dep, arr)
  BY <1>5, <1>7, <1>8
<1>10. u \in Seq(T)
  <2>1. t \in Seq(T)
    BY TakeDrop
  <2>2. PICK v : v = Take(t, i)
    OBVIOUS
  <2>3. v \in Seq(T)
    BY <2>1, <2>2, TakeDrop
  <2> QED
    BY <1>8, <2>2, <2>3, ConcatProperties
<1>11. PICK k, y, z : k = o + i /\ y = a + k /\ z = m + k
  OBVIOUS
<1>12. k \in Nat /\ y \in Nat /\ z \in Nat /\ (a + o) + i = y /\ b + i = z
  <2>1. k \in Nat
    BY <1>11
  <2>2. y \in Nat /\ z \in Nat
    BY <1>2, <1>11, <2>1
  <2>3. (a + o) + i = a + (o + i) /\ (m + o) + i = m + (o + i)
    BY <1>2
  <2> QED
    BY <1>4, <1>11, <2>1, <2>2, <2>3, Zenon
<1>13. Excess(y, z) = e1 /\ Excess(z, y) = e2
  <2>1. Excess(a + k, m + k) = Excess(a, m) /\ Excess(m + k, a + k) = Excess(m, a)
    BY <1>2, <1>12, ExcessShift, Zenon
  <2> QED
    BY <1>1, <1>11, <2>1, Zenon
<1>14. At(r, cells, z, u, Excess(y, z), Excess(z, y), dep, arr)
  BY <1>9, <1>12, <1>13
<1>15. At(r, cells, y, u, 0, 0, dep, arr)
  BY <1>10, <1>12, <1>14, Moving
<1> QED
  BY <1>1, <1>8, <1>9, <1>12, <1>15

-----------------------------------------------------------------------------
(* The walk is accounted for: the invariant.                                *)

ToSkip == offset - scan.skipped
Seen == scan.skipped + Len(scan.collected)

Within(b, w, ahead, behind) == At(Readable, steady, b, w, ahead, behind, departures, arrivals)

Counted ==
    /\ steady \subseteq ToSet(Readable)
    /\ departures \in Nat /\ arrivals \in Nat
    /\ pc = "done" => ~more

\* A scan stands where its batches end and its offset will be spent. What it has
\* seen before may be more, or less, than is there now.
InScan ==
    pc = "scanning" => Within(Len(Passed) + ToSkip, returned \o scan.collected,
                              Excess(Seen, Len(Passed)), Excess(Len(Passed), Seen))

\* The page could end after any cell collected.
PageEnds ==
    pc = "scanning" => \A n \in 0..Len(scan.collected) :
                          Within(offset + n, returned \o Take(scan.collected, n), 0, 0)

Answered ==
    /\ pc = "answered" /\ more => Within(offset + Limit, returned, 0, 0)
    /\ pc # "scanning" => Len(returned) - Cardinality(ToSet(returned)) <= arrivals
    /\ pc # "scanning" /\ ~more /\ (kind = "search" \/ scan.examined < ScanCeiling)
          => Cardinality(steady \ ToSet(returned)) <= departures

LEMMA SmallerAndDrop ==
    ASSUME NEW T, NEW s \in Seq(T), NEW n \in Nat
    PROVE  Smaller(n, Len(s)) + Len(Drop(s, n)) = Len(s)
<1>1. /\ n <= Len(s) => Len(Drop(s, n)) = Len(s) - n
      /\ Len(s) <= n => Len(Drop(s, n)) = 0
  BY TakeDrop
<1>2. Len(s) \in Nat
  BY LenProperties
<1> QED
  BY <1>1, <1>2 DEF Smaller

LEMMA WalkAndBatch ==
    ASSUME Shape, NEW u \in Seq(CellId)
    PROVE  (returned \o scan.collected) \o u = returned \o (scan.collected \o u)
<1>1. PICK y, c : y = returned /\ c = scan.collected
  OBVIOUS
<1>2. y \in Seq(CellId) /\ c \in Seq(CellId)
  BY <1>1 DEF Shape, Scan
<1>3. (y \o c) \o u = y \o (c \o u)
  BY <1>2, ConcatAssociative
<1> QED
  BY <1>1, <1>3

\* A batch splits the listing into what was passed, its cells, and the rest.
LEMMA BatchSplits ==
    ASSUME Shape, NEW batch, NEW r, NEW s, NEW o, OneBatch(batch, r, s, o)
    PROVE  \E x \in Seq(CellId) : /\ Readable = Passed \o (r \o x)
                                  /\ Len(batch) < ScanBatch => x = <<>>
<1>1. PICK l, e, S : l = Listing /\ e = scan.examined /\ S = Shown
  OBVIOUS
<1>2. l \in Seq(CellId) /\ e \in Nat /\ Only(l, S) = Readable
  BY <1>1, ListingType DEF Shape, Scan
<1>3. /\ r \in Seq(CellId) /\ s \in Scan /\ batch \in Seq(CellId)
      /\ batch = Take(Drop(l, e), ScanBatch)
      /\ s.examined = e + Len(batch)
      /\ Only(Take(l, s.examined), S) = Passed \o r
  BY <1>1 DEF OneBatch
<1>4. PICK f : f = s.examined
  OBVIOUS
<1>5. f \in Nat
  BY <1>3, <1>4 DEF Scan
<1>6. PICK a, d : a = Take(l, f) /\ d = Drop(l, f)
  OBVIOUS
<1>7. a \in Seq(CellId) /\ d \in Seq(CellId)
  BY <1>2, <1>5, <1>6, TakeDrop
<1>8. a \o d = l
  BY <1>2, <1>5, <1>6, TakeDrop
<1>9. PICK x : x = Only(d, S)
  OBVIOUS
<1>10. x \in Seq(CellId)
  BY <1>7, <1>9, OnlySeq
<1>11. Only(a \o d, S) = Only(a, S) \o Only(d, S)
  <2>1. \A u, v \in Seq(CellId) : Only(u \o v, S) = Only(u, S) \o Only(v, S)
    BY OnlyConcats, Zenon
  <2> QED
    BY <1>7, <2>1, Zenon
<1>12. Readable = (Passed \o r) \o x
  BY <1>2, <1>3, <1>4, <1>6, <1>8, <1>9, <1>11
<1>13. (Passed \o r) \o x = Passed \o (r \o x)
  BY <1>3, <1>10, PassedType, ConcatAssociative
<1>14. ASSUME Len(batch) < ScanBatch PROVE x = <<>>
  <2>1. PICK y : y = Drop(l, e)
    OBVIOUS
  <2>2. y \in Seq(CellId)
    BY <1>2, <2>1, TakeDrop
  <2>3. /\ ScanBatch <= Len(y) => Len(batch) = ScanBatch
        /\ Len(y) <= ScanBatch => Len(batch) = Len(y)
    BY <1>3, <2>1, <2>2, ConstantTypes, TakeDrop
  <2>4. Len(y) \in Nat /\ Len(l) \in Nat /\ Len(batch) \in Nat
    BY <1>2, <1>3, <2>2, LenProperties
  <2>5. Len(batch) = Len(y)
    BY <1>14, <2>3, <2>4, ConstantTypes
  <2>6. /\ e <= Len(l) => Len(y) = Len(l) - e
        /\ Len(l) <= e => Len(y) = 0
    BY <1>2, <2>1, TakeDrop
  <2>7. Len(l) <= f
    BY <1>2, <1>3, <1>4, <2>4, <2>5, <2>6
  <2>8. d = <<>>
    BY <1>2, <1>5, <1>6, <2>7, TakeAll
  <2> QED
    BY <1>9, <2>8, OnlyEmpty
<1> QED
  BY <1>10, <1>12, <1>13, <1>14

\* What a scan makes of the next batch, place by place.
LEMMA BatchGathers ==
    ASSUME Shape, Locals, Counted, InScan, pc = "scanning",
           NEW batch, NEW r, NEW s, NEW o, o = offset - scan.skipped,
           OneBatch(batch, r, s, o), NEW i \in Nat, i <= Len(Drop(r, o)),
           NEW w, w = returned \o (scan.collected \o Take(Drop(r, o), i)),
           NEW a, a = Seen, NEW m, m = Len(Passed)
    PROVE  /\ Within((m + o) + i, w, Excess(a, m), Excess(m, a))
           /\ Within((a + o) + i, w, 0, 0)
<1>1. PICK x \in Seq(CellId) : Readable = Passed \o (r \o x)
  BY BatchSplits
<1>2. PICK p, rr, y, c, t : /\ p = Passed /\ rr = Readable /\ y = returned /\ c = scan.collected
                            /\ t = Drop(r, o)
  OBVIOUS
<1>3. /\ p \in Seq(CellId) /\ rr \in Seq(CellId) /\ IsInjective(rr)
      /\ y \in Seq(CellId) /\ c \in Seq(CellId)
  BY <1>2, PassedType, ListingType DEF Shape, Scan
<1>4. r \in Seq(CellId) /\ o \in Nat
  BY DEF OneBatch
<1>5. t \in Seq(CellId)
  BY <1>2, <1>4, TakeDrop
<1>6. PICK z, u : z = y \o c /\ u = Take(t, i)
  OBVIOUS
<1>7. z \in Seq(CellId) /\ u \in Seq(CellId)
  BY <1>3, <1>5, <1>6, ConcatProperties, TakeDrop
<1>8. w = z \o u
  <2>1. (returned \o scan.collected) \o u = returned \o (scan.collected \o u)
    BY <1>7, WalkAndBatch
  <2>2. w = returned \o (scan.collected \o u)
    BY <1>2, <1>6
  <2> QED
    BY <1>2, <1>6, <2>1, <2>2
<1>9. a \in Nat /\ m \in Nat /\ m = Len(p)
  <2>1. scan.skipped \in Nat /\ Len(c) \in Nat
    BY <1>3, LenProperties DEF Shape, Scan
  <2>2. Len(p) \in Nat
    BY <1>3, LenProperties
  <2> QED
    BY <1>2, <2>1, <2>2 DEF Seen
<1>10. departures \in Nat /\ arrivals \in Nat
  BY DEF Counted
<1>11. At(rr, steady, m + o, z, Excess(a, m), Excess(m, a), departures, arrivals)
  BY <1>2, <1>6 DEF InScan, Within, ToSkip
<1>12. rr = p \o (r \o x)
  BY <1>1, <1>2
<1>13. PICK b : b = Len(p) + o
  OBVIOUS
<1>14. At(rr, steady, b, z, Excess(a, Len(p)), Excess(Len(p), a), departures, arrivals)
  BY <1>9, <1>11, <1>13
<1>15. i <= Len(t) /\ t = Drop(r, o)
  BY <1>2
<1>16. /\ At(rr, steady, b + i, z \o Take(t, i), Excess(a, Len(p)), Excess(Len(p), a), departures, arrivals)
       /\ At(rr, steady, (a + o) + i, z \o Take(t, i), 0, 0, departures, arrivals)
  BY <1>3, <1>4, <1>7, <1>9, <1>10, <1>12, <1>13, <1>14, <1>15, Gathering, Zenon
<1> QED
  BY <1>2, <1>6, <1>8, <1>9, <1>13, <1>16 DEF Within

\* After a batch the page can end after any cell collected so far.
LEMMA BatchPageEnds ==
    ASSUME Shape, Locals, Counted, InScan, PageEnds, pc = "scanning",
           NEW batch, NEW r, NEW s, NEW o, o = offset - scan.skipped,
           OneBatch(batch, r, s, o), NEW n \in 0..Len(s.collected)
    PROVE  Within(offset + n, returned \o Take(s.collected, n), 0, 0)
<1>1. PICK c, t : c = scan.collected /\ t = Drop(r, o)
  OBVIOUS
<1>2. /\ c \in Seq(CellId) /\ r \in Seq(CellId) /\ o \in Nat /\ s.collected = c \o t
      /\ offset \in Nat /\ scan.skipped \in Nat
  BY <1>1 DEF OneBatch, Shape, Scan
<1>3. t \in Seq(CellId)
  BY <1>1, <1>2, TakeDrop
<1>4. PICK k, j : k = Len(c) /\ j = Len(t)
  OBVIOUS
<1>5. k \in Nat /\ j \in Nat
  BY <1>2, <1>3, <1>4, LenProperties
<1>6. n \in Nat /\ n <= k + j
  <2>1. Len(c \o t) = Len(c) + Len(t)
    BY <1>2, <1>3, ConcatProperties
  <2> QED
    BY <1>2, <1>4, <1>5, <2>1
<1>7. CASE n <= k
  <2>1. n \in 0..Len(scan.collected)
    BY <1>1, <1>4, <1>5, <1>6, <1>7
  <2>2. Within(offset + n, returned \o Take(c, n), 0, 0)
    BY <1>1, <2>1 DEF PageEnds
  <2>3. \A u, v \in Seq(CellId) : n <= Len(u) => Take(u \o v, n) = Take(u, n)
    BY <1>6, TakeOfConcat
  <2>4. n <= Len(c)
    BY <1>4, <1>7
  <2>5. Take(c \o t, n) = Take(c, n)
    BY <1>2, <1>3, <2>3, <2>4, Zenon
  <2> QED
    BY <1>2, <2>2, <2>5
<1>8. CASE ~(n <= k)
  <2>1. PICK i \in Nat : n = k + i
    <3>1. n - k \in Nat /\ n = k + (n - k)
      BY <1>5, <1>6, <1>8
    <3> QED
      BY <3>1
  <2>2. i <= j
    BY <1>5, <1>6, <2>1
  <2>3. i <= Len(Drop(r, o))
    BY <1>1, <1>4, <2>2
  <2>4. Take(c \o t, n) = c \o Take(t, i)
    <3>1. Len(c) <= n /\ n - Len(c) = i
      BY <1>4, <1>5, <2>1
    <3>2. Take(c \o t, n) = c \o Take(t, n - Len(c))
      BY <1>2, <1>3, <1>6, <3>1, TakePastFirst
    <3> QED
      BY <3>1, <3>2
  <2>5. PICK w, a : w = returned \o (scan.collected \o Take(Drop(r, o), i)) /\ a = Seen
    OBVIOUS
  <2>6. Within((a + o) + i, w, 0, 0)
    BY <2>3, <2>5, BatchGathers
  <2>7. (a + o) + i = offset + n
    <3>1. a = scan.skipped + k
      BY <1>1, <1>4, <2>5 DEF Seen
    <3>2. ((scan.skipped + k) + (offset - scan.skipped)) + i = offset + (k + i)
      BY <1>2, <1>5
    <3> QED
      BY <2>1, <3>1, <3>2
  <2> QED
    BY <1>1, <1>2, <2>4, <2>5, <2>6, <2>7
<1> QED
  BY <1>7, <1>8

\* And the scan is accounted for where the batch leaves it.
LEMMA BatchInScan ==
    ASSUME Shape, Locals, Counted, InScan, pc = "scanning",
           NEW batch, NEW r, NEW s, NEW o, o = offset - scan.skipped,
           OneBatch(batch, r, s, o),
           NEW m, m = Len(Passed \o r), NEW a, a = s.skipped + Len(s.collected)
    PROVE  Within(m + (offset - s.skipped), returned \o s.collected, Excess(a, m), Excess(m, a))
<1>1. PICK c, t, p, x, y : /\ c = scan.collected /\ t = Drop(r, o) /\ p = Passed
                           /\ x = Len(Passed) /\ y = Seen
  OBVIOUS
<1>2. /\ c \in Seq(CellId) /\ r \in Seq(CellId) /\ o \in Nat /\ s.collected = c \o t
      /\ offset \in Nat /\ scan.skipped \in Nat /\ p \in Seq(CellId)
      /\ s.skipped = scan.skipped + Smaller(o, Len(r))
  BY <1>1, PassedType DEF OneBatch, Shape, Scan
<1>3. t \in Seq(CellId)
  BY <1>1, <1>2, TakeDrop
<1>4. PICK k, j, h : k = Len(c) /\ j = Len(t) /\ h = Len(r)
  OBVIOUS
<1>5. k \in Nat /\ j \in Nat /\ h \in Nat /\ x \in Nat
  BY <1>1, <1>2, <1>3, <1>4, LenProperties
<1>6. Smaller(o, h) + j = h /\ Smaller(o, h) \in Nat
  <2>1. Smaller(o, Len(r)) + Len(Drop(r, o)) = Len(r)
    BY <1>2, SmallerAndDrop
  <2>2. Smaller(o, h) \in Nat
    BY <1>2, <1>5 DEF Smaller
  <2> QED
    BY <1>1, <1>4, <2>1, <2>2
<1>7. m = x + h /\ Len(c \o t) = k + j
  BY <1>1, <1>2, <1>3, <1>4, ConcatProperties
<1>8. y = scan.skipped + k /\ y \in Nat
  BY <1>1, <1>2, <1>4, <1>5 DEF Seen
<1>9. a = y + h
  <2>1. a = (scan.skipped + Smaller(o, h)) + (k + j)
    BY <1>2, <1>4, <1>7
  <2>2. (scan.skipped + Smaller(o, h)) + (k + j) = (scan.skipped + k) + (Smaller(o, h) + j)
    BY <1>2, <1>5, <1>6
  <2> QED
    BY <1>6, <1>8, <2>1, <2>2
<1>10. m + (offset - s.skipped) = (x + o) + j
  <2>1. PICK n, g : n = Smaller(o, h) /\ g = scan.skipped
    OBVIOUS
  <2>2. n \in Nat /\ g \in Nat /\ n + j = h
    BY <1>2, <1>6, <2>1
  <2>3. (x + (n + j)) + (offset - (g + n)) = (x + (offset - g)) + j
    BY <1>2, <1>5, <2>2
  <2>4. m = x + (n + j) /\ s.skipped = g + n /\ o = offset - g
    BY <1>2, <1>4, <1>7, <2>1, <2>2
  <2> QED
    BY <2>3, <2>4
<1>11. Excess(a, m) = Excess(y, x) /\ Excess(m, a) = Excess(x, y)
  <2>1. Excess(y + h, x + h) = Excess(y, x) /\ Excess(x + h, y + h) = Excess(x, y)
    BY <1>5, <1>8, ExcessShift, Zenon
  <2> QED
    BY <1>7, <1>9, <2>1
<1>12. j <= Len(Drop(r, o)) /\ Take(t, j) = t
  BY <1>1, <1>3, <1>4, <1>5, TakeAll
<1>13. PICK w : w = returned \o (scan.collected \o Take(Drop(r, o), j))
  OBVIOUS
<1>14. Within((x + o) + j, w, Excess(y, x), Excess(x, y))
  BY <1>1, <1>5, <1>12, <1>13, BatchGathers
<1>15. w = returned \o s.collected
  BY <1>1, <1>2, <1>12, <1>13
<1> QED
  BY <1>10, <1>11, <1>14, <1>15

\* What the counts say of an answer.
LEMMA AtRepeats ==
    ASSUME NEW T, NEW r \in Seq(T), NEW cells, NEW b \in Nat, NEW w \in Seq(T),
           NEW dep \in Nat, NEW arr \in Nat, At(r, cells, b, w, 0, 0, dep, arr)
    PROVE  Len(w) - Cardinality(ToSet(w)) <= arr
<1>1. Drop(r, b) \in Seq(T)
  BY TakeDrop
<1>2. CountIn(ToSet(w), Drop(r, b)) \in Nat
  BY <1>1, CountType
<1>3. Len(w) \in Nat /\ Cardinality(ToSet(w)) \in Nat
  BY LenProperties, ElementsFinite
<1>4. (Len(w) - Cardinality(ToSet(w)) + CountIn(ToSet(w), Drop(r, b))) + 0 <= arr
  BY DEF At, Repeats
<1> QED
  BY <1>2, <1>3, <1>4

LEMMA AtMisses ==
    ASSUME NEW T, NEW r \in Seq(T), NEW cells, cells \subseteq ToSet(r), NEW b \in Nat,
           Len(r) <= b, NEW w \in Seq(T), NEW ahead \in Nat, NEW behind,
           NEW dep \in Nat, NEW arr, At(r, cells, b, w, ahead, behind, dep, arr)
    PROVE  Cardinality(cells \ ToSet(w)) <= dep
<1>1. Take(r, b) = r
  BY TakeAll
<1>2. (cells \ ToSet(w)) \cap ToSet(r) = cells \ ToSet(w)
  OBVIOUS
<1>3. PICK x : x = Cardinality(cells \ ToSet(w))
  OBVIOUS
<1>4. x \in Nat
  <2>1. CountIn(cells \ ToSet(w), r) \in Nat
    BY CountType
  <2> QED
    BY <1>2, <1>3, <2>1 DEF CountIn
<1>5. x + ahead <= dep
  BY <1>1, <1>2, <1>3 DEF At, Missing, CountIn
<1>6. x <= dep
  BY <1>4, <1>5
<1> QED
  BY <1>3, <1>6

\* A scan that has not begun stands at its offset.
LEMMA NewScanValues ==
    ASSUME NEW l \in Seq(CellId), NEW S, NEW n \in Nat, NEW w \in Seq(CellId)
    PROVE  /\ Len(Only(Take(l, NewScan.examined), S)) + (n - NewScan.skipped) = n
           /\ Len(Only(Take(l, NewScan.examined), S)) = 0
           /\ NewScan.skipped + Len(NewScan.collected) = 0
           /\ w \o NewScan.collected = w
           /\ \A k \in 0..Len(NewScan.collected) :
                 k = 0 /\ n + k = n /\ w \o Take(NewScan.collected, k) = w
           /\ Excess(0, 0) = 0
<1>1. Take(l, 0) = <<>>
  BY TakeNone
<1>2. Only(<<>>, S) = <<>>
  BY OnlyEmpty
<1>3. <<>> \in Seq(CellId) /\ Len(<<>>) = 0
  BY EmptySeq
<1>4. Take(<<>>, 0) = <<>>
  BY <1>3, TakeNone
<1>5. w \o <<>> = w
  BY ConcatEmptySeq
<1>6. Excess(0, 0) = 0
  BY DEF Excess
<1>7. 0 + (n - 0) = n /\ 0 + 0 = 0 /\ n + 0 = n /\ 0..0 = {0}
  OBVIOUS
<1> QED
  BY <1>1, <1>2, <1>3, <1>4, <1>5, <1>6, <1>7, NewScanType

LEMMA NextWalk ==
    ASSUME Shape, Locals, Counted, InScan, PageEnds, Answered, NextPage
    PROVE  Counted' /\ InScan' /\ PageEnds' /\ Answered'
<1>1. /\ pc = "answered" /\ rows' = rows /\ view' = view /\ kind' = kind
      /\ steady' = steady /\ departures' = departures /\ arrivals' = arrivals
      /\ returned' = returned /\ more' = more
  BY DEF NextPage, history
<1>2. Readable' = Readable /\ Listing' = Listing /\ Shown' = Shown
  BY <1>1 DEF Readable, Listing, Shown, Matching
<1>3. CASE more
  <2>1. offset' = offset + Limit /\ scan' = NewScan /\ pc' = "scanning"
    BY <1>3 DEF NextPage
  <2>2. PICK l, S, n, w : l = Listing /\ S = Shown /\ n = offset + Limit /\ w = returned
    OBVIOUS
  <2>3. l \in Seq(CellId) /\ n \in Nat /\ w \in Seq(CellId)
    BY <2>2, ListingType, ConstantTypes DEF Shape
  <2>4. Within(n, w, 0, 0)
    BY <1>1, <1>3, <2>2 DEF Answered
  <2>5. At(Readable', steady', n, w, 0, 0, departures', arrivals')
    BY <1>1, <1>2, <2>4 DEF Within
  <2>6. Passed' = Only(Take(l, NewScan.examined), S)
    BY <1>2, <2>1, <2>2 DEF Passed
  <2>7. /\ Len(Passed') + (n - NewScan.skipped) = n
        /\ Len(Passed') = 0
        /\ NewScan.skipped + Len(NewScan.collected) = 0
        /\ w \o NewScan.collected = w
        /\ \A k \in 0..Len(NewScan.collected) :
              k = 0 /\ n + k = n /\ w \o Take(NewScan.collected, k) = w
        /\ Excess(0, 0) = 0
    BY <2>3, <2>6, NewScanValues
  <2>8. offset' = n /\ returned' = w
    BY <1>1, <2>1, <2>2
  <2>9. InScan'
    <3>1. Seen' = 0 /\ Len(Passed') + ToSkip' = n
      BY <2>1, <2>7, <2>8 DEF Seen, ToSkip
    <3>2. returned' \o scan'.collected = w
      BY <2>1, <2>7, <2>8
    <3> QED
      BY <2>5, <2>7, <3>1, <3>2 DEF InScan, Within
  <2>10. PageEnds'
    <3>1. ASSUME NEW k \in 0..Len(scan'.collected)
          PROVE  At(Readable', steady', offset' + k, returned' \o Take(scan'.collected, k), 0, 0,
                    departures', arrivals')
      <4>1. offset' + k = n /\ returned' \o Take(scan'.collected, k) = w
        BY <2>1, <2>7, <2>8
      <4> QED
        BY <2>5, <4>1
    <3> QED
      BY <3>1 DEF PageEnds, Within
  <2>11. Answered' /\ Counted'
    BY <1>1, <1>2, <2>1 DEF Answered, Counted
  <2> QED
    BY <2>9, <2>10, <2>11
<1>4. CASE ~more
  <2>1. pc' = "done" /\ scan' = scan
    BY <1>4 DEF NextPage
  <2>2. Answered'
    BY <1>1, <1>4, <2>1 DEF Answered
  <2> QED
    BY <1>1, <1>2, <1>4, <2>1, <2>2 DEF Counted, InScan, PageEnds
<1> QED
  BY <1>3, <1>4

LEMMA InitWalk ==
    ASSUME Init
    PROVE  Counted /\ InScan /\ PageEnds /\ Answered
<1>1. /\ offset = 0 /\ scan = NewScan /\ returned = <<>> /\ more = FALSE /\ pc = "scanning"
      /\ steady = ToSet(rows) \cap Shown /\ departures = 0 /\ arrivals = 0
  BY DEF Init
<1>2. PICK l, S, r : l = Listing /\ S = Shown /\ r = Readable
  OBVIOUS
<1>3. l \in Seq(CellId) /\ r \in Seq(CellId) /\ rows \in Seq(CellId)
  BY <1>2, InitLocals, ListingType DEF Shape
<1>4. steady = ToSet(r)
  BY <1>1, <1>2, <1>3, OnlyElements DEF Readable
<1>5. <<>> \in Seq(CellId) /\ Len(<<>>) = 0 /\ ToSet(<<>>) = {}
  BY EmptySeq DEF ToSet
<1>6. Within(0, <<>>, 0, 0)
  <2>1. Take(r, 0) = <<>> /\ Drop(r, 0) = r
    BY <1>3, TakeNone
  <2>2. CountIn(steady \ ToSet(<<>>), Take(r, 0)) = 0
    <3>1. (steady \ ToSet(<<>>)) \cap ToSet(<<>>) = {}
      BY <1>5
    <3> QED
      BY <2>1, <3>1, FS_EmptySet DEF CountIn
  <2>3. CountIn(ToSet(<<>>), Drop(r, 0)) = 0 /\ Cardinality(ToSet(<<>>)) = 0
    <3>1. ToSet(<<>>) \cap ToSet(Drop(r, 0)) = {}
      BY <1>5
    <3> QED
      BY <1>5, <3>1, FS_EmptySet DEF CountIn
  <2>4. 0 + 0 <= 0 /\ (0 - 0 + 0) + 0 <= 0
    OBVIOUS
  <2> QED
    BY <1>1, <1>2, <1>5, <2>2, <2>3, <2>4 DEF Within, At, Missing, Repeats
<1>7. Passed = Only(Take(l, NewScan.examined), S)
  BY <1>1, <1>2 DEF Passed
<1>8. /\ Len(Passed) + (0 - NewScan.skipped) = 0
      /\ Len(Passed) = 0
      /\ NewScan.skipped + Len(NewScan.collected) = 0
      /\ <<>> \o NewScan.collected = <<>>
      /\ \A k \in 0..Len(NewScan.collected) :
            k = 0 /\ 0 + k = 0 /\ <<>> \o Take(NewScan.collected, k) = <<>>
      /\ Excess(0, 0) = 0
  BY <1>3, <1>5, <1>7, NewScanValues
<1>9. InScan
  <2>1. Seen = 0 /\ Len(Passed) + ToSkip = 0
    BY <1>1, <1>8 DEF Seen, ToSkip
  <2>2. returned \o scan.collected = <<>>
    BY <1>1, <1>8
  <2> QED
    BY <1>6, <1>8, <2>1, <2>2 DEF InScan
<1>10. PageEnds
  <2>1. ASSUME NEW k \in 0..Len(scan.collected)
        PROVE  Within(offset + k, returned \o Take(scan.collected, k), 0, 0)
    <3>1. offset + k = 0 /\ returned \o Take(scan.collected, k) = <<>>
      BY <1>1, <1>8
    <3> QED
      BY <1>6, <3>1
  <2> QED
    BY <2>1 DEF PageEnds
<1>11. Counted /\ Answered
  BY <1>1, <1>2, <1>4 DEF Counted, Answered
<1> QED
  BY <1>9, <1>10, <1>11

LEMMA SearchWalk ==
    ASSUME Shape, Locals, Counted, InScan, PageEnds, Answered, SearchStep
    PROVE  Counted' /\ InScan' /\ PageEnds' /\ Answered'
<1>1. PICK cells : cells = Search(Limit + 1, offset)
  OBVIOUS
<1>2. PICK page : page = Window(cells, 0, Limit)
  OBVIOUS
<1>3. /\ kind = "search" /\ pc = "scanning" /\ pc' = "answered" /\ offset' = offset
      /\ returned' = returned \o page /\ scan' = scan
      /\ more' = (Len(cells) > Limit)
      /\ UNCHANGED <<rows, view, kind>>
      /\ steady' = steady /\ departures' = departures /\ arrivals' = arrivals
  BY <1>1, <1>2 DEF SearchStep, Answer, history
<1>4. PICK r, n, m, w : r = Readable /\ n = offset /\ m = Limit /\ w = returned
  OBVIOUS
<1>5. /\ r \in Seq(CellId) /\ IsInjective(r) /\ n \in Nat /\ m \in Nat /\ m + 1 \in Nat
      /\ w \in Seq(CellId)
  BY <1>4, ListingType, ConstantTypes DEF Shape
<1>6. Readable' = r
  BY <1>3, <1>4 DEF Readable, Shown
<1>7. PICK d : d = Drop(r, n)
  OBVIOUS
<1>8. d \in Seq(CellId)
  BY <1>5, <1>7, TakeDrop
<1>9. cells = Take(d, m + 1)
  <2>1. cells = Window(r, n, m + 1)
    BY <1>1, <1>4 DEF Search, Readable
  <2> QED
    BY <1>5, <1>7, <2>1, WindowIsTakeDrop
<1>10. cells \in Seq(CellId)
  BY <1>5, <1>8, <1>9, TakeDrop
<1>11. page = Take(d, m)
  <2>1. page = Take(cells, m)
    BY <1>2, <1>4, <1>5, <1>10, FirstWindow
  <2> QED
    BY <1>5, <1>8, <1>9, <2>1, TakeOfTake
<1>12. page \in Seq(CellId)
  BY <1>5, <1>8, <1>11, TakeDrop
<1>13. departures \in Nat /\ arrivals \in Nat /\ steady \subseteq ToSet(r)
  BY <1>4 DEF Counted
<1>14. At(r, steady, n, w, 0, 0, departures, arrivals)
  <2>1. scan = NewScan
    BY <1>3 DEF Locals
  <2>2. 0 \in 0..Len(scan.collected)
    BY <2>1, EmptySeq, NewScanType
  <2>3. Within(offset + 0, returned \o Take(scan.collected, 0), 0, 0)
    BY <1>3, <2>2 DEF PageEnds
  <2>4. Take(<<>>, 0) = <<>> /\ w \o <<>> = w
    BY <1>5, EmptySeq, TakeNone, ConcatEmptySeq
  <2>5. offset + 0 = n
    BY <1>4, <1>5
  <2> QED
    BY <1>4, <2>1, <2>3, <2>4, <2>5, NewScanType DEF Within
<1>15. PICK u : u = w \o page
  OBVIOUS
<1>16. u \in Seq(CellId)
  BY <1>5, <1>12, <1>15, ConcatProperties
<1>17. At(r, steady, n + m, u, 0, 0, departures, arrivals)
  <2>1. At(r, steady, n + m, w \o Take(Drop(r, n), m), 0, 0, departures, arrivals)
    BY <1>5, <1>13, <1>14, Stepping
  <2> QED
    BY <1>7, <1>11, <1>15, <2>1
<1>18. n + m \in Nat
  BY <1>5
<1>19. Len(u) - Cardinality(ToSet(u)) <= arrivals
  BY <1>5, <1>13, <1>16, <1>17, <1>18, AtRepeats
<1>20. ASSUME ~more' PROVE Cardinality(steady \ ToSet(u)) <= departures
  <2>1. /\ m + 1 <= Len(d) => Len(cells) = m + 1
        /\ Len(d) <= m + 1 => Len(cells) = Len(d)
    BY <1>5, <1>8, <1>9, TakeDrop
  <2>2. /\ n <= Len(r) => Len(d) = Len(r) - n
        /\ Len(r) <= n => Len(d) = 0
    BY <1>5, <1>7, TakeDrop
  <2>3. Len(r) \in Nat /\ Len(d) \in Nat
    BY <1>5, <1>8, LenProperties
  <2>4. ~(Len(cells) > m)
    BY <1>3, <1>4, <1>20
  <2>5. Len(r) <= n + m
    BY <1>5, <2>1, <2>2, <2>3, <2>4
  <2> QED
    BY <1>5, <1>13, <1>16, <1>17, <1>18, <2>5, AtMisses
<1>21. returned' = u
  BY <1>3, <1>4, <1>15
<1>22. Answered'
  <2>1. pc' = "answered" /\ more' => Within(offset + Limit, returned, 0, 0)'
    BY <1>3, <1>4, <1>6, <1>17, <1>21 DEF Within
  <2>2. Len(returned') - Cardinality(ToSet(returned')) <= arrivals'
    BY <1>3, <1>19, <1>21
  <2>3. ~more' => Cardinality(steady' \ ToSet(returned')) <= departures'
    BY <1>3, <1>20, <1>21
  <2> QED
    BY <2>1, <2>2, <2>3 DEF Answered
<1>23. Counted'
  BY <1>3, <1>6, <1>13 DEF Counted
<1> QED
  BY <1>3, <1>22, <1>23 DEF InScan, PageEnds

LEMMA ScanWalk ==
    ASSUME Shape, Locals, Counted, InScan, PageEnds, Answered, ScanStep
    PROVE  Counted' /\ InScan' /\ PageEnds' /\ Answered'
<1>1. PICK batch : batch = Query(ScanBatch, scan.store_offset)
  OBVIOUS
<1>2. PICK s : s = Examined(scan, batch)
  OBVIOUS
<1>3. /\ kind = "list" /\ pc = "scanning" /\ EndOfBatch(s, batch)
      /\ UNCHANGED <<rows, view, kind>>
      /\ steady' = steady /\ departures' = departures /\ arrivals' = arrivals
  BY <1>1, <1>2 DEF ScanStep, history
<1>4. PICK o, r : o = offset - scan.skipped /\ r = Only(batch, Shown)
  OBVIOUS
<1>5. OneBatch(batch, r, s, o)
  BY <1>1, <1>2, <1>4, BatchExamined
<1>6. /\ s \in Scan /\ Only(Take(Listing, s.examined), Shown) = Passed \o r
      /\ r \in Seq(CellId)
  BY <1>5 DEF OneBatch
<1>7. Full(s) \/ Ended(s, batch) \/ Continued(s, batch)
  BY <1>3, <1>6, BatchEnds
<1>8. Shown' = Shown /\ Listing' = Listing /\ Readable' = Readable
  BY <1>3 DEF Listing, Readable, Shown, Matching
<1>9. scan' = s /\ offset' = offset
  BY <1>7 DEF Full, Ended, Continued, Answer
<1>10. Passed' = Passed \o r
  BY <1>6, <1>8, <1>9 DEF Passed
<1>11. /\ departures \in Nat /\ arrivals \in Nat /\ steady \subseteq ToSet(Readable)
       /\ Readable \in Seq(CellId) /\ returned \in Seq(CellId) /\ offset \in Nat /\ Limit \in Nat
       /\ s.collected \in Seq(CellId) /\ s.skipped \in Nat
  BY <1>6, ListingType, ConstantTypes DEF Counted, Shape, Scan
<1>12. PICK k : k = Len(s.collected)
  OBVIOUS
<1>13. k \in Nat
  BY <1>11, <1>12, LenProperties
<1>14. ASSUME NEW n \in 0..k
       PROVE  Within(offset + n, returned \o Take(s.collected, n), 0, 0)
  BY <1>3, <1>4, <1>5, <1>12, BatchPageEnds
<1>15. PICK m, a : m = Len(Passed \o r) /\ a = s.skipped + Len(s.collected)
  OBVIOUS
<1>16. Within(m + (offset - s.skipped), returned \o s.collected, Excess(a, m), Excess(m, a))
  BY <1>3, <1>4, <1>5, <1>15, BatchInScan
<1>17. Counted'
  <2>1. pc' # "done"
    BY <1>3, <1>7 DEF Full, Ended, Continued, Answer
  <2> QED
    BY <1>3, <1>8, <1>11, <2>1 DEF Counted
<1>18. CASE Full(s)
  <2>1. /\ Len(s.collected) > Limit /\ pc' = "answered" /\ more' = TRUE
        /\ returned' = returned \o Take(s.collected, Limit)
    BY <1>18 DEF Full, Answer
  <2>2. Limit \in 0..k
    BY <1>11, <1>12, <1>13, <2>1
  <2>3. PICK w : w = returned \o Take(s.collected, Limit)
    OBVIOUS
  <2>4. w \in Seq(CellId)
    BY <1>11, <2>3, TakeDrop, ConcatProperties
  <2>5. Within(offset + Limit, w, 0, 0)
    BY <1>14, <2>2, <2>3
  <2>6. At(Readable, steady, offset + Limit, w, 0, 0, departures, arrivals)
    BY <2>5 DEF Within
  <2>7. offset + Limit \in Nat
    BY <1>11
  <2>8. Len(w) - Cardinality(ToSet(w)) <= arrivals
    BY <1>11, <2>4, <2>6, <2>7, AtRepeats
  <2>9. Answered'
    BY <1>3, <1>8, <1>9, <2>1, <2>3, <2>6, <2>8 DEF Answered, Within
  <2> QED
    BY <1>17, <2>1, <2>9 DEF InScan, PageEnds
<1>19. CASE Ended(s, batch)
  <2>1. /\ pc' = "answered" /\ more' = FALSE /\ returned' = returned \o s.collected
        /\ Len(batch) < ScanBatch \/ s.examined >= ScanCeiling
    BY <1>19 DEF Ended, Answer
  <2>2. PICK w : w = returned \o s.collected
    OBVIOUS
  <2>3. w \in Seq(CellId)
    BY <1>11, <2>2, ConcatProperties
  <2>4. Len(w) - Cardinality(ToSet(w)) <= arrivals
    <3>1. k \in 0..k
      BY <1>13
    <3>2. Within(offset + k, returned \o Take(s.collected, k), 0, 0)
      BY <1>14, <3>1
    <3>3. Take(s.collected, k) = s.collected
      BY <1>11, <1>12, <1>13, TakeAll
    <3>4. At(Readable, steady, offset + k, w, 0, 0, departures, arrivals)
      BY <2>2, <3>2, <3>3 DEF Within
    <3>5. offset + k \in Nat
      BY <1>11, <1>13
    <3> QED
      BY <1>11, <2>3, <3>4, <3>5, AtRepeats
  <2>5. ASSUME s.examined < ScanCeiling
        PROVE  Cardinality(steady \ ToSet(w)) <= departures
    <3>1. Len(batch) < ScanBatch
      <4>1. s.examined \in Nat /\ ScanCeiling \in Nat
        BY <1>6, ConstantTypes DEF Scan
      <4> QED
        BY <2>1, <2>5, <4>1
    <3>2. PICK x \in Seq(CellId) : /\ Readable = Passed \o (r \o x)
                                   /\ Len(batch) < ScanBatch => x = <<>>
      BY <1>5, BatchSplits
    <3>3. r \o <<>> = r
      BY <1>6, ConcatEmptySeq
    <3>4. Readable = Passed \o r
      BY <3>1, <3>2, <3>3
    <3>5. Len(Readable) = m /\ m \in Nat /\ a \in Nat
      BY <1>11, <1>12, <1>13, <1>15, <3>4, LenProperties
    <3>6. PICK b : b = m + (offset - s.skipped)
      OBVIOUS
    <3>7. b \in Nat /\ Len(Readable) <= b
      <4>1. PICK p, q, h : p = scan.skipped /\ q = s.skipped /\ h = Len(r)
        OBVIOUS
      <4>2. p \in Nat /\ q \in Nat /\ h \in Nat /\ o = offset - p /\ o \in Nat
        BY <1>4, <1>5, <1>6, <1>11, <4>1, LenProperties DEF Shape, Scan, OneBatch
      <4>3. q = p + Smaller(o, h)
        BY <1>5, <4>1 DEF OneBatch
      <4>4. q <= offset
        BY <1>11, <4>2, <4>3 DEF Smaller
      <4>5. b = m + (offset - q)
        BY <3>6, <4>1
      <4> QED
        BY <1>11, <3>5, <4>2, <4>4, <4>5
    <3>8. PICK e1, e2 : e1 = Excess(a, m) /\ e2 = Excess(m, a)
      OBVIOUS
    <3>9. e1 \in Nat
      BY <3>5, <3>8, ExcessType
    <3>10. At(Readable, steady, b, w, e1, e2, departures, arrivals)
      BY <1>16, <2>2, <3>6, <3>8 DEF Within
    <3> QED
      BY <1>11, <2>3, <3>7, <3>9, <3>10, AtMisses
  <2>6. Answered'
    <3>1. ~(pc' = "answered" /\ more')
      BY <2>1
    <3>2. Len(returned') - Cardinality(ToSet(returned')) <= arrivals'
      BY <1>3, <2>1, <2>2, <2>4
    <3>3. kind' = "list" /\ scan'.examined = s.examined
      BY <1>3, <1>9
    <3>4. (kind' = "search" \/ scan'.examined < ScanCeiling)
             => Cardinality(steady' \ ToSet(returned')) <= departures'
      BY <1>3, <2>1, <2>2, <2>5, <3>3
    <3> QED
      BY <3>1, <3>2, <3>4 DEF Answered
  <2> QED
    BY <1>17, <2>1, <2>6 DEF InScan, PageEnds
<1>20. CASE Continued(s, batch)
  <2>1. pc' = "scanning" /\ returned' = returned /\ more' = more
    BY <1>3, <1>20 DEF Continued
  <2>2. InScan'
    <3>1. Len(Passed') = m /\ Seen' = a /\ ToSkip' = offset - s.skipped
      BY <1>9, <1>10, <1>15 DEF Seen, ToSkip
    <3>2. At(Readable', steady', m + (offset - s.skipped), returned' \o scan'.collected,
             Excess(a, m), Excess(m, a), departures', arrivals')
      BY <1>3, <1>8, <1>9, <1>16, <2>1 DEF Within
    <3> QED
      BY <3>1, <3>2 DEF InScan, Within
  <2>3. PageEnds'
    <3>1. ASSUME NEW n \in 0..Len(scan'.collected)
          PROVE  At(Readable', steady', offset' + n, returned' \o Take(scan'.collected, n), 0, 0,
                    departures', arrivals')
      <4>1. Within(offset + n, returned \o Take(s.collected, n), 0, 0)
        BY <1>9, <1>12, <1>14
      <4> QED
        BY <1>3, <1>8, <1>9, <2>1, <4>1 DEF Within
    <3> QED
      BY <3>1 DEF PageEnds, Within
  <2> QED
    BY <1>17, <2>1, <2>2, <2>3 DEF Answered
<1> QED
  BY <1>7, <1>18, <1>19, <1>20

-----------------------------------------------------------------------------
(* A write of the others, in the listing and in what the caller reads.      *)

LEMMA OnlyPlacedOut ==
    ASSUME NEW c \in CellId, NEW others \in Seq(CellId \ {c}), NEW r, Placed(r, others, c),
           NEW S, c \notin S
    PROVE  Only(r, S) = Only(others, S)
<1>1. PICK a \in Seq(CellId \ {c}), d \in Seq(CellId \ {c}) : others = a \o d /\ r = Around(a, c, d)
  BY DEF Placed
<1>2. a \in Seq(CellId) /\ d \in Seq(CellId)
  BY SeqMonotonic
<1>3. \A u, v \in Seq(CellId) : Only(Around(u, c, v), S) = Only(u, S) \o Only(v, S)
  BY OnlyOfOthers
<1>4. \A u, v \in Seq(CellId) : Only(u \o v, S) = Only(u, S) \o Only(v, S)
  BY OnlyConcats, Zenon
<1>5. Only(Around(a, c, d), S) = Only(a, S) \o Only(d, S)
  BY <1>2, <1>3, Zenon
<1>6. Only(a \o d, S) = Only(a, S) \o Only(d, S)
  BY <1>2, <1>4, Zenon
<1> QED
  BY <1>1, <1>5, <1>6

LEMMA OnlyPlacedIn ==
    ASSUME NEW c \in CellId, NEW others \in Seq(CellId \ {c}), NEW r, Placed(r, others, c),
           NEW S, c \in S
    PROVE  Placed(Only(r, S), Only(others, S), c)
<1>1. PICK a \in Seq(CellId \ {c}), d \in Seq(CellId \ {c}) : others = a \o d /\ r = Around(a, c, d)
  BY DEF Placed
<1>2. a \in Seq(CellId) /\ d \in Seq(CellId)
  BY SeqMonotonic
<1>3. Only(Around(a, c, d), S) = Around(Only(a, S), c, Only(d, S))
  BY <1>2, OnlyWithIt
<1>4. \A u, v \in Seq(CellId) : Only(u \o v, S) = Only(u, S) \o Only(v, S)
  BY OnlyConcats, Zenon
<1>5. Only(a \o d, S) = Only(a, S) \o Only(d, S)
  BY <1>2, <1>4, Zenon
<1>6. Only(a, S) \in Seq(CellId \ {c}) /\ Only(d, S) \in Seq(CellId \ {c})
  BY OnlySeq
<1> QED
  BY <1>1, <1>3, <1>5, <1>6 DEF Placed

\* With or without c, what is kept is what is kept of the others, or c among them.
LEMMA OnlyPlaced ==
    ASSUME NEW c \in CellId, NEW others \in Seq(CellId \ {c}), NEW r,
           r = others \/ Placed(r, others, c), NEW S
    PROVE  Only(r, S) = Only(others, S) \/ Placed(Only(r, S), Only(others, S), c)
BY OnlyPlacedIn, OnlyPlacedOut

LEMMA OnlyWithout ==
    ASSUME NEW c \in CellId, NEW others \in Seq(CellId \ {c}), NEW r,
           r = others \/ Placed(r, others, c), NEW S, r = others \/ c \notin S
    PROVE  Only(r, S) = Only(others, S)
BY OnlyPlacedOut

\* What the walk makes of c before and after a write, and whether it counts.
Before(c) == IF c \in ToSet(rows) THEN view[c] ELSE "filtered"
After(v, i) == IF i = 0 THEN "filtered" ELSE v
Midway == pc = "scanning" /\ scan # NewScan
Changed(c, v, i) ==
    \/ Before(c) # After(v, i)
    \/ i # 0 /\ c \in ToSet(rows) /\ rows # InsertAt(Only(rows, CellId \ {c}), i, c)

LEMMA WriteCounts ==
    ASSUME NEW c \in CellId, NEW v, NEW i, Write(c, v, i)
    PROVE  /\ pc # "done" /\ pc' = pc /\ scan' = scan /\ kind' = kind /\ offset' = offset
           /\ returned' = returned /\ more' = more
           /\ view' = [view EXCEPT ![c] = After(v, i)]
           /\ <<rows', view'>> # <<rows, view>>
           /\ rows' = IF i = 0 THEN Only(rows, CellId \ {c})
                      ELSE InsertAt(Only(rows, CellId \ {c}), i, c)
           /\ steady' = IF After(v, i) = "shown" THEN steady ELSE steady \ {c}
           /\ departures' = departures + (IF Changed(c, v, i)
                                          THEN IF Midway \/ Before(c) = "shown" THEN 1 ELSE 0
                                          ELSE 0)
           /\ arrivals' = arrivals + (IF Changed(c, v, i)
                                      THEN IF Midway \/ After(v, i) = "shown" THEN 1 ELSE 0
                                      ELSE 0)
BY DEF Write, Disturb, Before, After, Midway, Changed, server

\* n is the readable others, nm the listed others.
LEMMA WriteListings ==
    ASSUME Shape, NEW c \in CellId, NEW v, NEW i, Write(c, v, i),
           NEW n, n = Only(Only(rows, CellId \ {c}), Shown),
           NEW nm, nm = Only(Only(rows, CellId \ {c}), Matching)
    PROVE  /\ n \in Seq(CellId \ {c}) /\ nm \in Seq(CellId \ {c})
           /\ Shown \cap (CellId \ {c}) = Shown' \cap (CellId \ {c})
           /\ Only(nm, Shown) = n /\ Only(nm, Shown') = n
           /\ Readable = n \/ Placed(Readable, n, c)
           /\ Readable' = n \/ Placed(Readable', n, c)
           /\ Listing = nm \/ Placed(Listing, nm, c)
           /\ Listing' = nm \/ Placed(Listing', nm, c)
           /\ Before(c) # "shown" => Readable = n
           /\ After(v, i) # "shown" => Readable' = n
           /\ Before(c) = "filtered" => Listing = nm
           /\ After(v, i) = "filtered" => Listing' = nm
<1>1. PICK others, r, r2, S, M, S2, M2 :
         /\ others = Only(rows, CellId \ {c}) /\ r = rows /\ r2 = rows'
         /\ S = Shown /\ M = Matching /\ S2 = Shown' /\ M2 = Matching'
  OBVIOUS
<1>2. /\ others \in Seq(CellId \ {c})
      /\ r = others \/ Placed(r, others, c)
      /\ r2 = others \/ Placed(r2, others, c)
      /\ c \notin ToSet(r) => r = others
      /\ i = 0 => r2 = others
  BY <1>1, WriteEffect
<1>3. /\ view' = [view EXCEPT ![c] = After(v, i)] /\ view \in [CellId -> View]
  BY WriteCounts DEF Shape
<1>4. /\ S \cap (CellId \ {c}) = S2 \cap (CellId \ {c})
      /\ M \cap (CellId \ {c}) = M2 \cap (CellId \ {c})
      /\ c \in S <=> view[c] = "shown"
      /\ c \in M <=> view[c] # "filtered"
      /\ c \in S2 <=> After(v, i) = "shown"
      /\ c \in M2 <=> After(v, i) # "filtered"
      /\ S \subseteq M /\ S2 \subseteq M2
  BY <1>1, <1>3 DEF Shown, Matching
<1>5. n = Only(others, S) /\ nm = Only(others, M)
  BY <1>1
<1>6. n = Only(others, S2) /\ nm = Only(others, M2)
  BY <1>2, <1>4, <1>5, OnlySame
<1>7. n \in Seq(CellId \ {c}) /\ nm \in Seq(CellId \ {c})
  BY <1>2, <1>5, OnlySeq
<1>8. Only(nm, S) = n /\ Only(nm, S2) = n
  <2>1. Only(Only(others, M), S) = Only(others, S)
    BY <1>2, <1>4, OnlyTwice
  <2>2. Only(Only(others, M2), S2) = Only(others, S2)
    BY <1>2, <1>4, OnlyTwice
  <2> QED
    BY <1>5, <1>6, <2>1, <2>2, Zenon
<1>9. Readable = Only(r, S) /\ Listing = Only(r, M) /\ Readable' = Only(r2, S2) /\ Listing' = Only(r2, M2)
  BY <1>1 DEF Readable, Listing
<1>10. Readable = n \/ Placed(Readable, n, c)
  BY <1>2, <1>5, <1>9, OnlyPlaced
<1>11. Listing = nm \/ Placed(Listing, nm, c)
  BY <1>2, <1>5, <1>9, OnlyPlaced
<1>12. Readable' = n \/ Placed(Readable', n, c)
  BY <1>2, <1>6, <1>9, OnlyPlaced
<1>13. Listing' = nm \/ Placed(Listing', nm, c)
  BY <1>2, <1>6, <1>9, OnlyPlaced
<1>14. ASSUME Before(c) # "shown" PROVE Readable = n
  <2>1. r = others \/ c \notin S
    BY <1>1, <1>2, <1>4, <1>14 DEF Before
  <2> QED
    BY <1>2, <1>5, <1>9, <2>1, OnlyWithout
<1>15. ASSUME Before(c) = "filtered" PROVE Listing = nm
  <2>1. r = others \/ c \notin M
    BY <1>1, <1>2, <1>4, <1>15 DEF Before
  <2> QED
    BY <1>2, <1>5, <1>9, <2>1, OnlyWithout
<1>16. ASSUME After(v, i) # "shown" PROVE Readable' = n
  BY <1>2, <1>4, <1>6, <1>9, <1>16, OnlyWithout
<1>17. ASSUME After(v, i) = "filtered" PROVE Listing' = nm
  BY <1>2, <1>4, <1>6, <1>9, <1>17, OnlyWithout
<1> QED
  BY <1>1, <1>4, <1>7, <1>8, <1>10, <1>11, <1>12, <1>13, <1>14, <1>15, <1>16, <1>17

LEMMA ReadableAfter ==
    ASSUME Shape, NEW c \in CellId, NEW v, NEW i, Write(c, v, i),
           NEW n, n = Only(Only(rows, CellId \ {c}), Shown), After(v, i) # "shown"
    PROVE  Readable' = n
<1>1. PICK others, r2, S, S2 : /\ others = Only(rows, CellId \ {c}) /\ r2 = rows'
                               /\ S = Shown /\ S2 = Shown'
  OBVIOUS
<1>2. others \in Seq(CellId \ {c}) /\ (r2 = others \/ Placed(r2, others, c))
  BY <1>1, WriteEffect
<1>3. view' = [view EXCEPT ![c] = After(v, i)]
  BY WriteCounts
<1>4. view \in [CellId -> View]
  BY DEF Shape
<1>5. S \cap (CellId \ {c}) = S2 \cap (CellId \ {c}) /\ c \notin S2
  BY <1>1, <1>3, <1>4 DEF Shown
<1>6. Only(others, S) = Only(others, S2)
  BY <1>2, <1>5, OnlySame
<1>7. Only(r2, S2) = Only(others, S2)
  BY <1>2, <1>5, OnlyWithout
<1> QED
  BY <1>1, <1>6, <1>7 DEF Readable

LEMMA ListingAfter ==
    ASSUME Shape, NEW c \in CellId, NEW v, NEW i, Write(c, v, i),
           NEW n, n = Only(Only(rows, CellId \ {c}), Matching), After(v, i) = "filtered"
    PROVE  Listing' = n
<1>1. PICK others, r2, S, S2 : /\ others = Only(rows, CellId \ {c}) /\ r2 = rows'
                               /\ S = Matching /\ S2 = Matching'
  OBVIOUS
<1>2. others \in Seq(CellId \ {c}) /\ (r2 = others \/ Placed(r2, others, c))
  BY <1>1, WriteEffect
<1>3. view' = [view EXCEPT ![c] = After(v, i)]
  BY WriteCounts
<1>4. view \in [CellId -> View]
  BY DEF Shape
<1>5. S \cap (CellId \ {c}) = S2 \cap (CellId \ {c}) /\ c \notin S2
  BY <1>1, <1>3, <1>4 DEF Matching
<1>6. Only(others, S) = Only(others, S2)
  BY <1>2, <1>5, OnlySame
<1>7. Only(r2, S2) = Only(others, S2)
  BY <1>2, <1>5, OnlyWithout
<1> QED
  BY <1>1, <1>6, <1>7 DEF Listing

LEMMA ListingBefore ==
    ASSUME Shape, NEW c \in CellId, NEW v, NEW i, Write(c, v, i),
           NEW n, n = Only(Only(rows, CellId \ {c}), Matching), Before(c) = "filtered"
    PROVE  Listing = n
<1>1. PICK others, r, M : others = Only(rows, CellId \ {c}) /\ r = rows /\ M = Matching
  OBVIOUS
<1>2. others \in Seq(CellId \ {c}) /\ (r = others \/ Placed(r, others, c))
  BY <1>1, WriteEffect
<1>3. c \notin ToSet(r) => r = others
  BY <1>1, WriteEffect
<1>4. r = others \/ c \notin M
  BY <1>1, <1>3 DEF Before, Matching
<1>5. Only(r, M) = Only(others, M)
  BY <1>2, <1>4, OnlyWithout
<1> QED
  BY <1>1, <1>5 DEF Listing

LEMMA ListedReadableAfter ==
    ASSUME Shape, NEW c \in CellId, NEW v, NEW i, Write(c, v, i),
           NEW n, n = Only(Only(rows, CellId \ {c}), Shown),
           NEW nm, nm = Only(Only(rows, CellId \ {c}), Matching)
    PROVE  Only(nm, Shown') = n
<1>1. PICK others, M, S, S2 : /\ others = Only(rows, CellId \ {c}) /\ M = Matching
                              /\ S = Shown /\ S2 = Shown'
  OBVIOUS
<1>2. others \in Seq(CellId \ {c})
  BY <1>1, WriteEffect
<1>3. nm \in Seq(CellId \ {c})
  BY <1>1, <1>2, OnlySeq
<1>4. view' = [view EXCEPT ![c] = After(v, i)]
  BY WriteCounts
<1>5. view \in [CellId -> View]
  BY DEF Shape
<1>6. S \cap (CellId \ {c}) = S2 \cap (CellId \ {c}) /\ S \subseteq M
  BY <1>1, <1>4, <1>5 DEF Shown, Matching
<1>7. Only(Only(others, M), S) = Only(others, S)
  BY <1>2, <1>6, OnlyTwice
<1>8. Only(nm, S) = Only(nm, S2)
  BY <1>3, <1>6, OnlySame
<1> QED
  BY <1>1, <1>7, <1>8

\* A write that does not count is of a cell the walk's filter leaves out, and
\* leaves it out.
LEMMA UnchangedFiltered ==
    ASSUME Shape, NEW c \in CellId, NEW v, NEW i, Write(c, v, i), ~Changed(c, v, i)
    PROVE  Before(c) = "filtered" /\ After(v, i) = "filtered"
<1>1. Before(c) = After(v, i)
  BY DEF Changed
<1>2. ASSUME After(v, i) # "filtered" PROVE FALSE
  <2>1. i # 0 /\ c \in ToSet(rows)
    BY <1>1, <1>2 DEF After, Before
  <2>2. rows = InsertAt(Only(rows, CellId \ {c}), i, c)
    BY <2>1 DEF Changed
  <2>3. rows' = rows
    BY <2>1, <2>2, WriteCounts
  <2>4. After(v, i) = view[c]
    BY <1>1, <2>1 DEF Before
  <2>5. view' = [view EXCEPT ![c] = view[c]] /\ view \in [CellId -> View]
    <3>1. view' = [view EXCEPT ![c] = After(v, i)]
      BY WriteCounts
    <3> QED
      BY <2>4, <3>1 DEF Shape
  <2>6. view' = view
    BY <2>5
  <2> QED
    BY <2>3, <2>6, WriteCounts
<1> QED
  BY <1>1, <1>2

\* A walk at a fixed place, while c is written: f tells whether c was readable.
LEMMA FixedMissed ==
    ASSUME NEW c \in CellId, NEW n \in Seq(CellId \ {c}), NEW r, r = n \/ Placed(r, n, c),
           NEW r2, r2 = n \/ Placed(r2, n, c), NEW b \in Nat, NEW w,
           NEW cells, NEW cells2, cells2 \subseteq cells, cells \ {c} = cells2 \ {c},
           NEW f \in {0, 1}, f = 0 => r = n /\ c \notin cells
    PROVE  Missing(r2, cells2, b, w) <= Missing(r, cells, b, w) + f
<1>1. PICK X, X2, Y : X = cells \ ToSet(w) /\ X2 = cells2 \ ToSet(w) /\ Y = X \ {c}
  OBVIOUS
<1>2. X2 \ {c} = Y /\ (c \in X2 => c \in X) /\ (f = 0 => c \notin X)
  BY <1>1
<1>3. PICK x, x2, g, e, e2 : /\ x = CountIn(X, Take(r, b)) /\ x2 = CountIn(X2, Take(r2, b))
                             /\ g = CountIn(Y, Take(n, b)) /\ e = Mark(c, X) /\ e2 = Mark(c, X2)
  OBVIOUS
<1>4. g + e <= x + 1
  BY <1>1, <1>3, CountPlaced
<1>5. x2 <= g + e2
  <2>1. CountIn(X2, Take(r2, b)) <= CountIn(X2 \ {c}, Take(n, b)) + Mark(c, X2)
    BY CountPlaced
  <2> QED
    BY <1>2, <1>3, <2>1
<1>6. g \in Nat /\ e \in Nat /\ e2 \in Nat /\ e2 <= e /\ e2 <= 1 /\ (f = 0 => e2 = 0)
  BY <1>2, <1>3, CountsAreNumbers, MarkType
<1>7. x \in Nat /\ x2 \in Nat
  <2>1. r \in Seq(CellId) /\ r2 \in Seq(CellId)
    BY SeqMonotonic, PlacedType
  <2> QED
    BY <1>3, <2>1, CountsAreNumbers
<1>8. f = 0 => x = g
  <2>1. CountIn(X, Take(n, b)) = CountIn(X \ {c}, Take(n, b))
    BY CountAbsent
  <2> QED
    BY <1>1, <1>3, <2>1
<1>9. x2 <= x + f
  BY <1>4, <1>5, <1>6, <1>7, <1>8
<1> QED
  BY <1>1, <1>3, <1>9 DEF Missing

LEMMA FixedRepeated ==
    ASSUME NEW c \in CellId, NEW n \in Seq(CellId \ {c}), NEW r, r = n \/ Placed(r, n, c),
           NEW r2, r2 = n \/ Placed(r2, n, c), NEW b \in Nat, NEW w \in Seq(CellId),
           NEW f \in {0, 1}, f = 0 => r2 = n
    PROVE  Repeats(r2, b, w) <= Repeats(r, b, w) + f
<1>1. PICK W, Y : W = ToSet(w) /\ Y = W \ {c}
  OBVIOUS
<1>2. PICK x, x2, h : /\ x = CountIn(W, Drop(r, b)) /\ x2 = CountIn(W, Drop(r2, b))
                      /\ h = CountIn(Y, Drop(n, b))
  OBVIOUS
<1>3. h <= x
  BY <1>1, <1>2, CountPlaced
<1>4. x2 <= h + 1
  BY <1>1, <1>2, CountPlaced
<1>5. h \in Nat
  BY <1>2, CountsAreNumbers
<1>6. x \in Nat /\ x2 \in Nat
  <2>1. r \in Seq(CellId) /\ r2 \in Seq(CellId)
    BY SeqMonotonic, PlacedType
  <2> QED
    BY <1>2, <2>1, CountsAreNumbers
<1>7. f = 0 => x2 = h
  <2>1. CountIn(W, Drop(n, b)) = CountIn(W \ {c}, Drop(n, b))
    BY DropAbsent
  <2> QED
    BY <1>1, <1>2, <2>1
<1>8. x2 <= x + f
  BY <1>3, <1>4, <1>5, <1>6, <1>7
<1>9. PICK d : d = Len(w) - Cardinality(ToSet(w))
  OBVIOUS
<1>10. d \in Int
  BY <1>9, LenProperties, ElementsFinite
<1>11. d + x2 <= (d + x) + f
  BY <1>6, <1>8, <1>10
<1> QED
  BY <1>1, <1>2, <1>9, <1>11 DEF Repeats

\* The counts are numbers, wherever the listing r comes from.
LEMMA PlacedCounts ==
    ASSUME NEW c \in CellId, NEW n \in Seq(CellId \ {c}), NEW r, r = n \/ Placed(r, n, c),
           NEW b \in Nat, NEW w \in Seq(CellId), NEW cells
    PROVE  Missing(r, cells, b, w) \in Nat /\ Repeats(r, b, w) \in Nat
<1>1. r \in Seq(CellId)
  BY SeqMonotonic, PlacedType
<1> QED
  BY <1>1, WalkType

LEMMA FixedPlace ==
    ASSUME NEW c \in CellId, NEW n \in Seq(CellId \ {c}), NEW r, r = n \/ Placed(r, n, c),
           NEW r2, r2 = n \/ Placed(r2, n, c), NEW b \in Nat, NEW w \in Seq(CellId),
           NEW cells, NEW cells2, cells2 \subseteq cells, cells \ {c} = cells2 \ {c},
           NEW dep \in Nat, NEW arr \in Nat, At(r, cells, b, w, 0, 0, dep, arr),
           NEW dep2, dep2 = dep + 1 \/ (dep2 = dep /\ r = n /\ c \notin cells),
           NEW arr2, arr2 = arr + 1 \/ (arr2 = arr /\ r2 = n)
    PROVE  At(r2, cells2, b, w, 0, 0, dep2, arr2)
<1>1. PICK x, x2, y, y2 : /\ x = Missing(r, cells, b, w) /\ x2 = Missing(r2, cells2, b, w)
                          /\ y = Repeats(r, b, w) /\ y2 = Repeats(r2, b, w)
  OBVIOUS
<1>2. x \in Nat /\ x2 \in Nat /\ y \in Nat /\ y2 \in Nat
  BY <1>1, PlacedCounts
<1>3. PICK f \in {0, 1} : dep2 = dep + f /\ (f = 0 => r = n /\ c \notin cells)
  OBVIOUS
<1>4. PICK g \in {0, 1} : arr2 = arr + g /\ (g = 0 => r2 = n)
  OBVIOUS
<1>5. x2 <= x + f
  BY <1>1, <1>3, FixedMissed
<1>6. y2 <= y + g
  BY <1>1, <1>4, FixedRepeated
<1>7. x + 0 <= dep /\ y + 0 <= arr
  BY <1>1 DEF At
<1>8. x2 + 0 <= dep2 /\ y2 + 0 <= arr2
  BY <1>2, <1>3, <1>4, <1>5, <1>6, <1>7
<1> QED
  BY <1>1, <1>8 DEF At

\* A walk in the middle of a scan, while c is written.
LEMMA MidwayMissed ==
    ASSUME NEW c \in CellId, NEW q \in Seq(CellId \ {c}),
           NEW l, NEW r, r = q \/ Placed(r, q, c), NEW l2, NEW r2, r2 = q \/ Placed(r2, q, c),
           NEW lo \in Nat, NEW hi \in Nat, lo <= hi, hi <= lo + 1, NEW m \in Nat, NEW m2 \in Nat,
           NEW e, NEW o \in Nat, NEW S, NEW S2, NEW seen \in Nat, NEW w \in Seq(CellId),
           NEW cells, NEW cells2, cells2 \subseteq cells, cells \ {c} = cells2 \ {c},
           Cut(l, r, q, m, lo, hi, e, o, S, c), Cut(l2, r2, q, m2, lo, hi, e, o, S2, c)
    PROVE  Missing(r2, cells2, m2 + o, w) + Excess(seen, m2)
              <= (Missing(r, cells, m + o, w) + Excess(seen, m)) + 1
<1>1. PICK X, X2, Y : X = cells \ ToSet(w) /\ X2 = cells2 \ ToSet(w) /\ Y = X \ {c}
  OBVIOUS
<1>2. X2 \ {c} = Y /\ (c \in X2 => c \in X)
  BY <1>1
<1>3. PICK v, v2, g1, g0, ex, e1, e2 :
         /\ v = CountIn(X, Take(r, m + o)) + Excess(seen, m)
         /\ v2 = CountIn(X2, Take(r2, m2 + o)) + Excess(seen, m2)
         /\ g1 = CountIn(Y, Take(q, lo + o)) /\ g0 = CountIn(Y, Take(q, hi + o))
         /\ ex = Excess(seen, hi) /\ e1 = Mark(c, X) /\ e2 = Mark(c, X2)
  OBVIOUS
<1>4. MissedBand(v, lo, hi, g1, g0, ex, e1)
  BY <1>1, <1>3, MissedInCut
<1>5. MissedBand(v2, lo, hi, g1, g0, ex, e2)
  <2>1. MissedBand(CountIn(X2, Take(r2, m2 + o)) + Excess(seen, m2), lo, hi,
                   CountIn(X2 \ {c}, Take(q, lo + o)), CountIn(X2 \ {c}, Take(q, hi + o)),
                   Excess(seen, hi), Mark(c, X2))
    BY MissedInCut
  <2> QED
    BY <1>2, <1>3, <2>1
<1>6. /\ g1 \in Nat /\ g0 \in Nat /\ e1 \in Nat /\ e2 \in Nat /\ e2 <= e1 /\ ex \in Nat
  <2>1. lo + o \in Nat /\ hi + o \in Nat
    OBVIOUS
  <2>2. g1 \in Nat /\ g0 \in Nat
    BY <1>3, <2>1, CountsAreNumbers
  <2>3. e1 \in Nat /\ e2 \in Nat /\ e2 <= e1
    BY <1>2, <1>3 DEF Mark
  <2>4. ex \in Nat
    BY <1>3, ExcessType
  <2> QED
    BY <2>2, <2>3, <2>4
<1>7. v \in Nat /\ v2 \in Nat
  <2>1. r \in Seq(CellId) /\ r2 \in Seq(CellId)
    BY SeqMonotonic, PlacedType
  <2>2. m + o \in Nat /\ m2 + o \in Nat
    OBVIOUS
  <2>3. PICK b, b2 : b = m + o /\ b2 = m2 + o
    OBVIOUS
  <2>4. b \in Nat /\ b2 \in Nat
    BY <2>2, <2>3
  <2>5. CountIn(X, Take(r, b)) \in Nat
    <3>1. Take(r, b) \in Seq(CellId)
      BY <2>1, <2>4, TakeDrop
    <3> QED
      BY <3>1, CountType
  <2>6. CountIn(X2, Take(r2, b2)) \in Nat
    <3>1. Take(r2, b2) \in Seq(CellId)
      BY <2>1, <2>4, TakeDrop
    <3> QED
      BY <3>1, CountType
  <2>7. Excess(seen, m) \in Nat /\ Excess(seen, m2) \in Nat
    BY ExcessType
  <2>8. v = CountIn(X, Take(r, b)) + Excess(seen, m)
    BY <1>3, <2>3
  <2>9. v2 = CountIn(X2, Take(r2, b2)) + Excess(seen, m2)
    BY <1>3, <2>3
  <2>10. v \in Nat
    BY <2>5, <2>7, <2>8
  <2>11. v2 \in Nat
    BY <2>6, <2>7, <2>9
  <2> QED
    BY <2>10, <2>11
<1>8. v2 <= v + 1
  <2>1. CASE lo = hi
    <3>1. g0 + ex + e1 <= v + 1 /\ v2 <= g0 + ex + e2
      BY <1>4, <1>5, <2>1 DEF MissedBand
    <3> QED
      BY <1>6, <1>7, <3>1
  <2>2. CASE lo < hi
    <3>1. g1 + ex <= v /\ v2 <= g1 + ex + 1
      BY <1>4, <1>5, <2>2 DEF MissedBand
    <3> QED
      BY <1>6, <1>7, <3>1
  <2> QED
    BY <2>1, <2>2
<1> QED
  BY <1>1, <1>3, <1>8 DEF Missing

\* It repeats one more at most, if c does not come to light ahead of the cut.
LEMMA MidwayRepeated ==
    ASSUME NEW c \in CellId, NEW q \in Seq(CellId \ {c}),
           NEW l, NEW r, r = q \/ Placed(r, q, c), NEW l2, NEW r2, r2 = q \/ Placed(r2, q, c),
           NEW lo \in Nat, NEW hi \in Nat, lo <= hi, hi <= lo + 1, NEW m \in Nat, NEW m2 \in Nat,
           NEW e, NEW o \in Nat, NEW S, NEW S2, NEW seen \in Nat, NEW w \in Seq(CellId),
           Cut(l, r, q, m, lo, hi, e, o, S, c), Cut(l2, r2, q, m2, lo, hi, e, o, S2, c),
           ~(Hidden(l, r, q, m, lo, e, S, c) /\ Ahead(l2, r2, q, m2, hi, e, o, S2, c))
    PROVE  Repeats(r2, m2 + o, w) + Excess(m2, seen)
              <= (Repeats(r, m + o, w) + Excess(m, seen)) + 1
<1>1. PICK W, Y : W = ToSet(w) /\ Y = W \ {c}
  OBVIOUS
<1>2. PICK u, u2, z, z2, h1, h0, x1, x0 :
         /\ u = CountIn(W, Drop(r, m + o)) /\ z = Excess(m, seen)
         /\ u2 = CountIn(W, Drop(r2, m2 + o)) /\ z2 = Excess(m2, seen)
         /\ h1 = CountIn(Y, Drop(q, lo + o)) /\ h0 = CountIn(Y, Drop(q, hi + o))
         /\ x1 = Excess(lo, seen) /\ x0 = Excess(hi, seen)
  OBVIOUS
<1>3. PICK b1, b2, a1, a2 : /\ b1 = Hidden(l, r, q, m, lo, e, S, c)
                            /\ b2 = Ahead(l, r, q, m, hi, e, o, S, c)
                            /\ a1 = Hidden(l2, r2, q, m2, lo, e, S2, c)
                            /\ a2 = Ahead(l2, r2, q, m2, hi, e, o, S2, c)
  OBVIOUS
<1>4. RepeatedBand(u + z, b1, b2, lo, hi, h1, h0, x1, x0)
  BY <1>1, <1>2, <1>3, RepeatedInCut
<1>5. RepeatedBand(u2 + z2, a1, a2, lo, hi, h1, h0, x1, x0)
  BY <1>1, <1>2, <1>3, RepeatedInCut
<1>6. h1 \in Nat /\ h0 \in Nat /\ x1 \in Nat /\ x0 \in Nat /\ z \in Nat /\ z2 \in Nat
  <2>1. lo + o \in Nat /\ hi + o \in Nat
    OBVIOUS
  <2> QED
    BY <1>2, <2>1, CountsAreNumbers, ExcessType
<1>7. u \in Nat /\ u2 \in Nat
  <2>1. r \in Seq(CellId) /\ r2 \in Seq(CellId)
    BY SeqMonotonic, PlacedType
  <2>2. m + o \in Nat /\ m2 + o \in Nat
    OBVIOUS
  <2> QED
    BY <1>2, <2>1, <2>2, CountsAreNumbers
<1>8. PICK v, v2 : v = u + z /\ v2 = u2 + z2
  OBVIOUS
<1>9. v \in Nat /\ v2 \in Nat
  BY <1>6, <1>7, <1>8
<1>10. lo < hi => h0 <= h1 /\ h1 <= h0 + 1 /\ x1 <= x0 /\ x0 <= x1 + 1
  <2> SUFFICES ASSUME lo < hi PROVE h0 <= h1 /\ h1 <= h0 + 1 /\ x1 <= x0 /\ x0 <= x1 + 1
    OBVIOUS
  <2>1. hi = lo + 1 /\ hi + o = (lo + o) + 1 /\ lo + o \in Nat
    OBVIOUS
  <2>2. /\ CountIn(Y, Drop(q, (lo + o) + 1)) <= CountIn(Y, Drop(q, lo + o))
        /\ CountIn(Y, Drop(q, lo + o)) <= CountIn(Y, Drop(q, (lo + o) + 1)) + 1
    BY <2>1, CountOneMore
  <2>3. Excess(lo, seen) <= Excess(lo + 1, seen) /\ Excess(lo + 1, seen) <= Excess(lo, seen) + 1
    BY ExcessType
  <2> QED
    BY <1>2, <2>1, <2>2, <2>3
<1>11. v2 <= v + 1
  <2>1. CASE lo = hi
    <3>1. h0 + x0 <= v /\ v2 <= h0 + x0 + 1
      BY <1>4, <1>5, <1>8, <2>1 DEF RepeatedBand
    <3> QED
      BY <1>6, <1>9, <3>1
  <2>2. CASE lo < hi
    <3>1. \/ b1 /\ v = h1 + x1
          \/ h0 + x0 <= v /\ v <= h0 + x0 + 1
          \/ v = h0 + x0
          \/ v = h1 + x0
      BY <1>4, <1>8, <2>2 DEF RepeatedBand
    <3>2. \/ v2 = h1 + x1
          \/ a2 /\ h0 + x0 <= v2 /\ v2 <= h0 + x0 + 1
          \/ v2 = h0 + x0
          \/ v2 = h1 + x0
      BY <1>5, <1>8, <2>2 DEF RepeatedBand
    <3>3. h0 <= h1 /\ h1 <= h0 + 1 /\ x1 <= x0 /\ x0 <= x1 + 1
      BY <1>10, <2>2
    <3>4. CASE ~a2
      <4>1. v2 = h1 + x1 \/ v2 = h0 + x0 \/ v2 = h1 + x0
        BY <3>2, <3>4
      <4>2. v2 <= h1 + x0 /\ v2 <= h1 + x1 + 1 /\ h1 + x0 <= h0 + x0 + 1
        BY <1>6, <3>3, <4>1
      <4> QED
        BY <1>6, <1>9, <3>1, <4>2
    <3>5. CASE a2
      <4>1. ~b1
        BY <1>3, <3>5
      <4>2. h0 + x0 <= v
        BY <1>6, <3>1, <3>3, <4>1
      <4>3. v2 <= h0 + x0 + 1
        BY <1>6, <3>2, <3>3
      <4> QED
        BY <1>6, <1>9, <4>2, <4>3
    <3> QED
      BY <3>4, <3>5
  <2> QED
    BY <2>1, <2>2
<1>12. PICK d : d = Len(w) - Cardinality(ToSet(w))
  OBVIOUS
<1>13. d \in Int
  BY <1>12, LenProperties, ElementsFinite
<1>14. (d + u2) + z2 <= ((d + u) + z) + 1
  BY <1>6, <1>7, <1>8, <1>11, <1>13
<1> QED
  BY <1>1, <1>2, <1>12, <1>14 DEF Repeats

\* The cells shown all along stay in what the caller reads.
LEMMA WriteSteady ==
    ASSUME Shape, Counted, NEW c \in CellId, NEW v, NEW i, Write(c, v, i)
    PROVE  /\ steady' \subseteq steady /\ steady \ {c} = steady' \ {c}
           /\ steady' \subseteq ToSet(Readable')
<1>1. steady' = IF After(v, i) = "shown" THEN steady ELSE steady \ {c}
  BY WriteCounts
<1>2. PICK n, nm : /\ n = Only(Only(rows, CellId \ {c}), Shown)
                   /\ nm = Only(Only(rows, CellId \ {c}), Matching)
  OBVIOUS
<1>3. /\ n \in Seq(CellId \ {c})
      /\ Readable = n \/ Placed(Readable, n, c)
      /\ Readable' = n \/ Placed(Readable', n, c)
  BY <1>2, WriteListings
<1>4. ToSet(Readable) \subseteq ToSet(n) \cup {c}
  BY <1>3, PlacedType
<1>5. ToSet(n) \subseteq ToSet(Readable')
  BY <1>3, PlacedType
<1>6. ASSUME c \in steady' PROVE c \in ToSet(Readable')
  <2>1. After(v, i) = "shown"
    BY <1>1, <1>6
  <2>2. i # 0
    BY <2>1 DEF After
  <2>3. PICK others, r2, S2 : /\ others = Only(rows, CellId \ {c}) /\ r2 = rows' /\ S2 = Shown'
    OBVIOUS
  <2>4. others \in Seq(CellId \ {c}) /\ Placed(r2, others, c)
    <3>1. others \in Seq(CellId \ {c})
      BY <2>3, WriteEffect
    <3>2. i # 0 => Placed(rows', others, c)
      BY <2>3, WriteEffect
    <3> QED
      BY <2>2, <2>3, <3>1, <3>2
  <2>5. r2 \in Seq(CellId) /\ c \in ToSet(r2)
    BY <2>4, PlacedType
  <2>6. c \in S2
    <3>1. view' = [view EXCEPT ![c] = After(v, i)]
      BY WriteCounts
    <3>2. view \in [CellId -> View]
      BY DEF Shape
    <3>3. view'[c] = "shown"
      BY <2>1, <3>1, <3>2
    <3>4. c \in Shown'
      BY <3>3 DEF Shown
    <3> QED
      BY <2>3, <3>4
  <2>7. ToSet(Only(r2, S2)) = ToSet(r2) \cap S2
    BY <2>5, OnlyElements
  <2> QED
    BY <2>3, <2>5, <2>6, <2>7 DEF Readable
<1>7. steady \subseteq ToSet(Readable)
  BY DEF Counted
<1>8. steady' \subseteq ToSet(Readable')
  BY <1>1, <1>4, <1>5, <1>6, <1>7
<1> QED
  BY <1>1, <1>8

\* At a place that stays, a write adds what the counters say.
LEMMA WriteFixed ==
    ASSUME Shape, Counted, NEW c \in CellId, NEW v, NEW i, Write(c, v, i),
           NEW b \in Nat, NEW w \in Seq(CellId), Within(b, w, 0, 0)
    PROVE  At(Readable', steady', b, w, 0, 0, departures', arrivals')
<1>1. PICK n, nm : /\ n = Only(Only(rows, CellId \ {c}), Shown)
                   /\ nm = Only(Only(rows, CellId \ {c}), Matching)
  OBVIOUS
<1>2. PICK r, r2, cells, cells2, dep, arr :
         /\ r = Readable /\ r2 = Readable' /\ cells = steady /\ cells2 = steady'
         /\ dep = departures /\ arr = arrivals
  OBVIOUS
<1>3. /\ n \in Seq(CellId \ {c})
      /\ r = n \/ Placed(r, n, c)
      /\ r2 = n \/ Placed(r2, n, c)
      /\ Before(c) # "shown" => r = n
      /\ After(v, i) # "shown" => r2 = n
  <2>1. n \in Seq(CellId \ {c})
    BY <1>1, WriteListings
  <2>2. Readable = n \/ Placed(Readable, n, c)
    BY <1>1, WriteListings
  <2>3. Readable' = n \/ Placed(Readable', n, c)
    BY <1>1, WriteListings
  <2>4. Before(c) # "shown" => Readable = n
    BY <1>1, WriteListings
  <2>5. After(v, i) # "shown" => Readable' = n
    BY <1>1, ReadableAfter
  <2> QED
    BY <1>2, <2>1, <2>2, <2>3, <2>4, <2>5, Zenon
<1>4. PICK dep2, arr2 : dep2 = departures' /\ arr2 = arrivals'
  OBVIOUS
<1>5. dep \in Nat /\ arr \in Nat
  BY <1>2 DEF Counted
<1>6. dep2 = dep + 1 \/ (dep2 = dep /\ Before(c) # "shown")
  <2>1. departures' = departures + (IF Changed(c, v, i)
                                    THEN IF Midway \/ Before(c) = "shown" THEN 1 ELSE 0
                                    ELSE 0)
    BY WriteCounts
  <2>2. ~Changed(c, v, i) => Before(c) = "filtered"
    BY UnchangedFiltered
  <2> QED
    BY <1>2, <1>4, <1>5, <2>1, <2>2
<1>7. arr2 = arr + 1 \/ (arr2 = arr /\ After(v, i) # "shown")
  <2>1. arrivals' = arrivals + (IF Changed(c, v, i)
                                THEN IF Midway \/ After(v, i) = "shown" THEN 1 ELSE 0
                                ELSE 0)
    BY WriteCounts
  <2>2. ~Changed(c, v, i) => After(v, i) = "filtered"
    BY UnchangedFiltered
  <2> QED
    BY <1>2, <1>4, <1>5, <2>1, <2>2
<1>8. r = n => c \notin cells
  <2>1. ToSet(n) \subseteq CellId \ {c}
    BY <1>3, ElementsOf
  <2>2. cells \subseteq ToSet(r)
    BY <1>2 DEF Counted
  <2> QED
    BY <2>1, <2>2
<1>9. dep2 = dep + 1 \/ (dep2 = dep /\ r = n /\ c \notin cells)
  BY <1>3, <1>6, <1>8
<1>10. arr2 = arr + 1 \/ (arr2 = arr /\ r2 = n)
  BY <1>3, <1>7
<1>11. cells2 \subseteq cells /\ cells \ {c} = cells2 \ {c}
  BY <1>2, WriteSteady
<1>12. At(r, cells, b, w, 0, 0, dep, arr)
  BY <1>2 DEF Within
<1>13. At(r2, cells2, b, w, 0, 0, dep2, arr2)
  <2>1. n \in Seq(CellId \ {c}) /\ (r = n \/ Placed(r, n, c)) /\ (r2 = n \/ Placed(r2, n, c))
    BY <1>3
  <2> QED
    BY <2>1, <1>5, <1>9, <1>10, <1>11, <1>12, FixedPlace
<1> QED
  BY <1>2, <1>4, <1>13

\* A cell hidden from the caller in the cells examined does not come to light
\* ahead of them in one write: what reveals it does not move it.
LEMMA HiddenStays ==
    ASSUME Shape, NEW c \in CellId, NEW v, NEW i, Write(c, v, i), NEW e \in Nat,
           c \in ToSet(Take(Listing, e)), c \notin Shown, c \in Shown'
    PROVE  c \in ToSet(Take(Listing', e))
<1>1. PICK r, M, l : r = rows /\ M = Matching /\ l = Listing
  OBVIOUS
<1>2. r \in Seq(CellId) /\ l \in Seq(CellId) /\ l = Only(r, M)
  BY <1>1, ListingType DEF Shape, Listing
<1>3. c \in ToSet(l)
  <2>1. PICK a, d : a = Take(l, e) /\ d = Drop(l, e)
    OBVIOUS
  <2>2. a \in Seq(CellId) /\ d \in Seq(CellId)
    BY <1>2, <2>1, TakeDrop
  <2>3. a \o d = l
    BY <1>2, <2>1, TakeDrop
  <2>4. ToSet(a \o d) = ToSet(a) \cup ToSet(d)
    BY <2>2, ElementsOfConcat
  <2> QED
    BY <1>1, <2>1, <2>3, <2>4
<1>4. c \in ToSet(r) /\ c \in M
  <2>1. ToSet(Only(r, M)) = ToSet(r) \cap M
    BY <1>2, OnlyElements
  <2> QED
    BY <1>2, <1>3, <2>1
<1>5. view' = [view EXCEPT ![c] = After(v, i)] /\ view \in [CellId -> View]
  BY WriteCounts DEF Shape
<1>6. After(v, i) = "shown" /\ view[c] # "shown"
  BY <1>5 DEF Shown
<1>7. i # 0 /\ v # view[c]
  BY <1>6 DEF After
<1>8. i = PositionOf(c)
  BY <1>1, <1>4, <1>7 DEF Write
<1>9. rows' = rows
  BY <1>1, <1>4, <1>8, WriteEffect
<1>10. Matching' = Matching
  BY <1>1, <1>4, <1>5, <1>6 DEF Matching
<1>11. Listing' = Listing
  BY <1>9, <1>10 DEF Listing
<1> QED
  BY <1>11

\* The listings before and after a write of c, cut at the same place.
Crossed(c, q, l, r, l2, r2, m, m2, lo, hi, e, o, S, S2) ==
    /\ c \in CellId /\ q \in Seq(CellId \ {c})
    /\ r = q \/ Placed(r, q, c)
    /\ r2 = q \/ Placed(r2, q, c)
    /\ lo \in Nat /\ hi \in Nat /\ lo <= hi /\ hi <= lo + 1
    /\ m \in Nat /\ m2 \in Nat /\ o \in Nat
    /\ Cut(l, r, q, m, lo, hi, e, o, S, c)
    /\ Cut(l2, r2, q, m2, lo, hi, e, o, S2, c)
    /\ ~(Hidden(l, r, q, m, lo, e, S, c) /\ Ahead(l2, r2, q, m2, hi, e, o, S2, c))

LEMMA CrossedPlace ==
    ASSUME NEW c, NEW q, NEW l, NEW r, NEW l2, NEW r2, NEW m, NEW m2, NEW lo, NEW hi, NEW e, NEW o,
           NEW S, NEW S2, Crossed(c, q, l, r, l2, r2, m, m2, lo, hi, e, o, S, S2),
           NEW seen \in Nat, NEW w \in Seq(CellId), NEW b, b = m + o, NEW b2, b2 = m2 + o,
           NEW cells, NEW cells2, cells2 \subseteq cells, cells \ {c} = cells2 \ {c},
           NEW dep \in Nat, NEW arr \in Nat,
           At(r, cells, b, w, Excess(seen, m), Excess(m, seen), dep, arr),
           NEW dep2, dep2 = dep + 1, NEW arr2, arr2 = arr + 1
    PROVE  At(r2, cells2, b2, w, Excess(seen, m2), Excess(m2, seen), dep2, arr2)
<1>0. /\ c \in CellId /\ q \in Seq(CellId \ {c})
      /\ r = q \/ Placed(r, q, c)
      /\ r2 = q \/ Placed(r2, q, c)
      /\ lo \in Nat /\ hi \in Nat /\ lo <= hi /\ hi <= lo + 1
      /\ m \in Nat /\ m2 \in Nat /\ o \in Nat
      /\ Cut(l, r, q, m, lo, hi, e, o, S, c)
      /\ Cut(l2, r2, q, m2, lo, hi, e, o, S2, c)
      /\ ~(Hidden(l, r, q, m, lo, e, S, c) /\ Ahead(l2, r2, q, m2, hi, e, o, S2, c))
  BY DEF Crossed
<1>1. PICK x, x2, y, y2, a, a2, z, z2 :
         /\ x = Missing(r, cells, b, w) /\ x2 = Missing(r2, cells2, b2, w)
         /\ y = Repeats(r, b, w) /\ y2 = Repeats(r2, b2, w)
         /\ a = Excess(seen, m) /\ a2 = Excess(seen, m2)
         /\ z = Excess(m, seen) /\ z2 = Excess(m2, seen)
  OBVIOUS
<1>2. b \in Nat /\ b2 \in Nat
  BY <1>0
<1>3. x \in Nat /\ y \in Nat
  BY <1>0, <1>1, <1>2, PlacedCounts
<1>4. x2 \in Nat /\ y2 \in Nat
  BY <1>0, <1>1, <1>2, PlacedCounts
<1>5. a \in Nat /\ a2 \in Nat /\ z \in Nat /\ z2 \in Nat
  BY <1>0, <1>1, ExcessType
<1>6. x2 + a2 <= (x + a) + 1
  <2>1. Missing(r2, cells2, m2 + o, w) + Excess(seen, m2)
           <= (Missing(r, cells, m + o, w) + Excess(seen, m)) + 1
    BY <1>0, MidwayMissed
  <2> QED
    BY <1>1, <2>1
<1>7. y2 + z2 <= (y + z) + 1
  <2>1. Repeats(r2, m2 + o, w) + Excess(m2, seen)
           <= (Repeats(r, m + o, w) + Excess(m, seen)) + 1
    BY <1>0, MidwayRepeated
  <2> QED
    BY <1>1, <2>1
<1>8. x + a <= dep /\ y + z <= arr
  BY <1>1 DEF At
<1>9. x2 + a2 <= dep2 /\ y2 + z2 <= arr2
  BY <1>3, <1>4, <1>5, <1>6, <1>7, <1>8
<1> QED
  BY <1>1, <1>9 DEF At

\* Fewer cells to see, none more missed.
LEMMA AtFewer ==
    ASSUME NEW T, NEW r \in Seq(T), NEW b \in Nat, NEW w \in Seq(T), NEW cells,
           NEW cells2, cells2 \subseteq cells, NEW ahead \in Nat, NEW behind, NEW dep \in Nat,
           NEW arr, At(r, cells, b, w, ahead, behind, dep, arr)
    PROVE  At(r, cells2, b, w, ahead, behind, dep, arr)
<1>1. PICK t : t = Take(r, b)
  OBVIOUS
<1>2. t \in Seq(T)
  BY <1>1, TakeDrop
<1>3. PICK x, x2 : x = CountIn(cells \ ToSet(w), t) /\ x2 = CountIn(cells2 \ ToSet(w), t)
  OBVIOUS
<1>4. PICK part : part = (cells2 \ ToSet(w)) \cap ToSet(t)
  OBVIOUS
<1>5. part \subseteq (cells \ ToSet(w)) \cap ToSet(t)
  BY <1>4
<1>6. Cardinality(part) \in Nat /\ Cardinality(part) <= x
  BY <1>2, <1>3, <1>5, CountInSubset
<1>7. x2 = Cardinality(part)
  BY <1>3, <1>4 DEF CountIn
<1>8. x \in Nat
  BY <1>2, <1>3, CountType
<1>9. x + ahead <= dep
  BY <1>1, <1>3 DEF At, Missing
<1>10. x2 + ahead <= dep
  BY <1>6, <1>7, <1>8, <1>9
<1> QED
  BY <1>1, <1>3, <1>10 DEF At, Missing

LEMMA CuttingAt ==
    ASSUME NEW c \in CellId, NEW n \in Seq(CellId \ {c}), NEW l, l = n \/ Placed(l, n, c), NEW S,
           NEW k \in Nat, NEW o \in Nat, NEW r, r = Only(l, S), NEW q, q = Only(n, S),
           NEW e, e = k + 1,
           NEW lo, lo = Len(Only(Take(n, k), S)), NEW hi, hi = Len(Only(Take(n, e), S)),
           NEW m, m = Len(Only(Take(l, e), S))
    PROVE  Cut(l, r, q, m, lo, hi, e, o, S, c)
<1>1. hi = Len(Only(Take(n, k + 1), S)) /\ m = Len(Only(Take(l, k + 1), S))
  OBVIOUS
<1>2. Cut(l, r, q, m, lo, hi, k + 1, o, S, c)
  BY <1>1, Cutting
<1> QED
  BY <1>2

\* A scan in progress is accounted for through a write that counts ...
LEMMA WriteMidway ==
    ASSUME Shape, Locals, Counted, InScan, Midway, NEW c \in CellId, NEW v, NEW i,
           Write(c, v, i), Changed(c, v, i)
    PROVE  InScan'
<1>1. PICK n, nm : /\ n = Only(Only(rows, CellId \ {c}), Shown)
                   /\ nm = Only(Only(rows, CellId \ {c}), Matching)
  OBVIOUS
<1>2. PICK r, r2, l, l2, S, S2, cells, cells2 :
         /\ r = Readable /\ r2 = Readable' /\ l = Listing /\ l2 = Listing'
         /\ S = Shown /\ S2 = Shown' /\ cells = steady /\ cells2 = steady'
  OBVIOUS
<1>3. PICK dep, arr, dep2, arr2, w, e, o, seen, m, m2 :
         /\ dep = departures /\ arr = arrivals /\ dep2 = departures' /\ arr2 = arrivals'
         /\ w = returned \o scan.collected /\ e = scan.examined /\ o = ToSkip /\ seen = Seen
         /\ m = Len(Passed) /\ m2 = Len(Passed')
  OBVIOUS
<1>4. Shape'
  BY WriteLocals
<1>5. n \in Seq(CellId \ {c}) /\ nm \in Seq(CellId \ {c})
  BY <1>1, WriteListings
<1>6. r = n \/ Placed(r, n, c)
  BY <1>1, <1>2, WriteListings
<1>7. r2 = n \/ Placed(r2, n, c)
  BY <1>1, <1>2, WriteListings
<1>8. l = nm \/ Placed(l, nm, c)
  BY <1>1, <1>2, WriteListings
<1>9. l2 = nm \/ Placed(l2, nm, c)
  BY <1>1, <1>2, WriteListings
<1>10. Only(nm, S) = n /\ Only(nm, S2) = n
  <2>1. Only(nm, Shown) = n
    BY <1>1, WriteListings
  <2>2. Only(nm, Shown') = n
    BY <1>1, ListedReadableAfter
  <2> QED
    BY <1>2, <2>1, <2>2
<1>11. S \cap (CellId \ {c}) = S2 \cap (CellId \ {c})
  BY <1>1, <1>2, WriteListings
<1>12. r = Only(l, S)
  BY <1>2, ListingType
<1>13. r2 = Only(l2, S2)
  <2>1. rows' \in Seq(CellId) /\ S2 \subseteq Matching'
    BY <1>2, <1>4 DEF Shape, Shown, Matching
  <2>2. Only(Only(rows', Matching'), S2) = Only(rows', S2)
    BY <2>1, OnlyTwice
  <2> QED
    BY <1>2, <2>2 DEF Readable, Listing
<1>14. /\ scan' = scan /\ returned' = returned /\ offset' = offset /\ pc' = pc /\ pc = "scanning"
       /\ scan # NewScan
  BY WriteCounts DEF Midway
<1>15. PICK k \in Nat : e = k + 1
  <2>1. e \in Nat /\ e # 0
    BY <1>3, <1>14 DEF Shape, Scan, Locals
  <2>2. e - 1 \in Nat /\ e = (e - 1) + 1
    BY <2>1
  <2> QED
    BY <2>2
<1>16. /\ o \in Nat /\ seen \in Nat /\ w \in Seq(CellId) /\ m \in Nat
  <2>1. /\ scan.skipped \in Nat /\ offset \in Nat /\ scan.skipped <= offset
        /\ scan.collected \in Seq(CellId) /\ returned \in Seq(CellId)
    BY DEF Shape, Scan, Locals
  <2>2. Len(scan.collected) \in Nat
    BY <2>1, LenProperties
  <2>3. o \in Nat /\ seen \in Nat
    BY <1>3, <2>1, <2>2 DEF ToSkip, Seen
  <2>4. w \in Seq(CellId)
    BY <1>3, <2>1, ConcatProperties
  <2>5. m \in Nat
    BY <1>3, PassedType, LenProperties
  <2> QED
    BY <2>3, <2>4, <2>5
<1>17. m = Len(Only(Take(l, e), S)) /\ m2 = Len(Only(Take(l2, e), S2))
  BY <1>2, <1>3, <1>14 DEF Passed
<1>18. m2 \in Nat
  <2>1. l2 \in Seq(CellId)
    BY <1>2, <1>4, OnlySeq DEF Shape, Listing
  <2>2. PICK t : t = Take(l2, e)
    OBVIOUS
  <2>3. t \in Seq(CellId)
    BY <1>15, <2>1, <2>2, TakeDrop
  <2>4. Only(t, S2) \in Seq(CellId)
    BY <2>3, OnlySeq
  <2> QED
    BY <1>17, <2>2, <2>4, LenProperties
<1>19. PICK lo, hi : lo = Len(Only(Take(nm, k), S)) /\ hi = Len(Only(Take(nm, e), S))
  OBVIOUS
<1>20. lo \in Nat /\ hi \in Nat /\ lo <= hi /\ hi <= lo + 1
  BY <1>5, <1>15, <1>19, CutBounds
<1>21. lo = Len(Only(Take(nm, k), S2)) /\ hi = Len(Only(Take(nm, e), S2))
  <2>1. PICK t, u : t = Take(nm, k) /\ u = Take(nm, e)
    OBVIOUS
  <2>2. t \in Seq(CellId \ {c}) /\ u \in Seq(CellId \ {c})
    BY <1>5, <1>15, <2>1, TakeDrop
  <2>3. Only(t, S) = Only(t, S2)
    BY <1>11, <2>2, OnlySame
  <2>4. Only(u, S) = Only(u, S2)
    BY <1>11, <2>2, OnlySame
  <2> QED
    BY <1>19, <2>1, <2>3, <2>4
<1>22. Cut(l, r, n, m, lo, hi, e, o, S, c)
  BY <1>5, <1>8, <1>10, <1>12, <1>15, <1>16, <1>17, <1>19, CuttingAt
<1>23. Cut(l2, r2, n, m2, lo, hi, e, o, S2, c)
  BY <1>5, <1>9, <1>10, <1>13, <1>15, <1>16, <1>17, <1>21, CuttingAt
<1>24. ~(Hidden(l, r, n, m, lo, e, S, c) /\ Ahead(l2, r2, n, m2, hi, e, o, S2, c))
  <2> SUFFICES ASSUME Hidden(l, r, n, m, lo, e, S, c), Ahead(l2, r2, n, m2, hi, e, o, S2, c)
               PROVE  FALSE
    OBVIOUS
  <2>1. c \in ToSet(Take(l, e)) /\ c \notin S
    BY DEF Hidden
  <2>2. c \notin ToSet(Take(l2, e)) /\ c \in S2
    BY DEF Ahead
  <2>3. e \in Nat
    BY <1>15
  <2>4. c \in ToSet(Take(Listing', e))
    BY <1>2, <2>1, <2>2, <2>3, HiddenStays
  <2> QED
    BY <1>2, <2>2, <2>4
<1>25. cells2 \subseteq cells /\ cells \ {c} = cells2 \ {c}
  BY <1>2, WriteSteady
<1>26. dep \in Nat /\ arr \in Nat
  BY <1>3 DEF Counted
<1>27. dep2 = dep + 1 /\ arr2 = arr + 1
  <2>1. departures' = departures + (IF Changed(c, v, i)
                                    THEN IF Midway \/ Before(c) = "shown" THEN 1 ELSE 0
                                    ELSE 0)
    BY WriteCounts
  <2>2. arrivals' = arrivals + (IF Changed(c, v, i)
                                THEN IF Midway \/ After(v, i) = "shown" THEN 1 ELSE 0
                                ELSE 0)
    BY WriteCounts
  <2> QED
    BY <1>3, <2>1, <2>2
<1>28. PICK b, b2 : b = m + o /\ b2 = m2 + o
  OBVIOUS
<1>29. At(r, cells, b, w, Excess(seen, m), Excess(m, seen), dep, arr)
  <2>1. Within(Len(Passed) + ToSkip, returned \o scan.collected,
               Excess(Seen, Len(Passed)), Excess(Len(Passed), Seen))
    BY <1>14 DEF InScan
  <2> QED
    BY <1>2, <1>3, <1>28, <2>1 DEF Within
<1>30. At(r2, cells2, b2, w, Excess(seen, m2), Excess(m2, seen), dep2, arr2)
  <2>1. Crossed(c, n, l, r, l2, r2, m, m2, lo, hi, e, o, S, S2)
    BY <1>5, <1>6, <1>7, <1>16, <1>18, <1>20, <1>22, <1>23, <1>24 DEF Crossed
  <2> QED
    BY <2>1, <1>16, <1>25, <1>26, <1>27, <1>28, <1>29, CrossedPlace
<1>31. ToSkip' = o /\ Seen' = seen /\ returned' \o scan'.collected = w
  BY <1>3, <1>14 DEF ToSkip, Seen
<1> QED
  BY <1>2, <1>3, <1>28, <1>30, <1>31 DEF InScan, Within

\* ... and through one that does not.
LEMMA WriteAside ==
    ASSUME Shape, Locals, Counted, InScan, Midway, NEW c \in CellId, NEW v, NEW i,
           Write(c, v, i), ~Changed(c, v, i)
    PROVE  InScan'
<1>1. PICK n, nm : /\ n = Only(Only(rows, CellId \ {c}), Shown)
                   /\ nm = Only(Only(rows, CellId \ {c}), Matching)
  OBVIOUS
<1>2. Before(c) = "filtered" /\ After(v, i) = "filtered"
  BY UnchangedFiltered
<1>3. Readable' = Readable
  <2>1. After(v, i) # "shown" /\ Before(c) # "shown"
    BY <1>2
  <2>2. Readable' = n
    BY <1>1, <2>1, ReadableAfter
  <2>3. Before(c) # "shown" => Readable = n
    BY <1>1, WriteListings
  <2> QED
    BY <2>1, <2>2, <2>3
<1>4. Listing' = nm /\ Listing = nm
  <2>1. Listing = nm
    BY <1>1, <1>2, ListingBefore
  <2>2. Listing' = nm
    BY <1>1, <1>2, ListingAfter
  <2> QED
    BY <2>1, <2>2
<1>5. /\ scan' = scan /\ returned' = returned /\ offset' = offset /\ pc' = pc /\ pc = "scanning"
  BY WriteCounts DEF Midway
<1>6. departures' = departures /\ arrivals' = arrivals
  <2>1. departures' = departures + (IF Changed(c, v, i)
                                    THEN IF Midway \/ Before(c) = "shown" THEN 1 ELSE 0
                                    ELSE 0)
    BY WriteCounts
  <2>2. arrivals' = arrivals + (IF Changed(c, v, i)
                                THEN IF Midway \/ After(v, i) = "shown" THEN 1 ELSE 0
                                ELSE 0)
    BY WriteCounts
  <2>3. departures \in Nat /\ arrivals \in Nat
    BY DEF Counted
  <2> QED
    BY <2>1, <2>2, <2>3
<1>7. Passed' = Passed
  <2>1. PICK t, S, S2 : t = Take(nm, scan.examined) /\ S = Shown /\ S2 = Shown'
    OBVIOUS
  <2>2. nm \in Seq(CellId \ {c}) /\ S \cap (CellId \ {c}) = S2 \cap (CellId \ {c})
    BY <1>1, <2>1, WriteListings
  <2>3. scan.examined \in Nat
    BY DEF Shape, Scan
  <2>4. t \in Seq(CellId \ {c})
    BY <2>1, <2>2, <2>3, TakeDrop
  <2>5. Only(t, S) = Only(t, S2)
    BY <2>2, <2>4, OnlySame
  <2> QED
    BY <1>4, <1>5, <2>1, <2>5 DEF Passed
<1>8. PICK r, b, w, x, y : /\ r = Readable /\ b = Len(Passed) + ToSkip
                           /\ w = returned \o scan.collected
                           /\ x = Excess(Seen, Len(Passed)) /\ y = Excess(Len(Passed), Seen)
  OBVIOUS
<1>9. At(r, steady, b, w, x, y, departures, arrivals)
  BY <1>5, <1>8 DEF InScan, Within
<1>10. r \in Seq(CellId) /\ b \in Nat /\ w \in Seq(CellId) /\ x \in Nat /\ departures \in Nat
  <2>1. /\ scan.skipped \in Nat /\ offset \in Nat /\ scan.skipped <= offset
        /\ scan.collected \in Seq(CellId) /\ returned \in Seq(CellId)
    BY DEF Shape, Scan, Locals
  <2>2. Len(scan.collected) \in Nat /\ Len(Passed) \in Nat
    BY <2>1, PassedType, LenProperties
  <2>3. ToSkip \in Nat /\ Seen \in Nat
    BY <2>1, <2>2 DEF ToSkip, Seen
  <2>4. w \in Seq(CellId)
    BY <1>8, <2>1, ConcatProperties
  <2>5. x \in Nat
    BY <1>8, <2>2, <2>3, ExcessType
  <2>6. r \in Seq(CellId) /\ departures \in Nat
    BY <1>8, ListingType DEF Counted
  <2> QED
    BY <1>8, <2>2, <2>3, <2>4, <2>5, <2>6
<1>11. steady' \subseteq steady
  BY WriteSteady
<1>12. At(r, steady', b, w, x, y, departures, arrivals)
  BY <1>9, <1>10, <1>11, AtFewer
<1>13. ToSkip' = ToSkip /\ Seen' = Seen
  BY <1>5 DEF ToSkip, Seen
<1> QED
  BY <1>3, <1>5, <1>6, <1>7, <1>8, <1>12, <1>13 DEF InScan, Within

\* A scan that has not begun stands at its offset, which stays.
LEMMA WriteBefore ==
    ASSUME Shape, Locals, Counted, PageEnds, pc = "scanning", scan = NewScan,
           NEW c \in CellId, NEW v, NEW i, Write(c, v, i)
    PROVE  InScan'
<1>1. /\ scan' = NewScan /\ returned' = returned /\ offset' = offset
  BY WriteCounts
<1>2. PICK l, S, n, w : l = Listing' /\ S = Shown' /\ n = offset /\ w = returned
  OBVIOUS
<1>3. Shape'
  BY WriteLocals
<1>4. l \in Seq(CellId)
  BY <1>2, <1>3, OnlySeq DEF Shape, Listing
<1>5. n \in Nat /\ w \in Seq(CellId)
  BY <1>2 DEF Shape
<1>6. Passed' = Only(Take(l, NewScan.examined), S)
  BY <1>1, <1>2 DEF Passed
<1>7. /\ Len(Passed') + (n - NewScan.skipped) = n
      /\ Len(Passed') = 0
      /\ NewScan.skipped + Len(NewScan.collected) = 0
      /\ w \o NewScan.collected = w
      /\ \A k \in 0..Len(NewScan.collected) :
            k = 0 /\ n + k = n /\ w \o Take(NewScan.collected, k) = w
      /\ Excess(0, 0) = 0
  BY <1>4, <1>5, <1>6, NewScanValues
<1>8. Within(n, w, 0, 0)
  <2>1. 0 \in 0..Len(scan.collected)
    BY NewScanType, EmptySeq
  <2>2. Within(offset + 0, returned \o Take(scan.collected, 0), 0, 0)
    BY <2>1 DEF PageEnds
  <2>3. n + 0 = n /\ w \o Take(NewScan.collected, 0) = w
    BY <1>7, <2>1
  <2> QED
    BY <1>2, <2>2, <2>3
<1>9. At(Readable', steady', n, w, 0, 0, departures', arrivals')
  BY <1>5, <1>8, WriteFixed
<1>10. Seen' = 0 /\ Len(Passed') + ToSkip' = n
  BY <1>1, <1>2, <1>7 DEF Seen, ToSkip
<1>11. returned' \o scan'.collected = w
  BY <1>1, <1>2, <1>7
<1> QED
  BY <1>7, <1>9, <1>10, <1>11 DEF InScan, Within

LEMMA WriteWalk ==
    ASSUME Shape, Locals, Counted, InScan, PageEnds, Answered,
           NEW c \in CellId, NEW v, NEW i, Write(c, v, i)
    PROVE  Counted' /\ InScan' /\ PageEnds' /\ Answered'
<1>1. /\ pc # "done" /\ pc' = pc /\ scan' = scan /\ kind' = kind /\ offset' = offset
      /\ returned' = returned /\ more' = more
  BY WriteCounts
<1>2. PICK dep, arr, dep2, arr2 : /\ dep = departures /\ arr = arrivals
                                  /\ dep2 = departures' /\ arr2 = arrivals'
  OBVIOUS
<1>3. dep \in Nat /\ arr \in Nat
  BY <1>2 DEF Counted
<1>4. dep2 \in Nat /\ arr2 \in Nat /\ dep <= dep2 /\ arr <= arr2
  <2>1. departures' = departures + (IF Changed(c, v, i)
                                    THEN IF Midway \/ Before(c) = "shown" THEN 1 ELSE 0
                                    ELSE 0)
    BY WriteCounts
  <2>2. arrivals' = arrivals + (IF Changed(c, v, i)
                                THEN IF Midway \/ After(v, i) = "shown" THEN 1 ELSE 0
                                ELSE 0)
    BY WriteCounts
  <2> QED
    BY <1>2, <1>3, <2>1, <2>2
<1>5. steady' \subseteq steady /\ steady' \subseteq ToSet(Readable')
  BY WriteSteady
<1>6. Counted'
  BY <1>1, <1>2, <1>4, <1>5 DEF Counted
<1>7. InScan'
  <2>1. CASE pc # "scanning"
    BY <1>1, <2>1 DEF InScan
  <2>2. CASE pc = "scanning" /\ scan = NewScan
    BY <2>2, WriteBefore
  <2>3. CASE pc = "scanning" /\ scan # NewScan
    <3>1. Midway
      BY <2>3 DEF Midway
    <3> QED
      BY <3>1, WriteMidway, WriteAside
  <2> QED
    BY <2>1, <2>2, <2>3
<1>8. returned \in Seq(CellId) /\ offset \in Nat /\ Limit \in Nat /\ scan.collected \in Seq(CellId)
  BY ConstantTypes DEF Shape, Scan
<1>9. PageEnds'
  <2> SUFFICES ASSUME pc' = "scanning", NEW n \in 0..Len(scan'.collected)
               PROVE  Within(offset + n, returned \o Take(scan.collected, n), 0, 0)'
    BY DEF PageEnds
  <2>1. n \in 0..Len(scan.collected) /\ pc = "scanning"
    BY <1>1
  <2>2. PICK b, w : b = offset + n /\ w = returned \o Take(scan.collected, n)
    OBVIOUS
  <2>3. Within(b, w, 0, 0)
    BY <2>1, <2>2 DEF PageEnds
  <2>4. n \in Nat
    BY <1>8, <2>1, LenProperties
  <2>5. b \in Nat
    BY <1>8, <2>2, <2>4
  <2>6. w \in Seq(CellId)
    <3>1. PICK t : t = Take(scan.collected, n)
      OBVIOUS
    <3>2. t \in Seq(CellId)
      BY <1>8, <2>4, <3>1, TakeDrop
    <3> QED
      BY <1>8, <2>2, <3>1, <3>2, ConcatProperties
  <2>7. At(Readable', steady', b, w, 0, 0, departures', arrivals')
    BY <2>3, <2>5, <2>6, WriteFixed
  <2>8. At(Readable', steady', offset' + n, returned' \o Take(scan'.collected, n), 0, 0,
           departures', arrivals')
    BY <1>1, <2>2, <2>7
  <2> QED
    BY <2>8 DEF Within
<1>10. Answered'
  <2>1. ASSUME pc' = "answered", more'
        PROVE  At(Readable', steady', offset' + Limit, returned', 0, 0, departures', arrivals')
    <3>1. PICK b, w : b = offset + Limit /\ w = returned
      OBVIOUS
    <3>2. Within(b, w, 0, 0)
      BY <1>1, <2>1, <3>1 DEF Answered
    <3>3. b \in Nat /\ w \in Seq(CellId)
      BY <1>8, <3>1
    <3>4. At(Readable', steady', b, w, 0, 0, departures', arrivals')
      BY <3>2, <3>3, WriteFixed
    <3> QED
      BY <1>1, <3>1, <3>4
  <2>2. ASSUME pc' # "scanning"
        PROVE  Len(returned') - Cardinality(ToSet(returned')) <= arrivals'
    <3>1. PICK d : d = Len(returned) - Cardinality(ToSet(returned))
      OBVIOUS
    <3>2. d \in Int
      BY <1>8, <3>1, LenProperties, ElementsFinite
    <3>3. d <= arr
      BY <1>1, <1>2, <2>2, <3>1 DEF Answered
    <3>4. d <= arr2
      BY <1>3, <1>4, <3>2, <3>3
    <3> QED
      BY <1>1, <1>2, <3>1, <3>4
  <2>3. ASSUME pc' # "scanning", ~more', kind' = "search" \/ scan'.examined < ScanCeiling
        PROVE  Cardinality(steady' \ ToSet(returned')) <= departures'
    <3>1. PICK X, X2 : X = steady \ ToSet(returned) /\ X2 = steady' \ ToSet(returned)
      OBVIOUS
    <3>2. Cardinality(X) <= dep
      BY <1>1, <1>2, <2>3, <3>1 DEF Answered
    <3>3. X2 \subseteq X /\ X \subseteq ToSet(Readable)
      BY <1>5, <3>1 DEF Counted
    <3>4. IsFiniteSet(ToSet(Readable))
      BY ListingType, ElementsFinite
    <3>5. IsFiniteSet(X)
      BY <3>3, <3>4, FS_Subset
    <3>6. IsFiniteSet(X2) /\ Cardinality(X2) <= Cardinality(X)
      BY <3>3, <3>5, FS_Subset
    <3>7. Cardinality(X) \in Nat /\ Cardinality(X2) \in Nat
      BY <3>5, <3>6, FS_CardinalityType
    <3>8. Cardinality(X2) <= dep2
      BY <1>3, <1>4, <3>2, <3>6, <3>7
    <3> QED
      BY <1>1, <1>2, <3>1, <3>8
  <2> QED
    BY <2>1, <2>2, <2>3 DEF Answered, Within
<1> QED
  BY <1>6, <1>7, <1>9, <1>10

LEMMA StepWalk ==
    ASSUME Shape, Locals, Counted, InScan, PageEnds, Answered, [Next]_vars
    PROVE  Counted' /\ InScan' /\ PageEnds' /\ Answered'
<1>1. CASE ScanStep
  BY <1>1, ScanWalk
<1>2. CASE SearchStep
  BY <1>2, SearchWalk
<1>3. CASE NextPage
  BY <1>3, NextWalk
<1>4. ASSUME NEW c \in CellId, Rewrite(c) \/ Reorder(c) \/ Insert(c) \/ Purge(c)
      PROVE  Counted' /\ InScan' /\ PageEnds' /\ Answered'
  BY <1>4, OthersWrite, WriteWalk
<1>5. CASE UNCHANGED vars
  <2>1. UNCHANGED <<rows, view, kind, offset, scan, returned, more, pc, steady, departures, arrivals>>
    BY <1>5 DEF vars, server, history
  <2>2. Readable' = Readable /\ Listing' = Listing /\ Shown' = Shown
    BY <2>1 DEF Readable, Listing, Shown, Matching
  <2>3. Passed' = Passed /\ ToSkip' = ToSkip /\ Seen' = Seen
    BY <2>1, <2>2 DEF Passed, ToSkip, Seen
  <2>4. Counted' /\ InScan'
    BY <2>1, <2>2, <2>3 DEF Counted, InScan, Within
  <2>5. PageEnds' /\ Answered'
    BY <2>1, <2>2 DEF PageEnds, Answered, Within
  <2> QED
    BY <2>4, <2>5
<1> QED
  BY <1>1, <1>2, <1>3, <1>4, <1>5 DEF Next

LEMMA WalkInvariant == Spec => [](Shape /\ Locals /\ Counted /\ InScan /\ PageEnds /\ Answered)
<1> DEFINE IInv == Shape /\ Locals /\ Counted /\ InScan /\ PageEnds /\ Answered
<1>1. Init => IInv
  BY InitLocals, InitWalk
<1>2. IInv /\ [Next]_vars => IInv'
  BY StepLocals, StepWalk
<1> QED
  BY <1>1, <1>2, PTL DEF Spec

\* A walk that ends before the ceiling misses no more of the cells it could see
\* all along than readable cells left their place (or than rows came and went
\* while a page was scanned), whatever the writes, the store and the pages.
THEOREM MissesAreAccountedFor == Spec => []MissedOnlyAsOthersLeft
<1> DEFINE IInv == Shape /\ Locals /\ Counted /\ InScan /\ PageEnds /\ Answered
<1>1. IInv => MissedOnlyAsOthersLeft
  BY DEF Counted, Answered, MissedOnlyAsOthersLeft
<1> QED
  BY <1>1, WalkInvariant, PTL

\* It returns no more cells twice than readable cells took a place in the
\* listing (or than rows came and went while a page was scanned).
THEOREM RepeatsAreAccountedFor == Spec => []RepeatedOnlyAsOthersCame
<1> DEFINE IInv == Shape /\ Locals /\ Counted /\ InScan /\ PageEnds /\ Answered
<1>1. ASSUME IInv PROVE RepeatedOnlyAsOthersCame
  <2>1. CASE pc # "scanning"
    BY <1>1, <2>1 DEF Answered, RepeatedOnlyAsOthersCame
  <2>2. CASE pc = "scanning"
    <3>1. PICK r, w, b : r = Readable /\ w = returned /\ b = offset + 0
      OBVIOUS
    <3>2. r \in Seq(CellId) /\ w \in Seq(CellId) /\ b \in Nat /\ scan.collected \in Seq(CellId)
      BY <1>1, <3>1, ListingType DEF Shape, Scan
    <3>3. 0 \in 0..Len(scan.collected)
      BY <3>2, LenProperties
    <3>4. Within(offset + 0, returned \o Take(scan.collected, 0), 0, 0)
      BY <1>1, <2>2, <3>3 DEF PageEnds
    <3>5. w \o Take(scan.collected, 0) = w
      BY <3>2, TakeNone, ConcatEmptySeq
    <3>6. At(r, steady, b, w, 0, 0, departures, arrivals)
      BY <3>1, <3>4, <3>5 DEF Within
    <3>7. departures \in Nat /\ arrivals \in Nat
      BY <1>1 DEF Counted
    <3>8. Len(w) - Cardinality(ToSet(w)) <= arrivals
      BY <3>2, <3>6, <3>7, AtRepeats
    <3> QED
      BY <3>1, <3>8 DEF RepeatedOnlyAsOthersCame
  <2> QED
    BY <2>1, <2>2
<1> QED
  BY <1>1, WalkInvariant, PTL

=============================================================================

-------------------------- MODULE RateLimitProofs --------------------------
(* Lemmas about the limiter's functions, used by the proofs of the server   *)
(* and of the limiter on its own.                                           *)
EXTENDS RateLimit, SequenceTheorems, WellFoundedInduction, TLAPS

\* Every non-empty set of naturals has a least element.
LEMMA LeastElement ==
    ASSUME NEW T, T \subseteq Nat, T # {}
    PROVE  \E x \in T : \A y \in T : x <= y
<1> DEFINE R == OpToRel(<, Nat)
<1>1. IsWellFoundedOn(R, Nat)
  BY NatLessThanWellFounded
<1>2. \A x, y \in Nat : (<<x, y>> \in R) <=> x < y
  BY DEF OpToRel
<1> HIDE DEF R
<1>3. PICK x \in T : \A y \in T : ~(<<y, x>> \in R)
  BY <1>1, WFMin, Zenon
<1>4. ASSUME NEW y \in T PROVE x <= y
  <2>1. x \in Nat /\ y \in Nat
    OBVIOUS
  <2>2. ~(y < x)
    BY <1>2, <1>3, <2>1, Zenon
  <2> QED
    BY <2>1, <2>2
<1> QED
  BY <1>4

\* Pruning a deque drops its leading expired stamps and stops at the first
\* one that is still inside the window (the loop of _prune terminates with
\* exactly that).
LEMMA PruneDropsExpiredPrefix ==
    ASSUME NEW s \in Seq(Nat), NEW t \in Nat
    PROVE  \E k \in 0..Len(s) :
              /\ Prune(s, t) = SubSeq(s, k + 1, Len(s))
              /\ \A i \in 1..k : t - s[i] >= Window
              /\ k < Len(s) => t - s[k + 1] < Window
<1> DEFINE Stops(k) == k < Len(s) => t - s[k + 1] < Window
           T == {k \in 0..Len(s) : Stops(k)}
<1>1. Len(s) \in Nat /\ (\A i \in 1..Len(s) : s[i] \in Nat) /\ Window \in Nat
  BY LenProperties, ElementOfSeq, LimitAssumption DEF Window
<1>2. T \subseteq Nat /\ T # {}
  BY <1>1
<1>3. PICK k \in T : \A j \in T : k <= j
  BY <1>2, LeastElement, Zenon
<1>4. \A i \in 1..k : t - s[i] >= Window
  <2> SUFFICES ASSUME NEW i \in 1..k PROVE t - s[i] >= Window
    OBVIOUS
  <2>1. i - 1 \in 0..Len(s) /\ i - 1 < k /\ i - 1 < Len(s) /\ (i - 1) + 1 = i
    BY <1>1, <1>3
  <2>2. i - 1 \notin T
    BY <1>1, <1>3, <2>1
  <2>3. ~(t - s[(i - 1) + 1] < Window)
    BY <2>1, <2>2
  <2> QED
    BY <1>1, <1>3, <2>1, <2>3
<1>5. \E e \in 0..Len(s) : (\A i \in 1..e : t - s[i] >= Window) /\ Stops(e)
  BY <1>3, <1>4
<1> QED
  BY <1>5 DEF Prune

LEMMA PruneType ==
    ASSUME NEW s \in Seq(Nat), NEW t \in Nat
    PROVE  Prune(s, t) \in Seq(Nat)
<1>1. PICK k \in 0..Len(s) : Prune(s, t) = SubSeq(s, k + 1, Len(s))
  BY PruneDropsExpiredPrefix
<1>2. \A i \in k + 1 .. Len(s) : s[i] \in Nat
  BY LenProperties, ElementOfSeq
<1>3. k + 1 \in Int /\ Len(s) \in Int
  BY LenProperties
<1> QED
  BY <1>1, <1>2, <1>3, SubSeqProperties

-----------------------------------------------------------------------------
\* The keys of an ordered dictionary, and that it holds each once.
Keys(order) == {order[i] : i \in DOMAIN order}
NoDuplicates(order) == \A i, j \in DOMAIN order : order[i] = order[j] => i = j

\* Taking a key out leaves the others, in a dictionary still without duplicates.
LEMMA WithoutProperties ==
    ASSUME NEW order \in Seq(CellId), NEW c
    PROVE  /\ Without(order, c) \in Seq(CellId)
           /\ Keys(Without(order, c)) \subseteq Keys(order)
           /\ NoDuplicates(order) =>
                /\ NoDuplicates(Without(order, c))
                /\ Keys(Without(order, c)) = Keys(order) \ {c}
                /\ Len(Without(order, c)) = Len(order) - (IF c \in Keys(order) THEN 1 ELSE 0)
<1>0. Len(order) \in Nat /\ DOMAIN order = 1..Len(order)
      /\ \A i \in 1..Len(order) : order[i] \in CellId
  BY LenProperties, ElementOfSeq
<1>1. CASE ~ \E i \in DOMAIN order : order[i] = c
  <2>1. Without(order, c) = order
    BY <1>1, Zenon DEF Without
  <2>2. c \notin Keys(order)
    BY <1>1 DEF Keys
  <2>3. Keys(order) = Keys(order) \ {c}
        /\ Len(order) = Len(order) - (IF c \in Keys(order) THEN 1 ELSE 0)
    BY <1>0, <2>2
  <2> QED
    BY <2>1, <2>3
<1>2. CASE \E i \in DOMAIN order : order[i] = c
  <2> DEFINE k == CHOOSE j \in DOMAIN order : order[j] = c
             left == SubSeq(order, 1, k - 1)
             right == SubSeq(order, k + 1, Len(order))
             w == left \o right
  <2>1. k \in 1..Len(order) /\ order[k] = c
    BY <1>0, <1>2
  <2>2. Without(order, c) = w
    BY <1>2, Zenon DEF Without
  <2> HIDE DEF k
  <2>3. /\ left \in Seq(CellId)
        /\ Len(left) = k - 1
        /\ \A i \in 1..k-1 : left[i] = order[i]
    <3>1. \A i \in 1..k-1 : order[i] \in CellId
      BY <1>0, <2>1
    <3>2. 1 \in Int /\ k - 1 \in Int /\ (k - 1) - 1 + 1 = k - 1
      BY <1>0, <2>1
    <3>3. /\ left \in Seq(CellId)
          /\ Len(left) = IF 1 <= k - 1 THEN (k - 1) - 1 + 1 ELSE 0
          /\ \A i \in 1..((k - 1) - 1 + 1) : left[i] = order[1 + i - 1]
      BY <3>1, <3>2, SubSeqProperties
    <3> QED
      BY <1>0, <2>1, <3>2, <3>3
  <2>4. /\ right \in Seq(CellId)
        /\ Len(right) = Len(order) - k
        /\ \A i \in 1..(Len(order) - k) : right[i] = order[k + i]
    <3>1. \A i \in k+1..Len(order) : order[i] \in CellId
      BY <1>0, <2>1
    <3>2. k + 1 \in Int /\ Len(order) \in Int
      BY <1>0, <2>1
    <3>3. /\ right \in Seq(CellId)
          /\ Len(right) = IF k + 1 <= Len(order) THEN Len(order) - (k + 1) + 1 ELSE 0
          /\ \A i \in 1..(Len(order) - (k + 1) + 1) : right[i] = order[(k + 1) + i - 1]
      BY <3>1, <3>2, SubSeqProperties
    <3> HIDE DEF right
    <3>4. Len(right) = Len(order) - k
      <4>1. k \in Int /\ Len(order) \in Int /\ k <= Len(order)
        BY <1>0, <2>1
      <4>2. CASE k + 1 <= Len(order)
        <5>1. Len(right) = Len(order) - (k + 1) + 1
          BY <3>3, <4>2
        <5> QED
          BY <4>1, <5>1
      <4>3. CASE ~(k + 1 <= Len(order))
        <5>1. Len(right) = 0
          BY <3>3, <4>3
        <5> QED
          BY <4>1, <4>3, <5>1
      <4> QED
        BY <4>2, <4>3
    <3>5. ASSUME NEW i \in 1..(Len(order) - k) PROVE right[i] = order[k + i]
      <4>1. i \in 1..(Len(order) - (k + 1) + 1) /\ (k + 1) + i - 1 = k + i
        BY <1>0, <2>1
      <4> QED
        BY <3>3, <4>1
    <3> QED
      BY <3>3, <3>4, <3>5
  <2> HIDE DEF left, right
  <2>5. /\ w \in Seq(CellId)
        /\ Len(w) = Len(order) - 1
        /\ DOMAIN w = 1..(Len(order) - 1)
        /\ \A i \in 1..(Len(order) - 1) : w[i] = order[IF i < k THEN i ELSE i + 1]
    <3>1. /\ w \in Seq(CellId)
          /\ Len(w) = Len(left) + Len(right)
          /\ \A i \in 1..(Len(left) + Len(right)) :
                w[i] = IF i <= Len(left) THEN left[i] ELSE right[i - Len(left)]
      BY <2>3, <2>4, ConcatProperties
    <3>2. DOMAIN w = 1..Len(w)
      BY <3>1, LenProperties
    <3> HIDE DEF w
    <3>3. Len(w) = Len(order) - 1
      BY <1>0, <2>1, <2>3, <2>4, <3>1
    <3>4. ASSUME NEW i \in 1..(Len(order) - 1)
          PROVE  w[i] = order[IF i < k THEN i ELSE i + 1]
      <4>0. i \in 1..(Len(left) + Len(right)) /\ Len(left) = k - 1
        BY <1>0, <2>1, <2>3, <2>4
      <4>1. CASE i < k
        <5>1. i <= Len(left) /\ i \in 1..k-1
          BY <1>0, <2>1, <4>0, <4>1
        <5>2. w[i] = left[i]
          BY <3>1, <4>0, <5>1
        <5>3. left[i] = order[i]
          BY <2>3, <5>1
        <5> QED
          BY <4>1, <5>2, <5>3
      <4>2. CASE i >= k
        <5>1. i - (k - 1) \in 1..(Len(order) - k) /\ k + (i - (k - 1)) = i + 1
          BY <1>0, <2>1, <4>2
        <5>2. ~(i <= Len(left))
          BY <1>0, <2>1, <4>0, <4>2
        <5>3. w[i] = right[i - Len(left)]
          BY <3>1, <4>0, <5>2
        <5>4. right[i - (k - 1)] = order[k + (i - (k - 1))]
          BY <2>4, <5>1
        <5>5. ~(i < k)
          BY <1>0, <2>1, <4>2
        <5> QED
          BY <4>0, <5>1, <5>3, <5>4, <5>5
      <4> QED
        BY <1>0, <2>1, <4>1, <4>2
    <3> QED
      BY <3>1, <3>2, <3>3, <3>4
  <2> HIDE DEF w
  <2>6. Keys(w) \subseteq Keys(order)
    BY <1>0, <2>1, <2>5 DEF Keys
  <2>7. ASSUME NoDuplicates(order)
        PROVE  /\ NoDuplicates(w)
               /\ Keys(w) = Keys(order) \ {c}
               /\ c \in Keys(order)
    <3>1. NoDuplicates(w)
      BY <1>0, <2>1, <2>5, <2>7 DEF NoDuplicates
    <3>2. c \notin Keys(w)
      BY <1>0, <2>1, <2>5, <2>7 DEF Keys, NoDuplicates
    <3>3. ASSUME NEW x \in Keys(order) \ {c} PROVE x \in Keys(w)
      <4>1. PICK i \in 1..Len(order) : order[i] = x
        BY <1>0 DEF Keys
      <4>2. i # k
        BY <2>1, <4>1
      <4>3. CASE i < k
        <5>1. i \in 1..(Len(order) - 1) /\ w[i] = x
          BY <1>0, <2>1, <2>5, <4>1, <4>3
        <5> QED
          BY <2>5, <5>1 DEF Keys
      <4>4. CASE i > k
        <5>1. i - 1 \in 1..(Len(order) - 1) /\ w[i - 1] = x
          BY <1>0, <2>1, <2>5, <4>1, <4>4
        <5> QED
          BY <2>5, <5>1 DEF Keys
      <4> QED
        BY <1>0, <2>1, <4>1, <4>2, <4>3, <4>4
    <3>4. c \in Keys(order)
      BY <1>0, <2>1 DEF Keys
    <3> QED
      BY <2>6, <3>1, <3>2, <3>3, <3>4
  <2> QED
    BY <1>0, <2>2, <2>5, <2>6, <2>7
<1> QED
  BY <1>1, <1>2
-----------------------------------------------------------------------------
\* The table without its bound: an ordered dictionary of non-empty deques.
Dictionary(s) ==
    /\ s \in Seen
    /\ NoDuplicates(s.order)
    /\ \A c \in CellId : (c \in Tracked(s)) <=> (s.stamps[c] # <<>>)

Consistent(s) == Dictionary(s) /\ Len(s.order) <= MaxTracked

LEMMA TrackedIsKeys == \A s : Tracked(s) = Keys(s.order)
BY DEF Tracked, Keys

\* A new key goes to the end of the dictionary.
LEMMA AppendKey ==
    ASSUME NEW order \in Seq(CellId), NoDuplicates(order),
           NEW c \in CellId, c \notin Keys(order)
    PROVE  /\ Append(order, c) \in Seq(CellId)
           /\ NoDuplicates(Append(order, c))
           /\ Keys(Append(order, c)) = Keys(order) \cup {c}
           /\ Len(Append(order, c)) = Len(order) + 1
<1> DEFINE w == Append(order, c)
<1>1. /\ Len(order) \in Nat
      /\ DOMAIN order = 1..Len(order)
  BY LenProperties
<1>2. /\ w \in Seq(CellId)
      /\ Len(w) = Len(order) + 1
      /\ \A i \in 1..Len(order) : w[i] = order[i]
      /\ w[Len(order) + 1] = c
  BY AppendProperties
<1>3. DOMAIN w = 1..(Len(order) + 1)
  BY <1>2, LenProperties
<1> HIDE DEF w
<1>4. NoDuplicates(w)
  <2> SUFFICES ASSUME NEW i \in 1..(Len(order) + 1), NEW j \in 1..(Len(order) + 1), w[i] = w[j]
               PROVE  i = j
    BY <1>3 DEF NoDuplicates
  <2>1. \A k \in 1..Len(order) : w[k] \in Keys(order) /\ w[k] # c
    BY <1>1, <1>2 DEF Keys
  <2>2. CASE i \in 1..Len(order) /\ j \in 1..Len(order)
    BY <1>1, <1>2, <2>2 DEF NoDuplicates
  <2>3. CASE i = Len(order) + 1 \/ j = Len(order) + 1
    BY <1>1, <1>2, <2>1, <2>3
  <2> QED
    BY <1>1, <2>2, <2>3
<1>5. Keys(w) = Keys(order) \cup {c}
  BY <1>1, <1>2, <1>3 DEF Keys
<1> QED
  BY <1>2, <1>4, <1>5 DEF w

\* Eviction bounds the table and keeps it a dictionary; it adds no key.
LEMMA EvictedProperties ==
    ASSUME NEW s, Dictionary(s)
    PROVE  /\ Consistent(Evicted(s)) /\ Tracked(Evicted(s)) \subseteq Tracked(s)
           /\ \A c \in Tracked(Evicted(s)) : Evicted(s).stamps[c] = s.stamps[c]
<1>1. /\ s.order \in Seq(CellId)
      /\ s.stamps \in [CellId -> Seq(Nat)]
      /\ Len(s.order) \in Nat
      /\ DOMAIN s.order = 1..Len(s.order)
      /\ \A i \in 1..Len(s.order) : s.order[i] \in CellId
      /\ MaxTracked \in Nat \ {0}
  BY LenProperties, ElementOfSeq, LimitAssumption DEF Dictionary, Seen
<1>2. CASE Len(s.order) <= MaxTracked
  BY <1>2 DEF Evicted, Consistent
<1>3. CASE ~(Len(s.order) <= MaxTracked)
  <2> DEFINE d == Len(s.order) - MaxTracked
             kept == SubSeq(s.order, d + 1, Len(s.order))
             st == [c \in CellId |-> IF \E i \in DOMAIN kept : kept[i] = c
                                     THEN s.stamps[c] ELSE <<>>]
  <2>1. Evicted(s) = [order |-> kept, stamps |-> st]
    BY <1>3 DEF Evicted
  <2>2. /\ kept \in Seq(CellId)
        /\ Len(kept) = MaxTracked
        /\ \A i \in 1..MaxTracked : kept[i] = s.order[d + i]
    <3>1. /\ d \in Nat /\ d + 1 \in Int /\ Len(s.order) \in Int
          /\ Len(s.order) - (d + 1) + 1 = MaxTracked
      BY <1>1, <1>3
    <3>0. \A i \in Int : (d + 1) + i - 1 = d + i
      BY <1>1, <1>3
    <3>2. \A i \in d+1..Len(s.order) : s.order[i] \in CellId
      BY <1>1, <3>1
    <3> HIDE DEF d
    <3>3. /\ kept \in Seq(CellId)
          /\ Len(kept) = IF d + 1 <= Len(s.order) THEN Len(s.order) - (d + 1) + 1 ELSE 0
          /\ \A i \in 1..(Len(s.order) - (d + 1) + 1) : kept[i] = s.order[(d + 1) + i - 1]
      BY <3>1, <3>2, SubSeqProperties
    <3> HIDE DEF kept
    <3>4. Len(kept) = MaxTracked
      BY <1>1, <3>1, <3>3
    <3>5. ASSUME NEW i \in 1..MaxTracked PROVE kept[i] = s.order[d + i]
      <4>1. kept[i] = s.order[(d + 1) + i - 1]
        BY <3>1, <3>3
      <4> QED
        BY <3>0, <4>1
    <3> QED
      BY <3>3, <3>4, <3>5
  <2>3. d \in Nat /\ d + MaxTracked = Len(s.order)
    BY <1>1, <1>3
  <2>4. DOMAIN kept = 1..MaxTracked
    BY <2>2, LenProperties
  <2> HIDE DEF kept, d
  <2>5. st \in [CellId -> Seq(Nat)]
    <3>1. <<>> \in Seq(Nat)
      BY EmptySeq
    <3> QED
      BY <1>1, <3>1
  <2> HIDE DEF st
  <2>6. Keys(kept) \subseteq Keys(s.order)
    <3> SUFFICES ASSUME NEW i \in 1..MaxTracked PROVE kept[i] \in Keys(s.order)
      BY <2>4 DEF Keys
    <3>1. d + i \in 1..Len(s.order)
      BY <1>1, <2>3
    <3> QED
      BY <1>1, <2>2, <3>1 DEF Keys
  <2>7. NoDuplicates(kept)
    <3> SUFFICES ASSUME NEW i \in 1..MaxTracked, NEW j \in 1..MaxTracked, kept[i] = kept[j]
                 PROVE  i = j
      BY <2>4 DEF NoDuplicates
    <3>1. d + i \in 1..Len(s.order) /\ d + j \in 1..Len(s.order)
      BY <1>1, <2>3
    <3>2. s.order[d + i] = s.order[d + j]
      BY <2>2
    <3>3. d + i = d + j
      BY <1>1, <3>1, <3>2 DEF Dictionary, NoDuplicates
    <3> QED
      BY <2>3, <3>3
  <2>8. ASSUME NEW c \in CellId
        PROVE  (c \in Keys(kept)) <=> (st[c] # <<>>)
    <3>1. st[c] = IF c \in Keys(kept) THEN s.stamps[c] ELSE <<>>
      BY Zenon DEF st, Keys
    <3>2. c \in Keys(kept) => s.stamps[c] # <<>>
      BY <2>6, TrackedIsKeys DEF Dictionary
    <3> QED
      BY <3>1, <3>2
  <2>9. Tracked(Evicted(s)) = Keys(kept)
    BY <2>1, TrackedIsKeys
  <2>10. Evicted(s) \in Seen /\ Evicted(s).order = kept /\ Evicted(s).stamps = st
    BY <2>1, <2>2, <2>5 DEF Seen
  <2>11. \A c \in Keys(kept) : st[c] = s.stamps[c]
    BY <1>1, <2>6, Zenon DEF st, Keys
  <2> QED
    BY <1>1, <2>2, <2>6, <2>7, <2>8, <2>9, <2>10, <2>11, TrackedIsKeys
       DEF Consistent, Dictionary
<1> QED
  BY <1>2, <1>3
-----------------------------------------------------------------------------
\* The table with c moved to the end and its deque replaced.
Touched(s, c, deque) ==
    [order |-> Append(Without(s.order, c), c), stamps |-> [s.stamps EXCEPT ![c] = deque]]

\* Touching a key with a non-empty deque keeps the dictionary; only a key that
\* was not there makes it longer.
LEMMA TouchedProperties ==
    ASSUME NEW s, Dictionary(s), NEW c \in CellId,
           NEW deque \in Seq(Nat), deque # <<>>
    PROVE  /\ Dictionary(Touched(s, c, deque))
           /\ Tracked(Touched(s, c, deque)) = Tracked(s) \cup {c}
           /\ c \in Tracked(s) => Len(Touched(s, c, deque).order) = Len(s.order)
<1> DEFINE rest == Without(s.order, c)
           w == Append(rest, c)
           st == [s.stamps EXCEPT ![c] = deque]
<1>1. /\ s.order \in Seq(CellId) /\ NoDuplicates(s.order)
      /\ s.stamps \in [CellId -> Seq(Nat)]
      /\ Len(s.order) \in Nat
  BY LenProperties DEF Dictionary, Seen
<1>2. /\ rest \in Seq(CellId) /\ NoDuplicates(rest)
      /\ Keys(rest) = Keys(s.order) \ {c}
      /\ Len(rest) = Len(s.order) - (IF c \in Keys(s.order) THEN 1 ELSE 0)
  BY <1>1, WithoutProperties
<1>3. c \notin Keys(rest)
  BY <1>2
<1> HIDE DEF rest
<1>4. /\ w \in Seq(CellId) /\ NoDuplicates(w)
      /\ Keys(w) = Keys(rest) \cup {c} /\ Len(w) = Len(rest) + 1
  BY <1>2, <1>3, AppendKey
<1>5. /\ st \in [CellId -> Seq(Nat)]
      /\ \A x \in CellId : st[x] = IF x = c THEN deque ELSE s.stamps[x]
  BY <1>1
<1>6. Touched(s, c, deque) = [order |-> w, stamps |-> st]
  BY DEF Touched, rest
<1> HIDE DEF w, st
<1>7. /\ Touched(s, c, deque) \in Seen
      /\ Touched(s, c, deque).order = w
      /\ Touched(s, c, deque).stamps = st
  BY <1>4, <1>5, <1>6 DEF Seen
<1>8. Keys(w) = Keys(s.order) \cup {c}
  BY <1>2, <1>4
<1>9. \A x \in CellId : (x \in Keys(w)) <=> (st[x] # <<>>)
  BY <1>5, <1>8, TrackedIsKeys DEF Dictionary
<1>10. c \in Keys(s.order) => Len(w) = Len(s.order)
  BY <1>1, <1>2, <1>4
<1> QED
  BY <1>4, <1>7, <1>8, <1>9, <1>10, TrackedIsKeys DEF Dictionary

\* An attempt within its budget: c goes to the end with one stamp more, and
\* what remains tracked keeps its stamps.
LEMMA AllowedAttempt ==
    ASSUME NEW s, Consistent(s), NEW c \in CellId, NEW t \in Nat,
           Enabled, WithinBudget(s, c, t)
    PROVE  /\ Consistent(CheckAndRecord(s, c, t))
           /\ Tracked(CheckAndRecord(s, c, t)) \subseteq Tracked(s) \cup {c}
           /\ \A x \in Tracked(CheckAndRecord(s, c, t)) :
                CheckAndRecord(s, c, t).stamps[x]
                  = IF x = c THEN Append(Prune(s.stamps[c], t), t) ELSE s.stamps[x]
<1> DEFINE p == Prune(s.stamps[c], t)
           q == Append(p, t)
<1>1. /\ s.stamps[c] \in Seq(Nat) /\ s.stamps \in [CellId -> Seq(Nat)]
      /\ Dictionary(s)
  BY DEF Consistent, Dictionary, Seen
<1>2. q \in Seq(Nat) /\ q # <<>>
  <2>1. p \in Seq(Nat)
    BY <1>1, PruneType
  <2> HIDE DEF p
  <2> QED
    BY <2>1, AppendProperties
<1>3. CheckAndRecord(s, c, t) = Evicted(Touched(s, c, q))
  <2> DEFINE o == Append(Without(s.order, c), c)
             base == [s.stamps EXCEPT ![c] = p]
             touched == [order |-> o, stamps |-> base]
  <2>1. CheckAndRecord(s, c, t) = Evicted([touched EXCEPT !.stamps[c] = Append(@, t)])
    BY DEF CheckAndRecord
  <2>2. [base EXCEPT ![c] = Append(@, t)] = [s.stamps EXCEPT ![c] = q]
    BY <1>1
  <2>3. [touched EXCEPT !.stamps[c] = Append(@, t)]
          = [order |-> o, stamps |-> [base EXCEPT ![c] = Append(@, t)]]
    <3> HIDE DEF o, base
    <3> QED
      OBVIOUS
  <2> QED
    BY <2>1, <2>2, <2>3 DEF Touched
<1> HIDE DEF p, q
<1>4. Dictionary(Touched(s, c, q)) /\ Tracked(Touched(s, c, q)) = Tracked(s) \cup {c}
  BY <1>1, <1>2, TouchedProperties
<1>5. /\ Consistent(Evicted(Touched(s, c, q)))
      /\ Tracked(Evicted(Touched(s, c, q))) \subseteq Tracked(s) \cup {c}
      /\ \A x \in Tracked(Evicted(Touched(s, c, q))) :
            Evicted(Touched(s, c, q)).stamps[x] = Touched(s, c, q).stamps[x]
  BY <1>4, EvictedProperties
<1>6. \A x \in Tracked(s) \cup {c} :
         Touched(s, c, q).stamps[x] = IF x = c THEN q ELSE s.stamps[x]
  <2>1. Tracked(s) \subseteq CellId
    BY <1>1, ElementOfSeq, LenProperties DEF Tracked, Dictionary, Seen
  <2> QED
    BY <1>1, <2>1 DEF Touched
<1> QED
  BY <1>3, <1>5, <1>6 DEF p, q

\* The whole of check_and_record: whatever it answers, it leaves a consistent
\* table, which tracks no cell but the one it was asked about and those it
\* tracked before. A refused attempt was on a tracked cell.
LEMMA CheckAndRecordProperties ==
    ASSUME NEW s, Consistent(s), NEW c \in CellId, NEW t \in Nat
    PROVE  /\ Consistent(CheckAndRecord(s, c, t))
           /\ Tracked(CheckAndRecord(s, c, t)) \subseteq Tracked(s) \cup {c}
           /\ ~WithinBudget(s, c, t) =>
                /\ Prune(s.stamps[c], t) # <<>> /\ c \in Tracked(s)
                /\ CheckAndRecord(s, c, t).stamps = [s.stamps EXCEPT ![c] = Prune(@, t)]
<1> DEFINE p == Prune(s.stamps[c], t)
<1>1. /\ s.stamps[c] \in Seq(Nat) /\ s.stamps \in [CellId -> Seq(Nat)]
      /\ Dictionary(s)
      /\ Len(s.order) <= MaxTracked
  BY DEF Consistent, Dictionary, Seen
<1>2. p \in Seq(Nat) /\ Len(p) \in Nat
  BY <1>1, PruneType, LenProperties
<1>3. s.stamps[c] = <<>> => p = <<>>
  <2> SUFFICES ASSUME s.stamps[c] = <<>> PROVE p = <<>>
    OBVIOUS
  <2>1. Len(s.stamps[c]) = 0
    BY <1>1, EmptySeq
  <2>2. PICK k \in 0..Len(s.stamps[c]) : p = SubSeq(s.stamps[c], k + 1, Len(s.stamps[c]))
    BY <1>1, PruneDropsExpiredPrefix
  <2>3. k = 0 /\ p = SubSeq(s.stamps[c], 1, 0)
    BY <2>1, <2>2
  <2>4. Len(p) = 0
    BY <1>1, <2>3, SubSeqProperties
  <2> QED
    BY <1>2, <2>4, EmptySeq
<1>4. CASE ~Enabled
  BY <1>4 DEF CheckAndRecord, WithinBudget
<1>5. CASE Enabled /\ WithinBudget(s, c, t)
  BY <1>5, AllowedAttempt
<1>6. CASE Enabled /\ ~WithinBudget(s, c, t)
  <2>1. Len(p) > 0
    BY <1>2, <1>6, LimitAssumption DEF WithinBudget, Enabled
  <2>2. p # <<>>
    BY <2>1, EmptySeq
  <2>3. c \in Tracked(s)
    BY <1>1, <1>3, <2>2 DEF Dictionary
  <2>4. CheckAndRecord(s, c, t) = Touched(s, c, p)
    BY <1>6 DEF CheckAndRecord, Touched
  <2> HIDE DEF p
  <2>5. /\ Dictionary(Touched(s, c, p))
        /\ Tracked(Touched(s, c, p)) = Tracked(s) \cup {c}
        /\ Len(Touched(s, c, p).order) = Len(s.order)
    BY <1>1, <1>2, <2>2, <2>3, TouchedProperties
  <2>6. CheckAndRecord(s, c, t).stamps = [s.stamps EXCEPT ![c] = p]
    BY <2>4 DEF Touched
  <2>7. /\ Consistent(CheckAndRecord(s, c, t))
        /\ Tracked(CheckAndRecord(s, c, t)) \subseteq Tracked(s) \cup {c}
    BY <1>1, <2>4, <2>5 DEF Consistent
  <2> QED
    BY <1>6, <2>2, <2>3, <2>6, <2>7 DEF p
<1> QED
  BY <1>4, <1>5, <1>6

\* forget leaves a consistent table without the cell.
LEMMA ForgetProperties ==
    ASSUME NEW s, Consistent(s), NEW c \in CellId
    PROVE  Consistent(Forget(s, c)) /\ Tracked(Forget(s, c)) = Tracked(s) \ {c}
<1> DEFINE w == Without(s.order, c)
           st == [s.stamps EXCEPT ![c] = <<>>]
<1>1. /\ s.order \in Seq(CellId) /\ NoDuplicates(s.order)
      /\ s.stamps \in [CellId -> Seq(Nat)]
      /\ Len(s.order) \in Nat /\ Len(s.order) <= MaxTracked
      /\ MaxTracked \in Nat
  BY LenProperties, LimitAssumption DEF Consistent, Dictionary, Seen
<1>2. /\ w \in Seq(CellId) /\ NoDuplicates(w)
      /\ Keys(w) = Keys(s.order) \ {c}
      /\ Len(w) = Len(s.order) - (IF c \in Keys(s.order) THEN 1 ELSE 0)
  BY <1>1, WithoutProperties
<1>3. /\ st \in [CellId -> Seq(Nat)]
      /\ \A x \in CellId : st[x] = IF x = c THEN <<>> ELSE s.stamps[x]
  BY <1>1, EmptySeq
<1>4. Forget(s, c) = [order |-> w, stamps |-> st]
  BY DEF Forget
<1> HIDE DEF w, st
<1>5. Forget(s, c) \in Seen /\ Forget(s, c).order = w /\ Forget(s, c).stamps = st
  BY <1>2, <1>3, <1>4 DEF Seen
<1>6. \A x \in CellId : (x \in Keys(w)) <=> (st[x] # <<>>)
  BY <1>2, <1>3, TrackedIsKeys DEF Consistent, Dictionary
<1>7. Len(w) <= MaxTracked
  BY <1>1, <1>2
<1> QED
  BY <1>2, <1>5, <1>6, <1>7, TrackedIsKeys DEF Consistent, Dictionary

\* A limiter that starts, or restarts, with nothing is consistent.
LEMMA NothingSeenProperties == Consistent(NothingSeen) /\ Tracked(NothingSeen) = {}
<1>1. Len(<<>>) = 0 /\ DOMAIN <<>> = {} /\ <<>> \in Seq(CellId) /\ <<>> \in Seq(Nat)
  BY EmptySeq, LenProperties
<1> QED
  BY <1>1, LimitAssumption DEF Consistent, Dictionary, NoDuplicates, NothingSeen, Seen, Tracked
=============================================================================

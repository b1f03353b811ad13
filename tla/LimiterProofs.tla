--------------------------- MODULE LimiterProofs ---------------------------
(* The limiter on its own, for every set of cells, budget, window and cap:  *)
(* its table is consistent, no window is overspent, nobody is refused who   *)
(* has budget, and Retry-After is right.                                    *)
EXTENDS ScoringPatchLimiter, RateLimitProofs, FiniteSetTheorems

-----------------------------------------------------------------------------
(* A cell's deque is the end of what was allowed on it; whatever is no      *)
(* longer in the deque is a window old, so the deque alone bounds the       *)
(* window behind a new attempt.                                             *)
History(sp, st, t) ==
    /\ sp \in Seq(Nat) /\ st \in Seq(Nat)
    /\ Len(st) <= Len(sp)
    /\ \A i \in 1..Len(st) : st[i] = sp[Len(sp) - Len(st) + i]
    /\ \A i \in 1..(Len(sp) - Len(st)) : t - sp[i] >= Window
    /\ \A i \in 1..Len(sp) : i + MaxPatches <= Len(sp) => sp[i + MaxPatches] - sp[i] >= Window

LEMMA Between == \A a, b \in Int : a <= b + 1 /\ ~(a <= b) => a = b + 1
OBVIOUS

LEMMA Inside == \A i, m, n \in Int : i >= 1 /\ m >= 0 /\ i + m <= n + 1 /\ i + m # n + 1
                                     => i \in 1..n /\ i + m \in 1..n
OBVIOUS

LEMMA HistoryEmpty == \A t : History(<<>>, <<>>, t)
<1>1. <<>> \in Seq(Nat) /\ Len(<<>>) = 0
  BY EmptySeq
<1> QED
  BY <1>1 DEF History

\* Time only ages what has left the deque.
LEMMA HistoryLater ==
    ASSUME NEW sp, NEW st, NEW t \in Nat, History(sp, st, t)
    PROVE  History(sp, st, t + 1)
<1>1. sp \in Seq(Nat) /\ Len(sp) \in Nat /\ Len(st) \in Nat /\ Window \in Nat
      /\ \A i \in 1..Len(sp) : sp[i] \in Nat
  BY LenProperties, ElementOfSeq, LimitAssumption DEF History, Window
<1>2. ASSUME NEW i \in 1..(Len(sp) - Len(st)) PROVE (t + 1) - sp[i] >= Window
  <2>1. i \in 1..Len(sp) /\ t - sp[i] >= Window
    BY <1>1 DEF History
  <2> QED
    BY <1>1, <2>1
<1> QED
  BY <1>2 DEF History

\* _prune takes out only what is a window old.
LEMMA HistoryPrune ==
    ASSUME NEW sp, NEW st, NEW t \in Nat, History(sp, st, t)
    PROVE  History(sp, Prune(st, t), t)
<1>1. /\ sp \in Seq(Nat) /\ st \in Seq(Nat)
      /\ Len(sp) \in Nat /\ Len(st) \in Nat /\ Len(st) <= Len(sp)
      /\ \A i \in 1..Len(st) : st[i] \in Nat
  BY LenProperties, ElementOfSeq DEF History
<1>2. PICK k \in 0..Len(st) : /\ Prune(st, t) = SubSeq(st, k + 1, Len(st))
                              /\ \A i \in 1..k : t - st[i] >= Window
  BY <1>1, PruneDropsExpiredPrefix
<1> DEFINE p == Prune(st, t)
<1>3. p \in Seq(Nat)
  BY <1>1, PruneType
<1>4. /\ Len(p) = IF k + 1 <= Len(st) THEN Len(st) - (k + 1) + 1 ELSE 0
      /\ \A i \in 1..(Len(st) - (k + 1) + 1) : p[i] = st[(k + 1) + i - 1]
  <2>1. \A i \in k+1..Len(st) : st[i] \in Nat
    BY <1>1
  <2>2. k + 1 \in Int /\ Len(st) \in Int
    BY <1>1
  <2> QED
    BY <1>2, <2>1, <2>2, SubSeqProperties
<1> HIDE DEF p
<1>5. k \in Nat /\ k <= Len(st) /\ Len(p) = Len(st) - k /\ Len(st) - (k + 1) + 1 = Len(st) - k
  <2>1. k \in Nat /\ k <= Len(st)
    BY <1>1
  <2>2. CASE k + 1 <= Len(st)
    <3>1. Len(p) = Len(st) - (k + 1) + 1
      BY <1>4, <2>2
    <3> QED
      BY <1>1, <2>1, <3>1
  <2>3. CASE ~(k + 1 <= Len(st))
    <3>1. Len(p) = 0
      BY <1>4, <2>3
    <3> QED
      BY <1>1, <2>1, <2>3, <3>1
  <2> QED
    BY <2>2, <2>3
<1>6. ASSUME NEW i \in 1..Len(p) PROVE p[i] = sp[Len(sp) - Len(p) + i]
  <2>1. p[i] = st[(k + 1) + i - 1]
    BY <1>4, <1>5
  <2>2. (k + 1) + i - 1 = k + i /\ k + i \in 1..Len(st)
    BY <1>1, <1>5
  <2>3. st[k + i] = sp[Len(sp) - Len(st) + (k + i)]
    BY <2>2 DEF History
  <2>4. Len(sp) - Len(st) + (k + i) = Len(sp) - Len(p) + i
    BY <1>1, <1>5
  <2> QED
    BY <2>1, <2>2, <2>3, <2>4
<1>7. ASSUME NEW i \in 1..(Len(sp) - Len(p)) PROVE t - sp[i] >= Window
  <2> DEFINE d == Len(sp) - Len(st)
  <2>1. CASE i <= d
    <3>1. i \in 1..d
      BY <1>1, <2>1
    <3> QED
      BY <3>1 DEF History
  <2>2. CASE ~(i <= d)
    <3>1. i - d \in 1..k /\ d + (i - d) = i /\ i - d \in 1..Len(st)
      BY <1>1, <1>5, <2>2
    <3>2. st[i - d] = sp[d + (i - d)]
      BY <3>1 DEF History
    <3>3. t - st[i - d] >= Window
      BY <1>2, <3>1
    <3> QED
      BY <3>1, <3>2, <3>3
  <2> QED
    BY <2>1, <2>2
<1>8. Len(p) <= Len(sp)
  BY <1>1, <1>5
<1> QED
  BY <1>1, <1>3, <1>6, <1>7, <1>8 DEF History, p

\* An attempt allowed with fewer than MaxPatches stamps in the deque: the
\* attempt MaxPatches before it has left the deque.
LEMMA HistoryAllow ==
    ASSUME NEW sp, NEW p, NEW t \in Nat, History(sp, p, t), Len(p) < MaxPatches
    PROVE  History(Append(sp, t), Append(p, t), t)
<1> DEFINE s2 == Append(sp, t)
           p2 == Append(p, t)
<1>1. /\ sp \in Seq(Nat) /\ p \in Seq(Nat) /\ MaxPatches \in Nat
      /\ Len(sp) \in Nat /\ Len(p) \in Nat /\ Len(p) <= Len(sp)
  BY LenProperties, LimitAssumption DEF History
<1>2. /\ s2 \in Seq(Nat) /\ Len(s2) = Len(sp) + 1
      /\ \A i \in 1..Len(sp) : s2[i] = sp[i]
      /\ s2[Len(sp) + 1] = t
  BY <1>1, AppendProperties
<1>3. /\ p2 \in Seq(Nat) /\ Len(p2) = Len(p) + 1
      /\ \A i \in 1..Len(p) : p2[i] = p[i]
      /\ p2[Len(p) + 1] = t
  BY <1>1, AppendProperties
<1> HIDE DEF s2, p2
<1>4. Len(p2) <= Len(s2) /\ Len(s2) - Len(p2) = Len(sp) - Len(p)
  BY <1>1, <1>2, <1>3
<1>5. ASSUME NEW i \in 1..Len(p2) PROVE p2[i] = s2[Len(s2) - Len(p2) + i]
  <2>1. CASE i \in 1..Len(p)
    <3>1. p2[i] = p[i] /\ p[i] = sp[Len(sp) - Len(p) + i]
      BY <1>3, <2>1 DEF History
    <3>2. Len(sp) - Len(p) + i \in 1..Len(sp)
      BY <1>1, <2>1
    <3> QED
      BY <1>2, <1>4, <3>1, <3>2
  <2>2. CASE i \notin 1..Len(p)
    <3>1. i \in Int /\ i >= 1 /\ i <= Len(p) + 1 /\ ~(i <= Len(p))
      BY <1>1, <1>3, <2>2
    <3>2. i = Len(p) + 1
      BY <1>1, <3>1, Between
    <3>3. Len(sp) - Len(p) + i = Len(sp) + 1
      BY <1>1, <3>2
    <3> QED
      BY <1>2, <1>3, <1>4, <3>2, <3>3
  <2> QED
    BY <2>1, <2>2
<1>6. ASSUME NEW i \in 1..(Len(s2) - Len(p2)) PROVE t - s2[i] >= Window
  <2>1. i \in 1..(Len(sp) - Len(p)) /\ i \in 1..Len(sp)
    BY <1>1, <1>4
  <2> QED
    BY <1>2, <2>1 DEF History
<1>7. ASSUME NEW i \in 1..Len(s2), i + MaxPatches <= Len(s2)
      PROVE  s2[i + MaxPatches] - s2[i] >= Window
  <2>1. i \in Nat /\ i >= 1 /\ i + MaxPatches <= Len(sp) + 1
    BY <1>1, <1>2, <1>7
  <2>2. CASE i + MaxPatches # Len(sp) + 1
    <3>0. i \in Int /\ MaxPatches \in Int /\ MaxPatches >= 0 /\ Len(sp) \in Int
      BY <1>1, <2>1
    <3>1. i \in 1..Len(sp) /\ i + MaxPatches \in 1..Len(sp)
      BY <2>1, <2>2, <3>0, Inside
    <3>2. sp[i + MaxPatches] - sp[i] >= Window
      BY <3>1 DEF History
    <3> QED
      BY <1>2, <3>1, <3>2
  <2>3. CASE i + MaxPatches = Len(sp) + 1
    <3>1. MaxPatches > Len(p) /\ i <= Len(sp) - Len(p)
      BY <1>1, <2>1, <2>3
    <3>2. i \in 1..(Len(sp) - Len(p)) /\ i \in 1..Len(sp)
      BY <1>1, <2>1, <3>1
    <3>3. t - sp[i] >= Window
      BY <3>2 DEF History
    <3> QED
      BY <1>2, <2>3, <3>2, <3>3
  <2> QED
    BY <2>2, <2>3
<1> QED
  BY <1>2, <1>3, <1>4, <1>5, <1>6, <1>7 DEF History, s2, p2
-----------------------------------------------------------------------------
\* Inductive: the limiter stamps with a clock that is a natural, and the table
\* keeps the end of each tracked cell's history.
TableInv == clock \in Nat /\ Consistent(seen)
HistoryInv ==
    /\ TableInv
    /\ spent \in [CellId -> Seq(Nat)]
    /\ \A c \in CellId : History(spent[c], seen.stamps[c], clock)

LEMMA TableInvStep == TableInv /\ [Next]_vars => TableInv'
<1> SUFFICES ASSUME TableInv, [Next]_vars PROVE TableInv'
  OBVIOUS
<1> USE DEF TableInv
<1>1. ASSUME NEW c \in CellId, Allow(c) PROVE TableInv'
  BY <1>1, CheckAndRecordProperties DEF Allow
<1>2. ASSUME NEW c \in CellId, Refuse(c) PROVE TableInv'
  BY <1>2, CheckAndRecordProperties DEF Refuse
<1>3. ASSUME NEW c \in CellId, Drop(c) PROVE TableInv'
  BY <1>3, ForgetProperties DEF Drop
<1>4. CASE Tick
  BY <1>4 DEF Tick
<1>5. CASE UNCHANGED vars
  BY <1>5 DEF vars
<1> QED
  BY <1>1, <1>2, <1>3, <1>4, <1>5 DEF Next

LEMMA InitEstablishes == Init => HistoryInv
<1> SUFFICES ASSUME Init PROVE HistoryInv
  OBVIOUS
<1>1. TableInv
  BY NothingSeenProperties DEF Init, TableInv
<1>2. \A c \in CellId : spent[c] = <<>> /\ seen.stamps[c] = <<>>
  BY DEF Init, NothingSeen
<1>3. spent \in [CellId -> Seq(Nat)]
  BY EmptySeq DEF Init
<1> QED
  BY <1>1, <1>2, <1>3, HistoryEmpty DEF HistoryInv

\* Counters that are gone take their history with them.
LEMMA KeptHistories ==
    ASSUME NEW f \in [CellId -> Seq(Nat)], Consistent(seen)',
           \A x \in Tracked(seen') : x \in CellId => History(f[x], seen'.stamps[x], clock'),
           spent' = KeepTracked(f, <<>>)
    PROVE  /\ spent' \in [CellId -> Seq(Nat)]
           /\ \A x \in CellId : History(spent'[x], seen'.stamps[x], clock')
<1>1. \A x \in CellId : spent'[x] = IF x \in Tracked(seen') THEN f[x] ELSE <<>>
  BY DEF KeepTracked
<1>2. \A x \in CellId : x \notin Tracked(seen') => seen'.stamps[x] = <<>>
  BY DEF Consistent, Dictionary
<1>3. spent' \in [CellId -> Seq(Nat)]
  BY EmptySeq DEF KeepTracked
<1> QED
  BY <1>1, <1>2, <1>3, HistoryEmpty

LEMMA HistoryInvStep == HistoryInv /\ [Next]_vars => HistoryInv'
<1> SUFFICES ASSUME HistoryInv, [Next]_vars PROVE HistoryInv'
  OBVIOUS
<1>0. TableInv' /\ Consistent(seen) /\ Consistent(seen)' /\ clock \in Nat
  BY TableInvStep DEF HistoryInv, TableInv
<1>1. ASSUME NEW c \in CellId, Allow(c) PROVE HistoryInv'
  <2> DEFINE f == [spent EXCEPT ![c] = Append(@, clock)]
             p == Prune(seen.stamps[c], clock)
  <2>1. /\ spent' = KeepTracked(f, <<>>) /\ clock' = clock
        /\ seen' = CheckAndRecord(seen, c, clock)
        /\ Enabled /\ WithinBudget(seen, c, clock)
    BY <1>1 DEF Allow
  <2>2. \A x \in Tracked(seen') :
           seen'.stamps[x] = IF x = c THEN Append(p, clock) ELSE seen.stamps[x]
    <3> HIDE DEF f, p
    <3>1. Consistent(seen) /\ clock \in Nat
      BY <1>0
    <3> QED
      BY <2>1, <3>1, AllowedAttempt DEF p
  <2>3. History(spent[c], p, clock) /\ Len(p) < MaxPatches
    BY <1>0, <2>1, HistoryPrune DEF HistoryInv, WithinBudget
  <2> HIDE DEF p
  <2>4. History(Append(spent[c], clock), Append(p, clock), clock)
    BY <1>0, <2>3, HistoryAllow
  <2>5. /\ f \in [CellId -> Seq(Nat)]
        /\ \A x \in CellId : f[x] = IF x = c THEN Append(spent[c], clock) ELSE spent[x]
    BY <1>0, AppendProperties DEF HistoryInv
  <2> HIDE DEF f
  <2>6. \A x \in Tracked(seen') : x \in CellId => History(f[x], seen'.stamps[x], clock')
    BY <2>1, <2>2, <2>4, <2>5 DEF HistoryInv
  <2> QED
    BY <1>0, <2>1, <2>5, <2>6, KeptHistories DEF HistoryInv
<1>2. ASSUME NEW c \in CellId, Refuse(c) PROVE HistoryInv'
  <2>1. /\ spent' = spent /\ clock' = clock
        /\ seen'.stamps = [seen.stamps EXCEPT ![c] = Prune(@, clock)]
    BY <1>0, <1>2, CheckAndRecordProperties DEF Refuse
  <2>2. seen.stamps \in [CellId -> Seq(Nat)]
    BY <1>0 DEF Consistent, Dictionary, Seen
  <2>3. \A x \in CellId : History(spent[x], Prune(seen.stamps[x], clock), clock)
    BY <1>0, HistoryPrune DEF HistoryInv
  <2>4. \A x \in CellId : seen'.stamps[x] = IF x = c THEN Prune(seen.stamps[c], clock)
                                            ELSE seen.stamps[x]
    BY <2>1, <2>2
  <2> QED
    BY <1>0, <2>1, <2>3, <2>4 DEF HistoryInv
<1>3. ASSUME NEW c \in CellId, Drop(c) PROVE HistoryInv'
  <2>1. /\ spent' = KeepTracked(spent, <<>>) /\ clock' = clock /\ seen' = Forget(seen, c)
        /\ Tracked(seen') = Tracked(seen) \ {c}
    BY <1>0, <1>3, ForgetProperties DEF Drop
  <2>2. \A x \in Tracked(seen') : x \in CellId => seen'.stamps[x] = seen.stamps[x]
    BY <1>0, <2>1 DEF Forget, Consistent, Dictionary, Seen
  <2> QED
    BY <1>0, <2>1, <2>2, KeptHistories DEF HistoryInv
<1>4. CASE Tick
  <2>1. UNCHANGED <<seen, spent>> /\ clock' = clock + 1
    BY <1>4 DEF Tick
  <2>2. \A c \in CellId : History(spent[c], seen.stamps[c], clock + 1)
    BY <1>0, HistoryLater DEF HistoryInv
  <2> QED
    BY <1>0, <2>1, <2>2 DEF HistoryInv
<1>5. CASE UNCHANGED vars
  BY <1>0, <1>5 DEF vars, HistoryInv
<1> QED
  BY <1>1, <1>2, <1>3, <1>4, <1>5 DEF Next

LEMMA HistoryInvHolds == Spec => []HistoryInv
BY InitEstablishes, HistoryInvStep, PTL DEF Spec

\* The limiter's table: an ordered dictionary of non-empty deques, each key
\* once, no key without a stamp (check_and_record reads stamps[0] of a deque it
\* refuses on), never above max_tracked_cells between calls.
THEOREM TableIsConsistent == Spec => []TableConsistent
<1>1. HistoryInv => TableConsistent
  BY DEF HistoryInv, TableInv, Consistent, Dictionary, NoDuplicates, TableConsistent
<1> QED
  BY <1>1, HistoryInvHolds, PTL

\* While a cell is tracked, no window holds more than MaxPatches allowed
\* attempts on it, although the deque forgets what has left the window and the
\* table forgets whole cells.
THEOREM NoWindowIsOverspent == Spec => []NoWindowOverspent
<1>1. HistoryInv => NoWindowOverspent
  <2> SUFFICES ASSUME HistoryInv, NEW c \in CellId, NEW i \in DOMAIN spent[c],
                      i + MaxPatches \in DOMAIN spent[c]
               PROVE  spent[c][i + MaxPatches] - spent[c][i] >= Window
    BY DEF NoWindowOverspent
  <2>1. History(spent[c], seen.stamps[c], clock)
    BY DEF HistoryInv
  <2>2. DOMAIN spent[c] = 1..Len(spent[c]) /\ Len(spent[c]) \in Nat
    BY <2>1, LenProperties DEF History
  <2>3. i \in 1..Len(spent[c]) /\ i + MaxPatches <= Len(spent[c])
    BY <2>2
  <2> QED
    BY <2>1, <2>3 DEF History
<1> QED
  BY <1>1, HistoryInvHolds, PTL
-----------------------------------------------------------------------------
(* Never too strict: the stamps left in the deque are the last of the       *)
(* history, and as the clock only goes forward each is as young as the head *)
(* of the deque; so a full deque is MaxPatches allowed attempts in the      *)
(* window behind the refused one.                                           *)
InTime(sp, t) ==
    /\ \A i \in 1..Len(sp) : sp[i] <= t
    /\ \A i, j \in 1..Len(sp) : i <= j => sp[i] <= sp[j]

LEMMA InTimeEmpty == \A t : InTime(<<>>, t)
BY EmptySeq DEF InTime

LEMMA InTimeAppend ==
    ASSUME NEW sp \in Seq(Nat), NEW t \in Nat, InTime(sp, t)
    PROVE  InTime(Append(sp, t), t)
<1> DEFINE s2 == Append(sp, t)
<1>1. /\ Len(sp) \in Nat /\ Len(s2) = Len(sp) + 1 /\ s2[Len(sp) + 1] = t
      /\ \A i \in 1..Len(sp) : s2[i] = sp[i] /\ sp[i] \in Nat
  BY LenProperties, ElementOfSeq, AppendProperties
<1> HIDE DEF s2
<1>2. \A i \in 1..Len(s2) : i \in 1..Len(sp) \/ i = Len(sp) + 1
  BY <1>1
<1>3. \A i \in 1..Len(s2) : s2[i] <= t
  BY <1>1, <1>2 DEF InTime
<1>4. ASSUME NEW i \in 1..Len(s2), NEW j \in 1..Len(s2), i <= j PROVE s2[i] <= s2[j]
  <2>1. CASE j = Len(sp) + 1
    BY <1>1, <1>3, <2>1
  <2>2. CASE j # Len(sp) + 1
    <3>1. i \in 1..Len(sp) /\ j \in 1..Len(sp)
      BY <1>1, <1>2, <1>4, <2>2
    <3> QED
      BY <1>1, <1>4, <3>1 DEF InTime
  <2> QED
    BY <2>1, <2>2
<1> QED
  BY <1>3, <1>4 DEF InTime, s2

\* Prune(s, t) is s without its first k stamps, all expired, the next one not.
LEMMA PruneIsSuffix ==
    ASSUME NEW s \in Seq(Nat), NEW t \in Nat
    PROVE  \E k \in 0..Len(s) :
              /\ Len(Prune(s, t)) = Len(s) - k
              /\ \A i \in 1..(Len(s) - k) : Prune(s, t)[i] = s[k + i]
              /\ \A i \in 1..k : t - s[i] >= Window
              /\ k < Len(s) => t - s[k + 1] < Window
<1>1. PICK k \in 0..Len(s) : /\ Prune(s, t) = SubSeq(s, k + 1, Len(s))
                             /\ \A i \in 1..k : t - s[i] >= Window
                             /\ k < Len(s) => t - s[k + 1] < Window
  BY PruneDropsExpiredPrefix
<1> DEFINE p == Prune(s, t)
<1>2. Len(s) \in Nat /\ k \in Nat /\ k <= Len(s) /\ \A i \in k+1..Len(s) : s[i] \in Nat
  BY <1>1, LenProperties, ElementOfSeq
<1>3. /\ Len(p) = IF k + 1 <= Len(s) THEN Len(s) - (k + 1) + 1 ELSE 0
      /\ \A i \in 1..(Len(s) - (k + 1) + 1) : p[i] = s[(k + 1) + i - 1]
  BY <1>1, <1>2, SubSeqProperties
<1> HIDE DEF p
<1>4. Len(s) - (k + 1) + 1 = Len(s) - k /\ Len(p) = Len(s) - k
  BY <1>2, <1>3
<1>5. ASSUME NEW i \in 1..(Len(s) - k) PROVE p[i] = s[k + i]
  <2>1. (k + 1) + i - 1 = k + i
    BY <1>2
  <2> QED
    BY <1>3, <1>4, <2>1
<1> QED
  BY <1>1, <1>4, <1>5 DEF p

\* A full deque is that many attempts in the window behind the refused one.
LEMMA FullDequeIsSpent ==
    ASSUME NEW sp, NEW st, NEW t \in Nat, History(sp, st, t), InTime(sp, t),
           Len(Prune(st, t)) >= MaxPatches
    PROVE  Cardinality({i \in DOMAIN sp : t - sp[i] < Window}) >= MaxPatches
<1> DEFINE p == Prune(st, t)
           n == Len(sp) - Len(p)
           S == {i \in DOMAIN sp : t - sp[i] < Window}
<1>1. /\ sp \in Seq(Nat) /\ st \in Seq(Nat) /\ History(sp, p, t) /\ p \in Seq(Nat)
      /\ DOMAIN sp = 1..Len(sp) /\ Window \in Nat /\ MaxPatches \in Nat
  <2>1. sp \in Seq(Nat) /\ st \in Seq(Nat)
    BY DEF History
  <2>2. Window \in Nat /\ MaxPatches \in Nat
    BY LimitAssumption DEF Window
  <2> QED
    BY <2>1, <2>2, HistoryPrune, PruneType, LenProperties
<1>2. /\ Len(sp) \in Nat /\ Len(p) \in Nat /\ Len(p) <= Len(sp)
      /\ Len(p) > 0 => t - p[1] < Window
      /\ \A i \in 1..Len(sp) : sp[i] \in Nat
  <2>1. PICK k \in 0..Len(st) : /\ Len(p) = Len(st) - k
                                /\ \A i \in 1..(Len(st) - k) : p[i] = st[k + i]
                                /\ k < Len(st) => t - st[k + 1] < Window
    BY <1>1, PruneIsSuffix
  <2>2. Len(st) \in Nat /\ k \in Nat /\ k <= Len(st)
    BY <1>1, <2>1, LenProperties
  <2>3. Len(p) > 0 => k < Len(st) /\ 1 \in 1..(Len(st) - k)
    BY <2>1, <2>2
  <2>4. Len(p) > 0 => t - p[1] < Window
    BY <2>1, <2>3
  <2> QED
    BY <1>1, <2>4, LenProperties, ElementOfSeq DEF History
<1> HIDE DEF p
<1>3. n \in Nat /\ n <= Len(sp) /\ n + 1 \in Nat
  BY <1>2
<1>4. ASSUME NEW i \in (n + 1)..Len(sp) PROVE i \in S
  <2>1. i \in 1..Len(sp) /\ n + 1 \in 1..Len(sp) /\ n + 1 <= i /\ Len(p) > 0 /\ 1 \in 1..Len(p)
    BY <1>2, <1>3
  <2>2. p[1] = sp[n + 1]
    BY <1>1, <2>1 DEF History
  <2>3. sp[n + 1] <= sp[i] /\ sp[i] \in Nat /\ sp[n + 1] \in Nat
    BY <1>2, <2>1 DEF InTime
  <2>4. t - sp[n + 1] < Window
    BY <1>2, <2>1, <2>2
  <2> HIDE DEF n
  <2>5. t - sp[i] < Window
    BY <1>1, <2>3, <2>4
  <2> QED
    BY <1>1, <2>1, <2>5
<1>5. IsFiniteSet(1..Len(sp)) /\ IsFiniteSet((n + 1)..Len(sp))
      /\ Cardinality((n + 1)..Len(sp)) = IF n + 1 > Len(sp) THEN 0 ELSE Len(sp) - (n + 1) + 1
  <2>1. 1 \in Int /\ n + 1 \in Int /\ Len(sp) \in Int
    BY <1>2, <1>3
  <2> HIDE DEF n
  <2> QED
    BY <2>1, FS_Interval
<1>6. IsFiniteSet(S)
  BY <1>1, <1>5, FS_Subset
<1>7. /\ (n + 1)..Len(sp) \subseteq S
      /\ Cardinality((n + 1)..Len(sp)) <= Cardinality(S)
  BY <1>4, <1>6, FS_Subset
<1>8. Cardinality((n + 1)..Len(sp)) = Len(p) /\ Cardinality(S) \in Nat
  BY <1>2, <1>3, <1>5, <1>6, FS_CardinalityType
<1> QED
  BY <1>1, <1>2, <1>7, <1>8 DEF p

-----------------------------------------------------------------------------
\* Inductive, with HistoryInv: what was allowed was allowed in the past, in order.
InTimeInv == HistoryInv /\ \A c \in CellId : InTime(spent[c], clock)

LEMMA KeptInTime ==
    ASSUME NEW f, \A x \in CellId : InTime(f[x], clock'), spent' = KeepTracked(f, <<>>)
    PROVE  \A x \in CellId : InTime(spent'[x], clock')
<1>1. \A x \in CellId : spent'[x] = IF x \in Tracked(seen') THEN f[x] ELSE <<>>
  BY DEF KeepTracked
<1> QED
  BY <1>1, InTimeEmpty

LEMMA InTimeInvStep == InTimeInv /\ [Next]_vars => InTimeInv'
<1> SUFFICES ASSUME InTimeInv, [Next]_vars PROVE InTimeInv'
  OBVIOUS
<1>0. /\ HistoryInv' /\ spent \in [CellId -> Seq(Nat)] /\ clock \in Nat
      /\ \A c \in CellId : InTime(spent[c], clock)
  BY HistoryInvStep DEF InTimeInv, HistoryInv, TableInv
<1>1. ASSUME NEW c \in CellId, Allow(c) PROVE InTimeInv'
  <2> DEFINE f == [spent EXCEPT ![c] = Append(@, clock)]
  <2>1. spent' = KeepTracked(f, <<>>) /\ clock' = clock
    BY <1>1 DEF Allow
  <2>2. InTime(Append(spent[c], clock), clock)
    BY <1>0, InTimeAppend
  <2>3. \A x \in CellId : f[x] = IF x = c THEN Append(spent[c], clock) ELSE spent[x]
    BY <1>0
  <2>4. \A x \in CellId : InTime(f[x], clock')
    BY <1>0, <2>1, <2>2, <2>3
  <2> HIDE DEF f
  <2> QED
    BY <1>0, <2>1, <2>4, KeptInTime DEF InTimeInv
<1>2. ASSUME NEW c \in CellId, Refuse(c) PROVE InTimeInv'
  BY <1>0, <1>2 DEF Refuse, InTimeInv
<1>3. ASSUME NEW c \in CellId, Drop(c) PROVE InTimeInv'
  <2>1. spent' = KeepTracked(spent, <<>>) /\ clock' = clock
    BY <1>3 DEF Drop
  <2> QED
    BY <1>0, <2>1, KeptInTime DEF InTimeInv
<1>4. CASE Tick
  <2>1. spent' = spent /\ clock' = clock + 1
    BY <1>4 DEF Tick
  <2>2. ASSUME NEW c \in CellId PROVE InTime(spent[c], clock + 1)
    <3>1. \A i \in 1..Len(spent[c]) : spent[c][i] \in Nat /\ spent[c][i] <= clock
      BY <1>0, LenProperties, ElementOfSeq DEF InTime
    <3>2. \A i \in 1..Len(spent[c]) : spent[c][i] <= clock + 1
      BY <1>0, <3>1
    <3> QED
      BY <1>0, <3>2 DEF InTime
  <2> QED
    BY <1>0, <2>1, <2>2 DEF InTimeInv
<1>5. CASE UNCHANGED vars
  BY <1>0, <1>5 DEF vars, InTimeInv
<1> QED
  BY <1>1, <1>2, <1>3, <1>4, <1>5 DEF Next

LEMMA InTimeInvHolds == Spec => []InTimeInv
<1>1. Init => InTimeInv
  BY InitEstablishes, InTimeEmpty DEF Init, InTimeInv
<1> QED
  BY <1>1, InTimeInvStep, PTL DEF Spec

\* A PATCH is refused only when the window behind it really holds MaxPatches
\* allowed ones, although the deque the limiter counts forgets by pruning, by
\* eviction and with the cell.
THEOREM RefusedOnlyWhenSpent == Spec => NeverTooStrict
<1>1. ASSUME InTimeInv, NEW c \in CellId, Refuse(c)
      PROVE  Cardinality({i \in DOMAIN spent[c] : clock - spent[c][i] < Window}) >= MaxPatches
  <2>1. /\ clock \in Nat /\ History(spent[c], seen.stamps[c], clock) /\ InTime(spent[c], clock)
        /\ ~(Len(Prune(seen.stamps[c], clock)) < MaxPatches)
    BY <1>1 DEF InTimeInv, HistoryInv, TableInv, Refuse, WithinBudget
  <2>2. Len(Prune(seen.stamps[c], clock)) \in Nat /\ MaxPatches \in Nat
    BY <2>1, PruneType, LenProperties, LimitAssumption DEF History
  <2> QED
    BY <2>1, <2>2, FullDequeIsSpent
<1>2. InTimeInv /\ [Next]_vars =>
        [\A c \in CellId :
           Refuse(c) => Cardinality({i \in DOMAIN spent[c] : clock - spent[c][i] < Window})
                            >= MaxPatches]_vars
  BY <1>1
<1> QED
  BY <1>2, InTimeInvHolds, PTL DEF Spec, NeverTooStrict

-----------------------------------------------------------------------------
(* Retry-After: the promise is the moment the oldest stamp of the full      *)
(* deque leaves the window, rounded up to a second. Until an edit is        *)
(* allowed the deque stays as the refusal left it, so the oldest stamp      *)
(* alone decides the next attempt.                                          *)
Promised(deque, t) ==
    /\ Enabled /\ Len(deque) = MaxPatches
    /\ deque[1] + Window <= t /\ t < deque[1] + Window + TicksPerSecond

LEMMA LimitTypes == MaxPatches \in Nat /\ Window \in Nat /\ TicksPerSecond \in Nat \ {0}
BY LimitAssumption DEF Window

LEMMA RoundedUp ==
    ASSUME NEW left \in Nat \ {0}, NEW d \in Nat \ {0}
    PROVE  LET q == (left + d - 1) \div d
           IN q \in Nat \ {0} /\ left <= q * d /\ q * d < left + d
<1> DEFINE a == left + d - 1
           q == a \div d
<1>1. a \in Nat /\ a >= d
  OBVIOUS
<1>2. q \in Int /\ a = d * q + (a % d) /\ a % d \in 0..(d - 1)
  <2> HIDE DEF a
  <2> QED
    BY <1>1
<1> HIDE DEF q
<1>3. q * d = d * q /\ d * q \in Int /\ a % d \in Int
  BY <1>2
<1>4. d * q = a - (a % d) /\ 0 <= a % d /\ a % d <= d - 1
  BY <1>1, <1>2, <1>3
<1>5. d * q <= a /\ d * q > a - d
  BY <1>1, <1>3, <1>4
<1>6. d * q > 0 /\ left <= d * q /\ d * q < left + d
  BY <1>3, <1>5
<1>7. q > 0
  <2>1. CASE q <= 0
    BY <1>2, <1>6, <2>1
  <2> QED
    BY <1>2, <2>1
<1> QED
  BY <1>2, <1>3, <1>6, <1>7 DEF q

\* What a refused caller is told, and of which deque.
LEMMA RefusedPromise ==
    ASSUME NEW s, NEW c, NEW t \in Nat, s.stamps[c] \in Seq(Nat),
           ~WithinBudget(s, c, t), Len(s.stamps[c]) <= MaxPatches
    PROVE  Promised(Prune(s.stamps[c], t), t + RetryAfter(s, c, t) * TicksPerSecond)
<1> DEFINE st == s.stamps[c]
           p == Prune(st, t)
           left == Window - (t - p[1])
           q == (left + TicksPerSecond - 1) \div TicksPerSecond
<1>1. /\ st \in Seq(Nat) /\ Len(st) \in Nat /\ p \in Seq(Nat) /\ Len(p) \in Nat
      /\ MaxPatches \in Nat /\ Window \in Nat /\ TicksPerSecond \in Nat \ {0}
  BY PruneType, LenProperties, LimitTypes
<1>2. Enabled /\ MaxPatches > 0 /\ Len(p) >= MaxPatches /\ Len(st) <= MaxPatches
  BY <1>1 DEF WithinBudget, Enabled
<1>3. PICK k \in 0..Len(st) : /\ Len(p) = Len(st) - k
                              /\ \A i \in 1..(Len(st) - k) : p[i] = st[k + i]
                              /\ k < Len(st) => t - st[k + 1] < Window
  BY <1>1, PruneIsSuffix
<1> HIDE DEF st, p
<1>4. Len(p) = MaxPatches /\ k = 0 /\ 0 < Len(st)
  BY <1>1, <1>2, <1>3
<1>5. p[1] = st[1] /\ t - st[1] < Window /\ p[1] \in Nat
  BY <1>1, <1>3, <1>4, ElementOfSeq
<1>6. left \in Nat \ {0}
  BY <1>1, <1>5
<1>7. q \in Nat \ {0} /\ left <= q * TicksPerSecond /\ q * TicksPerSecond < left + TicksPerSecond
  <2> HIDE DEF left
  <2> QED
    BY <1>1, <1>6, RoundedUp
<1>8. RetryAfter(s, c, t) = q
  <2>1. ~(q < 1)
    BY <1>7
  <2> QED
    BY <2>1 DEF RetryAfter, st, p
<1> HIDE DEF q
<1>9. q * TicksPerSecond \in Int
  BY <1>1, <1>7
<1>10. /\ p[1] + Window <= t + q * TicksPerSecond
       /\ t + q * TicksPerSecond < p[1] + Window + TicksPerSecond
  <2> DEFINE wait == q * TicksPerSecond
  <2>1. wait \in Int /\ left <= wait /\ wait < left + TicksPerSecond
    BY <1>7, <1>9
  <2> HIDE DEF wait
  <2>2. p[1] \in Int /\ Window \in Int /\ t \in Int /\ TicksPerSecond \in Int
    BY <1>1, <1>5
  <2>3. \A x, w, now, d, y \in Int : w - (now - x) <= y /\ y < w - (now - x) + d
                                    => x + w <= now + y /\ now + y < x + w + d
    OBVIOUS
  <2>4. p[1] + Window <= t + wait /\ t + wait < p[1] + Window + TicksPerSecond
    BY <2>1, <2>2, <2>3
  <2> QED
    BY <2>4 DEF wait
<1> QED
  BY <1>2, <1>4, <1>8, <1>10 DEF Promised, p, st

\* Whoever was told t finds budget at t, and none a second earlier.
LEMMA PromiseIsExact ==
    ASSUME NEW s, NEW c, NEW now \in Nat, NEW t \in Nat, s.stamps[c] \in Seq(Nat),
           Promised(s.stamps[c], t)
    PROVE  /\ now >= t => WithinBudget(s, c, now)
           /\ now + TicksPerSecond <= t => ~WithinBudget(s, c, now)
<1> DEFINE st == s.stamps[c]
           p == Prune(st, now)
<1>1. /\ st \in Seq(Nat) /\ Len(st) \in Nat /\ p \in Seq(Nat) /\ Len(p) \in Nat
      /\ MaxPatches \in Nat /\ Window \in Nat /\ TicksPerSecond \in Nat \ {0}
  BY PruneType, LenProperties, LimitTypes
<1>2. PICK k \in 0..Len(st) : /\ Len(p) = Len(st) - k
                              /\ \A i \in 1..k : now - st[i] >= Window
                              /\ k < Len(st) => now - st[k + 1] < Window
  BY <1>1, PruneIsSuffix
<1>3. /\ Enabled /\ MaxPatches > 0 /\ Len(st) = MaxPatches
      /\ st[1] + Window <= t /\ t < st[1] + Window + TicksPerSecond
  BY DEF Promised, Enabled
<1>4. WithinBudget(s, c, now) <=> Len(p) < MaxPatches
  BY <1>3 DEF WithinBudget
<1> HIDE DEF st, p
<1>5. k \in Nat /\ st[1] \in Nat
  BY <1>1, <1>3, ElementOfSeq
<1>6. ASSUME now >= t PROVE Len(p) < MaxPatches
  <2>1. now - st[1] >= Window
    BY <1>1, <1>3, <1>5, <1>6
  <2>2. k # 0
    BY <1>1, <1>2, <1>3, <1>5, <2>1
  <2> QED
    BY <1>1, <1>2, <1>3, <1>5, <2>2
<1>7. ASSUME now + TicksPerSecond <= t PROVE ~(Len(p) < MaxPatches)
  <2>1. ~(now - st[1] >= Window)
    BY <1>1, <1>3, <1>5, <1>7
  <2>2. k = 0
    <3>1. CASE k > 0
      <4>1. 1 \in 1..k
        BY <1>5, <3>1
      <4> QED
        BY <1>2, <2>1, <4>1
    <3> QED
      BY <1>5, <3>1
  <2> QED
    BY <1>1, <1>2, <1>3, <2>2
<1> QED
  BY <1>4, <1>6, <1>7

-----------------------------------------------------------------------------
\* Inductive, with HistoryInv: no deque is over the budget, and a promise is about
\* the deque as it stands.
PromiseInv ==
    /\ HistoryInv
    /\ promise \in [CellId -> Nat]
    /\ \A c \in CellId : /\ Len(seen.stamps[c]) <= MaxPatches
                         /\ promise[c] # 0 => Promised(seen.stamps[c], promise[c])

LEMMA InitPromises == Init => PromiseInv
<1> SUFFICES ASSUME Init PROVE PromiseInv
  OBVIOUS
<1>1. \A c \in CellId : promise[c] = 0 /\ seen.stamps[c] = <<>> /\ Len(<<>>) = 0
  BY DEF Init, NothingSeen
<1> QED
  BY <1>1, InitEstablishes, LimitAssumption DEF PromiseInv, Init

\* Counters that are gone take their promise with them.
LEMMA KeptPromises ==
    ASSUME NEW f \in [CellId -> Nat], Consistent(seen)', promise' = KeepTracked(f, 0),
           \A x \in Tracked(seen') : x \in CellId =>
              /\ Len(seen'.stamps[x]) <= MaxPatches
              /\ f[x] # 0 => Promised(seen'.stamps[x], f[x])
    PROVE  /\ promise' \in [CellId -> Nat]
           /\ \A x \in CellId : /\ Len(seen'.stamps[x]) <= MaxPatches
                                /\ promise'[x] # 0 => Promised(seen'.stamps[x], promise'[x])
<1>1. \A x \in CellId : promise'[x] = IF x \in Tracked(seen') THEN f[x] ELSE 0
  BY DEF KeepTracked
<1>2. promise' \in [CellId -> Nat]
  BY DEF KeepTracked
<1>3. \A x \in CellId : x \notin Tracked(seen') => seen'.stamps[x] = <<>>
  BY DEF Consistent, Dictionary
<1>4. Len(<<>>) = 0 /\ MaxPatches \in Nat
  BY LimitAssumption
<1> QED
  BY <1>1, <1>2, <1>3, <1>4

LEMMA PromiseInvStep == PromiseInv /\ [Next]_vars => PromiseInv'
<1> SUFFICES ASSUME PromiseInv, [Next]_vars PROVE PromiseInv'
  OBVIOUS
<1>0. /\ HistoryInv' /\ Consistent(seen) /\ Consistent(seen)' /\ clock \in Nat
      /\ seen.stamps \in [CellId -> Seq(Nat)] /\ promise \in [CellId -> Nat]
      /\ \A c \in CellId : /\ Len(seen.stamps[c]) <= MaxPatches
                           /\ promise[c] # 0 => Promised(seen.stamps[c], promise[c])
  BY HistoryInvStep DEF PromiseInv, HistoryInv, TableInv, Consistent, Dictionary, Seen
<1>1. ASSUME NEW c \in CellId, Allow(c) PROVE PromiseInv'
  <2> DEFINE f == [promise EXCEPT ![c] = 0]
             p == Prune(seen.stamps[c], clock)
  <2>1. /\ promise' = KeepTracked(f, 0) /\ seen' = CheckAndRecord(seen, c, clock)
        /\ Enabled /\ WithinBudget(seen, c, clock)
    BY <1>1 DEF Allow
  <2>2. \A x \in Tracked(seen') :
           seen'.stamps[x] = IF x = c THEN Append(p, clock) ELSE seen.stamps[x]
    <3> HIDE DEF f, p
    <3> QED
      BY <1>0, <2>1, AllowedAttempt DEF p
  <2>3. p \in Seq(Nat) /\ Len(p) < MaxPatches
    BY <1>0, <2>1, PruneType DEF WithinBudget
  <2> HIDE DEF p
  <2>4. Len(Append(p, clock)) <= MaxPatches
    <3>1. Len(Append(p, clock)) = Len(p) + 1 /\ Len(p) \in Nat
      BY <1>0, <2>3, AppendProperties, LenProperties
    <3> QED
      BY <2>3, <3>1, LimitAssumption
  <2>5. /\ f \in [CellId -> Nat]
        /\ \A x \in CellId : f[x] = IF x = c THEN 0 ELSE promise[x]
    BY <1>0
  <2> HIDE DEF f
  <2>6. \A x \in Tracked(seen') : x \in CellId =>
           /\ Len(seen'.stamps[x]) <= MaxPatches
           /\ f[x] # 0 => Promised(seen'.stamps[x], f[x])
    BY <1>0, <2>2, <2>4, <2>5
  <2> QED
    BY <1>0, <2>1, <2>5, <2>6, KeptPromises DEF PromiseInv
<1>2. ASSUME NEW c \in CellId, Refuse(c) PROVE PromiseInv'
  <2> DEFINE p == Prune(seen.stamps[c], clock)
             t == clock + RetryAfter(seen, c, clock) * TicksPerSecond
  <2>1. /\ promise' = [promise EXCEPT ![c] = t] /\ ~WithinBudget(seen, c, clock)
        /\ seen'.stamps = [seen.stamps EXCEPT ![c] = p]
    BY <1>0, <1>2, CheckAndRecordProperties DEF Refuse
  <2>2. Promised(p, t)
    BY <1>0, <2>1, RefusedPromise
  <2>3. t \in Nat /\ Len(p) = MaxPatches
    <3>1. p \in Seq(Nat) /\ Window \in Nat /\ TicksPerSecond \in Nat /\ MaxPatches \in Nat
      BY <1>0, PruneType, LimitAssumption DEF Window
    <3>2. Len(p) = MaxPatches /\ MaxPatches > 0 /\ p[1] + Window <= t
      BY <2>2 DEF Promised, Enabled
    <3>3. t \in Int
      <4>1. RetryAfter(seen, c, clock) \in Int
        <5>1. p[1] \in Nat
          BY <3>1, <3>2, ElementOfSeq
        <5> QED
          BY <1>0, <3>1, <5>1, LimitAssumption DEF RetryAfter
      <4> QED
        BY <1>0, <3>1, <4>1
    <3>4. p[1] \in Nat
      BY <3>1, <3>2, ElementOfSeq
    <3> HIDE DEF p, t
    <3> QED
      BY <3>1, <3>2, <3>3, <3>4
  <2> HIDE DEF p, t
  <2>4. /\ promise' \in [CellId -> Nat]
        /\ \A x \in CellId : promise'[x] = IF x = c THEN t ELSE promise[x]
        /\ \A x \in CellId : seen'.stamps[x] = IF x = c THEN p ELSE seen.stamps[x]
    BY <1>0, <2>1, <2>3
  <2>5. \A x \in CellId : /\ Len(seen'.stamps[x]) <= MaxPatches
                          /\ promise'[x] # 0 => Promised(seen'.stamps[x], promise'[x])
    BY <1>0, <2>2, <2>3, <2>4, LimitAssumption
  <2> QED
    BY <1>0, <2>4, <2>5 DEF PromiseInv
<1>3. ASSUME NEW c \in CellId, Drop(c) PROVE PromiseInv'
  <2>1. /\ promise' = KeepTracked(promise, 0) /\ seen' = Forget(seen, c)
        /\ Tracked(seen') = Tracked(seen) \ {c}
    BY <1>0, <1>3, ForgetProperties DEF Drop
  <2>2. \A x \in Tracked(seen') : x \in CellId => seen'.stamps[x] = seen.stamps[x]
    BY <1>0, <2>1 DEF Forget
  <2> QED
    BY <1>0, <2>1, <2>2, KeptPromises DEF PromiseInv
<1>4. CASE Tick
  BY <1>0, <1>4 DEF Tick, PromiseInv
<1>5. CASE UNCHANGED vars
  BY <1>0, <1>5 DEF vars, PromiseInv
<1> QED
  BY <1>1, <1>2, <1>3, <1>4, <1>5 DEF Next

\* Retry-After is right: a refused caller who comes back when told finds
\* budget, whatever was evicted, forgotten or refused in between, and one who
\* comes back a whole second early does not.
THEOREM RetryAfterIsRight == Spec => []RetryAfterIsExact
<1>1. PromiseInv => RetryAfterIsExact
  <2> SUFFICES ASSUME PromiseInv, NEW c \in CellId, promise[c] # 0
               PROVE  /\ clock >= promise[c] => WithinBudget(seen, c, clock)
                      /\ clock + TicksPerSecond <= promise[c] => ~WithinBudget(seen, c, clock)
    BY DEF RetryAfterIsExact
  <2>1. /\ Promised(seen.stamps[c], promise[c]) /\ promise[c] \in Nat /\ clock \in Nat
        /\ seen.stamps[c] \in Seq(Nat)
    BY DEF PromiseInv, HistoryInv, TableInv, Consistent, Dictionary, Seen
  <2> QED
    BY <2>1, PromiseIsExact
<1>2. Spec => []PromiseInv
  BY InitPromises, PromiseInvStep, PTL DEF Spec
<1> QED
  BY <1>1, <1>2, PTL
=============================================================================

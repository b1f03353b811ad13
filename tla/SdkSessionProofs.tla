-------------------------- MODULE SdkSessionProofs --------------------------
(* The SDK and the face of the server it talks to, for every set of agents, *)
(* keys and key files, every number of cells, page sizes and faults.        *)
EXTENDS SdkSession, SequenceTheorems, FunctionTheorems, FiniteSetTheorems, TLAPS

-----------------------------------------------------------------------------
(* Sequences and sets.                                                      *)

\* Every non-empty set of naturals has a least element.
LEMMA LeastNatural ==
    ASSUME NEW T, T \subseteq Nat, T # {}
    PROVE  \E x \in T : \A y \in T : x <= y
<1> DEFINE R == OpToRel(<, Nat)
<1>1. IsWellFoundedOn(R, Nat)
  BY NatLessThanWellFounded
<1>2. \A x, y \in Nat : (<<x, y>> \in R) <=> x < y
  BY DEF OpToRel
<1> HIDE DEF R
<1>3. PICK x \in T : \A y \in T : ~(<<y, x>> \in R)
  BY <1>1, WFMin, Zenon
<1>4. ASSUME NEW y \in T PROVE x <= y
  <2>1. x \in Nat /\ y \in Nat
    OBVIOUS
  <2>2. ~(y < x)
    BY <1>2, <1>3, <2>1
  <2> QED
    BY <2>1, <2>2
<1> QED
  BY <1>3, <1>4

LEMMA FunctionIsSeq ==
    ASSUME NEW S, NEW n \in Nat, NEW f \in [1..n -> S]
    PROVE  f \in Seq(S) /\ Len(f) = n
BY SeqDef

LEMMA TailOfTuples == \A a, b : Tail(<<a, b>>) = <<b>> /\ Tail(<<a>>) = <<>>
<1> TAKE a, b
<1> DEFINE S == {a, b}
<1>1. <<a, b>> \in Seq(S) /\ <<a>> \in Seq(S) /\ <<b>> \in Seq(S) /\ <<>> \in Seq(S)
      /\ Len(<<a, b>>) = 2 /\ Len(<<a>>) = 1 /\ Len(<<b>>) = 1 /\ Len(<<>>) = 0
      /\ <<a, b>>[2] = b /\ <<b>>[1] = b
  OBVIOUS
<1>2. <<a, b>> # <<>> /\ <<a>> # <<>>
  BY <1>1
<1> HIDE DEF S
<1>3. /\ Tail(<<a, b>>) \in Seq(S) /\ Len(Tail(<<a, b>>)) = 1
      /\ \A i \in 1..Len(Tail(<<a, b>>)) : Tail(<<a, b>>)[i] = <<a, b>>[i + 1]
  <2>1. /\ Tail(<<a, b>>) \in Seq(S) /\ Len(Tail(<<a, b>>)) = Len(<<a, b>>) - 1
        /\ \A i \in 1..Len(Tail(<<a, b>>)) : Tail(<<a, b>>)[i] = <<a, b>>[i + 1]
    BY <1>1, <1>2, HeadTailProperties
  <2> QED
    BY <1>1, <2>1
<1>4. Tail(<<a>>) \in Seq(S) /\ Len(Tail(<<a>>)) = 0
  <2>1. Tail(<<a>>) \in Seq(S) /\ Len(Tail(<<a>>)) = Len(<<a>>) - 1
    BY <1>1, <1>2, HeadTailProperties
  <2> QED
    BY <1>1, <2>1
<1>5. Tail(<<a, b>>)[1] = b
  <2>1. 1 \in 1..Len(Tail(<<a, b>>)) /\ 1 + 1 = 2
    BY <1>3
  <2> QED
    BY <1>1, <1>3, <2>1
<1>6. \A i \in 1..1 : i = 1
  OBVIOUS
<1>7. Tail(<<a, b>>) = <<b>>
  BY <1>1, <1>3, <1>5, <1>6, SeqEqual
<1>8. Tail(<<a>>) = <<>>
  BY <1>4, EmptySeq
<1> QED
  BY <1>7, <1>8

\* The recursive function of FlattenSeq, up to its n-th value, exists.
LEMMA FlatteningExists ==
    ASSUME NEW S, NEW ss \in Seq(Seq(S)), NEW n \in 1..Len(ss)
    PROVE  \E f : f = [i \in 1..n |-> IF i = 1 THEN ss[i] ELSE f[i - 1] \o ss[i]]
<1> DEFINE Upto(k) == {f \in [1..k -> Seq(S)] :
                         \A i \in 1..k : f[i] = IF i = 1 THEN ss[i] ELSE f[i - 1] \o ss[i]}
           Missing == {k \in 1..Len(ss) : Upto(k) = {}}
<1>1. Len(ss) \in Nat /\ \A i \in 1..Len(ss) : ss[i] \in Seq(S)
  BY LenProperties, ElementOfSeq
<1>2. Missing = {}
  <2> SUFFICES ASSUME Missing # {} PROVE FALSE
    OBVIOUS
  <2>1. PICK k \in Missing : \A j \in Missing : k <= j
    <3>1. Missing \subseteq Nat
      BY <1>1
    <3> QED
      BY <3>1, LeastNatural
  <2>2. k \in 1..Len(ss) /\ k \in Nat /\ Upto(k) = {}
    <3> HIDE DEF Upto
    <3> QED
      BY <1>1, <2>1
  <2>3. CASE k = 1
    <3> DEFINE f == [i \in 1..1 |-> ss[i]]
    <3>1. f \in Upto(1)
      BY <1>1, <2>2, <2>3
    <3> QED
      BY <2>2, <2>3, <3>1
  <2>4. CASE k # 1
    <3>1. k - 1 \in 1..Len(ss) /\ k - 1 < k
      BY <1>1, <2>2, <2>4
    <3>2. k - 1 \notin Missing
      <4>1. k - 1 \in Int /\ k \in Int /\ ~(k <= k - 1)
        BY <2>2
      <4> HIDE DEF Missing
      <4> QED
        BY <2>1, <4>1
    <3>3. PICK g : g \in Upto(k - 1)
      BY <3>1, <3>2
    <3> DEFINE f == [i \in 1..k |-> IF i = k THEN g[k - 1] \o ss[k] ELSE g[i]]
    <3>4. g[k - 1] \o ss[k] \in Seq(S)
      BY <1>1, <2>2, <3>1, <3>3, ConcatProperties
    <3>5. \A i \in 1..k : i # k => i \in 1..(k - 1) /\ (i # 1 => i - 1 \in 1..(k - 1) /\ i - 1 # k)
      BY <2>2
    <3>6. f \in [1..k -> Seq(S)]
      BY <3>3, <3>4, <3>5
    <3>7. ASSUME NEW i \in 1..k PROVE f[i] = IF i = 1 THEN ss[i] ELSE f[i - 1] \o ss[i]
      <4>1. CASE i = k
        <5>1. k - 1 \in 1..k /\ k - 1 # k
          BY <2>2, <3>1
        <5> QED
          BY <2>4, <4>1, <5>1
      <4>2. CASE i # k /\ i = 1
        BY <3>3, <3>5, <4>2
      <4>3. CASE i # k /\ i # 1
        <5>1. i \in 1..(k - 1) /\ i - 1 \in 1..(k - 1) /\ i - 1 # k /\ i - 1 \in 1..k
          BY <2>2, <3>5, <4>3
        <5>2. g[i] = g[i - 1] \o ss[i]
          BY <3>3, <4>3, <5>1
        <5> QED
          BY <4>3, <5>1, <5>2
      <4> QED
        BY <4>1, <4>2, <4>3
    <3>8. f \in Upto(k)
      BY <3>6, <3>7
    <3> QED
      BY <2>2, <3>8
  <2> QED
    BY <2>3, <2>4
<1>3. PICK f : f \in Upto(n)
  BY <1>2
<1>4. f = [i \in 1..n |-> IF i = 1 THEN ss[i] ELSE f[i - 1] \o ss[i]]
  BY <1>3
<1> QED
  BY <1>4

\* FlattenSeq of sequences over S is one.
LEMMA FlattenSeqType ==
    ASSUME NEW S, NEW ss \in Seq(Seq(S))
    PROVE  FlattenSeq(ss) \in Seq(S)
<1>1. Len(ss) \in Nat /\ \A i \in 1..Len(ss) : ss[i] \in Seq(S)
  BY LenProperties, ElementOfSeq
<1>2. CASE Len(ss) = 0
  <2>1. ss = <<>>
    BY <1>2, EmptySeq
  <2> QED
    BY <1>2, <2>1, EmptySeq DEF FlattenSeq
<1>3. CASE Len(ss) # 0
  <2> DEFINE n == Len(ss)
             Step(f) == [i \in 1..n |-> IF i = 1 THEN ss[i] ELSE f[i - 1] \o ss[i]]
             F == CHOOSE f : f = Step(f)
             Bad == {i \in 1..n : F[i] \notin Seq(S)}
  <2>1. FlattenSeq(ss) = F[n]
    BY <1>3 DEF FlattenSeq
  <2>2. n \in 1..Len(ss)
    BY <1>1, <1>3
  <2>3. \E f : f = Step(f)
    BY <2>2, FlatteningExists
  <2>4. F = Step(F)
    <3> HIDE DEF Step
    <3> QED
      BY <2>3
  <2> HIDE DEF F
  <2>5. Bad = {}
    <3> SUFFICES ASSUME Bad # {} PROVE FALSE
      OBVIOUS
    <3>1. PICK k \in Bad : \A j \in Bad : k <= j
      <4>1. Bad \subseteq Nat
        BY <1>1
      <4> QED
        BY <4>1, LeastNatural
    <3>2. k \in 1..n /\ F[k] \notin Seq(S) /\ k \in Nat
      BY <1>1, <3>1
    <3>3. F[k] = IF k = 1 THEN ss[k] ELSE F[k - 1] \o ss[k]
      BY <2>4, <3>2
    <3>4. k # 1
      BY <1>1, <3>2, <3>3
    <3>5. k - 1 \in 1..n /\ k - 1 \notin Bad
      BY <1>1, <3>1, <3>2, <3>4
    <3>6. F[k - 1] \in Seq(S) /\ ss[k] \in Seq(S)
      BY <1>1, <3>2, <3>5
    <3> QED
      BY <3>2, <3>3, <3>4, <3>6, ConcatProperties
  <2> QED
    BY <2>1, <2>2, <2>5
<1> QED
  BY <1>2, <1>3

-----------------------------------------------------------------------------
(* The store: what one step of the server, of the loop or of another agent  *)
(* does to the cells.                                                       *)
CellRecord == [status     : Status,
               created_by : Agents \cup {NoAgent},
               readers    : SUBSET Agents,
               writers    : SUBSET Agents,
               full       : BOOLEAN]
CellsType == cells \in [CellId -> CellRecord]
Settled(c) == cells[c].status \in {"archived", "deleted", "purged"}

\* No cell is unborn again, and none leaves the archive or comes back once gone.
OnlyMovesOn ==
    /\ CellsType'
    /\ \A c \in CellId : /\ cells[c].status # "unborn" => cells'[c].status # "unborn"
                         /\ Settled(c) => Settled(c)'
                         /\ Gone(c) => Gone(c)'

LEMMA UnbornProperties ==
    /\ Unborn \subseteq CellId /\ IsFiniteSet(Unborn) /\ Cardinality(Unborn) \in Nat
    /\ Unborn # {} => Min(Unborn) \in Unborn
    /\ (Cardinality(Unborn) > 0) <=> (Unborn # {})
<1>1. Unborn \subseteq CellId
  BY DEF Unborn
<1>2. 1 \in Int /\ MaxCells \in Int
  BY PageAssumption
<1>3. IsFiniteSet(CellId)
  BY <1>2, FS_Interval DEF CellId
<1>4. IsFiniteSet(Unborn) /\ Cardinality(Unborn) \in Nat
  BY <1>1, <1>3, FS_Subset, FS_CardinalityType
<1>5. Unborn # {} => \E x \in Unborn : \A y \in Unborn : x <= y
  <2>1. Unborn \subseteq Nat
    BY <1>1 DEF CellId
  <2> QED
    BY <2>1, LeastNatural
<1>6. Unborn # {} => Min(Unborn) \in Unborn
  BY <1>5 DEF Min
<1>7. (Cardinality(Unborn) > 0) <=> (Unborn # {})
  BY <1>4, FS_EmptySet
<1> QED
  BY <1>1, <1>4, <1>6, <1>7

\* Which answers stand for a change of the store.
LEMMA CodeProperties ==
    ASSUME NEW req \in Request
    PROVE  /\ Code(req) = 201 => req.route = "create" /\ ~Unauthenticated(req)
                                 /\ Creator(req) # NoAgent
           /\ Code(req) = 204 => req.route = "delete" /\ cells[req.cell].status = "archived"
           /\ Code(req) = 200 /\ req.route = "archive" => Reachable(req.cell)
           /\ Code(req) \in {200, 201, 204, 401, 403, 409, 413, 422}
<1>1. req.route \in {"create", "get", "archive", "delete", "list", "health"}
  BY DEF Request
<1>2. CASE req.route = "create"
  BY <1>2 DEF Code, CreateCode
<1>3. CASE req.route = "archive"
  BY <1>3 DEF Code, ArchiveCode
<1>4. CASE req.route = "delete"
  BY <1>4 DEF Code, DeleteCode
<1>5. CASE req.route = "get"
  BY <1>5 DEF Code, GetCode
<1>6. CASE req.route = "list"
  BY <1>6 DEF Code, ListCode
<1>7. CASE req.route = "health"
  BY <1>7 DEF Code
<1> QED
  BY <1>1, <1>2, <1>3, <1>4, <1>5, <1>6, <1>7

\* Setting a status only moves the cell on, if it neither brings one back nor
\* takes one out of the archive.
LEMMA SetStatusProperties ==
    ASSUME CellsType, NEW c, NEW status \in Status \ {"unborn"}, cells' = SetStatus(c, status),
           c \in CellId => /\ cells[c].status # "unborn"
                           /\ Settled(c) => status \in {"archived", "deleted", "purged"}
                           /\ Gone(c) => status \in {"deleted", "purged"}
    PROVE  OnlyMovesOn /\ Unborn' = Unborn
<1>1. \A x \in CellId : cells'[x] = IF x = c THEN [cells[x] EXCEPT !.status = status] ELSE cells[x]
  BY DEF SetStatus, CellsType
<1>2. \A x \in CellId : cells[x] \in CellRecord
  BY DEF CellsType
<1>3. \A x \in CellId : /\ cells'[x] \in CellRecord
                        /\ cells'[x].status = IF x = c THEN status ELSE cells[x].status
  <2> SUFFICES ASSUME NEW x \in CellId
               PROVE  /\ cells'[x] \in CellRecord
                      /\ cells'[x].status = IF x = c THEN status ELSE cells[x].status
    OBVIOUS
  <2>1. cells[x] \in CellRecord /\ status \in Status
    BY <1>2
  <2>2. [cells[x] EXCEPT !.status = status] \in CellRecord
        /\ [cells[x] EXCEPT !.status = status].status = status
    BY <2>1 DEF CellRecord
  <2> QED
    BY <1>1, <2>1, <2>2
<1>4. CellsType'
  BY <1>3 DEF SetStatus, CellsType
<1> QED
  BY <1>3, <1>4 DEF OnlyMovesOn, Settled, Gone, Unborn

\* The cell a create stores.
Newborn(req) == [status |-> "active", created_by |-> Creator(req), readers |-> {},
                 writers |-> {}, full |-> req.size = "full"]

\* One request, answered.
LEMMA HandleProperties ==
    ASSUME CellsType, NEW req \in Request, Handle(req), Code(req) = 201 => Unborn # {}
    PROVE  /\ OnlyMovesOn
           /\ Code(req) # 201 => Unborn' = Unborn
           /\ Code(req) = 201 => /\ Min(Unborn) \in Unborn /\ Unborn' = Unborn \ {Min(Unborn)}
                                 /\ cells' = [cells EXCEPT ![Min(Unborn)] = Newborn(req)]
           /\ req.cell \in CellId =>
                /\ Code(req) = 200 /\ req.route = "archive" => Settled(req.cell)'
                /\ Code(req) = 204 => Gone(req.cell)'
<1>1. cells' = After(req)
  BY DEF Handle
<1>2. \A x \in CellId : cells[x] \in CellRecord /\ cells[x].status \in Status
  BY DEF CellsType, CellRecord
<1>3. CASE Code(req) = 201
  <2>1. Min(Unborn) \in Unborn /\ Min(Unborn) \in CellId
    BY <1>3, UnbornProperties
  <2>2. cells' = [cells EXCEPT ![Min(Unborn)] = Newborn(req)]
    BY <1>1, <1>3 DEF After, Newborn
  <2> DEFINE new == Min(Unborn)
  <2>3. Newborn(req) \in CellRecord /\ Newborn(req).status = "active"
    BY DEF Request, Newborn, Creator, CellRecord, Status
  <2> HIDE DEF new
  <2>4. \A x \in CellId : cells'[x] = IF x = new THEN Newborn(req) ELSE cells[x]
    BY <2>2 DEF CellsType, new
  <2>5. new \in CellId /\ cells[new].status = "unborn"
    BY <2>1 DEF Unborn, new
  <2>6. CellsType'
    BY <2>2, <2>3 DEF CellsType
  <2>7. OnlyMovesOn
    BY <2>3, <2>4, <2>5, <2>6 DEF OnlyMovesOn, Settled, Gone
  <2>8. Unborn' = Unborn \ {new}
    BY <2>3, <2>4, <2>5 DEF Unborn
  <2> QED
    BY <1>3, <2>1, <2>2, <2>7, <2>8 DEF new
<1>4. CASE Code(req) = 200 /\ req.route = "archive"
  <2>1. cells' = SetStatus(req.cell, "archived")
    BY <1>1, <1>4 DEF After
  <2>2. Reachable(req.cell)
    BY <1>4, CodeProperties
  <2>3. OnlyMovesOn /\ Unborn' = Unborn
    BY <2>1, <2>2, SetStatusProperties DEF Reachable, Settled, Gone, Status
  <2>4. req.cell \in CellId => cells'[req.cell].status = "archived"
    BY <1>2, <2>1 DEF SetStatus, CellsType, CellRecord
  <2> QED
    BY <1>4, <2>3, <2>4 DEF Settled
<1>5. CASE Code(req) = 204
  <2>1. cells[req.cell].status = "archived"
    BY <1>5, CodeProperties
  <2>2. cells' = SetStatus(req.cell, "deleted")
    BY <1>1, <1>5 DEF After
  <2>3. OnlyMovesOn /\ Unborn' = Unborn
    BY <2>1, <2>2, SetStatusProperties DEF Settled, Gone, Status
  <2>4. req.cell \in CellId => cells'[req.cell].status = "deleted"
    BY <1>2, <2>2 DEF SetStatus, CellsType, CellRecord
  <2> QED
    BY <1>5, <2>3, <2>4 DEF Gone
<1>6. CASE Code(req) \notin {201, 204} /\ ~(Code(req) = 200 /\ req.route = "archive")
  <2>1. cells' = cells
    BY <1>1, <1>6 DEF After
  <2> QED
    BY <1>6, <2>1 DEF OnlyMovesOn, Settled, Gone, Unborn, CellsType
<1> QED
  BY <1>3, <1>4, <1>5, <1>6

\* The loop and the other agents.
LEMMA OthersProperties ==
    ASSUME CellsType, NEW c \in CellId, LifecyclePass(c) \/ \E agent \in Agents \ {Me} : OthersWrite(c, agent)
    PROVE  OnlyMovesOn /\ Unborn' = Unborn
<1>1. \A x \in CellId : cells[x] \in CellRecord
  BY DEF CellsType
<1>2. CASE \E status \in Status \ {"unborn"} :
             /\ cells' = SetStatus(c, status) /\ cells[c].status # "unborn"
             /\ Settled(c) => status \in {"archived", "deleted", "purged"}
             /\ Gone(c) => status \in {"deleted", "purged"}
  BY <1>2, SetStatusProperties
<1>3. CASE \E keep \in SUBSET cells[c].writers : cells' = [cells EXCEPT ![c].writers = keep]
  <2>1. PICK keep \in SUBSET cells[c].writers : cells' = [cells EXCEPT ![c].writers = keep]
    BY <1>3
  <2>2. keep \subseteq Agents
    BY <1>1, <2>1 DEF CellRecord
  <2>3. \A x \in CellId : cells'[x] = IF x = c THEN [cells[x] EXCEPT !.writers = keep] ELSE cells[x]
    BY <2>1 DEF CellsType
  <2>4. \A x \in CellId : cells'[x] \in CellRecord /\ cells'[x].status = cells[x].status
    BY <1>1, <2>2, <2>3 DEF CellRecord
  <2>5. CellsType'
    BY <2>1, <2>4 DEF CellsType
  <2> QED
    BY <2>4, <2>5 DEF OnlyMovesOn, Settled, Gone, Unborn
<1>4. ASSUME LifecyclePass(c) PROVE OnlyMovesOn /\ Unborn' = Unborn
  <2>1. \/ cells[c].status = "active" /\ cells' = SetStatus(c, "stale")
        \/ cells[c].status = "stale" /\ cells' = SetStatus(c, "active")
        \/ cells[c].status = "stale" /\ cells' = SetStatus(c, "archived")
        \/ cells[c].status = "deleted" /\ cells' = SetStatus(c, "purged")
    BY <1>4 DEF LifecyclePass
  <2> QED
    BY <1>2, <2>1 DEF Settled, Gone, Status
<1>5. ASSUME NEW agent \in Agents \ {Me}, OthersWrite(c, agent) PROVE OnlyMovesOn /\ Unborn' = Unborn
  <2>1. Reachable(c)
    BY <1>5 DEF OthersWrite
  <2>2. \/ cells' = SetStatus(c, "archived")
        \/ cells[c].status = "archived" /\ cells' = SetStatus(c, "deleted")
        \/ \E keep \in SUBSET cells[c].writers : cells' = [cells EXCEPT ![c].writers = keep]
    BY <1>5 DEF OthersWrite
  <2> QED
    BY <1>2, <1>3, <2>1, <2>2 DEF Settled, Gone, Status, Reachable
<1> QED
  BY <1>4, <1>5

-----------------------------------------------------------------------------
(* The inductive invariant.                                                 *)

\* A serving process has an open adapter, no broken key file, and the keys it
\* read when it started; only such a process has a loop.
ProcessOK ==
    /\ process \in {"down", "serving", "stopping"} /\ storage \in {"open", "closed"}
    /\ (process = "serving") = (storage = "open" /\ process # "stopping")
    /\ keyfile \in KeyFiles /\ keys \in KeyStore \cup {Unset}
    /\ process = "serving" => keys = configured /\ configured # Malformed
    /\ task = "scheduled" => process = "serving"

Creating == {"remember", "save_context"}
ForgetRest(c) == <<[Identified("delete") EXCEPT !.cell = c]>>

\* What may be left of the script of each call.
ScriptOK ==
    /\ pc \in {"idle", "waiting", "answered"}
    /\ script \in Seq(Request) /\ late \subseteq Request /\ IsFiniteSet(late)
    /\ (pc = "idle") = (script = <<>>)
    /\ \A i \in 1..Len(script) : (script[i].route = "create") = (op \in Creating)
    /\ pc # "idle" /\ op = "forget" => target \in CellId /\ script \in {Forget(target), ForgetRest(target)}
    /\ pc # "idle" /\ op = "messages" => script = LoadCells
    /\ reply.page \in Seq(CellId)

\* Every create that is still to be served, of this client or late, has a cell.
Outstanding == IF op \notin Creating THEN 0
               ELSE IF pc = "answered" THEN Len(script) - 1 ELSE Len(script)
Room == CellsType /\ Outstanding + LateCreates <= Cardinality(Unborn)

\* An entitled agent may write the cell, may archive it, and is let in.
EntitledOK ==
    /\ entitled \subseteq CellId
    /\ \A c \in entitled : cells[c].status # "unborn" /\ ~cells[c].full /\ Writes(Me, c)
    /\ process = "serving" /\ entitled # {} => Accepts(keys)

\* How far a forget has come.
ForgetOK ==
    pc # "idle" /\ op = "forget" =>
      /\ cells[target].status # "unborn"
      /\ script = ForgetRest(target) => Settled(target)
      /\ pc = "answered" /\ reply.code \in 200..299 =>
           Settled(target) /\ (script = ForgetRest(target) => Gone(target))
      /\ pc = "answered" /\ reply.code \notin 200..299 /\ target \in entitled => Gone(target)

\* What a forget that is over has told its caller.
ResultOK ==
    result.op = "forget" =>
      /\ result.cell \in CellId /\ cells[result.cell].status # "unborn"
      /\ result.outcome = "returned" => Gone(result.cell)
      /\ result.outcome = "raised" /\ result.status # NoStatus /\ result.cell \in entitled
           => Gone(result.cell)

\* The listing of the active cells the agent may read, and what became of it.
HistoryOK ==
    undisturbed /\ Cardinality(Shown) <= HISTORY_PAGE =>
      /\ pc = "answered" /\ op = "messages" /\ reply.code = 200 => ToSet(reply.page) = Shown
      /\ pc = "idle" /\ result.op = "messages" /\ result.status = 200
           => /\ result.page \in SetToSeqs(Shown)
              /\ \A i, j \in DOMAIN result.page :
                   i < j => ~TextBefore(CreatedAt[result.page[j]], CreatedAt[result.page[i]])

IInv == ProcessOK /\ ScriptOK /\ Room /\ EntitledOK /\ ForgetOK /\ ResultOK /\ HistoryOK

-----------------------------------------------------------------------------
(* The process.                                                             *)

LEMMA ProcessStep == ProcessOK /\ [Next]_vars => ProcessOK'
<1> SUFFICES ASSUME ProcessOK, [Next]_vars PROVE ProcessOK'
  OBVIOUS
<1>1. CASE UNCHANGED <<server, keyfile>>
  BY <1>1 DEF ProcessOK, server
<1>2. ASSUME Startup PROVE ProcessOK'
  <2>1. keyfile \in KeyFiles /\ keyfile # Malformed
    BY <1>2 DEF Startup, StoreFromEnv, ProcessOK
  <2>2. keyfile \in KeyStore \cup {Unset}
    BY <2>1, KeyAssumption
  <2> QED
    BY <1>2, <2>1, <2>2 DEF Startup, StoreFromEnv, ProcessOK
<1>3. CASE StopTask
  BY <1>3 DEF StopTask, ProcessOK
<1>4. CASE CloseStorage \/ Kill
  BY <1>4 DEF CloseStorage, Kill, ProcessOK
<1>5. CASE ChangeKeyFile \/ RepairKeyFile
  BY <1>5 DEF ChangeKeyFile, RepairKeyFile, server, ProcessOK
<1>6. CASE Call \/ Retry
  BY <1>1, <1>6 DEF Call, Retry, Begin
<1>7. CASE Receive \/ ConnectionRefused \/ Lose
  BY <1>1, <1>7 DEF Receive, ConnectionRefused, Lose
<1>8. CASE Serve
  BY <1>1, <1>8 DEF Serve, Handle
<1>9. CASE ServeLate
  BY <1>1, <1>9 DEF ServeLate, Handle
<1>10. CASE Stranger
  BY <1>1, <1>10 DEF Stranger
<1>11. CASE Start
  BY <1>2, <1>11 DEF Start
<1>12. CASE End \/ Repair \/ Disrupt
  BY <1>3, <1>4, <1>5, <1>12 DEF End, Repair, Disrupt
<1>13. CASE Others
  BY <1>1, <1>13 DEF Others, LifecyclePass, OthersWrite
<1>14. CASE UNCHANGED vars
  BY <1>1, <1>14 DEF vars
<1> QED
  BY <1>6, <1>7, <1>8, <1>9, <1>10, <1>11, <1>12, <1>13, <1>14 DEF Next

-----------------------------------------------------------------------------
(* Room for every create.                                                   *)

LEMMA LateProperties ==
    ASSUME IsFiniteSet(late)
    PROVE  /\ IsFiniteSet({req \in late : req.route = "create"}) /\ LateCreates \in Nat
           /\ \A req \in late : req.route = "create" => LateCreates > 0
<1> DEFINE L == {req \in late : req.route = "create"}
<1>1. IsFiniteSet(L) /\ Cardinality(L) \in Nat
  BY FS_Subset, FS_CardinalityType
<1>2. \A req \in late : req.route = "create" => L # {}
  OBVIOUS
<1> HIDE DEF L
<1>3. L # {} => Cardinality(L) > 0
  BY <1>1, FS_EmptySet
<1> QED
  BY <1>1, <1>2, <1>3 DEF LateCreates, L

\* Another late request.
LEMMA LateGrows ==
    ASSUME IsFiniteSet(late), NEW req, late' = late \cup {req}
    PROVE  /\ IsFiniteSet(late') /\ LateCreates' \in Nat
           /\ LateCreates' <= LateCreates + 1
           /\ req.route # "create" => LateCreates' = LateCreates
<1> DEFINE L == {r \in late : r.route = "create"}
           M == {r \in late' : r.route = "create"}
<1>1. IsFiniteSet(late') /\ IsFiniteSet(L) /\ Cardinality(L) \in Nat
  BY FS_AddElement, LateProperties, FS_CardinalityType
<1>2. M = IF req.route = "create" THEN L \cup {req} ELSE L
  OBVIOUS
<1> HIDE DEF L, M
<1>3. Cardinality(M) \in Nat /\ Cardinality(M) <= Cardinality(L) + 1
      /\ (req.route # "create" => Cardinality(M) = Cardinality(L))
  <2>1. CASE req.route = "create"
    <3>1. Cardinality(L \cup {req}) = IF req \in L THEN Cardinality(L) ELSE Cardinality(L) + 1
      BY <1>1, FS_AddElement
    <3> QED
      BY <1>1, <1>2, <2>1, <3>1
  <2>2. CASE req.route # "create"
    BY <1>1, <1>2, <2>2
  <2> QED
    BY <2>1, <2>2
<1> QED
  BY <1>1, <1>3 DEF LateCreates, L, M

\* One late request less.
LEMMA LateShrinks ==
    ASSUME IsFiniteSet(late), NEW req \in late, late' = late \ {req}
    PROVE  /\ IsFiniteSet(late') /\ LateCreates' \in Nat /\ LateCreates' <= LateCreates
           /\ req.route = "create" => LateCreates' = LateCreates - 1
<1> DEFINE L == {r \in late : r.route = "create"}
           M == {r \in late' : r.route = "create"}
<1>1. IsFiniteSet(late') /\ IsFiniteSet(L) /\ Cardinality(L) \in Nat
  BY FS_RemoveElement, LateProperties, FS_CardinalityType
<1>2. M = L \ {req} /\ (req \in L <=> req.route = "create")
  OBVIOUS
<1> HIDE DEF L, M
<1>3. /\ Cardinality(M) = IF req \in L THEN Cardinality(L) - 1 ELSE Cardinality(L)
      /\ IsFiniteSet(M)
  BY <1>1, <1>2, FS_RemoveElement
<1>4. Cardinality(M) \in Nat
  BY <1>3, FS_CardinalityType
<1> QED
  BY <1>1, <1>2, <1>3, <1>4 DEF LateCreates, L, M

\* Creates counts the script, or nothing.
LEMMA CreatesCount ==
    ASSUME NEW requests \in Seq(Request)
    PROVE  /\ Creates(requests) \in Nat
           /\ (\A i \in 1..Len(requests) : requests[i].route = "create")
                 => Creates(requests) = Len(requests)
<1> DEFINE C == {i \in DOMAIN requests : requests[i].route = "create"}
<1>1. Len(requests) \in Nat /\ DOMAIN requests = 1..Len(requests)
  BY LenProperties
<1>2. IsFiniteSet(1..Len(requests)) /\ Cardinality(1..Len(requests)) = Len(requests)
  <2>1. 1 \in Int /\ Len(requests) \in Int
    BY <1>1
  <2>2. IsFiniteSet(1..Len(requests))
        /\ Cardinality(1..Len(requests)) = IF 1 > Len(requests) THEN 0 ELSE Len(requests) - 1 + 1
    BY <2>1, FS_Interval
  <2> QED
    BY <1>1, <2>2
<1>3. IsFiniteSet(C) /\ Cardinality(C) \in Nat
  BY <1>1, <1>2, FS_Subset, FS_CardinalityType
<1>4. (\A i \in 1..Len(requests) : requests[i].route = "create") => C = 1..Len(requests)
  BY <1>1
<1> QED
  BY <1>2, <1>3, <1>4 DEF Creates

LEMMA OutstandingProperties ==
    ASSUME ScriptOK
    PROVE  /\ Outstanding \in Nat /\ LateCreates \in Nat /\ Len(script) \in Nat
           /\ Outstanding <= Creates(script) /\ Creates(script) \in Nat
           /\ pc # "idle" => Len(script) > 0 /\ Head(script) \in Request /\ Head(script) = script[1]
                             /\ ((Head(script).route = "create") = (op \in Creating))
<1>1. script \in Seq(Request) /\ IsFiniteSet(late)
  BY DEF ScriptOK
<1>2. Len(script) \in Nat /\ LateCreates \in Nat /\ Creates(script) \in Nat
  BY <1>1, LenProperties, LateProperties, CreatesCount
<1>3. op \in Creating => Creates(script) = Len(script)
  BY <1>1, CreatesCount DEF ScriptOK
<1>4. pc # "idle" => Len(script) > 0 /\ Head(script) \in Request /\ Head(script) = script[1]
  BY <1>1, HeadTailProperties, EmptySeq DEF ScriptOK
<1>5. pc # "idle" => ((Head(script).route = "create") = (op \in Creating))
  <2> SUFFICES ASSUME pc # "idle" PROVE (Head(script).route = "create") = (op \in Creating)
    OBVIOUS
  <2>1. 1 \in 1..Len(script)
    BY <1>2, <1>4
  <2> QED
    BY <1>4, <2>1 DEF ScriptOK
<1>6. Outstanding \in Nat /\ Outstanding <= Creates(script)
  BY <1>2, <1>3, <1>4 DEF Outstanding
<1> QED
  BY <1>2, <1>4, <1>5, <1>6

\* A create that is served finds an id that is free.
LEMMA RoomToServe ==
    ASSUME ScriptOK, Room, NEW req \in Request,
           req \in late \/ (pc = "waiting" /\ req = Head(script)), Code(req) = 201
    PROVE  Unborn # {}
<1>1. req.route = "create"
  BY CodeProperties
<1>2. /\ Outstanding \in Nat /\ LateCreates \in Nat /\ Cardinality(Unborn) \in Nat
      /\ Outstanding + LateCreates <= Cardinality(Unborn)
      /\ IsFiniteSet(late)
  BY OutstandingProperties, UnbornProperties DEF Room, ScriptOK
<1>3. Outstanding > 0 \/ LateCreates > 0
  <2>1. CASE req \in late
    BY <1>1, <1>2, <2>1, LateProperties
  <2>2. CASE pc = "waiting" /\ req = Head(script)
    BY <1>1, <2>2, OutstandingProperties DEF Outstanding
  <2> QED
    BY <2>1, <2>2
<1> QED
  BY <1>2, <1>3, UnbornProperties

-----------------------------------------------------------------------------
(* One step of the store: cells only move on, and nobody becomes entitled   *)
(* to a cell that exists already.                                           *)
StoreStep ==
    /\ OnlyMovesOn
    /\ \A c \in CellId : c \in entitled' /\ cells[c].status # "unborn" => c \in entitled

LEMMA StoreStands ==
    ASSUME CellsType, cells' = cells, entitled' \subseteq entitled
    PROVE  StoreStep
BY DEF StoreStep, OnlyMovesOn, Settled, Gone, CellsType

LEMMA StoreSteps ==
    ASSUME ScriptOK, Room, [Next]_vars
    PROVE  StoreStep
<1>1. CellsType
  BY DEF Room
<1>2. entitled' = Kept => \A c \in CellId : c \in entitled' /\ cells[c].status # "unborn" => c \in entitled
  BY DEF Kept
<1>3. CASE cells' = cells /\ entitled' \subseteq entitled
  BY <1>1, <1>3, StoreStands
<1>4. CASE Call \/ Retry
  BY <1>3, <1>4 DEF Call, Retry, Begin
<1>5. CASE Receive \/ ConnectionRefused \/ Lose
  BY <1>3, <1>5 DEF Receive, ConnectionRefused, Lose, history
<1>6. CASE Serve
  <2>1. Head(script) \in Request /\ (Code(Head(script)) = 201 => Unborn # {})
    BY <1>6, OutstandingProperties, RoomToServe DEF Serve
  <2>2. OnlyMovesOn
    BY <1>1, <1>6, <2>1, HandleProperties DEF Serve
  <2> QED
    BY <1>2, <1>6, <2>2 DEF Serve, StoreStep
<1>7. CASE ServeLate
  <2>1. PICK req \in late : \/ Handle(req) /\ entitled' = Kept
                            \/ UNCHANGED <<server, keyfile, cells, entitled>>
    BY <1>7 DEF ServeLate
  <2>2. CASE Handle(req) /\ entitled' = Kept
    <3>1. req \in Request /\ (Code(req) = 201 => Unborn # {})
      BY <2>2, RoomToServe DEF ScriptOK
    <3>2. OnlyMovesOn
      BY <1>1, <2>2, <3>1, HandleProperties
    <3> QED
      BY <1>2, <2>2, <3>2 DEF StoreStep
  <2> QED
    BY <1>3, <2>1, <2>2
<1>8. CASE Stranger
  BY <1>3, <1>8 DEF Stranger, history
<1>9. CASE Start
  BY <1>3, <1>9 DEF Start, Startup
<1>10. CASE End \/ Repair \/ Disrupt
  BY <1>3, <1>10 DEF End, Repair, Disrupt, CloseStorage, RepairKeyFile, StopTask, Kill,
                     ChangeKeyFile, history
<1>11. CASE Others
  BY <1>1, <1>2, <1>11, OthersProperties DEF Others, StoreStep
<1>12. CASE UNCHANGED vars
  BY <1>3, <1>12 DEF vars, history
<1> QED
  BY <1>4, <1>5, <1>6, <1>7, <1>8, <1>9, <1>10, <1>11, <1>12 DEF Next

-----------------------------------------------------------------------------
(* The scripts.                                                             *)

\* What a call may send.
LEMMA RequestsProperties ==
    ASSUME NEW name \in {"remember", "save_context", "get_memory", "forget", "messages", "clear", "health"},
           NEW c \in 0..MaxCells, NEW requests \in Requests(name, c)
    PROVE  /\ requests \in Seq(Request) /\ requests # <<>>
           /\ \A i \in 1..Len(requests) : (requests[i].route = "create") = (name \in Creating)
           /\ name = "forget" => requests = Forget(c)
           /\ name = "messages" => requests = LoadCells
<1>0. Me \in Agents /\ ApiKey \in Keys \cup {NoKey} /\ HISTORY_PAGE \in Nat /\ CLEAR_PAGE \in Nat
      /\ 0 \in 0..MaxCells
  BY ClientAssumption, PageAssumption
<1>1. \A route \in {"create", "get", "archive", "delete", "list", "health"} :
         Identified(route) \in Request /\ Identified(route).route = route
  BY <1>0 DEF Identified, Request
<1>2. CASE name = "remember"
  <2>1. PICK size \in {"small", "full", "oversize"} : requests = <<Remember(size)>>
    BY <1>2 DEF Requests
  <2>2. Remember(size) \in Request /\ Remember(size).route = "create"
    BY <1>1 DEF Remember, Request
  <2> QED
    BY <1>2, <2>1, <2>2 DEF Creating
<1>3. CASE name = "save_context"
  <2>1. requests = <<Remember("small"), Remember("small")>>
    BY <1>3 DEF Requests, SaveContext
  <2>2. Remember("small") \in Request /\ Remember("small").route = "create"
    BY <1>1 DEF Remember, Request
  <2>3. \A i \in 1..Len(requests) : requests[i] = Remember("small")
    BY <2>1
  <2> QED
    BY <1>3, <2>1, <2>2, <2>3 DEF Creating
<1>4. CASE name = "get_memory"
  <2>1. requests = <<GetMemory(c)>>
    BY <1>4 DEF Requests
  <2>2. GetMemory(c) \in Request /\ GetMemory(c).route = "get"
    BY <1>1 DEF GetMemory, Request
  <2> QED
    BY <1>4, <2>1, <2>2 DEF Creating
<1>5. CASE name = "forget"
  <2> DEFINE a == [Identified("archive") EXCEPT !.cell = c]
             d == [Identified("delete") EXCEPT !.cell = c]
  <2>1. requests = <<a, d>> /\ requests = Forget(c)
    BY <1>5 DEF Requests, Forget
  <2>2. a \in Request /\ a.route = "archive" /\ d \in Request /\ d.route = "delete"
    BY <1>1 DEF Request
  <2> HIDE DEF a, d
  <2>3. \A i \in 1..Len(requests) : requests[i] = a \/ requests[i] = d
    BY <2>1
  <2> QED
    BY <1>5, <2>1, <2>2, <2>3 DEF Creating
<1>6. CASE name \in {"messages", "clear"}
  <2>1. PICK limit \in Nat : requests = <<ListMemories(limit)>>
    BY <1>0, <1>6 DEF Requests, LoadCells, Clear
  <2>2. ListMemories(limit) \in Request /\ ListMemories(limit).route = "list"
    BY <1>1 DEF ListMemories, Request
  <2>3. name = "messages" => requests = LoadCells
    BY DEF Requests
  <2> QED
    BY <1>6, <2>1, <2>2, <2>3 DEF Creating
<1>7. CASE name = "health"
  <2>1. requests = <<Health>>
    BY <1>7 DEF Requests
  <2>2. Health \in Request /\ Health.route = "health"
    BY <1>1 DEF Health
  <2> QED
    BY <1>7, <2>1, <2>2 DEF Creating
<1> QED
  BY <1>2, <1>3, <1>4, <1>5, <1>6, <1>7

\* What clear adds to its script: well-formed requests, no create among them.
LEMMA AddedProperties ==
    ASSUME reply.page \in Seq(CellId)
    PROVE  /\ Added \in Seq(Request)
           /\ \A i \in 1..Len(Added) : Added[i].route # "create"
           /\ op # "clear" => Added = <<>>
<1> DEFINE S == {req \in Request : req.route \in {"archive", "delete"}}
           ss == [i \in DOMAIN reply.page |-> Forget(reply.page[i])]
<1>1. CASE op = "clear"
  <2>1. DOMAIN reply.page = 1..Len(reply.page) /\ Len(reply.page) \in Nat
        /\ \A i \in 1..Len(reply.page) : reply.page[i] \in CellId
    BY LenProperties, ElementOfSeq
  <2>2. ASSUME NEW c \in CellId PROVE Forget(c) \in Seq(S)
    <3> DEFINE a == [Identified("archive") EXCEPT !.cell = c]
               d == [Identified("delete") EXCEPT !.cell = c]
    <3>1. Me \in Agents /\ ApiKey \in Keys \cup {NoKey} /\ c \in 0..MaxCells /\ 0 \in 0..MaxCells
      BY ClientAssumption, PageAssumption DEF CellId
    <3>2. a \in S /\ d \in S
      BY <3>1 DEF Identified, Request
    <3>3. Forget(c) = <<a, d>>
      BY DEF Forget
    <3> HIDE DEF a, d, S
    <3> QED
      BY <3>2, <3>3
  <2>3. ss \in Seq(Seq(S))
    <3> DEFINE n == Len(reply.page)
    <3>1. ss \in [1..n -> Seq(S)] /\ n \in Nat
      BY <2>1, <2>2
    <3> HIDE DEF ss, n, S
    <3> QED
      BY <3>1, FunctionIsSeq
  <2> HIDE DEF S, ss
  <2>4. FlattenSeq(ss) \in Seq(S)
    BY <2>3, FlattenSeqType
  <2>5. Added \in Seq(S)
    BY <1>1, <2>4 DEF Added, ss
  <2>6. \A i \in 1..Len(Added) : Added[i] \in S
    BY <2>5, ElementOfSeq
  <2>7. \A x \in S : x \in Request /\ x.route # "create"
    BY DEF S
  <2>8. Added \in Seq(Request)
    <3>1. S \subseteq Request
      BY <2>7
    <3> QED
      BY <2>5, <3>1, SeqMonotonic
  <2> QED
    BY <1>1, <2>6, <2>7, <2>8
<1>2. CASE op # "clear"
  <2>1. Added = <<>> /\ Len(<<>>) = 0
    BY <1>2 DEF Added
  <2> QED
    BY <1>2, <2>1, EmptySeq
<1> QED
  BY <1>1, <1>2

\* The pages of a listing are pages of cells.
LEMMA PagesAreSequences == \A req \in Request : \A page \in Pages(req) : page \in Seq(CellId)
<1> SUFFICES ASSUME NEW req \in Request, NEW page \in Pages(req) PROVE page \in Seq(CellId)
  OBVIOUS
<1>1. CASE req.route # "list" \/ Code(req) # 200
  BY <1>1, EmptySeq DEF Pages
<1>2. CASE ~(req.route # "list" \/ Code(req) # 200)
  <2>1. PICK s \in SUBSET CellId : page \in SetToSeqs(s)
    <3> DEFINE shown == {c \in CellId : cells[c].status = "active" /\ Reads(req.agent, c)}
               k == Min({req.limit, Cardinality(shown)})
    <3>1. page \in UNION {SetToSeqs(s) : s \in kSubset(k, shown)}
      BY <1>2 DEF Pages
    <3>2. shown \subseteq CellId
      OBVIOUS
    <3> HIDE DEF k, shown
    <3>3. kSubset(k, shown) \subseteq SUBSET shown
      BY DEF kSubset
    <3>4. PICK s \in kSubset(k, shown) : page \in SetToSeqs(s)
      BY <3>1
    <3> QED
      BY <3>2, <3>3, <3>4
  <2>2. IsFiniteSet(CellId)
    <3>1. 1 \in Int /\ MaxCells \in Int
      BY PageAssumption
    <3> QED
      BY <3>1, FS_Interval DEF CellId
  <2>3. Cardinality(s) \in Nat
    BY <2>1, <2>2, FS_Subset, FS_CardinalityType
  <2>4. page \in [1..Cardinality(s) -> CellId]
    BY <2>1 DEF SetToSeqs
  <2> QED
    BY <2>3, <2>4, FunctionIsSeq
<1> QED
  BY <1>1, <1>2

\* The answer the client takes is of the first request of its script; what
\* follows is the rest of the script and what the answer adds.
LEMMA TailProperties ==
    ASSUME ScriptOK, pc # "idle"
    PROVE  /\ Tail(script) \in Seq(Request) /\ Len(Tail(script)) = Len(script) - 1
           /\ \A i \in 1..Len(Tail(script)) : (Tail(script)[i].route = "create") = (op \in Creating)
           /\ op = "forget" => IF script = Forget(target) THEN Tail(script) = ForgetRest(target)
                                                          ELSE Tail(script) = <<>>
           /\ op = "messages" => Tail(script) = <<>>
<1>1. script \in Seq(Request) /\ script # <<>>
  BY DEF ScriptOK
<1>2. /\ Tail(script) \in Seq(Request) /\ Len(Tail(script)) = Len(script) - 1
      /\ \A i \in 1..Len(Tail(script)) : Tail(script)[i] = script[i + 1]
      /\ Len(script) \in Nat
  BY <1>1, HeadTailProperties, LenProperties
<1>3. ASSUME NEW i \in 1..Len(Tail(script))
      PROVE  (Tail(script)[i].route = "create") = (op \in Creating)
  <2>1. i + 1 \in 1..Len(script)
    BY <1>2
  <2> QED
    BY <1>2, <2>1 DEF ScriptOK
<1>4. op = "forget" => IF script = Forget(target) THEN Tail(script) = ForgetRest(target)
                                                  ELSE Tail(script) = <<>>
  BY TailOfTuples DEF ScriptOK, Forget, ForgetRest
<1>5. op = "messages" => Tail(script) = <<>>
  BY TailOfTuples DEF ScriptOK, LoadCells
<1> QED
  BY <1>2, <1>3, <1>4, <1>5

LEMMA AddedToTail ==
    ASSUME ScriptOK, pc # "idle"
    PROVE  /\ Tail(script) \o Added \in Seq(Request)
           /\ \A i \in 1..Len(Tail(script) \o Added) :
                 ((Tail(script) \o Added)[i].route = "create") = (op \in Creating)
           /\ op # "clear" => Tail(script) \o Added = Tail(script)
<1> DEFINE t == Tail(script)
<1>1. /\ t \in Seq(Request) /\ Added \in Seq(Request)
      /\ \A i \in 1..Len(t) : (t[i].route = "create") = (op \in Creating)
      /\ \A i \in 1..Len(Added) : Added[i].route # "create"
      /\ op # "clear" => Added = <<>>
  BY TailProperties, AddedProperties DEF ScriptOK
<1> HIDE DEF t
<1>2. /\ t \o Added \in Seq(Request) /\ Len(t \o Added) = Len(t) + Len(Added)
      /\ Len(t) \in Nat /\ Len(Added) \in Nat
      /\ \A i \in 1..(Len(t) + Len(Added)) :
            (t \o Added)[i] = IF i <= Len(t) THEN t[i] ELSE Added[i - Len(t)]
  BY <1>1, ConcatProperties, LenProperties
<1>3. op # "clear" => t \o Added = t
  BY <1>1, ConcatEmptySeq
<1>4. ASSUME op = "clear", NEW i \in 1..Len(t \o Added)
      PROVE  ((t \o Added)[i].route = "create") = (op \in Creating)
  <2>1. op \notin Creating
    BY <1>4 DEF Creating
  <2>2. CASE i <= Len(t)
    <3>1. i \in 1..Len(t) /\ (t \o Added)[i] = t[i]
      BY <1>2, <2>2
    <3> QED
      BY <1>1, <3>1
  <2>3. CASE ~(i <= Len(t))
    <3>1. i - Len(t) \in 1..Len(Added) /\ (t \o Added)[i] = Added[i - Len(t)]
      BY <1>2, <2>3
    <3> QED
      BY <1>1, <2>1, <3>1
  <2> QED
    BY <2>2, <2>3
<1> QED
  BY <1>1, <1>2, <1>3, <1>4 DEF t

\* A call begins.
LEMMA BeginScript ==
    ASSUME ScriptOK, ResultOK, Call \/ Retry
    PROVE  /\ ScriptOK' /\ UNCHANGED <<server, keyfile, cells, late, faults, entitled>>
           /\ \E name, c : Begin(name, c) /\ op' = name /\ target' = c
                           /\ (name = "forget" => c \in CellId /\ cells[c].status # "unborn"
                                                  /\ script' = Forget(c))
<1>1. PICK name \in {"remember", "save_context", "get_memory", "forget", "messages", "clear", "health"},
           c \in 0..MaxCells : Begin(name, c) /\ (name = "forget" => c \in CellId /\ cells[c].status # "unborn")
  <2>1. 0 \in 0..MaxCells /\ CellId \subseteq 0..MaxCells
    BY PageAssumption DEF CellId
  <2>2. CASE Retry
    <3>1. result.cell \in CellId /\ cells[result.cell].status # "unborn" /\ Begin("forget", result.cell)
      BY <2>2 DEF Retry, Unanswered, ResultOK
    <3> QED
      BY <2>1, <3>1
  <2>3. CASE Call
    <3>1. \/ \E name \in {"remember", "save_context", "messages", "clear", "health"} : Begin(name, 0)
          \/ \E name \in {"get_memory", "forget"}, c \in CellId \ Unborn : Begin(name, c)
      BY <2>3 DEF Call
    <3> QED
      BY <2>1, <3>1 DEF Unborn
  <2> QED
    BY <2>2, <2>3
<1>2. /\ pc' = "waiting" /\ op' = name /\ target' = c /\ script' \in Requests(name, c)
      /\ UNCHANGED <<reply, server, keyfile, cells, late, faults, entitled>>
  BY <1>1 DEF Begin
<1>3. /\ script' \in Seq(Request) /\ script' # <<>>
      /\ \A i \in 1..Len(script') : (script'[i].route = "create") = (name \in Creating)
      /\ name = "forget" => script' = Forget(c)
      /\ name = "messages" => script' = LoadCells
  BY <1>2, RequestsProperties
<1>4. ScriptOK'
  <2>1. name = "forget" => c \in CellId /\ script' = Forget(c)
    BY <1>1, <1>3
  <2>2. Creating' = Creating /\ Forget(c)' = Forget(c)
    OBVIOUS
  <2> QED
    BY <1>2, <1>3, <2>1 DEF ScriptOK, Forget, Identified, LoadCells, ListMemories
<1> QED
  BY <1>1, <1>2, <1>3, <1>4

\* A call is over.
LEMMA FinishScript ==
    ASSUME ScriptOK, late' \subseteq Request, IsFiniteSet(late'),
           pc' = "idle", script' = <<>>, reply' = NoReply
    PROVE  ScriptOK'
<1>1. <<>> \in Seq(Request) /\ <<>> \in Seq(CellId) /\ Len(<<>>) = 0
  BY EmptySeq
<1> QED
  BY <1>1 DEF ScriptOK, NoReply

\* The client is untouched, and what is late stays well-formed.
LEMMA ScriptStands ==
    ASSUME ScriptOK, UNCHANGED client, late' \subseteq Request, IsFiniteSet(late')
    PROVE  ScriptOK'
BY DEF ScriptOK, client, Forget, ForgetRest, Identified, LoadCells, ListMemories, Creating

LEMMA ScriptStep ==
    ASSUME ScriptOK, ResultOK, [Next]_vars
    PROVE  ScriptOK'
<1>1. late \subseteq Request /\ IsFiniteSet(late)
  BY DEF ScriptOK
<1>2. CASE Call \/ Retry
  BY <1>2, BeginScript
<1>3. CASE Receive
  <2>1. late' = late /\ pc = "answered"
    BY <1>3 DEF Receive
  <2>2. CASE pc' = "idle"
    <3>1. script' = <<>> /\ reply' = NoReply
      BY <1>3, <2>2 DEF Receive, Raise, Finish
    <3> QED
      BY <1>1, <2>1, <2>2, <3>1, FinishScript
  <2>3. CASE pc' # "idle"
    <3>1. /\ Tail(script) \o Added # <<>> /\ script' = Tail(script) \o Added
          /\ pc' = "waiting" /\ reply' = NoReply /\ UNCHANGED <<op, target, result>>
      BY <1>3, <2>3 DEF Receive, Raise, Finish
    <3>2. /\ script' \in Seq(Request)
          /\ \A i \in 1..Len(script') : (script'[i].route = "create") = (op \in Creating)
          /\ op # "clear" => script' = Tail(script)
      BY <2>1, <3>1, AddedToTail
    <3>3. op = "forget" => target \in CellId /\ script' = ForgetRest(target)
      BY <2>1, <3>1, <3>2, TailProperties DEF ScriptOK
    <3>4. op # "messages"
      BY <2>1, <3>1, <3>2, TailProperties
    <3>5. NoReply.page \in Seq(CellId)
      BY EmptySeq DEF NoReply
    <3> QED
      BY <1>1, <2>1, <3>1, <3>2, <3>3, <3>4, <3>5
         DEF ScriptOK, Forget, ForgetRest, Identified, LoadCells, ListMemories, Creating
  <2> QED
    BY <2>2, <2>3
<1>4. CASE ConnectionRefused
  <2>1. late' = late /\ pc' = "idle" /\ script' = <<>> /\ reply' = NoReply
    BY <1>4 DEF ConnectionRefused, Raise, Finish
  <2> QED
    BY <1>1, <2>1, FinishScript
<1>5. CASE Lose
  <2>1. pc' = "idle" /\ script' = <<>> /\ reply' = NoReply /\ pc # "idle"
    BY <1>5 DEF Lose, Raise, Finish
  <2>2. late' = late \/ late' = late \cup {Head(script)}
    BY <1>5 DEF Lose
  <2>3. late' \subseteq Request /\ IsFiniteSet(late')
    BY <1>1, <2>1, <2>2, OutstandingProperties, FS_AddElement
  <2> QED
    BY <2>1, <2>3, FinishScript
<1>6. CASE Serve
  <2>1. /\ pc = "waiting" /\ pc' = "answered" /\ UNCHANGED <<op, target, script, result, late>>
        /\ \E page \in Pages(Head(script)) : reply' = [code |-> Code(Head(script)), page |-> page]
    BY <1>6 DEF Serve
  <2>2. reply'.page \in Seq(CellId)
    BY <2>1, OutstandingProperties, PagesAreSequences
  <2> QED
    BY <2>1, <2>2 DEF ScriptOK, Forget, ForgetRest, Identified, LoadCells, ListMemories, Creating
<1>7. CASE ServeLate
  <2>1. UNCHANGED client /\ \E req \in late : late' = late \ {req}
    BY <1>7 DEF ServeLate
  <2>2. late' \subseteq Request /\ IsFiniteSet(late')
    BY <1>1, <2>1, FS_RemoveElement
  <2> QED
    BY <2>1, <2>2, ScriptStands
<1>8. CASE Stranger
  <2>0. Identified("create") \in Request
    BY ClientAssumption, PageAssumption DEF Identified, Request
  <2>1. PICK req \in Request : late' = late \cup {req}
    <3>1. CASE \E agent \in Agents, key \in Keys \cup {NoKey, Placeholder} :
                  late' = late \cup {[Identified("create") EXCEPT !.agent = agent, !.key = key]}
      <4>1. PICK agent \in Agents, key \in Keys \cup {NoKey, Placeholder} :
                  late' = late \cup {[Identified("create") EXCEPT !.agent = agent, !.key = key]}
        BY <3>1
      <4>2. [Identified("create") EXCEPT !.agent = agent, !.key = key] \in Request
        BY <2>0 DEF Request
      <4> QED
        BY <4>1, <4>2
    <3>2. CASE \E none \in {NoAgent, EmptyAgent}, key \in {NoKey, Placeholder}, created_by \in Agents \cup {NoAgent} :
                  late' = late \cup {[Identified("create") EXCEPT !.agent = none, !.key = key,
                                                                  !.created_by = created_by]}
      <4>1. PICK none \in {NoAgent, EmptyAgent}, key \in {NoKey, Placeholder}, created_by \in Agents \cup {NoAgent} :
                  late' = late \cup {[Identified("create") EXCEPT !.agent = none, !.key = key,
                                                                  !.created_by = created_by]}
        BY <3>2
      <4>2. [Identified("create") EXCEPT !.agent = none, !.key = key, !.created_by = created_by]
              \in Request
        BY <2>0 DEF Request
      <4> QED
        BY <4>1, <4>2
    <3> QED
      BY <1>8, <3>1, <3>2 DEF Stranger
  <2>3. late' \subseteq Request /\ IsFiniteSet(late')
    BY <1>1, <2>1, FS_AddElement
  <2>4. UNCHANGED client
    BY <1>8 DEF Stranger
  <2> QED
    BY <2>3, <2>4, ScriptStands
<1>9. CASE Start \/ End \/ Repair \/ Disrupt \/ Others
  <2>1. UNCHANGED client /\ late' = late
    BY <1>9 DEF Start, End, Repair, Disrupt, Others
  <2> QED
    BY <1>1, <2>1, ScriptStands
<1>10. CASE UNCHANGED vars
  <2>1. UNCHANGED client /\ late' = late
    BY <1>10 DEF vars
  <2> QED
    BY <1>1, <2>1, ScriptStands
<1> QED
  BY <1>2, <1>3, <1>4, <1>5, <1>6, <1>7, <1>8, <1>9, <1>10 DEF Next

-----------------------------------------------------------------------------
(* Room, kept.                                                              *)

LEMMA RoomStep ==
    ASSUME ScriptOK, ResultOK, Room, [Next]_vars
    PROVE  Room'
<1>1. /\ Outstanding \in Nat /\ LateCreates \in Nat /\ Len(script) \in Nat
      /\ Outstanding <= Creates(script) /\ Creates(script) \in Nat
      /\ Cardinality(Unborn) \in Nat /\ IsFiniteSet(Unborn) /\ IsFiniteSet(late) /\ late \subseteq Request
      /\ Outstanding + LateCreates <= Cardinality(Unborn)
  BY OutstandingProperties, UnbornProperties DEF Room, ScriptOK
<1>2. CellsType' /\ CellsType
  BY StoreSteps DEF StoreStep, OnlyMovesOn, Room
<1>3. cells' = cells => Unborn' = Unborn
  BY DEF Unborn
<1>4. late' = late => LateCreates' = LateCreates
  BY DEF LateCreates
<1>5. UNCHANGED client => Outstanding' = Outstanding
  BY DEF client, Outstanding
<1>6. script' = <<>> /\ pc' = "idle" => Outstanding' = 0
  <2>1. Len(<<>>) = 0
    OBVIOUS
  <2> QED
    BY <2>1 DEF Outstanding
<1>7. CASE Call \/ Retry
  <2>1. /\ Creates(script') + LateCreates <= Cardinality(Unborn)
        /\ pc' = "waiting" /\ UNCHANGED <<late, cells>>
    BY <1>7, BeginScript DEF Begin
  <2>2. script' \in Seq(Request)
        /\ \A i \in 1..Len(script') : (script'[i].route = "create") = (op' \in Creating)
    BY <1>7, ScriptStep DEF ScriptOK, Creating
  <2>3. Outstanding' <= Creates(script') /\ Outstanding' \in Nat /\ Creates(script') \in Nat
    <3>1. CASE op' \in Creating
      <4>1. \A i \in 1..Len(script') : script'[i].route = "create"
        BY <2>2, <3>1
      <4>2. Creates(script') = Len(script') /\ Creates(script') \in Nat
        BY <2>2, <4>1, CreatesCount
      <4>3. Outstanding' = Len(script')
        BY <2>1, <3>1 DEF Outstanding, Creating
      <4> QED
        BY <4>2, <4>3
    <3>2. CASE op' \notin Creating
      <4>1. Outstanding' = 0
        BY <3>2 DEF Outstanding, Creating
      <4> QED
        BY <2>2, <4>1, CreatesCount
    <3> QED
      BY <3>1, <3>2
  <2> QED
    BY <1>1, <1>2, <1>3, <1>4, <2>1, <2>3 DEF Room
<1>8. CASE Receive
  <2>1. UNCHANGED <<late, cells>> /\ pc = "answered"
    BY <1>8 DEF Receive
  <2>2. CASE pc' = "idle"
    <3>1. script' = <<>>
      BY <1>8, <2>2 DEF Receive, Raise, Finish
    <3> QED
      BY <1>1, <1>2, <1>3, <1>4, <1>6, <2>1, <2>2, <3>1 DEF Room
  <2>3. CASE pc' # "idle"
    <3>1. script' = Tail(script) \o Added /\ pc' = "waiting" /\ op' = op
      BY <1>8, <2>3 DEF Receive, Raise, Finish
    <3>2. Outstanding' = Outstanding
      <4>1. CASE op \in Creating
        <5>1. script' = Tail(script) /\ Len(Tail(script)) = Len(script) - 1
          BY <2>1, <3>1, <4>1, AddedToTail, TailProperties DEF Creating
        <5> QED
          BY <2>1, <3>1, <4>1, <5>1 DEF Outstanding, Creating
      <4>2. CASE op \notin Creating
        BY <3>1, <4>2 DEF Outstanding, Creating
      <4> QED
        BY <4>1, <4>2
    <3> QED
      BY <1>1, <1>2, <1>3, <1>4, <2>1, <3>2 DEF Room
  <2> QED
    BY <2>2, <2>3
<1>9. CASE ConnectionRefused
  <2>1. UNCHANGED <<late, cells>> /\ script' = <<>> /\ pc' = "idle"
    BY <1>9 DEF ConnectionRefused, Raise, Finish
  <2> QED
    BY <1>1, <1>2, <1>3, <1>4, <1>6, <2>1 DEF Room
<1>10. CASE Lose
  <2>1. cells' = cells /\ script' = <<>> /\ pc' = "idle" /\ pc # "idle"
    BY <1>10 DEF Lose, Raise, Finish
  <2>2. CASE late' = late
    BY <1>1, <1>2, <1>3, <1>4, <1>6, <2>1, <2>2 DEF Room
  <2>3. CASE pc = "waiting" /\ late' = late \cup {Head(script)}
    <3>1. /\ LateCreates' \in Nat /\ LateCreates' <= LateCreates + 1
          /\ Head(script).route # "create" => LateCreates' = LateCreates
      BY <1>1, <2>3, LateGrows
    <3>2. Head(script).route = "create" => Outstanding > 0
      BY <2>1, <2>3, OutstandingProperties DEF Outstanding
    <3> QED
      BY <1>1, <1>2, <1>3, <1>6, <2>1, <3>1, <3>2 DEF Room
  <2> QED
    BY <1>10, <2>2, <2>3 DEF Lose
<1>11. CASE Serve
  <2>1. pc = "waiting" /\ pc' = "answered" /\ UNCHANGED <<op, script, late>> /\ Handle(Head(script))
    BY <1>11 DEF Serve
  <2>2. Head(script) \in Request /\ (Code(Head(script)) = 201 => Unborn # {})
    BY <2>1, OutstandingProperties, RoomToServe
  <2>3. CASE Code(Head(script)) = 201
    <3>1. op \in Creating /\ Len(script) > 0
      BY <2>1, <2>2, <2>3, CodeProperties, OutstandingProperties
    <3>2. Outstanding' = Outstanding - 1
      BY <2>1, <3>1 DEF Outstanding, Creating
    <3>3. Min(Unborn) \in Unborn /\ Unborn' = Unborn \ {Min(Unborn)}
      BY <1>2, <2>1, <2>2, <2>3, HandleProperties
    <3> DEFINE new == Min(Unborn)
    <3> HIDE DEF new
    <3>4. Cardinality(Unborn') = Cardinality(Unborn) - 1
      <4>1. new \in Unborn /\ Unborn' = Unborn \ {new}
        BY <3>3 DEF new
      <4> QED
        BY <1>1, <4>1, FS_RemoveElement
    <3> QED
      BY <1>1, <1>2, <1>4, <2>1, <3>2, <3>4 DEF Room
  <2>4. CASE Code(Head(script)) # 201
    <3>1. Unborn' = Unborn
      BY <1>2, <2>1, <2>2, <2>4, HandleProperties
    <3>2. Outstanding' \in Int /\ Outstanding' <= Outstanding
      BY <1>1, <2>1 DEF Outstanding, Creating
    <3> QED
      BY <1>1, <1>2, <1>4, <2>1, <3>1, <3>2 DEF Room
  <2> QED
    BY <2>3, <2>4
<1>12. CASE ServeLate
  <2>1. PICK req \in late : /\ late' = late \ {req}
                            /\ Handle(req) \/ cells' = cells
                            /\ UNCHANGED client
    BY <1>12 DEF ServeLate
  <2>2. /\ LateCreates' \in Nat /\ LateCreates' <= LateCreates
        /\ req.route = "create" => LateCreates' = LateCreates - 1
    BY <1>1, <2>1, LateShrinks
  <2>3. CASE cells' = cells \/ (Handle(req) /\ Code(req) # 201)
    <3>1. req \in Request
      BY <1>1
    <3>2. Unborn' = Unborn
      BY <1>2, <1>3, <2>3, <3>1, HandleProperties
    <3> QED
      BY <1>1, <1>2, <1>5, <2>1, <2>2, <3>2 DEF Room
  <2>4. CASE Handle(req) /\ Code(req) = 201
    <3>1. req \in Request /\ Unborn # {}
      BY <1>1, <2>4, RoomToServe
    <3>2. Min(Unborn) \in Unborn /\ Unborn' = Unborn \ {Min(Unborn)} /\ req.route = "create"
      BY <1>2, <2>4, <3>1, HandleProperties, CodeProperties
    <3> DEFINE new == Min(Unborn)
    <3> HIDE DEF new
    <3>3. Cardinality(Unborn') = Cardinality(Unborn) - 1
      <4>1. new \in Unborn /\ Unborn' = Unborn \ {new}
        BY <3>2 DEF new
      <4> QED
        BY <1>1, <4>1, FS_RemoveElement
    <3> QED
      BY <1>1, <1>2, <1>5, <2>1, <2>2, <3>2, <3>3 DEF Room
  <2> QED
    BY <2>1, <2>3, <2>4
<1>13. CASE Stranger
  <2>1. /\ Creates(script) + LateCreates < Cardinality(Unborn)
        /\ \E req : late' = late \cup {req}
        /\ UNCHANGED client /\ cells' = cells
    BY <1>13 DEF Stranger
  <2>2. LateCreates' \in Nat /\ LateCreates' <= LateCreates + 1
    BY <1>1, <2>1, LateGrows
  <2> QED
    BY <1>1, <1>2, <1>3, <1>5, <2>1, <2>2 DEF Room
<1>14. CASE UNCHANGED client /\ late' = late /\ Unborn' = Unborn
  BY <1>1, <1>2, <1>4, <1>5, <1>14 DEF Room
<1>15. CASE Start \/ End \/ Repair \/ Disrupt
  BY <1>3, <1>14, <1>15 DEF Start, Startup, End, Repair, Disrupt, CloseStorage, RepairKeyFile,
                            StopTask, Kill, ChangeKeyFile
<1>16. CASE Others
  <2>1. Unborn' = Unborn
    BY <1>2, <1>16, OthersProperties DEF Others
  <2> QED
    BY <1>14, <1>16, <2>1 DEF Others
<1>17. CASE UNCHANGED vars
  BY <1>3, <1>14, <1>17 DEF vars
<1> QED
  BY <1>7, <1>8, <1>9, <1>10, <1>11, <1>12, <1>13, <1>15, <1>16, <1>17 DEF Next

-----------------------------------------------------------------------------
(* The cells in the agent's hands.                                          *)

\* A step of the store recomputes them.
LEMMA KeptIsEntitled ==
    ASSUME EntitledOK, UNCHANGED server, entitled' = Kept
    PROVE  EntitledOK'
<1>1. Kept \subseteq CellId /\ process' = process /\ keys' = keys
  BY DEF Kept, server
<1>2. \A c \in Kept : /\ cells'[c].status # "unborn" /\ ~cells'[c].full
                      /\ Me = cells'[c].created_by \/ Me \in cells'[c].writers
                      /\ c \in entitled \/ Accepts(keys)
  BY DEF Kept
<1>3. process = "serving" /\ Kept # {} => Accepts(keys)
  BY <1>2 DEF EntitledOK
<1>4. Accepts(keys)' <=> Accepts(keys)
  BY <1>1 DEF Accepts
<1> QED
  BY <1>1, <1>2, <1>3, <1>4 DEF EntitledOK, Writes

LEMMA EntitledStands ==
    ASSUME EntitledOK, cells' = cells, entitled' = entitled,
           process' = "serving" => process = "serving" /\ keys' = keys
    PROVE  EntitledOK'
BY DEF EntitledOK, Writes, Accepts

LEMMA EntitledStep ==
    ASSUME EntitledOK, [Next]_vars
    PROVE  EntitledOK'
<1>1. CASE Call \/ Retry
  BY <1>1, EntitledStands DEF Call, Retry, Begin, server
<1>2. CASE Receive \/ ConnectionRefused \/ Lose
  BY <1>2, EntitledStands DEF Receive, ConnectionRefused, Lose, server, history
<1>3. CASE Serve
  BY <1>3, KeptIsEntitled DEF Serve, Handle
<1>4. CASE ServeLate
  <2>1. (UNCHANGED server /\ entitled' = Kept) \/ UNCHANGED <<server, keyfile, cells, entitled>>
    BY <1>4 DEF ServeLate, Handle
  <2> QED
    BY <2>1, KeptIsEntitled, EntitledStands DEF server
<1>5. CASE Stranger
  BY <1>5, EntitledStands DEF Stranger, server, history
<1>6. CASE Start
  <2>1. keys' = keyfile /\ cells' = cells /\ entitled' = IF Accepts(keyfile) THEN entitled ELSE {}
    BY <1>6 DEF Start, Startup, StoreFromEnv
  <2>2. Accepts(keys)' <=> Accepts(keyfile)
    BY <2>1 DEF Accepts
  <2> QED
    BY <2>1, <2>2 DEF EntitledOK, Writes
<1>7. CASE End \/ Repair
  BY <1>7, EntitledStands DEF End, Repair, CloseStorage, RepairKeyFile, server, history
<1>8. CASE Disrupt
  BY <1>8, EntitledStands DEF Disrupt, StopTask, Kill, ChangeKeyFile, server
<1>9. CASE Others
  BY <1>9, KeptIsEntitled DEF Others, LifecyclePass, OthersWrite
<1>10. CASE UNCHANGED vars
  BY <1>10, EntitledStands DEF vars, server, history
<1> QED
  BY <1>1, <1>2, <1>3, <1>4, <1>5, <1>6, <1>7, <1>8, <1>9, <1>10 DEF Next

-----------------------------------------------------------------------------
(* A forget.                                                                *)

\* An entitled agent that names itself and its key gets past the identity gate.
LEMMA EntitledIsLetIn ==
    ASSUME EntitledOK, process = "serving", NEW c \in entitled, NEW req,
           req.agent = Me, req.key = ApiKey
    PROVE  ~Unauthenticated(req) /\ req.agent \in Agents /\ Writes(req.agent, c) /\ ~cells[c].full
<1>1. Accepts(keys) /\ Writes(Me, c) /\ ~cells[c].full
  BY DEF EntitledOK
<1>2. Me \in Agents /\ Me # NoAgent
  BY ClientAssumption, KeyAssumption
<1> QED
  BY <1>1, <1>2 DEF Accepts, Unauthenticated, Verify, Expected

LEMMA ForgetIsLonger == \A c : Forget(c) # ForgetRest(c) /\ ForgetRest(c) # <<>>
<1> TAKE c
<1>1. Len(Forget(c)) = 2 /\ Len(ForgetRest(c)) = 1 /\ Len(<<>>) = 0
  BY DEF Forget, ForgetRest
<1> QED
  BY <1>1

LEMMA ForgetStands ==
    ASSUME ScriptOK, ForgetOK, StoreStep, UNCHANGED client
    PROVE  ForgetOK'
<1> SUFFICES ASSUME pc # "idle", op = "forget"
             PROVE  ForgetOK'
  BY DEF ForgetOK, client
<1>1. /\ target \in CellId /\ cells[target].status # "unborn"
      /\ script = ForgetRest(target) => Settled(target)
      /\ pc = "answered" /\ reply.code \in 200..299 =>
           Settled(target) /\ (script = ForgetRest(target) => Gone(target))
      /\ pc = "answered" /\ reply.code \notin 200..299 /\ target \in entitled => Gone(target)
  BY DEF ScriptOK, ForgetOK
<1>2. /\ target' = target /\ script' = script /\ pc' = pc /\ reply' = reply
      /\ ForgetRest(target)' = ForgetRest(target)
  BY DEF client, ForgetRest, Identified
<1>3. /\ cells'[target].status # "unborn"
      /\ Settled(target) => Settled(target)'
      /\ Gone(target) => Gone(target)'
      /\ target \in entitled' => target \in entitled
  BY <1>1, <1>2 DEF StoreStep, OnlyMovesOn, Settled, Gone
<1> QED
  BY <1>1, <1>2, <1>3 DEF ForgetOK

\* The server answers a request of a forget: archived, deleted, or, to an
\* entitled agent, gone already.
LEMMA ForgetIsServed ==
    ASSUME ScriptOK, Room, EntitledOK, ForgetOK, StoreStep, Serve, op = "forget"
    PROVE  ForgetOK'
<1>0. PICK req \in Request : req = Head(script)
  BY OutstandingProperties DEF Serve
<1>1. /\ pc = "waiting" /\ pc' = "answered" /\ UNCHANGED <<op, target, script>>
      /\ Handle(req) /\ reply'.code = Code(req) /\ process = "serving"
  BY <1>0 DEF Serve, Handle
<1>2. /\ target \in CellId /\ cells[target].status # "unborn"
      /\ script \in {Forget(target), ForgetRest(target)}
      /\ script = ForgetRest(target) => Settled(target)
  BY <1>1 DEF ScriptOK, ForgetOK
<1>3. /\ req.agent = Me /\ req.key = ApiKey /\ req.cell = target
      /\ script = Forget(target) => req.route = "archive"
      /\ script = ForgetRest(target) => req.route = "delete"
  <2>2. \A a, b : Head(<<a, b>>) = a /\ Head(<<a>>) = a
    OBVIOUS
  <2>3. \A route : /\ [Identified(route) EXCEPT !.cell = target].agent = Me
                   /\ [Identified(route) EXCEPT !.cell = target].key = ApiKey
                   /\ [Identified(route) EXCEPT !.cell = target].cell = target
                   /\ [Identified(route) EXCEPT !.cell = target].route = route
    BY DEF Identified
  <2>4. script = Forget(target) => req = [Identified("archive") EXCEPT !.cell = target]
    BY <1>0, <2>2 DEF Forget
  <2>5. script = ForgetRest(target) => req = [Identified("delete") EXCEPT !.cell = target]
    BY <1>0, <2>2 DEF ForgetRest
  <2> QED
    BY <1>2, <2>3, <2>4, <2>5
<1>4. /\ cells'[target].status # "unborn"
      /\ Settled(target) => Settled(target)'
      /\ Gone(target) => Gone(target)'
      /\ target \in entitled' => target \in entitled
  BY <1>1, <1>2 DEF StoreStep, OnlyMovesOn, Settled, Gone
<1>5. /\ Code(req) \in {200, 201, 204, 401, 403, 409, 413, 422}
      /\ Code(req) # 201
      /\ Code(req) = 204 => script = ForgetRest(target) /\ Gone(target)'
      /\ Code(req) = 200 /\ script = Forget(target) => Settled(target)'
      /\ script = ForgetRest(target) => Code(req) # 200
  <2>1. Code(req) # 201 /\ (Code(req) = 204 => req.route = "delete")
        /\ Code(req) \in {200, 201, 204, 401, 403, 409, 413, 422}
    BY <1>2, <1>3, CodeProperties
  <2>2. /\ Code(req) = 200 /\ req.route = "archive" => Settled(req.cell)'
        /\ Code(req) = 204 => Gone(req.cell)'
    BY <1>1, <1>2, <1>3, <2>1, HandleProperties DEF Room
  <2>3. Settled(req.cell)' => Settled(target)'
    BY <1>1, <1>3 DEF Settled
  <2>4. Gone(req.cell)' => Gone(target)'
    BY <1>1, <1>3 DEF Gone
  <2>5. req.route = "delete" => Code(req) # 200
    BY DEF Code, DeleteCode
  <2> QED
    BY <1>2, <1>3, <2>1, <2>2, <2>3, <2>4, <2>5
<1>6. ASSUME target \in entitled, Code(req) \notin {200, 204} PROVE Gone(target)
  <2>1. ~Unauthenticated(req) /\ req.agent \in Agents /\ Writes(req.agent, req.cell) /\ ~cells[req.cell].full
    BY <1>1, <1>3, <1>6, EntitledIsLetIn
  <2>2. ~Reachable(target)
    <3>1. CASE script = Forget(target)
      BY <1>3, <1>6, <2>1, <3>1 DEF Code, ArchiveCode
    <3>2. CASE script = ForgetRest(target)
      <4>1. Settled(target)
        BY <1>2, <3>2
      <4>2. CASE Reachable(target)
        <5>1. cells[req.cell].status = "archived" /\ Reachable(req.cell)
          BY <1>3, <4>1, <4>2 DEF Settled, Reachable
        <5> QED
          BY <1>3, <1>6, <2>1, <3>2, <5>1 DEF Code, DeleteCode
      <4> QED
        BY <4>2
    <3> QED
      BY <1>2, <3>1, <3>2
  <2>3. cells[target].status \in Status
    BY <1>2 DEF Room, CellsType, CellRecord
  <2> QED
    BY <1>2, <2>2, <2>3 DEF Reachable, Gone, Status
<1>7. Gone(target)' => Settled(target)'
  BY DEF Gone, Settled
<1>8. Code(req) \in 200..299 => Code(req) = 200 \/ Code(req) = 204
  BY <1>5
<1>9. Code(req) \notin 200..299 => Code(req) \notin {200, 204}
  OBVIOUS
<1>10. ForgetRest(target)' = ForgetRest(target)
  BY <1>1 DEF ForgetRest, Identified
<1> QED
  BY <1>1, <1>2, <1>4, <1>5, <1>6, <1>7, <1>8, <1>9, <1>10 DEF ForgetOK

\* The steps that touch neither the client nor, but for the store, what it waits for.
ElsewhereStep == ServeLate \/ Stranger \/ Start \/ End \/ Repair \/ Disrupt \/ Others \/ UNCHANGED vars

LEMMA ElsewhereLeavesClient == ElsewhereStep => UNCHANGED client
BY DEF ElsewhereStep, ServeLate, Stranger, Start, End, Repair, Disrupt, Others, vars

LEMMA ForgetStep ==
    ASSUME ScriptOK, ResultOK, Room, EntitledOK, ForgetOK, [Next]_vars
    PROVE  ForgetOK'
<1>1. StoreStep
  BY StoreSteps
<1>2. CASE pc' = "idle" \/ op' # "forget"
  BY <1>2 DEF ForgetOK
<1>3. CASE Call \/ Retry
  <2>1. PICK name, c : /\ Begin(name, c) /\ op' = name /\ target' = c
                       /\ name = "forget" => c \in CellId /\ cells[c].status # "unborn" /\ script' = Forget(c)
    BY <1>3, BeginScript
  <2>2. pc' = "waiting" /\ cells' = cells
    BY <2>1 DEF Begin
  <2>3. Forget(target') # ForgetRest(target)'
    BY ForgetIsLonger DEF ForgetRest, Identified
  <2> QED
    BY <1>2, <2>1, <2>2, <2>3 DEF ForgetOK
<1>4. CASE Receive
  <2>1. CASE pc' # "idle" /\ op' = "forget"
    <3>1. /\ reply.code \in 200..299 /\ pc = "answered" /\ pc' = "waiting"
          /\ UNCHANGED <<op, target, cells>>
      BY <1>4, <2>1 DEF Receive, Raise, Finish
    <3>2. Settled(target) /\ cells[target].status # "unborn"
      BY <2>1, <3>1 DEF ForgetOK
    <3> QED
      BY <3>1, <3>2 DEF ForgetOK, Settled
  <2> QED
    BY <1>2, <2>1
<1>5. CASE ConnectionRefused \/ Lose
  BY <1>2, <1>5 DEF ConnectionRefused, Lose, Raise, Finish
<1>6. CASE Serve
  <2>1. op' = op
    BY <1>6 DEF Serve
  <2> QED
    BY <1>1, <1>2, <1>6, <2>1, ForgetIsServed
<1>7. CASE ElsewhereStep
  BY <1>1, <1>7, ElsewhereLeavesClient, ForgetStands
<1> QED
  BY <1>3, <1>4, <1>5, <1>6, <1>7 DEF Next, ElsewhereStep

\* What the caller of a forget was told stays true.
LEMMA ResultStands ==
    ASSUME ResultOK, StoreStep, result' = result
    PROVE  ResultOK'
<1> SUFFICES ASSUME result.op = "forget" PROVE ResultOK'
  BY DEF ResultOK
<1>1. result.cell \in CellId /\ cells[result.cell].status # "unborn"
  BY DEF ResultOK
<1> DEFINE c == result.cell
<1>2. /\ cells'[c].status # "unborn"
      /\ cells[c].status \in {"deleted", "purged"} => cells'[c].status \in {"deleted", "purged"}
      /\ c \in entitled' => c \in entitled
  BY <1>1 DEF StoreStep, OnlyMovesOn, Gone
<1> QED
  BY <1>1, <1>2 DEF ResultOK, Gone

\* The call that ends is no forget.
LEMMA OtherResult == result'.op # "forget" => ResultOK'
BY DEF ResultOK

LEMMA ResultStep ==
    ASSUME ScriptOK, ResultOK, Room, ForgetOK, [Next]_vars
    PROVE  ResultOK'
<1>1. StoreStep
  BY StoreSteps
<1>2. NoResult.op # "forget" /\ "forget" \in Remembered /\ "forget" \notin Swallowing
  BY DEF NoResult, Remembered, Swallowing
<1>3. CASE Call \/ Retry
  BY <1>2, <1>3, OtherResult DEF Call, Retry, Begin
<1>4. ASSUME op = "forget", pc # "idle", cells' = cells, entitled' = entitled,
             NEW outcome, NEW status, NEW page, Finish(outcome, status, page),
             outcome = "returned" => Gone(target),
             outcome = "raised" /\ status # NoStatus /\ target \in entitled => Gone(target)
      PROVE  ResultOK'
  <2>1. result' = [op |-> op, cell |-> target, outcome |-> outcome, status |-> status, page |-> page]
    BY <1>2, <1>4 DEF Finish
  <2>2. target \in CellId /\ cells[target].status # "unborn"
    BY <1>4 DEF ScriptOK, ForgetOK
  <2> QED
    BY <1>4, <2>1, <2>2 DEF ResultOK, Gone
<1>5. ASSUME op # "forget", NEW outcome, NEW status, NEW page, Finish(outcome, status, page)
      PROVE  ResultOK'
  <2>1. result'.op # "forget"
    BY <1>2, <1>5 DEF Finish
  <2> QED
    BY <2>1, OtherResult
<1>6. CASE Receive
  <2>0. pc = "answered" /\ cells' = cells /\ entitled' = entitled
    BY <1>6 DEF Receive, history
  <2>1. CASE reply.code \notin 200..299
    <3>1. Raise(reply.code)
      BY <1>6, <2>1 DEF Receive
    <3>2. CASE op = "forget"
      <4>1. Finish("raised", reply.code, <<>>)
        BY <1>2, <3>1, <3>2 DEF Raise
      <4>2. target \in entitled => Gone(target)
        BY <2>0, <2>1, <3>2 DEF ForgetOK
      <4> QED
        BY <1>4, <2>0, <3>2, <4>1, <4>2
    <3>3. CASE op # "forget"
      BY <1>5, <3>1, <3>3 DEF Raise
    <3> QED
      BY <3>2, <3>3
  <2>2. CASE reply.code \in 200..299 /\ Tail(script) \o Added = <<>>
    <3>1. PICK page \in Ordered(reply.page) : Finish("returned", reply.code, page)
      BY <1>6, <2>2 DEF Receive
    <3>2. CASE op = "forget"
      <4>1. Tail(script) = <<>>
        BY <2>0, <2>2, <3>2, AddedToTail
      <4>2. script # Forget(target)
        BY <2>0, <3>2, <4>1, TailProperties, ForgetIsLonger
      <4>3. script = ForgetRest(target)
        BY <2>0, <3>2, <4>2 DEF ScriptOK
      <4>4. Gone(target)
        BY <2>0, <2>2, <3>2, <4>3 DEF ForgetOK
      <4> QED
        BY <1>4, <2>0, <3>1, <3>2, <4>4
    <3>3. CASE op # "forget"
      BY <1>5, <3>1, <3>3
    <3> QED
      BY <3>2, <3>3
  <2>3. CASE reply.code \in 200..299 /\ Tail(script) \o Added # <<>>
    <3>1. result' = result
      BY <1>6, <2>3 DEF Receive
    <3> QED
      BY <1>1, <3>1, ResultStands
  <2> QED
    BY <2>1, <2>2, <2>3
<1>7. CASE ConnectionRefused \/ Lose
  <2>1. pc # "idle" /\ cells' = cells /\ entitled' = entitled /\ Raise(NoStatus)
    BY <1>7 DEF ConnectionRefused, Lose, history
  <2>2. CASE op = "forget"
    <3>1. Finish("raised", NoStatus, <<>>)
      BY <1>2, <2>1, <2>2 DEF Raise
    <3> QED
      BY <1>4, <2>1, <2>2, <3>1
  <2>3. CASE op # "forget"
    BY <1>5, <2>1, <2>3 DEF Raise
  <2> QED
    BY <2>2, <2>3
<1>8. CASE Serve
  BY <1>1, <1>8, ResultStands DEF Serve
<1>9. CASE ElsewhereStep
  BY <1>1, <1>9, ElsewhereLeavesClient, ResultStands DEF client
<1> QED
  BY <1>3, <1>6, <1>7, <1>8, <1>9 DEF Next, ElsewhereStep
-----------------------------------------------------------------------------
(* The history of a chain.                                                  *)

LEMMA CellIdIsFinite == IsFiniteSet(CellId)
<1>1. 1 \in Int /\ MaxCells \in Int
  BY PageAssumption
<1> QED
  BY <1>1, FS_Interval DEF CellId

\* A sequence of the elements of a set, each once, has them all.
LEMMA ArrangementIsWhole ==
    ASSUME NEW S, S \subseteq CellId, NEW s \in SetToSeqs(S)
    PROVE  ToSet(s) = S /\ s \in [1..Cardinality(S) -> S] /\ Cardinality(S) \in Nat
<1> DEFINE n == Cardinality(S)
<1>1. IsFiniteSet(S) /\ n \in Nat
  BY CellIdIsFinite, FS_Subset, FS_CardinalityType
<1>2. s \in [1..n -> S] /\ \A i, j \in 1..n : s[i] = s[j] => i = j
  BY DEF SetToSeqs
<1> HIDE DEF n
<1>3. s \in Injection(1..n, S)
  BY <1>2, Fun_IsInj
<1>4. Cardinality(1..n) = n
  <2>1. 1 \in Int /\ n \in Int
    BY <1>1
  <2>2. Cardinality(1..n) = IF 1 > n THEN 0 ELSE n - 1 + 1
    BY <2>1, FS_Interval
  <2> QED
    BY <1>1, <2>2
<1>5. s \in Surjection(1..n, S)
  <2>1. Cardinality(1..n) = Cardinality(S)
    BY <1>4 DEF n
  <2> QED
    BY <1>1, <1>3, <2>1, FS_Injection
<1>6. \A c \in S : \E i \in 1..n : s[i] = c
  BY <1>5 DEF Surjection
<1>7. ToSet(s) = S
  BY <1>2, <1>6 DEF ToSet
<1> QED
  BY <1>1, <1>2, <1>7 DEF n

\* A listing whose limit is no smaller than what there is to list lists it all.
LEMMA WholeListing ==
    ASSUME NEW shown, shown \subseteq CellId, NEW limit \in Nat, Cardinality(shown) <= limit,
           NEW s \in kSubset(Min({limit, Cardinality(shown)}), shown),
           NEW page \in SetToSeqs(s)
    PROVE  ToSet(page) = shown
<1> DEFINE n == Cardinality(shown)
<1>1. IsFiniteSet(shown) /\ n \in Nat
  BY CellIdIsFinite, FS_Subset, FS_CardinalityType
<1>2. Min({limit, n}) = n
  <2> HIDE DEF n
  <2>1. n \in {limit, n} /\ \A y \in {limit, n} : n <= y
    BY <1>1 DEF n
  <2>2. Min({limit, n}) \in {limit, n} /\ \A y \in {limit, n} : Min({limit, n}) <= y
    BY <2>1 DEF Min
  <2> QED
    BY <1>1, <2>1, <2>2
<1>3. s \in SUBSET shown /\ Cardinality(s) = n
  BY <1>2 DEF kSubset
<1>4. s = shown
  BY <1>1, <1>3, FS_Subset
<1> QED
  BY <1>4, ArrangementIsWhole

\* The answer to _load_cells.
LEMMA HistoryIsServed ==
    ASSUME ScriptOK, Room, Serve, op = "messages", reply'.code = 200,
           Cardinality(Shown) <= HISTORY_PAGE
    PROVE  ToSet(reply'.page) = Shown /\ cells' = cells
<1>0. PICK req \in Request : req = Head(script) /\ req = ListMemories(HISTORY_PAGE)
  <2>1. Head(script) \in Request /\ script = LoadCells
    BY OutstandingProperties DEF Serve, ScriptOK
  <2>2. Head(script) = ListMemories(HISTORY_PAGE)
    BY <2>1 DEF LoadCells
  <2> QED
    BY <2>1, <2>2
<1>1. /\ Handle(req)
      /\ \E page \in Pages(req) : reply' = [code |-> Code(req), page |-> page]
  BY <1>0 DEF Serve
<1>2. req.route = "list" /\ req.agent = Me /\ req.limit = HISTORY_PAGE
  BY <1>0 DEF ListMemories, Identified
<1>3. PICK page \in Pages(req) : reply'.page = page /\ Code(req) = 200
  BY <1>1
<1>4. page \in UNION {SetToSeqs(s) : s \in kSubset(Min({HISTORY_PAGE, Cardinality(Shown)}), Shown)}
  <2> DEFINE shown == {c \in CellId : cells[c].status = "active" /\ Reads(req.agent, c)}
             k == Min({req.limit, Cardinality(shown)})
  <2>1. page \in UNION {SetToSeqs(s) : s \in kSubset(k, shown)}
    BY <1>2, <1>3 DEF Pages
  <2>2. shown = Shown
    BY <1>2 DEF Shown
  <2> HIDE DEF shown
  <2>3. k = Min({HISTORY_PAGE, Cardinality(Shown)})
    BY <1>2, <2>2
  <2> QED
    BY <2>1, <2>2, <2>3
<1>5. ToSet(page) = Shown
  <2>1. Shown \subseteq CellId /\ HISTORY_PAGE \in Nat
    BY ClientAssumption DEF Shown
  <2>2. PICK s \in kSubset(Min({HISTORY_PAGE, Cardinality(Shown)}), Shown) : page \in SetToSeqs(s)
    BY <1>4
  <2> HIDE DEF Shown
  <2> QED
    BY <2>1, <2>2, WholeListing
<1>6. cells' = cells
  <2>1. cells' = After(req) /\ Code(req) \notin {201, 204}
    BY <1>1, <1>3 DEF Handle
  <2> QED
    BY <1>2, <2>1 DEF After
<1> QED
  BY <1>3, <1>5, <1>6

LEMMA HistoryStep ==
    ASSUME ScriptOK, Room, HistoryOK, [Next]_vars
    PROVE  HistoryOK'
<1>1. CASE undisturbed' = FALSE
  BY <1>1 DEF HistoryOK
<1>2. cells' = cells => Shown' = Shown
  BY DEF Shown, Reads
<1>3. CASE Call \/ Retry
  <2>1. pc' = "waiting"
    BY <1>3 DEF Call, Retry, Begin
  <2> QED
    BY <2>1 DEF HistoryOK
<1>4. CASE Receive
  <2>0. pc = "answered" /\ Shown' = Shown /\ undisturbed' = undisturbed
    BY <1>2, <1>4 DEF Receive, history
  <2>1. CASE reply.code \notin 200..299
    <3>1. Raise(reply.code) /\ pc' = "idle"
      BY <1>4, <2>1 DEF Receive, Raise, Finish
    <3>2. result'.status # 200
      BY <2>1, <3>1 DEF Raise, Finish, NoResult, NoStatus
    <3> QED
      BY <3>1, <3>2 DEF HistoryOK
  <2>2. CASE reply.code \in 200..299 /\ Tail(script) \o Added = <<>>
    <3>0. PICK page \in Ordered(reply.page) : Finish("returned", reply.code, page)
      BY <1>4, <2>2 DEF Receive
    <3>1. Finish("returned", reply.code, page) /\ pc' = "idle"
      BY <3>0 DEF Finish
    <3>2. CASE op = "messages"
      <4>1. result'.status = reply.code /\ result'.page = page
        BY <3>1, <3>2 DEF Finish, Remembered
      <4>2. /\ page \in SetToSeqs(ToSet(reply.page))
            /\ \A i, j \in DOMAIN page : i < j => ~TextBefore(CreatedAt[page[j]], CreatedAt[page[i]])
        BY DEF Ordered
      <4> QED
        BY <2>0, <3>1, <3>2, <4>1, <4>2 DEF HistoryOK
    <3>3. CASE op # "messages"
      <4>1. result'.op # "messages"
        BY <3>1, <3>3 DEF Finish, NoResult
      <4> QED
        BY <3>1, <4>1 DEF HistoryOK
    <3> QED
      BY <3>2, <3>3
  <2>3. CASE reply.code \in 200..299 /\ Tail(script) \o Added # <<>>
    <3>1. pc' = "waiting"
      BY <1>4, <2>3 DEF Receive
    <3> QED
      BY <3>1 DEF HistoryOK
  <2> QED
    BY <2>1, <2>2, <2>3
<1>5. CASE ConnectionRefused \/ Lose
  <2>1. Raise(NoStatus)
    BY <1>5 DEF ConnectionRefused, Lose
  <2>2. pc' = "idle" /\ result'.status # 200
    BY <2>1 DEF Raise, Finish, NoResult, NoStatus
  <2> QED
    BY <2>2 DEF HistoryOK
<1>6. CASE Serve
  <2>1. pc' = "answered" /\ op' = op
    BY <1>6 DEF Serve
  <2>2. CASE op = "messages" /\ reply'.code = 200 /\ Cardinality(Shown)' <= HISTORY_PAGE
    <3>1. cells' = cells
      <4>1. PICK req \in Request : req = Head(script) /\ req = ListMemories(HISTORY_PAGE)
        <5>1. Head(script) \in Request /\ script = LoadCells
          BY <1>6, <2>2, OutstandingProperties DEF Serve, ScriptOK
        <5> QED
          BY <5>1 DEF LoadCells
      <4>2. cells' = After(req) /\ req.route = "list"
        BY <1>6, <4>1 DEF Serve, Handle, ListMemories, Identified
      <4>3. Code(req) \notin {201, 204}
        BY <4>1, <4>2, CodeProperties
      <4> QED
        BY <4>2, <4>3 DEF After
    <3>2. Shown' = Shown /\ Cardinality(Shown) <= HISTORY_PAGE
      BY <1>2, <2>2, <3>1
    <3>3. ToSet(reply'.page) = Shown
      BY <1>6, <2>2, <3>2, HistoryIsServed
    <3> QED
      BY <2>1, <3>2, <3>3 DEF HistoryOK
  <2> QED
    BY <2>1, <2>2 DEF HistoryOK
<1>7. CASE ElsewhereStep
  <2>1. UNCHANGED client
    BY <1>7, ElsewhereLeavesClient
  <2>2. undisturbed' = FALSE \/ (cells' = cells /\ undisturbed' = undisturbed)
    BY <1>7 DEF ElsewhereStep, ServeLate, Stranger, Start, Startup, End, CloseStorage, Repair, RepairKeyFile,
                Disrupt, Others, vars, history
  <2> QED
    BY <1>1, <1>2, <2>1, <2>2 DEF HistoryOK, client
<1> QED
  BY <1>3, <1>4, <1>5, <1>6, <1>7 DEF Next, ElsewhereStep
-----------------------------------------------------------------------------
(* The invariant holds.                                                     *)

LEMMA InitOK == Init => IInv
<1> SUFFICES ASSUME Init PROVE IInv
  OBVIOUS
<1>1. /\ process = "down" /\ keys = Unset /\ task = "none" /\ storage = "closed" /\ keyfile \in KeyFiles
      /\ op = "none" /\ script = <<>> /\ pc = "idle" /\ reply = NoReply /\ result = NoResult
      /\ late = {} /\ undisturbed = FALSE
      /\ entitled = {c \in CellId : cells[c].status # "unborn" /\ Me \in cells[c].writers}
  BY DEF Init
<1>2. PICK first \in Shared \cup {NoCell} : cells = [c \in CellId |-> IF c = 1 THEN first ELSE NoCell]
  BY DEF Init
<1>3. ProcessOK
  BY <1>1 DEF ProcessOK
<1>4. ScriptOK
  BY <1>1, FS_EmptySet, EmptySeq DEF ScriptOK, NoReply
<1>5. Room
  <2>1. NoCell \in CellRecord
    BY DEF NoCell, CellRecord, Status
  <2>2. first \in CellRecord
    <3>1. CASE first = NoCell
      BY <2>1, <3>1
    <3>2. CASE first \in Shared
      <4>1. PICK agent \in Agents \ {Me}, writers \in SUBSET {Me} :
                first = [status |-> "active", created_by |-> agent, readers |-> {Me},
                         writers |-> writers, full |-> FALSE]
        BY <3>2 DEF Shared
      <4>2. {Me} \in SUBSET Agents /\ writers \in SUBSET Agents
        BY ClientAssumption
      <4> QED
        BY <4>1, <4>2 DEF CellRecord, Status
    <3> QED
      BY <1>2, <3>1, <3>2
  <2>3. CellsType
    BY <1>2, <2>1, <2>2 DEF CellsType
  <2>4. Outstanding = 0
    BY <1>1 DEF Outstanding, Creating
  <2>5. LateCreates = 0
    <3>1. {req \in late : req.route = "create"} = {}
      BY <1>1
    <3> QED
      BY <3>1, FS_EmptySet DEF LateCreates
  <2> QED
    BY <2>3, <2>4, <2>5, UnbornProperties DEF Room
<1>6. EntitledOK
  <2>1. ~first.full /\ ~NoCell.full
    BY <1>2 DEF Shared, NoCell
  <2>2. \A c \in CellId : ~cells[c].full
    BY <1>2, <2>1
  <2> QED
    BY <1>1, <2>2 DEF EntitledOK, Writes
<1>7. ForgetOK /\ ResultOK /\ HistoryOK
  BY <1>1 DEF ForgetOK, ResultOK, HistoryOK, NoResult
<1> QED
  BY <1>3, <1>4, <1>5, <1>6, <1>7 DEF IInv

LEMMA IInvStep == IInv /\ [Next]_vars => IInv'
BY ProcessStep, ScriptStep, RoomStep, EntitledStep, ForgetStep, ResultStep, HistoryStep DEF IInv

LEMMA IInvHolds == Spec => []IInv
BY InitOK, IInvStep, PTL DEF Spec

-----------------------------------------------------------------------------
(* The theorems.                                                            *)

\* The type invariant: in every state of a run the variables stay in their
\* sets, and requests are pending only inside a call of the SDK.
THEOREM TypeCorrect == Spec => []TypeOK
<1>1. IInv => TypeOK
  <2> SUFFICES ASSUME IInv PROVE TypeOK
    OBVIOUS
  <2>1. ToSet(script) \subseteq Request
    <3>1. script \in [1..Len(script) -> Request]
      BY LenProperties DEF IInv, ScriptOK
    <3> QED
      BY <3>1 DEF ToSet
  <2>2. \A c \in CellId : cells[c].status \in Status
    BY DEF IInv, Room, CellsType, CellRecord
  <2> QED
    BY <2>1, <2>2 DEF IInv, ProcessOK, ScriptOK, EntitledOK, TypeOK
<1> QED
  BY <1>1, IInvHolds, PTL

\* lifespan: whatever stops, kills or restarts the process, a background loop
\* that is scheduled has an open adapter under it.
THEOREM LoopStopsBeforeStorage == Spec => []LoopRunsOverOpenStorage
<1>1. IInv => LoopRunsOverOpenStorage
  BY DEF IInv, ProcessOK, LoopRunsOverOpenStorage
<1> QED
  BY <1>1, IInvHolds, PTL

\* AMPClient.forget: when it returns, the cell is deleted, and stays so
\* whatever the server, the other agents and the late requests do next.
THEOREM ForgetReturnsWhenGone == Spec => []ReturnedForgetIsForgotten
<1>1. IInv => ReturnedForgetIsForgotten
  BY DEF IInv, ResultOK, ReturnedForgetIsForgotten
<1> QED
  BY <1>1, IInvHolds, PTL

\* AMPClient.forget: an agent that may write the cell is refused only once the
\* cell is gone, for any number of lost requests and answers before.
THEOREM ForgetIsRefusedWhenGone == Spec => []RefusedForgetIsForgotten
<1>1. IInv => RefusedForgetIsForgotten
  BY DEF IInv, ResultOK, RefusedForgetIsForgotten
<1> QED
  BY <1>1, IInvHolds, PTL

\* What the order of the text of created_at is, in terms of the times.
LEMMA TextOrder ==
    ASSUME NEW c \in CellId, NEW d \in CellId, ~TextBefore(CreatedAt[d], CreatedAt[c])
    PROVE  \/ CreatedAt[c].second < CreatedAt[d].second
           \/ /\ CreatedAt[c].second = CreatedAt[d].second
              /\ \/ CreatedAt[d].fraction = 0
                 \/ CreatedAt[c].fraction \in 1..CreatedAt[d].fraction
<1>1. /\ CreatedAt[c].second \in Nat /\ CreatedAt[c].fraction \in Nat
      /\ CreatedAt[d].second \in Nat /\ CreatedAt[d].fraction \in Nat
  BY ClientAssumption
<1> QED
  BY <1>1 DEF TextBefore

\* AMPMemory.messages: the listing of one page, undisturbed, is every active
\* cell the agent may read, each once, in the order of created_at but for the
\* whole seconds.
THEOREM HistoryComesWhole == Spec => []HistoryIsWhole
<1>1. ASSUME IInv, HistoryLoaded
      PROVE  /\ ToSet(result.page) = Shown /\ Len(result.page) = Cardinality(Shown)
             /\ \A i, j \in DOMAIN result.page :
                   LET first == CreatedAt[result.page[i]]
                       second == CreatedAt[result.page[j]]
                   IN  i < j =>
                         \/ first.second < second.second
                         \/ /\ first.second = second.second
                            /\ second.fraction = 0 \/ first.fraction \in 1..second.fraction
  <2>1. /\ result.page \in SetToSeqs(Shown)
        /\ \A i, j \in DOMAIN result.page :
             i < j => ~TextBefore(CreatedAt[result.page[j]], CreatedAt[result.page[i]])
    BY <1>1 DEF IInv, HistoryOK, HistoryLoaded
  <2>2. Shown \subseteq CellId
    BY DEF Shown
  <2>3. ToSet(result.page) = Shown /\ result.page \in [1..Cardinality(Shown) -> Shown]
        /\ Cardinality(Shown) \in Nat
    BY <2>1, <2>2, ArrangementIsWhole
  <2>4. Len(result.page) = Cardinality(Shown)
    BY <2>3, FunctionIsSeq
  <2>5. ASSUME NEW i \in DOMAIN result.page, NEW j \in DOMAIN result.page, i < j
        PROVE  \/ CreatedAt[result.page[i]].second < CreatedAt[result.page[j]].second
               \/ /\ CreatedAt[result.page[i]].second = CreatedAt[result.page[j]].second
                  /\ \/ CreatedAt[result.page[j]].fraction = 0
                     \/ CreatedAt[result.page[i]].fraction \in 1..CreatedAt[result.page[j]].fraction
    <3>1. result.page[i] \in CellId /\ result.page[j] \in CellId
      BY <2>2, <2>3
    <3> QED
      BY <2>1, <2>5, <3>1, TextOrder
  <2> QED
    BY <2>3, <2>4, <2>5
<1>2. IInv => HistoryIsWhole
  BY <1>1 DEF HistoryIsWhole
<1> QED
  BY <1>2, IInvHolds, PTL

\* A request that creates a cell in a process with a key file came with the
\* key that file, as it was when the process started, has for its header.
LEMMA CreateIsChecked ==
    ASSUME ProcessOK, CellsType, NEW req \in Request, Handle(req), Code(req) = 201 => Unborn # {},
           NEW c \in CellId, cells[c].status = "unborn", cells'[c].status # "unborn",
           configured # Unset
    PROVE  /\ configured # Malformed
           /\ req.route = "create" /\ req.agent # NoAgent
           /\ req.key = Expected(configured, req.agent)
           /\ cells'[c].created_by = IF req.agent = EmptyAgent THEN req.created_by ELSE req.agent
<1>1. keys = configured /\ configured # Malformed
  BY DEF Handle, ProcessOK
<1>2. c \in Unborn /\ c \notin Unborn'
  BY DEF Unborn
<1>3. Code(req) = 201 /\ c = Min(Unborn) /\ cells' = [cells EXCEPT ![Min(Unborn)] = Newborn(req)]
  BY <1>2, HandleProperties
<1>4. req.route = "create" /\ ~Unauthenticated(req)
  BY <1>3, CodeProperties
<1>5. req.agent # NoAgent /\ req.key = Expected(configured, req.agent)
  BY <1>1, <1>4 DEF Unauthenticated, Verify
<1>6. req.agent \in Agents \/ req.agent = EmptyAgent
  BY <1>5 DEF Request
<1>7. cells'[c].created_by = Creator(req)
  BY <1>3 DEF CellsType, Newborn
<1>8. cells'[c].created_by = IF req.agent = EmptyAgent THEN req.created_by ELSE req.agent
  BY <1>6, <1>7, KeyAssumption DEF Creator
<1> QED
  BY <1>1, <1>4, <1>5, <1>8

LEMMA CreatorsStep ==
    ASSUME IInv, [Next]_vars, NEW c \in CellId,
           cells[c].status = "unborn", cells'[c].status # "unborn", configured # Unset
    PROVE  /\ configured # Malformed
           /\ \E req \in late \cup ToSet(script) :
                /\ req.route = "create" /\ req.agent # NoAgent
                /\ req.key = Expected(configured, req.agent)
                /\ cells'[c].created_by =
                     IF req.agent = EmptyAgent THEN req.created_by ELSE req.agent
<1>1. ProcessOK /\ ScriptOK /\ Room /\ CellsType
  BY DEF IInv, Room
<1>2. cells' # cells /\ Unborn' # Unborn
  BY DEF Unborn
<1>3. CASE Serve
  <2>1. /\ Head(script) \in Request /\ Head(script) = script[1] /\ Len(script) > 0
        /\ (Code(Head(script)) = 201 => Unborn # {})
    BY <1>1, <1>3, OutstandingProperties, RoomToServe DEF Serve
  <2>2. Head(script) \in ToSet(script)
    BY <1>1, <2>1, LenProperties DEF ToSet, ScriptOK
  <2>3. Handle(Head(script))
    BY <1>3 DEF Serve
  <2> QED
    BY <1>1, <2>1, <2>2, <2>3, CreateIsChecked
<1>4. CASE ServeLate
  <2>1. PICK req \in late : Handle(req)
    BY <1>2, <1>4 DEF ServeLate
  <2>2. req \in Request /\ (Code(req) = 201 => Unborn # {})
    BY <1>1, <2>1, RoomToServe DEF ScriptOK
  <2> QED
    BY <1>1, <2>1, <2>2, CreateIsChecked
<1>5. ~Others
  BY <1>1, <1>2, OthersProperties DEF Others
<1>6. ~(Call \/ Retry \/ Receive \/ ConnectionRefused \/ Lose \/ Stranger)
  BY <1>2 DEF Call, Retry, Begin, Receive, ConnectionRefused, Lose, Stranger
<1>7. ~(Start \/ End \/ Repair \/ Disrupt \/ UNCHANGED vars)
  BY <1>2 DEF Start, Startup, End, CloseStorage, Repair, RepairKeyFile, Disrupt, StopTask, Kill,
              ChangeKeyFile, vars
<1> QED
  BY <1>3, <1>4, <1>5, <1>6, <1>7 DEF Next

\* Identity: while keys are configured no cell is created for a request without
\* the header, or without the key the file had for it, for every key file and
\* whatever the operator does to it while the process runs.
THEOREM CreatesAreChecked == Spec => CreatorsAreChecked
<1>1. IInv /\ [Next]_vars =>
        \A c \in CellId :
          cells[c].status = "unborn" /\ cells'[c].status # "unborn" /\ configured # Unset =>
            /\ configured # Malformed
            /\ \E req \in late \cup ToSet(script) :
                 /\ req.route = "create" /\ req.agent # NoAgent
                 /\ req.key = Expected(configured, req.agent)
                 /\ cells'[c].created_by =
                      IF req.agent = EmptyAgent THEN req.created_by ELSE req.agent
  BY CreatorsStep
<1> QED
  BY <1>1, IInvHolds, PTL DEF Spec, CreatorsAreChecked
=============================================================================

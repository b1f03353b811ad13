-------------------------- MODULE ConformanceProofs --------------------------
(* The conformance runner, for every suite and whatever the server answers:  *)
(* a run that ends has reported every case once, its exit code tells what    *)
(* came out, and known gaps are told from failures.                          *)
EXTENDS ConformanceRunner, SequenceTheorems, FunctionTheorems, FiniteSetTheorems, TLAPS

-----------------------------------------------------------------------------
(* The places of the suite: the i-th case of the m-th category.             *)
Vec(m, i) == Vectors[Categories[m]][i]
Size(m) == Len(Vectors[Categories[m]])
Over(m, i) == m < category \/ (m = category /\ i < case)

\* The categories a run executes case by case.
Runs(m) == /\ Wanted(Categories[m]) /\ (base_url \/ Categories[m] \in LOCAL_CATEGORIES)
           /\ Categories[m] = "schema" => spec_found

\* Where the run is. Only three categories take more than one request for a
\* case; what is known of a case is cleared with it.
PlaceOK ==
    /\ only \subseteq {Categories[i] : i \in 1..5}
    /\ base_url \in BOOLEAN /\ spec_found \in BOOLEAN
    /\ category \in 1..6 /\ case \in Nat \ {0}
    /\ category <= 5 => case <= Size(category)
    /\ category <= 5 /\ ~Runs(category) => case = 1 /\ step = 0
    /\ category = 5 /\ spec = "unread" => case = 1
    /\ step \in 0..(Steps + Probes) /\ problems \in BOOLEAN /\ captured \in BOOLEAN
    /\ category \in {1, 2, 6} => step = 0
    /\ category = 3 => step < Steps
    /\ category = 4 => step <= Probes
    /\ category = 5 => ~problems /\ step <= 1 /\ (spec = "unread" => step = 0)
    /\ step = 0 => ~problems /\ ~captured
    /\ spec \in {"unread", "good", "bad"}
    /\ exit \in {"running", "crashed", "0", "1"}

\* The history agrees with what is known of the current case, and blames
\* nothing that has not run.
BlameOK ==
    /\ \A x \in misbehaved : \E m \in 1..5 : \E i \in 1..Size(m) :
          /\ x = Vec(m, i).id /\ Runs(m)
          /\ Over(m, i) \/ (m = category /\ i = case /\ (exit = "running" => problems))
    /\ category <= 5 /\ problems => Case.id \in misbehaved

SkipResult == [id |-> "schema-spec-file", category |-> "schema", status |-> "skip"]

\* The result of a place, when it is over.
IsResultOf(result, m, i) ==
    /\ result.id = Vec(m, i).id
    /\ result.status = Status(Vec(m, i).known_gap, Vec(m, i).id \notin misbehaved)

SuiteIds == UNION {Ids(Categories[m]) : m \in 1..5}
ResultRecord == [id : {"schema-spec-file"} \cup SuiteIds, category : {Categories[m] : m \in 1..5},
                 status : {"pass", "fail", "known_gap", "unexpected_pass", "skip"}]

\* The results are those of the places that are over and ran, one each.
ResultsOK ==
    /\ results \in Seq(ResultRecord)
    /\ \A j \in 1..Len(results) :
          \/ results[j] = SkipResult /\ category > 1 /\ Wanted("schema") /\ ~spec_found
          \/ \E m \in 1..5 : \E i \in 1..Size(m) :
                Over(m, i) /\ Runs(m) /\ IsResultOf(results[j], m, i)
    /\ \A m \in 1..5 : \A i \in 1..Size(m) :
          Over(m, i) /\ Runs(m) => \E j \in 1..Len(results) : results[j].id = Vec(m, i).id
    /\ category > 1 /\ Wanted("schema") /\ ~spec_found
          => \E j \in 1..Len(results) : results[j] = SkipResult
    /\ \A j, k \in 1..Len(results) : results[j].id = results[k].id => j = k

\* The exit code of a run that has ended.
ExitOK ==
    Ended => /\ category = 6
             /\ (exit = "1") = (Count("fail") > 0 \/ ("schema" \in only /\ Count("skip") > 0))

IInv == PlaceOK /\ BlameOK /\ ResultsOK /\ ExitOK

-----------------------------------------------------------------------------
(* The suite.                                                               *)

LEMMA CategoryNames ==
    /\ Len(Categories) = 5 /\ DOMAIN Categories = 1..5
    /\ \A m \in 1..5 : /\ Categories[m] = "schema" <=> m = 1
                       /\ Categories[m] = "decay" <=> m = 2
                       /\ Categories[m] = "http_contract" <=> m = 3
                       /\ Categories[m] = "access_control" <=> m = 4
                       /\ Categories[m] = "spec_capabilities" <=> m = 5
                       /\ Categories[m] \in LOCAL_CATEGORIES <=> m \in {1, 2}
<1>1. Len(Categories) = 5
  BY DEF Categories
<1>2. DOMAIN Categories = 1..5
  BY DEF Categories
<1>3. /\ Categories[1] = "schema" /\ Categories[2] = "decay" /\ Categories[3] = "http_contract"
      /\ Categories[4] = "access_control" /\ Categories[5] = "spec_capabilities"
  BY DEF Categories
<1>4. \A m \in 1..5 : m = 1 \/ m = 2 \/ m = 3 \/ m = 4 \/ m = 5
  OBVIOUS
<1> DEFINE Named(m) ==
             /\ Categories[m] = "schema" <=> m = 1
             /\ Categories[m] = "decay" <=> m = 2
             /\ Categories[m] = "http_contract" <=> m = 3
             /\ Categories[m] = "access_control" <=> m = 4
             /\ Categories[m] = "spec_capabilities" <=> m = 5
             /\ Categories[m] \in LOCAL_CATEGORIES <=> m \in {1, 2}
<1>5. Named(1) /\ Named(2) /\ Named(3) /\ Named(4) /\ Named(5)
  BY <1>3 DEF LOCAL_CATEGORIES
<1> HIDE DEF Named
<1>6. \A m \in 1..5 : Named(m)
  BY <1>4, <1>5
<1> QED
  BY <1>1, <1>2, <1>6 DEF Named

LEMMA SuiteType ==
    \A m \in 1..5 :
        /\ Size(m) \in Nat /\ Size(m) > 0 /\ DOMAIN Vectors[Categories[m]] = 1..Size(m)
        /\ \A i \in 1..Size(m) : /\ Vec(m, i) \in [id : STRING, known_gap : BOOLEAN]
                                 /\ Vec(m, i).id \in SuiteIds /\ Vec(m, i).id # "schema-spec-file"
<1> SUFFICES ASSUME NEW m \in 1..5
             PROVE  /\ Size(m) \in Nat /\ Size(m) > 0 /\ DOMAIN Vectors[Categories[m]] = 1..Size(m)
                    /\ \A i \in 1..Size(m) : /\ Vec(m, i) \in [id : STRING, known_gap : BOOLEAN]
                                             /\ Vec(m, i).id \in SuiteIds /\ Vec(m, i).id # "schema-spec-file"
  OBVIOUS
<1>1. m \in DOMAIN Categories
  BY CategoryNames
<1>2. Vectors[Categories[m]] \in Seq([id : STRING, known_gap : BOOLEAN]) /\ Size(m) > 0
  BY <1>1, CasesAssumption, VectorsAssumption DEF Size
<1>3. Size(m) \in Nat /\ DOMAIN Vectors[Categories[m]] = 1..Size(m)
  BY <1>2, LenProperties DEF Size
<1>4. \A i \in 1..Size(m) : Vec(m, i) \in [id : STRING, known_gap : BOOLEAN]
  BY <1>2, ElementOfSeq DEF Size, Vec
<1>5. \A i \in 1..Size(m) : Vec(m, i).id # "schema-spec-file"
  BY <1>1, <1>3, CasesAssumption DEF Vec
<1>6. \A i \in 1..Size(m) : Vec(m, i).id \in SuiteIds
  BY <1>3 DEF Vec, Ids, SuiteIds
<1> QED
  BY <1>2, <1>3, <1>4, <1>5, <1>6

\* A place is known by its id.
LEMMA IdsAreUnique ==
    \A m, n \in 1..5 : \A i \in 1..Size(m), j \in 1..Size(n) :
        Vec(m, i).id = Vec(n, j).id => m = n /\ i = j
<1> SUFFICES ASSUME NEW m \in 1..5, NEW n \in 1..5, NEW i \in 1..Size(m), NEW j \in 1..Size(n),
                    Vec(m, i).id = Vec(n, j).id
             PROVE  m = n /\ i = j
  OBVIOUS
<1>1. m \in DOMAIN Categories /\ n \in DOMAIN Categories
  BY CategoryNames
<1>2. i \in DOMAIN Vectors[Categories[m]] /\ j \in DOMAIN Vectors[Categories[n]]
  BY SuiteType
<1> QED
  BY <1>1, <1>2, CasesAssumption DEF Vec

-----------------------------------------------------------------------------
(* The results grow with the places that are over.                          *)

NewlyOver(m, i) == ~Over(m, i) /\ Over(m, i)'

\* What is added stands for what is newly over, place by place.
GrowsBy(more) ==
    /\ UNCHANGED command /\ category' \in Int /\ category' >= category /\ results' = results \o more
    /\ \A m \in 1..5 : \A i \in 1..Size(m) :
          Over(m, i) => Over(m, i)' /\ ((Vec(m, i).id \in misbehaved') <=> (Vec(m, i).id \in misbehaved))
    /\ \A k \in 1..Len(more) :
          \/ more[k] = SkipResult /\ category = 1 /\ category' > 1 /\ Wanted("schema") /\ ~spec_found
          \/ \E m \in 1..5 : \E i \in 1..Size(m) :
                NewlyOver(m, i) /\ Runs(m) /\ IsResultOf(more[k], m, i)'
    /\ \A m \in 1..5 : \A i \in 1..Size(m) :
          NewlyOver(m, i) /\ Runs(m) => \E k \in 1..Len(more) : more[k].id = Vec(m, i).id
    /\ category = 1 /\ category' > 1 /\ Wanted("schema") /\ ~spec_found
          => \E k \in 1..Len(more) : more[k] = SkipResult
    /\ \A j, k \in 1..Len(more) : more[j].id = more[k].id => j = k

LEMMA ResultsGrow ==
    ASSUME PlaceOK, ResultsOK, NEW more \in Seq(ResultRecord), GrowsBy(more)
    PROVE  ResultsOK'
<1> DEFINE n == Len(results)
<1>1. /\ n \in Nat /\ Len(more) \in Nat /\ results' \in Seq(ResultRecord) /\ Len(results') = n + Len(more)
      /\ \A j \in 1..n : results'[j] = results[j]
      /\ \A k \in 1..Len(more) : results'[n + k] = more[k]
  <2>1. results \in Seq(ResultRecord) /\ results' = results \o more
    BY DEF ResultsOK, GrowsBy
  <2> QED
    BY <2>1, LenProperties, ConcatProperties
<1>2. \A j \in 1..Len(results') : j \in 1..n \/ \E k \in 1..Len(more) : j = n + k
  <2> SUFFICES ASSUME NEW j \in 1..Len(results'), j \notin 1..n PROVE \E k \in 1..Len(more) : j = n + k
    OBVIOUS
  <2> HIDE DEF n
  <2>1. j - n \in 1..Len(more) /\ j = n + (j - n)
    BY <1>1
  <2> QED
    BY <2>1
<1>3. \A j \in 1..n : j \in 1..Len(results')
  BY <1>1
<1>4. \A k \in 1..Len(more) : n + k \in 1..Len(results')
  BY <1>1
<1> HIDE DEF n
<1>5. category \in 1..6 /\ category' \in Int /\ category' >= category /\ UNCHANGED command
  BY DEF PlaceOK, GrowsBy
<1>6. \A m : Runs(m)' = Runs(m)
  BY <1>5 DEF Runs, Wanted, command
<1>7. Wanted("schema")' = Wanted("schema") /\ spec_found' = spec_found
  BY <1>5 DEF Wanted, command
<1>8. \A j \in 1..n :
         \/ results[j] = SkipResult /\ category > 1 /\ Wanted("schema") /\ ~spec_found
         \/ \E m \in 1..5 : \E i \in 1..Size(m) : Over(m, i) /\ Runs(m) /\ IsResultOf(results[j], m, i)
  BY DEF ResultsOK, n
<1>9. ASSUME NEW j \in 1..Len(results')
      PROVE  \/ results'[j] = SkipResult /\ category' > 1 /\ Wanted("schema") /\ ~spec_found
             \/ \E m \in 1..5 : \E i \in 1..Size(m) : Over(m, i)' /\ Runs(m) /\ IsResultOf(results[j], m, i)'
  <2>1. CASE j \in 1..n
    <3>1. CASE results[j] = SkipResult /\ category > 1 /\ Wanted("schema") /\ ~spec_found
      BY <1>1, <1>5, <2>1, <3>1
    <3>2. ASSUME NEW m \in 1..5, NEW i \in 1..Size(m), Over(m, i), Runs(m), IsResultOf(results[j], m, i)
          PROVE  Over(m, i)' /\ Runs(m) /\ IsResultOf(results[j], m, i)'
      BY <1>1, <2>1, <3>2 DEF GrowsBy, IsResultOf
    <3> QED
      BY <1>8, <2>1, <3>1, <3>2
  <2>2. ASSUME NEW k \in 1..Len(more), j = n + k
        PROVE  \/ results'[j] = SkipResult /\ category' > 1 /\ Wanted("schema") /\ ~spec_found
               \/ \E m \in 1..5 : \E i \in 1..Size(m) : Over(m, i)' /\ Runs(m) /\ IsResultOf(results[j], m, i)'
    <3>1. results'[j] = more[k]
      BY <1>1, <2>2
    <3>2. CASE more[k] = SkipResult /\ category' > 1 /\ Wanted("schema") /\ ~spec_found
      BY <3>1, <3>2
    <3>3. ASSUME NEW m \in 1..5, NEW i \in 1..Size(m), NewlyOver(m, i), Runs(m), IsResultOf(more[k], m, i)'
          PROVE  Over(m, i)' /\ Runs(m) /\ IsResultOf(results[j], m, i)'
      BY <3>1, <3>3 DEF NewlyOver, IsResultOf
    <3>4. \/ more[k] = SkipResult /\ category' > 1 /\ Wanted("schema") /\ ~spec_found
          \/ \E m \in 1..5 : \E i \in 1..Size(m) :
                NewlyOver(m, i) /\ Runs(m) /\ IsResultOf(more[k], m, i)'
      BY DEF GrowsBy
    <3> QED
      BY <3>2, <3>3, <3>4
  <2> QED
    BY <1>2, <2>1, <2>2
<1>10. ASSUME NEW m \in 1..5, NEW i \in 1..Size(m), Over(m, i)', Runs(m)
       PROVE  \E j \in 1..Len(results') : results'[j].id = Vec(m, i).id
  <2>1. CASE Over(m, i)
    <3>1. PICK j \in 1..n : results[j].id = Vec(m, i).id
      BY <1>10, <2>1 DEF ResultsOK, n
    <3> QED
      BY <1>1, <1>3, <3>1
  <2>2. CASE ~Over(m, i)
    <3>1. PICK k \in 1..Len(more) : more[k].id = Vec(m, i).id
      BY <1>10, <2>2 DEF GrowsBy, NewlyOver
    <3> QED
      BY <1>1, <1>4, <3>1
  <2> QED
    BY <2>1, <2>2
<1>11. ASSUME category' > 1, Wanted("schema"), ~spec_found
       PROVE  \E j \in 1..Len(results') : results'[j] = SkipResult
  <2>1. CASE category > 1
    <3>1. PICK j \in 1..n : results[j] = SkipResult
      BY <1>11, <2>1 DEF ResultsOK, n
    <3> QED
      BY <1>1, <1>3, <3>1
  <2>2. CASE category = 1
    <3>1. PICK k \in 1..Len(more) : more[k] = SkipResult
      BY <1>11, <2>2 DEF GrowsBy
    <3> QED
      BY <1>1, <1>4, <3>1
  <2> QED
    BY <1>5, <2>1, <2>2
<1>12. ASSUME NEW j \in 1..n, NEW k \in 1..Len(more) PROVE results[j].id # more[k].id
  <2>1. \/ results[j].id = "schema-spec-file" /\ category > 1
        \/ \E m \in 1..5 : \E i \in 1..Size(m) : Over(m, i) /\ results[j].id = Vec(m, i).id
    BY <1>8 DEF IsResultOf, SkipResult
  <2>2. \/ more[k].id = "schema-spec-file" /\ category = 1
        \/ \E m \in 1..5 : \E i \in 1..Size(m) : ~Over(m, i) /\ more[k].id = Vec(m, i).id
    <3>1. ASSUME NEW m \in 1..5, NEW i \in 1..Size(m), NewlyOver(m, i), IsResultOf(more[k], m, i)'
          PROVE  ~Over(m, i) /\ more[k].id = Vec(m, i).id
      BY <3>1 DEF NewlyOver, IsResultOf
    <3>2. \/ more[k] = SkipResult /\ category = 1
          \/ \E m \in 1..5 : \E i \in 1..Size(m) :
                NewlyOver(m, i) /\ Runs(m) /\ IsResultOf(more[k], m, i)'
      BY DEF GrowsBy
    <3> QED
      BY <3>1, <3>2 DEF SkipResult
  <2>3. ASSUME NEW m \in 1..5, NEW i \in 1..Size(m), Over(m, i),
               NEW q \in 1..5, NEW h \in 1..Size(q), ~Over(q, h)
        PROVE  Vec(m, i).id # Vec(q, h).id
    BY <2>3, IdsAreUnique
  <2>4. \A m \in 1..5 : \A i \in 1..Size(m) : Vec(m, i).id # "schema-spec-file"
    BY SuiteType
  <2>5. ~(category > 1 /\ category = 1)
    OBVIOUS
  <2> QED
    BY <2>1, <2>2, <2>3, <2>4, <2>5
<1>13. ASSUME NEW j \in 1..Len(results'), NEW k \in 1..Len(results'), results'[j].id = results'[k].id
       PROVE  j = k
  <2>1. CASE j \in 1..n /\ k \in 1..n
    BY <1>1, <1>13, <2>1 DEF ResultsOK, n
  <2>2. ASSUME NEW x \in 1..n, NEW y \in 1..Len(more) PROVE results'[x].id # results'[n + y].id
    BY <1>1, <1>12
  <2>3. ASSUME NEW x \in 1..Len(more), NEW y \in 1..Len(more), j = n + x, k = n + y PROVE j = k
    <3>1. more[x].id = more[y].id
      BY <1>1, <1>13, <2>3
    <3> QED
      BY <2>3, <3>1 DEF GrowsBy
  <2> QED
    BY <1>2, <1>13, <2>1, <2>2, <2>3
<1> QED
  BY <1>1, <1>6, <1>7, <1>9, <1>10, <1>11, <1>13 DEF ResultsOK
-----------------------------------------------------------------------------
(* The steps of a run.                                                      *)

LEMMA Here ==
    ASSUME PlaceOK, category <= 5
    PROVE  /\ category \in 1..5 /\ case \in 1..Size(category)
           /\ Name = Categories[category] /\ Case = Vec(category, case)
           /\ \A m \in 1..5 : \A i \in 1..Size(m) :
                 Vec(m, i).id = Case.id => m = category /\ i = case
<1>1. category \in 1..5 /\ Size(category) \in Nat
  BY SuiteType DEF PlaceOK
<1>2. case \in 1..Size(category)
  BY <1>1 DEF PlaceOK
<1>3. Name = Categories[category] /\ Case = Vec(category, case)
  BY DEF Name, Case, Vec
<1> QED
  BY <1>1, <1>2, <1>3, IdsAreUnique

\* The current place is not over; an advance puts it behind, and only it.
LEMMA AdvanceIsOver ==
    ASSUME PlaceOK, category <= 5, Advance
    PROVE  /\ category' \in category..(category + 1)
           /\ \A m \in 1..5 : \A i \in 1..Size(m) :
                 Over(m, i)' <=> Over(m, i) \/ (m = category /\ i = case)
           /\ ~Over(category, case)
<1>1. category \in 1..5 /\ case \in 1..Size(category) /\ Name = Categories[category]
  BY Here
<1>2. \A m \in 1..5 : Size(m) \in Nat
  BY SuiteType
<1>3. /\ case < Size(category) => case' = case + 1 /\ category' = category
      /\ ~(case < Size(category)) => case' = 1 /\ category' = category + 1
  BY <1>1 DEF Advance, Size
<1>4. ASSUME NEW m \in 1..5, NEW i \in 1..Size(m)
      PROVE  Over(m, i)' <=> Over(m, i) \/ (m = category /\ i = case)
  <2>1. Size(category) \in Nat /\ i \in Nat /\ i >= 1 /\ i <= Size(m) /\ case \in Nat
    BY <1>1, <1>2
  <2>2. Over(m, i)' <=> m < category' \/ (m = category' /\ i < case')
    BY DEF Over
  <2>3. CASE case < Size(category)
    BY <1>1, <1>3, <2>1, <2>2, <2>3 DEF Over
  <2>4. CASE ~(case < Size(category))
    BY <1>1, <1>3, <2>1, <2>2, <2>4 DEF Over
  <2> QED
    BY <2>3, <2>4
<1> QED
  BY <1>1, <1>3, <1>4 DEF Over

LEMMA AdvancePlace ==
    ASSUME PlaceOK, category <= 5, Runs(category), category = 5 => spec # "unread",
           Advance, UNCHANGED <<command, exit>>
    PROVE  PlaceOK'
<1>1. category \in 1..5 /\ case \in 1..Size(category) /\ Name = Categories[category]
  BY Here
<1>2. \A m \in 1..5 : Size(m) \in Nat /\ Size(m) > 0
  BY SuiteType
<1>3. /\ case < Size(category) => case' = case + 1 /\ category' = category
      /\ ~(case < Size(category)) => case' = 1 /\ category' = category + 1
      /\ step' = 0 /\ problems' = FALSE /\ captured' = FALSE
      /\ spec' = IF category' = category THEN spec ELSE "unread"
  BY <1>1 DEF Advance, Size
<1>4. category' = category => Runs(category)'
  BY DEF Runs, Wanted, command
<1>5. /\ category' \in 1..6 /\ case' \in Nat \ {0}
      /\ category' <= 5 => case' <= Size(category')
      /\ category' = category \/ case' = 1
  BY <1>1, <1>2, <1>3
<1>6. /\ 0 \in 0..(Steps + Probes) /\ 0 < Steps /\ 0 <= Probes
  BY VectorsAssumption
<1>7. (Size(category))' = Size(category')
  BY DEF Size
<1>8. (category <= 5)' => (case <= Size(category))'
  BY <1>5, <1>7
<1>9. (category <= 5 /\ ~Runs(category) => case = 1 /\ step = 0)'
  BY <1>3, <1>4, <1>5
<1>10. (category = 5 /\ spec = "unread" => case = 1)'
  BY <1>3, <1>5
<1>11. only' = only /\ base_url' = base_url /\ spec_found' = spec_found /\ exit' = exit
  BY DEF command
<1>12. /\ (only \subseteq {Categories[i] : i \in 1..5} /\ base_url \in BOOLEAN /\ spec_found \in BOOLEAN)'
       /\ spec' \in {"unread", "good", "bad"} /\ exit' \in {"running", "crashed", "0", "1"}
  BY <1>3, <1>11 DEF PlaceOK
<1>13. problems' \in BOOLEAN /\ captured' \in BOOLEAN /\ ~problems' /\ ~captured'
  BY <1>3
<1>14. step' = 0 /\ step' \in 0..(Steps + Probes) /\ step' < Steps /\ step' <= Probes /\ step' <= 1
  BY <1>3, <1>6
<1> QED
  BY <1>5, <1>8, <1>9, <1>10, <1>12, <1>13, <1>14 DEF PlaceOK
-----------------------------------------------------------------------------
(* A case is over.                                                          *)

Reporting(ok) ==
    /\ exit = "running" /\ category <= 5 /\ Runs(category) /\ (category = 5 => spec # "unread")
    /\ Report(ok) /\ UNCHANGED <<command, exit>>
    /\ misbehaved' \in {misbehaved, misbehaved \cup {Case.id}}
    /\ Case.id \in misbehaved' <=> ~ok

LEMMA ResultType ==
    ASSUME NEW m \in 1..5, NEW i \in 1..Size(m), NEW ok,
           NEW result, result.id = Vec(m, i).id, result.status = Status(Vec(m, i).known_gap, ok),
           result = [id |-> result.id, category |-> Categories[m], status |-> result.status]
    PROVE  result \in ResultRecord
<1>1. Vec(m, i).id \in SuiteIds
  BY SuiteType
<1>2. Status(Vec(m, i).known_gap, ok) \in {"pass", "fail", "known_gap", "unexpected_pass", "skip"}
  BY DEF Status
<1> QED
  BY <1>1, <1>2 DEF ResultRecord

LEMMA ReportBlames ==
    ASSUME PlaceOK, BlameOK, NEW ok \in BOOLEAN, Reporting(ok)
    PROVE  BlameOK'
<1>1. category <= 5 /\ Advance
  BY DEF Reporting, Report
<1>2. /\ category \in 1..5 /\ case \in 1..Size(category) /\ Case = Vec(category, case)
      /\ \A m \in 1..5 : \A i \in 1..Size(m) :
            Over(m, i)' <=> Over(m, i) \/ (m = category /\ i = case)
  BY <1>1, Here, AdvanceIsOver
<1>3. \A m : Runs(m)' = Runs(m)
  BY DEF Runs, Wanted, Reporting, command
<1>4. ASSUME NEW x \in misbehaved'
      PROVE  \E m \in 1..5 : \E i \in 1..Size(m) : x = Vec(m, i).id /\ Runs(m) /\ Over(m, i)'
  <2>1. CASE x \in misbehaved
    <3>1. PICK m \in 1..5 : \E i \in 1..Size(m) :
              x = Vec(m, i).id /\ Runs(m) /\ (Over(m, i) \/ (m = category /\ i = case))
      BY <2>1 DEF BlameOK
    <3>2. PICK i \in 1..Size(m) :
              x = Vec(m, i).id /\ Runs(m) /\ (Over(m, i) \/ (m = category /\ i = case))
      BY <3>1
    <3> QED
      BY <1>2, <3>2
  <2>2. CASE x \notin misbehaved
    <3>1. x = Vec(category, case).id /\ Runs(category)
      BY <1>2, <1>4, <2>2 DEF Reporting
    <3>2. PICK m \in 1..5 : m = category
      BY <1>2
    <3>3. PICK i \in 1..Size(m) : i = case
      BY <1>2, <3>2
    <3> QED
      BY <1>2, <3>1, <3>2, <3>3
  <2> QED
    BY <2>1, <2>2
<1>5. ~problems'
  BY <1>1 DEF Advance
<1> QED
  BY <1>3, <1>4, <1>5 DEF BlameOK

LEMMA ReportResults ==
    ASSUME PlaceOK, ResultsOK, NEW ok \in BOOLEAN, Reporting(ok)
    PROVE  ResultsOK'
<1>1. category <= 5 /\ Advance /\ results' = Append(results, Result(Case, ok))
  BY DEF Reporting, Report
<1>2. PICK m \in 1..5 : m = category
  BY <1>1, Here
<1>3. PICK i \in 1..Size(m) : i = case
  BY <1>1, <1>2, Here
<1>4. /\ Case = Vec(m, i) /\ Name = Categories[m] /\ ~Over(m, i) /\ category' \in m..(m + 1)
      /\ \A q \in 1..5 : \A h \in 1..Size(q) :
            /\ Over(q, h)' <=> Over(q, h) \/ (q = m /\ h = i)
            /\ Vec(q, h).id = Case.id => q = m /\ h = i
  BY <1>1, <1>2, <1>3, Here, AdvanceIsOver
<1>5. PICK result : result = [id |-> Vec(m, i).id, category |-> Categories[m],
                              status |-> Status(Vec(m, i).known_gap, ok)]
  OBVIOUS
<1>6. result \in ResultRecord
  BY <1>5, ResultType
<1> DEFINE more == <<result>>
<1>7. /\ more \in Seq(ResultRecord) /\ Len(more) = 1 /\ more[1] = result
      /\ \A k \in 1..Len(more) : k = 1
  BY <1>6
<1>8. results' = results \o more
  <2>1. results' = Append(results, result)
    BY <1>1, <1>4, <1>5 DEF Result
  <2> QED
    BY <1>6, <2>1, AppendIsConcat DEF ResultsOK
<1> HIDE DEF more
<1>9. Vec(m, i).id \in misbehaved' <=> ~ok
  BY <1>4 DEF Reporting
<1>10. IsResultOf(result, m, i)'
  BY <1>5, <1>9 DEF IsResultOf, Status
<1>11. ASSUME NEW q \in 1..5, NEW h \in 1..Size(q), Over(q, h)
       PROVE  Over(q, h)' /\ (Vec(q, h).id \in misbehaved' <=> Vec(q, h).id \in misbehaved)
  <2>1. Vec(q, h).id # Case.id
    BY <1>4, <1>11
  <2> QED
    BY <1>4, <1>11, <2>1 DEF Reporting
<1>12. ASSUME NEW q \in 1..5, NEW h \in 1..Size(q)
       PROVE  NewlyOver(q, h) <=> q = m /\ h = i
  BY <1>4 DEF NewlyOver
<1>13. Runs(m) /\ (m = 1 => spec_found)
  BY <1>2, CategoryNames DEF Reporting, Runs
<1>14. UNCHANGED command /\ category' \in Int /\ category' >= category
  BY <1>2, <1>4 DEF Reporting
<1>15. \A k \in 1..Len(more) :
          \E q \in 1..5 : \E h \in 1..Size(q) : NewlyOver(q, h) /\ Runs(q) /\ IsResultOf(more[k], q, h)'
  <2>1. NewlyOver(m, i)
    BY <1>12
  <2> QED
    BY <1>7, <1>10, <1>13, <2>1
<1>16. \A q \in 1..5 : \A h \in 1..Size(q) :
          NewlyOver(q, h) => \E k \in 1..Len(more) : more[k].id = Vec(q, h).id
  BY <1>5, <1>7, <1>12
<1>17. \A j, k \in 1..Len(more) : more[j].id = more[k].id => j = k
  BY <1>7
<1>18. GrowsBy(more)
  BY <1>2, <1>8, <1>11, <1>13, <1>14, <1>15, <1>16, <1>17 DEF GrowsBy
<1> QED
  BY <1>7, <1>18, ResultsGrow

LEMMA ReportStep ==
    ASSUME IInv, NEW ok \in BOOLEAN, Reporting(ok)
    PROVE  IInv'
<1>1. PlaceOK'
  BY AdvancePlace DEF IInv, Reporting, Report
<1>2. BlameOK' /\ ResultsOK'
  BY ReportBlames, ReportResults DEF IInv
<1>3. ExitOK'
  BY DEF Reporting, ExitOK, Ended
<1> QED
  BY <1>1, <1>2, <1>3 DEF IInv
-----------------------------------------------------------------------------
(* A case goes on, or the run breaks off in it.                             *)

Continuing(problem) ==
    /\ exit = "running" /\ category <= 5 /\ Runs(category)
    /\ \/ category = 3 /\ step + 1 < Steps
       \/ category = 4 /\ step + 1 <= Probes
       \/ category = 5 /\ step = 0 /\ spec # "unread" /\ ~problem
    /\ Continue(problem) /\ captured' \in BOOLEAN /\ UNCHANGED <<command, exit>>
    /\ misbehaved' = IF problem THEN misbehaved \cup {Case.id} ELSE misbehaved

Crashing ==
    /\ exit = "running" /\ category <= 5 /\ Runs(category)
    /\ Crash /\ UNCHANGED command
    /\ misbehaved' \in {misbehaved, misbehaved \cup {Case.id}}

\* While the same places are over, no result changes.
LEMMA ResultsStand ==
    ASSUME PlaceOK, ResultsOK, UNCHANGED <<command, category, case, results>>,
           \/ misbehaved' = misbehaved
           \/ category <= 5 /\ misbehaved' = misbehaved \cup {Case.id}
    PROVE  ResultsOK'
<1>1. results \in Seq(ResultRecord) /\ results' = results /\ category \in Int /\ category' = category
  BY DEF ResultsOK, PlaceOK
<1> DEFINE more == <<>>
<1>2. more \in Seq(ResultRecord) /\ Len(more) = 0 /\ 1..Len(more) = {}
  BY EmptySeq
<1>3. results' = results \o more
  BY <1>1, ConcatEmptySeq
<1> HIDE DEF more
<1>4. \A m, i : Over(m, i)' <=> Over(m, i)
  BY DEF Over
<1>5. ASSUME NEW m \in 1..5, NEW i \in 1..Size(m), Over(m, i)
      PROVE  Vec(m, i).id \in misbehaved' <=> Vec(m, i).id \in misbehaved
  <2>1. CASE category <= 5 /\ misbehaved' = misbehaved \cup {Case.id}
    <3>1. ~Over(category, case)
      BY DEF Over, PlaceOK
    <3>2. Vec(m, i).id # Case.id
      BY <1>5, <2>1, <3>1, Here
    <3> QED
      BY <2>1, <3>2
  <2> QED
    BY <2>1
<1>6. GrowsBy(more)
  BY <1>1, <1>2, <1>3, <1>4, <1>5 DEF GrowsBy, NewlyOver
<1> QED
  BY <1>2, <1>6, ResultsGrow

LEMMA SamePlaceBlames ==
    ASSUME PlaceOK, BlameOK, UNCHANGED <<command, category, case>>, category <= 5, Runs(category),
           misbehaved' \in {misbehaved, misbehaved \cup {Case.id}},
           exit' = "running" /\ Case.id \in misbehaved' => problems',
           exit = "running",
           problems' => Case.id \in misbehaved'
    PROVE  BlameOK'
<1>1. /\ category \in 1..5 /\ case \in 1..Size(category) /\ Case = Vec(category, case)
      /\ \A m \in 1..5 : \A i \in 1..Size(m) :
            Vec(m, i).id = Case.id => m = category /\ i = case
  BY Here
<1>2. \A m, i : (Over(m, i)' <=> Over(m, i)) /\ (Runs(m)' <=> Runs(m))
  BY DEF Over, Runs, Wanted, command
<1>3. ASSUME NEW x \in misbehaved'
      PROVE  \E m \in 1..5 : \E i \in 1..Size(m) :
                /\ x = Vec(m, i).id /\ Runs(m)
                /\ Over(m, i) \/ (m = category /\ i = case /\ (exit' = "running" => problems'))
  <2>1. CASE x = Case.id
    <3>1. PICK m \in 1..5 : m = category
      BY <1>1
    <3>2. PICK i \in 1..Size(m) : i = case
      BY <1>1, <3>1
    <3> QED
      BY <1>1, <1>3, <2>1, <3>1, <3>2
  <2>2. CASE x # Case.id
    <3>1. PICK m \in 1..5 : \E i \in 1..Size(m) :
              x = Vec(m, i).id /\ Runs(m) /\ (Over(m, i) \/ (m = category /\ i = case))
      BY <1>3, <2>2 DEF BlameOK
    <3>2. PICK i \in 1..Size(m) :
              x = Vec(m, i).id /\ Runs(m) /\ (Over(m, i) \/ (m = category /\ i = case))
      BY <3>1
    <3>3. Over(m, i)
      BY <1>1, <2>2, <3>2
    <3> QED
      BY <3>2, <3>3
  <2> QED
    BY <2>1, <2>2
<1>4. Case' = Case /\ category' = category /\ case' = case
  BY DEF Case, Name
<1> QED
  BY <1>2, <1>3, <1>4 DEF BlameOK

\* While a case runs, it is blamed exactly when it has a problem.
LEMMA CaseIsBlamed ==
    ASSUME IInv, exit = "running", category <= 5
    PROVE  Case.id \in misbehaved <=> problems
<1>1. PlaceOK /\ BlameOK
  BY DEF IInv
<1>2. ASSUME Case.id \in misbehaved PROVE problems
  <2>1. PICK m \in 1..5 : \E i \in 1..Size(m) :
            Case.id = Vec(m, i).id /\ (Over(m, i) \/ (m = category /\ i = case /\ problems))
    BY <1>1, <1>2 DEF BlameOK
  <2>2. PICK i \in 1..Size(m) :
            Case.id = Vec(m, i).id /\ (Over(m, i) \/ (m = category /\ i = case /\ problems))
    BY <2>1
  <2>3. m = category /\ i = case
    BY <1>1, <2>2, Here
  <2>4. ~Over(m, i)
    BY <1>1, <2>3 DEF Over, PlaceOK
  <2> QED
    BY <2>2, <2>4
<1> QED
  BY <1>1, <1>2 DEF BlameOK

LEMMA ContinueStep ==
    ASSUME IInv, NEW problem \in BOOLEAN, Continuing(problem)
    PROVE  IInv'
<1>1. /\ UNCHANGED <<command, category, case, spec, results, exit>>
      /\ step' = step + 1 /\ problems' = (problems \/ problem) /\ captured' \in BOOLEAN
  BY DEF Continuing, Continue
<1>2. PlaceOK
  BY DEF IInv
<1>3. PlaceOK'
  <2>1. step \in Nat /\ Steps \in Nat /\ Probes \in Nat
    BY <1>2, VectorsAssumption DEF PlaceOK
  <2>2. /\ step' \in 0..(Steps + Probes) /\ step' # 0
        /\ category \in {3, 4, 5} /\ (category = 3 => step' < Steps) /\ (category = 4 => step' <= Probes)
        /\ category = 5 => step' <= 1 /\ spec # "unread"
    BY <1>1, <2>1, VectorsAssumption DEF Continuing
  <2>3. problems' \in BOOLEAN /\ (category = 5 => ~problems')
    BY <1>1, <1>2, <2>1 DEF Continuing, PlaceOK
  <2>4. Runs(category)' /\ Size(category)' = Size(category)
    BY <1>1 DEF Continuing, Runs, Wanted, Size, command
  <2>5. only' = only /\ base_url' = base_url /\ spec_found' = spec_found
    BY <1>1 DEF command
  <2> QED
    BY <1>1, <1>2, <2>2, <2>3, <2>4, <2>5 DEF PlaceOK
<1>4. BlameOK'
  <2>1. Case.id \in misbehaved <=> problems
    BY CaseIsBlamed DEF Continuing
  <2>2. Case.id \in misbehaved' <=> problems'
    BY <1>1, <2>1 DEF Continuing
  <2> QED
    BY <1>1, <1>2, <2>2, SamePlaceBlames DEF Continuing, IInv
<1>5. ResultsOK'
  BY <1>1, <1>2, ResultsStand DEF Continuing, IInv
<1>6. ExitOK'
  BY <1>1 DEF Continuing, ExitOK, Ended
<1> QED
  BY <1>3, <1>4, <1>5, <1>6 DEF IInv

LEMMA CrashStep ==
    ASSUME IInv, Crashing
    PROVE  IInv'
<1>1. /\ UNCHANGED <<command, category, case, step, problems, captured, spec, results>>
      /\ exit' = "crashed"
  BY DEF Crashing, Crash, progress
<1>2. PlaceOK /\ category <= 5 /\ exit = "running" /\ Runs(category)
  BY DEF IInv, Crashing
<1>3. PlaceOK'
  <2>1. Runs(category)' /\ Size(category)' = Size(category)
    BY <1>1, <1>2 DEF Runs, Wanted, Size, command
  <2>2. only' = only /\ base_url' = base_url /\ spec_found' = spec_found
    BY <1>1 DEF command
  <2> QED
    BY <1>1, <1>2, <2>1, <2>2 DEF PlaceOK
<1>4. BlameOK'
  <2>1. problems' => Case.id \in misbehaved'
    BY <1>1, <1>2 DEF Crashing, IInv, BlameOK
  <2> QED
    BY <1>1, <1>2, <2>1, SamePlaceBlames DEF Crashing, IInv
<1>5. ResultsOK'
  BY <1>1, <1>2, ResultsStand DEF Crashing, IInv
<1>6. ExitOK'
  BY <1>1 DEF ExitOK, Ended
<1> QED
  BY <1>3, <1>4, <1>5, <1>6 DEF IInv
-----------------------------------------------------------------------------
(* A category is left at once.                                              *)

\* The category after one that has not begun a case.
Leaving ==
    /\ exit = "running" /\ category <= 5 /\ case = 1 /\ step = 0
    /\ category' = category + 1
    /\ UNCHANGED <<command, case, step, problems, captured, spec, exit>>

LEMMA LeavePlace ==
    ASSUME PlaceOK, Leaving
    PROVE  PlaceOK' /\ ~problems /\ ~problems' /\ category \in 1..5
<1>1. category \in 1..5 /\ ~problems /\ ~captured
  BY Here DEF Leaving, PlaceOK
<1>2. category' \in 1..6 /\ case' = 1 /\ step' = 0 /\ problems' = problems /\ captured' = captured
      /\ spec' = spec /\ exit' = exit
  BY <1>1 DEF Leaving
<1>3. category' <= 5 => case' <= Size(category)'
  <2>1. category' <= 5 => Size(category') \in Nat /\ Size(category') > 0
    BY <1>2, SuiteType
  <2> QED
    BY <1>2, <2>1 DEF Size
<1>4. only' = only /\ base_url' = base_url /\ spec_found' = spec_found
  BY DEF Leaving, command
<1>5. 0 \in 0..(Steps + Probes) /\ 0 < Steps /\ 0 <= Probes
  BY VectorsAssumption
<1> QED
  BY <1>1, <1>2, <1>3, <1>4, <1>5 DEF PlaceOK

\* Leaving a category puts its places behind, and only those.
LEMMA LeaveIsOver ==
    ASSUME PlaceOK, Leaving
    PROVE  \A m \in 1..5 : \A i \in 1..Size(m) :
              /\ Over(m, i)' <=> Over(m, i) \/ m = category
              /\ ~(m = category /\ Over(m, i))
<1> SUFFICES ASSUME NEW m \in 1..5, NEW i \in 1..Size(m)
             PROVE  /\ Over(m, i)' <=> Over(m, i) \/ m = category
                    /\ ~(m = category /\ Over(m, i))
  OBVIOUS
<1>1. category \in 1..5 /\ case = 1 /\ case' = 1 /\ category' = category + 1 /\ i \in Nat /\ i >= 1
  BY Here, SuiteType DEF Leaving
<1>2. Over(m, i) <=> m < category
  BY <1>1 DEF Over
<1>3. Over(m, i)' <=> m < category + 1
  BY <1>1 DEF Over
<1> QED
  BY <1>1, <1>2, <1>3

\* ... without running it.
LEMMA LeaveBlames ==
    ASSUME PlaceOK, BlameOK, Leaving, misbehaved' = misbehaved
    PROVE  BlameOK'
<1>1. ~problems /\ ~problems' /\ exit = "running"
  BY LeavePlace DEF Leaving
<1>2. \A m : Runs(m)' <=> Runs(m)
  BY DEF Runs, Wanted, Leaving, command
<1>3. ASSUME NEW x \in misbehaved'
      PROVE  \E m \in 1..5 : \E i \in 1..Size(m) : x = Vec(m, i).id /\ Runs(m) /\ Over(m, i)'
  <2>1. PICK m \in 1..5 : \E i \in 1..Size(m) : x = Vec(m, i).id /\ Runs(m) /\ Over(m, i)
    BY <1>1, <1>3 DEF BlameOK
  <2>2. PICK i \in 1..Size(m) : x = Vec(m, i).id /\ Runs(m) /\ Over(m, i)
    BY <2>1
  <2>3. Over(m, i)'
    BY <2>2, LeaveIsOver
  <2> QED
    BY <2>2, <2>3
<1> QED
  BY <1>1, <1>2, <1>3 DEF BlameOK

LEMMA LeaveExit == Leaving => ExitOK'
BY DEF Leaving, ExitOK, Ended

LEMMA SkipCategoryStep ==
    ASSUME IInv, SkipCategory
    PROVE  IInv'
<1>1. PlaceOK /\ exit = "running" /\ category <= 5 /\ (~Wanted(Name) \/ (~base_url /\ Name \notin LOCAL_CATEGORIES))
  BY CategoryNames DEF SkipCategory, IInv
<1>2. category \in 1..5 /\ Name = Categories[category] /\ ~Runs(category)
  BY <1>1, Here DEF Runs
<1>3. Leaving
  BY <1>1, <1>2 DEF SkipCategory, Leaving, PlaceOK
<1>4. results \in Seq(ResultRecord) /\ results' = results /\ misbehaved' = misbehaved
  BY DEF IInv, ResultsOK, SkipCategory
<1> DEFINE more == <<>>
<1>5. more \in Seq(ResultRecord) /\ 1..Len(more) = {}
  BY EmptySeq
<1>6. results' = results \o more
  BY <1>4, ConcatEmptySeq
<1> HIDE DEF more
<1>7. category = 1 => ~Wanted("schema")
  BY <1>1, <1>2, CategoryNames
<1>8. category' \in Int /\ category' >= category /\ UNCHANGED command
  BY <1>2, <1>3 DEF Leaving
<1>9. \A m \in 1..5 : \A i \in 1..Size(m) :
         (Over(m, i) => Over(m, i)') /\ (NewlyOver(m, i) => ~Runs(m))
  BY <1>1, <1>2, <1>3, LeaveIsOver DEF NewlyOver
<1>10. GrowsBy(more)
  BY <1>4, <1>5, <1>6, <1>7, <1>8, <1>9 DEF GrowsBy
<1>11. ResultsOK'
  BY <1>1, <1>5, <1>10, ResultsGrow DEF IInv
<1> QED
  BY <1>3, <1>4, <1>11, LeavePlace, LeaveBlames, LeaveExit DEF IInv

\* The schema vectors are skipped as one.
LEMMA SkipSchemaStep ==
    ASSUME IInv, Running("schema"), ~spec_found, CheckSchema
    PROVE  IInv'
<1>1. /\ PlaceOK /\ exit = "running" /\ category <= 5 /\ Name = "schema" /\ Wanted("schema")
      /\ UNCHANGED <<command, exit, case, step, problems, captured, spec, misbehaved>>
      /\ category' = category + 1
      /\ results' = Append(results, [id |-> "schema-spec-file", category |-> Name, status |-> "skip"])
  BY CategoryNames DEF CheckSchema, Running, IInv
<1>2. category = 1 /\ Categories[1] = "schema" /\ ~Runs(1)
  BY <1>1, Here, CategoryNames DEF Runs
<1>3. Leaving
  BY <1>1, <1>2 DEF Leaving, PlaceOK
<1>4. SkipResult \in ResultRecord
  BY <1>2 DEF SkipResult, ResultRecord
<1> DEFINE more == <<SkipResult>>
<1>5. more \in Seq(ResultRecord) /\ Len(more) = 1 /\ more[1] = SkipResult /\ \A k \in 1..Len(more) : k = 1
  BY <1>4
<1>6. results' = results \o more
  <2>1. results' = Append(results, SkipResult)
    BY <1>1 DEF SkipResult
  <2> QED
    BY <1>4, <2>1, AppendIsConcat DEF IInv, ResultsOK
<1> HIDE DEF more
<1>7. category' \in Int /\ category' >= category /\ category' > 1 /\ UNCHANGED command
  BY <1>1, <1>2
<1>8. \A m \in 1..5 : \A i \in 1..Size(m) :
         (Over(m, i) => Over(m, i)') /\ (NewlyOver(m, i) => ~Runs(m))
  BY <1>1, <1>2, <1>3, LeaveIsOver DEF NewlyOver
<1>9. GrowsBy(more)
  <2>1. \A k \in 1..Len(more) : more[k] = SkipResult /\ category = 1 /\ category' > 1 /\ Wanted("schema") /\ ~spec_found
    BY <1>1, <1>2, <1>5, <1>7
  <2>2. \E k \in 1..Len(more) : more[k] = SkipResult
    BY <1>5
  <2>3. \A j, k \in 1..Len(more) : more[j].id = more[k].id => j = k
    BY <1>5
  <2> QED
    BY <1>1, <1>6, <1>7, <1>8, <2>1, <2>2, <2>3 DEF GrowsBy
<1>10. ResultsOK'
  BY <1>1, <1>5, <1>9, ResultsGrow DEF IInv
<1> QED
  BY <1>1, <1>3, <1>10, LeavePlace, LeaveBlames, LeaveExit DEF IInv
-----------------------------------------------------------------------------
(* GET /spec.                                                               *)

\* Without an answer that can be read every case of the category fails.
LEMMA SpecIsLostStep ==
    ASSUME IInv, Leaving, category = 5,
           results' = results \o [i \in DOMAIN Vectors[Name] |-> Result(Vectors[Name][i], FALSE)],
           misbehaved' = misbehaved \cup {Vectors[Name][i].id : i \in DOMAIN Vectors[Name]},
           Runs(5)
    PROVE  IInv'
<1>1. PlaceOK /\ Name = Categories[5] /\ DOMAIN Vectors[Name] = 1..Size(5) /\ Size(5) \in Nat
  BY Here, SuiteType DEF IInv, Leaving
<1>2. PICK more : more = [i \in 1..Size(5) |->
                            [id |-> Vec(5, i).id, category |-> Categories[5],
                             status |-> Status(Vec(5, i).known_gap, FALSE)]]
  OBVIOUS
<1>3. results' = results \o more /\ misbehaved' = misbehaved \cup {Vec(5, i).id : i \in 1..Size(5)}
  BY <1>1, <1>2 DEF Result, Vec
<1>4. \A i \in 1..Size(5) :
         /\ more[i] \in ResultRecord
         /\ more[i].id = Vec(5, i).id /\ more[i].status = Status(Vec(5, i).known_gap, FALSE)
  <2> SUFFICES ASSUME NEW i \in 1..Size(5)
               PROVE  /\ more[i] \in ResultRecord
                      /\ more[i].id = Vec(5, i).id /\ more[i].status = Status(Vec(5, i).known_gap, FALSE)
    OBVIOUS
  <2>1. more[i] = [id |-> Vec(5, i).id, category |-> Categories[5],
                   status |-> Status(Vec(5, i).known_gap, FALSE)]
    BY <1>2
  <2>2. 5 \in 1..5
    OBVIOUS
  <2>3. more[i].id = Vec(5, i).id /\ more[i].status = Status(Vec(5, i).known_gap, FALSE)
    BY <2>1
  <2>4. more[i] = [id |-> more[i].id, category |-> Categories[5], status |-> more[i].status]
    BY <2>1, <2>3
  <2>5. more[i] \in ResultRecord
    BY <2>2, <2>3, <2>4, ResultType
  <2> QED
    BY <2>3, <2>5
<1>5. more \in Seq(ResultRecord) /\ Len(more) = Size(5)
  <2>1. more \in [1..Size(5) -> ResultRecord]
    BY <1>2, <1>4
  <2> QED
    BY <1>1, <2>1, SeqDef, LenProperties
<1>6. \A i \in 1..Size(5) : Vec(5, i).id \in misbehaved'
  BY <1>3
<1>7. \A m \in 1..5 : \A i \in 1..Size(m) :
         /\ Over(m, i)' <=> Over(m, i) \/ m = 5
         /\ ~(m = 5 /\ Over(m, i))
  BY <1>1, LeaveIsOver
<1>8. ASSUME NEW i \in 1..Size(5)
      PROVE  NewlyOver(5, i) /\ IsResultOf(more[i], 5, i)'
  <2>1. IsResultOf(more[i], 5, i)'
    BY <1>4, <1>6 DEF IsResultOf, Status
  <2> QED
    BY <1>7, <2>1 DEF NewlyOver
<1>9. ASSUME NEW m \in 1..5, NEW i \in 1..Size(m), Over(m, i)
      PROVE  Over(m, i)' /\ (Vec(m, i).id \in misbehaved' <=> Vec(m, i).id \in misbehaved)
  <2>1. m # 5
    BY <1>7, <1>9
  <2>2. \A k \in 1..Size(5) : Vec(m, i).id # Vec(5, k).id
    BY <2>1, IdsAreUnique
  <2> QED
    BY <1>3, <1>7, <1>9, <2>2
<1>10. ASSUME NEW m \in 1..5, NEW i \in 1..Size(m), NewlyOver(m, i) PROVE m = 5
  BY <1>7, <1>10 DEF NewlyOver
<1>11. GrowsBy(more)
  <2>1. UNCHANGED command /\ category' \in Int /\ category' >= category /\ category # 1
    BY DEF Leaving
  <2>2. \A k \in 1..Len(more) : \E m \in 1..5 : \E i \in 1..Size(m) :
           NewlyOver(m, i) /\ Runs(m) /\ IsResultOf(more[k], m, i)'
    BY <1>5, <1>8
  <2>3. \A m \in 1..5 : \A i \in 1..Size(m) :
           NewlyOver(m, i) => \E k \in 1..Len(more) : more[k].id = Vec(m, i).id
    BY <1>4, <1>5, <1>10
  <2>4. \A j, k \in 1..Len(more) : more[j].id = more[k].id => j = k
    <3>1. 5 \in 1..5
      OBVIOUS
    <3>2. \A j, k \in 1..Size(5) : Vec(5, j).id = Vec(5, k).id => j = k
      BY <3>1, IdsAreUnique
    <3> QED
      BY <1>4, <1>5, <3>2
  <2> QED
    BY <1>3, <1>9, <2>1, <2>2, <2>3, <2>4 DEF GrowsBy
<1>12. ResultsOK'
  BY <1>1, <1>5, <1>11, ResultsGrow DEF IInv
<1>13. BlameOK'
  <2>1. ~problems /\ ~problems' /\ exit = "running"
    BY <1>1, LeavePlace DEF Leaving
  <2>2. \A m : Runs(m)' <=> Runs(m)
    BY DEF Runs, Wanted, Leaving, command
  <2>3. ASSUME NEW x \in misbehaved'
        PROVE  \E m \in 1..5 : \E i \in 1..Size(m) : x = Vec(m, i).id /\ Runs(m) /\ Over(m, i)'
    <3>1. CASE x \in misbehaved
      <4>1. PICK m \in 1..5 : \E i \in 1..Size(m) : x = Vec(m, i).id /\ Runs(m) /\ Over(m, i)
        BY <2>1, <3>1 DEF IInv, BlameOK
      <4>2. PICK i \in 1..Size(m) : x = Vec(m, i).id /\ Runs(m) /\ Over(m, i)
        BY <4>1
      <4> QED
        BY <1>7, <4>2
    <3>2. CASE x \notin misbehaved
      <4>1. PICK i \in 1..Size(5) : x = Vec(5, i).id
        BY <1>3, <2>3, <3>2
      <4>2. 5 \in 1..5 /\ Over(5, i)'
        BY <1>7
      <4> QED
        BY <4>1, <4>2
    <3> QED
      BY <3>1, <3>2
  <2> QED
    BY <2>1, <2>2, <2>3 DEF BlameOK
<1> QED
  BY <1>1, <1>12, <1>13, LeavePlace, LeaveExit DEF IInv

\* An answer that can be read starts the category.
LEMMA SpecIsReadStep ==
    ASSUME IInv, category = 5, exit = "running", Runs(5), spec' \in {"good", "bad"}, step = 0,
           UNCHANGED <<command, category, case, step, problems, captured, results, exit, misbehaved>>
    PROVE  IInv'
<1>1. PlaceOK
  BY DEF IInv
<1>2. PlaceOK'
  <2>1. Runs(category)' /\ Size(category)' = Size(category)
    BY DEF Runs, Wanted, Size, command
  <2>2. only' = only /\ base_url' = base_url /\ spec_found' = spec_found
    BY DEF command
  <2> QED
    BY <1>1, <2>1, <2>2 DEF PlaceOK
<1>3. BlameOK'
  <2>1. \A m, i : (Over(m, i)' <=> Over(m, i)) /\ (Runs(m)' <=> Runs(m))
    BY DEF Over, Runs, Wanted, command
  <2>2. Case' = Case
    BY DEF Case, Name
  <2> QED
    BY <2>1, <2>2 DEF BlameOK, IInv
<1>4. ResultsOK'
  BY <1>1, ResultsStand DEF IInv
<1> QED
  BY <1>2, <1>3, <1>4 DEF IInv, ExitOK, Ended

LEMMA FetchSpecStep ==
    ASSUME IInv, FetchSpec
    PROVE  IInv'
<1>1. /\ PlaceOK /\ exit = "running" /\ category <= 5 /\ Name = "spec_capabilities" /\ spec = "unread"
      /\ Wanted(Name) /\ (base_url \/ Name \in LOCAL_CATEGORIES) /\ UNCHANGED command
  BY CategoryNames DEF FetchSpec, Running, IInv
<1>2. category = 5 /\ Categories[5] = "spec_capabilities" /\ Name = Categories[5]
  BY <1>1, Here, CategoryNames
<1>3. Runs(5) /\ case = 1 /\ step = 0
  BY <1>1, <1>2 DEF Runs, PlaceOK
<1>4. CASE Crash /\ UNCHANGED misbehaved
  <2>1. Crashing
    BY <1>1, <1>2, <1>3, <1>4 DEF Crashing
  <2> QED
    BY <2>1, CrashStep
<1>5. CASE /\ spec' \in {"good", "bad"}
           /\ UNCHANGED <<category, case, step, problems, captured, results, exit, misbehaved>>
  BY <1>1, <1>2, <1>3, <1>5, SpecIsReadStep
<1>6. CASE /\ results' = results \o [i \in DOMAIN Vectors[Name] |-> Result(Vectors[Name][i], FALSE)]
           /\ misbehaved' = misbehaved \cup {Vectors[Name][i].id : i \in DOMAIN Vectors[Name]}
           /\ category' = category + 1
           /\ UNCHANGED <<case, step, problems, captured, spec, exit>>
  <2>1. Leaving
    BY <1>1, <1>3, <1>6 DEF Leaving
  <2> QED
    BY <1>2, <1>3, <1>6, <2>1, SpecIsLostStep
<1> QED
  BY <1>4, <1>5, <1>6 DEF FetchSpec

-----------------------------------------------------------------------------
(* The end of a run, and a step that changes nothing.                       *)

LEMMA QuietStep ==
    ASSUME IInv, UNCHANGED <<command, progress, results, misbehaved>>,
           exit' = exit \/ (exit = "running" /\ exit' \in {"0", "1"} /\ category = 6),
           ExitOK'
    PROVE  IInv'
<1>1. /\ PlaceOK /\ UNCHANGED <<command, category, case, step, problems, captured, spec, results, misbehaved>>
  BY DEF IInv, progress
<1>2. PlaceOK'
  <2>1. (Runs(category)' <=> Runs(category)) /\ Size(category)' = Size(category)
    BY <1>1 DEF Runs, Wanted, Size, command
  <2>2. only' = only /\ base_url' = base_url /\ spec_found' = spec_found
    BY DEF command
  <2> QED
    BY <1>1, <2>1, <2>2 DEF PlaceOK
<1>3. BlameOK'
  <2>1. \A m, i : (Over(m, i)' <=> Over(m, i)) /\ (Runs(m)' <=> Runs(m))
    BY <1>1 DEF Over, Runs, Wanted, command
  <2>2. Case' = Case
    BY <1>1 DEF Case, Name
  <2>3. exit' = exit \/ category = 6
    OBVIOUS
  <2>4. ASSUME NEW x \in misbehaved'
        PROVE  \E m \in 1..5 : \E i \in 1..Size(m) :
                  /\ x = Vec(m, i).id /\ Runs(m)
                  /\ Over(m, i) \/ (m = category /\ i = case /\ (exit' = "running" => problems))
    <3>1. PICK m \in 1..5 : \E i \in 1..Size(m) :
             /\ x = Vec(m, i).id /\ Runs(m)
             /\ Over(m, i) \/ (m = category /\ i = case /\ (exit = "running" => problems))
      BY <1>1, <2>4 DEF IInv, BlameOK
    <3> QED
      BY <2>3, <3>1
  <2> QED
    BY <1>1, <2>1, <2>2, <2>4 DEF BlameOK, IInv
<1>4. ResultsOK'
  BY <1>1, ResultsStand DEF IInv
<1> QED
  BY <1>2, <1>3, <1>4 DEF IInv

LEMMA ExitStep ==
    ASSUME IInv, Exit
    PROVE  IInv'
<1>1. /\ UNCHANGED <<command, progress, results, misbehaved>> /\ exit = "running"
      /\ exit' = IF Count("fail") > 0 \/ ("schema" \in only /\ Count("skip") > 0) THEN "1" ELSE "0"
  BY DEF Exit
<1>2. category = 6
  BY CategoryNames DEF Exit, IInv, PlaceOK
<1>3. /\ category' = category /\ only' = only
      /\ Count("fail")' = Count("fail") /\ Count("skip")' = Count("skip")
  BY <1>1 DEF progress, command, Count
<1>4. ExitOK'
  BY <1>1, <1>2, <1>3 DEF ExitOK
<1> QED
  BY <1>1, <1>2, <1>4, QuietStep

LEMMA StutterStep ==
    ASSUME IInv, UNCHANGED vars
    PROVE  IInv'
<1>1. UNCHANGED <<command, progress, results, misbehaved, exit>>
  BY DEF vars
<1>2. ExitOK'
  BY <1>1 DEF IInv, ExitOK, Ended, progress, command, Count
<1> QED
  BY <1>1, <1>2, QuietStep
-----------------------------------------------------------------------------
(* The actions.                                                             *)

LEMMA InCategory ==
    ASSUME IInv, NEW m \in 1..5, Running(Categories[m])
    PROVE  /\ category = m /\ exit = "running" /\ UNCHANGED command /\ PlaceOK
           /\ (m = 1 => spec_found) => Runs(category)
<1>1. /\ category <= 5 /\ exit = "running" /\ Name = Categories[m] /\ UNCHANGED command /\ PlaceOK
      /\ Wanted(Categories[m]) /\ (base_url \/ Categories[m] \in LOCAL_CATEGORIES)
  BY CategoryNames DEF Running, IInv
<1>2. category = m
  BY <1>1, Here, CategoryNames
<1>3. (m = 1 => spec_found) => Runs(m)
  BY <1>1, CategoryNames DEF Runs
<1> QED
  BY <1>1, <1>2, <1>3

LEMMA BlamedAnswer ==
    ASSUME IInv, exit = "running", category <= 5, NEW answer, Blame(answer)
    PROVE  /\ misbehaved' \in {misbehaved, misbehaved \cup {Case.id}}
           /\ misbehaved' = IF answer # "good" THEN misbehaved \cup {Case.id} ELSE misbehaved
           /\ Case.id \in misbehaved' <=> ~(~problems /\ answer = "good")
BY CaseIsBlamed DEF Blame

LEMMA LocalStep ==
    ASSUME IInv, CheckSchema \/ CheckDecay
    PROVE  IInv'
<1>1. CASE CheckDecay
  <2>1. PICK score \in {"good", "bad"} : Report(score = "good") /\ Blame(score)
    BY <1>1 DEF CheckDecay
  <2>2. Running(Categories[2]) /\ UNCHANGED exit
    BY <1>1, CategoryNames DEF CheckDecay
  <2>3. category = 2 /\ exit = "running" /\ Runs(category) /\ UNCHANGED command /\ ~problems
    BY <2>2, InCategory DEF PlaceOK
  <2>4. Reporting(score = "good")
    BY <2>1, <2>2, <2>3, BlamedAnswer DEF Reporting
  <2> QED
    BY <2>4, ReportStep
<1>2. CASE CheckSchema
  <2>1. Running(Categories[1]) /\ Running("schema") /\ UNCHANGED exit
    BY <1>2, CategoryNames DEF CheckSchema
  <2>2. category = 1 /\ exit = "running" /\ (spec_found => Runs(category)) /\ UNCHANGED command /\ ~problems
    BY <2>1, InCategory DEF PlaceOK
  <2>3. CASE spec_found
    <3>1. PICK valid \in {"good", "bad"} : Report(valid = "good") /\ Blame(valid)
      BY <1>2, <2>3 DEF CheckSchema
    <3>2. Reporting(valid = "good")
      BY <2>1, <2>2, <2>3, <3>1, BlamedAnswer DEF Reporting
    <3> QED
      BY <3>2, ReportStep
  <2>4. CASE ~spec_found
    BY <1>2, <2>1, <2>4, SkipSchemaStep
  <2> QED
    BY <2>3, <2>4
<1> QED
  BY <1>1, <1>2

LEMMA HttpContractStep ==
    ASSUME IInv, CheckHttpContract
    PROVE  IInv'
<1>1. PICK answer \in {"good", "bad", "unusable", "shapeless", "lost"} : HttpStep(answer) /\ Blame(answer)
  BY DEF CheckHttpContract
<1>2. Running(Categories[3])
  BY CategoryNames DEF CheckHttpContract
<1>3. /\ category = 3 /\ exit = "running" /\ Runs(category) /\ UNCHANGED command
      /\ step \in Nat /\ step < Steps /\ Steps \in Nat /\ problems \in BOOLEAN
  BY <1>2, InCategory, VectorsAssumption DEF PlaceOK
<1>4. CASE (step > 0 /\ ~captured) \/ answer = "shapeless"
  <2>1. Crashing
    BY <1>1, <1>3, <1>4, BlamedAnswer DEF HttpStep, Crashing
  <2> QED
    BY <2>1, CrashStep
<1>5. CASE ~((step > 0 /\ ~captured) \/ answer = "shapeless") /\ (answer = "lost" \/ step + 1 = Steps)
  <2>1. Report(~problems /\ answer = "good") /\ UNCHANGED exit
    BY <1>1, <1>5 DEF HttpStep
  <2>2. Reporting(~problems /\ answer = "good")
    BY <1>1, <1>3, <2>1, BlamedAnswer DEF Reporting
  <2> QED
    BY <2>2, ReportStep
<1>6. CASE ~((step > 0 /\ ~captured) \/ answer = "shapeless") /\ ~(answer = "lost" \/ step + 1 = Steps)
  <2>1. Continue(answer # "good") /\ captured' = (step > 0 \/ answer # "unusable") /\ UNCHANGED exit
    BY <1>1, <1>6 DEF HttpStep
  <2>2. step + 1 < Steps
    BY <1>3, <1>6
  <2>3. captured' \in BOOLEAN
    BY <2>1
  <2>4. Continuing(answer # "good")
    BY <1>1, <1>3, <2>1, <2>2, <2>3, BlamedAnswer DEF Continuing
  <2> QED
    BY <2>4, ContinueStep
<1> QED
  BY <1>4, <1>5, <1>6

LEMMA AccessMatrixStep ==
    ASSUME IInv, CheckAccessMatrix
    PROVE  IInv'
<1>1. PICK answer \in {"good", "bad", "unusable", "shapeless", "lost"} : AccessStep(answer) /\ Blame(answer)
  BY DEF CheckAccessMatrix
<1>2. Running(Categories[4])
  BY CategoryNames DEF CheckAccessMatrix
<1>3. /\ category = 4 /\ exit = "running" /\ Runs(category) /\ UNCHANGED command
      /\ step \in Nat /\ step <= Probes /\ Probes \in Nat /\ Probes > 0
      /\ problems \in BOOLEAN /\ captured \in BOOLEAN /\ (step = 0 => ~problems)
  BY <1>2, InCategory, VectorsAssumption DEF PlaceOK
<1>4. ASSUME Crash PROVE IInv'
  <2>1. Crashing
    BY <1>1, <1>3, <1>4, BlamedAnswer DEF Crashing
  <2> QED
    BY <2>1, CrashStep
<1>5. ASSUME Report(~problems /\ answer = "good"), UNCHANGED exit PROVE IInv'
  <2>1. Reporting(~problems /\ answer = "good")
    BY <1>1, <1>3, <1>5, BlamedAnswer DEF Reporting
  <2> QED
    BY <2>1, ReportStep
<1>6. ASSUME Continue(answer # "good"), UNCHANGED <<captured, exit>>, step # Probes PROVE IInv'
  <2>1. step + 1 <= Probes
    BY <1>3, <1>6
  <2>2. Continuing(answer # "good")
    BY <1>1, <1>3, <1>6, <2>1, BlamedAnswer DEF Continuing
  <2> QED
    BY <2>2, ContinueStep
<1>7. CASE step = 0 /\ answer \in {"bad", "lost"}
  <2>1. Report(FALSE) /\ UNCHANGED exit
    BY <1>1, <1>7 DEF AccessStep
  <2>2. (~problems /\ answer = "good") = FALSE
    BY <1>7
  <2> QED
    BY <1>5, <2>1, <2>2
<1>8. CASE answer \in {"unusable", "shapeless"} \/ (step # 0 /\ answer = "lost")
  <2>1. Crash
    <3>1. CASE step = 0
      BY <1>1, <1>8, <3>1 DEF AccessStep
    <3>2. CASE step # 0
      BY <1>1, <1>8, <3>2 DEF AccessStep
    <3> QED
      BY <3>1, <3>2
  <2> QED
    BY <1>4, <2>1
<1>9. CASE step = 0 /\ answer = "good"
  <2>1. Continue(FALSE) /\ UNCHANGED <<captured, exit>>
    BY <1>1, <1>9 DEF AccessStep
  <2>2. Continue(answer # "good")
    BY <1>9, <2>1 DEF Continue
  <2> QED
    BY <1>3, <1>6, <1>9, <2>1, <2>2
<1>10. CASE step # 0 /\ answer \in {"good", "bad"} /\ step = Probes
  BY <1>1, <1>5, <1>10 DEF AccessStep
<1>11. CASE step # 0 /\ answer \in {"good", "bad"} /\ step # Probes
  BY <1>1, <1>6, <1>11 DEF AccessStep
<1> QED
  BY <1>7, <1>8, <1>9, <1>10, <1>11

LEMMA SpecCapabilitiesStep ==
    ASSUME IInv, CheckSpecCapabilities
    PROVE  IInv'
<1> DEFINE asks == spec = "good" \/ case = Len(Vectors[Name])
<1>1. PICK answer \in {"good", "bad", "shapeless", "lost"} :
          IF asks /\ answer \in {"lost", "shapeless"} THEN Crash /\ Blame(answer)
          ELSE /\ UNCHANGED exit
               /\ IF asks /\ (case = 1 /\ step = 0 /\ answer = "good")
                  THEN Continue(FALSE) /\ UNCHANGED <<captured, misbehaved>>
                  ELSE Report(spec = "good" /\ answer = "good")
                       /\ Blame(IF spec = "good" THEN answer ELSE "bad")
  BY DEF CheckSpecCapabilities
<1> HIDE DEF asks
<1>2. Running(Categories[5]) /\ spec # "unread"
  BY CategoryNames DEF CheckSpecCapabilities
<1>3. /\ category = 5 /\ exit = "running" /\ Runs(category) /\ UNCHANGED command
      /\ ~problems /\ captured \in BOOLEAN
  BY <1>2, InCategory DEF PlaceOK
<1>4. CASE asks /\ answer \in {"lost", "shapeless"}
  <2>1. Crashing
    BY <1>1, <1>3, <1>4, BlamedAnswer DEF Crashing
  <2> QED
    BY <2>1, CrashStep
<1>5. CASE ~(asks /\ answer \in {"lost", "shapeless"}) /\ (asks /\ (case = 1 /\ step = 0 /\ answer = "good"))
  <2>1. Continue(FALSE) /\ UNCHANGED <<captured, misbehaved, exit>> /\ step = 0
    BY <1>1, <1>5
  <2>2. captured' \in BOOLEAN
    BY <1>3, <2>1
  <2>3. PICK problem \in BOOLEAN : problem = FALSE
    OBVIOUS
  <2>4. Continue(problem)
    BY <2>1, <2>3 DEF Continue
  <2>5. misbehaved' = IF problem THEN misbehaved \cup {Case.id} ELSE misbehaved
    BY <2>1, <2>3
  <2>6. Continuing(problem)
    BY <1>2, <1>3, <2>1, <2>2, <2>3, <2>4, <2>5 DEF Continuing
  <2> QED
    BY <2>6, ContinueStep
<1>6. CASE ~(asks /\ answer \in {"lost", "shapeless"}) /\ ~(asks /\ (case = 1 /\ step = 0 /\ answer = "good"))
  <2> DEFINE seen == IF spec = "good" THEN answer ELSE "bad"
  <2>1. UNCHANGED exit /\ Report(spec = "good" /\ answer = "good") /\ Blame(seen)
    BY <1>1, <1>6
  <2>2. seen = "good" <=> spec = "good" /\ answer = "good"
    OBVIOUS
  <2> HIDE DEF seen
  <2>3. Reporting(spec = "good" /\ answer = "good")
    BY <1>2, <1>3, <2>1, <2>2, BlamedAnswer DEF Reporting
  <2> QED
    BY <2>3, ReportStep
<1> QED
  BY <1>4, <1>5, <1>6

-----------------------------------------------------------------------------
(* The invariant holds.                                                     *)

LEMMA InitOK == Init => IInv
<1> SUFFICES ASSUME Init PROVE IInv
  OBVIOUS
<1>1. /\ base_url \in BOOLEAN /\ spec_found \in BOOLEAN
      /\ category = 1 /\ case = 1 /\ step = 0 /\ problems = FALSE /\ captured = FALSE
      /\ spec = "unread" /\ results = <<>> /\ exit = "running" /\ misbehaved = {}
  BY DEF Init
<1>2. only \subseteq {Categories[i] : i \in 1..5}
  BY CategoryNames DEF Init
<1>3. PlaceOK
  <2>1. Size(1) \in Nat /\ Size(1) > 0
    BY SuiteType
  <2>2. 0 \in 0..(Steps + Probes)
    BY VectorsAssumption
  <2>3. problems \in BOOLEAN /\ captured \in BOOLEAN /\ ~problems /\ ~captured
    BY <1>1
  <2>4. case <= Size(category) /\ category \in 1..6 /\ case \in Nat \ {0}
    BY <1>1, <2>1
  <2> QED
    BY <1>1, <1>2, <2>2, <2>3, <2>4 DEF PlaceOK
<1>4. BlameOK
  BY <1>1 DEF BlameOK
<1>5. ResultsOK
  <2>1. \A m \in 1..5 : \A i \in 1..Size(m) : ~Over(m, i)
    BY <1>1, SuiteType DEF Over
  <2>2. results \in Seq(ResultRecord) /\ 1..Len(results) = {}
    BY <1>1, EmptySeq
  <2> QED
    BY <1>1, <2>1, <2>2 DEF ResultsOK
<1> QED
  BY <1>1, <1>3, <1>4, <1>5 DEF IInv, ExitOK, Ended

LEMMA IInvStep == IInv /\ [Next]_vars => IInv'
BY LocalStep, HttpContractStep, AccessMatrixStep, FetchSpecStep, SpecCapabilitiesStep,
   SkipCategoryStep, ExitStep, StutterStep DEF Next

LEMMA IInvHolds == Spec => []IInv
BY InitOK, IInvStep, PTL DEF Spec
-----------------------------------------------------------------------------
(* The theorems.                                                            *)

\* The type invariant: in every state of a run the variables stay in their
\* sets, and a case starts without a problem and without a captured body.
THEOREM TypeCorrect == Spec => []TypeOK
<1>1. IInv => TypeOK
  <2> SUFFICES ASSUME IInv PROVE TypeOK
    OBVIOUS
  <2>1. PlaceOK
    BY DEF IInv
  <2>2. category \in 1..(Len(Categories) + 1)
    BY <2>1, CategoryNames DEF PlaceOK
  <2>3. category <= Len(Categories) => case \in DOMAIN Vectors[Name]
    BY <2>1, CategoryNames, Here, SuiteType
  <2>4. \A i \in DOMAIN results :
           results[i].status \in {"pass", "fail", "known_gap", "unexpected_pass", "skip"}
    <3>1. DOMAIN results = 1..Len(results) /\ \A i \in 1..Len(results) : results[i] \in ResultRecord
      BY LenProperties, ElementOfSeq DEF IInv, ResultsOK
    <3> QED
      BY <3>1 DEF ResultRecord
  <2> QED
    BY <2>1, <2>2, <2>3, <2>4 DEF PlaceOK, TypeOK
<1> QED
  BY <1>1, IInvHolds, PTL

\* A vector is a gap exactly when it is marked as one.
LEMMA GapsAreMarked ==
    \A m \in 1..5 : \A i \in 1..Size(m) : Vec(m, i).id \in Gaps <=> Vec(m, i).known_gap
<1> DEFINE Marked(name) == {v \in {Vectors[name][i] : i \in DOMAIN Vectors[name]} : v.known_gap}
<1>1. Gaps = UNION {{vector.id : vector \in Marked(name)} : name \in {Categories[i] : i \in DOMAIN Categories}}
  BY DEF Gaps
<1>2. \A x : x \in Gaps <=> \E q \in 1..5 : \E v \in Marked(Categories[q]) : x = v.id
  BY <1>1, CategoryNames
<1>3. \A q \in 1..5 : \A v : v \in Marked(Categories[q]) <=>
         \E h \in 1..Size(q) : v = Vec(q, h) /\ v.known_gap
  BY SuiteType DEF Vec
<1> HIDE DEF Marked
<1>4. \A x : x \in Gaps <=> \E q \in 1..5 : \E h \in 1..Size(q) : x = Vec(q, h).id /\ Vec(q, h).known_gap
  BY <1>2, <1>3
<1> QED
  BY <1>4, IdsAreUnique

\* Known gaps: a marked case is reported as a gap exactly while the server
\* gets it wrong, and as an unexpected pass once it does not, for every suite.
THEOREM GapsAreTold == Spec => []GapsCannotRot
<1>1. IInv => GapsCannotRot
  <2> SUFFICES ASSUME IInv, NEW j \in DOMAIN results
               PROVE  LET gap == results[j].id \in Gaps IN
                      /\ results[j].status = "known_gap" => gap /\ results[j].id \in misbehaved
                      /\ results[j].status = "unexpected_pass" => gap /\ results[j].id \notin misbehaved
                      /\ gap => results[j].status \in {"known_gap", "unexpected_pass"}
    BY DEF GapsCannotRot
  <2>1. j \in 1..Len(results)
    BY LenProperties DEF IInv, ResultsOK
  <2>2. CASE results[j] = SkipResult
    <3>1. "schema-spec-file" \notin Gaps
      <4>1. \A m \in 1..5 : \A i \in DOMAIN Vectors[Categories[m]] :
               Vectors[Categories[m]][i].id # "schema-spec-file"
        BY CategoryNames, CasesAssumption
      <4> QED
        BY <4>1, CategoryNames DEF Gaps
    <3> QED
      BY <2>2, <3>1 DEF SkipResult
  <2>3. ASSUME NEW m \in 1..5, NEW i \in 1..Size(m), IsResultOf(results[j], m, i)
        PROVE  LET gap == results[j].id \in Gaps IN
               /\ results[j].status = "known_gap" => gap /\ results[j].id \in misbehaved
               /\ results[j].status = "unexpected_pass" => gap /\ results[j].id \notin misbehaved
               /\ gap => results[j].status \in {"known_gap", "unexpected_pass"}
    <3>1. results[j].id \in Gaps <=> Vec(m, i).known_gap
      BY <2>3, GapsAreMarked DEF IsResultOf
    <3> QED
      BY <2>3, <3>1 DEF IsResultOf, Status
  <2> QED
    BY <2>1, <2>2, <2>3 DEF IInv, ResultsOK
<1> QED
  BY <1>1, IInvHolds, PTL

\* Of a run that has come to its end: every place is over, and its result
\* says what came out.
LEMMA EndedProperties ==
    ASSUME IInv, Ended
    PROVE  /\ \A m \in 1..5 : \A i \in 1..Size(m) : Runs(m) =>
                 \E j \in 1..Len(results) : IsResultOf(results[j], m, i)
           /\ \A j \in 1..Len(results) :
                 \/ results[j] = SkipResult /\ Wanted("schema") /\ ~spec_found
                 \/ \E m \in 1..5 : \E i \in 1..Size(m) : Runs(m) /\ IsResultOf(results[j], m, i)
           /\ Wanted("schema") /\ ~spec_found => \E j \in 1..Len(results) : results[j] = SkipResult
           /\ \A x \in misbehaved : \E m \in 1..5 : \E i \in 1..Size(m) : x = Vec(m, i).id /\ Runs(m)
<1>1. category = 6 /\ ResultsOK /\ BlameOK
  BY DEF IInv, ExitOK
<1>2. \A m \in 1..5 : \A i \in 1..Size(m) : Over(m, i)
  BY <1>1 DEF Over
<1>3. \A j \in 1..Len(results) :
         \/ results[j] = SkipResult /\ Wanted("schema") /\ ~spec_found
         \/ \E m \in 1..5 : \E i \in 1..Size(m) : Runs(m) /\ IsResultOf(results[j], m, i)
  BY <1>1 DEF ResultsOK
<1>4. ASSUME NEW m \in 1..5, NEW i \in 1..Size(m), Runs(m)
      PROVE  \E j \in 1..Len(results) : IsResultOf(results[j], m, i)
  <2>1. PICK j \in 1..Len(results) : results[j].id = Vec(m, i).id
    BY <1>1, <1>2, <1>4 DEF ResultsOK
  <2>2. results[j] # SkipResult
    BY <2>1, SuiteType DEF SkipResult
  <2>3. PICK q \in 1..5 : \E h \in 1..Size(q) : IsResultOf(results[j], q, h)
    BY <1>3, <2>2
  <2>4. PICK h \in 1..Size(q) : IsResultOf(results[j], q, h)
    BY <2>3
  <2>5. Vec(q, h).id = Vec(m, i).id
    BY <2>1, <2>4 DEF IsResultOf
  <2>6. q = m /\ h = i
    BY <2>5, IdsAreUnique
  <2> QED
    BY <2>4, <2>6
<1>5. Wanted("schema") /\ ~spec_found => \E j \in 1..Len(results) : results[j] = SkipResult
  BY <1>1 DEF ResultsOK
<1>6. \A x \in misbehaved : \E m \in 1..5 : \E i \in 1..Size(m) : x = Vec(m, i).id /\ Runs(m)
  BY <1>1 DEF BlameOK
<1> QED
  BY <1>3, <1>4, <1>5, <1>6

\* The report: a run that comes to its end has one result for every case of
\* every category it was asked for and could run, and no other.
THEOREM EveryCaseOnce == Spec => []EveryCaseIsReportedOnce
<1> DEFINE reported == {results[i].id : i \in DOMAIN results}
           ran == {name \in {Categories[i] : i \in DOMAIN Categories} :
                     /\ Wanted(name) /\ (base_url \/ name \in LOCAL_CATEGORIES)
                     /\ name = "schema" => spec_found}
<1>1. ASSUME IInv, Ended PROVE Cardinality(reported) = Len(results)
  <2> DEFINE n == Len(results)
             id == [j \in 1..n |-> results[j].id]
  <2>1. n \in Nat /\ DOMAIN results = 1..n
    BY <1>1, LenProperties DEF IInv, ResultsOK
  <2>2. \A j, k \in 1..n : results[j].id = results[k].id => j = k
    BY <1>1 DEF IInv, ResultsOK
  <2> HIDE DEF n
  <2>3. id \in Bijection(1..n, reported)
    <3>1. id \in [1..n -> reported]
      BY <2>1
    <3>2. \A j, k \in 1..n : id[j] = id[k] => j = k
      BY <2>2
    <3>3. \A x \in reported : \E j \in 1..n : id[j] = x
      BY <2>1
    <3> HIDE DEF id, reported
    <3>4. id \in Injection(1..n, reported)
      BY <3>1, <3>2, Fun_IsInj
    <3>5. id \in Surjection(1..n, reported)
      BY <3>1, <3>3 DEF Surjection
    <3> QED
      BY <3>4, <3>5 DEF Bijection
  <2>4. IsFiniteSet(1..n) /\ Cardinality(1..n) = n
    <3>1. 1 \in Int /\ n \in Int
      BY <2>1
    <3>2. IsFiniteSet(1..n) /\ Cardinality(1..n) = IF 1 > n THEN 0 ELSE n - 1 + 1
      BY <3>1, FS_Interval
    <3> QED
      BY <2>1, <3>2
  <2>5. ExistsBijection(1..n, reported)
    BY <2>3 DEF ExistsBijection
  <2> HIDE DEF reported
  <2>6. Cardinality(reported) = n
    BY <2>4, <2>5, FS_Bijection
  <2> QED
    BY <2>6 DEF n
<1>2. ASSUME IInv, Ended PROVE reported \ {"schema-spec-file"} = UNION {Ids(name) : name \in ran}
  <2>1. DOMAIN results = 1..Len(results)
    BY <1>2, LenProperties DEF IInv, ResultsOK
  <2>2. \A x : x \in UNION {Ids(name) : name \in ran} <=>
           \E m \in 1..5 : \E i \in 1..Size(m) : Runs(m) /\ x = Vec(m, i).id
    <3>1. \A m \in 1..5 : Categories[m] \in ran <=> Runs(m)
      BY CategoryNames DEF Runs
    <3>2. \A m \in 1..5 : \A x : x \in Ids(Categories[m]) <=> \E i \in 1..Size(m) : x = Vec(m, i).id
      BY SuiteType DEF Ids, Vec
    <3>3. \A name : name \in ran => \E m \in 1..5 : name = Categories[m]
      BY CategoryNames
    <3> HIDE DEF ran
    <3> QED
      BY <3>1, <3>2, <3>3
  <2>3. ASSUME NEW x \in reported \ {"schema-spec-file"}
        PROVE  \E m \in 1..5 : \E i \in 1..Size(m) : Runs(m) /\ x = Vec(m, i).id
    <3>1. PICK j \in 1..Len(results) : x = results[j].id /\ x # "schema-spec-file"
      BY <2>1, <2>3
    <3>2. results[j] # SkipResult
      BY <3>1 DEF SkipResult
    <3> QED
      BY <1>2, <3>1, <3>2, EndedProperties DEF IsResultOf
  <2>4. ASSUME NEW m \in 1..5, NEW i \in 1..Size(m), Runs(m)
        PROVE  Vec(m, i).id \in reported \ {"schema-spec-file"}
    <3>1. PICK j \in 1..Len(results) : IsResultOf(results[j], m, i)
      BY <1>2, <2>4, EndedProperties
    <3> QED
      BY <2>1, <3>1, SuiteType DEF IsResultOf
  <2>5. \A x : x \in reported \ {"schema-spec-file"} <=>
           \E m \in 1..5 : \E i \in 1..Size(m) : Runs(m) /\ x = Vec(m, i).id
    BY <2>3, <2>4
  <2> HIDE DEF reported, ran
  <2> QED
    BY <2>2, <2>5
<1>3. IInv => EveryCaseIsReportedOnce
  BY <1>1, <1>2 DEF EveryCaseIsReportedOnce
<1> QED
  BY <1>3, IInvHolds, PTL

LEMMA CountsTell ==
    ASSUME results \in Seq(ResultRecord), NEW status
    PROVE  Count(status) > 0 <=> \E j \in 1..Len(results) : results[j].status = status
<1> DEFINE S == {i \in DOMAIN results : results[i].status = status}
<1>1. DOMAIN results = 1..Len(results) /\ Len(results) \in Nat
  BY LenProperties
<1>2. IsFiniteSet(S) /\ Cardinality(S) \in Nat
  <2>1. 1 \in Int /\ Len(results) \in Int
    BY <1>1
  <2> QED
    BY <1>1, <2>1, FS_Interval, FS_Subset, FS_CardinalityType
<1>3. S # {} <=> \E j \in 1..Len(results) : results[j].status = status
  BY <1>1
<1> HIDE DEF S
<1>4. Cardinality(S) > 0 <=> S # {}
  BY <1>2, FS_EmptySet
<1> QED
  BY <1>3, <1>4 DEF Count, S

\* The exit code is 1 exactly when a case that no known gap explains came out
\* wrong, or the schema vectors were asked for by name and could not run.
THEOREM ExitCodeIsRight == Spec => []ExitTellsTheOutcome
<1>1. IInv => ExitTellsTheOutcome
  <2> SUFFICES ASSUME IInv, Ended
               PROVE  (exit = "1") = \/ misbehaved \ Gaps # {}
                                     \/ "schema" \in only /\ ~spec_found
    BY DEF ExitTellsTheOutcome
  <2>1. (exit = "1") = (Count("fail") > 0 \/ ("schema" \in only /\ Count("skip") > 0))
    BY DEF IInv, ExitOK
  <2>2. results \in Seq(ResultRecord)
    BY DEF IInv, ResultsOK
  <2>3. Count("fail") > 0 <=> misbehaved \ Gaps # {}
    <3>1. ASSUME NEW j \in 1..Len(results), results[j].status = "fail" PROVE misbehaved \ Gaps # {}
      <4>1. results[j] # SkipResult
        BY <3>1 DEF SkipResult
      <4>2. PICK m \in 1..5 : \E i \in 1..Size(m) : IsResultOf(results[j], m, i)
        BY <4>1, EndedProperties
      <4>3. PICK i \in 1..Size(m) : IsResultOf(results[j], m, i)
        BY <4>2
      <4>4. Vec(m, i).id \in misbehaved /\ ~Vec(m, i).known_gap
        BY <3>1, <4>3 DEF IsResultOf, Status
      <4> QED
        BY <4>4, GapsAreMarked
    <3>2. ASSUME NEW x \in misbehaved, x \notin Gaps
          PROVE  \E j \in 1..Len(results) : results[j].status = "fail"
      <4>1. PICK m \in 1..5 : \E i \in 1..Size(m) : x = Vec(m, i).id /\ Runs(m)
        BY <3>2, EndedProperties
      <4>2. PICK i \in 1..Size(m) : x = Vec(m, i).id /\ Runs(m)
        BY <4>1
      <4>3. PICK j \in 1..Len(results) : IsResultOf(results[j], m, i)
        BY <4>2, EndedProperties
      <4>4. ~Vec(m, i).known_gap
        BY <3>2, <4>2, GapsAreMarked
      <4> QED
        BY <3>2, <4>2, <4>3, <4>4 DEF IsResultOf, Status
    <3> QED
      BY <2>2, <3>1, <3>2, CountsTell
  <2>4. Count("skip") > 0 <=> Wanted("schema") /\ ~spec_found
    <3>1. ASSUME NEW j \in 1..Len(results), results[j].status = "skip"
          PROVE  Wanted("schema") /\ ~spec_found
      <4>1. \A m \in 1..5 : \A i \in 1..Size(m) : ~IsResultOf(results[j], m, i)
        BY <3>1 DEF IsResultOf, Status
      <4> QED
        BY <4>1, EndedProperties
    <3>2. ASSUME Wanted("schema"), ~spec_found
          PROVE  \E j \in 1..Len(results) : results[j].status = "skip"
      BY <3>2, EndedProperties DEF SkipResult
    <3> QED
      BY <2>2, <3>1, <3>2, CountsTell
  <2>5. "schema" \in only => Wanted("schema")
    BY DEF Wanted
  <2> QED
    BY <2>1, <2>3, <2>4, <2>5
<1> QED
  BY <1>1, IInvHolds, PTL
=============================================================================

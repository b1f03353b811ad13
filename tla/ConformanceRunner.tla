-------------------------- MODULE ConformanceRunner --------------------------
(* amp-conformance: one run of the suite against a server that answers as a  *)
(* vector expects, otherwise, or not at all, from the command line to the    *)
(* exit code. What a request carries and what is compared is abstracted to   *)
(* the answer:                                                               *)
(*   good      what the vector expects                                       *)
(*   bad       another status, code, field or decision                       *)
(*   unusable  no body, or none that is JSON                                 *)
(*   shapeless JSON of another shape than the code indexes without a check   *)
(*   lost      httpx.HTTPError: refused, broken or timed out                 *)
EXTENDS Integers, Sequences, FiniteSets

CONSTANTS
    Vectors,  \* the cases of each category, as sequences of [id, known_gap]
    Steps,    \* the requests of an http_contract case; the first one's body
              \* is captured, and the others name fields of it
    Probes    \* the requests of an access case after the create, three an agent

Categories == <<"schema", "decay", "http_contract", "access_control", "spec_capabilities">>
LOCAL_CATEGORIES == {"schema", "decay"}

\* The capabilities are the three that check_spec_capabilities knows, in its
\* order. It keys them by their check: it would drop any other, and all but the
\* last of several with the same check, without a result.
ASSUME VectorsAssumption ==
    /\ Len(Vectors["spec_capabilities"]) = 3
    /\ \A i \in DOMAIN Categories : Len(Vectors[Categories[i]]) > 0
    /\ Steps \in Nat \ {0} /\ Probes \in Nat \ {0} /\ Probes % 3 = 0

\* Every case has an id of its own over the whole suite, and none is named
\* like the skip of the schema vectors.
ASSUME CasesAssumption ==
    /\ \A i \in DOMAIN Categories : Vectors[Categories[i]] \in Seq([id : STRING, known_gap : BOOLEAN])
    /\ \A m, n \in DOMAIN Categories :
          \A i \in DOMAIN Vectors[Categories[m]], j \in DOMAIN Vectors[Categories[n]] :
              /\ Vectors[Categories[m]][i].id # "schema-spec-file"
              /\ Vectors[Categories[m]][i].id = Vectors[Categories[n]][j].id => m = n /\ i = j

VARIABLES
    only,        \* --only: a set of categories, or {} when not given
    base_url,    \* whether --base-url was given
    spec_found,  \* whether resolve_spec_path names an existing file
    category,    \* the category being run, by its place
    case,        \* the case being run, by its place
    step,        \* the requests of the case answered so far
    problems,    \* whether the case has a problem so far
    captured,    \* whether the body to be captured was one to read from
    spec,        \* the answer to GET /spec
    results,     \* Report.results
    exit,        \* "running", "crashed" by an exception, or the exit code
    misbehaved   \* history: the cases the server, or a local check, got wrong

command == <<only, base_url, spec_found>>
progress == <<category, case, step, problems, captured, spec>>
vars == <<command, progress, results, exit, misbehaved>>

-----------------------------------------------------------------------------
(* Results.                                                                 *)

Name == Categories[category]
Case == Vectors[Name][case]

\* Fault: a gap is reported whatever came out.
StatusGapFirst(known_gap, ok) ==
    IF known_gap THEN "known_gap" ELSE IF ok THEN "pass" ELSE "fail"

\* _result: the outcome of a case, its known_gap marker honoured.
Status(known_gap, ok) ==
    IF known_gap THEN IF ok THEN "unexpected_pass" ELSE "known_gap"
    ELSE IF ok THEN "pass" ELSE "fail"

Result(vector, ok) ==
    [id |-> vector.id, category |-> Name, status |-> Status(vector.known_gap, ok)]

Count(status) == Cardinality({i \in DOMAIN results : results[i].status = status})

\* Fault: the problems of a case are carried into the next.
AdvanceKeepingProblems ==
    /\ IF case < Len(Vectors[Name]) THEN case' = case + 1 /\ UNCHANGED category
       ELSE case' = 1 /\ category' = category + 1
    /\ step' = 0 /\ captured' = FALSE /\ UNCHANGED problems
    /\ spec' = IF category' = category THEN spec ELSE "unread"

\* The place after the current case: the next one, or the next category.
Advance ==
    /\ IF case < Len(Vectors[Name]) THEN case' = case + 1 /\ UNCHANGED category
       ELSE case' = 1 /\ category' = category + 1
    /\ step' = 0 /\ problems' = FALSE /\ captured' = FALSE
    /\ spec' = IF category' = category THEN spec ELSE "unread"

\* The case is over and its result is added.
Report(ok) == results' = Append(results, Result(Case, ok)) /\ Advance

Continue(problem) ==
    /\ step' = step + 1 /\ problems' = (problems \/ problem)
    /\ UNCHANGED <<category, case, spec, results>>

Blame(answer) == misbehaved' = IF answer = "good" THEN misbehaved ELSE misbehaved \cup {Case.id}

\* An exception nothing catches: no report is printed or written.
Crash == exit' = "crashed" /\ UNCHANGED <<progress, results>>

Wanted(name) == only = {} \/ name \in only
Running(name) ==
    /\ exit = "running" /\ category <= Len(Categories) /\ Name = name
    /\ Wanted(name) /\ (base_url \/ name \in LOCAL_CATEGORIES)
    /\ UNCHANGED command

-----------------------------------------------------------------------------
(* The categories.                                                          *)

\* Without the normative schema the whole category is one skip.
CheckSchema ==
    /\ Running("schema") /\ UNCHANGED exit
    /\ IF spec_found
       THEN \E valid \in {"good", "bad"} : Report(valid = "good") /\ Blame(valid)
       ELSE /\ results' = Append(results, [id |-> "schema-spec-file", category |-> Name,
                                           status |-> "skip"])
            /\ category' = category + 1
            /\ UNCHANGED <<case, step, problems, captured, spec, misbehaved>>

CheckDecay ==
    /\ Running("decay") /\ UNCHANGED exit
    /\ \E score \in {"good", "bad"} : Report(score = "good") /\ Blame(score)

\* Fault: a lost request ends the case without a problem.
HttpStepForgivesLoss(answer) ==
    IF (step > 0 /\ ~captured) \/ answer = "shapeless" THEN Crash
    ELSE /\ IF answer = "lost" \/ step + 1 = Steps
            THEN Report(~problems /\ answer \in {"good", "lost"})
            ELSE Continue(answer # "good") /\ captured' = (step > 0 \/ answer # "unusable")
         /\ UNCHANGED exit

\* One step of a case. A placeholder whose capture is missing raises, and so
\* does an `error` that is no object; a lost request is a problem, and the last
\* step of its case.
HttpStep(answer) ==
    IF (step > 0 /\ ~captured) \/ answer = "shapeless" THEN Crash
    ELSE /\ IF answer = "lost" \/ step + 1 = Steps
            THEN Report(~problems /\ answer = "good")
            ELSE Continue(answer # "good") /\ captured' = (step > 0 \/ answer # "unusable")
         /\ UNCHANGED exit

CheckHttpContract ==
    /\ Running("http_contract")
    /\ \E answer \in {"good", "bad", "unusable", "shapeless", "lost"} :
          HttpStep(answer) /\ Blame(answer)

\* Fault: a failed create ends the case without a result.
AccessStepUnreported(answer) ==
    IF step = 0
    THEN CASE answer \in {"bad", "lost"} -> Advance /\ UNCHANGED <<results, exit>>
           [] answer \in {"unusable", "shapeless"} -> Crash
           [] OTHER -> Continue(FALSE) /\ UNCHANGED <<captured, exit>>
    ELSE IF answer \in {"lost", "unusable", "shapeless"} THEN Crash
    ELSE IF step = Probes THEN Report(~problems /\ answer = "good") /\ UNCHANGED exit
    ELSE Continue(answer # "good") /\ UNCHANGED <<captured, exit>>

\* The create of an access case, then its probes. A lost create is caught, a
\* lost probe is not.
AccessStep(answer) ==
    IF step = 0
    THEN CASE answer \in {"bad", "lost"} -> Report(FALSE) /\ UNCHANGED exit
           [] answer \in {"unusable", "shapeless"} -> Crash
           [] OTHER -> Continue(FALSE) /\ UNCHANGED <<captured, exit>>
    ELSE IF answer \in {"lost", "unusable", "shapeless"} THEN Crash
    ELSE IF step = Probes THEN Report(~problems /\ answer = "good") /\ UNCHANGED exit
    ELSE Continue(answer # "good") /\ UNCHANGED <<captured, exit>>

\* Each agent is a GET, a PATCH and a search; only the bodies of the create
\* and of a search are read.
CheckAccessMatrix ==
    /\ Running("access_control")
    /\ \E answer \in {"good", "bad", "unusable", "shapeless", "lost"} :
          /\ answer \in {"unusable", "shapeless"} => step % 3 = 0
          /\ AccessStep(answer) /\ Blame(answer)

\* GET /spec. No answer, or no JSON, fails every case; JSON that is no object
\* raises; another status leaves nothing declared.
FetchSpec ==
    /\ Running("spec_capabilities") /\ spec = "unread"
    /\ \/ Crash /\ UNCHANGED misbehaved
       \/ /\ spec' \in {"good", "bad"}
          /\ UNCHANGED <<category, case, step, problems, captured, results, exit, misbehaved>>
       \/ /\ results' = results \o [i \in DOMAIN Vectors[Name] |-> Result(Vectors[Name][i], FALSE)]
          /\ misbehaved' = misbehaved \cup {Vectors[Name][i].id : i \in DOMAIN Vectors[Name]}
          /\ category' = category + 1
          /\ UNCHANGED <<case, step, problems, captured, spec, exit>>

\* One declared capability against the server: the cell limit by two creates,
\* the manual run by one call, the version by GET /health, which is asked
\* even when /spec declared none. The scheduler's declaration and the body of
\* GET /health are taken for objects.
CheckSpecCapabilities ==
    /\ Running("spec_capabilities") /\ spec # "unread"
    /\ \E answer \in {"good", "bad", "shapeless", "lost"} :
          LET asks == spec = "good" \/ case = Len(Vectors[Name])
              more == case = 1 /\ step = 0 /\ answer = "good"
          IN /\ answer = "shapeless" => asks /\ case > 1
             /\ IF asks /\ answer \in {"lost", "shapeless"} THEN Crash /\ Blame(answer)
                ELSE /\ UNCHANGED exit
                     /\ IF asks /\ more
                        THEN Continue(FALSE) /\ UNCHANGED <<captured, misbehaved>>
                        ELSE Report(spec = "good" /\ answer = "good")
                             /\ Blame(IF spec = "good" THEN answer ELSE "bad")

\* A category that is not selected, or needs a server that was not named.
SkipCategory ==
    /\ exit = "running" /\ category <= Len(Categories)
    /\ ~Wanted(Name) \/ (~base_url /\ Name \notin LOCAL_CATEGORIES)
    /\ category' = category + 1
    /\ UNCHANGED <<command, case, step, problems, captured, spec, results, exit, misbehaved>>

\* main: the exit code, once every category has run.
Exit ==
    /\ exit = "running" /\ category > Len(Categories)
    /\ exit' = IF Count("fail") > 0 \/ ("schema" \in only /\ Count("skip") > 0)
               THEN "1" ELSE "0"
    /\ UNCHANGED <<command, progress, results, misbehaved>>

-----------------------------------------------------------------------------
Init ==
    /\ only \in SUBSET {Categories[i] : i \in DOMAIN Categories}
    /\ base_url \in BOOLEAN /\ spec_found \in BOOLEAN
    /\ category = 1 /\ case = 1 /\ step = 0 /\ problems = FALSE /\ captured = FALSE
    /\ spec = "unread" /\ results = <<>> /\ exit = "running" /\ misbehaved = {}

Next ==
    \/ CheckSchema \/ CheckDecay \/ CheckHttpContract \/ CheckAccessMatrix
    \/ FetchSpec \/ CheckSpecCapabilities \/ SkipCategory \/ Exit

Spec == Init /\ [][Next]_vars

-----------------------------------------------------------------------------
(* Properties.                                                              *)

\* The variables stay in their sets, and a case starts with a clean slate.
TypeOK ==
    /\ category \in 1..(Len(Categories) + 1)
    /\ category <= Len(Categories) => case \in DOMAIN Vectors[Name]
    /\ step \in 0..(Steps + Probes)
    /\ step = 0 => ~problems /\ ~captured
    /\ spec \in {"unread", "good", "bad"}
    /\ exit \in {"running", "crashed", "0", "1"}
    /\ \A i \in DOMAIN results :
          results[i].status \in {"pass", "fail", "known_gap", "unexpected_pass", "skip"}

Ended == exit \in {"0", "1"}
Ids(name) == {Vectors[name][i].id : i \in DOMAIN Vectors[name]}
Gaps == UNION {{vector.id : vector \in {v \in {Vectors[name][i] : i \in DOMAIN Vectors[name]} :
                                        v.known_gap}} :
               name \in {Categories[i] : i \in DOMAIN Categories}}

\* A run that comes to its end reports every case of every category it was
\* asked for and could run, once, whatever the server did to its requests.
EveryCaseIsReportedOnce ==
    LET reported == {results[i].id : i \in DOMAIN results}
        ran == {name \in {Categories[i] : i \in DOMAIN Categories} :
                  /\ Wanted(name) /\ (base_url \/ name \in LOCAL_CATEGORIES)
                  /\ name = "schema" => spec_found}
    IN Ended =>
         /\ Cardinality(reported) = Len(results)
         /\ reported \ {"schema-spec-file"} = UNION {Ids(name) : name \in ran}

\* The exit code is 1 exactly when something came out wrong that no known gap
\* explains, or the schema vectors were asked for by name and could not run:
\* no lost or unreadable answer is taken for a pass.
ExitTellsTheOutcome ==
    Ended => (exit = "1") = \/ misbehaved \ Gaps # {}
                            \/ "schema" \in only /\ ~spec_found

\* "The gap list cannot rot in either direction": a marked case is reported
\* as a gap exactly while it is one, and as an unexpected pass once it is not.
GapsCannotRot ==
    \A i \in DOMAIN results :
        LET gap == results[i].id \in Gaps IN
        /\ results[i].status = "known_gap" => gap /\ results[i].id \in misbehaved
        /\ results[i].status = "unexpected_pass" => gap /\ results[i].id \notin misbehaved
        /\ gap => results[i].status \in {"known_gap", "unexpected_pass"}
=============================================================================

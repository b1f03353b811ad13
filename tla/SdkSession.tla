----------------------------- MODULE SdkSession -----------------------------
(* One agent using the SDK (AMPClient, and AMPMemory on top of it) against  *)
(* the server of Serving, over a network that loses requests and answers.   *)
(* Every SDK call is a script of HTTP requests sent one after the other;    *)
(* the first failure ends it. A request given up by the client may still    *)
(* reach the server, at any later time.                                     *)
EXTENDS Serving

CONSTANTS
    Me,            \* the agent of this client
    ApiKey,        \* its key, or NoKey
    HISTORY_PAGE,  \* the limit _load_cells asks for
    CLEAR_PAGE,    \* the limit clear asks for
    CreatedAt,     \* created_at of each cell: a second, and microseconds
    MaxFaults      \* bound on losses, stops, kills, key changes and strangers

ASSUME ClientAssumption ==
    /\ Me \in Agents /\ ApiKey \in Keys \cup {NoKey}
    /\ {HISTORY_PAGE, CLEAR_PAGE, MaxFaults} \subseteq Nat
    /\ CreatedAt \in [CellId -> [second : Nat, fraction : Nat]]

VARIABLES
    op,          \* the SDK call being made
    target,      \* the cell it names, 0 for none
    script,      \* the requests of the call still to be answered
    pc,          \* "idle", "waiting" for an answer, or "answered"
    reply,       \* the answer on its way to the client
    result,      \* what the last call returned or raised, until the next
    late,        \* requests given up by a client, or sent by strangers
    faults,
    entitled,    \* history: the cells this agent could write, and archive,
                 \* and had its key accepted for, ever since they exist
    undisturbed  \* history: only this client wrote since the listing began

client == <<op, target, script, pc, reply, result>>
history == <<entitled, undisturbed>>
vars == <<server, keyfile, cells, client, late, faults, history>>

NoStatus == 0   \* AMPError.status_code of a call that got no answer
NoReply == [code |-> NoStatus, page |-> <<>>]
NoResult == [op |-> "none", cell |-> 0, outcome |-> "none", status |-> NoStatus, page |-> <<>>]

-----------------------------------------------------------------------------
(* The calls.                                                               *)

\* A request with the identity headers this client puts on every call.
Identified(route) ==
    [route |-> route, agent |-> Me, key |-> ApiKey, created_by |-> NoAgent,
     cell |-> 0, size |-> "small", limit |-> 0]

Remember(size) == [Identified("create") EXCEPT !.size = size]
GetMemory(c) == [Identified("get") EXCEPT !.cell = c]
ListMemories(limit) == [Identified("list") EXCEPT !.limit = limit]
Health == Identified("health")

\* Fault: the cell is deleted without being archived first.
ForgetDirectly(c) == <<[Identified("delete") EXCEPT !.cell = c]>>

\* Fault: the cell is only archived.
ForgetArchivesOnly(c) == <<[Identified("archive") EXCEPT !.cell = c]>>

\* forget: archived, then deleted, the only way the status graph has.
Forget(c) == <<[Identified("archive") EXCEPT !.cell = c],
               [Identified("delete") EXCEPT !.cell = c]>>

\* The calls of AMPMemory that swallow what the client raises.
LoadCells == <<ListMemories(HISTORY_PAGE)>>
Clear == <<ListMemories(CLEAR_PAGE)>>
Swallowing == {"messages", "clear", "health"}

\* save_context stores the two turns one after the other.
SaveContext == <<Remember("small"), Remember("small")>>

Requests(name, c) ==
    CASE name = "remember" -> {<<Remember(size)>> : size \in {"small", "full", "oversize"}}
      [] name = "save_context" -> {SaveContext}
      [] name = "get_memory" -> {<<GetMemory(c)>>}
      [] name = "forget" -> {Forget(c)}
      [] name = "messages" -> {LoadCells}
      [] name = "clear" -> {Clear}
      [] OTHER -> {<<Health>>}

-----------------------------------------------------------------------------
(* The client.                                                              *)

Creates(requests) == Cardinality({i \in DOMAIN requests : requests[i].route = "create"})
LateCreates == Cardinality({req \in late : req.route = "create"})

\* The caller repeats a forget until it is answered; other calls it gives up.
Unanswered == result.op = "forget" /\ result.outcome = "raised" /\ result.status = NoStatus

Begin(name, c) ==
    /\ pc = "idle"
    /\ script' \in Requests(name, c)
    /\ Creates(script') + LateCreates <= Cardinality(Unborn)
    /\ op' = name /\ target' = c /\ pc' = "waiting" /\ result' = NoResult
    /\ undisturbed' = (name = "messages")
    /\ UNCHANGED <<reply, server, keyfile, cells, late, faults, entitled>>

Call ==
    /\ ~Unanswered
    /\ \/ \E name \in {"remember", "save_context", "messages", "clear", "health"} : Begin(name, 0)
       \/ \E name \in {"get_memory", "forget"}, c \in CellId \ Unborn : Begin(name, c)

Retry == Unanswered /\ Begin("forget", result.cell)

\* The calls whose result the caller acts on, or a property reads.
Remembered == {"forget", "messages"}

Finish(outcome, status, page) ==
    /\ result' = IF op \in Remembered THEN [op |-> op, cell |-> target, outcome |-> outcome,
                                            status |-> status, page |-> page]
                 ELSE NoResult
    /\ op' = "none" /\ target' = 0 /\ pc' = "idle" /\ script' = <<>> /\ reply' = NoReply

\* An AMPError reaches the caller, unless the call swallows it: messages is
\* then empty, health is False, and clear has stopped where it was.
Raise(status) ==
    Finish(IF op \in Swallowing THEN "returned" ELSE "raised", status, <<>>)

\* The requests a successful answer adds: clear forgets what was listed.
Added == IF op = "clear" THEN FlattenSeq([i \in DOMAIN reply.page |-> Forget(reply.page[i])])
         ELSE <<>>

\* Fault: the history is left in the order of the store.
OrderedAsStored(page) == {page}

\* The order of the text of created_at. A time on the whole second is written
\* without its fraction, "...:00Z", after all "...:00.123456Z" of that second.
TextBefore(s, t) ==
    \/ s.second < t.second
    \/ /\ s.second = t.second /\ s.fraction # 0
       /\ t.fraction = 0 \/ s.fraction < t.fraction

\* _load_cells sorts by that text. Equal ones stay in the order of the store,
\* which is any.
Ordered(page) ==
    {s \in SetToSeqs(ToSet(page)) :
        \A i, j \in DOMAIN s : i < j => ~TextBefore(CreatedAt[s[j]], CreatedAt[s[i]])}

\* _request: an answer is taken, or becomes an AMPError with its status.
Receive ==
    /\ pc = "answered"
    /\ IF reply.code \notin 200..299 THEN Raise(reply.code)
       ELSE IF Tail(script) \o Added = <<>> THEN
            \E page \in Ordered(reply.page) : Finish("returned", reply.code, page)
       ELSE /\ script' = Tail(script) \o Added
            /\ pc' = "waiting" /\ reply' = NoReply
            /\ UNCHANGED <<op, target, result>>
    /\ UNCHANGED <<server, keyfile, cells, late, faults, history>>

\* Nobody listens: the connection is refused.
ConnectionRefused ==
    /\ pc = "waiting" /\ process # "serving"
    /\ Raise(NoStatus)
    /\ UNCHANGED <<server, keyfile, cells, late, faults, history>>

\* The connection breaks before the request is served, which may still
\* happen (what a read does then nobody sees), or before the answer arrives.
Lose ==
    /\ pc \in {"waiting", "answered"}
    /\ faults < MaxFaults /\ faults' = faults + 1
    /\ \/ late' = late
       \/ /\ pc = "waiting" /\ Head(script).route \in {"create", "archive", "delete"}
          /\ late' = late \cup {Head(script)}
    /\ Raise(NoStatus)
    /\ undisturbed' = FALSE
    /\ UNCHANGED <<server, keyfile, cells, entitled>>

-----------------------------------------------------------------------------
(* The server, seen from the network.                                       *)

Accepts(file) == file = Unset \/ (file # Malformed /\ file[Me] = ApiKey /\ ApiKey # NoKey)

\* The cells still in the agent's hands after a step of the store. A new cell
\* may also come from a stranger who proves to be this agent with another key.
Kept == {c \in CellId : /\ c \in entitled \/ (cells[c].status = "unborn" /\ Accepts(keys))
                        /\ cells'[c].status # "unborn"
                        /\ ~cells'[c].full /\ Me \in {cells'[c].created_by} \cup cells'[c].writers}

Serve ==
    /\ pc = "waiting" /\ pc' = "answered"
    /\ Handle(Head(script))
    /\ \E page \in Pages(Head(script)) : reply' = [code |-> Code(Head(script)), page |-> page]
    /\ entitled' = Kept
    /\ UNCHANGED <<op, target, script, result, late, faults, undisturbed>>

\* A request whose sender no longer waits for it is served, or never arrives.
ServeLate ==
    \E req \in late :
        /\ late' = late \ {req}
        /\ \/ Handle(req) /\ entitled' = Kept
           \/ UNCHANGED <<server, keyfile, cells, entitled>>
        /\ undisturbed' = FALSE
        /\ UNCHANGED <<client, faults>>

\* Someone else creates a cell: with the headers, or with no name in them and
\* a body that may name its creator.
Stranger ==
    /\ faults < MaxFaults /\ faults' = faults + 1
    /\ Creates(script) + LateCreates < Cardinality(Unborn)
    /\ \/ \E agent \in Agents, key \in Keys \cup {NoKey, Placeholder} :
             late' = late \cup {[Identified("create") EXCEPT !.agent = agent, !.key = key]}
       \/ \E none \in {NoAgent, EmptyAgent}, key \in {NoKey, Placeholder},
             created_by \in Agents \cup {NoAgent} :
             late' = late \cup {[Identified("create") EXCEPT !.agent = none, !.key = key,
                                                             !.created_by = created_by]}
    /\ UNCHANGED <<client, server, keyfile, cells, history>>

Start ==
    /\ Startup
    /\ entitled' = IF Accepts(keyfile) THEN entitled ELSE {}
    /\ UNCHANGED <<client, late, faults, undisturbed>>

End == CloseStorage /\ UNCHANGED <<client, late, faults, history>>
Repair == RepairKeyFile /\ UNCHANGED <<client, late, faults, history>>

Disrupt ==
    /\ faults < MaxFaults /\ faults' = faults + 1
    /\ StopTask \/ Kill \/ ChangeKeyFile
    /\ undisturbed' = FALSE
    /\ UNCHANGED <<client, late, entitled>>

Others ==
    /\ \E c \in CellId : LifecyclePass(c) \/ \E agent \in Agents \ {Me} : OthersWrite(c, agent)
    /\ entitled' = Kept
    /\ undisturbed' = FALSE
    /\ UNCHANGED <<client, late, faults>>

-----------------------------------------------------------------------------
NoCell == [status |-> "unborn", created_by |-> NoAgent, readers |-> {}, writers |-> {},
           full |-> FALSE]

\* The store may hold a cell another agent shares.
Shared == {[status |-> "active", created_by |-> agent, readers |-> {Me},
            writers |-> writers, full |-> FALSE] :
              agent \in Agents \ {Me}, writers \in SUBSET {Me}}

Init ==
    /\ process = "down" /\ keys = Unset /\ configured = Unset
    /\ task = "none" /\ storage = "closed"
    /\ keyfile \in KeyFiles
    /\ \E first \in Shared \cup {NoCell} :
          cells = [c \in CellId |-> IF c = 1 THEN first ELSE NoCell]
    /\ op = "none" /\ target = 0 /\ script = <<>> /\ pc = "idle" /\ reply = NoReply
    /\ result = NoResult
    /\ late = {} /\ faults = 0
    /\ entitled = {c \in CellId : cells[c].status # "unborn" /\ Me \in cells[c].writers}
    /\ undisturbed = FALSE

Next ==
    \/ Call \/ Retry \/ Receive \/ ConnectionRefused \/ Lose
    \/ Serve \/ ServeLate \/ Stranger
    \/ Start \/ End \/ Repair \/ Disrupt \/ Others

Spec == Init /\ [][Next]_vars

\* The client goes on with its call and repeats what went unanswered, the
\* process serves and is started when it is down, and the operator repairs a
\* file that keeps it from starting.
FairSpec ==
    /\ Spec
    /\ WF_vars(Receive) /\ WF_vars(Serve) /\ WF_vars(ConnectionRefused)
    /\ WF_vars(Retry) /\ WF_vars(Start) /\ WF_vars(End) /\ WF_vars(Repair)

-----------------------------------------------------------------------------
(* Properties.                                                              *)

\* The variables stay in their sets; requests are pending only inside a call.
TypeOK ==
    /\ process \in {"down", "serving", "stopping"} /\ storage \in {"open", "closed"}
    /\ keyfile \in KeyFiles /\ keys \in KeyStore \cup {Unset}
    /\ \A c \in CellId : cells[c].status \in Status
    /\ pc \in {"idle", "waiting", "answered"}
    /\ (pc = "idle") = (script = <<>>)
    /\ ToSet(script) \cup late \subseteq Request
    /\ entitled \subseteq CellId
    /\ (process = "serving") = (storage = "open" /\ process # "stopping")

\* The background loop, which lives until the process stops, never runs over
\* a closed adapter.
LoopRunsOverOpenStorage == task = "scheduled" => storage = "open"

\* A process started with a key file creates a cell only for a request that
\* has the header, and the key the file held at the start for its name: a file
\* broken or replaced since, or a request without the header, changes nothing.
\* The cell is in the header's name, which is proven when the file lists it,
\* but an unlisted name has the placeholder for its key, and so has an empty
\* header, behind which the body names the creator.
CreatorsAreChecked ==
    [][\A c \in CellId :
         cells[c].status = "unborn" /\ cells'[c].status # "unborn" /\ configured # Unset =>
           /\ configured # Malformed
           /\ \E req \in late \cup ToSet(script) :
                /\ req.route = "create" /\ req.agent # NoAgent
                /\ req.key = Expected(configured, req.agent)
                /\ cells'[c].created_by =
                     IF req.agent = EmptyAgent THEN req.created_by ELSE req.agent]_vars

\* A forget that returned has deleted the cell, and nothing brings it back.
ReturnedForgetIsForgotten ==
    result.op = "forget" /\ result.outcome = "returned" => Gone(result.cell)

\* A forget the server refuses, for a cell the agent may write, finds it
\* already gone: it is never told 409, and repeating a call whose answer was
\* lost ends in 204 or in the 403 of a cell that is gone.
RefusedForgetIsForgotten ==
    /\ result.op = "forget" /\ result.outcome = "raised" /\ result.status # NoStatus
    /\ result.cell \in entitled
    => Gone(result.cell)

\* A forget, repeated while it goes unanswered, is carried out, whatever is
\* lost and however often the process stops, unless the agent loses its right
\* to the cell or its key.
ForgetGetsThrough ==
    \A c \in CellId :
        pc # "idle" /\ op = "forget" /\ target = c /\ c \in entitled
        ~> Gone(c) \/ c \notin entitled

\* What a chain loads when its call to messages returns.
Shown == {c \in CellId : cells[c].status = "active" /\ Reads(Me, c)}
HistoryLoaded ==
    /\ pc = "idle" /\ result.op = "messages" /\ result.status = 200 /\ undisturbed
    /\ Cardinality(Shown) <= HISTORY_PAGE

\* The history a chain loads, while nobody else writes, is every active cell
\* the agent may read, each once, as far as one page goes. Cells of different
\* seconds are oldest first, and so are those within one second, but for the
\* ones created on the whole second: they come last, where the comment on the
\* sort takes the order of the text for that of the times.
HistoryIsWhole ==
    HistoryLoaded =>
        /\ ToSet(result.page) = Shown /\ Len(result.page) = Cardinality(Shown)
        /\ \A i, j \in DOMAIN result.page :
              LET first == CreatedAt[result.page[i]]
                  second == CreatedAt[result.page[j]]
              IN  i < j =>
                    \/ first.second < second.second
                    \/ /\ first.second = second.second
                       /\ second.fraction = 0 \/ first.fraction \in 1..second.fraction
=============================================================================

------------------------------ MODULE Serving ------------------------------
(* The HTTP face of one server process: its start and stop (lifespan), the   *)
(* key store it reads once, when it starts, the identity gate before the     *)
(* routes, and what each route answers. A cell is what the answers depend    *)
(* on; AmpServer models what the same handlers do with time and scores. All  *)
(* cells have one owner and type, the ones the calls of the SDK name; the    *)
(* owner is no agent, and readers and writers are whom the policy lets in.   *)
EXTENDS Integers, Sequences, FiniteSets, SequencesExt, FiniteSetsExt

CONSTANTS
    Agents,
    Keys,          \* the API keys an operator has issued
    NoAgent,       \* no X-AMP-Agent-ID, or no created_by in the body
    EmptyAgent,    \* X-AMP-Agent-ID is there, and empty
    NoKey,         \* no X-AMP-API-Key, or no entry in the key store
    Placeholder,   \* the key verify compares with when the agent has no entry
    Unset,         \* AMP_API_KEYS_FILE is not set
    Malformed,     \* a key file that load_store refuses
    KeyFiles,      \* what an operator may put behind AMP_API_KEYS_FILE
    LifecycleEnabled, \* AMP_LIFECYCLE_ENABLED
    MaxCells,      \* bound on the cells ever created
    MAX_PAGE_SIZE

\* A key store maps agents to keys; a digest is stood for by its key.
KeyStore == [Agents -> Keys \cup {NoKey}]

ASSUME KeyAssumption ==
    /\ NoKey \notin Keys \cup {Placeholder}
    /\ NoAgent \notin Agents /\ EmptyAgent \notin Agents \cup {NoAgent}
    /\ KeyFiles \subseteq KeyStore \cup {Unset, Malformed}
ASSUME LifecycleAssumption == LifecycleEnabled \in BOOLEAN
ASSUME PageAssumption == MAX_PAGE_SIZE \in Nat /\ MaxCells \in Nat

CellId == 1..MaxCells
Status == {"unborn", "active", "stale", "archived", "deleted", "purged"}

VARIABLES
    process,    \* "down", "serving", or "stopping" in lifespan's finally
    keyfile,    \* what AMP_API_KEYS_FILE holds now
    keys,       \* _api_key_store: Unset for None
    configured, \* history: what keyfile held when the process started
    task,       \* the background loop: "scheduled" or "none"
    storage,    \* the adapter: "open" or "closed"
    cells

server == <<process, keys, configured, task, storage>>

-----------------------------------------------------------------------------
(* The life of the process.                                                 *)

\* store_from_env: the key store; a file that is no clean mapping raises.
StoreFromEnv(file) == file

\* Fault: the adapter is not built before requests are served.
StartupUnbuilt ==
    /\ process = "down"
    /\ StoreFromEnv(keyfile) # Malformed
    /\ process' = "serving"
    /\ keys' = StoreFromEnv(keyfile)
    /\ configured' = keyfile
    /\ task' = IF LifecycleEnabled THEN "scheduled" ELSE "none"
    /\ UNCHANGED <<storage, keyfile, cells>>

\* Everything before lifespan's yield. An exception ends the start.
Startup ==
    /\ process = "down"
    /\ StoreFromEnv(keyfile) # Malformed
    /\ process' = "serving" /\ storage' = "open"
    /\ keys' = StoreFromEnv(keyfile)
    /\ configured' = keyfile
    /\ task' = IF LifecycleEnabled THEN "scheduled" ELSE "none"
    /\ UNCHANGED <<keyfile, cells>>

\* Fault: the adapter is closed before the loop is cancelled.
StopTaskAfterStorage ==
    /\ process = "serving"
    /\ process' = "stopping" /\ storage' = "closed"
    /\ UNCHANGED <<keyfile, keys, configured, task, cells>>

\* lifespan's finally: first the loop is cancelled ...
StopTask ==
    /\ process = "serving"
    /\ process' = "stopping" /\ task' = "none"
    /\ UNCHANGED <<keyfile, keys, configured, storage, cells>>

\* ... and awaited, then the adapter is closed and the process ends.
CloseStorage ==
    /\ process = "stopping"
    /\ process' = "down" /\ storage' = "closed" /\ task' = "none"
    /\ keys' = Unset /\ configured' = Unset
    /\ UNCHANGED <<keyfile, cells>>

Kill ==
    /\ process # "down"
    /\ process' = "down" /\ storage' = "closed" /\ task' = "none"
    /\ keys' = Unset /\ configured' = Unset
    /\ UNCHANGED <<keyfile, cells>>

-----------------------------------------------------------------------------
(* Requests and the identity gate.                                          *)

Request == [route      : {"create", "get", "archive", "delete", "list", "health"},
            agent      : Agents \cup {NoAgent, EmptyAgent},
            key        : Keys \cup {NoKey, Placeholder},
            created_by : Agents \cup {NoAgent},
            cell       : 0..MaxCells,
            size       : {"small", "full", "oversize"},
            limit      : Nat]

\* What verify compares with: the agent's entry in a key store, and the
\* placeholder for an agent without one. No file has an entry for the empty name.
Expected(store, agent) ==
    IF agent \in Agents /\ store[agent] # NoKey THEN store[agent] ELSE Placeholder

Verify(agent, key) == key = Expected(keys, agent)

\* Fault: a request without the header is left to the route.
UnauthenticatedWithHeader(req) ==
    keys # Unset /\ req.agent # NoAgent /\ (req.key = NoKey \/ ~Verify(req.agent, req.key))

\* verified_agent_id raises: keys are configured and the caller proves none.
Unauthenticated(req) ==
    keys # Unset /\ (req.agent = NoAgent \/ req.key = NoKey \/ ~Verify(req.agent, req.key))

\* The agent a create acts for: the header or, when it is absent or empty, the
\* body.
Creator(req) == IF req.agent \in Agents THEN req.agent ELSE req.created_by

-----------------------------------------------------------------------------
(* Routes: the status code of an answer, and what it leaves in the store.   *)

Unborn == {c \in CellId : cells[c].status = "unborn"}
Gone(c) == cells[c].status \in {"deleted", "purged"}
Reachable(c) == cells[c].status \in {"active", "stale", "archived"}
Reads(agent, c) == agent = cells[c].created_by \/ agent \in cells[c].readers
Writes(agent, c) == agent = cells[c].created_by \/ agent \in cells[c].writers

CreateCode(req) ==
    IF Unauthenticated(req) \/ Creator(req) = NoAgent THEN 401
    ELSE IF req.size = "oversize" THEN 413
    ELSE 201

\* Fault: archiving an archived cell is refused as a transition.
ArchiveCodeStrict(req) ==
    IF Unauthenticated(req) \/ req.agent \notin Agents THEN 401
    ELSE IF ~(Reachable(req.cell) /\ Writes(req.agent, req.cell)) THEN 403
    ELSE IF cells[req.cell].status = "archived" THEN 409
    ELSE IF cells[req.cell].full THEN 413
    ELSE 200

\* PATCH of lifecycle.status to archived, which any cell that is not deleted
\* may take; the stamped cell of one that is full exceeds the size limit.
ArchiveCode(req) ==
    IF Unauthenticated(req) \/ req.agent \notin Agents THEN 401
    ELSE IF ~(Reachable(req.cell) /\ Writes(req.agent, req.cell)) THEN 403
    ELSE IF cells[req.cell].full THEN 413
    ELSE 200

DeleteCode(req) ==
    IF Unauthenticated(req) \/ req.agent \notin Agents THEN 401
    ELSE IF ~(Reachable(req.cell) /\ Writes(req.agent, req.cell)) THEN 403
    ELSE IF cells[req.cell].status # "archived" THEN 409
    ELSE 204

GetCode(req) ==
    IF Unauthenticated(req) \/ req.agent \notin Agents THEN 401
    ELSE IF ~(Reachable(req.cell) /\ Reads(req.agent, req.cell)) THEN 403
    ELSE 200

\* The identity dependency answers before the query parameters are checked.
ListCode(req) ==
    IF Unauthenticated(req) THEN 401
    ELSE IF req.limit > MAX_PAGE_SIZE THEN 422
    ELSE IF req.agent \notin Agents THEN 401
    ELSE 200

Code(req) ==
    CASE req.route = "create" -> CreateCode(req)
      [] req.route = "archive" -> ArchiveCode(req)
      [] req.route = "delete" -> DeleteCode(req)
      [] req.route = "get" -> GetCode(req)
      [] req.route = "list" -> ListCode(req)
      [] OTHER -> 200

SetStatus(c, status) == [cells EXCEPT ![c].status = status]

\* The store after a request: only an accepted write changes it.
After(req) ==
    CASE Code(req) = 201 ->
            [cells EXCEPT ![Min(Unborn)] =
                [status |-> "active", created_by |-> Creator(req), readers |-> {},
                 writers |-> {}, full |-> req.size = "full"]]
      [] req.route = "archive" /\ Code(req) = 200 -> SetStatus(req.cell, "archived")
      [] Code(req) = 204 -> SetStatus(req.cell, "deleted")
      [] OTHER -> cells

\* The pages a listing may answer: readable active cells, in the order of the
\* store, which no clause fixes.
Pages(req) ==
    IF req.route # "list" \/ Code(req) # 200 THEN {<<>>}
    ELSE LET shown == {c \in CellId : cells[c].status = "active" /\ Reads(req.agent, c)}
         IN UNION {SetToSeqs(s) : s \in kSubset(Min({req.limit, Cardinality(shown)}), shown)}

\* One request handled by the process.
Handle(req) ==
    /\ process = "serving"
    /\ cells' = After(req)
    /\ UNCHANGED <<server, keyfile>>

-----------------------------------------------------------------------------
(* The other writers of the store.                                          *)

\* The background loop runs a pass, which may move any cell on.
LifecyclePass(c) ==
    /\ task = "scheduled"
    /\ ~cells[c].full
    /\ \/ cells[c].status = "active" /\ cells' = SetStatus(c, "stale")
       \/ cells[c].status = "stale" /\ cells' = SetStatus(c, "active")
       \/ cells[c].status = "stale" /\ cells' = SetStatus(c, "archived")
       \/ cells[c].status = "deleted" /\ cells' = SetStatus(c, "purged")
    /\ UNCHANGED <<server, keyfile>>

\* Another agent that may write the cell archives it, deletes it once
\* archived, or withdraws what its policy gave to agents.
OthersWrite(c, agent) ==
    /\ Reachable(c) /\ Writes(agent, c)
    /\ \/ ~cells[c].full /\ cells' = SetStatus(c, "archived")
       \/ cells[c].status = "archived" /\ cells' = SetStatus(c, "deleted")
       \/ \E keep \in SUBSET cells[c].writers : cells' = [cells EXCEPT ![c].writers = keep]
    /\ cells' # cells
    /\ process = "serving"
    /\ UNCHANGED <<server, keyfile>>

\* The operator changes the key file; a running process does not notice.
ChangeKeyFile ==
    /\ keyfile' \in KeyFiles \ {keyfile}
    /\ UNCHANGED <<server, cells>>

RepairKeyFile ==
    /\ keyfile = Malformed
    /\ keyfile' \in KeyFiles \ {Malformed}
    /\ UNCHANGED <<server, cells>>
=============================================================================

----------------------------- MODULE AmpCluster -----------------------------
(* Several processes over one store: API servers sharing a database, MCP    *)
(* servers sharing a persistence directory. Each statement sent to the      *)
(* store is atomic and committed at once; between the statements of one     *)
(* handler or pass the other processes run. A process runs one handler at a *)
(* time, none of which ever suspends.                                       *)
(*                                                                          *)
(* A handler is an access check, one statement, and then storage calls. A   *)
(* storage call on a stored cell is two statements: it reads the document,  *)
(* computes the whole new one, and writes that back by id. The scoring      *)
(* limiter, private to each process, only ever refuses; it is left out.     *)
EXTENDS MemoryCells, Sequences, FiniteSets

CONSTANTS
    CellId,
    Servers,         \* amp_server.main processes
    McpServers,      \* amp_server.mcp_server processes
    Patches,         \* the PATCH bodies clients send
    PurgeRetention,  \* AMP_PURGE_RETENTION
    Nothing,         \* no document in hand
    CallTime,        \* longest time between the two statements of a call
    MaxCrashes       \* bound on the crashes

Processes == Servers \cup McpServers

ASSUME ClusterAssumption ==
    /\ Patches \subseteq Patch
    /\ PurgeRetention \in BOOLEAN
    /\ CallTime \in Nat
    /\ MaxCrashes \in Nat
ASSUME NothingAssumption == Nothing \notin [cell : Cell, at : Time]
ASSUME FiniteAssumption == IsFiniteSet(CellId)

VARIABLES
    now,      \* the wall clock
    store,    \* the table or collection
    minted,   \* ids handed out so far
    calls,    \* per process: the storage calls its handler has still to make
    hand,     \* per process: the document read and changed but not yet written
    since,    \* history: when each id last changed status, was minted or purged
    crashes   \* crashes so far

vars == <<now, store, minted, calls, hand, since, crashes>>

-----------------------------------------------------------------------------
\* Storage calls. `decay` is an update of process_all and `purge` a call of
\* purge_expired, both decided on a snapshot.
GetCall(c) == [op |-> "get", c |-> c]
UpdateCall(c, patch) == [op |-> "update", c |-> c, patch |-> patch]
DecayCall(c, cell) == [op |-> "decay", c |-> c, snapshot |-> cell]
MarkDeletedCall(c) == [op |-> "mark_deleted", c |-> c]
PurgeCall(c, cell) == [op |-> "purge", c |-> c, snapshot |-> cell]
ListCall == [op |-> "list_all"]

SetStatusTo(status) == [EmptyPatch EXCEPT !.status = status]

Present(c) == store[c] # NoCell
StatusIn(s, c) == IF s[c] = NoCell THEN "none" ELSE s[c].status
SinceAfter(s) ==
    [c \in CellId |-> IF StatusIn(s, c) = StatusIn(store, c) THEN since[c] ELSE now]

Idle(p) == calls[p] = <<>>

\* The orders in which a listing may return the cells of S.
Listings(S) == {s \in [1..Cardinality(S) -> S] : \A c \in S : \E i \in DOMAIN s : s[i] = c}

-----------------------------------------------------------------------------
(* Requests: the access check, and the storage calls that follow it.        *)

Begin(p, todo) ==
    /\ Idle(p)
    /\ calls' = [calls EXCEPT ![p] = todo]
    /\ UNCHANGED <<now, store, minted, hand, since, crashes>>

StartGet(p, agent, c) ==
    /\ Present(c) /\ store[c].status # "deleted" /\ MayRead(store[c], agent)
    /\ Begin(p, <<GetCall(c)>>)

StartUpdate(p, agent, c) ==
    /\ Present(c) /\ store[c].status # "deleted" /\ MayWrite(store[c], agent)
    /\ \E patch \in Patches : Begin(p, <<UpdateCall(c, patch)>>)

StartDelete(p, agent, c) ==
    /\ Present(c) /\ store[c].status # "deleted" /\ MayWrite(store[c], agent)
    /\ Begin(p, <<MarkDeletedCall(c)>>)

\* amp_forget: archive, then delete. It does not look at the status.
StartForget(p, agent, c) ==
    /\ Present(c) /\ MayWrite(store[c], agent)
    /\ Begin(p, <<UpdateCall(c, SetStatusTo("archived")), MarkDeletedCall(c)>>)

\* run_lifecycle: one snapshot of the store for the decay, then one for the purge.
StartPass(p) ==
    /\ \E order \in Listings({c \in CellId : StatusIn(store, c) \in {"active", "stale"}}) :
          Begin(p, [i \in DOMAIN order |-> DecayCall(order[i], store[order[i]])]
                   \o IF PurgeRetention THEN <<ListCall>> ELSE <<>>)

\* POST /memories and amp_remember: one INSERT.
Create(p, agent, c) ==
    /\ Idle(p) /\ c \notin minted
    /\ \E owner \in Agents, lifetime \in Lifetimes, body \in Bodies, policy \in Policies :
          LET cell == NewCell(agent, owner, lifetime, body, policy, now) IN
          ~TooLarge(cell) /\ store' = [store EXCEPT ![c] = cell]
    /\ minted' = minted \cup {c}
    /\ since' = SinceAfter(store')
    /\ UNCHANGED <<now, calls, hand, crashes>>

-----------------------------------------------------------------------------
(* Storage calls.                                                           *)

PatchOf(call) ==
    IF call.op = "decay" THEN SetStatusTo(Evaluated(call.snapshot, now)) ELSE call.patch

\* The engine passes over a cell without a statement when the snapshot says
\* its status stands or its window has not elapsed, and over a purge the
\* adapter says is too early.
PassedOver(call) ==
    \/ call.op = "decay" /\ Evaluated(call.snapshot, now) = call.snapshot.status
    \/ call.op = "purge" /\ ~RetentionElapsed(call.snapshot, now)
    \/ /\ call.op = "purge" /\ StatusIn(store, call.c) = "deleted"
       /\ ~RetentionElapsed(store[call.c], now)

\* What the call raises once it has read: not found, 409, 413. Any of these
\* ends the handler, or the pass.
Raises(call) ==
    \/ ~Present(call.c)
    \/ call.op \in {"update", "decay"} /\ UpdateRefused(store[call.c], PatchOf(call), now)
    \/ call.op = "mark_deleted" /\ store[call.c].status # "archived"
    \/ call.op = "purge" /\ store[call.c].status # "deleted"

\* The document the call will write over the one it has read. A GET leaves
\* access_count with so many digits.
NewDocument(call, digits) ==
    LET cell == store[call.c] IN
    CASE call.op = "get"                -> Boosted(cell, now, digits)
      [] call.op \in {"update", "decay"} -> Updated(cell, PatchOf(call), now)
      [] call.op = "mark_deleted"       -> MarkedDeleted(cell, now)
      [] OTHER                          -> cell

\* The first statement of the next call.
Read(p) ==
    /\ ~Idle(p) /\ hand[p] = Nothing
    /\ LET call == Head(calls[p]) IN
       /\ call.op # "list_all"
       /\ IF PassedOver(call) THEN
             calls' = [calls EXCEPT ![p] = Tail(@)] /\ UNCHANGED hand
          ELSE IF Raises(call) THEN
             calls' = [calls EXCEPT ![p] = <<>>] /\ UNCHANGED hand
          ELSE
             /\ \E digits \in DigitsAfterAccess(store[call.c].digits) :
                   hand' = [hand EXCEPT ![p] = [cell |-> NewDocument(call, digits), at |-> now]]
             /\ UNCHANGED calls
    /\ UNCHANGED <<now, store, minted, since, crashes>>

\* Fault: the write inserts the row when it is gone.
WrittenUpsert(call, cell) ==
    [store EXCEPT ![call.c] = IF call.op = "purge" THEN NoCell ELSE cell]

\* UPDATE or DELETE ... WHERE id: nothing happens to a row that is gone.
Written(call, cell) ==
    IF Present(call.c)
    THEN [store EXCEPT ![call.c] = IF call.op = "purge" THEN NoCell ELSE cell]
    ELSE store

\* The second statement.
WriteBack(p) ==
    /\ hand[p] # Nothing
    /\ store' = Written(Head(calls[p]), hand[p].cell)
    /\ since' = SinceAfter(store')
    /\ hand' = [hand EXCEPT ![p] = Nothing]
    /\ calls' = [calls EXCEPT ![p] = Tail(@)]
    /\ UNCHANGED <<now, minted, crashes>>

\* purge_expired: the second listing of a pass. It passes over the cells that
\* are not deleted.
ListExpired(p) ==
    /\ ~Idle(p) /\ Head(calls[p]) = ListCall
    /\ \E order \in Listings({c \in CellId : StatusIn(store, c) = "deleted"}) :
          calls' = [calls EXCEPT ![p] =
                       [i \in DOMAIN order |-> PurgeCall(order[i], store[order[i]])]]
    /\ UNCHANGED <<now, store, minted, hand, since, crashes>>

Crash(p) ==
    /\ ~Idle(p)
    /\ crashes < MaxCrashes
    /\ crashes' = crashes + 1
    /\ calls' = [calls EXCEPT ![p] = <<>>]
    /\ hand' = [hand EXCEPT ![p] = Nothing]
    /\ UNCHANGED <<now, store, minted, since>>

\* Time passes, but no call stays between its statements beyond CallTime.
Tick ==
    /\ now < MaxTime
    /\ \A p \in Processes : hand[p] # Nothing => now < hand[p].at + CallTime
    /\ now' = now + 1
    /\ UNCHANGED <<store, minted, calls, hand, since, crashes>>

-----------------------------------------------------------------------------
Init ==
    /\ now = 0
    /\ store = [c \in CellId |-> NoCell]
    /\ minted = {}
    /\ calls = [p \in Processes |-> <<>>]
    /\ hand = [p \in Processes |-> Nothing]
    /\ since = [c \in CellId |-> 0]
    /\ crashes = 0

Request(p, agent, c) ==
    \/ Create(p, agent, c)
    \/ p \in Servers /\ (StartGet(p, agent, c) \/ StartUpdate(p, agent, c) \/ StartDelete(p, agent, c))
    \/ p \in McpServers /\ StartForget(p, agent, c)

Proceed(p) == Read(p) \/ WriteBack(p) \/ ListExpired(p)

Next ==
    \/ \E p \in Processes, agent \in Agents, c \in CellId : Request(p, agent, c)
    \/ \E p \in Servers : StartPass(p)
    \/ \E p \in Processes : Proceed(p) \/ Crash(p)
    \/ Tick

Spec == Init /\ [][Next]_vars

\* A started handler goes on, the background task of every server runs again
\* and again between the requests, and time passes.
Fairness ==
    /\ \A p \in Processes : WF_vars(Proceed(p))
    /\ \A p \in Servers : SF_vars(StartPass(p))
    /\ WF_vars(Tick)

-----------------------------------------------------------------------------
(* Properties.                                                              *)

Call ==
    {GetCall(c) : c \in CellId} \cup {MarkDeletedCall(c) : c \in CellId}
    \cup {ListCall}
    \cup [op : {"update"}, c : CellId, patch : Patch]
    \cup [op : {"decay", "purge"}, c : CellId, snapshot : Cell]

\* Every variable stays in its set, and a document is in hand only in the
\* middle of a call on a cell.
TypeOK ==
    /\ now \in Time
    /\ store \in [CellId -> Cell \cup {NoCell}]
    /\ minted \subseteq CellId
    /\ calls \in [Processes -> Seq(Call)]
    /\ hand \in [Processes -> [cell : Cell, at : Time] \cup {Nothing}]
    /\ since \in [CellId -> Time]
    /\ crashes \in 0..MaxCrashes
    /\ \A p \in Processes : hand[p] # Nothing => ~Idle(p) /\ Head(calls[p]) # ListCall

\* A purged cell never comes back, whatever document of it some process still
\* had in hand.
PurgedForGood ==
    [][\A c \in CellId : c \in minted /\ ~Present(c) => store'[c] = NoCell]_vars

\* What leaves the store had been deleted, without interruption, for the whole
\* retention window, short of the time its DELETE took between its statements,
\* although the purge reads the cell and removes it in two statements. Two
\* processes, with RetentionDays > 2 * CallTime: a document read before the
\* DELETE is then written back before the window ends.
PurgesOnlyAfterRetention ==
    [][\A c \in CellId : Present(c) /\ store'[c] = NoCell =>
          store[c].status = "deleted" /\ now + CallTime >= since[c] + RetentionDays]_vars

\* A deleted cell is purged (or revived, see DeletedIsTerminal) in the end,
\* although an error on another cell ends a pass before its purges. Two servers
\* and no other process, no cell near the size limit, CallTime < RetentionDays:
\* the cell that ends a pass was archived or purged by the other server since the
\* pass listed it, and each of the finitely many cells is archived for good, and
\* purged, once. With a third process it fails: two end each other's passes for
\* ever over a cell it archives and they make active again.
DeletedLeaves ==
    \A c \in CellId :
        StatusIn(store, c) = "deleted" /\ since[c] + RetentionDays <= MaxTime
        ~> StatusIn(store, c) # "deleted"

\* lifecycle.md: "`deleted` is terminal". A deleted cell stays deleted until
\* it is purged.
DeletedIsTerminal ==
    [][\A c \in CellId : StatusIn(store, c) = "deleted"
          => StatusIn(store', c) \in {"deleted", "none"}]_vars
=============================================================================

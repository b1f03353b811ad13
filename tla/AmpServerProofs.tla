-------------------------- MODULE AmpServerProofs --------------------------
(* What one server process keeps, for every set of cells, agents, inputs    *)
(* and periods. Every action is first reduced to what it does to each cell  *)
(* (CellStep); the invariants and the refinement follow from that.          *)
EXTENDS AmpServer, RateLimitProofs

-----------------------------------------------------------------------------
(* The cell rules keep the types, and what they leave in status and stamps. *)

LEMMA TimeType == Time \subseteq Nat /\ \A t \in Time : t \in Int
BY TimeAssumption DEF Time

LEMMA OrType ==
    ASSUME NEW S, NEW value \in Optional(S), NEW default, default \in S
    PROVE  Or(value, default) \in S
BY DEF Optional, Or

\* An optional field stays optional.
LEMMA OrOptionalType ==
    ASSUME NEW S, NEW value \in Optional(S), NEW default \in Optional(S)
    PROVE  Or(value, default) \in Optional(S)
BY DEF Optional, Or

LEMMA NewCellType ==
    ASSUME NEW agent \in Agents, NEW owner \in Agents, NEW lifetime \in Lifetimes,
           NEW body \in Bodies, NEW policy \in Policies, NEW t \in Time
    PROVE  NewCell(agent, owner, lifetime, body, policy, t) \in Cell
BY DataAssumption DEF NewCell, Cell, Optional, Status, Digits

LEMMA BoostedType ==
    ASSUME NEW cell \in Cell, NEW t \in Time, NEW digits \in Digits
    PROVE  /\ Boosted(cell, t, digits) \in Cell
           /\ Boosted(cell, t, digits).status = cell.status
           /\ Boosted(cell, t, digits).last_updated_at = cell.last_updated_at
BY DEF Boosted, Cell, Optional

LEMMA MarkedDeletedType ==
    ASSUME NEW cell \in Cell, NEW t \in Time
    PROVE  /\ MarkedDeleted(cell, t) \in Cell
           /\ MarkedDeleted(cell, t).status = "deleted"
           /\ MarkedDeleted(cell, t).last_updated_at = t
BY DEF MarkedDeleted, Cell, Optional, Status

\* A PATCH leaves a cell, with the status it asked for or the one it had.
LEMMA UpdatedType ==
    ASSUME NEW cell \in Cell, NEW patch \in Patch, NEW t \in Time
    PROVE  /\ Updated(cell, patch, t) \in Cell
           /\ Updated(cell, patch, t).status = Or(patch.status, cell.status)
           /\ Updated(cell, patch, t).last_updated_at = t
<1> DEFINE s == Or(patch.status, cell.status)
           l == Or(patch.lifetime, cell.lifetime)
           d == Or(patch.digits, cell.digits)
           b == Or(patch.body, cell.body)
           a == Or(patch.last_accessed_at, cell.last_accessed_at)
           p == Or(patch.policy, cell.policy)
<1>1. s \in Status /\ l \in Int /\ d \in Digits /\ b \in Nat /\ p \in AccessPolicy
  BY OrType DEF Cell, Patch
<1>2. a \in Optional(Time)
  BY OrOptionalType DEF Cell, Patch
<1>3. t \in Optional(Time)
  BY DEF Optional
<1>4. Updated(cell, patch, t)
        = [created_at |-> cell.created_at, last_accessed_at |-> a, last_updated_at |-> t,
           status |-> s, lifetime |-> l, digits |-> d, body |-> b,
           owner_id |-> cell.owner_id,
           created_by |-> cell.created_by, policy |-> p]
  <2> HIDE DEF s, l, d, b, a, p
  <2>1. Merged(cell, patch) = [cell EXCEPT !.status = s, !.lifetime = l,
                                           !.digits = d, !.body = b,
                                           !.last_accessed_at = a, !.policy = p]
    BY DEF Merged, s, l, d, b, a, p
  <2>2. cell = [created_at |-> cell.created_at, last_accessed_at |-> cell.last_accessed_at,
                last_updated_at |-> cell.last_updated_at, status |-> cell.status,
                lifetime |-> cell.lifetime, digits |-> cell.digits,
                body |-> cell.body, owner_id |-> cell.owner_id,
                created_by |-> cell.created_by, policy |-> cell.policy]
    BY DEF Cell
  <2>3. Merged(cell, patch)
          = [created_at |-> cell.created_at, last_accessed_at |-> a,
             last_updated_at |-> cell.last_updated_at, status |-> s, lifetime |-> l,
             digits |-> d, body |-> b, owner_id |-> cell.owner_id, created_by |-> cell.created_by,
             policy |-> p]
    BY <2>1, <2>2
  <2> QED
    BY <2>3 DEF Updated
<1> HIDE DEF s, l, d, b, a, p
<1>5. Updated(cell, patch, t) \in Cell
  BY <1>1, <1>2, <1>3, <1>4 DEF Cell
<1> QED
  BY <1>4, <1>5 DEF s

\* What the engine may decide about a cell it looks at.
LEMMA EvaluatedProperties ==
    ASSUME NEW cell \in Cell, NEW t \in Time, cell.status \in {"active", "stale"}
    PROVE  /\ Evaluated(cell, t) \in {"active", "stale", "archived"}
           /\ Evaluated(cell, t) = "archived" =>
                cell.status = "stale" /\ StaleAge(cell, t) >= ArchiveStaleDays
<1> DEFINE reaches == ScoreReachesThreshold(cell, t)
           old == StaleAge(cell, t) >= ArchiveStaleDays
<1> HIDE DEF reaches, old
<1>1. Evaluated(cell, t) =
        CASE cell.status = "stale" /\ reaches -> "active"
          [] cell.status = "stale" /\ ~reaches /\ old -> "archived"
          [] cell.status = "active" /\ ~reaches -> "stale"
          [] OTHER -> cell.status
  BY DEF Evaluated, reaches, old
<1>2. CASE reaches
  BY <1>1, <1>2
<1>3. CASE ~reaches /\ old
  BY <1>1, <1>3 DEF old
<1>4. CASE ~reaches /\ ~old
  BY <1>1, <1>4
<1> QED
  BY <1>2, <1>3, <1>4

-----------------------------------------------------------------------------
(* What one step does to one cell.                                          *)

TypeInv == TypeOK /\ Consistent(seen)

Kept(c) == store'[c] = store[c]
Born(c) ==
    /\ ~Present(c) /\ c \notin minted /\ c \in minted'
    /\ store'[c] \in Cell /\ store'[c].status = "active"
Read(c) ==
    /\ Present(c) /\ store[c].status # "deleted"
    /\ store'[c] \in Cell
    /\ store'[c].status = store[c].status
    /\ store'[c].last_updated_at = store[c].last_updated_at
Written(c) ==
    /\ Present(c) /\ store[c].status # "deleted"
    /\ store'[c] \in Cell
    /\ store'[c].last_updated_at = now
    /\ TransitionAllowed(store[c].status, store'[c].status)
Deleted(c) ==
    /\ Present(c) /\ store[c].status = "archived"
    /\ store'[c] \in Cell
    /\ store'[c].last_updated_at = now
    /\ store'[c].status = "deleted"
Purged(c) ==
    /\ Present(c) /\ store[c].status = "deleted"
    /\ RetentionElapsed(store[c], now)
    /\ store'[c] = NoCell

CellStep(c) == Kept(c) \/ Born(c) \/ Read(c) \/ Written(c) \/ Deleted(c) \/ Purged(c)

\* A step of the server other than the passing of time.
ServerStep ==
    /\ now' = now
    /\ store' \in [CellId -> Cell \cup {NoCell}]
    /\ since' = SinceAfter(store')
    /\ minted \subseteq minted' /\ minted' \subseteq CellId
    /\ \A c \in minted' \ minted : store'[c] # NoCell
    /\ \A c \in CellId : CellStep(c)

LEMMA CreateMemoryStep ==
    ASSUME TypeInv, NEW agent \in Agents, NEW c \in CellId,
           CreateMemory(agent, c), ~Present(c)
    PROVE  ServerStep
<1> USE DEF TypeInv, TypeOK
<1>1. PICK owner \in Agents, lifetime \in Lifetimes, body \in Bodies, policy \in Policies :
        /\ c \notin minted
        /\ Write(c, NewCell(agent, owner, lifetime, body, policy, now))
        /\ minted' = minted \cup {c}
        /\ UNCHANGED <<now, seen>>
  BY DEF CreateMemory
<1> DEFINE cell == NewCell(agent, owner, lifetime, body, policy, now)
<1>2. cell \in Cell
  BY NewCellType
<1>3. cell.status = "active"
  BY DEF NewCell
<1> HIDE DEF cell
<1>4. store' = [store EXCEPT ![c] = cell] /\ since' = SinceAfter(store')
  BY <1>1 DEF Write, cell
<1>5. store'[c] # NoCell
  BY <1>2, <1>4, NoCellAssumption
<1>6. Born(c)
  BY <1>1, <1>2, <1>3, <1>4 DEF Born
<1>7. \A x \in CellId \ {c} : Kept(x)
  BY <1>4 DEF Kept
<1> QED
  BY <1>1, <1>2, <1>4, <1>5, <1>6, <1>7 DEF ServerStep, CellStep

\* A call that writes one present cell and mints nothing.
LEMMA WriteStep ==
    ASSUME TypeInv, NEW c \in CellId, NEW cell \in Cell, Write(c, cell),
           CellStep(c), UNCHANGED <<now, minted>>
    PROVE  ServerStep
<1> USE DEF TypeInv, TypeOK
<1>1. store' = [store EXCEPT ![c] = cell] /\ since' = SinceAfter(store')
  BY DEF Write
<1>2. \A x \in CellId \ {c} : Kept(x)
  BY <1>1 DEF Kept
<1> QED
  BY <1>1, <1>2 DEF ServerStep, CellStep

LEMMA SinceUnchanged == TypeInv /\ UNCHANGED <<store, since>> => since' = SinceAfter(store')
BY DEF TypeInv, TypeOK, SinceAfter

LEMMA GetMemoryStep ==
    ASSUME TypeInv, NEW agent \in Agents, NEW c \in CellId, GetMemory(agent, c)
    PROVE  ServerStep
<1>0. PICK digits \in Digits : Write(c, Boosted(store[c], now, digits))
  BY DEF GetMemory, DigitsAfterAccess
<1> DEFINE cell == Boosted(store[c], now, digits)
<1>1. store[c] \in Cell /\ Present(c) /\ store[c].status # "deleted" /\ now \in Time
  BY DEF TypeInv, TypeOK, GetMemory, Readable, Present
<1>2. /\ cell \in Cell /\ cell.status = store[c].status
      /\ cell.last_updated_at = store[c].last_updated_at
  BY <1>1, BoostedType
<1> HIDE DEF cell
<1>3. Write(c, cell) /\ UNCHANGED <<now, minted>>
  BY <1>0 DEF GetMemory, cell
<1>4. Read(c)
  BY <1>1, <1>2, <1>3 DEF Read, Write, TypeInv, TypeOK
<1> QED
  BY <1>2, <1>3, <1>4, WriteStep DEF CellStep

\* An accepted write of a present cell that is not deleted.
LEMMA UpdatedStep ==
    ASSUME TypeInv, NEW c \in CellId, NEW patch \in Patch,
           Present(c), store[c].status # "deleted", ~UpdateRefused(store[c], patch, now)
    PROVE  LET cell == Updated(store[c], patch, now) IN
           /\ cell \in Cell
           /\ store'[c] = cell => Written(c)
<1> DEFINE cell == Updated(store[c], patch, now)
<1>1. store[c] \in Cell /\ now \in Time
  BY DEF TypeInv, TypeOK, Present
<1>2. cell \in Cell /\ cell.status = Or(patch.status, store[c].status) /\ cell.last_updated_at = now
  BY <1>1, UpdatedType
<1>3. TransitionAllowed(store[c].status, cell.status)
  BY <1>2 DEF UpdateRefused, TransitionAllowed, Or
<1> HIDE DEF cell
<1> QED
  BY <1>2, <1>3 DEF Written, cell

LEMMA UpdateMemoryStep ==
    ASSUME TypeInv, NEW agent \in Agents, NEW c \in CellId, UpdateMemory(agent, c)
    PROVE  ServerStep
<1>1. PICK patch \in Patches :
        /\ Writable(c, agent)
        /\ UNCHANGED <<now, minted>>
        /\ \/ UNCHANGED <<store, since>>
           \/ /\ ~UpdateRefused(store[c], patch, now)
              /\ Write(c, Updated(store[c], patch, now))
  BY DEF UpdateMemory
<1>2. CASE UNCHANGED <<store, since>>
  <2>1. since' = SinceAfter(store')
    BY <1>2, SinceUnchanged
  <2> QED
    BY <1>1, <1>2, <2>1 DEF ServerStep, CellStep, Kept, TypeInv, TypeOK
<1>3. CASE /\ ~UpdateRefused(store[c], patch, now)
           /\ Write(c, Updated(store[c], patch, now))
  <2> DEFINE cell == Updated(store[c], patch, now)
  <2>1. patch \in Patch /\ Present(c) /\ store[c].status # "deleted"
    BY <1>1, PatchesAssumption DEF Writable
  <2>2. cell \in Cell /\ (store'[c] = cell => Written(c))
    BY <1>3, <2>1, UpdatedStep
  <2> HIDE DEF cell
  <2>3. Write(c, cell)
    BY <1>3 DEF cell
  <2>4. store'[c] = cell
    BY <2>3 DEF Write, TypeInv, TypeOK
  <2> QED
    BY <1>1, <2>2, <2>3, <2>4, WriteStep DEF CellStep
<1> QED
  BY <1>1, <1>2, <1>3

LEMMA DeleteMemoryStep ==
    ASSUME TypeInv, NEW agent \in Agents, NEW c \in CellId, DeleteMemory(agent, c)
    PROVE  ServerStep
<1> DEFINE cell == MarkedDeleted(store[c], now)
<1>1. store[c] \in Cell /\ Present(c) /\ store[c].status = "archived" /\ now \in Time
  BY DEF TypeInv, TypeOK, DeleteMemory, Writable, Present
<1>2. cell \in Cell /\ cell.status = "deleted" /\ cell.last_updated_at = now
  BY <1>1, MarkedDeletedType
<1> HIDE DEF cell
<1>3. Write(c, cell) /\ UNCHANGED <<now, minted>>
  BY DEF DeleteMemory, cell
<1>4. Deleted(c)
  BY <1>1, <1>2, <1>3 DEF Deleted, Write, TypeInv, TypeOK
<1> QED
  BY <1>2, <1>3, <1>4, WriteStep DEF CellStep
-----------------------------------------------------------------------------
(* The lifecycle pass, complete or cut short.                               *)

\* The write of one due cell: what the engine decided, and never a deletion.
LEMMA ProcessedStep ==
    ASSUME TypeInv, NEW c \in Due
    PROVE  /\ Present(c) /\ store[c].status \in {"active", "stale"}
           /\ Processed(c) \in Cell
           /\ Processed(c).status = Evaluated(store[c], now)
           /\ Processed(c).last_updated_at = now
           /\ TransitionAllowed(store[c].status, Processed(c).status)
<1> DEFINE status == Evaluated(store[c], now)
           patch == [EmptyPatch EXCEPT !.status = status]
<1>1. c \in CellId /\ Present(c) /\ store[c].status \in {"active", "stale"}
  BY DEF Due
<1>2. store[c] \in Cell /\ now \in Time
  BY <1>1 DEF TypeInv, TypeOK, Present
<1>3. status \in {"active", "stale", "archived"}
  BY <1>1, <1>2, EvaluatedProperties
<1> HIDE DEF status
<1>4. patch \in Patch /\ patch.status = status
  BY <1>3 DEF EmptyPatch, Patch, Optional, Status
<1>5. Or(patch.status, store[c].status) = status
  BY <1>3, <1>4, NullAssumption DEF Or, Status
<1>6. Processed(c) = Updated(store[c], patch, now)
  BY DEF Processed, status
<1> HIDE DEF patch
<1>7. /\ Processed(c) \in Cell /\ Processed(c).status = status
      /\ Processed(c).last_updated_at = now
  BY <1>2, <1>4, <1>5, <1>6, UpdatedType
<1>8. TransitionAllowed(store[c].status, Processed(c).status)
  BY <1>1, <1>3, <1>7 DEF TransitionAllowed
<1> QED
  BY <1>1, <1>7, <1>8 DEF status

LEMMA PassStep ==
    ASSUME TypeInv, NEW done \in SUBSET Due, NEW purged \in SUBSET Expired,
           Pass(done, purged), UNCHANGED <<now, minted>>
    PROVE  /\ ServerStep
           /\ \A c \in CellId :
                StatusIn(store', c) = "archived" /\ StatusIn(store, c) # "archived"
                => StatusIn(store, c) = "stale" /\ StaleAge(store[c], now) >= ArchiveStaleDays
<1>1. /\ since' = SinceAfter(store')
      /\ store' = [c \in CellId |-> CASE c \in purged -> NoCell
                                      [] c \in done -> Processed(c)
                                      [] OTHER -> store[c]]
  BY DEF Pass
<1>2. now \in Time /\ store \in [CellId -> Cell \cup {NoCell}] /\ minted \subseteq CellId
  BY DEF TypeInv, TypeOK
<1>3. ASSUME NEW c \in CellId
      PROVE  /\ store'[c] \in Cell \cup {NoCell}
             /\ CellStep(c)
             /\ StatusIn(store', c) = "archived" /\ StatusIn(store, c) # "archived"
                => StatusIn(store, c) = "stale" /\ StaleAge(store[c], now) >= ArchiveStaleDays
  <2>1. CASE c \in purged
    <3>1. /\ Present(c) /\ store[c].status = "deleted" /\ RetentionElapsed(store[c], now)
          /\ c \notin done
      BY <2>1 DEF Expired, Due
    <3>2. store'[c] = NoCell
      BY <1>1, <2>1, <3>1
    <3>3. Purged(c)
      BY <3>1, <3>2 DEF Purged
    <3> QED
      BY <3>2, <3>3 DEF CellStep, StatusIn
  <2>2. CASE c \notin purged /\ c \in done
    <3>1. /\ Present(c) /\ store[c].status \in {"active", "stale"}
          /\ Processed(c) \in Cell
          /\ Processed(c).status = Evaluated(store[c], now)
          /\ Processed(c).last_updated_at = now
          /\ TransitionAllowed(store[c].status, Processed(c).status)
      BY <2>2, ProcessedStep
    <3>2. store'[c] = Processed(c)
      BY <1>1, <2>2
    <3>3. store[c].status # "deleted"
      BY <3>1
    <3>4. Written(c)
      BY <3>1, <3>2, <3>3 DEF Written
    <3>5. store[c] \in Cell
      BY <1>2, <3>1 DEF Present
    <3>6. StatusIn(store, c) = store[c].status
          /\ StatusIn(store', c) = Evaluated(store[c], now)
      BY <3>1, <3>2, NoCellAssumption DEF StatusIn, Present
    <3> QED
      BY <1>2, <3>1, <3>2, <3>4, <3>5, <3>6, EvaluatedProperties DEF CellStep
  <2>3. CASE c \notin purged /\ c \notin done
    <3>1. store'[c] = store[c]
      BY <1>1, <2>3
    <3> QED
      BY <1>2, <3>1 DEF CellStep, Kept, StatusIn
  <2> QED
    BY <2>1, <2>2, <2>3
<1>4. store' \in [CellId -> Cell \cup {NoCell}]
  BY <1>1, <1>3
<1> QED
  BY <1>1, <1>2, <1>3, <1>4 DEF ServerStep

\* The last conjunct is what EngineArchivesOnlyLongStale needs of a pass.
LEMMA RunLifecycleStep ==
    ASSUME TypeInv, RunLifecycle
    PROVE  /\ ServerStep
           /\ \A c \in CellId :
                StatusIn(store', c) = "archived" /\ StatusIn(store, c) # "archived"
                => StatusIn(store, c) = "stale" /\ StaleAge(store[c], now) >= ArchiveStaleDays
<1>1. PICK done \in SUBSET Due, purged \in SUBSET Expired : Pass(done, purged)
  BY DEF RunLifecycle
<1> QED
  BY <1>1, PassStep DEF RunLifecycle

LEMMA CrashStep ==
    ASSUME TypeInv, Crash
    PROVE  ServerStep
<1>1. PICK done \in SUBSET Due, purged \in SUBSET Expired : Pass(done, purged)
  BY DEF Crash
<1> QED
  BY <1>1, PassStep DEF Crash

-----------------------------------------------------------------------------
(* Types and timestamps, by one induction.                                  *)

\* The inductive invariant. The stamps need the types, and the step that
\* creates a cell needs that only minted ids are in the store.
Inv == TypeInv /\ StampsTellStatusAge

LEMMA InvInit == Init => Inv
BY NothingSeenProperties, TimeAssumption
DEF Init, Inv, TypeInv, TypeOK, StampsTellStatusAge, Present, Time, Consistent, Dictionary

\* Every step is a ServerStep, a tick or a stutter.
LEMMA EveryStep ==
    ASSUME Inv, [Next]_vars
    PROVE  ServerStep \/ Tick \/ UNCHANGED vars
<1>1. ASSUME NEW agent \in Agents, NEW c \in CellId, CreateMemory(agent, c)
      PROVE  ServerStep
  <2>1. ~Present(c)
    BY <1>1 DEF CreateMemory, Inv, StampsTellStatusAge
  <2> QED
    BY <1>1, <2>1, CreateMemoryStep DEF Inv
<1>2. ASSUME NEW agent \in Agents, NEW c \in CellId,
             GetMemory(agent, c) \/ UpdateMemory(agent, c) \/ DeleteMemory(agent, c)
      PROVE  ServerStep
  BY <1>2, GetMemoryStep, UpdateMemoryStep, DeleteMemoryStep DEF Inv
<1>3. CASE RunLifecycle \/ Crash
  BY <1>3, RunLifecycleStep, CrashStep DEF Inv
<1> QED
  BY <1>1, <1>2, <1>3 DEF Next

LEMMA SinceAfterType ==
    ASSUME TypeInv
    PROVE  \A s : SinceAfter(s) \in [CellId -> Time]
BY DEF TypeInv, TypeOK, SinceAfter

LEMMA StampsStep ==
    ASSUME Inv, ServerStep
    PROVE  StampsTellStatusAge'
<1> SUFFICES ASSUME NEW c \in CellId, store'[c] # NoCell
             PROVE  /\ c \in minted'
                    /\ since'[c] <= now'
                    /\ store'[c].status # "active" =>
                          store'[c].last_updated_at # Null /\ store'[c].last_updated_at >= since'[c]
                    /\ store'[c].status = "deleted" => store'[c].last_updated_at = since'[c]
  BY DEF StampsTellStatusAge, Present
<1>1. /\ now' = now /\ now \in Int /\ now # Null
      /\ since[c] \in Int
      /\ minted \subseteq minted'
      /\ since'[c] = IF StatusIn(store', c) = StatusIn(store, c) THEN since[c] ELSE now
      /\ StatusIn(store', c) = store'[c].status
  BY TimeType, NullAssumption DEF ServerStep, SinceAfter, Inv, TypeInv, TypeOK, StatusIn
<1>2. Present(c) =>
        /\ c \in minted /\ since[c] <= now
        /\ StatusIn(store, c) = store[c].status
        /\ store[c].status # "active" =>
              store[c].last_updated_at # Null /\ store[c].last_updated_at >= since[c]
        /\ store[c].status = "deleted" => store[c].last_updated_at = since[c]
  BY DEF Inv, StampsTellStatusAge, Present, StatusIn
<1>3. CASE Kept(c)
  BY <1>1, <1>2, <1>3 DEF Kept, Present
<1>4. CASE Born(c)
  BY <1>1, <1>4 DEF Born, StatusIn, Present
<1>5. CASE Read(c)
  BY <1>1, <1>2, <1>5 DEF Read
<1>6. CASE Written(c)
  BY <1>1, <1>2, <1>6 DEF Written, TransitionAllowed
<1>7. CASE Deleted(c)
  BY <1>1, <1>2, <1>7 DEF Deleted
<1>8. CASE Purged(c)
  BY <1>8 DEF Purged
<1> QED
  BY <1>3, <1>4, <1>5, <1>6, <1>7, <1>8 DEF ServerStep, CellStep

\* The limiter's table stays consistent whatever the server does.
LEMMA SeenStep ==
    ASSUME Inv, [Next]_vars
    PROVE  Consistent(seen)'
<1>1. Consistent(seen) /\ now \in Nat
  BY TimeType DEF Inv, TypeInv, TypeOK
<1>2. ASSUME NEW agent \in Agents, NEW c \in CellId, UpdateMemory(agent, c)
      PROVE  Consistent(seen)'
  <2>1. PICK patch \in Patches : seen' = Charged(c, patch)
    BY <1>2 DEF UpdateMemory
  <2> QED
    BY <1>1, <2>1, CheckAndRecordProperties DEF Charged
<1>3. ASSUME NEW agent \in Agents, NEW c \in CellId, DeleteMemory(agent, c)
      PROVE  Consistent(seen)'
  BY <1>1, <1>3, ForgetProperties DEF DeleteMemory
<1>4. ASSUME NEW agent \in Agents, NEW c \in CellId,
             CreateMemory(agent, c) \/ GetMemory(agent, c)
      PROVE  Consistent(seen)'
  BY <1>1, <1>4 DEF CreateMemory, GetMemory
<1>5. CASE RunLifecycle \/ Tick \/ UNCHANGED vars
  BY <1>1, <1>5 DEF RunLifecycle, Tick, vars
<1>6. CASE Crash
  BY <1>6, NothingSeenProperties DEF Crash
<1> QED
  BY <1>2, <1>3, <1>4, <1>5, <1>6 DEF Next

LEMMA InvStep == Inv /\ [Next]_vars => Inv'
<1> SUFFICES ASSUME Inv, [Next]_vars PROVE Inv'
  OBVIOUS
<1>1. Consistent(seen)' /\ seen' \in Seen
  BY SeenStep DEF Consistent, Dictionary
<1>2. CASE ServerStep
  <2>1. since' \in [CellId -> Time]
    BY <1>2, SinceAfterType DEF ServerStep, Inv
  <2>2. TypeInv'
    BY <1>1, <1>2, <2>1 DEF ServerStep, TypeInv, TypeOK, Inv
  <2> QED
    BY <1>2, <2>2, StampsStep DEF Inv
<1>3. CASE Tick
  <2>1. now \in Nat /\ now' = now + 1 /\ now' \in Time
        /\ \A c \in CellId : since[c] \in Nat
        /\ UNCHANGED <<store, minted, since>>
    BY <1>3, TimeAssumption DEF Tick, Time, Inv, TypeInv, TypeOK
  <2>2. TypeInv'
    <3>1. TypeOK
      BY DEF Inv, TypeInv
    <3>2. store' = store /\ minted' = minted /\ since' = since
      BY <1>3 DEF Tick
    <3>3. TypeOK'
      BY <1>1, <2>1, <3>1, <3>2 DEF TypeOK
    <3> QED
      BY <1>1, <3>3 DEF TypeInv
  <2>3. \A c \in CellId : since[c] <= now => since'[c] <= now'
    BY <2>1
  <2> QED
    BY <2>1, <2>2, <2>3 DEF Inv, StampsTellStatusAge, Present
<1>4. CASE UNCHANGED vars
  BY <1>4 DEF vars, Inv, TypeInv, TypeOK, StampsTellStatusAge, Present, Consistent, Dictionary
<1> QED
  BY <1>2, <1>3, <1>4, EveryStep

LEMMA InvHolds == Spec => []Inv
BY InvInit, InvStep, PTL DEF Spec

\* Every variable stays in its set: no call, pass or crash leaves a cell with a
\* field outside its type, or a limiter table with a broken entry.
THEOREM TypeCorrect == Spec => []TypeOK
<1>1. Inv => TypeOK
  BY DEF Inv, TypeInv
<1> QED
  BY <1>1, InvHolds, PTL

\* last_updated_at of a deleted cell is the moment of its DELETE, and that of a
\* stale or archived cell is no earlier than the moment it became so.
THEOREM StampsAreRight == Spec => []StampsTellStatusAge
<1>1. Inv => StampsTellStatusAge
  BY DEF Inv
<1> QED
  BY <1>1, InvHolds, PTL
-----------------------------------------------------------------------------
(* The archival period, the limiter and the refinement.                     *)

\* A pass archives a cell only after it was stale, without interruption, for
\* the whole archival period: the engine measures from the last update, and
\* the stamps never lie before the last change of status.
THEOREM ArchivesOnlyLongStale == Spec => EngineArchivesOnlyLongStale
<1>1. ASSUME Inv, [Next]_vars,
             RunLifecycle,
             NEW c \in CellId,
             StatusIn(store', c) = "archived", StatusIn(store, c) # "archived"
      PROVE  StatusIn(store, c) = "stale" /\ now - since[c] >= ArchiveStaleDays
  <2>1. StatusIn(store, c) = "stale" /\ StaleAge(store[c], now) >= ArchiveStaleDays
    BY <1>1, RunLifecycleStep DEF Inv
  <2>2. Present(c) /\ store[c].status = "stale"
    BY <2>1 DEF StatusIn, Present
  <2>3. /\ store[c].last_updated_at # Null
        /\ store[c].last_updated_at >= since[c]
    BY <1>1, <2>2 DEF Inv, StampsTellStatusAge
  <2>4. store[c] \in Cell /\ now \in Int /\ since[c] \in Int
    BY <1>1, <2>2, TimeType DEF Inv, TypeInv, TypeOK, Present
  <2>5. store[c].last_updated_at \in Int
    BY <2>3, <2>4, TimeType DEF Cell, Optional
  <2>6. StaleAge(store[c], now) = now - store[c].last_updated_at
    BY <2>3 DEF StaleAge, Or
  <2>7. now - store[c].last_updated_at >= ArchiveStaleDays
    BY <2>1, <2>6
  <2> QED
    BY <2>1, <2>3, <2>4, <2>5, <2>7, TimeAssumption
<1>2. Inv /\ [Next]_vars
      => [RunLifecycle =>
            \A c \in CellId :
               StatusIn(store', c) = "archived" /\ StatusIn(store, c) # "archived"
               => StatusIn(store, c) = "stale" /\ now - since[c] >= ArchiveStaleDays]_vars
  BY <1>1
<1> QED
  BY <1>2, InvHolds, PTL DEF Spec, EngineArchivesOnlyLongStale

\* A cell a caller can reach stays so, except for the one it deletes.
LEMMA LiveStep ==
    ASSUME Inv, ServerStep, NEW c \in CellId, Present(c), store[c].status # "deleted"
    PROVE  \/ store'[c] # NoCell /\ store'[c].status # "deleted"
           \/ Deleted(c)
<1>1. CellStep(c)
  BY DEF ServerStep
<1>2. Kept(c) \/ Read(c) \/ Written(c) \/ Deleted(c)
  BY <1>1 DEF CellStep, Born, Purged
<1> QED
  BY <1>2, NoCellAssumption DEF Kept, Read, Written, TransitionAllowed, Present

\* The limiter counts only for cells a caller can reach: a PATCH touches the
\* counters of a writable cell, a DELETE drops them, and neither a pass nor a
\* crash deletes a cell that has any.
THEOREM CountersAreLive == Spec => []CountersOnlyForLiveCells
<1> DEFINE Live(c) == Present(c) /\ store[c].status # "deleted"
<1>1. Init => CountersOnlyForLiveCells
  BY NothingSeenProperties DEF Init, CountersOnlyForLiveCells
<1>2. ASSUME Inv, CountersOnlyForLiveCells, [Next]_vars
      PROVE  CountersOnlyForLiveCells'
  <2>1. Consistent(seen) /\ now \in Nat /\ Tracked(seen) \subseteq CellId
    <3>1. Consistent(seen) /\ now \in Nat
      BY <1>2, TimeType DEF Inv, TypeInv, TypeOK
    <3>2. \A i \in DOMAIN seen.order : seen.order[i] \in CellId
      BY <3>1, LenProperties, ElementOfSeq DEF Consistent, Dictionary, Seen
    <3> QED
      BY <3>1, <3>2 DEF Tracked
  <2>2. \A c \in Tracked(seen) : c \in CellId /\ Live(c)
    BY <1>2, <2>1 DEF CountersOnlyForLiveCells
  <2>3. ASSUME NEW agent \in Agents, NEW c \in CellId,
               CreateMemory(agent, c) \/ GetMemory(agent, c)
        PROVE  CountersOnlyForLiveCells'
    <3>1. ServerStep /\ seen' = seen /\ \A x \in CellId : ~Deleted(x)
      <4>1. ServerStep /\ seen' = seen
        <5>1. CreateMemory(agent, c) => ~Present(c)
          BY <1>2 DEF CreateMemory, Inv, StampsTellStatusAge
        <5> QED
          BY <1>2, <2>3, <5>1, CreateMemoryStep, GetMemoryStep
             DEF Inv, CreateMemory, GetMemory
      <4>2. store \in [CellId -> Cell \cup {NoCell}] /\ now \in Time
        BY <1>2 DEF Inv, TypeInv, TypeOK
      <4>3. \E cell : store' = [store EXCEPT ![c] = cell]
        BY <2>3 DEF CreateMemory, GetMemory, Write
      <4>4. \A x \in CellId \ {c} : ~Deleted(x)
        BY <4>2, <4>3 DEF Deleted
      <4>5. ASSUME CreateMemory(agent, c) PROVE ~Deleted(c)
        <5>1. ~Present(c)
          BY <1>2, <4>5 DEF CreateMemory, Inv, StampsTellStatusAge
        <5> QED
          BY <5>1 DEF Deleted
      <4>6. ASSUME GetMemory(agent, c) PROVE ~Deleted(c)
        <5>1. store[c] \in Cell /\ store[c].status # "deleted"
          BY <4>2, <4>6 DEF GetMemory, Readable, Present
        <5>2. PICK digits \in Digits : store'[c] = Boosted(store[c], now, digits)
          BY <4>2, <4>6 DEF GetMemory, DigitsAfterAccess, Write
        <5>3. store'[c].status # "deleted"
          BY <4>2, <5>1, <5>2, BoostedType
        <5> QED
          BY <5>3 DEF Deleted
      <4>7. \A x \in CellId : ~Deleted(x)
        BY <2>3, <4>4, <4>5, <4>6
      <4> QED
        BY <4>1, <4>7
    <3> QED
      BY <1>2, <2>2, <3>1, LiveStep DEF CountersOnlyForLiveCells, Present
  <2>4. ASSUME NEW agent \in Agents, NEW c \in CellId, UpdateMemory(agent, c)
        PROVE  CountersOnlyForLiveCells'
    <3>1. PICK patch \in Patches :
            /\ Writable(c, agent)
            /\ seen' = Charged(c, patch)
            /\ \/ store' = store
               \/ /\ ~UpdateRefused(store[c], patch, now)
                  /\ store' = [store EXCEPT ![c] = Updated(store[c], patch, now)]
      BY <2>4 DEF UpdateMemory, Write
    <3>2. Live(c)
      BY <3>1 DEF Writable
    <3>3. Tracked(seen') \subseteq Tracked(seen) \cup {c}
      BY <2>1, <3>1, CheckAndRecordProperties DEF Charged
    <3>4. ServerStep
      BY <1>2, <2>4, UpdateMemoryStep DEF Inv
    <3>5. \A x \in CellId : ~Deleted(x)
      <4>1. CASE store' = store
        BY <1>2, <4>1 DEF Deleted, Present
      <4>2. CASE /\ ~UpdateRefused(store[c], patch, now)
                 /\ store' = [store EXCEPT ![c] = Updated(store[c], patch, now)]
        <5>1. patch \in Patch /\ store \in [CellId -> Cell \cup {NoCell}]
          BY <1>2, PatchesAssumption DEF Inv, TypeInv, TypeOK
        <5>2. Written(c)
          BY <1>2, <3>2, <4>2, <5>1, UpdatedStep DEF Inv
        <5>3. ~Deleted(c)
          BY <3>2, <5>2 DEF Written, Deleted, TransitionAllowed
        <5> QED
          BY <4>2, <5>1, <5>3 DEF Deleted
      <4> QED
        BY <3>1, <4>1, <4>2
    <3> QED
      BY <1>2, <2>2, <3>2, <3>3, <3>4, <3>5, LiveStep DEF CountersOnlyForLiveCells, Present
  <2>5. ASSUME NEW agent \in Agents, NEW c \in CellId, DeleteMemory(agent, c)
        PROVE  CountersOnlyForLiveCells'
    <3>1. seen' = Forget(seen, c) /\ store' = [store EXCEPT ![c] = MarkedDeleted(store[c], now)]
      BY <2>5 DEF DeleteMemory, Write
    <3>2. Tracked(seen') = Tracked(seen) \ {c}
      BY <2>1, <3>1, ForgetProperties
    <3>3. \A x \in CellId \ {c} : store'[x] = store[x]
      BY <1>2, <3>1 DEF Inv, TypeInv, TypeOK
    <3> QED
      BY <2>2, <3>2, <3>3 DEF CountersOnlyForLiveCells, Present
  <2>6. CASE RunLifecycle
    <3>1. PICK done \in SUBSET Due, purged \in SUBSET Expired : Pass(done, purged)
      BY <2>6 DEF RunLifecycle
    <3>2. \A x \in CellId : ~Deleted(x)
      BY <3>1 DEF Pass, Deleted, Due, Expired
    <3>3. ServerStep /\ seen' = seen
      BY <1>2, <2>6, RunLifecycleStep DEF Inv, RunLifecycle
    <3> QED
      BY <1>2, <2>2, <3>2, <3>3, LiveStep DEF CountersOnlyForLiveCells, Present
  <2>7. CASE Crash
    BY <2>7, NothingSeenProperties DEF Crash, CountersOnlyForLiveCells
  <2>8. CASE Tick \/ UNCHANGED vars
    BY <1>2, <2>8 DEF Tick, vars, CountersOnlyForLiveCells, Present
  <2> QED
    BY <1>2, <2>3, <2>4, <2>5, <2>6, <2>7, <2>8 DEF Next
<1> QED
  BY <1>1, <1>2, InvHolds, PTL DEF Spec
-----------------------------------------------------------------------------
(* The server implements CellLifecycle: phase is read off the store.        *)

PhaseMap == [c \in CellId |-> PhaseOf(c)]

LEMMA PhaseType ==
    ASSUME TypeInv, NEW c \in CellId
    PROVE  PhaseOf(c) \in Life!Phase
BY DEF TypeInv, TypeOK, PhaseOf, Present, Life!Phase, Cell, Status

\* One cell moves along the abstract graph, or stays.
LEMMA CellRefines ==
    ASSUME Inv, ServerStep, NEW c \in CellId
    PROVE  \/ /\ PhaseOf(c)' \in Life!Successors[PhaseOf(c)]
              /\ PhaseOf(c)' = "purged" => now >= since[c] + RetentionDays
              /\ since'[c] = now
           \/ PhaseOf(c)' = PhaseOf(c) /\ since'[c] = since[c]
<1>1. /\ minted \subseteq minted'
      /\ c \in minted' \ minted => store'[c] # NoCell
      /\ since'[c] = IF StatusIn(store', c) = StatusIn(store, c) THEN since[c] ELSE now
      /\ Present(c) => c \in minted
      /\ PhaseOf(c)' = IF store'[c] # NoCell THEN store'[c].status
                       ELSE IF c \in minted' THEN "purged" ELSE "unborn"
      /\ PhaseOf(c) = IF Present(c) THEN store[c].status
                      ELSE IF c \in minted THEN "purged" ELSE "unborn"
  BY DEF ServerStep, SinceAfter, Inv, StampsTellStatusAge, PhaseOf, Present
<1>2. \A cell \in Cell : cell # NoCell /\ cell.status \in Status
  BY NoCellAssumption DEF Cell
<1>3. Present(c) => store[c] \in Cell
  BY DEF Inv, TypeInv, TypeOK, Present
<1>4. CASE Kept(c)
  BY <1>1, <1>4 DEF Kept, StatusIn, Present
<1>5. CASE Born(c)
  <2>1. PhaseOf(c) = "unborn" /\ PhaseOf(c)' = "active" /\ since'[c] = now
    BY <1>1, <1>2, <1>5 DEF Born, StatusIn, Present
  <2> QED
    BY <2>1 DEF Life!Successors
<1>6. CASE Read(c)
  BY <1>1, <1>2, <1>6 DEF Read, StatusIn, Present
<1>7. CASE Written(c)
  <2>1. /\ PhaseOf(c) = store[c].status /\ PhaseOf(c)' = store'[c].status
        /\ since'[c] = IF store'[c].status = store[c].status THEN since[c] ELSE now
        /\ store[c].status \in Status /\ store'[c].status \in Status
        /\ TransitionAllowed(store[c].status, store'[c].status)
    BY <1>1, <1>2, <1>3, <1>7 DEF Written, StatusIn, Present
  <2> QED
    BY <2>1 DEF TransitionAllowed, Status, Life!Successors
<1>8. CASE Deleted(c)
  <2>1. PhaseOf(c) = "archived" /\ PhaseOf(c)' = "deleted" /\ since'[c] = now
    BY <1>1, <1>2, <1>8 DEF Deleted, StatusIn, Present
  <2> QED
    BY <2>1 DEF Life!Successors
<1>9. CASE Purged(c)
  <2>1. PhaseOf(c) = "deleted" /\ PhaseOf(c)' = "purged" /\ since'[c] = now
    BY <1>1, <1>9 DEF Purged, StatusIn, Present
  <2>2. /\ store[c].last_updated_at = since[c] /\ store[c].last_updated_at # Null
    BY <1>9 DEF Purged, Inv, StampsTellStatusAge
  <2>3. now >= since[c] + RetentionDays
    BY <1>9, <2>2 DEF Purged, RetentionElapsed, RetentionDeadline, DeletionTime, Or
  <2> QED
    BY <2>1, <2>3 DEF Life!Successors
<1> QED
  BY <1>4, <1>5, <1>6, <1>7, <1>8, <1>9 DEF ServerStep, CellStep

\* Whatever calls, passes and crashes happen, an id is born active, moves
\* between active and stale, is archived for good, is deleted only once
\* archived, and leaves the store only when its retention window is over.
THEOREM ServerImplementsLifecycle == Spec => ImplementsLifecycle
<1>1. Init => Life!Init
  BY DEF Init, Life!Init, PhaseOf, Present
<1>2. Inv /\ [Next]_vars => [Life!Next]_<<now, PhaseMap, since>>
  <2> SUFFICES ASSUME Inv, [Next]_vars
               PROVE  Life!Next \/ UNCHANGED <<now, PhaseMap, since>>
    OBVIOUS
  <2>0. Inv'
    BY InvStep
  <2>1. CASE ServerStep
    <3>1. PhaseMap' \in [CellId -> Life!Phase]
      BY <2>0, PhaseType DEF PhaseMap, Inv, TypeInv, TypeOK, PhaseOf, Present, Life!Phase, Cell, Status
    <3>2. since' \in [CellId -> 0..MaxTime] /\ now' = now
      BY <2>0, <2>1 DEF Inv, TypeInv, TypeOK, Time, ServerStep
    <3>3. \A c \in CellId : Life!Moves(c) \/ Life!Stays(c)
      BY <2>1, CellRefines DEF Life!Moves, Life!Stays
    <3> QED
      BY <3>1, <3>2, <3>3 DEF Life!Next, Life!MoveCells, PhaseMap
  <2>2. CASE Tick
    BY <2>2 DEF Tick, Life!Next, Life!Tick, PhaseOf, Present
  <2>3. CASE UNCHANGED vars
    BY <2>3 DEF vars, PhaseMap, PhaseOf, Present
  <2> QED
    BY <2>1, <2>2, <2>3, EveryStep
<1> QED
  BY <1>1, <1>2, InvHolds, PTL DEF Spec, ImplementsLifecycle, Life!Spec, PhaseMap
=============================================================================

----------------------------- MODULE SystemTask -----------------------------
(***************************************************************************)
(* Database-leased background jobs: model/system_task.go and the runner in *)
(* service/system_task.go.                                                 *)
(*                                                                         *)
(* Every master node runs one runner loop.  The loop marks expired leases  *)
(* failed, then claims the earliest pending row of every task type and     *)
(* starts a handler goroutine for it.  Nodes share nothing but two tables: *)
(* system_tasks (one row per job; active_key is unique while the job is    *)
(* active) and system_task_locks (one lease row per type).  Every database *)
(* statement is one step here, so that the steps of different nodes        *)
(* interleave between any two statements of a claim, of a stale-lock pass, *)
(* or of a handler.                                                        *)
(*                                                                         *)
(* Time.  A lease keeps left = locked_until - now, which Tick lowers.  The *)
(* loop compares locked_until with a clock reading it took earlier: age is *)
(* how many ticks ago.  Once age is at most MaxLate, a lease that is more  *)
(* than MaxLate ticks past its end needs no further counting (Floor).      *)
(***************************************************************************)
EXTENDS Integers, FiniteSets

CONSTANTS
    Runner,      \* runner ids; a restarted node takes a fresh one
    Type,        \* task types (primary key of system_task_locks)
    Key,         \* active keys
    KeyType,     \* the type that uses a key: [Key -> Type]
    MaxTask,     \* bound: rows ever inserted in system_tasks
    TTL,         \* systemTaskLockTTL, in ticks
    MaxLate,     \* bound: how long the loop may use one clock reading, in ticks
    MaxDbErrors  \* bound: failed database statements

Task == 1..MaxTask    \* system_tasks.id, assigned in insertion order
None == 0             \* no row

ASSUME KeyTypeAssumption == Key # {} /\ KeyType \in [Key -> Type]
ASSUME BoundsAssumption ==
    MaxTask \in Nat /\ TTL \in Nat /\ MaxLate \in Nat /\ MaxDbErrors \in Nat

VARIABLES
    status,      \* system_tasks.status; "absent" until the row is inserted
    key,         \* the active key the row was created with
    active,      \* whether active_key still holds it (set to NULL at the end)
    rowOwner,    \* system_tasks.locked_by, as a set with at most one runner
    lockTask,    \* system_task_locks.task_id per type; None when there is no row
    lockOwner,   \* system_task_locks.locked_by, as a set with at most one runner
    left,        \* system_task_locks.locked_until - now
    pc,          \* where the runner's loop is; "stopped" once it has returned
    age,         \* ticks since the loop read the clock
    todo,        \* the claim pass's snapshot of pending rows not tried yet
    stale,       \* the stale-lock pass's snapshot of leases not handled yet
    cur,         \* the row the loop is working on
    old,         \* existing.TaskID, read by acquireSystemTaskLock
    handler,     \* the handler goroutine of a runner for a row
    errors,      \* failed database statements so far
    superseded,  \* history: handlers whose type's lease was acquired again
    lostClaim    \* history: types with a claim that outlived its lease (LoseClaim)

rows    == <<status, key, active, rowOwner>>
locks   == <<lockTask, lockOwner, left>>
loop    == <<pc, age, todo, stale, cur, old>>
vars    == <<rows, locks, loop, handler, errors, superseded, lostClaim>>

-----------------------------------------------------------------------------
Floor == -(MaxLate + 1)

Stale == [type : Type, task : Task, owner : Runner]

PC == {"idle", "stale", "staleDelete", "pick", "claim", "insert", "inspect",
       "steal", "mark", "update", "release", "stopped", "dead"}

TypeOf(t) == KeyType[key[t]]

\* systemTaskLockUntil(): the end of a lease counts from the clock reading.
LeaseLeftOverlong(r) == TTL + age[r]
LeaseLeft(r) == TTL - age[r]

\* locked_until < now, for the clock reading the loop of r has.
ExpiredTooEarly(r, ty) == left[ty] + age[r] <= 0
Expired(r, ty) == left[ty] + age[r] < 0

\* WHERE task_id = t AND locked_by = r of the statements on system_task_locks.
HoldsLock(r, t) == lockTask[TypeOf(t)] = t /\ lockOwner[TypeOf(t)] = {r}

\* ... AND locked_until >= now, for a statement that reads the clock itself.
HoldsLease(r, t) == HoldsLock(r, t) /\ left[TypeOf(t)] >= 0

\* Some claim of type ty has taken a lease over and not yet failed the row it was for.
TakingOver(ty) == \E r \in Runner : pc[r] = "mark" /\ TypeOf(cur[r]) = ty

Init ==
    /\ status = [t \in Task |-> "absent"]
    /\ key = [t \in Task |-> CHOOSE k \in Key : TRUE]
    /\ active = [t \in Task |-> FALSE]
    /\ rowOwner = [t \in Task |-> {}]
    /\ lockTask = [ty \in Type |-> None]
    /\ lockOwner = [ty \in Type |-> {}]
    /\ left = [ty \in Type |-> Floor]
    /\ pc = [r \in Runner |-> "idle"]
    /\ age = [r \in Runner |-> 0]
    /\ todo = [r \in Runner |-> {}]
    /\ stale = [r \in Runner |-> {}]
    /\ cur = [r \in Runner |-> None]
    /\ old = [r \in Runner |-> None]
    /\ handler = [r \in Runner |-> [t \in Task |-> "none"]]
    /\ errors = 0
    /\ superseded = {}
    /\ lostClaim = {}

-----------------------------------------------------------------------------
(* Effects shared by several statements *)

SetLock(ty, t, r, n) ==
    /\ lockTask' = [lockTask EXCEPT ![ty] = t]
    /\ lockOwner' = [lockOwner EXCEPT ![ty] = {r}]
    /\ left' = [left EXCEPT ![ty] = n]

DeleteLock(ty) ==
    /\ lockTask' = [lockTask EXCEPT ![ty] = None]
    /\ lockOwner' = [lockOwner EXCEPT ![ty] = {}]
    /\ left' = [left EXCEPT ![ty] = Floor]

\* The row reaches a terminal status and gives its active key back.
EndRowKeepingKey(t, s) ==
    /\ status' = [status EXCEPT ![t] = s]
    /\ UNCHANGED <<key, active, rowOwner>>
EndRow(t, s) ==
    /\ status' = [status EXCEPT ![t] = s]
    /\ active' = [active EXCEPT ![t] = FALSE]
    /\ UNCHANGED <<key, rowOwner>>

\* Only a running row is failed.
MarkNothing(t) == UNCHANGED rows
MarkSystemTaskLeaseExpired(t) ==
    IF status[t] = "running" THEN EndRow(t, "failed") ELSE UNCHANGED rows

\* DELETE ... WHERE task_id = t AND locked_by = r.
ReleaseSystemTaskLock(r, t) ==
    IF HoldsLock(r, t) THEN DeleteLock(TypeOf(t)) ELSE UNCHANGED locks

\* A statement fails: nothing is written.
DbError ==
    /\ errors < MaxDbErrors
    /\ errors' = errors + 1

\* The lease of ty passes to a new claim: handlers at work on that type are superseded.
Supersede(ty) ==
    superseded' = superseded \union
        {h \in Runner \X Task : /\ handler[h[1]][h[2]] \in {"run", "cancelled"}
                               /\ TypeOf(h[2]) = ty}

LoseClaim(ty, lost) == lostClaim' = IF lost THEN lostClaim \union {ty} ELSE lostClaim

Goto(r, p) == pc' = [pc EXCEPT ![r] = p]

\* A fresh reading; 0 also stands for a reading that no later statement uses.
ReadClock(r) == age' = [age EXCEPT ![r] = 0]

\* ClaimSystemTask returns: the pass goes on with the next type.
ClaimReturns(r) ==
    /\ Goto(r, "claim")
    /\ cur' = [cur EXCEPT ![r] = None]
    /\ old' = [old EXCEPT ![r] = None]
    /\ ReadClock(r)

-----------------------------------------------------------------------------
(* Creating rows *)

\* EnqueueSystemTask, EnqueueSystemTaskWithKey, StartLogCleanupTask and the scheduler
\* look for an active row first and then insert; the unique index on active_key decides
\* the race between two of them, so the look and the insert are one step.
Enqueue(k) ==
    \E t \in Task :
        /\ status[t] = "absent"
        /\ \A u \in Task : u < t => status[u] # "absent"
        /\ \A u \in Task : active[u] => key[u] # k
        /\ status' = [status EXCEPT ![t] = "pending"]
        /\ active' = [active EXCEPT ![t] = TRUE]
        /\ key' = [key EXCEPT ![t] = k]
        /\ UNCHANGED <<rowOwner, locks, loop, handler, errors, superseded, lostClaim>>

-----------------------------------------------------------------------------
(* The stale-lock pass: ExpireStaleSystemTaskLocks *)

\* SELECT ... WHERE locked_until < now: a snapshot of leases that the loop then walks.
StaleRead(r) ==
    /\ pc[r] = "idle"
    /\ stale' = [stale EXCEPT ![r] =
           {l \in Stale : /\ lockTask[l.type] = l.task
                          /\ lockOwner[l.type] = {l.owner}
                          /\ left[l.type] < 0}]
    /\ Goto(r, "stale")
    /\ ReadClock(r)
    /\ UNCHANGED <<rows, locks, todo, cur, old, handler, errors, superseded, lostClaim>>

\* MarkSystemTaskLeaseExpired(lock.TaskID) for a lease of the snapshot.
StaleMark(r) ==
    /\ pc[r] = "stale"
    /\ \E l \in stale[r] :
         /\ MarkSystemTaskLeaseExpired(l.task)
         /\ cur' = [cur EXCEPT ![r] = l.task]
    /\ Goto(r, "staleDelete")
    /\ UNCHANGED <<locks, age, todo, stale, old, handler, errors, superseded, lostClaim>>

\* DELETE ... WHERE the row is the one of the snapshot AND locked_until < now.
StaleDelete(r) ==
    /\ pc[r] = "staleDelete"
    /\ \E l \in stale[r] :
         /\ l.task = cur[r]
         /\ stale' = [stale EXCEPT ![r] = @ \ {l}]
         /\ IF /\ lockTask[l.type] = l.task
               /\ lockOwner[l.type] = {l.owner}
               /\ Expired(r, l.type)
            THEN DeleteLock(l.type) /\ LoseClaim(l.type, TakingOver(l.type))
            ELSE UNCHANGED <<locks, lostClaim>>
    /\ cur' = [cur EXCEPT ![r] = None]
    /\ Goto(r, "stale")
    /\ UNCHANGED <<rows, age, todo, old, handler, errors, superseded>>

\* Any statement of the pass fails: the rest of the snapshot is dropped.
StaleError(r) ==
    /\ pc[r] \in {"stale", "staleDelete"} /\ stale[r] # {}
    /\ DbError
    /\ stale' = [stale EXCEPT ![r] = {}]
    /\ cur' = [cur EXCEPT ![r] = None]
    /\ Goto(r, "pick")
    /\ ReadClock(r)
    /\ UNCHANGED <<rows, locks, todo, old, handler, superseded, lostClaim>>

StaleDone(r) ==
    /\ pc[r] = "stale" /\ stale[r] = {}
    /\ Goto(r, "pick")
    /\ ReadClock(r)
    /\ UNCHANGED <<rows, locks, todo, stale, cur, old, handler, errors,
                   superseded, lostClaim>>

-----------------------------------------------------------------------------
(* The claim pass: runSystemTaskClaimPass and ClaimSystemTask *)

\* FindEarliestPendingSystemTasks: the pending row with the least id of every type.  A
\* pass may start without the stale-lock pass, which runs at a lower rate.
PickPending(r) ==
    /\ pc[r] \in {"idle", "pick"}
    /\ LET Pending == {t \in Task : status[t] = "pending"}
       IN  todo' = [todo EXCEPT ![r] =
               {t \in Pending : \A u \in Pending : TypeOf(u) = TypeOf(t) => t <= u}]
    /\ Goto(r, "claim")
    /\ UNCHANGED <<rows, locks, age, stale, cur, old, handler, errors,
                   superseded, lostClaim>>

\* The clock is read, then the row: SELECT ... WHERE id = t AND status = 'pending'.
ClaimSelect(r) ==
    /\ pc[r] = "claim"
    /\ \E t \in todo[r] :
         /\ todo' = [todo EXCEPT ![r] = @ \ {t}]
         /\ IF status[t] = "pending"
            THEN cur' = [cur EXCEPT ![r] = t] /\ Goto(r, "insert")
            ELSE UNCHANGED <<cur, pc>>
    /\ ReadClock(r)
    /\ UNCHANGED <<rows, locks, stale, old, handler, errors, superseded, lostClaim>>

ClaimPassDone(r) ==
    /\ pc[r] = "claim" /\ todo[r] = {}
    /\ Goto(r, "idle")
    /\ UNCHANGED <<rows, locks, age, todo, stale, cur, old, handler, errors,
                   superseded, lostClaim>>

\* acquireSystemTaskLock: INSERT of the lease row, which the primary key decides.
LockInsert(r) ==
    LET ty == TypeOf(cur[r]) IN
    /\ pc[r] = "insert"
    /\ IF lockTask[ty] = None
       THEN /\ SetLock(ty, cur[r], r, LeaseLeft(r))
            /\ Supersede(ty)
            /\ Goto(r, "update")
            /\ ReadClock(r)
       ELSE Goto(r, "inspect") /\ UNCHANGED <<locks, superseded, age>>
    /\ UNCHANGED <<rows, todo, stale, cur, old, handler, errors, lostClaim>>

\* The existing lease is read: give up when it is gone or has not ended.
LockInspect(r) ==
    LET ty == TypeOf(cur[r]) IN
    /\ pc[r] = "inspect"
    /\ IF lockTask[ty] # None /\ Expired(r, ty)
       THEN /\ old' = [old EXCEPT ![r] = lockTask[ty]]
            /\ Goto(r, "steal")
            /\ UNCHANGED <<cur, age>>
       ELSE ClaimReturns(r)
    /\ UNCHANGED <<rows, locks, todo, stale, handler, errors, superseded, lostClaim>>

\* UPDATE ... WHERE type = ty AND locked_until < now; the victim is the task that was read.
LockSteal(r) ==
    LET ty == TypeOf(cur[r]) IN
    /\ pc[r] = "steal"
    /\ IF lockTask[ty] # None /\ Expired(r, ty)
       THEN /\ SetLock(ty, cur[r], r, LeaseLeft(r))
            /\ Supersede(ty)
            /\ LoseClaim(ty, lockTask[ty] # old[r] \/ TakingOver(ty))
            /\ Goto(r, IF old[r] # cur[r] THEN "mark" ELSE "update")
            /\ ReadClock(r)
            /\ UNCHANGED <<cur, old>>
       ELSE ClaimReturns(r) /\ UNCHANGED <<locks, superseded, lostClaim>>
    /\ UNCHANGED <<rows, todo, stale, handler, errors>>

\* MarkSystemTaskLeaseExpired(expiredTaskID); when it fails the new lease is given up.
ClaimMark(r) ==
    /\ pc[r] = "mark"
    /\ \/ /\ MarkSystemTaskLeaseExpired(old[r])
          /\ Goto(r, "update")
          /\ UNCHANGED <<errors, lostClaim>>
       \/ /\ DbError
          /\ LoseClaim(TypeOf(cur[r]), TRUE)
          /\ Goto(r, "release")
          /\ UNCHANGED rows
    /\ UNCHANGED <<locks, age, todo, stale, cur, old, handler, superseded>>

\* WHERE id = t AND status = 'pending'.
ClaimableAnyway(t) == status[t] # "absent"
Claimable(t) == status[t] = "pending"

\* UPDATE status = running, then the row is read
\* again and the handler started; when the read fails, nobody runs the row.
ClaimUpdate(r) ==
    LET t == cur[r] IN
    /\ pc[r] = "update"
    /\ Claimable(t)
    /\ status' = [status EXCEPT ![t] = "running"]
    /\ rowOwner' = [rowOwner EXCEPT ![t] = {r}]
    /\ LoseClaim(TypeOf(t), ~HoldsLease(r, t))
    /\ \/ handler' = [handler EXCEPT ![r][t] = "run"] /\ UNCHANGED errors
       \/ DbError /\ UNCHANGED handler
    /\ ClaimReturns(r)
    /\ UNCHANGED <<key, active, locks, todo, stale, superseded>>

\* The UPDATE fails or matches no row.
ClaimUpdateMiss(r) ==
    /\ pc[r] = "update"
    /\ \/ ~Claimable(cur[r]) /\ UNCHANGED errors
       \/ DbError
    /\ Goto(r, "release")
    /\ UNCHANGED <<rows, locks, age, todo, stale, cur, old, handler,
                   superseded, lostClaim>>

\* _ = ReleaseSystemTaskLock(...): its error is ignored.
ClaimRelease(r) ==
    /\ pc[r] = "release"
    /\ \/ ReleaseSystemTaskLock(r, cur[r]) /\ UNCHANGED errors
       \/ DbError /\ UNCHANGED locks
    /\ ClaimReturns(r)
    /\ UNCHANGED <<rows, todo, stale, handler, superseded, lostClaim>>

-----------------------------------------------------------------------------
(* Handlers: runWithLeaseHeartbeat around SystemTaskHandler.Run *)

SetHandler(r, t, s) == handler' = [handler EXCEPT ![r][t] = s]

\* A heartbeat extends the lease.
RenewSystemTaskLock(r, t) ==
    /\ handler[r][t] \in {"run", "release"}
    /\ HoldsLease(r, t)
    /\ left' = [left EXCEPT ![TypeOf(t)] = TTL]
    /\ UNCHANGED <<rows, lockTask, lockOwner, loop, handler, errors,
                   superseded, lostClaim>>

\* The heartbeat finds the lease gone, or fails: the context is cancelled and no
\* heartbeat follows.
HeartbeatLost(r, t) ==
    /\ handler[r][t] = "run"
    /\ \/ ~HoldsLease(r, t) /\ UNCHANGED errors
       \/ DbError
    /\ SetHandler(r, t, "cancelled")
    /\ UNCHANGED <<rows, locks, loop, superseded, lostClaim>>

\* WHERE of UpdateSystemTaskState and FinishSystemTask.
MayWriteUnfenced(r, t) == status[t] = "running" /\ rowOwner[t] = {r}
MayWrite(r, t) == status[t] = "running" /\ rowOwner[t] = {r} /\ HoldsLease(r, t)

\* UpdateSystemTaskState or FinishSystemTask matches no row (ErrSystemTaskLockLost) or
\* fails: the handler returns and does not release the lease.
HandlerWriteLost(r, t) ==
    /\ handler[r][t] \in {"run", "cancelled"}
    /\ \/ ~MayWrite(r, t) /\ UNCHANGED errors
       \/ DbError
    /\ SetHandler(r, t, "done")
    /\ UNCHANGED <<rows, locks, loop, superseded, lostClaim>>

\* FinishSystemTask with either result: the row ends, the lease is released afterwards.
FinishSystemTask(r, t) ==
    /\ handler[r][t] \in {"run", "cancelled"}
    /\ MayWrite(r, t)
    /\ \E s \in {"succeeded", "failed"} : EndRow(t, s)
    /\ SetHandler(r, t, "release")
    /\ UNCHANGED <<locks, loop, errors, superseded, lostClaim>>

\* The last statement of FinishSystemTask.
HandlerRelease(r, t) ==
    /\ handler[r][t] = "release"
    /\ \/ ReleaseSystemTaskLock(r, t) /\ UNCHANGED errors
       \/ DbError /\ UNCHANGED locks
    /\ SetHandler(r, t, "done")
    /\ UNCHANGED <<rows, loop, superseded, lostClaim>>

-----------------------------------------------------------------------------
(* The environment: shutdown, crash, time *)

Up(r) == pc[r] \notin {"stopped", "dead"}

\* Bound: some node stays up.
SomeOtherUp(r) == \E s \in Runner \ {r} : Up(s)

\* BeginSystemTaskShutdown closes systemTaskStop: the loop returns between two passes, or
\* before the claim pass; handlers that were dispatched go on.
LoopStops(r) ==
    /\ pc[r] \in {"idle", "pick"} /\ SomeOtherUp(r)
    /\ Goto(r, "stopped")
    /\ UNCHANGED <<rows, locks, age, todo, stale, cur, old, handler, errors,
                   superseded, lostClaim>>

\* The process ends, wherever its loop and its handlers are.
Crash(r) ==
    /\ pc[r] # "dead" /\ SomeOtherUp(r)
    /\ LoseClaim(TypeOf(cur[r]), pc[r] = "mark")
    /\ pc' = [pc EXCEPT ![r] = "dead"]
    /\ age' = [age EXCEPT ![r] = 0]
    /\ todo' = [todo EXCEPT ![r] = {}]
    /\ stale' = [stale EXCEPT ![r] = {}]
    /\ cur' = [cur EXCEPT ![r] = None]
    /\ old' = [old EXCEPT ![r] = None]
    /\ handler' = [handler EXCEPT ![r] =
           [t \in Task |-> IF handler[r][t] = "none" THEN "none" ELSE "done"]]
    /\ UNCHANGED <<rows, locks, errors, superseded>>

\* The loop holds a clock reading that a later statement will use.
UsesClock(r) == pc[r] \in {"stale", "staleDelete", "insert", "inspect", "steal"}

\* Time passes; MaxLate bounds how long a loop may hold on to one reading.
Tick ==
    /\ \A r \in Runner : UsesClock(r) => age[r] < MaxLate
    /\ \E ty \in Type : left[ty] > Floor
    /\ left' = [ty \in Type |-> IF left[ty] > Floor THEN left[ty] - 1 ELSE Floor]
    /\ age' = [r \in Runner |-> IF UsesClock(r) THEN age[r] + 1 ELSE age[r]]
    /\ UNCHANGED <<rows, lockTask, lockOwner, pc, todo, stale, cur, old, handler,
                   errors, superseded, lostClaim>>

-----------------------------------------------------------------------------
LoopStep(r) ==
    \/ StaleRead(r) \/ StaleMark(r) \/ StaleDelete(r) \/ StaleError(r) \/ StaleDone(r)
    \/ PickPending(r) \/ ClaimSelect(r) \/ ClaimPassDone(r)
    \/ LockInsert(r) \/ LockInspect(r) \/ LockSteal(r)
    \/ ClaimMark(r) \/ ClaimUpdate(r) \/ ClaimUpdateMiss(r) \/ ClaimRelease(r)

HandlerEnds(r, t) ==
    \/ HandlerWriteLost(r, t) \/ FinishSystemTask(r, t) \/ HandlerRelease(r, t)

Next ==
    \/ \E k \in Key : Enqueue(k)
    \/ \E r \in Runner : LoopStep(r) \/ LoopStops(r) \/ Crash(r)
    \/ \E r \in Runner, t \in Task :
          RenewSystemTaskLock(r, t) \/ HeartbeatLost(r, t) \/ HandlerEnds(r, t)
    \/ Tick

Spec == Init /\ [][Next]_vars

(***************************************************************************)
(* Fairness.  The loop of a node that is up and its handlers go on: the    *)
(* loop is woken by a ticker, every statement returns, and a handler       *)
(* returns after finitely many statements.  The ticker also makes the      *)
(* stale-lock pass run again and again (systemTaskStaleLockInterval), while*)
(* a pass may skip it: strong fairness of StaleRead.  Nothing is assumed   *)
(* of heartbeats being in time, and crashes are not fair.                  *)
(***************************************************************************)
Fairness ==
    /\ WF_vars(Tick)
    /\ \A r \in Runner : WF_vars(LoopStep(r)) /\ SF_vars(StaleRead(r))
    /\ \A r \in Runner, t \in Task : WF_vars(HandlerEnds(r, t))

FairSpec == Spec /\ Fairness

-----------------------------------------------------------------------------
(* Properties *)

RowsOK ==
    /\ status \in [Task -> {"absent", "pending", "running", "succeeded", "failed"}]
    /\ key \in [Task -> Key]
    /\ active \in [Task -> BOOLEAN]
    /\ rowOwner \in [Task -> SUBSET Runner]

LocksOK ==
    /\ lockTask \in [Type -> Task \union {None}]
    /\ lockOwner \in [Type -> SUBSET Runner]
    /\ left \in [Type -> Floor..TTL]

LoopOK ==
    /\ pc \in [Runner -> PC]
    /\ age \in [Runner -> 0..MaxLate]
    /\ todo \in [Runner -> SUBSET Task]
    /\ stale \in [Runner -> SUBSET Stale]
    /\ cur \in [Runner -> Task \union {None}]
    /\ old \in [Runner -> Task \union {None}]

HandlersOK ==
    /\ handler \in [Runner -> [Task -> {"none", "run", "cancelled", "release", "done"}]]
    /\ errors \in 0..MaxDbErrors
    /\ superseded \subseteq Runner \X Task
    /\ lostClaim \subseteq Type

\* Every column and local variable keeps its type; a lease never lasts longer than TTL
\* from now, and no clock reading is used beyond MaxLate.
TypeOK == RowsOK /\ LocksOK /\ LoopOK /\ HandlersOK

Running(ty) == {t \in Task : status[t] = "running" /\ TypeOf(t) = ty}

\* Rows of one type run one after the other ("execution serialized by task type",
\* EnqueueSystemTaskWithKey), whatever leases expire, loops stall and nodes crash, except
\* after a claim that outlived its lease: one that died or failed between taking a lease
\* over and failing the row it was for, was itself overtaken there, or set its row running
\* after its own lease had ended.
SerialisedByType ==
    \A ty \in Type \ lostClaim : \A t, u \in Running(ty) : t = u

\* A row is handed to at most one handler, on one node, ever: select, lease and the guarded
\* UPDATE of ClaimSystemTask are three statements, and other nodes run between them.
DispatchedOnce ==
    \A t \in Task : \A r, s \in Runner :
        handler[r][t] # "none" /\ handler[s][t] # "none" => r = s

\* A handler ends a row only if nobody has acquired the lease of its type since it was
\* dispatched: FinishSystemTask is fenced by the lease, not by the row alone.
FinishFenced ==
    [][\A r \in Runner, t \in Task :
          handler[r][t] # "release" /\ handler'[r][t] = "release"
             => <<r, t>> \notin superseded]_vars

\* A lease that has not ended is not taken away: its row goes to another claim or
\* disappears only by a release of the runner that holds it.
LiveLeaseKept ==
    [][\A ty \in Type :
          /\ lockTask[ty] # None /\ left[ty] >= 0
          /\ <<lockTask'[ty], lockOwner'[ty]>> # <<lockTask[ty], lockOwner[ty]>>
          => \E r \in lockOwner[ty] : \/ pc[r] = "release"
                                      \/ handler[r][lockTask[ty]] = "release"]_vars

\* A row holds its active key exactly while it is pending or running, so that an ended
\* job never blocks the next one with its key, and two active rows never share a key.
KeyHeldWhileActive ==
    \A t \in Task :
        /\ active[t] <=> status[t] \in {"pending", "running"}
        /\ active[t] => \A u \in Task \ {t} : active[u] => key[u] # key[t]

\* Every job comes to an end, with nodes crashing and leases expiring, unless a claim
\* outlived its lease.
EveryTaskEnds ==
    \A t \in Task : status[t] = "pending"
                      ~> status[t] \in {"succeeded", "failed"} \/ lostClaim # {}

\* "Mark expired leases failed" (systemTaskRunnerIdleInterval): a running row whose handler
\* is gone does not stay running, whatever happened to the claim.
AbandonedRowIsFailed ==
    \A t \in Task :
        (status[t] = "running" /\ \A r \in Runner : handler[r][t] \in {"none", "done"})
           ~> status[t] # "running"

=============================================================================

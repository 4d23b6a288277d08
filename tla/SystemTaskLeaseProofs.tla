----------------------- MODULE SystemTaskLeaseProofs -----------------------
(***************************************************************************)
(* What the lease of a task type guarantees: a lease that has not ended is *)
(* not taken away, a handler whose lease passed on ends no row, and rows of*)
(* one type run one after the other.                                       *)
(***************************************************************************)
EXTENDS SystemTaskProofs

-----------------------------------------------------------------------------
(* What a step does to the lease rows, to the rows and to the loops *)

\* The lease of ty keeps its claim; only a heartbeat and time move its end.
LockSame(ty) ==
    /\ lockTask'[ty] = lockTask[ty] /\ lockOwner'[ty] = lockOwner[ty]
    /\ left'[ty] \in {left[ty], TTL} \/ Tick

\* The loop of r acquires the lease of ty: a lease row that was missing, or one that had
\* ended; then the claim of a steal is lost unless the row it read is still the victim and
\* nobody else is taking the lease over.
Acquires(r, ty) ==
    /\ TypeOf(cur[r]) = ty /\ lockTask'[ty] = cur[r] /\ lockOwner'[ty] = {r}
    /\ UNCHANGED <<rows, handler, cur, old>>
    /\ \/ pc[r] = "insert" /\ lockTask[ty] = None /\ pc' = [pc EXCEPT ![r] = "update"]
       \/ /\ pc[r] = "steal" /\ lockTask[ty] # None /\ Expired(r, ty)
          /\ pc' = [pc EXCEPT ![r] = IF old[r] # cur[r] THEN "mark" ELSE "update"]
          /\ ty \notin lostClaim' => lockTask[ty] = old[r] /\ ~TakingOver(ty)

\* The lease row of ty is deleted: by the claim that holds it, by the handler that holds
\* it, or by the stale-lock pass after it had ended.
Frees(ty) ==
    /\ lockTask'[ty] = None
    /\ UNCHANGED rows
    /\ \/ \E r \in Runner :
             pc[r] = "release" /\ TypeOf(cur[r]) = ty /\ HoldsLock(r, cur[r])
       \/ \E r \in Runner, t \in Task :
             handler[r][t] = "release" /\ TypeOf(t) = ty /\ HoldsLock(r, t)
       \/ \E r \in Runner :
             /\ pc[r] = "staleDelete" /\ cur[r] \in Task /\ lockTask[ty] = cur[r]
             /\ Expired(r, ty)
             /\ ty \notin lostClaim' => ~TakingOver(ty)

LockMove(ty) == LockSame(ty) \/ Frees(ty) \/ \E s \in Runner : Acquires(s, ty)

LEMMA InsertAcquires ==
    ASSUME TypeOK, Refs, NEW r \in Runner, LockInsert(r), lockTask[TypeOf(cur[r])] = None
    PROVE  /\ TypeOf(cur[r]) \in Type /\ Acquires(r, TypeOf(cur[r]))
           /\ SetLock(TypeOf(cur[r]), cur[r], r, LeaseLeft(r))
<1>1. TypeOf(cur[r]) \in Type
  BY TypeOfType DEF LockInsert, TypeOK, Refs, CurRefs, Claiming
<1>2. SetLock(TypeOf(cur[r]), cur[r], r, LeaseLeft(r))
  BY DEF LockInsert
<1>3. lockTask'[TypeOf(cur[r])] = cur[r] /\ lockOwner'[TypeOf(cur[r])] = {r}
  BY <1>1, <1>2 DEF SetLock, TypeOK, LocksOK
<1>4. Acquires(r, TypeOf(cur[r]))
  BY <1>3 DEF LockInsert, Acquires, Goto
<1> QED
  BY <1>1, <1>2, <1>4

LEMMA StealAcquires ==
    ASSUME TypeOK, Refs, NEW r \in Runner, LockSteal(r),
           lockTask[TypeOf(cur[r])] # None, Expired(r, TypeOf(cur[r]))
    PROVE  /\ TypeOf(cur[r]) \in Type /\ Acquires(r, TypeOf(cur[r]))
           /\ SetLock(TypeOf(cur[r]), cur[r], r, LeaseLeft(r))
<1>1. TypeOf(cur[r]) \in Type
  BY TypeOfType DEF LockSteal, TypeOK, Refs, CurRefs, Claiming
<1>2. SetLock(TypeOf(cur[r]), cur[r], r, LeaseLeft(r))
  BY DEF LockSteal
<1>3. lockTask'[TypeOf(cur[r])] = cur[r] /\ lockOwner'[TypeOf(cur[r])] = {r}
  BY <1>1, <1>2 DEF SetLock, TypeOK, LocksOK
<1>4. TypeOf(cur[r]) \notin lostClaim'
         => lockTask[TypeOf(cur[r])] = old[r] /\ ~TakingOver(TypeOf(cur[r]))
  BY DEF LockSteal, LoseClaim
<1>5. Acquires(r, TypeOf(cur[r]))
  BY <1>3, <1>4 DEF LockSteal, Acquires, Goto
<1> QED
  BY <1>1, <1>2, <1>5

LEMMA LockMoves ==
    ASSUME TypeOK, Refs, Next
    PROVE  \A ty \in Type : LockMove(ty)
<1>1. ASSUME \E k \in Key : Enqueue(k) PROVE \A ty \in Type : LockMove(ty)
  BY <1>1 DEF Enqueue, locks, loop, LockMove, LockSame, TypeOK, LocksOK
<1>2. ASSUME NEW r \in Runner, StaleRead(r) PROVE \A ty \in Type : LockMove(ty)
  BY <1>2 DEF StaleRead, locks, LockMove, LockSame, TypeOK, LocksOK
<1>3. ASSUME NEW r \in Runner, StaleMark(r) PROVE \A ty \in Type : LockMove(ty)
  BY <1>3 DEF StaleMark, locks, LockMove, LockSame, TypeOK, LocksOK
<1>4. ASSUME NEW r \in Runner, StaleDelete(r) PROVE \A ty \in Type : LockMove(ty)
  <2>1. PICK l \in stale[r] :
          /\ l.task = cur[r]
          /\ IF /\ lockTask[l.type] = l.task
                /\ lockOwner[l.type] = {l.owner}
                /\ Expired(r, l.type)
             THEN DeleteLock(l.type) /\ LoseClaim(l.type, TakingOver(l.type))
             ELSE UNCHANGED <<locks, lostClaim>>
    BY <1>4 DEF StaleDelete
  <2>2. l.type \in Type /\ l.task \in Task /\ pc[r] = "staleDelete" /\ UNCHANGED rows
    BY <1>4 DEF StaleDelete, TypeOK, LoopOK, Stale
  <2>3. CASE /\ lockTask[l.type] = l.task /\ Expired(r, l.type)
             /\ DeleteLock(l.type) /\ LoseClaim(l.type, TakingOver(l.type))
    <3>1. Frees(l.type)
      BY <2>1, <2>2, <2>3 DEF Frees, DeleteLock, LoseClaim, TypeOK, LocksOK
    <3>2. \A ty \in Type \ {l.type} : LockSame(ty)
      BY <2>2, <2>3 DEF DeleteLock, LockSame, TypeOK, LocksOK
    <3> QED
      BY <3>1, <3>2 DEF LockMove
  <2> QED
    BY <2>1, <2>3 DEF LockMove, LockSame, locks
<1>5. ASSUME NEW r \in Runner, StaleError(r) PROVE \A ty \in Type : LockMove(ty)
  BY <1>5 DEF StaleError, locks, LockMove, LockSame, TypeOK, LocksOK
<1>6. ASSUME NEW r \in Runner, StaleDone(r) PROVE \A ty \in Type : LockMove(ty)
  BY <1>6 DEF StaleDone, locks, LockMove, LockSame, TypeOK, LocksOK
<1>7. ASSUME NEW r \in Runner, PickPending(r) PROVE \A ty \in Type : LockMove(ty)
  BY <1>7 DEF PickPending, locks, LockMove, LockSame, TypeOK, LocksOK
<1>8. ASSUME NEW r \in Runner, ClaimSelect(r) PROVE \A ty \in Type : LockMove(ty)
  BY <1>8 DEF ClaimSelect, locks, LockMove, LockSame, TypeOK, LocksOK
<1>9. ASSUME NEW r \in Runner, ClaimPassDone(r) PROVE \A ty \in Type : LockMove(ty)
  BY <1>9 DEF ClaimPassDone, locks, LockMove, LockSame, TypeOK, LocksOK
<1>10. ASSUME NEW r \in Runner, LockInsert(r) PROVE \A ty \in Type : LockMove(ty)
  <2> DEFINE ty0 == TypeOf(cur[r])
  <2>1. CASE lockTask[ty0] = None
    <3>1. ty0 \in Type /\ Acquires(r, ty0) /\ SetLock(ty0, cur[r], r, LeaseLeft(r))
      BY <1>10, <2>1, InsertAcquires
    <3>2. \A ty \in Type \ {ty0} : LockSame(ty)
      BY <3>1 DEF SetLock, LockSame, TypeOK, LocksOK
    <3> QED
      BY <3>1, <3>2 DEF LockMove
  <2> QED
    BY <1>10, <2>1 DEF LockInsert, LockMove, LockSame, locks
<1>11. ASSUME NEW r \in Runner, LockInspect(r) PROVE \A ty \in Type : LockMove(ty)
  BY <1>11 DEF LockInspect, locks, LockMove, LockSame, TypeOK, LocksOK
<1>12. ASSUME NEW r \in Runner, LockSteal(r) PROVE \A ty \in Type : LockMove(ty)
  <2> DEFINE ty0 == TypeOf(cur[r])
  <2>1. CASE lockTask[ty0] # None /\ Expired(r, ty0)
    <3>1. ty0 \in Type /\ Acquires(r, ty0) /\ SetLock(ty0, cur[r], r, LeaseLeft(r))
      BY <1>12, <2>1, StealAcquires
    <3>2. \A ty \in Type \ {ty0} : LockSame(ty)
      BY <3>1 DEF SetLock, LockSame, TypeOK, LocksOK
    <3> QED
      BY <3>1, <3>2 DEF LockMove
  <2> QED
    BY <1>12, <2>1 DEF LockSteal, LockMove, LockSame, locks
<1>13. ASSUME NEW r \in Runner, ClaimMark(r) PROVE \A ty \in Type : LockMove(ty)
  BY <1>13 DEF ClaimMark, locks, LockMove, LockSame, TypeOK, LocksOK
<1>14. ASSUME NEW r \in Runner, ClaimUpdate(r) PROVE \A ty \in Type : LockMove(ty)
  BY <1>14 DEF ClaimUpdate, locks, LockMove, LockSame, TypeOK, LocksOK
<1>15. ASSUME NEW r \in Runner, ClaimUpdateMiss(r) PROVE \A ty \in Type : LockMove(ty)
  BY <1>15 DEF ClaimUpdateMiss, locks, LockMove, LockSame, TypeOK, LocksOK
<1>16. ASSUME NEW r \in Runner, ClaimRelease(r) PROVE \A ty \in Type : LockMove(ty)
  <2> DEFINE ty0 == TypeOf(cur[r])
  <2>1. cur[r] \in Task /\ ty0 \in Type /\ pc[r] = "release" /\ UNCHANGED rows
    BY <1>16, TypeOfType DEF ClaimRelease, TypeOK, Refs, CurRefs, Claiming
  <2>2. CASE HoldsLock(r, cur[r]) /\ DeleteLock(ty0)
    <3>1. Frees(ty0)
      BY <2>1, <2>2 DEF Frees, DeleteLock, TypeOK, LocksOK
    <3>2. \A ty \in Type \ {ty0} : LockSame(ty)
      BY <2>2 DEF DeleteLock, LockSame, TypeOK, LocksOK
    <3> QED
      BY <3>1, <3>2 DEF LockMove
  <2> QED
    BY <1>16, <2>2 DEF ClaimRelease, ReleaseSystemTaskLock, LockMove, LockSame, locks
<1>17. ASSUME NEW r \in Runner, LoopStops(r) PROVE \A ty \in Type : LockMove(ty)
  BY <1>17 DEF LoopStops, locks, LockMove, LockSame, TypeOK, LocksOK
<1>18. ASSUME NEW r \in Runner, Crash(r) PROVE \A ty \in Type : LockMove(ty)
  BY <1>18 DEF Crash, locks, LockMove, LockSame, TypeOK, LocksOK
<1>19. ASSUME NEW r \in Runner, NEW t \in Task, RenewSystemTaskLock(r, t) PROVE \A ty \in Type : LockMove(ty)
  BY <1>19 DEF RenewSystemTaskLock, loop, LockMove, LockSame, TypeOK, LocksOK
<1>20. ASSUME NEW r \in Runner, NEW t \in Task, HeartbeatLost(r, t) PROVE \A ty \in Type : LockMove(ty)
  BY <1>20 DEF HeartbeatLost, locks, loop, LockMove, LockSame, TypeOK, LocksOK
<1>21. ASSUME NEW r \in Runner, NEW t \in Task, HandlerWriteLost(r, t) PROVE \A ty \in Type : LockMove(ty)
  BY <1>21 DEF HandlerWriteLost, locks, loop, LockMove, LockSame, TypeOK, LocksOK
<1>22. ASSUME NEW r \in Runner, NEW t \in Task, FinishSystemTask(r, t) PROVE \A ty \in Type : LockMove(ty)
  BY <1>22 DEF FinishSystemTask, locks, loop, LockMove, LockSame, TypeOK, LocksOK
<1>23. ASSUME NEW r \in Runner, NEW t \in Task, HandlerRelease(r, t) PROVE \A ty \in Type : LockMove(ty)
  <2> DEFINE ty0 == TypeOf(t)
  <2>1. ty0 \in Type /\ handler[r][t] = "release" /\ UNCHANGED rows
    BY <1>23, TypeOfType DEF HandlerRelease, TypeOK
  <2>2. CASE HoldsLock(r, t) /\ DeleteLock(ty0)
    <3>1. Frees(ty0)
      BY <2>1, <2>2 DEF Frees, DeleteLock, TypeOK, LocksOK
    <3>2. \A ty \in Type \ {ty0} : LockSame(ty)
      BY <2>2 DEF DeleteLock, LockSame, TypeOK, LocksOK
    <3> QED
      BY <3>1, <3>2 DEF LockMove
  <2> QED
    BY <1>23, <2>2 DEF HandlerRelease, ReleaseSystemTaskLock, LockMove, LockSame, locks
<1>24. ASSUME Tick PROVE \A ty \in Type : LockMove(ty)
  BY <1>24 DEF Tick, LockMove, LockSame, TypeOK, LocksOK
<1> QED
  BY <1>1, <1>2, <1>3, <1>4, <1>5, <1>6, <1>7, <1>8, <1>9, <1>10, <1>11, <1>12, <1>13, <1>14,
       <1>15, <1>16, <1>17, <1>18, <1>19, <1>20, <1>21, <1>22, <1>23, <1>24 DEF Next,
       LoopStep, HandlerEnds

\* A row becomes running only by the UPDATE of a claim; the claim is lost unless its lease
\* holds at that moment.
StartsRunning(r, t) ==
    /\ pc[r] = "update" /\ cur[r] = t
    /\ TypeOf(t) \notin lostClaim' => HoldsLease(r, t)
    /\ pc' = [pc EXCEPT ![r] = "claim"]
    /\ UNCHANGED <<lockTask, lockOwner, left, key>>

RowMove(t) ==
    status'[t] = "running" => status[t] = "running" \/ \E s \in Runner : StartsRunning(s, t)

LEMMA RowMoves ==
    ASSUME TypeOK, Refs, Next
    PROVE  \A u \in Task : RowMove(u)
<1>1. ASSUME \E k \in Key : Enqueue(k) PROVE \A u \in Task : RowMove(u)
  BY <1>1 DEF Enqueue, locks, loop, RowMove, TypeOK, RowsOK
<1>2. ASSUME NEW r \in Runner, StaleRead(r) PROVE \A u \in Task : RowMove(u)
  BY <1>2 DEF StaleRead, rows, locks, ReadClock, RowMove, TypeOK, RowsOK
<1>3. ASSUME NEW r \in Runner, StaleMark(r) PROVE \A u \in Task : RowMove(u)
  BY <1>3 DEF StaleMark, rows, locks, EndRow, MarkSystemTaskLeaseExpired, RowMove, TypeOK,
       RowsOK
<1>4. ASSUME NEW r \in Runner, StaleDelete(r) PROVE \A u \in Task : RowMove(u)
  BY <1>4 DEF StaleDelete, rows, locks, LoseClaim, RowMove, TypeOK, RowsOK
<1>5. ASSUME NEW r \in Runner, StaleError(r) PROVE \A u \in Task : RowMove(u)
  BY <1>5 DEF StaleError, rows, locks, ReadClock, RowMove, TypeOK, RowsOK
<1>6. ASSUME NEW r \in Runner, StaleDone(r) PROVE \A u \in Task : RowMove(u)
  BY <1>6 DEF StaleDone, rows, locks, ReadClock, RowMove, TypeOK, RowsOK
<1>7. ASSUME NEW r \in Runner, PickPending(r) PROVE \A u \in Task : RowMove(u)
  BY <1>7 DEF PickPending, rows, locks, RowMove, TypeOK, RowsOK
<1>8. ASSUME NEW r \in Runner, ClaimSelect(r) PROVE \A u \in Task : RowMove(u)
  BY <1>8 DEF ClaimSelect, rows, locks, ReadClock, RowMove, TypeOK, RowsOK
<1>9. ASSUME NEW r \in Runner, ClaimPassDone(r) PROVE \A u \in Task : RowMove(u)
  BY <1>9 DEF ClaimPassDone, rows, locks, RowMove, TypeOK, RowsOK
<1>10. ASSUME NEW r \in Runner, LockInsert(r) PROVE \A u \in Task : RowMove(u)
  BY <1>10 DEF LockInsert, rows, locks, ReadClock, RowMove, TypeOK, RowsOK
<1>11. ASSUME NEW r \in Runner, LockInspect(r) PROVE \A u \in Task : RowMove(u)
  BY <1>11 DEF LockInspect, rows, locks, ReadClock, ClaimReturns, RowMove, TypeOK, RowsOK
<1>12. ASSUME NEW r \in Runner, LockSteal(r) PROVE \A u \in Task : RowMove(u)
  BY <1>12 DEF LockSteal, rows, locks, ReadClock, ClaimReturns, LoseClaim, RowMove, TypeOK,
       RowsOK
<1>13. ASSUME NEW r \in Runner, ClaimMark(r) PROVE \A u \in Task : RowMove(u)
  BY <1>13 DEF ClaimMark, rows, locks, EndRow, MarkSystemTaskLeaseExpired, LoseClaim,
       RowMove, TypeOK, RowsOK
<1>14. ASSUME NEW r \in Runner, ClaimUpdate(r) PROVE \A u \in Task : RowMove(u)
  <2>1. cur[r] \in Task
    BY <1>14 DEF ClaimUpdate, Refs, CurRefs, Claiming
  <2>2. StartsRunning(r, cur[r])
    BY <1>14 DEF ClaimUpdate, ClaimReturns, Goto, LoseClaim, StartsRunning, locks
  <2> QED
    BY <1>14, <2>1, <2>2 DEF ClaimUpdate, RowMove, TypeOK, RowsOK
<1>15. ASSUME NEW r \in Runner, ClaimUpdateMiss(r) PROVE \A u \in Task : RowMove(u)
  BY <1>15 DEF ClaimUpdateMiss, rows, locks, Claimable, RowMove, TypeOK, RowsOK
<1>16. ASSUME NEW r \in Runner, ClaimRelease(r) PROVE \A u \in Task : RowMove(u)
  BY <1>16 DEF ClaimRelease, rows, locks, ReadClock, ClaimReturns, ReleaseSystemTaskLock,
       RowMove, TypeOK, RowsOK
<1>17. ASSUME NEW r \in Runner, LoopStops(r) PROVE \A u \in Task : RowMove(u)
  BY <1>17 DEF LoopStops, rows, locks, RowMove, TypeOK, RowsOK
<1>18. ASSUME NEW r \in Runner, Crash(r) PROVE \A u \in Task : RowMove(u)
  BY <1>18 DEF Crash, rows, locks, LoseClaim, RowMove, TypeOK, RowsOK
<1>19. ASSUME NEW r \in Runner, NEW t \in Task, RenewSystemTaskLock(r, t) PROVE \A u \in Task : RowMove(u)
  BY <1>19 DEF RenewSystemTaskLock, rows, loop, RowMove, TypeOK, RowsOK
<1>20. ASSUME NEW r \in Runner, NEW t \in Task, HeartbeatLost(r, t) PROVE \A u \in Task : RowMove(u)
  BY <1>20 DEF HeartbeatLost, rows, locks, loop, SetHandler, RowMove, TypeOK, RowsOK
<1>21. ASSUME NEW r \in Runner, NEW t \in Task, HandlerWriteLost(r, t) PROVE \A u \in Task : RowMove(u)
  BY <1>21 DEF HandlerWriteLost, rows, locks, loop, SetHandler, RowMove, TypeOK, RowsOK
<1>22. ASSUME NEW r \in Runner, NEW t \in Task, FinishSystemTask(r, t) PROVE \A u \in Task : RowMove(u)
  BY <1>22 DEF FinishSystemTask, locks, loop, EndRow, SetHandler, RowMove, TypeOK, RowsOK
<1>23. ASSUME NEW r \in Runner, NEW t \in Task, HandlerRelease(r, t) PROVE \A u \in Task : RowMove(u)
  BY <1>23 DEF HandlerRelease, rows, locks, loop, ReleaseSystemTaskLock, SetHandler, RowMove,
       TypeOK, RowsOK
<1>24. ASSUME Tick PROVE \A u \in Task : RowMove(u)
  BY <1>24 DEF Tick, rows, UsesClock, RowMove, TypeOK, RowsOK
<1> QED
  BY <1>1, <1>2, <1>3, <1>4, <1>5, <1>6, <1>7, <1>8, <1>9, <1>10, <1>11, <1>12, <1>13, <1>14,
       <1>15, <1>16, <1>17, <1>18, <1>19, <1>20, <1>21, <1>22, <1>23, <1>24 DEF Next,
       LoopStep, HandlerEnds

\* A lost claim is remembered.
LEMMA LostGrows ==
    ASSUME Next
    PROVE  lostClaim \subseteq lostClaim'
<1>1. ASSUME \E k \in Key : Enqueue(k) PROVE lostClaim \subseteq lostClaim'
  BY <1>1 DEF Enqueue, loop
<1>2. ASSUME NEW r \in Runner, StaleRead(r) PROVE lostClaim \subseteq lostClaim'
  BY <1>2 DEF StaleRead
<1>3. ASSUME NEW r \in Runner, StaleMark(r) PROVE lostClaim \subseteq lostClaim'
  BY <1>3 DEF StaleMark
<1>4. ASSUME NEW r \in Runner, StaleDelete(r) PROVE lostClaim \subseteq lostClaim'
  BY <1>4 DEF StaleDelete, LoseClaim
<1>5. ASSUME NEW r \in Runner, StaleError(r) PROVE lostClaim \subseteq lostClaim'
  BY <1>5 DEF StaleError
<1>6. ASSUME NEW r \in Runner, StaleDone(r) PROVE lostClaim \subseteq lostClaim'
  BY <1>6 DEF StaleDone
<1>7. ASSUME NEW r \in Runner, PickPending(r) PROVE lostClaim \subseteq lostClaim'
  BY <1>7 DEF PickPending
<1>8. ASSUME NEW r \in Runner, ClaimSelect(r) PROVE lostClaim \subseteq lostClaim'
  BY <1>8 DEF ClaimSelect
<1>9. ASSUME NEW r \in Runner, ClaimPassDone(r) PROVE lostClaim \subseteq lostClaim'
  BY <1>9 DEF ClaimPassDone
<1>10. ASSUME NEW r \in Runner, LockInsert(r) PROVE lostClaim \subseteq lostClaim'
  BY <1>10 DEF LockInsert
<1>11. ASSUME NEW r \in Runner, LockInspect(r) PROVE lostClaim \subseteq lostClaim'
  BY <1>11 DEF LockInspect
<1>12. ASSUME NEW r \in Runner, LockSteal(r) PROVE lostClaim \subseteq lostClaim'
  BY <1>12 DEF LockSteal, LoseClaim
<1>13. ASSUME NEW r \in Runner, ClaimMark(r) PROVE lostClaim \subseteq lostClaim'
  BY <1>13 DEF ClaimMark, LoseClaim
<1>14. ASSUME NEW r \in Runner, ClaimUpdate(r) PROVE lostClaim \subseteq lostClaim'
  BY <1>14 DEF ClaimUpdate, LoseClaim
<1>15. ASSUME NEW r \in Runner, ClaimUpdateMiss(r) PROVE lostClaim \subseteq lostClaim'
  BY <1>15 DEF ClaimUpdateMiss
<1>16. ASSUME NEW r \in Runner, ClaimRelease(r) PROVE lostClaim \subseteq lostClaim'
  BY <1>16 DEF ClaimRelease
<1>17. ASSUME NEW r \in Runner, LoopStops(r) PROVE lostClaim \subseteq lostClaim'
  BY <1>17 DEF LoopStops
<1>18. ASSUME NEW r \in Runner, Crash(r) PROVE lostClaim \subseteq lostClaim'
  BY <1>18 DEF Crash, LoseClaim
<1>19. ASSUME NEW r \in Runner, NEW t \in Task, RenewSystemTaskLock(r, t) PROVE lostClaim \subseteq lostClaim'
  BY <1>19 DEF RenewSystemTaskLock, loop
<1>20. ASSUME NEW r \in Runner, NEW t \in Task, HeartbeatLost(r, t) PROVE lostClaim \subseteq lostClaim'
  BY <1>20 DEF HeartbeatLost, loop
<1>21. ASSUME NEW r \in Runner, NEW t \in Task, HandlerWriteLost(r, t) PROVE lostClaim \subseteq lostClaim'
  BY <1>21 DEF HandlerWriteLost, loop
<1>22. ASSUME NEW r \in Runner, NEW t \in Task, FinishSystemTask(r, t) PROVE lostClaim \subseteq lostClaim'
  BY <1>22 DEF FinishSystemTask, loop
<1>23. ASSUME NEW r \in Runner, NEW t \in Task, HandlerRelease(r, t) PROVE lostClaim \subseteq lostClaim'
  BY <1>23 DEF HandlerRelease, loop
<1>24. ASSUME Tick PROVE lostClaim \subseteq lostClaim'
  BY <1>24 DEF Tick
<1> QED
  BY <1>1, <1>2, <1>3, <1>4, <1>5, <1>6, <1>7, <1>8, <1>9, <1>10, <1>11, <1>12, <1>13, <1>14,
       <1>15, <1>16, <1>17, <1>18, <1>19, <1>20, <1>21, <1>22, <1>23, <1>24 DEF Next,
       LoopStep, HandlerEnds

Holding == {"mark", "update", "release"}
Judging == {"staleDelete", "insert", "inspect", "steal"}

\* A loop comes to hold a lease only by acquiring it.
HoldMove(r) ==
    pc'[r] \in Holding => \/ pc[r] \in Holding /\ cur'[r] = cur[r]
                          \/ \E ty \in Type : Acquires(r, ty)

\* A loop that took a lease over fails the row the lease was for before it goes on, or its
\* claim is lost.
MarkMove(r) ==
    pc[r] = "mark" => \/ pc'[r] = "mark" /\ cur'[r] = cur[r] /\ old'[r] = old[r]
                      \/ status'[old[r]] # "running"
                      \/ TypeOf(cur[r]) \in lostClaim'

\* A loop starts to judge the lease of a row with a clock reading taken while the row was
\* not running, and keeps that reading.
JudgeMove(r) ==
    pc'[r] \in Judging /\ cur'[r] \in Task =>
        \/ status'[cur'[r]] # "running"
        \/ pc[r] \in Judging /\ cur'[r] = cur[r] /\ (age'[r] = age[r] \/ Tick)

\* A handler that was dispatched leaves a trace, and one that releases held the lease when
\* it ended its row.
HandlerMove(r, t) ==
    /\ handler[r][t] # "none" => handler'[r][t] # "none"
    /\ handler'[r][t] = "release" => handler[r][t] = "release" \/ HoldsLock(r, t)

\* Handlers are superseded by a claim that acquires the lease of their type.
SupersededMove(h) ==
    h \in superseded' =>
        \/ h \in superseded
        \/ /\ handler[h[1]][h[2]] \in {"run", "cancelled"}
           /\ \E s \in Runner : Acquires(s, TypeOf(h[2]))

LEMMA HoldMoves ==
    ASSUME TypeOK, Refs, Next
    PROVE  \A q \in Runner : HoldMove(q)
<1>1. ASSUME \E k \in Key : Enqueue(k) PROVE \A q \in Runner : HoldMove(q)
  BY <1>1 DEF Enqueue, loop, HoldMove, Holding, TypeOK, LoopOK
<1>2. ASSUME NEW r \in Runner, StaleRead(r) PROVE \A q \in Runner : HoldMove(q)
  BY <1>2 DEF StaleRead, rows, Goto, ReadClock, HoldMove, Holding, TypeOK, LoopOK
<1>3. ASSUME NEW r \in Runner, StaleMark(r) PROVE \A q \in Runner : HoldMove(q)
  BY <1>3 DEF StaleMark, rows, Goto, EndRow, MarkSystemTaskLeaseExpired, HoldMove, Holding,
       TypeOK, LoopOK
<1>4. ASSUME NEW r \in Runner, StaleDelete(r) PROVE \A q \in Runner : HoldMove(q)
  BY <1>4 DEF StaleDelete, rows, Goto, HoldMove, Holding, TypeOK, LoopOK
<1>5. ASSUME NEW r \in Runner, StaleError(r) PROVE \A q \in Runner : HoldMove(q)
  BY <1>5 DEF StaleError, rows, Goto, ReadClock, HoldMove, Holding, TypeOK, LoopOK
<1>6. ASSUME NEW r \in Runner, StaleDone(r) PROVE \A q \in Runner : HoldMove(q)
  BY <1>6 DEF StaleDone, rows, Goto, ReadClock, HoldMove, Holding, TypeOK, LoopOK
<1>7. ASSUME NEW r \in Runner, PickPending(r) PROVE \A q \in Runner : HoldMove(q)
  BY <1>7 DEF PickPending, rows, Goto, HoldMove, Holding, TypeOK, LoopOK
<1>8. ASSUME NEW r \in Runner, ClaimSelect(r) PROVE \A q \in Runner : HoldMove(q)
  BY <1>8 DEF ClaimSelect, rows, Goto, ReadClock, HoldMove, Holding, TypeOK, LoopOK
<1>9. ASSUME NEW r \in Runner, ClaimPassDone(r) PROVE \A q \in Runner : HoldMove(q)
  BY <1>9 DEF ClaimPassDone, rows, Goto, HoldMove, Holding, TypeOK, LoopOK
<1>10. ASSUME NEW r \in Runner, LockInsert(r) PROVE \A q \in Runner : HoldMove(q)
  <2>1. CASE lockTask[TypeOf(cur[r])] = None
    BY <1>10, <2>1, InsertAcquires DEF LockInsert, Acquires, HoldMove, TypeOK, LoopOK
  <2> QED
    BY <1>10, <2>1 DEF LockInsert, Goto, HoldMove, Holding, TypeOK, LoopOK
<1>11. ASSUME NEW r \in Runner, LockInspect(r) PROVE \A q \in Runner : HoldMove(q)
  BY <1>11 DEF LockInspect, rows, Goto, ReadClock, ClaimReturns, HoldMove, Holding, TypeOK,
       LoopOK
<1>12. ASSUME NEW r \in Runner, LockSteal(r) PROVE \A q \in Runner : HoldMove(q)
  <2>1. CASE lockTask[TypeOf(cur[r])] # None /\ Expired(r, TypeOf(cur[r]))
    BY <1>12, <2>1, StealAcquires DEF LockSteal, Acquires, HoldMove, TypeOK, LoopOK
  <2> QED
    BY <1>12, <2>1 DEF LockSteal, ClaimReturns, Goto, HoldMove, Holding, TypeOK, LoopOK
<1>13. ASSUME NEW r \in Runner, ClaimMark(r) PROVE \A q \in Runner : HoldMove(q)
  BY <1>13 DEF ClaimMark, rows, Goto, EndRow, MarkSystemTaskLeaseExpired, HoldMove, Holding,
       TypeOK, LoopOK
<1>14. ASSUME NEW r \in Runner, ClaimUpdate(r) PROVE \A q \in Runner : HoldMove(q)
  BY <1>14 DEF ClaimUpdate, Goto, ReadClock, ClaimReturns, HoldMove, Holding, TypeOK, LoopOK
<1>15. ASSUME NEW r \in Runner, ClaimUpdateMiss(r) PROVE \A q \in Runner : HoldMove(q)
  BY <1>15 DEF ClaimUpdateMiss, rows, Goto, HoldMove, Holding, TypeOK, LoopOK
<1>16. ASSUME NEW r \in Runner, ClaimRelease(r) PROVE \A q \in Runner : HoldMove(q)
  BY <1>16 DEF ClaimRelease, rows, Goto, ReadClock, ClaimReturns, HoldMove, Holding, TypeOK,
       LoopOK
<1>17. ASSUME NEW r \in Runner, LoopStops(r) PROVE \A q \in Runner : HoldMove(q)
  BY <1>17 DEF LoopStops, rows, Goto, HoldMove, Holding, TypeOK, LoopOK
<1>18. ASSUME NEW r \in Runner, Crash(r) PROVE \A q \in Runner : HoldMove(q)
  BY <1>18 DEF Crash, rows, HoldMove, Holding, TypeOK, LoopOK
<1>19. ASSUME NEW r \in Runner, NEW t \in Task, RenewSystemTaskLock(r, t) PROVE \A q \in Runner : HoldMove(q)
  BY <1>19 DEF RenewSystemTaskLock, rows, loop, HoldMove, Holding, TypeOK, LoopOK
<1>20. ASSUME NEW r \in Runner, NEW t \in Task, HeartbeatLost(r, t) PROVE \A q \in Runner : HoldMove(q)
  BY <1>20 DEF HeartbeatLost, rows, loop, SetHandler, HoldMove, Holding, TypeOK, LoopOK
<1>21. ASSUME NEW r \in Runner, NEW t \in Task, HandlerWriteLost(r, t) PROVE \A q \in Runner : HoldMove(q)
  BY <1>21 DEF HandlerWriteLost, rows, loop, SetHandler, HoldMove, Holding, TypeOK, LoopOK
<1>22. ASSUME NEW r \in Runner, NEW t \in Task, FinishSystemTask(r, t) PROVE \A q \in Runner : HoldMove(q)
  BY <1>22 DEF FinishSystemTask, loop, EndRow, SetHandler, HoldMove, Holding, TypeOK, LoopOK
<1>23. ASSUME NEW r \in Runner, NEW t \in Task, HandlerRelease(r, t) PROVE \A q \in Runner : HoldMove(q)
  BY <1>23 DEF HandlerRelease, rows, loop, SetHandler, HoldMove, Holding, TypeOK, LoopOK
<1>24. ASSUME Tick PROVE \A q \in Runner : HoldMove(q)
  BY <1>24 DEF Tick, rows, UsesClock, HoldMove, Holding, TypeOK, LoopOK
<1> QED
  BY <1>1, <1>2, <1>3, <1>4, <1>5, <1>6, <1>7, <1>8, <1>9, <1>10, <1>11, <1>12, <1>13, <1>14,
       <1>15, <1>16, <1>17, <1>18, <1>19, <1>20, <1>21, <1>22, <1>23, <1>24 DEF Next,
       LoopStep, HandlerEnds

LEMMA MarkMoves ==
    ASSUME TypeOK, Refs, Next
    PROVE  \A q \in Runner : MarkMove(q)
<1>1. ASSUME \E k \in Key : Enqueue(k) PROVE \A q \in Runner : MarkMove(q)
  BY <1>1 DEF Enqueue, loop, MarkMove, TypeOK, RowsOK, LoopOK
<1>2. ASSUME NEW r \in Runner, StaleRead(r) PROVE \A q \in Runner : MarkMove(q)
  BY <1>2 DEF StaleRead, rows, Goto, ReadClock, MarkMove, TypeOK, RowsOK, LoopOK
<1>3. ASSUME NEW r \in Runner, StaleMark(r) PROVE \A q \in Runner : MarkMove(q)
  BY <1>3 DEF StaleMark, rows, Goto, EndRow, MarkSystemTaskLeaseExpired, MarkMove, TypeOK,
       RowsOK, LoopOK
<1>4. ASSUME NEW r \in Runner, StaleDelete(r) PROVE \A q \in Runner : MarkMove(q)
  BY <1>4 DEF StaleDelete, rows, Goto, LoseClaim, MarkMove, TypeOK, RowsOK, LoopOK
<1>5. ASSUME NEW r \in Runner, StaleError(r) PROVE \A q \in Runner : MarkMove(q)
  BY <1>5 DEF StaleError, rows, Goto, ReadClock, MarkMove, TypeOK, RowsOK, LoopOK
<1>6. ASSUME NEW r \in Runner, StaleDone(r) PROVE \A q \in Runner : MarkMove(q)
  BY <1>6 DEF StaleDone, rows, Goto, ReadClock, MarkMove, TypeOK, RowsOK, LoopOK
<1>7. ASSUME NEW r \in Runner, PickPending(r) PROVE \A q \in Runner : MarkMove(q)
  BY <1>7 DEF PickPending, rows, Goto, MarkMove, TypeOK, RowsOK, LoopOK
<1>8. ASSUME NEW r \in Runner, ClaimSelect(r) PROVE \A q \in Runner : MarkMove(q)
  BY <1>8 DEF ClaimSelect, rows, Goto, ReadClock, MarkMove, TypeOK, RowsOK, LoopOK
<1>9. ASSUME NEW r \in Runner, ClaimPassDone(r) PROVE \A q \in Runner : MarkMove(q)
  BY <1>9 DEF ClaimPassDone, rows, Goto, MarkMove, TypeOK, RowsOK, LoopOK
<1>10. ASSUME NEW r \in Runner, LockInsert(r) PROVE \A q \in Runner : MarkMove(q)
  BY <1>10 DEF LockInsert, rows, Goto, ReadClock, MarkMove, TypeOK, RowsOK, LoopOK
<1>11. ASSUME NEW r \in Runner, LockInspect(r) PROVE \A q \in Runner : MarkMove(q)
  BY <1>11 DEF LockInspect, rows, Goto, ReadClock, ClaimReturns, MarkMove, TypeOK, RowsOK,
       LoopOK
<1>12. ASSUME NEW r \in Runner, LockSteal(r) PROVE \A q \in Runner : MarkMove(q)
  BY <1>12 DEF LockSteal, rows, Goto, ReadClock, ClaimReturns, LoseClaim, MarkMove, TypeOK,
       RowsOK, LoopOK
<1>13. ASSUME NEW r \in Runner, ClaimMark(r) PROVE \A q \in Runner : MarkMove(q)
  <2>1. old[r] \in Task
    BY <1>13 DEF ClaimMark, Refs, OldRefs
  <2>2. \/ status'[old[r]] # "running"
        \/ TypeOf(cur[r]) \in lostClaim'
    BY <1>13, <2>1 DEF ClaimMark, MarkSystemTaskLeaseExpired, EndRow, LoseClaim, rows, TypeOK,
       RowsOK
  <2> QED
    BY <1>13, <2>2 DEF ClaimMark, Goto, MarkMove, TypeOK, LoopOK
<1>14. ASSUME NEW r \in Runner, ClaimUpdate(r) PROVE \A q \in Runner : MarkMove(q)
  BY <1>14 DEF ClaimUpdate, Goto, ReadClock, ClaimReturns, LoseClaim, MarkMove, TypeOK,
       RowsOK, LoopOK
<1>15. ASSUME NEW r \in Runner, ClaimUpdateMiss(r) PROVE \A q \in Runner : MarkMove(q)
  BY <1>15 DEF ClaimUpdateMiss, rows, Goto, MarkMove, TypeOK, RowsOK, LoopOK
<1>16. ASSUME NEW r \in Runner, ClaimRelease(r) PROVE \A q \in Runner : MarkMove(q)
  BY <1>16 DEF ClaimRelease, rows, Goto, ReadClock, ClaimReturns, MarkMove, TypeOK, RowsOK,
       LoopOK
<1>17. ASSUME NEW r \in Runner, LoopStops(r) PROVE \A q \in Runner : MarkMove(q)
  BY <1>17 DEF LoopStops, rows, Goto, MarkMove, TypeOK, RowsOK, LoopOK
<1>18. ASSUME NEW r \in Runner, Crash(r) PROVE \A q \in Runner : MarkMove(q)
  BY <1>18 DEF Crash, rows, LoseClaim, MarkMove, TypeOK, RowsOK, LoopOK
<1>19. ASSUME NEW r \in Runner, NEW t \in Task, RenewSystemTaskLock(r, t) PROVE \A q \in Runner : MarkMove(q)
  BY <1>19 DEF RenewSystemTaskLock, rows, loop, MarkMove, TypeOK, RowsOK, LoopOK
<1>20. ASSUME NEW r \in Runner, NEW t \in Task, HeartbeatLost(r, t) PROVE \A q \in Runner : MarkMove(q)
  BY <1>20 DEF HeartbeatLost, rows, loop, SetHandler, MarkMove, TypeOK, RowsOK, LoopOK
<1>21. ASSUME NEW r \in Runner, NEW t \in Task, HandlerWriteLost(r, t) PROVE \A q \in Runner : MarkMove(q)
  BY <1>21 DEF HandlerWriteLost, rows, loop, SetHandler, MarkMove, TypeOK, RowsOK, LoopOK
<1>22. ASSUME NEW r \in Runner, NEW t \in Task, FinishSystemTask(r, t) PROVE \A q \in Runner : MarkMove(q)
  BY <1>22 DEF FinishSystemTask, loop, EndRow, SetHandler, MarkMove, TypeOK, RowsOK, LoopOK
<1>23. ASSUME NEW r \in Runner, NEW t \in Task, HandlerRelease(r, t) PROVE \A q \in Runner : MarkMove(q)
  BY <1>23 DEF HandlerRelease, rows, loop, SetHandler, MarkMove, TypeOK, RowsOK, LoopOK
<1>24. ASSUME Tick PROVE \A q \in Runner : MarkMove(q)
  BY <1>24 DEF Tick, rows, UsesClock, MarkMove, TypeOK, RowsOK, LoopOK
<1> QED
  BY <1>1, <1>2, <1>3, <1>4, <1>5, <1>6, <1>7, <1>8, <1>9, <1>10, <1>11, <1>12, <1>13, <1>14,
       <1>15, <1>16, <1>17, <1>18, <1>19, <1>20, <1>21, <1>22, <1>23, <1>24 DEF Next,
       LoopStep, HandlerEnds

LEMMA JudgeMoves ==
    ASSUME TypeOK, Refs, Next
    PROVE  \A q \in Runner : JudgeMove(q)
<1>1. ASSUME \E k \in Key : Enqueue(k) PROVE \A q \in Runner : JudgeMove(q)
  BY <1>1, BoundFacts DEF Enqueue, loop, JudgeMove, Judging, TypeOK, RowsOK, LoopOK, Stale
<1>2. ASSUME NEW r \in Runner, StaleRead(r) PROVE \A q \in Runner : JudgeMove(q)
  BY <1>2, BoundFacts DEF StaleRead, rows, Goto, ReadClock, JudgeMove, Judging, TypeOK,
       RowsOK, LoopOK, Stale
<1>3. ASSUME NEW r \in Runner, StaleMark(r) PROVE \A q \in Runner : JudgeMove(q)
  BY <1>3, BoundFacts DEF StaleMark, rows, Goto, EndRow, MarkSystemTaskLeaseExpired,
       JudgeMove, Judging, TypeOK, RowsOK, LoopOK, Stale
<1>4. ASSUME NEW r \in Runner, StaleDelete(r) PROVE \A q \in Runner : JudgeMove(q)
  BY <1>4, BoundFacts DEF StaleDelete, rows, Goto, JudgeMove, Judging, TypeOK, RowsOK,
       LoopOK, Stale
<1>5. ASSUME NEW r \in Runner, StaleError(r) PROVE \A q \in Runner : JudgeMove(q)
  BY <1>5, BoundFacts DEF StaleError, rows, Goto, ReadClock, JudgeMove, Judging, TypeOK,
       RowsOK, LoopOK, Stale
<1>6. ASSUME NEW r \in Runner, StaleDone(r) PROVE \A q \in Runner : JudgeMove(q)
  BY <1>6, BoundFacts DEF StaleDone, rows, Goto, ReadClock, JudgeMove, Judging, TypeOK,
       RowsOK, LoopOK, Stale
<1>7. ASSUME NEW r \in Runner, PickPending(r) PROVE \A q \in Runner : JudgeMove(q)
  BY <1>7, BoundFacts DEF PickPending, rows, Goto, JudgeMove, Judging, TypeOK, RowsOK,
       LoopOK, Stale
<1>8. ASSUME NEW r \in Runner, ClaimSelect(r) PROVE \A q \in Runner : JudgeMove(q)
  BY <1>8, BoundFacts DEF ClaimSelect, rows, Goto, ReadClock, JudgeMove, Judging, TypeOK,
       RowsOK, LoopOK, Stale
<1>9. ASSUME NEW r \in Runner, ClaimPassDone(r) PROVE \A q \in Runner : JudgeMove(q)
  BY <1>9, BoundFacts DEF ClaimPassDone, rows, Goto, JudgeMove, Judging, TypeOK, RowsOK,
       LoopOK, Stale
<1>10. ASSUME NEW r \in Runner, LockInsert(r) PROVE \A q \in Runner : JudgeMove(q)
  BY <1>10, BoundFacts DEF LockInsert, rows, Goto, ReadClock, JudgeMove, Judging, TypeOK,
       RowsOK, LoopOK, Stale
<1>11. ASSUME NEW r \in Runner, LockInspect(r) PROVE \A q \in Runner : JudgeMove(q)
  BY <1>11, BoundFacts DEF LockInspect, rows, Goto, ReadClock, ClaimReturns, JudgeMove,
       Judging, TypeOK, RowsOK, LoopOK, Stale
<1>12. ASSUME NEW r \in Runner, LockSteal(r) PROVE \A q \in Runner : JudgeMove(q)
  BY <1>12, BoundFacts DEF LockSteal, rows, Goto, ReadClock, ClaimReturns, JudgeMove,
       Judging, TypeOK, RowsOK, LoopOK, Stale
<1>13. ASSUME NEW r \in Runner, ClaimMark(r) PROVE \A q \in Runner : JudgeMove(q)
  BY <1>13, BoundFacts DEF ClaimMark, rows, Goto, EndRow, MarkSystemTaskLeaseExpired,
       JudgeMove, Judging, TypeOK, RowsOK, LoopOK, Stale
<1>14. ASSUME NEW r \in Runner, ClaimUpdate(r) PROVE \A q \in Runner : JudgeMove(q)
  BY <1>14, BoundFacts DEF ClaimUpdate, Goto, ReadClock, ClaimReturns, JudgeMove, Judging,
       TypeOK, RowsOK, LoopOK, Stale
<1>15. ASSUME NEW r \in Runner, ClaimUpdateMiss(r) PROVE \A q \in Runner : JudgeMove(q)
  BY <1>15, BoundFacts DEF ClaimUpdateMiss, rows, Goto, JudgeMove, Judging, TypeOK, RowsOK,
       LoopOK, Stale
<1>16. ASSUME NEW r \in Runner, ClaimRelease(r) PROVE \A q \in Runner : JudgeMove(q)
  BY <1>16, BoundFacts DEF ClaimRelease, rows, Goto, ReadClock, ClaimReturns, JudgeMove,
       Judging, TypeOK, RowsOK, LoopOK, Stale
<1>17. ASSUME NEW r \in Runner, LoopStops(r) PROVE \A q \in Runner : JudgeMove(q)
  BY <1>17, BoundFacts DEF LoopStops, rows, Goto, JudgeMove, Judging, TypeOK, RowsOK, LoopOK,
       Stale
<1>18. ASSUME NEW r \in Runner, Crash(r) PROVE \A q \in Runner : JudgeMove(q)
  BY <1>18, BoundFacts DEF Crash, rows, JudgeMove, Judging, TypeOK, RowsOK, LoopOK, Stale
<1>19. ASSUME NEW r \in Runner, NEW t \in Task, RenewSystemTaskLock(r, t) PROVE \A q \in Runner : JudgeMove(q)
  BY <1>19, BoundFacts DEF RenewSystemTaskLock, rows, loop, JudgeMove, Judging, TypeOK,
       RowsOK, LoopOK, Stale
<1>20. ASSUME NEW r \in Runner, NEW t \in Task, HeartbeatLost(r, t) PROVE \A q \in Runner : JudgeMove(q)
  BY <1>20, BoundFacts DEF HeartbeatLost, rows, loop, SetHandler, JudgeMove, Judging, TypeOK,
       RowsOK, LoopOK, Stale
<1>21. ASSUME NEW r \in Runner, NEW t \in Task, HandlerWriteLost(r, t) PROVE \A q \in Runner : JudgeMove(q)
  BY <1>21, BoundFacts DEF HandlerWriteLost, rows, loop, SetHandler, JudgeMove, Judging,
       TypeOK, RowsOK, LoopOK, Stale
<1>22. ASSUME NEW r \in Runner, NEW t \in Task, FinishSystemTask(r, t) PROVE \A q \in Runner : JudgeMove(q)
  BY <1>22, BoundFacts DEF FinishSystemTask, loop, EndRow, SetHandler, JudgeMove, Judging,
       TypeOK, RowsOK, LoopOK, Stale
<1>23. ASSUME NEW r \in Runner, NEW t \in Task, HandlerRelease(r, t) PROVE \A q \in Runner : JudgeMove(q)
  BY <1>23, BoundFacts DEF HandlerRelease, rows, loop, SetHandler, JudgeMove, Judging,
       TypeOK, RowsOK, LoopOK, Stale
<1>24. ASSUME Tick PROVE \A q \in Runner : JudgeMove(q)
  BY <1>24, BoundFacts DEF Tick, rows, UsesClock, JudgeMove, Judging, TypeOK, RowsOK, LoopOK,
       Stale
<1> QED
  BY <1>1, <1>2, <1>3, <1>4, <1>5, <1>6, <1>7, <1>8, <1>9, <1>10, <1>11, <1>12, <1>13, <1>14,
       <1>15, <1>16, <1>17, <1>18, <1>19, <1>20, <1>21, <1>22, <1>23, <1>24 DEF Next,
       LoopStep, HandlerEnds

LEMMA HandlerMoves ==
    ASSUME TypeOK, Refs, Next
    PROVE  \A q \in Runner, u \in Task : HandlerMove(q, u)
<1>1. ASSUME \E k \in Key : Enqueue(k) PROVE \A q \in Runner, u \in Task : HandlerMove(q, u)
  BY <1>1 DEF Enqueue, HandlerMove, TypeOK, HandlersOK
<1>2. ASSUME NEW r \in Runner, StaleRead(r) PROVE \A q \in Runner, u \in Task : HandlerMove(q, u)
  BY <1>2 DEF StaleRead, HandlerMove, TypeOK, HandlersOK
<1>3. ASSUME NEW r \in Runner, StaleMark(r) PROVE \A q \in Runner, u \in Task : HandlerMove(q, u)
  BY <1>3 DEF StaleMark, HandlerMove, TypeOK, HandlersOK
<1>4. ASSUME NEW r \in Runner, StaleDelete(r) PROVE \A q \in Runner, u \in Task : HandlerMove(q, u)
  BY <1>4 DEF StaleDelete, HandlerMove, TypeOK, HandlersOK
<1>5. ASSUME NEW r \in Runner, StaleError(r) PROVE \A q \in Runner, u \in Task : HandlerMove(q, u)
  BY <1>5 DEF StaleError, HandlerMove, TypeOK, HandlersOK
<1>6. ASSUME NEW r \in Runner, StaleDone(r) PROVE \A q \in Runner, u \in Task : HandlerMove(q, u)
  BY <1>6 DEF StaleDone, HandlerMove, TypeOK, HandlersOK
<1>7. ASSUME NEW r \in Runner, PickPending(r) PROVE \A q \in Runner, u \in Task : HandlerMove(q, u)
  BY <1>7 DEF PickPending, HandlerMove, TypeOK, HandlersOK
<1>8. ASSUME NEW r \in Runner, ClaimSelect(r) PROVE \A q \in Runner, u \in Task : HandlerMove(q, u)
  BY <1>8 DEF ClaimSelect, HandlerMove, TypeOK, HandlersOK
<1>9. ASSUME NEW r \in Runner, ClaimPassDone(r) PROVE \A q \in Runner, u \in Task : HandlerMove(q, u)
  BY <1>9 DEF ClaimPassDone, HandlerMove, TypeOK, HandlersOK
<1>10. ASSUME NEW r \in Runner, LockInsert(r) PROVE \A q \in Runner, u \in Task : HandlerMove(q, u)
  BY <1>10 DEF LockInsert, HandlerMove, TypeOK, HandlersOK
<1>11. ASSUME NEW r \in Runner, LockInspect(r) PROVE \A q \in Runner, u \in Task : HandlerMove(q, u)
  BY <1>11 DEF LockInspect, HandlerMove, TypeOK, HandlersOK
<1>12. ASSUME NEW r \in Runner, LockSteal(r) PROVE \A q \in Runner, u \in Task : HandlerMove(q, u)
  BY <1>12 DEF LockSteal, HandlerMove, TypeOK, HandlersOK
<1>13. ASSUME NEW r \in Runner, ClaimMark(r) PROVE \A q \in Runner, u \in Task : HandlerMove(q, u)
  BY <1>13 DEF ClaimMark, HandlerMove, TypeOK, HandlersOK
<1>14. ASSUME NEW r \in Runner, ClaimUpdate(r) PROVE \A q \in Runner, u \in Task : HandlerMove(q, u)
  BY <1>14 DEF ClaimUpdate, HoldsLease, HandlerMove, TypeOK, HandlersOK
<1>15. ASSUME NEW r \in Runner, ClaimUpdateMiss(r) PROVE \A q \in Runner, u \in Task : HandlerMove(q, u)
  BY <1>15 DEF ClaimUpdateMiss, HandlerMove, TypeOK, HandlersOK
<1>16. ASSUME NEW r \in Runner, ClaimRelease(r) PROVE \A q \in Runner, u \in Task : HandlerMove(q, u)
  BY <1>16 DEF ClaimRelease, HandlerMove, TypeOK, HandlersOK
<1>17. ASSUME NEW r \in Runner, LoopStops(r) PROVE \A q \in Runner, u \in Task : HandlerMove(q, u)
  BY <1>17 DEF LoopStops, HandlerMove, TypeOK, HandlersOK
<1>18. ASSUME NEW r \in Runner, Crash(r) PROVE \A q \in Runner, u \in Task : HandlerMove(q, u)
  BY <1>18 DEF Crash, HandlerMove, TypeOK, HandlersOK
<1>19. ASSUME NEW r \in Runner, NEW t \in Task, RenewSystemTaskLock(r, t) PROVE \A q \in Runner, u \in Task : HandlerMove(q, u)
  BY <1>19 DEF RenewSystemTaskLock, HoldsLease, HandlerMove, TypeOK, HandlersOK
<1>20. ASSUME NEW r \in Runner, NEW t \in Task, HeartbeatLost(r, t) PROVE \A q \in Runner, u \in Task : HandlerMove(q, u)
  BY <1>20 DEF HeartbeatLost, SetHandler, HoldsLease, HandlerMove, TypeOK, HandlersOK
<1>21. ASSUME NEW r \in Runner, NEW t \in Task, HandlerWriteLost(r, t) PROVE \A q \in Runner, u \in Task : HandlerMove(q, u)
  BY <1>21 DEF HandlerWriteLost, SetHandler, MayWrite, HoldsLease, HandlerMove, TypeOK,
       HandlersOK
<1>22. ASSUME NEW r \in Runner, NEW t \in Task, FinishSystemTask(r, t) PROVE \A q \in Runner, u \in Task : HandlerMove(q, u)
  BY <1>22 DEF FinishSystemTask, SetHandler, MayWrite, HoldsLease, HandlerMove, TypeOK,
       HandlersOK
<1>23. ASSUME NEW r \in Runner, NEW t \in Task, HandlerRelease(r, t) PROVE \A q \in Runner, u \in Task : HandlerMove(q, u)
  BY <1>23 DEF HandlerRelease, SetHandler, HandlerMove, TypeOK, HandlersOK
<1>24. ASSUME Tick PROVE \A q \in Runner, u \in Task : HandlerMove(q, u)
  BY <1>24 DEF Tick, UsesClock, HandlerMove, TypeOK, HandlersOK
<1> QED
  BY <1>1, <1>2, <1>3, <1>4, <1>5, <1>6, <1>7, <1>8, <1>9, <1>10, <1>11, <1>12, <1>13, <1>14,
       <1>15, <1>16, <1>17, <1>18, <1>19, <1>20, <1>21, <1>22, <1>23, <1>24 DEF Next,
       LoopStep, HandlerEnds

LEMMA SupersededMoves ==
    ASSUME TypeOK, Refs, Next
    PROVE  \A h \in Runner \X Task : SupersededMove(h)
<1>1. ASSUME \E k \in Key : Enqueue(k) PROVE \A h \in Runner \X Task : SupersededMove(h)
  BY <1>1 DEF Enqueue, SupersededMove
<1>2. ASSUME NEW r \in Runner, StaleRead(r) PROVE \A h \in Runner \X Task : SupersededMove(h)
  BY <1>2 DEF StaleRead, SupersededMove
<1>3. ASSUME NEW r \in Runner, StaleMark(r) PROVE \A h \in Runner \X Task : SupersededMove(h)
  BY <1>3 DEF StaleMark, SupersededMove
<1>4. ASSUME NEW r \in Runner, StaleDelete(r) PROVE \A h \in Runner \X Task : SupersededMove(h)
  BY <1>4 DEF StaleDelete, SupersededMove
<1>5. ASSUME NEW r \in Runner, StaleError(r) PROVE \A h \in Runner \X Task : SupersededMove(h)
  BY <1>5 DEF StaleError, SupersededMove
<1>6. ASSUME NEW r \in Runner, StaleDone(r) PROVE \A h \in Runner \X Task : SupersededMove(h)
  BY <1>6 DEF StaleDone, SupersededMove
<1>7. ASSUME NEW r \in Runner, PickPending(r) PROVE \A h \in Runner \X Task : SupersededMove(h)
  BY <1>7 DEF PickPending, SupersededMove
<1>8. ASSUME NEW r \in Runner, ClaimSelect(r) PROVE \A h \in Runner \X Task : SupersededMove(h)
  BY <1>8 DEF ClaimSelect, SupersededMove
<1>9. ASSUME NEW r \in Runner, ClaimPassDone(r) PROVE \A h \in Runner \X Task : SupersededMove(h)
  BY <1>9 DEF ClaimPassDone, SupersededMove
<1>10. ASSUME NEW r \in Runner, LockInsert(r) PROVE \A h \in Runner \X Task : SupersededMove(h)
  <2>1. CASE lockTask[TypeOf(cur[r])] = None
    BY <1>10, <2>1, InsertAcquires DEF LockInsert, Supersede, SupersededMove
  <2> QED
    BY <1>10, <2>1 DEF LockInsert, SupersededMove
<1>11. ASSUME NEW r \in Runner, LockInspect(r) PROVE \A h \in Runner \X Task : SupersededMove(h)
  BY <1>11 DEF LockInspect, SupersededMove
<1>12. ASSUME NEW r \in Runner, LockSteal(r) PROVE \A h \in Runner \X Task : SupersededMove(h)
  <2>1. CASE lockTask[TypeOf(cur[r])] # None /\ Expired(r, TypeOf(cur[r]))
    BY <1>12, <2>1, StealAcquires DEF LockSteal, Supersede, SupersededMove
  <2> QED
    BY <1>12, <2>1 DEF LockSteal, SupersededMove
<1>13. ASSUME NEW r \in Runner, ClaimMark(r) PROVE \A h \in Runner \X Task : SupersededMove(h)
  BY <1>13 DEF ClaimMark, SupersededMove
<1>14. ASSUME NEW r \in Runner, ClaimUpdate(r) PROVE \A h \in Runner \X Task : SupersededMove(h)
  BY <1>14 DEF ClaimUpdate, SupersededMove
<1>15. ASSUME NEW r \in Runner, ClaimUpdateMiss(r) PROVE \A h \in Runner \X Task : SupersededMove(h)
  BY <1>15 DEF ClaimUpdateMiss, SupersededMove
<1>16. ASSUME NEW r \in Runner, ClaimRelease(r) PROVE \A h \in Runner \X Task : SupersededMove(h)
  BY <1>16 DEF ClaimRelease, SupersededMove
<1>17. ASSUME NEW r \in Runner, LoopStops(r) PROVE \A h \in Runner \X Task : SupersededMove(h)
  BY <1>17 DEF LoopStops, SupersededMove
<1>18. ASSUME NEW r \in Runner, Crash(r) PROVE \A h \in Runner \X Task : SupersededMove(h)
  BY <1>18 DEF Crash, SupersededMove
<1>19. ASSUME NEW r \in Runner, NEW t \in Task, RenewSystemTaskLock(r, t) PROVE \A h \in Runner \X Task : SupersededMove(h)
  BY <1>19 DEF RenewSystemTaskLock, SupersededMove
<1>20. ASSUME NEW r \in Runner, NEW t \in Task, HeartbeatLost(r, t) PROVE \A h \in Runner \X Task : SupersededMove(h)
  BY <1>20 DEF HeartbeatLost, SupersededMove
<1>21. ASSUME NEW r \in Runner, NEW t \in Task, HandlerWriteLost(r, t) PROVE \A h \in Runner \X Task : SupersededMove(h)
  BY <1>21 DEF HandlerWriteLost, SupersededMove
<1>22. ASSUME NEW r \in Runner, NEW t \in Task, FinishSystemTask(r, t) PROVE \A h \in Runner \X Task : SupersededMove(h)
  BY <1>22 DEF FinishSystemTask, SupersededMove
<1>23. ASSUME NEW r \in Runner, NEW t \in Task, HandlerRelease(r, t) PROVE \A h \in Runner \X Task : SupersededMove(h)
  BY <1>23 DEF HandlerRelease, SupersededMove
<1>24. ASSUME Tick PROVE \A h \in Runner \X Task : SupersededMove(h)
  BY <1>24 DEF Tick, UsesClock, SupersededMove
<1> QED
  BY <1>1, <1>2, <1>3, <1>4, <1>5, <1>6, <1>7, <1>8, <1>9, <1>10, <1>11, <1>12, <1>13, <1>14,
       <1>15, <1>16, <1>17, <1>18, <1>19, <1>20, <1>21, <1>22, <1>23, <1>24 DEF Next,
       LoopStep, HandlerEnds

-----------------------------------------------------------------------------
(* A lease that has not ended is not taken away *)

\* The part of LiveLeaseKept that is about one step.
LiveLeaseStep ==
    \A ty \in Type :
       /\ lockTask[ty] # None /\ left[ty] >= 0
       /\ <<lockTask'[ty], lockOwner'[ty]>> # <<lockTask[ty], lockOwner[ty]>>
       => \E r \in lockOwner[ty] : \/ pc[r] = "release"
                                   \/ handler[r][lockTask[ty]] = "release"

LEMMA LeaseKeptStep ==
    ASSUME TypeOK, Refs, Next
    PROVE  LiveLeaseStep
<1> SUFFICES ASSUME NEW ty \in Type, lockTask[ty] # None, left[ty] >= 0,
                    <<lockTask'[ty], lockOwner'[ty]>> # <<lockTask[ty], lockOwner[ty]>>
             PROVE  \E r \in lockOwner[ty] : \/ pc[r] = "release"
                                             \/ handler[r][lockTask[ty]] = "release"
  BY DEF LiveLeaseStep
<1>1. LockMove(ty) /\ ~LockSame(ty)
  BY LockMoves DEF LockSame
<1>2. \A r \in Runner : ~Expired(r, ty)
  BY BoundFacts DEF Expired, TypeOK, LocksOK, LoopOK
<1>3. Frees(ty)
  BY <1>1, <1>2 DEF LockMove, Acquires
<1> QED
  BY <1>2, <1>3 DEF Frees, HoldsLock

\* Whatever loops stall, clocks are read late and nodes crash, a lease with time left
\* changes hands only by a release of the runner that holds it.
THEOREM LiveLeaseTheorem == Spec => LiveLeaseKept
<1>1. IInv /\ [Next]_vars => [LiveLeaseStep]_vars
  BY LeaseKeptStep DEF IInv
<1> QED
  BY <1>1, SpecIInv, PTL DEF Spec, LiveLeaseKept, LiveLeaseStep

-----------------------------------------------------------------------------
(* Fencing *)

\* A superseded handler does not hold the lease, and will not again: a lease is acquired
\* for a row that has no handler on that node.
SupersededLost ==
    \A h \in superseded : handler[h[1]][h[2]] # "none" /\ ~HoldsLock(h[1], h[2])

\* The lease of a row with a handler is not acquired for that row on that node.
LEMMA AcquiresNewRow ==
    ASSUME IInv, Next, NEW r \in Runner, NEW t \in Task, handler[r][t] # "none",
           ~HoldsLock(r, t)
    PROVE  handler'[r][t] # "none" /\ ~HoldsLock(r, t)'
<1>1. status[t] # "absent" /\ TypeOf(t) \in Type
  BY TypeOfType DEF IInv, HandlerRefs, TypeOK
<1>2. TypeOf(t)' = TypeOf(t)
  BY <1>1, TypeStays DEF IInv, TypeOK
<1>3. handler'[r][t] # "none"
  BY HandlerMoves DEF IInv, HandlerMove
<1>4. LockMove(TypeOf(t))
  BY <1>1, LockMoves DEF IInv
<1>5. ASSUME NEW s \in Runner, Acquires(s, TypeOf(t)) PROVE ~(s = r /\ cur[s] = t)
  BY <1>5 DEF Acquires, IInv, HandlerRefs, Claiming
<1>6. CASE \E s \in Runner : Acquires(s, TypeOf(t))
  BY <1>2, <1>5, <1>6 DEF Acquires, HoldsLock
<1>7. CASE Frees(TypeOf(t))
  BY <1>2, <1>3, <1>7, BoundFacts DEF Frees, HoldsLock
<1>8. CASE LockSame(TypeOf(t))
  BY <1>2, <1>3, <1>8 DEF LockSame, HoldsLock
<1> QED
  BY <1>3, <1>4, <1>6, <1>7, <1>8 DEF LockMove

LEMMA SupersededStep ==
    ASSUME IInv, SupersededLost, Next
    PROVE  SupersededLost'
<1> SUFFICES ASSUME NEW h \in superseded'
             PROVE  handler'[h[1]][h[2]] # "none" /\ ~HoldsLock(h[1], h[2])'
  BY DEF SupersededLost
<1>1. h \in Runner \X Task /\ h[1] \in Runner /\ h[2] \in Task
  BY NextIInv DEF IInv, TypeOK, HandlersOK
<1>2. CASE h \in superseded
  BY <1>1, <1>2, AcquiresNewRow DEF SupersededLost
<1>3. CASE \E s \in Runner : Acquires(s, TypeOf(h[2])) /\ handler[h[1]][h[2]] \in {"run", "cancelled"}
  <2>1. PICK s \in Runner : Acquires(s, TypeOf(h[2]))
    BY <1>3
  <2>2. status[h[2]] # "absent"
    BY <1>1, <1>3 DEF IInv, HandlerRefs
  <2>3. TypeOf(h[2])' = TypeOf(h[2])
    BY <1>1, <2>2, TypeStays DEF IInv, TypeOK
  <2>4. ~(s = h[1] /\ cur[s] = h[2])
    BY <1>3, <2>1 DEF Acquires, IInv, HandlerRefs, Claiming
  <2> QED
    BY <1>3, <2>1, <2>3, <2>4 DEF Acquires, HoldsLock
<1> QED
  BY <1>1, <1>2, <1>3, SupersededMoves DEF SupersededMove, IInv

\* The part of FinishFenced that is about one step.
FenceStep ==
    \A r \in Runner, t \in Task :
        handler[r][t] # "release" /\ handler'[r][t] = "release"
           => <<r, t>> \notin superseded

LEMMA SpecSuperseded == Spec => [](IInv /\ SupersededLost)
<1>1. Init => IInv /\ SupersededLost
  BY InitIInv DEF Init, SupersededLost
<1>2. IInv /\ SupersededLost /\ [Next]_vars => (IInv /\ SupersededLost)'
  <2>1. ASSUME SupersededLost, UNCHANGED vars PROVE SupersededLost'
    BY <2>1 DEF vars, rows, locks, SupersededLost, HoldsLock, TypeOf
  <2> QED
    BY <2>1, NextIInv, SupersededStep
<1> QED
  BY <1>1, <1>2, PTL DEF Spec

\* FinishSystemTask is fenced: a handler ends a row only if no claim acquired the lease of
\* its type since the handler was dispatched.
THEOREM FinishFencedTheorem == Spec => FinishFenced
<1>1. ASSUME IInv, SupersededLost, Next PROVE FenceStep
  <2> SUFFICES ASSUME NEW r \in Runner, NEW t \in Task,
                      handler[r][t] # "release", handler'[r][t] = "release"
               PROVE  <<r, t>> \notin superseded
    BY DEF FenceStep
  <2>1. HoldsLock(r, t)
    BY <1>1, HandlerMoves DEF IInv, HandlerMove
  <2> QED
    BY <1>1, <2>1 DEF SupersededLost
<1>2. IInv /\ SupersededLost /\ [Next]_vars => [FenceStep]_vars
  BY <1>1
<1> QED
  BY <1>2, SpecSuperseded, PTL DEF Spec, FinishFenced, FenceStep

-----------------------------------------------------------------------------
(* Serialised by type *)

\* The lease of a running row's type is the row's, or was taken over by a loop that is about
\* to fail the row.
TakesOver(r, t) == pc[r] = "mark" /\ old[r] = t /\ TypeOf(cur[r]) = TypeOf(t) /\ HoldsLock(r, cur[r])

RunningHeld ==
    \A t \in Task : status[t] = "running" /\ TypeOf(t) \notin lostClaim =>
        lockTask[TypeOf(t)] = t \/ \E r \in Runner : TakesOver(r, t)

\* The row a loop holds a lease for is not running yet.
HolderNotRunning ==
    \A r \in Runner :
        pc[r] \in Holding /\ HoldsLock(r, cur[r]) /\ TypeOf(cur[r]) \notin lostClaim
           => status[cur[r]] # "running"

\* The clock reading of a loop that judges the lease of a running row is too early to find
\* the lease ended: the row was not running when the clock was read.
LateReading ==
    \A r \in Runner :
        /\ pc[r] \in Judging /\ cur[r] \in Task /\ status[cur[r]] = "running"
        /\ lockTask[TypeOf(cur[r])] = cur[r] /\ TypeOf(cur[r]) \notin lostClaim
        => left[TypeOf(cur[r])] + age[r] >= 0

Serial == RunningHeld /\ HolderNotRunning /\ LateReading

\* A lease is not acquired for a row that is running, unless a claim was lost.
LEMMA AcquiresNotRunning ==
    ASSUME IInv, Serial, Next, NEW r \in Runner, NEW ty \in Type, Acquires(r, ty),
           ty \notin lostClaim'
    PROVE  status[cur[r]] # "running" /\ cur[r] \in Task
<1>1. cur[r] \in Task /\ TypeOf(cur[r]) = ty /\ pc[r] \in {"insert", "steal"}
  BY DEF Acquires, IInv, Refs, CurRefs, Claiming
<1>2. ty \notin lostClaim
  BY LostGrows
<1> SUFFICES ASSUME status[cur[r]] = "running" PROVE FALSE
  BY <1>1
<1>3. CASE lockTask[ty] = cur[r]
  <2>1. left[ty] + age[r] >= 0
    BY <1>1, <1>2, <1>3 DEF Serial, LateReading, Judging
  <2> QED
    BY <1>1, <1>3, <2>1, BoundFacts DEF Acquires, Expired, IInv, TypeOK, LocksOK, LoopOK
<1>4. ASSUME NEW s \in Runner, TakesOver(s, cur[r]) PROVE FALSE
  <2>1. pc[s] = "mark" /\ TypeOf(cur[s]) = ty /\ lockTask[ty] = cur[s] /\ cur[s] \in Task
    BY <1>1, <1>4 DEF TakesOver, HoldsLock, IInv, Refs, CurRefs, Claiming
  <2>2. TakingOver(ty) /\ lockTask[ty] # None
    BY <2>1, BoundFacts DEF TakingOver
  <2> QED
    BY <2>2 DEF Acquires
<1> QED
  BY <1>1, <1>2, <1>3, <1>4 DEF Serial, RunningHeld

\* A lease row is not deleted while a row of its type runs, unless a claim was lost.
LEMMA FreesNotRunning ==
    ASSUME IInv, Serial, Next, NEW t \in Task, status[t] = "running", Frees(TypeOf(t)),
           TypeOf(t) \notin lostClaim'
    PROVE  FALSE
<1> DEFINE ty == TypeOf(t)
<1>1. ty \in Type /\ ty \notin lostClaim
  BY LostGrows, TypeOfType DEF IInv, TypeOK
<1>2. ASSUME NEW r \in Runner, pc[r] = "release", TypeOf(cur[r]) = ty, HoldsLock(r, cur[r])
      PROVE  FALSE
  <2>1. status[cur[r]] # "running" /\ lockTask[ty] = cur[r] /\ lockOwner[ty] = {r}
    BY <1>1, <1>2 DEF Serial, HolderNotRunning, Holding, HoldsLock
  <2>2. PICK s \in Runner : TakesOver(s, t)
    BY <1>1, <2>1 DEF Serial, RunningHeld
  <2>3. s = r
    BY <2>1, <2>2 DEF TakesOver, HoldsLock
  <2> QED
    BY <1>2, <2>2, <2>3 DEF TakesOver
<1>3. ASSUME NEW r \in Runner, NEW u \in Task, handler[r][u] = "release", TypeOf(u) = ty,
             HoldsLock(r, u)
      PROVE  FALSE
  <2>1. status[u] # "running" /\ lockTask[ty] = u /\ lockOwner[ty] = {r}
    BY <1>3 DEF IInv, HandlerRefs, HoldsLock
  <2>2. PICK s \in Runner : TakesOver(s, t)
    BY <1>1, <2>1 DEF Serial, RunningHeld
  <2>3. s = r /\ cur[s] = u /\ pc[s] = "mark"
    BY <2>1, <2>2 DEF TakesOver, HoldsLock
  <2> QED
    BY <1>3, <2>3 DEF IInv, HandlerRefs, Claiming
<1>4. ASSUME NEW r \in Runner, pc[r] = "staleDelete", cur[r] \in Task, lockTask[ty] = cur[r],
             Expired(r, ty), ~TakingOver(ty)
      PROVE  FALSE
  <2>1. lockTask[ty] = t
    <3>1. ASSUME NEW s \in Runner, TakesOver(s, t) PROVE FALSE
      BY <1>4, <3>1 DEF TakesOver, TakingOver
    <3> QED
      BY <1>1, <3>1 DEF Serial, RunningHeld
  <2>2. left[ty] + age[r] >= 0
    BY <1>1, <1>4, <2>1 DEF Serial, LateReading, Judging
  <2> QED
    BY <1>1, <1>4, <2>2 DEF Expired, IInv, TypeOK, LocksOK, LoopOK
<1> QED
  BY <1>2, <1>3, <1>4 DEF Frees

LEMMA RunningHeldStep ==
    ASSUME IInv, Serial, Next
    PROVE  RunningHeld'
<1> SUFFICES ASSUME NEW t \in Task, status'[t] = "running", TypeOf(t)' \notin lostClaim'
             PROVE  lockTask'[TypeOf(t)'] = t \/ \E r \in Runner : TakesOver(r, t)'
  BY DEF RunningHeld
<1>1. RowMove(t)
  BY RowMoves DEF IInv
<1>2. CASE status[t] = "running"
  <2> DEFINE ty == TypeOf(t)
  <2>1. ty \in Type /\ TypeOf(t)' = ty /\ ty \notin lostClaim'
    BY <1>2, TypeOfType, TypeStays DEF IInv, TypeOK
  <2>2. ty \notin lostClaim
    BY <2>1, LostGrows
  <2>3. CASE LockSame(ty)
    <3>1. CASE lockTask[ty] = t
      BY <2>1, <2>3, <3>1 DEF LockSame
    <3>2. CASE \E r \in Runner : TakesOver(r, t)
      <4>1. PICK r \in Runner : TakesOver(r, t)
        BY <3>2
      <4>2. cur[r] \in Task /\ status[cur[r]] # "absent" /\ TypeOf(cur[r]) = ty
        BY <4>1 DEF TakesOver, IInv, Refs, CurRefs, Claiming
      <4>3. TypeOf(cur[r])' = ty \/ cur'[r] # cur[r]
        BY <4>2, TypeStays DEF IInv, TypeOK, TypeOf
      <4>4. pc'[r] = "mark" /\ cur'[r] = cur[r] /\ old'[r] = old[r]
        BY <2>1, <4>1, <4>2, MarkMoves DEF MarkMove, TakesOver, IInv
      <4>5. TypeOf(cur[r])' = ty
        BY <4>3, <4>4
      <4> QED
        BY <2>1, <2>3, <4>1, <4>4, <4>5 DEF TakesOver, HoldsLock, LockSame
    <3> QED
      BY <1>2, <2>2, <3>1, <3>2 DEF Serial, RunningHeld
  <2>4. ASSUME NEW r \in Runner, Acquires(r, ty)
        PROVE  lockTask'[TypeOf(t)'] = t \/ \E s \in Runner : TakesOver(s, t)'
    <3>1. status[cur[r]] # "running" /\ cur[r] \in Task
      BY <2>1, <2>4, AcquiresNotRunning
    <3>2. lockTask[ty] # None /\ TypeOf(cur[r]) = ty /\ pc[r] \in {"insert", "steal"}
      <4>1. ASSUME NEW s \in Runner, TakesOver(s, t) PROVE lockTask[ty] # None
        BY <4>1, BoundFacts DEF TakesOver, HoldsLock, IInv, Refs, CurRefs, Claiming
      <4> QED
        BY <1>2, <2>2, <2>4, <4>1, BoundFacts DEF Acquires, Serial, RunningHeld
    <3>3. /\ pc[r] = "steal" /\ lockTask[ty] = old[r] /\ ~TakingOver(ty)
          /\ pc' = [pc EXCEPT ![r] = IF old[r] # cur[r] THEN "mark" ELSE "update"]
      BY <2>1, <2>4, <3>2 DEF Acquires
    <3>4. old[r] = t
      <4>1. ASSUME NEW s \in Runner, TakesOver(s, t) PROVE FALSE
        BY <3>3, <4>1 DEF TakesOver, TakingOver
      <4> QED
        BY <1>2, <2>2, <3>3, <4>1 DEF Serial, RunningHeld
    <3>5. pc'[r] = "mark" /\ cur'[r] = cur[r] /\ old'[r] = t /\ key' = key
      BY <1>2, <2>4, <3>1, <3>3, <3>4 DEF Acquires, rows, IInv, TypeOK, LoopOK
    <3>6. lockTask'[ty] = cur[r] /\ lockOwner'[ty] = {r}
      BY <2>4 DEF Acquires
    <3>7. TakesOver(r, t)'
      BY <2>1, <3>2, <3>5, <3>6 DEF TakesOver, HoldsLock, TypeOf
    <3> QED
      BY <3>7
  <2>5. ~Frees(ty)
    BY <1>2, <2>1, FreesNotRunning
  <2> QED
    BY <2>1, <2>3, <2>4, <2>5, LockMoves DEF LockMove, IInv
<1>3. ASSUME NEW r \in Runner, StartsRunning(r, t) PROVE lockTask'[TypeOf(t)'] = t
  <2>1. TypeOf(t)' = TypeOf(t)
    BY <1>3 DEF StartsRunning, TypeOf
  <2> QED
    BY <1>3, <2>1 DEF StartsRunning, HoldsLease, HoldsLock
<1> QED
  BY <1>1, <1>2, <1>3 DEF RowMove

LEMMA HolderStep ==
    ASSUME IInv, Serial, Next
    PROVE  HolderNotRunning'
<1> SUFFICES ASSUME NEW r \in Runner, pc'[r] \in Holding, HoldsLock(r, cur[r])',
                    TypeOf(cur[r])' \notin lostClaim', status'[cur'[r]] = "running"
             PROVE  FALSE
  BY DEF HolderNotRunning
<1>1. HoldMove(r)
  BY HoldMoves DEF IInv
<1>2. ASSUME NEW ty \in Type, Acquires(r, ty) PROVE FALSE
  <2>1. cur'[r] = cur[r] /\ status' = status /\ TypeOf(cur[r])' = ty
    BY <1>2 DEF Acquires, rows, TypeOf
  <2> QED
    BY <1>2, <2>1, AcquiresNotRunning
<1>3. CASE pc[r] \in Holding /\ cur'[r] = cur[r]
  <2> DEFINE t == cur[r]
  <2>1. t \in Task /\ status[t] # "absent" /\ TypeOf(t) \in Type
    BY <1>3, TypeOfType DEF IInv, Refs, CurRefs, Claiming, Holding, TypeOK
  <2>2. TypeOf(cur[r])' = TypeOf(t)
    BY <1>3, <2>1, RowStays DEF IInv, TypeOK, TypeOf
  <2>3. TypeOf(t) \notin lostClaim' /\ TypeOf(t) \notin lostClaim
    BY <2>2, LostGrows
  <2>4. lockTask'[TypeOf(t)] = t /\ lockOwner'[TypeOf(t)] = {r}
    BY <1>3, <2>2 DEF HoldsLock
  <2>5. ASSUME NEW s \in Runner, Acquires(s, TypeOf(t)) PROVE FALSE
    <3>1. s = r
      BY <2>4, <2>5 DEF Acquires
    <3> QED
      BY <1>3, <2>5, <3>1 DEF Acquires, Holding
  <2>6. ~Frees(TypeOf(t))
    BY <2>1, <2>4, BoundFacts DEF Frees
  <2>7. HoldsLock(r, t)
    BY <2>1, <2>4, <2>5, <2>6, LockMoves DEF LockMove, LockSame, HoldsLock, IInv
  <2>8. status[t] # "running"
    BY <1>3, <2>3, <2>7 DEF Serial, HolderNotRunning
  <2>9. PICK s \in Runner : StartsRunning(s, t)
    BY <1>3, <2>1, <2>8, RowMoves DEF RowMove, IInv
  <2>10. s = r
    BY <2>3, <2>7, <2>9 DEF StartsRunning, HoldsLease, HoldsLock
  <2> QED
    BY <2>9, <2>10 DEF StartsRunning, Holding, IInv, TypeOK, LoopOK
<1> QED
  BY <1>1, <1>2, <1>3 DEF HoldMove

\* Time passes for the lease and for the reading alike.
LEMMA TickKeepsReading ==
    ASSUME TypeOK, Tick, NEW r \in Runner, NEW ty \in Type, pc[r] \in Judging,
           left[ty] + age[r] >= 0
    PROVE  left'[ty] + age'[r] >= 0
<1>1. left[ty] \in Int /\ age[r] \in 0..MaxLate /\ left[ty] >= Floor
  BY BoundFacts DEF TypeOK, LocksOK, LoopOK
<1>2. left[ty] > Floor
  BY <1>1, BoundFacts DEF Floor
<1>3. left'[ty] = left[ty] - 1 /\ age'[r] = age[r] + 1
  BY <1>2 DEF Tick, UsesClock, Judging
<1> QED
  BY <1>1, <1>3

LEMMA LateReadingStep ==
    ASSUME IInv, Serial, Next
    PROVE  LateReading'
<1> SUFFICES ASSUME NEW r \in Runner, pc'[r] \in Judging, cur'[r] \in Task,
                    status'[cur'[r]] = "running",
                    lockTask'[TypeOf(cur[r])'] = cur'[r],
                    TypeOf(cur[r])' \notin lostClaim'
             PROVE  left'[TypeOf(cur[r])'] + age'[r] >= 0
  BY DEF LateReading
<1> DEFINE t == cur[r]
           ty == TypeOf(t)
<1>1. pc[r] \in Judging /\ cur'[r] = t /\ (age'[r] = age[r] \/ Tick)
  BY JudgeMoves DEF JudgeMove, IInv
<1>2. t \in Task /\ status[t] # "absent" /\ ty \in Type
  BY <1>1, TypeOfType DEF IInv, Refs, CurRefs, TypeOK
<1>3. TypeOf(cur[r])' = ty
  BY <1>1, <1>2, RowStays DEF IInv, TypeOK, TypeOf
<1>4. ty \notin lostClaim' /\ ty \notin lostClaim
  BY <1>3, LostGrows
<1>5. age'[r] \in 0..MaxLate /\ left'[ty] \in Int /\ age[r] \in 0..MaxLate /\ left[ty] \in Int
  BY <1>2, NextIInv, BoundFacts DEF IInv, TypeOK, LoopOK, LocksOK
<1>6. CASE status[t] = "running"
  <2>1. ASSUME NEW s \in Runner, Acquires(s, ty) PROVE FALSE
    BY <1>1, <1>2, <1>3, <1>4, <1>6, <2>1, AcquiresNotRunning DEF Acquires
  <2>2. ~Frees(ty)
    BY <1>2, <1>4, <1>6, FreesNotRunning
  <2>3. LockSame(ty)
    BY <1>2, <2>1, <2>2, LockMoves DEF LockMove, IInv
  <2>4. left[ty] + age[r] >= 0
    BY <1>1, <1>2, <1>3, <1>4, <1>6, <2>3 DEF LockSame, Serial, LateReading
  <2>5. CASE Tick
    BY <1>1, <1>2, <1>3, <2>4, <2>5, TickKeepsReading DEF IInv
  <2>6. CASE left'[ty] = left[ty] /\ age'[r] = age[r]
    BY <1>3, <2>4, <2>6
  <2>7. CASE left'[ty] = TTL
    BY <1>3, <1>5, <2>7, BoundFacts
  <2> QED
    BY <1>1, <2>3, <2>5, <2>6, <2>7 DEF LockSame
<1>7. ASSUME NEW s \in Runner, StartsRunning(s, t) PROVE left'[TypeOf(cur[r])'] + age'[r] >= 0
  <2>1. left[ty] >= 0 /\ left'[ty] = left[ty]
    BY <1>4, <1>7 DEF StartsRunning, HoldsLease
  <2> QED
    BY <1>3, <1>5, <2>1, BoundFacts
<1> QED
  BY <1>1, <1>2, <1>6, <1>7, RowMoves DEF RowMove, IInv

LEMMA SpecSerial == Spec => [](IInv /\ Serial)
<1>1. Init => IInv /\ Serial
  <2>1. Init => Serial
    BY BoundFacts DEF Init, Serial, RunningHeld, HolderNotRunning, LateReading, Holding, Judging
  <2> QED
    BY <2>1, InitIInv
<1>2. IInv /\ Serial /\ [Next]_vars => (IInv /\ Serial)'
  <2>1. ASSUME Serial, UNCHANGED vars PROVE Serial'
    BY <2>1 DEF vars, rows, locks, loop, Serial, RunningHeld, HolderNotRunning, LateReading,
       TakesOver, HoldsLock, TypeOf
  <2>2. ASSUME IInv, Serial, Next PROVE Serial'
    BY <2>2, RunningHeldStep, HolderStep, LateReadingStep DEF Serial
  <2> QED
    BY <2>1, <2>2, NextIInv
<1> QED
  BY <1>1, <1>2, PTL DEF Spec

\* "Execution serialized by task type": for any number of nodes, types, keys, rows, crashes
\* and database errors, rows of one type run one after the other while no claim of that type
\* outlived its lease.
THEOREM SerialisedTheorem == Spec => []SerialisedByType
<1>1. ASSUME IInv, Serial PROVE SerialisedByType
  <2> SUFFICES ASSUME NEW ty \in Type \ lostClaim, NEW t \in Running(ty), NEW u \in Running(ty)
               PROVE  t = u
    BY DEF SerialisedByType
  <2>1. /\ t \in Task /\ status[t] = "running" /\ TypeOf(t) = ty
        /\ u \in Task /\ status[u] = "running" /\ TypeOf(u) = ty
    BY DEF Running
  <2>2. ASSUME NEW v \in Task, NEW w \in Task, status[v] = "running", NEW r \in Runner,
               TypeOf(w) = ty, TakesOver(r, w), lockTask[ty] = v
        PROVE  FALSE
    BY <1>1, <2>2 DEF TakesOver, HoldsLock, Serial, HolderNotRunning, Holding
  <2>3. ASSUME NEW r \in Runner, NEW s \in Runner, TakesOver(r, t), TakesOver(s, u)
        PROVE  t = u
    BY <2>1, <2>3 DEF TakesOver, HoldsLock
  <2> QED
    BY <1>1, <2>1, <2>2, <2>3 DEF Serial, RunningHeld
<1> QED
  BY <1>1, SpecSerial, PTL

=============================================================================

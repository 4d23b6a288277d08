-------------------------- MODULE SystemTaskProofs --------------------------
(***************************************************************************)
(* Proofs about SystemTask, for any number of nodes, types, keys and rows. *)
(***************************************************************************)
EXTENDS SystemTask, TLAPS

Claiming == {"insert", "inspect", "steal", "mark", "update", "release"}

\* What the loop's local variables and the lease rows refer to: rows that exist, and
\* whose type does not change any more.
CurRefs == \A r \in Runner :
    /\ pc[r] \in Claiming => cur[r] \in Task
    /\ cur[r] \in Task => status[cur[r]] # "absent"
OldRefs == \A r \in Runner : pc[r] \in {"steal", "mark"} =>
    old[r] \in Task /\ status[old[r]] # "absent" /\ TypeOf(old[r]) = TypeOf(cur[r])
TodoRefs == \A r \in Runner : \A t \in todo[r] : status[t] # "absent"
StaleRefs == \A r \in Runner : \A l \in stale[r] :
    status[l.task] # "absent" /\ TypeOf(l.task) = l.type
LockRefs == \A ty \in Type : lockTask[ty] # None =>
    status[lockTask[ty]] # "absent" /\ TypeOf(lockTask[ty]) = ty

Refs == CurRefs /\ OldRefs /\ TodoRefs /\ StaleRefs /\ LockRefs

\* A row that was not claimed yet has no handler, and neither has the row a loop is
\* claiming on that node; a handler that releases has ended its row.
HandlerRefs ==
    \A r \in Runner :
        /\ pc[r] \in Claiming => handler[r][cur[r]] = "none"
        /\ \A t \in Task :
             /\ handler[r][t] # "none" => rowOwner[t] = {r}
             /\ status[t] \in {"absent", "pending"} => handler[r][t] = "none"
             /\ handler[r][t] = "release" => status[t] \in {"succeeded", "failed"}

-----------------------------------------------------------------------------
(* Type correctness *)

\* The loop's row is a row while it is being claimed, which TypeOK does not say.
CurTyped == \A r \in Runner : pc[r] \in Claiming => cur[r] \in Task

LEMMA TypeOfType ==
    ASSUME RowsOK, NEW t \in Task
    PROVE  TypeOf(t) \in Type
BY KeyTypeAssumption DEF RowsOK, TypeOf

LEMMA BoundFacts ==
    /\ Floor \in Int /\ Floor < 0 /\ TTL \in Nat
    /\ Floor \in Floor..TTL /\ TTL \in Floor..TTL
    /\ 0 \in 0..MaxLate /\ MaxLate \in Nat /\ MaxDbErrors \in Nat /\ None \notin Task
BY BoundsAssumption DEF Floor, Task, None

LEMMA LeaseLeftType ==
    ASSUME LoopOK, NEW r \in Runner
    PROVE  LeaseLeft(r) \in Floor..TTL
BY BoundsAssumption DEF LoopOK, LeaseLeft, Floor

LEMMA SetLockType ==
    ASSUME LocksOK, NEW ty, NEW t \in Task \union {None}, NEW r \in Runner,
           NEW n \in Floor..TTL, SetLock(ty, t, r, n)
    PROVE  LocksOK'
BY DEF LocksOK, SetLock

LEMMA DeleteLockType ==
    ASSUME LocksOK, NEW ty, DeleteLock(ty)
    PROVE  LocksOK'
BY BoundFacts DEF LocksOK, DeleteLock

LEMMA EndRowType ==
    ASSUME RowsOK, NEW t, NEW s \in {"succeeded", "failed"}, EndRow(t, s)
    PROVE  RowsOK'
BY DEF RowsOK, EndRow

LEMMA MarkType ==
    ASSUME RowsOK, NEW t, MarkSystemTaskLeaseExpired(t)
    PROVE  RowsOK'
BY EndRowType DEF MarkSystemTaskLeaseExpired, RowsOK, rows

LEMMA ReleaseType ==
    ASSUME LocksOK, NEW r, NEW t, ReleaseSystemTaskLock(r, t)
    PROVE  LocksOK'
BY DeleteLockType DEF ReleaseSystemTaskLock, LocksOK, locks

LEMMA TypeStep ==
    ASSUME TypeOK, CurTyped, Next
    PROVE  TypeOK'
<1> USE DEF TypeOK
<1>1. CASE \E k \in Key : Enqueue(k)
  BY <1>1 DEF Enqueue, locks, loop, RowsOK, LocksOK, LoopOK, HandlersOK
<1>2. ASSUME NEW r \in Runner, StaleRead(r) PROVE TypeOK'
  <2>1. RowsOK'
    BY <1>2 DEF StaleRead, RowsOK, rows
  <2>2. LocksOK'
    BY <1>2 DEF StaleRead, LocksOK, locks
  <2>3. LoopOK'
    BY <1>2, BoundFacts DEF StaleRead, LoopOK, PC, loop, Goto, ReadClock
  <2>4. HandlersOK'
    BY <1>2 DEF StaleRead, HandlersOK
  <2> QED
    BY <2>1, <2>2, <2>3, <2>4
<1>3. ASSUME NEW r \in Runner, StaleMark(r) PROVE TypeOK'
  <2>1. RowsOK'
    BY <1>3, MarkType DEF StaleMark, RowsOK, rows
  <2>2. LocksOK'
    BY <1>3 DEF StaleMark, LocksOK, locks
  <2>3. LoopOK'
    BY <1>3 DEF StaleMark, LoopOK, PC, loop, Goto, Stale
  <2>4. HandlersOK'
    BY <1>3 DEF StaleMark, HandlersOK
  <2> QED
    BY <2>1, <2>2, <2>3, <2>4
<1>4. ASSUME NEW r \in Runner, StaleDelete(r) PROVE TypeOK'
  <2>1. RowsOK'
    BY <1>4 DEF StaleDelete, RowsOK, rows
  <2>2. LocksOK'
    BY <1>4, DeleteLockType DEF StaleDelete, LocksOK, locks
  <2>3. LoopOK'
    BY <1>4 DEF StaleDelete, LoopOK, PC, loop, Goto
  <2>4. HandlersOK'
    BY <1>4, BoundFacts, TypeOfType DEF StaleDelete, HandlersOK, LoseClaim, CurTyped, Claiming,
       Stale, LoopOK
  <2> QED
    BY <2>1, <2>2, <2>3, <2>4
<1>5. ASSUME NEW r \in Runner, StaleError(r) PROVE TypeOK'
  <2>1. RowsOK'
    BY <1>5 DEF StaleError, RowsOK, rows
  <2>2. LocksOK'
    BY <1>5 DEF StaleError, LocksOK, locks
  <2>3. LoopOK'
    BY <1>5, BoundFacts DEF StaleError, LoopOK, PC, loop, Goto, ReadClock
  <2>4. HandlersOK'
    BY <1>5, BoundFacts DEF StaleError, HandlersOK, DbError
  <2> QED
    BY <2>1, <2>2, <2>3, <2>4
<1>6. ASSUME NEW r \in Runner, StaleDone(r) PROVE TypeOK'
  <2>1. RowsOK'
    BY <1>6 DEF StaleDone, RowsOK, rows
  <2>2. LocksOK'
    BY <1>6 DEF StaleDone, LocksOK, locks
  <2>3. LoopOK'
    BY <1>6, BoundFacts DEF StaleDone, LoopOK, PC, loop, Goto, ReadClock
  <2>4. HandlersOK'
    BY <1>6 DEF StaleDone, HandlersOK
  <2> QED
    BY <2>1, <2>2, <2>3, <2>4
<1>7. ASSUME NEW r \in Runner, PickPending(r) PROVE TypeOK'
  <2>1. RowsOK'
    BY <1>7 DEF PickPending, RowsOK, rows
  <2>2. LocksOK'
    BY <1>7 DEF PickPending, LocksOK, locks
  <2>3. LoopOK'
    BY <1>7 DEF PickPending, LoopOK, PC, loop, Goto
  <2>4. HandlersOK'
    BY <1>7 DEF PickPending, HandlersOK
  <2> QED
    BY <2>1, <2>2, <2>3, <2>4
<1>8. ASSUME NEW r \in Runner, ClaimSelect(r) PROVE TypeOK'
  <2>1. RowsOK'
    BY <1>8 DEF ClaimSelect, RowsOK, rows
  <2>2. LocksOK'
    BY <1>8 DEF ClaimSelect, LocksOK, locks
  <2>3. LoopOK'
    BY <1>8, BoundFacts DEF ClaimSelect, LoopOK, PC, loop, Goto, ReadClock
  <2>4. HandlersOK'
    BY <1>8 DEF ClaimSelect, HandlersOK
  <2> QED
    BY <2>1, <2>2, <2>3, <2>4
<1>9. ASSUME NEW r \in Runner, ClaimPassDone(r) PROVE TypeOK'
  <2>1. RowsOK'
    BY <1>9 DEF ClaimPassDone, RowsOK, rows
  <2>2. LocksOK'
    BY <1>9 DEF ClaimPassDone, LocksOK, locks
  <2>3. LoopOK'
    BY <1>9 DEF ClaimPassDone, LoopOK, PC, loop, Goto
  <2>4. HandlersOK'
    BY <1>9 DEF ClaimPassDone, HandlersOK
  <2> QED
    BY <2>1, <2>2, <2>3, <2>4
<1>10. ASSUME NEW r \in Runner, LockInsert(r) PROVE TypeOK'
  <2>1. RowsOK'
    BY <1>10 DEF LockInsert, RowsOK, rows
  <2>2. LocksOK'
    BY <1>10, SetLockType, LeaseLeftType DEF LockInsert, LocksOK, locks, CurTyped, Claiming
  <2>3. LoopOK'
    BY <1>10, BoundFacts DEF LockInsert, LoopOK, PC, loop, Goto, ReadClock
  <2>4. HandlersOK'
    BY <1>10 DEF LockInsert, HandlersOK, Supersede
  <2> QED
    BY <2>1, <2>2, <2>3, <2>4
<1>11. ASSUME NEW r \in Runner, LockInspect(r) PROVE TypeOK'
  <2>1. RowsOK'
    BY <1>11 DEF LockInspect, RowsOK, rows
  <2>2. LocksOK'
    BY <1>11 DEF LockInspect, LocksOK, locks
  <2>3. LoopOK'
    BY <1>11, BoundFacts, TypeOfType DEF LockInspect, LoopOK, PC, loop, Goto, ReadClock,
       ClaimReturns, CurTyped, Claiming, LocksOK
  <2>4. HandlersOK'
    BY <1>11 DEF LockInspect, HandlersOK
  <2> QED
    BY <2>1, <2>2, <2>3, <2>4
<1>12. ASSUME NEW r \in Runner, LockSteal(r) PROVE TypeOK'
  <2>1. RowsOK'
    BY <1>12 DEF LockSteal, RowsOK, rows
  <2>2. LocksOK'
    BY <1>12, SetLockType, LeaseLeftType DEF LockSteal, LocksOK, locks, CurTyped, Claiming
  <2>3. LoopOK'
    BY <1>12, BoundFacts DEF LockSteal, LoopOK, PC, loop, Goto, ReadClock, ClaimReturns
  <2>4. HandlersOK'
    BY <1>12, BoundFacts, TypeOfType DEF LockSteal, HandlersOK, Supersede, LoseClaim, CurTyped,
       Claiming
  <2> QED
    BY <2>1, <2>2, <2>3, <2>4
<1>13. ASSUME NEW r \in Runner, ClaimMark(r) PROVE TypeOK'
  <2>1. RowsOK'
    BY <1>13, MarkType DEF ClaimMark, RowsOK, rows
  <2>2. LocksOK'
    BY <1>13 DEF ClaimMark, LocksOK, locks
  <2>3. LoopOK'
    BY <1>13 DEF ClaimMark, LoopOK, PC, loop, Goto
  <2>4. HandlersOK'
    BY <1>13, BoundFacts, TypeOfType DEF ClaimMark, HandlersOK, DbError, LoseClaim, CurTyped,
       Claiming
  <2> QED
    BY <2>1, <2>2, <2>3, <2>4
<1>14. ASSUME NEW r \in Runner, ClaimUpdate(r) PROVE TypeOK'
  <2>1. RowsOK'
    BY <1>14 DEF ClaimUpdate, RowsOK, rows, CurTyped, Claiming
  <2>2. LocksOK'
    BY <1>14 DEF ClaimUpdate, LocksOK, locks
  <2>3. LoopOK'
    BY <1>14, BoundFacts DEF ClaimUpdate, LoopOK, PC, loop, Goto, ReadClock, ClaimReturns
  <2>4. HandlersOK'
    BY <1>14, BoundFacts, TypeOfType DEF ClaimUpdate, HandlersOK, DbError, LoseClaim, CurTyped,
       Claiming
  <2> QED
    BY <2>1, <2>2, <2>3, <2>4
<1>15. ASSUME NEW r \in Runner, ClaimUpdateMiss(r) PROVE TypeOK'
  <2>1. RowsOK'
    BY <1>15 DEF ClaimUpdateMiss, RowsOK, rows
  <2>2. LocksOK'
    BY <1>15 DEF ClaimUpdateMiss, LocksOK, locks
  <2>3. LoopOK'
    BY <1>15 DEF ClaimUpdateMiss, LoopOK, PC, loop, Goto
  <2>4. HandlersOK'
    BY <1>15, BoundFacts DEF ClaimUpdateMiss, HandlersOK, DbError
  <2> QED
    BY <2>1, <2>2, <2>3, <2>4
<1>16. ASSUME NEW r \in Runner, ClaimRelease(r) PROVE TypeOK'
  <2>1. RowsOK'
    BY <1>16 DEF ClaimRelease, RowsOK, rows
  <2>2. LocksOK'
    BY <1>16, ReleaseType DEF ClaimRelease, LocksOK, locks
  <2>3. LoopOK'
    BY <1>16, BoundFacts DEF ClaimRelease, LoopOK, PC, loop, Goto, ReadClock, ClaimReturns
  <2>4. HandlersOK'
    BY <1>16, BoundFacts DEF ClaimRelease, HandlersOK, DbError
  <2> QED
    BY <2>1, <2>2, <2>3, <2>4
<1>17. ASSUME NEW r \in Runner, LoopStops(r) PROVE TypeOK'
  <2>1. RowsOK'
    BY <1>17 DEF LoopStops, RowsOK, rows
  <2>2. LocksOK'
    BY <1>17 DEF LoopStops, LocksOK, locks
  <2>3. LoopOK'
    BY <1>17 DEF LoopStops, LoopOK, PC, loop, Goto
  <2>4. HandlersOK'
    BY <1>17 DEF LoopStops, HandlersOK
  <2> QED
    BY <2>1, <2>2, <2>3, <2>4
<1>18. ASSUME NEW r \in Runner, Crash(r) PROVE TypeOK'
  <2>1. RowsOK'
    BY <1>18 DEF Crash, RowsOK, rows
  <2>2. LocksOK'
    BY <1>18 DEF Crash, LocksOK, locks
  <2>3. LoopOK'
    BY <1>18, BoundFacts DEF Crash, LoopOK, PC, loop
  <2>4. HandlersOK'
    BY <1>18, BoundFacts, TypeOfType DEF Crash, HandlersOK, LoseClaim, CurTyped, Claiming
  <2> QED
    BY <2>1, <2>2, <2>3, <2>4
<1>19. ASSUME NEW r \in Runner, NEW t \in Task, RenewSystemTaskLock(r, t) PROVE TypeOK'
  <2>1. RowsOK'
    BY <1>19 DEF RenewSystemTaskLock, RowsOK, rows
  <2>2. LocksOK'
    BY <1>19, BoundFacts DEF RenewSystemTaskLock, LocksOK, locks
  <2>3. LoopOK'
    BY <1>19 DEF RenewSystemTaskLock, LoopOK, PC, loop
  <2>4. HandlersOK'
    BY <1>19 DEF RenewSystemTaskLock, HandlersOK
  <2> QED
    BY <2>1, <2>2, <2>3, <2>4
<1>20. ASSUME NEW r \in Runner, NEW t \in Task, HeartbeatLost(r, t) PROVE TypeOK'
  <2>1. RowsOK'
    BY <1>20 DEF HeartbeatLost, RowsOK, rows
  <2>2. LocksOK'
    BY <1>20 DEF HeartbeatLost, LocksOK, locks
  <2>3. LoopOK'
    BY <1>20 DEF HeartbeatLost, LoopOK, PC, loop
  <2>4. HandlersOK'
    BY <1>20, BoundFacts DEF HeartbeatLost, HandlersOK, DbError, SetHandler
  <2> QED
    BY <2>1, <2>2, <2>3, <2>4
<1>21. ASSUME NEW r \in Runner, NEW t \in Task, HandlerWriteLost(r, t) PROVE TypeOK'
  <2>1. RowsOK'
    BY <1>21 DEF HandlerWriteLost, RowsOK, rows
  <2>2. LocksOK'
    BY <1>21 DEF HandlerWriteLost, LocksOK, locks
  <2>3. LoopOK'
    BY <1>21 DEF HandlerWriteLost, LoopOK, PC, loop
  <2>4. HandlersOK'
    BY <1>21, BoundFacts DEF HandlerWriteLost, HandlersOK, DbError, SetHandler
  <2> QED
    BY <2>1, <2>2, <2>3, <2>4
<1>22. ASSUME NEW r \in Runner, NEW t \in Task, FinishSystemTask(r, t) PROVE TypeOK'
  <2>1. RowsOK'
    BY <1>22, EndRowType DEF FinishSystemTask, RowsOK, rows
  <2>2. LocksOK'
    BY <1>22 DEF FinishSystemTask, LocksOK, locks
  <2>3. LoopOK'
    BY <1>22 DEF FinishSystemTask, LoopOK, PC, loop
  <2>4. HandlersOK'
    BY <1>22 DEF FinishSystemTask, HandlersOK, SetHandler
  <2> QED
    BY <2>1, <2>2, <2>3, <2>4
<1>23. ASSUME NEW r \in Runner, NEW t \in Task, HandlerRelease(r, t) PROVE TypeOK'
  <2>1. RowsOK'
    BY <1>23 DEF HandlerRelease, RowsOK, rows
  <2>2. LocksOK'
    BY <1>23, ReleaseType DEF HandlerRelease, LocksOK, locks
  <2>3. LoopOK'
    BY <1>23 DEF HandlerRelease, LoopOK, PC, loop
  <2>4. HandlersOK'
    BY <1>23, BoundFacts DEF HandlerRelease, HandlersOK, DbError, SetHandler
  <2> QED
    BY <2>1, <2>2, <2>3, <2>4
<1>24. CASE Tick
  BY <1>24, BoundFacts DEF Tick, rows, UsesClock, RowsOK, LocksOK, LoopOK, HandlersOK
<1> QED
  BY <1>1, <1>2, <1>3, <1>4, <1>5, <1>6, <1>7, <1>8, <1>9, <1>10, <1>11, <1>12, <1>13, <1>14,
     <1>15, <1>16, <1>17, <1>18, <1>19, <1>20, <1>21, <1>22, <1>23, <1>24 DEF Next, LoopStep,
     HandlerEnds

-----------------------------------------------------------------------------
(* References *)

\* A row that exists keeps its key, hence its type, and goes on existing.
LEMMA RowStays ==
    ASSUME RowsOK, Next
    PROVE  \A u \in Task : status[u] # "absent" => status'[u] # "absent" /\ key'[u] = key[u]
<1>1. ASSUME \E k \in Key : Enqueue(k) PROVE \A u \in Task : status[u] # "absent" => status'[u] # "absent" /\ key'[u] = key[u]
  BY <1>1 DEF Enqueue, locks, loop, RowsOK
<1>2. ASSUME NEW r \in Runner, StaleRead(r) PROVE \A u \in Task : status[u] # "absent" => status'[u] # "absent" /\ key'[u] = key[u]
  BY <1>2 DEF StaleRead, rows, locks, Goto, ReadClock, RowsOK
<1>3. ASSUME NEW r \in Runner, StaleMark(r) PROVE \A u \in Task : status[u] # "absent" => status'[u] # "absent" /\ key'[u] = key[u]
  BY <1>3 DEF StaleMark, rows, locks, Goto, EndRow, MarkSystemTaskLeaseExpired, RowsOK
<1>4. ASSUME NEW r \in Runner, StaleDelete(r) PROVE \A u \in Task : status[u] # "absent" => status'[u] # "absent" /\ key'[u] = key[u]
  BY <1>4 DEF StaleDelete, rows, locks, Goto, DeleteLock, RowsOK
<1>5. ASSUME NEW r \in Runner, StaleError(r) PROVE \A u \in Task : status[u] # "absent" => status'[u] # "absent" /\ key'[u] = key[u]
  BY <1>5 DEF StaleError, rows, locks, Goto, ReadClock, DbError, RowsOK
<1>6. ASSUME NEW r \in Runner, StaleDone(r) PROVE \A u \in Task : status[u] # "absent" => status'[u] # "absent" /\ key'[u] = key[u]
  BY <1>6 DEF StaleDone, rows, locks, Goto, ReadClock, RowsOK
<1>7. ASSUME NEW r \in Runner, PickPending(r) PROVE \A u \in Task : status[u] # "absent" => status'[u] # "absent" /\ key'[u] = key[u]
  BY <1>7 DEF PickPending, rows, locks, Goto, RowsOK
<1>8. ASSUME NEW r \in Runner, ClaimSelect(r) PROVE \A u \in Task : status[u] # "absent" => status'[u] # "absent" /\ key'[u] = key[u]
  BY <1>8 DEF ClaimSelect, rows, locks, Goto, ReadClock, RowsOK
<1>9. ASSUME NEW r \in Runner, ClaimPassDone(r) PROVE \A u \in Task : status[u] # "absent" => status'[u] # "absent" /\ key'[u] = key[u]
  BY <1>9 DEF ClaimPassDone, rows, locks, Goto, RowsOK
<1>10. ASSUME NEW r \in Runner, LockInsert(r) PROVE \A u \in Task : status[u] # "absent" => status'[u] # "absent" /\ key'[u] = key[u]
  BY <1>10 DEF LockInsert, rows, locks, Goto, ReadClock, SetLock, RowsOK
<1>11. ASSUME NEW r \in Runner, LockInspect(r) PROVE \A u \in Task : status[u] # "absent" => status'[u] # "absent" /\ key'[u] = key[u]
  BY <1>11 DEF LockInspect, rows, locks, Goto, ReadClock, ClaimReturns, RowsOK
<1>12. ASSUME NEW r \in Runner, LockSteal(r) PROVE \A u \in Task : status[u] # "absent" => status'[u] # "absent" /\ key'[u] = key[u]
  BY <1>12 DEF LockSteal, rows, locks, Goto, ReadClock, ClaimReturns, SetLock, RowsOK
<1>13. ASSUME NEW r \in Runner, ClaimMark(r) PROVE \A u \in Task : status[u] # "absent" => status'[u] # "absent" /\ key'[u] = key[u]
  BY <1>13 DEF ClaimMark, rows, locks, Goto, EndRow, MarkSystemTaskLeaseExpired, DbError, RowsOK
<1>14. ASSUME NEW r \in Runner, ClaimUpdate(r) PROVE \A u \in Task : status[u] # "absent" => status'[u] # "absent" /\ key'[u] = key[u]
  BY <1>14 DEF ClaimUpdate, locks, Goto, ReadClock, ClaimReturns, DbError, Claimable, RowsOK
<1>15. ASSUME NEW r \in Runner, ClaimUpdateMiss(r) PROVE \A u \in Task : status[u] # "absent" => status'[u] # "absent" /\ key'[u] = key[u]
  BY <1>15 DEF ClaimUpdateMiss, rows, locks, Goto, DbError, Claimable, RowsOK
<1>16. ASSUME NEW r \in Runner, ClaimRelease(r) PROVE \A u \in Task : status[u] # "absent" => status'[u] # "absent" /\ key'[u] = key[u]
  BY <1>16 DEF ClaimRelease, rows, locks, Goto, ReadClock, ClaimReturns, DeleteLock,
       ReleaseSystemTaskLock, DbError, HoldsLock, RowsOK
<1>17. ASSUME NEW r \in Runner, LoopStops(r) PROVE \A u \in Task : status[u] # "absent" => status'[u] # "absent" /\ key'[u] = key[u]
  BY <1>17 DEF LoopStops, rows, locks, Goto, RowsOK
<1>18. ASSUME NEW r \in Runner, Crash(r) PROVE \A u \in Task : status[u] # "absent" => status'[u] # "absent" /\ key'[u] = key[u]
  BY <1>18 DEF Crash, rows, locks, RowsOK
<1>19. ASSUME NEW r \in Runner, NEW t \in Task, RenewSystemTaskLock(r, t) PROVE \A u \in Task : status[u] # "absent" => status'[u] # "absent" /\ key'[u] = key[u]
  BY <1>19 DEF RenewSystemTaskLock, rows, loop, RowsOK
<1>20. ASSUME NEW r \in Runner, NEW t \in Task, HeartbeatLost(r, t) PROVE \A u \in Task : status[u] # "absent" => status'[u] # "absent" /\ key'[u] = key[u]
  BY <1>20 DEF HeartbeatLost, rows, locks, loop, DbError, SetHandler, RowsOK
<1>21. ASSUME NEW r \in Runner, NEW t \in Task, HandlerWriteLost(r, t) PROVE \A u \in Task : status[u] # "absent" => status'[u] # "absent" /\ key'[u] = key[u]
  BY <1>21 DEF HandlerWriteLost, rows, locks, loop, DbError, SetHandler, RowsOK
<1>22. ASSUME NEW r \in Runner, NEW t \in Task, FinishSystemTask(r, t) PROVE \A u \in Task : status[u] # "absent" => status'[u] # "absent" /\ key'[u] = key[u]
  BY <1>22 DEF FinishSystemTask, locks, loop, EndRow, SetHandler, RowsOK
<1>23. ASSUME NEW r \in Runner, NEW t \in Task, HandlerRelease(r, t) PROVE \A u \in Task : status[u] # "absent" => status'[u] # "absent" /\ key'[u] = key[u]
  BY <1>23 DEF HandlerRelease, rows, locks, loop, DeleteLock, ReleaseSystemTaskLock, DbError,
       SetHandler, HoldsLock, RowsOK
<1>24. ASSUME Tick PROVE \A u \in Task : status[u] # "absent" => status'[u] # "absent" /\ key'[u] = key[u]
  BY <1>24 DEF Tick, rows, UsesClock, RowsOK
<1> QED
  BY <1>1, <1>2, <1>3, <1>4, <1>5, <1>6, <1>7, <1>8, <1>9, <1>10, <1>11, <1>12, <1>13, <1>14,
       <1>15, <1>16, <1>17, <1>18, <1>19, <1>20, <1>21, <1>22, <1>23, <1>24 DEF Next,
       LoopStep, HandlerEnds

LEMMA TypeStays ==
    ASSUME RowsOK, Next, NEW t \in Task, status[t] # "absent"
    PROVE  status'[t] # "absent" /\ TypeOf(t)' = TypeOf(t)
BY RowStays DEF TypeOf

LEMMA CurRefsStep ==
    ASSUME TypeOK, Refs, Next
    PROVE  CurRefs'
<1>1. ASSUME \E k \in Key : Enqueue(k) PROVE CurRefs'
  BY <1>1, TypeStays, BoundFacts DEF Enqueue, locks, loop, TypeOK, Refs, RowsOK, LoopOK,
       CurRefs, TodoRefs, StaleRefs, Stale, Claiming
<1>2. ASSUME NEW r \in Runner, StaleRead(r) PROVE CurRefs'
  BY <1>2, TypeStays, BoundFacts DEF StaleRead, rows, locks, Goto, ReadClock, TypeOK, Refs,
       RowsOK, LoopOK, CurRefs, TodoRefs, StaleRefs, Stale, Claiming
<1>3. ASSUME NEW r \in Runner, StaleMark(r) PROVE CurRefs'
  BY <1>3, TypeStays, BoundFacts DEF StaleMark, rows, locks, Goto, EndRow,
       MarkSystemTaskLeaseExpired, TypeOK, Refs, RowsOK, LoopOK, CurRefs, TodoRefs,
       StaleRefs, Stale, Claiming
<1>4. ASSUME NEW r \in Runner, StaleDelete(r) PROVE CurRefs'
  BY <1>4, TypeStays, BoundFacts DEF StaleDelete, rows, locks, Goto, DeleteLock, TypeOK,
       Refs, RowsOK, LoopOK, CurRefs, TodoRefs, StaleRefs, Stale, Claiming
<1>5. ASSUME NEW r \in Runner, StaleError(r) PROVE CurRefs'
  BY <1>5, TypeStays, BoundFacts DEF StaleError, rows, locks, Goto, ReadClock, DbError,
       TypeOK, Refs, RowsOK, LoopOK, CurRefs, TodoRefs, StaleRefs, Stale, Claiming
<1>6. ASSUME NEW r \in Runner, StaleDone(r) PROVE CurRefs'
  BY <1>6, TypeStays, BoundFacts DEF StaleDone, rows, locks, Goto, ReadClock, TypeOK, Refs,
       RowsOK, LoopOK, CurRefs, TodoRefs, StaleRefs, Stale, Claiming
<1>7. ASSUME NEW r \in Runner, PickPending(r) PROVE CurRefs'
  BY <1>7, TypeStays, BoundFacts DEF PickPending, rows, locks, Goto, TypeOK, Refs, RowsOK,
       LoopOK, CurRefs, TodoRefs, StaleRefs, Stale, Claiming
<1>8. ASSUME NEW r \in Runner, ClaimSelect(r) PROVE CurRefs'
  BY <1>8, TypeStays, BoundFacts DEF ClaimSelect, rows, locks, Goto, ReadClock, TypeOK, Refs,
       RowsOK, LoopOK, CurRefs, TodoRefs, StaleRefs, Stale, Claiming
<1>9. ASSUME NEW r \in Runner, ClaimPassDone(r) PROVE CurRefs'
  BY <1>9, TypeStays, BoundFacts DEF ClaimPassDone, rows, locks, Goto, TypeOK, Refs, RowsOK,
       LoopOK, CurRefs, TodoRefs, StaleRefs, Stale, Claiming
<1>10. ASSUME NEW r \in Runner, LockInsert(r) PROVE CurRefs'
  BY <1>10, TypeStays, BoundFacts DEF LockInsert, rows, locks, Goto, ReadClock, SetLock,
       TypeOK, Refs, RowsOK, LoopOK, CurRefs, TodoRefs, StaleRefs, Stale, Claiming
<1>11. ASSUME NEW r \in Runner, LockInspect(r) PROVE CurRefs'
  BY <1>11, TypeStays, BoundFacts DEF LockInspect, rows, locks, Goto, ReadClock,
       ClaimReturns, TypeOK, Refs, RowsOK, LoopOK, CurRefs, TodoRefs, StaleRefs, Stale,
       Claiming
<1>12. ASSUME NEW r \in Runner, LockSteal(r) PROVE CurRefs'
  BY <1>12, TypeStays, BoundFacts DEF LockSteal, rows, locks, Goto, ReadClock, ClaimReturns,
       SetLock, TypeOK, Refs, RowsOK, LoopOK, CurRefs, TodoRefs, StaleRefs, Stale, Claiming
<1>13. ASSUME NEW r \in Runner, ClaimMark(r) PROVE CurRefs'
  BY <1>13, TypeStays, BoundFacts DEF ClaimMark, rows, locks, Goto, EndRow,
       MarkSystemTaskLeaseExpired, DbError, TypeOK, Refs, RowsOK, LoopOK, CurRefs, TodoRefs,
       StaleRefs, Stale, Claiming
<1>14. ASSUME NEW r \in Runner, ClaimUpdate(r) PROVE CurRefs'
  BY <1>14, TypeStays, BoundFacts DEF ClaimUpdate, locks, Goto, ReadClock, ClaimReturns,
       DbError, Claimable, TypeOK, Refs, RowsOK, LoopOK, CurRefs, TodoRefs, StaleRefs, Stale,
       Claiming
<1>15. ASSUME NEW r \in Runner, ClaimUpdateMiss(r) PROVE CurRefs'
  BY <1>15, TypeStays, BoundFacts DEF ClaimUpdateMiss, rows, locks, Goto, DbError, Claimable,
       TypeOK, Refs, RowsOK, LoopOK, CurRefs, TodoRefs, StaleRefs, Stale, Claiming
<1>16. ASSUME NEW r \in Runner, ClaimRelease(r) PROVE CurRefs'
  BY <1>16, TypeStays, BoundFacts DEF ClaimRelease, rows, locks, Goto, ReadClock,
       ClaimReturns, DeleteLock, ReleaseSystemTaskLock, DbError, HoldsLock, TypeOK, Refs,
       RowsOK, LoopOK, CurRefs, TodoRefs, StaleRefs, Stale, Claiming
<1>17. ASSUME NEW r \in Runner, LoopStops(r) PROVE CurRefs'
  BY <1>17, TypeStays, BoundFacts DEF LoopStops, rows, locks, Goto, TypeOK, Refs, RowsOK,
       LoopOK, CurRefs, TodoRefs, StaleRefs, Stale, Claiming
<1>18. ASSUME NEW r \in Runner, Crash(r) PROVE CurRefs'
  BY <1>18, TypeStays, BoundFacts DEF Crash, rows, locks, TypeOK, Refs, RowsOK, LoopOK,
       CurRefs, TodoRefs, StaleRefs, Stale, Claiming
<1>19. ASSUME NEW r \in Runner, NEW t \in Task, RenewSystemTaskLock(r, t) PROVE CurRefs'
  BY <1>19, TypeStays, BoundFacts DEF RenewSystemTaskLock, rows, loop, TypeOK, Refs, RowsOK,
       LoopOK, CurRefs, TodoRefs, StaleRefs, Stale, Claiming
<1>20. ASSUME NEW r \in Runner, NEW t \in Task, HeartbeatLost(r, t) PROVE CurRefs'
  BY <1>20, TypeStays, BoundFacts DEF HeartbeatLost, rows, locks, loop, DbError, SetHandler,
       TypeOK, Refs, RowsOK, LoopOK, CurRefs, TodoRefs, StaleRefs, Stale, Claiming
<1>21. ASSUME NEW r \in Runner, NEW t \in Task, HandlerWriteLost(r, t) PROVE CurRefs'
  BY <1>21, TypeStays, BoundFacts DEF HandlerWriteLost, rows, locks, loop, DbError,
       SetHandler, TypeOK, Refs, RowsOK, LoopOK, CurRefs, TodoRefs, StaleRefs, Stale,
       Claiming
<1>22. ASSUME NEW r \in Runner, NEW t \in Task, FinishSystemTask(r, t) PROVE CurRefs'
  BY <1>22, TypeStays, BoundFacts DEF FinishSystemTask, locks, loop, EndRow, SetHandler,
       TypeOK, Refs, RowsOK, LoopOK, CurRefs, TodoRefs, StaleRefs, Stale, Claiming
<1>23. ASSUME NEW r \in Runner, NEW t \in Task, HandlerRelease(r, t) PROVE CurRefs'
  BY <1>23, TypeStays, BoundFacts DEF HandlerRelease, rows, locks, loop, DeleteLock,
       ReleaseSystemTaskLock, DbError, SetHandler, HoldsLock, TypeOK, Refs, RowsOK, LoopOK,
       CurRefs, TodoRefs, StaleRefs, Stale, Claiming
<1>24. ASSUME Tick PROVE CurRefs'
  BY <1>24, TypeStays, BoundFacts DEF Tick, rows, UsesClock, TypeOK, Refs, RowsOK, LoopOK,
       CurRefs, TodoRefs, StaleRefs, Stale, Claiming
<1> QED
  BY <1>1, <1>2, <1>3, <1>4, <1>5, <1>6, <1>7, <1>8, <1>9, <1>10, <1>11, <1>12, <1>13, <1>14,
       <1>15, <1>16, <1>17, <1>18, <1>19, <1>20, <1>21, <1>22, <1>23, <1>24 DEF Next,
       LoopStep, HandlerEnds

LEMMA OldRefsStep ==
    ASSUME TypeOK, Refs, Next
    PROVE  OldRefs'
<1>1. ASSUME \E k \in Key : Enqueue(k) PROVE OldRefs'
  BY <1>1, TypeStays, TypeOfType DEF Enqueue, locks, loop, TypeOK, Refs, RowsOK, LoopOK,
       LocksOK, CurRefs, OldRefs, LockRefs, Claiming
<1>2. ASSUME NEW r \in Runner, StaleRead(r) PROVE OldRefs'
  BY <1>2, TypeStays, TypeOfType DEF StaleRead, rows, locks, Goto, ReadClock, TypeOK, Refs,
       RowsOK, LoopOK, LocksOK, CurRefs, OldRefs, LockRefs, Claiming
<1>3. ASSUME NEW r \in Runner, StaleMark(r) PROVE OldRefs'
  BY <1>3, TypeStays, TypeOfType DEF StaleMark, rows, locks, Goto, EndRow,
       MarkSystemTaskLeaseExpired, TypeOK, Refs, RowsOK, LoopOK, LocksOK, CurRefs, OldRefs,
       LockRefs, Claiming
<1>4. ASSUME NEW r \in Runner, StaleDelete(r) PROVE OldRefs'
  BY <1>4, TypeStays, TypeOfType DEF StaleDelete, rows, locks, Goto, DeleteLock, TypeOK,
       Refs, RowsOK, LoopOK, LocksOK, CurRefs, OldRefs, LockRefs, Claiming
<1>5. ASSUME NEW r \in Runner, StaleError(r) PROVE OldRefs'
  BY <1>5, TypeStays, TypeOfType DEF StaleError, rows, locks, Goto, ReadClock, DbError,
       TypeOK, Refs, RowsOK, LoopOK, LocksOK, CurRefs, OldRefs, LockRefs, Claiming
<1>6. ASSUME NEW r \in Runner, StaleDone(r) PROVE OldRefs'
  BY <1>6, TypeStays, TypeOfType DEF StaleDone, rows, locks, Goto, ReadClock, TypeOK, Refs,
       RowsOK, LoopOK, LocksOK, CurRefs, OldRefs, LockRefs, Claiming
<1>7. ASSUME NEW r \in Runner, PickPending(r) PROVE OldRefs'
  BY <1>7, TypeStays, TypeOfType DEF PickPending, rows, locks, Goto, TypeOK, Refs, RowsOK,
       LoopOK, LocksOK, CurRefs, OldRefs, LockRefs, Claiming
<1>8. ASSUME NEW r \in Runner, ClaimSelect(r) PROVE OldRefs'
  BY <1>8, TypeStays, TypeOfType DEF ClaimSelect, rows, locks, Goto, ReadClock, TypeOK, Refs,
       RowsOK, LoopOK, LocksOK, CurRefs, OldRefs, LockRefs, Claiming
<1>9. ASSUME NEW r \in Runner, ClaimPassDone(r) PROVE OldRefs'
  BY <1>9, TypeStays, TypeOfType DEF ClaimPassDone, rows, locks, Goto, TypeOK, Refs, RowsOK,
       LoopOK, LocksOK, CurRefs, OldRefs, LockRefs, Claiming
<1>10. ASSUME NEW r \in Runner, LockInsert(r) PROVE OldRefs'
  BY <1>10, TypeStays, TypeOfType DEF LockInsert, rows, locks, Goto, ReadClock, SetLock,
       TypeOK, Refs, RowsOK, LoopOK, LocksOK, CurRefs, OldRefs, LockRefs, Claiming
<1>11. ASSUME NEW r \in Runner, LockInspect(r) PROVE OldRefs'
  BY <1>11, TypeStays, TypeOfType DEF LockInspect, rows, locks, Goto, ReadClock,
       ClaimReturns, TypeOK, Refs, RowsOK, LoopOK, LocksOK, CurRefs, OldRefs, LockRefs,
       Claiming
<1>12. ASSUME NEW r \in Runner, LockSteal(r) PROVE OldRefs'
  BY <1>12, TypeStays, TypeOfType DEF LockSteal, rows, locks, Goto, ReadClock, ClaimReturns,
       SetLock, TypeOK, Refs, RowsOK, LoopOK, LocksOK, CurRefs, OldRefs, LockRefs, Claiming
<1>13. ASSUME NEW r \in Runner, ClaimMark(r) PROVE OldRefs'
  BY <1>13, TypeStays, TypeOfType DEF ClaimMark, rows, locks, Goto, EndRow,
       MarkSystemTaskLeaseExpired, DbError, TypeOK, Refs, RowsOK, LoopOK, LocksOK, CurRefs,
       OldRefs, LockRefs, Claiming
<1>14. ASSUME NEW r \in Runner, ClaimUpdate(r) PROVE OldRefs'
  BY <1>14, TypeStays, TypeOfType DEF ClaimUpdate, locks, Goto, ReadClock, ClaimReturns,
       DbError, Claimable, TypeOK, Refs, RowsOK, LoopOK, LocksOK, CurRefs, OldRefs, LockRefs,
       Claiming
<1>15. ASSUME NEW r \in Runner, ClaimUpdateMiss(r) PROVE OldRefs'
  BY <1>15, TypeStays, TypeOfType DEF ClaimUpdateMiss, rows, locks, Goto, DbError, Claimable,
       TypeOK, Refs, RowsOK, LoopOK, LocksOK, CurRefs, OldRefs, LockRefs, Claiming
<1>16. ASSUME NEW r \in Runner, ClaimRelease(r) PROVE OldRefs'
  BY <1>16, TypeStays, TypeOfType DEF ClaimRelease, rows, locks, Goto, ReadClock,
       ClaimReturns, DeleteLock, ReleaseSystemTaskLock, DbError, HoldsLock, TypeOK, Refs,
       RowsOK, LoopOK, LocksOK, CurRefs, OldRefs, LockRefs, Claiming
<1>17. ASSUME NEW r \in Runner, LoopStops(r) PROVE OldRefs'
  BY <1>17, TypeStays, TypeOfType DEF LoopStops, rows, locks, Goto, TypeOK, Refs, RowsOK,
       LoopOK, LocksOK, CurRefs, OldRefs, LockRefs, Claiming
<1>18. ASSUME NEW r \in Runner, Crash(r) PROVE OldRefs'
  BY <1>18, TypeStays, TypeOfType DEF Crash, rows, locks, TypeOK, Refs, RowsOK, LoopOK,
       LocksOK, CurRefs, OldRefs, LockRefs, Claiming
<1>19. ASSUME NEW r \in Runner, NEW t \in Task, RenewSystemTaskLock(r, t) PROVE OldRefs'
  BY <1>19, TypeStays, TypeOfType DEF RenewSystemTaskLock, rows, loop, TypeOK, Refs, RowsOK,
       LoopOK, LocksOK, CurRefs, OldRefs, LockRefs, Claiming
<1>20. ASSUME NEW r \in Runner, NEW t \in Task, HeartbeatLost(r, t) PROVE OldRefs'
  BY <1>20, TypeStays, TypeOfType DEF HeartbeatLost, rows, locks, loop, DbError, SetHandler,
       TypeOK, Refs, RowsOK, LoopOK, LocksOK, CurRefs, OldRefs, LockRefs, Claiming
<1>21. ASSUME NEW r \in Runner, NEW t \in Task, HandlerWriteLost(r, t) PROVE OldRefs'
  BY <1>21, TypeStays, TypeOfType DEF HandlerWriteLost, rows, locks, loop, DbError,
       SetHandler, TypeOK, Refs, RowsOK, LoopOK, LocksOK, CurRefs, OldRefs, LockRefs,
       Claiming
<1>22. ASSUME NEW r \in Runner, NEW t \in Task, FinishSystemTask(r, t) PROVE OldRefs'
  BY <1>22, TypeStays, TypeOfType DEF FinishSystemTask, locks, loop, EndRow, SetHandler,
       TypeOK, Refs, RowsOK, LoopOK, LocksOK, CurRefs, OldRefs, LockRefs, Claiming
<1>23. ASSUME NEW r \in Runner, NEW t \in Task, HandlerRelease(r, t) PROVE OldRefs'
  BY <1>23, TypeStays, TypeOfType DEF HandlerRelease, rows, locks, loop, DeleteLock,
       ReleaseSystemTaskLock, DbError, SetHandler, HoldsLock, TypeOK, Refs, RowsOK, LoopOK,
       LocksOK, CurRefs, OldRefs, LockRefs, Claiming
<1>24. ASSUME Tick PROVE OldRefs'
  BY <1>24, TypeStays, TypeOfType DEF Tick, rows, UsesClock, TypeOK, Refs, RowsOK, LoopOK,
       LocksOK, CurRefs, OldRefs, LockRefs, Claiming
<1> QED
  BY <1>1, <1>2, <1>3, <1>4, <1>5, <1>6, <1>7, <1>8, <1>9, <1>10, <1>11, <1>12, <1>13, <1>14,
       <1>15, <1>16, <1>17, <1>18, <1>19, <1>20, <1>21, <1>22, <1>23, <1>24 DEF Next,
       LoopStep, HandlerEnds

LEMMA TodoRefsStep ==
    ASSUME TypeOK, Refs, Next
    PROVE  TodoRefs'
<1>1. ASSUME \E k \in Key : Enqueue(k) PROVE TodoRefs'
  BY <1>1, TypeStays DEF Enqueue, locks, loop, TypeOK, Refs, RowsOK, LoopOK, TodoRefs
<1>2. ASSUME NEW r \in Runner, StaleRead(r) PROVE TodoRefs'
  BY <1>2, TypeStays DEF StaleRead, rows, locks, Goto, ReadClock, TypeOK, Refs, RowsOK,
       LoopOK, TodoRefs
<1>3. ASSUME NEW r \in Runner, StaleMark(r) PROVE TodoRefs'
  BY <1>3, TypeStays DEF StaleMark, rows, locks, Goto, EndRow, MarkSystemTaskLeaseExpired,
       TypeOK, Refs, RowsOK, LoopOK, TodoRefs
<1>4. ASSUME NEW r \in Runner, StaleDelete(r) PROVE TodoRefs'
  BY <1>4, TypeStays DEF StaleDelete, rows, locks, Goto, DeleteLock, TypeOK, Refs, RowsOK,
       LoopOK, TodoRefs
<1>5. ASSUME NEW r \in Runner, StaleError(r) PROVE TodoRefs'
  BY <1>5, TypeStays DEF StaleError, rows, locks, Goto, ReadClock, DbError, TypeOK, Refs,
       RowsOK, LoopOK, TodoRefs
<1>6. ASSUME NEW r \in Runner, StaleDone(r) PROVE TodoRefs'
  BY <1>6, TypeStays DEF StaleDone, rows, locks, Goto, ReadClock, TypeOK, Refs, RowsOK,
       LoopOK, TodoRefs
<1>7. ASSUME NEW r \in Runner, PickPending(r) PROVE TodoRefs'
  BY <1>7, TypeStays DEF PickPending, rows, locks, Goto, TypeOK, Refs, RowsOK, LoopOK, TodoRefs
<1>8. ASSUME NEW r \in Runner, ClaimSelect(r) PROVE TodoRefs'
  BY <1>8, TypeStays DEF ClaimSelect, rows, locks, Goto, ReadClock, TypeOK, Refs, RowsOK,
       LoopOK, TodoRefs
<1>9. ASSUME NEW r \in Runner, ClaimPassDone(r) PROVE TodoRefs'
  BY <1>9, TypeStays DEF ClaimPassDone, rows, locks, Goto, TypeOK, Refs, RowsOK, LoopOK,
       TodoRefs
<1>10. ASSUME NEW r \in Runner, LockInsert(r) PROVE TodoRefs'
  BY <1>10, TypeStays DEF LockInsert, rows, locks, Goto, ReadClock, SetLock, TypeOK, Refs,
       RowsOK, LoopOK, TodoRefs
<1>11. ASSUME NEW r \in Runner, LockInspect(r) PROVE TodoRefs'
  BY <1>11, TypeStays DEF LockInspect, rows, locks, Goto, ReadClock, ClaimReturns, TypeOK,
       Refs, RowsOK, LoopOK, TodoRefs
<1>12. ASSUME NEW r \in Runner, LockSteal(r) PROVE TodoRefs'
  BY <1>12, TypeStays DEF LockSteal, rows, locks, Goto, ReadClock, ClaimReturns, SetLock,
       TypeOK, Refs, RowsOK, LoopOK, TodoRefs
<1>13. ASSUME NEW r \in Runner, ClaimMark(r) PROVE TodoRefs'
  BY <1>13, TypeStays DEF ClaimMark, rows, locks, Goto, EndRow, MarkSystemTaskLeaseExpired,
       DbError, TypeOK, Refs, RowsOK, LoopOK, TodoRefs
<1>14. ASSUME NEW r \in Runner, ClaimUpdate(r) PROVE TodoRefs'
  BY <1>14, TypeStays DEF ClaimUpdate, locks, Goto, ReadClock, ClaimReturns, DbError,
       Claimable, TypeOK, Refs, RowsOK, LoopOK, TodoRefs
<1>15. ASSUME NEW r \in Runner, ClaimUpdateMiss(r) PROVE TodoRefs'
  BY <1>15, TypeStays DEF ClaimUpdateMiss, rows, locks, Goto, DbError, Claimable, TypeOK,
       Refs, RowsOK, LoopOK, TodoRefs
<1>16. ASSUME NEW r \in Runner, ClaimRelease(r) PROVE TodoRefs'
  BY <1>16, TypeStays DEF ClaimRelease, rows, locks, Goto, ReadClock, ClaimReturns,
       DeleteLock, ReleaseSystemTaskLock, DbError, HoldsLock, TypeOK, Refs, RowsOK, LoopOK,
       TodoRefs
<1>17. ASSUME NEW r \in Runner, LoopStops(r) PROVE TodoRefs'
  BY <1>17, TypeStays DEF LoopStops, rows, locks, Goto, TypeOK, Refs, RowsOK, LoopOK, TodoRefs
<1>18. ASSUME NEW r \in Runner, Crash(r) PROVE TodoRefs'
  BY <1>18, TypeStays DEF Crash, rows, locks, TypeOK, Refs, RowsOK, LoopOK, TodoRefs
<1>19. ASSUME NEW r \in Runner, NEW t \in Task, RenewSystemTaskLock(r, t) PROVE TodoRefs'
  BY <1>19, TypeStays DEF RenewSystemTaskLock, rows, loop, TypeOK, Refs, RowsOK, LoopOK,
       TodoRefs
<1>20. ASSUME NEW r \in Runner, NEW t \in Task, HeartbeatLost(r, t) PROVE TodoRefs'
  BY <1>20, TypeStays DEF HeartbeatLost, rows, locks, loop, DbError, SetHandler, TypeOK,
       Refs, RowsOK, LoopOK, TodoRefs
<1>21. ASSUME NEW r \in Runner, NEW t \in Task, HandlerWriteLost(r, t) PROVE TodoRefs'
  BY <1>21, TypeStays DEF HandlerWriteLost, rows, locks, loop, DbError, SetHandler, TypeOK,
       Refs, RowsOK, LoopOK, TodoRefs
<1>22. ASSUME NEW r \in Runner, NEW t \in Task, FinishSystemTask(r, t) PROVE TodoRefs'
  BY <1>22, TypeStays DEF FinishSystemTask, locks, loop, EndRow, SetHandler, TypeOK, Refs,
       RowsOK, LoopOK, TodoRefs
<1>23. ASSUME NEW r \in Runner, NEW t \in Task, HandlerRelease(r, t) PROVE TodoRefs'
  BY <1>23, TypeStays DEF HandlerRelease, rows, locks, loop, DeleteLock,
       ReleaseSystemTaskLock, DbError, SetHandler, HoldsLock, TypeOK, Refs, RowsOK, LoopOK,
       TodoRefs
<1>24. ASSUME Tick PROVE TodoRefs'
  BY <1>24, TypeStays DEF Tick, rows, UsesClock, TypeOK, Refs, RowsOK, LoopOK, TodoRefs
<1> QED
  BY <1>1, <1>2, <1>3, <1>4, <1>5, <1>6, <1>7, <1>8, <1>9, <1>10, <1>11, <1>12, <1>13, <1>14,
       <1>15, <1>16, <1>17, <1>18, <1>19, <1>20, <1>21, <1>22, <1>23, <1>24 DEF Next,
       LoopStep, HandlerEnds

LEMMA StaleRefsStep ==
    ASSUME TypeOK, Refs, Next
    PROVE  StaleRefs'
<1>1. ASSUME \E k \in Key : Enqueue(k) PROVE StaleRefs'
  BY <1>1, TypeStays, BoundFacts DEF Enqueue, locks, loop, TypeOK, Refs, RowsOK, LoopOK,
       LockRefs, StaleRefs, Stale
<1>2. ASSUME NEW r \in Runner, StaleRead(r) PROVE StaleRefs'
  BY <1>2, TypeStays, BoundFacts DEF StaleRead, rows, locks, Goto, ReadClock, TypeOK, Refs,
       RowsOK, LoopOK, LockRefs, StaleRefs, Stale
<1>3. ASSUME NEW r \in Runner, StaleMark(r) PROVE StaleRefs'
  BY <1>3, TypeStays, BoundFacts DEF StaleMark, rows, locks, Goto, EndRow,
       MarkSystemTaskLeaseExpired, TypeOK, Refs, RowsOK, LoopOK, LockRefs, StaleRefs, Stale
<1>4. ASSUME NEW r \in Runner, StaleDelete(r) PROVE StaleRefs'
  BY <1>4, TypeStays, BoundFacts DEF StaleDelete, rows, locks, Goto, DeleteLock, TypeOK,
       Refs, RowsOK, LoopOK, LockRefs, StaleRefs, Stale
<1>5. ASSUME NEW r \in Runner, StaleError(r) PROVE StaleRefs'
  BY <1>5, TypeStays, BoundFacts DEF StaleError, rows, locks, Goto, ReadClock, DbError,
       TypeOK, Refs, RowsOK, LoopOK, LockRefs, StaleRefs, Stale
<1>6. ASSUME NEW r \in Runner, StaleDone(r) PROVE StaleRefs'
  BY <1>6, TypeStays, BoundFacts DEF StaleDone, rows, locks, Goto, ReadClock, TypeOK, Refs,
       RowsOK, LoopOK, LockRefs, StaleRefs, Stale
<1>7. ASSUME NEW r \in Runner, PickPending(r) PROVE StaleRefs'
  BY <1>7, TypeStays, BoundFacts DEF PickPending, rows, locks, Goto, TypeOK, Refs, RowsOK,
       LoopOK, LockRefs, StaleRefs, Stale
<1>8. ASSUME NEW r \in Runner, ClaimSelect(r) PROVE StaleRefs'
  BY <1>8, TypeStays, BoundFacts DEF ClaimSelect, rows, locks, Goto, ReadClock, TypeOK, Refs,
       RowsOK, LoopOK, LockRefs, StaleRefs, Stale
<1>9. ASSUME NEW r \in Runner, ClaimPassDone(r) PROVE StaleRefs'
  BY <1>9, TypeStays, BoundFacts DEF ClaimPassDone, rows, locks, Goto, TypeOK, Refs, RowsOK,
       LoopOK, LockRefs, StaleRefs, Stale
<1>10. ASSUME NEW r \in Runner, LockInsert(r) PROVE StaleRefs'
  BY <1>10, TypeStays, BoundFacts DEF LockInsert, rows, locks, Goto, ReadClock, SetLock,
       TypeOK, Refs, RowsOK, LoopOK, LockRefs, StaleRefs, Stale
<1>11. ASSUME NEW r \in Runner, LockInspect(r) PROVE StaleRefs'
  BY <1>11, TypeStays, BoundFacts DEF LockInspect, rows, locks, Goto, ReadClock,
       ClaimReturns, TypeOK, Refs, RowsOK, LoopOK, LockRefs, StaleRefs, Stale
<1>12. ASSUME NEW r \in Runner, LockSteal(r) PROVE StaleRefs'
  BY <1>12, TypeStays, BoundFacts DEF LockSteal, rows, locks, Goto, ReadClock, ClaimReturns,
       SetLock, TypeOK, Refs, RowsOK, LoopOK, LockRefs, StaleRefs, Stale
<1>13. ASSUME NEW r \in Runner, ClaimMark(r) PROVE StaleRefs'
  BY <1>13, TypeStays, BoundFacts DEF ClaimMark, rows, locks, Goto, EndRow,
       MarkSystemTaskLeaseExpired, DbError, TypeOK, Refs, RowsOK, LoopOK, LockRefs,
       StaleRefs, Stale
<1>14. ASSUME NEW r \in Runner, ClaimUpdate(r) PROVE StaleRefs'
  BY <1>14, TypeStays, BoundFacts DEF ClaimUpdate, locks, Goto, ReadClock, ClaimReturns,
       DbError, Claimable, TypeOK, Refs, RowsOK, LoopOK, LockRefs, StaleRefs, Stale
<1>15. ASSUME NEW r \in Runner, ClaimUpdateMiss(r) PROVE StaleRefs'
  BY <1>15, TypeStays, BoundFacts DEF ClaimUpdateMiss, rows, locks, Goto, DbError, Claimable,
       TypeOK, Refs, RowsOK, LoopOK, LockRefs, StaleRefs, Stale
<1>16. ASSUME NEW r \in Runner, ClaimRelease(r) PROVE StaleRefs'
  BY <1>16, TypeStays, BoundFacts DEF ClaimRelease, rows, locks, Goto, ReadClock,
       ClaimReturns, DeleteLock, ReleaseSystemTaskLock, DbError, HoldsLock, TypeOK, Refs,
       RowsOK, LoopOK, LockRefs, StaleRefs, Stale
<1>17. ASSUME NEW r \in Runner, LoopStops(r) PROVE StaleRefs'
  BY <1>17, TypeStays, BoundFacts DEF LoopStops, rows, locks, Goto, TypeOK, Refs, RowsOK,
       LoopOK, LockRefs, StaleRefs, Stale
<1>18. ASSUME NEW r \in Runner, Crash(r) PROVE StaleRefs'
  BY <1>18, TypeStays, BoundFacts DEF Crash, rows, locks, TypeOK, Refs, RowsOK, LoopOK,
       LockRefs, StaleRefs, Stale
<1>19. ASSUME NEW r \in Runner, NEW t \in Task, RenewSystemTaskLock(r, t) PROVE StaleRefs'
  BY <1>19, TypeStays, BoundFacts DEF RenewSystemTaskLock, rows, loop, TypeOK, Refs, RowsOK,
       LoopOK, LockRefs, StaleRefs, Stale
<1>20. ASSUME NEW r \in Runner, NEW t \in Task, HeartbeatLost(r, t) PROVE StaleRefs'
  BY <1>20, TypeStays, BoundFacts DEF HeartbeatLost, rows, locks, loop, DbError, SetHandler,
       TypeOK, Refs, RowsOK, LoopOK, LockRefs, StaleRefs, Stale
<1>21. ASSUME NEW r \in Runner, NEW t \in Task, HandlerWriteLost(r, t) PROVE StaleRefs'
  BY <1>21, TypeStays, BoundFacts DEF HandlerWriteLost, rows, locks, loop, DbError,
       SetHandler, TypeOK, Refs, RowsOK, LoopOK, LockRefs, StaleRefs, Stale
<1>22. ASSUME NEW r \in Runner, NEW t \in Task, FinishSystemTask(r, t) PROVE StaleRefs'
  BY <1>22, TypeStays, BoundFacts DEF FinishSystemTask, locks, loop, EndRow, SetHandler,
       TypeOK, Refs, RowsOK, LoopOK, LockRefs, StaleRefs, Stale
<1>23. ASSUME NEW r \in Runner, NEW t \in Task, HandlerRelease(r, t) PROVE StaleRefs'
  BY <1>23, TypeStays, BoundFacts DEF HandlerRelease, rows, locks, loop, DeleteLock,
       ReleaseSystemTaskLock, DbError, SetHandler, HoldsLock, TypeOK, Refs, RowsOK, LoopOK,
       LockRefs, StaleRefs, Stale
<1>24. ASSUME Tick PROVE StaleRefs'
  BY <1>24, TypeStays, BoundFacts DEF Tick, rows, UsesClock, TypeOK, Refs, RowsOK, LoopOK,
       LockRefs, StaleRefs, Stale
<1> QED
  BY <1>1, <1>2, <1>3, <1>4, <1>5, <1>6, <1>7, <1>8, <1>9, <1>10, <1>11, <1>12, <1>13, <1>14,
       <1>15, <1>16, <1>17, <1>18, <1>19, <1>20, <1>21, <1>22, <1>23, <1>24 DEF Next,
       LoopStep, HandlerEnds

LEMMA LockRefsStep ==
    ASSUME TypeOK, Refs, Next
    PROVE  LockRefs'
<1>1. ASSUME \E k \in Key : Enqueue(k) PROVE LockRefs'
  BY <1>1, TypeStays DEF Enqueue, locks, loop, TypeOK, Refs, RowsOK, LoopOK, LocksOK,
       LockRefs, CurRefs, Claiming
<1>2. ASSUME NEW r \in Runner, StaleRead(r) PROVE LockRefs'
  BY <1>2, TypeStays DEF StaleRead, rows, locks, Goto, ReadClock, TypeOK, Refs, RowsOK,
       LoopOK, LocksOK, LockRefs, CurRefs, Claiming
<1>3. ASSUME NEW r \in Runner, StaleMark(r) PROVE LockRefs'
  BY <1>3, TypeStays DEF StaleMark, rows, locks, Goto, EndRow, MarkSystemTaskLeaseExpired,
       TypeOK, Refs, RowsOK, LoopOK, LocksOK, LockRefs, CurRefs, Claiming
<1>4. ASSUME NEW r \in Runner, StaleDelete(r) PROVE LockRefs'
  BY <1>4, TypeStays DEF StaleDelete, rows, locks, Goto, DeleteLock, TypeOK, Refs, RowsOK,
       LoopOK, LocksOK, LockRefs, CurRefs, Claiming
<1>5. ASSUME NEW r \in Runner, StaleError(r) PROVE LockRefs'
  BY <1>5, TypeStays DEF StaleError, rows, locks, Goto, ReadClock, DbError, TypeOK, Refs,
       RowsOK, LoopOK, LocksOK, LockRefs, CurRefs, Claiming
<1>6. ASSUME NEW r \in Runner, StaleDone(r) PROVE LockRefs'
  BY <1>6, TypeStays DEF StaleDone, rows, locks, Goto, ReadClock, TypeOK, Refs, RowsOK,
       LoopOK, LocksOK, LockRefs, CurRefs, Claiming
<1>7. ASSUME NEW r \in Runner, PickPending(r) PROVE LockRefs'
  BY <1>7, TypeStays DEF PickPending, rows, locks, Goto, TypeOK, Refs, RowsOK, LoopOK,
       LocksOK, LockRefs, CurRefs, Claiming
<1>8. ASSUME NEW r \in Runner, ClaimSelect(r) PROVE LockRefs'
  BY <1>8, TypeStays DEF ClaimSelect, rows, locks, Goto, ReadClock, TypeOK, Refs, RowsOK,
       LoopOK, LocksOK, LockRefs, CurRefs, Claiming
<1>9. ASSUME NEW r \in Runner, ClaimPassDone(r) PROVE LockRefs'
  BY <1>9, TypeStays DEF ClaimPassDone, rows, locks, Goto, TypeOK, Refs, RowsOK, LoopOK,
       LocksOK, LockRefs, CurRefs, Claiming
<1>10. ASSUME NEW r \in Runner, LockInsert(r) PROVE LockRefs'
  BY <1>10, TypeStays DEF LockInsert, rows, locks, Goto, ReadClock, SetLock, TypeOK, Refs,
       RowsOK, LoopOK, LocksOK, LockRefs, CurRefs, Claiming
<1>11. ASSUME NEW r \in Runner, LockInspect(r) PROVE LockRefs'
  BY <1>11, TypeStays DEF LockInspect, rows, locks, Goto, ReadClock, ClaimReturns, TypeOK,
       Refs, RowsOK, LoopOK, LocksOK, LockRefs, CurRefs, Claiming
<1>12. ASSUME NEW r \in Runner, LockSteal(r) PROVE LockRefs'
  BY <1>12, TypeStays DEF LockSteal, rows, locks, Goto, ReadClock, ClaimReturns, SetLock,
       TypeOK, Refs, RowsOK, LoopOK, LocksOK, LockRefs, CurRefs, Claiming
<1>13. ASSUME NEW r \in Runner, ClaimMark(r) PROVE LockRefs'
  BY <1>13, TypeStays DEF ClaimMark, rows, locks, Goto, EndRow, MarkSystemTaskLeaseExpired,
       DbError, TypeOK, Refs, RowsOK, LoopOK, LocksOK, LockRefs, CurRefs, Claiming
<1>14. ASSUME NEW r \in Runner, ClaimUpdate(r) PROVE LockRefs'
  BY <1>14, TypeStays DEF ClaimUpdate, locks, Goto, ReadClock, ClaimReturns, DbError,
       Claimable, TypeOK, Refs, RowsOK, LoopOK, LocksOK, LockRefs, CurRefs, Claiming
<1>15. ASSUME NEW r \in Runner, ClaimUpdateMiss(r) PROVE LockRefs'
  BY <1>15, TypeStays DEF ClaimUpdateMiss, rows, locks, Goto, DbError, Claimable, TypeOK,
       Refs, RowsOK, LoopOK, LocksOK, LockRefs, CurRefs, Claiming
<1>16. ASSUME NEW r \in Runner, ClaimRelease(r) PROVE LockRefs'
  BY <1>16, TypeStays DEF ClaimRelease, rows, locks, Goto, ReadClock, ClaimReturns,
       DeleteLock, ReleaseSystemTaskLock, DbError, HoldsLock, TypeOK, Refs, RowsOK, LoopOK,
       LocksOK, LockRefs, CurRefs, Claiming
<1>17. ASSUME NEW r \in Runner, LoopStops(r) PROVE LockRefs'
  BY <1>17, TypeStays DEF LoopStops, rows, locks, Goto, TypeOK, Refs, RowsOK, LoopOK,
       LocksOK, LockRefs, CurRefs, Claiming
<1>18. ASSUME NEW r \in Runner, Crash(r) PROVE LockRefs'
  BY <1>18, TypeStays DEF Crash, rows, locks, TypeOK, Refs, RowsOK, LoopOK, LocksOK,
       LockRefs, CurRefs, Claiming
<1>19. ASSUME NEW r \in Runner, NEW t \in Task, RenewSystemTaskLock(r, t) PROVE LockRefs'
  BY <1>19, TypeStays DEF RenewSystemTaskLock, rows, loop, TypeOK, Refs, RowsOK, LoopOK,
       LocksOK, LockRefs, CurRefs, Claiming
<1>20. ASSUME NEW r \in Runner, NEW t \in Task, HeartbeatLost(r, t) PROVE LockRefs'
  BY <1>20, TypeStays DEF HeartbeatLost, rows, locks, loop, DbError, SetHandler, TypeOK,
       Refs, RowsOK, LoopOK, LocksOK, LockRefs, CurRefs, Claiming
<1>21. ASSUME NEW r \in Runner, NEW t \in Task, HandlerWriteLost(r, t) PROVE LockRefs'
  BY <1>21, TypeStays DEF HandlerWriteLost, rows, locks, loop, DbError, SetHandler, TypeOK,
       Refs, RowsOK, LoopOK, LocksOK, LockRefs, CurRefs, Claiming
<1>22. ASSUME NEW r \in Runner, NEW t \in Task, FinishSystemTask(r, t) PROVE LockRefs'
  BY <1>22, TypeStays DEF FinishSystemTask, locks, loop, EndRow, SetHandler, TypeOK, Refs,
       RowsOK, LoopOK, LocksOK, LockRefs, CurRefs, Claiming
<1>23. ASSUME NEW r \in Runner, NEW t \in Task, HandlerRelease(r, t) PROVE LockRefs'
  BY <1>23, TypeStays DEF HandlerRelease, rows, locks, loop, DeleteLock,
       ReleaseSystemTaskLock, DbError, SetHandler, HoldsLock, TypeOK, Refs, RowsOK, LoopOK,
       LocksOK, LockRefs, CurRefs, Claiming
<1>24. ASSUME Tick PROVE LockRefs'
  BY <1>24, TypeStays DEF Tick, rows, UsesClock, TypeOK, Refs, RowsOK, LoopOK, LocksOK,
       LockRefs, CurRefs, Claiming
<1> QED
  BY <1>1, <1>2, <1>3, <1>4, <1>5, <1>6, <1>7, <1>8, <1>9, <1>10, <1>11, <1>12, <1>13, <1>14,
       <1>15, <1>16, <1>17, <1>18, <1>19, <1>20, <1>21, <1>22, <1>23, <1>24 DEF Next,
       LoopStep, HandlerEnds


-----------------------------------------------------------------------------
(* Handlers *)

LEMMA HandlerRefsStep ==
    ASSUME TypeOK, Refs, HandlerRefs, Next
    PROVE  HandlerRefs'
<1>1. ASSUME \E k \in Key : Enqueue(k) PROVE HandlerRefs'
  BY <1>1, TypeStays DEF Enqueue, locks, loop, TypeOK, Refs, RowsOK, LoopOK, HandlersOK,
       CurRefs, TodoRefs, HandlerRefs, Claiming
<1>2. ASSUME NEW r \in Runner, StaleRead(r) PROVE HandlerRefs'
  BY <1>2, TypeStays DEF StaleRead, rows, locks, Goto, ReadClock, TypeOK, Refs, RowsOK,
       LoopOK, HandlersOK, CurRefs, TodoRefs, HandlerRefs, Claiming
<1>3. ASSUME NEW r \in Runner, StaleMark(r) PROVE HandlerRefs'
  BY <1>3, TypeStays DEF StaleMark, rows, locks, Goto, EndRow, MarkSystemTaskLeaseExpired,
       TypeOK, Refs, RowsOK, LoopOK, HandlersOK, CurRefs, TodoRefs, HandlerRefs, Claiming
<1>4. ASSUME NEW r \in Runner, StaleDelete(r) PROVE HandlerRefs'
  BY <1>4, TypeStays DEF StaleDelete, rows, locks, Goto, DeleteLock, TypeOK, Refs, RowsOK,
       LoopOK, HandlersOK, CurRefs, TodoRefs, HandlerRefs, Claiming
<1>5. ASSUME NEW r \in Runner, StaleError(r) PROVE HandlerRefs'
  BY <1>5, TypeStays DEF StaleError, rows, locks, Goto, ReadClock, DbError, TypeOK, Refs,
       RowsOK, LoopOK, HandlersOK, CurRefs, TodoRefs, HandlerRefs, Claiming
<1>6. ASSUME NEW r \in Runner, StaleDone(r) PROVE HandlerRefs'
  BY <1>6, TypeStays DEF StaleDone, rows, locks, Goto, ReadClock, TypeOK, Refs, RowsOK,
       LoopOK, HandlersOK, CurRefs, TodoRefs, HandlerRefs, Claiming
<1>7. ASSUME NEW r \in Runner, PickPending(r) PROVE HandlerRefs'
  BY <1>7, TypeStays DEF PickPending, rows, locks, Goto, TypeOK, Refs, RowsOK, LoopOK,
       HandlersOK, CurRefs, TodoRefs, HandlerRefs, Claiming
<1>8. ASSUME NEW r \in Runner, ClaimSelect(r) PROVE HandlerRefs'
  <2>1. PICK t \in todo[r] :
            IF status[t] = "pending"
            THEN cur' = [cur EXCEPT ![r] = t] /\ pc' = [pc EXCEPT ![r] = "insert"]
            ELSE cur' = cur /\ pc' = pc
    BY <1>8 DEF ClaimSelect, Goto
  <2>2. t \in Task
    BY DEF TypeOK, LoopOK
  <2>3. UNCHANGED <<status, rowOwner, handler>>
    BY <1>8 DEF ClaimSelect, rows
  <2>4. CASE status[t] = "pending"
    <3>1. handler[r][t] = "none"
      BY <2>2, <2>4 DEF HandlerRefs
    <3> QED
      BY <2>1, <2>3, <2>4, <3>1 DEF HandlerRefs, TypeOK, LoopOK
  <2>5. CASE status[t] # "pending"
    BY <2>1, <2>3, <2>5 DEF HandlerRefs
  <2> QED
    BY <2>4, <2>5
<1>9. ASSUME NEW r \in Runner, ClaimPassDone(r) PROVE HandlerRefs'
  BY <1>9, TypeStays DEF ClaimPassDone, rows, locks, Goto, TypeOK, Refs, RowsOK, LoopOK,
       HandlersOK, CurRefs, TodoRefs, HandlerRefs, Claiming
<1>10. ASSUME NEW r \in Runner, LockInsert(r) PROVE HandlerRefs'
  BY <1>10, TypeStays DEF LockInsert, rows, locks, Goto, ReadClock, SetLock, TypeOK, Refs,
       RowsOK, LoopOK, HandlersOK, CurRefs, TodoRefs, HandlerRefs, Claiming
<1>11. ASSUME NEW r \in Runner, LockInspect(r) PROVE HandlerRefs'
  BY <1>11, TypeStays DEF LockInspect, rows, locks, Goto, ReadClock, ClaimReturns, TypeOK,
       Refs, RowsOK, LoopOK, HandlersOK, CurRefs, TodoRefs, HandlerRefs, Claiming
<1>12. ASSUME NEW r \in Runner, LockSteal(r) PROVE HandlerRefs'
  BY <1>12, TypeStays DEF LockSteal, rows, locks, Goto, ReadClock, ClaimReturns, SetLock,
       TypeOK, Refs, RowsOK, LoopOK, HandlersOK, CurRefs, TodoRefs, HandlerRefs, Claiming
<1>13. ASSUME NEW r \in Runner, ClaimMark(r) PROVE HandlerRefs'
  <2>1. UNCHANGED <<cur, handler, rowOwner>> /\ pc'[r] \in Claiming
    BY <1>13 DEF ClaimMark, rows, Goto, MarkSystemTaskLeaseExpired, EndRow, TypeOK, LoopOK,
       Claiming
  <2>2. \A s \in Runner : pc'[s] \in Claiming => pc[s] \in Claiming
    BY <1>13 DEF ClaimMark, Goto, TypeOK, LoopOK, Claiming
  <2>3. old[r] \in Task
    BY <1>13 DEF ClaimMark, Refs, OldRefs
  <2>4. \/ status' = status
        \/ status[old[r]] = "running" /\ status' = [status EXCEPT ![old[r]] = "failed"]
    BY <1>13 DEF ClaimMark, MarkSystemTaskLeaseExpired, EndRow, rows
  <2>5. \A t \in Task : \/ status'[t] = status[t]
                        \/ (status[t] = "running" /\ status'[t] = "failed")
    BY <2>3, <2>4 DEF TypeOK, RowsOK
  <2> QED
    BY <2>1, <2>2, <2>5 DEF HandlerRefs
<1>14. ASSUME NEW r \in Runner, ClaimUpdate(r) PROVE HandlerRefs'
  BY <1>14, TypeStays DEF ClaimUpdate, locks, Goto, ReadClock, ClaimReturns, DbError,
       Claimable, HoldsLease, HoldsLock, TypeOK, Refs, RowsOK, LoopOK, HandlersOK, CurRefs,
       TodoRefs, HandlerRefs, Claiming
<1>15. ASSUME NEW r \in Runner, ClaimUpdateMiss(r) PROVE HandlerRefs'
  BY <1>15, TypeStays DEF ClaimUpdateMiss, rows, locks, Goto, DbError, Claimable, TypeOK,
       Refs, RowsOK, LoopOK, HandlersOK, CurRefs, TodoRefs, HandlerRefs, Claiming
<1>16. ASSUME NEW r \in Runner, ClaimRelease(r) PROVE HandlerRefs'
  BY <1>16, TypeStays DEF ClaimRelease, rows, locks, Goto, ReadClock, ClaimReturns,
       DeleteLock, ReleaseSystemTaskLock, DbError, HoldsLock, TypeOK, Refs, RowsOK, LoopOK,
       HandlersOK, CurRefs, TodoRefs, HandlerRefs, Claiming
<1>17. ASSUME NEW r \in Runner, LoopStops(r) PROVE HandlerRefs'
  BY <1>17, TypeStays DEF LoopStops, rows, locks, Goto, TypeOK, Refs, RowsOK, LoopOK,
       HandlersOK, CurRefs, TodoRefs, HandlerRefs, Claiming
<1>18. ASSUME NEW r \in Runner, Crash(r) PROVE HandlerRefs'
  BY <1>18, TypeStays DEF Crash, rows, locks, TypeOK, Refs, RowsOK, LoopOK, HandlersOK,
       CurRefs, TodoRefs, HandlerRefs, Claiming
<1>19. ASSUME NEW r \in Runner, NEW t \in Task, RenewSystemTaskLock(r, t) PROVE HandlerRefs'
  BY <1>19, TypeStays DEF RenewSystemTaskLock, rows, loop, HoldsLease, HoldsLock, TypeOK,
       Refs, RowsOK, LoopOK, HandlersOK, CurRefs, TodoRefs, HandlerRefs, Claiming
<1>20. ASSUME NEW r \in Runner, NEW t \in Task, HeartbeatLost(r, t) PROVE HandlerRefs'
  BY <1>20, TypeStays DEF HeartbeatLost, rows, locks, loop, DbError, SetHandler, HoldsLease,
       HoldsLock, TypeOK, Refs, RowsOK, LoopOK, HandlersOK, CurRefs, TodoRefs, HandlerRefs,
       Claiming
<1>21. ASSUME NEW r \in Runner, NEW t \in Task, HandlerWriteLost(r, t) PROVE HandlerRefs'
  BY <1>21, TypeStays DEF HandlerWriteLost, rows, locks, loop, DbError, SetHandler, MayWrite,
       HoldsLease, HoldsLock, TypeOK, Refs, RowsOK, LoopOK, HandlersOK, CurRefs, TodoRefs,
       HandlerRefs, Claiming
<1>22. ASSUME NEW r \in Runner, NEW t \in Task, FinishSystemTask(r, t) PROVE HandlerRefs'
  BY <1>22, TypeStays DEF FinishSystemTask, locks, loop, EndRow, SetHandler, MayWrite,
       HoldsLease, HoldsLock, TypeOK, Refs, RowsOK, LoopOK, HandlersOK, CurRefs, TodoRefs,
       HandlerRefs, Claiming
<1>23. ASSUME NEW r \in Runner, NEW t \in Task, HandlerRelease(r, t) PROVE HandlerRefs'
  BY <1>23, TypeStays DEF HandlerRelease, rows, locks, loop, DeleteLock,
       ReleaseSystemTaskLock, DbError, SetHandler, HoldsLock, TypeOK, Refs, RowsOK, LoopOK,
       HandlersOK, CurRefs, TodoRefs, HandlerRefs, Claiming
<1>24. ASSUME Tick PROVE HandlerRefs'
  BY <1>24, TypeStays DEF Tick, rows, UsesClock, TypeOK, Refs, RowsOK, LoopOK, HandlersOK,
       CurRefs, TodoRefs, HandlerRefs, Claiming
<1> QED
  BY <1>1, <1>2, <1>3, <1>4, <1>5, <1>6, <1>7, <1>8, <1>9, <1>10, <1>11, <1>12, <1>13, <1>14,
       <1>15, <1>16, <1>17, <1>18, <1>19, <1>20, <1>21, <1>22, <1>23, <1>24 DEF Next,
       LoopStep, HandlerEnds

LEMMA KeyHeldStep ==
    ASSUME TypeOK, Refs, KeyHeldWhileActive, Next
    PROVE  KeyHeldWhileActive'
<1>1. ASSUME \E k \in Key : Enqueue(k) PROVE KeyHeldWhileActive'
  BY <1>1 DEF Enqueue, locks, loop, TypeOK, RowsOK, LoopOK, Refs, CurRefs, OldRefs,
       KeyHeldWhileActive, Claiming
<1>2. ASSUME NEW r \in Runner, StaleRead(r) PROVE KeyHeldWhileActive'
  BY <1>2 DEF StaleRead, rows, locks, Goto, ReadClock, TypeOK, RowsOK, LoopOK, Refs, CurRefs,
       OldRefs, KeyHeldWhileActive, Claiming
<1>3. ASSUME NEW r \in Runner, StaleMark(r) PROVE KeyHeldWhileActive'
  BY <1>3 DEF StaleMark, rows, locks, Goto, EndRow, MarkSystemTaskLeaseExpired, TypeOK,
       RowsOK, LoopOK, Refs, CurRefs, OldRefs, KeyHeldWhileActive, Claiming
<1>4. ASSUME NEW r \in Runner, StaleDelete(r) PROVE KeyHeldWhileActive'
  BY <1>4 DEF StaleDelete, rows, locks, Goto, DeleteLock, TypeOK, RowsOK, LoopOK, Refs,
       CurRefs, OldRefs, KeyHeldWhileActive, Claiming
<1>5. ASSUME NEW r \in Runner, StaleError(r) PROVE KeyHeldWhileActive'
  BY <1>5 DEF StaleError, rows, locks, Goto, ReadClock, DbError, TypeOK, RowsOK, LoopOK,
       Refs, CurRefs, OldRefs, KeyHeldWhileActive, Claiming
<1>6. ASSUME NEW r \in Runner, StaleDone(r) PROVE KeyHeldWhileActive'
  BY <1>6 DEF StaleDone, rows, locks, Goto, ReadClock, TypeOK, RowsOK, LoopOK, Refs, CurRefs,
       OldRefs, KeyHeldWhileActive, Claiming
<1>7. ASSUME NEW r \in Runner, PickPending(r) PROVE KeyHeldWhileActive'
  BY <1>7 DEF PickPending, rows, locks, Goto, TypeOK, RowsOK, LoopOK, Refs, CurRefs, OldRefs,
       KeyHeldWhileActive, Claiming
<1>8. ASSUME NEW r \in Runner, ClaimSelect(r) PROVE KeyHeldWhileActive'
  BY <1>8 DEF ClaimSelect, rows, locks, Goto, ReadClock, TypeOK, RowsOK, LoopOK, Refs,
       CurRefs, OldRefs, KeyHeldWhileActive, Claiming
<1>9. ASSUME NEW r \in Runner, ClaimPassDone(r) PROVE KeyHeldWhileActive'
  BY <1>9 DEF ClaimPassDone, rows, locks, Goto, TypeOK, RowsOK, LoopOK, Refs, CurRefs,
       OldRefs, KeyHeldWhileActive, Claiming
<1>10. ASSUME NEW r \in Runner, LockInsert(r) PROVE KeyHeldWhileActive'
  BY <1>10 DEF LockInsert, rows, locks, Goto, ReadClock, SetLock, TypeOK, RowsOK, LoopOK,
       Refs, CurRefs, OldRefs, KeyHeldWhileActive, Claiming
<1>11. ASSUME NEW r \in Runner, LockInspect(r) PROVE KeyHeldWhileActive'
  BY <1>11 DEF LockInspect, rows, locks, Goto, ReadClock, ClaimReturns, TypeOK, RowsOK,
       LoopOK, Refs, CurRefs, OldRefs, KeyHeldWhileActive, Claiming
<1>12. ASSUME NEW r \in Runner, LockSteal(r) PROVE KeyHeldWhileActive'
  BY <1>12 DEF LockSteal, rows, locks, Goto, ReadClock, ClaimReturns, SetLock, TypeOK,
       RowsOK, LoopOK, Refs, CurRefs, OldRefs, KeyHeldWhileActive, Claiming
<1>13. ASSUME NEW r \in Runner, ClaimMark(r) PROVE KeyHeldWhileActive'
  <2>1. old[r] \in Task
    BY <1>13 DEF ClaimMark, Refs, OldRefs
  <2>2. CASE UNCHANGED rows
    BY <2>2 DEF rows, KeyHeldWhileActive
  <2>3. CASE status[old[r]] = "running" /\ EndRow(old[r], "failed")
    BY <2>1, <2>3 DEF EndRow, KeyHeldWhileActive, TypeOK, RowsOK
  <2> QED
    BY <1>13, <2>2, <2>3 DEF ClaimMark, MarkSystemTaskLeaseExpired
<1>14. ASSUME NEW r \in Runner, ClaimUpdate(r) PROVE KeyHeldWhileActive'
  BY <1>14 DEF ClaimUpdate, locks, Goto, ReadClock, ClaimReturns, DbError, Claimable,
       HoldsLease, HoldsLock, TypeOK, RowsOK, LoopOK, Refs, CurRefs, OldRefs,
       KeyHeldWhileActive, Claiming
<1>15. ASSUME NEW r \in Runner, ClaimUpdateMiss(r) PROVE KeyHeldWhileActive'
  BY <1>15 DEF ClaimUpdateMiss, rows, locks, Goto, DbError, Claimable, TypeOK, RowsOK,
       LoopOK, Refs, CurRefs, OldRefs, KeyHeldWhileActive, Claiming
<1>16. ASSUME NEW r \in Runner, ClaimRelease(r) PROVE KeyHeldWhileActive'
  BY <1>16 DEF ClaimRelease, rows, locks, Goto, ReadClock, ClaimReturns, DeleteLock,
       ReleaseSystemTaskLock, DbError, HoldsLock, TypeOK, RowsOK, LoopOK, Refs, CurRefs,
       OldRefs, KeyHeldWhileActive, Claiming
<1>17. ASSUME NEW r \in Runner, LoopStops(r) PROVE KeyHeldWhileActive'
  BY <1>17 DEF LoopStops, rows, locks, Goto, TypeOK, RowsOK, LoopOK, Refs, CurRefs, OldRefs,
       KeyHeldWhileActive, Claiming
<1>18. ASSUME NEW r \in Runner, Crash(r) PROVE KeyHeldWhileActive'
  BY <1>18 DEF Crash, rows, locks, TypeOK, RowsOK, LoopOK, Refs, CurRefs, OldRefs,
       KeyHeldWhileActive, Claiming
<1>19. ASSUME NEW r \in Runner, NEW t \in Task, RenewSystemTaskLock(r, t) PROVE KeyHeldWhileActive'
  BY <1>19 DEF RenewSystemTaskLock, rows, loop, HoldsLease, HoldsLock, TypeOK, RowsOK,
       LoopOK, Refs, CurRefs, OldRefs, KeyHeldWhileActive, Claiming
<1>20. ASSUME NEW r \in Runner, NEW t \in Task, HeartbeatLost(r, t) PROVE KeyHeldWhileActive'
  BY <1>20 DEF HeartbeatLost, rows, locks, loop, DbError, SetHandler, HoldsLease, HoldsLock,
       TypeOK, RowsOK, LoopOK, Refs, CurRefs, OldRefs, KeyHeldWhileActive, Claiming
<1>21. ASSUME NEW r \in Runner, NEW t \in Task, HandlerWriteLost(r, t) PROVE KeyHeldWhileActive'
  BY <1>21 DEF HandlerWriteLost, rows, locks, loop, DbError, SetHandler, MayWrite,
       HoldsLease, HoldsLock, TypeOK, RowsOK, LoopOK, Refs, CurRefs, OldRefs,
       KeyHeldWhileActive, Claiming
<1>22. ASSUME NEW r \in Runner, NEW t \in Task, FinishSystemTask(r, t) PROVE KeyHeldWhileActive'
  BY <1>22 DEF FinishSystemTask, locks, loop, EndRow, SetHandler, MayWrite, HoldsLease,
       HoldsLock, TypeOK, RowsOK, LoopOK, Refs, CurRefs, OldRefs, KeyHeldWhileActive,
       Claiming
<1>23. ASSUME NEW r \in Runner, NEW t \in Task, HandlerRelease(r, t) PROVE KeyHeldWhileActive'
  BY <1>23 DEF HandlerRelease, rows, locks, loop, DeleteLock, ReleaseSystemTaskLock, DbError,
       SetHandler, HoldsLock, TypeOK, RowsOK, LoopOK, Refs, CurRefs, OldRefs,
       KeyHeldWhileActive, Claiming
<1>24. ASSUME Tick PROVE KeyHeldWhileActive'
  BY <1>24 DEF Tick, rows, UsesClock, TypeOK, RowsOK, LoopOK, Refs, CurRefs, OldRefs,
       KeyHeldWhileActive, Claiming
<1> QED
  BY <1>1, <1>2, <1>3, <1>4, <1>5, <1>6, <1>7, <1>8, <1>9, <1>10, <1>11, <1>12, <1>13, <1>14,
       <1>15, <1>16, <1>17, <1>18, <1>19, <1>20, <1>21, <1>22, <1>23, <1>24 DEF Next,
       LoopStep, HandlerEnds

-----------------------------------------------------------------------------
(* Theorems *)

IInv == TypeOK /\ Refs /\ HandlerRefs /\ KeyHeldWhileActive

LEMMA InitIInv == Init => IInv
<1> SUFFICES ASSUME Init PROVE IInv
  OBVIOUS
<1>1. (CHOOSE k \in Key : TRUE) \in Key
  BY KeyTypeAssumption
<1>2. TypeOK
  BY <1>1, BoundFacts DEF Init, TypeOK, RowsOK, LocksOK, LoopOK, HandlersOK, PC
<1>3. Refs
  BY BoundFacts DEF Init, Refs, CurRefs, OldRefs, TodoRefs, StaleRefs, LockRefs, Claiming
<1>4. HandlerRefs /\ KeyHeldWhileActive
  BY DEF Init, HandlerRefs, KeyHeldWhileActive, Claiming
<1> QED
  BY <1>2, <1>3, <1>4 DEF IInv

LEMMA NextIInv == IInv /\ [Next]_vars => IInv'
<1> SUFFICES ASSUME IInv, [Next]_vars PROVE IInv'
  OBVIOUS
<1>1. CASE Next
  <2>1. CurTyped
    BY DEF IInv, Refs, CurRefs, CurTyped
  <2> QED
    BY <1>1, <2>1, TypeStep, CurRefsStep, OldRefsStep, TodoRefsStep, StaleRefsStep,
       LockRefsStep, HandlerRefsStep, KeyHeldStep DEF IInv, Refs
<1>2. CASE UNCHANGED vars
  BY <1>2 DEF vars, rows, locks, loop, IInv, TypeOK, RowsOK, LocksOK, LoopOK, HandlersOK,
       Refs, CurRefs, OldRefs, TodoRefs, StaleRefs, LockRefs, HandlerRefs,
       KeyHeldWhileActive, TypeOf, Claiming
<1> QED
  BY <1>1, <1>2

LEMMA SpecIInv == Spec => []IInv
BY InitIInv, NextIInv, PTL DEF Spec

\* Type correctness, for any number of nodes, types, keys and rows.
THEOREM TypeCorrect == Spec => []TypeOK
<1>1. IInv => TypeOK
  BY DEF IInv
<1> QED
  BY <1>1, SpecIInv, PTL

\* Select, lease and UPDATE together hand a row to one handler only: a handler exists only
\* on the node the row names in locked_by, and that column is written once.
THEOREM DispatchedOnceTheorem == Spec => []DispatchedOnce
<1>1. IInv => DispatchedOnce
  BY DEF IInv, HandlerRefs, DispatchedOnce
<1> QED
  BY <1>1, SpecIInv, PTL

\* An active key is held by one active row, and by active rows only.
THEOREM KeyHeldTheorem == Spec => []KeyHeldWhileActive
<1>1. IInv => KeyHeldWhileActive
  BY DEF IInv
<1> QED
  BY <1>1, SpecIInv, PTL

=============================================================================

-------------------------- MODULE AsyncImageProofs --------------------------
(***************************************************************************)
(* Proofs about AsyncImage, for any tasks, workers, amounts and bounds.    *)
(*                                                                         *)
(* The inductive invariant IInv adds two facts to the properties proved.   *)
(* AbsentUnbilled: what is not inserted is not billed, so that creating a  *)
(* task starts a new charge.  OwnedReserved: a worker that generates and   *)
(* still owns the lease works on an open reservation; it is what fences    *)
(* the upstream call, since a worker claims from a list of candidates that *)
(* may be out of date and re-checks the row only once.                     *)
(*                                                                         *)
(* FundsConserved is then about sums (SumTheorems).  GeneratesAlone and    *)
(* AttemptsCounted have invariants of their own: TakenUpExists, LeaseHeld  *)
(* and SeenIsCurrent, near the end.                                        *)
(*                                                                         *)
(* Each inductive step has one step per action of Next.                    *)
(***************************************************************************)
EXTENDS AsyncImage, SumTheorems

LEMMA GotoType ==
    ASSUME TypeOK, NEW w \in Worker, NEW t \in Task, NEW p \in PC, Goto(w, t, p)
    PROVE  pc' \in [Worker -> [Task -> PC]]
BY DEF TypeOK, WorkOK, Goto

LEMMA GotoElsewhere ==
    ASSUME TypeOK, NEW w \in Worker, NEW t \in Task, NEW p \in PC, Goto(w, t, p)
    PROVE  \A v \in Worker, u \in Task :
               pc'[v][u] = IF v = w /\ u = t THEN p ELSE pc[v][u]
BY DEF TypeOK, WorkOK, Goto

LEMMA QuotaNat ==
    ASSUME TypeOK, NEW t \in Task
    PROVE  reserved[t] \in Nat /\ actual[t] \in Nat
<1>1. reserved[t] \in ReserveQuota \union {0} /\ actual[t] \in ActualQuota \union {0}
  BY DEF TypeOK, RowOK
<1>2. \A q \in ReserveQuota \union ActualQuota : q \in Nat
  BY QuotaAssumption
<1>3. 0 \in Nat
  OBVIOUS
<1> QED
  BY <1>1, <1>2, <1>3

LEMMA ClearType ==
    ASSUME TypeOK, NEW t \in Task, ClearLease(t)
    PROVE  LeaseOK'
BY DEF TypeOK, LeaseOK, ClearLease

LEMMA AdjustType ==
    ASSUME TypeOK, NEW t \in Task, NEW d \in Int, CanAdjust(t, d), Adjust(t, d)
    PROVE  FundsOK'
<1>1. TokenShare(d) \in Int
  BY DEF TokenShare
<1>2. wallet \in Nat /\ subUsed \in Nat /\ token \in Nat /\ SubTotal \in Nat /\ TokenQuota \in Nat
  BY QuotaAssumption DEF TypeOK, FundsOK
<1>3. token' \in 0..TokenQuota
  BY <1>1, <1>2 DEF CanAdjust, Adjust
<1>4. CASE source[t] = "subscription"
  <2>1. subUsed' \in 0..SubTotal /\ wallet' = wallet
    BY <1>4 DEF CanAdjust, Adjust
  <2> QED
    BY <1>2, <1>3, <2>1 DEF FundsOK
<1>5. CASE source[t] # "subscription"
  <2>1. wallet' = wallet - d /\ wallet - d >= 0 /\ subUsed' = subUsed
    BY <1>5 DEF CanAdjust, Adjust
  <2>2. wallet' \in Nat
    BY <2>1, <1>2
  <2> QED
    BY <1>3, <2>1, <2>2 DEF FundsOK, TypeOK
<1> QED
  BY <1>4, <1>5

LEMMA OutcomeType ==
    ASSUME TypeOK, NEW w \in Worker, NEW t \in Task,
           NEW o \in {"available", "archiving", "failed"}, NEW n \in Nat,
           NEW isDue \in BOOLEAN, ArchiveOutcome(w, t, o, n, isDue)
    PROVE  TypeOK'
<1>1. UNCHANGED <<status, billing, source, reserved, actual, manifest, wallet, subUsed, token,
                  cand, seen, tries, stalls, faults, resets, periods>>
  BY DEF ArchiveOutcome, funds, counts
<1>2. pc' \in [Worker -> [Task -> PC]]
  BY GotoType DEF ArchiveOutcome, PC
<1>3. LeaseOK'
  BY ClearType DEF ArchiveOutcome, lease, TypeOK, LeaseOK
<1>4. /\ output' \in [Task -> {"pending", "archiving", "available", "expired", "failed"}]
      /\ attempts' \in [Task -> Nat]
      /\ due' \in [Task -> BOOLEAN]
  BY DEF ArchiveOutcome, TypeOK, RowOK
<1> QED
  BY <1>1, <1>2, <1>3, <1>4 DEF TypeOK, RowOK, FundsOK, WorkOK, CountsOK

-----------------------------------------------------------------------------
(* Type correctness *)

LEMMA TypeStep == TypeOK /\ Next => TypeOK'
<1> SUFFICES ASSUME TypeOK, Next PROVE TypeOK'
  OBVIOUS
<1>1. ASSUME NEW w \in Worker, ClaimSelect(w) PROVE TypeOK'
  BY <1>1 DEF ClaimSelect, row, lease, funds, work, counts,
     TypeOK, RowOK, LeaseOK, FundsOK, WorkOK, CountsOK
<1>2. ASSUME NEW w \in Worker, HandlerReturns(w) PROVE TypeOK'
  BY <1>2 DEF HandlerReturns, Release, row, lease, funds, work, counts,
     TypeOK, RowOK, LeaseOK, FundsOK, WorkOK, CountsOK, PC, AtWork
<1>3. ASSUME NEW w \in Worker, Crash(w) PROVE TypeOK'
  BY BoundAssumption, <1>3 DEF Crash, Release, row, lease, funds, work, counts,
     TypeOK, RowOK, LeaseOK, FundsOK, WorkOK, CountsOK, PC, AtWork
<1>4. ASSUME NEW w \in Worker, NEW t \in Task, ClaimUpdate(w, t) PROVE TypeOK'
  <2>1. pc' \in [Worker -> [Task -> PC]]
    BY <1>4, GotoType DEF ClaimUpdate, PC, AtWork, TypeOK, WorkOK
  <2>2. LeaseOK' /\ cand' \in [Worker -> SUBSET Task]
    BY <1>4 DEF ClaimUpdate, TypeOK, LeaseOK, WorkOK
  <2>3. UNCHANGED <<row, funds, seen, tries, counts>>
    BY <1>4 DEF ClaimUpdate
  <2> QED
    BY <2>1, <2>2, <2>3 DEF row, funds, counts, TypeOK, RowOK, FundsOK, WorkOK, CountsOK
<1>5. ASSUME NEW w \in Worker, NEW t \in Task, ClaimRead(w, t) PROVE TypeOK'
  <2>1. pc' \in [Worker -> [Task -> PC]]
    BY <1>5, GotoType DEF ClaimRead, PC, AtWork
  <2>2. seen' \in [Worker -> [Task -> Nat]]
    BY <1>5 DEF ClaimRead, TypeOK, RowOK, WorkOK
  <2>3. UNCHANGED <<row, lease, funds, cand, tries, counts>>
    BY <1>5 DEF ClaimRead
  <2> QED
    BY <2>1, <2>2, <2>3 DEF row, lease, funds, counts, TypeOK, RowOK, LeaseOK, FundsOK, WorkOK,
       CountsOK
<1>6. ASSUME NEW w \in Worker, NEW t \in Task, ScheduleAsyncImageGenerationRetry(w, t)
      PROVE  TypeOK'
  <2>1. pc' \in [Worker -> [Task -> PC]]
    BY <1>6, GotoType DEF ScheduleAsyncImageGenerationRetry, PC
  <2>2. LeaseOK'
    BY <1>6, ClearType DEF ScheduleAsyncImageGenerationRetry, lease, TypeOK, LeaseOK
  <2>3. due' \in [Task -> BOOLEAN]
    BY <1>6 DEF ScheduleAsyncImageGenerationRetry, TypeOK, RowOK
  <2>4. UNCHANGED <<status, output, billing, source, reserved, actual, manifest, attempts,
                    funds, cand, seen, tries, counts>>
    BY <1>6 DEF ScheduleAsyncImageGenerationRetry
  <2> QED
    BY <2>1, <2>2, <2>3, <2>4 DEF funds, counts, TypeOK, RowOK, FundsOK, WorkOK, CountsOK
<1>7. ASSUME NEW w \in Worker, NEW t \in Task, MarkAsyncImageTaskRunning(w, t) PROVE TypeOK'
  <2>1. pc' \in [Worker -> [Task -> PC]]
    BY <1>7, GotoType DEF MarkAsyncImageTaskRunning, PC, AtWork
  <2>2. status' \in [Task -> {"absent", "queued", "running", "succeeded", "failed"}]
    BY <1>7 DEF MarkAsyncImageTaskRunning, TypeOK, RowOK
  <2>4. tries' \in [Worker -> [Task -> 0..RetryTimes]]
    BY <1>7, BoundAssumption DEF MarkAsyncImageTaskRunning, TypeOK, WorkOK
  <2>3. UNCHANGED <<output, billing, source, reserved, actual, manifest, attempts, due,
                    lease, funds, cand, seen, counts>>
    BY <1>7 DEF MarkAsyncImageTaskRunning
  <2> QED
    BY <2>1, <2>2, <2>3, <2>4 DEF lease, funds, counts, TypeOK, RowOK, LeaseOK, FundsOK, WorkOK,
       CountsOK
<1>8. ASSUME NEW w \in Worker, NEW t \in Task, CallUpstream(w, t) PROVE TypeOK'
  BY <1>8 DEF CallUpstream, Goto, row, lease, funds, work, counts,
     TypeOK, RowOK, LeaseOK, FundsOK, WorkOK, CountsOK, PC, AtWork
<1>8a. ASSUME NEW w \in Worker, NEW t \in Task, UpdateAsyncImageTaskWithLease(w, t) PROVE TypeOK'
  BY <1>8a DEF UpdateAsyncImageTaskWithLease, MayCall, Goto, row, lease, funds, work, counts,
     TypeOK, RowOK, LeaseOK, FundsOK, WorkOK, CountsOK, PC, AtWork
<1>9. ASSUME NEW w \in Worker, NEW t \in Task, CannotCall(w, t) PROVE TypeOK'
  BY <1>9 DEF CannotCall, Goto, row, lease, funds, work, counts,
     TypeOK, RowOK, LeaseOK, FundsOK, WorkOK, CountsOK, PC, AtWork
<1>10. ASSUME NEW w \in Worker, NEW t \in Task, RetryUpstream(w, t) PROVE TypeOK'
  BY BoundAssumption, <1>10 DEF RetryUpstream, Goto, row, lease, funds, work, counts,
     TypeOK, RowOK, LeaseOK, FundsOK, WorkOK, CountsOK, PC, AtWork
<1>11. ASSUME NEW w \in Worker, NEW t \in Task, UpstreamReturns(w, t) PROVE TypeOK'
  BY <1>11 DEF UpstreamReturns, Goto, row, lease, funds, work, counts,
     TypeOK, RowOK, LeaseOK, FundsOK, WorkOK, CountsOK, PC, AtWork
<1>12. ASSUME NEW w \in Worker, NEW t \in Task, RefundAsyncImageBilling(w, t) PROVE TypeOK'
  <2>1. pc' \in [Worker -> [Task -> PC]]
    BY <1>12, GotoType DEF RefundAsyncImageBilling, PC
  <2>2. FundsOK'
    <3>1. -reserved[t] \in Int
      BY QuotaNat
    <3> QED
      BY <1>12, <3>1, AdjustType DEF RefundAsyncImageBilling, funds, TypeOK, FundsOK
  <2>3. LeaseOK'
    BY <1>12, ClearType DEF RefundAsyncImageBilling, lease, TypeOK, LeaseOK
  <2>4. /\ status' \in [Task -> {"absent", "queued", "running", "succeeded", "failed"}]
        /\ output' \in [Task -> {"pending", "archiving", "available", "expired", "failed"}]
        /\ billing' \in [Task -> {"none", "reserved", "settled", "refunded"}]
    BY <1>12 DEF RefundAsyncImageBilling, TypeOK, RowOK
  <2>5. UNCHANGED <<source, reserved, actual, manifest, attempts, due, cand, seen, tries,
     counts>>
    BY <1>12 DEF RefundAsyncImageBilling
  <2> QED
    BY <2>1, <2>2, <2>3, <2>4, <2>5 DEF counts, TypeOK, RowOK, WorkOK, CountsOK
<1>13. ASSUME NEW w \in Worker, NEW t \in Task, CompleteAsyncImageGeneration(w, t) PROVE TypeOK'
  <2>1. PICK q \in ActualQuota :
            IF /\ owner[t] = w /\ billing[t] = "reserved" /\ status[t] = "running"
               /\ CanAdjust(t, q - reserved[t])
            THEN /\ SettleWith(t, q)
                 /\ output' = [output EXCEPT ![t] = "archiving"]
                 /\ manifest' = [manifest EXCEPT ![t] = TRUE]
            ELSE UNCHANGED <<status, output, billing, actual, manifest, funds>>
    BY <1>13 DEF CompleteAsyncImageGeneration
  <2>2. pc' \in [Worker -> [Task -> PC]]
    <3>1. \E p \in {"settled", "done"} : Goto(w, t, p)
      BY <1>13 DEF CompleteAsyncImageGeneration
    <3> QED
      BY <3>1, GotoType DEF PC, AtWork
  <2>3. FundsOK'
    <3>1. q - reserved[t] \in Int
      BY QuotaNat, QuotaAssumption
    <3> QED
      BY <2>1, <3>1, AdjustType DEF SettleWith, funds, TypeOK, FundsOK
  <2>4. /\ status' \in [Task -> {"absent", "queued", "running", "succeeded", "failed"}]
        /\ output' \in [Task -> {"pending", "archiving", "available", "expired", "failed"}]
        /\ billing' \in [Task -> {"none", "reserved", "settled", "refunded"}]
        /\ actual' \in [Task -> ActualQuota \union {0}]
    BY <2>1 DEF SettleWith, TypeOK, RowOK
  <2>6. manifest' \in [Task -> BOOLEAN]
    BY <2>1 DEF TypeOK, RowOK
  <2>5. UNCHANGED <<source, reserved, attempts, due, lease, cand, seen, tries, counts>>
    BY <1>13 DEF CompleteAsyncImageGeneration
  <2> QED
    BY <2>2, <2>3, <2>4, <2>5, <2>6 DEF lease, counts, TypeOK, RowOK, LeaseOK, WorkOK, CountsOK
<1>14. ASSUME NEW w \in Worker, NEW t \in Task, CompleteWithArchiveFailure(w, t) PROVE TypeOK'
  <2>1. PICK q \in ActualQuota :
            IF owner[t] = w /\ billing[t] = "reserved" /\ CanAdjust(t, q - reserved[t])
            THEN /\ SettleWith(t, q)
                 /\ output' = [output EXCEPT ![t] = "failed"]
                 /\ ClearLease(t)
            ELSE UNCHANGED <<status, output, billing, actual, lease, funds>>
    BY <1>14 DEF CompleteWithArchiveFailure
  <2>2. pc' \in [Worker -> [Task -> PC]]
    BY <1>14, GotoType DEF CompleteWithArchiveFailure, PC
  <2>3. FundsOK'
    <3>1. q - reserved[t] \in Int
      BY QuotaNat, QuotaAssumption
    <3> QED
      BY <2>1, <3>1, AdjustType DEF SettleWith, funds, TypeOK, FundsOK
  <2>4. LeaseOK'
    BY <2>1, ClearType DEF lease, TypeOK, LeaseOK
  <2>5. /\ status' \in [Task -> {"absent", "queued", "running", "succeeded", "failed"}]
        /\ output' \in [Task -> {"pending", "archiving", "available", "expired", "failed"}]
        /\ billing' \in [Task -> {"none", "reserved", "settled", "refunded"}]
        /\ actual' \in [Task -> ActualQuota \union {0}]
    BY <2>1 DEF SettleWith, TypeOK, RowOK
  <2>6. UNCHANGED <<source, reserved, manifest, attempts, due, cand, seen, tries, counts>>
    BY <1>14 DEF CompleteWithArchiveFailure
  <2> QED
    BY <2>2, <2>3, <2>4, <2>5, <2>6 DEF counts, TypeOK, RowOK, WorkOK, CountsOK
<1>15. ASSUME NEW w \in Worker, NEW t \in Task, ReadSettled(w, t) PROVE TypeOK'
  BY <1>15 DEF ReadSettled, Goto, row, lease, funds, work, counts,
     TypeOK, RowOK, LeaseOK, FundsOK, WorkOK, CountsOK, PC, AtWork
<1>16. ASSUME NEW w \in Worker, NEW t \in Task, MarkAsyncImageOutputAvailable(w, t)
       PROVE  TypeOK'
  <2>1. attempts[t] \in Nat /\ due[t] \in BOOLEAN
    BY DEF TypeOK, RowOK
  <2> QED
    BY <1>16, <2>1, OutcomeType DEF MarkAsyncImageOutputAvailable
<1>17. ASSUME NEW w \in Worker, NEW t \in Task, ScheduleAsyncImageArchiveRetry(w, t)
       PROVE  TypeOK'
  <2>1. seen[w][t] + 1 \in Nat
    BY DEF TypeOK, WorkOK
  <2> QED
    BY <1>17, <2>1, OutcomeType DEF ScheduleAsyncImageArchiveRetry
<1>18. ASSUME NEW w \in Worker, NEW t \in Task, FailAsyncImageArchive(w, t) PROVE TypeOK'
  <2>1. seen[w][t] + 1 \in Nat /\ due[t] \in BOOLEAN
    BY DEF TypeOK, RowOK, WorkOK
  <2> QED
    BY <1>18, <2>1, OutcomeType DEF FailAsyncImageArchive
<1>19. ASSUME NEW w \in Worker, NEW t \in Task, GivesUp(w, t) PROVE TypeOK'
  BY BoundAssumption, <1>19 DEF GivesUp, Goto, AtWork, row, lease, funds, work, counts,
     TypeOK, RowOK, LeaseOK, FundsOK, WorkOK, CountsOK, PC, AtWork
<1>20. ASSUME NEW t \in Task, CreateAsyncImageTaskWithReservation(t) PROVE TypeOK'
  <2>1. PICK q \in ReserveQuota, s \in {"wallet", "subscription"} :
            /\ IF q = 0 THEN s = "wallet" ELSE \E p \in Preference : Pays(p, s, q)
            /\ TokenShare(q) <= token
            /\ source' = [source EXCEPT ![t] = s]
            /\ reserved' = [reserved EXCEPT ![t] = q]
            /\ wallet' = (IF s = "wallet" THEN wallet - q ELSE wallet)
            /\ subUsed' = (IF s = "subscription" THEN subUsed + q ELSE subUsed)
            /\ token' = token - TokenShare(q)
    BY <1>20 DEF CreateAsyncImageTaskWithReservation
  <2>2. /\ q \in Nat /\ wallet \in Nat /\ subUsed \in 0..SubTotal /\ token \in 0..TokenQuota
        /\ SubTotal \in Nat /\ TokenQuota \in Nat
    BY QuotaAssumption DEF TypeOK, FundsOK
  <2>3. s = "wallet" => q <= wallet
    BY <2>1, <2>2 DEF Pays, WalletPays
  <2>4. s = "subscription" => q <= SubTotal - subUsed
    BY <2>1 DEF Pays, SubscriptionPays
  <2>5. token' \in 0..TokenQuota
    <3>1. TokenShare(q) \in Nat /\ TokenShare(q) <= token
      BY <2>1, <2>2 DEF TokenShare
    <3> QED
      BY <2>1, <2>2, <3>1
  <2>6. wallet' \in Nat
    BY <2>1, <2>2, <2>3
  <2>7. subUsed' \in 0..SubTotal
    BY <2>1, <2>2, <2>4
  <2>8. /\ source' \in [Task -> {"wallet", "subscription"}]
        /\ reserved' \in [Task -> ReserveQuota \union {0}]
        /\ status' \in [Task -> {"absent", "queued", "running", "succeeded", "failed"}]
        /\ billing' \in [Task -> {"none", "reserved", "settled", "refunded"}]
    BY <1>20, <2>1 DEF CreateAsyncImageTaskWithReservation, TypeOK, RowOK
  <2>9. UNCHANGED <<output, actual, manifest, attempts, due, lease, work, counts>>
    BY <1>20 DEF CreateAsyncImageTaskWithReservation
  <2> QED
    BY <2>5, <2>6, <2>7, <2>8, <2>9
       DEF lease, work, counts, TypeOK, RowOK, LeaseOK, FundsOK, WorkOK, CountsOK
<1>21. ASSUME NEW t \in Task, LeaseRunsOut(t) PROVE TypeOK'
  BY BoundAssumption, <1>21 DEF LeaseRunsOut, row, lease, funds, work, counts,
     TypeOK, RowOK, LeaseOK, FundsOK, WorkOK, CountsOK
<1>22. ASSUME NEW t \in Task, BecomesDue(t) PROVE TypeOK'
  BY <1>22 DEF BecomesDue, row, lease, funds, work, counts,
     TypeOK, RowOK, LeaseOK, FundsOK, WorkOK, CountsOK
<1>23. ASSUME NEW t \in Task, ResetAsyncImageArchiveForRetry(t) PROVE TypeOK'
  BY BoundAssumption, <1>23 DEF ResetAsyncImageArchiveForRetry, ClearLease, row, lease, funds,
     work, counts,
     TypeOK, RowOK, LeaseOK, FundsOK, WorkOK, CountsOK
<1>24. ASSUME NEW t \in Task, MarkExpiredAsyncImageTask(t) PROVE TypeOK'
  BY <1>24 DEF MarkExpiredAsyncImageTask, row, lease, funds, work, counts,
     TypeOK, RowOK, LeaseOK, FundsOK, WorkOK, CountsOK
<1>25. ASSUME ResetSubscription PROVE TypeOK'
  BY BoundAssumption, QuotaAssumption, <1>25 DEF ResetSubscription, row, lease, funds, work,
     counts,
     TypeOK, RowOK, LeaseOK, FundsOK, WorkOK, CountsOK
<1> QED
  BY <1>1, <1>2, <1>3, <1>4, <1>5, <1>6, <1>7, <1>8, <1>8a, <1>9, <1>10, <1>11, <1>12, <1>13,
     <1>14, <1>15, <1>16, <1>17, <1>18, <1>19, <1>20, <1>21, <1>22, <1>23, <1>24, <1>25
     DEF Next, WorkerStep, Generate, Archive

-----------------------------------------------------------------------------
(* Status and billing *)

\* A row that was not inserted yet is not billed.
AbsentUnbilled == \A t \in Task : status[t] = "absent" => billing[t] = "none"

LEMMA StatusStep ==
    TypeOK /\ StatusMatchesBilling /\ AbsentUnbilled /\ Next
       => (StatusMatchesBilling /\ AbsentUnbilled)'
<1> SUFFICES ASSUME TypeOK, StatusMatchesBilling, AbsentUnbilled, Next
             PROVE  (StatusMatchesBilling /\ AbsentUnbilled)'
  OBVIOUS
<1>1. ASSUME NEW w \in Worker, ClaimSelect(w) PROVE (StatusMatchesBilling /\ AbsentUnbilled)'
  BY <1>1 DEF ClaimSelect, row, StatusMatchesBilling, AbsentUnbilled
<1>2. ASSUME NEW w \in Worker, HandlerReturns(w) PROVE (StatusMatchesBilling /\ AbsentUnbilled)'
  BY <1>2 DEF HandlerReturns, row, StatusMatchesBilling, AbsentUnbilled
<1>3. ASSUME NEW w \in Worker, Crash(w) PROVE (StatusMatchesBilling /\ AbsentUnbilled)'
  BY <1>3 DEF Crash, row, StatusMatchesBilling, AbsentUnbilled
<1>4. ASSUME NEW w \in Worker, NEW t \in Task, ClaimUpdate(w, t)
      PROVE  (StatusMatchesBilling /\ AbsentUnbilled)'
  BY <1>4 DEF ClaimUpdate, row, StatusMatchesBilling, AbsentUnbilled
<1>5. ASSUME NEW w \in Worker, NEW t \in Task, ClaimRead(w, t)
      PROVE  (StatusMatchesBilling /\ AbsentUnbilled)'
  BY <1>5 DEF ClaimRead, row, StatusMatchesBilling, AbsentUnbilled
<1>6. ASSUME NEW w \in Worker, NEW t \in Task, ScheduleAsyncImageGenerationRetry(w, t)
      PROVE  (StatusMatchesBilling /\ AbsentUnbilled)'
  BY <1>6 DEF ScheduleAsyncImageGenerationRetry, row, StatusMatchesBilling, AbsentUnbilled
<1>7. ASSUME NEW w \in Worker, NEW t \in Task, MarkAsyncImageTaskRunning(w, t)
      PROVE  (StatusMatchesBilling /\ AbsentUnbilled)'
  BY <1>7 DEF MarkAsyncImageTaskRunning, MayRun, At, TypeOK, RowOK, StatusMatchesBilling,
     AbsentUnbilled
<1>8. ASSUME NEW w \in Worker, NEW t \in Task, CallUpstream(w, t)
      PROVE  (StatusMatchesBilling /\ AbsentUnbilled)'
  BY <1>8 DEF CallUpstream, row, StatusMatchesBilling, AbsentUnbilled
<1>8a. ASSUME NEW w \in Worker, NEW t \in Task, UpdateAsyncImageTaskWithLease(w, t)
      PROVE  (StatusMatchesBilling /\ AbsentUnbilled)'
  BY <1>8a DEF UpdateAsyncImageTaskWithLease, MayCall, row, StatusMatchesBilling, AbsentUnbilled
<1>9. ASSUME NEW w \in Worker, NEW t \in Task, CannotCall(w, t)
      PROVE  (StatusMatchesBilling /\ AbsentUnbilled)'
  BY <1>9 DEF CannotCall, row, StatusMatchesBilling, AbsentUnbilled
<1>10. ASSUME NEW w \in Worker, NEW t \in Task, RetryUpstream(w, t)
       PROVE  (StatusMatchesBilling /\ AbsentUnbilled)'
  BY <1>10 DEF RetryUpstream, row, StatusMatchesBilling, AbsentUnbilled
<1>11. ASSUME NEW w \in Worker, NEW t \in Task, UpstreamReturns(w, t)
       PROVE  (StatusMatchesBilling /\ AbsentUnbilled)'
  BY <1>11 DEF UpstreamReturns, row, StatusMatchesBilling, AbsentUnbilled
<1>12. ASSUME NEW w \in Worker, NEW t \in Task, RefundAsyncImageBilling(w, t)
       PROVE  (StatusMatchesBilling /\ AbsentUnbilled)'
  BY <1>12 DEF RefundAsyncImageBilling, MayRefund, At, TypeOK, RowOK, StatusMatchesBilling,
     AbsentUnbilled
<1>13. ASSUME NEW w \in Worker, NEW t \in Task, CompleteAsyncImageGeneration(w, t)
       PROVE  (StatusMatchesBilling /\ AbsentUnbilled)'
  BY <1>13 DEF CompleteAsyncImageGeneration, SettleWith, TypeOK, RowOK, StatusMatchesBilling,
     AbsentUnbilled
<1>14. ASSUME NEW w \in Worker, NEW t \in Task, CompleteWithArchiveFailure(w, t)
       PROVE  (StatusMatchesBilling /\ AbsentUnbilled)'
  BY <1>14 DEF CompleteWithArchiveFailure, SettleWith, TypeOK, RowOK, StatusMatchesBilling,
     AbsentUnbilled
<1>15. ASSUME NEW w \in Worker, NEW t \in Task, ReadSettled(w, t)
       PROVE  (StatusMatchesBilling /\ AbsentUnbilled)'
  BY <1>15 DEF ReadSettled, row, StatusMatchesBilling, AbsentUnbilled
<1>16. ASSUME NEW w \in Worker, NEW t \in Task, MarkAsyncImageOutputAvailable(w, t)
       PROVE  (StatusMatchesBilling /\ AbsentUnbilled)'
  BY <1>16 DEF MarkAsyncImageOutputAvailable, ArchiveOutcome, MayArchive, TypeOK, RowOK,
     StatusMatchesBilling, AbsentUnbilled
<1>17. ASSUME NEW w \in Worker, NEW t \in Task, ScheduleAsyncImageArchiveRetry(w, t)
       PROVE  (StatusMatchesBilling /\ AbsentUnbilled)'
  BY <1>17 DEF ScheduleAsyncImageArchiveRetry, ArchiveOutcome, MayArchive, TypeOK, RowOK,
     StatusMatchesBilling, AbsentUnbilled
<1>18. ASSUME NEW w \in Worker, NEW t \in Task, FailAsyncImageArchive(w, t)
       PROVE  (StatusMatchesBilling /\ AbsentUnbilled)'
  BY <1>18 DEF FailAsyncImageArchive, ArchiveOutcome, MayArchive, TypeOK, RowOK,
     StatusMatchesBilling, AbsentUnbilled
<1>19. ASSUME NEW w \in Worker, NEW t \in Task, GivesUp(w, t)
       PROVE  (StatusMatchesBilling /\ AbsentUnbilled)'
  BY <1>19 DEF GivesUp, row, StatusMatchesBilling, AbsentUnbilled
<1>20. ASSUME NEW t \in Task, CreateAsyncImageTaskWithReservation(t)
       PROVE  (StatusMatchesBilling /\ AbsentUnbilled)'
  BY <1>20 DEF CreateAsyncImageTaskWithReservation, TypeOK, RowOK, StatusMatchesBilling,
     AbsentUnbilled
<1>21. ASSUME NEW t \in Task, LeaseRunsOut(t) PROVE (StatusMatchesBilling /\ AbsentUnbilled)'
  BY <1>21 DEF LeaseRunsOut, row, StatusMatchesBilling, AbsentUnbilled
<1>22. ASSUME NEW t \in Task, BecomesDue(t) PROVE (StatusMatchesBilling /\ AbsentUnbilled)'
  BY <1>22 DEF BecomesDue, row, StatusMatchesBilling, AbsentUnbilled
<1>23. ASSUME NEW t \in Task, ResetAsyncImageArchiveForRetry(t)
       PROVE  (StatusMatchesBilling /\ AbsentUnbilled)'
  BY <1>23 DEF ResetAsyncImageArchiveForRetry, TypeOK, RowOK, StatusMatchesBilling,
     AbsentUnbilled
<1>24. ASSUME NEW t \in Task, MarkExpiredAsyncImageTask(t)
       PROVE  (StatusMatchesBilling /\ AbsentUnbilled)'
  BY <1>24 DEF MarkExpiredAsyncImageTask, TypeOK, RowOK, StatusMatchesBilling, AbsentUnbilled
<1>25. ASSUME ResetSubscription PROVE (StatusMatchesBilling /\ AbsentUnbilled)'
  BY <1>25 DEF ResetSubscription, row, StatusMatchesBilling, AbsentUnbilled
<1> QED
  BY <1>1, <1>2, <1>3, <1>4, <1>5, <1>6, <1>7, <1>8, <1>8a, <1>9, <1>10, <1>11, <1>12, <1>13,
     <1>14, <1>15, <1>16, <1>17, <1>18, <1>19, <1>20, <1>21, <1>22, <1>23, <1>24, <1>25
     DEF Next, WorkerStep, Generate, Archive

-----------------------------------------------------------------------------
(* The lease and billing *)

\* A worker that generates and owns the lease works on a reservation that is still open:
\* whoever settles or refunds either is that worker or takes the lease away.
OwnedReserved ==
    \A w \in Worker, t \in Task :
        owner[t] = w /\ pc[w][t] \in Generating => billing[t] = "reserved"

LEMMA OwnedStep == TypeOK /\ OwnedReserved /\ Next => OwnedReserved'
<1> SUFFICES ASSUME TypeOK, OwnedReserved, Next PROVE OwnedReserved'
  OBVIOUS
<1>1. ASSUME NEW w \in Worker, ClaimSelect(w) PROVE OwnedReserved'
  BY <1>1, OwnerAssumption DEF ClaimSelect, At, row, lease, work,
     TypeOK, RowOK, LeaseOK, WorkOK, OwnedReserved, Generating
<1>2. ASSUME NEW w \in Worker, HandlerReturns(w) PROVE OwnedReserved'
  BY <1>2, OwnerAssumption DEF HandlerReturns, Release, At, row, lease, work,
     TypeOK, RowOK, LeaseOK, WorkOK, OwnedReserved, Generating
<1>3. ASSUME NEW w \in Worker, Crash(w) PROVE OwnedReserved'
  BY <1>3, OwnerAssumption DEF Crash, Release, At, row, lease, work,
     TypeOK, RowOK, LeaseOK, WorkOK, OwnedReserved, Generating
<1>4. ASSUME NEW w \in Worker, NEW t \in Task, ClaimUpdate(w, t) PROVE OwnedReserved'
  <2>1. billing' = billing
    BY <1>4 DEF ClaimUpdate, row
  <2>2. CASE Leasable(t)
    <3>1. \A v \in Worker, u \in Task :
              pc'[v][u] = IF v = w /\ u = t THEN "claimed" ELSE pc[v][u]
      BY <1>4, <2>2, GotoElsewhere DEF ClaimUpdate, PC, AtWork
    <3>2. \A u \in Task : owner'[u] = IF u = t THEN w ELSE owner[u]
      BY <1>4, <2>2 DEF ClaimUpdate, TypeOK, LeaseOK
    <3> QED
      BY <2>1, <3>1, <3>2 DEF OwnedReserved, Generating
  <2>3. CASE ~Leasable(t)
    BY <1>4, <2>1, <2>3 DEF ClaimUpdate, OwnedReserved
  <2> QED
    BY <2>2, <2>3
<1>5. ASSUME NEW w \in Worker, NEW t \in Task, ClaimRead(w, t) PROVE OwnedReserved'
  <2>1. UNCHANGED <<billing, owner>>
    BY <1>5 DEF ClaimRead, row, lease
  <2>2. \E p \in {"archive", "generate"} : Goto(w, t, p)
    BY <1>5 DEF ClaimRead
  <2>3. \A v \in Worker, u \in Task : pc'[v][u] \in Generating => pc'[v][u] = pc[v][u]
    BY <2>2, GotoElsewhere DEF PC, AtWork, Generating
  <2> QED
    BY <2>1, <2>3 DEF OwnedReserved
<1>6. ASSUME NEW w \in Worker, NEW t \in Task, ScheduleAsyncImageGenerationRetry(w, t)
      PROVE  OwnedReserved'
  BY <1>6, OwnerAssumption DEF ScheduleAsyncImageGenerationRetry, ClearLease, Goto, At, row,
     lease, work,
     TypeOK, RowOK, LeaseOK, WorkOK, OwnedReserved, Generating
<1>7. ASSUME NEW w \in Worker, NEW t \in Task, MarkAsyncImageTaskRunning(w, t)
      PROVE  OwnedReserved'
  <2>1. UNCHANGED <<billing, owner>>
    BY <1>7 DEF MarkAsyncImageTaskRunning, lease
  <2>2. CASE MayRun(w, t)
    <3>1. \A v \in Worker, u \in Task :
              pc'[v][u] = IF v = w /\ u = t THEN "call" ELSE pc[v][u]
      BY <1>7, <2>2, GotoElsewhere DEF MarkAsyncImageTaskRunning, PC, AtWork
    <3> QED
      BY <2>1, <2>2, <3>1 DEF MayRun, OwnedReserved
  <2>3. CASE ~MayRun(w, t)
    <3>1. \A v \in Worker, u \in Task :
              pc'[v][u] = IF v = w /\ u = t THEN "done" ELSE pc[v][u]
      BY <1>7, <2>3, GotoElsewhere DEF MarkAsyncImageTaskRunning, PC
    <3> QED
      BY <2>1, <3>1 DEF OwnedReserved, Generating
  <2> QED
    BY <2>2, <2>3
<1>8. ASSUME NEW w \in Worker, NEW t \in Task, CallUpstream(w, t) PROVE OwnedReserved'
  BY <1>8, OwnerAssumption DEF CallUpstream, Goto, At, row, lease, work,
     TypeOK, RowOK, LeaseOK, WorkOK, OwnedReserved, Generating
<1>8a. ASSUME NEW w \in Worker, NEW t \in Task, UpdateAsyncImageTaskWithLease(w, t) PROVE OwnedReserved'
  BY <1>8a, OwnerAssumption DEF UpdateAsyncImageTaskWithLease, MayCall, Goto, At, row, lease, work,
     TypeOK, RowOK, LeaseOK, WorkOK, OwnedReserved, Generating
<1>9. ASSUME NEW w \in Worker, NEW t \in Task, CannotCall(w, t) PROVE OwnedReserved'
  BY <1>9, OwnerAssumption DEF CannotCall, Goto, At, row, lease, work,
     TypeOK, RowOK, LeaseOK, WorkOK, OwnedReserved, Generating
<1>10. ASSUME NEW w \in Worker, NEW t \in Task, RetryUpstream(w, t) PROVE OwnedReserved'
  BY <1>10, OwnerAssumption DEF RetryUpstream, Goto, At, row, lease, work,
     TypeOK, RowOK, LeaseOK, WorkOK, OwnedReserved, Generating
<1>11. ASSUME NEW w \in Worker, NEW t \in Task, UpstreamReturns(w, t) PROVE OwnedReserved'
  BY <1>11, OwnerAssumption DEF UpstreamReturns, Goto, At, row, lease, work,
     TypeOK, RowOK, LeaseOK, WorkOK, OwnedReserved, Generating
<1>12. ASSUME NEW w \in Worker, NEW t \in Task, RefundAsyncImageBilling(w, t)
       PROVE  OwnedReserved'
  BY <1>12, OwnerAssumption DEF RefundAsyncImageBilling, ClearLease, Goto, Adjust, CanAdjust,
     MayRefund, At, row, lease, work,
     TypeOK, RowOK, LeaseOK, WorkOK, OwnedReserved, Generating
<1>13. ASSUME NEW w \in Worker, NEW t \in Task, CompleteAsyncImageGeneration(w, t)
       PROVE  OwnedReserved'
  BY <1>13, OwnerAssumption DEF CompleteAsyncImageGeneration, SettleWith, Goto, Adjust,
     CanAdjust, At, row, lease, work,
     TypeOK, RowOK, LeaseOK, WorkOK, OwnedReserved, Generating
<1>14. ASSUME NEW w \in Worker, NEW t \in Task, CompleteWithArchiveFailure(w, t)
       PROVE  OwnedReserved'
  BY <1>14, OwnerAssumption DEF CompleteWithArchiveFailure, SettleWith, ClearLease, Goto,
     Adjust, CanAdjust, At, row, lease, work,
     TypeOK, RowOK, LeaseOK, WorkOK, OwnedReserved, Generating
<1>15. ASSUME NEW w \in Worker, NEW t \in Task, ReadSettled(w, t) PROVE OwnedReserved'
  BY <1>15, OwnerAssumption DEF ReadSettled, Goto, At, row, lease, work,
     TypeOK, RowOK, LeaseOK, WorkOK, OwnedReserved, Generating
<1>16. ASSUME NEW w \in Worker, NEW t \in Task, MarkAsyncImageOutputAvailable(w, t)
       PROVE  OwnedReserved'
  BY <1>16, OwnerAssumption DEF MarkAsyncImageOutputAvailable, ArchiveOutcome, ClearLease,
     Goto, MayArchive, At, row, lease, work,
     TypeOK, RowOK, LeaseOK, WorkOK, OwnedReserved, Generating
<1>17. ASSUME NEW w \in Worker, NEW t \in Task, ScheduleAsyncImageArchiveRetry(w, t)
       PROVE  OwnedReserved'
  BY <1>17, OwnerAssumption DEF ScheduleAsyncImageArchiveRetry, ArchiveOutcome, ClearLease,
     Goto, MayArchive, At, row, lease, work,
     TypeOK, RowOK, LeaseOK, WorkOK, OwnedReserved, Generating
<1>18. ASSUME NEW w \in Worker, NEW t \in Task, FailAsyncImageArchive(w, t) PROVE OwnedReserved'
  BY <1>18, OwnerAssumption DEF FailAsyncImageArchive, ArchiveOutcome, ClearLease, Goto,
     MayArchive, At, row, lease, work,
     TypeOK, RowOK, LeaseOK, WorkOK, OwnedReserved, Generating
<1>19. ASSUME NEW w \in Worker, NEW t \in Task, GivesUp(w, t) PROVE OwnedReserved'
  BY <1>19, OwnerAssumption DEF GivesUp, Goto, AtWork, At, row, lease, work,
     TypeOK, RowOK, LeaseOK, WorkOK, OwnedReserved, Generating
<1>20. ASSUME NEW t \in Task, CreateAsyncImageTaskWithReservation(t) PROVE OwnedReserved'
  BY <1>20, OwnerAssumption DEF CreateAsyncImageTaskWithReservation, At, row, lease, work,
     TypeOK, RowOK, LeaseOK, WorkOK, OwnedReserved, Generating
<1>21. ASSUME NEW t \in Task, LeaseRunsOut(t) PROVE OwnedReserved'
  BY <1>21, OwnerAssumption DEF LeaseRunsOut, At, row, lease, work,
     TypeOK, RowOK, LeaseOK, WorkOK, OwnedReserved, Generating
<1>22. ASSUME NEW t \in Task, BecomesDue(t) PROVE OwnedReserved'
  BY <1>22, OwnerAssumption DEF BecomesDue, At, row, lease, work,
     TypeOK, RowOK, LeaseOK, WorkOK, OwnedReserved, Generating
<1>23. ASSUME NEW t \in Task, ResetAsyncImageArchiveForRetry(t) PROVE OwnedReserved'
  BY <1>23, OwnerAssumption DEF ResetAsyncImageArchiveForRetry, ClearLease, At, row, lease,
     work,
     TypeOK, RowOK, LeaseOK, WorkOK, OwnedReserved, Generating
<1>24. ASSUME NEW t \in Task, MarkExpiredAsyncImageTask(t) PROVE OwnedReserved'
  BY <1>24, OwnerAssumption DEF MarkExpiredAsyncImageTask, At, row, lease, work,
     TypeOK, RowOK, LeaseOK, WorkOK, OwnedReserved, Generating
<1>25. ASSUME ResetSubscription PROVE OwnedReserved'
  BY <1>25, OwnerAssumption DEF ResetSubscription, At, row, lease, work,
     TypeOK, RowOK, LeaseOK, WorkOK, OwnedReserved, Generating
<1> QED
  BY <1>1, <1>2, <1>3, <1>4, <1>5, <1>6, <1>7, <1>8, <1>8a, <1>9, <1>10, <1>11, <1>12, <1>13,
     <1>14, <1>15, <1>16, <1>17, <1>18, <1>19, <1>20, <1>21, <1>22, <1>23, <1>24, <1>25
     DEF Next, WorkerStep, Generate, Archive

-----------------------------------------------------------------------------
(* The ledger *)

\* A step that leaves billing and funds alone is no step of the ledger.
LEMMA LedgerStutters ==
    ASSUME UNCHANGED <<billing, source, reserved, actual, wallet, subUsed, token>>
    PROVE  UNCHANGED Ledger!ledgerVars
<1>1. Holds' = Holds
  BY DEF Holds, Held, Part, TokenShare
<1>2. Balances' = Balances
  BY DEF Balances, Left
<1> QED
  BY <1>1, <1>2 DEF Ledger!ledgerVars

\* A charge is rebooked when nothing but what it holds changes, from h to k, and its
\* source and the token bear the difference.
LEMMA Rebooked ==
    ASSUME TypeOK, FundsOK', NEW t \in Task, NEW h \in Nat, NEW k \in Nat,
           NEW s \in {"wallet", "subscription"},
           h = Held(t), h = 0 \/ s = source[t],
           Holds' = [Holds EXCEPT ![t] = [a \in Accounts |-> Part(s, k, a)]],
           wallet' = (IF s = "wallet" THEN wallet - (k - h) ELSE wallet),
           subUsed' = (IF s = "subscription" THEN subUsed + (k - h) ELSE subUsed),
           token' = token - TokenShare(k - h)
    PROVE  Ledger!Rebook(t, [a \in Accounts |-> Part(s, k, a)])
<1> DEFINE q == [a \in Accounts |-> Part(s, k, a)]
<1>1. wallet \in Int /\ subUsed \in Int /\ token \in Int /\ SubTotal \in Int
  BY QuotaAssumption DEF TypeOK, FundsOK
<1>2. \A a \in Accounts : Holds[t][a] = Part(s, h, a)
  BY DEF Holds, Part, TokenShare
<1>3. Balances' = [a \in Accounts |-> Balances[a] + Holds[t][a] - q[a]]
  <2>1. ASSUME NEW a \in Accounts
        PROVE  Balances'[a] = Balances[a] + Part(s, h, a) - Part(s, k, a)
    <3>1. CASE a = "token"
      BY <1>1, <3>1 DEF Balances, Left, Part, TokenShare
    <3>2. CASE a = "wallet"
      BY <1>1, <3>2 DEF Balances, Left, Part
    <3>3. CASE a = "subscription"
      BY <1>1, <3>3 DEF Balances, Left, Part
    <3> QED
      BY <3>1, <3>2, <3>3 DEF Accounts
  <2>2. Balances' = [a \in Accounts |-> Balances'[a]]
    BY DEF Balances
  <2> QED
    BY <1>2, <2>1, <2>2
<1>4. \A a \in Accounts : Balances'[a] >= 0
  BY QuotaAssumption DEF FundsOK, Balances, Left, Accounts
<1> QED
  BY <1>3, <1>4 DEF Ledger!Rebook

Amounts == ReserveQuota \union ActualQuota \union {0}

\* Creating a task reserves its charge.
LEMMA Reserved ==
    ASSUME TypeOK, FundsOK', AbsentUnbilled, NEW t \in Task,
           CreateAsyncImageTaskWithReservation(t)
    PROVE  Ledger!Reserve(t)
<1>1. PICK q \in ReserveQuota, s \in {"wallet", "subscription"} :
          /\ source' = [source EXCEPT ![t] = s]
          /\ reserved' = [reserved EXCEPT ![t] = q]
          /\ wallet' = (IF s = "wallet" THEN wallet - q ELSE wallet)
          /\ subUsed' = (IF s = "subscription" THEN subUsed + q ELSE subUsed)
          /\ token' = token - TokenShare(q)
  BY DEF CreateAsyncImageTaskWithReservation
<1>2. billing[t] = "none" /\ billing' = [billing EXCEPT ![t] = "reserved"] /\ actual' = actual
  BY DEF CreateAsyncImageTaskWithReservation, AbsentUnbilled
<1>3. q \in Nat /\ Held(t) = 0 /\ q - 0 = q
  <2>1. q \in Nat
    BY QuotaAssumption
  <2>2. Held(t) = 0
    BY <1>2 DEF Held
  <2> QED
    BY <2>1, <2>2
<1>4. Holds' = [Holds EXCEPT ![t] = [a \in Accounts |-> Part(s, q, a)]]
  <2>1. /\ billing \in [Task -> {"none", "reserved", "settled", "refunded"}]
        /\ DOMAIN source = Task /\ DOMAIN reserved = Task /\ DOMAIN actual = Task
    BY DEF TypeOK, RowOK
  <2>2. ASSUME NEW u \in Task, u # t
        PROVE  Holds'[u] = Holds[u]
    BY <1>1, <1>2, <2>1, <2>2 DEF Holds, Held
  <2>3. Holds'[t] = [a \in Accounts |-> Part(s, q, a)]
    BY <1>1, <1>2, <2>1 DEF Holds, Held
  <2>4. Holds' = [u \in Task |-> Holds'[u]] /\ Holds = [u \in Task |-> Holds[u]]
    BY DEF Holds
  <2> QED
    BY <2>2, <2>3, <2>4
<1>5. Ledger!Rebook(t, [a \in Accounts |-> Part(s, q, a)])
  <2> DEFINE h == 0
  <2>1. h \in Nat /\ h = Held(t)
    BY <1>3
  <2>2. /\ wallet' = (IF s = "wallet" THEN wallet - (q - h) ELSE wallet)
        /\ subUsed' = (IF s = "subscription" THEN subUsed + (q - h) ELSE subUsed)
        /\ token' = token - TokenShare(q - h)
    BY <1>1, <1>3
  <2> QED
    BY <1>3, <1>4, <2>1, <2>2, Rebooked
<1>6. [a \in Accounts |-> Part(s, q, a)] \in [Accounts -> Amounts]
  BY DEF Part, TokenShare, Amounts
<1>7. Ledger!Move(t, "none", "reserved")
  BY <1>2 DEF Ledger!Move
<1> QED
  BY <1>5, <1>6, <1>7 DEF Ledger!Reserve, Amounts

\* A settlement, of either kind, settles the charge for its cost.
LEMMA Settled ==
    ASSUME TypeOK, FundsOK', NEW t \in Task, NEW q \in ActualQuota, billing[t] = "reserved",
           SettleWith(t, q), source' = source, reserved' = reserved
    PROVE  Ledger!Settle(t)
<1> DEFINE s == source[t]
<1>1. s \in {"wallet", "subscription"}
  BY DEF TypeOK, RowOK
<1>2. q \in Nat /\ reserved[t] \in Nat /\ reserved[t] = Held(t)
  BY QuotaNat, QuotaAssumption DEF Held
<1>3. Holds' = [Holds EXCEPT ![t] = [a \in Accounts |-> Part(s, q, a)]]
  <2>1. /\ billing \in [Task -> {"none", "reserved", "settled", "refunded"}]
        /\ DOMAIN source = Task /\ DOMAIN reserved = Task /\ DOMAIN actual = Task
    BY DEF TypeOK, RowOK
  <2>2. ASSUME NEW u \in Task, u # t
        PROVE  Holds'[u] = Holds[u]
    BY <2>1, <2>2 DEF SettleWith, Holds, Held
  <2>3. Holds'[t] = [a \in Accounts |-> Part(s, q, a)]
    BY <2>1 DEF SettleWith, Holds, Held
  <2>4. Holds' = [u \in Task |-> Holds'[u]] /\ Holds = [u \in Task |-> Holds[u]]
    BY DEF Holds
  <2> QED
    BY <2>2, <2>3, <2>4
<1>4. Ledger!Rebook(t, [a \in Accounts |-> Part(s, q, a)])
  <2>1. /\ wallet' = (IF s = "wallet" THEN wallet - (q - reserved[t]) ELSE wallet)
        /\ subUsed' = (IF s = "subscription" THEN subUsed + (q - reserved[t]) ELSE subUsed)
        /\ token' = token - TokenShare(q - reserved[t])
    BY <1>1 DEF SettleWith, Adjust
  <2> HIDE DEF s
  <2>2. s = source[t]
    BY DEF s
  <2> QED
    BY <1>1, <1>2, <1>3, <2>1, <2>2, Rebooked
<1>5. [a \in Accounts |-> Part(s, q, a)] \in [Accounts -> Amounts]
  BY DEF Part, TokenShare, Amounts
<1>6. Ledger!Move(t, "reserved", "settled")
  BY DEF SettleWith, Ledger!Move
<1> QED
  BY <1>4, <1>5, <1>6 DEF Ledger!Settle, Amounts

\* A refund refunds the charge in full.
LEMMA Refunded ==
    ASSUME TypeOK, FundsOK', NEW t \in Task, billing[t] = "reserved",
           Adjust(t, -reserved[t]), billing' = [billing EXCEPT ![t] = "refunded"],
           source' = source, reserved' = reserved, actual' = actual
    PROVE  Ledger!Refund(t)
<1> DEFINE s == source[t]
<1>1. s \in {"wallet", "subscription"}
  BY DEF TypeOK, RowOK
<1>2. reserved[t] \in Nat /\ reserved[t] = Held(t) /\ 0 - reserved[t] = -reserved[t]
  BY QuotaNat DEF Held
<1>3. [a \in Accounts |-> Part(s, 0, a)] = Ledger!Nothing
  BY DEF Part, TokenShare, Ledger!Nothing
<1>4. Holds' = [Holds EXCEPT ![t] = [a \in Accounts |-> Part(s, 0, a)]]
  <2>1. /\ billing \in [Task -> {"none", "reserved", "settled", "refunded"}]
        /\ DOMAIN source = Task /\ DOMAIN reserved = Task /\ DOMAIN actual = Task
    BY DEF TypeOK, RowOK
  <2>2. ASSUME NEW u \in Task, u # t
        PROVE  Holds'[u] = Holds[u]
    BY <2>1, <2>2 DEF Holds, Held
  <2>3. Holds'[t] = [a \in Accounts |-> Part(s, 0, a)]
    BY <2>1 DEF Holds, Held
  <2>4. Holds' = [u \in Task |-> Holds'[u]] /\ Holds = [u \in Task |-> Holds[u]]
    BY DEF Holds
  <2> QED
    BY <2>2, <2>3, <2>4
<1>5. Ledger!Rebook(t, [a \in Accounts |-> Part(s, 0, a)])
  <2>1. /\ wallet' = (IF s = "wallet" THEN wallet - (0 - reserved[t]) ELSE wallet)
        /\ subUsed' = (IF s = "subscription" THEN subUsed + (0 - reserved[t]) ELSE subUsed)
        /\ token' = token - TokenShare(0 - reserved[t])
    BY <1>1, <1>2 DEF Adjust
  <2> HIDE DEF s
  <2>2. s = source[t] /\ 0 \in Nat
    BY DEF s
  <2> QED
    BY <1>1, <1>2, <1>4, <2>1, <2>2, Rebooked
<1>6. Ledger!Move(t, "reserved", "refunded")
  BY DEF Ledger!Move
<1> QED
  BY <1>3, <1>5, <1>6 DEF Ledger!Refund

\* The end of a quota period renews the subscription.
LEMMA Renewed ==
    ASSUME ResetSubscription
    PROVE  Ledger!Renew("subscription")
<1>1. UNCHANGED <<billing, source, reserved, actual, wallet, token>> /\ subUsed' = 0
  BY DEF ResetSubscription, row
<1>2. Holds' = Holds
  BY <1>1 DEF Holds, Held, Part, TokenShare
<1>3. SubTotal - 0 = SubTotal
  BY QuotaAssumption
<1>4. Balances' = [Balances EXCEPT !["subscription"] = SubTotal]
  <2>1. \A a \in Accounts :
            Left(a)' = IF a = "subscription" THEN SubTotal ELSE Left(a)
    BY <1>1, <1>3 DEF Left, Accounts
  <2>2. Balances' = [a \in Accounts |-> Left(a)']
    BY DEF Balances, Accounts
  <2> QED
    BY <2>1, <2>2 DEF Balances
<1> QED
  BY <1>1, <1>2, <1>4 DEF Ledger!Renew, Accounts, Granted

\* What a step does to the ledger: nothing, or it books one charge, or a period ends.
LedgerMoves ==
    \/ UNCHANGED Ledger!ledgerVars
    \/ \E t \in Task : Ledger!Reserve(t) \/ Ledger!Settle(t) \/ Ledger!Refund(t)
    \/ ResetSubscription /\ Ledger!Renew("subscription")

LEMMA LedgerStep ==
    ASSUME TypeOK, AbsentUnbilled, Next
    PROVE  LedgerMoves
<1> USE DEF LedgerMoves
<1>a. FundsOK'
  BY TypeStep DEF TypeOK
<1>1. ASSUME NEW w \in Worker, ClaimSelect(w) PROVE LedgerMoves
  BY <1>1, LedgerStutters DEF ClaimSelect, row, funds
<1>2. ASSUME NEW w \in Worker, HandlerReturns(w) PROVE LedgerMoves
  BY <1>2, LedgerStutters DEF HandlerReturns, row, funds
<1>3. ASSUME NEW w \in Worker, Crash(w) PROVE LedgerMoves
  BY <1>3, LedgerStutters DEF Crash, row, funds
<1>4. ASSUME NEW w \in Worker, NEW t \in Task, ClaimUpdate(w, t) PROVE LedgerMoves
  BY <1>4, LedgerStutters DEF ClaimUpdate, row, funds
<1>5. ASSUME NEW w \in Worker, NEW t \in Task, ClaimRead(w, t) PROVE LedgerMoves
  BY <1>5, LedgerStutters DEF ClaimRead, row, funds
<1>6. ASSUME NEW w \in Worker, NEW t \in Task, ScheduleAsyncImageGenerationRetry(w, t)
      PROVE  LedgerMoves
  BY <1>6, LedgerStutters DEF ScheduleAsyncImageGenerationRetry, row, funds
<1>7. ASSUME NEW w \in Worker, NEW t \in Task, MarkAsyncImageTaskRunning(w, t) PROVE LedgerMoves
  BY <1>7, LedgerStutters DEF MarkAsyncImageTaskRunning, row, funds
<1>8. ASSUME NEW w \in Worker, NEW t \in Task, CallUpstream(w, t) PROVE LedgerMoves
  BY <1>8, LedgerStutters DEF CallUpstream, row, funds
<1>8a. ASSUME NEW w \in Worker, NEW t \in Task, UpdateAsyncImageTaskWithLease(w, t) PROVE LedgerMoves
  BY <1>8a, LedgerStutters DEF UpdateAsyncImageTaskWithLease, MayCall, row, funds
<1>9. ASSUME NEW w \in Worker, NEW t \in Task, CannotCall(w, t) PROVE LedgerMoves
  BY <1>9, LedgerStutters DEF CannotCall, row, funds
<1>10. ASSUME NEW w \in Worker, NEW t \in Task, RetryUpstream(w, t) PROVE LedgerMoves
  BY <1>10, LedgerStutters DEF RetryUpstream, row, funds
<1>11. ASSUME NEW w \in Worker, NEW t \in Task, UpstreamReturns(w, t) PROVE LedgerMoves
  BY <1>11, LedgerStutters DEF UpstreamReturns, row, funds
<1>12. ASSUME NEW w \in Worker, NEW t \in Task, RefundAsyncImageBilling(w, t) PROVE LedgerMoves
  <2>1. CASE MayRefund(t) /\ CanAdjust(t, -reserved[t])
    BY <1>12, <1>a, <2>1, Refunded DEF RefundAsyncImageBilling, MayRefund
  <2>2. CASE ~(MayRefund(t) /\ CanAdjust(t, -reserved[t]))
    BY <1>12, <2>2, LedgerStutters DEF RefundAsyncImageBilling, funds
  <2> QED
    BY <2>1, <2>2
<1>13. ASSUME NEW w \in Worker, NEW t \in Task, CompleteAsyncImageGeneration(w, t)
       PROVE  LedgerMoves
  <2>1. PICK q \in ActualQuota :
            \/ billing[t] = "reserved" /\ SettleWith(t, q)
            \/ UNCHANGED <<billing, actual, funds>>
    BY <1>13 DEF CompleteAsyncImageGeneration
  <2>2. source' = source /\ reserved' = reserved
    BY <1>13 DEF CompleteAsyncImageGeneration
  <2> QED
    BY <1>a, <2>1, <2>2, Settled, LedgerStutters DEF funds
<1>14. ASSUME NEW w \in Worker, NEW t \in Task, CompleteWithArchiveFailure(w, t)
       PROVE  LedgerMoves
  <2>1. PICK q \in ActualQuota :
            \/ billing[t] = "reserved" /\ SettleWith(t, q)
            \/ UNCHANGED <<billing, actual, funds>>
    BY <1>14 DEF CompleteWithArchiveFailure
  <2>2. source' = source /\ reserved' = reserved
    BY <1>14 DEF CompleteWithArchiveFailure
  <2> QED
    BY <1>a, <2>1, <2>2, Settled, LedgerStutters DEF funds
<1>15. ASSUME NEW w \in Worker, NEW t \in Task, ReadSettled(w, t) PROVE LedgerMoves
  BY <1>15, LedgerStutters DEF ReadSettled, row, funds
<1>16. ASSUME NEW w \in Worker, NEW t \in Task, MarkAsyncImageOutputAvailable(w, t)
       PROVE  LedgerMoves
  BY <1>16, LedgerStutters DEF MarkAsyncImageOutputAvailable, ArchiveOutcome, row, funds
<1>17. ASSUME NEW w \in Worker, NEW t \in Task, ScheduleAsyncImageArchiveRetry(w, t)
       PROVE  LedgerMoves
  BY <1>17, LedgerStutters DEF ScheduleAsyncImageArchiveRetry, ArchiveOutcome, row, funds
<1>18. ASSUME NEW w \in Worker, NEW t \in Task, FailAsyncImageArchive(w, t) PROVE LedgerMoves
  BY <1>18, LedgerStutters DEF FailAsyncImageArchive, ArchiveOutcome, row, funds
<1>19. ASSUME NEW w \in Worker, NEW t \in Task, GivesUp(w, t) PROVE LedgerMoves
  BY <1>19, LedgerStutters DEF GivesUp, row, funds
<1>20. ASSUME NEW t \in Task, CreateAsyncImageTaskWithReservation(t) PROVE LedgerMoves
  BY <1>20, <1>a, Reserved
<1>21. ASSUME NEW t \in Task, LeaseRunsOut(t) PROVE LedgerMoves
  BY <1>21, LedgerStutters DEF LeaseRunsOut, row, funds
<1>22. ASSUME NEW t \in Task, BecomesDue(t) PROVE LedgerMoves
  BY <1>22, LedgerStutters DEF BecomesDue, row, funds
<1>23. ASSUME NEW t \in Task, ResetAsyncImageArchiveForRetry(t) PROVE LedgerMoves
  BY <1>23, LedgerStutters DEF ResetAsyncImageArchiveForRetry, row, funds
<1>24. ASSUME NEW t \in Task, MarkExpiredAsyncImageTask(t) PROVE LedgerMoves
  BY <1>24, LedgerStutters DEF MarkExpiredAsyncImageTask, row, funds
<1>25. ASSUME ResetSubscription PROVE LedgerMoves
  BY <1>25, Renewed
<1> QED
  BY <1>1, <1>2, <1>3, <1>4, <1>5, <1>6, <1>7, <1>8, <1>8a, <1>9, <1>10, <1>11, <1>12, <1>13,
     <1>14, <1>15, <1>16, <1>17, <1>18, <1>19, <1>20, <1>21, <1>22, <1>23, <1>24, <1>25
     DEF Next, WorkerStep, Generate, Archive

-----------------------------------------------------------------------------
(* The inductive invariant and the theorems *)

\* The inductive invariant.
IInv == TypeOK /\ StatusMatchesBilling /\ AbsentUnbilled /\ OwnedReserved

LEMMA InitIInv == Init => IInv
<1> SUFFICES ASSUME Init PROVE IInv
  OBVIOUS
<1>1. RowOK /\ LeaseOK
  BY DEF Init, RowOK, LeaseOK
<1>2. FundsOK /\ CountsOK
  BY QuotaAssumption, BoundAssumption DEF Init, FundsOK, CountsOK
<1>3. WorkOK
  BY BoundAssumption DEF Init, WorkOK, PC
<1>4. StatusMatchesBilling /\ AbsentUnbilled
  BY DEF Init, StatusMatchesBilling, AbsentUnbilled
<1>5. OwnedReserved
  BY DEF Init, OwnedReserved, Generating
<1> QED
  BY <1>1, <1>2, <1>3, <1>4, <1>5 DEF IInv, TypeOK

LEMMA NextIInv == IInv /\ [Next]_vars => IInv'
<1> SUFFICES ASSUME IInv, [Next]_vars PROVE IInv'
  OBVIOUS
<1>1. CASE Next
  BY <1>1, TypeStep, StatusStep, OwnedStep DEF IInv
<1>2. CASE UNCHANGED vars
  <2>1. TypeOK'
    BY <1>2 DEF vars, row, lease, funds, work, counts, IInv, TypeOK,
       RowOK, LeaseOK, FundsOK, WorkOK, CountsOK
  <2>2. (StatusMatchesBilling /\ AbsentUnbilled /\ OwnedReserved)'
    BY <1>2 DEF vars, row, lease, work, IInv, StatusMatchesBilling, AbsentUnbilled,
       OwnedReserved
  <2> QED
    BY <2>1, <2>2 DEF IInv
<1> QED
  BY <1>1, <1>2

THEOREM InductiveInvariant == Spec => []IInv
BY InitIInv, NextIInv, PTL DEF Spec

\* Every column keeps its type; in particular model/async_image.go never overdraws a wallet,
\* a subscription or a token, nor gives it more than it had, for any amounts and workers.
THEOREM TypeCorrect == Spec => []TypeOK
<1>1. IInv => TypeOK
  BY DEF IInv
<1> QED
  BY <1>1, InductiveInvariant, PTL

\* A row succeeded exactly when it was settled and failed exactly when it was refunded.
THEOREM StatusCorrect == Spec => []StatusMatchesBilling
<1>1. IInv => StatusMatchesBilling
  BY DEF IInv
<1> QED
  BY <1>1, InductiveInvariant, PTL

\* The tasks implement the ledger: each is reserved once, settled once or refunded once, and
\* only the end of a quota period moves quota besides, whatever workers do.
THEOREM LedgerRefined == Spec => ImplementsLedger
<1>1. Init => Ledger!LedgerInit
  <2> SUFFICES ASSUME Init PROVE Ledger!LedgerInit
    OBVIOUS
  <2>1. Holds = [t \in Task |-> Ledger!Nothing]
    BY DEF Init, Holds, Held, Part, TokenShare, Ledger!Nothing
  <2>2. SubTotal - 0 = SubTotal
    BY QuotaAssumption
  <2>3. Balances = [a \in Accounts |-> IF a = "token" THEN TokenQuota
                                      ELSE IF a = "wallet" THEN WalletQuota ELSE SubTotal]
    BY <2>2 DEF Init, Balances, Left
  <2> QED
    BY <2>1, <2>3 DEF Init, Ledger!LedgerInit, Granted
<1>2. IInv /\ [Next]_vars => [Ledger!LedgerNext]_(Ledger!ledgerVars)
  <2> SUFFICES ASSUME IInv, [Next]_vars PROVE [Ledger!LedgerNext]_(Ledger!ledgerVars)
    OBVIOUS
  <2>1. CASE Next
    BY <2>1, LedgerStep DEF IInv, LedgerMoves, Ledger!LedgerNext
  <2>2. CASE UNCHANGED vars
    BY <2>2, LedgerStutters DEF vars, row, funds
  <2> QED
    BY <2>1, <2>2
<1> QED
  BY <1>1, <1>2, InductiveInvariant, PTL DEF Spec, ImplementsLedger, Ledger!LedgerSpec

-----------------------------------------------------------------------------
(* Quota is neither created nor lost *)

\* What the tasks hold of an account, task by task.
HeldOf(a) == [t \in Task |-> Holds[t][a]]

LEMMA HoldsType ==
    ASSUME TypeOK, NEW t \in Task, NEW a \in Accounts
    PROVE  Holds[t][a] \in Int
<1>1. Held(t) \in Nat
  BY QuotaNat DEF Held
<1> QED
  BY <1>1 DEF Holds, Part, TokenShare

LEMMA BalanceType ==
    ASSUME TypeOK, NEW a \in Accounts
    PROVE  Balances[a] \in Int /\ Granted[a] \in Int
<1>1. wallet \in Int /\ token \in Int /\ SubTotal - subUsed \in Int
  BY QuotaAssumption DEF TypeOK, FundsOK
<1> QED
  BY <1>1, QuotaAssumption DEF Balances, Left, Granted

\* Booking a charge moves between an account and the charge what the one loses and the
\* other gains.
LEMMA Rebalanced ==
    ASSUME TypeOK, TypeOK', NEW t \in Task, NEW q, Ledger!Rebook(t, q), NEW a \in Accounts
    PROVE  Balances'[a] + SumFunctionOnSet(HeldOf(a)', Task)
             = Balances[a] + SumFunctionOnSet(HeldOf(a), Task)
<1> DEFINE f == HeldOf(a)
           h == HeldOf(a)'
<1>1. f \in [Task -> Int]
  BY HoldsType DEF HeldOf
<1>2. h \in [Task -> Int]
  <2>1. \A u \in Task : Holds'[u][a] \in Int
    <3>1. \A u \in Task : (Held(u) \in Nat)'
      <4> SUFFICES ASSUME NEW u \in Task PROVE (Held(u) \in Nat)'
        OBVIOUS
      <4>1. reserved'[u] \in ReserveQuota \union {0} /\ actual'[u] \in ActualQuota \union {0}
        BY DEF TypeOK, RowOK
      <4>2. \A n \in ReserveQuota \union ActualQuota \union {0} : n \in Nat
        BY QuotaAssumption
      <4>3. reserved'[u] \in Nat /\ actual'[u] \in Nat
        BY <4>1, <4>2
      <4> QED
        BY <4>3 DEF Held
    <3> QED
      BY <3>1 DEF Holds, Part, TokenShare
  <2> QED
    BY <2>1 DEF HeldOf
<1>3. /\ Holds' = [Holds EXCEPT ![t] = q]
      /\ Balances' = [b \in Accounts |-> Balances[b] + Holds[t][b] - q[b]]
  BY DEF Ledger!Rebook
<1>4. \A u \in Task : h[u] = IF u = t THEN q[a] ELSE f[u]
  BY <1>3 DEF HeldOf, Holds
<1>5. f[t] = Holds[t][a] /\ h[t] = q[a]
  BY <1>4 DEF HeldOf
<1>6. Balances'[a] = Balances[a] + f[t] - h[t]
  BY <1>3, <1>5
<1> HIDE DEF f, h
<1>7. SumFunctionOnSet(h, Task) = SumFunctionOnSet(f, Task) + h[t] - f[t]
  BY <1>1, <1>2, <1>4, TaskAssumption, SumChanges
<1>8. /\ SumFunctionOnSet(f, Task) \in Int /\ f[t] \in Int /\ h[t] \in Int
      /\ Balances[a] \in Int
  BY <1>1, <1>2, TaskAssumption, SumType, BalanceType
<1>9. Balances'[a] + SumFunctionOnSet(h, Task) = Balances[a] + SumFunctionOnSet(f, Task)
  BY <1>6, <1>7, <1>8
<1> QED
  BY <1>9 DEF f, h

LEMMA PeriodsMove ==
    ASSUME TypeOK, Next
    PROVE  periods' = periods \/ ResetSubscription
<1>1. ASSUME NEW w \in Worker, ClaimSelect(w) \/ HandlerReturns(w) \/ Crash(w) PROVE periods' = periods
  BY <1>1 DEF ClaimSelect, HandlerReturns, Crash, counts
<1>2. ASSUME NEW w \in Worker, NEW t \in Task,
             ClaimUpdate(w, t) \/ ClaimRead(w, t) \/ Archive(w, t) \/ GivesUp(w, t)
      PROVE  periods' = periods
  BY <1>2 DEF ClaimUpdate, ClaimRead, Archive, GivesUp, MarkAsyncImageOutputAvailable,
     ScheduleAsyncImageArchiveRetry, FailAsyncImageArchive, ArchiveOutcome, counts
<1>3. ASSUME NEW w \in Worker, NEW t \in Task, Generate(w, t) PROVE periods' = periods
  BY <1>3 DEF Generate, ScheduleAsyncImageGenerationRetry, MarkAsyncImageTaskRunning,
     UpdateAsyncImageTaskWithLease, CallUpstream, CannotCall, RetryUpstream, UpstreamReturns,
     RefundAsyncImageBilling,
     CompleteAsyncImageGeneration, CompleteWithArchiveFailure, ReadSettled, counts
<1>4. ASSUME NEW t \in Task,
             \/ CreateAsyncImageTaskWithReservation(t) \/ LeaseRunsOut(t) \/ BecomesDue(t)
             \/ ResetAsyncImageArchiveForRetry(t) \/ MarkExpiredAsyncImageTask(t)
      PROVE  periods' = periods
  BY <1>4 DEF CreateAsyncImageTaskWithReservation, LeaseRunsOut, BecomesDue,
     ResetAsyncImageArchiveForRetry, MarkExpiredAsyncImageTask, counts
<1> QED
  BY <1>1, <1>2, <1>3, <1>4 DEF Next, WorkerStep

\* Quota is neither created nor lost, whatever workers settle, refund or die: the ledger's
\* steps book one charge at a time, and the sum over the tasks follows.
THEOREM FundsTheorem == Spec => []FundsConserved
<1>1. Init => FundsConserved
  <2> SUFFICES ASSUME Init, NEW a \in Accounts
               PROVE  Balances[a] + SumFunctionOnSet(HeldOf(a), Task) = Granted[a]
    BY DEF FundsConserved, HeldOf
  <2>1. \A t \in Task : HeldOf(a)[t] = 0
    BY DEF Init, HeldOf, Holds, Held, Part, TokenShare
  <2>2. SumFunctionOnSet(HeldOf(a), Task) = 0
    BY <2>1, TaskAssumption, SumOfZeros
  <2>3. Balances[a] = Granted[a] /\ Granted[a] \in Int
    BY QuotaAssumption DEF Init, Balances, Left, Granted
  <2> QED
    BY <2>2, <2>3
<1>2. IInv /\ FundsConserved /\ [Next]_vars => FundsConserved'
  <2> SUFFICES ASSUME IInv, FundsConserved, [Next]_vars, NEW a \in Accounts,
                      a # "subscription" \/ periods' = 0
               PROVE  Balances'[a] + SumFunctionOnSet(HeldOf(a)', Task) = Granted[a]
    BY DEF FundsConserved, HeldOf
  <2>1. TypeOK /\ TypeOK' /\ AbsentUnbilled
    BY NextIInv DEF IInv
  <2>2. CASE UNCHANGED vars \/ (Next /\ UNCHANGED Ledger!ledgerVars /\ periods' = periods)
    <3>1. Holds' = Holds /\ Balances' = Balances /\ periods' = periods
      BY <2>2, LedgerStutters DEF vars, row, funds, counts, Ledger!ledgerVars
    <3>2. HeldOf(a)' = HeldOf(a)
      BY <3>1 DEF HeldOf
    <3> QED
      BY <3>1, <3>2 DEF FundsConserved, HeldOf
  <2>3. CASE Next /\ ResetSubscription
    <3>1. a # "subscription"
      BY <2>1, <2>3 DEF ResetSubscription, TypeOK, CountsOK
    <3>2. UNCHANGED <<billing, source, reserved, actual, wallet, token>>
      BY <2>3 DEF ResetSubscription, row
    <3>3. HeldOf(a)' = HeldOf(a)
      BY <3>2 DEF HeldOf, Holds, Held, Part, TokenShare
    <3>4. Balances'[a] = Balances[a]
      BY <3>1, <3>2 DEF Balances, Left, Accounts
    <3> QED
      BY <3>1, <3>3, <3>4 DEF FundsConserved, HeldOf
  <2>4. CASE /\ Next /\ periods' = periods
             /\ \E t \in Task : Ledger!Reserve(t) \/ Ledger!Settle(t) \/ Ledger!Refund(t)
    <3>1. PICK t \in Task : \E q : Ledger!Rebook(t, q)
      BY <2>4 DEF Ledger!Reserve, Ledger!Settle, Ledger!Refund
    <3>2. PICK q : Ledger!Rebook(t, q)
      BY <3>1
    <3>3. Balances'[a] + SumFunctionOnSet(HeldOf(a)', Task)
            = Balances[a] + SumFunctionOnSet(HeldOf(a), Task)
      BY <2>1, <3>2, Rebalanced
    <3> QED
      BY <2>4, <3>3 DEF FundsConserved, HeldOf
  <2> QED
    BY <2>1, <2>2, <2>3, <2>4, LedgerStep, PeriodsMove DEF LedgerMoves
<1> QED
  BY <1>1, <1>2, InductiveInvariant, PTL DEF Spec

-----------------------------------------------------------------------------
(* One worker generates, and attempts are counted *)

\* What a worker selected or took up was inserted.
TakenUpExists ==
    \A w \in Worker, t \in Task :
        t \in cand[w] \/ pc[w][t] \in AtWork => billing[t] # "none"

\* While no lease has run out under a worker, one that generates works on a reservation,
\* and whoever is at work on a reservation holds its lease.
LeaseHeld ==
    stalls = 0 => \A w \in Worker, t \in Task :
        /\ pc[w][t] \in Generating => billing[t] = "reserved"
        /\ pc[w][t] \in AtWork /\ billing[t] = "reserved" => owner[t] = w /\ ~expired[t]

\* The owner of the lease archives with the number of attempts the row has.
SeenIsCurrent ==
    \A w \in Worker, t \in Task :
        pc[w][t] = "archive" /\ owner[t] = w => seen[w][t] = attempts[t]


\* Billing starts when the row is inserted and never starts again.
LEMMA TakenUpStep ==
    ASSUME TypeOK, TakenUpExists, Next
    PROVE  TakenUpExists'
<1>1. ASSUME NEW w \in Worker, ClaimSelect(w) PROVE TakenUpExists'
  BY <1>1, OwnerAssumption DEF ClaimSelect, Runnable, At, row, lease, work, TypeOK, RowOK,
     LeaseOK, WorkOK, TakenUpExists, AtWork
<1>2. ASSUME NEW w \in Worker, HandlerReturns(w) PROVE TakenUpExists'
  BY <1>2, OwnerAssumption DEF HandlerReturns, Release, At, row, lease, work, TypeOK, RowOK,
     LeaseOK, WorkOK, TakenUpExists, AtWork
<1>3. ASSUME NEW w \in Worker, Crash(w) PROVE TakenUpExists'
  BY <1>3, OwnerAssumption DEF Crash, Release, At, row, lease, work, TypeOK, RowOK, LeaseOK,
     WorkOK, TakenUpExists, AtWork
<1>4. ASSUME NEW w \in Worker, NEW t \in Task, ClaimUpdate(w, t) PROVE TakenUpExists'
  BY <1>4, OwnerAssumption DEF ClaimUpdate, Leasable, Goto, At, row, lease, work, TypeOK, RowOK,
     LeaseOK, WorkOK, TakenUpExists, AtWork
<1>5. ASSUME NEW w \in Worker, NEW t \in Task, ClaimRead(w, t) PROVE TakenUpExists'
  <2>1. PICK p \in {"archive", "generate"} : Goto(w, t, p)
    BY <1>5 DEF ClaimRead
  <2>2. \A v \in Worker, u \in Task : pc'[v][u] = IF v = w /\ u = t THEN p ELSE pc[v][u]
    BY <2>1, GotoElsewhere DEF PC, AtWork
  <2>3. UNCHANGED <<row, lease, cand, counts>> /\ pc[w][t] = "claimed"
    BY <1>5 DEF ClaimRead
  <2> QED
    BY <2>2, <2>3 DEF row, TakenUpExists, AtWork
<1>6. ASSUME NEW w \in Worker, NEW t \in Task, ScheduleAsyncImageGenerationRetry(w, t)
      PROVE  TakenUpExists'
  BY <1>6, OwnerAssumption DEF ScheduleAsyncImageGenerationRetry, ClearLease, Goto, MayRun, At,
     row, lease, work, TypeOK, RowOK, LeaseOK, WorkOK, TakenUpExists, AtWork
<1>7. ASSUME NEW w \in Worker, NEW t \in Task, MarkAsyncImageTaskRunning(w, t)
      PROVE  TakenUpExists'
  <2>1. PICK p \in {"call", "done"} : Goto(w, t, p) /\ (p = "call" => MayRun(w, t))
    BY <1>7 DEF MarkAsyncImageTaskRunning
  <2>2. \A v \in Worker, u \in Task : pc'[v][u] = IF v = w /\ u = t THEN p ELSE pc[v][u]
    BY <2>1, GotoElsewhere DEF PC, AtWork
  <2>3. UNCHANGED <<billing, attempts, lease, cand, seen, counts>> /\ pc[w][t] = "generate"
    BY <1>7 DEF MarkAsyncImageTaskRunning, At
  <2> QED
    BY <2>2, <2>3 DEF TakenUpExists, AtWork
<1>8. ASSUME NEW w \in Worker, NEW t \in Task, CallUpstream(w, t) PROVE TakenUpExists'
  BY <1>8, OwnerAssumption DEF CallUpstream, Goto, At, row, lease, work, TypeOK, RowOK, LeaseOK,
     WorkOK, TakenUpExists, AtWork
<1>8a. ASSUME NEW w \in Worker, NEW t \in Task, UpdateAsyncImageTaskWithLease(w, t) PROVE TakenUpExists'
  BY <1>8a, OwnerAssumption DEF UpdateAsyncImageTaskWithLease, MayCall, Goto, At, row, lease, work, TypeOK, RowOK, LeaseOK,
     WorkOK, TakenUpExists, AtWork
<1>9. ASSUME NEW w \in Worker, NEW t \in Task, CannotCall(w, t) PROVE TakenUpExists'
  BY <1>9, OwnerAssumption DEF CannotCall, Goto, At, row, lease, work, TypeOK, RowOK, LeaseOK,
     WorkOK, TakenUpExists, AtWork
<1>10. ASSUME NEW w \in Worker, NEW t \in Task, RetryUpstream(w, t) PROVE TakenUpExists'
  BY <1>10, OwnerAssumption DEF RetryUpstream, Goto, At, row, lease, work, TypeOK, RowOK,
     LeaseOK, WorkOK, TakenUpExists, AtWork
<1>11. ASSUME NEW w \in Worker, NEW t \in Task, UpstreamReturns(w, t) PROVE TakenUpExists'
  BY <1>11, OwnerAssumption DEF UpstreamReturns, Goto, At, row, lease, work, TypeOK, RowOK,
     LeaseOK, WorkOK, TakenUpExists, AtWork
<1>12. ASSUME NEW w \in Worker, NEW t \in Task, RefundAsyncImageBilling(w, t) PROVE TakenUpExists'
  BY <1>12, OwnerAssumption DEF RefundAsyncImageBilling, ClearLease, Goto, MayRefund, At, row,
     lease, work, TypeOK, RowOK, LeaseOK, WorkOK, TakenUpExists, AtWork
<1>13. ASSUME NEW w \in Worker, NEW t \in Task, CompleteAsyncImageGeneration(w, t)
       PROVE  TakenUpExists'
  BY <1>13, OwnerAssumption DEF CompleteAsyncImageGeneration, SettleWith, Goto, At, row, lease,
     work, TypeOK, RowOK, LeaseOK, WorkOK, TakenUpExists, AtWork
<1>14. ASSUME NEW w \in Worker, NEW t \in Task, CompleteWithArchiveFailure(w, t)
       PROVE  TakenUpExists'
  BY <1>14, OwnerAssumption DEF CompleteWithArchiveFailure, SettleWith, ClearLease, Goto, At,
     row, lease, work, TypeOK, RowOK, LeaseOK, WorkOK, TakenUpExists, AtWork
<1>15. ASSUME NEW w \in Worker, NEW t \in Task, ReadSettled(w, t) PROVE TakenUpExists'
  BY <1>15, OwnerAssumption DEF ReadSettled, Goto, At, row, lease, work, TypeOK, RowOK, LeaseOK,
     WorkOK, TakenUpExists, AtWork
<1>16. ASSUME NEW w \in Worker, NEW t \in Task, MarkAsyncImageOutputAvailable(w, t)
       PROVE  TakenUpExists'
  BY <1>16, OwnerAssumption DEF MarkAsyncImageOutputAvailable, ArchiveOutcome, ClearLease, Goto,
     MayArchive, At, row, lease, work, TypeOK, RowOK, LeaseOK, WorkOK, TakenUpExists, AtWork
<1>17. ASSUME NEW w \in Worker, NEW t \in Task, ScheduleAsyncImageArchiveRetry(w, t)
       PROVE  TakenUpExists'
  BY <1>17, OwnerAssumption DEF ScheduleAsyncImageArchiveRetry, ArchiveOutcome, ClearLease,
     Goto, MayArchive, At, row, lease, work, TypeOK, RowOK, LeaseOK, WorkOK, TakenUpExists,
     AtWork
<1>18. ASSUME NEW w \in Worker, NEW t \in Task, FailAsyncImageArchive(w, t) PROVE TakenUpExists'
  BY <1>18, OwnerAssumption DEF FailAsyncImageArchive, ArchiveOutcome, ClearLease, Goto,
     MayArchive, At, row, lease, work, TypeOK, RowOK, LeaseOK, WorkOK, TakenUpExists, AtWork
<1>19. ASSUME NEW w \in Worker, NEW t \in Task, GivesUp(w, t) PROVE TakenUpExists'
  BY <1>19, OwnerAssumption DEF GivesUp, Goto, At, row, lease, work, TypeOK, RowOK, LeaseOK,
     WorkOK, TakenUpExists, AtWork
<1>20. ASSUME NEW t \in Task, CreateAsyncImageTaskWithReservation(t) PROVE TakenUpExists'
  BY <1>20, OwnerAssumption DEF CreateAsyncImageTaskWithReservation, At, row, lease, work,
     TypeOK, RowOK, LeaseOK, WorkOK, TakenUpExists, AtWork
<1>21. ASSUME NEW t \in Task, LeaseRunsOut(t) PROVE TakenUpExists'
  BY <1>21, OwnerAssumption DEF LeaseRunsOut, At, row, lease, work, TypeOK, RowOK, LeaseOK,
     WorkOK, TakenUpExists, AtWork
<1>22. ASSUME NEW t \in Task, BecomesDue(t) PROVE TakenUpExists'
  BY <1>22, OwnerAssumption DEF BecomesDue, At, row, lease, work, TypeOK, RowOK, LeaseOK,
     WorkOK, TakenUpExists, AtWork
<1>23. ASSUME NEW t \in Task, ResetAsyncImageArchiveForRetry(t) PROVE TakenUpExists'
  BY <1>23, OwnerAssumption DEF ResetAsyncImageArchiveForRetry, ClearLease, At, row, lease,
     work, TypeOK, RowOK, LeaseOK, WorkOK, TakenUpExists, AtWork
<1>24. ASSUME NEW t \in Task, MarkExpiredAsyncImageTask(t) PROVE TakenUpExists'
  BY <1>24, OwnerAssumption DEF MarkExpiredAsyncImageTask, At, row, lease, work, TypeOK, RowOK,
     LeaseOK, WorkOK, TakenUpExists, AtWork
<1>25. ASSUME ResetSubscription PROVE TakenUpExists'
  BY <1>25, OwnerAssumption DEF ResetSubscription, At, row, lease, work, TypeOK, RowOK, LeaseOK,
     WorkOK, TakenUpExists, AtWork
<1> QED
  BY <1>1, <1>2, <1>3, <1>4, <1>5, <1>6, <1>7, <1>8, <1>8a, <1>9, <1>10, <1>11, <1>12, <1>13,
     <1>14, <1>15, <1>16, <1>17, <1>18, <1>19, <1>20, <1>21, <1>22, <1>23, <1>24, <1>25
     DEF Next, WorkerStep, Generate, Archive

\* A claim takes only a free or expired lease, and a lease that expires under a worker counts
\* as a stall; whoever clears a lease is its owner or leaves no reservation behind.
LEMMA LeaseHeldStep ==
    ASSUME TypeOK, AbsentUnbilled, TakenUpExists, LeaseHeld, Next
    PROVE  LeaseHeld'
<1>1. ASSUME NEW w \in Worker, ClaimSelect(w) PROVE LeaseHeld'
  BY <1>1, OwnerAssumption DEF ClaimSelect, Runnable, At, row, lease, work, TypeOK, RowOK,
     LeaseOK, WorkOK, CountsOK, counts, LeaseHeld, AtWork, Generating
<1>2. ASSUME NEW w \in Worker, HandlerReturns(w) PROVE LeaseHeld'
  BY <1>2, OwnerAssumption DEF HandlerReturns, Release, At, row, lease, work, TypeOK, RowOK,
     LeaseOK, WorkOK, CountsOK, counts, LeaseHeld, AtWork, Generating
<1>3. ASSUME NEW w \in Worker, Crash(w) PROVE LeaseHeld'
  BY <1>3, OwnerAssumption DEF Crash, Release, At, row, lease, work, TypeOK, RowOK, LeaseOK,
     WorkOK, CountsOK, counts, LeaseHeld, AtWork, Generating
<1>4. ASSUME NEW w \in Worker, NEW t \in Task, ClaimUpdate(w, t) PROVE LeaseHeld'
  <2>1. UNCHANGED <<row, seen, counts>>
    BY <1>4 DEF ClaimUpdate
  <2>2. CASE Leasable(t)
    <3>1. owner' = [owner EXCEPT ![t] = w] /\ expired' = [expired EXCEPT ![t] = FALSE]
      BY <1>4, <2>2 DEF ClaimUpdate
    <3>2. \A v \in Worker, u \in Task :
              pc'[v][u] = IF v = w /\ u = t THEN "claimed" ELSE pc[v][u]
      BY <1>4, <2>2, GotoElsewhere DEF ClaimUpdate, PC, AtWork
    <3>3. ASSUME stalls = 0, NEW v \in Worker, pc[v][t] \in AtWork PROVE billing[t] # "reserved"
      BY <2>2, <3>3, OwnerAssumption DEF LeaseHeld, Leasable
    <3>4. ASSUME stalls' = 0, NEW v \in Worker, NEW u \in Task
          PROVE  /\ pc'[v][u] \in Generating => billing'[u] = "reserved"
                 /\ pc'[v][u] \in AtWork /\ billing'[u] = "reserved"
                        => owner'[u] = v /\ ~expired'[u]
      <4>1. CASE u # t
        BY <2>1, <3>1, <3>2, <3>4, <4>1 DEF row, counts, LeaseHeld, TypeOK, LeaseOK
      <4>2. CASE u = t /\ v = w
        BY <3>1, <3>2, <4>2 DEF Generating, TypeOK, LeaseOK
      <4>3. CASE u = t /\ v # w
        <5>1. pc'[v][u] = pc[v][t] /\ billing' = billing /\ stalls = 0
          BY <2>1, <3>2, <3>4, <4>3 DEF row, counts
        <5>2. pc[v][t] \in Generating => pc[v][t] \in AtWork /\ billing[t] = "reserved"
          BY <5>1 DEF LeaseHeld, Generating, AtWork
        <5> QED
          BY <3>3, <4>3, <5>1, <5>2
      <4> QED
        BY <4>1, <4>2, <4>3
    <3> QED
      BY <3>4 DEF LeaseHeld
  <2>3. CASE ~Leasable(t)
    <3>1. UNCHANGED <<owner, expired, pc>>
      BY <1>4, <2>3 DEF ClaimUpdate
    <3> QED
      BY <2>1, <3>1 DEF row, counts, LeaseHeld
  <2> QED
    BY <2>2, <2>3
<1>5. ASSUME NEW w \in Worker, NEW t \in Task, ClaimRead(w, t) PROVE LeaseHeld'
  <2>1. PICK p \in {"archive", "generate"} : Goto(w, t, p)
    BY <1>5 DEF ClaimRead
  <2>2. \A v \in Worker, u \in Task : pc'[v][u] = IF v = w /\ u = t THEN p ELSE pc[v][u]
    BY <2>1, GotoElsewhere DEF PC, AtWork
  <2>3. UNCHANGED <<row, lease, cand, counts>> /\ pc[w][t] = "claimed"
    BY <1>5 DEF ClaimRead
  <2> QED
    BY <2>2, <2>3 DEF row, lease, counts, LeaseHeld, Generating, AtWork
<1>6. ASSUME NEW w \in Worker, NEW t \in Task, ScheduleAsyncImageGenerationRetry(w, t)
      PROVE  LeaseHeld'
  BY <1>6, OwnerAssumption, SMTT(20) DEF ScheduleAsyncImageGenerationRetry, ClearLease, Goto,
     MayRun, At, row, lease, work, TypeOK, RowOK, LeaseOK, WorkOK, CountsOK, counts, LeaseHeld,
     AtWork, Generating
<1>7. ASSUME NEW w \in Worker, NEW t \in Task, MarkAsyncImageTaskRunning(w, t) PROVE LeaseHeld'
  BY <1>7, OwnerAssumption DEF MarkAsyncImageTaskRunning, Goto, MayRun, At, row, lease, work,
     TypeOK, RowOK, LeaseOK, WorkOK, CountsOK, counts, LeaseHeld, AtWork, Generating
<1>8. ASSUME NEW w \in Worker, NEW t \in Task, CallUpstream(w, t) PROVE LeaseHeld'
  BY <1>8, OwnerAssumption DEF CallUpstream, Goto, At, row, lease, work, TypeOK, RowOK, LeaseOK,
     WorkOK, CountsOK, counts, LeaseHeld, AtWork, Generating
<1>8a. ASSUME NEW w \in Worker, NEW t \in Task, UpdateAsyncImageTaskWithLease(w, t) PROVE LeaseHeld'
  BY <1>8a, OwnerAssumption DEF UpdateAsyncImageTaskWithLease, MayCall, Goto, At, row, lease, work, TypeOK, RowOK, LeaseOK,
     WorkOK, CountsOK, counts, LeaseHeld, AtWork, Generating
<1>9. ASSUME NEW w \in Worker, NEW t \in Task, CannotCall(w, t) PROVE LeaseHeld'
  BY <1>9, OwnerAssumption DEF CannotCall, Goto, At, row, lease, work, TypeOK, RowOK, LeaseOK,
     WorkOK, CountsOK, counts, LeaseHeld, AtWork, Generating
<1>10. ASSUME NEW w \in Worker, NEW t \in Task, RetryUpstream(w, t) PROVE LeaseHeld'
  BY <1>10, OwnerAssumption DEF RetryUpstream, Goto, At, row, lease, work, TypeOK, RowOK,
     LeaseOK, WorkOK, CountsOK, counts, LeaseHeld, AtWork, Generating
<1>11. ASSUME NEW w \in Worker, NEW t \in Task, UpstreamReturns(w, t) PROVE LeaseHeld'
  BY <1>11, OwnerAssumption DEF UpstreamReturns, Goto, At, row, lease, work, TypeOK, RowOK,
     LeaseOK, WorkOK, CountsOK, counts, LeaseHeld, AtWork, Generating
<1>12. ASSUME NEW w \in Worker, NEW t \in Task, RefundAsyncImageBilling(w, t) PROVE LeaseHeld'
  BY <1>12, OwnerAssumption DEF RefundAsyncImageBilling, ClearLease, Goto, MayRefund, At, row,
     lease, work, TypeOK, RowOK, LeaseOK, WorkOK, CountsOK, counts, LeaseHeld, AtWork,
     Generating
<1>13. ASSUME NEW w \in Worker, NEW t \in Task, CompleteAsyncImageGeneration(w, t)
       PROVE  LeaseHeld'
  BY <1>13, OwnerAssumption DEF CompleteAsyncImageGeneration, SettleWith, Goto, At, row, lease,
     work, TypeOK, RowOK, LeaseOK, WorkOK, CountsOK, counts, LeaseHeld, AtWork, Generating
<1>14. ASSUME NEW w \in Worker, NEW t \in Task, CompleteWithArchiveFailure(w, t) PROVE LeaseHeld'
  BY <1>14, OwnerAssumption DEF CompleteWithArchiveFailure, SettleWith, ClearLease, Goto, At,
     row, lease, work, TypeOK, RowOK, LeaseOK, WorkOK, CountsOK, counts, LeaseHeld, AtWork,
     Generating
<1>15. ASSUME NEW w \in Worker, NEW t \in Task, ReadSettled(w, t) PROVE LeaseHeld'
  BY <1>15, OwnerAssumption DEF ReadSettled, Goto, At, row, lease, work, TypeOK, RowOK, LeaseOK,
     WorkOK, CountsOK, counts, LeaseHeld, AtWork, Generating
<1>16. ASSUME NEW w \in Worker, NEW t \in Task, MarkAsyncImageOutputAvailable(w, t)
       PROVE  LeaseHeld'
  BY <1>16, OwnerAssumption DEF MarkAsyncImageOutputAvailable, ArchiveOutcome, ClearLease, Goto,
     MayArchive, At, row, lease, work, TypeOK, RowOK, LeaseOK, WorkOK, CountsOK, counts,
     LeaseHeld, AtWork, Generating
<1>17. ASSUME NEW w \in Worker, NEW t \in Task, ScheduleAsyncImageArchiveRetry(w, t)
       PROVE  LeaseHeld'
  BY <1>17, OwnerAssumption DEF ScheduleAsyncImageArchiveRetry, ArchiveOutcome, ClearLease,
     Goto, MayArchive, At, row, lease, work, TypeOK, RowOK, LeaseOK, WorkOK, CountsOK, counts,
     LeaseHeld, AtWork, Generating
<1>18. ASSUME NEW w \in Worker, NEW t \in Task, FailAsyncImageArchive(w, t) PROVE LeaseHeld'
  BY <1>18, OwnerAssumption DEF FailAsyncImageArchive, ArchiveOutcome, ClearLease, Goto,
     MayArchive, At, row, lease, work, TypeOK, RowOK, LeaseOK, WorkOK, CountsOK, counts,
     LeaseHeld, AtWork, Generating
<1>19. ASSUME NEW w \in Worker, NEW t \in Task, GivesUp(w, t) PROVE LeaseHeld'
  BY <1>19, OwnerAssumption DEF GivesUp, Goto, At, row, lease, work, TypeOK, RowOK, LeaseOK,
     WorkOK, CountsOK, counts, LeaseHeld, AtWork, Generating
<1>20. ASSUME NEW t \in Task, CreateAsyncImageTaskWithReservation(t) PROVE LeaseHeld'
  <2>1. /\ status[t] = "absent" /\ billing' = [billing EXCEPT ![t] = "reserved"]
        /\ UNCHANGED <<owner, expired, pc, stalls>>
    BY <1>20 DEF CreateAsyncImageTaskWithReservation, lease, work, counts
  <2>2. billing[t] = "none"
    BY <2>1 DEF AbsentUnbilled
  <2>3. \A v \in Worker : pc[v][t] \notin AtWork /\ pc[v][t] \notin Generating
    BY <2>2 DEF TakenUpExists, AtWork, Generating
  <2>4. \A u \in Task : u # t => billing'[u] = billing[u]
    BY <2>1 DEF TypeOK, RowOK
  <2> QED
    BY <2>1, <2>3, <2>4 DEF LeaseHeld
<1>21. ASSUME NEW t \in Task, LeaseRunsOut(t) PROVE LeaseHeld'
  BY <1>21, OwnerAssumption DEF LeaseRunsOut, At, row, lease, work, TypeOK, RowOK, LeaseOK,
     WorkOK, CountsOK, counts, LeaseHeld, AtWork, Generating
<1>22. ASSUME NEW t \in Task, BecomesDue(t) PROVE LeaseHeld'
  BY <1>22, OwnerAssumption DEF BecomesDue, At, row, lease, work, TypeOK, RowOK, LeaseOK,
     WorkOK, CountsOK, counts, LeaseHeld, AtWork, Generating
<1>23. ASSUME NEW t \in Task, ResetAsyncImageArchiveForRetry(t) PROVE LeaseHeld'
  BY <1>23, OwnerAssumption DEF ResetAsyncImageArchiveForRetry, ClearLease, At, row, lease,
     work, TypeOK, RowOK, LeaseOK, WorkOK, CountsOK, counts, LeaseHeld, AtWork, Generating
<1>24. ASSUME NEW t \in Task, MarkExpiredAsyncImageTask(t) PROVE LeaseHeld'
  BY <1>24, OwnerAssumption DEF MarkExpiredAsyncImageTask, At, row, lease, work, TypeOK, RowOK,
     LeaseOK, WorkOK, CountsOK, counts, LeaseHeld, AtWork, Generating
<1>25. ASSUME ResetSubscription PROVE LeaseHeld'
  BY <1>25, OwnerAssumption DEF ResetSubscription, At, row, lease, work, TypeOK, RowOK, LeaseOK,
     WorkOK, CountsOK, counts, LeaseHeld, AtWork, Generating
<1> QED
  BY <1>1, <1>2, <1>3, <1>4, <1>5, <1>6, <1>7, <1>8, <1>8a, <1>9, <1>10, <1>11, <1>12, <1>13,
     <1>14, <1>15, <1>16, <1>17, <1>18, <1>19, <1>20, <1>21, <1>22, <1>23, <1>24, <1>25
     DEF Next, WorkerStep, Generate, Archive

\* Whoever changes the number of attempts gives up the lease, and whoever gets it reads again.
LEMMA SeenStep ==
    ASSUME TypeOK, SeenIsCurrent, Next
    PROVE  SeenIsCurrent'
<1>1. ASSUME NEW w \in Worker, ClaimSelect(w) PROVE SeenIsCurrent'
  BY <1>1, OwnerAssumption DEF ClaimSelect, Runnable, At, row, lease, work, TypeOK, RowOK,
     LeaseOK, WorkOK, SeenIsCurrent
<1>2. ASSUME NEW w \in Worker, HandlerReturns(w) PROVE SeenIsCurrent'
  BY <1>2, OwnerAssumption DEF HandlerReturns, Release, At, row, lease, work, TypeOK, RowOK,
     LeaseOK, WorkOK, SeenIsCurrent
<1>3. ASSUME NEW w \in Worker, Crash(w) PROVE SeenIsCurrent'
  BY <1>3, OwnerAssumption DEF Crash, Release, At, row, lease, work, TypeOK, RowOK, LeaseOK,
     WorkOK, SeenIsCurrent
<1>4. ASSUME NEW w \in Worker, NEW t \in Task, ClaimUpdate(w, t) PROVE SeenIsCurrent'
  <2>1. UNCHANGED <<row, seen, counts>>
    BY <1>4 DEF ClaimUpdate
  <2>2. CASE Leasable(t)
    <3>1. owner' = [owner EXCEPT ![t] = w] /\ expired' = [expired EXCEPT ![t] = FALSE]
      BY <1>4, <2>2 DEF ClaimUpdate
    <3>2. \A v \in Worker, u \in Task :
              pc'[v][u] = IF v = w /\ u = t THEN "claimed" ELSE pc[v][u]
      BY <1>4, <2>2, GotoElsewhere DEF ClaimUpdate, PC, AtWork
    <3>3. ASSUME NEW v \in Worker, NEW u \in Task, pc'[v][u] = "archive", owner'[u] = v
          PROVE  seen'[v][u] = attempts'[u]
      <4>1. CASE u # t
        BY <2>1, <3>1, <3>2, <3>3, <4>1 DEF row, SeenIsCurrent, TypeOK, LeaseOK
      <4>2. CASE u = t
        BY <3>1, <3>2, <3>3, <4>2 DEF TypeOK, LeaseOK
      <4> QED
        BY <4>1, <4>2
    <3> QED
      BY <3>3 DEF SeenIsCurrent
  <2>3. CASE ~Leasable(t)
    <3>1. UNCHANGED <<owner, expired, pc>>
      BY <1>4, <2>3 DEF ClaimUpdate
    <3> QED
      BY <2>1, <3>1 DEF row, counts, SeenIsCurrent
  <2> QED
    BY <2>2, <2>3
<1>5. ASSUME NEW w \in Worker, NEW t \in Task, ClaimRead(w, t) PROVE SeenIsCurrent'
  BY <1>5, OwnerAssumption DEF ClaimRead, Goto, At, row, lease, work, TypeOK, RowOK, LeaseOK,
     WorkOK, SeenIsCurrent
<1>6. ASSUME NEW w \in Worker, NEW t \in Task, ScheduleAsyncImageGenerationRetry(w, t)
      PROVE  SeenIsCurrent'
  BY <1>6, OwnerAssumption DEF ScheduleAsyncImageGenerationRetry, ClearLease, Goto, MayRun, At,
     row, lease, work, TypeOK, RowOK, LeaseOK, WorkOK, SeenIsCurrent
<1>7. ASSUME NEW w \in Worker, NEW t \in Task, MarkAsyncImageTaskRunning(w, t)
      PROVE  SeenIsCurrent'
  <2>1. PICK p \in {"call", "done"} : Goto(w, t, p) /\ (p = "call" => MayRun(w, t))
    BY <1>7 DEF MarkAsyncImageTaskRunning
  <2>2. \A v \in Worker, u \in Task : pc'[v][u] = IF v = w /\ u = t THEN p ELSE pc[v][u]
    BY <2>1, GotoElsewhere DEF PC, AtWork
  <2>3. UNCHANGED <<billing, attempts, lease, cand, seen, counts>> /\ pc[w][t] = "generate"
    BY <1>7 DEF MarkAsyncImageTaskRunning, At
  <2> QED
    BY <2>2, <2>3 DEF lease, SeenIsCurrent
<1>8. ASSUME NEW w \in Worker, NEW t \in Task, CallUpstream(w, t) PROVE SeenIsCurrent'
  BY <1>8, OwnerAssumption DEF CallUpstream, Goto, At, row, lease, work, TypeOK, RowOK, LeaseOK,
     WorkOK, SeenIsCurrent
<1>8a. ASSUME NEW w \in Worker, NEW t \in Task, UpdateAsyncImageTaskWithLease(w, t) PROVE SeenIsCurrent'
  BY <1>8a, OwnerAssumption DEF UpdateAsyncImageTaskWithLease, MayCall, Goto, At, row, lease, work, TypeOK, RowOK, LeaseOK,
     WorkOK, SeenIsCurrent
<1>9. ASSUME NEW w \in Worker, NEW t \in Task, CannotCall(w, t) PROVE SeenIsCurrent'
  BY <1>9, OwnerAssumption DEF CannotCall, Goto, At, row, lease, work, TypeOK, RowOK, LeaseOK,
     WorkOK, SeenIsCurrent
<1>10. ASSUME NEW w \in Worker, NEW t \in Task, RetryUpstream(w, t) PROVE SeenIsCurrent'
  BY <1>10, OwnerAssumption DEF RetryUpstream, Goto, At, row, lease, work, TypeOK, RowOK,
     LeaseOK, WorkOK, SeenIsCurrent
<1>11. ASSUME NEW w \in Worker, NEW t \in Task, UpstreamReturns(w, t) PROVE SeenIsCurrent'
  BY <1>11, OwnerAssumption DEF UpstreamReturns, Goto, At, row, lease, work, TypeOK, RowOK,
     LeaseOK, WorkOK, SeenIsCurrent
<1>12. ASSUME NEW w \in Worker, NEW t \in Task, RefundAsyncImageBilling(w, t) PROVE SeenIsCurrent'
  BY <1>12, OwnerAssumption DEF RefundAsyncImageBilling, ClearLease, Goto, MayRefund, At, row,
     lease, work, TypeOK, RowOK, LeaseOK, WorkOK, SeenIsCurrent
<1>13. ASSUME NEW w \in Worker, NEW t \in Task, CompleteAsyncImageGeneration(w, t)
       PROVE  SeenIsCurrent'
  BY <1>13, OwnerAssumption DEF CompleteAsyncImageGeneration, SettleWith, Goto, At, row, lease,
     work, TypeOK, RowOK, LeaseOK, WorkOK, SeenIsCurrent
<1>14. ASSUME NEW w \in Worker, NEW t \in Task, CompleteWithArchiveFailure(w, t)
       PROVE  SeenIsCurrent'
  BY <1>14, OwnerAssumption DEF CompleteWithArchiveFailure, SettleWith, ClearLease, Goto, At,
     row, lease, work, TypeOK, RowOK, LeaseOK, WorkOK, SeenIsCurrent
<1>15. ASSUME NEW w \in Worker, NEW t \in Task, ReadSettled(w, t) PROVE SeenIsCurrent'
  BY <1>15, OwnerAssumption DEF ReadSettled, Goto, At, row, lease, work, TypeOK, RowOK, LeaseOK,
     WorkOK, SeenIsCurrent
<1>16. ASSUME NEW w \in Worker, NEW t \in Task, MarkAsyncImageOutputAvailable(w, t)
       PROVE  SeenIsCurrent'
  BY <1>16, OwnerAssumption DEF MarkAsyncImageOutputAvailable, ArchiveOutcome, ClearLease, Goto,
     MayArchive, At, row, lease, work, TypeOK, RowOK, LeaseOK, WorkOK, SeenIsCurrent
<1>17. ASSUME NEW w \in Worker, NEW t \in Task, ScheduleAsyncImageArchiveRetry(w, t)
       PROVE  SeenIsCurrent'
  BY <1>17, OwnerAssumption DEF ScheduleAsyncImageArchiveRetry, ArchiveOutcome, ClearLease,
     Goto, MayArchive, At, row, lease, work, TypeOK, RowOK, LeaseOK, WorkOK, SeenIsCurrent
<1>18. ASSUME NEW w \in Worker, NEW t \in Task, FailAsyncImageArchive(w, t) PROVE SeenIsCurrent'
  BY <1>18, OwnerAssumption DEF FailAsyncImageArchive, ArchiveOutcome, ClearLease, Goto,
     MayArchive, At, row, lease, work, TypeOK, RowOK, LeaseOK, WorkOK, SeenIsCurrent
<1>19. ASSUME NEW w \in Worker, NEW t \in Task, GivesUp(w, t) PROVE SeenIsCurrent'
  BY <1>19, OwnerAssumption DEF GivesUp, Goto, At, row, lease, work, TypeOK, RowOK, LeaseOK,
     WorkOK, SeenIsCurrent
<1>20. ASSUME NEW t \in Task, CreateAsyncImageTaskWithReservation(t) PROVE SeenIsCurrent'
  BY <1>20, OwnerAssumption DEF CreateAsyncImageTaskWithReservation, At, row, lease, work,
     TypeOK, RowOK, LeaseOK, WorkOK, SeenIsCurrent
<1>21. ASSUME NEW t \in Task, LeaseRunsOut(t) PROVE SeenIsCurrent'
  BY <1>21, OwnerAssumption DEF LeaseRunsOut, At, row, lease, work, TypeOK, RowOK, LeaseOK,
     WorkOK, SeenIsCurrent
<1>22. ASSUME NEW t \in Task, BecomesDue(t) PROVE SeenIsCurrent'
  BY <1>22, OwnerAssumption DEF BecomesDue, At, row, lease, work, TypeOK, RowOK, LeaseOK,
     WorkOK, SeenIsCurrent
<1>23. ASSUME NEW t \in Task, ResetAsyncImageArchiveForRetry(t) PROVE SeenIsCurrent'
  BY <1>23, OwnerAssumption DEF ResetAsyncImageArchiveForRetry, ClearLease, At, row, lease,
     work, TypeOK, RowOK, LeaseOK, WorkOK, SeenIsCurrent
<1>24. ASSUME NEW t \in Task, MarkExpiredAsyncImageTask(t) PROVE SeenIsCurrent'
  BY <1>24, OwnerAssumption DEF MarkExpiredAsyncImageTask, At, row, lease, work, TypeOK, RowOK,
     LeaseOK, WorkOK, SeenIsCurrent
<1>25. ASSUME ResetSubscription PROVE SeenIsCurrent'
  BY <1>25, OwnerAssumption DEF ResetSubscription, At, row, lease, work, TypeOK, RowOK, LeaseOK,
     WorkOK, SeenIsCurrent
<1> QED
  BY <1>1, <1>2, <1>3, <1>4, <1>5, <1>6, <1>7, <1>8, <1>8a, <1>9, <1>10, <1>11, <1>12, <1>13,
     <1>14, <1>15, <1>16, <1>17, <1>18, <1>19, <1>20, <1>21, <1>22, <1>23, <1>24, <1>25
     DEF Next, WorkerStep, Generate, Archive

LEMMA LeaseInvariant == Spec => [](TakenUpExists /\ LeaseHeld /\ SeenIsCurrent)
<1>1. Init => TakenUpExists /\ LeaseHeld /\ SeenIsCurrent
  BY DEF Init, TakenUpExists, LeaseHeld, SeenIsCurrent, AtWork, Generating
<1>2. IInv /\ TakenUpExists /\ LeaseHeld /\ SeenIsCurrent /\ [Next]_vars
        => (TakenUpExists /\ LeaseHeld /\ SeenIsCurrent)'
  <2>1. ASSUME IInv, TakenUpExists, LeaseHeld, SeenIsCurrent, Next
        PROVE  (TakenUpExists /\ LeaseHeld /\ SeenIsCurrent)'
    BY <2>1, TakenUpStep, LeaseHeldStep, SeenStep DEF IInv
  <2>2. ASSUME TakenUpExists, LeaseHeld, SeenIsCurrent, UNCHANGED vars
        PROVE  (TakenUpExists /\ LeaseHeld /\ SeenIsCurrent)'
    BY <2>2 DEF vars, row, lease, work, counts, TakenUpExists, LeaseHeld, SeenIsCurrent
  <2> QED
    BY <2>1, <2>2
<1> QED
  BY <1>1, <1>2, InductiveInvariant, PTL DEF Spec

\* As long as no lease ran out under a worker, one goroutine at most generates for a task,
\* although workers claim from lists that are out of date and administrators clear leases.
THEOREM GeneratesAloneTheorem == Spec => []GeneratesAlone
<1>1. LeaseHeld => GeneratesAlone
  BY DEF LeaseHeld, GeneratesAlone, Generating, AtWork
<1> QED
  BY <1>1, LeaseInvariant, PTL

LEMMA AttemptsStep ==
    ASSUME TypeOK, SeenIsCurrent, Next, NEW u \in Task
    PROVE  attempts'[u] \in {attempts[u], attempts[u] + 1} \/ resets' # resets
<1>1. ASSUME NEW w \in Worker, NEW t \in Task, NEW o, NEW n, NEW d, ArchiveOutcome(w, t, o, n, d),
             MayArchive(w, t) => n \in {attempts[t], attempts[t] + 1}
      PROVE  attempts'[u] \in {attempts[u], attempts[u] + 1}
  BY <1>1 DEF ArchiveOutcome, TypeOK, RowOK
<1>2. ASSUME NEW w \in Worker, NEW t \in Task, At(w, t, "archive"), MayArchive(w, t)
      PROVE  seen[w][t] = attempts[t]
  BY <1>2 DEF At, MayArchive, SeenIsCurrent
<1>3. ASSUME NEW w \in Worker, NEW t \in Task, Archive(w, t)
      PROVE  attempts'[u] \in {attempts[u], attempts[u] + 1}
  <2>1. CASE MarkAsyncImageOutputAvailable(w, t)
    BY <1>1, <2>1 DEF MarkAsyncImageOutputAvailable
  <2>2. CASE ScheduleAsyncImageArchiveRetry(w, t)
    <3>1. ArchiveOutcome(w, t, "archiving", seen[w][t] + 1, FALSE)
      BY <2>2 DEF ScheduleAsyncImageArchiveRetry
    <3>2. MayArchive(w, t) => seen[w][t] + 1 = attempts[t] + 1
      BY <1>2, <3>1 DEF ArchiveOutcome
    <3> QED
      BY <1>1, <3>1, <3>2
  <2>3. CASE FailAsyncImageArchive(w, t)
    <3>1. ArchiveOutcome(w, t, "failed", seen[w][t] + 1, due[t])
      BY <2>3 DEF FailAsyncImageArchive
    <3>2. MayArchive(w, t) => seen[w][t] + 1 = attempts[t] + 1
      BY <1>2, <3>1 DEF ArchiveOutcome
    <3> QED
      BY <1>1, <3>1, <3>2
  <2> QED
    BY <1>3, <2>1, <2>2, <2>3 DEF Archive
<1>4. ASSUME NEW t \in Task, ResetAsyncImageArchiveForRetry(t) PROVE resets' # resets
  BY <1>4 DEF ResetAsyncImageArchiveForRetry, TypeOK, CountsOK
<1>5. ASSUME NEW w \in Worker, ClaimSelect(w) \/ HandlerReturns(w) \/ Crash(w)
      PROVE  attempts' = attempts
  BY <1>5 DEF ClaimSelect, HandlerReturns, Crash, row
<1>6. ASSUME NEW w \in Worker, NEW t \in Task,
             ClaimUpdate(w, t) \/ ClaimRead(w, t) \/ GivesUp(w, t) \/ Generate(w, t)
      PROVE  attempts' = attempts
  BY <1>6 DEF ClaimUpdate, ClaimRead, GivesUp, Generate, ScheduleAsyncImageGenerationRetry,
     MarkAsyncImageTaskRunning, UpdateAsyncImageTaskWithLease, CallUpstream, CannotCall,
     RetryUpstream, UpstreamReturns,
     RefundAsyncImageBilling, CompleteAsyncImageGeneration, CompleteWithArchiveFailure,
     ReadSettled, row
<1>7. ASSUME NEW t \in Task, \/ CreateAsyncImageTaskWithReservation(t) \/ LeaseRunsOut(t)
                             \/ BecomesDue(t) \/ MarkExpiredAsyncImageTask(t)
      PROVE  attempts' = attempts
  BY <1>7 DEF CreateAsyncImageTaskWithReservation, LeaseRunsOut, BecomesDue,
     MarkExpiredAsyncImageTask, row
<1>8. ASSUME ResetSubscription PROVE attempts' = attempts
  BY <1>8 DEF ResetSubscription, row
<1> QED
  BY <1>3, <1>4, <1>5, <1>6, <1>7, <1>8 DEF Next, WorkerStep

\* Archive attempts are counted one by one although each worker counts from its own copy of
\* the row: the statements that write the number ask for the lease, and the owner's copy
\* is current.
THEOREM AttemptsTheorem == Spec => AttemptsCounted
<1>1. IInv /\ SeenIsCurrent /\ [Next]_vars
        => [\A t \in Task : \/ attempts'[t] \in {attempts[t], attempts[t] + 1}
                            \/ resets' # resets]_vars
  <2>1. ASSUME IInv, SeenIsCurrent, Next, NEW t \in Task
        PROVE  attempts'[t] \in {attempts[t], attempts[t] + 1} \/ resets' # resets
    BY <2>1, AttemptsStep DEF IInv
  <2> QED
    BY <2>1
<1> QED
  BY <1>1, InductiveInvariant, LeaseInvariant, PTL DEF Spec, AttemptsCounted

-----------------------------------------------------------------------------
(* Calling the upstream *)

\* How worker v gets to record a channel for task u, and to call it.
Calls(v, u, p) ==
    \/ p = "calling" /\ pc[v][u] = "call" /\ owner[u] = v
    \/ p = "upstream" /\ pc[v][u] = "calling"

\* Only UpdateAsyncImageTaskWithLease, by the owner of the lease, leads to a call.
LEMMA ChangesToUpstream ==
    ASSUME TypeOK, [Next]_vars, NEW v \in Worker, NEW u \in Task,
           NEW p \in {"calling", "upstream"}, pc[v][u] # p, pc'[v][u] = p
    PROVE  Calls(v, u, p)
<1>a. TypeOK /\ pc'[v][u] # pc[v][u]
  OBVIOUS
<1>1. ASSUME NEW w \in Worker, ClaimSelect(w) PROVE Calls(v, u, p)
  BY <1>1, <1>a DEF ClaimSelect, work
<1>2. ASSUME NEW w \in Worker, HandlerReturns(w) PROVE Calls(v, u, p)
  BY <1>2, <1>a DEF HandlerReturns, TypeOK, WorkOK
<1>3. ASSUME NEW w \in Worker, Crash(w) PROVE Calls(v, u, p)
  BY <1>3, <1>a DEF Crash, TypeOK, WorkOK
<1>4. ASSUME NEW w \in Worker, NEW t \in Task, ClaimUpdate(w, t) PROVE Calls(v, u, p)
  BY <1>4, <1>a, GotoElsewhere DEF ClaimUpdate, PC, AtWork
<1>5. ASSUME NEW w \in Worker, NEW t \in Task, ClaimRead(w, t) PROVE Calls(v, u, p)
  BY <1>5, <1>a, GotoElsewhere DEF ClaimRead, PC, AtWork
<1>6. ASSUME NEW w \in Worker, NEW t \in Task, ScheduleAsyncImageGenerationRetry(w, t)
      PROVE  Calls(v, u, p)
  BY <1>6, <1>a, GotoElsewhere DEF ScheduleAsyncImageGenerationRetry, PC, AtWork
<1>7. ASSUME NEW w \in Worker, NEW t \in Task, MarkAsyncImageTaskRunning(w, t)
      PROVE  Calls(v, u, p)
  BY <1>7, <1>a, GotoElsewhere DEF MarkAsyncImageTaskRunning, PC, AtWork
<1>8. ASSUME NEW w \in Worker, NEW t \in Task, CallUpstream(w, t) PROVE Calls(v, u, p)
  <2>1. w = v /\ u = t /\ p = "upstream"
    BY <1>8, <1>a, GotoElsewhere DEF CallUpstream, PC, AtWork
  <2> QED
    BY <1>8, <2>1 DEF CallUpstream, At, Calls
<1>8a. ASSUME NEW w \in Worker, NEW t \in Task, UpdateAsyncImageTaskWithLease(w, t)
       PROVE  Calls(v, u, p)
  <2>1. w = v /\ u = t /\ p = "calling" /\ MayCall(w, t)
    BY <1>8a, <1>a, GotoElsewhere DEF UpdateAsyncImageTaskWithLease, PC, AtWork
  <2> QED
    BY <1>8a, <2>1 DEF UpdateAsyncImageTaskWithLease, MayCall, At, Calls
<1>9. ASSUME NEW w \in Worker, NEW t \in Task, CannotCall(w, t) PROVE Calls(v, u, p)
  BY <1>9, <1>a, GotoElsewhere DEF CannotCall, PC, AtWork
<1>10. ASSUME NEW w \in Worker, NEW t \in Task, RetryUpstream(w, t)
       PROVE  Calls(v, u, p)
  BY <1>10, <1>a, GotoElsewhere DEF RetryUpstream, PC, AtWork
<1>11. ASSUME NEW w \in Worker, NEW t \in Task, UpstreamReturns(w, t)
       PROVE  Calls(v, u, p)
  BY <1>11, <1>a, GotoElsewhere DEF UpstreamReturns, PC, AtWork
<1>12. ASSUME NEW w \in Worker, NEW t \in Task, RefundAsyncImageBilling(w, t)
       PROVE  Calls(v, u, p)
  BY <1>12, <1>a, GotoElsewhere DEF RefundAsyncImageBilling, PC, AtWork
<1>13. ASSUME NEW w \in Worker, NEW t \in Task, CompleteAsyncImageGeneration(w, t)
       PROVE  Calls(v, u, p)
  BY <1>13, <1>a, GotoElsewhere DEF CompleteAsyncImageGeneration, PC, AtWork
<1>14. ASSUME NEW w \in Worker, NEW t \in Task, CompleteWithArchiveFailure(w, t)
       PROVE  Calls(v, u, p)
  BY <1>14, <1>a, GotoElsewhere DEF CompleteWithArchiveFailure, PC, AtWork
<1>15. ASSUME NEW w \in Worker, NEW t \in Task, ReadSettled(w, t) PROVE Calls(v, u, p)
  BY <1>15, <1>a, GotoElsewhere DEF ReadSettled, PC, AtWork
<1>16. ASSUME NEW w \in Worker, NEW t \in Task, MarkAsyncImageOutputAvailable(w, t)
       PROVE  Calls(v, u, p)
  BY <1>16, <1>a, GotoElsewhere DEF MarkAsyncImageOutputAvailable, PC, AtWork, ArchiveOutcome
<1>17. ASSUME NEW w \in Worker, NEW t \in Task, ScheduleAsyncImageArchiveRetry(w, t)
       PROVE  Calls(v, u, p)
  BY <1>17, <1>a, GotoElsewhere DEF ScheduleAsyncImageArchiveRetry, PC, AtWork, ArchiveOutcome
<1>18. ASSUME NEW w \in Worker, NEW t \in Task, FailAsyncImageArchive(w, t)
       PROVE  Calls(v, u, p)
  BY <1>18, <1>a, GotoElsewhere DEF FailAsyncImageArchive, PC, AtWork, ArchiveOutcome
<1>19. ASSUME NEW w \in Worker, NEW t \in Task, GivesUp(w, t) PROVE Calls(v, u, p)
  BY <1>19, <1>a, GotoElsewhere DEF GivesUp, PC, AtWork
<1>20. ASSUME NEW t \in Task, CreateAsyncImageTaskWithReservation(t)
       PROVE  Calls(v, u, p)
  BY <1>20, <1>a DEF CreateAsyncImageTaskWithReservation, work
<1>21. ASSUME NEW t \in Task, LeaseRunsOut(t) PROVE Calls(v, u, p)
  BY <1>21, <1>a DEF LeaseRunsOut, work
<1>22. ASSUME NEW t \in Task, BecomesDue(t) PROVE Calls(v, u, p)
  BY <1>22, <1>a DEF BecomesDue, work
<1>23. ASSUME NEW t \in Task, ResetAsyncImageArchiveForRetry(t) PROVE Calls(v, u, p)
  BY <1>23, <1>a DEF ResetAsyncImageArchiveForRetry, work
<1>24. ASSUME NEW t \in Task, MarkExpiredAsyncImageTask(t) PROVE Calls(v, u, p)
  BY <1>24, <1>a DEF MarkExpiredAsyncImageTask, work
<1>25. ASSUME ResetSubscription PROVE Calls(v, u, p)
  BY <1>25, <1>a DEF ResetSubscription, work
<1>b. CASE UNCHANGED vars
  BY <1>a, <1>b DEF vars, work
<1> QED
  BY <1>b, <1>1, <1>2, <1>3, <1>4, <1>5, <1>6, <1>7, <1>8, <1>8a, <1>9, <1>10, <1>11, <1>12, <1>13,
     <1>14, <1>15, <1>16, <1>17, <1>18, <1>19, <1>20, <1>21, <1>22, <1>23, <1>24, <1>25
     DEF Next, WorkerStep, Generate, Archive

\* generateAsyncImageTask records a channel only for an open reservation, since the worker
\* that does owns the lease and whoever makes the billing final takes the lease away; and it
\* calls that channel for a closed one only after it lost its lease, which takes a lease
\* that ran out under a worker.
THEOREM CallsAreOpen == Spec => NoCallAfterFinal
<1> DEFINE Fenced ==
        \A w \in Worker, t \in Task :
          /\ pc[w][t] # "calling" /\ pc'[w][t] = "calling" => billing[t] = "reserved"
          /\ pc[w][t] # "upstream" /\ pc'[w][t] = "upstream" =>
                billing[t] = "reserved" \/ (owner[t] # w /\ stalls > 0)
<1>1. IInv /\ LeaseHeld /\ [Next]_vars => Fenced
  <2> SUFFICES ASSUME IInv, LeaseHeld, [Next]_vars, NEW w \in Worker, NEW t \in Task
               PROVE  /\ pc[w][t] # "calling" /\ pc'[w][t] = "calling" => billing[t] = "reserved"
                      /\ pc[w][t] # "upstream" /\ pc'[w][t] = "upstream" =>
                            billing[t] = "reserved" \/ (owner[t] # w /\ stalls > 0)
    OBVIOUS
  <2>1. TypeOK /\ OwnedReserved /\ stalls \in Nat
    BY BoundAssumption DEF IInv, TypeOK, CountsOK
  <2>2. ASSUME pc[w][t] # "calling", pc'[w][t] = "calling" PROVE billing[t] = "reserved"
    <3>1. pc[w][t] = "call" /\ owner[t] = w
      BY <2>1, <2>2, ChangesToUpstream DEF Calls
    <3> QED
      BY <2>1, <3>1 DEF OwnedReserved, Generating
  <2>3. ASSUME pc[w][t] # "upstream", pc'[w][t] = "upstream"
        PROVE  billing[t] = "reserved" \/ (owner[t] # w /\ stalls > 0)
    <3>1. pc[w][t] \in Generating
      BY <2>1, <2>3, ChangesToUpstream DEF Calls, Generating
    <3>2. owner[t] = w => billing[t] = "reserved"
      BY <2>1, <3>1 DEF OwnedReserved
    <3>3. stalls = 0 => billing[t] = "reserved"
      BY <3>1 DEF LeaseHeld
    <3> QED
      BY <2>1, <3>2, <3>3
  <2> QED
    BY <2>2, <2>3
<1>2. IInv /\ LeaseHeld /\ [Next]_vars => [Fenced]_vars
  BY <1>1
<1> QED
  BY <1>2, InductiveInvariant, LeaseInvariant, PTL DEF Spec, NoCallAfterFinal

=============================================================================

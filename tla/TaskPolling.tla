---------------------------- MODULE TaskPolling ----------------------------
(***************************************************************************)
(* Video and music tasks: the polling passes that follow them upstream     *)
(* (service/task_polling.go), the charge they adjust                       *)
(* (service/task_billing.go, model/task.go) and the requests that look a   *)
(* task up (relay/relay_task.go).                                          *)
(*                                                                         *)
(* A pass reads the unfinished rows, asks the upstream about each and      *)
(* writes its copy of the row back: a video row if its status is still the *)
(* one that was read, a Suno row in any case.  Who finishes a row settles  *)
(* or refunds its charge in further statements.  Passes run one at a time  *)
(* while the lease of their system task lasts and overlap when it was lost.*)
(*                                                                         *)
(* Each task is on a channel of its own, so that its part of a pass runs   *)
(* independently of the others.  A row is reduced to its status, whether   *)
(* its progress is "100%", and its quota; SUBMITTED is told apart from     *)
(* QUEUED by nothing here and is left out, as are rows from before the     *)
(* legacy cutoff.                                                          *)
(***************************************************************************)
EXTENDS Integers

CONSTANTS
    Task,          \* task rows
    Suno,          \* those of the Suno platform; the others are video tasks
    Realtime,      \* those on a Gemini or Vertex channel
    Orphan,        \* those whose channel may be deleted
    Pass,          \* polling passes that may overlap
    Reader,        \* requests that look a task up
    SubmitQuota,   \* amounts a submission may be priced at
    ActualQuota,   \* amounts it may turn out to cost
    EarlyFull,     \* whether an upstream may report 100% before the end
    MaxReads,      \* bound: lookups
    MaxFaults      \* bound: statements that fail and passes that die

ASSUME KindAssumption ==
    Suno \subseteq Task /\ Realtime \subseteq Task \ Suno /\ Orphan \subseteq Task
ASSUME ActorAssumption == Pass \intersect Reader = {}
ASSUME QuotaAssumption == SubmitQuota \subseteq Nat /\ ActualQuota \subseteq Nat
ASSUME BoundAssumption == MaxReads \in Nat /\ MaxFaults \in Nat /\ EarlyFull \in BOOLEAN

VARIABLES
    row,         \* the row of a task
    late,        \* submit_time < cutoff
    paid,        \* what the wallet or subscription has paid for a task
    tokenPaid,   \* what was taken from its token
    owed,        \* history: the quota a row was inserted with less what was paid by then
    tokenOwed,   \* the same of the token
    stage,       \* where a pass is: "idle", "sweep" or "poll"
    pc,          \* where an actor is with a task
    snap,        \* the row as the actor read it
    copy,        \* the actor's copy, with what it is about to write
    reads, faults

books  == <<paid, tokenPaid>>
past   == <<owed, tokenOwed>>
counts == <<reads, faults>>
vars   == <<row, late, books, past, stage, pc, snap, copy, counts>>

Actor == Pass \union Reader
Final == {"SUCCESS", "FAILURE"}
Open  == {"NOT_START", "PREPARING", "QUEUED", "IN_PROGRESS"}

Absent == [status |-> "absent", full |-> FALSE, quota |-> 0]

\* HasUnfinishedSyncTasks, and what both lists of a pass ask of a row.
Unfinished(t) == row[t].status \in Open /\ ~row[t].full
TimedOutUnstarted(t) == row[t].status = "NOT_START" /\ late[t]
TimedOut(t) == Unfinished(t) /\ late[t]

\* Where an actor that finishes a task, or saves a Suno row, still has statements to make.
Billing == {"settle", "settleToken", "saveQuota", "refund", "refundToken",
            "refundFirst", "refundFirstToken", "saveAnyway"}

Finished(s, r) == [r EXCEPT !.status = s, !.full = TRUE]
Requoted(q, r) == [r EXCEPT !.quota = q]

Goto(a, t, p) == pc' = [pc EXCEPT ![a][t] = p]
Fault == faults < MaxFaults /\ faults' = faults + 1

Init ==
    /\ row = [t \in Task |-> Absent]
    /\ late = [t \in Task |-> FALSE]
    /\ paid = [t \in Task |-> 0] /\ tokenPaid = [t \in Task |-> 0]
    /\ owed = [t \in Task |-> 0] /\ tokenOwed = [t \in Task |-> 0]
    /\ stage = [p \in Pass |-> "idle"]
    /\ pc = [a \in Actor |-> [t \in Task |-> "none"]]
    /\ snap = [a \in Actor |-> [t \in Task |-> Absent]]
    /\ copy = [a \in Actor |-> [t \in Task |-> Absent]]
    /\ reads = 0 /\ faults = 0

\* SettleBilling adjusts a charge of b to q at funding source and token; an error, which is
\* only logged, leaves both as they were or the token behind.
SettledAt(b, q) == {<<q, q>>, <<b, b>>, <<q, b>>}

\* RelayTask: the first attempt pre-consumes what it is priced at; a later attempt or the
\* upstream's answer may set another price, which is settled.  Then the row is inserted with
\* that price, whether or not the settlement succeeded; when the insert fails, the charge
\* is left without a row.  A video task may have input to prepare first.
RelayTask(t) ==
    /\ row[t] = Absent /\ paid[t] = 0 /\ tokenPaid[t] = 0
    /\ \E b, q \in SubmitQuota, s \in {"NOT_START", "PREPARING"}, inserted \in BOOLEAN :
         \E c \in SettledAt(b, q) :
           /\ s = "PREPARING" => t \notin Suno
           /\ paid' = [paid EXCEPT ![t] = c[1]]
           /\ tokenPaid' = [tokenPaid EXCEPT ![t] = c[2]]
           /\ IF inserted
              THEN /\ row' = [row EXCEPT ![t] = [status |-> s, full |-> FALSE, quota |-> q]]
                   /\ owed' = [owed EXCEPT ![t] = q - c[1]]
                   /\ tokenOwed' = [tokenOwed EXCEPT ![t] = q - c[2]]
              ELSE UNCHANGED <<row, owed, tokenOwed>>
    /\ UNCHANGED <<late, stage, pc, snap, copy, counts>>

\* submit_time falls behind the timeout.
BecomesLate(t) ==
    /\ row[t] # Absent /\ ~late[t]
    /\ late' = [late EXCEPT ![t] = TRUE]
    /\ UNCHANGED <<row, books, past, stage, pc, snap, copy, counts>>

-----------------------------------------------------------------------------
(* A pass: RunTaskPollingOnce *)

AllDone(p) == \A t \in Task : pc[p][t] \in {"none", "done"}

\* The pass has the rows of S in hand: it reads them and goes to at(t) with each.
Take(p, S, at(_), start(_)) ==
    /\ pc' = [pc EXCEPT ![p] = [t \in Task |-> IF t \in S THEN at(t) ELSE "none"]]
    /\ snap' = [snap EXCEPT ![p] = [t \in Task |-> IF t \in S THEN row[t] ELSE Absent]]
    /\ copy' = [copy EXCEPT ![p] = [t \in Task |-> IF t \in S THEN start(t) ELSE Absent]]

\* sweepTimedOutTasks reads the rows that timed out and fails its copies.
sweepTimedOutTasks(p) ==
    /\ stage[p] = "idle" /\ \E t \in Task : Unfinished(t)
    /\ stage' = [stage EXCEPT ![p] = "sweep"]
    /\ Take(p, {t \in Task : TimedOut(t)}, LAMBDA t : "save", LAMBDA t : Finished("FAILURE", row[t]))
    /\ UNCHANGED <<row, late, books, past, counts>>

\* GetPreparingVideoTasks and GetAllUnFinishSyncTasks, once the sweep is over.  A row that
\* is activated between the two is taken as it is in the second: the copy of the first
\* could write nothing.
ListUnfinished(p) ==
    /\ stage[p] = "sweep" /\ AllDone(p)
    /\ stage' = [stage EXCEPT ![p] = "poll"]
    /\ Take(p, {t \in Task : row[t].status = "PREPARING" \/ Unfinished(t)},
            LAMBDA t : IF row[t].status = "PREPARING" THEN "prepare" ELSE "fetch",
            LAMBDA t : row[t])
    /\ UNCHANGED <<row, late, books, past, counts>>

PassEnds(p) ==
    /\ stage[p] = "poll" /\ AllDone(p)
    /\ stage' = [stage EXCEPT ![p] = "idle"]
    /\ Take(p, {}, LAMBDA t : "none", LAMBDA t : Absent)
    /\ UNCHANGED <<row, late, books, past, counts>>

\* updatePreparingVideoTask: still waiting, or submitted upstream, or failed.
updatePreparingVideoTask(p, t) ==
    /\ pc[p][t] = "prepare"
    /\ \/ Goto(p, t, "done") /\ UNCHANGED copy
       \/ /\ \E r \in {[copy[p][t] EXCEPT !.status = "QUEUED"], Finished("FAILURE", copy[p][t])} :
               copy' = [copy EXCEPT ![p][t] = r]
          /\ Goto(p, t, "save")
    /\ UNCHANGED <<row, late, books, past, stage, snap, counts>>

\* What an upstream may say of a task; any other status is refused.
ReportedUnchecked(r) ==
    {[r EXCEPT !.status = s] : s \in {"QUEUED", "IN_PROGRESS", "UNKNOWN"}}
Reported(r) ==
    {Finished(s, r) : s \in Final}
      \union {[r EXCEPT !.status = s, !.full = f] :
                 s \in {"QUEUED", "IN_PROGRESS"}, f \in {FALSE, EarlyFull}}

\* updateVideoSingleTask up to its write: the upstream reports a status, or nothing that
\* changes the row (an error, a rate limit, an unknown status, ctx cancelled, all as before).
FetchVideo(p, t) ==
    /\ pc[p][t] = "fetch" /\ t \notin Suno
    /\ \/ Goto(p, t, "done") /\ UNCHANGED copy
       \/ \E r \in Reported(copy[p][t]) :
            /\ copy' = [copy EXCEPT ![p][t] = r]
            /\ Goto(p, t, "save")
    /\ UNCHANGED <<row, late, books, past, stage, snap, counts>>

\* updateSunoTasks up to its write.  The status is whatever the upstream names (any string
\* that is neither final nor our own PREPARING acts like the open ones here); progress is not
\* taken from the response.  A task that failed is refunded before it is saved.
FetchSuno(p, t) ==
    /\ pc[p][t] = "fetch" /\ t \in Suno
    /\ \/ Goto(p, t, "done") /\ UNCHANGED copy
       \/ \E s \in {copy[p][t].status, "NOT_START", "QUEUED", "IN_PROGRESS", "SUCCESS"} :
            /\ copy' = [copy EXCEPT ![p][t] = [@ EXCEPT !.status = s, !.full = (s = "SUCCESS")]]
            /\ Goto(p, t, "saveAnyway")
       \/ \E s \in {"NOT_START", "QUEUED", "IN_PROGRESS"} \union Final :
            /\ copy' = [copy EXCEPT ![p][t] = Finished(s, @)]
            /\ Goto(p, t, "refundFirst")
    /\ UNCHANGED <<row, late, books, past, stage, snap, counts>>

\* CacheGetChannel fails: TaskBulkUpdateByID, whatever the row is by now.
ChannelGone(p, t) ==
    /\ pc[p][t] = "fetch" /\ t \in Orphan
    /\ row' = [row EXCEPT ![t] = Finished("FAILURE", @)]
    /\ Goto(p, t, "done")
    /\ UNCHANGED <<late, books, past, stage, snap, copy, counts>>

-----------------------------------------------------------------------------
(* Writing the row and billing *)

\* WHERE status = fromStatus.
SwapsAlways(a, t) == TRUE
Swaps(a, t) == row[t].status = snap[a][t].status

\* shouldSettle and shouldRefund: what a pass that wrote row r goes on to.
AfterSwap(r) ==
    IF r.status = "SUCCESS" THEN "settle" ELSE IF r.status = "FAILURE" THEN "refund" ELSE "done"

\* UpdateWithStatus; only the winner bills.
UpdateWithStatus(p, t) ==
    /\ pc[p][t] = "save"
    /\ IF Swaps(p, t)
       THEN /\ row' = [row EXCEPT ![t] = copy[p][t]]
            /\ Goto(p, t, AfterSwap(copy[p][t]))
       ELSE UNCHANGED row /\ Goto(p, t, "done")
    /\ UNCHANGED <<late, books, past, stage, snap, copy, counts>>

\* Update saves a Suno row as a whole, with the submit time the upstream gave.
Update(p, t) ==
    /\ pc[p][t] = "saveAnyway"
    /\ row' = [row EXCEPT ![t] = copy[p][t]]
    /\ \E l \in BOOLEAN : late' = [late EXCEPT ![t] = l]
    /\ Goto(p, t, "done")
    /\ UNCHANGED <<books, past, stage, snap, copy, counts>>

\* RefundTaskQuota: the funding source; nothing else is tried when that fails.
RefundTaskQuota(p, t) ==
    /\ \/ pc[p][t] = "refund" /\ Goto(p, t, "refundToken")
       \/ pc[p][t] = "refundFirst" /\ Goto(p, t, "refundFirstToken")
    /\ paid' = [paid EXCEPT ![t] = @ - copy[p][t].quota]
    /\ UNCHANGED <<row, late, tokenPaid, past, stage, snap, copy, counts>>

\* Its second part: the token.
RefundToken(p, t) ==
    /\ \/ pc[p][t] = "refundToken" /\ Goto(p, t, "done")
       \/ pc[p][t] = "refundFirstToken" /\ Goto(p, t, "saveAnyway")
    /\ tokenPaid' = [tokenPaid EXCEPT ![t] = @ - copy[p][t].quota]
    /\ UNCHANGED <<row, late, paid, past, stage, snap, copy, counts>>

\* settleTaskBillingOnComplete: the charge is kept (per-call billing, no usage reported, or
\* a subscription that cannot pay), or recalculated and the funding source pays the rest.
settleTaskBillingOnComplete(p, t) ==
    /\ pc[p][t] = "settle"
    /\ \/ Goto(p, t, "done") /\ UNCHANGED <<paid, copy>>
       \/ \E q \in ActualQuota :
            /\ copy' = [copy EXCEPT ![p][t] = Requoted(q, @)]
            /\ paid' = [paid EXCEPT ![t] = @ + (q - snap[p][t].quota)]
            /\ Goto(p, t, "settleToken")
    /\ UNCHANGED <<row, late, tokenPaid, past, stage, snap, counts>>

\* recalculateTaskQuota, second part: the token.
SettleToken(p, t) ==
    /\ pc[p][t] = "settleToken"
    /\ tokenPaid' = [tokenPaid EXCEPT ![t] = @ + (copy[p][t].quota - snap[p][t].quota)]
    /\ Goto(p, t, "saveQuota")
    /\ UNCHANGED <<row, late, paid, past, stage, snap, copy, counts>>

UpdatePrivateData(p, t) ==
    /\ pc[p][t] = "saveQuota"
    /\ Goto(p, t, "done")
    /\ UNCHANGED <<row, late, books, past, stage, snap, copy, counts>>
UpdateQuotaAndPrivateData(p, t) ==
    /\ pc[p][t] = "saveQuota"
    /\ row' = [row EXCEPT ![t] = Requoted(copy[p][t].quota, @)]
    /\ Goto(p, t, "done")
    /\ UNCHANGED <<late, books, past, stage, snap, copy, counts>>

-----------------------------------------------------------------------------
(* Faults *)

\* Where an actor goes on when the statement it is at fails, which is only logged.
AfterFailure(place) ==
    IF place = "settleToken" THEN "saveQuota"
    ELSE IF place \in {"refundFirst", "refundFirstToken"} THEN "saveAnyway" ELSE "done"

StatementFails(p, t) ==
    /\ pc[p][t] \in {"save"} \union Billing
    /\ Fault
    /\ Goto(p, t, AfterFailure(pc[p][t]))
    /\ UNCHANGED <<row, late, books, past, stage, snap, copy, reads>>

\* The node goes down in the middle of a pass.
Crash(p) ==
    /\ stage[p] # "idle" /\ Fault
    /\ stage' = [stage EXCEPT ![p] = "idle"]
    /\ Take(p, {}, LAMBDA t : "none", LAMBDA t : Absent)
    /\ UNCHANGED <<row, late, books, past, reads>>

-----------------------------------------------------------------------------
(* Looking a task up: videoFetchByIDRespBodyBuilder, tryRealtimeFetch *)

videoFetchByID(u, t) ==
    /\ t \in Realtime /\ row[t] # Absent /\ pc[u][t] = "none" /\ reads < MaxReads
    /\ reads' = reads + 1
    /\ Goto(u, t, "fetch")
    /\ snap' = [snap EXCEPT ![u][t] = row[t]]
    /\ copy' = [copy EXCEPT ![u][t] = row[t]]
    /\ UNCHANGED <<row, late, books, past, stage, faults>>

\* The upstream's answer is written if the status is still the one that was read.
tryRealtimeFetch(u, t) ==
    /\ pc[u][t] = "fetch"
    /\ \E r \in Reported(copy[u][t]) \union {copy[u][t]} :
         row' = IF Swaps(u, t) THEN [row EXCEPT ![t] = r] ELSE row
    /\ Goto(u, t, "none")
    /\ UNCHANGED <<late, books, past, stage, snap, copy, counts>>

-----------------------------------------------------------------------------
PollStep(p, t) ==
    \/ updatePreparingVideoTask(p, t) \/ FetchVideo(p, t) \/ FetchSuno(p, t) \/ ChannelGone(p, t)
    \/ UpdateWithStatus(p, t) \/ Update(p, t) \/ RefundTaskQuota(p, t) \/ RefundToken(p, t)
    \/ settleTaskBillingOnComplete(p, t) \/ SettleToken(p, t) \/ UpdateQuotaAndPrivateData(p, t)

PassStep(p) == sweepTimedOutTasks(p) \/ ListUnfinished(p) \/ PassEnds(p)

Next ==
    \/ \E t \in Task : RelayTask(t) \/ BecomesLate(t)
    \/ \E p \in Pass : \/ PassStep(p) \/ Crash(p)
                       \/ \E t \in Task : PollStep(p, t) \/ StatementFails(p, t)
    \/ \E u \in Reader, t \in Task : videoFetchByID(u, t) \/ tryRealtimeFetch(u, t)

Spec == Init /\ [][Next]_vars

(***************************************************************************)
(* Fairness.  The scheduler starts a pass again as long as a row is        *)
(* unfinished, each statement and upstream call returns, and time passes.  *)
(* Nothing is assumed of what the upstream says.                           *)
(***************************************************************************)
Fairness ==
    /\ \A t \in Task : WF_vars(BecomesLate(t))
    /\ \A p \in Pass : WF_vars(PassStep(p)) /\ \A t \in Task : WF_vars(PollStep(p, t))

FairSpec == Spec /\ Fairness

-----------------------------------------------------------------------------
(* Properties *)

Quota == SubmitQuota \union ActualQuota \union {0}
Row == [status : Open \union Final \union {"absent"}, full : BOOLEAN, quota : Quota]
PC == {"none", "done", "prepare", "fetch", "save"} \union Billing

\* Every row, copy and counter keeps its type.
TypeOK ==
    /\ row \in [Task -> Row] /\ late \in [Task -> BOOLEAN]
    /\ paid \in [Task -> Int] /\ tokenPaid \in [Task -> Int]
    /\ owed \in [Task -> Int] /\ tokenOwed \in [Task -> Int]
    /\ stage \in [Pass -> {"idle", "sweep", "poll"}]
    /\ pc \in [Actor -> [Task -> PC]]
    /\ snap \in [Actor -> [Task -> Row]] /\ copy \in [Actor -> [Task -> Row]]
    /\ reads \in 0..MaxReads /\ faults \in 0..MaxFaults

\* What a task is charged, counting the price its row was inserted with as paid: what was
\* really paid differs from it by what the settlement at submission left open.
booked == [t \in Task |-> paid[t] + owed[t]]
tokenBooked == [t \in Task |-> tokenPaid[t] + tokenOwed[t]]

\* "CAS lost: user quota should NOT change (no double refund)" (task_billing_test.go): no
\* task is given back more than its row says was charged for it, which is what was paid
\* unless the settlement at submission failed, by its funding source or its token.
NeverOverRefunded == \A t \in Task : booked[t] >= 0 /\ tokenBooked[t] >= 0

\* While a task is open its charge has not moved from what its row says: no pass with an
\* outdated copy has refunded it, adjusted it or written another quota.
OpenIsCharged ==
    \A t \in Task : row[t].status \in Open =>
        booked[t] = row[t].quota /\ tokenBooked[t] = row[t].quota

\* When nobody is billing a finished task and no statement of a pass was lost, a success is
\* charged what its row says, from both accounts, and a failure has got back what its row
\* said.
FinishedIsBilled ==
    \A t \in Task :
        faults = 0 /\ row[t].status \in Final /\ (\A p \in Pass : pc[p][t] \notin Billing)
          => /\ tokenBooked[t] = booked[t]
             /\ booked[t] = IF row[t].status = "SUCCESS" THEN row[t].quota ELSE 0

\* A finished task stays as it finished, whoever still has an older copy of it.
FinalStays ==
    [][\A t \in Task : row[t].status \in Final => row'[t].status = row[t].status]_vars

\* Every video task finishes, provided no upstream reports 100% before the end (EarlyFull):
\* at the latest the sweep ends it.
EveryTaskFinishes ==
    \A t \in Task \ Suno : row[t].status \in Open ~> row[t].status \in Final

\* "Failed tasks get their pre-consumed quota back in full" (tiered-media-billing design).
FailedIsRefunded == \A t \in Task : row[t].status = "FAILURE" ~> paid[t] = 0

=============================================================================

----------------------------- MODULE AsyncImage -----------------------------
(***************************************************************************)
(* Asynchronous image tasks: the task row and its billing                  *)
(* (model/async_image.go) and the workers that generate and archive        *)
(* (controller/async_image_worker.go, service/async_image_billing.go).     *)
(*                                                                         *)
(* A request reserves quota and inserts a queued row in one transaction.   *)
(* A run of asyncImageProcessHandler (a worker, with its own lease owner   *)
(* name) selects runnable rows, claims each with a row lease, calls the    *)
(* upstream, and then settles the reservation or refunds it; a settled row *)
(* is archived, with retries.  Several workers overlap when one stalls past*)
(* its lease, and any of them may die between two statements.  Every       *)
(* transaction or statement is one step.                                   *)
(*                                                                         *)
(* Time is kept as two flags per row: expired (lease_expires_at <= now)    *)
(* and due (next_attempt_at <= now).  Storage objects and staged files are *)
(* abstracted to the outcome of an archive attempt.                        *)
(***************************************************************************)
EXTENDS Integers, FiniteSets, Functions

CONSTANTS
    Task,            \* task rows
    Worker,          \* concurrent runs of asyncImageProcessHandler
    NoOwner,         \* lease_owner = ''
    GoneOwner,       \* lease_owner names a run that has ended
    ReserveQuota,    \* amounts a request may reserve
    ActualQuota,     \* amounts a generation may turn out to cost
    Preference,      \* billing preferences of users
    WalletQuota,     \* initial users.quota
    SubTotal,        \* amount_total of the active subscription; 0: no subscription
    AllowOverflow,   \* allow_wallet_overflow of that subscription
    TokenQuota,      \* initial remain_quota of the token
    TokenUnlimited,  \* whether the token has no limit
    RetryTimes,      \* common.RetryTimes: channel retries
    MaxAttempts,     \* archive_max_attempts
    MaxStalls,       \* bound: leases that run out under a live worker
    MaxFaults,       \* bound: workers that die or give up on an error
    MaxResets,       \* bound: archive retries ordered by an administrator
    MaxPeriods       \* bound: quota periods of the subscription that end

ASSUME TaskAssumption == IsFiniteSet(Task)
ASSUME OwnerAssumption ==
    NoOwner \notin Worker /\ GoneOwner \notin Worker /\ NoOwner # GoneOwner
ASSUME QuotaAssumption ==
    /\ ReserveQuota \subseteq Nat /\ ActualQuota \subseteq Nat
    /\ WalletQuota \in Nat /\ SubTotal \in Nat /\ TokenQuota \in Nat
    /\ AllowOverflow \in BOOLEAN /\ TokenUnlimited \in BOOLEAN
ASSUME BoundAssumption ==
    /\ RetryTimes \in Nat /\ MaxAttempts \in Nat
    /\ MaxStalls \in Nat /\ MaxFaults \in Nat /\ MaxResets \in Nat /\ MaxPeriods \in Nat

VARIABLES
    status,      \* async_image_tasks.status; "absent" until the row is inserted
    output,      \* output_availability
    billing,     \* billing_status
    source,      \* billing_source
    reserved,    \* reserved_quota
    actual,      \* actual_quota
    manifest,    \* whether archive_manifest was recorded
    attempts,    \* archive_attempts
    due,         \* next_attempt_at <= now
    owner,       \* lease_owner
    expired,     \* lease_expires_at <= now
    wallet,      \* users.quota
    subUsed,     \* user_subscriptions.amount_used
    token,       \* tokens.remain_quota
    cand,        \* candidates a worker selected and has not tried to claim yet
    pc,          \* where a worker's goroutine for a row is
    seen,        \* archive_attempts as that goroutine read it
    tries,       \* channel retries of that goroutine
    stalls, faults, resets, periods   \* how often the bounded events happened

row    == <<status, output, billing, source, reserved, actual, manifest, attempts, due>>
lease  == <<owner, expired>>
funds  == <<wallet, subUsed, token>>
work   == <<cand, pc, seen, tries>>
counts == <<stalls, faults, resets, periods>>
vars   == <<row, lease, funds, work, counts>>

-----------------------------------------------------------------------------
(* Helpers *)

\* The rows the worker may take up: start or resume a generation, or archive.
RunnableQueued(t) ==
    \/ status[t] = "queued" /\ output[t] = "pending" /\ billing[t] = "reserved"
    \/ status[t] = "succeeded" /\ output[t] = "archiving" /\ billing[t] = "settled"
Runnable(t) ==
    \/ status[t] \in {"queued", "running"} /\ output[t] = "pending" /\ billing[t] = "reserved"
    \/ status[t] = "succeeded" /\ output[t] = "archiving" /\ billing[t] = "settled"

\* next_attempt_at <= now AND (lease_owner = '' OR lease_expires_at <= now).
LeasableUnchecked(t) == due[t]
LeasableReleased(t) == due[t] /\ owner[t] = NoOwner
Leasable(t) == due[t] /\ (owner[t] = NoOwner \/ expired[t])

ClearLease(t) ==
    /\ owner' = [owner EXCEPT ![t] = NoOwner]
    /\ expired' = [expired EXCEPT ![t] = TRUE]

TokenShare(q) == IF TokenUnlimited THEN 0 ELSE q

\* adjustAsyncImageFundingTx and adjustAsyncImageTokenTx accept the delta for t.
CanAdjustUnchecked(t, d) == TRUE
CanAdjust(t, d) ==
    /\ IF source[t] = "subscription" THEN subUsed + d \in 0..SubTotal
                                     ELSE wallet - d >= 0
    /\ token - TokenShare(d) \in 0..TokenQuota

Adjust(t, d) ==
    /\ IF source[t] = "subscription"
       THEN subUsed' = subUsed + d /\ UNCHANGED wallet
       ELSE wallet' = wallet - d /\ UNCHANGED subUsed
    /\ token' = token - TokenShare(d)

Goto(w, t, p) == pc' = [pc EXCEPT ![w][t] = p]

\* A worker processes its rows once it has been through all of its candidates.
At(w, t, p) == pc[w][t] = p /\ cand[w] = {}

AtWork == {"claimed", "generate", "call", "calling", "upstream", "refund", "settle",
           "settleFailed", "settled", "archive"}
PC == AtWork \union {"none", "done"}

Init ==
    /\ status = [t \in Task |-> "absent"]
    /\ output = [t \in Task |-> "pending"]
    /\ billing = [t \in Task |-> "none"]
    /\ source = [t \in Task |-> "wallet"]
    /\ reserved = [t \in Task |-> 0]
    /\ actual = [t \in Task |-> 0]
    /\ manifest = [t \in Task |-> FALSE]
    /\ attempts = [t \in Task |-> 0]
    /\ due = [t \in Task |-> TRUE]
    /\ owner = [t \in Task |-> NoOwner]
    /\ expired = [t \in Task |-> TRUE]
    /\ wallet = WalletQuota /\ subUsed = 0 /\ token = TokenQuota
    /\ cand = [w \in Worker |-> {}]
    /\ pc = [w \in Worker |-> [t \in Task |-> "none"]]
    /\ seen = [w \in Worker |-> [t \in Task |-> 0]]
    /\ tries = [w \in Worker |-> [t \in Task |-> 0]]
    /\ stalls = 0 /\ faults = 0 /\ resets = 0 /\ periods = 0

-----------------------------------------------------------------------------
(* Submitting *)

WalletPays(q) == q <= wallet
SubscriptionPays(q) == SubTotal > 0 /\ q <= SubTotal - subUsed

\* reserveAsyncImageFundingTx: under preference p, source s pays q.
Pays(p, s, q) ==
    \/ /\ s = "wallet" /\ WalletPays(q)
       /\ \/ p \in {"wallet_only", "wallet_first"}
          \/ /\ p = "subscription_first" /\ ~SubscriptionPays(q)
             /\ SubTotal = 0 \/ AllowOverflow
    \/ /\ s = "subscription" /\ SubscriptionPays(q)
       /\ \/ p \in {"subscription_only", "subscription_first"}
          \/ p = "wallet_first" /\ ~WalletPays(q)

\* CreateAsyncImageTaskWithReservation: one transaction, all of it or nothing.
CreateAsyncImageTaskWithReservation(t) ==
    /\ status[t] = "absent"
    /\ \E q \in ReserveQuota, s \in {"wallet", "subscription"} :
         /\ IF q = 0 THEN s = "wallet" ELSE \E p \in Preference : Pays(p, s, q)
         /\ TokenShare(q) <= token
         /\ source' = [source EXCEPT ![t] = s]
         /\ reserved' = [reserved EXCEPT ![t] = q]
         /\ wallet' = IF s = "wallet" THEN wallet - q ELSE wallet
         /\ subUsed' = IF s = "subscription" THEN subUsed + q ELSE subUsed
         /\ token' = token - TokenShare(q)
    /\ status' = [status EXCEPT ![t] = "queued"]
    /\ billing' = [billing EXCEPT ![t] = "reserved"]
    /\ UNCHANGED <<output, actual, manifest, attempts, due, lease, work, counts>>

-----------------------------------------------------------------------------
(* Claiming: ClaimRunnableAsyncImageTasks *)

Idle(w) == cand[w] = {} /\ \A t \in Task : pc[w][t] = "none"

\* SELECT of the candidates.
ClaimSelect(w) ==
    /\ Idle(w)
    /\ \E t \in Task : Runnable(t) /\ Leasable(t)
    /\ cand' = [cand EXCEPT ![w] = {t \in Task : Runnable(t) /\ Leasable(t)}]
    /\ UNCHANGED <<row, lease, funds, pc, seen, tries, counts>>

\* The UPDATE that takes the lease of one candidate checks the lease and
\* next_attempt_at again, and nothing else.
ClaimUpdate(w, t) ==
    /\ t \in cand[w]
    /\ \A u \in Task : pc[w][u] # "claimed"
    /\ cand' = [cand EXCEPT ![w] = @ \ {t}]
    /\ IF Leasable(t)
       THEN /\ owner' = [owner EXCEPT ![t] = w]
            /\ expired' = [expired EXCEPT ![t] = FALSE]
            /\ Goto(w, t, "claimed")
       ELSE UNCHANGED <<owner, expired, pc>>
    /\ UNCHANGED <<row, funds, seen, tries, counts>>

\* The claimed row is read; what processClaimedAsyncImageTask does depends on this copy.
ClaimRead(w, t) ==
    /\ pc[w][t] = "claimed"
    /\ IF status[t] = "succeeded" /\ output[t] = "archiving"
       THEN Goto(w, t, "archive")
       ELSE Goto(w, t, "generate")
    /\ seen' = [seen EXCEPT ![w][t] = attempts[t]]
    /\ UNCHANGED <<row, lease, funds, cand, tries, counts>>

-----------------------------------------------------------------------------
(* Generating: generateAsyncImageTask *)

\* WHERE of MarkAsyncImageTaskRunning.
MayRunAnyway(w, t) == owner[t] = w
MayRun(w, t) ==
    owner[t] = w /\ status[t] \in {"queued", "running"} /\ billing[t] = "reserved"

\* CheckAsyncImageStaging fails: ScheduleAsyncImageGenerationRetry.
ScheduleAsyncImageGenerationRetry(w, t) ==
    /\ At(w, t, "generate")
    /\ IF MayRun(w, t) /\ output[t] = "pending"
       THEN due' = [due EXCEPT ![t] = FALSE] /\ ClearLease(t)
       ELSE UNCHANGED <<due, lease>>
    /\ Goto(w, t, "done")
    /\ UNCHANGED <<status, output, billing, source, reserved, actual, manifest, attempts,
                   funds, cand, seen, tries, counts>>

MarkAsyncImageTaskRunning(w, t) ==
    /\ At(w, t, "generate")
    /\ IF MayRun(w, t)
       THEN status' = [status EXCEPT ![t] = "running"] /\ Goto(w, t, "call")
       ELSE UNCHANGED status /\ Goto(w, t, "done")
    /\ tries' = [tries EXCEPT ![w][t] = 0]
    /\ UNCHANGED <<output, billing, source, reserved, actual, manifest, attempts, due,
                   lease, funds, cand, seen, counts>>

\* WHERE of UpdateAsyncImageTaskWithLease.
MayCallAnyway(w, t) == TRUE
MayCall(w, t) == owner[t] = w

\* A channel is chosen and recorded under the lease; a worker that no longer owns it returns.
UpdateAsyncImageTaskWithLease(w, t) ==
    /\ At(w, t, "call")
    /\ Goto(w, t, IF MayCall(w, t) THEN "calling" ELSE "done")
    /\ UNCHANGED <<row, lease, funds, cand, seen, tries, counts>>

\* ExecuteImageAttempt, later, without another look at the row.
CallUpstream(w, t) ==
    /\ At(w, t, "calling")
    /\ Goto(w, t, "upstream")
    /\ UNCHANGED <<row, lease, funds, cand, seen, tries, counts>>

\* The stored request is unusable or no channel is left; or, once a channel is recorded,
\* the stored body cannot be read.
CannotCall(w, t) ==
    /\ pc[w][t] \in {"call", "calling"} /\ cand[w] = {}
    /\ Goto(w, t, "refund")
    /\ UNCHANGED <<row, lease, funds, cand, seen, tries, counts>>

\* The attempt failed and shouldRetry: the next channel.
RetryUpstream(w, t) ==
    /\ At(w, t, "upstream") /\ tries[w][t] < RetryTimes
    /\ tries' = [tries EXCEPT ![w][t] = @ + 1]
    /\ Goto(w, t, "call")
    /\ UNCHANGED <<row, lease, funds, cand, seen, counts>>

\* The attempts ended: with an error or an invalid response, with a response that was
\* staged, or with a response that could not be staged.
UpstreamReturns(w, t) ==
    /\ At(w, t, "upstream")
    /\ \E p \in {"refund", "settle", "settleFailed"} : Goto(w, t, p)
    /\ UNCHANGED <<row, lease, funds, cand, seen, tries, counts>>

\* Only a reservation is given back, whoever asks.
MayRefundSettled(t) == billing[t] # "refunded"
MayRefund(t) == billing[t] = "reserved"

\* RefundAsyncImageBilling: funds and row in one transaction; it does not ask who owns
\* the lease.
RefundAsyncImageBilling(w, t) ==
    /\ At(w, t, "refund")
    /\ IF MayRefund(t) /\ CanAdjust(t, -reserved[t])
       THEN /\ Adjust(t, -reserved[t])
            /\ status' = [status EXCEPT ![t] = "failed"]
            /\ output' = [output EXCEPT ![t] = "failed"]
            /\ billing' = [billing EXCEPT ![t] = "refunded"]
            /\ ClearLease(t)
       ELSE UNCHANGED <<status, output, billing, lease, funds>>
    /\ Goto(w, t, "done")
    /\ UNCHANGED <<source, reserved, actual, manifest, attempts, due, cand, seen, tries, counts>>

\* What a settlement for q does to funds and billing.
SettleWith(t, q) ==
    /\ Adjust(t, q - reserved[t])
    /\ actual' = [actual EXCEPT ![t] = q]
    /\ billing' = [billing EXCEPT ![t] = "settled"]
    /\ status' = [status EXCEPT ![t] = "succeeded"]

\* CompleteAsyncImageGeneration by the lease owner: a row that is settled already is left
\* as it is, and any refusal ends the work and leaves the row running.
CompleteAsyncImageGeneration(w, t) ==
    /\ At(w, t, "settle")
    /\ \E q \in ActualQuota :
         LET settles == /\ owner[t] = w /\ billing[t] = "reserved" /\ status[t] = "running"
                        /\ CanAdjust(t, q - reserved[t])
         IN  /\ IF settles
                THEN /\ SettleWith(t, q)
                     /\ output' = [output EXCEPT ![t] = "archiving"]
                     /\ manifest' = [manifest EXCEPT ![t] = TRUE]
                ELSE UNCHANGED <<status, output, billing, actual, manifest, funds>>
             /\ Goto(w, t, IF settles \/ (owner[t] = w /\ billing[t] = "settled")
                           THEN "settled" ELSE "done")
    /\ UNCHANGED <<source, reserved, attempts, due, lease, cand, seen, tries, counts>>

\* CompleteAsyncImageGenerationWithArchiveFailure: the same, for a response that could not
\* be staged.  There is nothing to archive, and the row is not asked to be running.
CompleteWithArchiveFailure(w, t) ==
    /\ At(w, t, "settleFailed")
    /\ \E q \in ActualQuota :
         IF owner[t] = w /\ billing[t] = "reserved" /\ CanAdjust(t, q - reserved[t])
         THEN /\ SettleWith(t, q)
              /\ output' = [output EXCEPT ![t] = "failed"]
              /\ ClearLease(t)
         ELSE UNCHANGED <<status, output, billing, actual, lease, funds>>
    /\ Goto(w, t, "done")
    /\ UNCHANGED <<source, reserved, manifest, attempts, due, cand, seen, tries, counts>>

\* The settled row is read again, by task id alone, and archived.
ReadSettled(w, t) ==
    /\ At(w, t, "settled")
    /\ seen' = [seen EXCEPT ![w][t] = attempts[t]]
    /\ Goto(w, t, "archive")
    /\ UNCHANGED <<row, lease, funds, cand, tries, counts>>

-----------------------------------------------------------------------------
(* Archiving: archiveAsyncImageTask, as the outcome of an attempt *)

\* WHERE of MarkAsyncImageOutputAvailable, ScheduleAsyncImageArchiveRetry and
\* FailAsyncImageArchive.
MayArchiveUnfenced(w, t) == status[t] = "succeeded" /\ billing[t] = "settled"
MayArchive(w, t) == owner[t] = w /\ status[t] = "succeeded" /\ billing[t] = "settled"

\* Writes the outcome o of an attempt when the guard holds; the work ends in any case.
ArchiveOutcome(w, t, o, n, isDue) ==
    /\ At(w, t, "archive")
    /\ IF MayArchive(w, t)
       THEN /\ output' = [output EXCEPT ![t] = o]
            /\ attempts' = [attempts EXCEPT ![t] = n]
            /\ due' = [due EXCEPT ![t] = isDue]
            /\ ClearLease(t)
       ELSE UNCHANGED <<output, attempts, due, lease>>
    /\ Goto(w, t, "done")
    /\ UNCHANGED <<status, billing, source, reserved, actual, manifest, funds, cand,
                   seen, tries, counts>>

MarkAsyncImageOutputAvailable(w, t) ==
    manifest[t] /\ ArchiveOutcome(w, t, "available", attempts[t], due[t])

\* retryAsyncImageArchive below the limit.
UnderLimit(w, t) == seen[w][t] + 1 < MaxAttempts

ScheduleAsyncImageArchiveRetry(w, t) ==
    manifest[t] /\ UnderLimit(w, t) /\ ArchiveOutcome(w, t, "archiving", seen[w][t] + 1, FALSE)

\* At the limit, past the retry deadline, or with objects or files that do not match.
FailAsyncImageArchive(w, t) == ArchiveOutcome(w, t, "failed", seen[w][t] + 1, due[t])

-----------------------------------------------------------------------------
(* The end of a worker *)

Release(w) == owner' = [t \in Task |-> IF owner[t] = w THEN GoneOwner ELSE owner[t]]

\* The handler returns once all of its goroutines have; the next run has another name.
HandlerReturns(w) ==
    /\ cand[w] = {} /\ ~Idle(w) /\ \A t \in Task : pc[w][t] \in {"none", "done"}
    /\ pc' = [pc EXCEPT ![w] = [t \in Task |-> "none"]]
    /\ Release(w)
    /\ UNCHANGED <<row, expired, funds, cand, seen, tries, counts>>

\* The node goes down, wherever the goroutines are.
Crash(w) ==
    /\ ~Idle(w) /\ faults < MaxFaults
    /\ faults' = faults + 1
    /\ cand' = [cand EXCEPT ![w] = {}]
    /\ pc' = [pc EXCEPT ![w] = [t \in Task |-> "none"]]
    /\ Release(w)
    /\ UNCHANGED <<row, expired, funds, seen, tries, stalls, resets, periods>>

\* A goroutine returns early: a statement fails, or ctx was cancelled before a call.
GivesUp(w, t) ==
    /\ pc[w][t] \in AtWork /\ faults < MaxFaults
    /\ faults' = faults + 1
    /\ Goto(w, t, "done")
    /\ UNCHANGED <<row, lease, funds, cand, seen, tries, stalls, resets, periods>>

-----------------------------------------------------------------------------
(* Time, administrators and subscription periods *)

\* Some claim pass still compares t with a clock reading from before.
BeingClaimed(t) == \E w \in Worker : t \in cand[w]

\* RenewAsyncImageTaskLease keeps the lease of a goroutine at work alive and never revives
\* one that has run out.  It runs out under a goroutine at work when renewals are late or
\* fail, which is only logged.
LeaseRunsOut(t) ==
    /\ owner[t] # NoOwner /\ ~expired[t] /\ ~BeingClaimed(t)
    /\ IF \E w \in Worker : owner[t] = w /\ pc[w][t] \in AtWork
       THEN stalls < MaxStalls /\ stalls' = stalls + 1
       ELSE UNCHANGED stalls
    /\ expired' = [expired EXCEPT ![t] = TRUE]
    /\ UNCHANGED <<row, owner, funds, work, faults, resets, periods>>

\* next_attempt_at is reached.
BecomesDue(t) ==
    /\ ~due[t] /\ ~BeingClaimed(t)
    /\ due' = [due EXCEPT ![t] = TRUE]
    /\ UNCHANGED <<status, output, billing, source, reserved, actual, manifest, attempts,
                   lease, funds, work, counts>>

\* validateAndResetAsyncImageArchive by an administrator or the bulk retry job.
ResetAsyncImageArchiveForRetry(t) ==
    /\ status[t] = "succeeded" /\ billing[t] = "settled" /\ output[t] = "failed"
    /\ manifest[t] /\ resets < MaxResets
    /\ resets' = resets + 1
    /\ output' = [output EXCEPT ![t] = "archiving"]
    /\ attempts' = [attempts EXCEPT ![t] = 0]
    /\ due' = [due EXCEPT ![t] = TRUE]
    /\ ClearLease(t)
    /\ UNCHANGED <<status, billing, source, reserved, actual, manifest, funds, work,
                   stalls, faults, periods>>

\* MarkExpiredAsyncImageTask, when the task is read after its end or cleaned up.
MarkExpiredAsyncImageTask(t) ==
    /\ output[t] = "available"
    /\ output' = [output EXCEPT ![t] = "expired"]
    /\ UNCHANGED <<status, billing, source, reserved, actual, manifest, attempts, due,
                   lease, funds, work, counts>>

\* maybeResetUserSubscriptionWithPlanTx at the end of a quota period.
ResetSubscription ==
    /\ subUsed > 0 /\ periods < MaxPeriods
    /\ periods' = periods + 1
    /\ subUsed' = 0
    /\ UNCHANGED <<row, lease, wallet, token, work, stalls, faults, resets>>

-----------------------------------------------------------------------------
Generate(w, t) ==
    \/ ScheduleAsyncImageGenerationRetry(w, t) \/ MarkAsyncImageTaskRunning(w, t)
    \/ UpdateAsyncImageTaskWithLease(w, t) \/ CallUpstream(w, t) \/ CannotCall(w, t)
    \/ RetryUpstream(w, t) \/ UpstreamReturns(w, t) \/ RefundAsyncImageBilling(w, t)
    \/ CompleteAsyncImageGeneration(w, t) \/ CompleteWithArchiveFailure(w, t)
    \/ ReadSettled(w, t)

Archive(w, t) ==
    \/ MarkAsyncImageOutputAvailable(w, t) \/ ScheduleAsyncImageArchiveRetry(w, t)
    \/ FailAsyncImageArchive(w, t)

WorkerStep(w) ==
    \/ ClaimSelect(w) \/ HandlerReturns(w)
    \/ \E t \in Task : ClaimUpdate(w, t) \/ ClaimRead(w, t) \/ Generate(w, t) \/ Archive(w, t)

Next ==
    \/ \E w \in Worker : WorkerStep(w) \/ Crash(w) \/ \E t \in Task : GivesUp(w, t)
    \/ \E t \in Task : \/ CreateAsyncImageTaskWithReservation(t)
                       \/ LeaseRunsOut(t) \/ BecomesDue(t)
                       \/ ResetAsyncImageArchiveForRetry(t) \/ MarkExpiredAsyncImageTask(t)
    \/ ResetSubscription

Spec == Init /\ [][Next]_vars

(***************************************************************************)
(* Fairness.  The scheduler starts the handler again as long as a row is   *)
(* runnable, every statement and every upstream call returns, and clocks   *)
(* advance.  The staging check may fail now and then but not forever:      *)
(* strong fairness of MarkAsyncImageTaskRunning.  Stalls, crashes and early*)
(* returns happen a bounded number of times (MaxStalls, MaxFaults).        *)
(***************************************************************************)
Fairness ==
    /\ \A w \in Worker : WF_vars(WorkerStep(w))
    /\ \A w \in Worker, t \in Task :
          /\ WF_vars(ClaimRead(w, t) \/ Generate(w, t) \/ Archive(w, t))
          /\ SF_vars(MarkAsyncImageTaskRunning(w, t))
    /\ \A t \in Task : WF_vars(LeaseRunsOut(t) /\ UNCHANGED stalls) /\ WF_vars(BecomesDue(t))

FairSpec == Spec /\ Fairness

-----------------------------------------------------------------------------
(* Properties *)

RowOK ==
    /\ status \in [Task -> {"absent", "queued", "running", "succeeded", "failed"}]
    /\ output \in [Task -> {"pending", "archiving", "available", "expired", "failed"}]
    /\ billing \in [Task -> {"none", "reserved", "settled", "refunded"}]
    /\ source \in [Task -> {"wallet", "subscription"}]
    /\ reserved \in [Task -> ReserveQuota \union {0}]
    /\ actual \in [Task -> ActualQuota \union {0}]
    /\ manifest \in [Task -> BOOLEAN]
    /\ attempts \in [Task -> Nat]
    /\ due \in [Task -> BOOLEAN]

LeaseOK ==
    /\ owner \in [Task -> Worker \union {NoOwner, GoneOwner}]
    /\ expired \in [Task -> BOOLEAN]

FundsOK == wallet \in Nat /\ subUsed \in 0..SubTotal /\ token \in 0..TokenQuota

WorkOK ==
    /\ cand \in [Worker -> SUBSET Task]
    /\ pc \in [Worker -> [Task -> PC]]
    /\ seen \in [Worker -> [Task -> Nat]]
    /\ tries \in [Worker -> [Task -> 0..RetryTimes]]

CountsOK ==
    /\ stalls \in 0..MaxStalls /\ faults \in 0..MaxFaults
    /\ resets \in 0..MaxResets /\ periods \in 0..MaxPeriods

\* Every column and local variable keeps its type; in particular no wallet, subscription
\* or token is ever overdrawn or given more than it had.
TypeOK == RowOK /\ LeaseOK /\ FundsOK /\ WorkOK /\ CountsOK

\* What task t has taken from its funding source.
Held(t) == IF billing[t] = "reserved" THEN reserved[t]
           ELSE IF billing[t] = "settled" THEN actual[t] ELSE 0

\* A row succeeded exactly when it was settled and failed exactly when it was refunded
\* (ValidateAsyncImageTaskState: "settled task cannot have failed generation status"), and
\* only a settled row has an output.
StatusMatchesBilling ==
    \A t \in Task :
        /\ status[t] = "succeeded" <=> billing[t] = "settled"
        /\ status[t] = "failed" <=> billing[t] = "refunded"
        /\ output[t] \in {"archiving", "available", "expired"} => billing[t] = "settled"

\* A channel is recorded for a call only while the reservation is open, although a worker
\* may have claimed the task from a list of candidates that is out of date.  The call itself
\* is a step of its own: it is made for a task whose billing became final in between only
\* by a worker that has lost its lease, after a lease ran out under some worker
\* (RefundAsyncImageBilling does not ask who owns the lease).
NoCallAfterFinal ==
    [][\A w \in Worker, t \in Task :
          /\ pc[w][t] # "calling" /\ pc'[w][t] = "calling" => billing[t] = "reserved"
          /\ pc[w][t] # "upstream" /\ pc'[w][t] = "upstream" =>
                billing[t] = "reserved" \/ (owner[t] # w /\ stalls > 0)]_vars

Generating == {"call", "calling", "upstream", "refund", "settle", "settleFailed"}

\* As long as no lease ran out under a worker, at most one goroutine generates for a task,
\* so that its upstream is not called by two workers.
GeneratesAlone ==
    stalls = 0 => \A t \in Task : \A v, w \in Worker :
        pc[v][t] \in Generating /\ pc[w][t] \in Generating => v = w

\* Archive attempts are counted one by one although each worker counts from its own copy
\* of the row; only a reset starts again.
AttemptsCounted ==
    [][\A t \in Task : \/ attempts'[t] \in {attempts[t], attempts[t] + 1}
                       \/ resets' # resets]_vars

Accounts == {"wallet", "subscription", "token"}

\* The part of quota q, paid from s, that account a bears.
Part(s, q, a) == IF a = "token" THEN TokenShare(q) ELSE IF a = s THEN q ELSE 0

\* What an account has left.
Left(a) ==
    IF a = "token" THEN token ELSE IF a = "wallet" THEN wallet ELSE SubTotal - subUsed

\* What each task has taken from the accounts, and their balances.
Holds == [t \in Task |-> [a \in Accounts |-> Part(source[t], Held(t), a)]]
Balances == [a \in Accounts |-> Left(a)]

\* What each account is given at first.
Granted == [a \in Accounts |-> IF a = "token" THEN TokenQuota
                               ELSE IF a = "wallet" THEN WalletQuota ELSE SubTotal]

\* Quota is neither created nor lost: what wallet, subscription and token no longer have is
\* what the tasks hold, reserved while a task is open, its cost once settled and nothing
\* once refunded, however many workers settled, refunded or died.  A subscription is
\* counted within one quota period.
FundsConserved ==
    \A a \in Accounts : a # "subscription" \/ periods = 0 =>
        Balances[a] + SumFunctionOnSet([t \in Task |-> Holds[t][a]], Task) = Granted[a]

Ledger == INSTANCE ChargeLedger WITH
    Charge <- Task,
    Account <- Accounts,
    Renewable <- {"subscription"},
    Amount <- ReserveQuota \union ActualQuota \union {0},
    Initial <- Granted,
    stage <- billing,
    hold <- Holds,
    balance <- Balances

\* The tasks implement the ledger: each is reserved once, then settled once or refunded
\* once, and apart from that only the end of a subscription's period moves quota.
ImplementsLedger == Ledger!LedgerSpec

\* Every task is settled or refunded in the end, through crashes and stalled workers.
EveryTaskIsBilled ==
    \A t \in Task : billing[t] = "reserved" ~> billing[t] \in {"settled", "refunded"}

\* Archiving comes to an end: the output is available or has failed.
ArchivingEnds ==
    \A t \in Task : output[t] = "archiving" ~> output[t] # "archiving"

\* "Settled as soon as a complete standard response was generated" (design, 23.6): a worker
\* that has a valid response in hand is followed by the settlement of its task.
ResponseIsSettled ==
    \A w \in Worker, t \in Task :
        pc[w][t] \in {"settle", "settleFailed"} ~> billing[t] = "settled"

=============================================================================

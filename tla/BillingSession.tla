--------------------------- MODULE BillingSession ---------------------------
(***************************************************************************)
(* The charge of a relayed request (service/billing_session.go,            *)
(* service/funding_source.go, service/billing.go), over the balances of    *)
(* one user, token and subscription, and the updater that may keep wallet  *)
(* and token deltas in memory (model/utils.go).                            *)
(*                                                                         *)
(* A request takes an estimate from the token and from its funding source  *)
(* before it is relayed.  When it succeeds the difference to the actual    *)
(* cost is settled, when it fails everything is refunded by a goroutine.   *)
(* Requests run concurrently; every statement, transaction or in-memory    *)
(* update is one step, and most may fail.  Redis is taken to be off, so    *)
(* that balances are read from the database, which lags behind the deltas  *)
(* in memory.                                                              *)
(***************************************************************************)
EXTENDS Integers, FiniteSets, Functions

CONSTANTS
    Request,         \* relayed requests of one user with one token
    Playground,      \* those from the playground, which have no token quota
    Forced,          \* those of tasks: ForcePreConsume
    Estimate,        \* quota to pre-consume
    Actual,          \* what requests turn out to cost
    Preference,      \* billing preferences
    WalletQuota,     \* initial users.quota
    TokenQuota,      \* initial remain_quota of the token
    TokenUnlimited,
    SubTotal,        \* amount_total of the active subscription; 0: no subscription
    AllowOverflow,   \* allow_wallet_overflow of that subscription
    TrustQuota,      \* GetTrustQuota
    BatchModes,      \* values of BatchUpdateEnabled
    MaxFaults,       \* bound: statements that fail, handlers that panic
    MaxPeriods       \* bound: quota periods of the subscription that end

ASSUME RequestAssumption ==
    IsFiniteSet(Request) /\ Playground \subseteq Request /\ Forced \subseteq Request
ASSUME QuotaAssumption ==
    /\ Estimate \subseteq Nat /\ Actual \subseteq Nat
    /\ WalletQuota \in Nat /\ TokenQuota \in Nat /\ SubTotal \in Nat /\ TrustQuota \in Nat
    /\ TokenUnlimited \in BOOLEAN /\ AllowOverflow \in BOOLEAN
    /\ BatchModes \subseteq BOOLEAN
ASSUME PreferenceAssumption ==
    Preference \subseteq {"wallet_only", "subscription_only", "wallet_first", "subscription_first"}
ASSUME BoundAssumption == MaxFaults \in Nat /\ MaxPeriods \in Nat

VARIABLES
    wallet,         \* users.quota
    token,          \* tokens.remain_quota
    subUsed,        \* user_subscriptions.amount_used
    record,         \* status of the request's subscription_pre_consume_records row
    batch,          \* BatchUpdateEnabled
    memWallet, memToken,       \* batchUpdateStores
    flushWallet, flushToken,   \* what batchUpdate took out of them and has not applied
    dropWallet, dropToken,     \* history: what it could not apply, which is only logged
    pc,             \* where the request, or its refund, is
    pref, quota,    \* the user's preference, the estimate
    tokenTrusted,   \* token_quota, as authentication read it, is above the trust quota
    funding,        \* funding source of the session
    amount,         \* effectiveQuota of preConsume
    tokenConsumed,  \* of the session
    pre,            \* preConsumedQuota of the session
    delta,          \* what a settlement still has to adjust on the token
    attempts,       \* of refundWithRetry
    outcome,        \* how the request ended
    actual,         \* what it cost
    paid,           \* history: what each account has given for the request
    lost,           \* history: a correcting statement of the request failed for good, or the
                    \* answer to its pre-consumption was lost
    faults, periods

store   == <<wallet, token, subUsed, record>>
updater == <<batch, memWallet, memToken, flushWallet, flushToken, dropWallet, dropToken>>
drops   == <<dropWallet, dropToken>>
flushing == <<batch, flushWallet, flushToken, drops>>
choice  == <<pref, quota, tokenTrusted>>
session == <<funding, amount, tokenConsumed, pre, delta, attempts>>
ends    == <<outcome, actual, lost>>
counts  == <<faults, periods>>
vars    == <<store, updater, pc, choice, session, ends, paid, counts>>

-----------------------------------------------------------------------------
(* Helpers *)

Account == {"wallet", "subscription", "token"}
RefundAttempts == 3   \* maxAttempts of refundWithRetry

AtLeast(n, m) == IF n < m THEN m ELSE n

Goto(r, l) == pc' = [pc EXCEPT ![r] = l]

\* The request ends; nothing of it runs any more.
Close(r, how) == Goto(r, "closed") /\ outcome' = [outcome EXCEPT ![r] = how]

\* A statement fails.
Fault == faults < MaxFaults /\ faults' = faults + 1
\* One on the wallet or the token, which is an update in memory when batched.
DirectFault == ~batch /\ Fault

\* DecreaseUserQuota, IncreaseUserQuota: the request gives q more (gets it back if negative).
DecreaseUserQuota(r, q) ==
    /\ IF batch THEN memWallet' = memWallet - q /\ UNCHANGED wallet
                ELSE wallet' = wallet - q /\ UNCHANGED memWallet
    /\ paid' = [paid EXCEPT ![r]["wallet"] = @ + q]
    /\ UNCHANGED <<token, subUsed, memToken>>

\* DecreaseTokenQuota, IncreaseTokenQuota.
DecreaseTokenQuota(r, q) ==
    /\ IF batch THEN memToken' = memToken - q /\ UNCHANGED token
                ELSE token' = token - q /\ UNCHANGED memToken
    /\ paid' = [paid EXCEPT ![r]["token"] = @ + q]
    /\ UNCHANGED <<wallet, subUsed, memWallet>>

\* PostConsumeUserSubscriptionDelta commits: use stays within 0 and the total.
WithinTotalPlus(q) == subUsed + q <= SubTotal + 1
WithinTotal(q) == subUsed + q <= SubTotal
PostConsumeUserSubscriptionDelta(r, q) ==
    /\ WithinTotal(q)
    /\ subUsed' = AtLeast(subUsed + q, 0)
    /\ paid' = [paid EXCEPT ![r]["subscription"] = @ + q]
    /\ UNCHANGED <<wallet, token, memWallet, memToken>>

NoMoney == UNCHANGED <<wallet, token, subUsed, memWallet, memToken, paid>>

Init ==
    /\ wallet = WalletQuota /\ token = TokenQuota /\ subUsed = 0
    /\ record = [r \in Request |-> "none"]
    /\ batch \in BatchModes
    /\ memWallet = 0 /\ memToken = 0 /\ flushWallet = 0 /\ flushToken = 0
    /\ dropWallet = 0 /\ dropToken = 0
    /\ pc = [r \in Request |-> "idle"]
    /\ pref = [r \in Request |-> "none"]
    /\ quota = [r \in Request |-> 0]
    /\ tokenTrusted = [r \in Request |-> FALSE]
    /\ funding = [r \in Request |-> "none"]
    /\ amount = [r \in Request |-> 0]
    /\ tokenConsumed = [r \in Request |-> 0]
    /\ pre = [r \in Request |-> 0]
    /\ delta = [r \in Request |-> 0]
    /\ attempts = [r \in Request |-> 0]
    /\ outcome = [r \in Request |-> "none"]
    /\ actual = [r \in Request |-> 0]
    /\ lost = [r \in Request |-> FALSE]
    /\ paid = [r \in Request |-> [a \in Account |-> 0]]
    /\ faults = 0 /\ periods = 0

-----------------------------------------------------------------------------
(* NewBillingSession and preConsume *)

\* trySubscription: the session takes at least 1, trusted or not.
trySubscription(r, q) ==
    /\ funding' = [funding EXCEPT ![r] = "subscription"]
    /\ amount' = [amount EXCEPT ![r] = AtLeast(q, 1)]
    /\ Goto(r, "checkToken")

\* A request is authenticated, priced and starts its session with its user's preference.
\* HasActiveUserSubscription decides where subscription_first begins.
PreConsumeBilling(r) ==
    /\ pc[r] = "idle"
    /\ \E p \in Preference, q \in Estimate :
        /\ pref' = [pref EXCEPT ![r] = p]
        /\ quota' = [quota EXCEPT ![r] = q]
        /\ tokenTrusted' = [tokenTrusted EXCEPT ![r] = TokenUnlimited \/ token > TrustQuota]
        /\ IF p = "subscription_only" \/ (p = "subscription_first" /\ SubTotal > 0)
           THEN trySubscription(r, q)
           ELSE Goto(r, "wallet") /\ UNCHANGED <<funding, amount>>
    /\ NoMoney
    /\ UNCHANGED <<record, flushing, tokenConsumed, pre, delta, attempts,
                   ends, counts>>

\* shouldTrust, of a session on the wallet.
shouldTrust(r) ==
    r \notin Forced /\ TrustQuota > 0 /\ tokenTrusted[r] /\ wallet > TrustQuota

\* tryWallet, up to the session: the balance is read here and taken two steps later.
tryWallet(r) ==
    /\ pc[r] = "wallet"
    /\ IF wallet <= 0 \/ wallet - quota[r] < 0
       THEN IF pref[r] = "wallet_first"
            THEN trySubscription(r, quota[r]) /\ UNCHANGED outcome
            ELSE Close(r, "refused") /\ UNCHANGED <<funding, amount>>
       ELSE LET q == IF shouldTrust(r) THEN 0 ELSE quota[r] IN
            /\ funding' = [funding EXCEPT ![r] = "wallet"]
            /\ amount' = [amount EXCEPT ![r] = q]
            /\ Goto(r, IF q > 0 THEN "checkToken" ELSE "fund")
            /\ UNCHANGED outcome
    /\ NoMoney
    /\ UNCHANGED <<record, flushing, choice, tokenConsumed, pre, delta,
                   attempts, actual, lost, counts>>

\* PreConsumeTokenQuota: the balance is read and compared, and then decreased whatever it
\* is by now.  A token that does not suffice ends the request: nothing falls back.
CheckToken(r) ==
    /\ pc[r] = "checkToken"
    /\ \/ /\ r \in Playground
          /\ tokenConsumed' = [tokenConsumed EXCEPT ![r] = amount[r]]
          /\ Goto(r, "fund") /\ UNCHANGED outcome
       \/ /\ r \notin Playground
          /\ TokenUnlimited \/ token >= amount[r]
          /\ Goto(r, "takeToken") /\ UNCHANGED <<tokenConsumed, outcome>>
       \/ /\ r \notin Playground
          /\ ~TokenUnlimited /\ token < amount[r]
          /\ Close(r, "refused") /\ UNCHANGED tokenConsumed
    /\ NoMoney
    /\ UNCHANGED <<record, flushing, choice, funding, amount, pre, delta,
                   attempts, actual, lost, counts>>

TakeToken(r) ==
    /\ pc[r] = "takeToken"
    /\ \/ /\ DecreaseTokenQuota(r, amount[r])
          /\ tokenConsumed' = [tokenConsumed EXCEPT ![r] = amount[r]]
          /\ Goto(r, "fund")
          /\ UNCHANGED <<outcome, faults>>
       \/ DirectFault /\ Close(r, "refused") /\ NoMoney /\ UNCHANGED tokenConsumed
    /\ UNCHANGED <<record, flushing, choice, funding, amount, pre, delta,
                   attempts, actual, lost, periods>>

\* The session is open with what it took.
Opened(r) == Goto(r, "open") /\ pre' = [pre EXCEPT ![r] = amount[r]]

\* WalletFunding.PreConsume.
FundWallet(r) ==
    /\ pc[r] = "fund" /\ funding[r] = "wallet"
    /\ \/ amount[r] = 0 /\ Opened(r) /\ NoMoney /\ UNCHANGED faults
       \/ amount[r] > 0 /\ DecreaseUserQuota(r, amount[r]) /\ Opened(r) /\ UNCHANGED faults
       \/ amount[r] > 0 /\ DirectFault /\ Goto(r, "rollback") /\ NoMoney /\ UNCHANGED pre
    /\ UNCHANGED <<record, flushing, choice, funding, amount, tokenConsumed,
                   delta, attempts, ends, periods>>

\* SubscriptionFunding.PreConsume, PreConsumeUserSubscription: one transaction.  When the
\* subscription does not suffice the request may go on to the wallet; when the answer of its
\* commit is lost the request is refused and nothing gives the amount back.
FallsBack(r) == pref[r] = "subscription_first" /\ AllowOverflow
FundSubscription(r) ==
    /\ pc[r] = "fund" /\ funding[r] = "subscription"
    /\ \/ /\ SubTotal > 0 /\ PostConsumeUserSubscriptionDelta(r, amount[r])
          /\ record' = [record EXCEPT ![r] = "consumed"]
          /\ Opened(r) /\ UNCHANGED <<lost, faults>>
       \/ /\ SubTotal = 0 \/ ~WithinTotal(amount[r])
          /\ Goto(r, IF FallsBack(r) THEN "rollbackToWallet" ELSE "rollback")
          /\ NoMoney /\ UNCHANGED <<record, pre, lost, faults>>
       \/ Fault /\ Goto(r, "rollback") /\ NoMoney /\ UNCHANGED <<record, pre, lost>>
       \/ /\ Fault /\ SubTotal > 0 /\ PostConsumeUserSubscriptionDelta(r, amount[r])
          /\ record' = [record EXCEPT ![r] = "consumed"]
          /\ lost' = [lost EXCEPT ![r] = TRUE]
          /\ Goto(r, "rollback") /\ UNCHANGED pre
    /\ UNCHANGED <<flushing, choice, funding, amount, tokenConsumed,
                   delta, attempts, outcome, actual, periods>>

\* preConsume gives the token back what it took, once, and the session is dropped.
Rollback(r) ==
    /\ pc[r] \in {"rollback", "rollbackToWallet"}
    /\ \/ r \in Playground /\ NoMoney /\ UNCHANGED <<lost, faults>>
       \/ r \notin Playground /\ DecreaseTokenQuota(r, -tokenConsumed[r]) /\ UNCHANGED <<lost, faults>>
       \/ r \notin Playground /\ DirectFault /\ NoMoney /\ lost' = [lost EXCEPT ![r] = TRUE]
    /\ tokenConsumed' = [tokenConsumed EXCEPT ![r] = 0]
    /\ IF pc[r] = "rollback" THEN Close(r, "refused") ELSE Goto(r, "wallet") /\ UNCHANGED outcome
    /\ UNCHANGED <<record, flushing, choice, funding, amount, pre, delta,
                   attempts, actual, periods>>

-----------------------------------------------------------------------------
(* Settle and Refund *)

\* Settle, first half: the funding source.  A settlement that fails, or that the
\* subscription cannot cover, is only logged.
Settle(r) ==
    /\ pc[r] = "open"
    /\ \E a \in Actual :
        LET d == a - pre[r] IN
        /\ actual' = [actual EXCEPT ![r] = a]
        /\ \/ d = 0 /\ Close(r, "settled") /\ NoMoney /\ UNCHANGED <<delta, faults>>
           \/ /\ d # 0
              /\ \/ funding[r] = "wallet" /\ DecreaseUserQuota(r, d)
                 \/ funding[r] = "subscription" /\ PostConsumeUserSubscriptionDelta(r, d)
              /\ outcome' = [outcome EXCEPT ![r] = "settled"]
              /\ IF r \in Playground THEN Goto(r, "closed") /\ UNCHANGED delta
                 ELSE Goto(r, "settleToken") /\ delta' = [delta EXCEPT ![r] = d]
              /\ UNCHANGED faults
           \/ /\ d # 0
              /\ \/ funding[r] = "wallet" /\ DirectFault
                 \/ funding[r] = "subscription" /\ Fault
                 \/ funding[r] = "subscription" /\ ~WithinTotal(d) /\ UNCHANGED faults
              /\ Close(r, "unsettled") /\ NoMoney /\ UNCHANGED delta
    /\ UNCHANGED <<record, flushing, choice, funding, amount, tokenConsumed,
                   pre, attempts, lost, periods>>

\* Second half: the token.  Its failure is only logged.
SettleToken(r) ==
    /\ pc[r] = "settleToken"
    /\ \/ DecreaseTokenQuota(r, delta[r]) /\ UNCHANGED <<lost, faults>>
       \/ DirectFault /\ NoMoney /\ lost' = [lost EXCEPT ![r] = TRUE]
    /\ Goto(r, "closed")
    /\ delta' = [delta EXCEPT ![r] = 0]
    /\ UNCHANGED <<record, flushing, choice, funding, amount, tokenConsumed,
                   pre, attempts, outcome, actual, periods>>

NeedsRefundOfWallet(r) == funding[r] = "wallet" /\ tokenConsumed[r] > 0
needsRefundLocked(r) ==
    tokenConsumed[r] > 0 \/ (funding[r] = "subscription" /\ pre[r] > 0)

\* The request fails after all its attempts: Refund starts the goroutine that gives back.
Refund(r) ==
    /\ pc[r] = "open"
    /\ outcome' = [outcome EXCEPT ![r] = "failed"]
    /\ Goto(r, IF needsRefundLocked(r) THEN "refund" ELSE "closed")
    /\ NoMoney
    /\ UNCHANGED <<record, flushing, choice, session, actual, lost, counts>>

\* The handler panics: the deferred function sees no error and refunds nothing.
Panic(r) ==
    /\ pc[r] = "open" /\ Fault
    /\ Close(r, "panicked")
    /\ NoMoney
    /\ UNCHANGED <<record, flushing, choice, session, actual, lost, periods>>

\* WalletFunding.Refund, tried once because it is not idempotent.
RefundWalletRetried(r) ==
    /\ pc[r] = "refund" /\ funding[r] = "wallet"
    /\ DecreaseUserQuota(r, -pre[r])
    /\ \/ Goto(r, "refundToken") /\ UNCHANGED faults
       \/ DirectFault /\ UNCHANGED pc
    /\ UNCHANGED <<record, flushing, choice, session, ends, periods>>
RefundWallet(r) ==
    /\ pc[r] = "refund" /\ funding[r] = "wallet"
    /\ \/ DecreaseUserQuota(r, -pre[r]) /\ UNCHANGED <<lost, faults>>
       \/ DirectFault /\ NoMoney /\ lost' = [lost EXCEPT ![r] = TRUE]
    /\ Goto(r, "refundToken")
    /\ UNCHANGED <<record, flushing, choice, session, outcome, actual, periods>>

\* SubscriptionFunding.Refund: RefundSubscriptionPreConsume until it returns no error, three
\* times at most.
AfterAttempt(r) ==
    Goto(r, IF attempts[r] + 1 = RefundAttempts THEN "refundToken" ELSE "refund")

RefundSubscription(r) ==
    /\ pc[r] = "refund" /\ funding[r] = "subscription"
    /\ attempts' = [attempts EXCEPT ![r] = @ + 1]
    /\ \/ /\ record[r] = "refunded" /\ NoMoney
          /\ Goto(r, "refundToken") /\ UNCHANGED <<record, lost, faults>>
       \/ /\ record[r] = "consumed" /\ PostConsumeUserSubscriptionDelta(r, -pre[r])
          /\ record' = [record EXCEPT ![r] = "refunded"]
          /\ \/ Goto(r, "refundToken") /\ UNCHANGED faults
             \/ Fault /\ AfterAttempt(r)   \* committed, but the answer was lost
          /\ UNCHANGED lost
       \/ /\ Fault /\ AfterAttempt(r) /\ NoMoney
          /\ lost' = [lost EXCEPT ![r] = @ \/ (attempts[r] + 1 = RefundAttempts
                                                /\ record[r] = "consumed")]
          /\ UNCHANGED record
    /\ UNCHANGED <<flushing, choice, funding, amount, tokenConsumed, pre,
                   delta, outcome, actual, periods>>

\* The same when the record cannot be marked: what is given back is committed before, in a
\* transaction of its own.
RefundUnmarked(r) ==
    /\ pc[r] = "refund" /\ funding[r] = "subscription" /\ record[r] = "consumed"
    /\ Fault /\ PostConsumeUserSubscriptionDelta(r, -pre[r])
    /\ attempts' = [attempts EXCEPT ![r] = @ + 1]
    /\ AfterAttempt(r) /\ lost' = [lost EXCEPT ![r] = TRUE]
    /\ UNCHANGED <<record, flushing, choice, funding, amount, tokenConsumed,
                   pre, delta, outcome, actual, periods>>

\* The token gets back what it gave.
RefundToken(r) ==
    /\ pc[r] = "refundToken"
    /\ \/ r \in Playground /\ NoMoney /\ UNCHANGED <<lost, faults>>
       \/ r \notin Playground /\ DecreaseTokenQuota(r, -tokenConsumed[r]) /\ UNCHANGED <<lost, faults>>
       \/ r \notin Playground /\ DirectFault /\ NoMoney /\ lost' = [lost EXCEPT ![r] = TRUE]
    /\ Goto(r, "closed")
    /\ UNCHANGED <<record, flushing, choice, session, outcome, actual, periods>>

-----------------------------------------------------------------------------
(* The batch updater and the end of a quota period *)

OnlyUpdater == UNCHANGED <<subUsed, record, batch, pc, choice, session, ends, paid, periods>>

\* batchUpdate: it takes the deltas out of the stores, and then applies the token's and the
\* user's.
HasDataOfUser == memWallet # 0
HasData == memWallet # 0 \/ memToken # 0
TakeStoresKeeping ==
    /\ HasData /\ flushWallet = 0 /\ flushToken = 0
    /\ flushWallet' = memWallet /\ flushToken' = memToken
    /\ UNCHANGED <<wallet, token, memWallet, memToken, drops, faults>> /\ OnlyUpdater
TakeStores ==
    /\ HasData /\ flushWallet = 0 /\ flushToken = 0
    /\ flushWallet' = memWallet /\ flushToken' = memToken
    /\ memWallet' = 0 /\ memToken' = 0
    /\ UNCHANGED <<wallet, token, drops, faults>> /\ OnlyUpdater

ApplyToken ==
    /\ flushToken # 0 /\ flushToken' = 0
    /\ \/ token' = token + flushToken /\ UNCHANGED <<dropToken, faults>>
       \/ Fault /\ dropToken' = dropToken + flushToken /\ UNCHANGED token
    /\ UNCHANGED <<wallet, memWallet, memToken, flushWallet, dropWallet>> /\ OnlyUpdater

ApplyUser ==
    /\ flushToken = 0 /\ flushWallet # 0 /\ flushWallet' = 0
    /\ \/ wallet' = wallet + flushWallet /\ UNCHANGED <<dropWallet, faults>>
       \/ Fault /\ dropWallet' = dropWallet + flushWallet /\ UNCHANGED wallet
    /\ UNCHANGED <<token, memWallet, memToken, flushToken, dropToken>> /\ OnlyUpdater

\* maybeResetUserSubscriptionWithPlanTx, from a pre-consumption or the reset job.
ResetSubscription ==
    /\ periods < MaxPeriods /\ periods' = periods + 1
    /\ subUsed' = 0
    /\ UNCHANGED <<wallet, token, record, updater, pc, choice, session, ends, paid, faults>>

-----------------------------------------------------------------------------
SessionStep(r) ==
    \/ PreConsumeBilling(r) \/ tryWallet(r) \/ CheckToken(r) \/ TakeToken(r)
    \/ FundWallet(r) \/ FundSubscription(r) \/ Rollback(r)
    \/ Settle(r) \/ SettleToken(r) \/ Refund(r) \/ Panic(r)
    \/ RefundWallet(r) \/ RefundSubscription(r) \/ RefundUnmarked(r) \/ RefundToken(r)

UpdaterStep == TakeStores \/ ApplyToken \/ ApplyUser

Next == (\E r \in Request : SessionStep(r)) \/ UpdaterStep \/ ResetSubscription

Spec == Init /\ [][Next]_vars

(***************************************************************************)
(* Fairness: a request that started goes on (an upstream call returns or   *)
(* times out, a goroutine runs), and the updater wakes up every interval.  *)
(***************************************************************************)
Fairness ==
    /\ \A r \in Request : WF_vars(pc[r] # "idle" /\ SessionStep(r))
    /\ WF_vars(UpdaterStep)

FairSpec == Spec /\ Fairness

-----------------------------------------------------------------------------
(* Properties *)

Where == {"idle", "wallet", "checkToken", "takeToken", "fund", "rollback", "rollbackToWallet",
          "open", "settleToken", "refund", "refundToken", "closed"}
Outcome == {"none", "refused", "settled", "unsettled", "failed", "panicked"}

\* Everything has its type, and however reservations, settlements, refunds and the end of a
\* period interleave, the subscription is used within its total.
TypeOK ==
    /\ wallet \in Int /\ token \in Int /\ subUsed \in 0..SubTotal
    /\ record \in [Request -> {"none", "consumed", "refunded"}]
    /\ batch \in BOOLEAN
    /\ memWallet \in Int /\ memToken \in Int /\ flushWallet \in Int /\ flushToken \in Int
    /\ dropWallet \in Int /\ dropToken \in Int
    /\ pc \in [Request -> Where]
    /\ pref \in [Request -> Preference \union {"none"}]
    /\ quota \in [Request -> Nat] /\ tokenTrusted \in [Request -> BOOLEAN]
    /\ funding \in [Request -> {"none", "wallet", "subscription"}]
    /\ amount \in [Request -> Nat] /\ tokenConsumed \in [Request -> Nat]
    /\ pre \in [Request -> Nat] /\ delta \in [Request -> Int] /\ attempts \in [Request -> Nat]
    /\ outcome \in [Request -> Outcome] /\ actual \in [Request -> Nat]
    /\ lost \in [Request -> BOOLEAN]
    /\ paid \in [Request -> [Account -> Int]]
    /\ faults \in Nat /\ periods \in Nat

\* What a request has to have cost, by how it ended: the actual cost when it was settled,
\* what it reserved when the settlement was refused or the handler panicked, else nothing.
Due(r) ==
    IF outcome[r] = "settled" THEN actual[r]
    ELSE IF outcome[r] \in {"unsettled", "panicked"} THEN pre[r] ELSE 0

\* A request that is over has cost its user what its outcome says, from one funding source
\* and the same from the token, whatever it fell back from on the way: a refused one leaves
\* nothing taken, a failed one is refunded in full, a trusted one that succeeded has paid.
\* Only a correcting statement that failed and was logged breaks this, or a pre-consumption
\* whose commit was not answered.
OutcomeCharged ==
    \A r \in Request : pc[r] = "closed" /\ ~lost[r] =>
        /\ paid[r]["wallet"] = (IF funding[r] = "wallet" THEN Due(r) ELSE 0)
        /\ paid[r]["subscription"] = (IF funding[r] = "subscription" THEN Due(r) ELSE 0)
        /\ paid[r]["token"] = (IF r \in Playground THEN 0 ELSE Due(r))

\* No account ever gets back more than it gave for a request, although refunds are retried,
\* any statement may fail and an answer may be lost.  Left out is the subscription when its
\* record could not be marked.
NeverOverRefunded ==
    \A r \in Request, a \in Account : (a # "subscription" \/ ~lost[r]) => paid[r][a] >= 0

\* "RefundSubscriptionPreConsume is idempotent and refunds pre-consumed subscription quota by
\* requestId." (model/subscription.go)
SubscriptionRefundedOnce == \A r \in Request : paid[r]["subscription"] >= 0

\* What all requests have paid from account a.
Sum(a) == SumFunctionOnSet([r \in Request |-> paid[r][a]], Request)

\* Nothing disappears between memory and database: balances, deltas in memory, deltas taken
\* out to be applied and those that could not be are together what was there at first less
\* what requests paid; the use of the subscription is what they paid from it in a period,
\* unless a refund failed half-way or a pre-consumption was not answered.
Conserved ==
    /\ wallet + memWallet + flushWallet + dropWallet + Sum("wallet") = WalletQuota
    /\ token + memToken + flushToken + dropToken + Sum("token") = TokenQuota
    /\ periods = 0 /\ (\A r \in Request : ~lost[r]) => subUsed = Sum("subscription")

Busy == \E r \in Request : pc[r] \notin {"idle", "closed"}
Booked == memWallet = 0 /\ memToken = 0 /\ flushWallet = 0 /\ flushToken = 0

\* Requests that started come to their end, their refunds included, and no delta stays in
\* memory: it has reached the database, or its statement failed and it was dropped.
EveryChargeBooked == Busy ~> (~Busy /\ Booked)

=============================================================================

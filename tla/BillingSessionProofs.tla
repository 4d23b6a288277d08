------------------------ MODULE BillingSessionProofs ------------------------
(***************************************************************************)
(* Proofs about BillingSession, for any requests, amounts, balances and    *)
(* bounds, with the batch updater on or off.                               *)
(*                                                                         *)
(* What a request has paid at its end depends on every step before it: the *)
(* token is taken before the funding source, given back when that refuses, *)
(* and taken again for the wallet.  The invariant Books therefore says for *)
(* each place a request can be at what the three accounts have given.  A   *)
(* failed statement makes that a lower bound.                              *)
(*                                                                         *)
(* Conserved relates the balances to sums over all requests.  A step moves *)
(* one request, so each sum changes by the difference of one entry         *)
(* (SumTheorems).                                                          *)
(***************************************************************************)
EXTENDS BillingSession, SumTheorems

\* x if the session is on that source.
From(r, source, x) == IF funding[r] = source THEN x ELSE 0

\* What the token gives for x.
Tokens(r, x) == IF r \in Playground THEN 0 ELSE x

\* The accounts have given w, s and t for the request, or more after a failed statement.
Gave(r, w, s, t) ==
    /\ paid[r]["wallet"] >= w /\ paid[r]["token"] >= t
    /\ ~lost[r] => /\ paid[r]["wallet"] = w
                   /\ paid[r]["subscription"] = s
                   /\ paid[r]["token"] = t

AtStart(r) ==
    pc[r] \in {"idle", "wallet", "checkToken", "takeToken"} =>
        /\ Gave(r, 0, 0, 0) /\ tokenConsumed[r] = 0
        /\ pc[r] = "takeToken" => r \notin Playground
AtFund(r) ==
    pc[r] \in {"fund", "rollback", "rollbackToWallet"} =>
        Gave(r, 0, 0, Tokens(r, tokenConsumed[r])) /\ tokenConsumed[r] = amount[r]
AtOpen(r) ==
    pc[r] = "open" =>
        /\ Gave(r, From(r, "wallet", pre[r]), From(r, "subscription", pre[r]), Tokens(r, pre[r]))
        /\ tokenConsumed[r] = pre[r]
        /\ funding[r] = "subscription" => record[r] = "consumed"
AtSettleToken(r) ==
    pc[r] = "settleToken" =>
        /\ r \notin Playground /\ outcome[r] = "settled" /\ actual[r] - delta[r] >= 0
        /\ Gave(r, From(r, "wallet", actual[r]), From(r, "subscription", actual[r]),
                actual[r] - delta[r])
AtRefund(r) ==
    pc[r] = "refund" =>
        /\ outcome[r] = "failed" /\ tokenConsumed[r] = pre[r]
        /\ Gave(r, From(r, "wallet", pre[r]),
                IF record[r] = "consumed" THEN From(r, "subscription", pre[r]) ELSE 0,
                Tokens(r, pre[r]))
AtRefundToken(r) ==
    pc[r] = "refundToken" =>
        outcome[r] = "failed" /\ Gave(r, 0, 0, Tokens(r, tokenConsumed[r]))
AtEnd(r) ==
    pc[r] = "closed" =>
        /\ paid[r]["wallet"] >= 0 /\ paid[r]["token"] >= 0
        /\ ~lost[r] => /\ paid[r]["wallet"] = From(r, "wallet", Due(r))
                       /\ paid[r]["subscription"] = From(r, "subscription", Due(r))
                       /\ paid[r]["token"] = Tokens(r, Due(r))

Books(r) ==
    /\ AtStart(r) /\ AtFund(r) /\ AtOpen(r) /\ AtSettleToken(r)
    /\ AtRefund(r) /\ AtRefundToken(r) /\ AtEnd(r)

IInv == TypeOK /\ \A r \in Request : Books(r)

-----------------------------------------------------------------------------
(* Money *)

MoneyType ==
    /\ wallet \in Int /\ token \in Int /\ subUsed \in 0..SubTotal
    /\ memWallet \in Int /\ memToken \in Int
    /\ paid \in [Request -> [Account -> Int]]

\* Nobody but r pays or is paid, and of r's accounts only a, by x.
Moved(r, a, x) ==
    /\ paid'[r][a] = paid[r][a] + x
    /\ \A b \in Account \ {a} : paid'[r][b] = paid[r][b]
    /\ \A q \in Request \ {r} : paid'[q] = paid[q]

LEMMA PaidMoved ==
    ASSUME NEW r \in Request, NEW a \in Account, NEW x \in Int,
           paid \in [Request -> [Account -> Int]],
           paid' = [paid EXCEPT ![r][a] = @ + x]
    PROVE  paid' \in [Request -> [Account -> Int]] /\ Moved(r, a, x)
<1>1. paid[r] \in [Account -> Int] /\ paid[r][a] + x \in Int
  OBVIOUS
<1>2. paid' = [paid EXCEPT ![r] = [paid[r] EXCEPT ![a] = paid[r][a] + x]]
  OBVIOUS
<1> QED
  BY <1>1, <1>2 DEF Moved

LEMMA WalletMoved ==
    ASSUME MoneyType, batch \in BOOLEAN, NEW r \in Request, NEW x \in Int, DecreaseUserQuota(r, x)
    PROVE  MoneyType' /\ Moved(r, "wallet", x)
<1>1. paid' \in [Request -> [Account -> Int]] /\ Moved(r, "wallet", x)
  BY PaidMoved DEF MoneyType, DecreaseUserQuota, Account
<1>2. wallet' \in Int /\ memWallet' \in Int
  BY DEF MoneyType, DecreaseUserQuota
<1> QED
  BY <1>1, <1>2 DEF MoneyType, DecreaseUserQuota

LEMMA TokenMoved ==
    ASSUME MoneyType, batch \in BOOLEAN, NEW r \in Request, NEW x \in Int, DecreaseTokenQuota(r, x)
    PROVE  MoneyType' /\ Moved(r, "token", x)
<1>1. paid' \in [Request -> [Account -> Int]] /\ Moved(r, "token", x)
  BY PaidMoved DEF MoneyType, DecreaseTokenQuota, Account
<1>2. token' \in Int /\ memToken' \in Int
  BY DEF MoneyType, DecreaseTokenQuota
<1> QED
  BY <1>1, <1>2 DEF MoneyType, DecreaseTokenQuota

LEMMA SubscriptionMoved ==
    ASSUME MoneyType, NEW r \in Request, NEW x \in Int, PostConsumeUserSubscriptionDelta(r, x)
    PROVE  MoneyType' /\ Moved(r, "subscription", x)
<1>1. paid' \in [Request -> [Account -> Int]] /\ Moved(r, "subscription", x)
  BY PaidMoved DEF MoneyType, PostConsumeUserSubscriptionDelta, Account
<1>2. subUsed' \in 0..SubTotal
  BY QuotaAssumption
     DEF MoneyType, PostConsumeUserSubscriptionDelta, WithinTotal, AtLeast
<1> QED
  BY <1>1, <1>2 DEF MoneyType, PostConsumeUserSubscriptionDelta

LEMMA NothingMoved ==
    ASSUME MoneyType, NoMoney
    PROVE  MoneyType' /\ paid' = paid
BY DEF MoneyType, NoMoney

-----------------------------------------------------------------------------
(* Requests that a step is not about *)

Same(q) ==
    /\ pc'[q] = pc[q] /\ paid'[q] = paid[q] /\ lost'[q] = lost[q] /\ record'[q] = record[q]
    /\ funding'[q] = funding[q] /\ amount'[q] = amount[q] /\ pre'[q] = pre[q]
    /\ tokenConsumed'[q] = tokenConsumed[q] /\ delta'[q] = delta[q]
    /\ outcome'[q] = outcome[q] /\ actual'[q] = actual[q]

LEMMA BooksKept ==
    ASSUME NEW q \in Request, Books(q), Same(q)
    PROVE  Books(q)'
BY DEF Books, Same, AtStart, AtFund, AtOpen, AtSettleToken, AtRefund, AtRefundToken, AtEnd,
       Gave, From, Tokens, Due

-----------------------------------------------------------------------------
(* A step at a time *)

LEMMA TypeMoney ==
    ASSUME TypeOK
    PROVE  MoneyType /\ batch \in BOOLEAN
BY DEF TypeOK, MoneyType

Source == {"none", "wallet", "subscription"}
RecordStatus == {"none", "consumed", "refunded"}

LEMMA Names ==
    /\ {"wallet", "checkToken", "takeToken", "fund", "rollback", "rollbackToWallet", "open",
        "settleToken", "refund", "refundToken", "closed"} \subseteq Where
    /\ {"refused", "settled", "unsettled", "failed", "panicked"} \subseteq Outcome
    /\ {"wallet", "subscription"} \subseteq Source
    /\ {"consumed", "refunded"} \subseteq RecordStatus
BY DEF Where, Outcome, Source, RecordStatus

LEMMA SessionType ==
    ASSUME TypeOK
    PROVE  /\ pc \in [Request -> Where] /\ outcome \in [Request -> Outcome]
           /\ funding \in [Request -> Source] /\ amount \in [Request -> Nat]
           /\ tokenConsumed \in [Request -> Nat] /\ pre \in [Request -> Nat]
           /\ delta \in [Request -> Int] /\ attempts \in [Request -> Nat]
           /\ actual \in [Request -> Nat] /\ lost \in [Request -> BOOLEAN]
           /\ quota \in [Request -> Nat] /\ record \in [Request -> RecordStatus]
BY DEF TypeOK, Source, RecordStatus

LEMMA FaultsNat ==
    ASSUME TypeOK
    PROVE  faults \in Nat /\ faults + 1 \in Nat
BY DEF TypeOK

LEMMA StartStep ==
    ASSUME IInv, NEW r \in Request, PreConsumeBilling(r)
    PROVE  IInv'
<1> USE DEF Goto, flushing, drops, choice, session, ends, counts
<1>1. MoneyType' /\ paid' = paid
  BY TypeMoney, NothingMoved DEF IInv, PreConsumeBilling
<1>2. PICK p \in Preference, x \in Estimate :
        /\ pref' = [pref EXCEPT ![r] = p]
        /\ quota' = [quota EXCEPT ![r] = x]
        /\ tokenTrusted' = [tokenTrusted EXCEPT ![r] = TokenUnlimited \/ token > TrustQuota]
        /\ IF p = "subscription_only" \/ (p = "subscription_first" /\ SubTotal > 0)
           THEN trySubscription(r, x)
           ELSE Goto(r, "wallet") /\ UNCHANGED <<funding, amount>>
  BY DEF PreConsumeBilling
<1>3. x \in Nat /\ AtLeast(x, 1) \in Nat /\ (TokenUnlimited \/ token > TrustQuota) \in BOOLEAN
  BY QuotaAssumption DEF AtLeast
<1>4. /\ pc' \in [Request -> Where] /\ pc'[r] \in {"wallet", "checkToken"}
      /\ \A q \in Request \ {r} : pc'[q] = pc[q]
      /\ funding' \in [Request -> Source]
      /\ amount' \in [Request -> Nat]
      /\ \A q \in Request \ {r} : funding'[q] = funding[q] /\ amount'[q] = amount[q]
  BY <1>2, <1>3, SessionType, Names DEF IInv, trySubscription
<1>5. TypeOK'
  <2>1. /\ pref' \in [Request -> Preference \union {"none"}] /\ quota' \in [Request -> Nat]
        /\ tokenTrusted' \in [Request -> BOOLEAN]
    BY <1>2, <1>3 DEF IInv, TypeOK
  <2> QED
    BY <1>1, <1>4, <2>1 DEF IInv, TypeOK, MoneyType, PreConsumeBilling, Source
<1>6. Books(r)'
  BY <1>1, <1>4
     DEF IInv, TypeOK, PreConsumeBilling, Books, AtStart, AtFund, AtOpen, AtSettleToken, AtRefund,
         AtRefundToken, AtEnd, Gave
<1>7. \A q \in Request \ {r} : Books(q)'
  BY <1>1, <1>4, BooksKept DEF IInv, PreConsumeBilling, Same
<1> QED
  BY <1>5, <1>6, <1>7 DEF IInv

LEMMA TryWalletStep ==
    ASSUME IInv, NEW r \in Request, tryWallet(r)
    PROVE  IInv'
<1> USE DEF Goto, Close, flushing, drops, choice, counts
<1>1. MoneyType' /\ paid' = paid
  BY TypeMoney, NothingMoved DEF IInv, tryWallet
<1>2. quota[r] \in Nat /\ AtLeast(quota[r], 1) \in Nat
  BY DEF IInv, TypeOK, AtLeast
<1>3. /\ pc' \in [Request -> Where]
      /\ \A q \in Request \ {r} : pc'[q] = pc[q]
      /\ funding' \in [Request -> Source]
      /\ amount' \in [Request -> Nat]
      /\ outcome' \in [Request -> Outcome]
      /\ \A q \in Request \ {r} : /\ funding'[q] = funding[q] /\ amount'[q] = amount[q]
                                  /\ outcome'[q] = outcome[q]
  BY <1>2, SessionType, Names DEF IInv, tryWallet, trySubscription
<1>4. \/ pc'[r] = "checkToken"
      \/ pc'[r] = "closed" /\ outcome'[r] = "refused"
      \/ pc'[r] = "fund" /\ amount'[r] = 0
  BY <1>2 DEF IInv, TypeOK, tryWallet, trySubscription
<1>5. TypeOK'
  BY <1>1, <1>3 DEF IInv, TypeOK, MoneyType, tryWallet, Source
<1>6. Books(r)'
  BY <1>1, <1>3, <1>4
     DEF IInv, TypeOK, tryWallet, Books, AtStart, AtFund, AtOpen, AtSettleToken, AtRefund,
         AtRefundToken, AtEnd, Gave, Tokens, From, Due
<1>7. \A q \in Request \ {r} : Books(q)'
  BY <1>1, <1>3, BooksKept DEF IInv, tryWallet, Same
<1> QED
  BY <1>5, <1>6, <1>7 DEF IInv

LEMMA CheckTokenStep ==
    ASSUME IInv, NEW r \in Request, CheckToken(r)
    PROVE  IInv'
<1> USE DEF Goto, Close, flushing, drops, choice, counts
<1>1. MoneyType' /\ paid' = paid
  BY TypeMoney, NothingMoved DEF IInv, CheckToken
<1>2. /\ pc' \in [Request -> Where]
      /\ outcome' \in [Request -> Outcome]
      /\ tokenConsumed' \in [Request -> Nat]
      /\ \A q \in Request \ {r} : /\ pc'[q] = pc[q] /\ outcome'[q] = outcome[q]
                                  /\ tokenConsumed'[q] = tokenConsumed[q]
  BY SessionType, Names DEF IInv, CheckToken
<1>3. TypeOK'
  BY <1>1, <1>2 DEF IInv, TypeOK, MoneyType, CheckToken
<1>4. Books(r)'
  BY <1>1, <1>2
     DEF IInv, TypeOK, CheckToken, Books, AtStart, AtFund, AtOpen, AtSettleToken, AtRefund,
         AtRefundToken, AtEnd, Gave, Tokens, From, Due
<1>5. \A q \in Request \ {r} : Books(q)'
  BY <1>1, <1>2, BooksKept DEF IInv, CheckToken, Same
<1> QED
  BY <1>3, <1>4, <1>5 DEF IInv

LEMMA TakeTokenStep ==
    ASSUME IInv, NEW r \in Request, TakeToken(r)
    PROVE  IInv'
<1> USE DEF Goto, Close, flushing, drops, choice, session, ends, counts
<1>1. amount[r] \in Int
  BY SessionType DEF IInv
<1>2. /\ MoneyType'
      /\ DecreaseTokenQuota(r, amount[r]) => Moved(r, "token", amount[r])
      /\ NoMoney => paid' = paid
  BY <1>1, TypeMoney, TokenMoved, NothingMoved DEF IInv, TakeToken
<1>3. /\ pc' \in [Request -> Where]
      /\ outcome' \in [Request -> Outcome]
      /\ tokenConsumed' \in [Request -> Nat]
      /\ \A q \in Request \ {r} : /\ pc'[q] = pc[q]
                                  /\ outcome'[q] = outcome[q]
                                  /\ tokenConsumed'[q] = tokenConsumed[q]
      /\ faults' \in Nat
  BY SessionType, FaultsNat, Names DEF IInv, TakeToken, DirectFault, Fault
<1>4. TypeOK'
  BY <1>2, <1>3 DEF IInv, TypeOK, MoneyType, RecordStatus, TakeToken
<1>5. Books(r)'
  <2>1. CASE DirectFault /\ Close(r, "refused") /\ NoMoney /\ UNCHANGED tokenConsumed
    BY <1>2, <1>3, <2>1
       DEF IInv, TypeOK, TakeToken, Books, AtStart, AtFund, AtOpen, AtSettleToken, AtRefund,
           AtRefundToken, AtEnd, Gave, Tokens, From, Due
  <2>2. CASE /\ DecreaseTokenQuota(r, amount[r])
             /\ tokenConsumed' = [tokenConsumed EXCEPT ![r] = amount[r]]
             /\ Goto(r, "fund")
    BY <1>2, <1>3, <2>2
       DEF IInv, TypeOK, TakeToken, Moved, Account, Books, AtStart, AtFund, AtOpen, AtSettleToken, AtRefund,
           AtRefundToken, AtEnd, Gave, Tokens, From, Due
  <2> QED
    BY <2>1, <2>2 DEF TakeToken
<1>6. \A q \in Request \ {r} : Books(q)'
  BY <1>2, <1>3, BooksKept DEF IInv, TakeToken, Moved, Same
<1> QED
  BY <1>4, <1>5, <1>6 DEF IInv

LEMMA FundWalletStep ==
    ASSUME IInv, NEW r \in Request, FundWallet(r)
    PROVE  IInv'
<1> USE DEF Goto, Close, flushing, drops, choice, session, ends, counts
<1>1. amount[r] \in Int
  BY SessionType DEF IInv
<1>2. /\ MoneyType'
      /\ DecreaseUserQuota(r, amount[r]) => Moved(r, "wallet", amount[r])
      /\ NoMoney => paid' = paid
  BY <1>1, TypeMoney, WalletMoved, NothingMoved DEF IInv, FundWallet
<1>3. /\ pc' \in [Request -> Where]
      /\ pre' \in [Request -> Nat]
      /\ \A q \in Request \ {r} : /\ pc'[q] = pc[q]
                                  /\ pre'[q] = pre[q]
      /\ faults' \in Nat
  BY SessionType, FaultsNat, Names DEF IInv, FundWallet, DirectFault, Fault, Opened
<1>4. TypeOK'
  BY <1>2, <1>3 DEF IInv, TypeOK, MoneyType, RecordStatus, FundWallet
<1>5. Books(r)'
  BY <1>2, <1>3
     DEF IInv, TypeOK, FundWallet, Moved, Account, Opened, Books, AtStart, AtFund, AtOpen, AtSettleToken, AtRefund,
         AtRefundToken, AtEnd, Gave, Tokens, From, Due
<1>6. \A q \in Request \ {r} : Books(q)'
  BY <1>2, <1>3, BooksKept DEF IInv, FundWallet, Moved, Same
<1> QED
  BY <1>4, <1>5, <1>6 DEF IInv

LEMMA FundSubscriptionStep ==
    ASSUME IInv, NEW r \in Request, FundSubscription(r)
    PROVE  IInv'
<1> USE DEF Goto, Close, flushing, drops, choice, session, ends, counts
<1>1. amount[r] \in Int
  BY SessionType DEF IInv
<1>2. /\ MoneyType'
      /\ PostConsumeUserSubscriptionDelta(r, amount[r]) => Moved(r, "subscription", amount[r])
      /\ NoMoney => paid' = paid
  BY <1>1, TypeMoney, SubscriptionMoved, NothingMoved DEF IInv, FundSubscription
<1>3. /\ pc' \in [Request -> Where]
      /\ pre' \in [Request -> Nat]
      /\ record' \in [Request -> RecordStatus]
      /\ \A q \in Request \ {r} : /\ pc'[q] = pc[q]
                                  /\ pre'[q] = pre[q]
                                  /\ record'[q] = record[q]
      /\ faults' \in Nat
  BY SessionType, FaultsNat, Names DEF IInv, FundSubscription, DirectFault, Fault, Opened
<1>7. lost' \in [Request -> BOOLEAN] /\ \A q \in Request \ {r} : lost'[q] = lost[q]
  <2>1. lost' = lost \/ lost' = [lost EXCEPT ![r] = TRUE]
    BY DEF FundSubscription
  <2> QED
    BY <2>1, SessionType DEF IInv
<1>4. TypeOK'
  BY <1>2, <1>3, <1>7 DEF IInv, TypeOK, MoneyType, RecordStatus, FundSubscription
<1>5. Books(r)'
  BY <1>2, <1>3, <1>7
     DEF IInv, TypeOK, FundSubscription, Moved, Account, Opened, Books, AtStart, AtFund, AtOpen, AtSettleToken, AtRefund,
         AtRefundToken, AtEnd, Gave, Tokens, From, Due
<1>6. \A q \in Request \ {r} : Books(q)'
  BY <1>2, <1>3, <1>7, BooksKept DEF IInv, FundSubscription, Moved, Same
<1> QED
  BY <1>4, <1>5, <1>6 DEF IInv

LEMMA RollbackStep ==
    ASSUME IInv, NEW r \in Request, Rollback(r)
    PROVE  IInv'
<1> USE DEF Goto, Close, flushing, drops, choice, session, ends, counts
<1>1. -tokenConsumed[r] \in Int
  BY SessionType DEF IInv
<1>2. /\ MoneyType'
      /\ DecreaseTokenQuota(r, -tokenConsumed[r]) => Moved(r, "token", -tokenConsumed[r])
      /\ NoMoney => paid' = paid
  BY <1>1, TypeMoney, TokenMoved, NothingMoved DEF IInv, Rollback
<1>3. /\ pc' \in [Request -> Where]
      /\ outcome' \in [Request -> Outcome]
      /\ tokenConsumed' \in [Request -> Nat]
      /\ \A q \in Request \ {r} : /\ pc'[q] = pc[q]
                                  /\ outcome'[q] = outcome[q]
                                  /\ tokenConsumed'[q] = tokenConsumed[q]
      /\ faults' \in Nat
  BY SessionType, FaultsNat, Names DEF IInv, Rollback, DirectFault, Fault
<1>7. lost' \in [Request -> BOOLEAN] /\ \A q \in Request \ {r} : lost'[q] = lost[q]
  <2>1. lost' = lost \/ lost' = [lost EXCEPT ![r] = TRUE]
    BY DEF Rollback
  <2> QED
    BY <2>1, SessionType DEF IInv
<1>4. TypeOK'
  BY <1>2, <1>3, <1>7 DEF IInv, TypeOK, MoneyType, RecordStatus, Rollback
<1>5. Books(r)'
  BY <1>2, <1>3, <1>7
     DEF IInv, TypeOK, Rollback, Moved, Account, Books, AtStart, AtFund, AtOpen, AtSettleToken, AtRefund,
         AtRefundToken, AtEnd, Gave, Tokens, From, Due
<1>6. \A q \in Request \ {r} : Books(q)'
  BY <1>2, <1>3, <1>7, BooksKept DEF IInv, Rollback, Moved, Same
<1> QED
  BY <1>4, <1>5, <1>6 DEF IInv

LEMMA SettleStep ==
    ASSUME IInv, NEW r \in Request, Settle(r)
    PROVE  IInv'
<1> USE DEF Goto, Close, flushing, drops, choice, session, ends, counts
<1>1. PICK a \in Actual :
        /\ actual' = [actual EXCEPT ![r] = a]
        /\ \/ a - pre[r] = 0 /\ Close(r, "settled") /\ NoMoney /\ UNCHANGED <<delta, faults>>
           \/ /\ a - pre[r] # 0
              /\ \/ funding[r] = "wallet" /\ DecreaseUserQuota(r, a - pre[r])
                 \/ funding[r] = "subscription" /\ PostConsumeUserSubscriptionDelta(r, a - pre[r])
              /\ outcome' = [outcome EXCEPT ![r] = "settled"]
              /\ IF r \in Playground THEN Goto(r, "closed") /\ UNCHANGED delta
                 ELSE Goto(r, "settleToken") /\ delta' = [delta EXCEPT ![r] = a - pre[r]]
              /\ UNCHANGED faults
           \/ /\ a - pre[r] # 0
              /\ \/ funding[r] = "wallet" /\ DirectFault
                 \/ funding[r] = "subscription" /\ Fault
                 \/ funding[r] = "subscription" /\ ~WithinTotal(a - pre[r]) /\ UNCHANGED faults
              /\ Close(r, "unsettled") /\ NoMoney /\ UNCHANGED delta
  BY DEF Settle
<1>2. a \in Nat /\ pre[r] \in Nat /\ a - pre[r] \in Int
  BY SessionType, QuotaAssumption DEF IInv
<1>3. /\ MoneyType'
      /\ DecreaseUserQuota(r, a - pre[r]) => Moved(r, "wallet", a - pre[r])
      /\ PostConsumeUserSubscriptionDelta(r, a - pre[r]) => Moved(r, "subscription", a - pre[r])
      /\ NoMoney => paid' = paid
  BY <1>1, <1>2, TypeMoney, WalletMoved, SubscriptionMoved, NothingMoved DEF IInv
<1>4. faults' \in Nat
  BY <1>1, FaultsNat DEF IInv, DirectFault, Fault
<1>5. /\ actual' \in [Request -> Nat] /\ actual'[r] = a
      /\ \A q \in Request \ {r} : actual'[q] = actual[q]
  BY <1>1, <1>2, SessionType DEF IInv
<1>6. /\ pc' \in [Request -> Where] /\ outcome' \in [Request -> Outcome]
      /\ \A q \in Request \ {r} : pc'[q] = pc[q] /\ outcome'[q] = outcome[q]
  BY <1>1, SessionType, Names DEF IInv
<1>7. delta' \in [Request -> Int] /\ \A q \in Request \ {r} : delta'[q] = delta[q]
  BY <1>1, <1>2, SessionType DEF IInv
<1>8. TypeOK'
  BY <1>3, <1>4, <1>5, <1>6, <1>7 DEF IInv, TypeOK, MoneyType, Settle
<1>9. Books(r)'
  <2>1. /\ funding' = funding /\ pre' = pre /\ lost' = lost
        /\ paid[r] \in [Account -> Int]
        /\ Gave(r, From(r, "wallet", pre[r]), From(r, "subscription", pre[r]), Tokens(r, pre[r]))
    BY DEF IInv, TypeOK, Settle, Books, AtOpen
  <2> USE DEF Gave, Tokens, From, Due, Account
  <2>2. CASE a - pre[r] = 0 /\ Close(r, "settled") /\ NoMoney
    <3>1. a = pre[r]
      BY <1>2, <2>2
    <3>2. pc'[r] = "closed" /\ outcome'[r] = "settled" /\ paid' = paid
      BY <1>3, <2>2, SessionType DEF IInv
    <3> QED
      BY <1>2, <1>5, <2>1, <3>1, <3>2
         DEF Books, AtStart, AtFund, AtOpen, AtSettleToken, AtRefund, AtRefundToken, AtEnd
  <2>3. CASE Close(r, "unsettled") /\ NoMoney
    <3>1. pc'[r] = "closed" /\ outcome'[r] = "unsettled" /\ paid' = paid
      BY <1>3, <2>3, SessionType DEF IInv
    <3> QED
      BY <1>2, <2>1, <3>1
         DEF Books, AtStart, AtFund, AtOpen, AtSettleToken, AtRefund, AtRefundToken, AtEnd
  <2>4. CASE /\ \/ funding[r] = "wallet" /\ DecreaseUserQuota(r, a - pre[r])
                \/ funding[r] = "subscription" /\ PostConsumeUserSubscriptionDelta(r, a - pre[r])
             /\ outcome' = [outcome EXCEPT ![r] = "settled"]
             /\ IF r \in Playground THEN Goto(r, "closed") /\ UNCHANGED delta
                ELSE Goto(r, "settleToken") /\ delta' = [delta EXCEPT ![r] = a - pre[r]]
    <3>1. /\ \/ funding[r] = "wallet" /\ Moved(r, "wallet", a - pre[r])
             \/ funding[r] = "subscription" /\ Moved(r, "subscription", a - pre[r])
          /\ outcome'[r] = "settled" /\ actual'[r] = a
          /\ \/ r \in Playground /\ pc'[r] = "closed"
             \/ r \notin Playground /\ pc'[r] = "settleToken" /\ delta'[r] = a - pre[r]
      BY <1>3, <1>5, <2>4, SessionType DEF IInv
    <3>2. /\ paid'[r]["wallet"] = paid[r]["wallet"] + From(r, "wallet", a - pre[r])
          /\ paid'[r]["subscription"]
               = paid[r]["subscription"] + From(r, "subscription", a - pre[r])
          /\ paid'[r]["token"] = paid[r]["token"]
      BY <2>1, <3>1 DEF Moved
    <3>3. /\ paid'[r]["wallet"] >= From(r, "wallet", a) /\ paid'[r]["token"] >= Tokens(r, pre[r])
          /\ ~lost[r] => /\ paid'[r]["wallet"] = From(r, "wallet", a)
                         /\ paid'[r]["subscription"] = From(r, "subscription", a)
                         /\ paid'[r]["token"] = Tokens(r, pre[r])
      BY <1>2, <2>1, <3>1, <3>2
    <3>4. CASE r \in Playground
      <4>1. pc'[r] = "closed" /\ Due(r)' = a
        BY <3>1, <3>4
      <4>2. /\ From(r, "wallet", Due(r))' = From(r, "wallet", a)
            /\ From(r, "subscription", Due(r))' = From(r, "subscription", a)
            /\ Tokens(r, Due(r))' = 0 /\ Tokens(r, pre[r]) = 0
            /\ From(r, "wallet", a) \in Nat
        BY <1>2, <2>1, <3>4, <4>1 DEF From, Tokens
      <4>3. AtEnd(r)'
        <5>1. paid'[r]["wallet"] \in Int /\ paid'[r]["token"] \in Int
          BY <1>3 DEF MoneyType
        <5> HIDE DEF Due, From, Tokens
        <5> QED
          BY <2>1, <3>3, <4>2, <5>1 DEF AtEnd
      <4> QED
        BY <4>1, <4>3
           DEF Books, AtStart, AtFund, AtOpen, AtSettleToken, AtRefund, AtRefundToken
    <3>5. CASE r \notin Playground
      <4>1. a - delta'[r] = pre[r]
        BY <1>2, <3>1, <3>5
      <4> QED
        BY <1>2, <2>1, <3>1, <3>3, <3>5, <4>1
           DEF Books, AtStart, AtFund, AtOpen, AtSettleToken, AtRefund, AtRefundToken, AtEnd
    <3> QED
      BY <3>4, <3>5
  <2> QED
    BY <1>1, <2>2, <2>3, <2>4
<1>10. \A q \in Request \ {r} : Books(q)'
  BY <1>1, <1>3, <1>5, <1>6, <1>7, BooksKept DEF IInv, Settle, Moved, Same
<1> QED
  BY <1>8, <1>9, <1>10 DEF IInv

LEMMA SettleTokenStep ==
    ASSUME IInv, NEW r \in Request, SettleToken(r)
    PROVE  IInv'
<1> USE DEF Goto, Close, flushing, drops, choice, session, ends, counts
<1>1. delta[r] \in Int
  BY SessionType DEF IInv
<1>2. /\ MoneyType'
      /\ DecreaseTokenQuota(r, delta[r]) => Moved(r, "token", delta[r])
      /\ NoMoney => paid' = paid
  BY <1>1, TypeMoney, TokenMoved, NothingMoved DEF IInv, SettleToken
<1>3. /\ pc' \in [Request -> Where]
      /\ delta' \in [Request -> Int]
      /\ \A q \in Request \ {r} : /\ pc'[q] = pc[q]
                                  /\ delta'[q] = delta[q]
      /\ faults' \in Nat
  BY SessionType, FaultsNat, Names DEF IInv, SettleToken, DirectFault, Fault
<1>7. lost' \in [Request -> BOOLEAN] /\ \A q \in Request \ {r} : lost'[q] = lost[q]
  <2>1. lost' = lost \/ lost' = [lost EXCEPT ![r] = TRUE]
    BY DEF SettleToken
  <2> QED
    BY <2>1, SessionType DEF IInv
<1>4. TypeOK'
  BY <1>2, <1>3, <1>7 DEF IInv, TypeOK, MoneyType, RecordStatus, SettleToken
<1>5. Books(r)'
  BY <1>2, <1>3, <1>7
     DEF IInv, TypeOK, SettleToken, Moved, Account, Books, AtStart, AtFund, AtOpen, AtSettleToken, AtRefund,
         AtRefundToken, AtEnd, Gave, Tokens, From, Due
<1>6. \A q \in Request \ {r} : Books(q)'
  BY <1>2, <1>3, <1>7, BooksKept DEF IInv, SettleToken, Moved, Same
<1> QED
  BY <1>4, <1>5, <1>6 DEF IInv

LEMMA RefundStep ==
    ASSUME IInv, NEW r \in Request, Refund(r)
    PROVE  IInv'
<1> USE DEF Goto, Close, flushing, drops, choice, session, ends, counts
<1>2. /\ MoneyType'
      /\ NoMoney => paid' = paid
  BY TypeMoney, NothingMoved DEF IInv, Refund
<1>3. /\ pc' \in [Request -> Where]
      /\ outcome' \in [Request -> Outcome]
      /\ \A q \in Request \ {r} : /\ pc'[q] = pc[q]
                                  /\ outcome'[q] = outcome[q]
      /\ faults' \in Nat
  BY SessionType, FaultsNat, Names DEF IInv, Refund, DirectFault, Fault, needsRefundLocked
<1>4. TypeOK'
  BY <1>2, <1>3 DEF IInv, TypeOK, MoneyType, RecordStatus, Refund
<1>5. Books(r)'
  BY <1>2, <1>3
     DEF IInv, TypeOK, Refund, Moved, Account, needsRefundLocked, Books, AtStart, AtFund, AtOpen, AtSettleToken, AtRefund,
         AtRefundToken, AtEnd, Gave, Tokens, From, Due
<1>6. \A q \in Request \ {r} : Books(q)'
  BY <1>2, <1>3, BooksKept DEF IInv, Refund, Moved, Same
<1> QED
  BY <1>4, <1>5, <1>6 DEF IInv

LEMMA PanicStep ==
    ASSUME IInv, NEW r \in Request, Panic(r)
    PROVE  IInv'
<1> USE DEF Goto, Close, flushing, drops, choice, session, ends, counts
<1>2. /\ MoneyType'
      /\ NoMoney => paid' = paid
  BY TypeMoney, NothingMoved DEF IInv, Panic
<1>3. /\ pc' \in [Request -> Where]
      /\ outcome' \in [Request -> Outcome]
      /\ \A q \in Request \ {r} : /\ pc'[q] = pc[q]
                                  /\ outcome'[q] = outcome[q]
      /\ faults' \in Nat
  BY SessionType, FaultsNat, Names DEF IInv, Panic, DirectFault, Fault
<1>4. TypeOK'
  BY <1>2, <1>3 DEF IInv, TypeOK, MoneyType, RecordStatus, Panic
<1>5. Books(r)'
  BY <1>2, <1>3
     DEF IInv, TypeOK, Panic, Moved, Account, Books, AtStart, AtFund, AtOpen, AtSettleToken, AtRefund,
         AtRefundToken, AtEnd, Gave, Tokens, From, Due
<1>6. \A q \in Request \ {r} : Books(q)'
  BY <1>2, <1>3, BooksKept DEF IInv, Panic, Moved, Same
<1> QED
  BY <1>4, <1>5, <1>6 DEF IInv

LEMMA RefundWalletStep ==
    ASSUME IInv, NEW r \in Request, RefundWallet(r)
    PROVE  IInv'
<1> USE DEF Goto, Close, flushing, drops, choice, session, ends, counts
<1>1. -pre[r] \in Int
  BY SessionType DEF IInv
<1>2. /\ MoneyType'
      /\ DecreaseUserQuota(r, -pre[r]) => Moved(r, "wallet", -pre[r])
      /\ NoMoney => paid' = paid
  BY <1>1, TypeMoney, WalletMoved, NothingMoved DEF IInv, RefundWallet
<1>3. /\ pc' \in [Request -> Where]
      /\ lost' \in [Request -> BOOLEAN]
      /\ \A q \in Request \ {r} : /\ pc'[q] = pc[q]
                                  /\ lost'[q] = lost[q]
      /\ faults' \in Nat
  BY SessionType, FaultsNat, Names DEF IInv, RefundWallet, DirectFault, Fault
<1>4. TypeOK'
  BY <1>2, <1>3 DEF IInv, TypeOK, MoneyType, RecordStatus, RefundWallet
<1>5. Books(r)'
  BY <1>2, <1>3
     DEF IInv, TypeOK, RefundWallet, Moved, Account, Books, AtStart, AtFund, AtOpen, AtSettleToken, AtRefund,
         AtRefundToken, AtEnd, Gave, Tokens, From, Due
<1>6. \A q \in Request \ {r} : Books(q)'
  BY <1>2, <1>3, BooksKept DEF IInv, RefundWallet, Moved, Same
<1> QED
  BY <1>4, <1>5, <1>6 DEF IInv

LEMMA RefundSubscriptionStep ==
    ASSUME IInv, NEW r \in Request, RefundSubscription(r)
    PROVE  IInv'
<1> USE DEF Goto, Close, flushing, drops, choice, session, ends, counts
<1>1. -pre[r] \in Int
  BY SessionType DEF IInv
<1>2. /\ MoneyType'
      /\ PostConsumeUserSubscriptionDelta(r, -pre[r]) => Moved(r, "subscription", -pre[r])
      /\ NoMoney => paid' = paid
  BY <1>1, TypeMoney, SubscriptionMoved, NothingMoved DEF IInv, RefundSubscription
<1>3. /\ pc' \in [Request -> Where]
      /\ attempts' \in [Request -> Nat]
      /\ record' \in [Request -> RecordStatus]
      /\ \A q \in Request \ {r} : /\ pc'[q] = pc[q]
                                  /\ attempts'[q] = attempts[q]
                                  /\ record'[q] = record[q]
      /\ faults' \in Nat
  BY SessionType, FaultsNat, Names DEF IInv, RefundSubscription, DirectFault, Fault,
     AfterAttempt
<1>7. lost' \in [Request -> BOOLEAN] /\ \A q \in Request \ {r} : lost'[q] = lost[q]
  <2>1. lost' = lost \/ lost' = [lost EXCEPT ![r] = lost[r] \/ (attempts[r] + 1 = RefundAttempts /\ record[r] = "consumed")]
    BY DEF RefundSubscription
  <2> QED
    BY <2>1, SessionType DEF IInv
<1>4. TypeOK'
  BY <1>2, <1>3, <1>7 DEF IInv, TypeOK, MoneyType, RecordStatus, RefundSubscription
<1>5. Books(r)'
  BY <1>2, <1>3, <1>7
     DEF IInv, TypeOK, RefundSubscription, Moved, Account, AfterAttempt, Books, AtStart, AtFund, AtOpen, AtSettleToken, AtRefund,
         AtRefundToken, AtEnd, Gave, Tokens, From, Due
<1>6. \A q \in Request \ {r} : Books(q)'
  BY <1>2, <1>3, <1>7, BooksKept DEF IInv, RefundSubscription, Moved, Same
<1> QED
  BY <1>4, <1>5, <1>6 DEF IInv

LEMMA RefundUnmarkedStep ==
    ASSUME IInv, NEW r \in Request, RefundUnmarked(r)
    PROVE  IInv'
<1> USE DEF Goto, Close, flushing, drops, choice, session, ends, counts
<1>1. -pre[r] \in Int
  BY SessionType DEF IInv
<1>2. /\ MoneyType'
      /\ PostConsumeUserSubscriptionDelta(r, -pre[r]) => Moved(r, "subscription", -pre[r])
      /\ NoMoney => paid' = paid
  BY <1>1, TypeMoney, SubscriptionMoved, NothingMoved DEF IInv, RefundUnmarked
<1>3. /\ pc' \in [Request -> Where]
      /\ attempts' \in [Request -> Nat]
      /\ lost' \in [Request -> BOOLEAN]
      /\ \A q \in Request \ {r} : /\ pc'[q] = pc[q]
                                  /\ attempts'[q] = attempts[q]
                                  /\ lost'[q] = lost[q]
      /\ faults' \in Nat
  BY SessionType, FaultsNat, Names DEF IInv, RefundUnmarked, DirectFault, Fault, AfterAttempt
<1>4. TypeOK'
  BY <1>2, <1>3 DEF IInv, TypeOK, MoneyType, RecordStatus, RefundUnmarked
<1>5. Books(r)'
  BY <1>2, <1>3, SMTT(20)
     DEF IInv, TypeOK, RefundUnmarked, Moved, Account, AfterAttempt, Books, AtStart, AtFund, AtOpen, AtSettleToken, AtRefund,
         AtRefundToken, AtEnd, Gave, Tokens, From, Due
<1>6. \A q \in Request \ {r} : Books(q)'
  BY <1>2, <1>3, BooksKept DEF IInv, RefundUnmarked, Moved, Same
<1> QED
  BY <1>4, <1>5, <1>6 DEF IInv

LEMMA RefundTokenStep ==
    ASSUME IInv, NEW r \in Request, RefundToken(r)
    PROVE  IInv'
<1> USE DEF Goto, Close, flushing, drops, choice, session, ends, counts
<1>1. -tokenConsumed[r] \in Int
  BY SessionType DEF IInv
<1>2. /\ MoneyType'
      /\ DecreaseTokenQuota(r, -tokenConsumed[r]) => Moved(r, "token", -tokenConsumed[r])
      /\ NoMoney => paid' = paid
  BY <1>1, TypeMoney, TokenMoved, NothingMoved DEF IInv, RefundToken
<1>3. /\ pc' \in [Request -> Where]
      /\ lost' \in [Request -> BOOLEAN]
      /\ \A q \in Request \ {r} : /\ pc'[q] = pc[q]
                                  /\ lost'[q] = lost[q]
      /\ faults' \in Nat
  BY SessionType, FaultsNat, Names DEF IInv, RefundToken, DirectFault, Fault
<1>4. TypeOK'
  BY <1>2, <1>3 DEF IInv, TypeOK, MoneyType, RecordStatus, RefundToken
<1>5. Books(r)'
  <2>1. /\ paid[r] \in [Account -> Int] /\ tokenConsumed[r] \in Nat /\ lost[r] \in BOOLEAN
        /\ outcome[r] = "failed" /\ Gave(r, 0, 0, Tokens(r, tokenConsumed[r]))
        /\ pc'[r] = "closed" /\ outcome' = outcome
    BY DEF IInv, TypeOK, RefundToken, Books, AtRefundToken
  <2> SUFFICES AtEnd(r)'
    BY <2>1 DEF Books, AtStart, AtFund, AtOpen, AtSettleToken, AtRefund, AtRefundToken
  <2> USE DEF Gave, Tokens, AtEnd, From, Due, Account
  <2>2. CASE r \in Playground /\ NoMoney /\ UNCHANGED lost
    BY <1>2, <2>1, <2>2
  <2>3. CASE r \notin Playground /\ DecreaseTokenQuota(r, -tokenConsumed[r]) /\ UNCHANGED lost
    BY <1>2, <2>1, <2>3 DEF Moved
  <2>4. CASE r \notin Playground /\ NoMoney /\ lost' = [lost EXCEPT ![r] = TRUE]
    <3>1. lost'[r] = TRUE /\ paid' = paid
      BY <1>2, <2>4, SessionType DEF IInv
    <3> QED
      BY <2>1, <3>1
  <2> QED
    BY <2>2, <2>3, <2>4 DEF RefundToken
<1>6. \A q \in Request \ {r} : Books(q)'
  BY <1>2, <1>3, BooksKept DEF IInv, RefundToken, Moved, Same
<1> QED
  BY <1>4, <1>5, <1>6 DEF IInv

LEMMA UpdaterSteps ==
    ASSUME IInv, UpdaterStep
    PROVE  IInv'
<1> USE DEF OnlyUpdater, drops, choice, session, ends
<1>1. /\ wallet' \in Int /\ token' \in Int /\ memWallet' \in Int /\ memToken' \in Int
      /\ flushWallet' \in Int /\ flushToken' \in Int
      /\ dropWallet' \in Int /\ dropToken' \in Int /\ faults' \in Nat
  <2> USE DEF IInv, TypeOK, Fault
  <2>1. CASE TakeStores
    BY <2>1 DEF TakeStores
  <2>2. CASE ApplyToken
    BY <2>2 DEF ApplyToken
  <2>3. CASE ApplyUser
    BY <2>3 DEF ApplyUser
  <2> QED
    BY <2>1, <2>2, <2>3 DEF UpdaterStep
<1>2. OnlyUpdater
  BY DEF UpdaterStep, TakeStores, ApplyToken, ApplyUser
<1>3. TypeOK'
  BY <1>1, <1>2 DEF IInv, TypeOK
<1>4. \A q \in Request : Books(q)'
  BY <1>2, BooksKept DEF IInv, Same
<1> QED
  BY <1>3, <1>4 DEF IInv

LEMMA ResetStep ==
    ASSUME IInv, ResetSubscription
    PROVE  IInv'
<1> USE DEF updater, drops, choice, session, ends, counts
<1>1. subUsed' \in 0..SubTotal /\ periods' \in Nat
  BY QuotaAssumption DEF IInv, TypeOK, ResetSubscription
<1>2. TypeOK'
  BY <1>1 DEF IInv, TypeOK, ResetSubscription
<1>3. \A q \in Request : Books(q)'
  BY BooksKept DEF IInv, Same, ResetSubscription
<1> QED
  BY <1>2, <1>3 DEF IInv

LEMMA StutterStep ==
    ASSUME IInv, UNCHANGED vars
    PROVE  IInv'
<1> USE DEF vars, store, updater, drops, choice, session, ends, counts
<1>1. TypeOK'
  BY DEF IInv, TypeOK
<1>2. \A q \in Request : Books(q)'
  BY BooksKept DEF IInv, Same
<1> QED
  BY <1>1, <1>2 DEF IInv

-----------------------------------------------------------------------------
(* Theorems *)

LEMMA Initially == Init => IInv
<1> SUFFICES ASSUME Init PROVE IInv
  OBVIOUS
<1>1. TypeOK
  <2>1. paid \in [Request -> [Account -> Int]]
    BY DEF Init
  <2>2. wallet \in Int /\ token \in Int /\ subUsed \in 0..SubTotal /\ batch \in BOOLEAN
    BY QuotaAssumption DEF Init
  <2> QED
    BY <2>1, <2>2 DEF Init, TypeOK, Where, Outcome
<1>2. \A r \in Request : Books(r)
  BY DEF Init, Account, Books, AtStart, AtFund, AtOpen, AtSettleToken, AtRefund, AtRefundToken,
         AtEnd, Gave
<1> QED
  BY <1>1, <1>2 DEF IInv

LEMMA Preserved == IInv /\ [Next]_vars => IInv'
<1> SUFFICES ASSUME IInv, [Next]_vars PROVE IInv'
  OBVIOUS
<1>1. CASE \E r \in Request : SessionStep(r)
  <2>1. PICK r \in Request : SessionStep(r)
    BY <1>1
  <2> QED
    BY <2>1, StartStep, TryWalletStep, CheckTokenStep, TakeTokenStep, FundWalletStep,
       FundSubscriptionStep, RollbackStep, SettleStep, SettleTokenStep, RefundStep, PanicStep,
       RefundWalletStep, RefundSubscriptionStep, RefundUnmarkedStep, RefundTokenStep
       DEF SessionStep
<1>2. CASE UpdaterStep
  BY <1>2, UpdaterSteps
<1>3. CASE ResetSubscription
  BY <1>3, ResetStep
<1>4. CASE UNCHANGED vars
  BY <1>4, StutterStep
<1> QED
  BY <1>1, <1>2, <1>3, <1>4 DEF Next

LEMMA Inductive == Spec => []IInv
BY Initially, Preserved, PTL DEF Spec

\* Everything has its type and the subscription is used within its total, for any requests
\* and balances: reservations, settlements, refunds (applied twice or not) and resets keep
\* amount_used within 0 and amount_total.
THEOREM TypeCorrect == Spec => []TypeOK
<1>1. IInv => TypeOK
  BY DEF IInv
<1> QED
  BY <1>1, Inductive, PTL

\* A request that is over has cost what its outcome says, from one funding source and from
\* the token, unless a correcting statement failed: what billing_session.go takes, falls
\* back from, settles and gives back adds up for any amounts and any interleaving.
THEOREM OutcomeTheorem == Spec => []OutcomeCharged
<1>1. IInv => OutcomeCharged
  BY DEF IInv, OutcomeCharged, Books, AtEnd, From, Tokens
<1> QED
  BY <1>1, Inductive, PTL

LEMMA NeverNegative == IInv => NeverOverRefunded
<1> SUFFICES ASSUME IInv, NEW r \in Request PROVE
      /\ paid[r]["wallet"] >= 0 /\ paid[r]["token"] >= 0
      /\ ~lost[r] => paid[r]["subscription"] >= 0
  BY DEF NeverOverRefunded, Account
<1>1. Books(r) /\ paid[r] \in [Account -> Int] /\ pc[r] \in Where
  BY DEF IInv, TypeOK
<1>2. /\ amount[r] \in Nat /\ tokenConsumed[r] \in Nat /\ pre[r] \in Nat /\ actual[r] \in Nat
      /\ delta[r] \in Int
  BY DEF IInv, TypeOK
<1> QED
  BY <1>1, <1>2
     DEF Where, Account, Books, AtStart, AtFund, AtOpen, AtSettleToken, AtRefund, AtRefundToken,
         AtEnd, Gave, From, Tokens, Due

\* No account gets back more than it gave for a request, whatever fails and is retried;
\* left out is the subscription whose record could not be marked.
THEOREM NoOverRefund == Spec => []NeverOverRefunded
BY NeverNegative, Inductive, PTL

-----------------------------------------------------------------------------
(* Nothing disappears *)

LEMMA SumOfPaid ==
    ASSUME paid \in [Request -> [Account -> Int]], NEW a \in Account
    PROVE  Sum(a) \in Int
<1> DEFINE f == [q \in Request |-> paid[q][a]]
<1>1. f \in [Request -> Int]
  OBVIOUS
<1> HIDE DEF f
<1>2. SumFunctionOnSet(f, Request) \in Int
  BY <1>1, SumType, RequestAssumption
<1> QED
  BY <1>2 DEF Sum, f

\* What one request pays is added to what all have paid, on that account and no other.
LEMMA SumMoved ==
    ASSUME paid \in [Request -> [Account -> Int]], paid' \in [Request -> [Account -> Int]],
           NEW r \in Request, NEW a \in Account, NEW x \in Int, Moved(r, a, x)
    PROVE  Sum(a)' = Sum(a) + x /\ \A b \in Account \ {a} : Sum(b)' = Sum(b)
<1>1. Sum(a)' = Sum(a) + x
  <2> DEFINE f == [q \in Request |-> paid[q][a]]
             h == [q \in Request |-> paid'[q][a]]
  <2>1. /\ f \in [Request -> Int] /\ h \in [Request -> Int] /\ h[r] = f[r] + x
        /\ \A q \in Request : q # r => h[q] = f[q]
    BY DEF Moved
  <2> HIDE DEF f, h
  <2>2. SumFunctionOnSet(h, Request) = SumFunctionOnSet(f, Request) + h[r] - f[r]
    BY <2>1, SumChanges, RequestAssumption
  <2>3. SumFunctionOnSet(f, Request) \in Int /\ f[r] \in Int
    BY <2>1, SumType, RequestAssumption
  <2>4. SumFunctionOnSet(h, Request) = SumFunctionOnSet(f, Request) + x
    BY <2>1, <2>2, <2>3
  <2> QED
    BY <2>4 DEF Sum, f, h
<1>2. ASSUME NEW b \in Account \ {a} PROVE Sum(b)' = Sum(b)
  <2>1. \A q \in Request : paid'[q][b] = paid[q][b]
    BY DEF Moved
  <2> QED
    BY <2>1 DEF Sum
<1> QED
  BY <1>1, <1>2

\* A request's step moves quota on one account at most, and takes from a subscription no
\* less than it has paid, or the request is marked as lost.
LEMMA SessionMoves ==
    ASSUME IInv, NEW r \in Request, SessionStep(r)
    PROVE  /\ UNCHANGED <<flushWallet, flushToken, dropWallet, dropToken, periods>>
           /\ \A q \in Request : lost[q] => lost'[q]
           /\ \/ NoMoney
              \/ \E x \in Int : DecreaseUserQuota(r, x)
              \/ \E x \in Int : DecreaseTokenQuota(r, x)
              \/ \E x \in Int : /\ PostConsumeUserSubscriptionDelta(r, x)
                                /\ lost'[r] \/ paid[r]["subscription"] + x >= 0
<1> USE DEF flushing, drops, ends, counts
<1>1. CASE PreConsumeBilling(r)
  BY <1>1 DEF PreConsumeBilling
<1>2. CASE tryWallet(r)
  BY <1>2 DEF tryWallet
<1>3. CASE CheckToken(r)
  BY <1>3 DEF CheckToken
<1>4. CASE TakeToken(r)
  <2>1. amount[r] \in Int
    BY SessionType DEF IInv
  <2>2. lost' = lost \/ lost' = [lost EXCEPT ![r] = TRUE]
    BY <1>4 DEF TakeToken
  <2>3. \A q \in Request : lost[q] => lost'[q]
    BY <2>2, SessionType DEF IInv
  <2> QED
    BY <1>4, <2>1, <2>3 DEF TakeToken
<1>5. CASE FundWallet(r)
  <2>1. amount[r] \in Int
    BY SessionType DEF IInv
  <2>2. lost' = lost \/ lost' = [lost EXCEPT ![r] = TRUE]
    BY <1>5 DEF FundWallet
  <2>3. \A q \in Request : lost[q] => lost'[q]
    BY <2>2, SessionType DEF IInv
  <2> QED
    BY <1>5, <2>1, <2>3 DEF FundWallet
<1>6. CASE Rollback(r)
  <2>1. -tokenConsumed[r] \in Int
    BY SessionType DEF IInv
  <2>2. lost' = lost \/ lost' = [lost EXCEPT ![r] = TRUE]
    BY <1>6 DEF Rollback
  <2>3. \A q \in Request : lost[q] => lost'[q]
    BY <2>2, SessionType DEF IInv
  <2> QED
    BY <1>6, <2>1, <2>3 DEF Rollback
<1>7. CASE SettleToken(r)
  <2>1. delta[r] \in Int
    BY SessionType DEF IInv
  <2>2. lost' = lost \/ lost' = [lost EXCEPT ![r] = TRUE]
    BY <1>7 DEF SettleToken
  <2>3. \A q \in Request : lost[q] => lost'[q]
    BY <2>2, SessionType DEF IInv
  <2> QED
    BY <1>7, <2>1, <2>3 DEF SettleToken
<1>8. CASE Refund(r)
  BY <1>8 DEF Refund
<1>9. CASE Panic(r)
  BY <1>9 DEF Panic
<1>10. CASE RefundWallet(r)
  <2>1. -pre[r] \in Int
    BY SessionType DEF IInv
  <2>2. lost' = lost \/ lost' = [lost EXCEPT ![r] = TRUE]
    BY <1>10 DEF RefundWallet
  <2>3. \A q \in Request : lost[q] => lost'[q]
    BY <2>2, SessionType DEF IInv
  <2> QED
    BY <1>10, <2>1, <2>3 DEF RefundWallet
<1>11. CASE RefundToken(r)
  <2>1. -tokenConsumed[r] \in Int
    BY SessionType DEF IInv
  <2>2. lost' = lost \/ lost' = [lost EXCEPT ![r] = TRUE]
    BY <1>11 DEF RefundToken
  <2>3. \A q \in Request : lost[q] => lost'[q]
    BY <2>2, SessionType DEF IInv
  <2> QED
    BY <1>11, <2>1, <2>3 DEF RefundToken
<1>12. CASE FundSubscription(r)
  <2>1. amount[r] \in Nat /\ (~lost[r] => paid[r]["subscription"] = 0)
    BY <1>12, SessionType DEF IInv, FundSubscription, Books, AtFund, Gave
  <2>2. amount[r] \in Int /\ (lost[r] \/ paid[r]["subscription"] + amount[r] >= 0)
    BY <2>1
  <2>3. lost' = lost \/ lost' = [lost EXCEPT ![r] = TRUE]
    BY <1>12 DEF FundSubscription
  <2>4. \A q \in Request : lost[q] => lost'[q]
    BY <2>3, SessionType DEF IInv
  <2> QED
    BY <1>12, <2>2, <2>4 DEF FundSubscription
<1>13. CASE Settle(r)
  <2>1. PICK a \in Actual :
          \/ NoMoney
          \/ DecreaseUserQuota(r, a - pre[r])
          \/ funding[r] = "subscription" /\ PostConsumeUserSubscriptionDelta(r, a - pre[r])
    BY <1>13 DEF Settle
  <2>2. a \in Nat /\ pre[r] \in Nat /\ a - pre[r] \in Int
    BY SessionType, QuotaAssumption DEF IInv
  <2>3. UNCHANGED <<flushWallet, flushToken, dropWallet, dropToken, periods, lost>>
    BY <1>13 DEF Settle
  <2>4. funding[r] = "subscription" /\ ~lost[r] => paid[r]["subscription"] = pre[r]
    BY <1>13 DEF Settle, IInv, Books, AtOpen, Gave, From
  <2>5. funding[r] = "subscription" => lost[r] \/ paid[r]["subscription"] + (a - pre[r]) >= 0
    BY <2>2, <2>4
  <2> QED
    BY <2>1, <2>2, <2>3, <2>5
<1>14. CASE RefundSubscription(r)
  <2>1. \/ NoMoney
        \/ record[r] = "consumed" /\ PostConsumeUserSubscriptionDelta(r, -pre[r])
    BY <1>14 DEF RefundSubscription
  <2>2. pre[r] \in Nat /\ -pre[r] \in Int
    BY SessionType DEF IInv
  <2>3. \/ lost' = lost
        \/ lost' = [lost EXCEPT ![r] = lost[r] \/ (attempts[r] + 1 = RefundAttempts
                                                   /\ record[r] = "consumed")]
    BY <1>14 DEF RefundSubscription
  <2>4. \A q \in Request : lost[q] => lost'[q]
    BY <2>3, SessionType DEF IInv
  <2>5. record[r] = "consumed" /\ ~lost[r] => paid[r]["subscription"] = pre[r]
    BY <1>14 DEF RefundSubscription, IInv, Books, AtRefund, Gave, From
  <2>6. record[r] = "consumed" => lost'[r] \/ paid[r]["subscription"] + (-pre[r]) >= 0
    BY <2>2, <2>4, <2>5
  <2>7. UNCHANGED <<flushWallet, flushToken, dropWallet, dropToken, periods>>
    BY <1>14 DEF RefundSubscription
  <2> QED
    BY <2>1, <2>2, <2>4, <2>6, <2>7
<1>15. CASE RefundUnmarked(r)
  <2>1. -pre[r] \in Int
    BY SessionType DEF IInv
  <2>2. lost'[r] /\ \A q \in Request : lost[q] => lost'[q]
    BY <1>15, SessionType DEF IInv, RefundUnmarked
  <2> QED
    BY <1>15, <2>1, <2>2 DEF RefundUnmarked
<1> QED
  BY <1>1, <1>2, <1>3, <1>4, <1>5, <1>6, <1>7, <1>8, <1>9, <1>10, <1>11, <1>12, <1>13, <1>14,
     <1>15 DEF SessionStep

\* As long as nothing is lost, what a request gets back was used before.
LEMMA UseCovers ==
    ASSUME IInv, Conserved, periods = 0, \A q \in Request : ~lost[q], NEW r \in Request
    PROVE  subUsed >= paid[r]["subscription"]
<1> DEFINE f == [q \in Request |-> paid[q]["subscription"]]
<1>1. f \in [Request -> Nat] /\ f[r] = paid[r]["subscription"]
  <2>1. ASSUME NEW q \in Request PROVE paid[q]["subscription"] \in Nat
    <3>1. paid[q]["subscription"] \in Int
      BY DEF IInv, TypeOK, Account
    <3>2. paid[q]["subscription"] >= 0
      BY NeverNegative DEF NeverOverRefunded, Account
    <3> QED
      BY <3>1, <3>2
  <2> QED
    BY <2>1
<1>2. subUsed = SumFunctionOnSet(f, Request)
  BY DEF Conserved, Sum
<1> HIDE DEF f
<1> QED
  BY <1>1, <1>2, SumAtLeast, RequestAssumption

LEMMA Transfer ==
    ASSUME NEW a \in Int, NEW b \in Int, NEW c \in Int, NEW d \in Int, NEW y \in Int,
           NEW x \in Int, NEW p \in Int, NEW q \in Int, p + q = a + b - x
    PROVE  p + q + c + d + (y + x) = a + b + c + d + y
OBVIOUS

LEMMA ConservedStep ==
    ASSUME IInv, Conserved, Next
    PROVE  Conserved'
<1>1. /\ wallet \in Int /\ token \in Int /\ subUsed \in Int /\ memWallet \in Int /\ memToken \in Int
      /\ flushWallet \in Int /\ flushToken \in Int /\ dropWallet \in Int /\ dropToken \in Int
      /\ paid \in [Request -> [Account -> Int]]
      /\ Sum("wallet") \in Int /\ Sum("token") \in Int /\ Sum("subscription") \in Int
  BY SumOfPaid DEF IInv, TypeOK, Account
<1>2. ASSUME NEW r \in Request, SessionStep(r) PROVE Conserved'
  <2>1. /\ UNCHANGED <<flushWallet, flushToken, dropWallet, dropToken, periods>>
        /\ (\A q \in Request : ~lost'[q]) => (\A q \in Request : ~lost[q])
    BY <1>2, SessionMoves
  <2>2. CASE NoMoney
    BY <2>1, <2>2 DEF NoMoney, Conserved, Sum
  <2>3. ASSUME NEW x \in Int, DecreaseUserQuota(r, x) PROVE Conserved'
    <3>1. Moved(r, "wallet", x) /\ paid' \in [Request -> [Account -> Int]]
      BY <2>3, TypeMoney, WalletMoved DEF IInv, MoneyType
    <3>2. /\ Sum("wallet")' = Sum("wallet") + x /\ Sum("token")' = Sum("token")
          /\ Sum("subscription")' = Sum("subscription")
      BY <1>1, <3>1, SumMoved DEF Account
    <3>3. UNCHANGED <<token, memToken, subUsed>> /\ wallet' + memWallet' = wallet + memWallet - x
      BY <1>1, <2>3 DEF DecreaseUserQuota, IInv, TypeOK
    <3>4. wallet' \in Int /\ memWallet' \in Int
      BY <1>1, <2>3 DEF DecreaseUserQuota, IInv, TypeOK
    <3>5. wallet' + memWallet' + flushWallet' + dropWallet' + Sum("wallet")'
             = wallet + memWallet + flushWallet + dropWallet + Sum("wallet")
      <4> DEFINE y == Sum("wallet")
                 p == wallet'
                 q == memWallet'
      <4>1. y \in Int /\ p \in Int /\ q \in Int /\ p + q = wallet + memWallet - x
        BY <1>1, <3>3, <3>4
      <4> HIDE DEF y, p, q
      <4>2. p + q + flushWallet + dropWallet + (y + x) = wallet + memWallet + flushWallet + dropWallet + y
        BY <1>1, <4>1, Transfer
      <4> QED
        BY <2>1, <3>2, <4>2 DEF y, p, q
    <3> QED
      BY <2>1, <3>2, <3>3, <3>5 DEF Conserved
  <2>4. ASSUME NEW x \in Int, DecreaseTokenQuota(r, x) PROVE Conserved'
    <3>1. Moved(r, "token", x) /\ paid' \in [Request -> [Account -> Int]]
      BY <2>4, TypeMoney, TokenMoved DEF IInv, MoneyType
    <3>2. /\ Sum("token")' = Sum("token") + x /\ Sum("wallet")' = Sum("wallet")
          /\ Sum("subscription")' = Sum("subscription")
      BY <1>1, <3>1, SumMoved DEF Account
    <3>3. UNCHANGED <<wallet, memWallet, subUsed>> /\ token' + memToken' = token + memToken - x
      BY <1>1, <2>4 DEF DecreaseTokenQuota, IInv, TypeOK
    <3>4. token' \in Int /\ memToken' \in Int
      BY <1>1, <2>4 DEF DecreaseTokenQuota, IInv, TypeOK
    <3>5. token' + memToken' + flushToken' + dropToken' + Sum("token")'
             = token + memToken + flushToken + dropToken + Sum("token")
      <4> DEFINE y == Sum("token")
                 p == token'
                 q == memToken'
      <4>1. y \in Int /\ p \in Int /\ q \in Int /\ p + q = token + memToken - x
        BY <1>1, <3>3, <3>4
      <4> HIDE DEF y, p, q
      <4>2. p + q + flushToken + dropToken + (y + x) = token + memToken + flushToken + dropToken + y
        BY <1>1, <4>1, Transfer
      <4> QED
        BY <2>1, <3>2, <4>2 DEF y, p, q
    <3> QED
      BY <2>1, <3>2, <3>3, <3>5 DEF Conserved
  <2>5. ASSUME NEW x \in Int, PostConsumeUserSubscriptionDelta(r, x),
               lost'[r] \/ paid[r]["subscription"] + x >= 0
        PROVE  Conserved'
    <3>1. Moved(r, "subscription", x) /\ paid' \in [Request -> [Account -> Int]]
      BY <2>5, TypeMoney, SubscriptionMoved DEF IInv, MoneyType
    <3>2. /\ Sum("subscription")' = Sum("subscription") + x
          /\ Sum("wallet")' = Sum("wallet") /\ Sum("token")' = Sum("token")
      BY <1>1, <3>1, SumMoved DEF Account
    <3>3. UNCHANGED <<wallet, memWallet, token, memToken>> /\ subUsed' = AtLeast(subUsed + x, 0)
      BY <2>5 DEF PostConsumeUserSubscriptionDelta
    <3>4. ASSUME periods' = 0, \A q \in Request : ~lost'[q]
          PROVE  subUsed' = Sum("subscription")'
      <4>1. periods = 0 /\ \A q \in Request : ~lost[q]
        BY <2>1, <3>4
      <4>2. subUsed >= paid[r]["subscription"]
        BY <4>1, UseCovers
      <4>3. paid[r]["subscription"] \in Int /\ paid[r]["subscription"] + x >= 0
        BY <1>1, <2>5, <3>4 DEF Account
      <4>4. subUsed' = subUsed + x
        BY <1>1, <3>3, <4>2, <4>3 DEF AtLeast
      <4> QED
        BY <3>2, <4>1, <4>4 DEF Conserved
    <3> QED
      BY <2>1, <3>2, <3>3, <3>4 DEF Conserved
  <2> QED
    BY <1>2, <2>2, <2>3, <2>4, <2>5, SessionMoves
<1>3. CASE UpdaterStep
  <2>1. UNCHANGED <<subUsed, paid, periods, lost>>
    BY <1>3 DEF UpdaterStep, TakeStores, ApplyToken, ApplyUser, OnlyUpdater, ends
  <2>2. /\ wallet' + memWallet' + flushWallet' + dropWallet'
              = wallet + memWallet + flushWallet + dropWallet
        /\ token' + memToken' + flushToken' + dropToken'
              = token + memToken + flushToken + dropToken
    <3>1. CASE TakeStores
      BY <1>1, <3>1 DEF TakeStores, drops
    <3>2. CASE ApplyToken
      BY <1>1, <3>2 DEF ApplyToken
    <3>3. CASE ApplyUser
      BY <1>1, <3>3 DEF ApplyUser
    <3> QED
      BY <1>3, <3>1, <3>2, <3>3 DEF UpdaterStep
  <2> QED
    BY <2>1, <2>2 DEF Conserved, Sum
<1>4. CASE ResetSubscription
  <2>1. periods' # 0 /\ UNCHANGED <<wallet, token, updater, paid>>
    BY <1>4 DEF ResetSubscription, IInv, TypeOK
  <2> QED
    BY <2>1 DEF Conserved, Sum, updater, drops
<1> QED
  BY <1>2, <1>3, <1>4 DEF Next

\* Nothing disappears between memory and database, for any number of requests: balances and
\* the deltas on their way add up to what was there less what requests paid, and the use of
\* the subscription is what was paid from it within a period.  That PostConsume stops at 0
\* never hides a refund, since no request gets back more than it gave.
THEOREM ConservedTheorem == Spec => []Conserved
<1>1. Init => Conserved
  <2> SUFFICES ASSUME Init PROVE Conserved
    OBVIOUS
  <2>1. ASSUME NEW a \in Account PROVE Sum(a) = 0
    <3> DEFINE f == [q \in Request |-> paid[q][a]]
    <3>1. \A q \in Request : f[q] = 0
      BY DEF Init
    <3> HIDE DEF f
    <3>2. SumFunctionOnSet(f, Request) = 0
      BY <3>1, SumOfZeros, RequestAssumption
    <3> QED
      BY <3>2 DEF Sum, f
  <2>2. Sum("wallet") = 0 /\ Sum("token") = 0 /\ Sum("subscription") = 0
    BY <2>1 DEF Account
  <2> QED
    BY <2>2, QuotaAssumption DEF Init, Conserved
<1>2. IInv /\ Conserved /\ [Next]_vars => Conserved'
  <2>1. ASSUME Conserved, UNCHANGED vars PROVE Conserved'
    BY <2>1 DEF Conserved, Sum, vars, store, updater, drops, ends, counts
  <2> QED
    BY <2>1, ConservedStep
<1> QED
  BY <1>1, <1>2, Inductive, PTL DEF Spec

=============================================================================

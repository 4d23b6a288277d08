---------------------------- MODULE ChargeLedger ----------------------------
(***************************************************************************)
(* What billing promises, whatever component does it: quota is set aside   *)
(* for a charge once; the charge is then settled once, for the cost it     *)
(* turned out to have, or given back once, in full; and neither happens    *)
(* again.  Accounts are the user's wallet or subscription and the token.   *)
(* An account that is renewed starts its next period with what it had at   *)
(* first, whatever the charges still hold of the last one.                 *)
(***************************************************************************)
EXTENDS Integers

CONSTANTS
    Charge,      \* what is charged: one request or one task
    Account,     \* the accounts that pay
    Renewable,   \* those that are renewed at the end of a period
    Amount,      \* amounts an account may be asked for
    Initial      \* what each account has at first

VARIABLES
    stage,       \* of a charge: "none", "reserved", "settled" or "refunded"
    hold,        \* what a charge has taken from each account
    balance      \* what each account has left

ledgerVars == <<stage, hold, balance>>

Nothing == [a \in Account |-> 0]

LedgerInit ==
    /\ stage = [c \in Charge |-> "none"]
    /\ hold = [c \in Charge |-> Nothing]
    /\ balance = Initial

\* The charge holds q from now on; the accounts give or get the difference.
Rebook(c, q) ==
    /\ hold' = [hold EXCEPT ![c] = q]
    /\ balance' = [a \in Account |-> balance[a] + hold[c][a] - q[a]]
    /\ \A a \in Account : balance'[a] >= 0

Move(c, from, to) == stage[c] = from /\ stage' = [stage EXCEPT ![c] = to]

Reserve(c) == Move(c, "none", "reserved") /\ \E q \in [Account -> Amount] : Rebook(c, q)

Settle(c) == Move(c, "reserved", "settled") /\ \E q \in [Account -> Amount] : Rebook(c, q)

Refund(c) == Move(c, "reserved", "refunded") /\ Rebook(c, Nothing)

Renew(a) == balance' = [balance EXCEPT ![a] = Initial[a]] /\ UNCHANGED <<stage, hold>>

LedgerNext ==
    \/ \E c \in Charge : Reserve(c) \/ Settle(c) \/ Refund(c)
    \/ \E a \in Renewable : Renew(a)

LedgerSpec == LedgerInit /\ [][LedgerNext]_ledgerVars

=============================================================================

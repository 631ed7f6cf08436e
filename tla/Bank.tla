------------------------------- MODULE Bank --------------------------------
(***************************************************************************)
(* What the money code promises: users have balances, every change of a    *)
(* balance is booked in the transactions table, and a debit, a credit or a *)
(* transfer happens at once and never overdraws an account.  Ledger shows  *)
(* that the SQL transactions of balance.go and handlers_wallet.go, run     *)
(* concurrently statement by statement, implement this.                    *)
(***************************************************************************)
EXTENDS Integers

CONSTANTS
    Users,
    Nobody,   \* the missing side of a deposit or of a charge
    Amounts   \* the amounts that are ever moved

VARIABLES
    balance,  \* [Users -> Int]: users.balance_satc
    booked    \* [Users -> Int]: SUM(amount_satc) of the user's transactions rows

bankVars == <<balance, booked>>

(* What taking amount from one user and giving it to another does to each. *)
Effect(from, to, amount) ==
    [u \in Users |-> (IF u = to THEN amount ELSE 0) - (IF u = from THEN amount ELSE 0)]

Plus(f, g) == [u \in Users |-> f[u] + g[u]]

Init == balance = [u \in Users |-> 0] /\ booked = [u \in Users |-> 0]

Post(from, to, amount) ==
    /\ from # Nobody => balance[from] >= amount
    /\ balance' = Plus(balance, Effect(from, to, amount))
    /\ booked' = Plus(booked, Effect(from, to, amount))

Next ==
    \E from, to \in Users \cup {Nobody}, amount \in Amounts : Post(from, to, amount)

Spec == Init /\ [][Next]_bankVars

---------------------------------------------------------------------------
(* No account is ever overdrawn (CHECK (balance_satc >= 0)).               *)
NoOverdraft == \A u \in Users : balance[u] >= 0

(* The balances are what the booked transactions add up to.                *)
Audited == \A u \in Users : balance[u] = booked[u]
=============================================================================

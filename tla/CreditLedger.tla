---------------------------- MODULE CreditLedger ----------------------------
(***************************************************************************)
(* What the credit store promises of one tenant's account: it changes by   *)
(* whole transactions, a transaction under an idempotency key happens at   *)
(* most once, and a debit that the balance does not cover does not happen. *)
(***************************************************************************)
EXTENDS Naturals

CONSTANTS
    Amount,     \* what is credited and debited without a key
    Key,        \* idempotency keys
    Worth       \* key -> what is credited or debited under it

VARIABLES
    balance,    \* what the tenant can spend
    earned,     \* all that was ever credited
    spent,      \* all that was ever debited
    keys        \* keys of the transactions that carry one

ledger == <<balance, earned, spent, keys>>

LedgerInit ==
    /\ balance \in Nat
    /\ earned = balance
    /\ spent = 0
    /\ keys = {}

\* K is empty, or the key that is used up.
Credit(n, K) ==
    /\ K \cap keys = {}
    /\ balance' = balance + n
    /\ earned' = earned + n
    /\ keys' = keys \cup K
    /\ UNCHANGED spent

Debit(n, K) ==
    /\ K \cap keys = {}
    /\ n <= balance
    /\ balance' = balance - n
    /\ spent' = spent + n
    /\ keys' = keys \cup K
    /\ UNCHANGED earned

LedgerNext ==
    \/ \E n \in Amount : Credit(n, {}) \/ Debit(n, {})
    \/ \E k \in Key : Credit(Worth[k], {k}) \/ Debit(Worth[k], {k})

LedgerSpec == LedgerInit /\ [][LedgerNext]_ledger
=============================================================================

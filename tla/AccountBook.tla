---------------------------- MODULE AccountBook ----------------------------
(***************************************************************************)
(* What WalletService promises: "All mutations go through credit() /       *)
(* debit() to keep balanceCents in sync with the WalletTransaction ledger  *)
(* atomically."  A book holds one balance per user and one line per        *)
(* posting; the only thing that ever happens is that a fresh line is       *)
(* written and, in the same step, its amount is added to the balance of    *)
(* the user it names.  Lines are never rewritten or dropped.               *)
(***************************************************************************)
EXTENDS Integers

CONSTANTS
    Users,      \* the holders of the balances
    Requests,   \* names of the postings: each request posts at most one line
    Entry,      \* the lines a posting may write, records with user and amount
    NoEntry     \* "no line written yet"

VARIABLES
    balance,    \* balance[u]: what the book says user u owns
    ledger      \* ledger[r]: the line posted by r, or NoEntry

bookVars == <<balance, ledger>>

Init ==
    /\ balance = [u \in Users |-> 0]
    /\ ledger = [r \in Requests |-> NoEntry]

Post(r, e) ==
    /\ ledger[r] = NoEntry
    /\ ledger' = [ledger EXCEPT ![r] = e]
    /\ balance' = [balance EXCEPT ![e.user] = @ + e.amount]

Next == \E r \in Requests, e \in Entry : Post(r, e)

Spec == Init /\ [][Next]_bookVars
=============================================================================

------------------------------- MODULE Wallet -------------------------------
(***************************************************************************)
(* WalletService (src/modules/wallet/wallet.service.ts): one balance per   *)
(* operator, one ledger line per movement, and the requests that read and  *)
(* write them concurrently over PostgreSQL READ COMMITTED.                 *)
(*                                                                         *)
(* A request is one call of stubDeposit, requestWithdrawal, debit or GET   *)
(* /wallet/me.  Each await that reads or writes the database is a step of  *)
(* its own.  A transaction whose first statement is the UPDATE of the      *)
(* wallet row is one step: the row lock it takes keeps every other writer  *)
(* of the row out until it commits, and nobody sees its writes before.     *)
(***************************************************************************)
EXTENDS Integers

CONSTANTS
    Users,      \* users who may call the API
    Profiles,   \* the users that have an operator profile
    Requests,   \* identities of calls; each is made at most once
    Amounts,    \* amounts in cents the DTOs let through
    Refs,       \* external references a caller may attach to a credit
    NoRef,      \* no external reference
    NoCall,     \* the call of a request that was not made yet
    NoEntry,    \* a request that wrote no ledger line
    MaxInt      \* largest value of an INTEGER column (2^31 - 1)

ASSUME WalletConstants ==
    /\ Profiles \subseteq Users
    /\ Amounts \subseteq Nat \ {0}
    /\ MaxInt \in Nat
    /\ NoRef \notin Refs

Kinds == {"view", "deposit", "withdraw", "debit"}

Call == [kind: Kinds, user: Users, amount: Amounts, ref: Refs \cup {NoRef}]

Entry == [user: Users, status: {"COMPLETED", "PENDING"},
          amount: Amounts \cup {-a : a \in Amounts}, ref: Refs \cup {NoRef}]

ASSUME NoEntryIsNoLine == NoEntry \notin Entry /\ NoCall \notin Call

Phases == {"new",       \* not received
           "lookup",    \* about to read the wallet row
           "creating",  \* found no row, about to insert one
           "checking",  \* debit: about to read the balance in its transaction
           "crediting", \* about to run the crediting transaction
           "spending",  \* saw a sufficient balance, about to decrement it
           "done", "rejected", "failed"}

VARIABLES
    wallets,    \* users with a wallet_accounts row
    balance,    \* balance_cents, 0 while there is no row
    ledger,     \* the wallet_transactions row a request inserted, or NoEntry
    phase,      \* progress of each request
    call,       \* its parameters
    overlapped  \* history: users two of whose spends were decided at once

vars == <<wallets, balance, ledger, phase, call, overlapped>>

Active == {"lookup", "creating", "checking", "crediting", "spending"}

Spending(u) == {r \in Requests : phase[r] = "spending" /\ call[r].user = u}

Init ==
    /\ wallets = {}
    /\ balance = [u \in Users |-> 0]
    /\ ledger = [r \in Requests |-> NoEntry]
    /\ phase = [r \in Requests |-> "new"]
    /\ call = [r \in Requests |-> NoCall]
    /\ overlapped = {}

-----------------------------------------------------------------------------
(* Steps of a request *)

Goto(r, p) ==
    /\ phase' = [phase EXCEPT ![r] = p]
    /\ overlapped' = IF p = "spending" /\ Spending(call[r].user) \ {r} # {}
                     THEN overlapped \cup {call[r].user}
                     ELSE overlapped

Begin(r, c) ==
    /\ phase[r] = "new"
    /\ phase' = [phase EXCEPT ![r] = "lookup"]
    /\ call' = [call EXCEPT ![r] = c]
    /\ UNCHANGED <<wallets, balance, ledger, overlapped>>

Arrive(r) == \E c \in Call : Begin(r, c)

\* Mutant of WithWallet: requestWithdrawal without its balance check.
WithWalletUnchecked(c, b) ==
    [view |-> "done", deposit |-> "crediting", debit |-> "checking",
     withdraw |-> "spending"][c.kind]

\* What a request does once getOrCreate handed it a row showing balance b.
\* A withdrawal compares b, read outside any transaction, with its amount.
WithWallet(c, b) ==
    CASE c.kind = "view" -> "done"
      [] c.kind = "deposit" -> "crediting"
      [] c.kind = "debit" -> "checking"
      [] c.kind = "withdraw" -> IF b < c.amount THEN "rejected" ELSE "spending"

\* getOrCreate: requireOperator, then findUnique on operator_id.
FindWallet(r) ==
    /\ phase[r] = "lookup"
    /\ Goto(r, IF call[r].user \notin Profiles THEN "rejected"
               ELSE IF call[r].user \in wallets
                    THEN WithWallet(call[r], balance[call[r].user])
                    ELSE "creating")
    /\ UNCHANGED <<wallets, balance, ledger, call>>

\* getOrCreate: insert the missing row; operator_id is UNIQUE, so the slower
\* of two creators gets an error, which nothing catches.
CreateWallet(r) ==
    /\ phase[r] = "creating"
    /\ wallets' = wallets \cup {call[r].user}
    /\ Goto(r, IF call[r].user \in wallets THEN "failed" ELSE WithWallet(call[r], 0))
    /\ UNCHANGED <<balance, ledger, call>>

\* debit: findUnique inside its transaction, which locks nothing.
CheckBalance(r) ==
    /\ phase[r] = "checking"
    /\ Goto(r, IF balance[call[r].user] < call[r].amount
               THEN "rejected" ELSE "spending")
    /\ UNCHANGED <<wallets, balance, ledger, call>>

\* One UPDATE by a relative amount, evaluated on the latest committed row, and
\* one INSERT of a ledger line.
PostLine(r, amount, status) ==
    LET u == call[r].user IN
    /\ balance' = [balance EXCEPT ![u] = @ + amount]
    /\ ledger' = [ledger EXCEPT ![r] =
          [user |-> u, status |-> status, amount |-> amount, ref |-> call[r].ref]]
    /\ Goto(r, "done")
    /\ UNCHANGED <<wallets, call>>

\* The transaction that changes a balance.  A result that does not fit the
\* INTEGER column aborts it.
Move(r, amount, status) ==
    IF balance[call[r].user] + amount \in (-MaxInt - 1)..MaxInt
    THEN PostLine(r, amount, status)
    ELSE /\ Goto(r, "failed")
         /\ UNCHANGED <<wallets, balance, ledger, call>>

Credit(r) ==
    /\ phase[r] = "crediting"
    /\ Move(r, call[r].amount, "COMPLETED")

Withdraw(r) ==
    /\ phase[r] = "spending"
    /\ call[r].kind = "withdraw"
    /\ Move(r, -call[r].amount, "PENDING")

Debit(r) ==
    /\ phase[r] = "spending"
    /\ call[r].kind = "debit"
    /\ Move(r, -call[r].amount, "COMPLETED")

\* Mutant of Crash: a cleanup gives back the amount of a spend that the
\* database rolled back already.
CrashRefunding(r) ==
    /\ phase[r] = "spending"
    /\ balance' = [balance EXCEPT ![call[r].user] = @ + call[r].amount]
    /\ Goto(r, "failed")
    /\ UNCHANGED <<wallets, ledger, call>>

\* The process handling r dies; its open transaction, if any, is rolled back.
Crash(r) ==
    /\ phase[r] \in Active
    /\ Goto(r, "failed")
    /\ UNCHANGED <<wallets, balance, ledger, call>>

Step(r) ==
    \/ FindWallet(r)
    \/ CreateWallet(r)
    \/ CheckBalance(r)
    \/ Credit(r)
    \/ Withdraw(r)
    \/ Debit(r)

Next == \E r \in Requests : Arrive(r) \/ Step(r) \/ Crash(r)

Spec == Init /\ [][Next]_vars

-----------------------------------------------------------------------------
(* Properties *)

\* Every variable has its type; in particular a balance never leaves the range
\* of its INTEGER column.
TypeOK ==
    /\ wallets \subseteq Profiles
    /\ balance \in [Users -> (-MaxInt - 1)..MaxInt]
    /\ ledger \in [Requests -> Entry \cup {NoEntry}]
    /\ phase \in [Requests -> Phases]
    /\ call \in [Requests -> Call \cup {NoCall}]
    /\ overlapped \subseteq Users

\* Overselling a wallet takes a race: as long as no two spends of a user were
\* ever between their "Insufficient balance." check and their decrement at the
\* same time, the user's balance is not negative, whatever credits, crashes
\* and wallet creations happen in between.
OverdraftNeedsOverlap == \A u \in Users \ overlapped : balance[u] >= 0

\* "All mutations go through credit() / debit() to keep balanceCents in sync
\* with the WalletTransaction ledger atomically": the wallet implements the
\* account book.  Whatever crashed, overlapped or overflowed, a balance changes
\* by the amount of a ledger line that is written in the same step, and no line
\* ever changes, so the balance is the sum of the user's lines.
Book == INSTANCE AccountBook
            WITH Users <- Users, Requests <- Requests, Entry <- Entry, NoEntry <- NoEntry,
                 balance <- balance, ledger <- ledger
ImplementsBook == Book!Spec
=============================================================================

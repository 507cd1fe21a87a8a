----------------------------- MODULE LedgerProofs -----------------------------
(***************************************************************************)
(* Theorems about Wallet and Payments: a user is overdrawn only if two of  *)
(* his spends overlapped, every step of the wallet is one posting of the   *)
(* account book or none, webhooks are well-behaved clients of the wallet,  *)
(* and an event is credited once unless two of its deliveries run at the   *)
(* same time.                                                              *)
(***************************************************************************)
EXTENDS Payments, TLAPS

USE DEF Kinds, Phases, Active

-----------------------------------------------------------------------------
(* What the steps have in common *)

\* A balance moves only in Credit, Withdraw and Debit, which either post a
\* ledger line with the amount they add, or change nothing but the phase.
LEMMA MoveCases ==
    ASSUME NEW r \in Requests, Credit(r) \/ Withdraw(r) \/ Debit(r)
    PROVE  \E a \in {call[r].amount, -call[r].amount}, s \in {"COMPLETED", "PENDING"} :
              /\ Move(r, a, s)
              /\ phase[r] = "crediting" => a = call[r].amount
              /\ phase[r] = "spending" => a = -call[r].amount
              /\ phase[r] \in {"crediting", "spending"}
  BY DEF Credit, Withdraw, Debit

\* A request past its arrival has parameters.
CallKnown == \A r \in Requests : phase[r] # "new" => call[r] \in Call

\* Only the owner of a profile gets as far as inserting a wallet.
CreatorHasProfile ==
    \A r \in Requests : phase[r] = "creating" => call[r].user \in Profiles

TypeInv == TypeOK /\ CallKnown /\ CreatorHasProfile

LEMMA CallType ==
    ASSUME TypeInv, NEW r \in Requests, phase[r] # "new"
    PROVE  /\ call[r] \in Call
           /\ call[r].user \in Users
           /\ call[r].amount \in Nat \ {0}
           /\ balance[call[r].user] \in Int
<1>1. call[r] \in Call
  BY DEF TypeInv, CallKnown
<1>2. call[r].user \in Users /\ call[r].amount \in Amounts
  BY <1>1 DEF Call
<1>3. balance[call[r].user] \in (-MaxInt - 1)..MaxInt
  BY <1>2 DEF TypeInv, TypeOK
<1>4. call[r].amount \in Nat \ {0}
  BY <1>2, WalletConstants
<1>5. balance[call[r].user] \in Int
  BY <1>3
<1> QED
  BY <1>1, <1>2, <1>4, <1>5

LEMMA GotoType ==
    ASSUME TypeOK, NEW r \in Requests, call[r] \in Call,
           NEW p \in Phases, Goto(r, p)
    PROVE  phase' \in [Requests -> Phases] /\ overlapped' \subseteq Users
  BY DEF Goto, TypeOK, Call

LEMMA WithWalletType ==
    ASSUME NEW c \in Call, NEW b \in Int
    PROVE  WithWallet(c, b) \in {"done", "crediting", "checking", "rejected", "spending"}
  BY DEF WithWallet, Call

\* getOrCreate lets a withdrawal pass only if the row it read covers it.
LEMMA WithWalletSpends ==
    ASSUME NEW c \in Call, c.amount \in Int, NEW b \in Int, WithWallet(c, b) = "spending"
    PROVE  b >= c.amount
  BY DEF WithWallet, Call

LEMMA MoveType ==
    ASSUME TypeInv, NEW r \in Requests, phase[r] # "new",
           NEW a \in {call[r].amount, -call[r].amount},
           NEW s \in {"COMPLETED", "PENDING"}, Move(r, a, s)
    PROVE  TypeInv'
<1> DEFINE u == call[r].user
           e == [user |-> u, status |-> s, amount |-> a, ref |-> call[r].ref]
<1>1. call[r] \in Call
  BY DEF TypeInv, CallKnown
<1>2. e \in Entry
  BY <1>1 DEF Entry, Call
<1>3. CASE balance[u] + a \in (-MaxInt - 1)..MaxInt
  <2>1. /\ balance' = [balance EXCEPT ![u] = @ + a]
        /\ ledger' = [ledger EXCEPT ![r] = e]
        /\ Goto(r, "done")
        /\ UNCHANGED <<wallets, call>>
    BY <1>3 DEF Move, PostLine
  <2>2. balance' \in [Users -> (-MaxInt - 1)..MaxInt]
    BY <1>1, <1>3, <2>1 DEF TypeInv, TypeOK, Call
  <2>3. ledger' \in [Requests -> Entry \cup {NoEntry}]
    BY <1>2, <2>1 DEF TypeInv, TypeOK
  <2>4. phase' \in [Requests -> Phases] /\ overlapped' \subseteq Users
    BY <1>1, <2>1, GotoType DEF TypeInv
  <2> QED
    BY <2>1, <2>2, <2>3, <2>4, <1>1 DEF TypeInv, TypeOK, CallKnown, CreatorHasProfile, Goto
<1>4. CASE balance[u] + a \notin (-MaxInt - 1)..MaxInt
  <2>1. Goto(r, "failed") /\ UNCHANGED <<wallets, balance, ledger, call>>
    BY <1>4 DEF Move, PostLine
  <2> QED
    BY <1>1, <2>1, GotoType DEF TypeInv, TypeOK, CallKnown, CreatorHasProfile, Goto
<1> QED
  BY <1>3, <1>4

LEMMA TypeInvInit == Init => TypeInv
  BY WalletConstants DEF Init, TypeInv, TypeOK, CallKnown, CreatorHasProfile

LEMMA TypeInvNext == TypeInv /\ [Next]_vars => TypeInv'
<1> SUFFICES ASSUME TypeInv, [Next]_vars
             PROVE  TypeInv'
  OBVIOUS
<1>1. ASSUME NEW r \in Requests, Arrive(r)
      PROVE  TypeInv'
  BY <1>1 DEF Arrive, Begin, TypeInv, TypeOK, CallKnown, CreatorHasProfile
<1>2. ASSUME NEW r \in Requests, FindWallet(r)
      PROVE  TypeInv'
  <2>1. call[r] \in Call /\ call[r].user \in Users
    BY <1>2 DEF FindWallet, TypeInv, CallKnown, Call
  <2>2. balance[call[r].user] \in Int
    BY <2>1, WalletConstants DEF TypeInv, TypeOK
  <2>3. PICK p \in Phases :
            Goto(r, p) /\ (p = "creating" => call[r].user \in Profiles)
    BY <1>2, <2>1, <2>2, WithWalletType DEF FindWallet
  <2> QED
    BY SMTT(30), <1>2, <2>1, <2>3, GotoType DEF FindWallet, TypeInv, TypeOK, CallKnown, CreatorHasProfile, Goto
<1>3. ASSUME NEW r \in Requests, CreateWallet(r)
      PROVE  TypeInv'
  <2>1. call[r] \in Call /\ call[r].user \in Users
    BY <1>3 DEF CreateWallet, TypeInv, CallKnown, Call
  <2>2. PICK p \in Phases : Goto(r, p) /\ p # "creating"
    BY <1>3, <2>1, WithWalletType DEF CreateWallet
  <2> QED
    BY <1>3, <2>1, <2>2, GotoType DEF CreateWallet, TypeInv, TypeOK, CallKnown, CreatorHasProfile, Goto
<1>4. ASSUME NEW r \in Requests, CheckBalance(r)
      PROVE  TypeInv'
  <2>1. call[r] \in Call
    BY <1>4 DEF CheckBalance, TypeInv, CallKnown
  <2> QED
    BY <1>4, <2>1, GotoType DEF CheckBalance, TypeInv, TypeOK, CallKnown, CreatorHasProfile, Goto
<1>5. ASSUME NEW r \in Requests, Credit(r) \/ Withdraw(r) \/ Debit(r)
      PROVE  TypeInv'
  BY <1>5, MoveCases, MoveType
<1>6. ASSUME NEW r \in Requests, Crash(r)
      PROVE  TypeInv'
  <2>1. call[r] \in Call
    BY <1>6 DEF Crash, TypeInv, CallKnown
  <2> QED
    BY <1>6, <2>1, GotoType DEF Crash, TypeInv, TypeOK, CallKnown, CreatorHasProfile, Goto
<1>7. CASE UNCHANGED vars
  BY <1>7 DEF vars, TypeInv, TypeOK, CallKnown, CreatorHasProfile
<1> QED
  BY <1>1, <1>2, <1>3, <1>4, <1>5, <1>6, <1>7 DEF Next, Step

\* Every variable keeps its type, and no balance leaves its column, whatever
\* the requests do.
THEOREM TypeCorrect == Spec => []TypeOK
<1>1. TypeInv => TypeOK
  BY DEF TypeInv
<1> QED
  BY <1>1, TypeInvInit, TypeInvNext, PTL DEF Spec

-----------------------------------------------------------------------------
(* An overdraft takes two overlapping spends *)

\* While the spends of a user do not overlap: one spend at most is decided,
\* and the balance still covers it.
Covered ==
    \A u \in Users \ overlapped :
        /\ balance[u] >= 0
        /\ \A r \in Spending(u) :
              /\ balance[u] >= call[r].amount
              /\ \A q \in Spending(u) : q = r

\* A request that leaves its phase without writing disturbs nothing when the
\* phase it enters is not "spending", and keeps Covered when it is but the
\* balance covers its amount.
LEMMA GotoCovered ==
    ASSUME TypeInv, Covered, NEW r \in Requests, call[r] \in Call, NEW p \in Phases,
           Goto(r, p), UNCHANGED <<balance, call>>,
           p = "spending" => balance[call[r].user] >= call[r].amount
    PROVE  Covered'
<1> SUFFICES ASSUME NEW u \in Users, u \notin overlapped'
             PROVE  /\ balance[u] >= 0
                    /\ \A q \in Spending(u)' :
                          /\ balance[u] >= call[q].amount
                          /\ \A s \in Spending(u)' : s = q
  BY DEF Covered, Spending
<1>1. u \notin overlapped
  BY DEF Goto
<1>2. CASE p = "spending" /\ call[r].user = u
  <2>1. Spending(u) \ {r} = {}
    BY <1>2 DEF Goto
  <2>2. Spending(u)' = {r}
    BY <1>2, <2>1 DEF Goto, Spending, TypeInv, TypeOK
  <2> QED
    BY <1>1, <1>2, <2>2 DEF Covered
<1>3. CASE ~(p = "spending" /\ call[r].user = u)
  <2>1. Spending(u)' \subseteq Spending(u)
    BY <1>3 DEF Goto, Spending, TypeInv, TypeOK
  <2> QED
    BY <1>1, <2>1 DEF Covered
<1> QED
  BY <1>2, <1>3

LEMMA MoveCovered ==
    ASSUME TypeInv, Covered, NEW r \in Requests, phase[r] \in {"crediting", "spending"},
           NEW a \in {call[r].amount, -call[r].amount}, NEW s, Move(r, a, s),
           phase[r] = "crediting" => a = call[r].amount,
           phase[r] = "spending" => a = -call[r].amount
    PROVE  Covered'
<1> DEFINE u == call[r].user
<1>1. call[r] \in Call /\ u \in Users /\ call[r].amount \in Nat
  BY WalletConstants DEF TypeInv, CallKnown, Call
<1>2. CASE balance[u] + a \in (-MaxInt - 1)..MaxInt
  <2>1. /\ balance' = [balance EXCEPT ![u] = balance[u] + a]
        /\ Goto(r, "done")
        /\ UNCHANGED call
    BY <1>2 DEF Move, PostLine
  <2>2. overlapped' = overlapped
    BY <2>1 DEF Goto
  <2>3. \A v \in Users : Spending(v)' = Spending(v) \ {r}
    BY <2>1 DEF Goto, Spending, TypeInv, TypeOK
  <2>4. ASSUME NEW v \in Users, v \notin overlapped
        PROVE  /\ balance'[v] >= 0
               /\ \A q \in Spending(v) \ {r} :
                     balance'[v] >= call[q].amount /\ \A t \in Spending(v) \ {r} : t = q
    <3>1. balance[v] \in Int /\ balance[v] >= 0
      BY <2>4, WalletConstants DEF Covered, TypeInv, TypeOK
    <3>2. \A q \in Spending(v) :
             balance[v] >= call[q].amount /\ \A t \in Spending(v) : t = q
      BY <2>4 DEF Covered
    <3>3. CASE v # u
      <4>1. balance'[v] = balance[v]
        BY <2>1, <3>3 DEF TypeInv, TypeOK
      <4> QED
        BY <3>1, <3>2, <4>1
    <3>4. CASE v = u /\ phase[r] = "crediting"
      <4>1. balance'[v] = balance[v] + call[r].amount
        BY <2>1, <3>4 DEF TypeInv, TypeOK
      <4>2. ASSUME NEW q \in Spending(v) PROVE call[q].amount \in Nat
        <5>1. q \in Requests /\ phase[q] = "spending"
          BY <4>2 DEF Spending
        <5> QED
          BY <5>1, WalletConstants DEF TypeInv, CallKnown, Call
      <4> QED
        BY <1>1, <3>1, <3>2, <4>1, <4>2
    <3>5. CASE v = u /\ phase[r] = "spending"
      <4>1. r \in Spending(v)
        BY <3>5 DEF Spending
      <4>2. Spending(v) \ {r} = {}
        BY <3>2, <4>1
      <4>3. balance'[v] = balance[v] - call[r].amount
        BY <1>1, <2>1, <3>1, <3>5 DEF TypeInv, TypeOK
      <4> QED
        BY <1>1, <3>1, <3>2, <4>1, <4>2, <4>3
    <3> QED
      BY <3>3, <3>4, <3>5
  <2> QED
    BY <2>1, <2>2, <2>3, <2>4 DEF Covered
<1>3. CASE balance[u] + a \notin (-MaxInt - 1)..MaxInt
  BY <1>1, <1>3, GotoCovered DEF Move, PostLine
<1> QED
  BY <1>2, <1>3

LEMMA CoveredNext == TypeInv /\ Covered /\ [Next]_vars => Covered'
<1> SUFFICES ASSUME TypeInv, Covered, [Next]_vars
             PROVE  Covered'
  OBVIOUS
<1>1. ASSUME NEW r \in Requests, Arrive(r)
      PROVE  Covered'
  <2>1. PICK c \in Call : Begin(r, c)
    BY <1>1 DEF Arrive
  <2>2. \A u \in Users : Spending(u)' = Spending(u)
    BY <2>1 DEF Begin, Spending, TypeInv, TypeOK
  <2>3. \A u \in Users : \A q \in Spending(u) : call'[q] = call[q]
    BY <2>1 DEF Begin, Spending, TypeInv, TypeOK
  <2> QED
    BY <2>1, <2>2, <2>3 DEF Begin, Covered
<1>2. ASSUME NEW r \in Requests, FindWallet(r)
      PROVE  Covered'
  <2>1. /\ call[r] \in Call
        /\ call[r].amount \in Int
        /\ balance[call[r].user] \in Int
    BY <1>2, CallType DEF FindWallet
  <2>2. \E p \in Phases :
           Goto(r, p) /\ (p = "spending" => balance[call[r].user] >= call[r].amount)
    BY <1>2, <2>1, WithWalletType, WithWalletSpends DEF FindWallet
  <2> QED
    BY <1>2, <2>1, <2>2, GotoCovered DEF FindWallet
<1>3. ASSUME NEW r \in Requests, CreateWallet(r)
      PROVE  Covered'
  <2>1. call[r] \in Call /\ call[r].amount \in Nat \ {0}
    BY <1>3, CallType DEF CreateWallet
  <2>2. WithWallet(call[r], 0) # "spending"
    BY <2>1, WithWalletSpends
  <2>3. \E p \in Phases : Goto(r, p) /\ p # "spending"
    BY <1>3, <2>1, <2>2, WithWalletType DEF CreateWallet
  <2> QED
    BY <1>3, <2>1, <2>3, GotoCovered DEF CreateWallet
<1>4. ASSUME NEW r \in Requests, CheckBalance(r)
      PROVE  Covered'
  <2>1. /\ call[r] \in Call
        /\ call[r].amount \in Int
        /\ balance[call[r].user] \in Int
    BY <1>4, CallType DEF CheckBalance
  <2>2. \E p \in Phases :
           Goto(r, p) /\ (p = "spending" => balance[call[r].user] >= call[r].amount)
    BY <1>4, <2>1 DEF CheckBalance
  <2> QED
    BY <1>4, <2>1, <2>2, GotoCovered DEF CheckBalance
<1>5. ASSUME NEW r \in Requests, Credit(r) \/ Withdraw(r) \/ Debit(r)
      PROVE  Covered'
  BY <1>5, MoveCases, MoveCovered
<1>6. ASSUME NEW r \in Requests, Crash(r)
      PROVE  Covered'
  <2>1. call[r] \in Call
    BY <1>6, CallType DEF Crash
  <2> QED
    BY <1>6, <2>1, GotoCovered DEF Crash
<1>7. CASE UNCHANGED vars
  BY <1>7 DEF vars, Covered, Spending
<1> QED
  BY <1>1, <1>2, <1>3, <1>4, <1>5, <1>6, <1>7 DEF Next, Step

\* A user whose spends never overlapped between check and decrement is never
\* overdrawn, for any number of concurrent requests, credits and crashes.
THEOREM OverdraftTakesARace == Spec => []OverdraftNeedsOverlap
<1>1. Init => Covered
  <2> SUFFICES ASSUME Init PROVE Covered
    OBVIOUS
  <2>1. \A u \in Users : balance[u] = 0
    BY DEF Init
  <2>2. \A r \in Requests : phase[r] # "spending"
    BY DEF Init
  <2>3. \A u \in Users : Spending(u) = {}
    BY <2>2 DEF Spending
  <2>4. ASSUME NEW u \in Users PROVE balance[u] >= 0
    BY <2>1
  <2>5. ASSUME NEW u \in Users, NEW r \in Spending(u) PROVE FALSE
    BY <2>3
  <2> QED
    BY <2>4, <2>5 DEF Covered
<1>2. Covered => OverdraftNeedsOverlap
  BY DEF Covered, OverdraftNeedsOverlap
<1> QED
  BY <1>1, <1>2, TypeInvInit, TypeInvNext, CoveredNext, PTL DEF Spec

-----------------------------------------------------------------------------
(* The wallet implements the account book *)

\* Only an active request writes a ledger line, and it is over once it has.
LinesAreFinal ==
    \A r \in Requests : ledger[r] # NoEntry => phase[r] \notin Active \cup {"new"}

LEMMA LinesAreFinalNext == TypeInv /\ LinesAreFinal /\ [Next]_vars => LinesAreFinal'
<1> SUFFICES ASSUME TypeInv, LinesAreFinal, [Next]_vars
             PROVE  LinesAreFinal'
  OBVIOUS
<1>1. ASSUME NEW r \in Requests, Arrive(r)
      PROVE  LinesAreFinal'
  BY <1>1 DEF Arrive, Begin, LinesAreFinal, TypeInv, TypeOK
<1>2. ASSUME NEW r \in Requests, FindWallet(r) \/ CreateWallet(r) \/ CheckBalance(r) \/ Crash(r)
      PROVE  LinesAreFinal'
  <2>1. phase[r] \in Active /\ ledger' = ledger /\ \E p : Goto(r, p)
    BY <1>2 DEF FindWallet, CreateWallet, CheckBalance, Crash
  <2> QED
    BY <2>1 DEF Goto, LinesAreFinal, TypeInv, TypeOK
<1>3. ASSUME NEW r \in Requests, Credit(r) \/ Withdraw(r) \/ Debit(r)
      PROVE  LinesAreFinal'
  <2>1. /\ \E p \in {"done", "failed"} : Goto(r, p)
        /\ \A q \in Requests \ {r} : ledger'[q] = ledger[q]
    BY <1>3, MoveCases DEF Move, PostLine, TypeInv, TypeOK
  <2> QED
    BY <2>1 DEF Goto, LinesAreFinal, TypeInv, TypeOK
<1>4. CASE UNCHANGED vars
  BY <1>4 DEF vars, LinesAreFinal
<1> QED
  BY <1>1, <1>2, <1>3, <1>4 DEF Next, Step

\* A transaction that moves a balance is one posting of the book.
LEMMA MovePosts ==
    ASSUME TypeInv, LinesAreFinal, NEW r \in Requests,
           phase[r] \in {"crediting", "spending"},
           NEW a \in {call[r].amount, -call[r].amount},
           NEW s \in {"COMPLETED", "PENDING"}, Move(r, a, s)
    PROVE  [Book!Next]_(Book!bookVars)
<1> DEFINE e == [user |-> call[r].user, status |-> s, amount |-> a, ref |-> call[r].ref]
<1>1. e \in Entry
  <2>1. call[r] \in Call
    BY CallType
  <2> QED
    BY <2>1 DEF Entry, Call
<1>2. ledger[r] = NoEntry
  BY DEF LinesAreFinal
<1>3. CASE balance[call[r].user] + a \in (-MaxInt - 1)..MaxInt
  <2>1. Book!Post(r, e)
    BY <1>2, <1>3 DEF Move, PostLine, Book!Post
  <2> QED
    BY <1>1, <2>1 DEF Book!Next
<1>4. CASE balance[call[r].user] + a \notin (-MaxInt - 1)..MaxInt
  BY <1>4 DEF Move, PostLine, Book!bookVars
<1> QED
  BY <1>3, <1>4

\* Every behaviour of the wallet is a behaviour of the account book: balances
\* change only together with the one ledger line that says why, and a posted
\* line never changes again.
THEOREM WalletImplementsBook == Spec => ImplementsBook
<1>1. Init => Book!Init /\ LinesAreFinal
  BY DEF Init, Book!Init, LinesAreFinal
<1>2. TypeInv /\ LinesAreFinal /\ [Next]_vars => [Book!Next]_(Book!bookVars)
  <2> SUFFICES ASSUME TypeInv, LinesAreFinal, [Next]_vars
               PROVE  [Book!Next]_(Book!bookVars)
    OBVIOUS
  <2>1. ASSUME NEW r \in Requests, Credit(r) \/ Withdraw(r) \/ Debit(r)
        PROVE  [Book!Next]_(Book!bookVars)
    BY <2>1, MoveCases, MovePosts
  <2>2. ASSUME NEW r \in Requests,
               \/ Arrive(r) \/ FindWallet(r) \/ CreateWallet(r)
               \/ CheckBalance(r) \/ Crash(r)
        PROVE  UNCHANGED Book!bookVars
    BY <2>2 DEF Arrive, Begin, FindWallet, CreateWallet, CheckBalance, Crash, Book!bookVars
  <2>3. CASE UNCHANGED vars
    BY <2>3 DEF vars, Book!bookVars
  <2> QED
    BY <2>1, <2>2, <2>3 DEF Next, Step
<1> QED
  BY <1>1, <1>2, TypeInvInit, TypeInvNext, LinesAreFinalNext, PTL
     DEF Spec, ImplementsBook, Book!Spec


USE DEF Kinds, Phases, Active, Answers, Events

-----------------------------------------------------------------------------
(* Webhooks are clients of the wallet *)

LEMMA ForwardBegins ==
    ASSUME NEW d \in Requests, delivered[d] \in Events,
           Creditable(delivered[d]), Forward(d)
    PROVE  \E c \in Call : /\ c.ref = delivered[d]
                           /\ c.kind = "deposit"
                           /\ Begin(d, c)
<1> DEFINE e == delivered[d]
           c == [kind |-> "deposit", user |-> EventUser[e],
                 amount |-> EventAmount[e], ref |-> e]
<1>1. c \in Call
  BY PaymentConstants DEF Call, Creditable
<1>2. Begin(d, c)
  BY DEF Forward
<1> QED
  BY <1>1, <1>2

LEMMA PayNextIsWalletNext == [PayNext]_allVars => [Next]_vars
<1> SUFFICES ASSUME [PayNext]_allVars
             PROVE  [Next]_vars
  OBVIOUS
<1>1. ASSUME NEW d \in Requests, NEW e \in Events, Deliver(d, e) \/ Duplicate(d, e)
      PROVE  UNCHANGED vars
  BY <1>1 DEF Deliver, Duplicate, Send
<1>2. ASSUME NEW d \in Requests, HandleStripe(d) \/ HandlePagarme(d)
      PROVE  [Next]_vars
  <2>1. CASE UNCHANGED vars
    BY <2>1
  <2>2. CASE delivered[d] \in Events /\ Creditable(delivered[d]) /\ Forward(d)
    BY <2>2, ForwardBegins DEF Next, Arrive
  <2> QED
    BY <1>2, <2>1, <2>2, PaymentConstants DEF HandleStripe, HandlePagarme, Creditable
<1>3. ASSUME NEW d \in Requests, WalletStep(d)
      PROVE  [Next]_vars
  BY <1>3 DEF WalletStep, Next, Step
<1>4. ASSUME NEW d \in Requests, HandlerDies(d)
      PROVE  [Next]_vars
  BY <1>4 DEF HandlerDies, Next
<1>5. CASE UNCHANGED allVars
  BY <1>5 DEF allVars, vars
<1> QED
  BY <1>1, <1>2, <1>3, <1>4, <1>5 DEF PayNext, Handle

\* Every behaviour of the webhooks is, as far as wallets go, a behaviour of
\* the wallet component, so all its theorems hold of them.
THEOREM PaymentsUseWallet == PaySpec => UsesWallet
<1>1. PayInit => Init
  BY DEF PayInit
<1> QED
  BY <1>1, PayNextIsWalletNext, PTL DEF PaySpec, UsesWallet, Spec

LEMMA PayTypesNext ==
    TypeInv /\ TypeInv' /\ PayTypeOK /\ [PayNext]_allVars => PayTypeOK'
<1> SUFFICES ASSUME TypeInv, TypeInv', PayTypeOK, [PayNext]_allVars
             PROVE  PayTypeOK'
  OBVIOUS
<1> USE PaymentConstants DEF PayTypeOK
<1>1. TypeOK'
  BY DEF TypeInv
<1>2. ASSUME NEW d \in Requests, NEW e \in Events, Deliver(d, e) \/ Duplicate(d, e)
      PROVE  PayTypeOK'
  BY <1>1, <1>2 DEF Deliver, Duplicate, Send
<1>3. ASSUME NEW d \in Requests, HandleStripe(d) \/ HandlePagarme(d)
      PROVE  PayTypeOK'
  BY <1>1, <1>3 DEF HandleStripe, HandlePagarme, Forward, Answer
<1>4. ASSUME NEW d \in Requests, WalletStep(d)
      PROVE  PayTypeOK'
  BY <1>1, <1>4 DEF WalletStep, payVars
<1>5. ASSUME NEW d \in Requests, HandlerDies(d)
      PROVE  PayTypeOK'
  BY <1>1, <1>5 DEF HandlerDies
<1>6. CASE UNCHANGED allVars
  BY <1>1, <1>6 DEF allVars
<1> QED
  BY <1>2, <1>3, <1>4, <1>5, <1>6 DEF PayNext, Handle

\* Every variable of the webhooks and of the wallets they use has its type.
THEOREM PayTypeCorrect == PaySpec => []PayTypeOK
<1>1. PayInit => TypeInv /\ PayTypeOK
  <2>1. PayInit => TypeInv
    BY TypeInvInit DEF PayInit
  <2>2. TypeInv => TypeOK
    BY DEF TypeInv
  <2>3. PayInit /\ TypeOK => PayTypeOK
    BY PaymentConstants DEF PayInit, PayTypeOK
  <2> QED
    BY <2>1, <2>2, <2>3
<1>2. TypeInv /\ [PayNext]_allVars => TypeInv'
  BY PayNextIsWalletNext, TypeInvNext
<1> QED
  BY <1>1, <1>2, PayTypesNext, PTL DEF PaySpec

-----------------------------------------------------------------------------
(* One credit per event *)

\* A request is at work in the wallet only on behalf of a delivery, and a
\* ledger line belongs to a delivery that is done, of the event it names.
LineOfDelivery ==
    /\ delivered \in [Requests -> Events \cup {NoRef}]
    /\ answer \in [Requests -> Answers]
    /\ \A d \in Requests :
          /\ phase[d] # "new" => /\ answer[d] = "forwarded"
                                 /\ call[d].ref = delivered[d]
                                 /\ call[d].kind = "deposit"
          /\ answer[d] # "none" => delivered[d] \in Events
          /\ ledger[d] # NoEntry => /\ phase[d] = "done"
                                    /\ ledger[d].ref = delivered[d]

\* An event whose deliveries never overlapped has one handler at most, and
\* that handler passed the search of the ledger only if nothing was credited.
OneHandler ==
    \A e \in Events \ racing :
        /\ \A c, d \in InFlight(e) : c = d
        /\ \A q, r \in Credited(e) : q = r
        /\ \A d \in InFlight(e) : answer[d] = "forwarded" => Credited(e) = {}

LEMMA LineOfDeliveryNext ==
    TypeInv /\ LineOfDelivery /\ [PayNext]_allVars => LineOfDelivery'
<1> SUFFICES ASSUME TypeInv, LineOfDelivery, [PayNext]_allVars
             PROVE  LineOfDelivery'
  OBVIOUS
<1>1. ASSUME NEW d \in Requests, NEW e \in Events, Deliver(d, e) \/ Duplicate(d, e)
      PROVE  LineOfDelivery'
  <2>1. Send(d, e)
    BY <1>1 DEF Deliver, Duplicate
  <2>2. phase[d] = "new" /\ ledger[d] = NoEntry
    BY <2>1 DEF Send, LineOfDelivery
  <2> QED
    BY <2>1, <2>2 DEF Send, vars, LineOfDelivery
<1>2. ASSUME NEW d \in Requests, HandleStripe(d) \/ HandlePagarme(d)
      PROVE  LineOfDelivery'
  <2>1. delivered[d] \in Events /\ answer[d] = "received"
    BY <1>2 DEF HandleStripe, HandlePagarme, LineOfDelivery
  <2>2. CASE UNCHANGED vars /\ \E a \in {"deduped", "ignored"} : Answer(d, a)
    BY <2>1, <2>2 DEF Answer, vars, LineOfDelivery
  <2>3. CASE Creditable(delivered[d]) /\ Forward(d)
    <3>1. PICK c \in Call : c.ref = delivered[d] /\ c.kind = "deposit" /\ Begin(d, c)
      BY <2>1, <2>3, ForwardBegins
    <3> QED
      BY <2>3, <3>1, <2>1 DEF Forward, Begin, Answer, LineOfDelivery, TypeInv, TypeOK
  <2> QED
    BY <1>2, <2>2, <2>3 DEF HandleStripe, HandlePagarme, Creditable
<1>3. ASSUME NEW d \in Requests, WalletStep(d)
      PROVE  LineOfDelivery'
  <2>1. answer[d] = "forwarded" /\ UNCHANGED payVars
    BY <1>3 DEF WalletStep
  <2>2. CASE FindWallet(d) \/ CreateWallet(d)
    BY <2>1, <2>2 DEF FindWallet, CreateWallet, Goto, payVars, LineOfDelivery, TypeInv, TypeOK
  <2>3. CASE Credit(d)
    BY <2>1, <2>3 DEF Credit, Move, PostLine, Goto, payVars, LineOfDelivery, TypeInv, TypeOK
  <2> QED
    BY <1>3, <2>2, <2>3 DEF WalletStep
<1>4. ASSUME NEW d \in Requests, HandlerDies(d)
      PROVE  LineOfDelivery'
  BY <1>4 DEF HandlerDies, Crash, Goto, vars, LineOfDelivery, TypeInv, TypeOK
<1>5. CASE UNCHANGED allVars
  BY <1>5 DEF allVars, LineOfDelivery
<1> QED
  BY <1>1, <1>2, <1>3, <1>4, <1>5 DEF PayNext, Handle

\* Handlers that end, or go on without posting a line, keep the invariant.
LEMMA HandlersEnd ==
    ASSUME OneHandler, racing' = racing, ledger' = ledger,
           \A e \in Events : /\ InFlight(e)' \subseteq InFlight(e)
                             /\ \A d \in InFlight(e)' : answer'[d] = answer[d]
    PROVE  OneHandler'
  BY DEF OneHandler, Credited

LEMMA OneHandlerNext ==
    TypeInv /\ LineOfDelivery /\ OneHandler /\ [PayNext]_allVars => OneHandler'
<1> SUFFICES ASSUME TypeInv, LineOfDelivery, OneHandler, [PayNext]_allVars
             PROVE  OneHandler'
  OBVIOUS
<1>1. ASSUME NEW d \in Requests, NEW e \in Events, Deliver(d, e) \/ Duplicate(d, e)
      PROVE  OneHandler'
  <2>1. Send(d, e)
    BY <1>1 DEF Deliver, Duplicate
  <2>2. \A f \in Events : Credited(f)' = Credited(f)
    BY <2>1 DEF Send, vars, Credited
  <2>3. \A f \in Events \ {e} : InFlight(f)' \subseteq InFlight(f)
    BY <2>1 DEF Send, vars, InFlight, LineOfDelivery
  <2>4. InFlight(e)' \subseteq InFlight(e) \cup {d} /\ answer'[d] = "received"
    BY <2>1 DEF Send, vars, InFlight, LineOfDelivery
  <2>5. \A c \in Requests \ {d} : answer'[c] = answer[c]
    BY <2>1 DEF Send, LineOfDelivery
  <2>6. racing \subseteq racing' /\ (InFlight(e) # {} => e \in racing')
    BY <2>1 DEF Send
  <2>7. ASSUME NEW f \in Events, f \notin racing'
        PROVE  /\ \A b, c \in InFlight(f)' : b = c
               /\ \A q, r \in Credited(f)' : q = r
               /\ \A c \in InFlight(f)' : answer'[c] = "forwarded" => Credited(f)' = {}
    <3>1. /\ \A b, c \in InFlight(f) : b = c
          /\ \A q, r \in Credited(f) : q = r
          /\ \A c \in InFlight(f) : answer[c] = "forwarded" => Credited(f) = {}
      BY <2>6, <2>7 DEF OneHandler
    <3>2. CASE f = e
      BY <2>2, <2>4, <2>6, <2>7, <3>1, <3>2
    <3>3. CASE f # e
      <4>1. d \notin InFlight(f) /\ InFlight(f) \subseteq Requests
        BY <2>1 DEF Send, InFlight
      <4> QED
        BY <2>2, <2>3, <2>5, <3>1, <3>3, <4>1
    <3> QED
      BY <3>2, <3>3
  <2> QED
    BY <2>7 DEF OneHandler
<1>2. ASSUME NEW d \in Requests, HandleStripe(d) \/ HandlePagarme(d)
      PROVE  OneHandler'
  <2>1. delivered[d] \in Events /\ answer[d] = "received"
    BY <1>2 DEF HandleStripe, HandlePagarme, LineOfDelivery
  <2>2. CASE UNCHANGED vars /\ \E a \in {"deduped", "ignored"} : Answer(d, a)
    <3>1. \A e \in Events : /\ InFlight(e)' \subseteq InFlight(e)
                            /\ \A c \in InFlight(e)' : answer'[c] = answer[c]
      BY <2>2 DEF Answer, vars, InFlight, LineOfDelivery
    <3> QED
      BY <2>2, <3>1, HandlersEnd DEF Answer, vars
  <2>3. CASE /\ Creditable(delivered[d])
             /\ Credited(delivered[d]) = {}
             /\ Forward(d)
    <3>1. PICK c \in Call : Begin(d, c)
      BY <2>1, <2>3, ForwardBegins
    <3>2. \A e \in Events : Credited(e)' = Credited(e) /\ InFlight(e)' \subseteq InFlight(e)
      BY <2>1, <2>3, <3>1
         DEF Forward, Begin, Answer, InFlight, Credited, LineOfDelivery, TypeInv, TypeOK
    <3>3. racing' = racing /\ \A q \in Requests \ {d} : answer'[q] = answer[q]
      BY <2>3 DEF Forward, Answer, LineOfDelivery
    <3>4. \A e \in Events : d \in InFlight(e) => e = delivered[d]
      BY DEF InFlight
    <3>5. \A e \in Events : InFlight(e) \subseteq Requests
      BY DEF InFlight
    <3>6. ASSUME NEW e \in Events, e \notin racing
          PROVE  /\ \A b, c2 \in InFlight(e)' : b = c2
                 /\ \A q, r \in Credited(e)' : q = r
                 /\ \A c2 \in InFlight(e)' : answer'[c2] = "forwarded" => Credited(e)' = {}
      <4>1. CASE e = delivered[d]
        BY <2>3, <3>2, <3>6, <4>1 DEF OneHandler
      <4>2. CASE e # delivered[d]
        <5>1. \A c2 \in InFlight(e)' : c2 \in InFlight(e) /\ answer'[c2] = answer[c2]
          BY <3>2, <3>3, <3>4, <3>5, <4>2
        <5> QED
          BY <3>2, <3>6, <5>1 DEF OneHandler
      <4> QED
        BY <4>1, <4>2
    <3> QED
      BY <3>3, <3>6 DEF OneHandler
  <2> QED
    BY <1>2, <2>2, <2>3 DEF HandleStripe, HandlePagarme, Creditable
<1>3. ASSUME NEW d \in Requests, WalletStep(d)
      PROVE  OneHandler'
  <2>1. answer[d] = "forwarded" /\ UNCHANGED payVars
    BY <1>3 DEF WalletStep
  <2>2. delivered[d] \in Events
    BY <2>1 DEF LineOfDelivery
  <2>3. phase[d] \in Active
    BY <1>3 DEF WalletStep, FindWallet, CreateWallet, Credit
  <2>4. CASE ledger' = ledger /\ \E p : Goto(d, p)
    <3>1. \A e \in Events : /\ InFlight(e)' \subseteq InFlight(e)
                            /\ \A c \in InFlight(e)' : answer'[c] = answer[c]
      BY <2>1, <2>3, <2>4 DEF payVars, Goto, InFlight, TypeInv, TypeOK
    <3> QED
      BY <2>1, <2>4, <3>1, HandlersEnd DEF payVars
  <2>5. CASE Goto(d, "done") /\ \E l \in Entry : /\ l.ref = call[d].ref
                                               /\ ledger' = [ledger EXCEPT ![d] = l]
    <3> DEFINE e == delivered[d]
    <3>1. \A f \in Events : InFlight(f)' = InFlight(f) \ {d}
      BY <2>1, <2>5 DEF payVars, Goto, InFlight, TypeInv, TypeOK
    <3>2. PICK l \in Entry : l.ref = e /\ ledger' = [ledger EXCEPT ![d] = l]
      BY <2>3, <2>5 DEF LineOfDelivery
    <3>3. Credited(e)' \subseteq Credited(e) \cup {d}
      BY <2>1, <3>2 DEF payVars, Credited, TypeInv, TypeOK
    <3>4. \A f \in Events \ {e} : Credited(f)' \subseteq Credited(f)
      BY <3>2 DEF Credited, TypeInv, TypeOK
    <3>5. d \in InFlight(e)
      BY <2>1, <2>3 DEF InFlight
    <3>6. e \notin racing => Credited(e) = {} /\ InFlight(e) = {d}
      BY <2>1, <2>2, <3>5 DEF OneHandler
    <3> QED
      BY <2>1, <3>1, <3>3, <3>4, <3>6 DEF OneHandler, payVars
  <2>6. CASE FindWallet(d) \/ CreateWallet(d)
    BY <2>4, <2>6 DEF FindWallet, CreateWallet
  <2>7. CASE Credit(d)
    <3>1. PICK a \in {call[d].amount, -call[d].amount}, s \in {"COMPLETED", "PENDING"} :
             Move(d, a, s)
      BY <2>7, MoveCases
    <3>2. [user |-> call[d].user, status |-> s, amount |-> a, ref |-> call[d].ref] \in Entry
      BY <2>3, CallType DEF Entry, Call
    <3> QED
      BY <2>4, <2>5, <3>1, <3>2 DEF Move, PostLine
  <2> QED
    BY <1>3, <2>6, <2>7 DEF WalletStep
<1>4. ASSUME NEW d \in Requests, HandlerDies(d)
      PROVE  OneHandler'
  <2>1. \A e \in Events : /\ InFlight(e)' \subseteq InFlight(e)
                          /\ \A c \in InFlight(e)' : answer'[c] = answer[c]
    BY <1>4 DEF HandlerDies, Crash, Goto, vars, InFlight, LineOfDelivery, TypeInv, TypeOK
  <2> QED
    BY <1>4, <2>1, HandlersEnd DEF HandlerDies, Crash, vars
<1>5. CASE UNCHANGED allVars
  BY <1>5 DEF allVars, OneHandler, InFlight, Credited
<1> QED
  BY <1>1, <1>2, <1>3, <1>4, <1>5 DEF PayNext, Handle

\* However often an event is delivered, retried and interrupted, it is credited
\* at most once unless two of its deliveries are handled at the same time.
THEOREM ReplaySafeUnlessRacing == PaySpec => []CreditedOnceUnlessRacing
<1>1. PayInit => TypeInv /\ LineOfDelivery /\ OneHandler
  <2>1. PayInit => TypeInv
    BY TypeInvInit DEF PayInit
  <2>2. PayInit => LineOfDelivery /\ OneHandler
    BY DEF PayInit, Init, LineOfDelivery, OneHandler, InFlight, Credited
  <2> QED
    BY <2>1, <2>2
<1>2. TypeInv /\ [PayNext]_allVars => TypeInv'
  BY PayNextIsWalletNext, TypeInvNext
<1>3. OneHandler => CreditedOnceUnlessRacing
  BY DEF OneHandler, CreditedOnceUnlessRacing
<1> QED
  BY <1>1, <1>2, <1>3, LineOfDeliveryNext, OneHandlerNext, PTL DEF PaySpec

-----------------------------------------------------------------------------
(* Acknowledged means credited *)

\* A delivery that is answered was credited, now or before, or is of no use.
AnswersKept ==
    \A d \in Requests :
        /\ phase[d] = "done" => ledger[d] # NoEntry
        /\ answer[d] = "deduped" => Credited(delivered[d]) # {}
        /\ answer[d] = "ignored" => ~Creditable(delivered[d])

\* Ledger lines stay, so what was credited stays credited.
LEMMA CreditsStay ==
    ASSUME TypeInv, LineOfDelivery, [PayNext]_allVars, NEW e
    PROVE  Credited(e) \subseteq Credited(e)'
<1>1. ASSUME NEW r \in Requests, WalletStep(r)
      PROVE  \A q \in Requests : ledger[q] # NoEntry => ledger'[q] = ledger[q]
  <2>1. CASE FindWallet(r) \/ CreateWallet(r)
    BY <2>1 DEF FindWallet, CreateWallet
  <2>2. CASE Credit(r)
    BY <2>2 DEF Credit, Move, PostLine, LineOfDelivery, TypeInv, TypeOK
  <2> QED
    BY <1>1, <2>1, <2>2 DEF WalletStep
<1>2. ledger' = ledger \/ \E r \in Requests : WalletStep(r)
  BY DEF PayNext, Handle, HandleStripe, HandlePagarme, Forward, Begin, Deliver, Duplicate,
         Send, HandlerDies, Crash, vars, allVars
<1> QED
  BY <1>1, <1>2 DEF Credited

LEMMA AnswersKeptNext ==
    TypeInv /\ LineOfDelivery /\ AnswersKept /\ [PayNext]_allVars => AnswersKept'
<1> SUFFICES ASSUME TypeInv, LineOfDelivery, AnswersKept, [PayNext]_allVars
             PROVE  AnswersKept'
  OBVIOUS
<1>1. \A e : Credited(e) # {} => Credited(e)' # {}
  BY CreditsStay
<1>2. ASSUME NEW d \in Requests, NEW e \in Events, Deliver(d, e) \/ Duplicate(d, e)
      PROVE  AnswersKept'
  BY <1>1, <1>2 DEF Deliver, Duplicate, Send, vars, LineOfDelivery, AnswersKept
<1>3. ASSUME NEW d \in Requests, HandleStripe(d) \/ HandlePagarme(d)
      PROVE  AnswersKept'
  <2>1. delivered[d] \in Events /\ delivered' = delivered
    BY <1>3 DEF HandleStripe, HandlePagarme, Forward, Answer, LineOfDelivery
  <2>2. CASE Credited(delivered[d]) # {} /\ Answer(d, "deduped") /\ UNCHANGED vars
    BY <1>1, <2>1, <2>2 DEF Answer, vars, LineOfDelivery, AnswersKept
  <2>3. CASE ~Creditable(delivered[d]) /\ Answer(d, "ignored") /\ UNCHANGED vars
    BY <1>1, <2>1, <2>3 DEF Answer, vars, LineOfDelivery, AnswersKept
  <2>4. CASE Forward(d)
    BY <1>1, <2>1, <2>4 DEF Forward, Begin, Answer, LineOfDelivery, AnswersKept, TypeInv, TypeOK
  <2> QED
    BY <1>3, <2>2, <2>3, <2>4 DEF HandleStripe, HandlePagarme, Creditable
<1>4. ASSUME NEW d \in Requests, WalletStep(d)
      PROVE  AnswersKept'
  <2>1. UNCHANGED <<answer, delivered>> /\ phase[d] # "new" /\ call[d].kind = "deposit"
    BY <1>4 DEF WalletStep, payVars, FindWallet, CreateWallet, Credit, LineOfDelivery
  <2>2. \A c \in Requests : phase'[c] = "done" => ledger'[c] # NoEntry
    <3>1. CASE FindWallet(d) \/ CreateWallet(d)
      <4>1. \E p \in Phases \ {"done"} : Goto(d, p)
        BY <2>1, <3>1 DEF FindWallet, CreateWallet, WithWallet
      <4> QED
        BY <3>1, <4>1 DEF FindWallet, CreateWallet, Goto, AnswersKept, TypeInv, TypeOK
    <3>2. CASE Credit(d)
      <4> DEFINE line == [user |-> call[d].user, status |-> "COMPLETED",
                          amount |-> call[d].amount, ref |-> call[d].ref]
      <4>1. line # NoEntry
        <5>1. call[d] \in Call
          BY <2>1, CallType
        <5>2. line \in Entry
          BY <5>1 DEF Entry, Call
        <5> QED
          BY <5>2, NoEntryIsNoLine
      <4>2. CASE /\ ledger' = [ledger EXCEPT ![d] = line]
                 /\ Goto(d, "done")
        BY <4>1, <4>2 DEF Goto, AnswersKept, TypeInv, TypeOK
      <4>3. CASE Goto(d, "failed") /\ ledger' = ledger
        BY <4>3 DEF Goto, AnswersKept, TypeInv, TypeOK
      <4> QED
        BY <3>2, <4>2, <4>3 DEF Credit, Move, PostLine
    <3> QED
      BY <1>4, <3>1, <3>2 DEF WalletStep
  <2> QED
    BY <1>1, <2>1, <2>2 DEF AnswersKept
<1>5. ASSUME NEW d \in Requests, HandlerDies(d)
      PROVE  AnswersKept'
  BY <1>1, <1>5 DEF HandlerDies, Crash, Goto, vars, LineOfDelivery, AnswersKept, TypeInv, TypeOK
<1>6. CASE UNCHANGED allVars
  BY <1>6 DEF allVars, AnswersKept, Credited
<1> QED
  BY <1>2, <1>3, <1>4, <1>5, <1>6 DEF PayNext, Handle

\* Once an event that names a user and an amount is acknowledged, which ends its deliveries,
\* the money is in the ledger, whatever died, failed or was sent twice.
THEOREM AcknowledgedMeansCredited == PaySpec => []AcknowledgedIsCredited
<1>1. PayInit => TypeInv /\ LineOfDelivery /\ AnswersKept
  <2>1. PayInit => TypeInv
    BY TypeInvInit DEF PayInit
  <2>2. PayInit => LineOfDelivery /\ AnswersKept
    BY DEF PayInit, Init, LineOfDelivery, AnswersKept
  <2> QED
    BY <2>1, <2>2
<1>2. TypeInv /\ [PayNext]_allVars => TypeInv'
  BY PayNextIsWalletNext, TypeInvNext
<1>3. LineOfDelivery /\ AnswersKept => AcknowledgedIsCredited
  BY DEF LineOfDelivery, AnswersKept, AcknowledgedIsCredited, Acknowledged, Credited
<1> QED
  BY <1>1, <1>2, <1>3, LineOfDeliveryNext, AnswersKeptNext, PTL DEF PaySpec
=============================================================================

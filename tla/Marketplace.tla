---------------------------- MODULE Marketplace ----------------------------
(***************************************************************************)
(* MarketplaceService (src/modules/marketplace/marketplace.service.ts):    *)
(* listings edited by their sellers, and orders that debit the buyer,      *)
(* credit every seller and mark the products SOLD in one PostgreSQL READ   *)
(* COMMITTED transaction.                                                  *)
(*                                                                         *)
(* Reads see committed rows and lock nothing.  An UPDATE takes the lock of *)
(* its row and keeps it until the transaction ends; its effect is relative *)
(* to the row as the lock found it and stays private until the commit.     *)
(* Transactions that wait for each other in a circle lose one member.      *)
(***************************************************************************)
EXTENDS Integers, Sequences, FiniteSetsExt, SequencesExt

CONSTANTS
    Users,          \* operators; each has a wallet (a first sale creates it: InitialBalance 0)
    Products,
    Seller,         \* Seller[p]: the operator who listed p
    ListPrice,      \* ListPrice[p]: the price_cents p is listed with
    Orders,         \* identities of createOrder calls
    Edits,          \* identities of updateProduct calls that run at a time
    Patches,        \* what they ask for, the product included
    Qtys,           \* quantities the DTO lets through
    InitialBalance, \* what each wallet holds at first
    Free,           \* no transaction, no edit
    Keep            \* a field that a PATCH leaves out

\* Statuses a PATCH may name; the DTO excludes SOLD.
EditStatuses == {"DRAFT", "ACTIVE", "EXPIRED", "REMOVED"}
Changes == [product : Products, status : EditStatuses \cup {Keep},
            price : (Nat \ {0}) \cup {Keep}]

ASSUME MarketConstants ==
    /\ Seller \in [Products -> Users]
    /\ ListPrice \in [Products -> Nat \ {0}]
    /\ Patches \subseteq Changes
    /\ Keep \notin EditStatuses /\ Keep \notin Nat
    /\ Qtys \subseteq Nat \ {0}
    /\ InitialBalance \in [Users -> Nat]
    /\ Free \notin Orders
    /\ IsFiniteSet(Users) /\ IsFiniteSet(Products) /\ IsFiniteSet(Orders)

Statuses == {"UNLISTED", "DRAFT", "ACTIVE", "EXPIRED", "REMOVED", "SOLD"}

VARIABLES
    status,         \* committed status of each product
    price,          \* committed price_cents of each product
    balance,        \* committed balance of each wallet
    step,           \* progress of each order
    order,          \* its buyer, cart, the balance it saw and the rows it read
    pending,        \* pending[o][u]: what o's transaction adds to u's balance
    next,           \* index of the row o works on
    walletLock,     \* the transaction that holds the lock of a wallet row
    productLock,    \* the transaction that holds the lock of a product row
    edit,           \* the checked, not yet written edit of each call
    contested,      \* history: products two open transactions both read ACTIVE
    relisted        \* history: products written by their seller after a sale

vars == <<status, price, balance, step, order, pending, next, walletLock, productLock,
          edit, contested, relisted>>

orderVars == <<step, order, pending, next, walletLock>>

-----------------------------------------------------------------------------
(* Prices *)

\* Math.round(total * 0.05) and Math.round(subtotal * 0.9), halves upwards.
Shipping(total) == (total + 10) \div 20
SellerCut(subtotal) == (9 * subtotal + 5) \div 10

\* A cart has, for each product, the quantity and the price that the order has
\* read, 0 before it has read any.
Subtotal(cart, p) == cart[p].qty * cart[p].price

\* Mutant of Total: the quantity is forgotten.
TotalOfUnits(cart) == MapThenSumSet(LAMBDA p : cart[p].price, DOMAIN cart)

Total(cart) == MapThenSumSet(LAMBDA p : Subtotal(cart, p), DOMAIN cart)
Grand(cart) == Total(cart) + Shipping(Total(cart))

Carts == UNION {[S -> [qty : Qtys, price : {0}]] : S \in (SUBSET Products) \ {{}}}

\* The cart at the prices of the products now.
Priced(cart) == [p \in DOMAIN cart |-> [cart[p] EXCEPT !.price = price[p]]]

-----------------------------------------------------------------------------
(* Transactions *)

\* Orders whose transaction has read its products and is still open.
Open == {"checking", "debiting", "crediting", "marking", "committing"}

Holds(o, p) == step[o] \in Open /\ p \in DOMAIN order[o].cart

\* The transaction that keeps o from its next row lock, or Free.
Blocker(o) ==
    LET holder ==
            CASE step[o] = "debiting"  -> walletLock[order[o].buyer]
              [] step[o] = "crediting" -> walletLock[Seller[order[o].rows[next[o]]]]
              [] step[o] = "marking"   -> productLock[order[o].rows[next[o]]]
              [] OTHER -> Free
    IN  IF holder = o THEN Free ELSE holder

\* o waits for a transaction that waits for ... that waits for o.
Deadlocked(o) ==
    \E S \in SUBSET Orders : o \in S /\ {Blocker(q) : q \in S} = S

Release(lock, o) == [x \in DOMAIN lock |-> IF lock[x] = o THEN Free ELSE lock[x]]

NoPending == [u \in Users |-> 0]
NoOrder == [buyer |-> Free, cart |-> <<>>, seen |-> 0, rows |-> <<>>]
NoEdit == [product |-> Free, status |-> Keep, price |-> Keep]

Init ==
    /\ status = [p \in Products |-> "UNLISTED"]
    /\ price = ListPrice
    /\ balance = InitialBalance
    /\ step = [o \in Orders |-> "new"]
    /\ order = [o \in Orders |-> NoOrder]
    /\ pending = [o \in Orders |-> NoPending]
    /\ next = [o \in Orders |-> 1]
    /\ walletLock = [u \in Users |-> Free]
    /\ productLock = [p \in Products |-> Free]
    /\ edit = [e \in Edits |-> NoEdit]
    /\ contested = {}
    /\ relisted = {}

-----------------------------------------------------------------------------
(* Listings *)

CreateProduct(p) ==
    /\ status[p] = "UNLISTED"
    /\ status' = [status EXCEPT ![p] = "ACTIVE"]
    /\ UNCHANGED <<price, balance, orderVars, productLock, edit, contested, relisted>>

\* updateProduct up to its checks.
StartEdit(e, d) ==
    /\ edit[e] = NoEdit
    /\ status[d.product] \notin {"UNLISTED", "SOLD"}
    /\ edit' = [edit EXCEPT ![e] = d]
    /\ UNCHANGED <<status, price, balance, orderVars, productLock, contested, relisted>>

\* The seller writes the fields given over whatever is there by now.
WriteProduct(d) ==
    LET p == d.product IN
    /\ productLock[p] = Free
    /\ status' = IF d.status = Keep THEN status ELSE [status EXCEPT ![p] = d.status]
    /\ price' = IF d.price = Keep THEN price ELSE [price EXCEPT ![p] = d.price]
    /\ relisted' = IF status[p] = "SOLD" /\ d.status # Keep
                   THEN relisted \cup {p} ELSE relisted
    /\ UNCHANGED <<balance, orderVars, productLock, contested>>

FinishEdit(e) ==
    /\ edit[e] # NoEdit
    /\ WriteProduct(edit[e])
    /\ edit' = [edit EXCEPT ![e] = NoEdit]

\* removeProduct, of the seller or of an admin, looks at the owner at most,
\* whatever the status.
RemoveProduct(p) ==
    /\ status[p] # "UNLISTED"
    /\ WriteProduct([product |-> p, status |-> "REMOVED", price |-> Keep])
    /\ UNCHANGED edit

-----------------------------------------------------------------------------
(* Orders *)

\* requireOperator and getOrCreate, outside the transaction.
PlaceOrder(o) ==
    /\ step[o] = "new"
    /\ step' = [step EXCEPT ![o] = "reading"]
    /\ \E u \in Users, c \in Carts :
          order' = [order EXCEPT ![o] = [buyer |-> u, cart |-> c,
                                         seen |-> balance[u], rows |-> <<>>]]
    /\ UNCHANGED <<status, price, balance, pending, next, walletLock, productLock,
                   edit, contested, relisted>>

\* Mutant of Acceptable: the query does not ask for status ACTIVE.
AcceptableAnyStatus(o) ==
    LET c == order[o].cart IN
    /\ \A p \in DOMAIN c : Seller[p] # order[o].buyer
    /\ order[o].seen >= Grand(Priced(c))

Acceptable(o) ==
    LET c == order[o].cart IN
    /\ \A p \in DOMAIN c : status[p] = "ACTIVE" /\ Seller[p] # order[o].buyer
    /\ order[o].seen >= Grand(Priced(c))

\* The transaction reads its ACTIVE products with their prices, in an order the
\* query leaves open, checks them and inserts the order row.
ReadProducts(o) ==
    /\ step[o] = "reading"
    /\ Acceptable(o)
    /\ step' = [step EXCEPT ![o] = "checking"]
    /\ \E rows \in SetToSeqs(DOMAIN order[o].cart) :
          order' = [order EXCEPT ![o].rows = rows, ![o].cart = Priced(@)]
    /\ contested' = contested \cup
          {p \in DOMAIN order[o].cart : \E q \in Orders \ {o} : Holds(q, p)}
    /\ UNCHANGED <<status, price, balance, pending, next, walletLock, productLock,
                   edit, relisted>>

RejectOrder(o) ==
    /\ step[o] = "reading"
    /\ ~Acceptable(o)
    /\ step' = [step EXCEPT ![o] = "rejected"]
    /\ UNCHANGED <<status, price, balance, order, pending, next, walletLock, productLock,
                   edit, contested, relisted>>

\* Mutant of CheckBuyer: an insufficient balance is not answered.
CheckBuyerPatiently(o) ==
    /\ step[o] = "checking"
    /\ balance[order[o].buyer] >= Grand(order[o].cart)
    /\ step' = [step EXCEPT ![o] = "debiting"]
    /\ UNCHANGED <<status, price, balance, order, pending, next, walletLock, productLock,
                   edit, contested, relisted>>

\* debit: read the balance again, then decrement the buyer's row.
CheckBuyer(o) ==
    /\ step[o] = "checking"
    /\ step' = [step EXCEPT ![o] =
                   IF balance[order[o].buyer] < Grand(order[o].cart)
                   THEN "rejected" ELSE "debiting"]
    /\ UNCHANGED <<status, price, balance, order, pending, next, walletLock, productLock,
                   edit, contested, relisted>>

UpdateWallet(o, u, amount) ==
    /\ Blocker(o) = Free
    /\ walletLock' = [walletLock EXCEPT ![u] = o]
    /\ pending' = [pending EXCEPT ![o][u] = @ + amount]

DebitBuyer(o) ==
    /\ step[o] = "debiting"
    /\ UpdateWallet(o, order[o].buyer, -Grand(order[o].cart))
    /\ step' = [step EXCEPT ![o] = "crediting"]
    /\ UNCHANGED <<status, price, balance, order, next, productLock, edit, contested, relisted>>

\* On to the next row, or to the first row of the next phase.
Advance(o, phase) ==
    IF next[o] < Len(order[o].rows)
    THEN next' = [next EXCEPT ![o] = @ + 1] /\ UNCHANGED step
    ELSE next' = [next EXCEPT ![o] = 1] /\ step' = [step EXCEPT ![o] = phase]

\* Mutant of CreditSeller: credit() is called without the transaction.
CreditSellerOutside(o) ==
    /\ step[o] = "crediting"
    /\ LET p == order[o].rows[next[o]]
       IN  balance' = [balance EXCEPT ![Seller[p]] =
                          @ + SellerCut(Subtotal(order[o].cart, p))]
    /\ Advance(o, "marking")
    /\ UNCHANGED <<status, price, order, pending, walletLock, productLock, edit,
                   contested, relisted>>

\* The upsert of a wallet and credit(); a sum that overflows the column aborts
\* the transaction, which Crash covers.
CreditSeller(o) ==
    /\ step[o] = "crediting"
    /\ LET p == order[o].rows[next[o]]
       IN  UpdateWallet(o, Seller[p], SellerCut(Subtotal(order[o].cart, p)))
    /\ Advance(o, "marking")
    /\ UNCHANGED <<status, price, balance, order, productLock, edit, contested, relisted>>

\* updateMany to SOLD, row by row, whatever status the row has by now.
MarkSold(o) ==
    /\ step[o] = "marking"
    /\ Blocker(o) = Free
    /\ productLock' = [productLock EXCEPT ![order[o].rows[next[o]]] = o]
    /\ Advance(o, "committing")
    /\ UNCHANGED <<status, price, balance, order, pending, walletLock, edit, contested, relisted>>

EndTransaction(o, outcome) ==
    /\ step' = [step EXCEPT ![o] = outcome]
    /\ pending' = [pending EXCEPT ![o] = NoPending]
    /\ walletLock' = Release(walletLock, o)
    /\ productLock' = Release(productLock, o)
    /\ UNCHANGED <<order, next, edit, contested, relisted>>

Commit(o) ==
    /\ step[o] = "committing"
    /\ status' = [p \in Products |->
                     IF p \in DOMAIN order[o].cart THEN "SOLD" ELSE status[p]]
    /\ balance' = [u \in Users |-> balance[u] + pending[o][u]]
    /\ EndTransaction(o, "paid")
    /\ UNCHANGED price

\* The database breaks a circle of waiting transactions.
AbortDeadlocked(o) ==
    /\ step[o] \in Open
    /\ Deadlocked(o)
    /\ EndTransaction(o, "aborted")
    /\ UNCHANGED <<status, price, balance>>

\* The process dies; the database rolls its transaction back.
Crash(o) ==
    /\ step[o] \in Open \cup {"reading"}
    /\ EndTransaction(o, "aborted")
    /\ UNCHANGED <<status, price, balance>>

OrderStep(o) ==
    \/ ReadProducts(o)
    \/ RejectOrder(o)
    \/ CheckBuyer(o)
    \/ DebitBuyer(o)
    \/ CreditSeller(o)
    \/ MarkSold(o)
    \/ Commit(o)
    \/ AbortDeadlocked(o)

Next ==
    \/ \E p \in Products : CreateProduct(p) \/ RemoveProduct(p)
    \/ \E e \in Edits : \/ FinishEdit(e)
                        \/ \E d \in Patches : StartEdit(e, d)
    \/ \E o \in Orders : PlaceOrder(o) \/ OrderStep(o) \/ Crash(o)

Spec == Init /\ [][Next]_vars

\* A handler that can go on does; nobody has to place orders, edit listings or
\* crash.
FairSpec ==
    /\ Spec
    /\ \A o \in Orders : WF_vars(OrderStep(o))

-----------------------------------------------------------------------------
(* Properties *)

Steps == Open \cup {"new", "reading", "paid", "rejected", "aborted"}

\* Products, orders, locks and edits have their types; balances and pending
\* changes are sums, of which StatementsAddUp says what they are.
TypeOK ==
    /\ status \in [Products -> Statuses]
    /\ price \in [Products -> Nat \ {0}]
    /\ step \in [Orders -> Steps]
    /\ \A o \in Orders : DOMAIN order[o].cart \subseteq Products
    /\ edit \in [Edits -> Patches \cup {NoEdit}]
    /\ walletLock \in [Users -> Orders \cup {Free}]
    /\ productLock \in [Products -> Orders \cup {Free}]
    /\ contested \subseteq Products
    /\ relisted \subseteq Products

SalesOf(p) == {o \in Orders : step[o] = "paid" /\ p \in DOMAIN order[o].cart}

\* "Debit + mark PAID + reserve the product as SOLD in one transaction": a
\* product is sold to one buyer only, provided no two open transactions both
\* read it ACTIVE and nobody overwrote the SOLD status.
OneSaleUnlessContested ==
    \A p \in Products \ (contested \cup relisted) :
        \A o, q \in SalesOf(p) : o = q

\* Each wallet holds what it started with, less what its owner paid, plus the
\* cuts of its sales, for completed orders only: an order takes effect as a
\* whole or not at all, and concurrent orders lose none of each other's
\* increments, whatever was interleaved, aborted or rolled back.  "Minus 10%
\* platform fee": rounding never makes the platform pay for a sale, so the
\* wallets together never hold more than they did at first.
Paid(u) == {o \in Orders : step[o] = "paid" /\ order[o].buyer = u}
SoldBy(u, o) == {p \in DOMAIN order[o].cart : step[o] = "paid" /\ Seller[p] = u}

Earned(u, o) ==
    MapThenSumSet(LAMBDA p : SellerCut(Subtotal(order[o].cart, p)), SoldBy(u, o))

StatementsAddUp ==
    /\ \A u \in Users :
          balance[u] = InitialBalance[u]
                       - MapThenSumSet(LAMBDA o : Grand(order[o].cart), Paid(u))
                       + MapThenSumSet(LAMBDA o : Earned(u, o), Orders)
    /\ MapThenSumSet(LAMBDA u : balance[u], Users)
          <= MapThenSumSet(LAMBDA u : InitialBalance[u], Users)

\* Orders that lock wallets in opposite orders, wait for each other or race for
\* a product are all answered in the end.
EveryOrderAnswered ==
    \A o \in Orders :
        step[o] = "reading" ~> step[o] \in {"paid", "rejected", "aborted"}
=============================================================================

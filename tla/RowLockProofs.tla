---------------------------- MODULE RowLockProofs ----------------------------
(***************************************************************************)
(* Why the two services whose transactions lock PostgreSQL rows one after  *)
(* the other keep their promises, for any number of calls and rows.        *)
(*                                                                         *)
(* Marketplace: a product is sold once unless two open orders both read it *)
(* ACTIVE or its seller overwrote SOLD, and wallets hold what the completed*)
(* orders say.  Loadout: one cosmetic is equipped per slot, because an     *)
(* equip transaction that no insertion disturbed names every row of its    *)
(* kind, so its commit replaces whatever the others made of the slot.      *)
(***************************************************************************)
EXTENDS Marketplace, Loadout, SumProofs

USE DEF Open, Statuses, Steps

-----------------------------------------------------------------------------
(* Which steps touch sales, holders and statuses *)

\* The variables that say who holds and who sold what have their types.
SaleTypes ==
    /\ status \in [Products -> Statuses]
    /\ price \in [Products -> Nat \ {0}]
    /\ step \in [Orders -> Steps]
    /\ DOMAIN order = Orders
    /\ edit \in [Edits -> Patches \cup {NoEdit}]

\* While a product is not contested and its SOLD status not overwritten, it has
\* one holder at most, and that only before its first and only sale.
SaleInv ==
    \A p \in Products \ (contested \cup relisted) :
        /\ \A o, q \in Orders : Holds(o, p) /\ Holds(q, p) => o = q
        /\ \A o, q \in SalesOf(p) : o = q
        /\ SalesOf(p) # {} => /\ status[p] = "SOLD"
                              /\ \A o \in Orders : ~Holds(o, p)

\* Steps that only move orders on, or end them unpaid, sell nothing and add no
\* holder.
LEMMA NoNewHolder ==
    ASSUME SaleInv,
           contested \subseteq contested', relisted \subseteq relisted',
           \A o \in Orders, p \in Products : Holds(o, p)' => Holds(o, p),
           \A p \in Products : SalesOf(p)' = SalesOf(p),
           \A p \in Products \ relisted' : status[p] = "SOLD" => status'[p] = "SOLD"
    PROVE  SaleInv'
  BY DEF SaleInv

\* What an edit that was begun, or a removal, writes.
LEMMA WrittenTypes ==
    ASSUME SaleTypes, NEW d \in Changes, WriteProduct(d)
    PROVE  /\ status' \in [Products -> Statuses] /\ price' \in [Products -> Nat \ {0}]
           /\ UNCHANGED <<step, order, contested, productLock, walletLock, balance>>
           /\ relisted' \subseteq relisted \cup {d.product} /\ d.product \in Products
  BY DEF SaleTypes, WriteProduct, Changes, EditStatuses, orderVars

LEMMA Removals == ASSUME NEW p \in Products
                  PROVE  [product |-> p, status |-> "REMOVED", price |-> Keep] \in Changes
  BY DEF Changes, EditStatuses

\* An order that has read its products has the same ones, at their prices.
LEMMA ReadOrder ==
    ASSUME DOMAIN order = Orders, NEW o \in Orders, NEW list,
           order' = [order EXCEPT ![o].rows = list, ![o].cart = Priced(@)]
    PROVE  /\ order'[o] = [order[o] EXCEPT !.rows = list, !.cart = Priced(order[o].cart)]
           /\ \A q \in Orders : DOMAIN order'[q].cart = DOMAIN order[q].cart
           /\ \A q \in Orders \ {o} : order'[q] = order[q]
           /\ DOMAIN order' = Orders
  BY DEF Priced

LEMMA SaleTypesNext == SaleTypes /\ [Next]_vars => SaleTypes'
<1> SUFFICES ASSUME SaleTypes, [Next]_vars
             PROVE  SaleTypes'
  OBVIOUS
<1> USE DEF SaleTypes, orderVars
<1>1. ASSUME NEW p \in Products, CreateProduct(p) \/ RemoveProduct(p)
      PROVE  SaleTypes'
  BY <1>1, WrittenTypes, Removals DEF CreateProduct, RemoveProduct
<1>2. ASSUME NEW e \in Edits, NEW d \in Patches, StartEdit(e, d)
      PROVE  SaleTypes'
  BY <1>2, MarketConstants DEF StartEdit
<1>3. ASSUME NEW e \in Edits, FinishEdit(e)
      PROVE  SaleTypes'
  <2>1. edit[e] \in Changes
    BY <1>3, MarketConstants DEF FinishEdit
  <2> QED
    BY <1>3, <2>1, WrittenTypes DEF FinishEdit
<1>4. ASSUME NEW o \in Orders, PlaceOrder(o)
      PROVE  SaleTypes'
  BY <1>4 DEF PlaceOrder
<1>5. ASSUME NEW o \in Orders, OrderStep(o) \/ Crash(o)
      PROVE  SaleTypes'
  <2>1. UNCHANGED <<edit, price>> /\ DOMAIN order' = DOMAIN order
    BY <1>5 DEF OrderStep, ReadProducts, RejectOrder, CheckBuyer, DebitBuyer, CreditSeller,
                MarkSold, Commit, AbortDeadlocked, Crash, EndTransaction
  <2>2. UNCHANGED step \/ \E s \in Steps : step' = [step EXCEPT ![o] = s]
    BY <1>5 DEF OrderStep, ReadProducts, RejectOrder, CheckBuyer, DebitBuyer, CreditSeller,
                MarkSold, Commit, AbortDeadlocked, Crash, EndTransaction, Advance
  <2>3. status' \in [Products -> Statuses]
    <3>1. CASE Commit(o)
      BY <3>1 DEF Commit
    <3>2. CASE ~Commit(o)
      BY <1>5, <3>2 DEF OrderStep, ReadProducts, RejectOrder, CheckBuyer, DebitBuyer,
                        CreditSeller, MarkSold, AbortDeadlocked, Crash
    <3> QED
      BY <3>1, <3>2
  <2> QED
    BY <2>1, <2>2, <2>3
<1>6. CASE UNCHANGED vars
  BY <1>6 DEF vars
<1> QED
  BY <1>1, <1>2, <1>3, <1>4, <1>5, <1>6 DEF Next

LEMMA TypeOKNext == SaleTypes /\ TypeOK /\ [Next]_vars => TypeOK'
<1> SUFFICES ASSUME SaleTypes, TypeOK, [Next]_vars
             PROVE  TypeOK'
  OBVIOUS
<1>1. SaleTypes'
  BY SaleTypesNext
<1> USE DEF SaleTypes, TypeOK, orderVars
<1>2. ASSUME NEW p \in Products, CreateProduct(p) \/ RemoveProduct(p)
      PROVE  TypeOK'
  BY <1>1, <1>2, WrittenTypes, Removals DEF CreateProduct, RemoveProduct
<1>3. ASSUME NEW e \in Edits, NEW d \in Patches, StartEdit(e, d)
      PROVE  TypeOK'
  BY <1>1, <1>3 DEF StartEdit
<1>4. ASSUME NEW e \in Edits, FinishEdit(e)
      PROVE  TypeOK'
  <2>1. edit[e] \in Changes
    BY <1>4, MarketConstants DEF FinishEdit
  <2> QED
    BY <1>1, <1>4, <2>1, WrittenTypes DEF FinishEdit
<1>5. ASSUME NEW o \in Orders, PlaceOrder(o)
      PROVE  TypeOK'
  <2>1. PICK u \in Users, c \in Carts :
            order' = [order EXCEPT ![o] = [buyer |-> u, cart |-> c,
                                           seen |-> balance[u], rows |-> <<>>]]
    BY <1>5 DEF PlaceOrder
  <2>2. DOMAIN c \subseteq Products
    BY DEF Carts
  <2>3. \A q \in Orders : DOMAIN order'[q].cart \subseteq Products
    BY <2>1, <2>2
  <2> QED
    BY <1>1, <1>5, <2>3 DEF PlaceOrder
<1>6. ASSUME NEW o \in Orders, OrderStep(o) \/ Crash(o)
      PROVE  TypeOK'
  <2>1. \A q \in Orders : DOMAIN order'[q].cart = DOMAIN order[q].cart
    <3>1. CASE UNCHANGED order
      BY <3>1
    <3>2. CASE ReadProducts(o)
      <4>1. PICK list : order' = [order EXCEPT ![o].rows = list, ![o].cart = Priced(@)]
        BY <3>2 DEF ReadProducts
      <4> QED
        BY <4>1, ReadOrder
    <3> QED
      BY <1>6, <3>1, <3>2
         DEF OrderStep, RejectOrder, CheckBuyer, DebitBuyer, CreditSeller, MarkSold, Commit,
             AbortDeadlocked, Crash, EndTransaction
  <2>2. contested' \subseteq Products /\ relisted' = relisted /\ edit' = edit
    BY <1>6 DEF OrderStep, ReadProducts, RejectOrder, CheckBuyer, DebitBuyer,
                CreditSeller, MarkSold, Commit, AbortDeadlocked, Crash, EndTransaction
  <2>3. /\ walletLock' \in [Users -> Orders \cup {Free}]
        /\ productLock' \in [Products -> Orders \cup {Free}]
    BY SMTT(30), <1>6 DEF OrderStep, ReadProducts, RejectOrder, CheckBuyer, DebitBuyer, UpdateWallet,
                CreditSeller, MarkSold, Commit, AbortDeadlocked, Crash, EndTransaction, Release
  <2> QED
    BY <1>1, <2>1, <2>2, <2>3
<1>7. CASE UNCHANGED vars
  BY <1>1, <1>7 DEF vars
<1> QED
  BY <1>2, <1>3, <1>4, <1>5, <1>6, <1>7 DEF Next

\* Products, orders, locks and edits have their types, for any products, users
\* and number of orders and edits.
THEOREM TypeCorrect == Spec => []TypeOK
<1>1. Init => SaleTypes /\ TypeOK
  BY MarketConstants DEF Init, SaleTypes, TypeOK, Statuses, Steps, NoOrder
<1> QED
  BY <1>1, SaleTypesNext, TypeOKNext, PTL DEF Spec

LEMMA SaleInvNext == SaleTypes /\ SaleInv /\ [Next]_vars => SaleInv'
<1> SUFFICES ASSUME SaleTypes, SaleInv, [Next]_vars
             PROVE  SaleInv'
  OBVIOUS
<1> USE DEF SaleTypes, orderVars
<1>1. ASSUME NEW d \in Changes, WriteProduct(d)
      PROVE  SaleInv'
  <2>1. /\ \A o \in Orders, q \in Products : Holds(o, q)' = Holds(o, q)
        /\ \A q \in Products : SalesOf(q)' = SalesOf(q)
    BY <1>1, WrittenTypes DEF Holds, SalesOf
  <2>2. /\ contested' = contested
        /\ relisted \subseteq relisted'
        /\ \A q \in Products \ relisted' : status[q] = "SOLD" => status'[q] = "SOLD"
    BY <1>1 DEF WriteProduct
  <2> QED
    BY <2>1, <2>2, NoNewHolder
<1>2. ASSUME NEW p \in Products, CreateProduct(p)
      PROVE  SaleInv'
  <2>1. /\ \A o \in Orders, q \in Products : Holds(o, q)' = Holds(o, q)
        /\ \A q \in Products : SalesOf(q)' = SalesOf(q)
    BY <1>2 DEF CreateProduct, Holds, SalesOf
  <2>2. \A q \in Products : status[q] = "SOLD" => status'[q] = "SOLD"
    BY <1>2 DEF CreateProduct
  <2> QED
    BY <1>2, <2>1, <2>2, NoNewHolder DEF CreateProduct
<1>3. ASSUME NEW e \in Edits, NEW d \in Patches, StartEdit(e, d)
      PROVE  SaleInv'
  <2>1. UNCHANGED <<status, step, order, contested, relisted>>
    BY <1>3 DEF StartEdit
  <2> QED
    BY <2>1 DEF SaleInv, Holds, SalesOf
<1>4. ASSUME NEW e \in Edits, FinishEdit(e)
      PROVE  SaleInv'
  <2>1. edit[e] \in Changes
    BY <1>4, MarketConstants DEF FinishEdit
  <2> QED
    BY <1>1, <1>4, <2>1 DEF FinishEdit
<1>5. ASSUME NEW o \in Orders, PlaceOrder(o)
      PROVE  SaleInv'
  <2>1. /\ \A q \in Orders, p \in Products : Holds(q, p)' => Holds(q, p)
        /\ \A p \in Products : SalesOf(p)' = SalesOf(p)
    BY <1>5 DEF PlaceOrder, Holds, SalesOf
  <2> QED
    BY <1>5, <2>1, NoNewHolder DEF PlaceOrder
\* The transaction reads its products: they are ACTIVE, hence unsold, and
\* whoever holds one of them makes it contested.
<1>6. ASSUME NEW o \in Orders, ReadProducts(o)
      PROVE  SaleInv'
  <2>1. PICK list : order' = [order EXCEPT ![o].rows = list, ![o].cart = Priced(@)]
    BY <1>6 DEF ReadProducts
  <2>2. \A q \in Orders : DOMAIN order'[q].cart = DOMAIN order[q].cart
    BY <2>1, ReadOrder
  <2>3. \A p \in Products : SalesOf(p)' = SalesOf(p)
    BY <1>6, <2>2 DEF ReadProducts, SalesOf
  <2>4. \A q \in Orders \ {o}, p \in Products : Holds(q, p)' = Holds(q, p)
    BY <1>6, <2>2 DEF ReadProducts, Holds
  <2>5. \A p \in Products : ~Holds(o, p) /\ (Holds(o, p)' => p \in DOMAIN order[o].cart)
    BY <1>6, <2>2 DEF ReadProducts, Holds
  <2>6. \A p \in DOMAIN order[o].cart : status[p] = "ACTIVE"
    BY <1>6 DEF ReadProducts, Acceptable
  <2>7. \A p \in DOMAIN order[o].cart, q \in Orders \ {o} : Holds(q, p) => p \in contested'
    BY <1>6 DEF ReadProducts
  <2>8. UNCHANGED <<status, relisted>> /\ contested \subseteq contested'
    BY <1>6 DEF ReadProducts
  <2> QED
    BY <2>3, <2>4, <2>5, <2>6, <2>7, <2>8 DEF SaleInv
<1>7. ASSUME NEW o \in Orders,
             \/ RejectOrder(o) \/ CheckBuyer(o) \/ DebitBuyer(o) \/ CreditSeller(o)
             \/ MarkSold(o) \/ AbortDeadlocked(o) \/ Crash(o)
      PROVE  SaleInv'
  <2>1. UNCHANGED <<status, order, contested, relisted>>
    BY <1>7 DEF RejectOrder, CheckBuyer, DebitBuyer, CreditSeller, MarkSold,
                AbortDeadlocked, Crash, EndTransaction
  <2>2. \/ UNCHANGED step
        \/ /\ step[o] \in Open
           /\ \E s \in Steps \ {"paid"} : step' = [step EXCEPT ![o] = s]
        \/ /\ step[o] # "paid"
           /\ \E s \in {"rejected", "aborted"} : step' = [step EXCEPT ![o] = s]
    BY <1>7 DEF RejectOrder, CheckBuyer, DebitBuyer, CreditSeller, MarkSold,
                AbortDeadlocked, Crash, EndTransaction, Advance
  <2>3. /\ \A q \in Orders, p \in Products : Holds(q, p)' => Holds(q, p)
        /\ \A p \in Products : SalesOf(p)' = SalesOf(p)
    BY <2>1, <2>2 DEF Holds, SalesOf
  <2> QED
    BY <2>1, <2>3, NoNewHolder
\* The order that commits held its products alone, so none was sold before.
<1>8. ASSUME NEW o \in Orders, Commit(o)
      PROVE  SaleInv'
  <2>1. UNCHANGED <<order, contested, relisted>> /\ step' = [step EXCEPT ![o] = "paid"]
    BY <1>8 DEF Commit, EndTransaction
  <2>2. \A p \in Products : p \in DOMAIN order[o].cart => Holds(o, p)
    BY <1>8 DEF Commit, Holds
  <2>3. \A q \in Orders, p \in Products : Holds(q, p)' <=> Holds(q, p) /\ q # o
    BY <2>1 DEF Holds
  <2>4. \A p \in Products :
           SalesOf(p)' = IF p \in DOMAIN order[o].cart THEN SalesOf(p) \cup {o} ELSE SalesOf(p)
    BY <1>8, <2>1 DEF Commit, SalesOf
  <2>5. \A p \in Products :
           status'[p] = IF p \in DOMAIN order[o].cart THEN "SOLD" ELSE status[p]
    BY <1>8 DEF Commit
  <2>6. ASSUME NEW p \in Products, p \notin contested \cup relisted
        PROVE  /\ \A q, r \in Orders : Holds(q, p)' /\ Holds(r, p)' => q = r
               /\ \A q, r \in SalesOf(p)' : q = r
               /\ SalesOf(p)' # {} => /\ status'[p] = "SOLD"
                                     /\ \A q \in Orders : ~Holds(q, p)'
    <3>1. /\ \A q, r \in Orders : Holds(q, p) /\ Holds(r, p) => q = r
          /\ \A q, r \in SalesOf(p) : q = r
          /\ SalesOf(p) # {} => status[p] = "SOLD" /\ \A q \in Orders : ~Holds(q, p)
      BY <2>6 DEF SaleInv
    <3>2. CASE p \in DOMAIN order[o].cart
      <4>1. SalesOf(p) = {}
        BY <2>2, <3>1, <3>2
      <4> QED
        BY <2>2, <2>3, <2>4, <2>5, <3>1, <3>2, <4>1
    <3>3. CASE p \notin DOMAIN order[o].cart
      BY <2>3, <2>4, <2>5, <3>1, <3>3
    <3> QED
      BY <3>2, <3>3
  <2> QED
    BY <2>1, <2>6 DEF SaleInv
<1>9. CASE UNCHANGED vars
  BY <1>9 DEF vars, SaleInv, Holds, SalesOf
<1>10. ASSUME NEW p \in Products, RemoveProduct(p)
       PROVE  SaleInv'
  BY <1>1, <1>10, Removals DEF RemoveProduct
<1> QED
  BY <1>2, <1>3, <1>4, <1>5, <1>6, <1>7, <1>8, <1>9, <1>10 DEF Next, OrderStep

\* A product nobody contested and whose SOLD status nobody overwrote has one
\* buyer at most.
THEOREM SoldOnceUnlessContested == Spec => []OneSaleUnlessContested
<1>1. Init => SaleTypes /\ SaleInv
  BY MarketConstants DEF Init, SaleTypes, SaleInv, Holds, SalesOf
<1>2. SaleInv => OneSaleUnlessContested
  BY DEF SaleInv, OneSaleUnlessContested
<1> QED
  BY <1>1, <1>2, SaleTypesNext, SaleInvNext, PTL DEF Spec

-----------------------------------------------------------------------------
(* Rounding *)

\* A seller never gets more than the buyer paid for the item, whatever the
\* rounding, and shipping is never negative.
THEOREM CutWithinSubtotal ==
    ASSUME NEW n \in Nat
    PROVE  SellerCut(n) \in Nat /\ SellerCut(n) <= n /\ Shipping(n) \in Nat
  BY DEF SellerCut, Shipping

-----------------------------------------------------------------------------
(* Statements: what transactions add to the wallets *)

\* Carts before and after the prices were read.
AnyCart == UNION {[S -> [qty : Qtys, price : Nat]] : S \in (SUBSET Products) \ {{}}}

Cuts(c) == [p \in DOMAIN c |-> SellerCut(Subtotal(c, p))]
Booking == {"crediting", "marking", "committing"}

\* The products whose sellers a transaction has credited.
Credited(o) ==
    IF step[o] = "crediting" THEN {order[o].rows[i] : i \in 1..(next[o] - 1)}
    ELSE DOMAIN order[o].cart

\* An order goes through its rows one by one.
OrderFact(o) ==
    /\ order[o] = [buyer |-> order[o].buyer, cart |-> order[o].cart,
                   seen |-> order[o].seen, rows |-> order[o].rows]
    /\ step[o] # "new" => order[o].buyer \in Users /\ order[o].cart \in AnyCart
    /\ step[o] \in Open => order[o].rows \in SetToSeqs(DOMAIN order[o].cart)
    /\ step[o] \in {"new", "reading", "checking", "debiting"} => next[o] = 1
    /\ step[o] \in {"crediting", "marking"} => next[o] \in 1..Len(order[o].rows)

\* What its transaction will add to the wallets is its bill and the cuts so far.
PendingFact(o) ==
    /\ pending[o] \in [Users -> Int]
    /\ step[o] \notin Booking => pending[o] = NoPending
    /\ step[o] \in Booking =>
          /\ \A u \in Users : pending[o][u] =
                SumOver(Cuts(order[o].cart), {p \in Credited(o) : Seller[p] = u})
                - (IF order[o].buyer = u THEN Grand(order[o].cart) ELSE 0)
          /\ SumOver(pending[o], Users) =
                SumOver(Cuts(order[o].cart), Credited(o)) - Grand(order[o].cart)

OrdersInv ==
    /\ DOMAIN order = Orders /\ DOMAIN step = Orders /\ DOMAIN next = Orders /\ DOMAIN pending = Orders
    /\ \A o \in Orders : OrderFact(o) /\ PendingFact(o)

Bills == [o \in Orders |-> Grand(order[o].cart)]
EarnedIn(u, o) == SumOver(Cuts(order[o].cart), SoldBy(u, o))
Earnings(u) == [o \in Orders |-> EarnedIn(u, o)]

\* StatementsAddUp, in sums the lemmas are about.
Books ==
    /\ balance \in [Users -> Int]
    /\ \A u \in Users :
          balance[u] = InitialBalance[u] - SumOver(Bills, Paid(u)) + SumOver(Earnings(u), Orders)
    /\ SumOver(balance, Users) <= SumOver(InitialBalance, Users)

BooksInv == OrdersInv /\ Books

\* Total is the sum of the subtotals.
LEMMA TotalSums ==
    ASSUME NEW c, IsFiniteSet(DOMAIN c)
    PROVE  Total(c) = SumOver([p \in DOMAIN c |-> Subtotal(c, p)], DOMAIN c)
  <1> DEFINE S == DOMAIN c
             g == [p \in S |-> Subtotal(c, p)]
             Is(t) == t = [s \in SUBSET S |-> IF s = {} THEN 0
                              ELSE Subtotal(c, AnyOf(s)) + t[s \ {AnyOf(s)}]]
  <1>1. Total(c) = (CHOOSE t : Is(t))[S]
    BY DEF Total, MapThenSumSet, MapThenFoldSet, AnyOf
  <1>2. \A t : Is(t) <=> IsSumTable(t, g, SUBSET S)
    <2>1. \A s \in SUBSET S : s # {} => g[AnyOf(s)] = Subtotal(c, AnyOf(s))
      BY AnyOfIsIn
    <2> QED
      BY <2>1 DEF IsSumTable
  <1>3. Is(CHOOSE t : Is(t))
    <2>1. \E t : Is(t)
      BY <1>2, SumTableExists
    <2> HIDE DEF Is
    <2> QED
      BY <2>1
  <1> HIDE DEF Is, g
  <1> QED
    BY <1>1, <1>2, <1>3, SumTableUnique DEF g

\* Carts are priced with the prices of the products.
LEMMA PricedCarts ==
    /\ Carts \subseteq AnyCart
    /\ SaleTypes => \A c \in AnyCart : Priced(c) \in AnyCart /\ DOMAIN Priced(c) = DOMAIN c
  <1>1. ASSUME NEW c \in Carts PROVE c \in AnyCart
    <2>1. PICK S \in (SUBSET Products) \ {{}} : c \in [S -> [qty : Qtys, price : {0}]]
      BY DEF Carts
    <2>2. c \in [S -> [qty : Qtys, price : Nat]]
      BY <2>1
    <2> QED
      BY <2>2 DEF AnyCart
  <1>2. ASSUME SaleTypes, NEW c \in AnyCart
        PROVE  Priced(c) \in AnyCart /\ DOMAIN Priced(c) = DOMAIN c
    <2>1. PICK S \in (SUBSET Products) \ {{}} : c \in [S -> [qty : Qtys, price : Nat]]
      BY DEF AnyCart
    <2>2. \A p \in S : price[p] \in Nat
      BY <1>2 DEF SaleTypes
    <2>3. Priced(c) \in [S -> [qty : Qtys, price : Nat]]
      BY <2>1, <2>2 DEF Priced
    <2> QED
      BY <2>1, <2>3 DEF AnyCart
  <1> QED
    BY <1>1, <1>2

\* The sellers of a cart get no more than its buyer pays.
LEMMA CartAddsUp ==
    ASSUME NEW c \in AnyCart
    PROVE  /\ DOMAIN c \subseteq Products /\ DOMAIN c # {} /\ IsFiniteSet(DOMAIN c)
           /\ \A p \in DOMAIN c : Cuts(c)[p] \in Nat
           /\ Grand(c) \in Nat
           /\ SumOver(Cuts(c), DOMAIN c) <= Grand(c)
  <1>1. /\ DOMAIN c \subseteq Products /\ DOMAIN c # {}
        /\ \A p \in DOMAIN c : c[p].qty \in Nat \ {0} /\ c[p].price \in Nat
    <2>1. PICK S \in (SUBSET Products) \ {{}} : c \in [S -> [qty : Qtys, price : Nat]]
      BY DEF AnyCart
    <2> QED
      BY <2>1, MarketConstants
  <1>2. IsFiniteSet(DOMAIN c)
    BY <1>1, MarketConstants, FS_Subset
  <1> DEFINE g == [p \in DOMAIN c |-> Subtotal(c, p)]
  <1>3. \A p \in DOMAIN c : Subtotal(c, p) \in Nat
    BY <1>1, MarketConstants DEF Subtotal
  <1>4. \A p \in DOMAIN c : Cuts(c)[p] \in Nat /\ Cuts(c)[p] <= g[p] /\ g[p] \in Nat
    <2> SUFFICES ASSUME NEW p \in DOMAIN c
                 PROVE  Cuts(c)[p] \in Nat /\ Cuts(c)[p] <= g[p] /\ g[p] \in Nat
      OBVIOUS
    <2>1. g[p] = Subtotal(c, p) /\ Cuts(c)[p] = SellerCut(Subtotal(c, p))
      BY DEF Cuts
    <2> HIDE DEF g
    <2> QED
      BY <1>3, <2>1, CutWithinSubtotal
  <1>5. Total(c) = SumOver(g, DOMAIN c)
    BY <1>2, TotalSums
  <1>6. SumOver(g, DOMAIN c) \in Nat /\ SumOver(Cuts(c), DOMAIN c) <= SumOver(g, DOMAIN c)
    <2> HIDE DEF g
    <2>1. \A p \in DOMAIN c : Cuts(c)[p] \in Int /\ g[p] \in Int
      BY <1>4
    <2> QED
      BY <1>2, <1>4, <2>1, SumIsNat, SumAtMost
  <1>7. SumOver(Cuts(c), DOMAIN c) \in Int
    BY <1>2, <1>4, SumIsNat
  <1>8. Shipping(Total(c)) \in Nat
    BY <1>5, <1>6, CutWithinSubtotal
  <1>9. Grand(c) \in Nat /\ SumOver(Cuts(c), DOMAIN c) <= Grand(c)
    BY <1>5, <1>6, <1>7, <1>8 DEF Grand
  <1> QED
    BY <1>1, <1>2, <1>4, <1>9

\* The rows of an order are the products of its cart, each once.
LEMMA RowsAreTheCart ==
    ASSUME NEW c \in AnyCart, NEW list \in SetToSeqs(DOMAIN c)
    PROVE  /\ Len(list) \in Nat \ {0} /\ DOMAIN list = 1..Len(list)
           /\ \A i, j \in 1..Len(list) : i # j => list[i] # list[j]
           /\ {list[i] : i \in 1..Len(list)} = DOMAIN c
  <1> DEFINE n == Cardinality(DOMAIN c)
  <1>1. IsFiniteSet(DOMAIN c) /\ DOMAIN c # {}
    BY CartAddsUp
  <1>2. n \in Nat \ {0}
    BY <1>1, FS_CardinalityType, FS_EmptySet
  <1>3. list \in [1..n -> DOMAIN c] /\ \A i, j \in 1..n : i # j => list[i] # list[j]
    BY DEF SetToSeqs
  <1>4. Len(list) = n
    BY <1>2, <1>3
  <1>5. {list[i] : i \in 1..n} = DOMAIN c
    <2>1. list \in Injection(1..n, DOMAIN c)
      BY <1>3 DEF Injection, IsInjective
    <2>2. IsFiniteSet(1..n) /\ Cardinality(1..n) = n
      BY <1>2, FS_Interval
    <2>3. list \in Surjection(1..n, DOMAIN c)
      BY <1>1, <2>1, <2>2, FS_Injection
    <2>4. \A p \in DOMAIN c : \E i \in 1..n : list[i] = p
      BY <2>3 DEF Surjection
    <2> QED
      BY <1>3, <2>4
  <1> QED
    BY <1>2, <1>3, <1>4, <1>5


-----------------------------------------------------------------------------

\* An order that a step leaves alone, and one that goes on with its rows and
\* its pending changes as they are.
LEMMA OrderStays ==
    ASSUME NEW o \in Orders, OrderFact(o), PendingFact(o),
           order'[o] = order[o], step'[o] = step[o], next'[o] = next[o], pending'[o] = pending[o]
    PROVE  OrderFact(o)' /\ PendingFact(o)'
  <1>1. OrderFact(o)'
    BY DEF OrderFact
  <1>2. Credited(o)' = Credited(o)
    BY DEF Credited
  <1>3. PendingFact(o)'
    BY <1>2 DEF PendingFact
  <1> QED
    BY <1>1, <1>3

\* A step of order o, seen from the others.
OnlyOrder(o) ==
    /\ DOMAIN order' = Orders /\ DOMAIN step' = Orders /\ DOMAIN next' = Orders
    /\ DOMAIN pending' = Orders
    /\ \A q \in Orders \ {o} : /\ order'[q] = order[q] /\ step'[q] = step[q]
                               /\ next'[q] = next[q] /\ pending'[q] = pending[q]

LEMMA OneOrderMoves ==
    ASSUME OrdersInv, NEW o \in Orders, OnlyOrder(o), OrderFact(o)', PendingFact(o)'
    PROVE  OrdersInv'
  BY OrderStays DEF OrdersInv, OnlyOrder

\* Steps that pay for nothing leave the books as they are.
PaysNothing ==
    \A o \in Orders : \/ step'[o] = step[o] /\ order'[o] = order[o]
                      \/ step'[o] # "paid" /\ step[o] # "paid"

LEMMA BooksStay ==
    ASSUME Books, balance' = balance, PaysNothing
    PROVE  Books'
  <1>1. ASSUME NEW u \in Users
        PROVE  /\ SumOver(Bills, Paid(u))' = SumOver(Bills, Paid(u))
               /\ SumOver(Earnings(u), Orders)' = SumOver(Earnings(u), Orders)
    <2>1. Paid(u)' = Paid(u) /\ Paid(u) \subseteq Orders /\ IsFiniteSet(Paid(u))
      BY MarketConstants, FS_Subset DEF Paid, PaysNothing
    <2>2. \A o \in Paid(u) : Bills'[o] = Bills[o]
      BY DEF Bills, Paid, PaysNothing
    <2>3. SumOver(Bills', Paid(u)) = SumOver(Bills, Paid(u))
      BY <2>1, <2>2, SameSum
    <2>4. ASSUME NEW o \in Orders PROVE EarnedIn(u, o)' = EarnedIn(u, o)
      <3>0. \/ step'[o] = step[o] /\ order'[o] = order[o]
            \/ step'[o] # "paid" /\ step[o] # "paid"
        BY DEF PaysNothing
      <3>1. CASE step'[o] = step[o] /\ order'[o] = order[o]
        BY <3>1 DEF EarnedIn, SoldBy
      <3>2. CASE step'[o] # "paid" /\ step[o] # "paid"
        <4>1. SoldBy(u, o)' = {} /\ SoldBy(u, o) = {}
          BY <3>2 DEF SoldBy
        <4> QED
          BY <4>1, SumOfNone DEF EarnedIn
      <3> QED
        BY <3>0, <3>1, <3>2
    <2>5. Earnings(u)' = Earnings(u)
      BY <2>4 DEF Earnings
    <2> QED
      BY <2>1, <2>3, <2>5
  <1> QED
    BY <1>1 DEF Books

\* The transaction ends without effect, or has not begun: nothing is pending.
LEMMA NothingPending ==
    ASSUME NEW o \in Orders, pending'[o] = NoPending, step'[o] \notin Booking
    PROVE  PendingFact(o)'
  <1>1. NoPending \in [Users -> Int] /\ NoPending' = NoPending
    BY DEF NoPending
  <1> QED
    BY <1>1 DEF PendingFact

LEMMA PlaceOrderBooks ==
    ASSUME BooksInv, NEW o \in Orders, PlaceOrder(o)
    PROVE  BooksInv'
  <1>1. PICK u \in Users, c \in Carts :
            order' = [order EXCEPT ![o] = [buyer |-> u, cart |-> c, seen |-> balance[u], rows |-> <<>>]]
    BY DEF PlaceOrder
  <1>2. OrderFact(o)'
    BY <1>1, PricedCarts DEF PlaceOrder, OrderFact, BooksInv, OrdersInv, Open
  <1>3. PendingFact(o)'
    BY NothingPending DEF PlaceOrder, PendingFact, BooksInv, OrdersInv, Booking
  <1>4. OnlyOrder(o)
    BY <1>1 DEF PlaceOrder, OnlyOrder, BooksInv, OrdersInv
  <1>5. PaysNothing /\ balance' = balance
    BY <1>1 DEF PlaceOrder, BooksInv, OrdersInv, PaysNothing
  <1> QED
    BY <1>2, <1>3, <1>4, <1>5, OneOrderMoves, BooksStay DEF BooksInv

LEMMA ReadBooks ==
    ASSUME SaleTypes, BooksInv, NEW o \in Orders,
           ReadProducts(o) \/ RejectOrder(o) \/ CheckBuyer(o)
    PROVE  BooksInv'
  <1>0. OrderFact(o) /\ PendingFact(o) /\ DOMAIN order = Orders /\ DOMAIN step = Orders
        /\ DOMAIN next = Orders /\ DOMAIN pending = Orders
    BY DEF BooksInv, OrdersInv
  <1>1. /\ step[o] \in {"reading", "checking"}
        /\ step' = [step EXCEPT ![o] = step'[o]]
        /\ step'[o] \in {"checking", "rejected", "debiting"}
        /\ UNCHANGED <<balance, next, pending>>
    BY <1>0 DEF ReadProducts, RejectOrder, CheckBuyer
  <1>2. \/ order' = order /\ (step[o] = "reading" => step'[o] = "rejected")
        \/ /\ step[o] = "reading"
           /\ \E list \in SetToSeqs(DOMAIN order[o].cart) :
                 order' = [order EXCEPT ![o].rows = list, ![o].cart = Priced(@)]
    BY <1>0 DEF ReadProducts, RejectOrder, CheckBuyer
  <1>3. OrderFact(o)'
    <2>1. CASE order' = order /\ (step[o] = "reading" => step'[o] = "rejected")
      BY <1>0, <1>1, <2>1 DEF OrderFact, Open
    <2>2. ASSUME NEW list \in SetToSeqs(DOMAIN order[o].cart), step[o] = "reading",
                 order' = [order EXCEPT ![o].rows = list, ![o].cart = Priced(@)]
          PROVE  OrderFact(o)'
      <3>1. order'[o] = [buyer |-> order[o].buyer, cart |-> Priced(order[o].cart),
                         seen |-> order[o].seen, rows |-> list]
        BY <1>0, <2>2, ReadOrder DEF OrderFact
      <3>2. step'[o] \in {"checking", "rejected", "debiting"} /\ next'[o] = 1
            /\ order[o].buyer \in Users /\ order[o].cart \in AnyCart
        BY <1>0, <1>1, <2>2 DEF OrderFact
      <3>3. Priced(order[o].cart) \in AnyCart
            /\ DOMAIN Priced(order[o].cart) = DOMAIN order[o].cart
        BY <3>2, PricedCarts
      <3> QED
        <4>1. PICK c : c = Priced(order[o].cart)
          OBVIOUS
        <4>2. /\ order'[o].cart = c /\ order'[o].rows = list /\ order'[o].buyer = order[o].buyer
              /\ order'[o].seen = order[o].seen
          BY <3>1, <4>1
        <4>3. c \in AnyCart /\ list \in SetToSeqs(DOMAIN c)
          BY <2>2, <3>3, <4>1
        <4>4. order'[o] = [buyer |-> order'[o].buyer, cart |-> order'[o].cart,
                           seen |-> order'[o].seen, rows |-> order'[o].rows]
          BY <3>1, <4>1, <4>2
        <4> QED
          BY <3>2, <4>2, <4>3, <4>4 DEF OrderFact
    <2> QED
      BY <1>2, <2>1, <2>2
  <1>4. PendingFact(o)'
    BY <1>0, <1>1, NothingPending DEF PendingFact, Booking
  <1>5. OnlyOrder(o)
    BY <1>0, <1>1, <1>2, ReadOrder DEF OnlyOrder
  <1>6. Books'
    <2>1. PaysNothing
      BY <1>1, <1>5 DEF OnlyOrder, PaysNothing
    <2> QED
      BY <1>1, <2>1, BooksStay DEF BooksInv
  <1> QED
    BY <1>3, <1>4, <1>5, <1>6, OneOrderMoves DEF BooksInv

LEMMA DebitBooks ==
    ASSUME BooksInv, NEW o \in Orders, DebitBuyer(o)
    PROVE  BooksInv'
  <1>0. OrderFact(o) /\ PendingFact(o) /\ DOMAIN order = Orders /\ DOMAIN step = Orders
        /\ DOMAIN next = Orders /\ DOMAIN pending = Orders
    BY DEF BooksInv, OrdersInv
  <1> DEFINE c == order[o].cart
             b == order[o].buyer
  <1>1. /\ c \in AnyCart /\ b \in Users /\ next[o] = 1 /\ order[o].rows \in SetToSeqs(DOMAIN c)
        /\ step[o] = "debiting" /\ pending[o] = NoPending
    BY <1>0 DEF DebitBuyer, OrderFact, PendingFact, Open, Booking
  <1>2. /\ UNCHANGED <<balance, order, next>>
        /\ step' = [step EXCEPT ![o] = "crediting"]
        /\ pending' = [pending EXCEPT ![o][b] = @ + (-Grand(c))]
    BY DEF DebitBuyer, UpdateWallet
  <1>3. Grand(c) \in Nat
    BY <1>1, CartAddsUp
  <1>4. pending'[o] = [u \in Users |-> IF u = b THEN -Grand(c) ELSE 0]
    BY <1>0, <1>1, <1>2, <1>3 DEF NoPending
  <1>5. Credited(o)' = {}
    BY <1>0, <1>1, <1>2 DEF Credited
  <1>6. OrderFact(o)'
    <2>1. Len(order[o].rows) \in Nat \ {0}
      BY <1>1, RowsAreTheCart
    <2> QED
      BY <1>0, <1>1, <1>2, <2>1 DEF OrderFact, Open
  <1>7. SumOver(pending'[o], Users) = -Grand(c)
    <2>1. SumOver(NoPending, Users) = 0
      BY MarketConstants, SumOfNothing DEF NoPending
    <2>2. SumOver(pending'[o], Users) = SumOver(NoPending, Users) + (pending'[o][b] - NoPending[b])
      <3>1. \A u \in Users : NoPending[u] \in Int /\ pending'[o][u] \in Int
        BY <1>3, <1>4 DEF NoPending
      <3>2. \A u \in Users \ {b} : pending'[o][u] = NoPending[u]
        BY <1>4 DEF NoPending
      <3>3. PICK h : h = pending'[o]
        OBVIOUS
      <3> QED
        BY <1>1, <3>1, <3>2, <3>3, MarketConstants, SumChanges
    <2> QED
      BY <1>1, <1>3, <1>4, <2>1, <2>2 DEF NoPending
  <1>8. PendingFact(o)'
    <2>1. SumOver(Cuts(c), {}) = 0
      BY SumOfNone
    <2>2. /\ \A u \in Users : {p \in Credited(o)' : Seller[p] = u} = {}
          /\ Cuts(order'[o].cart) = Cuts(c) /\ Grand(order'[o].cart) = Grand(c) /\ order'[o].buyer = b
      BY <1>2, <1>5
    <2>3. \A u \in Users : pending'[o][u] = 0 - (IF b = u THEN Grand(c) ELSE 0)
      BY <1>3, <1>4
    <2>4. pending'[o] \in [Users -> Int] /\ step'[o] = "crediting"
      <3>1. \A u \in Users : (IF u = b THEN -Grand(c) ELSE 0) \in Int
        BY <1>3
      <3> QED
        BY <1>0, <1>2, <1>4, <3>1
    <2> QED
      BY <1>3, <1>5, <1>7, <2>1, <2>2, <2>3, <2>4 DEF PendingFact, Booking
  <1>9. OnlyOrder(o)
    BY <1>0, <1>2 DEF OnlyOrder
  <1>10. Books'
    <2>1. PaysNothing
      BY <1>0, <1>1, <1>2 DEF PaysNothing
    <2> QED
      BY <1>2, <2>1, BooksStay DEF BooksInv
  <1> QED
    BY <1>6, <1>8, <1>9, <1>10, OneOrderMoves DEF BooksInv

LEMMA CreditBooks ==
    ASSUME BooksInv, NEW o \in Orders, CreditSeller(o)
    PROVE  BooksInv'
  <1>0. OrderFact(o) /\ PendingFact(o) /\ DOMAIN order = Orders /\ DOMAIN step = Orders
        /\ DOMAIN next = Orders /\ DOMAIN pending = Orders
    BY DEF BooksInv, OrdersInv
  <1>1. PICK c, list, i : c = order[o].cart /\ list = order[o].rows /\ i = next[o]
    OBVIOUS
  <1> DEFINE n == Len(list)
             p == list[i]
             before == {list[j] : j \in 1..(i - 1)}
             after == {list[j] : j \in 1..i}
             amount == Cuts(c)[p]
  <1>2. /\ c \in AnyCart /\ order[o].buyer \in Users /\ list \in SetToSeqs(DOMAIN c) /\ i \in 1..n
        /\ step[o] = "crediting" /\ Credited(o) = before
    BY <1>0, <1>1 DEF CreditSeller, OrderFact, Open, Credited
  <1>3. /\ n \in Nat \ {0} /\ {list[j] : j \in 1..n} = DOMAIN c
        /\ \A j, k \in 1..n : j # k => list[j] # list[k]
    BY <1>2, RowsAreTheCart
  <1>4. /\ p \in DOMAIN c /\ p \notin before /\ after = before \cup {p} /\ after \subseteq DOMAIN c
        /\ IsFiniteSet(before)
    <2>1. \A j \in 1..i : j \in 1..n
      BY <1>2, <1>3
    <2>2. 1..i = (1..(i - 1)) \cup {i}
      BY <1>2, <1>3
    <2>3. before \subseteq DOMAIN c /\ after \subseteq DOMAIN c /\ p \in DOMAIN c /\ after = before \cup {p}
      BY <1>2, <1>3, <2>1, <2>2
    <2>4. p \notin before
      BY <1>2, <1>3, <2>1, <2>2
    <2> HIDE DEF before, after, p
    <2> QED
      BY <1>2, <2>3, <2>4, CartAddsUp, FS_Subset
  <1>5. \A q \in DOMAIN c : Cuts(c)[q] \in Nat
    BY <1>2, CartAddsUp
  <1>6. amount \in Nat /\ Seller[p] \in Users
    BY <1>2, <1>4, <1>5, CartAddsUp, MarketConstants
  <1>7. /\ UNCHANGED <<balance, order>>
        /\ pending' = [pending EXCEPT ![o][Seller[p]] = @ + amount]
        /\ \/ i < n /\ next' = [next EXCEPT ![o] = i + 1] /\ UNCHANGED step
           \/ i = n /\ next' = [next EXCEPT ![o] = 1] /\ step' = [step EXCEPT ![o] = "marking"]
    <2>1. amount = SellerCut(Subtotal(c, p))
      BY <1>4 DEF Cuts
    <2> QED
      BY <1>0, <1>1, <1>2, <1>3, <2>1 DEF CreditSeller, UpdateWallet, Advance
  <1>8. OrderFact(o)' /\ order'[o].cart = c /\ order'[o].buyer = order[o].buyer
    BY <1>0, <1>1, <1>2, <1>3, <1>7 DEF OrderFact, Open
  <1>9. Credited(o)' = after /\ step'[o] \in Booking
    <2>1. CASE i < n
      <3>1. next'[o] - 1 = i /\ step'[o] = "crediting"
        BY <1>0, <1>2, <1>3, <1>7, <2>1
      <3> QED
        BY <1>1, <1>7, <3>1 DEF Credited, Booking
    <2>2. CASE i = n
      BY <1>0, <1>1, <1>3, <1>7, <1>8, <2>2 DEF Credited, Booking
    <2> QED
      BY <1>2, <1>3, <2>1, <2>2
  <1>10. /\ pending[o] \in [Users -> Int] /\ pending'[o] \in [Users -> Int]
         /\ \A u \in Users : pending'[o][u] = IF u = Seller[p] THEN pending[o][u] + amount ELSE pending[o][u]
    BY <1>0, <1>6, <1>7 DEF PendingFact
  <1>11. SumOver(pending'[o], Users) = SumOver(Cuts(c), after) - Grand(c)
    <2>1. PICK g, h : g = pending[o] /\ h = pending'[o]
      OBVIOUS
    <2>2. SumOver(h, Users) = SumOver(g, Users) + (h[Seller[p]] - g[Seller[p]])
      BY <1>6, <1>10, <2>1, MarketConstants, SumChanges
    <2>3. SumOver(g, Users) = SumOver(Cuts(c), before) - Grand(c)
      BY <1>0, <1>1, <1>2, <2>1 DEF PendingFact, Booking
    <2>4. SumOver(Cuts(c), after) = SumOver(Cuts(c), before) + amount
      <3>1. \A q \in before \cup {p} : Cuts(c)[q] \in Int
        BY <1>4, <1>5
      <3> HIDE DEF before, after, p
      <3> QED
        BY <1>4, <3>1, SumWith
    <2>5. SumOver(Cuts(c), before) \in Int
      <3>1. \A q \in before : Cuts(c)[q] \in Int
        BY <1>4, <1>5
      <3> HIDE DEF before, after, p
      <3> QED
        BY <1>4, <3>1, SumIsInt
    <2>6. Grand(c) \in Nat
      BY <1>2, CartAddsUp
    <2>7. h[Seller[p]] - g[Seller[p]] = amount
      <3>1. g[Seller[p]] \in Int /\ h[Seller[p]] = g[Seller[p]] + amount
        BY <1>6, <1>10, <2>1
      <3> HIDE DEF amount
      <3> QED
        BY <1>6, <3>1
    <2> HIDE DEF amount, before, after, p
    <2> QED
      BY <1>6, <2>1, <2>2, <2>3, <2>4, <2>5, <2>6, <2>7
  <1>12. ASSUME NEW u \in Users
         PROVE  pending'[o][u] = SumOver(Cuts(c), {q \in after : Seller[q] = u})
                                 - (IF order[o].buyer = u THEN Grand(c) ELSE 0)
    <2> DEFINE old == {q \in before : Seller[q] = u}
               new == {q \in after : Seller[q] = u}
    <2>1. pending[o][u] = SumOver(Cuts(c), old) - (IF order[o].buyer = u THEN Grand(c) ELSE 0)
      BY <1>0, <1>1, <1>2 DEF PendingFact, Booking
    <2>2. CASE u # Seller[p]
      <3>1. new = old
        BY <1>4, <2>2
      <3> QED
        BY <1>10, <2>1, <2>2, <3>1
    <2>3. CASE u = Seller[p]
      <3>1. new = old \cup {p} /\ p \notin old /\ old \subseteq before
        <4> HIDE DEF before, after, p
        <4> QED
          BY <1>4, <2>3
      <3>2. IsFiniteSet(old)
        <4> HIDE DEF before, old
        <4> QED
          BY <1>4, <3>1, FS_Subset
      <3>3. \A q \in old \cup {p} : Cuts(c)[q] \in Int
        <4>1. old \subseteq DOMAIN c
          <5> HIDE DEF before, after, old
          <5> QED
            BY <1>4, <3>1
        <4> HIDE DEF old, p
        <4> QED
          BY <1>4, <1>5, <4>1
      <3>4. SumOver(Cuts(c), new) = SumOver(Cuts(c), old) + amount /\ SumOver(Cuts(c), old) \in Int
        <4> HIDE DEF old, new, p
        <4> QED
          BY <3>1, <3>2, <3>3, SumWith, SumIsInt
      <3>5. pending'[o][u] = pending[o][u] + amount
        BY <1>10, <2>3
      <3>6. (IF order[o].buyer = u THEN Grand(c) ELSE 0) \in Int
        BY <1>2, CartAddsUp
      <3>7. \A k, m, bill \in Int : (k - bill) + m = (k + m) - bill
        OBVIOUS
      <3>8. pending'[o][u] = SumOver(Cuts(c), new) - (IF order[o].buyer = u THEN Grand(c) ELSE 0)
        <4> HIDE DEF old, new, amount
        <4> QED
          BY <1>6, <2>1, <3>4, <3>5, <3>6, <3>7
      <3> QED
        BY <3>8
    <2> QED
      BY <2>2, <2>3
  <1>13. PendingFact(o)'
    <2> HIDE DEF after
    <2> QED
      BY <1>8, <1>9, <1>10, <1>11, <1>12 DEF PendingFact
  <1>14. OnlyOrder(o)
    BY <1>0, <1>7 DEF OnlyOrder
  <1>15. PaysNothing
    BY <1>0, <1>2, <1>7 DEF PaysNothing
  <1> QED
    BY <1>7, <1>8, <1>13, <1>14, <1>15, OneOrderMoves, BooksStay DEF BooksInv

LEMMA MarkBooks ==
    ASSUME BooksInv, NEW o \in Orders, MarkSold(o)
    PROVE  BooksInv'
  <1>0. OrderFact(o) /\ PendingFact(o) /\ DOMAIN order = Orders /\ DOMAIN step = Orders
        /\ DOMAIN next = Orders /\ DOMAIN pending = Orders
    BY DEF BooksInv, OrdersInv
  <1>1. /\ UNCHANGED <<balance, order, pending>> /\ step[o] = "marking"
        /\ \/ /\ next[o] < Len(order[o].rows)
              /\ next' = [next EXCEPT ![o] = @ + 1] /\ UNCHANGED step
           \/ next' = [next EXCEPT ![o] = 1] /\ step' = [step EXCEPT ![o] = "committing"]
    BY DEF MarkSold, Advance
  <1>2. order[o].cart \in AnyCart /\ order[o].rows \in SetToSeqs(DOMAIN order[o].cart)
    BY <1>0, <1>1 DEF OrderFact, Open
  <1>3. Len(order[o].rows) \in Nat
    BY <1>2, RowsAreTheCart
  <1>4. OrderFact(o)'
    BY <1>0, <1>1, <1>3 DEF OrderFact, Open
  <1>5. Credited(o)' = Credited(o) /\ step[o] \in Booking /\ step'[o] \in Booking
    BY <1>0, <1>1 DEF Credited, Booking
  <1>6. PendingFact(o)'
    BY <1>0, <1>1, <1>5 DEF PendingFact
  <1>7. OnlyOrder(o)
    BY <1>0, <1>1 DEF OnlyOrder
  <1>8. PaysNothing
    BY <1>0, <1>1 DEF PaysNothing
  <1> QED
    BY <1>1, <1>4, <1>6, <1>7, <1>8, OneOrderMoves, BooksStay DEF BooksInv

LEMMA AbortBooks ==
    ASSUME BooksInv, NEW o \in Orders, AbortDeadlocked(o) \/ Crash(o)
    PROVE  BooksInv'
  <1>0. OrderFact(o) /\ PendingFact(o) /\ DOMAIN order = Orders /\ DOMAIN step = Orders
        /\ DOMAIN next = Orders /\ DOMAIN pending = Orders
    BY DEF BooksInv, OrdersInv
  <1>1. /\ UNCHANGED <<balance, order, next>>
        /\ step[o] \in Open \cup {"reading"} /\ step' = [step EXCEPT ![o] = "aborted"]
        /\ pending' = [pending EXCEPT ![o] = NoPending]
    BY DEF AbortDeadlocked, Crash, EndTransaction
  <1>2. OrderFact(o)'
    BY <1>0, <1>1 DEF OrderFact, Open
  <1>3. PendingFact(o)'
    BY <1>0, <1>1, NothingPending DEF Booking
  <1>4. OnlyOrder(o)
    BY <1>0, <1>1 DEF OnlyOrder
  <1>5. PaysNothing
    BY <1>0, <1>1 DEF PaysNothing, Open
  <1> QED
    BY <1>1, <1>2, <1>3, <1>4, <1>5, OneOrderMoves, BooksStay DEF BooksInv

\* Once it commits, the wallets hold what the statements say.
LEMMA CommitBooks ==
    ASSUME BooksInv, NEW o \in Orders, Commit(o)
    PROVE  BooksInv'
  <1>0. OrderFact(o) /\ PendingFact(o) /\ DOMAIN order = Orders /\ DOMAIN step = Orders
        /\ DOMAIN next = Orders /\ DOMAIN pending = Orders
    BY DEF BooksInv, OrdersInv
  <1>1. PICK c, b, add : c = order[o].cart /\ b = order[o].buyer /\ add = pending[o]
    OBVIOUS
  <1>2. /\ UNCHANGED <<order, next>> /\ step[o] = "committing"
        /\ step' = [step EXCEPT ![o] = "paid"]
        /\ pending' = [pending EXCEPT ![o] = NoPending]
        /\ balance' = [u \in Users |-> balance[u] + add[u]]
    BY <1>1 DEF Commit, EndTransaction
  <1>3. /\ c \in AnyCart /\ b \in Users /\ add \in [Users -> Int]
        /\ \A u \in Users : add[u] = SumOver(Cuts(c), {p \in DOMAIN c : Seller[p] = u})
                                    - (IF b = u THEN Grand(c) ELSE 0)
        /\ SumOver(add, Users) = SumOver(Cuts(c), DOMAIN c) - Grand(c)
    <2>1. step[o] \in Open /\ step[o] \in Booking /\ step[o] # "new" /\ Credited(o) = DOMAIN c
      BY <1>1, <1>2 DEF Open, Booking, Credited
    <2> QED
      BY <1>0, <1>1, <2>1 DEF OrderFact, PendingFact
  <1>4. OrdersInv'
    <2>1. OrderFact(o)'
      BY <1>0, <1>2 DEF OrderFact, Open
    <2>2. PendingFact(o)'
      BY <1>0, <1>2, NothingPending DEF Booking
    <2>3. OnlyOrder(o)
      BY <1>0, <1>2 DEF OnlyOrder
    <2> QED
      BY <2>1, <2>2, <2>3, OneOrderMoves DEF BooksInv
  <1>5. /\ IsFiniteSet(DOMAIN c) /\ \A p \in DOMAIN c : Cuts(c)[p] \in Nat
        /\ Grand(c) \in Nat /\ SumOver(Cuts(c), DOMAIN c) <= Grand(c)
    BY <1>3, CartAddsUp
  <1>6. /\ balance \in [Users -> Int]
        /\ \A u \in Users :
              balance[u] = InitialBalance[u] - SumOver(Bills, Paid(u)) + SumOver(Earnings(u), Orders)
        /\ SumOver(balance, Users) <= SumOver(InitialBalance, Users)
    BY DEF BooksInv, Books
  <1>7. ASSUME NEW u \in Users
        PROVE  SumOver(Bills, Paid(u))' = SumOver(Bills, Paid(u)) + (IF b = u THEN Grand(c) ELSE 0)
               /\ SumOver(Bills, Paid(u)) \in Int
    <2>1. Bills' = Bills /\ Bills[o] = Grand(c)
      BY <1>1, <1>2 DEF Bills
    <2>2. Paid(u) \subseteq Orders /\ IsFiniteSet(Paid(u)) /\ o \notin Paid(u)
      BY <1>2, MarketConstants, FS_Subset DEF Paid
    <2>3. Paid(u)' = IF b = u THEN Paid(u) \cup {o} ELSE Paid(u)
      BY <1>0, <1>1, <1>2 DEF Paid
    <2>4. \A q \in Paid(u) \cup {o} : Bills[q] \in Int
      <3>1. \A q \in Paid(u) \cup {o} : q \in Orders /\ order[q].cart \in AnyCart
        <4>1. \A q \in Orders : OrderFact(q)
          BY DEF BooksInv, OrdersInv
        <4>2. \A q \in Paid(u) \cup {o} : q \in Orders /\ step[q] # "new"
          BY <1>2 DEF Paid
        <4> QED
          BY <4>1, <4>2 DEF OrderFact
      <3> QED
        BY <3>1, CartAddsUp DEF Bills
    <2>5. SumOver(Bills, Paid(u)) \in Int
      BY <2>2, <2>4, SumIsInt
    <2>6. SumOver(Bills, Paid(u) \cup {o}) = SumOver(Bills, Paid(u)) + Grand(c)
      BY <2>1, <2>2, <2>4, SumWith
    <2> QED
      BY <1>5, <2>1, <2>3, <2>5, <2>6
  <1>8. ASSUME NEW u \in Users
        PROVE  /\ SumOver(Earnings(u), Orders)' = SumOver(Earnings(u), Orders)
                      + SumOver(Cuts(c), {p \in DOMAIN c : Seller[p] = u})
               /\ SumOver(Earnings(u), Orders) \in Int
               /\ SumOver(Cuts(c), {p \in DOMAIN c : Seller[p] = u}) \in Int
    <2> DEFINE mine == {p \in DOMAIN c : Seller[p] = u}
    <2>1. PICK g, h : g = Earnings(u) /\ h = Earnings(u)'
      OBVIOUS
    <2>2. g[o] = 0 /\ h[o] = SumOver(Cuts(c), mine)
      <3>1. SoldBy(u, o) = {} /\ SoldBy(u, o)' = mine
        BY <1>0, <1>1, <1>2 DEF SoldBy
      <3>2. g[o] = EarnedIn(u, o) /\ h[o] = EarnedIn(u, o)'
        BY <2>1 DEF Earnings
      <3>3. EarnedIn(u, o)' = SumOver(Cuts(c), mine)
        BY <1>1, <1>2, <3>1 DEF EarnedIn
      <3> QED
        BY <3>1, <3>2, <3>3, SumOfNone DEF EarnedIn
    <2>3. \A q \in Orders \ {o} : h[q] = g[q]
      <3>1. ASSUME NEW q \in Orders \ {o} PROVE EarnedIn(u, q)' = EarnedIn(u, q)
        BY <1>0, <1>2 DEF EarnedIn, SoldBy
      <3> QED
        BY <2>1, <3>1 DEF Earnings
    <2>4. SumOver(Cuts(c), mine) \in Int
      <3>1. IsFiniteSet(mine) /\ \A p \in mine : Cuts(c)[p] \in Int
        BY <1>5, FS_Subset
      <3> HIDE DEF mine
      <3> QED
        BY <3>1, SumIsInt
    <2>5. ASSUME NEW q \in Orders PROVE g[q] \in Int
      <3>1. CASE step[q] = "paid"
        <4>1. order[q].cart \in AnyCart
          BY <3>1 DEF BooksInv, OrdersInv, OrderFact
        <4>2. IsFiniteSet(SoldBy(u, q)) /\ \A p \in SoldBy(u, q) : Cuts(order[q].cart)[p] \in Int
          BY <4>1, CartAddsUp, FS_Subset DEF SoldBy
        <4> QED
          BY <2>1, <4>2, SumIsInt DEF Earnings, EarnedIn
      <3>2. CASE step[q] # "paid"
        <4>1. SoldBy(u, q) = {}
          BY <3>2 DEF SoldBy
        <4>2. EarnedIn(u, q) = 0
          BY <4>1, SumOfNone DEF EarnedIn
        <4> QED
          BY <2>1, <4>2 DEF Earnings
      <3> QED
        BY <3>1, <3>2
    <2>6. \A q \in Orders : g[q] \in Int /\ h[q] \in Int
      <3> HIDE DEF mine
      <3> QED
        BY <2>2, <2>3, <2>4, <2>5
    <2>7. SumOver(h, Orders) = SumOver(g, Orders) + (h[o] - g[o])
      BY <2>3, <2>6, MarketConstants, SumChanges
    <2>8. SumOver(g, Orders) \in Int
      BY <2>6, MarketConstants, SumIsInt
    <2>9. SumOver(h, Orders) = SumOver(g, Orders) + SumOver(Cuts(c), mine)
      <3> HIDE DEF mine
      <3> QED
        BY <2>2, <2>4, <2>7, <2>8
    <2> QED
      BY <2>1, <2>4, <2>8, <2>9
  <1>9. ASSUME NEW u \in Users
        PROVE  balance'[u] = InitialBalance[u] - SumOver(Bills, Paid(u))' + SumOver(Earnings(u), Orders)'
    <2>1. PICK bill, sales, cuts, due :
             /\ bill = SumOver(Bills, Paid(u)) /\ sales = SumOver(Earnings(u), Orders)
             /\ cuts = SumOver(Cuts(c), {p \in DOMAIN c : Seller[p] = u})
             /\ due = IF b = u THEN Grand(c) ELSE 0
      OBVIOUS
    <2>2. /\ bill \in Int /\ sales \in Int /\ cuts \in Int /\ due \in Int
          /\ InitialBalance[u] \in Int
      BY <1>5, <1>7, <1>8, <2>1, MarketConstants
    <2>3. balance'[u] = (InitialBalance[u] - bill + sales) + (cuts - due)
      BY <1>2, <1>3, <1>6, <2>1
    <2>4. SumOver(Bills, Paid(u))' = bill + due /\ SumOver(Earnings(u), Orders)' = sales + cuts
      BY <1>7, <1>8, <2>1
    <2> QED
      BY <2>2, <2>3, <2>4
  <1>10. balance' \in [Users -> Int] /\ SumOver(balance', Users) <= SumOver(InitialBalance, Users)
    <2>1. PICK g, h : g = balance /\ h = balance'
      OBVIOUS
    <2>2. \A u \in Users : g[u] \in Int /\ add[u] \in Int /\ h[u] = g[u] + add[u]
      BY <1>2, <1>3, <1>6, <2>1
    <2>3. SumOver(h, Users) = SumOver(g, Users) + SumOver(add, Users)
      BY <2>2, MarketConstants, SumOfSums
    <2>4. SumOver(g, Users) \in Int /\ SumOver(InitialBalance, Users) \in Int
      BY <2>2, MarketConstants, SumIsInt
    <2>5. SumOver(Cuts(c), DOMAIN c) \in Int
      BY <1>5, SumIsInt
    <2>6. balance' \in [Users -> Int]
      BY <1>2, <2>1, <2>2
    <2> QED
      BY <1>3, <1>5, <1>6, <2>1, <2>3, <2>4, <2>5, <2>6
  <1> QED
    BY <1>4, <1>9, <1>10 DEF BooksInv, Books

LEMMA BooksInvInit == Init => BooksInv
  <1> SUFFICES ASSUME Init PROVE BooksInv
    OBVIOUS
  <1>1. \A o \in Orders : order[o] = NoOrder /\ step[o] = "new" /\ next[o] = 1 /\ pending[o] = NoPending
    BY DEF Init
  <1>2. OrdersInv
    <2>1. ASSUME NEW o \in Orders PROVE OrderFact(o)
      BY <1>1 DEF OrderFact, NoOrder
    <2>2. ASSUME NEW o \in Orders PROVE PendingFact(o)
      BY <1>1 DEF PendingFact, NoPending, Booking
    <2>3. DOMAIN order = Orders /\ DOMAIN step = Orders /\ DOMAIN next = Orders /\ DOMAIN pending = Orders
      BY DEF Init
    <2> QED
      BY <2>1, <2>2, <2>3 DEF OrdersInv
  <1>3. ASSUME NEW u \in Users
        PROVE  SumOver(Bills, Paid(u)) = 0 /\ SumOver(Earnings(u), Orders) = 0
    <2>1. Paid(u) = {}
      BY <1>1 DEF Paid
    <2>2. ASSUME NEW o \in Orders PROVE EarnedIn(u, o) = 0
      <3>1. SoldBy(u, o) = {}
        BY <1>1 DEF SoldBy
      <3> QED
        BY <3>1, SumOfNone DEF EarnedIn
    <2>3. \A o \in Orders : Earnings(u)[o] = 0
      BY <2>2 DEF Earnings
    <2> QED
      BY <2>1, <2>3, MarketConstants, SumOfNone, SumOfNothing
  <1>4. balance = InitialBalance /\ InitialBalance \in [Users -> Int]
    BY MarketConstants DEF Init
  <1>5. SumOver(InitialBalance, Users) \in Int
    BY <1>4, MarketConstants, SumIsInt
  <1> QED
    BY <1>2, <1>3, <1>4, <1>5 DEF BooksInv, Books

LEMMA ListingBooks ==
    ASSUME BooksInv, UNCHANGED <<balance, order, step, next, pending>>
    PROVE  BooksInv'
  <1>1. ASSUME NEW o \in Orders PROVE OrderFact(o)' /\ PendingFact(o)'
    BY OrderStays DEF BooksInv, OrdersInv
  <1>2. PaysNothing
    BY DEF PaysNothing
  <1> QED
    BY <1>1, <1>2, BooksStay DEF BooksInv, OrdersInv

LEMMA BooksInvNext == SaleTypes /\ BooksInv /\ [Next]_vars => BooksInv'
  <1> SUFFICES ASSUME SaleTypes, BooksInv, [Next]_vars PROVE BooksInv'
    OBVIOUS
  <1>1. ASSUME NEW p \in Products, CreateProduct(p) \/ RemoveProduct(p)
        PROVE  BooksInv'
    BY <1>1, ListingBooks DEF CreateProduct, RemoveProduct, WriteProduct, orderVars
  <1>2. ASSUME NEW e \in Edits, FinishEdit(e) \/ \E d \in Patches : StartEdit(e, d)
        PROVE  BooksInv'
    BY <1>2, ListingBooks DEF StartEdit, FinishEdit, WriteProduct, orderVars
  <1>3. ASSUME NEW o \in Orders, PlaceOrder(o) \/ OrderStep(o) \/ Crash(o)
        PROVE  BooksInv'
    BY <1>3, PlaceOrderBooks, ReadBooks, DebitBooks, CreditBooks, MarkBooks, CommitBooks, AbortBooks
       DEF OrderStep
  <1>4. CASE UNCHANGED vars
    BY <1>4, ListingBooks DEF vars
  <1> QED
    BY <1>1, <1>2, <1>3, <1>4 DEF Next

-----------------------------------------------------------------------------

\* The sums of the statements are the sums of the invariant.
LEMMA EarnedSums ==
    ASSUME NEW u, NEW o, IsFiniteSet(SoldBy(u, o))
    PROVE  Earned(u, o) = EarnedIn(u, o)
  <1> DEFINE S == SoldBy(u, o)
             c == order[o].cart
             g == Cuts(c)
             Is(t) == t = [s \in SUBSET S |-> IF s = {} THEN 0
                              ELSE SellerCut(Subtotal(c, AnyOf(s))) + t[s \ {AnyOf(s)}]]
  <1>1. Earned(u, o) = (CHOOSE t : Is(t))[S]
    BY DEF Earned, MapThenSumSet, MapThenFoldSet, AnyOf
  <1>2. \A t : Is(t) <=> IsSumTable(t, g, SUBSET S)
    <2>1. \A s \in SUBSET S : s # {} => g[AnyOf(s)] = SellerCut(Subtotal(c, AnyOf(s)))
      BY AnyOfIsIn DEF Cuts, SoldBy
    <2> QED
      BY <2>1 DEF IsSumTable
  <1>3. Is(CHOOSE t : Is(t))
    <2>1. \E t : Is(t)
      BY <1>2, SumTableExists
    <2> HIDE DEF Is
    <2> QED
      BY <2>1
  <1>4. (CHOOSE t : Is(t))[S] = SumOver(g, S)
    <2> HIDE DEF Is, g, S
    <2> QED
      BY <1>2, <1>3, SumTableUnique DEF S
  <1> QED
    BY <1>1, <1>4 DEF EarnedIn

LEMMA BillSums ==
    ASSUME NEW u, IsFiniteSet(Paid(u))
    PROVE  MapThenSumSet(LAMBDA o : Grand(order[o].cart), Paid(u)) = SumOver(Bills, Paid(u))
  <1> DEFINE S == Paid(u)
             Is(t) == t = [s \in SUBSET S |-> IF s = {} THEN 0
                              ELSE Grand(order[AnyOf(s)].cart) + t[s \ {AnyOf(s)}]]
  <1>1. MapThenSumSet(LAMBDA o : Grand(order[o].cart), S) = (CHOOSE t : Is(t))[S]
    BY DEF MapThenSumSet, MapThenFoldSet, AnyOf
  <1>2. \A t : Is(t) <=> IsSumTable(t, Bills, SUBSET S)
    <2>1. \A s \in SUBSET S : s # {} => Bills[AnyOf(s)] = Grand(order[AnyOf(s)].cart)
      BY AnyOfIsIn DEF Bills, Paid
    <2> QED
      BY <2>1 DEF IsSumTable
  <1>3. Is(CHOOSE t : Is(t))
    <2>1. \E t : Is(t)
      BY <1>2, SumTableExists
    <2> HIDE DEF Is
    <2> QED
      BY <2>1
  <1>4. (CHOOSE t : Is(t))[S] = SumOver(Bills, S)
    <2> HIDE DEF Is, S
    <2> QED
      BY <1>2, <1>3, SumTableUnique DEF S
  <1> QED
    BY <1>1, <1>4

LEMMA SaleSums ==
    ASSUME NEW u, \A o \in Orders : Earned(u, o) = EarnedIn(u, o)
    PROVE  MapThenSumSet(LAMBDA o : Earned(u, o), Orders) = SumOver(Earnings(u), Orders)
  <1> DEFINE Is(t) == t = [s \in SUBSET Orders |-> IF s = {} THEN 0
                              ELSE Earned(u, AnyOf(s)) + t[s \ {AnyOf(s)}]]
  <1>1. MapThenSumSet(LAMBDA o : Earned(u, o), Orders) = (CHOOSE t : Is(t))[Orders]
    BY DEF MapThenSumSet, MapThenFoldSet, AnyOf
  <1>2. \A t : Is(t) <=> IsSumTable(t, Earnings(u), SUBSET Orders)
    <2>1. \A s \in SUBSET Orders : s # {} => Earnings(u)[AnyOf(s)] = Earned(u, AnyOf(s))
      BY AnyOfIsIn DEF Earnings
    <2> QED
      BY <2>1 DEF IsSumTable
  <1>3. Is(CHOOSE t : Is(t))
    <2>1. \E t : Is(t)
      BY <1>2, MarketConstants, SumTableExists
    <2> HIDE DEF Is
    <2> QED
      BY <2>1
  <1>4. (CHOOSE t : Is(t))[Orders] = SumOver(Earnings(u), Orders)
    <2> HIDE DEF Is
    <2> QED
      BY <1>2, <1>3, MarketConstants, SumTableUnique
  <1> QED
    BY <1>1, <1>4

LEMMA WalletSums ==
    /\ MapThenSumSet(LAMBDA u : balance[u], Users) = SumOver(balance, Users)
    /\ MapThenSumSet(LAMBDA u : InitialBalance[u], Users) = SumOver(InitialBalance, Users)
  BY DEF MapThenSumSet, MapThenFoldSet, SumOver, SumTable, IsSumTable, AnyOf

LEMMA BooksAddUp == BooksInv => StatementsAddUp
  <1> SUFFICES ASSUME BooksInv PROVE StatementsAddUp
    OBVIOUS
  <1>1. ASSUME NEW u, NEW o \in Orders PROVE Earned(u, o) = EarnedIn(u, o)
    <2>1. CASE step[o] = "paid"
      <3>1. order[o].cart \in AnyCart
        BY <2>1 DEF BooksInv, OrdersInv, OrderFact
      <3>2. IsFiniteSet(SoldBy(u, o))
        BY <3>1, CartAddsUp, FS_Subset DEF SoldBy
      <3> QED
        BY <3>2, EarnedSums
    <2>2. CASE step[o] # "paid"
      <3>1. SoldBy(u, o) = {}
        BY <2>2 DEF SoldBy
      <3> QED
        BY <3>1, EarnedSums, FS_EmptySet
    <2> QED
      BY <2>1, <2>2
  <1>2. \A u : IsFiniteSet(Paid(u))
    BY MarketConstants, FS_Subset DEF Paid
  <1>3. ASSUME NEW u \in Users
        PROVE  balance[u] = InitialBalance[u]
                            - MapThenSumSet(LAMBDA o : Grand(order[o].cart), Paid(u))
                            + MapThenSumSet(LAMBDA o : Earned(u, o), Orders)
    <2>1. balance[u] = InitialBalance[u] - SumOver(Bills, Paid(u)) + SumOver(Earnings(u), Orders)
      BY DEF BooksInv, Books
    <2>2. MapThenSumSet(LAMBDA o : Grand(order[o].cart), Paid(u)) = SumOver(Bills, Paid(u))
      BY <1>2, BillSums
    <2>3. MapThenSumSet(LAMBDA o : Earned(u, o), Orders) = SumOver(Earnings(u), Orders)
      BY <1>1, SaleSums
    <2> QED
      BY <2>1, <2>2, <2>3
  <1> QED
    BY <1>3, WalletSums DEF StatementsAddUp, BooksInv, Books

\* However orders interleave, abort or crash, a wallet holds what it started
\* with less the bills of its owner's completed orders plus the cuts of its
\* completed sales, and the wallets together never gain: createOrder's
\* transaction takes effect as a whole or not at all, no increment is lost and
\* rounding never makes the platform pay.
THEOREM WalletsAddUp == Spec => []StatementsAddUp
  <1>1. Init => SaleTypes
    BY MarketConstants DEF Init, SaleTypes
  <1> QED
    BY <1>1, SaleTypesNext, BooksInvInit, BooksInvNext, BooksAddUp, PTL DEF Spec

-----------------------------------------------------------------------------
(* Loadout: what a transaction locks *)

\* Every row of the kind is among the rows of an undisturbed transaction.
Covers(t) ==
    phase[t] = "locking" /\ KindOf[chosen[t]] \notin grown =>
        OfKind(t) \subseteq ToSet(rows[t])

SlotInv ==
    /\ equipped \subseteq owned /\ owned \subseteq Cosmetics
    /\ phase \in [Calls -> Phases]
    /\ DOMAIN chosen = Calls
    /\ DOMAIN rows = Calls
    /\ \A t \in Calls : phase[t] \in {"owner", "locking"} => chosen[t] \in owned
    /\ \A t \in Calls : Covers(t)
    /\ OnePerSlotUnlessGrown

\* The rows a transaction fixes at its start are the others and its own.
LEMMA RowsCover ==
    ASSUME NEW t \in Calls, owned \subseteq Cosmetics, NEW s \in Scans(Others(t))
    PROVE  OfKind(t) \subseteq ToSet(Append(s, chosen[t]))
  <1> DEFINE n == Cardinality(Others(t))
  <1>1. n \in Nat
    <2>1. IsFiniteSet(Others(t))
      BY LoadoutConstants, FS_Subset DEF Others, OfKind
    <2> QED
      BY <2>1, FS_CardinalityType
  <1>2. s \in Seq(Others(t)) /\ Len(s) = n
    BY <1>1 DEF Scans
  <1>3. ASSUME NEW c \in OfKind(t) PROVE \E i \in 1..n + 1 : Append(s, chosen[t])[i] = c
    <2>1. CASE c = chosen[t]
      <3>1. Append(s, chosen[t])[n + 1] = c
        BY <1>1, <1>2, <2>1
      <3>2. n + 1 \in 1..n + 1
        BY <1>1
      <3> HIDE DEF n
      <3> QED
        BY <3>1, <3>2
    <2>2. CASE c # chosen[t]
      <3>1. PICK i \in 1..n : s[i] = c
        BY <1>1, <1>2, <2>2 DEF Scans, Others
      <3>2. i \in 1..n + 1 /\ Append(s, chosen[t])[i] = s[i]
        BY <1>1, <1>2, <3>1
      <3> QED
        BY <3>1, <3>2
    <2> QED
      BY <2>1, <2>2
  <1>4. DOMAIN Append(s, chosen[t]) = 1..n + 1
    BY <1>1, <1>2
  <1> QED
    BY <1>3, <1>4 DEF ToSet

LEMMA SlotInvInit == LoadoutInit => SlotInv
  BY DEF LoadoutInit, SlotInv, Covers, OnePerSlotUnlessGrown, Phases

LEMMA SlotInvNext == SlotInv /\ [LoadoutNext]_loadoutVars => SlotInv'
  <1> SUFFICES ASSUME SlotInv, [LoadoutNext]_loadoutVars PROVE SlotInv'
    OBVIOUS
  <1> USE DEF SlotInv, Phases
  <1>1. ASSUME NEW c \in Cosmetics, Acquire(c) PROVE SlotInv'
    <2>1. ASSUME NEW t \in Calls PROVE Covers(t)'
      BY <1>1, <2>1 DEF Acquire, Covers, OfKind
    <2>2. OnePerSlotUnlessGrown'
      BY <1>1 DEF Acquire, OnePerSlotUnlessGrown
    <2> QED
      BY <1>1, <2>1, <2>2 DEF Acquire
  <1>2. ASSUME NEW t \in Calls, NEW c \in Cosmetics, FindOwnership(t, c)
        PROVE  SlotInv'
    BY <1>2 DEF FindOwnership, Covers, OfKind, OnePerSlotUnlessGrown
  <1>3. ASSUME NEW t \in Calls, StartUnequip(t) PROVE SlotInv'
    <2>1. ASSUME NEW u \in Calls PROVE Covers(u)'
      <3>1. CASE u = t
        <4>1. PICK s \in Scans(Others(t)) : rows' = [rows EXCEPT ![t] = Append(s, chosen[t])]
          BY <1>3 DEF StartUnequip
        <4>2. rows'[t] = Append(s, chosen[t])
          BY <4>1
        <4>3. OfKind(t)' = OfKind(t)
          BY <1>3 DEF StartUnequip, OfKind
        <4> QED
          BY <3>1, <4>2, <4>3, RowsCover DEF Covers
      <3>2. CASE u # t
        <4>1. rows'[u] = rows[u] /\ phase'[u] = phase[u]
          BY <1>3, <3>2 DEF StartUnequip
        <4> QED
          BY <1>3, <4>1 DEF StartUnequip, Covers, OfKind
      <3> QED
        BY <3>1, <3>2
    <2> QED
      BY <1>3, <2>1 DEF StartUnequip, OnePerSlotUnlessGrown
  <1>4. ASSUME NEW t \in Calls, LockRow(t) PROVE SlotInv'
    BY <1>4 DEF LockRow, Covers, OfKind, OnePerSlotUnlessGrown
  <1>5. ASSUME NEW t \in Calls, CommitEquip(t) PROVE SlotInv'
    <2>1. phase[t] = "locking" /\ chosen[t] \in owned /\ Covers(t)
      BY <1>5 DEF CommitEquip
    <2>2. owned' = owned /\ grown' = grown /\ chosen' = chosen /\ rows' = rows
      BY <1>5 DEF CommitEquip, End
    <2>3. equipped' = (equipped \ ToSet(rows[t])) \cup {chosen[t]}
      BY <1>5 DEF CommitEquip
    <2>4. OnePerSlotUnlessGrown'
      <3> SUFFICES ASSUME NEW a \in equipped', NEW b \in equipped',
                          KindOf[a] = KindOf[b], KindOf[a] \notin grown
                   PROVE  a = b
        BY <2>2 DEF OnePerSlotUnlessGrown
      <3>1. CASE KindOf[a] = KindOf[chosen[t]]
        BY <2>1, <2>3, <3>1 DEF Covers, OfKind
      <3>2. CASE KindOf[a] # KindOf[chosen[t]]
        BY <2>3, <3>2 DEF OnePerSlotUnlessGrown
      <3> QED
        BY <3>1, <3>2
    <2>5. ASSUME NEW u \in Calls PROVE Covers(u)'
      BY <1>5, <2>2 DEF CommitEquip, End, Covers, OfKind
    <2> QED
      BY <1>5, <2>1, <2>2, <2>3, <2>4, <2>5 DEF CommitEquip, End
  <1>6. ASSUME NEW t \in Calls, AbortEquip(t) \/ CrashEquip(t) PROVE SlotInv'
    BY <1>6 DEF AbortEquip, CrashEquip, End, Covers, OfKind, OnePerSlotUnlessGrown
  <1>7. CASE UNCHANGED loadoutVars
    BY <1>7 DEF loadoutVars, Covers, OfKind, OnePerSlotUnlessGrown
  <1> QED
    BY <1>1, <1>2, <1>3, <1>4, <1>5, <1>6, <1>7 DEF LoadoutNext, Step

\* No interleaving of equip calls, aborts and crashes leaves two cosmetics in a
\* slot, for any number of cosmetics and calls, while no row is inserted.
THEOREM OneEquippedPerSlot == LoadoutSpec => []OnePerSlotUnlessGrown
  <1>1. SlotInv => OnePerSlotUnlessGrown
    BY DEF SlotInv
  <1> QED
    BY SlotInvInit, SlotInvNext, <1>1, PTL DEF LoadoutSpec

-----------------------------------------------------------------------------
(* Types *)

\* The rows a transaction goes through are owned, and it is at one of them or
\* past the last.
AtARow(t) == /\ rows[t] \in Seq(owned)
             /\ nextRow[t] \in 1..Len(rows[t]) + 1

TypeInv ==
    /\ SlotInv
    /\ chosen \in [Calls -> Cosmetics \cup {Unlocked}]
    /\ DOMAIN nextRow = Calls
    /\ \A t \in Calls : AtARow(t)
    /\ \A t \in Calls : phase[t] \in {"new", "owner"} => nextRow[t] = 1
    /\ lock \in [Cosmetics -> Calls \cup {Unlocked}]
    /\ grown \subseteq {KindOf[c] : c \in Cosmetics}

LEMMA TypeInvNext == TypeInv /\ [LoadoutNext]_loadoutVars => TypeInv'
  <1> SUFFICES ASSUME TypeInv, [LoadoutNext]_loadoutVars PROVE TypeInv'
    OBVIOUS
  <1>0. SlotInv'
    BY SlotInvNext DEF TypeInv
  <1> USE DEF TypeInv
  <1>1. ASSUME NEW c \in Cosmetics, Acquire(c) PROVE TypeInv'
    <2>1. ASSUME NEW t \in Calls PROVE AtARow(t)'
      BY <1>1 DEF Acquire, AtARow
    <2> QED
      BY <1>0, <1>1, <2>1 DEF Acquire
  <1>2. ASSUME NEW t \in Calls, NEW c \in Cosmetics, FindOwnership(t, c)
        PROVE  TypeInv'
    BY <1>0, <1>2 DEF FindOwnership, AtARow, SlotInv
  <1>3. ASSUME NEW t \in Calls, StartUnequip(t) PROVE TypeInv'
    <2>1. PICK s \in Scans(Others(t)) : rows' = [rows EXCEPT ![t] = Append(s, chosen[t])]
      BY <1>3 DEF StartUnequip
    <2>2. s \in Seq(owned)
      <3>1. IsFiniteSet(Others(t)) /\ Others(t) \subseteq owned
        BY LoadoutConstants, FS_Subset DEF Others, OfKind, SlotInv
      <3>2. Cardinality(Others(t)) \in Nat
        BY <3>1, FS_CardinalityType
      <3> DEFINE n == Cardinality(Others(t))
      <3>3. DOMAIN s = 1..n /\ s \in [1..n -> Others(t)]
        BY DEF Scans
      <3>4. s \in [1..n -> owned]
        BY <3>1, <3>3
      <3> HIDE DEF n
      <3> QED
        BY <3>2, <3>4 DEF n
    <2>3. rows'[t] \in Seq(owned) /\ Len(rows'[t]) \in Nat /\ nextRow[t] = 1
      <3>1. chosen[t] \in owned /\ phase[t] = "owner" /\ rows'[t] = Append(s, chosen[t])
        BY <1>3, <2>1 DEF StartUnequip, SlotInv
      <3>2. Append(s, chosen[t]) \in Seq(owned) /\ Len(Append(s, chosen[t])) \in Nat
        BY <2>2, <3>1
      <3> QED
        BY <3>1, <3>2
    <2>4. ASSUME NEW u \in Calls PROVE AtARow(u)'
      BY <1>3, <2>1, <2>3 DEF StartUnequip, AtARow
    <2> QED
      BY <1>0, <1>3, <2>4 DEF StartUnequip, SlotInv
  <1>4. ASSUME NEW t \in Calls, LockRow(t) PROVE TypeInv'
    <2>1. nextRow[t] \in 1..Len(rows[t]) /\ Len(rows[t]) \in Nat
      BY <1>4 DEF LockRow, AtARow
    <2>2. lock' \in [Cosmetics -> Calls \cup {Unlocked}]
      BY <1>4 DEF LockRow
    <2>3. ASSUME NEW u \in Calls PROVE AtARow(u)'
      BY <1>4, <2>1 DEF LockRow, AtARow
    <2> QED
      BY <1>0, <1>4, <2>2, <2>3 DEF LockRow
  <1>5. ASSUME NEW t \in Calls, CommitEquip(t) \/ AbortEquip(t) \/ CrashEquip(t)
        PROVE  TypeInv'
    BY <1>0, <1>5 DEF CommitEquip, AbortEquip, CrashEquip, End, AtARow, SlotInv
  <1>6. CASE UNCHANGED loadoutVars
    BY <1>0, <1>6 DEF loadoutVars, AtARow
  <1> QED
    BY <1>1, <1>2, <1>3, <1>4, <1>5, <1>6 DEF LoadoutNext, Step

\* Every variable has its type and only owned cosmetics are equipped, for any
\* number of cosmetics and calls.
THEOREM LoadoutTypeCorrect == LoadoutSpec => []LoadoutTypeOK
  <1>1. LoadoutInit => TypeInv
    BY SlotInvInit DEF LoadoutInit, TypeInv, AtARow
  <1>2. TypeInv => LoadoutTypeOK
    <2>1. ASSUME TypeInv, NEW t \in Calls
          PROVE  ToSet(rows[t]) \subseteq owned
      BY <2>1 DEF TypeInv, AtARow, ToSet
    <2> QED
      BY <2>1 DEF TypeInv, AtARow, SlotInv, LoadoutTypeOK
  <1> QED
    BY <1>1, <1>2, TypeInvNext, PTL DEF LoadoutSpec

-----------------------------------------------------------------------------
(* No empty slot *)

\* The rows of a transaction are of the kind it equips.
RowsAlike ==
    \A t \in Calls : phase[t] = "locking" =>
        \A c \in ToSet(rows[t]) : KindOf[c] = KindOf[chosen[t]]

LEMMA ScanAlike ==
    ASSUME NEW t \in Calls, owned \subseteq Cosmetics, NEW s \in Scans(Others(t)),
           NEW c \in ToSet(Append(s, chosen[t]))
    PROVE  KindOf[c] = KindOf[chosen[t]]
  <1> DEFINE n == Cardinality(Others(t))
  <1>1. n \in Nat
    <2>1. IsFiniteSet(Others(t))
      BY LoadoutConstants, FS_Subset DEF Others, OfKind
    <2> QED
      BY <2>1, FS_CardinalityType
  <1>2. s \in Seq(Others(t)) /\ Len(s) = n
    BY <1>1 DEF Scans
  <1>3. PICK i \in 1..n + 1 : Append(s, chosen[t])[i] = c
    BY <1>1, <1>2 DEF ToSet
  <1>4. CASE i = n + 1
    BY <1>1, <1>2, <1>3, <1>4
  <1>5. CASE i # n + 1
    <2>1. s[i] \in Others(t) /\ Append(s, chosen[t])[i] = s[i]
      BY <1>1, <1>2, <1>3, <1>5
    <2> QED
      BY <1>3, <2>1 DEF Others, OfKind
  <1> QED
    BY <1>4, <1>5

LEMMA RowsAlikeNext == SlotInv /\ RowsAlike /\ [LoadoutNext]_loadoutVars => RowsAlike'
  <1> SUFFICES ASSUME SlotInv, RowsAlike, [LoadoutNext]_loadoutVars PROVE RowsAlike'
    OBVIOUS
  <1> USE DEF SlotInv
  <1>1. ASSUME NEW c \in Cosmetics, Acquire(c) PROVE RowsAlike'
    BY <1>1 DEF Acquire, RowsAlike
  <1>2. ASSUME NEW t \in Calls, NEW c \in Cosmetics, FindOwnership(t, c)
        PROVE  RowsAlike'
    BY <1>2 DEF FindOwnership, RowsAlike
  <1>3. ASSUME NEW t \in Calls, StartUnequip(t) PROVE RowsAlike'
    <2>1. PICK s \in Scans(Others(t)) : rows' = [rows EXCEPT ![t] = Append(s, chosen[t])]
      BY <1>3 DEF StartUnequip
    <2>2. \A c \in ToSet(rows'[t]) : KindOf[c] = KindOf[chosen[t]]
      BY <2>1, ScanAlike
    <2> QED
      BY <1>3, <2>1, <2>2 DEF StartUnequip, RowsAlike
  <1>4. ASSUME NEW t \in Calls,
               LockRow(t) \/ CommitEquip(t) \/ AbortEquip(t) \/ CrashEquip(t)
        PROVE  RowsAlike'
    BY <1>4 DEF LockRow, CommitEquip, AbortEquip, CrashEquip, End, RowsAlike
  <1>5. CASE UNCHANGED loadoutVars
    BY <1>5 DEF loadoutVars, RowsAlike
  <1> QED
    BY <1>1, <1>2, <1>3, <1>4, <1>5 DEF LoadoutNext, Step

\* A slot something was equipped in keeps something equipped: what a commit
\* takes off is of the kind of what it puts on.
THEOREM SlotNeverEmptied == LoadoutSpec => SlotStaysFilled
  <1>1. LoadoutInit => RowsAlike
    BY DEF LoadoutInit, RowsAlike
  <1>2. RowsAlike /\ [LoadoutNext]_loadoutVars =>
          [\A a \in equipped : \E b \in equipped' : KindOf[a] = KindOf[b]]_loadoutVars
    <2> SUFFICES ASSUME RowsAlike, [LoadoutNext]_loadoutVars, NEW a \in equipped, loadoutVars' # loadoutVars
                 PROVE  \E b \in equipped' : KindOf[a] = KindOf[b]
      OBVIOUS
    <2>1. ASSUME NEW t \in Calls, CommitEquip(t)
          PROVE  \E b \in equipped' : KindOf[a] = KindOf[b]
      <3>1. phase[t] = "locking" /\ equipped' = (equipped \ ToSet(rows[t])) \cup {chosen[t]}
        BY <2>1 DEF CommitEquip
      <3> QED
        BY <3>1 DEF RowsAlike
    <2>2. CASE equipped' = equipped
      BY <2>2
    <2> QED
      BY <2>1, <2>2 DEF LoadoutNext, Step, Acquire, FindOwnership, StartUnequip, LockRow,
                        AbortEquip, CrashEquip
  <1> QED
    BY SlotInvInit, SlotInvNext, <1>1, <1>2, RowsAlikeNext, PTL DEF LoadoutSpec, SlotStaysFilled
=============================================================================

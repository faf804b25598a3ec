-------------------------------- MODULE Market --------------------------------
(***************************************************************************)
(* The internal market: limit orders between the token and the debt token  *)
(* (limit_order_create, limit_order_create2, limit_order_cancel,           *)
(* apply_order, match, fill_order, cancel_order, clear_expired_orders,     *)
(* under the rules since hardfork 20).                                     *)
(*                                                                         *)
(* An order sells up to forSale of one asset at a price <<base, quote>>,   *)
(* base of what it sells for quote of the other one.  The price stays when *)
(* the order is filled in part, so that every trade rounds, and a rest may *)
(* be too small to be worth anything.  The book keeps the orders in the    *)
(* order of their ids.                                                     *)
(*                                                                         *)
(* Expirations are left open: any order may expire with any block.  An     *)
(* order that is to be filled or killed is one that is accepted as any     *)
(* other or leaves no trace.                                               *)
(***************************************************************************)
EXTENDS Integers, Sequences, FiniteSets, FiniteSetsExt, SequencesExt

CONSTANTS Accounts,        \* account names
          Prices,          \* exchange rates an order may have
          InitialBalance,  \* what everyone has of either asset at the start
          MaxOrders        \* bound on the orders in the book

Assets == {"delta", "dbd"}

ASSUME MarketAssumption ==
    /\ IsFiniteSet(Accounts)
    /\ Prices \subseteq (Nat \ {0}) \X (Nat \ {0})
    /\ InitialBalance \in Nat /\ MaxOrders \in Nat

VARIABLES
    balance,  \* balance and dbd_balance of an account
    book,     \* limit_order: the open orders, oldest first
    fills     \* fill_order_operation: the trades of the last operation and the
              \* limit of its order

vars == <<balance, book, fills>>

Other(s) == CHOOSE t \in Assets : t # s

Init ==
    /\ balance = [a \in Accounts |-> [s \in Assets |-> InitialBalance]]
    /\ book = <<>>
    /\ fills = <<>>

-----------------------------------------------------------------------------
(* Prices: asset times price, rounded down, and the order of prices.       *)

ToQuote(n, price) == (n * price[2]) \div price[1]
ToBase(n, price)  == (n * price[1]) \div price[2]

Inverted(price) == <<price[2], price[1]>>

AtLeast(p, q) == p[1] * q[2] >= q[1] * p[2]
Better(p, q)  == p[1] * q[2] > q[1] * p[2]

-----------------------------------------------------------------------------
(* Matching a new order, the last of orders, with the others.  A trading   *)
(* state is what is left of each order, 0 when it is gone, the balances,   *)
(* the trades so far and whether every assertion held.                     *)

\* fill_order, with cancel_order of a rest that is worth nothing.
FillOrder(orders, s, i, pays, receives) ==
    LET o    == orders[i]
        rest == s.left[i] - pays
        gone == ToQuote(rest, o.price) = 0
        paid == [s.balance EXCEPT ![o.seller][Other(o.sells)] = @ + receives]
    IN  [s EXCEPT !.left[i] = IF gone THEN 0 ELSE rest,
                  !.balance = IF gone THEN [paid EXCEPT ![o.seller][o.sells] = @ + rest] ELSE paid,
                  !.ok = @ /\ rest >= 0]

\* Slip: the new order takes what it is willing to pay for in either case.
Terms_NewOrderOnly(sold, offered, price) ==
    [newPays |-> sold, oldPays |-> ToBase(sold, price)]

\* Who pays what when the new order sells sold, the old one offered.
Terms(sold, offered, price) ==
    IF sold <= ToQuote(offered, price)
    THEN [newPays |-> sold, oldPays |-> ToBase(sold, price)]
    ELSE [newPays |-> ToQuote(offered, price), oldPays |-> offered]

\* match: at the price of the old order; one of the two is gone afterwards.
Match(orders, s, k) ==
    LET n      == Len(orders)
        t      == Terms(s.left[n], s.left[k], orders[k].price)
        traded == FillOrder(orders, FillOrder(orders, s, n, t.newPays, t.oldPays),
                            k, t.oldPays, t.newPays)
    IN  [traded EXCEPT
           !.fills = Append(@, [limit |-> orders[n].price, sells |-> orders[n].sells, old |-> k,
                                newPays |-> t.newPays, oldPays |-> t.oldPays]),
           !.ok = /\ @
                  /\ s.left[n] > 0 /\ s.left[k] > 0
                  /\ t.newPays = s.left[n] \/ t.oldPays = s.left[k]
                  /\ traded.left[n] = 0 \/ traded.left[k] = 0]

\* Slip: orders at exactly the limit are left out.
Candidates_LowerBound(orders) ==
    LET n == Len(orders)
    IN  {k \in 1 .. n - 1 : /\ orders[k].sells # orders[n].sells
                            /\ Better(orders[k].price, Inverted(orders[n].price))}

\* The orders the new one may be matched with.
Candidates(orders) ==
    LET n == Len(orders)
    IN  {k \in 1 .. n - 1 : /\ orders[k].sells # orders[n].sells
                            /\ AtLeast(orders[k].price, Inverted(orders[n].price))}

\* Slip: the oldest first.
Before_ById(orders, i, k) == i < k

\* by_price: the best price first, then the oldest.
Before(orders, i, k) ==
    \/ Better(orders[i].price, orders[k].price)
    \/ ~Better(orders[k].price, orders[i].price) /\ i < k

Start(orders, bal) ==
    [left |-> [i \in DOMAIN orders |-> orders[i].forSale], balance |-> bal,
     fills |-> <<>>, ok |-> TRUE]

\* An iteration of apply_order, which goes on until the new order is gone.
MatchNext(orders, s, k) == IF s.left[Len(orders)] = 0 THEN s ELSE Match(orders, s, k)

\* apply_order: the fold takes the last candidate after all the others.
ApplyOrder(orders, bal) ==
    MapThenFoldSet(LAMBDA k, s : MatchNext(orders, s, k), Start(orders, bal), LAMBDA k : k,
                   LAMBDA S : CHOOSE k \in S : \A i \in S \ {k} : Before(orders, i, k),
                   Candidates(orders))

\* What is left in the book.
Rest(orders, left) ==
    LET kept[i \in 0 .. Len(orders)] ==
          IF i = 0 THEN <<>>
          ELSE IF left[i] > 0 THEN Append(kept[i - 1], [orders[i] EXCEPT !.forSale = left[i]])
          ELSE kept[i - 1]
    IN  kept[Len(orders)]

\* The book with a new order at its end, and its outcome.
With(a, s, n, price) ==
    Append(book, [seller |-> a, sells |-> s, forSale |-> n, price |-> price])

Outcome(a, s, n, price) ==
    ApplyOrder(With(a, s, n, price), [balance EXCEPT ![a][s] = @ - n])

\* What validate asks of the amount: it is worth something at the price.
WorthSomething(n, price) == ToQuote(n, price) > 0

Affordable(a, s, n, price) == balance[a][s] >= n /\ WorthSomething(n, price)

-----------------------------------------------------------------------------
(* Operations.                                                             *)

\* limit_order_create2, and limit_order_create, whose price is the amount for
\* sale by the amount to be received.
LimitOrderCreate(a, s, n, price) ==
    LET out == Outcome(a, s, n, price)
    IN  /\ Len(book) < MaxOrders
        /\ Affordable(a, s, n, price)
        /\ out.ok
        /\ balance' = out.balance
        /\ book' = Rest(With(a, s, n, price), out.left)
        /\ fills' = out.fills

CancelOrder(i) ==
    /\ balance' = [balance EXCEPT ![book[i].seller][book[i].sells] = @ + book[i].forSale]
    /\ book' = RemoveAt(book, i)
    /\ fills' = <<>>

\* limit_order_cancel.
LimitOrderCancel(a, i) == book[i].seller = a /\ CancelOrder(i)

\* An iteration of clear_expired_orders.
ClearExpiredOrder(i) == CancelOrder(i)

Next ==
    \/ \E a \in Accounts, s \in Assets, price \in Prices :
           \E n \in 1 .. balance[a][s] : LimitOrderCreate(a, s, n, price)
    \/ \E a \in Accounts, i \in DOMAIN book : LimitOrderCancel(a, i)
    \/ \E i \in DOMAIN book : ClearExpiredOrder(i)

Spec == Init /\ [][Next]_vars

-----------------------------------------------------------------------------
\* The assertions of match and fill_order, which hardfork 20 made binding, never
\* reject an order that its owner can pay for.
MatchingNeverFails ==
    \A a \in Accounts, s \in Assets, price \in Prices : \A n \in 1 .. balance[a][s] :
        Affordable(a, s, n, price) => Outcome(a, s, n, price).ok

\* What the accounts hold of an asset, and what the orders in the book offer.
InAccounts(s) == SumFunction([a \in Accounts |-> balance[a][s]])
OnOffer(s) ==
    SumFunction([i \in DOMAIN book |-> IF book[i].sells = s THEN book[i].forSale ELSE 0])

\* No two orders that could be matched are left in the book, and no order
\* is left that asks for nothing; "no asset is created or destroyed" (match).
BookUncrossed ==
    /\ \A i, k \in DOMAIN book :
           book[i].sells # book[k].sells =>
               ~AtLeast(book[i].price, Inverted(book[k].price))
    /\ \A i \in DOMAIN book : ToQuote(book[i].forSale, book[i].price) > 0
    /\ \A s \in Assets :
           InitialBalance * Cardinality(Accounts) = InAccounts(s) + OnOffer(s)

\* Whatever the rounding, everyone gets at least its price: a trade gives either
\* side something, no less than its limit rounded down; and better prices and
\* older orders go first, the ones that are passed over being gone.
TradesFair ==
    [][\A j \in DOMAIN fills' :
         LET f == fills'[j]
             o == book[f.old]
         IN  /\ f.newPays > 0 /\ f.oldPays > 0
             /\ f.oldPays >= ToQuote(f.newPays, f.limit)
             /\ f.newPays >= ToQuote(f.oldPays, o.price)
             /\ \A k \in DOMAIN book :
                  \/ book[k].sells = f.sells
                  \/ k = f.old
                  \/ ~Better(book[k].price, o.price) /\ (Better(o.price, book[k].price) \/ f.old < k)
                  \/ \E i \in 1 .. j - 1 : fills'[i].old = k]_vars
=============================================================================

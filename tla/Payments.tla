------------------------------ MODULE Payments ------------------------------
(***************************************************************************)
(* A recharge order, from POST /api/checkout to Alipay's notification that *)
(* credits it (lib/payments), or to the development-only mock completion.  *)
(*                                                                         *)
(* The order's id leaves the service only in the form the checkout answers *)
(* with, so nobody can pay an order whose handler has not finished.        *)
(* Alipay repeats a notification until it is answered "success"; an answer *)
(* may be lost, so a notification can arrive again at any time.            *)
(***************************************************************************)
EXTENDS Wallet, Pricing

CONSTANTS PackageIds,     \* packages customers buy
          OtherAmounts,   \* amounts (cents) a trade may carry that no order asks for
          Development     \* mock completion is enabled

ASSUME PackageIdsAssumption == PackageIds \subseteq DOMAIN PACKAGES
ASSUME AmountsAssumption == OtherAmounts \subseteq Int
ASSUME JobsAreNotOrders == Jobs \cap Orders = {}

VARIABLES checkout,  \* the POST /api/checkout handler of each order
          orders,    \* the table orders
          trade,     \* cents Alipay took for the order, 0 before
          acked      \* Alipay has been answered "success"

orderVars == <<checkout, orders, trade, acked>>
payVars == <<balance, ledger, checkout, orders, trade, acked>>

CheckoutStates == {"idle", "creating", "answered", "failed", "dead"}
OrderRows == [status : {"pending", "paying", "paid"}, user : Users, pack : PackageIds]
NoOrder == [status |-> "absent"]

amount_cents(o) == PACKAGES[orders[o].pack].priceYuan * 100
pointsOf(o) == PACKAGES[orders[o].pack].points

TypeOK ==
  /\ WalletTypeOK
  /\ checkout \in [Orders -> CheckoutStates]
  /\ orders \in [Orders -> OrderRows \cup {NoOrder}]
  /\ trade \in [Orders -> Int]
  /\ acked \in [Orders -> BOOLEAN]

Init ==
  /\ WalletInit
  /\ checkout = [o \in Orders |-> "idle"]
  /\ orders = [o \in Orders |-> NoOrder]
  /\ trade = [o \in Orders |-> 0]
  /\ acked = [o \in Orders |-> FALSE]

-----------------------------------------------------------------------------
(* POST /api/checkout *)

createPendingOrder(o, u, pack) ==
  /\ checkout[o] = "idle"
  /\ checkout' = [checkout EXCEPT ![o] = "creating"]
  /\ orders' = [orders EXCEPT ![o] = [status |-> "pending", user |-> u, pack |-> pack]]
  /\ UNCHANGED <<balance, ledger, trade, acked>>

\* Mutant of PaymentCreated: the customer gets the form before the UPDATE.
PaymentCreated_AnswersFirst(o) ==
  /\ \/ /\ checkout[o] = "creating"
        /\ checkout' = [checkout EXCEPT ![o] = "answered"]
        /\ UNCHANGED orders
     \/ /\ checkout[o] = "answered"
        /\ orders' = [orders EXCEPT ![o].status = "paying"]
        /\ UNCHANGED checkout
  /\ UNCHANGED <<balance, ledger, trade, acked>>

\* The driver returns; the UPDATE looks at no status; the answer has the form.
PaymentCreated(o) ==
  /\ checkout[o] = "creating"
  /\ orders' = [orders EXCEPT ![o].status = "paying"]
  /\ checkout' = [checkout EXCEPT ![o] = "answered"]
  /\ UNCHANGED <<balance, ledger, trade, acked>>

\* The driver throws (a missing setting, WeChat not enabled): the order stays.
PaymentRefused(o) ==
  /\ checkout[o] = "creating"
  /\ checkout' = [checkout EXCEPT ![o] = "failed"]
  /\ UNCHANGED <<balance, ledger, orders, trade, acked>>

-----------------------------------------------------------------------------
(* The customer and Alipay *)

\* Alipay takes the customer's money for the order of the form.
CustomerPays(o, cents) ==
  /\ checkout[o] = "answered"
  /\ trade[o] = 0
  /\ trade' = [trade EXCEPT ![o] = cents]
  /\ UNCHANGED <<balance, ledger, checkout, orders, acked>>

-----------------------------------------------------------------------------
(* The two handlers that credit an order, each one stretch without an await *)

\* Mutants of Payable: neither the status nor the ledger is looked at; orders
\* whose form was handed out are left out, as in mock completion.
Payable_Always(o, statuses) == TRUE
Payable_PendingOnly(o, statuses) == orders[o].status = "pending"

\* The guarded UPDATE changes the row, and the unique index on recharge rows
\* lets the INSERT through.
Payable(o, statuses) ==
  /\ orders[o].status \in statuses
  /\ \A i \in DOMAIN ledger[o] : ledger[o][i].type # "recharge"

\* Mutant of validatePaidAmount: the amount is taken as it comes.
validatePaidAmount_Any(expected, paid) == TRUE

validatePaidAmount(expected, paid) == expected = paid

MarkPaid(o) ==
  /\ orders' = [orders EXCEPT ![o].status = "paid"]
  /\ Transfer(orders[o].user, o, "recharge", pointsOf(o))

\* A notification of the trade arrives, for the first time or again.  It is
\* answered "success" when it was applied now or before; the answer may not
\* reach Alipay.  One whose amount is not the order's is refused: nothing changes.
\* The second guard of the credit, the unique index of a recharge's row, never
\* speaks: an order that has the row is paid (CreditedOnce).
AlipayNotify(o) ==
  /\ trade[o] # 0
  /\ validatePaidAmount(amount_cents(o), trade[o])
  /\ IF Payable(o, {"pending", "paying"}) THEN MarkPaid(o)
                                          ELSE UNCHANGED <<balance, ledger, orders>>
  /\ \/ acked' = [acked EXCEPT ![o] = TRUE]
     \/ UNCHANGED acked
  /\ UNCHANGED <<checkout, trade>>

\* POST /api/payments/mock-complete, for an order whose checkout is over.
MockComplete(o) ==
  /\ Development
  /\ checkout[o] \notin {"idle", "creating"}
  /\ Payable(o, {"pending"})
  /\ MarkPaid(o)
  /\ UNCHANGED <<checkout, trade, acked>>

-----------------------------------------------------------------------------
(* The Node process dies between the INSERT and the UPDATE of a checkout. *)
Crash ==
  /\ \E o \in Orders : checkout[o] = "creating"
  /\ checkout' = [o \in Orders |-> IF checkout[o] = "creating" THEN "dead" ELSE checkout[o]]
  /\ UNCHANGED <<balance, ledger, orders, trade, acked>>

OrderStep(o) ==
  \/ \E u \in Users, pack \in PackageIds : createPendingOrder(o, u, pack)
  \/ PaymentCreated(o)
  \/ PaymentRefused(o)
  \/ /\ checkout[o] = "answered"
     /\ \E cents \in {amount_cents(o)} \cup OtherAmounts : CustomerPays(o, cents)
  \/ AlipayNotify(o)
  \/ MockComplete(o)

Next ==
  \/ \E o \in Orders : OrderStep(o)
  \/ Crash

Spec == Init /\ [][Next]_payVars

\* Alipay repeats its notification until one is answered.
Fairness == \A o \in Orders : WF_payVars(AlipayNotify(o))

FairSpec == Spec /\ Fairness

-----------------------------------------------------------------------------
(* Properties *)

\* However often a notification is repeated, whatever else is tried, an order's
\* points are credited once, to its buyer, and exactly when it is marked paid.
CreditedOnce ==
  \A o \in Orders :
    ledger[o] = IF orders[o].status = "paid"
                THEN << Row(orders[o].user, "recharge", pointsOf(o)) >> ELSE <<>>

\* An order whose form went out is credited for exactly what Alipay took, also
\* where mock completion is enabled; outside development no other is credited.
CreditWasPaidFor ==
  \A o \in Orders :
    orders[o].status = "paid" /\ (Development => checkout[o] = "answered")
      => trade[o] = amount_cents(o)

\* Alipay gives up repeating only what has been credited: a lost answer or a
\* crash never leaves a paid order acknowledged and forgotten.
AckedIsCredited == \A o \in Orders : acked[o] => orders[o].status = "paid"

\* payment-closure-design.md: an order becomes paid once and stays so; the
\* checkout's unguarded UPDATE never takes it back to paying.
PaidForGood ==
  [][ \A o \in Orders : orders[o].status = "paid" => orders'[o] = orders[o] ]_payVars

\* Money taken in full is credited in the end.
PaymentIsCredited ==
  \A o \in Orders : (trade[o] # 0 /\ trade[o] = amount_cents(o)) ~> (orders[o].status = "paid")

\* Which rows a handler can meet: the rest of the inductive invariant.
HandlerMatchesOrder ==
  \A o \in Orders :
    /\ checkout[o] = "idle" <=> orders[o] = NoOrder
    /\ checkout[o] = "creating" => orders[o].status = "pending"
    /\ checkout[o] = "answered" => orders[o].status \in {"paying", "paid"}
    /\ trade[o] # 0 => checkout[o] = "answered"
    /\ orders[o].status = "paid" /\ (Development => checkout[o] = "answered")
         => trade[o] = amount_cents(o)

IInv == TypeOK /\ HandlerMatchesOrder /\ CreditedOnce /\ AckedIsCredited

-----------------------------------------------------------------------------
(* Payments make the top-ups of PointsAccount, and nothing else. *)

accountOf(r) ==
  IF r \in Orders /\ orders[r].status = "paid"
  THEN [phase |-> "toppedUp", user |-> orders[r].user, points |-> pointsOf(r)]
  ELSE [phase |-> "none"]

PA == INSTANCE PointsAccount WITH
        Welcome <- welcomePoints,
        Prices <- {},
        PackagePoints <- {PACKAGES[pack].points : pack \in PackageIds},
        account <- [r \in Refs |-> accountOf(r)]

\* Checkouts, notifications, repetitions and crashes move balances only as the
\* promise allows: one top-up per order, with the points of its package.
KeepsAccounts == PA!Spec
=============================================================================

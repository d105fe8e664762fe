--------------------------- MODULE PaymentsProofs ---------------------------
(***************************************************************************)
(* Proofs about Payments for every set of customers, orders and packages,  *)
(* and whatever whole amounts Alipay reports.                              *)
(***************************************************************************)
EXTENDS Payments, TLAPS

\* A transaction changes one balance by its amount and appends one row.
LEMMA TransferEffect ==
  ASSUME WalletTypeOK, NEW u \in Users, NEW ref \in Refs, NEW type \in RowTypes,
         NEW n \in Int, Transfer(u, ref, type, n)
  PROVE  /\ WalletTypeOK'
         /\ balance'[u] = balance[u] + n
         /\ \A v \in Users \ {u} : balance'[v] = balance[v]
         /\ ledger'[ref] = Append(ledger[ref], Row(u, type, n))
         /\ \A r \in Refs \ {ref} : ledger'[r] = ledger[r]
<1>1. Row(u, type, n) \in Rows
  BY DEF Row, Rows
<1>. QED
  BY <1>1 DEF WalletTypeOK, Transfer

\* Every package that can be bought has a price and points.
LEMMA PackagesAreSold ==
  ASSUME NEW pack \in PackageIds
  PROVE  /\ PACKAGES[pack].points \in Nat
         /\ PACKAGES[pack].priceYuan * 100 \in Nat
         /\ PACKAGES[pack].priceYuan * 100 # 0
BY PackageIdsAssumption DEF PACKAGES

\* No order, no trade, no acknowledgement at first.
LEMMA InitInv == Init => IInv
<1>. SUFFICES ASSUME Init PROVE IInv
  OBVIOUS
<1>1. WalletTypeOK
  BY DEF Init, WalletInit, WalletTypeOK, welcomePoints
<1>2. TypeOK
  BY <1>1 DEF Init, TypeOK, CheckoutStates
<1>. QED
  BY <1>2 DEF Init, IInv, HandlerMatchesOrder, CreditedOnce, AckedIsCredited,
              WalletInit, NoOrder, Refs

\* Marking an open order paid writes its one row.
LEMMA MarkPaidInv ==
  ASSUME IInv, NEW o \in Orders, MarkPaid(o), checkout' = checkout, trade' = trade,
         orders[o].status \in {"pending", "paying"}, checkout[o] # "creating",
         (Development => checkout[o] = "answered") => trade[o] = amount_cents(o),
         acked' \in [Orders -> BOOLEAN],
         \A p \in Orders \ {o} : acked'[p] = acked[p]
  PROVE  IInv'
<1>. USE DEF IInv
<1>1. orders[o] \in OrderRows
  BY DEF TypeOK, NoOrder
<1>2. /\ orders'[o] \in OrderRows /\ orders'[o].status = "paid"
      /\ orders'[o].user = orders[o].user /\ orders'[o].pack = orders[o].pack
      /\ \A p \in Orders \ {o} : orders'[p] = orders[p]
      /\ orders' \in [Orders -> OrderRows \cup {NoOrder}]
  BY <1>1 DEF MarkPaid, TypeOK, OrderRows
<1>3. pointsOf(o) \in Int /\ orders[o].user \in Users /\ o \in Refs /\ "recharge" \in RowTypes
  BY <1>1, PackagesAreSold DEF pointsOf, OrderRows, Refs, RowTypes
<1>4. /\ WalletTypeOK'
      /\ ledger'[o] = Append(ledger[o], Row(orders[o].user, "recharge", pointsOf(o)))
      /\ \A r \in Refs \ {o} : ledger'[r] = ledger[r]
  BY <1>3, TransferEffect DEF TypeOK, MarkPaid
<1>5. ledger[o] = <<>>
  BY DEF CreditedOnce
<1>6. ledger'[o] = << Row(orders[o].user, "recharge", pointsOf(o)) >>
  BY <1>4, <1>5
<1>7. pointsOf(o)' = pointsOf(o) /\ amount_cents(o)' = amount_cents(o)
  BY <1>2 DEF pointsOf, amount_cents
<1>8. TypeOK'
  BY <1>2, <1>4 DEF TypeOK
<1>9. HandlerMatchesOrder'
  <2>. SUFFICES ASSUME NEW p \in Orders
                PROVE  /\ checkout[p] = "idle" <=> orders'[p] = NoOrder
                       /\ checkout[p] = "creating" => orders'[p].status = "pending"
                       /\ checkout[p] = "answered" => orders'[p].status \in {"paying", "paid"}
                       /\ trade[p] # 0 => checkout[p] = "answered"
                       /\ orders'[p].status = "paid" /\ (Development => checkout[p] = "answered")
                            => trade[p] = amount_cents(p)'
    BY DEF HandlerMatchesOrder
  <2>1. CASE p = o
    BY <1>1, <1>2, <1>7, <2>1 DEF HandlerMatchesOrder, OrderRows, NoOrder
  <2>2. CASE p # o
    BY <1>2, <2>2 DEF HandlerMatchesOrder, amount_cents
  <2>. QED
    BY <2>1, <2>2
<1>10. CreditedOnce'
  <2>. SUFFICES ASSUME NEW p \in Orders
                PROVE  ledger'[p] = IF orders'[p].status = "paid"
                                    THEN << Row(orders'[p].user, "recharge", pointsOf(p)') >>
                                    ELSE <<>>
    BY DEF CreditedOnce
  <2>1. CASE p = o
    BY <1>2, <1>6, <1>7, <2>1
  <2>2. CASE p # o
    BY <1>2, <1>4, <2>2 DEF CreditedOnce, pointsOf, Refs
  <2>. QED
    BY <2>1, <2>2
<1>11. AckedIsCredited'
  BY <1>2 DEF AckedIsCredited
<1>. QED
  BY <1>8, <1>9, <1>10, <1>11

\* A notification: of a wrong amount, of a paid order, or the one that credits.
LEMMA AlipayNotifyInv ==
  ASSUME IInv, NEW o \in Orders, AlipayNotify(o)
  PROVE  IInv'
<1>. USE DEF IInv
<1>1. /\ trade[o] # 0 /\ trade[o] = amount_cents(o)
      /\ UNCHANGED <<checkout, trade>>
      /\ acked' \in [Orders -> BOOLEAN]
      /\ \A p \in Orders \ {o} : acked'[p] = acked[p]
  BY DEF AlipayNotify, validatePaidAmount, TypeOK
<1>2. checkout[o] = "answered" /\ orders[o].status \in {"paying", "paid"}
  BY <1>1 DEF HandlerMatchesOrder
<1>3. CASE Payable(o, {"pending", "paying"})
  BY <1>1, <1>2, <1>3, MarkPaidInv DEF AlipayNotify, Payable
<1>4. CASE ~Payable(o, {"pending", "paying"})
  <2>1. UNCHANGED <<balance, ledger, orders>>
    BY <1>4 DEF AlipayNotify
  <2>2. orders[o].status = "paid"
    <3>1. SUFFICES ASSUME orders[o].status = "paying" PROVE FALSE
      BY <1>2
    <3>2. ledger[o] = <<>>
      BY <3>1 DEF CreditedOnce
    <3>. QED
      BY <1>4, <3>1, <3>2 DEF Payable
  <2>3. TypeOK'
    BY <1>1, <2>1 DEF TypeOK, WalletTypeOK
  <2>. QED
    BY <1>1, <2>1, <2>2, <2>3
       DEF HandlerMatchesOrder, CreditedOnce, AckedIsCredited, pointsOf, amount_cents
<1>. QED
  BY <1>3, <1>4

\* The checkout: the order's INSERT, the UPDATE with its form, the refusal.
LEMMA CheckoutInv ==
  ASSUME IInv, NEW o \in Orders,
         \/ \E u \in Users, pack \in PackageIds : createPendingOrder(o, u, pack)
         \/ PaymentCreated(o)
         \/ PaymentRefused(o)
  PROVE  IInv'
<1>. USE DEF IInv
<1>1. /\ UNCHANGED <<balance, ledger, trade, acked>>
      /\ checkout' \in [Orders -> CheckoutStates]
      /\ \A p \in Orders \ {o} : checkout'[p] = checkout[p] /\ orders'[p] = orders[p]
      /\ checkout'[o] \in CheckoutStates \ {"idle"}
      /\ checkout[o] \in {"idle", "creating"}
  BY DEF createPendingOrder, PaymentCreated, PaymentRefused, TypeOK, CheckoutStates
<1>2. /\ orders' \in [Orders -> OrderRows \cup {NoOrder}]
      /\ orders'[o] \in OrderRows /\ orders'[o].status \in {"pending", "paying"}
      /\ checkout'[o] = "creating" => orders'[o].status = "pending"
      /\ checkout'[o] = "answered" => orders'[o].status = "paying"
      /\ orders[o] # NoOrder => orders[o].status = "pending"
  <2>1. CASE \E u \in Users, pack \in PackageIds : createPendingOrder(o, u, pack)
    BY <2>1 DEF createPendingOrder, TypeOK, OrderRows, HandlerMatchesOrder
  <2>2. CASE PaymentCreated(o) \/ PaymentRefused(o)
    <3>1. orders[o] \in OrderRows /\ orders[o].status = "pending" /\ checkout[o] = "creating"
      BY <2>2 DEF PaymentCreated, PaymentRefused, TypeOK, HandlerMatchesOrder, NoOrder
    <3>2. CASE PaymentCreated(o)
      BY <3>1, <3>2 DEF PaymentCreated, TypeOK, OrderRows
    <3>3. CASE PaymentRefused(o)
      BY <3>1, <3>3 DEF PaymentRefused, TypeOK, OrderRows
    <3>. QED
      BY <2>2, <3>2, <3>3
  <2>. QED
    BY <2>1, <2>2
<1>3. TypeOK'
  BY <1>1, <1>2 DEF TypeOK, WalletTypeOK
<1>4. HandlerMatchesOrder'
  <2>. SUFFICES ASSUME NEW p \in Orders
                PROVE  /\ checkout'[p] = "idle" <=> orders'[p] = NoOrder
                       /\ checkout'[p] = "creating" => orders'[p].status = "pending"
                       /\ checkout'[p] = "answered" => orders'[p].status \in {"paying", "paid"}
                       /\ trade[p] # 0 => checkout'[p] = "answered"
                       /\ orders'[p].status = "paid" /\ (Development => checkout'[p] = "answered")
                            => trade[p] = amount_cents(p)'
    BY <1>1 DEF HandlerMatchesOrder
  <2>1. CASE p = o
    BY <1>1, <1>2, <2>1 DEF HandlerMatchesOrder, OrderRows, NoOrder
  <2>2. CASE p # o
    BY <1>1, <2>2 DEF HandlerMatchesOrder, amount_cents
  <2>. QED
    BY <2>1, <2>2
<1>5. CreditedOnce'
  <2>. SUFFICES ASSUME NEW p \in Orders
                PROVE  ledger[p] = IF orders'[p].status = "paid"
                                   THEN << Row(orders'[p].user, "recharge", pointsOf(p)') >>
                                   ELSE <<>>
    BY <1>1 DEF CreditedOnce
  <2>1. CASE p = o
    <3>1. orders[o].status # "paid"
      BY <1>2 DEF NoOrder
    <3>. QED
      BY <1>2, <2>1, <3>1 DEF CreditedOnce
  <2>2. CASE p # o
    BY <1>1, <2>2 DEF CreditedOnce, pointsOf
  <2>. QED
    BY <2>1, <2>2
<1>6. AckedIsCredited'
  <2>1. orders[o].status # "paid"
    BY <1>2 DEF NoOrder
  <2>. QED
    BY <1>1, <2>1 DEF AckedIsCredited
<1>. QED
  BY <1>3, <1>4, <1>5, <1>6

\* Every step preserves the inductive invariant.
LEMMA NextInv ==
  ASSUME IInv, [Next]_payVars
  PROVE  IInv'
<1>1. ASSUME NEW o \in Orders, OrderStep(o) PROVE IInv'
  <2>1. CASE \/ \E u \in Users, pack \in PackageIds : createPendingOrder(o, u, pack)
             \/ PaymentCreated(o) \/ PaymentRefused(o)
    BY <2>1, CheckoutInv
  <2>2. ASSUME checkout[o] = "answered", NEW cents \in {amount_cents(o)} \cup OtherAmounts,
               CustomerPays(o, cents)
        PROVE  IInv'
    <3>. USE DEF IInv
    <3>1. orders[o] \in OrderRows
      BY <2>2 DEF TypeOK, HandlerMatchesOrder, NoOrder
    <3>2. cents \in Int
      <4>1. amount_cents(o) \in Int
        BY <3>1, PackagesAreSold DEF amount_cents, OrderRows
      <4>. QED
        BY <2>2, <4>1, AmountsAssumption
    <3>3. /\ UNCHANGED <<balance, ledger, checkout, orders, acked>>
          /\ trade' \in [Orders -> Int] /\ trade[o] = 0
          /\ \A p \in Orders \ {o} : trade'[p] = trade[p]
      BY <2>2, <3>2 DEF CustomerPays, TypeOK
    <3>4. (Development => checkout[o] = "answered") => orders[o].status # "paid"
      <4>1. amount_cents(o) # 0
        BY <3>1, PackagesAreSold DEF amount_cents, OrderRows
      <4>. QED
        BY <3>3, <4>1 DEF HandlerMatchesOrder
    <3>5. TypeOK'
      BY <3>3 DEF TypeOK, WalletTypeOK
    <3>6. HandlerMatchesOrder'
      BY <2>2, <3>3, <3>4 DEF HandlerMatchesOrder, amount_cents
    <3>. QED
      BY <3>3, <3>5, <3>6 DEF CreditedOnce, AckedIsCredited, pointsOf
  <2>3. CASE AlipayNotify(o)
    BY <2>3, AlipayNotifyInv
  <2>4. CASE MockComplete(o)
    <3>1. acked' \in [Orders -> BOOLEAN]
      BY <2>4 DEF MockComplete, IInv, TypeOK
    <3>2. Development /\ checkout[o] # "answered"
      BY <2>4 DEF MockComplete, Payable, IInv, HandlerMatchesOrder
    <3>. QED
      BY <2>4, <3>1, <3>2, MarkPaidInv DEF MockComplete, Payable
  <2>. QED
    BY <1>1, <2>1, <2>2, <2>3, <2>4 DEF OrderStep
<1>2. CASE Crash
  <2>1. checkout' \in [Orders -> CheckoutStates]
    BY <1>2 DEF Crash, IInv, TypeOK, CheckoutStates
  <2>2. TypeOK'
    BY <1>2, <2>1 DEF Crash, IInv, TypeOK, WalletTypeOK
  <2>. QED
    BY <1>2, <2>2 DEF Crash, IInv, HandlerMatchesOrder, CreditedOnce, AckedIsCredited,
                      pointsOf, amount_cents
<1>3. CASE UNCHANGED payVars
  BY <1>3 DEF payVars, IInv, TypeOK, WalletTypeOK, HandlerMatchesOrder, CreditedOnce,
              AckedIsCredited, pointsOf, amount_cents
<1>. QED
  BY <1>1, <1>2, <1>3 DEF Next

\* The inductive invariant holds in every reachable state: types, which rows a
\* checkout or a notification can meet, and the two properties of credits.
THEOREM InductiveInvariant == Spec => []IInv
<1>1. Init => IInv
  BY InitInv
<1>2. IInv /\ [Next]_payVars => IInv'
  BY NextInv
<1>. QED
  BY <1>1, <1>2, PTL DEF Spec

\* However often Alipay repeats itself, an order is credited once, to its buyer,
\* exactly when it is marked paid.
THEOREM AlwaysCreditedOnce == Spec => []CreditedOnce
<1>1. IInv => CreditedOnce
  BY DEF IInv
<1>. QED
  BY <1>1, InductiveInvariant, PTL

\* Nothing Alipay was told "success" about is left uncredited.
THEOREM AcknowledgedIsCredited == Spec => []AckedIsCredited
<1>1. IInv => AckedIsCredited
  BY DEF IInv
<1>. QED
  BY <1>1, InductiveInvariant, PTL

\* In production a credited order was paid in full, no more and no less.
THEOREM CreditsArePaidFor == Spec => []CreditWasPaidFor
<1>1. IInv => CreditWasPaidFor
  BY DEF IInv, HandlerMatchesOrder, CreditWasPaidFor
<1>. QED
  BY <1>1, InductiveInvariant, PTL

\* A step that finds an order paid leaves its row alone.
LEMMA PaidRowKept ==
  ASSUME IInv, [Next]_payVars, NEW p \in Orders, orders[p].status = "paid"
  PROVE  orders'[p] = orders[p]
<1>1. checkout[p] \notin {"idle", "creating"}
  BY DEF IInv, HandlerMatchesOrder, NoOrder
<1>2. ASSUME NEW o \in Orders, OrderStep(o) PROVE orders'[p] = orders[p]
  <2>1. CASE AlipayNotify(o) \/ MockComplete(o)
    BY <2>1 DEF AlipayNotify, MockComplete, MarkPaid, Payable, IInv, TypeOK
  <2>2. CASE ~(AlipayNotify(o) \/ MockComplete(o))
    BY <1>1, <1>2, <2>2 DEF OrderStep, createPendingOrder, PaymentCreated,
                           PaymentRefused, CustomerPays, IInv, TypeOK
  <2>. QED
    BY <2>1, <2>2
<1>. QED
  BY <1>2 DEF Next, Crash, payVars

\* No handler takes a paid order back.
THEOREM StaysPaid == Spec => PaidForGood
<1>1. IInv /\ [Next]_payVars =>
        [ \A o \in Orders : orders[o].status = "paid" => orders'[o] = orders[o] ]_payVars
  BY PaidRowKept
<1>. QED
  BY <1>1, InductiveInvariant, PTL DEF Spec, PaidForGood

-----------------------------------------------------------------------------
(* Payments implements PointsAccount. *)

\* The initial states map to initial states.
LEMMA InitMaps == Init => PA!Init
<1>. SUFFICES ASSUME Init PROVE PA!Init
  OBVIOUS
<1>1. \A r \in Refs : accountOf(r) = [phase |-> "none"]
  BY DEF Init, accountOf, NoOrder
<1>. QED
  BY <1>1 DEF Init, WalletInit, PA!Init, PA!Untouched, Refs

\* Marking an order paid is a TopUp of the promise.
LEMMA MarkPaidTopsUp ==
  ASSUME IInv, NEW o \in Orders, MarkPaid(o),
         orders[o].status \in {"pending", "paying"}
  PROVE  PA!Next
<1>1. orders[o] \in OrderRows
  BY DEF IInv, TypeOK, NoOrder
<1>2. /\ orders'[o].status = "paid" /\ orders'[o].user = orders[o].user
      /\ orders'[o].pack = orders[o].pack
      /\ \A r \in Orders \ {o} : orders'[r] = orders[r]
  BY <1>1 DEF MarkPaid, IInv, TypeOK, OrderRows
<1>3. accountOf(o) = [phase |-> "none"]
  BY DEF accountOf
<1>4. accountOf(o)' = [phase |-> "toppedUp", user |-> orders[o].user, points |-> pointsOf(o)]
  BY <1>2 DEF accountOf, pointsOf
<1>5. \A r \in Refs \ {o} : accountOf(r)' = accountOf(r)
  BY <1>2 DEF accountOf, pointsOf
<1>6. PA!TopUp(o, orders[o].user, pointsOf(o))
  BY <1>3, <1>4, <1>5 DEF PA!TopUp, PA!Untouched, PA!ToppedUp, MarkPaid, Transfer, Refs
<1>7. /\ orders[o].user \in Users
      /\ pointsOf(o) \in {PACKAGES[pack].points : pack \in PackageIds}
  BY <1>1 DEF OrderRows, pointsOf
<1>. QED
  BY <1>6, <1>7 DEF PA!Next

\* Every step is a step of the promise or a stutter.
LEMMA StepMaps ==
  ASSUME IInv, [Next]_payVars
  PROVE  [PA!Next]_(PA!paVars)
<1>1. ASSUME NEW o \in Orders, OrderStep(o) PROVE [PA!Next]_(PA!paVars)
  <2>1. CASE MarkPaid(o) /\ orders[o].status \in {"pending", "paying"}
    BY <2>1, MarkPaidTopsUp
  <2>2. CASE UNCHANGED <<balance, orders>>
    <3>1. \A r \in Refs : accountOf(r)' = accountOf(r)
      BY <2>2 DEF accountOf, pointsOf
    <3>. QED
      BY <2>2, <3>1 DEF PA!paVars
  <2>3. CASE /\ orders[o].status # "paid" /\ orders'[o].status # "paid"
             /\ balance' = balance
             /\ \A r \in Orders \ {o} : orders'[r] = orders[r]
    <3>1. \A r \in Refs : accountOf(r)' = accountOf(r)
      BY <2>3 DEF accountOf, pointsOf
    <3>. QED
      BY <2>3, <3>1 DEF PA!paVars
  <2>4. CASE \/ \E u \in Users, pack \in PackageIds : createPendingOrder(o, u, pack)
             \/ PaymentCreated(o)
    <3>1. CASE \E u \in Users, pack \in PackageIds : createPendingOrder(o, u, pack)
      BY <2>3, <3>1 DEF createPendingOrder, IInv, TypeOK, HandlerMatchesOrder, NoOrder
    <3>2. CASE PaymentCreated(o)
      <4>1. orders[o] \in OrderRows /\ orders[o].status = "pending"
        BY <3>2 DEF PaymentCreated, IInv, TypeOK, HandlerMatchesOrder, NoOrder
      <4>. QED
        BY <2>3, <3>2, <4>1 DEF PaymentCreated, IInv, TypeOK, OrderRows
    <3>. QED
      BY <2>4, <3>1, <3>2
  <2>5. CASE AlipayNotify(o) \/ MockComplete(o)
    BY <2>1, <2>2, <2>5 DEF AlipayNotify, MockComplete, Payable
  <2>. QED
    BY <1>1, <2>2, <2>4, <2>5 DEF OrderStep, PaymentRefused, CustomerPays
<1>2. CASE UNCHANGED <<balance, orders>>
  <2>1. \A r \in Refs : accountOf(r)' = accountOf(r)
    BY <1>2 DEF accountOf, pointsOf
  <2>. QED
    BY <1>2, <2>1 DEF PA!paVars
<1>. QED
  BY <1>1, <1>2 DEF Next, Crash, payVars

\* Orders move balances only by one top-up each, with the points of the package.
THEOREM PaymentsKeepAccounts == Spec => KeepsAccounts
<1>1. Init => PA!Init
  BY InitMaps
<1>2. IInv /\ [Next]_payVars => [PA!Next]_(PA!paVars)
  BY StepMaps
<1>. QED
  BY <1>1, <1>2, InductiveInvariant, PTL DEF Spec, KeepsAccounts, PA!Spec
=============================================================================

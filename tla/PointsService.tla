--------------------------- MODULE PointsService ---------------------------
(***************************************************************************)
(* The whole service: the erase-job handlers and the payment handlers in   *)
(* one Node process, over one database.  Each module leaves the other's    *)
(* state to an environment; here each is the other's environment.          *)
(***************************************************************************)
EXTENDS JobLedger

CONSTANTS PackageIds, OtherAmounts, Development  \* of Payments

\* JobLedger's environment credits what Payments sells.
ASSUME PackagesAgree == PackagePoints = {PACKAGES[pack].points : pack \in PackageIds}
ASSUME OrdersAssumption == PackageIds \subseteq DOMAIN PACKAGES /\ OtherAmounts \subseteq Int

VARIABLES checkout, orders, trade, acked

Pay == INSTANCE Payments

jobVars == <<post, jobs, provider, poll>>
orderVars == <<checkout, orders, trade, acked>>
serviceVars == <<vars, orderVars>>

ServiceInit == Init /\ Pay!Init

\* A restart ends the handlers of both parts.
Restart ==
  /\ Crash
  /\ checkout' = [o \in Orders |-> IF checkout[o] = "creating" THEN "dead" ELSE checkout[o]]
  /\ UNCHANGED <<orders, trade, acked>>

JobStep ==
  \/ \E j \in Jobs : PostStep(j) \/ ProviderStep(j)
  \/ \E j \in Jobs, s \in Slots : PollStep(j, s)

ServiceNext ==
  \/ JobStep /\ UNCHANGED orderVars
  \/ (\E o \in Orders : Pay!OrderStep(o)) /\ UNCHANGED jobVars
  \/ Restart

ServiceSpec == ServiceInit /\ [][ServiceNext]_serviceVars

\* What the payment handlers do is what JobLedger expects of its environment:
\* credits of unused orders, for a registered user and a package's points.
JobsSeeCredits == Spec
=============================================================================

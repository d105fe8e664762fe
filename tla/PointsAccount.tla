--------------------------- MODULE PointsAccount ---------------------------
(***************************************************************************)
(* What the service promises about points, whatever its handlers do: a     *)
(* user's balance pays for a job by a hold, a hold is closed once and      *)
(* gives back all it does not charge, an order tops a balance up once, and *)
(* nobody's balance moves for any other reason or falls below zero.        *)
(***************************************************************************)
EXTENDS Integers

CONSTANTS Users, Jobs, Orders,
          Welcome,       \* points a new account is given
          Prices,        \* points a job can freeze
          PackagePoints  \* points an order can buy

VARIABLES balance,  \* points each user can spend
          account   \* what each job or order has done to a balance

paVars == <<balance, account>>

Untouched == [phase |-> "none"]
Held(u, points) == [phase |-> "held", user |-> u, points |-> points]
Closed(u, points, charged) ==
  [phase |-> "closed", user |-> u, points |-> points, charged |-> charged]
ToppedUp(u, points) == [phase |-> "toppedUp", user |-> u, points |-> points]

Init ==
  /\ balance = [u \in Users |-> Welcome]
  /\ account = [r \in Jobs \cup Orders |-> Untouched]

Hold(j, u, points) ==
  /\ account[j] = Untouched
  /\ points <= balance[u]
  /\ account' = [account EXCEPT ![j] = Held(u, points)]
  /\ balance' = [balance EXCEPT ![u] = @ - points]

Close(j, charged) ==
  /\ account[j].phase = "held"
  /\ charged \in 0 .. account[j].points
  /\ account' = [account EXCEPT ![j] =
                   Closed(account[j].user, account[j].points, charged)]
  /\ balance' = [balance EXCEPT ![account[j].user] =
                   @ + (account[j].points - charged)]

TopUp(o, u, points) ==
  /\ account[o] = Untouched
  /\ account' = [account EXCEPT ![o] = ToppedUp(u, points)]
  /\ balance' = [balance EXCEPT ![u] = @ + points]

Next ==
  \/ \E j \in Jobs, u \in Users, points \in Prices : Hold(j, u, points)
  \/ \E j \in Jobs : /\ account[j].phase = "held"
                      /\ \E charged \in 0 .. account[j].points : Close(j, charged)
  \/ \E o \in Orders, u \in Users, points \in PackagePoints : TopUp(o, u, points)

Spec == Init /\ [][Next]_paVars
=============================================================================

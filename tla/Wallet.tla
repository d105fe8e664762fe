------------------------------- MODULE Wallet -------------------------------
(***************************************************************************)
(* The two pieces of SQLite state every money-moving handler of the        *)
(* service shares: users.points_balance, and the table point_transactions, *)
(* kept here as one sequence of rows per reference_id (a job or an order). *)
(* Row ids, notes and timestamps are left out.                             *)
(***************************************************************************)
EXTENDS Integers, Sequences

CONSTANTS Users,   \* registered accounts
          Jobs,    \* ids of erase jobs, one per POST /api/jobs
          Orders   \* ids of recharge orders

VARIABLES balance, \* users.points_balance
          ledger   \* point_transactions, by reference_id

walletVars == <<balance, ledger>>

Refs == Jobs \cup Orders

\* Points a new account is opened with; createUser writes no ledger row for them.
welcomePoints == 20

RowTypes == {"reserve", "settlement", "refund", "recharge"}
Rows == [user : Users, type : RowTypes, points : Int]

Row(u, type, points) == [user |-> u, type |-> type, points |-> points]

WalletTypeOK ==
  /\ balance \in [Users -> Int]
  /\ ledger \in [Refs -> Seq(Rows)]

WalletInit ==
  /\ balance = [u \in Users |-> welcomePoints]
  /\ ledger = [r \in Refs |-> <<>>]

\* Mutant of Transfer: the row carries the amount without its sign.
Transfer_Unsigned(u, ref, type, points) ==
  /\ balance' = [balance EXCEPT ![u] = @ + points]
  /\ ledger' = [ledger EXCEPT ![ref] =
                  Append(@, Row(u, type, IF points < 0 THEN -points ELSE points))]

\* One SQLite transaction: move the balance and write the row that explains it.
Transfer(u, ref, type, points) ==
  /\ balance' = [balance EXCEPT ![u] = @ + points]
  /\ ledger' = [ledger EXCEPT ![ref] = Append(@, Row(u, type, points))]
=============================================================================

SPECIFICATION FairSpec
CONSTANTS
  Users = {u1, u2}
  Jobs = {}
  Orders = {o1, o2}
  PackageIds = {"starter", "creator"}
  OtherAmounts = {1, 9900}
  Development = TRUE
INVARIANTS
  CreditedOnce
  CreditWasPaidFor
  AckedIsCredited
PROPERTIES
  PaidForGood
  KeepsAccounts
  PaymentIsCredited
CHECK_DEADLOCK FALSE

---------------------------- MODULE MCPayments ----------------------------
(* A cash purchase (the client pays, no lender), and one with a lender; three versions of details. *)
EXTENDS Payments, TLC

CONSTANTS a1, a2

MCAccounts == {a1, a2}
MCOneAccount == {a1}
MCSymmetry == Permutations(MCAccounts)

(* From the point where our client account's details are verified and the papers are in. *)
AccountVerified ==
  [payee |-> FirmClientAccount, account |-> a1, status |-> "verified", verifiedAt |-> TRUE,
   decision |-> "actioned", senior |-> "none"]

PreparedInit ==
  /\ records = <<AccountVerified>>
  /\ payments = {}
  /\ stage = "pre_completion"
  /\ certificate = TRUE /\ papers = TRUE /\ hold = FALSE
  /\ requested = {} /\ receivedFrom = {} /\ allReceived = FALSE /\ short = FALSE
  /\ uncleared = 0
  /\ sent = FALSE /\ confirmed = FALSE

PreparedSpec == PreparedInit /\ [][Next]_vars /\ Fairness
=============================================================================

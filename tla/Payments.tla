------------------------------ MODULE Payments ------------------------------
(***************************************************************************)
(* Payment verification and completion of a purchase (lib/server/engine:    *)
(* machine.ts, projection.ts): the versioned bank details of each payee,    *)
(* the hard-stop decision every new version raises, its escalation to a     *)
(* senior, the requests for and receipts of the completion money, the       *)
(* authorisation of the transfer, its sending, and completion.              *)
(*                                                                          *)
(* One action is one command of the decision core, with the events it       *)
(* emits folded into the state; commands on a matter run one at a time      *)
(* (module MatterLog).  Every command here except recording details and     *)
(* receipts is refused to automation (isUserActor): the actor is always a   *)
(* person and is not modelled.  Every request and receipt has an amount,    *)
(* abstracted to whether the shortfall issue is open after the receipt.     *)
(***************************************************************************)
EXTENDS Naturals, Sequences

CONSTANTS
  Payees,       \* kinds of payee whose details the matter holds
  SellerSolicitor, FirmClientAccount,
  Accounts,     \* account details, as far as they are told apart
  Payers,       \* payersExpected: the client, and the lender when there is one
  Lender,
  MaxRecords,   \* bound on the versions of bank details recorded
  MaxUncleared  \* bound on the receipts waiting to clear

ASSUME PayeesAssumption == SellerSolicitor \in Payees /\ FirmClientAccount \in Payees /\ SellerSolicitor # FirmClientAccount
ASSUME PayersAssumption == Payers # {}
ASSUME BoundsAssumption == MaxRecords \in Nat /\ MaxUncleared \in Nat

VARIABLES
  records,       \* bankDetails, oldest first, each with its decision and the escalation of it
  payments,      \* the completion payments authorised: payee and record
  stage,         \* from pre_exchange on
  certificate,   \* deeds.certificateOfTitleAt
  papers,        \* the other papers completion needs (deeds, OS1, lender's checks, TA13)
  hold,          \* an uncleared sanctions match or an AML hold
  requested,     \* open funds waits
  receivedFrom,  \* completion.receivedFrom
  allReceived,   \* completion.fundsReceivedAt
  short,         \* the completion_funds_shortfall issue is open
  uncleared,     \* the number of receipts waiting to clear
  sent,          \* completion.paymentSent
  confirmed      \* completion.confirmedAt

matter == <<stage, certificate, papers, hold>>
money == <<requested, receivedFrom, allReceived, short, uncleared>>
vars == <<records, payments, matter, money, sent, confirmed>>

Stages == {"pre_exchange", "exchanged", "pre_completion", "completed"}

(* A version of a payee's details.  decision: with the handler ("pending", then "opened" once the    *)
(* source has been opened), escalated, or answered.  senior: the escalation raised from it, if any.  *)
Records ==
  [payee : Payees, account : Accounts,
   status : {"unverified", "verified", "superseded", "failed"}, verifiedAt : BOOLEAN,
   decision : {"pending", "opened", "escalated", "actioned"},
   senior : {"none", "pending", "opened", "actioned"}]

Ids == 1..Len(records)

(* currentBankDetails: the newest version of a payee's details, whatever its status. *)
IsCurrent(k) == \A j \in Ids : records[j].payee = records[k].payee => j <= k

(* pendingBankDetailsDecision: escalated decisions do not count. *)
DecisionPending(k) == records[k].decision \in {"pending", "opened"}
HardStop(p) == \E k \in Ids : records[k].payee = p /\ DecisionPending(k)

(* Mutant: the details' status is not checked. *)
PayableUnverified(p, k) == records[k].payee = p /\ ~HardStop(p) /\ IsCurrent(k)

(* assertPayableDetails *)
Payable(p, k) ==
  /\ records[k].payee = p
  /\ ~HardStop(p)
  /\ IsCurrent(k)
  /\ records[k].status = "verified"

CompletionPayments == {x \in payments : x.payee = SellerSolicitor}

-----------------------------------------------------------------------------

Init ==
  /\ records = <<>>
  /\ payments = {}
  /\ stage = "pre_exchange"
  /\ certificate = FALSE /\ papers = FALSE /\ hold = FALSE
  /\ requested = {} /\ receivedFrom = {} /\ allReceived = FALSE /\ short = FALSE
  /\ uncleared = 0
  /\ sent = FALSE /\ confirmed = FALSE

(* Mutant: details once verified stay so until the new version is. *)
SupersededUnlessVerified(r, p) == IF r.payee = p /\ r.status = "unverified" THEN [r EXCEPT !.status = "superseded"] ELSE r

(* What recording a version of the payee's details does to a version before it. *)
Superseded(r, p) == IF r.payee = p /\ r.status # "failed" THEN [r EXCEPT !.status = "superseded"] ELSE r

(* Mutant: the first details of a payee raise no decision. *)
RecordFirstUnflagged(p, a) ==
  /\ Len(records) < MaxRecords
  /\ ~\E k \in Ids : /\ records[k].payee = p /\ IsCurrent(k)
                     /\ records[k].account = a /\ records[k].status = "verified"
  /\ records' = Append([k \in Ids |-> Superseded(records[k], p)],
                       [payee |-> p, account |-> a, status |-> "unverified", verifiedAt |-> FALSE,
                        decision |-> IF \E k \in Ids : records[k].payee = p THEN "pending" ELSE "actioned",
                        senior |-> "none"])
  /\ UNCHANGED <<payments, matter, money, sent, confirmed>>

(* record_bank_details: a new version supersedes every version of the payee's that has not failed,   *)
(* and is flagged for verification.  Only the details already current and verified are refused.      *)
RecordBankDetails(p, a) ==
  /\ Len(records) < MaxRecords
  /\ ~\E k \in Ids : /\ records[k].payee = p /\ IsCurrent(k)
                     /\ records[k].account = a /\ records[k].status = "verified"
  /\ records' = Append([k \in Ids |-> Superseded(records[k], p)],
                       [payee |-> p, account |-> a, status |-> "unverified", verifiedAt |-> FALSE,
                        decision |-> "pending", senior |-> "none"])
  /\ UNCHANGED <<payments, matter, money, sent, confirmed>>

(* A decision command rewrites the version it is about, and nothing else. *)
Rewrite(k, version) ==
  /\ records' = [records EXCEPT ![k] = version]
  /\ UNCHANGED <<payments, matter, money, sent, confirmed>>

(* open_decision_source: the handler opens the document the details arrived on. *)
OpenSource(k) ==
  /\ records[k].decision = "pending"
  /\ Rewrite(k, [records[k] EXCEPT !.decision = "opened"])

(* Mutant: a late answer verifies a superseded version. *)
VerifyAnyStatus(k) ==
  /\ records[k].decision = "opened"
  /\ Rewrite(k, [records[k] EXCEPT !.status = "verified", !.verifiedAt = TRUE, !.decision = "actioned"])

(* resolve_decision: verify.  The decision is answered; the record is verified if it is still unverified. *)
Verify(k) ==
  /\ records[k].decision = "opened"
  /\ IF records[k].status = "unverified"
     THEN Rewrite(k, [records[k] EXCEPT !.status = "verified", !.verifiedAt = TRUE, !.decision = "actioned"])
     ELSE Rewrite(k, [records[k] EXCEPT !.decision = "actioned"])

(* resolve_decision: reject.  The details failed verification, whatever their status. *)
Reject(k) ==
  /\ records[k].decision = "opened"
  /\ Rewrite(k, [records[k] EXCEPT !.status = "failed", !.decision = "actioned"])

(* resolve_decision: escalate.  A decision of the senior's own is raised; the original one leaves the list. *)
Escalate(k) ==
  /\ records[k].decision = "opened"
  /\ Rewrite(k, [records[k] EXCEPT !.decision = "escalated", !.senior = "pending"])

SeniorOpensSource(k) ==
  /\ records[k].senior = "pending"
  /\ Rewrite(k, [records[k] EXCEPT !.senior = "opened"])

(* The senior's answer to an escalated bank_details decision only records their view. *)
SeniorAnswers(k) ==
  /\ records[k].senior = "opened"
  /\ Rewrite(k, [records[k] EXCEPT !.senior = "actioned"])

(* ...or the escalation is escalated again: a fresh decision with the same origin. *)
SeniorEscalates(k) ==
  /\ records[k].senior = "opened"
  /\ Rewrite(k, [records[k] EXCEPT !.senior = "pending"])

-----------------------------------------------------------------------------
(* The rest of the matter, as far as the payment commands read it *)

(* contracts_exchanged and the completion statement, which move the stage on to pre_completion. *)
AdvanceStage ==
  /\ \/ stage = "pre_exchange" /\ stage' = "exchanged"
     \/ stage = "exchanged" /\ stage' = "pre_completion"
  /\ UNCHANGED <<records, payments, certificate, papers, hold, money, sent, confirmed>>

CertificateSent ==
  /\ ~certificate /\ certificate' = TRUE
  /\ UNCHANGED <<records, payments, stage, papers, hold, money, sent, confirmed>>

PapersComplete ==
  /\ ~papers /\ papers' = TRUE
  /\ UNCHANGED <<records, payments, stage, certificate, hold, money, sent, confirmed>>

HoldChanges ==
  /\ hold' = ~hold
  /\ UNCHANGED <<records, payments, stage, certificate, papers, money, sent, confirmed>>

-----------------------------------------------------------------------------
(* Money *)

(* funds_requested: the payer is told to pay our client account, by its verified details. *)
MayRequest(r, k) ==
  /\ ~hold
  /\ stage = "pre_completion"
  /\ r = Lender => certificate
  /\ r \notin requested
  /\ Payable(FirmClientAccount, k)

RequestFunds(r, k) ==
  /\ MayRequest(r, k)
  /\ requested' = requested \cup {r}
  /\ UNCHANGED <<records, payments, matter, receivedFrom, allReceived, short, uncleared, sent, confirmed>>

(* Mutant: money can still be received after completion. *)
ReceiveAfterCompletion(r, isCleared, leavesShort) ==
  /\ r \in requested \/ (r \in receivedFrom /\ short)
  /\ isCleared \/ uncleared < MaxUncleared
  /\ leavesShort => short \/ r \notin receivedFrom
  /\ requested' = requested \ {r}
  /\ receivedFrom' = receivedFrom \cup {r}
  /\ uncleared' = IF isCleared THEN uncleared ELSE uncleared + 1
  /\ allReceived' = (allReceived \/ (requested' = {} /\ Payers \subseteq receivedFrom'))
  /\ short' = leavesShort
  /\ UNCHANGED <<records, payments, matter, sent, confirmed>>

(* funds_received: against an open request, or as a top-up of a short payment.  A receipt that is not  *)
(* yet cleared is listed; what has come in leaves the matter short or not.  Only the payers who have   *)
(* sent something count (position), so more money from one of them never opens a shortfall.             *)
MayReceive(r, isCleared, leavesShort) ==
  /\ ~confirmed
  /\ r \in requested \/ (r \in receivedFrom /\ short)
  /\ isCleared \/ uncleared < MaxUncleared
  /\ leavesShort => short \/ r \notin receivedFrom

(* Mutant: whether everyone has paid is worked out from who had paid before this receipt. *)
ReceiveCountsBefore(r, isCleared, leavesShort) ==
  /\ MayReceive(r, isCleared, leavesShort)
  /\ requested' = requested \ {r}
  /\ receivedFrom' = receivedFrom \cup {r}
  /\ uncleared' = IF isCleared THEN uncleared ELSE uncleared + 1
  /\ allReceived' = (allReceived \/ (requested' = {} /\ Payers \subseteq receivedFrom))
  /\ short' = leavesShort
  /\ UNCHANGED <<records, payments, matter, sent, confirmed>>

(* The payer's request is met; everyone has paid once no request is open. *)
ReceiveFunds(r, isCleared, leavesShort) ==
  /\ MayReceive(r, isCleared, leavesShort)
  /\ requested' = requested \ {r}
  /\ receivedFrom' = receivedFrom \cup {r}
  /\ uncleared' = IF isCleared THEN uncleared ELSE uncleared + 1
  /\ allReceived' = (allReceived \/ (requested' = {} /\ Payers \subseteq receivedFrom'))
  /\ short' = leavesShort
  /\ UNCHANGED <<records, payments, matter, sent, confirmed>>

(* Mutant: clearing is recorded without a receipt that waits for it. *)
ClearUnlisted ==
  /\ uncleared' = uncleared - 1
  /\ UNCHANGED <<records, payments, matter, requested, receivedFrom, allReceived, short, sent, confirmed>>

(* funds_cleared *)
ClearFunds ==
  /\ uncleared > 0
  /\ uncleared' = uncleared - 1
  /\ UNCHANGED <<records, payments, matter, requested, receivedFrom, allReceived, short, sent, confirmed>>

(* payment_authorised, for completion monies: once per payee. *)
MayAuthorise(p, k) ==
  /\ ~hold
  /\ uncleared = 0
  /\ Payable(p, k)
  /\ ~\E x \in payments : x.payee = p

AuthorisePayment(p, k) ==
  /\ MayAuthorise(p, k)
  /\ payments' = payments \cup {[payee |-> p, record |-> k]}
  /\ UNCHANGED <<records, matter, money, sent, confirmed>>

(* completion_payment_sent: the CHAPS transfer is recorded as sent. *)
MaySend == stage = "pre_completion" /\ ~hold /\ CompletionPayments # {} /\ ~sent

SendCompletionPayment ==
  /\ MaySend
  /\ sent' = TRUE
  /\ UNCHANGED <<records, payments, matter, money, confirmed>>

(* Mutant: completion does not look at the details again. *)
ConfirmOnAuthorisation ==
  /\ stage = "pre_completion"
  /\ ~hold
  /\ uncleared = 0
  /\ ~short
  /\ papers
  /\ Lender \in Payers => certificate
  /\ Payers \subseteq receivedFrom
  /\ allReceived
  /\ sent
  /\ CompletionPayments # {}
  /\ confirmed' = TRUE
  /\ stage' = "completed"
  /\ UNCHANGED <<records, payments, certificate, papers, hold, money, sent>>

(* completion_confirmed, and the stage it moves on. *)
MayConfirm ==
  /\ stage = "pre_completion"
  /\ ~hold
  /\ uncleared = 0
  /\ ~short
  /\ papers
  /\ Lender \in Payers => certificate
  /\ Payers \subseteq receivedFrom
  /\ allReceived
  /\ ~HardStop(SellerSolicitor)
  /\ sent
  /\ \E x \in CompletionPayments : IsCurrent(x.record) /\ records[x.record].status = "verified"

ConfirmCompletion ==
  /\ MayConfirm
  /\ confirmed' = TRUE
  /\ stage' = "completed"
  /\ UNCHANGED <<records, payments, certificate, papers, hold, money, sent>>

-----------------------------------------------------------------------------

Decisions(k) ==
  OpenSource(k) \/ Verify(k) \/ Reject(k) \/ Escalate(k)
    \/ SeniorOpensSource(k) \/ SeniorAnswers(k) \/ SeniorEscalates(k)

Next ==
  \/ \E p \in Payees, a \in Accounts : RecordBankDetails(p, a)
  \/ \E k \in Ids : Decisions(k)
  \/ AdvanceStage \/ CertificateSent \/ PapersComplete \/ HoldChanges
  \/ \E r \in Payers, k \in Ids : RequestFunds(r, k)
  \/ \E r \in Payers, isCleared \in BOOLEAN, leavesShort \in BOOLEAN : ReceiveFunds(r, isCleared, leavesShort)
  \/ ClearFunds
  \/ \E p \in Payees, k \in Ids : AuthorisePayment(p, k)
  \/ SendCompletionPayment \/ ConfirmCompletion

Spec == Init /\ [][Next]_vars

(* The people who work the case do what is on their list, and the payers answer what they are asked     *)
(* (the premise of tests/unit/engine/no-stall.test.ts): nothing is assumed of the details recorded, of  *)
(* how decisions are answered, or of holds.                                                             *)
Fairness ==
  /\ WF_vars(AdvanceStage) /\ WF_vars(CertificateSent) /\ WF_vars(PapersComplete)
  /\ \A r \in Payers : /\ SF_vars(r \notin receivedFrom /\ \E k \in Ids : RequestFunds(r, k))
                        /\ SF_vars(ReceiveFunds(r, TRUE, FALSE))
  /\ WF_vars(ClearFunds)
  /\ SF_vars(\E k \in Ids : AuthorisePayment(SellerSolicitor, k))
  /\ SF_vars(SendCompletionPayment) /\ SF_vars(ConfirmCompletion)

FairSpec == Spec /\ Fairness

-----------------------------------------------------------------------------
(* Properties *)

(* Every variable has its type: versions of details with their decisions, and the money's state. *)
TypeOK ==
  /\ records \in Seq(Records) /\ Len(records) <= MaxRecords
  /\ payments \subseteq [payee : Payees, record : Ids]
  /\ stage \in Stages
  /\ certificate \in BOOLEAN /\ papers \in BOOLEAN /\ hold \in BOOLEAN
  /\ requested \subseteq Payers /\ receivedFrom \subseteq Payers
  /\ allReceived \in BOOLEAN /\ short \in BOOLEAN
  /\ uncleared \in 0..MaxUncleared
  /\ sent \in BOOLEAN /\ confirmed \in BOOLEAN

(* Only the newest version of a payee's details is ever verified or waiting to be: late answers to the  *)
(* decision on an older version never make it payable again.                                            *)
LiveVersionIsNewest == \A k \in Ids : records[k].status \in {"unverified", "verified"} => IsCurrent(k)

(* Money is only ever authorised to details that were verified out-of-band, of the payee it goes to,  *)
(* and that nobody has since recorded as failed, whatever decisions are answered later.                *)
PaidDetailsWereVerified ==
  \A x \in payments : /\ records[x.record].payee = x.payee
                      /\ records[x.record].verifiedAt
                      /\ records[x.record].status \in {"verified", "superseded"}

(* A matter completes on cleared money in full, sent against an authorised payment, and stays so:      *)
(* no receipt, request or decision after completion leaves it with money that has not cleared.          *)
CompletedOnClearedMoney ==
  confirmed => /\ uncleared = 0 /\ ~short /\ Payers \subseteq receivedFrom
               /\ sent /\ CompletionPayments # {} /\ stage = "completed"

(* A verification stands: verified details only ever become superseded, failed or superseded ones never  *)
(* become payable, and what was verified stays on record (migration 070's trigger).                       *)
StatusStep(a, b) ==
  \/ a.status = b.status
  \/ a.status = "unverified" /\ b.status \in {"verified", "superseded", "failed"}
  \/ a.status = "verified" /\ b.status = "superseded"
  \/ a.status = "superseded" /\ b.status = "failed" /\ ~b.verifiedAt
VerificationKept ==
  \A k \in Ids : /\ StatusStep(records[k], records'[k])
                 /\ records[k].verifiedAt => records'[k].verifiedAt
VerificationStands == [][VerificationKept]_vars

(* The details each payee may be paid by, and the completion payment's. *)
VerifiedOf(p) == {k \in Ids : records[k].payee = p /\ records[k].status = "verified"}
TheRecord(S) == IF S = {} THEN 0 ELSE CHOOSE k \in S : TRUE
TrustedRecord(p) == TheRecord(VerifiedOf(p))
AuthorisedRecord == TheRecord({x.record : x \in CompletionPayments})

(* The payment commands implement the promise of module PaymentRelease. *)
Release == INSTANCE PaymentRelease WITH
  CompletionPayee <- SellerSolicitor,
  RecordIds <- 1..MaxRecords,
  trusted <- [p \in Payees |-> TrustedRecord(p)],
  everTrusted <- {k \in Ids : records[k].verifiedAt},
  authorised <- AuthorisedRecord,
  completed <- confirmed

ReleaseSpec == Release!Spec

(* A purchase whose details settle completes: once every payee's newest details are verified for good,  *)
(* no hold comes back, the completion money was not authorised to details since replaced, and nobody who *)
(* has paid is asked again.                                                                              *)
DetailsSettled == \A p \in {SellerSolicitor, FirmClientAccount} : TrustedRecord(p) # 0 /\ ~HardStop(p)
AuthorisedToCurrent == \A x \in CompletionPayments : x.record = TrustedRecord(SellerSolicitor)
AskedOnce == requested \cap receivedFrom = {}
Completes == <>[](DetailsSettled /\ ~hold /\ AuthorisedToCurrent /\ AskedOnce) => <>confirmed

(* No case stops by itself (no-stall.test.ts): unless it has completed, is held, or its completion money was *)
(* authorised to details since replaced, its next step can be taken; or the details that the step needs are   *)
(* to be recorded, or are with somebody who has to verify them or have them sent again.                       *)
ToRecord(p) == ~\E k \in Ids : records[k].payee = p /\ records[k].status \in {"unverified", "verified"}
ToVerify(p) ==
  \E k \in Ids :
    /\ records[k].payee = p
    /\ \/ DecisionPending(k)
       \/ records[k].status = "unverified" /\ records[k].decision = "escalated"
DetailsToSettle(p) == ToRecord(p) \/ ToVerify(p)
Missing == Payers \ receivedFrom
NextStep ==
  \/ stage \in {"pre_exchange", "exchanged"} \/ ~papers \/ uncleared > 0 \/ (Lender \in Payers /\ ~certificate)
  \/ \E r \in Payers : MayReceive(r, TRUE, FALSE)
  \/ \E r \in Missing, k \in Ids : MayRequest(r, k)
  \/ \E k \in Ids : MayAuthorise(SellerSolicitor, k)
  \/ MaySend \/ MayConfirm
Overtaken == \E x \in CompletionPayments : TrustedRecord(SellerSolicitor) \notin {0, x.record}
SomethingToDo ==
  ~confirmed /\ ~hold /\ ~Overtaken =>
    NextStep \/ DetailsToSettle(SellerSolicitor) \/ (Missing # {} /\ DetailsToSettle(FirmClientAccount))

(* What the machine's hard-stop text says ("No payment to or for this payee can proceed until the     *)
(* details are verified"): the completion money is not sent while a change of details is unverified.    *)
NothingSentDuringHardStop == [][sent' /\ ~sent => ~HardStop(SellerSolicitor)]_vars

(* What no-stall.test.ts says (no case stops by itself): with every payee's details verified for good *)
(* and no hold, the case completes, also when the details changed after the payment was authorised.     *)
NoCaseStops == <>[](DetailsSettled /\ ~hold /\ AskedOnce) => <>confirmed
=============================================================================

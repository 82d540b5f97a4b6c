--------------------------- MODULE PaymentsProofs ---------------------------
(***************************************************************************)
(* For any payees, accounts, payers and number of versions of details: the  *)
(* types, the invariants of the versions and of the payments, that a        *)
(* verification stands, and that the payment commands implement             *)
(* PaymentRelease.                                                          *)
(*                                                                          *)
(* The strengthening is VerifiedIsAnswered: a version was verified by the   *)
(* answer to its decision, so no later answer (a rejection above all) can   *)
(* reach it.  Last, that no case stops by itself: as long as it has not     *)
(* completed, somebody has something to do.                                 *)
(***************************************************************************)
EXTENDS Payments, TLAPS

VerifiedIsAnswered ==
  \A k \in Ids : /\ records[k].status = "verified" => records[k].verifiedAt
                 /\ records[k].verifiedAt => records[k].decision = "actioned" /\ records[k].status \in {"verified", "superseded"}

(* A version not yet verified is always in somebody's hands: its decision is open, or was escalated. *)
UnverifiedIsFlagged == \A k \in Ids : records[k].status = "unverified" => records[k].decision # "actioned"

(* One completion payment per payee. *)
OnePaymentPerPayee == \A x, y \in payments : x.payee = y.payee => x = y

RecordsInv == LiveVersionIsNewest /\ UnverifiedIsFlagged /\ VerifiedIsAnswered
IInv == TypeOK /\ RecordsInv /\ PaidDetailsWereVerified /\ OnePaymentPerPayee /\ CompletedOnClearedMoney

-----------------------------------------------------------------------------
(* The versions of details *)

(* The changes made to one version keep it a version. *)
LEMMA VersionUpdates ==
  ASSUME NEW r \in Records
  PROVE  /\ [r EXCEPT !.status = "superseded"] \in Records
         /\ [r EXCEPT !.decision = "opened"] \in Records
         /\ [r EXCEPT !.decision = "actioned"] \in Records
         /\ [r EXCEPT !.status = "verified", !.verifiedAt = TRUE, !.decision = "actioned"] \in Records
         /\ [r EXCEPT !.status = "failed", !.decision = "actioned"] \in Records
         /\ [r EXCEPT !.decision = "escalated", !.senior = "pending"] \in Records
         /\ [r EXCEPT !.senior = "opened"] \in Records
         /\ [r EXCEPT !.senior = "actioned"] \in Records
         /\ [r EXCEPT !.senior = "pending"] \in Records
BY DEF Records

LEMMA VersionUpdatesPayee ==
  ASSUME NEW r \in Records
  PROVE  /\ [r EXCEPT !.decision = "opened"].payee = r.payee
         /\ [r EXCEPT !.decision = "actioned"].payee = r.payee
         /\ [r EXCEPT !.status = "verified", !.verifiedAt = TRUE, !.decision = "actioned"].payee = r.payee
         /\ [r EXCEPT !.status = "failed", !.decision = "actioned"].payee = r.payee
         /\ [r EXCEPT !.decision = "escalated", !.senior = "pending"].payee = r.payee
         /\ \A s \in {"pending", "opened", "actioned"} : [r EXCEPT !.senior = s].payee = r.payee
BY DEF Records

LEMMA SupersededType == \A p \in Payees : \A r \in Records : Superseded(r, p) \in Records
BY VersionUpdates DEF Superseded

(* Appending a version to a list of them. *)
LEMMA AppendVersion ==
  ASSUME NEW old \in Seq(Records), NEW new \in Records
  PROVE  /\ Append(old, new) \in Seq(Records) /\ Len(Append(old, new)) = Len(old) + 1
         /\ Append(old, new)[Len(old) + 1] = new
         /\ \A k \in 1..Len(old) : Append(old, new)[k] = old[k]
OBVIOUS

(* Rewriting one version of a list of them. *)
LEMMA UpdateVersion ==
  ASSUME NEW old \in Seq(Records), NEW k \in 1..Len(old), NEW f \in Records
  PROVE  /\ [old EXCEPT ![k] = f] \in Seq(Records) /\ Len([old EXCEPT ![k] = f]) = Len(old)
         /\ [old EXCEPT ![k] = f][k] = f
         /\ \A j \in 1..Len(old) : j # k => [old EXCEPT ![k] = f][j] = old[j]
OBVIOUS

(* A new version leaves the versions before it in place, each as Superseded makes it. *)
LEMMA RecordedVersions ==
  ASSUME NEW p \in Payees, NEW a \in Accounts, TypeOK, RecordBankDetails(p, a)
  PROVE  /\ Len(records') = Len(records) + 1 /\ Len(records) \in Nat
         /\ records' \in Seq(Records) /\ Len(records') <= MaxRecords
         /\ \A k \in Ids : k \in Ids' /\ records'[k] = Superseded(records[k], p)
         /\ Len(records') \in Ids'
         /\ records'[Len(records')] = [payee |-> p, account |-> a, status |-> "unverified", verifiedAt |-> FALSE,
                                       decision |-> "pending", senior |-> "none"]
         /\ \A k \in Ids' : k \in Ids \/ k = Len(records')
<1> DEFINE old == [k \in Ids |-> Superseded(records[k], p)]
           new == [payee |-> p, account |-> a, status |-> "unverified", verifiedAt |-> FALSE,
                   decision |-> "pending", senior |-> "none"]
<1>1. records \in Seq(Records) /\ Len(records) \in Nat /\ \A k \in Ids : Superseded(records[k], p) \in Records
  BY SupersededType DEF TypeOK, Ids
<1>2. old \in Seq(Records) /\ Len(old) = Len(records) /\ \A k \in Ids : old[k] = Superseded(records[k], p)
  BY <1>1 DEF Ids
<1>3. new \in Records
  BY DEF Records
<1>4. records' = Append(old, new) /\ Len(records) < MaxRecords
  BY DEF RecordBankDetails
<1> HIDE DEF old, new
<1>5. /\ records' \in Seq(Records) /\ Len(records') = Len(records) + 1
      /\ records'[Len(records')] = new
      /\ \A k \in 1..Len(old) : records'[k] = old[k]
  BY <1>1, <1>2, <1>3, <1>4, AppendVersion
<1>6. Len(records') <= MaxRecords
  BY <1>1, <1>4, <1>5, BoundsAssumption
<1>7. QED
  BY <1>1, <1>2, <1>5, <1>6 DEF Ids, new

(* A decision command rewrites one version and nothing else. *)
LEMMA DecisionRewritesOne ==
  ASSUME NEW k \in Ids, TypeOK, Decisions(k)
  PROVE  /\ records' \in Seq(Records) /\ Len(records') = Len(records) /\ Ids' = Ids
         /\ \A j \in Ids : j # k => records'[j] = records[j]
         /\ records'[k].payee = records[k].payee
         /\ UNCHANGED <<payments, matter, money, sent, confirmed>>
<1>1. records \in Seq(Records) /\ records[k] \in Records /\ k \in 1..Len(records)
  BY DEF TypeOK, Ids
<1>2. PICK f \in Records : Rewrite(k, f) /\ f.payee = records[k].payee
  <2>1. CASE OpenSource(k)
    BY <1>1, <2>1, VersionUpdates, VersionUpdatesPayee DEF OpenSource
  <2>2. CASE Verify(k)
    BY <1>1, <2>2, VersionUpdates, VersionUpdatesPayee DEF Verify
  <2>3. CASE Reject(k)
    BY <1>1, <2>3, VersionUpdates, VersionUpdatesPayee DEF Reject
  <2>4. CASE Escalate(k)
    BY <1>1, <2>4, VersionUpdates, VersionUpdatesPayee DEF Escalate
  <2>5. CASE SeniorOpensSource(k) \/ SeniorAnswers(k) \/ SeniorEscalates(k)
    BY <1>1, <2>5, VersionUpdates, VersionUpdatesPayee DEF SeniorOpensSource, SeniorAnswers, SeniorEscalates
  <2>6. QED
    BY <2>1, <2>2, <2>3, <2>4, <2>5 DEF Decisions
<1>3. records' = [records EXCEPT ![k] = f] /\ UNCHANGED <<payments, matter, money, sent, confirmed>>
  BY <1>2 DEF Rewrite
<1>4. QED
  BY <1>1, <1>2, <1>3, UpdateVersion DEF Ids

(* What each decision command may do to the version it is about. *)
LEMMA DecisionEffect ==
  ASSUME NEW k \in Ids, IInv, Decisions(k)
  PROVE  /\ \/ records'[k].status = records[k].status /\ records'[k].verifiedAt = records[k].verifiedAt
            \/ /\ records[k].status = "unverified" /\ ~records[k].verifiedAt
               /\ records'[k].status = "verified" /\ records'[k].verifiedAt /\ records'[k].decision = "actioned"
            \/ ~records[k].verifiedAt /\ records[k].status # "verified"
               /\ records'[k].status = "failed" /\ ~records'[k].verifiedAt
         /\ records'[k].status = "unverified" => records'[k].decision # "actioned"
         /\ records[k].decision = "actioned" => records'[k].decision = "actioned"
<1> DEFINE r == records[k]
<1>1. /\ r \in Records /\ records \in Seq(Records) /\ k \in 1..Len(records)
      /\ r.status = "verified" => r.verifiedAt
      /\ r.verifiedAt => r.decision = "actioned" /\ r.status \in {"verified", "superseded"}
      /\ r.status = "unverified" => r.decision # "actioned"
  BY DEF IInv, TypeOK, RecordsInv, VerifiedIsAnswered, UnverifiedIsFlagged, Ids
<1>2. \A f \in Records : Rewrite(k, f) => records'[k] = f
  BY <1>1, UpdateVersion DEF Rewrite
<1>3. CASE OpenSource(k)
  <2>1. r.decision = "pending" /\ records'[k] = [r EXCEPT !.decision = "opened"]
    BY <1>1, <1>2, <1>3, VersionUpdates DEF OpenSource
  <2>2. QED
    BY <1>1, <2>1 DEF Records
<1>4. CASE Verify(k)
  <2>1. CASE r.status = "unverified"
    <3>1. r.decision = "opened" /\ records'[k] = [r EXCEPT !.status = "verified", !.verifiedAt = TRUE, !.decision = "actioned"]
      BY <1>1, <1>2, <1>4, <2>1, VersionUpdates DEF Verify
    <3>2. QED
      BY <1>1, <2>1, <3>1 DEF Records
  <2>2. CASE r.status # "unverified"
    <3>1. r.decision = "opened" /\ records'[k] = [r EXCEPT !.decision = "actioned"]
      BY <1>1, <1>2, <1>4, <2>2, VersionUpdates DEF Verify
    <3>2. QED
      BY <1>1, <2>2, <3>1 DEF Records
  <2>3. QED
    BY <2>1, <2>2
<1>5. CASE Reject(k)
  <2>1. r.decision = "opened" /\ records'[k] = [r EXCEPT !.status = "failed", !.decision = "actioned"]
    BY <1>1, <1>2, <1>5, VersionUpdates DEF Reject
  <2>2. QED
    BY <1>1, <2>1 DEF Records
<1>6. CASE Escalate(k)
  <2>1. r.decision = "opened" /\ records'[k] = [r EXCEPT !.decision = "escalated", !.senior = "pending"]
    BY <1>1, <1>2, <1>6, VersionUpdates DEF Escalate
  <2>2. QED
    BY <1>1, <2>1 DEF Records
<1>7. CASE SeniorOpensSource(k) \/ SeniorAnswers(k) \/ SeniorEscalates(k)
  <2>1. PICK s \in {"pending", "opened", "actioned"} : records'[k] = [r EXCEPT !.senior = s]
    BY <1>1, <1>2, <1>7, VersionUpdates DEF SeniorOpensSource, SeniorAnswers, SeniorEscalates
  <2>2. QED
    BY <1>1, <2>1 DEF Records
<1>8. QED
  BY <1>3, <1>4, <1>5, <1>6, <1>7 DEF Decisions

-----------------------------------------------------------------------------
(* The invariant *)

LEMMA InitIInv == Init => IInv
<1>1. SUFFICES ASSUME Init PROVE IInv
  OBVIOUS
<1>2. records \in Seq(Records) /\ Len(records) = 0 /\ Len(records) <= MaxRecords
  BY <1>1, BoundsAssumption DEF Init
<1>3. \A k \in Ids : FALSE
  BY <1>2 DEF Ids
<1>4. payments = {} /\ ~confirmed
  BY <1>1 DEF Init
<1>5. stage \in Stages /\ uncleared \in 0..MaxUncleared
  BY <1>1, BoundsAssumption DEF Init, Stages
<1>6. TypeOK
  BY <1>1, <1>2, <1>5 DEF Init, TypeOK
<1>7. RecordsInv
  BY <1>3 DEF RecordsInv, LiveVersionIsNewest, UnverifiedIsFlagged, VerifiedIsAnswered
<1>8. PaidDetailsWereVerified /\ OnePaymentPerPayee /\ CompletedOnClearedMoney
  BY <1>4 DEF PaidDetailsWereVerified, OnePaymentPerPayee, CompletedOnClearedMoney
<1>9. QED
  BY <1>6, <1>7, <1>8 DEF IInv

(* A new version is the payee's newest, and no version of the payee's before it is live. *)
LEMMA RecordIInv == \A p \in Payees, a \in Accounts : IInv /\ RecordBankDetails(p, a) => IInv'
<1>1. SUFFICES ASSUME NEW p \in Payees, NEW a \in Accounts, IInv, RecordBankDetails(p, a) PROVE IInv'
  OBVIOUS
<1> DEFINE n == Len(records')
           new == [payee |-> p, account |-> a, status |-> "unverified", verifiedAt |-> FALSE,
                   decision |-> "pending", senior |-> "none"]
<1>2. /\ n = Len(records) + 1 /\ Len(records) \in Nat
      /\ records' \in Seq(Records) /\ n <= MaxRecords
      /\ \A k \in Ids : k \in Ids' /\ records'[k] = Superseded(records[k], p)
      /\ n \in Ids' /\ records'[n] = new
      /\ \A k \in Ids' : k \in Ids \/ k = n
  BY <1>1, RecordedVersions DEF IInv
<1>3. UNCHANGED <<payments, matter, money, sent, confirmed>>
  BY <1>1 DEF RecordBankDetails
<1>4. \A k \in Ids : records[k] \in Records /\ k \in Nat /\ k < n
  BY <1>1, <1>2 DEF IInv, TypeOK, Ids
<1>5. \A r \in Records : /\ Superseded(r, p).payee = r.payee
                         /\ Superseded(r, p).verifiedAt = r.verifiedAt
                         /\ Superseded(r, p).decision = r.decision
                         /\ Superseded(r, p).status = IF r.payee = p /\ r.status # "failed" THEN "superseded" ELSE r.status
  BY DEF Superseded, Records
<1> DEFINE old(k) == records[k]
<1>6. \A k \in Ids : /\ records'[k].payee = records[k].payee
                     /\ records'[k].verifiedAt = records[k].verifiedAt
                     /\ records'[k].decision = records[k].decision
                     /\ records'[k].status = IF records[k].payee = p /\ records[k].status # "failed" THEN "superseded" ELSE records[k].status
  BY <1>2, <1>4, <1>5
<1>7. new.payee = p /\ new.status = "unverified" /\ new.verifiedAt = FALSE /\ new.decision = "pending"
  OBVIOUS
<1> HIDE DEF n, new
<1>8. TypeOK'
  BY <1>1, <1>2, <1>3 DEF n, IInv, TypeOK, matter, money
<1>9. LiveVersionIsNewest'
  BY <1>1, <1>2, <1>4, <1>6, <1>7 DEF IInv, RecordsInv, LiveVersionIsNewest, IsCurrent
<1>10. UnverifiedIsFlagged' /\ VerifiedIsAnswered'
  BY <1>1, <1>2, <1>6, <1>7 DEF IInv, RecordsInv, UnverifiedIsFlagged, VerifiedIsAnswered
<1>11. PaidDetailsWereVerified'
  BY <1>1, <1>3, <1>6 DEF IInv, TypeOK, PaidDetailsWereVerified
<1>12. OnePaymentPerPayee' /\ CompletedOnClearedMoney'
  BY <1>1, <1>3 DEF IInv, OnePaymentPerPayee, CompletedOnClearedMoney, CompletionPayments, matter, money
<1>13. QED
  BY <1>8, <1>9, <1>10, <1>11, <1>12 DEF IInv, RecordsInv

LEMMA DecisionIInv == \A k \in Ids : IInv /\ Decisions(k) => IInv'
<1>1. SUFFICES ASSUME NEW k \in Ids, IInv, Decisions(k) PROVE IInv'
  OBVIOUS
<1>2. /\ records' \in Seq(Records) /\ Len(records') = Len(records) /\ Ids' = Ids
      /\ \A j \in Ids : j # k => records'[j] = records[j]
      /\ records'[k].payee = records[k].payee
      /\ UNCHANGED <<payments, matter, money, sent, confirmed>>
  BY <1>1, DecisionRewritesOne DEF IInv
<1>3. /\ \/ records'[k].status = records[k].status /\ records'[k].verifiedAt = records[k].verifiedAt
         \/ /\ records[k].status = "unverified" /\ ~records[k].verifiedAt
            /\ records'[k].status = "verified" /\ records'[k].verifiedAt /\ records'[k].decision = "actioned"
         \/ ~records[k].verifiedAt /\ records[k].status # "verified"
            /\ records'[k].status = "failed" /\ ~records'[k].verifiedAt
      /\ records'[k].status = "unverified" => records'[k].decision # "actioned"
      /\ records[k].decision = "actioned" => records'[k].decision = "actioned"
  BY <1>1, DecisionEffect
<1>4. \A j \in Ids : records'[j].payee = records[j].payee
  BY <1>2
<1>5. TypeOK'
  BY <1>1, <1>2 DEF IInv, TypeOK, matter, money
<1>6. LiveVersionIsNewest'
  BY <1>1, <1>2, <1>3, <1>4 DEF IInv, RecordsInv, LiveVersionIsNewest, IsCurrent
<1>7. UnverifiedIsFlagged'
  BY <1>1, <1>2, <1>3 DEF IInv, RecordsInv, UnverifiedIsFlagged
<1>8. VerifiedIsAnswered'
  BY <1>1, <1>2, <1>3 DEF IInv, RecordsInv, VerifiedIsAnswered
<1>9. PaidDetailsWereVerified'
  BY <1>1, <1>2, <1>3, <1>4 DEF IInv, TypeOK, PaidDetailsWereVerified
<1>10. OnePaymentPerPayee' /\ CompletedOnClearedMoney'
  BY <1>1, <1>2 DEF IInv, OnePaymentPerPayee, CompletedOnClearedMoney, CompletionPayments, matter, money
<1>11. QED
  BY <1>5, <1>6, <1>7, <1>8, <1>9, <1>10 DEF IInv, RecordsInv

(* The commands that leave the versions and the payments alone keep what is said of them. *)
LEMMA RecordsUntouched ==
  ASSUME IInv, UNCHANGED <<records, payments>>
  PROVE  RecordsInv' /\ PaidDetailsWereVerified' /\ OnePaymentPerPayee' /\ Ids' = Ids
BY DEF IInv, RecordsInv, LiveVersionIsNewest, UnverifiedIsFlagged, VerifiedIsAnswered, PaidDetailsWereVerified,
   OnePaymentPerPayee, Ids, IsCurrent

LEMMA MatterIInv == IInv /\ (AdvanceStage \/ CertificateSent \/ PapersComplete \/ HoldChanges) => IInv'
<1>1. SUFFICES ASSUME IInv, AdvanceStage \/ CertificateSent \/ PapersComplete \/ HoldChanges PROVE IInv'
  OBVIOUS
<1>2. UNCHANGED <<records, payments>>
  BY <1>1 DEF AdvanceStage, CertificateSent, PapersComplete, HoldChanges
<1>3. /\ stage' \in Stages /\ certificate' \in BOOLEAN /\ papers' \in BOOLEAN /\ hold' \in BOOLEAN
      /\ stage = "completed" => stage' = "completed"
      /\ UNCHANGED <<money, sent, confirmed>>
  <2>1. CASE AdvanceStage
    BY <1>1, <2>1 DEF AdvanceStage, IInv, TypeOK, Stages
  <2>2. CASE CertificateSent
    BY <1>1, <2>2 DEF CertificateSent, IInv, TypeOK
  <2>3. CASE PapersComplete
    BY <1>1, <2>3 DEF PapersComplete, IInv, TypeOK
  <2>4. CASE HoldChanges
    BY <1>1, <2>4 DEF HoldChanges, IInv, TypeOK
  <2>5. QED
    BY <1>1, <2>1, <2>2, <2>3, <2>4
<1>4. TypeOK'
  BY <1>1, <1>2, <1>3, RecordsUntouched DEF IInv, TypeOK, money
<1>5. CompletedOnClearedMoney'
  BY <1>1, <1>2, <1>3 DEF IInv, CompletedOnClearedMoney, CompletionPayments, money
<1>6. QED
  BY <1>1, <1>2, <1>4, <1>5, RecordsUntouched DEF IInv

LEMMA RequestFundsIInv == \A r \in Payers, k \in Ids : IInv /\ RequestFunds(r, k) => IInv'
<1>1. SUFFICES ASSUME NEW r \in Payers, NEW k \in Ids, IInv, RequestFunds(r, k) PROVE IInv'
  OBVIOUS
<1>2. UNCHANGED <<records, payments>>
  BY <1>1 DEF RequestFunds, MayRequest
<1>3. TypeOK' /\ CompletedOnClearedMoney'
  BY <1>1, <1>2, RecordsUntouched DEF IInv, TypeOK, CompletedOnClearedMoney, CompletionPayments, RequestFunds, MayRequest, matter
<1>4. QED
  BY <1>1, <1>2, <1>3, RecordsUntouched DEF IInv

LEMMA ReceiveFundsIInv ==
  \A r \in Payers, isCleared \in BOOLEAN, leavesShort \in BOOLEAN : IInv /\ ReceiveFunds(r, isCleared, leavesShort) => IInv'
<1>1. SUFFICES ASSUME NEW r \in Payers, NEW isCleared \in BOOLEAN, NEW leavesShort \in BOOLEAN,
                      IInv, ReceiveFunds(r, isCleared, leavesShort)
               PROVE  IInv'
  OBVIOUS
<1>2. UNCHANGED <<records, payments>> /\ ~confirmed /\ confirmed' = confirmed
  BY <1>1 DEF ReceiveFunds, MayReceive
<1>3. uncleared' \in 0..MaxUncleared
  <2>1. uncleared \in 0..MaxUncleared /\ MaxUncleared \in Nat
    BY <1>1, BoundsAssumption DEF IInv, TypeOK
  <2>2. CASE isCleared
    BY <1>1, <2>1, <2>2 DEF ReceiveFunds, MayReceive
  <2>3. CASE ~isCleared
    BY <1>1, <2>1, <2>3 DEF ReceiveFunds, MayReceive
  <2>4. QED
    BY <2>2, <2>3
<1>4. allReceived' \in BOOLEAN /\ short' \in BOOLEAN
  BY <1>1 DEF ReceiveFunds, MayReceive, IInv, TypeOK
<1>5. TypeOK'
  BY <1>1, <1>2, <1>3, <1>4, RecordsUntouched DEF IInv, TypeOK, ReceiveFunds, MayReceive, matter
<1>6. CompletedOnClearedMoney'
  BY <1>2 DEF CompletedOnClearedMoney
<1>7. QED
  BY <1>1, <1>2, <1>5, <1>6, RecordsUntouched DEF IInv

LEMMA ClearFundsIInv == IInv /\ ClearFunds => IInv'
<1>1. SUFFICES ASSUME IInv, ClearFunds PROVE IInv'
  OBVIOUS
<1>2. UNCHANGED <<records, payments>>
  BY <1>1 DEF ClearFunds
<1>3. uncleared' \in 0..MaxUncleared
  BY <1>1, BoundsAssumption DEF IInv, TypeOK, ClearFunds
<1>4. TypeOK' /\ CompletedOnClearedMoney'
  BY <1>1, <1>2, <1>3, RecordsUntouched DEF IInv, TypeOK, CompletedOnClearedMoney, CompletionPayments, ClearFunds, matter
<1>5. QED
  BY <1>1, <1>2, <1>4, RecordsUntouched DEF IInv

LEMMA AuthoriseIInv == \A p \in Payees, k \in Ids : IInv /\ AuthorisePayment(p, k) => IInv'
<1>1. SUFFICES ASSUME NEW p \in Payees, NEW k \in Ids, IInv, AuthorisePayment(p, k) PROVE IInv'
  OBVIOUS
<1>2. /\ payments' = payments \cup {[payee |-> p, record |-> k]} /\ ~\E x \in payments : x.payee = p
      /\ records[k].payee = p /\ records[k].status = "verified"
      /\ UNCHANGED <<records, matter, money, sent, confirmed>>
  BY <1>1 DEF AuthorisePayment, MayAuthorise, Payable
<1>3. records[k].verifiedAt
  BY <1>1, <1>2 DEF IInv, RecordsInv, VerifiedIsAnswered
<1>4. TypeOK'
  BY <1>1, <1>2 DEF IInv, TypeOK, Ids, matter, money
<1>5. RecordsInv'
  BY <1>1, <1>2 DEF IInv, RecordsInv, LiveVersionIsNewest, UnverifiedIsFlagged, VerifiedIsAnswered, Ids, IsCurrent
<1>6. PaidDetailsWereVerified' /\ OnePaymentPerPayee'
  BY <1>1, <1>2, <1>3 DEF IInv, PaidDetailsWereVerified, OnePaymentPerPayee
<1>7. CompletedOnClearedMoney'
  BY <1>1, <1>2 DEF IInv, CompletedOnClearedMoney, CompletionPayments, matter, money
<1>8. QED
  BY <1>4, <1>5, <1>6, <1>7 DEF IInv

LEMMA CompletionIInv == IInv /\ (SendCompletionPayment \/ ConfirmCompletion) => IInv'
<1>1. SUFFICES ASSUME IInv, SendCompletionPayment \/ ConfirmCompletion PROVE IInv'
  OBVIOUS
<1>2. UNCHANGED <<records, payments>>
  BY <1>1 DEF SendCompletionPayment, MaySend, ConfirmCompletion, MayConfirm
<1>3. CASE SendCompletionPayment
  <2>1. sent' = TRUE /\ UNCHANGED <<matter, money, confirmed>>
    BY <1>3 DEF SendCompletionPayment, MaySend
  <2>2. TypeOK'
    BY <1>1, <1>2, <2>1, RecordsUntouched DEF IInv, TypeOK, matter, money
  <2>3. CompletedOnClearedMoney'
    BY <1>1, <1>2, <2>1 DEF IInv, CompletedOnClearedMoney, CompletionPayments, matter, money
  <2>4. QED
    BY <1>1, <1>2, <2>2, <2>3, RecordsUntouched DEF IInv
<1>4. CASE ConfirmCompletion
  <2>1. /\ confirmed' = TRUE /\ stage' = "completed" /\ UNCHANGED <<certificate, papers, hold, money, sent>>
        /\ uncleared = 0 /\ ~short /\ Payers \subseteq receivedFrom /\ sent /\ CompletionPayments # {}
    BY <1>4 DEF ConfirmCompletion, MayConfirm
  <2>2. TypeOK'
    BY <1>1, <1>2, <2>1, RecordsUntouched DEF IInv, TypeOK, Stages, money
  <2>3. CompletedOnClearedMoney'
    BY <1>2, <2>1 DEF CompletedOnClearedMoney, CompletionPayments, money
  <2>4. QED
    BY <1>1, <1>2, <2>2, <2>3, RecordsUntouched DEF IInv
<1>5. QED
  BY <1>1, <1>3, <1>4

LEMMA NextIInv == IInv /\ [Next]_vars => IInv'
<1>1. SUFFICES ASSUME IInv, [Next]_vars PROVE IInv'
  OBVIOUS
<1>2. CASE UNCHANGED vars
  BY <1>1, <1>2, RecordsUntouched DEF vars, matter, money, IInv, TypeOK, CompletedOnClearedMoney, CompletionPayments
<1>3. CASE Next
  BY <1>1, <1>3, RecordIInv, DecisionIInv, MatterIInv, RequestFundsIInv, ReceiveFundsIInv, ClearFundsIInv,
     AuthoriseIInv, CompletionIInv DEF Next
<1>4. QED
  BY <1>1, <1>2, <1>3

THEOREM Invariance == Spec => []IInv
BY InitIInv, NextIInv, PTL DEF Spec

(* Every variable keeps its type, for any number of payees, accounts, payers and versions. *)
THEOREM TypeCorrect == Spec => []TypeOK
BY Invariance, PTL DEF IInv

(* Late answers to an old version's decision never make it live: record_bank_details and resolve_decision. *)
THEOREM NewestIsLive == Spec => []LiveVersionIsNewest
<1>1. IInv => LiveVersionIsNewest
  BY DEF IInv, RecordsInv
<1>2. QED
  BY <1>1, Invariance, PTL

(* No unverified version is out of everybody's hands: the decision each one raises, and its escalation. *)
THEOREM UnverifiedStaysFlagged == Spec => []UnverifiedIsFlagged
<1>1. IInv => UnverifiedIsFlagged
  BY DEF IInv, RecordsInv
<1>2. QED
  BY <1>1, Invariance, PTL

(* Money is only authorised to verified details that nobody fails afterwards: assertPayableDetails. *)
THEOREM PaidToVerified == Spec => []PaidDetailsWereVerified
<1>1. IInv => PaidDetailsWereVerified
  BY DEF IInv
<1>2. QED
  BY <1>1, Invariance, PTL

(* Completion is on cleared money in full, and stays so: completion_confirmed, and funds_received after it. *)
THEOREM CompletionIsOnClearedMoney == Spec => []CompletedOnClearedMoney
<1>1. IInv => CompletedOnClearedMoney
  BY DEF IInv
<1>2. QED
  BY <1>1, Invariance, PTL

-----------------------------------------------------------------------------
(* A verification stands *)

LEMMA StepKeepsVerification == IInv /\ [Next]_vars => [VerificationKept]_vars
<1>1. SUFFICES ASSUME IInv, Next, NEW k \in Ids
               PROVE  StatusStep(records[k], records'[k]) /\ (records[k].verifiedAt => records'[k].verifiedAt)
  BY DEF VerificationKept
<1>2. /\ records[k] \in Records
      /\ records[k].status = "verified" => records[k].verifiedAt
      /\ records[k].verifiedAt => records[k].status \in {"verified", "superseded"}
  BY <1>1 DEF IInv, TypeOK, RecordsInv, VerifiedIsAnswered, Ids
<1>3. ASSUME NEW p \in Payees, NEW a \in Accounts, RecordBankDetails(p, a)
      PROVE  StatusStep(records[k], records'[k]) /\ (records[k].verifiedAt => records'[k].verifiedAt)
  <2>1. records'[k] = Superseded(records[k], p)
    BY <1>1, <1>3, RecordedVersions DEF IInv
  <2>2. QED
    BY <1>2, <2>1 DEF Superseded, StatusStep, Records
<1>4. ASSUME NEW j \in Ids, Decisions(j)
      PROVE  StatusStep(records[k], records'[k]) /\ (records[k].verifiedAt => records'[k].verifiedAt)
  <2>1. CASE j # k
    BY <1>1, <1>4, <2>1, DecisionRewritesOne DEF IInv, StatusStep
  <2>2. CASE j = k
    <3>1. \/ records'[k].status = records[k].status /\ records'[k].verifiedAt = records[k].verifiedAt
          \/ /\ records[k].status = "unverified" /\ ~records[k].verifiedAt
             /\ records'[k].status = "verified" /\ records'[k].verifiedAt
          \/ ~records[k].verifiedAt /\ records[k].status # "verified"
             /\ records'[k].status = "failed" /\ ~records'[k].verifiedAt
      BY <1>1, <1>4, <2>2, DecisionEffect
    <3>2. records[k].status \in {"unverified", "verified", "superseded", "failed"}
      BY <1>2 DEF Records
    <3>3. QED
      BY <3>1, <3>2 DEF StatusStep
  <2>3. QED
    BY <2>1, <2>2
<1>5. CASE records' = records
  BY <1>5 DEF StatusStep
<1>6. QED
  BY <1>1, <1>3, <1>4, <1>5
     DEF Next, AdvanceStage, CertificateSent, PapersComplete, HoldChanges, RequestFunds, MayRequest, ReceiveFunds, MayReceive, ClearFunds,
         AuthorisePayment, MayAuthorise, SendCompletionPayment, MaySend, ConfirmCompletion, MayConfirm

(* No command un-verifies details but a newer version, and none verifies replaced ones: resolve_decision. *)
THEOREM VerificationsStand == Spec => VerificationStands
<1>1. Spec => [][Next]_vars
  BY DEF Spec
<1>2. QED
  BY <1>1, Invariance, StepKeepsVerification, PTL DEF VerificationStands

-----------------------------------------------------------------------------
(* Refinement *)

LEMMA TheRecordFacts == /\ TheRecord({}) = 0
                        /\ \A k : TheRecord({k}) = k
<1>1. \A k : (CHOOSE j \in {k} : TRUE) = k
  OBVIOUS
<1>2. QED
  BY <1>1 DEF TheRecord

(* There is at most one payable version of a payee's details. *)
LEMMA OneVerified ==
  ASSUME IInv, NEW p \in Payees, NEW k \in VerifiedOf(p)
  PROVE  VerifiedOf(p) = {k} /\ TrustedRecord(p) = k
<1>1. \A j \in VerifiedOf(p) : j \in Ids /\ IsCurrent(j) /\ records[j].payee = p
  BY DEF IInv, RecordsInv, LiveVersionIsNewest, VerifiedOf
<1>2. Len(records) \in Nat
  BY DEF IInv, TypeOK
<1>3. \A j \in VerifiedOf(p) : j = k
  BY <1>1, <1>2 DEF IsCurrent, Ids
<1>4. VerifiedOf(p) = {k}
  BY <1>3
<1>5. QED
  BY <1>4, TheRecordFacts DEF TrustedRecord

Trusted == [p \in Payees |-> TrustedRecord(p)]
EverTrusted == {k \in Ids : records[k].verifiedAt}

LEMMA InitRefines == Init => Release!Init
<1>1. SUFFICES ASSUME Init PROVE Release!Init
  OBVIOUS
<1>2. Ids = {} /\ payments = {}
  BY <1>1 DEF Init, Ids
<1>3. \A p : TrustedRecord(p) = 0
  BY <1>2, TheRecordFacts DEF TrustedRecord, VerifiedOf
<1>4. AuthorisedRecord = 0
  <2>1. {x.record : x \in CompletionPayments} = {}
    BY <1>2 DEF CompletionPayments
  <2>2. QED
    BY <2>1, TheRecordFacts DEF AuthorisedRecord
<1>5. {k \in Ids : records[k].verifiedAt} = {}
  BY <1>2
<1>6. QED
  BY <1>1, <1>3, <1>4, <1>5 DEF Init, Release!Init, Release!NoRecord

(* A new version withdraws the payee's trust. *)
LEMMA RecordRefines ==
  ASSUME IInv, NEW p \in Payees, NEW a \in Accounts, RecordBankDetails(p, a)
  PROVE  Release!Withdraw(p)
<1>1. /\ Len(records') \notin Ids /\ Len(records') \in Ids'
      /\ \A k \in Ids : k \in Ids' /\ records'[k] = Superseded(records[k], p) /\ records[k] \in Records
      /\ records'[Len(records')].status = "unverified" /\ ~records'[Len(records')].verifiedAt
      /\ \A k \in Ids' : k \in Ids \/ k = Len(records')
  <2>1. TypeOK /\ \A k \in Ids : records[k] \in Records
    BY DEF IInv, TypeOK, Ids
  <2>2. /\ Len(records') = Len(records) + 1 /\ Len(records) \in Nat /\ Len(records') \in Ids'
        /\ \A k \in Ids : k \in Ids' /\ records'[k] = Superseded(records[k], p)
        /\ \A k \in Ids' : k \in Ids \/ k = Len(records')
    BY <2>1, RecordedVersions
  <2>3. records'[Len(records')].status = "unverified" /\ ~records'[Len(records')].verifiedAt
    <3>1. records'[Len(records')] = [payee |-> p, account |-> a, status |-> "unverified", verifiedAt |-> FALSE,
                                     decision |-> "pending", senior |-> "none"]
      BY <2>1, RecordedVersions
    <3>2. QED
      BY <3>1
  <2>4. Len(records') \notin Ids
    BY <2>2 DEF Ids
  <2>5. QED
    BY <2>1, <2>2, <2>3, <2>4
<1>2. \A k \in Ids : /\ records'[k].payee = records[k].payee
                     /\ records'[k].verifiedAt = records[k].verifiedAt
                     /\ records'[k].status = "verified" <=> records[k].payee # p /\ records[k].status = "verified"
  BY <1>1 DEF Superseded, Records
<1>3. VerifiedOf(p)' = {} /\ \A q \in Payees : q # p => VerifiedOf(q)' = VerifiedOf(q)
  BY <1>1, <1>2 DEF VerifiedOf
<1>4. EverTrusted' = EverTrusted
  BY <1>1, <1>2 DEF EverTrusted
<1>5. Trusted' = [Trusted EXCEPT ![p] = 0]
  BY <1>3, TheRecordFacts DEF Trusted, TrustedRecord
<1>6. AuthorisedRecord' = AuthorisedRecord /\ confirmed' = confirmed
  BY DEF RecordBankDetails, AuthorisedRecord, CompletionPayments
<1>7. QED
  BY <1>4, <1>5, <1>6 DEF Release!Withdraw, Release!NoRecord, Trusted, EverTrusted

(* An answer either verifies the payee's newest version, which is then the trusted one, or changes no trust. *)
LEMMA DecisionRefines ==
  ASSUME IInv, NEW k \in Ids, Decisions(k)
  PROVE  (\E p \in Payees : Release!Trust(p, k)) \/ UNCHANGED <<Trusted, EverTrusted, AuthorisedRecord, confirmed>>
<1>1. /\ Ids' = Ids /\ \A j \in Ids : j # k => records'[j] = records[j]
      /\ records'[k].payee = records[k].payee /\ UNCHANGED <<payments, confirmed>>
  BY DecisionRewritesOne DEF IInv
<1>2. \/ records'[k].status = records[k].status /\ records'[k].verifiedAt = records[k].verifiedAt
      \/ /\ records[k].status = "unverified" /\ ~records[k].verifiedAt
         /\ records'[k].status = "verified" /\ records'[k].verifiedAt
      \/ ~records[k].verifiedAt /\ records[k].status # "verified"
         /\ records'[k].status = "failed" /\ ~records'[k].verifiedAt
  BY DecisionEffect
<1>3. AuthorisedRecord' = AuthorisedRecord
  BY <1>1 DEF AuthorisedRecord, CompletionPayments
<1>4. \A j \in Ids : records[j].payee \in Payees /\ j # 0
  <2>1. records \in Seq(Records) /\ \A j \in Ids : records[j] \in Records
    BY DEF IInv, TypeOK, Ids
  <2>2. \A r \in Records : r.payee \in Payees
    BY DEF Records
  <2>3. \A j \in Ids : j # 0
    BY <2>1 DEF Ids
  <2>4. QED
    BY <2>1, <2>2, <2>3
<1>5. CASE \/ records'[k].status = records[k].status /\ records'[k].verifiedAt = records[k].verifiedAt
           \/ ~records[k].verifiedAt /\ records[k].status # "verified"
              /\ records'[k].status = "failed" /\ ~records'[k].verifiedAt
  <2>1. \A p : VerifiedOf(p)' = VerifiedOf(p)
    BY <1>1, <1>5 DEF VerifiedOf
  <2>2. EverTrusted' = EverTrusted
    BY <1>1, <1>5 DEF EverTrusted
  <2>3. Trusted' = Trusted
    BY <2>1 DEF Trusted, TrustedRecord
  <2>4. QED
    BY <1>1, <1>3, <2>2, <2>3
<1>6. CASE /\ records[k].status = "unverified" /\ ~records[k].verifiedAt
           /\ records'[k].status = "verified" /\ records'[k].verifiedAt
  <2>0. PICK p \in Payees : p = records[k].payee
    BY <1>4
  <2>1. p = records[k].payee /\ IsCurrent(k)
    BY <1>6, <2>0 DEF IInv, RecordsInv, LiveVersionIsNewest
  <2>2. VerifiedOf(p) = {}
    <3>1. SUFFICES ASSUME NEW j \in VerifiedOf(p) PROVE FALSE
      OBVIOUS
    <3>2. j \in Ids /\ records[j].payee = p /\ records[j].status = "verified"
      BY <3>1 DEF VerifiedOf
    <3>3. IsCurrent(j)
      BY <3>2 DEF IInv, RecordsInv, LiveVersionIsNewest
    <3>4. j = k
      BY <2>1, <3>2, <3>3 DEF IInv, TypeOK, IsCurrent, Ids
    <3>5. QED
      BY <1>6, <3>2, <3>4
  <2>3. VerifiedOf(p)' = {k} /\ \A q : q # p => VerifiedOf(q)' = VerifiedOf(q)
    BY <1>1, <1>6, <2>1, <2>2 DEF VerifiedOf
  <2>4. EverTrusted' = EverTrusted \cup {k} /\ k \notin EverTrusted
    BY <1>1, <1>6 DEF EverTrusted
  <2>5. Trusted' = [Trusted EXCEPT ![p] = k] /\ Trusted[p] = 0
    <3>1. TrustedRecord(p) = 0 /\ TrustedRecord(p)' = k /\ \A q : q # p => TrustedRecord(q)' = TrustedRecord(q)
      BY <2>2, <2>3, TheRecordFacts DEF TrustedRecord
    <3>2. QED
      BY <3>1 DEF Trusted
  <2>6. Release!Trust(p, k)
    BY <1>1, <1>3, <1>4, <2>4, <2>5 DEF Release!Trust, Release!NoRecord, Trusted, EverTrusted
  <2>7. QED
    BY <2>1, <2>6
<1>7. QED
  BY <1>2, <1>5, <1>6

(* The completion payment is authorised to the seller's solicitor's trusted record, any other one is not seen. *)
LEMMA AuthoriseRefines ==
  ASSUME IInv, NEW p \in Payees, NEW k \in Ids, AuthorisePayment(p, k)
  PROVE  Release!Authorise \/ UNCHANGED <<Trusted, EverTrusted, AuthorisedRecord, confirmed>>
<1>1. /\ payments' = payments \cup {[payee |-> p, record |-> k]} /\ ~\E x \in payments : x.payee = p
      /\ k \in VerifiedOf(p) /\ UNCHANGED <<records, confirmed>>
  BY DEF AuthorisePayment, MayAuthorise, Payable, VerifiedOf
<1>2. TrustedRecord(p) = k /\ k # 0
  BY <1>1, OneVerified DEF Ids
<1>3. Trusted' = Trusted /\ EverTrusted' = EverTrusted
  BY <1>1 DEF Trusted, EverTrusted, TrustedRecord, VerifiedOf, Ids
<1>4. CASE p # SellerSolicitor
  <2>1. CompletionPayments' = CompletionPayments
    BY <1>1, <1>4 DEF CompletionPayments
  <2>2. QED
    BY <1>1, <1>3, <2>1 DEF AuthorisedRecord
<1>5. CASE p = SellerSolicitor
  <2>1. CompletionPayments = {} /\ CompletionPayments' = {[payee |-> p, record |-> k]}
    BY <1>1, <1>5 DEF CompletionPayments
  <2>2. {x.record : x \in CompletionPayments} = {} /\ {x.record : x \in CompletionPayments}' = {k}
    BY <2>1
  <2>3. AuthorisedRecord = 0 /\ AuthorisedRecord' = k
    BY <2>2, TheRecordFacts DEF AuthorisedRecord
  <2>4. Trusted[SellerSolicitor] = k
    BY <1>2, <1>5 DEF Trusted
  <2>5. QED
    BY <1>1, <1>2, <1>3, <2>3, <2>4 DEF Release!Authorise, Release!NoRecord, Trusted, EverTrusted
<1>6. QED
  BY <1>4, <1>5

(* Completion is on the record the money was authorised to, still the trusted one. *)
LEMMA ConfirmRefines ==
  ASSUME IInv, ConfirmCompletion
  PROVE  Release!Complete \/ UNCHANGED <<Trusted, EverTrusted, AuthorisedRecord, confirmed>>
<1>1. PICK x \in CompletionPayments : records[x.record].status = "verified"
  BY DEF ConfirmCompletion, MayConfirm
<1>2. /\ x \in payments /\ x.payee = SellerSolicitor /\ x.record \in Ids
      /\ records[x.record].payee = SellerSolicitor
  BY <1>1 DEF CompletionPayments, IInv, TypeOK, PaidDetailsWereVerified
<1>3. x.record \in VerifiedOf(SellerSolicitor) /\ x.record # 0
  BY <1>1, <1>2 DEF VerifiedOf, Ids
<1>4. Trusted[SellerSolicitor] = x.record
  BY <1>3, OneVerified, PayeesAssumption DEF Trusted
<1>5. AuthorisedRecord = x.record
  <2>1. \A y \in CompletionPayments : y = x
    BY <1>2 DEF CompletionPayments, IInv, OnePaymentPerPayee
  <2>2. {y.record : y \in CompletionPayments} = {x.record}
    BY <1>1, <2>1
  <2>3. QED
    BY <2>2, TheRecordFacts DEF AuthorisedRecord
<1>6. UNCHANGED <<records, payments>> /\ confirmed' = TRUE /\ ~confirmed
  <2>1. ~confirmed
    BY DEF IInv, CompletedOnClearedMoney, ConfirmCompletion, MayConfirm
  <2>2. QED
    BY <2>1 DEF ConfirmCompletion, MayConfirm
<1>7. UNCHANGED <<Trusted, EverTrusted, AuthorisedRecord>>
  BY <1>6 DEF Trusted, EverTrusted, AuthorisedRecord, CompletionPayments, TrustedRecord, VerifiedOf, Ids
<1>8. QED
  BY <1>3, <1>4, <1>5, <1>6, <1>7 DEF Release!Complete, Release!NoRecord, Trusted, EverTrusted

LEMMA StepRefines == IInv /\ [Next]_vars => [Release!Next]_(Release!vars)
<1>1. SUFFICES ASSUME IInv, [Next]_vars
               PROVE  Release!Next \/ UNCHANGED <<Trusted, EverTrusted, AuthorisedRecord, confirmed>>
  BY DEF Release!vars, Trusted, EverTrusted
<1>2. CASE \E p \in Payees, a \in Accounts : RecordBankDetails(p, a)
  BY <1>1, <1>2, RecordRefines DEF Release!Next
<1>3. CASE \E k \in Ids : Decisions(k)
  <2>1. Ids \subseteq 1..MaxRecords
    BY <1>1, BoundsAssumption DEF IInv, TypeOK, Ids
  <2>2. QED
    BY <1>1, <1>3, <2>1, DecisionRefines DEF Release!Next
<1>4. CASE \E p \in Payees, k \in Ids : AuthorisePayment(p, k)
  BY <1>1, <1>4, AuthoriseRefines DEF Release!Next
<1>5. CASE ConfirmCompletion
  BY <1>1, <1>5, ConfirmRefines DEF Release!Next
<1>6. CASE UNCHANGED <<records, payments, confirmed>>
  BY <1>6 DEF Trusted, EverTrusted, AuthorisedRecord, CompletionPayments, TrustedRecord, VerifiedOf, Ids
<1>7. QED
  BY <1>1, <1>2, <1>3, <1>4, <1>5, <1>6
     DEF Next, vars, AdvanceStage, CertificateSent, PapersComplete, HoldChanges, RequestFunds, MayRequest, ReceiveFunds, MayReceive, ClearFunds,
         SendCompletionPayment, MaySend

(* The payment commands keep the promise of PaymentRelease: trust follows verification, money follows trust. *)
THEOREM PaymentsImplementRelease == Spec => ReleaseSpec
<1>1. Spec => Init /\ [][Next]_vars
  BY DEF Spec
<1>2. QED
  BY <1>1, InitRefines, StepRefines, Invariance, PTL DEF ReleaseSpec, Release!Spec

-----------------------------------------------------------------------------
(* No case stops by itself *)

(* What keeps the last step in reach: the stage ends with completion only, there is a payer to make good a short
   payment, and once the last payer has paid and nobody is asked, the money counts as received. *)
MoneyInv ==
  /\ stage = "completed" => confirmed
  /\ short => receivedFrom # {}
  /\ Payers \subseteq receivedFrom /\ requested = {} => allReceived

LEMMA MoneyInit == Init => MoneyInv
BY PayersAssumption DEF Init, MoneyInv

LEMMA ReceiveKeepsMoney ==
  ASSUME NEW r \in Payers, NEW isCleared \in BOOLEAN, NEW leavesShort \in BOOLEAN,
         MoneyInv, ReceiveFunds(r, isCleared, leavesShort)
  PROVE  MoneyInv'
<1>1. /\ requested' = requested \ {r} /\ receivedFrom' = receivedFrom \cup {r}
      /\ allReceived' = (allReceived \/ (requested' = {} /\ Payers \subseteq receivedFrom'))
      /\ UNCHANGED <<stage, confirmed>>
  BY DEF ReceiveFunds, matter
<1>2. receivedFrom' # {}
  BY <1>1
<1>3. Payers \subseteq receivedFrom' /\ requested' = {} => allReceived'
  BY <1>1
<1>4. QED
  BY <1>1, <1>2, <1>3 DEF MoneyInv

LEMMA StepKeepsMoney == MoneyInv /\ [Next]_vars => MoneyInv'
<1>1. SUFFICES ASSUME MoneyInv, [Next]_vars PROVE MoneyInv'
  OBVIOUS
<1>2. CASE \/ \E p \in Payees, a \in Accounts : RecordBankDetails(p, a)
           \/ \E k \in Ids : Decisions(k)
           \/ UNCHANGED vars
  <2>1. UNCHANGED <<stage, confirmed, short, receivedFrom, requested, allReceived>>
    BY <1>2 DEF RecordBankDetails, Decisions, OpenSource, Verify, Reject, Escalate, SeniorOpensSource, SeniorAnswers,
                SeniorEscalates, Rewrite, vars, matter, money
  <2>2. QED
    BY <1>1, <2>1 DEF MoneyInv
<1>3. CASE AdvanceStage \/ CertificateSent \/ PapersComplete \/ HoldChanges
  <2>1. UNCHANGED <<confirmed, short, receivedFrom, requested, allReceived>> /\ (stage' = stage \/ stage' # "completed")
    BY <1>3 DEF AdvanceStage, CertificateSent, PapersComplete, HoldChanges, money
  <2>2. QED
    BY <1>1, <2>1 DEF MoneyInv
<1>4. CASE \E r \in Payers, k \in Ids : RequestFunds(r, k)
  <2>1. UNCHANGED <<stage, confirmed, short, receivedFrom, allReceived>> /\ requested' # {}
    BY <1>4 DEF RequestFunds, matter
  <2>2. QED
    BY <1>1, <2>1 DEF MoneyInv
<1>5. CASE \E r \in Payers, isCleared \in BOOLEAN, leavesShort \in BOOLEAN : ReceiveFunds(r, isCleared, leavesShort)
  BY <1>1, <1>5, ReceiveKeepsMoney
<1>6. CASE ClearFunds \/ SendCompletionPayment \/ \E p \in Payees, k \in Ids : AuthorisePayment(p, k)
  <2>1. UNCHANGED <<stage, confirmed, short, receivedFrom, requested, allReceived>>
    BY <1>6 DEF ClearFunds, SendCompletionPayment, AuthorisePayment, matter, money
  <2>2. QED
    BY <1>1, <2>1 DEF MoneyInv
<1>7. CASE ConfirmCompletion
  <2>1. UNCHANGED <<short, receivedFrom, requested, allReceived>> /\ confirmed' = TRUE
    BY <1>7 DEF ConfirmCompletion, money
  <2>2. QED
    BY <1>1, <2>1 DEF MoneyInv
<1>8. QED
  BY <1>1, <1>2, <1>3, <1>4, <1>5, <1>6, <1>7 DEF Next

LEMMA MoneyInvariance == Spec => []MoneyInv
BY MoneyInit, StepKeepsMoney, PTL DEF Spec

(* Details of which nothing is to be recorded or to be settled can be paid to. *)
LEMMA SettledIsPayable ==
  ASSUME IInv, NEW p \in Payees, ~DetailsToSettle(p)
  PROVE  \E k \in Ids : Payable(p, k)
<1>1. PICK k \in Ids : records[k].payee = p /\ records[k].status \in {"unverified", "verified"}
  BY DEF DetailsToSettle, ToRecord
<1>2. ~HardStop(p)
  BY DEF DetailsToSettle, ToVerify, HardStop
<1>3. records[k] \in Records
  BY DEF IInv, TypeOK, Ids
<1>4. records[k].status = "verified"
  <2>1. SUFFICES ASSUME records[k].status = "unverified" PROVE FALSE
    BY <1>1
  <2>2. records[k].decision \notin {"pending", "opened", "escalated"}
    BY <1>1, <2>1 DEF DetailsToSettle, ToVerify, DecisionPending
  <2>3. records[k].decision # "actioned"
    BY <2>1 DEF IInv, RecordsInv, UnverifiedIsFlagged
  <2>4. QED
    BY <1>3, <2>2, <2>3 DEF Records
<1>5. IsCurrent(k)
  BY <1>1 DEF IInv, RecordsInv, LiveVersionIsNewest
<1>6. QED
  BY <1>1, <1>2, <1>4, <1>5 DEF Payable

(* Before everyone has paid, the next payer can be asked or can pay. *)
LEMMA MoneyToCome ==
  ASSUME IInv, MoneyInv, ~confirmed, ~hold, stage = "pre_completion", Lender \in Payers => certificate,
         Missing # {} => ~DetailsToSettle(FirmClientAccount),
         \A r \in Payers : ~MayReceive(r, TRUE, FALSE), \A r \in Missing, k \in Ids : ~MayRequest(r, k)
  PROVE  Missing = {} /\ requested = {} /\ ~short /\ allReceived
<1>1. requested \subseteq Payers /\ receivedFrom \subseteq Payers
  BY DEF IInv, TypeOK
<1>2. requested = {}
  BY <1>1 DEF MayReceive
<1>3. Missing = {}
  <2>1. SUFFICES ASSUME NEW r \in Missing PROVE FALSE
    OBVIOUS
  <2>2. PICK k \in Ids : Payable(FirmClientAccount, k)
    BY <2>1, SettledIsPayable, PayeesAssumption
  <2>3. r \in Payers
    BY DEF Missing
  <2>4. MayRequest(r, k)
    BY <1>2, <2>2, <2>3 DEF MayRequest
  <2>5. QED
    BY <2>1, <2>4
<1>4. ~short
  <2>1. SUFFICES ASSUME short PROVE FALSE
    OBVIOUS
  <2>2. PICK r \in receivedFrom : TRUE
    BY <2>1 DEF MoneyInv
  <2>3. QED
    BY <1>1, <2>1, <2>2 DEF MayReceive
<1>5. QED
  BY <1>2, <1>3, <1>4 DEF MoneyInv, Missing

(* Once the money is in, it can be authorised, sent, or the case completed. *)
LEMMA MoneyToGo ==
  ASSUME IInv, ~hold, stage = "pre_completion", uncleared = 0, ~short, papers, Lender \in Payers => certificate,
         Payers \subseteq receivedFrom, allReceived, ~Overtaken, ~DetailsToSettle(SellerSolicitor)
  PROVE  (\E k \in Ids : MayAuthorise(SellerSolicitor, k)) \/ MaySend \/ MayConfirm
<1>1. PICK k \in Ids : Payable(SellerSolicitor, k)
  BY SettledIsPayable, PayeesAssumption
<1>2. CASE CompletionPayments = {}
  BY <1>1, <1>2 DEF MayAuthorise, CompletionPayments
<1>3. CASE CompletionPayments # {} /\ ~sent
  BY <1>3 DEF MaySend
<1>4. CASE CompletionPayments # {} /\ sent
  <2>1. PICK x \in CompletionPayments : TRUE
    BY <1>4
  <2>2. TrustedRecord(SellerSolicitor) = k
    BY <1>1, OneVerified, PayeesAssumption DEF VerifiedOf, Payable
  <2>3. x.record = k
    BY <2>1, <2>2 DEF Overtaken, Ids
  <2>4. IsCurrent(x.record) /\ records[x.record].status = "verified" /\ ~HardStop(SellerSolicitor)
    BY <1>1, <2>3 DEF Payable
  <2>5. MayConfirm
    BY <1>4, <2>1, <2>4 DEF MayConfirm
  <2>6. QED
    BY <2>5
<1>5. QED
  BY <1>2, <1>3, <1>4

LEMMA AlwaysSomethingToDo == IInv /\ MoneyInv => SomethingToDo
<1>1. SUFFICES ASSUME IInv, MoneyInv, ~confirmed, ~hold, ~Overtaken, ~NextStep, ~DetailsToSettle(SellerSolicitor),
                      Missing # {} => ~DetailsToSettle(FirmClientAccount)
               PROVE  FALSE
  BY DEF SomethingToDo
<1>2. stage = "pre_completion" /\ papers /\ uncleared = 0 /\ (Lender \in Payers => certificate)
  <2>1. stage \in Stages /\ stage # "completed" /\ stage \notin {"pre_exchange", "exchanged"}
    BY <1>1 DEF NextStep, IInv, TypeOK, MoneyInv
  <2>2. uncleared = 0
    <3>1. ~(uncleared > 0)
      BY <1>1, Zenon DEF NextStep
    <3>2. uncleared \in Nat
      BY <1>1, BoundsAssumption DEF IInv, TypeOK
    <3>3. QED
      BY <3>1, <3>2
  <2>3. papers /\ (Lender \in Payers => certificate)
    BY <1>1, Zenon DEF NextStep
  <2>4. QED
    BY <2>1, <2>2, <2>3 DEF Stages
<1>3. (\A r \in Payers : ~MayReceive(r, TRUE, FALSE)) /\ (\A r \in Missing, k \in Ids : ~MayRequest(r, k))
  BY <1>1 DEF NextStep
<1>4. Missing = {} /\ ~short /\ allReceived
  BY <1>1, <1>2, <1>3, MoneyToCome
<1>5. Payers \subseteq receivedFrom
  BY <1>4 DEF Missing
<1>6. (\E k \in Ids : MayAuthorise(SellerSolicitor, k)) \/ MaySend \/ MayConfirm
  BY <1>1, <1>2, <1>4, <1>5, MoneyToGo
<1>7. QED
  BY <1>1, <1>6 DEF NextStep

(* No case stops by itself, for any payers, payees and versions of details: whatever the order of receipts,
   verifications and authorisations, somebody has a next step on the way to completion_confirmed, unless the case
   is held or a change of details overtook the payment. *)
THEOREM CaseGoesOn == Spec => []SomethingToDo
BY AlwaysSomethingToDo, Invariance, MoneyInvariance, PTL
=============================================================================

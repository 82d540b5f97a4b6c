--------------------------- MODULE DocumentReview ---------------------------
(***************************************************************************)
(* The documents of a purchase and the questions they put to people, from   *)
(* pre-contract to exchange (lib/server/engine: machine.ts, projection.ts,  *)
(* rules.ts, and the commands service.ts runs around an AI's reading).      *)
(*                                                                          *)
(* A document arrives, an AI reads it between two commands, and the rules   *)
(* clear it or flag it.  A flag is a decision for a person; a clear goes    *)
(* through, goes through and is confirmed afterwards, or is held until a    *)
(* person approves it, by the trust level.  Any decision may be escalated,  *)
(* and the answer to the escalation settles what was escalated.  The stage  *)
(* gates read what became of the documents, and the report on title is      *)
(* drafted, approved and sent on the way.                                   *)
(*                                                                          *)
(* A command runs under the matter's lock (module MatterLog), and ends with *)
(* the automatic rules (Settle): one command is one step.  Left out: what   *)
(* holds the same gates (issues, proof of funds, the survey, the client's   *)
(* authority); manual handling, in which people complete steps by hand,     *)
(* without the answers and approvals that are modelled here; and all that   *)
(* follows exchange.                                                        *)
(***************************************************************************)
EXTENDS Naturals, Sequences, FiniteSets, Functions

CONSTANTS
  Searches,       \* searches a purchase may require
  Enquiries,      \* identifiers of enquiries
  Title, Mortgage,
  MaxDocuments,   \* bound on the results, replies, offers and titles that come
  MaxDrafts,      \* bound on the drafts of the report
  MaxDecisions,   \* bound on the decisions open at once
  MaxEscalations, \* bound on the escalations of one decision
  MaxReopened     \* bound on steps marked incomplete, offers and enquiries withdrawn

ASSUME ItemsAssumption == /\ Title # Mortgage
                          /\ {Title, Mortgage} \cap (Searches \cup Enquiries) = {}
                          /\ Searches \cap Enquiries = {}
ASSUME BoundsAssumption ==
  /\ MaxDocuments \in Nat /\ MaxDrafts \in Nat /\ MaxReopened \in Nat
  /\ MaxDecisions \in Nat /\ MaxEscalations \in Nat

VARIABLES
  m,         \* the matter's state, as far as the documents and the gates go
  decisions, \* the open decisions, each with its escalations
  reading,   \* the offers an AI is reading: what a server has still to record
  reopened   \* the number of steps that were marked incomplete, or withdrawn

vars == <<m, decisions, reading, reopened>>

-----------------------------------------------------------------------------
(* The matter *)

Items == Searches \cup Enquiries \cup {Title, Mortgage}

Stages == <<"pre_contract", "contract_review", "pre_exchange", "exchanged">>

ItemStatuses == {"none", "asked", "in", "read", "flagged", "cleared", "reviewed", "withdrawn"}
ReportStatuses == {"not_started", "drafted", "approved", "rejected", "sent"}

(* An item's doc is the document (0: none) its status is about; judged is the document that the
   verdict or the answer its resolution rests on was about; redone says that a person reopened it. *)
ItemStates == [status : ItemStatuses, doc : Nat, judged : Nat, redone : BOOLEAN]
NoItem == [status |-> "none", doc |-> 0, judged |-> 0, redone |-> FALSE]

(* The draft a report's status is about, the draft that the approval was given to, whether it is an
   interim report, whether an interim or an earlier one went, and whether a full one ever went. *)
Reports == [status : ReportStatuses, draft : Nat, approved : Nat, interim : BOOLEAN,
            earlier : BOOLEAN, full : BOOLEAN]
NoReport == [status |-> "not_started", draft |-> 0, approved |-> 0, interim |-> FALSE,
             earlier |-> FALSE, full |-> FALSE]

Matters == [stage : Range(Stages), lender : BOOLEAN, required : SUBSET Searches, item : [Items -> ItemStates],
            report : Reports, drafts : Nat, contract : BOOLEAN, signed : BOOLEAN, deposit : BOOLEAN, conditions : BOOLEAN]

Resolved(st) == st \in {"cleared", "reviewed", "withdrawn"}
Done(s, i) == Resolved(s.item[i].status)

Exchanged == m.stage = "exchanged"

-----------------------------------------------------------------------------
(* The automatic rules: what follows every command *)

SearchesDone(s) == \A q \in s.required : s.item[q].status = "none" \/ Done(s, q)
SearchesIn(s) == \A q \in s.required : Done(s, q)
EnquiriesDone(s) == \A e \in Enquiries : s.item[e].status = "none" \/ Done(s, e)
OfferDone(s) == s.lender => Done(s, Mortgage)
ContractReady(s) == s.contract /\ s.signed

Gate(s) ==
  \/ s.stage = "pre_contract" /\ SearchesIn(s) /\ EnquiriesDone(s) /\ OfferDone(s)
  \/ s.stage = "contract_review" /\ SearchesDone(s) /\ Done(s, Title) /\ s.report.status = "sent" /\ EnquiriesDone(s)

ConditionsDue(s) ==
  s.stage = "pre_exchange" /\ s.deposit /\ ~s.conditions /\ ContractReady(s) /\ OfferDone(s)

(* An interim report that went leaves a supplementary one due. *)
Supplementary(r) == [r EXCEPT !.status = "not_started", !.interim = FALSE, !.earlier = TRUE]

(* Mutant: the stage moves on and the interim report counts as the report. *)
AdvancePlain(s) ==
  IF s.stage = "pre_contract" THEN [s EXCEPT !.stage = "contract_review"] ELSE [s EXCEPT !.stage = "pre_exchange"]

Advance(s) ==
  IF s.stage = "pre_contract"
  THEN [s EXCEPT !.stage = "contract_review",
                 !.report = IF @.interim /\ @.status = "sent" THEN Supplementary(@) ELSE @]
  ELSE [s EXCEPT !.stage = "pre_exchange"]

AutoStep(s) == CASE ConditionsDue(s) -> [s EXCEPT !.conditions = TRUE]
                 [] Gate(s) -> Advance(s)
                 [] OTHER -> s

(* Mutant: one automatic rule after each command. *)
SettleOnce(s) == AutoStep(s)

(* From pre-contract at most two stages and the conditions of exchange follow one command. *)
Settle(s) == AutoStep(AutoStep(AutoStep(s)))

-----------------------------------------------------------------------------
(* Decisions *)

DecisionStates == {"pending", "escalated", "actioned"}
OpenStates == {"pending", "escalated"}

(* An open decision: about a document (a report's: a draft), whether it holds a clear back, and the states of
   the escalations of it, each a decision of a senior's, in order.  Nothing reads what was answered. *)
Decisions == [kind : {"review", "auto_clear", "report"}, item : Items, doc : Nat, status : OpenStates,
              held : BOOLEAN, seniors : Seq(DecisionStates)]

Decision(k, i, d, held) ==
  [kind |-> k, item |-> i, doc |-> d, status |-> "pending", held |-> held, seniors |-> <<>>]
Raised(k, i, d, held) ==
  Cardinality(decisions) < MaxDecisions /\ decisions' = decisions \cup {Decision(k, i, d, held)}
Replace(d, e) == decisions' = (decisions \ {d}) \cup {e}
Close(d) == decisions' = decisions \ {d}

Asking(d) == {n \in DOMAIN d.seniors : d.seniors[n] = "pending"}

(* What an answer does to the item: the rule's clear goes through, or the flag was reviewed.  A search that
   was taken off the case is not brought back. *)
SetResolved(s, i, d, st) ==
  IF i \in Searches /\ s.item[i].status = "none" THEN s
  ELSE [s EXCEPT !.item[i].status = st, !.item[i].judged = d]
ClearItem(s, i, d) == SetResolved(s, i, d, "cleared")
ReviewItem(s, i, d) == SetResolved(s, i, d, "reviewed")

ApproveReport(s, d) == [s EXCEPT !.report.status = "approved", !.report.approved = d]
RejectReport(s) == [s EXCEPT !.report.status = "rejected"]

(* Mutant: any draft that awaits approval will do. *)
AnyDraft(s, d) == s.report.status = "drafted"

CurrentDraft(s, d) == s.report.draft = d /\ s.report.status = "drafted"

-----------------------------------------------------------------------------
(* Commands: each ends with the automatic rules *)

(* The variables have their types, and the automatic rules have nothing left to do. *)
TypeOK ==
  /\ m \in Matters
  /\ decisions \in SUBSET Decisions
  /\ reading \in SUBSET Nat
  /\ reopened \in Nat
  /\ AutoStep(m) = m

(* A cash purchase that requires no search does not stay in pre-contract. *)
Init ==
  /\ \E lender \in BOOLEAN, required \in SUBSET Searches :
       m = [stage |-> "pre_contract", lender |-> lender, required |-> required,
            item |-> [i \in Items |-> NoItem], report |-> NoReport, drafts |-> 0,
            contract |-> FALSE, signed |-> FALSE, deposit |-> FALSE, conditions |-> FALSE]
  /\ ~Gate(m)
  /\ decisions = {}
  /\ reading = {}
  /\ reopened = 0

Becomes(s) == ~Exchanged /\ m' = Settle(s)
Record(s) == Becomes(s) /\ UNCHANGED <<decisions, reading, reopened>>

(* The next document of an item. *)
Newer(i, st) == [m EXCEPT !.item[i].status = st, !.item[i].doc = @ + 1]
MoreCome == FoldFunction(LAMBDA i, n : i.doc + n, 0, m.item) < MaxDocuments

(* A search is ordered, or a resolved one again; an enquiry is raised. *)

(* Mutant: an open search is ordered again too. *)
OrderAnyway(q) == MoreCome /\ Record(Newer(q, "asked"))

Order(q) == (m.item[q].status = "none" \/ Done(m, q)) /\ MoreCome /\ Record(Newer(q, "asked"))

Unused == {e \in Enquiries : m.item[e].status = "none"}
Ask(s, e) == [s EXCEPT !.item[e].status = "asked"]

RaiseEnquiry == \E e \in Unused : Record(Ask(m, e))

(* A document arrives.  A search result and an offer are recorded before an AI reads them. *)

SearchReturned(q) == m.item[q].status = "asked" /\ Record([m EXCEPT !.item[q].status = "in"])

OfferReceived ==
  /\ m.lender /\ m.item[Mortgage].status # "flagged"
  /\ MoreCome
  /\ Becomes(Newer(Mortgage, "in"))
  /\ reading' = reading \cup {m.item[Mortgage].doc + 1}
  /\ UNCHANGED <<decisions, reopened>>

(* The reading of document d is recorded, with the rules' verdict on it: flagged; cleared, at trust level
   assist to be confirmed; or at level propose held back. *)

Verdict(s, i, d) ==
  /\ ~Exchanged
  /\ \/ m' = Settle([s EXCEPT !.item[i].status = "flagged"]) /\ Raised("review", i, d, FALSE)
     \/ m' = Settle(ClearItem(s, i, d)) /\ (UNCHANGED decisions \/ Raised("auto_clear", i, d, FALSE))
     \/ m' = Settle([s EXCEPT !.item[i].status = "read"]) /\ Raised("auto_clear", i, d, TRUE)
  /\ UNCHANGED reopened

SearchExtracted(q) == m.item[q].status = "in" /\ Verdict(m, q, m.item[q].doc) /\ UNCHANGED reading

ReplyReceived(e) ==
  /\ m.item[e].status = "asked" /\ MoreCome
  /\ Verdict(Newer(e, "in"), e, m.item[e].doc + 1)
  /\ UNCHANGED reading

(* Only that an offer awaits reading is checked, not which. *)
OfferExtracted(d) ==
  /\ d \in reading /\ reading' = reading \ {d}
  /\ m.item[Mortgage].status = "in"
  /\ Verdict(m, Mortgage, d)

(* The reading is refused, or the server that reads is lost. *)
OfferReadLost(d) == d \in reading /\ reading' = reading \ {d} /\ UNCHANGED <<m, decisions, reopened>>

ReportReopened(r) == IF r.status = "sent" THEN Supplementary(r) ELSE r

TitleExtracted ==
  /\ m.item[Title].status # "flagged" /\ MoreCome
  /\ Verdict([Newer(Title, "in") EXCEPT !.report = ReportReopened(@)], Title, m.item[Title].doc + 1)
  /\ UNCHANGED reading

(* What an answer does: to a review (perhaps with a further enquiry), to an auto-clear, to a report's draft. *)

Answered(d) ==
  CASE d.kind = "review" -> Becomes(ReviewItem(m, d.item, d.doc))
    [] d.kind = "auto_clear" -> Becomes(IF d.held THEN ClearItem(m, d.item, d.doc) ELSE m)
    [] d.kind = "report" -> CurrentDraft(m, d.doc) /\ (Becomes(ApproveReport(m, d.doc)) \/ Becomes(RejectReport(m)))

Resolve(d) ==
  /\ d.status = "pending"
  /\ \/ Answered(d)
     \/ d.kind = "review" /\ \E e \in Unused : Becomes(Ask(ReviewItem(m, d.item, d.doc), e))
  /\ Close(d)
  /\ UNCHANGED <<reading, reopened>>

(* Mutant: an escalated decision stays with the handler as well. *)
EscalateBoth(d) ==
  /\ d.status = "pending" /\ ~Exchanged
  /\ Len(d.seniors) < MaxEscalations
  /\ Replace(d, [d EXCEPT !.seniors = Append(@, "pending")])
  /\ UNCHANGED <<m, reading, reopened>>

Escalate(d) ==
  /\ d.status = "pending" /\ ~Exchanged
  /\ Len(d.seniors) < MaxEscalations
  /\ Replace(d, [d EXCEPT !.status = "escalated", !.seniors = Append(@, "pending")])
  /\ UNCHANGED <<m, reading, reopened>>

(* A senior passes it on: the escalation is answered, and the next one is of the same decision. *)
EscalateFurther(d, n) ==
  /\ n \in Asking(d) /\ ~Exchanged
  /\ Len(d.seniors) < MaxEscalations
  /\ Replace(d, [d EXCEPT !.seniors = Append([@ EXCEPT ![n] = "escalated"], "pending")])
  /\ UNCHANGED <<m, reading, reopened>>

(* Mutant: the senior's answer is on record and settles nothing. *)
SeniorSaysOnly(d, n) ==
  /\ n \in Asking(d) /\ ~Exchanged
  /\ Replace(d, [d EXCEPT !.seniors[n] = "actioned"])
  /\ UNCHANGED <<m, reading, reopened>>

(* A senior answers: what was escalated is settled in its own terms, a report only if the draft is current. *)
SeniorAnswers(d, n) ==
  /\ n \in Asking(d) /\ ~Exchanged
  /\ IF d.kind = "report" /\ ~CurrentDraft(m, d.doc)
     THEN m' = m /\ Replace(d, [d EXCEPT !.seniors[n] = "actioned"])
     ELSE Answered(d) /\ Close(d)
  /\ UNCHANGED <<reading, reopened>>

(* The report on title. *)

MayDraft(s) ==
  /\ \/ s.stage \in {"pre_contract", "contract_review"}
     \/ s.stage = "pre_exchange" /\ s.report.earlier
  /\ Done(s, Title)
  /\ s.report.status \in {"not_started", "rejected"}

DraftReport ==
  /\ MayDraft(m) /\ m.drafts < MaxDrafts
  /\ Becomes([m EXCEPT !.report.status = "drafted", !.report.draft = m.drafts + 1, !.report.approved = 0,
                       !.report.interim = (m.stage = "pre_contract"), !.drafts = @ + 1])
  /\ Raised("report", Title, m.drafts + 1, FALSE)
  /\ UNCHANGED <<reading, reopened>>

MaySend(s) == s.report.status = "approved" /\ (s.report.interim => s.stage = "pre_contract")

SendReport ==
  /\ MaySend(m)
  /\ Record([m EXCEPT !.report.status = "sent", !.report.full = @ \/ ~m.report.interim])

(* The contract, the deposit and exchange. *)

ApproveContract == m.stage # "pre_contract" /\ ~m.contract /\ Record([m EXCEPT !.contract = TRUE])
HoldSignedContract == m.stage # "pre_contract" /\ ~m.signed /\ Record([m EXCEPT !.signed = TRUE])
ReceiveDeposit == ~m.deposit /\ Record([m EXCEPT !.deposit = TRUE])

Exchange ==
  /\ m.stage = "pre_exchange"
  /\ OfferDone(m) /\ SearchesDone(m) /\ ContractReady(m) /\ m.conditions
  /\ m' = [m EXCEPT !.stage = "exchanged"]
  /\ UNCHANGED <<decisions, reading, reopened>>

(* What no longer holds: a person marks a step incomplete, an offer or an enquiry is withdrawn.  Open
   decisions stay open. *)

Undo(s) ==
  /\ reopened < MaxReopened /\ reopened' = reopened + 1
  /\ Becomes(s)
  /\ UNCHANGED <<decisions, reading>>

Off(i) == [m EXCEPT !.item[i].status = "none", !.item[i].redone = TRUE]

ReopenSearch(q) == m.item[q].status # "none" /\ Undo(Off(q))
ReopenTitle == m.item[Title].status # "none" /\ Undo(Off(Title))
ReopenReport == Undo([m EXCEPT !.report.status = "not_started", !.report.draft = 0, !.report.approved = 0])
ReopenContract == Undo([m EXCEPT !.contract = FALSE, !.signed = FALSE])
ReopenDeposit == Undo([m EXCEPT !.deposit = FALSE])
WithdrawOffer == m.lender /\ m.item[Mortgage].status # "none" /\ Undo(Off(Mortgage))
WithdrawEnquiry(e) ==
  m.item[e].status # "none" /\ ~Done(m, e) /\ Undo([m EXCEPT !.item[e].status = "withdrawn"])

Next ==
  \/ \E q \in m.required : Order(q) \/ SearchReturned(q) \/ SearchExtracted(q) \/ ReopenSearch(q)
  \/ RaiseEnquiry \/ \E e \in Enquiries : ReplyReceived(e) \/ WithdrawEnquiry(e)
  \/ OfferReceived \/ WithdrawOffer \/ \E d \in reading : OfferExtracted(d) \/ OfferReadLost(d)
  \/ TitleExtracted \/ ReopenTitle
  \/ \E d \in decisions : \/ Resolve(d) \/ Escalate(d)
                          \/ \E n \in DOMAIN d.seniors : EscalateFurther(d, n) \/ SeniorAnswers(d, n)
  \/ DraftReport \/ SendReport \/ ReopenReport
  \/ ApproveContract \/ HoldSignedContract \/ ReopenContract
  \/ ReceiveDeposit \/ ReopenDeposit
  \/ Exchange

Spec == Init /\ [][Next]_vars

-----------------------------------------------------------------------------
(* Properties *)

(* An item that waits for a person (a flag, a clear held back) has an open question about it on somebody's
   list, however it was escalated, re-read or replaced: resolveEvents, verdictEvents. *)
HeldUpIsAsked ==
  \A i \in Items : m.item[i].status \in {"flagged", "read"} =>
    \E d \in decisions : /\ d.item = i /\ (d.status = "pending" \/ Asking(d) # {})
                         /\ IF m.item[i].status = "flagged" THEN d.kind = "review" ELSE d.held

(* Until it is answered a question is on exactly one list, the handler's or one senior's.  (A report's draft
   that was replaced may be left with nobody.) *)
OneDesk ==
  \A d \in decisions :
    IF d.status = "pending" THEN Asking(d) = {}
    ELSE \/ Cardinality(Asking(d)) = 1
         \/ d.kind = "report" /\ Asking(d) = {} /\ ~CurrentDraft(m, d.doc)

(* A search or an enquiry is resolved by a verdict on, or an answer about, the result or reply it has, also
   when it was ordered again; unless a person reopened it, whose old decisions may still be answered. *)
JudgedAsReturned ==
  \A i \in Searches \cup Enquiries :
    m.item[i].status \in {"cleared", "reviewed"} /\ ~m.item[i].redone => m.item[i].judged = m.item[i].doc

(* A report that counts as approved, or went, was approved as it stands: no answer given on one draft, late
   or through a senior, approves another (report_on_title_approved, assertCanSendReport). *)
ReportAsApproved == m.report.status \in {"approved", "sent"} => m.report.approved = m.report.draft

(* A case reaches pre-exchange, and exchanges, only after a full report on title went to the client: an
   interim one is never enough (stage_advanced, title_extracted and the gate of contract_review). *)
FullReportWent == m.stage \in {"pre_exchange", "exchanged"} => m.report.full

(* Contracts are exchanged only while the deposit is held: marked incomplete, it locks again what it
   unlocked, exchange above all (step_reopened, exchange_conditions_met, contracts_exchanged). *)
ReopenedDepositLocks == Exchanged => m.deposit

=============================================================================

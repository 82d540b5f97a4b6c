------------------------ MODULE DocumentReviewProofs ------------------------
(***************************************************************************)
(* For any searches, enquiries and bounds: the types, that what waits for a *)
(* person is on somebody's list, on exactly one list, and about the         *)
(* document in hand, and that the report on title that went was approved as *)
(* it stands and was a full one before exchange.                            *)
(***************************************************************************)
EXTENDS DocumentReview, TLAPS, FiniteSetTheorems, SequenceTheorems

Judgeable == Searches \cup Enquiries

(* The report: what was approved is the draft that counts; a full one that went is remembered; an interim one
   that went counts in pre-contract only; and no case passes contract review without a full one. *)
ReportInv(s) ==
  /\ s.report.status \in {"approved", "sent"} => s.report.approved = s.report.draft
  /\ s.report.status = "sent" /\ ~s.report.interim => s.report.full
  /\ s.report.status = "sent" /\ s.report.interim => s.stage = "pre_contract"
  /\ s.stage \in {"pre_exchange", "exchanged"} => s.report.full

GoodMatter(s) == s \in Matters /\ ReportInv(s)

(* A decision whose answer resolves its item. *)
Binding(d) == d.kind = "review" \/ d.held

OnSomeList(d) == d.status = "pending" \/ Asking(d) # {}

(* An item that waits for a person is asked of one (HeldUpIsAsked, of any item and decisions). *)
Asked(x, i, ds) ==
  x.status \in {"flagged", "read"} =>
    \E d \in ds : /\ d.item = i /\ OnSomeList(d)
                  /\ IF x.status = "flagged" THEN d.kind = "review" ELSE d.held

(* Of a search or enquiry that nobody reopened at most one open decision can resolve it, and that one is
   about the document it waits with. *)
BindsOne(x, i, ds) ==
  i \in Judgeable /\ ~x.redone =>
    /\ \A d \in ds : d.item = i /\ Binding(d) =>
         /\ x.status \in {"flagged", "read", "withdrawn"}
         /\ d.doc = x.doc
    /\ \A d, e \in ds : d.item = i /\ e.item = i /\ Binding(d) /\ Binding(e) => d = e
    /\ x.status \in {"cleared", "reviewed"} => x.judged = x.doc

ItemOK(x, i, ds) == Asked(x, i, ds) /\ BindsOne(x, i, ds) /\ (i \in Searches => x.status # "withdrawn")

(* A decision is on one list, or about a draft that was replaced, which no later draft is. *)
DecisionOK(s, d) ==
  /\ d.held => d.kind = "auto_clear"
  /\ d.kind = "report" => d.doc <= s.drafts
  /\ IF d.status = "pending" THEN Asking(d) = {}
     ELSE \/ \E n \in Asking(d) : Asking(d) = {n}
          \/ d.kind = "report" /\ Asking(d) = {} /\ ~CurrentDraft(s, d.doc)

IInv ==
  /\ GoodMatter(m) /\ AutoStep(m) = m
  /\ decisions \in SUBSET Decisions
  /\ \A d \in decisions : DecisionOK(m, d)
  /\ \A i \in Items : ItemOK(m.item[i], i, decisions)
  /\ reading \in SUBSET Nat /\ reopened \in Nat

-----------------------------------------------------------------------------
(* The automatic rules *)

StageNames == {"pre_contract", "contract_review", "pre_exchange", "exchanged"}

LEMMA StagesRange == Range(Stages) = StageNames
BY DEF Range, Stages, StageNames

(* The new state t of the matter is s but for the stage and the conditions, and an interim report that went. *)
Follows(s, t) ==
  /\ t.item = s.item /\ t.drafts = s.drafts
  /\ t.report = s.report \/ t.report.status = "not_started"

LEMMA SupplementaryType ==
  ASSUME NEW r \in Reports
  PROVE  /\ Supplementary(r) \in Reports /\ Supplementary(r).status = "not_started" /\ Supplementary(r).full = r.full
BY DEF Supplementary, Reports, ReportStatuses

LEMMA AutoStepGood ==
  ASSUME NEW s, GoodMatter(s)
  PROVE  GoodMatter(AutoStep(s)) /\ Follows(s, AutoStep(s))
<1>1. s \in Matters /\ s.report \in Reports /\ s.stage \in StageNames
  BY StagesRange DEF GoodMatter, Matters
<1>2. CASE ConditionsDue(s)
  <2>1. PICK t : t = [s EXCEPT !.conditions = TRUE]
    OBVIOUS
  <2>2. t \in Matters /\ t.item = s.item /\ t.drafts = s.drafts /\ t.report = s.report /\ t.stage = s.stage
    BY <1>1, <2>1 DEF Matters
  <2>3. ~Gate(s)
    BY <1>2 DEF ConditionsDue, Gate
  <2>4. AutoStep(s) = t
    BY <1>2, <2>1, <2>3 DEF AutoStep
  <2>5. QED
    BY <2>2, <2>4 DEF GoodMatter, ReportInv, Follows
<1>3. CASE ~ConditionsDue(s) /\ Gate(s) /\ s.stage = "pre_contract"
  <2>1. PICK r : r = IF s.report.interim /\ s.report.status = "sent" THEN Supplementary(s.report) ELSE s.report
    OBVIOUS
  <2>2. /\ r \in Reports
        /\ r = s.report \/ r.status = "not_started"
        /\ r.status = "sent" => r = s.report /\ ~r.interim
        /\ r.status = "approved" => r = s.report
    BY <1>1, <2>1, SupplementaryType
  <2>3. PICK t : t = [s EXCEPT !.stage = "contract_review", !.report = r]
    OBVIOUS
  <2>4. t \in Matters /\ t.item = s.item /\ t.drafts = s.drafts /\ t.report = r /\ t.stage = "contract_review"
    BY <1>1, <2>2, <2>3, StagesRange DEF Matters, StageNames
  <2>5. AutoStep(s) = t
    BY <1>3, <2>1, <2>3 DEF AutoStep, Advance
  <2>6. QED
    BY <2>2, <2>4, <2>5 DEF GoodMatter, ReportInv, Follows
<1>4. CASE ~ConditionsDue(s) /\ Gate(s) /\ s.stage # "pre_contract"
  <2>1. PICK t : t = [s EXCEPT !.stage = "pre_exchange"]
    OBVIOUS
  <2>2. t \in Matters /\ t.item = s.item /\ t.drafts = s.drafts /\ t.report = s.report /\ t.stage = "pre_exchange"
    BY <1>1, <2>1, StagesRange DEF Matters, StageNames
  <2>3. AutoStep(s) = t
    BY <1>4, <2>1 DEF AutoStep, Advance
  <2>4. s.stage = "contract_review" /\ s.report.status = "sent"
    BY <1>4 DEF Gate
  <2>5. QED
    BY <1>1, <2>2, <2>3, <2>4 DEF GoodMatter, ReportInv, Follows
<1>5. CASE ~ConditionsDue(s) /\ ~Gate(s)
  BY <1>5 DEF AutoStep, Follows
<1>6. QED
  BY <1>2, <1>3, <1>4, <1>5

(* What the automatic rules may still do at most: three steps. *)
StepsLeft(s) ==
  CASE s.stage = "pre_contract" -> 3
    [] s.stage = "contract_review" -> 2
    [] s.stage = "pre_exchange" /\ ~s.conditions -> 1
    [] OTHER -> 0

LEMMA AutoStepCounts ==
  ASSUME NEW s, GoodMatter(s)
  PROVE  /\ StepsLeft(s) \in 0..3
         /\ AutoStep(s) = s \/ StepsLeft(AutoStep(s)) < StepsLeft(s)
<1>1. s \in Matters /\ s.report \in Reports /\ s.stage \in StageNames
  BY StagesRange DEF GoodMatter, Matters
<1>2. StepsLeft(s) \in 0..3
  BY <1>1 DEF StepsLeft, StageNames
<1>3. CASE ConditionsDue(s)
  <2>1. PICK t : t = [s EXCEPT !.conditions = TRUE]
    OBVIOUS
  <2>2. t.stage = "pre_exchange" /\ t.conditions
    BY <1>1, <1>3, <2>1 DEF Matters, ConditionsDue
  <2>3. ~Gate(s) /\ AutoStep(s) = t
    BY <1>3, <2>1 DEF AutoStep, ConditionsDue, Gate
  <2>4. StepsLeft(t) = 0 /\ StepsLeft(s) = 1
    BY <1>3, <2>2 DEF StepsLeft, ConditionsDue
  <2>5. QED
    BY <1>2, <2>3, <2>4
<1>4. CASE ~ConditionsDue(s) /\ Gate(s) /\ s.stage = "pre_contract"
  <2>1. PICK t : t = Advance(s)
    OBVIOUS
  <2>2. t.stage = "contract_review"
    BY <1>1, <1>4, <2>1 DEF Advance, Matters
  <2>3. AutoStep(s) = t
    BY <1>4, <2>1 DEF AutoStep
  <2>4. StepsLeft(t) = 2 /\ StepsLeft(s) = 3
    BY <1>4, <2>2 DEF StepsLeft
  <2>5. QED
    BY <1>2, <2>3, <2>4
<1>5. CASE ~ConditionsDue(s) /\ Gate(s) /\ s.stage # "pre_contract"
  <2>1. PICK t : t = Advance(s)
    OBVIOUS
  <2>2. t.stage = "pre_exchange" /\ s.stage = "contract_review"
    BY <1>1, <1>5, <2>1 DEF Advance, Matters, Gate
  <2>3. AutoStep(s) = t
    BY <1>5, <2>1 DEF AutoStep
  <2>4. StepsLeft(t) \in {0, 1} /\ StepsLeft(s) = 2
    BY <1>5, <2>2 DEF StepsLeft
  <2>5. QED
    BY <1>2, <2>3, <2>4
<1>6. CASE ~ConditionsDue(s) /\ ~Gate(s)
  BY <1>2, <1>6 DEF AutoStep
<1>7. QED
  BY <1>3, <1>4, <1>5, <1>6

LEMMA SettleGood ==
  ASSUME NEW s, GoodMatter(s)
  PROVE  GoodMatter(Settle(s)) /\ Follows(s, Settle(s)) /\ AutoStep(Settle(s)) = Settle(s)
<1>1. PICK a : a = AutoStep(s)
  OBVIOUS
<1>2. PICK b : b = AutoStep(a)
  OBVIOUS
<1>3. PICK c : c = AutoStep(b)
  OBVIOUS
<1>4. GoodMatter(a) /\ Follows(s, a)
  BY <1>1, AutoStepGood
<1>5. GoodMatter(b) /\ Follows(a, b)
  BY <1>2, <1>4, AutoStepGood
<1>6. GoodMatter(c) /\ Follows(b, c)
  BY <1>3, <1>5, AutoStepGood
<1>7. Follows(s, c)
  BY <1>4, <1>5, <1>6 DEF Follows
<1>8. /\ StepsLeft(s) \in 0..3 /\ StepsLeft(a) \in 0..3 /\ StepsLeft(b) \in 0..3 /\ StepsLeft(c) \in 0..3
      /\ a = s \/ StepsLeft(a) < StepsLeft(s)
      /\ b = a \/ StepsLeft(b) < StepsLeft(a)
      /\ c = b \/ StepsLeft(c) < StepsLeft(b)
      /\ AutoStep(c) = c \/ (StepsLeft(AutoStep(c)) \in 0..3 /\ StepsLeft(AutoStep(c)) < StepsLeft(c))
  BY <1>1, <1>2, <1>3, <1>4, <1>5, <1>6, AutoStepGood, AutoStepCounts
<1>9. AutoStep(c) = c
  <2>1. CASE a = s \/ b = a \/ c = b
    BY <1>1, <1>2, <1>3, <2>1
  <2>2. CASE a # s /\ b # a /\ c # b
    BY <1>8, <2>2
  <2>3. QED
    BY <2>1, <2>2
<1>10. Settle(s) = c
  BY <1>1, <1>2, <1>3 DEF Settle
<1>11. QED
  BY <1>6, <1>7, <1>9, <1>10

-----------------------------------------------------------------------------
(* One step, whatever the command: the items that it touches, and the decisions about them *)

(* The report is as it was, or no draft waits for approval. *)
NoNewDraft(s, t) == t.drafts = s.drafts /\ (t.report = s.report \/ t.report.status # "drafted")

LEMMA DecisionCarries ==
  ASSUME NEW s, NEW t, NEW d, DecisionOK(s, d), NoNewDraft(s, t)
  PROVE  DecisionOK(t, d)
BY DEF DecisionOK, NoNewDraft, CurrentDraft

LEMMA Kept ==
  ASSUME NEW x, NEW i, NEW ds, NEW es, ItemOK(x, i, ds), \A d : d.item = i => (d \in ds <=> d \in es)
  PROVE  ItemOK(x, i, es)
BY DEF ItemOK, Asked, BindsOne

LEMMA StepKeeps ==
  ASSUME IInv, NEW s, GoodMatter(s), NEW I \in SUBSET Items, m' = Settle(s),
         \A j \in Items \ I : s.item[j] = m.item[j],
         \A j \in I : ItemOK(s.item[j], j, decisions'),
         decisions' \in SUBSET Decisions,
         \A d \in decisions' : DecisionOK(s, d),
         \A d \in decisions' : d \notin decisions => d.item \in I,
         \A d \in decisions : d \notin decisions' => d.item \in I,
         reading' \in SUBSET Nat, reopened' \in Nat
  PROVE  IInv'
<1>1. PICK t : t = Settle(s)
  OBVIOUS
<1>2. GoodMatter(t) /\ AutoStep(t) = t /\ NoNewDraft(s, t) /\ t.item = s.item
  BY <1>1, SettleGood DEF Follows, NoNewDraft
<1>3. \A d \in decisions' : DecisionOK(t, d)
  BY <1>2, DecisionCarries
<1>4. ASSUME NEW j \in Items \ I PROVE ItemOK(s.item[j], j, decisions')
  <2>1. \A d : d.item = j => (d \in decisions <=> d \in decisions')
    BY <1>4
  <2>2. ItemOK(m.item[j], j, decisions)
    BY DEF IInv
  <2>3. QED
    BY <2>1, <2>2, Kept
<1>5. \A j \in Items : ItemOK(t.item[j], j, decisions')
  BY <1>2, <1>4
<1>6. m' = t
  BY <1>1
<1>7. QED
  BY <1>2, <1>3, <1>5, <1>6 DEF IInv

LEMMA SettledStays ==
  ASSUME IInv
  PROVE  m = Settle(m) /\ GoodMatter(m)
BY DEF IInv, Settle

LEMMA DecisionsFacts ==
  ASSUME NEW k \in {"review", "auto_clear", "report"}, NEW i \in Items, NEW d \in Nat, NEW held \in BOOLEAN,
         NEW e, e = Decision(k, i, d, held)
  PROVE  /\ e \in Decisions /\ Asking(e) = {} /\ e.status = "pending"
         /\ e.kind = k /\ e.item = i /\ e.doc = d /\ e.held = held
<1>1. e.seniors = <<>>
  BY DEF Decision
<1>2. DOMAIN e.seniors = {}
  BY <1>1
<1>3. QED
  BY <1>1, <1>2 DEF Decision, Decisions, Asking, OpenStates, DecisionStates

-----------------------------------------------------------------------------
(* What a command does to one item *)

(* The matter t is s but for the item i. *)
ItemSet(s, t, i, x) ==
  /\ GoodMatter(t)
  /\ t.item = [s.item EXCEPT ![i] = x] /\ t.item[i] = x
  /\ t.report = s.report /\ t.drafts = s.drafts

LEMMA ItemSetGood ==
  ASSUME NEW s, GoodMatter(s), NEW i \in Items, NEW x \in ItemStates, NEW t,
         t = [s EXCEPT !.item = [s.item EXCEPT ![i] = x]]
  PROVE  ItemSet(s, t, i, x)
<1>1. s \in Matters /\ s.item \in [Items -> ItemStates]
  BY DEF GoodMatter, Matters
<1>2. PICK f : f = [s.item EXCEPT ![i] = x]
  OBVIOUS
<1>3. f \in [Items -> ItemStates] /\ f[i] = x
  BY <1>1, <1>2
<1>4. t = [s EXCEPT !.item = f]
  BY <1>2
<1>5. t \in Matters /\ t.item = f /\ t.report = s.report /\ t.drafts = s.drafts /\ t.stage = s.stage
  BY <1>1, <1>3, <1>4 DEF Matters
<1>6. QED
  BY <1>2, <1>3, <1>5 DEF ItemSet, GoodMatter, ReportInv

LEMMA StatusSet ==
  ASSUME NEW s, GoodMatter(s), NEW i \in Items, NEW st \in ItemStatuses, NEW t,
         t = [s EXCEPT !.item[i].status = st]
  PROVE  ItemSet(s, t, i, [s.item[i] EXCEPT !.status = st])
<1>1. s \in Matters /\ s.item[i] \in ItemStates
  BY DEF GoodMatter, Matters
<1>2. [s.item[i] EXCEPT !.status = st] \in ItemStates
  BY <1>1 DEF ItemStates
<1>3. t = [s EXCEPT !.item = [s.item EXCEPT ![i] = [s.item[i] EXCEPT !.status = st]]]
  BY <1>1 DEF Matters
<1>4. QED
  BY <1>2, <1>3, ItemSetGood

LEMMA ResolvedSet ==
  ASSUME NEW s, GoodMatter(s), NEW i \in Items, NEW d \in Nat, NEW st \in {"cleared", "reviewed"}, NEW t,
         t = SetResolved(s, i, d, st)
  PROVE  \/ i \in Searches /\ s.item[i].status = "none" /\ t = s
         \/ ItemSet(s, t, i, [s.item[i] EXCEPT !.status = st, !.judged = d])
<1>1. s \in Matters /\ s.item[i] \in ItemStates /\ s.item \in [Items -> ItemStates]
  BY DEF GoodMatter, Matters
<1>2. CASE i \in Searches /\ s.item[i].status = "none"
  BY <1>2 DEF SetResolved
<1>3. CASE ~(i \in Searches /\ s.item[i].status = "none")
  <2>1. [s.item[i] EXCEPT !.status = st, !.judged = d] \in ItemStates
    BY <1>1 DEF ItemStates, ItemStatuses
  <2>2. t = [s EXCEPT !.item[i].status = st, !.item[i].judged = d]
    BY <1>3 DEF SetResolved
  <2>3. t = [s EXCEPT !.item = [s.item EXCEPT ![i] = [s.item[i] EXCEPT !.status = st, !.judged = d]]]
    BY <1>1, <2>2 DEF Matters, ItemStates
  <2>4. QED
    BY <2>1, <2>3, ItemSetGood
<1>4. QED
  BY <1>2, <1>3

LEMMA NewerSet ==
  ASSUME IInv, NEW i \in Items, NEW st \in ItemStatuses, NEW t, t = Newer(i, st)
  PROVE  ItemSet(m, t, i, [m.item[i] EXCEPT !.status = st, !.doc = @ + 1])
<1>1. GoodMatter(m) /\ m \in Matters /\ m.item[i] \in ItemStates /\ m.item \in [Items -> ItemStates]
  BY DEF IInv, GoodMatter, Matters
<1>2. [m.item[i] EXCEPT !.status = st, !.doc = @ + 1] \in ItemStates
  <2>1. m.item[i].doc + 1 \in Nat
    BY <1>1 DEF ItemStates
  <2>2. PICK n \in Nat : n = m.item[i].doc + 1
    BY <2>1
  <2>3. [m.item[i] EXCEPT !.status = st, !.doc = n] \in ItemStates
    BY <1>1 DEF ItemStates
  <2>4. QED
    BY <1>1, <2>2, <2>3 DEF ItemStates
<1>3. t = [m EXCEPT !.item = [m.item EXCEPT ![i] = [m.item[i] EXCEPT !.status = st, !.doc = @ + 1]]]
  BY <1>1 DEF Newer, Matters, ItemStates
<1>4. QED
  BY <1>1, <1>2, <1>3, ItemSetGood

-----------------------------------------------------------------------------
(* The verdict on a document *)

(* No open decision can resolve the item, or nothing is claimed of it. *)
Unbound(x, i, ds) == i \in Judgeable /\ ~x.redone => \A e \in ds : e.item = i => ~Binding(e)

LEMMA VerdictKeeps ==
  ASSUME IInv, NEW s, GoodMatter(s), NEW i \in Items, NEW d \in Nat,
         \A j \in Items \ {i} : s.item[j] = m.item[j],
         NoNewDraft(m, s),
         i \in Judgeable /\ ~s.item[i].redone => s.item[i].doc = d,
         Unbound(s.item[i], i, decisions),
         i \in Searches => s.item[i].status # "none",
         Verdict(s, i, d),
         reading' \in SUBSET Nat
  PROVE  IInv'
<1> USE DEF Binding
<1>1. PICK x : x = s.item[i]
  OBVIOUS
<1>2. x \in ItemStates /\ s.item \in [Items -> ItemStates]
  BY <1>1 DEF GoodMatter, Matters
<1>3. reopened' \in Nat /\ decisions \in SUBSET Decisions
  BY DEF IInv, Verdict
<1>5. ASSUME NEW k \in {"review", "auto_clear"}, NEW held \in BOOLEAN, held => k = "auto_clear",
             Raised(k, i, d, held), NEW y, NEW t, ItemSet(s, t, i, y), m' = Settle(t),
             y.redone = x.redone /\ y.doc = x.doc,
             IF held THEN y.status = "read" ELSE y.status = IF k = "review" THEN "flagged" ELSE "cleared",
             y.status = "cleared" => y.judged = d
      PROVE  IInv'
  <2>1. PICK e : e = Decision(k, i, d, held)
    OBVIOUS
  <2>2. /\ e \in Decisions /\ Asking(e) = {} /\ e.status = "pending"
        /\ e.kind = k /\ e.item = i /\ e.doc = d /\ e.held = held
    BY <1>5, <2>1, DecisionsFacts
  <2>3. decisions' = decisions \cup {e}
    BY <1>5, <2>1 DEF Raised
  <2>4. DecisionOK(t, e)
    BY <1>5, <2>2 DEF DecisionOK
  <2>5. NoNewDraft(s, t) /\ NoNewDraft(m, t)
    BY <1>5 DEF ItemSet, NoNewDraft
  <2>6. \A f \in decisions' : DecisionOK(t, f)
    BY <2>3, <2>4, <2>5, DecisionCarries DEF IInv
  <2>7. t.item[i] = y /\ GoodMatter(t) /\ \A j \in Items \ {i} : t.item[j] = m.item[j]
    BY <1>2, <1>5 DEF ItemSet
  <2>8. Asked(y, i, decisions')
    BY <1>5, <2>2, <2>3 DEF Asked, OnSomeList
  <2>9. BindsOne(y, i, decisions')
    <3>1. SUFFICES ASSUME i \in Judgeable, ~y.redone PROVE BindsOne(y, i, decisions')
      BY DEF BindsOne
    <3>2. \A f \in decisions' : f.item = i /\ (f.kind = "review" \/ f.held) => f = e
      BY <1>1, <1>5, <2>3, <3>1 DEF Unbound
    <3>3. y.doc = d
      BY <1>1, <1>5, <3>1
    <3>4. (e.kind = "review" \/ e.held) => y.status \in {"flagged", "read"}
      BY <1>5, <2>2
    <3>5. QED
      BY <1>5, <2>2, <3>2, <3>3, <3>4 DEF BindsOne
  <2>10. i \in Searches => y.status # "withdrawn"
    BY <1>5
  <2>11. ItemOK(t.item[i], i, decisions')
    BY <2>7, <2>8, <2>9, <2>10 DEF ItemOK
  <2>12. decisions' \in SUBSET Decisions
    BY <1>3, <2>2, <2>3
  <2>13. PICK I : I = {i}
    OBVIOUS
  <2>14. /\ I \in SUBSET Items
         /\ \A j \in Items \ I : t.item[j] = m.item[j]
         /\ \A j \in I : ItemOK(t.item[j], j, decisions')
         /\ \A f \in decisions' : f \notin decisions => f.item \in I
         /\ \A f \in decisions : f \notin decisions' => f.item \in I
    BY <2>2, <2>3, <2>7, <2>11, <2>13
  <2>15. QED
    BY <1>3, <1>5, <2>6, <2>7, <2>12, <2>14, StepKeeps
<1>6. CASE \E t : t = [s EXCEPT !.item[i].status = "flagged"] /\ m' = Settle(t) /\ Raised("review", i, d, FALSE)
  <2>1. PICK t : t = [s EXCEPT !.item[i].status = "flagged"] /\ m' = Settle(t) /\ Raised("review", i, d, FALSE)
    BY <1>6
  <2>2. PICK y : y = [x EXCEPT !.status = "flagged"]
    OBVIOUS
  <2>3. ItemSet(s, t, i, y)
    BY <1>1, <2>1, <2>2, StatusSet DEF ItemStatuses
  <2>4. y.redone = x.redone /\ y.doc = x.doc /\ y.status = "flagged"
    BY <1>2, <2>2 DEF ItemStates
  <2>5. QED
    BY <1>5, <2>1, <2>3, <2>4
<1>7. CASE \E t : t = [s EXCEPT !.item[i].status = "read"] /\ m' = Settle(t) /\ Raised("auto_clear", i, d, TRUE)
  <2>1. PICK t : t = [s EXCEPT !.item[i].status = "read"] /\ m' = Settle(t) /\ Raised("auto_clear", i, d, TRUE)
    BY <1>7
  <2>2. PICK y : y = [x EXCEPT !.status = "read"]
    OBVIOUS
  <2>3. ItemSet(s, t, i, y)
    BY <1>1, <2>1, <2>2, StatusSet DEF ItemStatuses
  <2>4. y.redone = x.redone /\ y.doc = x.doc /\ y.status = "read"
    BY <1>2, <2>2 DEF ItemStates
  <2>5. QED
    BY <1>5, <2>1, <2>3, <2>4
<1>8. CASE \E t : t = ClearItem(s, i, d) /\ m' = Settle(t) /\ (decisions' = decisions \/ Raised("auto_clear", i, d, FALSE))
  <2>1. PICK t : t = ClearItem(s, i, d) /\ m' = Settle(t) /\ (decisions' = decisions \/ Raised("auto_clear", i, d, FALSE))
    BY <1>8
  <2>2. PICK y : y = [x EXCEPT !.status = "cleared", !.judged = d]
    OBVIOUS
  <2>3. ItemSet(s, t, i, y)
    BY <1>1, <2>1, <2>2, ResolvedSet DEF ClearItem
  <2>4. y.redone = x.redone /\ y.doc = x.doc /\ y.status = "cleared" /\ y.judged = d
    BY <1>2, <2>2 DEF ItemStates
  <2>5. CASE Raised("auto_clear", i, d, FALSE)
    BY <1>5, <2>1, <2>3, <2>4, <2>5
  <2>6. CASE decisions' = decisions
    <3>1. NoNewDraft(m, t)
      BY <2>3 DEF ItemSet, NoNewDraft
    <3>2. \A f \in decisions' : DecisionOK(t, f)
      BY <2>6, <3>1, DecisionCarries DEF IInv
    <3>3. t.item[i] = y /\ GoodMatter(t) /\ \A j \in Items \ {i} : t.item[j] = m.item[j]
      BY <1>2, <2>3 DEF ItemSet
    <3>4. ItemOK(t.item[i], i, decisions')
      BY <1>1, <2>4, <2>6, <3>3 DEF ItemOK, Asked, BindsOne, Unbound
    <3>5. PICK I : I = {i}
      OBVIOUS
    <3>6. /\ I \in SUBSET Items
          /\ \A j \in Items \ I : t.item[j] = m.item[j]
          /\ \A j \in I : ItemOK(t.item[j], j, decisions')
          /\ \A f \in decisions' : f \notin decisions => f.item \in I
          /\ \A f \in decisions : f \notin decisions' => f.item \in I
      BY <2>6, <3>3, <3>4, <3>5
    <3>7. QED
      BY <1>3, <2>1, <2>6, <3>2, <3>3, <3>6, StepKeeps
  <2>7. QED
    BY <2>1, <2>5, <2>6
<1>9. QED
  BY <1>6, <1>7, <1>8 DEF Verdict

-----------------------------------------------------------------------------
(* Commands that leave the decisions alone *)

LEMMA QuietStep ==
  ASSUME IInv, NEW t, NEW i \in Items, GoodMatter(t), NoNewDraft(m, t), m' = Settle(t),
         \A j \in Items \ {i} : t.item[j] = m.item[j],
         ItemOK(t.item[i], i, decisions),
         decisions' = decisions, reading' \in SUBSET Nat, reopened' \in Nat
  PROVE  IInv'
<1>1. decisions' \in SUBSET Decisions
  BY DEF IInv
<1>2. \A d \in decisions' : DecisionOK(t, d)
  BY DecisionCarries DEF IInv
<1>3. PICK I : I = {i}
  OBVIOUS
<1>4. /\ I \in SUBSET Items
      /\ \A j \in Items \ I : t.item[j] = m.item[j]
      /\ \A j \in I : ItemOK(t.item[j], j, decisions')
      /\ \A f \in decisions' : f \notin decisions => f.item \in I
      /\ \A f \in decisions : f \notin decisions' => f.item \in I
  BY <1>3
<1>5. QED
  BY <1>1, <1>2, <1>4, StepKeeps

(* The item becomes x, which no longer waits for anybody. *)
LEMMA ItemStep ==
  ASSUME IInv, NEW i \in Items, NEW x, NEW t, ItemSet(m, t, i, x), m' = Settle(t),
         x.status \notin {"flagged", "read"}, i \in Searches => x.status # "withdrawn",
         BindsOne(x, i, decisions),
         decisions' = decisions, reading' \in SUBSET Nat, reopened' \in Nat
  PROVE  IInv'
<1>1. m.item \in [Items -> ItemStates]
  BY DEF IInv, GoodMatter, Matters
<1>2. t.item[i] = x /\ GoodMatter(t) /\ NoNewDraft(m, t) /\ \A j \in Items \ {i} : t.item[j] = m.item[j]
  BY <1>1 DEF ItemSet, NoNewDraft
<1>3. ItemOK(t.item[i], i, decisions)
  BY <1>2 DEF ItemOK, Asked
<1>4. QED
  BY <1>2, <1>3, QuietStep

(* The items are as they were. *)
LEMMA OtherStep ==
  ASSUME IInv, NEW t, t \in Matters, t.item = m.item, ReportInv(t), NoNewDraft(m, t), m' = Settle(t),
         decisions' = decisions, reading' \in SUBSET Nat, reopened' \in Nat
  PROVE  IInv'
<1>1. Title \in Items /\ GoodMatter(t)
  BY DEF Items, GoodMatter
<1>2. ItemOK(t.item[Title], Title, decisions)
  BY <1>1 DEF IInv
<1>3. QED
  BY <1>1, <1>2, QuietStep

LEMMA MatterFacts ==
  ASSUME IInv
  PROVE  /\ GoodMatter(m) /\ m \in Matters /\ m.item \in [Items -> ItemStates] /\ m.report \in Reports
         /\ \A i \in Items : ItemOK(m.item[i], i, decisions) /\ m.item[i] \in ItemStates
         /\ \A q \in m.required : q \in Searches /\ q \in Items /\ q \in Judgeable
         /\ \A e \in Enquiries : e \in Items /\ e \in Judgeable
         /\ Title \in Items /\ Mortgage \in Items /\ Title \notin Judgeable /\ Mortgage \notin Judgeable
         /\ reading \in SUBSET Nat /\ reopened \in Nat /\ decisions \in SUBSET Decisions
BY ItemsAssumption DEF IInv, GoodMatter, Matters, Items, Judgeable

LEMMA OrderKeeps ==
  ASSUME IInv, NEW q \in m.required, Order(q)
  PROVE  IInv'
<1>1. q \in Searches /\ q \in Items /\ GoodMatter(m) /\ m.item[q] \in ItemStates /\ ItemOK(m.item[q], q, decisions)
  BY MatterFacts
<1>2. PICK t : t = Newer(q, "asked")
  OBVIOUS
<1>3. PICK x : x = [m.item[q] EXCEPT !.status = "asked", !.doc = @ + 1]
  OBVIOUS
<1>4. x.status = "asked" /\ x.redone = m.item[q].redone
  BY <1>1, <1>3 DEF ItemStates
<1>5. ItemSet(m, t, q, x)
  BY <1>1, <1>2, <1>3, NewerSet DEF ItemStatuses
<1>6. m.item[q].status \notin {"flagged", "read", "withdrawn"}
  BY <1>1 DEF Order, Done, Resolved, ItemOK
<1>7. BindsOne(x, q, decisions)
  BY <1>1, <1>4, <1>6 DEF ItemOK, BindsOne
<1>8. m' = Settle(t) /\ decisions' = decisions /\ reading' \in SUBSET Nat /\ reopened' \in Nat
  BY <1>2, MatterFacts DEF Order, Record, Becomes
<1>9. QED
  BY <1>1, <1>4, <1>5, <1>7, <1>8, ItemStep

LEMMA RaiseEnquiryKeeps ==
  ASSUME IInv, RaiseEnquiry
  PROVE  IInv'
<1>1. PICK e \in Unused : Record(Ask(m, e))
  BY DEF RaiseEnquiry
<1>2. /\ e \in Items /\ e \notin Searches /\ GoodMatter(m) /\ m.item[e] \in ItemStates
      /\ m.item[e].status = "none" /\ ItemOK(m.item[e], e, decisions)
  BY <1>1, MatterFacts, ItemsAssumption DEF Unused
<1>3. PICK t : t = Ask(m, e)
  OBVIOUS
<1>4. PICK x : x = [m.item[e] EXCEPT !.status = "asked"]
  OBVIOUS
<1>5. x.status = "asked" /\ x.redone = m.item[e].redone
  BY <1>2, <1>4 DEF ItemStates
<1>6. ItemSet(m, t, e, x)
  BY <1>2, <1>3, <1>4, StatusSet DEF ItemStatuses, Ask
<1>7. BindsOne(x, e, decisions)
  BY <1>2, <1>5 DEF ItemOK, BindsOne
<1>8. m' = Settle(t) /\ decisions' = decisions /\ reading' \in SUBSET Nat /\ reopened' \in Nat
  BY <1>1, <1>3, MatterFacts DEF Record, Becomes
<1>9. QED
  BY <1>2, <1>5, <1>6, <1>7, <1>8, ItemStep

LEMMA SearchReturnedKeeps ==
  ASSUME IInv, NEW q \in m.required, SearchReturned(q)
  PROVE  IInv'
<1>1. /\ q \in Searches /\ q \in Items /\ GoodMatter(m) /\ m.item[q] \in ItemStates /\ ItemOK(m.item[q], q, decisions)
      /\ m.item[q].status = "asked"
  BY MatterFacts DEF SearchReturned
<1>2. PICK t : t = [m EXCEPT !.item[q].status = "in"]
  OBVIOUS
<1>3. PICK x : x = [m.item[q] EXCEPT !.status = "in"]
  OBVIOUS
<1>4. x.status = "in" /\ x.redone = m.item[q].redone
  BY <1>1, <1>3 DEF ItemStates
<1>5. ItemSet(m, t, q, x)
  BY <1>1, <1>2, <1>3, StatusSet DEF ItemStatuses
<1>6. BindsOne(x, q, decisions)
  BY <1>1, <1>4 DEF ItemOK, BindsOne
<1>7. m' = Settle(t) /\ decisions' = decisions /\ reading' \in SUBSET Nat /\ reopened' \in Nat
  BY <1>2, MatterFacts DEF SearchReturned, Record, Becomes
<1>8. QED
  BY <1>1, <1>4, <1>5, <1>6, <1>7, ItemStep

LEMMA OfferReceivedKeeps ==
  ASSUME IInv, OfferReceived
  PROVE  IInv'
<1>1. Mortgage \in Items /\ Mortgage \notin Judgeable /\ m.item[Mortgage] \in ItemStates
  BY MatterFacts
<1>2. PICK t : t = Newer(Mortgage, "in")
  OBVIOUS
<1>3. PICK x : x = [m.item[Mortgage] EXCEPT !.status = "in", !.doc = @ + 1]
  OBVIOUS
<1>4. x.status = "in" /\ m.item[Mortgage].doc + 1 \in Nat
  BY <1>1, <1>3 DEF ItemStates
<1>5. ItemSet(m, t, Mortgage, x)
  BY <1>1, <1>2, <1>3, NewerSet DEF ItemStatuses
<1>6. BindsOne(x, Mortgage, decisions)
  BY <1>1 DEF BindsOne
<1>7. m' = Settle(t) /\ decisions' = decisions /\ reading' \in SUBSET Nat /\ reopened' \in Nat
  BY <1>2, <1>4, MatterFacts DEF OfferReceived, Becomes
<1>8. QED
  BY <1>1, <1>4, <1>5, <1>6, <1>7, ItemStep

LEMMA OffKeeps ==
  ASSUME IInv, NEW i \in Items, Undo(Off(i))
  PROVE  IInv'
<1>1. GoodMatter(m) /\ m.item[i] \in ItemStates /\ m.item \in [Items -> ItemStates] /\ m \in Matters
  BY MatterFacts
<1>2. PICK t : t = Off(i)
  OBVIOUS
<1>3. PICK x : x = [m.item[i] EXCEPT !.status = "none", !.redone = TRUE]
  OBVIOUS
<1>4. x.status = "none" /\ x.redone /\ x \in ItemStates
  BY <1>1, <1>3 DEF ItemStates, ItemStatuses
<1>5. t = [m EXCEPT !.item = [m.item EXCEPT ![i] = x]]
  BY <1>1, <1>2, <1>3 DEF Off, Matters
<1>6. ItemSet(m, t, i, x)
  BY <1>1, <1>4, <1>5, ItemSetGood
<1>7. BindsOne(x, i, decisions)
  BY <1>4 DEF BindsOne
<1>8. reopened' \in Nat
  BY MatterFacts DEF Undo
<1>9. m' = Settle(t) /\ decisions' = decisions /\ reading' \in SUBSET Nat
  BY <1>2, MatterFacts DEF Undo, Becomes
<1>10. QED
  BY <1>4, <1>6, <1>7, <1>8, <1>9, ItemStep

LEMMA WithdrawEnquiryKeeps ==
  ASSUME IInv, NEW e \in Enquiries, WithdrawEnquiry(e)
  PROVE  IInv'
<1>1. /\ e \in Items /\ e \notin Searches /\ GoodMatter(m) /\ m.item[e] \in ItemStates
      /\ ItemOK(m.item[e], e, decisions)
  BY MatterFacts, ItemsAssumption
<1>2. PICK t : t = [m EXCEPT !.item[e].status = "withdrawn"]
  OBVIOUS
<1>3. PICK x : x = [m.item[e] EXCEPT !.status = "withdrawn"]
  OBVIOUS
<1>4. x.status = "withdrawn" /\ x.redone = m.item[e].redone /\ x.doc = m.item[e].doc
  BY <1>1, <1>3 DEF ItemStates
<1>5. ItemSet(m, t, e, x)
  BY <1>1, <1>2, <1>3, StatusSet DEF ItemStatuses
<1>6. BindsOne(x, e, decisions)
  BY <1>1, <1>4 DEF ItemOK, BindsOne
<1>7. reopened' \in Nat
  BY MatterFacts DEF WithdrawEnquiry, Undo
<1>8. m' = Settle(t) /\ decisions' = decisions /\ reading' \in SUBSET Nat
  BY <1>2, MatterFacts DEF WithdrawEnquiry, Undo, Becomes
<1>9. QED
  BY <1>1, <1>4, <1>5, <1>6, <1>7, <1>8, ItemStep

LEMMA SendReportKeeps ==
  ASSUME IInv, SendReport
  PROVE  IInv'
<1>1. m \in Matters /\ m.report \in Reports /\ ReportInv(m)
  BY MatterFacts DEF GoodMatter
<1>2. PICK r : r = [m.report EXCEPT !.status = "sent", !.full = @ \/ ~m.report.interim]
  OBVIOUS
<1>3. PICK t : t = [m EXCEPT !.report = r]
  OBVIOUS
<1>4. t = [m EXCEPT !.report.status = "sent", !.report.full = @ \/ ~m.report.interim]
  BY <1>1, <1>2, <1>3 DEF Matters, Reports
<1>5. /\ r \in Reports /\ r.status = "sent" /\ r.full = (m.report.full \/ ~m.report.interim)
      /\ r.interim = m.report.interim /\ r.approved = m.report.approved /\ r.draft = m.report.draft
  <2>1. PICK f \in BOOLEAN : f = (m.report.full \/ ~m.report.interim)
    BY <1>1 DEF Reports
  <2>2. r = [m.report EXCEPT !.status = "sent", !.full = f]
    BY <1>1, <1>2, <2>1 DEF Reports
  <2>3. QED
    BY <1>1, <2>1, <2>2 DEF Reports, ReportStatuses
<1>6. t \in Matters /\ t.item = m.item /\ t.drafts = m.drafts /\ t.report = r /\ t.stage = m.stage
  BY <1>1, <1>3, <1>5 DEF Matters
<1>7. ReportInv(t)
  BY <1>1, <1>5, <1>6 DEF ReportInv, SendReport, MaySend
<1>8. NoNewDraft(m, t)
  BY <1>5, <1>6 DEF NoNewDraft
<1>9. m' = Settle(t) /\ decisions' = decisions /\ reading' \in SUBSET Nat /\ reopened' \in Nat
  BY <1>4, MatterFacts DEF SendReport, Record, Becomes
<1>10. QED
  BY <1>6, <1>7, <1>8, <1>9, OtherStep

LEMMA ReopenReportKeeps ==
  ASSUME IInv, ReopenReport
  PROVE  IInv'
<1>1. m \in Matters /\ m.report \in Reports /\ ReportInv(m)
  BY MatterFacts DEF GoodMatter
<1>2. PICK r : r = [m.report EXCEPT !.status = "not_started", !.draft = 0, !.approved = 0]
  OBVIOUS
<1>3. PICK t : t = [m EXCEPT !.report = r]
  OBVIOUS
<1>4. t = [m EXCEPT !.report.status = "not_started", !.report.draft = 0, !.report.approved = 0]
  BY <1>1, <1>2, <1>3 DEF Matters, Reports
<1>5. r \in Reports /\ r.status = "not_started" /\ r.full = m.report.full
  BY <1>1, <1>2 DEF Reports, ReportStatuses
<1>6. t \in Matters /\ t.item = m.item /\ t.drafts = m.drafts /\ t.report = r /\ t.stage = m.stage
  BY <1>1, <1>3, <1>5 DEF Matters
<1>7. ReportInv(t) /\ NoNewDraft(m, t)
  BY <1>1, <1>5, <1>6 DEF ReportInv, NoNewDraft
<1>8. reopened' \in Nat
  BY MatterFacts DEF ReopenReport, Undo
<1>9. m' = Settle(t) /\ decisions' = decisions /\ reading' \in SUBSET Nat
  BY <1>4, MatterFacts DEF ReopenReport, Undo, Becomes
<1>10. QED
  BY <1>6, <1>7, <1>8, <1>9, OtherStep

(* A part of the matter that is neither an item, nor the report, nor the stage. *)
LEMMA FlagsGood ==
  ASSUME IInv, NEW t, NEW c \in BOOLEAN, NEW h \in BOOLEAN, NEW d \in BOOLEAN,
         t = [m EXCEPT !.contract = c, !.signed = h, !.deposit = d]
  PROVE  t \in Matters /\ t.item = m.item /\ ReportInv(t) /\ NoNewDraft(m, t)
<1>1. m \in Matters /\ ReportInv(m)
  BY MatterFacts DEF GoodMatter
<1>2. /\ t \in Matters /\ t.item = m.item /\ t.report = m.report /\ t.drafts = m.drafts /\ t.stage = m.stage
  BY <1>1 DEF Matters
<1>3. QED
  BY <1>1, <1>2 DEF ReportInv, NoNewDraft

LEMMA FlagsKeep ==
  ASSUME IInv, ApproveContract \/ HoldSignedContract \/ ReceiveDeposit \/ ReopenContract \/ ReopenDeposit
  PROVE  IInv'
<1>1. m \in Matters
  BY MatterFacts
<1>2. PICK t : \/ t = [m EXCEPT !.contract = TRUE] /\ Record(t)
               \/ t = [m EXCEPT !.signed = TRUE] /\ Record(t)
               \/ t = [m EXCEPT !.deposit = TRUE] /\ Record(t)
               \/ t = [m EXCEPT !.contract = FALSE, !.signed = FALSE] /\ Undo(t)
               \/ t = [m EXCEPT !.deposit = FALSE] /\ Undo(t)
  BY DEF ApproveContract, HoldSignedContract, ReceiveDeposit, ReopenContract, ReopenDeposit
<1>3. \E c, h, d \in BOOLEAN : t = [m EXCEPT !.contract = c, !.signed = h, !.deposit = d]
  <2>1. CASE t = [m EXCEPT !.contract = TRUE]
    <3>1. t = [m EXCEPT !.contract = TRUE, !.signed = m.signed, !.deposit = m.deposit]
      BY <1>1, <2>1 DEF Matters
    <3>2. QED
      BY <1>1, <3>1 DEF Matters
  <2>2. CASE t = [m EXCEPT !.signed = TRUE]
    <3>1. t = [m EXCEPT !.contract = m.contract, !.signed = TRUE, !.deposit = m.deposit]
      BY <1>1, <2>2 DEF Matters
    <3>2. QED
      BY <1>1, <3>1 DEF Matters
  <2>3. ASSUME NEW d \in BOOLEAN, t = [m EXCEPT !.deposit = d]
        PROVE  \E c, h, e \in BOOLEAN : t = [m EXCEPT !.contract = c, !.signed = h, !.deposit = e]
    <3>1. t = [m EXCEPT !.contract = m.contract, !.signed = m.signed, !.deposit = d]
      BY <1>1, <2>3 DEF Matters
    <3>2. QED
      BY <1>1, <3>1 DEF Matters
  <2>4. CASE t = [m EXCEPT !.contract = FALSE, !.signed = FALSE]
    <3>1. t = [m EXCEPT !.contract = FALSE, !.signed = FALSE, !.deposit = m.deposit]
      BY <1>1, <2>4 DEF Matters
    <3>2. QED
      BY <1>1, <3>1 DEF Matters
  <2>5. QED
    BY <1>2, <2>1, <2>2, <2>3, <2>4
<1>4. t \in Matters /\ t.item = m.item /\ ReportInv(t) /\ NoNewDraft(m, t)
  BY <1>3, FlagsGood
<1>5. m' = Settle(t) /\ decisions' = decisions /\ reading' \in SUBSET Nat /\ reopened' \in Nat
  BY <1>2, MatterFacts DEF Record, Undo, Becomes
<1>6. QED
  BY <1>4, <1>5, OtherStep

LEMMA ExchangeKeeps ==
  ASSUME IInv, Exchange
  PROVE  IInv'
<1>1. m \in Matters /\ ReportInv(m)
  BY MatterFacts DEF GoodMatter
<1>2. PICK t : t = [m EXCEPT !.stage = "exchanged"]
  OBVIOUS
<1>3. t \in Matters /\ t.item = m.item /\ t.report = m.report /\ t.drafts = m.drafts /\ t.stage = "exchanged"
  BY <1>1, <1>2, StagesRange DEF Matters, StageNames
<1>4. ReportInv(t) /\ NoNewDraft(m, t)
  BY <1>1, <1>3 DEF ReportInv, NoNewDraft, Exchange
<1>5. t = Settle(t)
  BY <1>3 DEF Settle, AutoStep, ConditionsDue, Gate
<1>6. m' = Settle(t) /\ decisions' = decisions /\ reading' \in SUBSET Nat /\ reopened' \in Nat
  BY <1>2, <1>5, MatterFacts DEF Exchange
<1>7. QED
  BY <1>3, <1>4, <1>6, OtherStep

LEMMA OfferReadLostKeeps ==
  ASSUME IInv, NEW d \in reading, OfferReadLost(d)
  PROVE  IInv'
<1>1. m \in Matters /\ ReportInv(m) /\ NoNewDraft(m, m) /\ m' = Settle(m) /\ reading' \in SUBSET Nat
  BY MatterFacts, SettledStays DEF GoodMatter, NoNewDraft, OfferReadLost
<1>2. QED
  BY <1>1, MatterFacts, OtherStep DEF OfferReadLost

-----------------------------------------------------------------------------
(* Commands that record a verdict *)

LEMMA SearchExtractedKeeps ==
  ASSUME IInv, NEW q \in m.required, SearchExtracted(q)
  PROVE  IInv'
<1>1. /\ q \in Searches /\ q \in Items /\ GoodMatter(m) /\ m.item[q] \in ItemStates /\ ItemOK(m.item[q], q, decisions)
      /\ m.item[q].status = "in"
  BY MatterFacts DEF SearchExtracted
<1>2. Unbound(m.item[q], q, decisions)
  BY <1>1 DEF ItemOK, BindsOne, Unbound
<1>3. PICK d \in Nat : d = m.item[q].doc
  BY <1>1 DEF ItemStates
<1>4. Verdict(m, q, d) /\ reading' \in SUBSET Nat /\ NoNewDraft(m, m)
  BY <1>3, MatterFacts DEF SearchExtracted, NoNewDraft
<1>5. QED
  BY <1>1, <1>2, <1>3, <1>4, VerdictKeeps

LEMMA ReplyReceivedKeeps ==
  ASSUME IInv, NEW e \in Enquiries, ReplyReceived(e)
  PROVE  IInv'
<1>1. /\ e \in Items /\ e \notin Searches /\ m.item[e] \in ItemStates /\ m.item \in [Items -> ItemStates]
      /\ ItemOK(m.item[e], e, decisions) /\ m.item[e].status = "asked"
  BY MatterFacts, ItemsAssumption DEF ReplyReceived
<1>2. PICK s : s = Newer(e, "in")
  OBVIOUS
<1>3. PICK d \in Nat : d = m.item[e].doc + 1
  BY <1>1 DEF ItemStates
<1>4. PICK x : x = [m.item[e] EXCEPT !.status = "in", !.doc = @ + 1]
  OBVIOUS
<1>5. x.doc = d /\ x.redone = m.item[e].redone
  BY <1>1, <1>3, <1>4 DEF ItemStates
<1>6. ItemSet(m, s, e, x)
  BY <1>1, <1>2, <1>4, NewerSet DEF ItemStatuses
<1>7. s.item[e] = x /\ GoodMatter(s) /\ NoNewDraft(m, s) /\ \A j \in Items \ {e} : s.item[j] = m.item[j]
  BY <1>1, <1>6 DEF ItemSet, NoNewDraft
<1>8. Unbound(x, e, decisions)
  BY <1>1, <1>5 DEF ItemOK, BindsOne, Unbound
<1>9. Verdict(s, e, d) /\ reading' \in SUBSET Nat
  BY <1>2, <1>3, MatterFacts DEF ReplyReceived
<1>10. QED
  BY <1>1, <1>5, <1>7, <1>8, <1>9, VerdictKeeps

LEMMA OfferExtractedKeeps ==
  ASSUME IInv, NEW d \in reading, OfferExtracted(d)
  PROVE  IInv'
<1>1. Mortgage \in Items /\ Mortgage \notin Judgeable /\ GoodMatter(m) /\ d \in Nat /\ reading' \in SUBSET Nat
  BY MatterFacts DEF OfferExtracted
<1>2. Mortgage \notin Searches /\ Unbound(m.item[Mortgage], Mortgage, decisions) /\ NoNewDraft(m, m)
  BY <1>1 DEF Judgeable, Unbound, NoNewDraft
<1>3. QED
  BY <1>1, <1>2, VerdictKeeps DEF OfferExtracted

LEMMA TitleExtractedKeeps ==
  ASSUME IInv, TitleExtracted
  PROVE  IInv'
<1>1. /\ Title \in Items /\ Title \notin Judgeable /\ Title \notin Searches /\ m.item[Title] \in ItemStates
      /\ m.item \in [Items -> ItemStates]
  BY MatterFacts DEF Judgeable
<1>2. PICK n : n = Newer(Title, "in")
  OBVIOUS
<1>3. PICK x : x = [m.item[Title] EXCEPT !.status = "in", !.doc = @ + 1]
  OBVIOUS
<1>4. ItemSet(m, n, Title, x)
  BY <1>1, <1>2, <1>3, NewerSet DEF ItemStatuses
<1>5. n \in Matters /\ ReportInv(n) /\ n.report \in Reports
  BY <1>4 DEF ItemSet, GoodMatter, Matters
<1>6. PICK r : r = ReportReopened(n.report)
  OBVIOUS
<1>7. /\ r \in Reports /\ r.full = n.report.full /\ r.status # "sent"
      /\ r = n.report \/ r.status = "not_started"
  BY <1>5, <1>6, SupplementaryType DEF ReportReopened
<1>8. PICK s : s = [n EXCEPT !.report = r]
  OBVIOUS
<1>9. s \in Matters /\ s.item = n.item /\ s.drafts = n.drafts /\ s.report = r /\ s.stage = n.stage
  BY <1>5, <1>7, <1>8 DEF Matters
<1>10. GoodMatter(s)
  BY <1>5, <1>7, <1>9 DEF GoodMatter, ReportInv
<1>11. NoNewDraft(m, s) /\ \A j \in Items \ {Title} : s.item[j] = m.item[j]
  BY <1>1, <1>4, <1>7, <1>9 DEF ItemSet, NoNewDraft
<1>12. PICK d \in Nat : d = m.item[Title].doc + 1
  BY <1>1 DEF ItemStates
<1>13. s = [Newer(Title, "in") EXCEPT !.report = ReportReopened(@)]
  BY <1>2, <1>6, <1>8
<1>14. Verdict(s, Title, d) /\ reading' \in SUBSET Nat
  BY <1>12, <1>13, MatterFacts DEF TitleExtracted
<1>15. Unbound(s.item[Title], Title, decisions)
  BY <1>1 DEF Unbound
<1>16. QED
  BY <1>1, <1>10, <1>11, <1>14, <1>15, VerdictKeeps

-----------------------------------------------------------------------------
(* Answers *)

LEMMA DecisionTypes ==
  ASSUME IInv, NEW d \in decisions
  PROVE  /\ d \in Decisions /\ d.item \in Items /\ d.doc \in Nat /\ d.held \in BOOLEAN
         /\ d.kind \in {"review", "auto_clear", "report"} /\ d.status \in OpenStates /\ d.seniors \in Seq(DecisionStates)
         /\ DecisionOK(m, d)
BY DEF IInv, Decisions

(* The answer to a decision that binds its item. *)
LEMMA BindingAnswer ==
  ASSUME IInv, NEW d \in decisions, Binding(d), NEW st \in {"cleared", "reviewed"}, NEW t,
         t = SetResolved(m, d.item, d.doc, st)
  PROVE  /\ GoodMatter(t) /\ NoNewDraft(m, t)
         /\ \A j \in Items \ {d.item} : t.item[j] = m.item[j]
         /\ ItemOK(t.item[d.item], d.item, decisions \ {d})
         /\ t.item[d.item].redone = m.item[d.item].redone
<1>1. PICK i : i = d.item
  OBVIOUS
<1>2. PICK x : x = m.item[i]
  OBVIOUS
<1>3. /\ i \in Items /\ d.doc \in Nat /\ x \in ItemStates /\ GoodMatter(m) /\ m.item \in [Items -> ItemStates]
      /\ ItemOK(x, i, decisions)
  BY <1>1, <1>2, MatterFacts, DecisionTypes
<1>4. \/ i \in Searches /\ x.status = "none" /\ t = m
      \/ ItemSet(m, t, i, [x EXCEPT !.status = st, !.judged = d.doc])
  BY <1>1, <1>2, <1>3, ResolvedSet
<1>5. CASE i \in Searches /\ x.status = "none" /\ t = m
  BY <1>1, <1>2, <1>3, <1>5 DEF NoNewDraft, ItemOK, Asked, BindsOne
<1>6. CASE ItemSet(m, t, i, [x EXCEPT !.status = st, !.judged = d.doc])
  <2>1. PICK y : y = [x EXCEPT !.status = st, !.judged = d.doc]
    OBVIOUS
  <2>2. y.status = st /\ y.judged = d.doc /\ y.doc = x.doc /\ y.redone = x.redone
    BY <1>3, <2>1 DEF ItemStates
  <2>3. t.item[i] = y /\ GoodMatter(t) /\ NoNewDraft(m, t) /\ \A j \in Items \ {i} : t.item[j] = m.item[j]
    BY <1>3, <1>6, <2>1 DEF ItemSet, NoNewDraft
  <2>4. BindsOne(y, i, decisions \ {d})
    <3>1. SUFFICES ASSUME i \in Judgeable, ~y.redone PROVE BindsOne(y, i, decisions \ {d})
      BY DEF BindsOne
    <3>2. d.doc = x.doc
      BY <1>1, <1>3, <2>2, <3>1 DEF ItemOK, BindsOne
    <3>3. \A f \in decisions \ {d} : f.item = i => ~Binding(f)
      BY <1>1, <1>3, <2>2, <3>1 DEF ItemOK, BindsOne
    <3>4. QED
      BY <2>2, <3>2, <3>3 DEF BindsOne
  <2>5. ItemOK(y, i, decisions \ {d})
    BY <2>2, <2>4 DEF ItemOK, Asked
  <2>6. QED
    BY <1>1, <1>2, <2>2, <2>3, <2>5
<1>7. QED
  BY <1>4, <1>5, <1>6

LEMMA CloseTypes ==
  ASSUME IInv, NEW d \in decisions, Close(d), NEW t, NoNewDraft(m, t), UNCHANGED <<reading, reopened>>
  PROVE  /\ decisions' \in SUBSET Decisions /\ reading' \in SUBSET Nat /\ reopened' \in Nat
         /\ \A f \in decisions' : DecisionOK(t, f)
         /\ \A f \in decisions' : f \in decisions
         /\ \A f \in decisions : f \notin decisions' => f = d
BY DecisionCarries DEF IInv, Close

LEMMA BindingAnswerKeeps ==
  ASSUME IInv, NEW d \in decisions, Binding(d), NEW st \in {"cleared", "reviewed"},
         m' = Settle(SetResolved(m, d.item, d.doc, st)), Close(d), UNCHANGED <<reading, reopened>>
  PROVE  IInv'
<1>1. PICK t : t = SetResolved(m, d.item, d.doc, st)
  OBVIOUS
<1>2. /\ GoodMatter(t) /\ NoNewDraft(m, t)
      /\ \A j \in Items \ {d.item} : t.item[j] = m.item[j]
      /\ ItemOK(t.item[d.item], d.item, decisions \ {d})
  BY <1>1, BindingAnswer
<1>3. /\ decisions' \in SUBSET Decisions /\ reading' \in SUBSET Nat /\ reopened' \in Nat
      /\ \A f \in decisions' : DecisionOK(t, f)
      /\ \A f \in decisions' : f \in decisions
      /\ \A f \in decisions : f \notin decisions' => f = d
  BY <1>2, CloseTypes
<1>4. PICK I : I = {d.item}
  OBVIOUS
<1>5. I \in SUBSET Items /\ \A j \in I : ItemOK(t.item[j], j, decisions')
  BY <1>2, <1>4, DecisionTypes DEF Close
<1>6. /\ \A j \in Items \ I : t.item[j] = m.item[j]
      /\ \A f \in decisions' : f \notin decisions => f.item \in I
      /\ \A f \in decisions : f \notin decisions' => f.item \in I
  BY <1>2, <1>3, <1>4
<1>7. QED
  BY <1>1, <1>2, <1>3, <1>5, <1>6, StepKeeps

(* The answer to any other decision: no item waits for it. *)
LEMMA OtherAnswerKeeps ==
  ASSUME IInv, NEW d \in decisions, ~Binding(d), NEW t, GoodMatter(t), NoNewDraft(m, t), t.item = m.item,
         m' = Settle(t), Close(d), UNCHANGED <<reading, reopened>>
  PROVE  IInv'
<1>1. /\ decisions' \in SUBSET Decisions /\ reading' \in SUBSET Nat /\ reopened' \in Nat
      /\ \A f \in decisions' : DecisionOK(t, f)
      /\ \A f \in decisions' : f \in decisions
      /\ \A f \in decisions : f \notin decisions' => f = d
  BY CloseTypes
<1>2. ASSUME NEW i \in Items PROVE ItemOK(t.item[i], i, decisions')
  BY <1>1, MatterFacts DEF ItemOK, Asked, BindsOne, Binding
<1>3. PICK I : I = Items
  OBVIOUS
<1>4. /\ I \in SUBSET Items /\ \A j \in I : ItemOK(t.item[j], j, decisions')
      /\ \A j \in Items \ I : t.item[j] = m.item[j]
      /\ \A f \in decisions' : f \notin decisions => f.item \in I
      /\ \A f \in decisions : f \notin decisions' => f.item \in I
  BY <1>1, <1>2, <1>3, DecisionTypes
<1>5. QED
  BY <1>1, <1>4, StepKeeps

LEMMA AnsweredKeeps ==
  ASSUME IInv, NEW d \in decisions, Answered(d), Close(d), UNCHANGED <<reading, reopened>>
  PROVE  IInv'
<1>1. /\ d.kind \in {"review", "auto_clear", "report"} /\ d.held \in BOOLEAN /\ d.doc \in Nat
      /\ d.held => d.kind = "auto_clear"
  BY DecisionTypes DEF DecisionOK
<1>2. CASE d.kind = "review"
  <2>1. m' = Settle(SetResolved(m, d.item, d.doc, "reviewed"))
    BY <1>2 DEF Answered, Becomes, ReviewItem
  <2>2. QED
    BY <1>2, <2>1, BindingAnswerKeeps DEF Binding
<1>3. CASE d.kind = "auto_clear" /\ d.held
  <2>1. m' = Settle(SetResolved(m, d.item, d.doc, "cleared"))
    BY <1>3 DEF Answered, Becomes, ClearItem
  <2>2. QED
    BY <1>3, <2>1, BindingAnswerKeeps DEF Binding
<1>4. CASE d.kind = "auto_clear" /\ ~d.held
  <2>1. m' = Settle(m)
    BY <1>4 DEF Answered, Becomes
  <2>2. ~Binding(d) /\ NoNewDraft(m, m) /\ GoodMatter(m)
    BY <1>4, MatterFacts DEF Binding, NoNewDraft
  <2>3. QED
    BY <2>1, <2>2, OtherAnswerKeeps
<1>5. CASE d.kind = "report"
  <2>1. PICK t : /\ t = ApproveReport(m, d.doc) \/ t = RejectReport(m)
                 /\ m' = Settle(t) /\ CurrentDraft(m, d.doc)
    BY <1>5 DEF Answered, Becomes
  <2>2. m \in Matters /\ m.report \in Reports /\ ReportInv(m)
    BY MatterFacts DEF GoodMatter
  <2>3. PICK r : \/ t = ApproveReport(m, d.doc) /\ r = [m.report EXCEPT !.status = "approved", !.approved = d.doc]
                 \/ t = RejectReport(m) /\ r = [m.report EXCEPT !.status = "rejected"]
    BY <2>1
  <2>4. /\ r \in Reports /\ r.full = m.report.full /\ r.status \in {"approved", "rejected"}
        /\ r.status = "approved" => r.approved = r.draft
    BY <1>1, <2>1, <2>2, <2>3 DEF Reports, ReportStatuses, CurrentDraft
  <2>5. t = [m EXCEPT !.report = r]
    BY <2>2, <2>3 DEF ApproveReport, RejectReport, Matters, Reports
  <2>6. t \in Matters /\ t.item = m.item /\ t.drafts = m.drafts /\ t.report = r /\ t.stage = m.stage
    BY <2>2, <2>4, <2>5 DEF Matters
  <2>7. GoodMatter(t) /\ NoNewDraft(m, t)
    BY <2>2, <2>4, <2>6 DEF GoodMatter, ReportInv, NoNewDraft
  <2>8. ~Binding(d)
    BY <1>1, <1>5 DEF Binding
  <2>9. QED
    BY <2>1, <2>6, <2>7, <2>8, OtherAnswerKeeps
<1>6. QED
  BY <1>1, <1>2, <1>3, <1>4, <1>5

(* A review answered with a further enquiry: two items at once. *)
LEMMA FollowUpKeeps ==
  ASSUME IInv, NEW d \in decisions, d.kind = "review", NEW e \in Unused,
         Becomes(Ask(ReviewItem(m, d.item, d.doc), e)), Close(d), UNCHANGED <<reading, reopened>>
  PROVE  IInv'
<1>1. PICK s : s = SetResolved(m, d.item, d.doc, "reviewed")
  OBVIOUS
<1>2. /\ GoodMatter(s) /\ NoNewDraft(m, s)
      /\ \A j \in Items \ {d.item} : s.item[j] = m.item[j]
      /\ ItemOK(s.item[d.item], d.item, decisions \ {d})
      /\ s.item[d.item].redone = m.item[d.item].redone
  BY <1>1, BindingAnswer DEF Binding
<1>3. /\ e \in Items /\ e \notin Searches /\ m.item[e].status = "none" /\ ItemOK(m.item[e], e, decisions)
      /\ d.item \in Items
  BY MatterFacts, DecisionTypes, ItemsAssumption DEF Unused
<1>4. s.item \in [Items -> ItemStates] /\ s.item[e].redone = m.item[e].redone
  BY <1>2, <1>3 DEF GoodMatter, Matters
<1>5. PICK t : t = [s EXCEPT !.item[e].status = "asked"]
  OBVIOUS
<1>6. PICK x : x = [s.item[e] EXCEPT !.status = "asked"]
  OBVIOUS
<1>7. ItemSet(s, t, e, x)
  BY <1>2, <1>3, <1>5, <1>6, StatusSet DEF ItemStatuses
<1>8. x.status = "asked" /\ x.redone = m.item[e].redone
  BY <1>3, <1>4, <1>6 DEF ItemStates
<1>9. /\ GoodMatter(t) /\ NoNewDraft(m, t) /\ t.item[e] = x
      /\ \A j \in Items \ {e} : t.item[j] = s.item[j]
  BY <1>2, <1>4, <1>7 DEF ItemSet, NoNewDraft
<1>10. m' = Settle(t)
  BY <1>1, <1>5 DEF Becomes, ReviewItem, Ask
<1>11. /\ decisions' \in SUBSET Decisions /\ reading' \in SUBSET Nat /\ reopened' \in Nat
       /\ \A f \in decisions' : DecisionOK(t, f)
       /\ \A f \in decisions' : f \in decisions
       /\ \A f \in decisions : f \notin decisions' => f = d
  BY <1>9, CloseTypes
<1>12. BindsOne(x, e, decisions')
  BY <1>3, <1>8, <1>11 DEF ItemOK, BindsOne
<1>13. ItemOK(t.item[e], e, decisions')
  BY <1>3, <1>8, <1>9, <1>12 DEF ItemOK, Asked
<1>14. d.item # e => ItemOK(t.item[d.item], d.item, decisions')
  BY <1>2, <1>3, <1>9 DEF Close
<1>15. PICK I : I = {d.item, e}
  OBVIOUS
<1>16. /\ I \in SUBSET Items
       /\ \A j \in I : ItemOK(t.item[j], j, decisions')
       /\ \A f \in decisions' : f \notin decisions => f.item \in I
       /\ \A f \in decisions : f \notin decisions' => f.item \in I
  BY <1>3, <1>11, <1>13, <1>14, <1>15
<1>17. \A j \in Items \ I : t.item[j] = m.item[j]
  BY <1>2, <1>9, <1>15
<1>18. QED
  BY <1>9, <1>10, <1>11, <1>16, <1>17, StepKeeps

LEMMA ResolveKeeps ==
  ASSUME IInv, NEW d \in decisions, Resolve(d)
  PROVE  IInv'
BY AnsweredKeeps, FollowUpKeeps DEF Resolve

-----------------------------------------------------------------------------
(* Escalations: the decision stays, on another list *)

LEMMA ReplaceKeeps ==
  ASSUME IInv, NEW d \in decisions, NEW e \in Decisions, Replace(d, e), UNCHANGED <<m, reading, reopened>>,
         e.kind = d.kind, e.item = d.item, e.doc = d.doc, e.held = d.held,
         DecisionOK(m, e), d.kind = "report" \/ OnSomeList(e)
  PROVE  IInv'
<1>1. d.item \in Items /\ (d.held => d.kind = "auto_clear")
  BY DecisionTypes DEF DecisionOK
<1>2. decisions' = (decisions \ {d}) \cup {e}
  BY DEF Replace
<1>3. decisions' \in SUBSET Decisions /\ \A f \in decisions' : DecisionOK(m, f)
  BY <1>2 DEF IInv
<1>4. PICK x : x = m.item[d.item]
  OBVIOUS
<1>5. ItemOK(x, d.item, decisions)
  BY <1>1, <1>4, MatterFacts
<1>6. Asked(x, d.item, decisions')
  <2>1. SUFFICES ASSUME x.status \in {"flagged", "read"} PROVE Asked(x, d.item, decisions')
    BY DEF Asked
  <2>2. PICK f \in decisions : /\ f.item = d.item /\ OnSomeList(f)
                               /\ IF x.status = "flagged" THEN f.kind = "review" ELSE f.held
    BY <1>5, <2>1 DEF ItemOK, Asked
  <2>3. CASE f # d
    BY <1>2, <2>2, <2>3 DEF Asked
  <2>4. CASE f = d
    BY <1>1, <1>2, <2>2, <2>4 DEF Asked
  <2>5. QED
    BY <2>3, <2>4
<1>7. BindsOne(x, d.item, decisions')
  BY <1>2, <1>5 DEF ItemOK, BindsOne, Binding
<1>8. ItemOK(x, d.item, decisions')
  BY <1>5, <1>6, <1>7 DEF ItemOK
<1>9. PICK I : I = {d.item}
  OBVIOUS
<1>10. /\ I \in SUBSET Items /\ \A j \in I : ItemOK(m.item[j], j, decisions')
       /\ \A f \in decisions' : f \notin decisions => f.item \in I
       /\ \A f \in decisions : f \notin decisions' => f.item \in I
  BY <1>1, <1>2, <1>4, <1>8, <1>9
<1>11. m' = Settle(m) /\ GoodMatter(m) /\ reading' \in SUBSET Nat /\ reopened' \in Nat
  BY SettledStays, MatterFacts
<1>12. QED
  BY <1>3, <1>10, <1>11, StepKeeps

(* The list of a decision passed on is that of the last senior alone. *)
LEMMA PassedOn ==
  ASSUME NEW seniors \in Seq(DecisionStates), NEW e, e.seniors = Append(seniors, "pending"),
         \A n \in DOMAIN seniors : seniors[n] # "pending"
  PROVE  e.seniors \in Seq(DecisionStates) /\ Asking(e) = {Len(seniors) + 1}
<1>1. "pending" \in DecisionStates
  BY DEF DecisionStates
<1>2. e.seniors \in Seq(DecisionStates) /\ DOMAIN e.seniors = 1..(Len(seniors) + 1) /\ DOMAIN seniors = 1..Len(seniors)
  BY <1>1
<1>3. e.seniors[Len(seniors) + 1] = "pending"
  OBVIOUS
<1>4. \A n \in 1..Len(seniors) : e.seniors[n] = seniors[n]
  OBVIOUS
<1>5. Len(seniors) \in Nat
  OBVIOUS
<1>6. \A n \in 1..(Len(seniors) + 1) : n = Len(seniors) + 1 \/ n \in 1..Len(seniors)
  BY <1>5
<1>7. \A n \in DOMAIN e.seniors : e.seniors[n] = "pending" => n = Len(seniors) + 1
  BY <1>2, <1>4, <1>6
<1>8. Len(seniors) + 1 \in DOMAIN e.seniors
  BY <1>2, <1>5
<1>9. QED
  BY <1>2, <1>3, <1>7, <1>8 DEF Asking

(* One entry of the list of a decision is answered or passed on: what asks is what asked before but for it. *)
LEMMA Answering ==
  ASSUME NEW seniors \in Seq(DecisionStates), NEW n \in DOMAIN seniors, NEW st \in {"escalated", "actioned"},
         \A k \in DOMAIN seniors : seniors[k] = "pending" => k = n,
         NEW q, q = [seniors EXCEPT ![n] = st]
  PROVE  /\ q \in Seq(DecisionStates) /\ DOMAIN q = DOMAIN seniors
         /\ \A k \in DOMAIN q : q[k] # "pending"
<1>1. st \in DecisionStates /\ st # "pending"
  BY DEF DecisionStates
<1>2. DOMAIN seniors = 1..Len(seniors) /\ Len(seniors) \in Nat
  OBVIOUS
<1>3. q \in Seq(DecisionStates) /\ DOMAIN q = DOMAIN seniors
  BY <1>1, <1>2
<1>4. ASSUME NEW k \in DOMAIN q PROVE q[k] # "pending"
  BY <1>1, <1>3
<1>5. QED
  BY <1>3, <1>4

LEMMA EscalateKeeps ==
  ASSUME IInv, NEW d \in decisions, Escalate(d)
  PROVE  IInv'
<1>1. /\ d \in Decisions /\ d.seniors \in Seq(DecisionStates) /\ DecisionOK(m, d)
      /\ d.status = "pending" /\ Asking(d) = {}
  BY DecisionTypes DEF Escalate, DecisionOK
<1>2. PICK e : e = [d EXCEPT !.status = "escalated", !.seniors = Append(@, "pending")]
  OBVIOUS
<1>3. /\ e.status = "escalated" /\ e.seniors = Append(d.seniors, "pending")
      /\ e.kind = d.kind /\ e.item = d.item /\ e.doc = d.doc /\ e.held = d.held
  BY <1>1, <1>2 DEF Decisions
<1>4. \A n \in DOMAIN d.seniors : d.seniors[n] # "pending"
  BY <1>1 DEF Asking
<1>5. e.seniors \in Seq(DecisionStates) /\ Asking(e) = {Len(d.seniors) + 1}
  BY <1>1, <1>3, <1>4, PassedOn
<1>6. PICK q : q = e.seniors
  OBVIOUS
<1>7. e = [d EXCEPT !.status = "escalated", !.seniors = q]
  BY <1>1, <1>2, <1>3, <1>6 DEF Decisions
<1>8. e \in Decisions
  BY <1>1, <1>5, <1>6, <1>7 DEF Decisions, OpenStates
<1>9. DecisionOK(m, e) /\ OnSomeList(e)
  BY <1>1, <1>3, <1>5 DEF DecisionOK, OnSomeList
<1>10. Replace(d, e) /\ UNCHANGED <<m, reading, reopened>>
  BY <1>2 DEF Escalate
<1>11. QED
  BY <1>3, <1>8, <1>9, <1>10, ReplaceKeeps

(* A decision that a senior can answer is escalated, and that senior alone is asked. *)
LEMMA OneSenior ==
  ASSUME IInv, NEW d \in decisions, NEW n \in Asking(d)
  PROVE  /\ d.status = "escalated" /\ n \in DOMAIN d.seniors
         /\ \A k \in DOMAIN d.seniors : d.seniors[k] = "pending" => k = n
BY DecisionTypes DEF DecisionOK, Asking, OpenStates

LEMMA EscalateFurtherKeeps ==
  ASSUME IInv, NEW d \in decisions, NEW n \in DOMAIN d.seniors, EscalateFurther(d, n)
  PROVE  IInv'
<1>1. d \in Decisions /\ d.seniors \in Seq(DecisionStates) /\ DecisionOK(m, d) /\ n \in Asking(d)
  BY DecisionTypes DEF EscalateFurther
<1>2. d.status = "escalated" /\ \A k \in DOMAIN d.seniors : d.seniors[k] = "pending" => k = n
  BY <1>1, OneSenior
<1>3. PICK p : p = [d.seniors EXCEPT ![n] = "escalated"]
  OBVIOUS
<1>4. p \in Seq(DecisionStates) /\ \A k \in DOMAIN p : p[k] # "pending"
  BY <1>1, <1>2, <1>3, Answering
<1>5. PICK e : e = [d EXCEPT !.seniors = Append([@ EXCEPT ![n] = "escalated"], "pending")]
  OBVIOUS
<1>6. /\ e.status = d.status /\ e.seniors = Append(p, "pending")
      /\ e.kind = d.kind /\ e.item = d.item /\ e.doc = d.doc /\ e.held = d.held
  BY <1>1, <1>3, <1>5 DEF Decisions
<1>7. e.seniors \in Seq(DecisionStates) /\ Asking(e) = {Len(p) + 1}
  BY <1>4, <1>6, PassedOn
<1>8. PICK q : q = e.seniors
  OBVIOUS
<1>9. e = [d EXCEPT !.seniors = q]
  BY <1>1, <1>3, <1>5, <1>6, <1>8 DEF Decisions
<1>10. e \in Decisions
  BY <1>1, <1>7, <1>8, <1>9 DEF Decisions
<1>11. DecisionOK(m, e) /\ OnSomeList(e)
  BY <1>1, <1>2, <1>6, <1>7 DEF DecisionOK, OnSomeList
<1>12. Replace(d, e) /\ UNCHANGED <<m, reading, reopened>>
  BY <1>5 DEF EscalateFurther
<1>13. QED
  BY <1>6, <1>10, <1>11, <1>12, ReplaceKeeps

LEMMA SeniorAnswersKeeps ==
  ASSUME IInv, NEW d \in decisions, NEW n \in DOMAIN d.seniors, SeniorAnswers(d, n)
  PROVE  IInv'
<1>1. d \in Decisions /\ d.seniors \in Seq(DecisionStates) /\ DecisionOK(m, d) /\ n \in Asking(d)
  BY DecisionTypes DEF SeniorAnswers
<1>2. d.status = "escalated" /\ \A k \in DOMAIN d.seniors : d.seniors[k] = "pending" => k = n
  BY <1>1, OneSenior
<1>3. CASE Answered(d) /\ Close(d)
  BY <1>3, AnsweredKeeps DEF SeniorAnswers
<1>4. CASE /\ d.kind = "report" /\ ~CurrentDraft(m, d.doc)
           /\ m' = m /\ Replace(d, [d EXCEPT !.seniors[n] = "actioned"])
  <2>1. PICK q : q = [d.seniors EXCEPT ![n] = "actioned"]
    OBVIOUS
  <2>2. q \in Seq(DecisionStates) /\ \A k \in DOMAIN q : q[k] # "pending"
    BY <1>1, <1>2, <2>1, Answering
  <2>3. PICK e : e = [d EXCEPT !.seniors = q]
    OBVIOUS
  <2>4. e = [d EXCEPT !.seniors[n] = "actioned"]
    BY <1>1, <2>1, <2>3 DEF Decisions
  <2>5. /\ e \in Decisions /\ e.status = d.status /\ e.seniors = q
        /\ e.kind = d.kind /\ e.item = d.item /\ e.doc = d.doc /\ e.held = d.held
    BY <1>1, <2>2, <2>3 DEF Decisions
  <2>6. Asking(e) = {}
    BY <2>2, <2>5 DEF Asking
  <2>7. DecisionOK(m, e)
    BY <1>1, <1>2, <1>4, <2>5, <2>6 DEF DecisionOK
  <2>8. Replace(d, e) /\ UNCHANGED <<m, reading, reopened>>
    BY <1>4, <2>4 DEF SeniorAnswers
  <2>9. QED
    BY <1>4, <2>5, <2>7, <2>8, ReplaceKeeps
<1>5. QED
  BY <1>3, <1>4 DEF SeniorAnswers

-----------------------------------------------------------------------------
(* A draft of the report *)

LEMMA DraftReportKeeps ==
  ASSUME IInv, DraftReport
  PROVE  IInv'
<1>1. /\ m \in Matters /\ m.report \in Reports /\ ReportInv(m) /\ m.drafts \in Nat
      /\ Title \in Items /\ Title \notin Judgeable /\ Title \notin Searches
  BY MatterFacts DEF GoodMatter, Matters, Judgeable
<1>2. PICK n \in Nat : n = m.drafts + 1
  BY <1>1
<1>3. PICK b \in BOOLEAN : b = (m.stage = "pre_contract")
  OBVIOUS
<1>4. PICK r : r = [m.report EXCEPT !.status = "drafted", !.draft = n, !.approved = 0, !.interim = b]
  OBVIOUS
<1>5. r \in Reports /\ r.status = "drafted" /\ r.draft = n /\ r.full = m.report.full
  BY <1>1, <1>4 DEF Reports, ReportStatuses
<1>6. PICK t : t = [m EXCEPT !.report = r, !.drafts = n]
  OBVIOUS
<1>7. t \in Matters /\ t.item = m.item /\ t.drafts = n /\ t.report = r /\ t.stage = m.stage
  BY <1>1, <1>5, <1>6 DEF Matters
<1>8. GoodMatter(t)
  BY <1>1, <1>5, <1>7 DEF GoodMatter, ReportInv
<1>9. t = [m EXCEPT !.report.status = "drafted", !.report.draft = m.drafts + 1, !.report.approved = 0,
                    !.report.interim = (m.stage = "pre_contract"), !.drafts = @ + 1]
  BY <1>1, <1>2, <1>3, <1>4, <1>6 DEF Matters, Reports
<1>10. m' = Settle(t) /\ reading' \in SUBSET Nat /\ reopened' \in Nat
  BY <1>9, MatterFacts DEF DraftReport, Becomes
<1>11. PICK no, e : no \in BOOLEAN /\ no = FALSE /\ e = Decision("report", Title, n, no)
  OBVIOUS
<1>12. /\ e \in Decisions /\ Asking(e) = {} /\ e.status = "pending"
       /\ e.kind = "report" /\ e.item = Title /\ e.doc = n /\ e.held = no
  BY <1>1, <1>11, DecisionsFacts
<1>13. decisions' = decisions \cup {e}
  BY <1>2, <1>11 DEF DraftReport, Raised
<1>14. decisions' \in SUBSET Decisions
  BY <1>12, <1>13, MatterFacts
<1>15. ASSUME NEW f \in decisions PROVE DecisionOK(t, f)
  <2>1. DecisionOK(m, f) /\ f.doc \in Nat
    BY DecisionTypes
  <2>2. f.kind = "report" => f.doc <= n /\ f.doc # n
    BY <1>1, <1>2, <2>1 DEF DecisionOK
  <2>3. QED
    BY <1>5, <1>7, <2>1, <2>2 DEF DecisionOK, CurrentDraft
<1>16. DecisionOK(t, e)
  BY <1>2, <1>7, <1>11, <1>12 DEF DecisionOK
<1>17. ItemOK(m.item[Title], Title, decisions')
  BY <1>1, <1>13, MatterFacts DEF ItemOK, Asked, BindsOne
<1>18. PICK I : I = {Title}
  OBVIOUS
<1>19. /\ I \in SUBSET Items
       /\ \A j \in Items \ I : t.item[j] = m.item[j]
       /\ \A j \in I : ItemOK(t.item[j], j, decisions')
       /\ \A f \in decisions' : DecisionOK(t, f)
       /\ \A f \in decisions' : f \notin decisions => f.item \in I
       /\ \A f \in decisions : f \notin decisions' => f.item \in I
  BY <1>1, <1>7, <1>12, <1>13, <1>15, <1>16, <1>17, <1>18
<1>20. QED
  BY <1>8, <1>10, <1>14, <1>19, StepKeeps

-----------------------------------------------------------------------------
(* Theorems *)

LEMMA InitHolds ==
  ASSUME Init
  PROVE  IInv
<1>1. PICK lender \in BOOLEAN, required \in SUBSET Searches :
        m = [stage |-> "pre_contract", lender |-> lender, required |-> required,
             item |-> [i \in Items |-> NoItem], report |-> NoReport, drafts |-> 0,
             contract |-> FALSE, signed |-> FALSE, deposit |-> FALSE, conditions |-> FALSE]
  BY DEF Init
<1>2. NoItem \in ItemStates /\ NoReport \in Reports
  BY DEF NoItem, ItemStates, ItemStatuses, NoReport, Reports, ReportStatuses
<1>3. m \in Matters
  BY <1>1, <1>2, StagesRange DEF Matters, StageNames
<1>4. ReportInv(m)
  BY <1>1 DEF ReportInv, NoReport
<1>5. AutoStep(m) = m
  BY <1>1 DEF Init, AutoStep, ConditionsDue
<1>6. \A i \in Items : ItemOK(m.item[i], i, decisions)
  BY <1>1 DEF Init, NoItem, ItemOK, Asked, BindsOne
<1>7. QED
  BY <1>3, <1>4, <1>5, <1>6 DEF Init, IInv, GoodMatter

LEMMA StepHolds ==
  ASSUME IInv, [Next]_vars
  PROVE  IInv'
<1>1. ASSUME NEW q \in m.required, Order(q) \/ SearchReturned(q) \/ SearchExtracted(q) \/ ReopenSearch(q) PROVE IInv'
  BY <1>1, OrderKeeps, SearchReturnedKeeps, SearchExtractedKeeps, OffKeeps, MatterFacts DEF ReopenSearch
<1>2. ASSUME NEW e \in Enquiries, ReplyReceived(e) \/ WithdrawEnquiry(e) PROVE IInv'
  BY <1>2, ReplyReceivedKeeps, WithdrawEnquiryKeeps
<1>3. ASSUME NEW d \in reading, OfferExtracted(d) \/ OfferReadLost(d) PROVE IInv'
  BY <1>3, OfferExtractedKeeps, OfferReadLostKeeps
<1>4. ASSUME NEW d \in decisions,
             Resolve(d) \/ Escalate(d) \/ \E n \in DOMAIN d.seniors : EscalateFurther(d, n) \/ SeniorAnswers(d, n)
      PROVE  IInv'
  BY <1>4, ResolveKeeps, EscalateKeeps, EscalateFurtherKeeps, SeniorAnswersKeeps
<1>5. CASE RaiseEnquiry \/ OfferReceived \/ TitleExtracted
  BY <1>5, RaiseEnquiryKeeps, OfferReceivedKeeps, TitleExtractedKeeps
<1>6. CASE WithdrawOffer \/ ReopenTitle
  BY <1>6, OffKeeps, MatterFacts DEF WithdrawOffer, ReopenTitle
<1>7. CASE DraftReport \/ SendReport \/ ReopenReport
  BY <1>7, DraftReportKeeps, SendReportKeeps, ReopenReportKeeps
<1>8. CASE ApproveContract \/ HoldSignedContract \/ ReopenContract \/ ReceiveDeposit \/ ReopenDeposit \/ Exchange
  BY <1>8, FlagsKeep, ExchangeKeeps
<1>9. CASE UNCHANGED vars
  BY <1>9 DEF vars, IInv
<1>10. QED
  BY <1>1, <1>2, <1>3, <1>4, <1>5, <1>6, <1>7, <1>8, <1>9 DEF Next

(* The inductive invariant holds in every behaviour of the documents of a purchase. *)
THEOREM Invariance == Spec => []IInv
<1>1. Init => IInv
  BY InitHolds
<1>2. IInv /\ [Next]_vars => IInv'
  BY StepHolds
<1>3. QED
  BY <1>1, <1>2, PTL DEF Spec

(* The variables have their types, and three automatic rules after a command are enough: nothing is left for
   a fourth (the loop of run and nextStage in service.ts and machine.ts ends). *)
THEOREM TypeCorrect == Spec => []TypeOK
<1>1. IInv => TypeOK
  BY DEF IInv, GoodMatter, TypeOK
<1>2. QED
  BY <1>1, Invariance, PTL

(* Whatever searches and enquiries there are, a flag or a clear held back is on somebody's list. *)
THEOREM HeldUpAlwaysAsked == Spec => []HeldUpIsAsked
<1>1. IInv => HeldUpIsAsked
  BY DEF IInv, ItemOK, Asked, OnSomeList, HeldUpIsAsked
<1>2. QED
  BY <1>1, Invariance, PTL

(* However often a question is passed on, it is on exactly one list. *)
THEOREM OneDeskAlways == Spec => []OneDesk
<1>1. IInv => OneDesk
  <2>1. SUFFICES ASSUME IInv, NEW d \in decisions
                 PROVE  IF d.status = "pending" THEN Asking(d) = {}
                        ELSE \/ Cardinality(Asking(d)) = 1
                             \/ d.kind = "report" /\ Asking(d) = {} /\ ~CurrentDraft(m, d.doc)
    BY DEF OneDesk
  <2>2. DecisionOK(m, d)
    BY <2>1 DEF IInv
  <2>3. \A n \in Asking(d) : Cardinality({n}) = 1
    BY FS_Singleton
  <2>4. QED
    BY <2>2, <2>3 DEF DecisionOK
<1>2. QED
  BY <1>1, Invariance, PTL

(* A search or enquiry is resolved about the document it has, however commands, readings and answers cross. *)
THEOREM JudgedAsReturnedAlways == Spec => []JudgedAsReturned
<1>1. IInv => JudgedAsReturned
  <2>1. SUFFICES ASSUME IInv, NEW i \in Searches \cup Enquiries,
                        m.item[i].status \in {"cleared", "reviewed"}, ~m.item[i].redone
                 PROVE  m.item[i].judged = m.item[i].doc
    BY DEF JudgedAsReturned
  <2>2. i \in Items /\ i \in Judgeable
    BY DEF Items, Judgeable
  <2>3. QED
    BY <2>1, <2>2 DEF IInv, ItemOK, BindsOne
<1>2. QED
  BY <1>1, Invariance, PTL

(* A report counts as approved, or goes, only as it was approved. *)
THEOREM ReportAsApprovedAlways == Spec => []ReportAsApproved
<1>1. IInv => ReportAsApproved
  BY DEF IInv, GoodMatter, ReportInv, ReportAsApproved
<1>2. QED
  BY <1>1, Invariance, PTL

(* No purchase reaches pre-exchange, or exchanges, without a full report on title. *)
THEOREM FullReportBeforeExchange == Spec => []FullReportWent
<1>1. IInv => FullReportWent
  BY DEF IInv, GoodMatter, ReportInv, FullReportWent
<1>2. QED
  BY <1>1, Invariance, PTL

=============================================================================

---------------------------- MODULE AroundProofs ----------------------------
(***************************************************************************)
(* The parts of the server around the engine, for any rows, sweeps, batch,  *)
(* messages, handlers, accounts, invoices and processes.                    *)
(*                                                                          *)
(* Scheduled sends: the types with the size of a batch, and that a cancel   *)
(* in time is respected.  The second needs that a cancelled row stays       *)
(* cancelled while no sweep holds it, and that a batch takes up pending     *)
(* rows only; the first, that rows with fewer than n rows before them are   *)
(* at most n.  Commissions: the types, that an invoice pays one referrer,   *)
(* and that a commission is credited once.  Then the composition: run side  *)
(* by side, these and mail intake (module MailIntakeProofs) each do what    *)
(* they do alone.                                                           *)
(***************************************************************************)
EXTENDS MCAround, MailIntakeProofs, FiniteSetTheorems

-----------------------------------------------------------------------------
(* Scheduled sends *)

(* A row cancelled in time is still cancelled, and no sweep has it to send. *)
CancelsKept == \A r \in inTime : row[r] = "CANCELLED" /\ ~Held(r)

SendInv ==
  /\ SendTypeOK /\ CancelsKept
  /\ \A w \in Sweeps : IsFiniteSet(sweep[w].todo)

-----------------------------------------------------------------------------
(* The batch *)

LEMMA RowsBefore ==
  ASSUME NEW S \in SUBSET Rows, NEW r \in S
  PROVE  IsFiniteSet(Before(r, S)) /\ Cardinality(Before(r, S)) \in Nat
<1>1. r \in Nat /\ S \subseteq Nat
  BY RowsAssumption
<1>2. \A q \in Before(r, S) : q \in Nat /\ q <= r
  BY <1>1 DEF Before
<1>3. IsFiniteSet(Before(r, S))
  BY <1>1, <1>2, FS_BoundedSetOfNaturals
<1>4. QED
  BY <1>3, FS_CardinalityType

(* Of two rows, the later has more rows before it. *)
LEMMA LaterRow ==
  ASSUME NEW S \in SUBSET Rows, NEW q \in S, NEW r \in S, q < r
  PROVE  Cardinality(Before(q, S)) < Cardinality(Before(r, S))
<1>1. q \in Nat /\ r \in Nat /\ S \subseteq Nat
  BY RowsAssumption
<1>2. q \in Before(r, S) /\ q \notin Before(q, S)
  BY <1>1 DEF Before
<1>3. \A k \in Before(q, S) : k \in Before(r, S)
  BY <1>1 DEF Before
<1>4. Before(q, S) \in SUBSET Before(r, S) /\ Before(q, S) # Before(r, S)
  BY <1>2, <1>3
<1>5. QED
  BY <1>4, RowsBefore, FS_Subset

(* The soonest rows are no more than one sweep takes: their numbers of rows before them differ. *)
LEMMA SoonestBounded ==
  ASSUME NEW S \in SUBSET Rows
  PROVE  IsFiniteSet(Soonest(S)) /\ Cardinality(Soonest(S)) <= BatchLimit
<1> DEFINE place == [r \in Soonest(S) |-> Cardinality(Before(r, S))]
           Places == 0..(BatchLimit - 1)
<1>1. BatchLimit \in Nat \ {0} /\ Soonest(S) \subseteq S
  BY BatchAssumption DEF Soonest
<1>2. IsFiniteSet(Places) /\ Cardinality(Places) = BatchLimit
  BY <1>1, FS_Interval
<1>3. place \in [Soonest(S) -> Places]
  BY <1>1, RowsBefore DEF Soonest
<1>4. ASSUME NEW q \in Soonest(S), NEW r \in Soonest(S), q # r PROVE place[q] # place[r]
  <2>1. q \in S /\ r \in S /\ q \in Nat /\ r \in Nat
    BY <1>1, RowsAssumption
  <2>2. Cardinality(Before(q, S)) \in Nat /\ Cardinality(Before(r, S)) \in Nat
    BY <2>1, RowsBefore
  <2>3. CASE q < r
    BY <2>1, <2>2, <2>3, LaterRow
  <2>4. CASE r < q
    BY <2>1, <2>2, <2>4, LaterRow
  <2>5. QED
    BY <1>4, <2>1, <2>3, <2>4
<1>5. place \in Injection(Soonest(S), Places)
  BY <1>3, <1>4 DEF Injection, IsInjective
<1>6. QED
  BY <1>2, <1>5, FS_Injection

(* A sweep takes up pending rows that are due, at most its limit. *)
LEMMA BatchPending ==
  ASSUME SendTypeOK
  PROVE  /\ Batch \subseteq {r \in Rows : Pending(r)} /\ IsFiniteSet(Batch)
         /\ Cardinality(Batch) <= BatchLimit
<1>1. {r \in due : Pending(r)} \in SUBSET Rows
  BY DEF SendTypeOK
<1>2. QED
  BY <1>1, SoonestBounded DEF Batch, Soonest

-----------------------------------------------------------------------------
(* The invariant *)

LEMMA SendInvInit == SendInit => SendInv
<1> SUFFICES ASSUME SendInit PROVE SendInv
  OBVIOUS
<1>1. \A w \in Sweeps : sweep[w] = Idle
  BY DEF SendInit
<1>2. IsFiniteSet({}) /\ Cardinality({}) <= BatchLimit
  BY FS_EmptySet, BatchAssumption
<1>3. SendTypeOK
  BY <1>1, <1>2 DEF SendInit, SendTypeOK, Idle, RowStatuses, Drafts
<1>4. QED
  BY <1>1, <1>2, <1>3 DEF SendInv, CancelsKept, SendInit, Idle

(* The sweeps go on unchanged while no row leaves the state CANCELLED, and none but those no sweep holds enter
   the rows cancelled in time. *)
LEMMA SweepsSameKeeps ==
  ASSUME SendInv, sweep' = sweep, row' \in [Rows -> RowStatuses], due' \subseteq Rows, draft' \in [Rows -> Drafts],
         lost' = lost, inTime' \subseteq Rows,
         \A r \in inTime' : row'[r] = "CANCELLED" /\ ~Held(r)
  PROVE  SendInv'
<1>1. SendTypeOK'
  BY DEF SendInv, SendTypeOK
<1>2. CancelsKept'
  BY DEF CancelsKept, Held
<1>3. QED
  BY <1>1, <1>2 DEF SendInv

(* A sweep w takes up rows that were pending, or puts rows down; only rows it held are settled. *)
LEMMA SweepChangesKeeps ==
  ASSUME SendInv, NEW w \in Sweeps, NEW t, sweep' = [sweep EXCEPT ![w] = t],
         t \in [todo : SUBSET Rows, sent : BOOLEAN], IsFiniteSet(t.todo), Cardinality(t.todo) <= BatchLimit,
         t.sent => t.todo # {},
         \A r \in t.todo : Held(r) \/ Pending(r),
         row' \in [Rows -> RowStatuses], \A r \in Rows : row'[r] = row[r] \/ Held(r),
         UNCHANGED <<due, inTime>>, draft' \in [Rows -> Drafts], lost' \in Nat
  PROVE  SendInv'
<1>1. /\ sweep \in [Sweeps -> [todo : SUBSET Rows, sent : BOOLEAN]]
      /\ \A v \in Sweeps : Cardinality(sweep[v].todo) <= BatchLimit /\ (sweep[v].sent => sweep[v].todo # {})
                           /\ IsFiniteSet(sweep[v].todo)
  BY DEF SendInv, SendTypeOK
<1>2. \A v \in Sweeps : sweep'[v] = IF v = w THEN t ELSE sweep[v]
  BY <1>1
<1>3. SendTypeOK'
  BY <1>1, <1>2 DEF SendInv, SendTypeOK
<1>4. ASSUME NEW r \in inTime PROVE row'[r] = "CANCELLED" /\ ~Held(r)'
  <2>1. r \in Rows /\ row[r] = "CANCELLED" /\ ~Held(r)
    BY DEF SendInv, CancelsKept, SendTypeOK
  <2>2. r \notin t.todo
    BY <2>1 DEF Pending
  <2>3. QED
    BY <1>2, <2>1, <2>2 DEF Held
<1>5. QED
  BY <1>1, <1>2, <1>3, <1>4 DEF SendInv, CancelsKept

(* A sweep goes on to its next row, whether or not it has settled this one. *)
LEMMA GoesOnKeeps ==
  ASSUME SendInv, NEW w \in Sweeps, NEW r \in Rows, Foremost(w, r), GoesOn(w, r), Settles(r) \/ UNCHANGED row,
         UNCHANGED <<due, draft, inTime, lost>>
  PROVE  SendInv'
<1> DEFINE t == [todo |-> sweep[w].todo \ {r}, sent |-> FALSE]
<1>1. /\ sweep[w].todo \in SUBSET Rows /\ IsFiniteSet(sweep[w].todo) /\ Cardinality(sweep[w].todo) <= BatchLimit
      /\ row \in [Rows -> RowStatuses] /\ draft \in [Rows -> Drafts] /\ lost \in Nat
  BY DEF SendInv, SendTypeOK
<1>2. t.todo \in SUBSET sweep[w].todo
  OBVIOUS
<1>3. IsFiniteSet(t.todo) /\ Cardinality(t.todo) <= Cardinality(sweep[w].todo)
  BY <1>1, <1>2, FS_Subset
<1>4. Cardinality(t.todo) <= BatchLimit
  BY <1>1, <1>2, <1>3, FS_CardinalityType, BatchAssumption
<1>5. \A k \in sweep[w].todo : Held(k)
  BY DEF Held
<1>6. row' \in [Rows -> RowStatuses] /\ \A k \in Rows : row'[k] = row[k] \/ Held(k)
  BY <1>1, <1>5 DEF Settles, RowStatuses, Foremost
<1>7. sweep' = [sweep EXCEPT ![w] = t] /\ t \in [todo : SUBSET Rows, sent : BOOLEAN] /\ ~t.sent
  BY <1>1 DEF GoesOn
<1>8. \A k \in t.todo : Held(k)
  BY <1>2, <1>5
<1> HIDE DEF t
<1>9. QED
  BY <1>1, <1>3, <1>4, <1>6, <1>7, <1>8, SweepChangesKeeps

LEMMA SendInvStep == SendInv /\ [SendNext]_sendVars => SendInv'
<1> SUFFICES ASSUME SendInv, [SendNext]_sendVars PROVE SendInv'
  OBVIOUS
<1>1. /\ row \in [Rows -> RowStatuses] /\ due \subseteq Rows /\ draft \in [Rows -> Drafts] /\ inTime \subseteq Rows
      /\ lost \in Nat /\ sweep \in [Sweeps -> [todo : SUBSET Rows, sent : BOOLEAN]]
      /\ \A r \in inTime : row[r] = "CANCELLED" /\ ~Held(r)
  BY DEF SendInv, SendTypeOK, CancelsKept
<1>2. \A w \in Sweeps : /\ IsFiniteSet(sweep[w].todo) /\ Cardinality(sweep[w].todo) <= BatchLimit
                        /\ \A r \in sweep[w].todo : Held(r)
  BY DEF SendInv, SendTypeOK, Held
<1>3. IsFiniteSet({}) /\ Cardinality({}) <= BatchLimit
  BY FS_EmptySet, BatchAssumption
<1>4. ASSUME NEW r \in Rows, Schedule(r) \/ FallsDue(r) PROVE SendInv'
  BY <1>1, <1>4, SweepsSameKeeps DEF Schedule, FallsDue, RowStatuses, Pending
<1>5. ASSUME NEW r \in Rows, Cancel(r) PROVE SendInv'
  <2>1. row' \in [Rows -> RowStatuses] /\ row'[r] = "CANCELLED" /\ \A k \in Rows \ {r} : row'[k] = row[k]
    BY <1>1, <1>5 DEF Cancel, RowStatuses
  <2>2. inTime' \subseteq Rows /\ \A k \in inTime' : row'[k] = "CANCELLED" /\ ~Held(k)
    BY <1>1, <1>5, <2>1 DEF Cancel
  <2>3. QED
    BY <1>1, <1>5, <2>1, <2>2, SweepsSameKeeps DEF Cancel
<1>6. ASSUME NEW r \in Rows, TakeDraft(r) PROVE SendInv'
  BY <1>1, <1>6, SweepsSameKeeps DEF TakeDraft, Drafts
<1>7. ASSUME NEW w \in Sweeps, SweepStarts(w) PROVE SendInv'
  <2> DEFINE t == [todo |-> Batch, sent |-> FALSE]
  <2>1. Batch \in SUBSET Rows /\ (\A r \in Batch : Pending(r)) /\ IsFiniteSet(Batch) /\ Cardinality(Batch) <= BatchLimit
    BY BatchPending DEF SendInv
  <2>2. sweep' = [sweep EXCEPT ![w] = t] /\ UNCHANGED <<row, due, draft, inTime, lost>>
    BY <1>7 DEF SweepStarts, Idle
  <2>3. t \in [todo : SUBSET Rows, sent : BOOLEAN] /\ t.todo = Batch /\ ~t.sent
    BY <2>1
  <2> HIDE DEF t
  <2>4. QED
    BY <1>1, <2>1, <2>2, <2>3, SweepChangesKeeps
<1>8. ASSUME NEW w \in Sweeps, NEW r \in Rows, Send(w, r) PROVE SendInv'
  <2> DEFINE t == [sweep[w] EXCEPT !.sent = TRUE]
  <2>1. sweep' = [sweep EXCEPT ![w] = t] /\ UNCHANGED <<row, due, inTime, lost>> /\ draft' = [draft EXCEPT ![r] = "sent"]
    BY <1>8 DEF Send
  <2>2. t \in [todo : SUBSET Rows, sent : BOOLEAN] /\ t.todo = sweep[w].todo /\ t.todo # {}
    BY <1>1, <1>8 DEF Send, Foremost
  <2>3. draft' \in [Rows -> Drafts]
    BY <1>1, <2>1 DEF Drafts
  <2> HIDE DEF t
  <2>4. QED
    BY <1>1, <1>2, <2>1, <2>2, <2>3, SweepChangesKeeps
<1>9. ASSUME NEW w \in Sweeps, NEW r \in Rows, Refused(w, r) \/ Mark(w, r) PROVE SendInv'
  BY <1>9, GoesOnKeeps DEF Refused, Mark
<1>10. ASSUME NEW w \in Sweeps, LoseSweep(w) PROVE SendInv'
  <2>1. sweep' = [sweep EXCEPT ![w] = Idle] /\ lost' = lost + 1 /\ UNCHANGED <<row, due, draft, inTime>>
    BY <1>10 DEF LoseSweep
  <2>2. /\ Idle \in [todo : SUBSET Rows, sent : BOOLEAN] /\ ~Idle.sent
        /\ IsFiniteSet(Idle.todo) /\ Cardinality(Idle.todo) <= BatchLimit /\ \A r \in Idle.todo : Held(r)
    BY <1>3 DEF Idle
  <2>3. lost' \in Nat
    BY <1>1, <2>1
  <2>4. QED
    BY <1>1, <2>1, <2>2, <2>3, SweepChangesKeeps
<1>11. CASE UNCHANGED sendVars
  BY <1>1, <1>11, SweepsSameKeeps DEF sendVars
<1>12. CASE SendNext
  BY <1>4, <1>5, <1>6, <1>7, <1>8, <1>9, <1>10, <1>12 DEF SendNext, SweepStep
<1>13. QED
  BY <1>11, <1>12

-----------------------------------------------------------------------------
(* The results *)

THEOREM SendInvariance == SendSpec => []SendInv
BY SendInvInit, SendInvStep, PTL DEF SendSpec

(* Rows, drafts and sweeps keep their types, and no sweep holds more rows than its limit (processDueSends). *)
THEOREM SendTypeCorrect == SendSpec => []SendTypeOK
<1>1. SendInv => SendTypeOK
  BY DEF SendInv
<1>2. QED
  BY <1>1, SendInvariance, PTL

(* A send cancelled while no sweep had it in its batch never leaves the mailbox, however sweeps overlap, fail
   or are lost (cancelScheduledSend, processDueSends). *)
THEOREM CancelIsRespected == SendSpec => CancelledInTime
<1>1. SendInv /\ [SendNext]_sendVars => [\A r \in inTime : draft'[r] = "sent" => draft[r] = "sent"]_sendVars
  <2>1. SUFFICES ASSUME SendInv, SendNext, NEW r \in inTime, draft'[r] = "sent", draft[r] # "sent" PROVE FALSE
    OBVIOUS
  <2>2. r \in Rows /\ ~Held(r) /\ draft \in [Rows -> Drafts]
    BY <2>1 DEF SendInv, CancelsKept, SendTypeOK
  <2>3. CASE \E w \in Sweeps, k \in Rows : Send(w, k)
    BY <2>1, <2>2, <2>3 DEF Send, Foremost, Held
  <2>4. CASE \E k \in Rows : TakeDraft(k)
    BY <2>1, <2>2, <2>4 DEF TakeDraft
  <2>5. QED
    BY <2>1, <2>3, <2>4 DEF SendNext, SweepStep, Schedule, FallsDue, Cancel, SweepStarts, Refused, Mark, LoseSweep
<1>2. QED
  BY <1>1, SendInvariance, PTL DEF SendSpec, CancelledInTime

-----------------------------------------------------------------------------
(* Commissions *)

(* A commission, earned, about to be or clawed back, goes to the account that the payer is bound to. *)
BoundInv ==
  /\ \A c \in Commissions : ledger[c] # "none" => referrer[PaidBy(c[2])] = c[1]
  /\ \A p \in Processes : process[p].does \in {"accrue", "claw back"} =>
       referrer[PaidBy(process[p].com[2])] = process[p].com[1]

(* What was never applied has no credit, and nobody about to give one. *)
UnappliedInv ==
  \A c \in Commissions : ledger[c] \in {"none", "ACCRUED"} =>
    balance[c].credits = 0 /\ \A p \in Processes : ~WillCredit(p, c)

CommissionInv == CommissionTypeOK /\ BoundInv /\ UnappliedInv /\ CreditedOnce

-----------------------------------------------------------------------------
(* What a request is about to do says of which account or commission. *)
LEMMA DoingFields ==
  ASSUME NEW d \in Doings
  PROVE  /\ d.does \in {"nothing", "bind", "accrue", "credit", "claw back"}
         /\ d.does = "bind" => d.account \in Accounts /\ d.to \in Accounts
         /\ d.does \in {"accrue", "credit", "claw back"} => d.com \in Commissions
         /\ d.does = "credit" => d = [does |-> "credit", com |-> d.com]
<1>1. CASE d = NoProcess
  BY <1>1 DEF NoProcess
<1>2. CASE d \in [does : {"bind"}, account : Accounts, to : Accounts]
  BY <1>2
<1>3. CASE d \in [does : {"accrue", "credit"}, com : Commissions]
  BY <1>3
<1>4. CASE d \in [does : {"claw back"}, com : Commissions, was : {"ACCRUED", "APPLIED"}]
  BY <1>4
<1>5. QED
  BY <1>1, <1>2, <1>3, <1>4 DEF Doings

LEMMA CommissionParts ==
  ASSUME NEW c \in Commissions
  PROVE  c[1] \in Accounts /\ c[2] \in Invoices /\ c = <<c[1], c[2]>> /\ PaidBy(c[2]) \in Accounts
BY PayersAssumption DEF Commissions

LEMMA CommissionInvInit == CommissionInit => CommissionInv
<1> SUFFICES ASSUME CommissionInit PROVE CommissionInv
  OBVIOUS
<1>1. CommissionTypeOK
  BY DEF CommissionInit, CommissionTypeOK, Doings, NoProcess
<1>2. BoundInv
  BY DEF CommissionInit, BoundInv, NoProcess
<1>3. \A p \in Processes, c \in Commissions : ~WillCredit(p, c)
  BY DEF CommissionInit, WillCredit, NoProcess
<1>4. \A c \in Commissions : balance[c].credits = 0
  BY DEF CommissionInit
<1>5. UnappliedInv /\ CreditedOnce
  BY <1>3, <1>4 DEF UnappliedInv, CreditedOnce
<1>6. QED
  BY <1>1, <1>2, <1>5 DEF CommissionInv

-----------------------------------------------------------------------------
(* The types *)

LEMMA CommissionTypeStep == CommissionTypeOK /\ [CommissionNext]_commissionVars => CommissionTypeOK'
<1> SUFFICES ASSUME CommissionTypeOK, [CommissionNext]_commissionVars PROVE CommissionTypeOK'
  OBVIOUS
<1> USE DEF CommissionTypeOK
<1>1. ASSUME NEW p \in Processes, NEW a \in Accounts, NEW r \in Accounts, ChecksReferrer(p, a, r)
      PROVE  CommissionTypeOK'
  <2>1. [does |-> "bind", account |-> a, to |-> r] \in Doings
    BY DEF Doings
  <2>2. QED
    BY <1>1, <2>1 DEF ChecksReferrer, Will
<1>2. ASSUME NEW p \in Processes, NEW i \in Invoices, IsPaid(p, i)
      PROVE  CommissionTypeOK'
  <2>1. referrer[PaidBy(i)] \in Accounts
    BY <1>2, PayersAssumption DEF IsPaid
  <2>2. [does |-> "accrue", com |-> <<referrer[PaidBy(i)], i>>] \in Doings
    BY <2>1 DEF Doings, Commissions
  <2>3. QED
    BY <1>2, <2>2 DEF IsPaid, Will
<1>3. ASSUME NEW p \in Processes, NEW c \in Commissions, Applies(p, c)
      PROVE  CommissionTypeOK'
  <2>1. [does |-> "credit", com |-> c] \in Doings
    BY DEF Doings
  <2>2. QED
    BY <1>3, <2>1 DEF Applies, Will
<1>4. ASSUME NEW p \in Processes, NEW c \in Commissions, IsRefunded(p, c)
      PROVE  CommissionTypeOK'
  <2>1. [does |-> "claw back", com |-> c, was |-> ledger[c]] \in Doings
    BY <1>4 DEF Doings, IsRefunded
  <2>2. QED
    BY <1>4, <2>1 DEF IsRefunded, Will
<1>5. NoProcess \in Doings
  BY DEF Doings
<1>6. ASSUME NEW p \in Processes, Binds(p)
      PROVE  CommissionTypeOK'
  <2>1. process[p].account \in Accounts /\ process[p].to \in Accounts
    BY <1>6, DoingFields DEF Binds, Does
  <2>2. QED
    BY <1>5, <1>6, <2>1 DEF Binds, Does, Bound
<1>7. ASSUME NEW p \in Processes, Accrues(p)
      PROVE  CommissionTypeOK'
  BY <1>5, <1>7 DEF Accrues, Does, Accrued
<1>8. \A b \in [credits : Nat, debits : Nat] : /\ [b EXCEPT !.credits = b.credits + 1] \in [credits : Nat, debits : Nat]
                                              /\ [b EXCEPT !.debits = b.debits + 1] \in [credits : Nat, debits : Nat]
  OBVIOUS
<1>9. ASSUME NEW p \in Processes, Credits(p)
      PROVE  CommissionTypeOK'
  <2>1. process[p].com \in Commissions
    BY <1>9, DoingFields DEF Credits, Does
  <2>2. balance' \in [Commissions -> [credits : Nat, debits : Nat]]
    BY <1>8, <1>9, <2>1 DEF Credits
  <2>3. QED
    BY <1>5, <1>9, <2>2 DEF Credits, Does
<1>10. ASSUME NEW p \in Processes, ClawsBack(p)
       PROVE  CommissionTypeOK'
  <2>1. process[p].com \in Commissions
    BY <1>10, DoingFields DEF ClawsBack, Does
  <2>2. balance' \in [Commissions -> [credits : Nat, debits : Nat]]
    BY <1>8, <1>10, <2>1 DEF ClawsBack
  <2>3. QED
    BY <1>5, <1>10, <2>1, <2>2 DEF ClawsBack, Does
<1>11. ASSUME NEW p \in Processes, LoseProcess(p)
       PROVE  CommissionTypeOK'
  BY <1>5, <1>11 DEF LoseProcess
<1>12. CASE UNCHANGED commissionVars
  BY <1>12 DEF commissionVars
<1>13. QED
  BY <1>1, <1>2, <1>3, <1>4, <1>6, <1>7, <1>9, <1>10, <1>11, <1>12 DEF CommissionNext

-----------------------------------------------------------------------------
(* One referrer for each invoice *)

LEMMA BoundStep == CommissionTypeOK /\ BoundInv /\ [CommissionNext]_commissionVars => BoundInv'
<1> SUFFICES ASSUME CommissionTypeOK, BoundInv, [CommissionNext]_commissionVars PROVE BoundInv'
  OBVIOUS
<1> USE DEF CommissionTypeOK
<1> DEFINE Earned(c) == referrer[PaidBy(c[2])] = c[1]
           Stands == \A c \in Commissions : Earned(c) => Earned(c)'
           Concerns(p) == process[p].does \in {"accrue", "claw back"}
(* It is enough that bindings stand and that what newly accrues is to whom the payer is bound. *)
<1>1. ASSUME Stands, \A c \in Commissions : ledger'[c] # "none" => ledger[c] # "none" \/ Earned(c),
             \A p \in Processes : Concerns(p)' => process'[p] = process[p] \/ (process'[p].com \in Commissions /\ Earned(process'[p].com))
      PROVE  BoundInv'
  <2>1. \A c \in Commissions : ledger'[c] # "none" => Earned(c)'
    BY <1>1 DEF BoundInv
  <2>2. ASSUME NEW p \in Processes, Concerns(p)'
        PROVE  Earned(process[p].com)'
    <3>1. CASE process'[p] = process[p]
      <4>1. process[p].com \in Commissions
        BY <2>2, <3>1, DoingFields
      <4>2. QED
        BY <1>1, <2>2, <3>1, <4>1 DEF BoundInv
    <3>2. QED
      BY <1>1, <2>2, <3>1
  <2>3. QED
    BY <2>1, <2>2 DEF BoundInv
<1>2. referrer' = referrer => Stands
  OBVIOUS
<1>3. ASSUME NEW p \in Processes, process' = [process EXCEPT ![p] = NoProcess]
      PROVE  \A q \in Processes : Concerns(q)' => process'[q] = process[q]
  BY <1>3 DEF NoProcess
<1>4. ASSUME NEW p \in Processes, NEW d \in Doings, Will(p, d), d.does \notin {"accrue", "claw back"}
      PROVE  \A q \in Processes : Concerns(q)' => process'[q] = process[q]
  BY <1>4 DEF Will
<1>5. ASSUME NEW p \in Processes, NEW a \in Accounts, NEW r \in Accounts, ChecksReferrer(p, a, r)
      PROVE  BoundInv'
  <2>1. [does |-> "bind", account |-> a, to |-> r] \in Doings
    BY DEF Doings
  <2>2. QED
    BY <1>1, <1>2, <1>4, <1>5, <2>1 DEF ChecksReferrer
<1>6. ASSUME NEW p \in Processes, NEW i \in Invoices, IsPaid(p, i)
      PROVE  BoundInv'
  <2>1. referrer[PaidBy(i)] \in Accounts
    BY <1>6, PayersAssumption DEF IsPaid
  <2>2. <<referrer[PaidBy(i)], i>> \in Commissions /\ Earned(<<referrer[PaidBy(i)], i>>)
    BY <2>1 DEF Commissions
  <2>3. \A q \in Processes : process'[q] = process[q] \/ process'[q].com = <<referrer[PaidBy(i)], i>>
    BY <1>6 DEF IsPaid, Will
  <2>4. QED
    BY <1>1, <1>2, <1>6, <2>2, <2>3 DEF IsPaid
<1>7. ASSUME NEW p \in Processes, NEW c \in Commissions, Applies(p, c)
      PROVE  BoundInv'
  <2>1. [does |-> "credit", com |-> c] \in Doings
    BY DEF Doings
  <2>2. \A e \in Commissions : ledger'[e] # "none" => ledger[e] # "none"
    BY <1>7 DEF Applies
  <2>3. QED
    BY <1>1, <1>2, <1>4, <1>7, <2>1, <2>2 DEF Applies
<1>8. ASSUME NEW p \in Processes, NEW c \in Commissions, IsRefunded(p, c)
      PROVE  BoundInv'
  <2>1. [does |-> "claw back", com |-> c, was |-> ledger[c]] \in Doings
    BY <1>8 DEF Doings, IsRefunded
  <2>2. Earned(c)
    BY <1>8 DEF IsRefunded, BoundInv
  <2>3. \A q \in Processes : process'[q] = process[q] \/ process'[q].com = c
    BY <1>8 DEF IsRefunded, Will
  <2>4. QED
    BY <1>1, <1>2, <1>8, <2>2, <2>3 DEF IsRefunded
<1>9. ASSUME NEW p \in Processes, Binds(p)
      PROVE  BoundInv'
  <2>1. ASSUME NEW a \in Accounts, referrer[a] \in Accounts PROVE referrer'[a] = referrer[a]
    BY <1>9, <2>1, PayersAssumption DEF Binds, Bound
  <2>2. Stands
    BY <2>1, CommissionParts
  <2>3. QED
    BY <1>1, <1>3, <1>9, <2>2 DEF Binds, Does
<1>10. ASSUME NEW p \in Processes, Accrues(p)
       PROVE  BoundInv'
  <2>1. process[p].com \in Commissions /\ Earned(process[p].com)
    BY <1>10, DoingFields DEF Accrues, Does, BoundInv
  <2>2. \A c \in Commissions : ledger'[c] # "none" => ledger[c] # "none" \/ Earned(c)
    BY <1>10, <2>1 DEF Accrues, Accrued
  <2>3. QED
    BY <1>1, <1>2, <1>3, <1>10, <2>2 DEF Accrues, Does
<1>11. ASSUME NEW p \in Processes, Credits(p)
       PROVE  BoundInv'
  BY <1>1, <1>2, <1>3, <1>11 DEF Credits, Does
<1>12. ASSUME NEW p \in Processes, ClawsBack(p)
       PROVE  BoundInv'
  <2>1. process[p].com \in Commissions /\ Earned(process[p].com)
    BY <1>12, DoingFields DEF ClawsBack, Does, BoundInv
  <2>2. \A c \in Commissions : ledger'[c] # "none" => ledger[c] # "none" \/ Earned(c)
    BY <1>12, <2>1 DEF ClawsBack
  <2>3. QED
    BY <1>1, <1>2, <1>3, <1>12, <2>2 DEF ClawsBack, Does
<1>13. ASSUME NEW p \in Processes, LoseProcess(p)
       PROVE  BoundInv'
  BY <1>1, <1>2, <1>3, <1>13 DEF LoseProcess
<1>14. CASE UNCHANGED commissionVars
  BY <1>14 DEF commissionVars, BoundInv
<1>15. QED
  BY <1>5, <1>6, <1>7, <1>8, <1>9, <1>10, <1>11, <1>12, <1>13, <1>14 DEF CommissionNext

-----------------------------------------------------------------------------
(* One credit for each commission *)

LEMMA CreditStep ==
  CommissionTypeOK /\ UnappliedInv /\ CreditedOnce /\ [CommissionNext]_commissionVars => UnappliedInv' /\ CreditedOnce'
<1> SUFFICES ASSUME CommissionTypeOK, UnappliedInv, CreditedOnce, [CommissionNext]_commissionVars
             PROVE  UnappliedInv' /\ CreditedOnce'
  OBVIOUS
<1> USE DEF CommissionTypeOK
(* It is enough that nothing new is about to be credited, and that nothing goes back to being unapplied. *)
<1>1. ASSUME \A p \in Processes, c \in Commissions : WillCredit(p, c)' => WillCredit(p, c),
             \A c \in Commissions : balance'[c].credits = balance[c].credits,
             \A c \in Commissions : ledger'[c] \in {"none", "ACCRUED"} => ledger[c] \in {"none", "ACCRUED"}
      PROVE  UnappliedInv' /\ CreditedOnce'
  BY <1>1 DEF UnappliedInv, CreditedOnce
<1>2. ASSUME NEW p \in Processes, NEW d, \A c : d # [does |-> "credit", com |-> c], process' = [process EXCEPT ![p] = d]
      PROVE  \A q \in Processes, c \in Commissions : WillCredit(q, c)' => q # p /\ WillCredit(q, c)
  BY <1>2 DEF WillCredit
<1>3. ASSUME NEW p \in Processes, process' = [process EXCEPT ![p] = NoProcess]
      PROVE  \A q \in Processes, c \in Commissions : WillCredit(q, c)' => q # p /\ WillCredit(q, c)
  <2>1. \A c : NoProcess # [does |-> "credit", com |-> c]
    BY DEF NoProcess
  <2>2. QED
    BY <1>2, <1>3, <2>1
<1>4. ASSUME NEW p \in Processes, NEW a \in Accounts, NEW r \in Accounts, ChecksReferrer(p, a, r)
      PROVE  UnappliedInv' /\ CreditedOnce'
  BY <1>1, <1>2, <1>4 DEF ChecksReferrer, Will
<1>5. ASSUME NEW p \in Processes, NEW i \in Invoices, IsPaid(p, i)
      PROVE  UnappliedInv' /\ CreditedOnce'
  BY <1>1, <1>2, <1>5 DEF IsPaid, Will
<1>6. ASSUME NEW p \in Processes, NEW c \in Commissions, IsRefunded(p, c)
      PROVE  UnappliedInv' /\ CreditedOnce'
  BY <1>1, <1>2, <1>6 DEF IsRefunded, Will
<1>7. ASSUME NEW p \in Processes, NEW c \in Commissions, Applies(p, c)
      PROVE  UnappliedInv' /\ CreditedOnce'
  <2>1. balance[c].credits = 0 /\ \A q \in Processes : ~WillCredit(q, c)
    BY <1>7 DEF Applies, UnappliedInv
  <2>2. \A q \in Processes, e \in Commissions : WillCredit(q, e)' => WillCredit(q, e) \/ (q = p /\ e = c)
    BY <1>7 DEF Applies, Will, WillCredit
  <2>3. balance' = balance
    BY <1>7 DEF Applies
  <2>4. \A e \in Commissions : ledger'[e] \in {"none", "ACCRUED"} => e # c /\ ledger[e] \in {"none", "ACCRUED"}
    BY <1>7 DEF Applies
  <2>5. QED
    BY <2>1, <2>2, <2>3, <2>4 DEF UnappliedInv, CreditedOnce
<1>8. ASSUME NEW p \in Processes, Binds(p)
      PROVE  UnappliedInv' /\ CreditedOnce'
  BY <1>1, <1>3, <1>8 DEF Binds, Does
<1>9. ASSUME NEW p \in Processes, Accrues(p)
      PROVE  UnappliedInv' /\ CreditedOnce'
  <2>1. process[p].com \in Commissions
    BY <1>9, DoingFields DEF Accrues, Does
  <2>2. QED
    BY <1>1, <1>3, <1>9, <2>1 DEF Accrues, Does, Accrued
<1>10. ASSUME NEW p \in Processes, Credits(p)
       PROVE  UnappliedInv' /\ CreditedOnce'
  <2>0. PICK c \in Commissions : c = process[p].com
    BY <1>10, DoingFields DEF Credits, Does
  <2>1. WillCredit(p, c)
    BY <2>0, <1>10, DoingFields DEF Credits, Does, WillCredit
  <2>2. balance[c].credits = 0 /\ ledger[c] \notin {"none", "ACCRUED"}
    BY <2>1 DEF CreditedOnce, UnappliedInv
  <2>3. balance'[c].credits = 1 /\ \A e \in Commissions : e # c => balance'[e].credits = balance[e].credits
    BY <1>10, <2>0, <2>2 DEF Credits
  <2>4. \A q \in Processes, e \in Commissions : WillCredit(q, e)' => q # p /\ WillCredit(q, e)
    BY <1>3, <1>10 DEF Credits, Does
  <2>5. \A q \in Processes : ~WillCredit(q, c)'
    BY <2>1, <2>4 DEF CreditedOnce
  <2>6. ledger' = ledger
    BY <1>10 DEF Credits
  <2>7. QED
    BY <2>2, <2>3, <2>4, <2>5, <2>6 DEF UnappliedInv, CreditedOnce
<1>11. ASSUME NEW p \in Processes, ClawsBack(p)
       PROVE  UnappliedInv' /\ CreditedOnce'
  <2>1. process[p].com \in Commissions
    BY <1>11, DoingFields DEF ClawsBack, Does
  <2>2. \A e \in Commissions : balance'[e].credits = balance[e].credits
    BY <1>11, <2>1 DEF ClawsBack
  <2>3. QED
    BY <1>1, <1>3, <1>11, <2>1, <2>2 DEF ClawsBack, Does
<1>12. ASSUME NEW p \in Processes, LoseProcess(p)
       PROVE  UnappliedInv' /\ CreditedOnce'
  BY <1>1, <1>3, <1>12 DEF LoseProcess
<1>13. CASE UNCHANGED commissionVars
  BY <1>13 DEF commissionVars, UnappliedInv, CreditedOnce, WillCredit
<1>14. QED
  BY <1>4, <1>5, <1>6, <1>7, <1>8, <1>9, <1>10, <1>11, <1>12, <1>13 DEF CommissionNext

-----------------------------------------------------------------------------
(* The theorems *)

THEOREM CommissionInvariance == CommissionSpec => []CommissionInv
<1>1. CommissionInv /\ [CommissionNext]_commissionVars => CommissionInv'
  BY CommissionTypeStep, BoundStep, CreditStep DEF CommissionInv
<1>2. QED
  BY CommissionInvInit, <1>1, PTL DEF CommissionSpec

(* Commissions, bindings and requests are of accounts and invoices that exist. *)
THEOREM CommissionTypeCorrect == CommissionSpec => []CommissionTypeOK
<1>1. CommissionInv => CommissionTypeOK
  BY DEF CommissionInv
<1>2. QED
  BY CommissionInvariance, <1>1, PTL

(* However often a payment is told and whoever else claims the payer in between, one referrer earns on an
   invoice (setReferrer, accrueCommission). *)
THEOREM OneReferrer == CommissionSpec => []OneReferrerPaid
<1>1. CommissionInv => OneReferrerPaid
  <2> SUFFICES ASSUME CommissionInv, NEW i \in Invoices, NEW a \in Accounts, NEW b \in Accounts,
                      ledger[<<a, i>>] # "none", ledger[<<b, i>>] # "none"
               PROVE  a = b
    BY DEF OneReferrerPaid
  <2>1. <<a, i>> \in Commissions /\ <<b, i>> \in Commissions
    BY DEF Commissions
  <2>2. referrer[PaidBy(i)] = a /\ referrer[PaidBy(i)] = b
    BY <2>1 DEF CommissionInv, BoundInv
  <2>3. QED
    BY <2>2
<1>2. QED
  BY CommissionInvariance, <1>1, PTL

(* No number of overlapping or repeated runs credits a commission twice (applyPayableCommissions). *)
THEOREM CreditedOnceAlways == CommissionSpec => []CreditedOnce
<1>1. CommissionInv => CreditedOnce
  BY DEF CommissionInv
<1>2. QED
  BY CommissionInvariance, <1>1, PTL

-----------------------------------------------------------------------------
(* The composition *)

(* A step of one part is a step of that part, and leaves the others alone. *)
LEMMA PartsStep ==
  [MCNext]_<<part, sendVars, mailVars, commissionVars>> =>
    [SendNext]_sendVars /\ [MailNext]_mailVars /\ [CommissionNext]_commissionVars
<1> SUFFICES ASSUME [MCNext]_<<part, sendVars, mailVars, commissionVars>>
             PROVE  [SendNext]_sendVars /\ [MailNext]_mailVars /\ [CommissionNext]_commissionVars
  OBVIOUS
<1>1. CASE SendNext /\ UNCHANGED <<mailVars, commissionVars>>
  BY <1>1
<1>2. CASE MailNext /\ UNCHANGED <<sendVars, commissionVars>>
  BY <1>2
<1>3. CASE CommissionNext /\ UNCHANGED <<sendVars, mailVars>>
  BY <1>3
<1>4. CASE UNCHANGED <<part, sendVars, mailVars, commissionVars>>
  BY <1>4
<1>5. QED
  BY <1>1, <1>2, <1>3, <1>4 DEF MCNext

(* The parts share no state and none waits for another: each keeps its own specification, and with it all that is
   proved of it, beside the others (the cron routes of the sends and of the mail, the sign-up of referred accounts). *)
THEOREM PartsCompose == MCSpec => SendSpec /\ MailSpec /\ CommissionSpec
<1>1. MCInit => SendInit /\ MailInit /\ CommissionInit
  BY DEF MCInit
<1>2. QED
  BY <1>1, PartsStep, PTL DEF MCSpec, SendSpec, MailSpec, CommissionSpec

(* The rows and sweeps, the mail and its handlers, the ledger and the balances have their types, whatever runs beside
   them. *)
THEOREM AroundTypeCorrect == MCSpec => []AroundTypeOK
<1>1. SendTypeOK /\ MailTypeOK /\ CommissionTypeOK => AroundTypeOK
  BY DEF AroundTypeOK
<1>2. QED
  BY <1>1, PartsCompose, SendTypeCorrect, MailTypeCorrect, CommissionTypeCorrect, PTL
=============================================================================

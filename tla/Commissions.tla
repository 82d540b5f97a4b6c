----------------------------- MODULE Commissions -----------------------------
(***************************************************************************)
(* Referral commissions (lib/server/referrals.ts, driven by the billing     *)
(* webhook): who referred whom is bound once, a paid invoice accrues a      *)
(* commission, due commissions are applied as credit, and a refunded        *)
(* invoice's commission is clawed back.                                     *)
(*                                                                          *)
(* The payment service tells of a payment at least once, and of the same    *)
(* payment by two events; its events are processed at the same time and in  *)
(* any order, and lost with their server.  Each statement is a step: what   *)
(* was read by one may be out of date for the next.                         *)
(***************************************************************************)
EXTENDS Integers, FiniteSets

CONSTANTS
  Accounts,    \* billing accounts
  Invoices,
  PaidBy(_),   \* the account an invoice was sent to
  NoAccount,
  Processes    \* the requests that may run at once

ASSUME PayersAssumption == NoAccount \notin Accounts /\ \A i \in Invoices : PaidBy(i) \in Accounts

VARIABLES
  referrer,  \* per account: the account that referred it
  ledger,    \* per referrer and invoice: the status of the commission
  balance,   \* per referrer and invoice: how often it was credited, and debited again
  process    \* per request: what it is about to do

commissionVars == <<referrer, ledger, balance, process>>

-----------------------------------------------------------------------------
Commissions == Accounts \X Invoices

NoProcess == [does |-> "nothing"]
Doings ==
  {NoProcess} \cup [does : {"bind"}, account : Accounts, to : Accounts]
              \cup [does : {"accrue", "credit"}, com : Commissions]
              \cup [does : {"claw back"}, com : Commissions, was : {"ACCRUED", "APPLIED"}]

CommissionTypeOK ==
  /\ referrer \in [Accounts -> Accounts \cup {NoAccount}]
  /\ ledger \in [Commissions -> {"none", "ACCRUED", "APPLIED", "CLAWED_BACK"}]
  /\ balance \in [Commissions -> [credits : Nat, debits : Nat]]
  /\ process \in [Processes -> Doings]

CommissionInit ==
  /\ referrer = [a \in Accounts |-> NoAccount]
  /\ ledger = [c \in Commissions |-> "none"]
  /\ balance = [c \in Commissions |-> [credits |-> 0, debits |-> 0]]
  /\ process = [p \in Processes |-> NoProcess]

Free(p) == process[p] = NoProcess
Will(p, d) == Free(p) /\ process' = [process EXCEPT ![p] = d]
Does(p, what) == process[p].does = what /\ process' = [process EXCEPT ![p] = NoProcess]

Above[n \in Nat, a \in Accounts] ==
  IF n = 0 \/ referrer[a] = NoAccount THEN {} ELSE {referrer[a]} \cup Above[n - 1, referrer[a]]
Ancestors(a) == Above[Cardinality(Accounts), a]

-----------------------------------------------------------------------------
(* setReferrer: the checks, and then the edge, which the first to insert it keeps. *)

ChecksReferrer(p, a, r) ==
  /\ a # r /\ referrer[a] = NoAccount /\ a \notin Ancestors(r)
  /\ Will(p, [does |-> "bind", account |-> a, to |-> r])
  /\ UNCHANGED <<referrer, ledger, balance>>

(* Mutant: the later binding replaces the earlier. *)
Rebound(a, r) == [referrer EXCEPT ![a] = r]

Bound(a, r) == [referrer EXCEPT ![a] = IF @ = NoAccount THEN r ELSE @]

Binds(p) ==
  /\ Does(p, "bind")
  /\ referrer' = Bound(process[p].account, process[p].to)
  /\ UNCHANGED <<ledger, balance>>

(* accrueCommission: invoice.paid or invoice.payment_succeeded; who referred the payer is read first. *)

IsPaid(p, i) ==
  /\ referrer[PaidBy(i)] # NoAccount
  /\ Will(p, [does |-> "accrue", com |-> <<referrer[PaidBy(i)], i>>])
  /\ UNCHANGED <<referrer, ledger, balance>>

(* Mutant: an invoice that was paid before accrues again. *)
AccruedAgain(c) == [ledger EXCEPT ![c] = "ACCRUED"]

Accrued(c) == [ledger EXCEPT ![c] = IF @ = "none" THEN "ACCRUED" ELSE @]

Accrues(p) ==
  /\ Does(p, "accrue")
  /\ ledger' = Accrued(process[p].com)
  /\ UNCHANGED <<referrer, balance>>

(* applyPayableCommissions: a due commission is claimed by its status, and credited afterwards. *)

Applies(p, c) ==
  /\ ledger[c] = "ACCRUED"
  /\ ledger' = [ledger EXCEPT ![c] = "APPLIED"]
  /\ Will(p, [does |-> "credit", com |-> c])
  /\ UNCHANGED <<referrer, balance>>

Credits(p) ==
  /\ Does(p, "credit")
  /\ balance' = [balance EXCEPT ![process[p].com].credits = @ + 1]
  /\ UNCHANGED <<referrer, ledger>>

(* clawbackByInvoice: the status is read, and decides whether the referrer is debited. *)

IsRefunded(p, c) ==
  /\ ledger[c] \in {"ACCRUED", "APPLIED"}
  /\ Will(p, [does |-> "claw back", com |-> c, was |-> ledger[c]])
  /\ UNCHANGED <<referrer, ledger, balance>>

ClawsBack(p) ==
  /\ Does(p, "claw back")
  /\ ledger' = [ledger EXCEPT ![process[p].com] = "CLAWED_BACK"]
  /\ balance' = [balance EXCEPT ![process[p].com].debits = IF process[p].was = "APPLIED" THEN @ + 1 ELSE @]
  /\ UNCHANGED referrer

LoseProcess(p) == ~Free(p) /\ process' = [process EXCEPT ![p] = NoProcess] /\ UNCHANGED <<referrer, ledger, balance>>

CommissionNext ==
  \E p \in Processes :
    \/ \E a, r \in Accounts : ChecksReferrer(p, a, r)
    \/ \E i \in Invoices : IsPaid(p, i)
    \/ \E c \in Commissions : Applies(p, c) \/ IsRefunded(p, c)
    \/ Binds(p) \/ Accrues(p) \/ Credits(p) \/ ClawsBack(p) \/ LoseProcess(p)

CommissionSpec == CommissionInit /\ [][CommissionNext]_commissionVars

-----------------------------------------------------------------------------
(* "Concurrent/replayed runs never double-credit": a commission is credited once at most, counting the credit
   that a run has still to give, through repeated events, overlapping runs and refunds (accrueCommission,
   applyPayableCommissions). *)
WillCredit(p, c) == process[p] = [does |-> "credit", com |-> c]
CreditedOnce ==
  \A c \in Commissions :
    /\ balance[c].credits <= 1
    /\ \A p \in Processes : WillCredit(p, c) => balance[c].credits = 0
    /\ \A p, q \in Processes : WillCredit(p, c) /\ WillCredit(q, c) => p = q

(* An invoice earns a commission for one referrer only, though the payment is told twice and others claim to
   have referred the payer in between (setReferrer, accrueCommission). *)
OneReferrerPaid ==
  \A i \in Invoices : \A a, b \in Accounts : ledger[<<a, i>>] # "none" /\ ledger[<<b, i>>] # "none" => a = b
=============================================================================

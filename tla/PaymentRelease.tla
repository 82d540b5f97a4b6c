--------------------------- MODULE PaymentRelease ---------------------------
(***************************************************************************)
(* What payment verification promises (docs/conveyance-engine.md, addendum  *)
(* 2), without decisions, documents or funds: money for completion goes     *)
(* only to details a person verified, completion only while those details  *)
(* are still the trusted ones, and trust once withdrawn never comes back to *)
(* the same record.                                                         *)
(***************************************************************************)
EXTENDS Naturals

CONSTANTS Payees, CompletionPayee, RecordIds

NoRecord == 0  \* records are numbered from 1

VARIABLES
  trusted,     \* the record a payment to the payee may use, or NoRecord
  everTrusted, \* the records ever verified
  authorised,  \* the record the completion money was authorised to, or NoRecord
  completed

vars == <<trusted, everTrusted, authorised, completed>>

Init ==
  /\ trusted = [p \in Payees |-> NoRecord]
  /\ everTrusted = {}
  /\ authorised = NoRecord
  /\ completed = FALSE

(* New details were announced: nothing is payable to the payee until some are verified. *)
Withdraw(p) ==
  /\ trusted' = [trusted EXCEPT ![p] = NoRecord]
  /\ UNCHANGED <<everTrusted, authorised, completed>>

(* A record is trusted once, and only when none is. *)
Trust(p, k) ==
  /\ trusted[p] = NoRecord
  /\ k \notin everTrusted \cup {NoRecord}
  /\ trusted' = [trusted EXCEPT ![p] = k]
  /\ everTrusted' = everTrusted \cup {k}
  /\ UNCHANGED <<authorised, completed>>

Authorise ==
  /\ authorised = NoRecord
  /\ trusted[CompletionPayee] # NoRecord
  /\ authorised' = trusted[CompletionPayee]
  /\ UNCHANGED <<trusted, everTrusted, completed>>

Complete ==
  /\ ~completed
  /\ authorised # NoRecord
  /\ trusted[CompletionPayee] = authorised
  /\ completed' = TRUE
  /\ UNCHANGED <<trusted, everTrusted, authorised>>

Next ==
  \/ \E p \in Payees : Withdraw(p) \/ \E k \in RecordIds : Trust(p, k)
  \/ Authorise
  \/ Complete

Spec == Init /\ [][Next]_vars
=============================================================================

------------------------------- MODULE MCFiles -------------------------------
(* What leads a file to exchange and completion, in two parts that share no state, each run for itself: the
   documents of one purchase that requires a search, with or without a lender; and a sale and a purchase
   that are linked. *)
EXTENDS DocumentReview, LinkedMatters, TLC

CONSTANTS con29, e1, title, mortgage, purchase, sale, d1, d2

VARIABLE part

MCInit ==
  /\ part \in {"documents", "linked"} /\ Init /\ LinkInit
  /\ m.required = Searches /\ (part = "linked" => m.lender)

(* A bound: without a lender one decision is open at a time.  What two do to each other is seen with a lender. *)
Bounded == m'.lender \/ Cardinality(decisions') <= 1

MCNext ==
  /\ UNCHANGED part
  /\ \/ part = "documents" /\ Next /\ Bounded /\ UNCHANGED linkVars
     \/ part = "linked" /\ LinkNext /\ UNCHANGED vars

MCSpec == MCInit /\ [][MCNext]_<<part, vars, linkVars>>

MCDateSymmetry == Permutations(Dates)

(* The variables of both parts have their types, and no file's automatic rules have anything left to do. *)
FilesTypeOK == TypeOK /\ LinkTypeOK
=============================================================================

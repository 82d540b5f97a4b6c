----------------------------- MODULE FilesProofs -----------------------------
(***************************************************************************)
(* The documents of a purchase and the linked matters, side by side: each   *)
(* keeps its own specification, for any documents, files, dates and bounds. *)
(***************************************************************************)
EXTENDS MCFiles, DocumentReviewProofs, LinkedMattersProofs

(* A step of one part is a step of that part, and leaves the other alone. *)
LEMMA PartsStep == [MCNext]_<<part, vars, linkVars>> => [Next]_vars /\ [LinkNext]_linkVars
<1> SUFFICES ASSUME [MCNext]_<<part, vars, linkVars>> PROVE [Next]_vars /\ [LinkNext]_linkVars
  OBVIOUS
<1>1. CASE Next /\ UNCHANGED linkVars
  BY <1>1
<1>2. CASE LinkNext /\ UNCHANGED vars
  BY <1>2
<1>3. CASE UNCHANGED <<part, vars, linkVars>>
  BY <1>3
<1>4. QED
  BY <1>1, <1>2, <1>3 DEF MCNext

(* The two parts share no state: what is proved of either holds beside the other. *)
THEOREM PartsCompose == MCSpec => Spec /\ LinkSpec
<1>1. MCInit => Init /\ LinkInit
  BY DEF MCInit
<1>2. QED
  BY <1>1, PartsStep, PTL DEF MCSpec, Spec, LinkSpec

(* The matter, the decisions, the files and the requests on them have their types, and no file's automatic rules
   (automatic, after every command) have anything left to do, whichever part moves. *)
THEOREM FilesTypeCorrect == MCSpec => []FilesTypeOK
<1>1. TypeOK /\ LinkTypeOK => FilesTypeOK
  BY DEF FilesTypeOK
<1>2. QED
  BY <1>1, PartsCompose, TypeCorrect, LinkTypeCorrect, PTL
=============================================================================

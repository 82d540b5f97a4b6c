-------------------------- MODULE MCDocumentReview --------------------------
(* A purchase with a lender and one search, for TLC. *)
EXTENDS DocumentReview

CONSTANTS con29, e1, title, mortgage

=============================================================================

--------------------------- MODULE MCMatterLog ---------------------------
(* Two instances, one of which serves two requests at once, and two steps that can be done by hand. *)
EXTENDS MatterLog, TLC

CONSTANTS i1, i2, r1, r2, r3, title, search

MCInstances == {i1, i2}
MCRequests == {r1, r2, r3}
MCInstOf == (r1 :> i1) @@ (r2 :> i1) @@ (r3 :> i2)
MCSteps == {title, search}
MCSymmetry == Permutations({r1, r2}) \cup Permutations(MCSteps)
===========================================================================

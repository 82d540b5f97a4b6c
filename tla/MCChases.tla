------------------------------ MODULE MCChases ------------------------------
(* The contract pack, chased by jobs that overlap; and the pack and two enquiries, which go in one letter. *)
EXTENDS Chases, TLC

CONSTANTS pack, e1, e2, j1, j2

MCPack == {pack}
MCNone == {}
MCWaits == {pack, e1, e2}
MCEnquiries == {e1, e2}
MCTwoJobs == {j1, j2}
MCOneJob == {j1}
MCSymmetry == Permutations(MCEnquiries)
=============================================================================

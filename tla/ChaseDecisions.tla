--------------------------- MODULE ChaseDecisions ---------------------------
(***************************************************************************)
(* What people are promised about the chases that are put to them           *)
(* (docs/conveyance-engine.md, trust levels), without the timer, jobs,      *)
(* locks or crashes: one chase at a time for what is outstanding, no letter *)
(* but by a decision, each decision good for one letter, and a chase that   *)
(* was turned down or failed counts as sent only when a letter went.        *)
(***************************************************************************)
EXTENDS Naturals, Sequences

CONSTANT Keys

VARIABLES
  outstanding, \* the keys of what is still waited for
  chases       \* in order; owed: the letters decided on that have not gone

vars == <<outstanding, chases>>

Init == outstanding = {} /\ chases = <<>>

Sets(k, c) == chases' = [chases EXCEPT ![k] = c] /\ UNCHANGED outstanding

(* What is outstanding changes: the chases for what no longer is are withdrawn. *)
Turn(now) ==
  /\ outstanding' = now
  /\ chases' = [k \in DOMAIN chases |->
                  IF chases[k].status = "pending" /\ chases[k].key \notin now
                  THEN [chases[k] EXCEPT !.status = "stopped"] ELSE chases[k]]

Put(key) ==
  /\ \A k \in DOMAIN chases : ~(chases[k].key = key /\ chases[k].status = "pending")
  /\ chases' = Append(chases, [key |-> key, status |-> IF key \in outstanding THEN "pending" ELSE "stopped",
                               owed |-> 0, letters |-> 0])
  /\ UNCHANGED outstanding

Agree(k) == chases[k].status = "pending" /\ Sets(k, [chases[k] EXCEPT !.status = "going", !.owed = @ + 1])
Refuse(k) == chases[k].status = "pending" /\ Sets(k, [chases[k] EXCEPT !.status = "stopped"])
Again(k) == chases[k].status = "stopped" /\ Sets(k, [chases[k] EXCEPT !.owed = @ + 1])

Letter(k) == chases[k].owed > 0 /\ Sets(k, [chases[k] EXCEPT !.owed = @ - 1, !.letters = @ + 1])
Waive(k) == chases[k].owed > 0 /\ Sets(k, [chases[k] EXCEPT !.owed = @ - 1])

(* It failed, and no decision about it is still to be carried out; or it went after all. *)
Failed(k) == chases[k].status = "going" /\ chases[k].owed = 0 /\ Sets(k, [chases[k] EXCEPT !.status = "stopped"])
Went(k) == chases[k].status = "stopped" /\ chases[k].letters > 0 /\ Sets(k, [chases[k] EXCEPT !.status = "going"])

Next ==
  \/ \E now \in SUBSET Keys : Turn(now)
  \/ \E key \in Keys : Put(key)
  \/ \E k \in DOMAIN chases :
       Agree(k) \/ Refuse(k) \/ Again(k) \/ Letter(k) \/ Waive(k) \/ Failed(k) \/ Went(k)

Spec == Init /\ [][Next]_vars
=============================================================================

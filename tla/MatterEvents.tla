---------------------------- MODULE MatterEvents ----------------------------
(***************************************************************************)
(* The events of one matter's log, the fold of projection.ts and the        *)
(* decision core, as far as the log's protocol tells them apart.            *)
(*                                                                          *)
(* A state is abstracted to the events whose effects it holds: a view       *)
(* [last, effects].  What the command did otherwise is not told apart: an   *)
(* event is a "fact", a completion by hand of a step, the undo of one, or   *)
(* the stage's advance, which the automatic rules append once every step    *)
(* of Steps is complete.                                                    *)
(***************************************************************************)
EXTENDS Integers, Sequences

CONSTANT Steps  \* the steps the stage needs, each of which may be done by hand

Views == [last : Nat, effects : SUBSET Nat]

-----------------------------------------------------------------------------
(* Events *)

Fact == [type |-> "fact"]
Done(s) == [type |-> "step_completed_manually", step |-> s]
Undone(s, k) == [type |-> "manual_step_undone", step |-> s, of |-> k]
Advanced == [type |-> "stage_advanced"]

Events == {Fact, Advanced} \cup [type : {"step_completed_manually"}, step : Steps]
            \cup [type : {"manual_step_undone"}, step : Steps, of : Nat]

IsUndo(e) == e.type = "manual_step_undone"
IsDone(e) == e.type = "step_completed_manually"

(* Of the first n events: those that have effects on the case, and those that one of the n undoes. *)
Effective(l, n) == {k \in 1..n : ~IsUndo(l[k])}
UndoneBy(l, n) == {k \in 1..n : \E j \in 1..n : IsUndo(l[j]) /\ l[j].of = k}

(* Mutant: the last event's index is taken for its seq. *)
ReplayLastIndex(l) == [last |-> Len(l) - 1, effects |-> Effective(l, Len(l)) \ UndoneBy(l, Len(l))]

(* project: the whole log, without the completions it undoes. *)
Replay(l) == [last |-> Len(l), effects |-> Effective(l, Len(l)) \ UndoneBy(l, Len(l))]

(* Mutant: the event after the one last seen is skipped (afterSeq read as inclusive of the next). *)
FoldSkipsOne(v, l) == [last |-> IF Len(l) > v.last THEN Len(l) ELSE v.last,
                       effects |-> v.effects \cup {k \in Effective(l, Len(l)) : k > v.last + 1}]

(* foldOnto: what a remembered state held, and the effects of every event after it. *)
Fold(v, l) == [last |-> IF Len(l) > v.last THEN Len(l) ELSE v.last,
               effects |-> v.effects \cup {k \in Effective(l, Len(l)) : k > v.last}]

(* A state drifts only by undone completions: it is at a point the log has reached, holds the effects of   *)
(* every event up to there that replaying it would apply, and of nothing that the log does not hold.        *)
Faithful(v, l) ==
  /\ v.last <= Len(l)
  /\ Effective(l, v.last) \ UndoneBy(l, v.last) \subseteq v.effects
  /\ v.effects \subseteq Effective(l, v.last)

-----------------------------------------------------------------------------
(* The decision core, as far as the log's protocol tells it apart *)

(* Mutant: the fold of an undo leaves the step's mark. *)
MarkKept(l, s) == {k \in 1..Len(l) : l[k] = Done(s) /\ \A j \in (k+1)..Len(l) : ~(IsDone(l[j]) /\ l[j].step = s)}

(* manualSteps[s]: the completions that are the last mark of their step. *)
Mark(l, s) ==
  {k \in 1..Len(l) : /\ l[k] = Done(s)
                     /\ \A j \in (k+1)..Len(l) : ~(IsDone(l[j]) /\ l[j].step = s) /\ ~(IsUndo(l[j]) /\ l[j].step = s)}

HasAdvanced(l, k) == \E j \in k..Len(l) : l[j] = Advanced

StepsDone(v, l) == {s \in Steps : \E k \in v.effects : k \in 1..Len(l) /\ l[k] = Done(s)}

(* The events a command may produce: none, a fact, a completion, or the undo of a *)
(* completion whose stage is still the case's.                                     *)
Commands(l) ==
  {<<>>, <<Fact>>} \cup {<<Done(s)>> : s \in Steps}
    \cup UNION {{<<Undone(s, k)>> : k \in {m \in Mark(l, s) : ~HasAdvanced(l, m)}} : s \in Steps}

(* Mutant: the stage advances again on every later command. *)
AutomaticAgain(v, l) == IF StepsDone(Fold(v, l), l) = Steps THEN <<Advanced>> ELSE <<>>

(* automatic: the stage advances, once, when every step counts as done after the command. *)
Automatic(v, l) == IF StepsDone(Fold(v, l), l) = Steps /\ ~HasAdvanced(l, 1) THEN <<Advanced>> ELSE <<>>

Decide(v, l, cmd) == cmd \o Automatic(v, l \o cmd)

(* The state after the append: folded forward, or rebuilt from the log when the batch undoes a completion. *)
AfterAppend(v, l, batch) ==
  IF \E k \in 1..Len(batch) : IsUndo(batch[k]) THEN Replay(l \o batch) ELSE Fold(v, l \o batch)
=============================================================================

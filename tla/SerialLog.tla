------------------------------ MODULE SerialLog ------------------------------
(***************************************************************************)
(* What the lock, the remembered states and the append of module MatterLog  *)
(* come to: a matter's commands are handled one at a time, each as if by    *)
(* one server, whole or not at all, and the read model goes with the log.   *)
(* A state it is handled on may still count completions that were undone.   *)
(***************************************************************************)
EXTENDS MatterEvents

VARIABLES log, model

(* The states at the end of the log that a server may have of it: without the completions it undoes, or some of them. *)
States(l) == {[last |-> Len(l), effects |-> Effective(l, Len(l)) \ u] : u \in SUBSET UndoneBy(l, Len(l))}

Init == log = <<>> /\ model = Replay(<<>>)

Handle(v, cmd) ==
  LET batch == Decide(v, log, cmd)
  IN log' = log \o batch /\ model' = AfterAppend(v, log, batch)

Next == \E v \in States(log), cmd \in Commands(log) : Handle(v, cmd)

Spec == Init /\ [][Next]_<<log, model>>
=============================================================================

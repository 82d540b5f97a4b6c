-------------------------- MODULE MatterLogProofs --------------------------
(***************************************************************************)
(* For any number of instances, requests and steps, and any bound on the    *)
(* log: the types, the faithfulness of every copy of a matter's state, what *)
(* undos and advances in the log mean, and that all instances together are  *)
(* one server that handles a command at a time (SerialLog).  None of these  *)
(* is inductive by itself: what a request is about to commit must be the    *)
(* answer to one command on a faithful state of the log as it is now        *)
(* (StagedInv), which needs that nobody else appends meanwhile (LockInv).   *)
(***************************************************************************)
EXTENDS MatterLog, TLAPS

(* The request with an open transaction is the one that holds the lock. *)
LockInv == \A r \in Requests : pc[r] = "staged" <=> lock = r

(* What a request has not committed yet is one server's answer to one command. *)
StagedInv ==
  \A r \in Requests : pc[r] = "staged" =>
    /\ Len(log) + Len(staged[r]) <= MaxLog
    /\ \E v \in Views, cmd \in Commands(log) :
         /\ v.last = Len(log) /\ Faithful(v, log)
         /\ staged[r] = Decide(v, log, cmd)
         /\ view[r] = AfterAppend(v, log, staged[r])

IInv ==
  /\ TypeOK /\ LockInv /\ StagedInv /\ CopiesFaithful /\ ReadModelCurrent
  /\ UndoesOnce(log) /\ Advances(log)

-----------------------------------------------------------------------------
(* The fold and the replay *)

(* Appending to a log does not change what its first n events do, nor which of them one of the n undoes. *)
LEMMA PrefixStable ==
  ASSUME NEW l \in Seq(Events), NEW b \in Seq(Events), NEW n \in Nat, n <= Len(l)
  PROVE  /\ l \o b \in Seq(Events)
         /\ Len(l \o b) = Len(l) + Len(b)
         /\ Effective(l \o b, n) = Effective(l, n)
         /\ UndoneBy(l \o b, n) = UndoneBy(l, n)
<1>1. \A k \in 1..n : (l \o b)[k] = l[k]
  OBVIOUS
<1>2. QED
  BY <1>1 DEF Effective, UndoneBy

(* A state faithful to a log stays faithful to every log that extends it. *)
LEMMA FaithfulStable ==
  ASSUME NEW l \in Seq(Events), NEW b \in Seq(Events), NEW v \in Views, Faithful(v, l)
  PROVE  Faithful(v, l \o b)
<1>1. v.last \in Nat /\ v.last <= Len(l)
  BY DEF Views, Faithful
<1>2. QED
  BY <1>1, PrefixStable DEF Faithful

(* Replaying a log gives a state faithful to it, at its end. *)
LEMMA ReplayFaithful ==
  ASSUME NEW l \in Seq(Events)
  PROVE  Replay(l) \in Views /\ Replay(l).last = Len(l) /\ Faithful(Replay(l), l)
BY DEF Replay, Views, Faithful, Effective, UndoneBy

(* Folding a faithful state forward gives a faithful state at the log's end: no event is missed or invented. *)
LEMMA FoldFaithful ==
  ASSUME NEW l \in Seq(Events), NEW v \in Views, Faithful(v, l)
  PROVE  Fold(v, l) \in Views /\ Fold(v, l).last = Len(l) /\ Faithful(Fold(v, l), l)
<1>1. v.last \in Nat /\ v.last <= Len(l) /\ v.effects \subseteq Nat
  BY DEF Views, Faithful
<1>2. Fold(v, l) \in Views /\ Fold(v, l).last = Len(l)
  BY <1>1 DEF Fold, Views, Effective
<1>3. Fold(v, l).effects \subseteq Effective(l, Len(l))
  BY <1>1 DEF Fold, Faithful, Effective
<1>4. ASSUME NEW k \in Effective(l, Len(l)) \ UndoneBy(l, Len(l))
      PROVE  k \in Fold(v, l).effects
  <2>1. CASE k > v.last
    BY <2>1 DEF Fold
  <2>2. CASE ~(k > v.last)
    <3>1. k \in 1..v.last /\ k \in Effective(l, v.last)
      BY <1>1, <2>2 DEF Effective
    <3>2. k \notin UndoneBy(l, v.last)
      BY <1>1, <3>1 DEF UndoneBy, Effective
    <3>3. QED
      BY <3>1, <3>2 DEF Fold, Faithful
  <2>3. QED
    BY <2>1, <2>2
<1>5. QED
  BY <1>2, <1>3, <1>4 DEF Faithful

(* What a request works on is the log's current state, whether its instance remembered one or not. *)
LEMMA CurrentFaithful ==
  ASSUME NEW l \in Seq(Events), NEW v \in Views \cup {NoView}, v # NoView => Faithful(v, l)
  PROVE  Current(v, l) \in Views /\ Current(v, l).last = Len(l) /\ Faithful(Current(v, l), l)
<1>1. CASE v = NoView
  BY <1>1, ReplayFaithful DEF Current
<1>2. CASE v # NoView
  BY <1>2, FoldFaithful DEF Current
<1>3. QED
  BY <1>1, <1>2

(* The state computed for an append is faithful to the log with the append, folded or rebuilt. *)
LEMMA AfterAppendFaithful ==
  ASSUME NEW l \in Seq(Events), NEW b \in Seq(Events), NEW v \in Views, Faithful(v, l)
  PROVE  /\ AfterAppend(v, l, b) \in Views
         /\ AfterAppend(v, l, b).last = Len(l \o b)
         /\ Faithful(AfterAppend(v, l, b), l \o b)
<1>1. l \o b \in Seq(Events) /\ Faithful(v, l \o b)
  BY FaithfulStable
<1>2. QED
  BY <1>1, ReplayFaithful, FoldFaithful DEF AfterAppend

(* Commands and decisions append events of the log's kind. *)
LEMMA CommandType ==
  ASSUME NEW l \in Seq(Events), NEW cmd \in Commands(l)
  PROVE  cmd \in Seq(Events)
<1>1. Fact \in Events /\ Advanced \in Events
  BY DEF Events, Fact, Advanced
<1>2. \A s \in Steps : Done(s) \in Events
  BY DEF Events, Done
<1>3. \A s \in Steps, k \in Nat : Undone(s, k) \in Events
  BY DEF Events, Undone
<1>4. \A s \in Steps : Mark(l, s) \subseteq Nat
  BY DEF Mark
<1>5. \A e \in Events : <<e>> \in Seq(Events)
  OBVIOUS
<1>6. CASE cmd \in {<<>>, <<Fact>>}
  <2>1. CASE cmd = <<>>
    BY <2>1
  <2>2. CASE cmd = <<Fact>>
    BY <1>1, <1>5, <2>2
  <2>3. QED
    BY <1>6, <2>1, <2>2
<1>7. CASE cmd \in {<<Done(s)>> : s \in Steps}
  <2>1. PICK s \in Steps : cmd = <<Done(s)>>
    BY <1>7
  <2>2. QED
    BY <2>1, <1>2, <1>5
<1>8. CASE cmd \in UNION {{<<Undone(s, k)>> : k \in {m \in Mark(l, s) : ~HasAdvanced(l, m)}} : s \in Steps}
  <2>1. PICK s \in Steps, k \in Nat : cmd = <<Undone(s, k)>>
    BY <1>8, <1>4
  <2>2. QED
    BY <2>1, <1>3, <1>5
<1>9. QED
  BY <1>6, <1>7, <1>8 DEF Commands

LEMMA DecideType ==
  ASSUME NEW l \in Seq(Events), NEW v, NEW cmd \in Commands(l)
  PROVE  Decide(v, l, cmd) \in Seq(Events)
<1>1. Advanced \in Events
  BY DEF Events, Advanced
<1>2. Automatic(v, l \o cmd) \in Seq(Events)
  BY <1>1 DEF Automatic
<1>3. QED
  BY <1>2, CommandType DEF Decide

(* An undo of a completion that is its step's last mark, and still in its stage, is the first of that completion. *)
LEMMA UndoAppended ==
  ASSUME NEW l \in Seq(Events), NEW s \in Steps, NEW k \in Mark(l, s), ~HasAdvanced(l, k), UndoesOnce(l)
  PROVE  UndoesOnce(l \o <<Undone(s, k)>>)
<1> DEFINE n == Len(l)
           e == Undone(s, k)
           m == l \o <<e>>
<1>1. /\ n \in Nat /\ Len(m) = n + 1 /\ m[n + 1] = e /\ \A i \in 1..n : m[i] = l[i]
  OBVIOUS
<1>2. IsUndo(e) /\ e.step = s /\ e.of = k /\ e # Advanced
  BY DEF IsUndo, Undone, Advanced
<1>3. k \in 1..n /\ l[k] = Done(s)
  BY DEF Mark
<1>4. ASSUME NEW i \in 1..n, IsUndo(l[i]), l[i].of = k PROVE FALSE
  <2>1. k \in 1..(i-1) /\ l[k] = Done(l[i].step)
    BY <1>4 DEF UndoesOnce
  <2>2. l[i].step = s
    BY <1>3, <2>1 DEF Done
  <2>3. i \in (k+1)..n
    BY <1>1, <1>3, <2>1
  <2>4. QED
    BY <1>4, <2>2, <2>3 DEF Mark
<1>5. \A i \in k..n : l[i] # Advanced
  BY DEF HasAdvanced
<1> HIDE DEF m, e, n
<1>6. /\ m[n + 1].of \in 1..n /\ m[m[n + 1].of] = Done(m[n + 1].step)
      /\ \A i \in 1..n : ~(IsUndo(m[i]) /\ m[i].of = k)
      /\ \A i \in k..(n + 1) : m[i] # Advanced
  BY <1>1, <1>2, <1>3, <1>4, <1>5
<1>7. ASSUME NEW j \in 1..(n + 1), IsUndo(m[j])
      PROVE  /\ m[j].of \in 1..(j-1) /\ m[m[j].of] = Done(m[j].step)
             /\ \A i \in 1..(j-1) : ~(IsUndo(m[i]) /\ m[i].of = m[j].of)
             /\ \A i \in m[j].of..j : m[i] # Advanced
  <2>1. CASE j = n + 1
    BY <1>1, <1>2, <1>6, <2>1
  <2>2. CASE j # n + 1
    <3>1. j \in 1..n /\ m[j] = l[j]
      BY <1>1, <2>2
    <3>2. /\ l[j].of \in 1..(j-1) /\ l[l[j].of] = Done(l[j].step)
          /\ \A i \in 1..(j-1) : ~(IsUndo(l[i]) /\ l[i].of = l[j].of)
          /\ \A i \in l[j].of..j : l[i] # Advanced
      BY <1>7, <3>1 DEF UndoesOnce, n
    <3>3. QED
      BY <1>1, <3>1, <3>2
  <2>3. QED
    BY <2>1, <2>2
<1>8. QED
  BY <1>1, <1>7 DEF UndoesOnce, m, e

(* Any other event leaves what the log undoes as it is. *)
LEMMA NoUndoAppended ==
  ASSUME NEW l \in Seq(Events), NEW e \in Events, ~IsUndo(e), UndoesOnce(l)
  PROVE  UndoesOnce(l \o <<e>>)
<1> DEFINE n == Len(l)
           m == l \o <<e>>
<1>1. /\ n \in Nat /\ Len(m) = n + 1 /\ m[n + 1] = e /\ \A i \in 1..n : m[i] = l[i]
  OBVIOUS
<1> HIDE DEF m, n
<1>2. ASSUME NEW j \in 1..(n + 1), IsUndo(m[j])
      PROVE  /\ m[j].of \in 1..(j-1) /\ m[m[j].of] = Done(m[j].step)
             /\ \A i \in 1..(j-1) : ~(IsUndo(m[i]) /\ m[i].of = m[j].of)
             /\ \A i \in m[j].of..j : m[i] # Advanced
  <2>1. j \in 1..n /\ m[j] = l[j]
    BY <1>1, <1>2
  <2>2. /\ l[j].of \in 1..(j-1) /\ l[l[j].of] = Done(l[j].step)
        /\ \A i \in 1..(j-1) : ~(IsUndo(l[i]) /\ l[i].of = l[j].of)
        /\ \A i \in l[j].of..j : l[i] # Advanced
    BY <1>2, <2>1 DEF UndoesOnce, n
  <2>3. QED
    BY <1>1, <2>1, <2>2
<1>3. QED
  BY <1>1, <1>2 DEF UndoesOnce, m

(* The stage advances where it may, or not at all. *)
LEMMA AdvancesAppended ==
  ASSUME NEW l \in Seq(Events), NEW e \in Events, Advances(l),
         e = Advanced => ~HasAdvanced(l, 1) /\ \A s \in Steps : \E j \in 1..Len(l) : l[j] = Done(s)
  PROVE  Advances(l \o <<e>>)
<1> DEFINE n == Len(l)
           m == l \o <<e>>
<1>1. /\ n \in Nat /\ Len(m) = n + 1 /\ m[n + 1] = e /\ \A i \in 1..n : m[i] = l[i]
  OBVIOUS
<1>2. e = Advanced => (\A j \in 1..n : l[j] # Advanced) /\ \A s \in Steps : \E j \in 1..n : l[j] = Done(s)
  BY DEF HasAdvanced
<1> HIDE DEF m, n
<1>3. ASSUME NEW k \in 1..(n + 1), m[k] = Advanced
      PROVE  (\A s \in Steps : \E j \in 1..k : m[j] = Done(s)) /\ \A j \in 1..(k-1) : m[j] # Advanced
  <2>1. CASE k = n + 1
    BY <1>1, <1>2, <1>3, <2>1
  <2>2. CASE k # n + 1
    <3>1. k \in 1..n /\ m[k] = l[k]
      BY <1>1, <2>2
    <3>2. (\A s \in Steps : \E j \in 1..k : l[j] = Done(s)) /\ \A j \in 1..(k-1) : l[j] # Advanced
      BY <1>3, <3>1 DEF Advances, n
    <3>3. QED
      BY <1>1, <3>1, <3>2
  <2>3. QED
    BY <2>1, <2>2
<1>4. QED
  BY <1>1, <1>3 DEF Advances, m

(* A command's own events. *)
LEMMA CommandAppended ==
  ASSUME NEW l \in Seq(Events), NEW cmd \in Commands(l), UndoesOnce(l), Advances(l)
  PROVE  l \o cmd \in Seq(Events) /\ UndoesOnce(l \o cmd) /\ Advances(l \o cmd)
<1>1. CASE cmd = <<>>
  BY <1>1
<1>2. ASSUME NEW e \in Events, cmd = <<e>>, e # Advanced, UndoesOnce(l \o <<e>>)
      PROVE  l \o cmd \in Seq(Events) /\ UndoesOnce(l \o cmd) /\ Advances(l \o cmd)
  BY <1>2, AdvancesAppended
<1>3. ASSUME NEW e \in Events, cmd = <<e>>, e # Advanced, ~IsUndo(e)
      PROVE  l \o cmd \in Seq(Events) /\ UndoesOnce(l \o cmd) /\ Advances(l \o cmd)
  BY <1>2, <1>3, NoUndoAppended
<1>4. CASE cmd = <<Fact>>
  BY <1>3, <1>4 DEF Fact, Advanced, IsUndo, Events
<1>5. ASSUME NEW s \in Steps, cmd = <<Done(s)>>
      PROVE  l \o cmd \in Seq(Events) /\ UndoesOnce(l \o cmd) /\ Advances(l \o cmd)
  BY <1>3, <1>5 DEF Done, Advanced, IsUndo, Events
<1>6. ASSUME NEW s \in Steps, NEW k \in Mark(l, s), ~HasAdvanced(l, k), cmd = <<Undone(s, k)>>
      PROVE  l \o cmd \in Seq(Events) /\ UndoesOnce(l \o cmd) /\ Advances(l \o cmd)
  <2>1. Undone(s, k) \in Events /\ Undone(s, k) # Advanced
    BY DEF Undone, Advanced, Events, Mark
  <2>2. QED
    BY <1>2, <1>6, <2>1, UndoAppended
<1>7. QED
  BY <1>1, <1>4, <1>5, <1>6 DEF Commands

(* What a decision appends undoes and advances as it should, whatever faithful state or other it was taken on. *)
LEMMA DecideKeeps ==
  ASSUME NEW l \in Seq(Events), NEW v, NEW cmd \in Commands(l), UndoesOnce(l), Advances(l)
  PROVE  UndoesOnce(l \o Decide(v, l, cmd)) /\ Advances(l \o Decide(v, l, cmd))
<1> DEFINE m == l \o cmd
<1>1. m \in Seq(Events) /\ UndoesOnce(m) /\ Advances(m)
  BY CommandAppended
<1>2. cmd \in Seq(Events)
  BY CommandType
<1>3. CASE Automatic(v, m) = <<>>
  <2>1. l \o Decide(v, l, cmd) = m
    BY <1>2, <1>3 DEF Decide
  <2>2. QED
    BY <1>1, <2>1
<1>4. CASE Automatic(v, m) # <<>>
  <2>1. Automatic(v, m) = <<Advanced>> /\ StepsDone(Fold(v, m), m) = Steps /\ ~HasAdvanced(m, 1)
    BY <1>4 DEF Automatic
  <2>2. \A s \in Steps : \E j \in 1..Len(m) : m[j] = Done(s)
    BY <2>1 DEF StepsDone
  <2>3. Advanced \in Events /\ ~IsUndo(Advanced)
    BY DEF Advanced, Events, IsUndo
  <2>4. l \o Decide(v, l, cmd) = m \o <<Advanced>>
    <3>1. l \o (cmd \o <<Advanced>>) = (l \o cmd) \o <<Advanced>>
      BY <1>2, <2>3
    <3>2. QED
      BY <2>1, <3>1 DEF Decide
  <2> HIDE DEF m
  <2>5. QED
    BY <1>1, <2>1, <2>2, <2>3, <2>4, AdvancesAppended, NoUndoAppended
<1>5. QED
  BY <1>3, <1>4

-----------------------------------------------------------------------------
(* The invariant *)

(* A state that is about to be committed is faithful to the log as it will be. *)
LEMMA StagedFaithful ==
  ASSUME IInv, NEW r \in Requests, pc[r] = "staged"
  PROVE  /\ log \in Seq(Events) /\ staged[r] \in Seq(Events)
         /\ view[r] \in Views /\ view[r].last = Len(log \o staged[r]) /\ Faithful(view[r], log \o staged[r])
         /\ Len(log \o staged[r]) <= MaxLog
         /\ UndoesOnce(log \o staged[r]) /\ Advances(log \o staged[r])
<1>1. log \in Seq(Events) /\ staged[r] \in Seq(Events)
  BY DEF IInv, TypeOK
<1>2. PICK v \in Views, cmd \in Commands(log) :
        Faithful(v, log) /\ staged[r] = Decide(v, log, cmd) /\ view[r] = AfterAppend(v, log, staged[r])
  BY DEF IInv, StagedInv
<1>3. /\ view[r] \in Views /\ view[r].last = Len(log \o staged[r]) /\ Faithful(view[r], log \o staged[r])
  BY <1>1, <1>2, AfterAppendFaithful
<1>4. Len(log \o staged[r]) <= MaxLog
  BY <1>1 DEF IInv, StagedInv
<1>5. UndoesOnce(log \o staged[r]) /\ Advances(log \o staged[r])
  BY <1>1, <1>2, DecideKeeps DEF IInv
<1>6. QED
  BY <1>1, <1>3, <1>4, <1>5

LEMMA InitIInv == Init => IInv
<1>1. SUFFICES ASSUME Init PROVE IInv
  OBVIOUS
<1>2. <<>> \in Seq(Events) /\ Len(<<>>) = 0
  OBVIOUS
<1>3. Replay(<<>>) \in Views /\ Replay(<<>>).last = 0 /\ Faithful(Replay(<<>>), <<>>)
  BY <1>2, ReplayFaithful
<1>4. QED
  BY <1>1, <1>2, <1>3, NoRequestAssumption, MaxLogAssumption
     DEF Init, IInv, TypeOK, LockInv, StagedInv, CopiesFaithful, ReadModelCurrent, UndoesOnce, Advances

LEMMA ReadBeginIInv == \A r \in Requests : IInv /\ ReadBegin(r) => IInv'
BY InstOfAssumption DEF ReadBegin, IInv, TypeOK, LockInv, StagedInv, CopiesFaithful, ReadModelCurrent

LEMMA ReadEventsIInv == \A r \in Requests : IInv /\ ReadEvents(r) => IInv'
<1>1. SUFFICES ASSUME NEW r \in Requests, IInv, ReadEvents(r) PROVE IInv'
  OBVIOUS
<1>2. known[r] \in Views \cup {NoView} /\ (known[r] # NoView => Faithful(known[r], log)) /\ log \in Seq(Events)
  BY <1>1 DEF IInv, TypeOK, CopiesFaithful
<1>3. Current(known[r], log) \in Views /\ Faithful(Current(known[r], log), log)
  BY <1>2, CurrentFaithful
<1>4. QED
  BY <1>1, <1>3, NoViewAssumption DEF ReadEvents, IInv, TypeOK, LockInv, StagedInv, CopiesFaithful, ReadModelCurrent

LEMMA RunLockedIInv == \A r \in Requests : IInv /\ RunLocked(r) => IInv'
<1>1. SUFFICES ASSUME NEW r \in Requests, IInv, RunLocked(r) PROVE IInv'
  OBVIOUS
<1> DEFINE state == Current(cache[InstOf[r]], log)
<1>2. log \in Seq(Events) /\ state \in Views /\ Faithful(state, log)
  BY <1>1, InstOfAssumption, CurrentFaithful DEF IInv, TypeOK, CopiesFaithful
<1>3. PICK cmd \in Commands(log) :
        /\ state.last = Len(log)
        /\ Len(log) + Len(Decide(state, log, cmd)) <= MaxLog
        /\ staged' = [staged EXCEPT ![r] = Decide(state, log, cmd)]
        /\ view' = [view EXCEPT ![r] = AfterAppend(state, log, Decide(state, log, cmd))]
  BY <1>1 DEF RunLocked
<1> DEFINE batch == Decide(state, log, cmd)
<1>4. batch \in Seq(Events)
  BY <1>2, DecideType
<1>5. AfterAppend(state, log, batch) \in Views
  BY <1>2, <1>4, AfterAppendFaithful
<1> HIDE DEF batch, state
<1>6. TypeOK' /\ LockInv'
  BY <1>1, <1>3, <1>4, <1>5, NoRequestAssumption DEF batch, RunLocked, IInv, TypeOK, LockInv
<1>7. StagedInv'
  <2>1. \A q \in Requests : pc'[q] = "staged" => q = r
    BY <1>1, <1>6 DEF LockInv, RunLocked
  <2>2. staged'[r] = batch /\ view'[r] = AfterAppend(state, log, batch) /\ log' = log
    BY <1>1, <1>3 DEF batch, RunLocked, IInv, TypeOK
  <2>3. QED
    BY <1>2, <1>3, <2>1, <2>2 DEF batch, StagedInv
<1>8. QED
  BY <1>1, <1>6, <1>7 DEF RunLocked, IInv, TypeOK, CopiesFaithful, ReadModelCurrent

LEMMA CommitIInv == \A r \in Requests : IInv /\ Commit(r) => IInv'
<1>1. SUFFICES ASSUME NEW r \in Requests, IInv, Commit(r) PROVE IInv'
  OBVIOUS
<1>2. /\ log \in Seq(Events) /\ staged[r] \in Seq(Events) /\ log' = log \o staged[r]
      /\ view[r] \in Views /\ view[r].last = Len(log') /\ Faithful(view[r], log')
      /\ Len(log') <= MaxLog /\ UndoesOnce(log') /\ Advances(log')
  BY <1>1, StagedFaithful DEF Commit
<1>3. \A v \in Views : Faithful(v, log) => Faithful(v, log')
  BY <1>2, FaithfulStable
<1>4. TypeOK'
  BY <1>1, <1>2 DEF Commit, IInv, TypeOK
<1>5. LockInv' /\ \A q \in Requests : pc'[q] # "staged"
  BY <1>1, NoRequestAssumption DEF Commit, IInv, TypeOK, LockInv
<1>6. CopiesFaithful'
  BY <1>1, <1>2, <1>3, NoViewAssumption DEF Commit, IInv, TypeOK, CopiesFaithful
<1>7. StagedInv' /\ ReadModelCurrent'
  BY <1>1, <1>2, <1>5 DEF Commit, StagedInv, ReadModelCurrent
<1>8. QED
  BY <1>2, <1>4, <1>5, <1>6, <1>7 DEF IInv

LEMMA RollbackIInv == \A r \in Requests : IInv /\ Rollback(r) => IInv'
BY NoRequestAssumption DEF Rollback, IInv, TypeOK, LockInv, StagedInv, CopiesFaithful, ReadModelCurrent

LEMMA RememberIInv == \A r \in Requests : IInv /\ Remember(r) => IInv'
<1>1. SUFFICES ASSUME NEW r \in Requests, IInv, Remember(r) PROVE IInv'
  OBVIOUS
<1>2. /\ view[r] \in Views /\ Faithful(view[r], log)
  BY <1>1 DEF Remember, IInv, TypeOK, CopiesFaithful
<1>3. Remembered(cache[InstOf[r]], view[r]) \in {cache[InstOf[r]], view[r]}
  BY DEF Remembered
<1>4. QED
  BY <1>1, <1>2, <1>3, InstOfAssumption
     DEF Remember, IInv, TypeOK, LockInv, StagedInv, CopiesFaithful, ReadModelCurrent

LEMMA EvictIInv == \A i \in Instances : IInv /\ Evict(i) => IInv'
BY DEF Evict, IInv, TypeOK, LockInv, StagedInv, CopiesFaithful, ReadModelCurrent

LEMMA CrashIInv == \A i \in Instances : IInv /\ Crash(i) => IInv'
<1>1. SUFFICES ASSUME NEW i \in Instances, IInv, Crash(i) PROVE IInv'
  OBVIOUS
<1>2. TypeOK'
  BY <1>1 DEF Crash, IInv, TypeOK
<1>3. LockInv'
  BY <1>1, NoRequestAssumption DEF Crash, IInv, TypeOK, LockInv
<1>4. StagedInv'
  BY <1>1 DEF Crash, IInv, TypeOK, StagedInv
<1>5. CopiesFaithful' /\ ReadModelCurrent'
  BY <1>1 DEF Crash, IInv, TypeOK, CopiesFaithful, ReadModelCurrent
<1>6. UndoesOnce(log)' /\ Advances(log)'
  BY <1>1 DEF Crash, IInv
<1>7. QED
  BY <1>2, <1>3, <1>4, <1>5, <1>6 DEF IInv

LEMMA NextIInv == IInv /\ [Next]_vars => IInv'
<1>1. SUFFICES ASSUME IInv, [Next]_vars PROVE IInv'
  OBVIOUS
<1>2. CASE UNCHANGED vars
  BY <1>1, <1>2 DEF vars, IInv, TypeOK, LockInv, StagedInv, CopiesFaithful, ReadModelCurrent
<1>3. CASE Next
  BY <1>1, <1>3, ReadBeginIInv, ReadEventsIInv, RunLockedIInv, CommitIInv, RollbackIInv, RememberIInv, EvictIInv, CrashIInv
     DEF Next
<1>4. QED
  BY <1>1, <1>2, <1>3

THEOREM Invariance == Spec => []IInv
BY InitIInv, NextIInv, PTL DEF Spec

-----------------------------------------------------------------------------
(* The results *)

(* Every variable keeps its type. *)
THEOREM TypeCorrect == Spec => []TypeOK
<1>1. IInv => TypeOK
  BY DEF IInv
<1>2. QED
  BY <1>1, Invariance, PTL

(* No copy of a matter's state (read model, any instance's cache, a request's) misses an event of the log, *)
(* holds one twice or runs ahead of it, whatever rolls back, crashes or overtakes: service.run's lock        *)
(* section, getState's unlocked fold and remember.                                                           *)
THEOREM CopiesStayFaithful == Spec => []CopiesFaithful
<1>1. IInv => CopiesFaithful
  BY DEF IInv
<1>2. QED
  BY <1>1, Invariance, PTL

(* The read model is at the log's end after every commit (refreshReadModels runs in the append's transaction). *)
THEOREM ReadModelIsCurrent == Spec => []ReadModelCurrent
<1>1. IInv => ReadModelCurrent
  BY DEF IInv
<1>2. QED
  BY <1>1, Invariance, PTL

(* The expectedLastSeq check of append never refuses: a remembered state and the events after it end where the log does. *)
THEOREM NeverConcurrencyError == Spec => []NoConcurrencyError
<1>1. IInv => NoConcurrencyError
  BY CurrentFaithful DEF IInv, TypeOK, CopiesFaithful, NoConcurrencyError
<1>2. QED
  BY <1>1, Invariance, PTL

(* The log is only ever appended to, and what an instance remembers never goes back unless it is dropped. *)
THEOREM LogAppendOnly == Spec => LogGrowsCacheAdvances
<1>1. IInv /\ [Next]_vars => [AppendOnly /\ NeverForgets]_vars
  <2>1. SUFFICES ASSUME IInv, Next PROVE AppendOnly /\ NeverForgets
    OBVIOUS
  <2>2. log \in Seq(Events) /\ SubSeq(log, 1, Len(log)) = log
    BY <2>1 DEF IInv, TypeOK
  <2>3. AppendOnly
    <3>1. CASE log' = log
      BY <2>2, <3>1 DEF AppendOnly
    <3>2. CASE \E r \in Requests : Commit(r)
      <4>1. PICK r \in Requests : log' = log \o staged[r]
        BY <3>2 DEF Commit
      <4>2. staged[r] \in Seq(Events)
        BY <2>1 DEF IInv, TypeOK
      <4>3. QED
        BY <2>2, <4>1, <4>2 DEF AppendOnly
    <3>3. QED
      BY <2>1, <3>1, <3>2 DEF Next, ReadBegin, ReadEvents, RunLocked, Rollback, Remember, Evict, Crash
  <2>4. NeverForgets
    <3>1. CASE \A i \in Instances : cache'[i] = cache[i] \/ cache'[i] = NoView
      <4>1. \A i \in Instances : cache[i] # NoView => cache[i].last \in Nat
        BY <2>1 DEF IInv, TypeOK, Views
      <4>2. QED
        BY <3>1, <4>1 DEF NeverForgets
    <3>2. CASE \E r \in Requests : Remember(r)
      <4>1. PICK r \in Requests : Remember(r)
        BY <3>2
      <4>2. view[r] \in Views /\ \A i \in Instances : cache[i] \in Views \cup {NoView}
        BY <2>1, <4>1 DEF IInv, TypeOK, CopiesFaithful, Remember
      <4>3. cache' = [cache EXCEPT ![InstOf[r]] = Remembered(cache[InstOf[r]], view[r])]
        BY <4>1 DEF Remember
      <4>4. cache \in [Instances -> Views \cup {NoView}]
        BY <2>1 DEF IInv, TypeOK
      <4>5. ASSUME NEW i \in Instances, cache[i] # NoView, cache'[i] # NoView
            PROVE  cache'[i].last >= cache[i].last
        <5>1. cache[i].last \in Nat /\ view[r].last \in Nat
          BY <4>2, <4>5 DEF Views
        <5>2. cache'[i] = IF i = InstOf[r] THEN Remembered(cache[i], view[r]) ELSE cache[i]
          BY <4>3, <4>4
        <5>3. QED
          BY <4>5, <5>1, <5>2 DEF Remembered
      <4>6. QED
        BY <4>5 DEF NeverForgets
    <3>3. QED
      BY <2>1, <3>1, <3>2 DEF Next, ReadBegin, ReadEvents, RunLocked, Commit, Rollback, Evict, Crash, IInv, TypeOK
  <2>5. QED
    BY <2>3, <2>4
<1>2. QED
  BY <1>1, Invariance, PTL DEF Spec, LogGrowsCacheAdvances

(* A completion is undone at most once, by an event after it, never across a stage advance (undo_manual_step, decided
   on the state an instance remembers). *)
THEOREM UndoneOnceAlways == Spec => []UndoneOnce
<1>1. IInv => UndoneOnce
  BY DEF IInv, UndoneOnce
<1>2. QED
  BY <1>1, Invariance, PTL

(* A stage advances once, after each step it needs has been completed (automatic). *)
THEOREM AdvanceIsJustified == Spec => []AdvanceJustified
<1>1. IInv => AdvanceJustified
  BY DEF IInv, AdvanceJustified
<1>2. QED
  BY <1>1, Invariance, PTL

-----------------------------------------------------------------------------
(* One server, one command at a time *)

(* The two modules speak of the same events. *)
LEMMA SameReplay == \A l : Serial!Replay(l) = Replay(l)
BY DEF Serial!Replay, Replay, Serial!Effective, Effective, Serial!UndoneBy, UndoneBy, Serial!IsUndo, IsUndo

LEMMA SameCommands == \A l : Serial!Commands(l) = Commands(l)
BY DEF Serial!Commands, Commands, Serial!Mark, Mark, Serial!HasAdvanced, HasAdvanced, Serial!Fact, Fact, Serial!Done, Done,
       Serial!Undone, Undone, Serial!Advanced, Advanced, Serial!IsUndo, IsUndo, Serial!IsDone, IsDone

LEMMA SameFold == \A v, l : Serial!Fold(v, l) = Fold(v, l)
BY DEF Serial!Fold, Fold, Serial!Effective, Effective, Serial!IsUndo, IsUndo

LEMMA SameDecide == \A v, l, cmd : Serial!Decide(v, l, cmd) = Decide(v, l, cmd)
BY SameFold DEF Serial!Decide, Decide, Serial!Automatic, Automatic, Serial!StepsDone, StepsDone, Serial!HasAdvanced, HasAdvanced,
       Serial!Advanced, Advanced, Serial!Done, Done

LEMMA SameAfterAppend == \A v, l, b : Serial!AfterAppend(v, l, b) = AfterAppend(v, l, b)
BY SameFold, SameReplay DEF Serial!AfterAppend, AfterAppend, Serial!IsUndo, IsUndo

(* A faithful state at the end of the log differs from its replay by undone completions. *)
LEMMA FaithfulAtEnd ==
  ASSUME NEW l \in Seq(Events), NEW v \in Views, v.last = Len(l), Faithful(v, l)
  PROVE  v \in Serial!States(l)
<1> DEFINE u == Effective(l, Len(l)) \ v.effects
<1>1. u \in SUBSET UndoneBy(l, Len(l)) /\ v.effects = Effective(l, Len(l)) \ u
  BY DEF Faithful
<1>2. v = [last |-> Len(l), effects |-> Effective(l, Len(l)) \ u]
  BY <1>1 DEF Views
<1> HIDE DEF u
<1>3. QED
  BY <1>1, <1>2 DEF Serial!States, Serial!Effective, Effective, Serial!UndoneBy, UndoneBy, Serial!IsUndo, IsUndo

LEMMA InitSerial == Init => Serial!Init
BY SameReplay DEF Init, Serial!Init

LEMMA StepSerial == IInv /\ [Next]_vars => [Serial!Next]_<<log, model>>
<1> SUFFICES ASSUME IInv, [Next]_vars, <<log, model>>' # <<log, model>> PROVE Serial!Next
  OBVIOUS
<1>1. PICK r \in Requests : Commit(r)
  BY DEF Next, vars, ReadBegin, ReadEvents, RunLocked, Rollback, Remember, Evict, Crash
<1>2. PICK v \in Views, cmd \in Commands(log) :
        /\ v.last = Len(log) /\ Faithful(v, log) /\ staged[r] = Decide(v, log, cmd)
        /\ view[r] = AfterAppend(v, log, staged[r])
  BY <1>1 DEF IInv, StagedInv, Commit
<1>3. log \in Seq(Events)
  BY DEF IInv, TypeOK
<1>4. v \in Serial!States(log) /\ cmd \in Serial!Commands(log)
  BY <1>2, <1>3, FaithfulAtEnd, SameCommands
<1>5. Serial!Handle(v, cmd)
  BY <1>1, <1>2, SameDecide, SameAfterAppend DEF Commit, Serial!Handle
<1>6. QED
  BY <1>4, <1>5 DEF Serial!Next

(* Whatever the instances remember, lose or overtake each other in, the matter's log and read model are those of one
   server that handles a command at a time, whole or not at all (EngineService.run, PgEventStore.withMatterLock). *)
THEOREM InstancesImplementSerial == Spec => SerialSpec
<1>1. QED
  BY InitSerial, StepSerial, Invariance, PTL DEF Spec, SerialSpec, Serial!Spec
=============================================================================

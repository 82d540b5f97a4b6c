----------------------------- MODULE MatterLog -----------------------------
(***************************************************************************)
(* One matter's event log, its per-matter lock and the copies of its state  *)
(* that several server instances keep (lib/server/engine/store.ts,          *)
(* service.ts and the fold of projection.ts).                               *)
(*                                                                          *)
(* A command takes the matter's lock, brings the state its instance         *)
(* remembers up to date with the events appended since, decides, appends    *)
(* the new events, rewrites the read model and commits; the new state is    *)
(* remembered after the commit.  A read folds what is remembered forward    *)
(* without the lock.  A step a person marked complete by hand can be undone *)
(* while the case is still in the stage it was marked in.                   *)
(*                                                                          *)
(* Module MatterEvents has the events, their fold and the decision; module  *)
(* SerialLog, what all this comes to: commands handled one at a time.       *)
(***************************************************************************)
EXTENDS MatterEvents

CONSTANTS
  Instances,  \* server instances (each keeps its own stateCache)
  Requests,   \* requests being served: commands and reads
  InstOf,     \* the instance that serves a request
  NoView,     \* nothing remembered
  NoRequest,  \* the lock is free
  MaxLog      \* bound on the log's length

ASSUME InstOfAssumption == InstOf \in [Requests -> Instances]
ASSUME NoViewAssumption == NoView \notin Views
ASSUME NoRequestAssumption == NoRequest \notin Requests
ASSUME MaxLogAssumption == MaxLog \in Nat

VARIABLES
  log,    \* the committed events of the matter, in seq order
  lock,   \* the request that holds the matter's advisory lock
  model,  \* matter_engine_state: the read model, written with each append
  cache,  \* stateCache of each instance
  pc,     \* where each request is
  known,  \* what a request took from its instance's cache
  view,   \* the state a request computed
  staged  \* the events of an uncommitted transaction

vars == <<log, lock, model, cache, pc, known, view, staged>>

-----------------------------------------------------------------------------
(* The remembered state *)

(* The state a request works on: what its instance remembers, brought up to date, or the log replayed. *)
Current(v, l) == IF v = NoView THEN Replay(l) ELSE Fold(v, l)

(* Mutant: remember without the check against what is remembered. *)
RememberedAnyway(cur, v) == v

(* remember: never over a later state. *)
Remembered(cur, v) == IF cur # NoView /\ cur.last > v.last THEN cur ELSE v

-----------------------------------------------------------------------------

Init ==
  /\ log = <<>>
  /\ lock = NoRequest
  /\ model = Replay(<<>>)
  /\ cache = [i \in Instances |-> NoView]
  /\ pc = [r \in Requests |-> "idle"]
  /\ known = [r \in Requests |-> NoView]
  /\ view = [r \in Requests |-> NoView]
  /\ staged = [r \in Requests |-> <<>>]

(* getState takes the remembered state, then asks the store for what came after it... *)
ReadBegin(r) ==
  /\ pc[r] = "idle"
  /\ pc' = [pc EXCEPT ![r] = "reading"]
  /\ known' = [known EXCEPT ![r] = cache[InstOf[r]]]
  /\ UNCHANGED <<log, lock, model, cache, view, staged>>

(* ...which answers with the events committed at that moment. *)
ReadEvents(r) ==
  /\ pc[r] = "reading"
  /\ pc' = [pc EXCEPT ![r] = "remembering"]
  /\ view' = [view EXCEPT ![r] = Current(known[r], log)]
  /\ known' = [known EXCEPT ![r] = NoView]
  /\ UNCHANGED <<log, lock, model, cache, staged>>

(* Mutant: the new state is remembered before its transaction commits. *)
RunRemembersEarly(r) ==
  /\ pc[r] = "idle"
  /\ lock = NoRequest
  /\ LET state == Current(cache[InstOf[r]], log) IN
       \E cmd \in Commands(log) :
         LET batch == Decide(state, log, cmd) IN
           /\ state.last = Len(log)
           /\ Len(log) + Len(batch) <= MaxLog
           /\ staged' = [staged EXCEPT ![r] = batch]
           /\ view' = [view EXCEPT ![r] = AfterAppend(state, log, batch)]
           /\ cache' = [cache EXCEPT ![InstOf[r]] = AfterAppend(state, log, batch)]
  /\ lock' = r
  /\ pc' = [pc EXCEPT ![r] = "staged"]
  /\ UNCHANGED <<log, model, known>>

(* Mutant: a command does not wait for the matter's lock. *)
RunAtOnce(r) ==
  /\ pc[r] = "idle"
  /\ LET state == Current(cache[InstOf[r]], log) IN
       \E cmd \in Commands(log) :
         LET batch == Decide(state, log, cmd) IN
           /\ state.last = Len(log)
           /\ Len(log) + Len(batch) <= MaxLog
           /\ staged' = [staged EXCEPT ![r] = batch]
           /\ view' = [view EXCEPT ![r] = AfterAppend(state, log, batch)]
  /\ lock' = r
  /\ pc' = [pc EXCEPT ![r] = "staged"]
  /\ UNCHANGED <<log, model, cache, known>>

(* run, under the lock: the state, the decision and the append, in a transaction not yet committed. *)
RunLocked(r) ==
  /\ pc[r] = "idle"
  /\ lock = NoRequest
  /\ LET state == Current(cache[InstOf[r]], log) IN
       \E cmd \in Commands(log) :
         LET batch == Decide(state, log, cmd) IN
           /\ state.last = Len(log)  \* append's expectedLastSeq; anything else is a ConcurrencyError
           /\ Len(log) + Len(batch) <= MaxLog
           /\ staged' = [staged EXCEPT ![r] = batch]
           /\ view' = [view EXCEPT ![r] = AfterAppend(state, log, batch)]
  /\ lock' = r
  /\ pc' = [pc EXCEPT ![r] = "staged"]
  /\ UNCHANGED <<log, model, cache, known>>

(* Mutant: the read model is left as it was before the append. *)
CommitWithoutModel(r) ==
  /\ pc[r] = "staged"
  /\ log' = log \o staged[r]
  /\ lock' = NoRequest
  /\ staged' = [staged EXCEPT ![r] = <<>>]
  /\ pc' = [pc EXCEPT ![r] = "remembering"]
  /\ UNCHANGED <<model, cache, known, view>>

Commit(r) ==
  /\ pc[r] = "staged"
  /\ log' = log \o staged[r]
  /\ model' = view[r]
  /\ lock' = NoRequest
  /\ staged' = [staged EXCEPT ![r] = <<>>]
  /\ pc' = [pc EXCEPT ![r] = "remembering"]
  /\ UNCHANGED <<cache, known, view>>

(* The transaction fails (a database error in the append or the read models): nothing is kept. *)
Rollback(r) ==
  /\ pc[r] = "staged"
  /\ lock' = NoRequest
  /\ staged' = [staged EXCEPT ![r] = <<>>]
  /\ view' = [view EXCEPT ![r] = NoView]
  /\ pc' = [pc EXCEPT ![r] = "idle"]
  /\ UNCHANGED <<log, model, cache, known>>

Remember(r) ==
  /\ pc[r] = "remembering"
  /\ cache' = [cache EXCEPT ![InstOf[r]] = Remembered(@, view[r])]
  /\ view' = [view EXCEPT ![r] = NoView]
  /\ pc' = [pc EXCEPT ![r] = "idle"]
  /\ UNCHANGED <<log, lock, model, known, staged>>

(* The cache holds at most 500 cases: the oldest is dropped. *)
Evict(i) ==
  /\ cache[i] # NoView
  /\ cache' = [cache EXCEPT ![i] = NoView]
  /\ UNCHANGED <<log, lock, model, pc, known, view, staged>>

(* An instance stops: its cache, its requests and their open transactions go with it. *)
Crash(i) ==
  LET mine == {r \in Requests : InstOf[r] = i} IN
    /\ cache' = [cache EXCEPT ![i] = NoView]
    /\ lock' = IF lock \in mine THEN NoRequest ELSE lock
    /\ pc' = [r \in Requests |-> IF r \in mine THEN "idle" ELSE pc[r]]
    /\ known' = [r \in Requests |-> IF r \in mine THEN NoView ELSE known[r]]
    /\ view' = [r \in Requests |-> IF r \in mine THEN NoView ELSE view[r]]
    /\ staged' = [r \in Requests |-> IF r \in mine THEN <<>> ELSE staged[r]]
    /\ UNCHANGED <<log, model>>

Next ==
  \/ \E r \in Requests : \/ ReadBegin(r) \/ ReadEvents(r) \/ RunLocked(r)
                         \/ Commit(r) \/ Rollback(r) \/ Remember(r)
  \/ \E i \in Instances : Evict(i) \/ Crash(i)

Spec == Init /\ [][Next]_vars

-----------------------------------------------------------------------------
(* Properties *)

(* Every variable has its type: one type invariant for the log, the lock and the copies of the state. *)
TypeOK ==
  /\ log \in Seq(Events) /\ Len(log) <= MaxLog
  /\ lock \in Requests \cup {NoRequest}
  /\ model \in Views
  /\ cache \in [Instances -> Views \cup {NoView}]
  /\ pc \in [Requests -> {"idle", "reading", "staged", "remembering"}]
  /\ known \in [Requests -> Views \cup {NoView}]
  /\ view \in [Requests -> Views \cup {NoView}]
  /\ staged \in [Requests -> Seq(Events)]

(* No copy of the state (read model, any instance's cache, a request's) is ahead of the committed log, *)
(* misses an event or counts one twice, whatever rolls back, crashes or overtakes (withMatterLock,       *)
(* foldOnto, remember).  Undone completions are all that may be over-counted.                            *)
CopiesFaithful ==
  /\ Faithful(model, log)
  /\ \A i \in Instances : cache[i] # NoView => Faithful(cache[i], log)
  /\ \A r \in Requests : known[r] # NoView => Faithful(known[r], log)
  /\ \A r \in Requests : pc[r] = "remembering" => view[r] # NoView /\ Faithful(view[r], log)

(* The read model is never behind the log: whoever commits an event commits its read model with it (afterAppend). *)
ReadModelCurrent == model.last = Len(log)

(* The expectedLastSeq check is never the one that refuses: under the lock, the remembered state plus the *)
(* events after it ends where the log ends, so no command fails with ConcurrencyError (store.ts append).    *)
NoConcurrencyError == lock = NoRequest => \A i \in Instances : Current(cache[i], log).last = Len(log)

UndoesOnce(l) ==
  \A j \in 1..Len(l) : IsUndo(l[j]) =>
    /\ l[j].of \in 1..(j-1)
    /\ l[l[j].of] = Done(l[j].step)
    /\ \A i \in 1..(j-1) : ~(IsUndo(l[i]) /\ l[i].of = l[j].of)
    /\ ~\E i \in l[j].of..j : l[i] = Advanced

(* A completion is undone at most once, by an event after it, and never across a stage advance: *)
(* the undo decided on an instance's remembered state is right about the log it is appended to. *)
UndoneOnce == UndoesOnce(log)

Advances(l) ==
  \A k \in 1..Len(l) : l[k] = Advanced =>
    /\ \A s \in Steps : \E j \in 1..k : l[j] = Done(s)
    /\ \A j \in 1..(k-1) : l[j] # Advanced

(* What a stage advanced on was there: each step it needs had been completed before it, at most undone since. *)
AdvanceJustified == Advances(log)

(* The log is append-only, and what an instance remembers never goes back except by being dropped. *)
AppendOnly == SubSeq(log', 1, Len(log)) = log
NeverForgets == \A i \in Instances : cache[i] # NoView /\ cache'[i] # NoView => cache'[i].last >= cache[i].last
LogGrowsCacheAdvances == [][AppendOnly /\ NeverForgets]_vars

(* Whatever instances serve a matter, remember of it, lose or overtake each other in, its log and its read model
   are those of one server that handles one command at a time (EngineService.run under withMatterLock). *)
Serial == INSTANCE SerialLog
SerialSpec == Serial!Spec

(* What docs/engine-map.md says (replaying the log reproduces the live state exactly): the read model *)
(* is the projection of the log.                                                                      *)
ReadModelIsReplay == model = Replay(log)
=============================================================================

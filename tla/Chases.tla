------------------------------- MODULE Chases -------------------------------
(***************************************************************************)
(* Chasing what one party owes the matter (lib/server/engine: service.ts,   *)
(* sla.ts, machine.ts, loop-guard.ts): the timer that finds what is due,    *)
(* the trust gate that puts a chase to a person as a proposal or lets it    *)
(* go, the approval, rejection and retry of a proposal, the sending, which  *)
(* is outside any transaction, and the recording of what became of it.      *)
(*                                                                          *)
(* Every command takes the matter's lock and is one step (module           *)
(* MatterLog).  A job is what a run of the timer does for one of the chases *)
(* it found due (the others are jobs of their own), or the work that        *)
(* follows a person's click: commands, reads without the lock and calls to  *)
(* the mail provider, interleaved with those of other jobs.  All waits are  *)
(* on one party, so that failed sends share one task (they have one title). *)
(* Escalations of waits, manual sends and absences are not modelled.        *)
(***************************************************************************)
EXTENDS Naturals, Sequences, FiniteSets, Functions

CONSTANTS
  Waits,        \* what the party may owe: a wait's key and subject
  Enquiries,    \* those of Waits that are replies to enquiries, chased in one letter
  Replies,      \* the dedup key of that letter
  Jobs,         \* jobs that may run at once
  NoWait, NoTask,
  MaxProposals, \* bound on the proposals made
  MaxClicks,    \* bound on the decisions to send them
  MaxCrashes    \* bound on the jobs that are lost and the failures that cannot be recorded

ASSUME WaitsAssumption == Enquiries \subseteq Waits /\ Replies \notin Waits /\ NoWait \notin Waits
ASSUME JobsAssumption == IsFiniteSet(Jobs)
ASSUME TaskAssumption == NoTask \notin Nat
ASSUME BoundsAssumption == MaxProposals \in Nat /\ MaxClicks \in Nat /\ MaxCrashes \in Nat

VARIABLES
  open,      \* the open waits
  due,       \* those whose chase is due by the SLA rules
  proposals, \* the chases proposed, in order, with (as a record for the properties) their letters and clicks
  task,      \* the open send_failed issue: the proposal it is about (0: none, the system's own send), or NoTask
  completed, \* completion has been confirmed (the case is chased on until it is closed)
  jobs,
  crashes

vars == <<open, due, proposals, task, completed, jobs, crashes>>
case == <<open, due, proposals, task, completed>>

-----------------------------------------------------------------------------
(* Proposals *)

Statuses == {"pending", "approved", "rejected", "failed"}
Proposals == [wait : Waits, also : SUBSET Enquiries, status : Statuses, quiet : BOOLEAN,
              letters : Nat, clicks : Nat, lost : BOOLEAN]

Ids == 1..Len(proposals)

DedupKey(w) == IF w \in Enquiries THEN Replies ELSE w

Pending(key) == \E k \in Ids : DedupKey(proposals[k].wait) = key /\ proposals[k].status = "pending"

(* Mutant: a rejection silences its key for good. *)
QuietForever(key) == \E k \in Ids : DedupKey(proposals[k].wait) = key /\ proposals[k].status = "rejected"

(* A rejection, the system's withdrawals included, keeps its key quiet for five days. *)
Quiet(key) == \E k \in Ids : /\ DedupKey(proposals[k].wait) = key
                             /\ proposals[k].status = "rejected" /\ proposals[k].quiet

(* automatic, after every command: a pending chase whose key is not that of an open wait is withdrawn. *)
Withdrawn(ps, waits) ==
  [k \in 1..Len(ps) |->
    IF ps[k].status = "pending" /\ DedupKey(ps[k].wait) \notin waits
    THEN [ps[k] EXCEPT !.status = "rejected", !.quiet = TRUE]
    ELSE ps[k]]

-----------------------------------------------------------------------------
(* Jobs *)

Idle == [pc |-> "idle", by |-> "none", wait |-> NoWait, also |-> {}, left |-> {}, proposal |-> 0]

(* The other enquiries that go in one letter with w. *)
Also(w, waits) == IF w \in Enquiries THEN (waits \cap Enquiries) \ {w} ELSE {}

Performing(by, w, also, k) == [Idle EXCEPT !.pc = "performing", !.by = by, !.wait = w, !.also = also, !.proposal = k]

(* What a job does after its letter has gone and been recorded, and after it has not. *)
AfterSent(job) == IF job.by = "retry" THEN [job EXCEPT !.pc = "retried"] ELSE Idle

AfterFailure(job) ==
  CASE job.by = "approval" -> [job EXCEPT !.pc = "failed", !.left = {}]
    [] job.by = "person" -> Idle  \* chaseNow: the person is told there and then
    [] OTHER -> [job EXCEPT !.pc = "reporting", !.left = {}]

Clicks == FoldFunction(LAMBDA p, n : p.clicks + n, 0, proposals)

InFlight(k) == \E j \in Jobs : jobs[j].proposal = k

-----------------------------------------------------------------------------

Init ==
  /\ open = {} /\ due = {}
  /\ proposals = <<>>
  /\ task = NoTask
  /\ completed = FALSE
  /\ jobs = [j \in Jobs |-> Idle]
  /\ crashes = 0

(* Something is asked of the party (asked again, it is a new wait). *)
OpenWait(w) ==
  /\ open' = open \cup {w}
  /\ due' = due \ {w}
  /\ proposals' = Withdrawn(proposals, open')
  /\ UNCHANGED <<task, completed, jobs, crashes>>

(* Mutant: what has arrived stays due. *)
ArriveStillDue(w) ==
  /\ w \in open
  /\ open' = open \ {w}
  /\ proposals' = Withdrawn(proposals, open')
  /\ UNCHANGED <<due, task, completed, jobs, crashes>>

(* It arrives: the wait is closed. *)
Arrive(w) ==
  /\ w \in open
  /\ open' = open \ {w}
  /\ due' = due \ {w}
  /\ proposals' = Withdrawn(proposals, open')
  /\ UNCHANGED <<task, completed, jobs, crashes>>

(* completion_confirmed; what it closes arrives. *)
Complete ==
  /\ ~completed /\ completed' = TRUE
  /\ UNCHANGED <<open, due, proposals, task, jobs, crashes>>

(* Time passes: a chase falls due by the SLA rules; a rejection is five days old. *)
FallDue(w) ==
  /\ w \in open \ due
  /\ due' = due \cup {w}
  /\ UNCHANGED <<open, proposals, task, completed, jobs, crashes>>

QuietEnds(k) ==
  /\ proposals[k].quiet
  /\ proposals' = [proposals EXCEPT ![k].quiet = FALSE]
  /\ UNCHANGED <<open, due, task, completed, jobs, crashes>>

-----------------------------------------------------------------------------
(* The timer *)

(* tick: a chase that is due, as the timer's run read it when it began. *)
TimerBegin(j, w) ==
  /\ jobs[j] = Idle
  /\ w \in due
  /\ jobs' = [jobs EXCEPT ![j] = [Idle EXCEPT !.pc = "choosing", !.by = "timer", !.wait = w, !.also = Also(w, open)]]
  /\ UNCHANGED <<case, crashes>>

(* proposeUnless, read without the lock: the chase goes ahead (what the trust level, manual handling and *)
(* an email not yet answered say is left open), or it is proposed unless it already is or was turned down. *)
TimerNext(j) ==
  LET key == DedupKey(jobs[j].wait) IN
    /\ jobs[j].pc = "choosing"
    /\ \/ jobs' = [jobs EXCEPT ![j].pc = "performing"]
       \/ jobs' = [jobs EXCEPT ![j] = IF Pending(key) \/ Quiet(key) THEN Idle ELSE [@ EXCEPT !.pc = "proposing"]]
    /\ UNCHANGED <<case, crashes>>

NewProposal(job) ==
  [wait |-> job.wait, also |-> job.also, status |-> "pending", quiet |-> FALSE,
   letters |-> 0, clicks |-> 0, lost |-> FALSE]

(* Mutant: only the unlocked check decides whether the chase is already proposed. *)
ProposeAgain(j) ==
  LET job == jobs[j] IN
    /\ job.pc = "proposing"
    /\ Len(proposals) < MaxProposals
    /\ proposals' = Withdrawn(Append(proposals, NewProposal(job)), open)
    /\ jobs' = [jobs EXCEPT ![j] = Idle]
    /\ UNCHANGED <<open, due, task, completed, crashes>>

(* Mutant: the automatic rules are not run after the proposal. *)
ProposeOnly(j) ==
  LET job == jobs[j] IN
    /\ job.pc = "proposing"
    /\ \/ Pending(DedupKey(job.wait)) /\ UNCHANGED proposals
       \/ /\ ~Pending(DedupKey(job.wait)) /\ Len(proposals) < MaxProposals
          /\ proposals' = Append(proposals, NewProposal(job))
    /\ jobs' = [jobs EXCEPT ![j] = Idle]
    /\ UNCHANGED <<open, due, task, completed, crashes>>

(* propose_action, by its dedup key: already proposed is no failure. *)
Propose(j) ==
  LET job == jobs[j] IN
    /\ job.pc = "proposing"
    /\ \/ Pending(DedupKey(job.wait)) /\ UNCHANGED proposals
       \/ /\ ~Pending(DedupKey(job.wait)) /\ Len(proposals) < MaxProposals
          /\ proposals' = Withdrawn(Append(proposals, NewProposal(job)), open)
    /\ jobs' = [jobs EXCEPT ![j] = Idle]
    /\ UNCHANGED <<open, due, task, completed, crashes>>

-----------------------------------------------------------------------------
(* Sending and recording *)

(* perform: which waits the letter covers is read, and it is sent. *)
Send(j) ==
  LET job == jobs[j]
      k == job.proposal IN
    /\ job.pc = "performing"
    /\ \/ /\ jobs' = [jobs EXCEPT ![j] = [job EXCEPT !.pc = "recording", !.left = {job.wait} \cup (job.also \cap open)]]
          /\ proposals' = IF k = 0 THEN proposals ELSE [proposals EXCEPT ![k].letters = @ + 1]
       \/ /\ jobs' = [jobs EXCEPT ![j] = AfterFailure(job)]
          /\ UNCHANGED proposals
    /\ UNCHANGED <<open, due, task, completed, crashes>>

(* The wait to record next: the one the chase is about first. *)
Recording(job, w) == /\ job.pc = "recording" /\ w \in job.left
                     /\ job.wait \in job.left => w = job.wait

Chased(job, w) == LET rest == [job EXCEPT !.left = @ \ {w}] IN IF rest.left = {} THEN AfterSent(rest) ELSE rest

(* Mutant: what could not be recorded is sent again. *)
RecordOrResend(j) ==
  \E w \in jobs[j].left :
    /\ Recording(jobs[j], w)
    /\ \/ /\ w \in open
          /\ due' = due \ {w}
          /\ jobs' = [jobs EXCEPT ![j] = Chased(jobs[j], w)]
       \/ /\ w \notin open
          /\ jobs' = [jobs EXCEPT ![j].pc = "performing"]
          /\ UNCHANGED due
    /\ UNCHANGED <<open, proposals, task, completed, crashes>>

(* record_chase: refused when the wait is no longer open, and the whole sending then counts as failed. *)
Record(j) ==
  \E w \in jobs[j].left :
    /\ Recording(jobs[j], w)
    /\ \/ /\ w \in open
          /\ due' = due \ {w}
          /\ jobs' = [jobs EXCEPT ![j] = Chased(jobs[j], w)]
       \/ /\ w \notin open
          /\ jobs' = [jobs EXCEPT ![j] = AfterFailure(jobs[j])]
          /\ UNCHANGED due
    /\ UNCHANGED <<open, proposals, task, completed, crashes>>

(* Mutant: the failure of an approved chase is put on the Tasks list only. *)
FailUnrecorded(j) ==
  /\ jobs[j].pc = "failed"
  /\ jobs' = [jobs EXCEPT ![j].pc = "reporting"]
  /\ UNCHANGED <<case, crashes>>

(* What is only logged when it cannot be done. *)
Swallowed == crashes < MaxCrashes /\ crashes' = crashes + 1

(* record_action_failed. *)
Fail(j) ==
  /\ jobs[j].pc = "failed"
  /\ proposals' = [proposals EXCEPT ![jobs[j].proposal].status = "failed"]
  /\ jobs' = [jobs EXCEPT ![j].pc = "reporting"]
  /\ UNCHANGED <<open, due, task, completed, crashes>>

(* record_action_failed, when it cannot be recorded. *)
FailLost(j) ==
  /\ jobs[j].pc = "failed" /\ Swallowed
  /\ proposals' = [proposals EXCEPT ![jobs[j].proposal].lost = TRUE]
  /\ jobs' = [jobs EXCEPT ![j].pc = "reporting"]
  /\ UNCHANGED <<open, due, task, completed>>

(* recordSendFailure: one task for all the chases of the party that could not be sent; none once the case has *)
(* completed, nor when it cannot be raised. *)
Report(j) ==
  /\ jobs[j].pc = "reporting"
  /\ task' = IF task = NoTask /\ ~completed THEN jobs[j].proposal ELSE task
  /\ jobs' = [jobs EXCEPT ![j] = Idle]
  /\ UNCHANGED <<open, due, proposals, completed, crashes>>

ReportLost(j) ==
  /\ jobs[j].pc = "reporting" /\ Swallowed
  /\ jobs' = [jobs EXCEPT ![j] = Idle]
  /\ UNCHANGED case

(* record_action_retried, and after it the task about that proposal is resolved. *)
Retried(j) ==
  LET job == jobs[j]
      k == job.proposal IN
    /\ job.pc = "retried"
    /\ IF proposals[k].status \in {"failed", "rejected"}
       THEN /\ proposals' = [proposals EXCEPT ![k].status = "approved"]
            /\ jobs' = [jobs EXCEPT ![j].pc = "closing"]
       ELSE /\ jobs' = [jobs EXCEPT ![j] = Idle]
            /\ UNCHANGED proposals
    /\ UNCHANGED <<open, due, task, completed, crashes>>

Closing(j) ==
  /\ jobs[j].pc = "closing"
  /\ task' = IF task = jobs[j].proposal THEN NoTask ELSE task
  /\ jobs' = [jobs EXCEPT ![j] = Idle]
  /\ UNCHANGED <<open, due, proposals, completed, crashes>>

-----------------------------------------------------------------------------
(* What people do *)

Approve(k, j) ==
  /\ proposals[k].status = "pending"
  /\ Clicks < MaxClicks
  /\ jobs[j] = Idle
  /\ proposals' = [proposals EXCEPT ![k].status = "approved", ![k].clicks = @ + 1]
  /\ jobs' = [jobs EXCEPT ![j] = Performing("approval", proposals[k].wait, proposals[k].also, k)]
  /\ UNCHANGED <<open, due, task, completed, crashes>>

Reject(k) ==
  /\ proposals[k].status = "pending"
  /\ proposals' = [proposals EXCEPT ![k].status = "rejected", ![k].quiet = TRUE]
  /\ UNCHANGED <<open, due, task, completed, jobs, crashes>>

(* retryFailedAction: its check is made without the lock. *)
Retry(k, j) ==
  /\ proposals[k].status \in {"failed", "rejected"}
  /\ Clicks < MaxClicks
  /\ jobs[j] = Idle
  /\ proposals' = [proposals EXCEPT ![k].clicks = @ + 1]
  /\ jobs' = [jobs EXCEPT ![j] = Performing("retry", proposals[k].wait, proposals[k].also, k)]
  /\ UNCHANGED <<open, due, task, completed, crashes>>

ChaseNow(w, j) ==
  /\ w \in open
  /\ jobs[j] = Idle
  /\ jobs' = [jobs EXCEPT ![j] = Performing("person", w, Also(w, open), 0)]
  /\ UNCHANGED <<case, crashes>>

ResolveTask ==
  /\ task # NoTask
  /\ task' = NoTask
  /\ UNCHANGED <<open, due, proposals, completed, jobs, crashes>>

(* The function instance that runs a job stops: nothing remembers where it was. *)
Crash(j) ==
  LET k == jobs[j].proposal IN
    /\ jobs[j] # Idle /\ crashes < MaxCrashes
    /\ proposals' = IF k = 0 THEN proposals ELSE [proposals EXCEPT ![k].lost = TRUE]
    /\ jobs' = [jobs EXCEPT ![j] = Idle]
    /\ crashes' = crashes + 1
    /\ UNCHANGED <<open, due, task, completed>>

-----------------------------------------------------------------------------

JobStep(j) ==
  \/ TimerNext(j) \/ Propose(j)
  \/ Send(j) \/ Record(j)
  \/ Fail(j) \/ Report(j) \/ Retried(j) \/ Closing(j)

Next ==
  \/ \E w \in Waits : OpenWait(w) \/ Arrive(w) \/ FallDue(w)
  \/ \E k \in Ids : QuietEnds(k) \/ Reject(k)
  \/ \E j \in Jobs : JobStep(j) \/ FailLost(j) \/ ReportLost(j) \/ Crash(j)
  \/ \E j \in Jobs, k \in Ids : Approve(k, j) \/ Retry(k, j)
  \/ \E j \in Jobs, w \in Waits : TimerBegin(j, w) \/ ChaseNow(w, j)
  \/ ResolveTask \/ Complete

Spec == Init /\ [][Next]_vars

(* A job that runs goes on; the cron comes round again and again; five days pass. *)
Fairness ==
  /\ \A j \in Jobs : WF_vars(JobStep(j))
  /\ \A w \in Waits : SF_vars(\E j \in Jobs : TimerBegin(j, w))
  /\ WF_vars(\E k \in Ids : QuietEnds(k))

FairSpec == Spec /\ Fairness

-----------------------------------------------------------------------------
(* Properties *)

(* Only what is still open is due a chase, a job that records has something to record, *)
(* and the other variables have their types. *)
TypeOK ==
  /\ open \subseteq Waits /\ due \subseteq open
  /\ proposals \in Seq(Proposals) /\ Len(proposals) <= MaxProposals
  /\ task \in Ids \cup {0, NoTask} /\ completed \in BOOLEAN
  /\ \A j \in Jobs : /\ jobs[j].proposal \in Ids \cup {0}
                     /\ jobs[j].also \subseteq Enquiries /\ jobs[j].wait \in Waits \cup {NoWait}
                     /\ jobs[j].pc = "recording" => jobs[j].left # {}
  /\ crashes \in 0..MaxCrashes

(* "One proposal per key at a time" (proposeUnless), however the runs of the timer overlap. *)
OnePendingPerKey ==
  \A k, l \in Ids : /\ proposals[k].status = "pending" /\ proposals[l].status = "pending"
                    /\ DedupKey(proposals[k].wait) = DedupKey(proposals[l].wait)
                    => k = l

(* Nobody is asked to approve a chase for what has arrived, though the timer that proposes it read the *)
(* waits before it arrived. *)
PendingIsOutstanding == \A k \in Ids : proposals[k].status = "pending" => proposals[k].wait \in open

(* A proposed chase is not sent more often than people decided to send it: no failure, crash or *)
(* overlap of approvals and retries sends it by itself. *)
SentAsDecided == \A k \in Ids : proposals[k].letters <= proposals[k].clicks

(* An approved chase went, is on its way, or its job or the record of its failure was lost: it is never left *)
(* approved only because its sending failed (record_action_failed). *)
ApprovedWent ==
  \A k \in Ids : proposals[k].status = "approved" => proposals[k].letters > 0 \/ InFlight(k) \/ proposals[k].lost

(* The decisions to send that a job has yet to carry out. *)
Owing(k) == {j \in Jobs : jobs[j].pc = "performing" /\ jobs[j].proposal = k}

(* The proposals, jobs and crashes keep the promise of module ChaseDecisions: a letter spends a decision, and a *)
(* decision whose sending failed, or was lost with its job, is spent without a letter. *)
Standing(status) == IF status = "approved" THEN "going" ELSE IF status = "pending" THEN "pending" ELSE "stopped"

Decisions == INSTANCE ChaseDecisions WITH
  Keys <- Waits \cup {Replies},
  outstanding <- open,
  chases <- [k \in Ids |-> [key |-> DedupKey(proposals[k].wait), status |-> Standing(proposals[k].status),
                            owed |-> Cardinality(Owing(k)), letters |-> proposals[k].letters]]

DecisionsSpec == Decisions!Spec

Tried(w) == \E j \in Jobs : jobs[j].pc = "performing" /\ jobs[j].wait = w

(* "a failed effect is logged and shows up as a stage blocker or is picked up by the next tick" *)
(* (docs/conveyance-engine.md): a wait, other than an enquiry, that is due a chase is chased, arrives, is put to *)
(* a person as a proposal or is on the Tasks list, whatever fails or is lost on the way.  Once the case has *)
(* completed it may only be tried by the next tick, and the next: recordSendFailure then raises no task. *)
OutstandingIsPut ==
  \A w \in Waits \ Enquiries :
    w \in due ~> \/ w \notin due \/ Pending(w) \/ task # NoTask \/ (completed /\ Tried(w))
                  \/ Len(proposals) = MaxProposals

(* "Withdrawn by the engine: what was being chased has arrived." (automatic): a chase that is rejected by *)
(* the engine, as it is proposed or later, is for a wait that is closed. *)
WithdrawnHasArrived ==
  [][\A k \in 1..Len(proposals') :
       /\ proposals'[k].status = "rejected"
       /\ k \in Ids => proposals[k].status = "pending" /\ ~Reject(k)
       => proposals'[k].wait \notin open']_vars
=============================================================================

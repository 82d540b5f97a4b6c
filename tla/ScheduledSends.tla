--------------------------- MODULE ScheduledSends ---------------------------
(***************************************************************************)
(* Deferred sending (lib/server/scheduledSend.ts): a draft in somebody's    *)
(* mailbox is parked, may be cancelled, and is sent by the next sweep after *)
(* its time.  Sweeps run from the worklist page and from cron, and overlap. *)
(*                                                                          *)
(* A sweep selects a batch and goes through it without looking at the rows  *)
(* again.  The mailbox is outside: its owner may send or delete a draft,    *)
(* and a draft that is gone is either reported as no longer a draft or not  *)
(* found at all.                                                            *)
(***************************************************************************)
EXTENDS Naturals, FiniteSets

CONSTANTS
  Rows,       \* the sends that may be scheduled, each with a draft of its own; numbered by scheduled_at
  Sweeps,     \* the sweeps that may run at once
  BatchLimit, \* the rows one sweep takes
  MaxLost     \* bound on the sweeps lost with their server

ASSUME RowsAssumption == Rows \subseteq Nat
ASSUME BatchAssumption == BatchLimit \in Nat \ {0} /\ MaxLost \in Nat

VARIABLES
  row,     \* per send: the status of its row
  due,     \* the sends whose time has come
  draft,   \* per send: where its draft is
  sweep,   \* per sweep: the sends it still has to go through, and whether the soonest has been sent
  inTime,  \* sends cancelled while no sweep had them in its batch
  lost     \* the sweeps lost so far

sendVars == <<row, due, draft, sweep, inTime, lost>>

-----------------------------------------------------------------------------
RowStatuses == {"none", "PENDING", "SENT", "CANCELLED"}
Drafts == {"draft", "sent", "gone"}   \* gone: its owner sent or deleted it
Idle == [todo |-> {}, sent |-> FALSE]

SendTypeOK ==
  /\ row \in [Rows -> RowStatuses]
  /\ due \subseteq Rows
  /\ draft \in [Rows -> Drafts]
  /\ sweep \in [Sweeps -> [todo : SUBSET Rows, sent : BOOLEAN]]
  /\ inTime \subseteq Rows /\ lost \in Nat
  /\ \A w \in Sweeps : Cardinality(sweep[w].todo) <= BatchLimit /\ (sweep[w].sent => sweep[w].todo # {})

SendInit ==
  /\ row = [r \in Rows |-> "none"] /\ due = {} /\ draft = [r \in Rows |-> "draft"]
  /\ sweep = [w \in Sweeps |-> Idle] /\ inTime = {} /\ lost = 0

Pending(r) == row[r] = "PENDING"
Held(r) == \E w \in Sweeps : r \in sweep[w].todo

Before(r, rows) == {q \in rows : q < r}
Soonest(rows) == {r \in rows : Cardinality(Before(r, rows)) < BatchLimit}

(* Mutant: cancelled and sent rows are selected too. *)
AnyBatch == Soonest(due)

(* Mutant: no limit. *)
WholeBatch == {r \in due : Pending(r)}

(* The pending rows that are due, as many of the soonest as one sweep takes. *)
Batch == Soonest({r \in due : Pending(r)})

-----------------------------------------------------------------------------
(* A send is scheduled for a time to come. *)
Schedule(r) ==
  /\ row[r] = "none" /\ \A q \in due : q < r
  /\ row' = [row EXCEPT ![r] = "PENDING"]
  /\ UNCHANGED <<due, draft, sweep, inTime, lost>>

FallsDue(r) ==
  /\ Pending(r) /\ r \notin due
  /\ \A q \in Rows : q < r /\ Pending(q) => q \in due
  /\ due' = due \cup {r}
  /\ UNCHANGED <<row, draft, sweep, inTime, lost>>

Cancel(r) ==
  /\ Pending(r)
  /\ row' = [row EXCEPT ![r] = "CANCELLED"]
  /\ inTime' = IF Held(r) THEN inTime ELSE inTime \cup {r}
  /\ UNCHANGED <<due, draft, sweep, lost>>

(* The mailbox's owner sends or deletes the draft. *)
TakeDraft(r) == draft[r] = "draft" /\ draft' = [draft EXCEPT ![r] = "gone"] /\ UNCHANGED <<row, due, sweep, inTime, lost>>

SweepStarts(w) ==
  /\ sweep[w] = Idle /\ Batch # {}
  /\ sweep' = [sweep EXCEPT ![w] = [todo |-> Batch, sent |-> FALSE]]
  /\ UNCHANGED <<row, due, draft, inTime, lost>>

(* A batch is gone through soonest first. *)
Foremost(w, r) == r \in sweep[w].todo /\ Before(r, sweep[w].todo) = {}

(* Mutant: a sweep ends with the first row, sent or not. *)
EndsThere(w, r) == sweep' = [sweep EXCEPT ![w] = Idle]

GoesOn(w, r) == sweep' = [sweep EXCEPT ![w] = [todo |-> sweep[w].todo \ {r}, sent |-> FALSE]]

(* sendDraftMessage goes through. *)
Send(w, r) ==
  /\ Foremost(w, r) /\ ~sweep[w].sent /\ draft[r] = "draft"
  /\ draft' = [draft EXCEPT ![r] = "sent"]
  /\ sweep' = [sweep EXCEPT ![w].sent = TRUE]
  /\ UNCHANGED <<row, due, inTime, lost>>

Settles(r) == row' = [row EXCEPT ![r] = "SENT"]

(* It is refused: "no longer a draft" settles the row, any other error leaves it to the next sweep. *)
Refused(w, r) ==
  /\ Foremost(w, r) /\ ~sweep[w].sent
  /\ UNCHANGED row \/ (draft[r] # "draft" /\ Settles(r))
  /\ GoesOn(w, r)
  /\ UNCHANGED <<due, draft, inTime, lost>>

(* The row is marked as sent, whatever it says by now; or the send's answer or the update is lost. *)
Mark(w, r) ==
  /\ Foremost(w, r) /\ sweep[w].sent
  /\ Settles(r) \/ UNCHANGED row
  /\ GoesOn(w, r)
  /\ UNCHANGED <<due, draft, inTime, lost>>

LoseSweep(w) ==
  /\ sweep[w] # Idle /\ lost < MaxLost
  /\ sweep' = [sweep EXCEPT ![w] = Idle] /\ lost' = lost + 1
  /\ UNCHANGED <<row, due, draft, inTime>>

SweepStep(w) == SweepStarts(w) \/ \E r \in Rows : Send(w, r) \/ Refused(w, r) \/ Mark(w, r)

SendNext ==
  \/ \E r \in Rows : Schedule(r) \/ FallsDue(r) \/ Cancel(r) \/ TakeDraft(r)
  \/ \E w \in Sweeps : SweepStep(w) \/ LoseSweep(w)

(* Some sweep goes on, and a send that is tried again and again goes through. *)
SendFairness ==
  /\ WF_sendVars(\E w \in Sweeps : SweepStep(w))
  /\ \A r \in Rows : SF_sendVars(\E w \in Sweeps : Send(w, r))

SendSpec == SendInit /\ [][SendNext]_sendVars /\ SendFairness

-----------------------------------------------------------------------------
(* A send cancelled while no sweep had it in its batch never leaves the mailbox afterwards: "a cancel just
   abandons the schedule and leaves the draft" (cancelScheduledSend, processDueSends). *)
CancelledInTime == [][\A r \in inTime : draft'[r] = "sent" => draft[r] = "sent"]_sendVars

(* The rows that may keep their place in every batch: the draft is gone, and the mailbox does not say so. *)
Stuck == {r \in Rows : Pending(r) /\ draft[r] # "draft"}

(* A send that is due goes, unless it is cancelled or its draft is taken: failures, lost answers and crashes
   only delay it, as long as fewer rows than a batch holds stay stuck in front of it. *)
DueSettles ==
  []<>(Cardinality(Stuck) < BatchLimit) =>
    \A r \in Rows : (Pending(r) /\ r \in due) ~> (~Pending(r) \/ draft[r] # "draft")
=============================================================================

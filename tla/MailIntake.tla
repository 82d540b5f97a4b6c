----------------------------- MODULE MailIntake -----------------------------
(***************************************************************************)
(* A mailbox's new mail (lib/server/mail: queue.ts, auto-file.ts and        *)
(* incoming.ts, and the notification route): each message goes on the       *)
(* filing queue, or to the case its conversation is on.                     *)
(*                                                                          *)
(* Notifications come any number of times or not at all; sweeps of the      *)
(* inbox, run from the pages that show the queue, catch what they miss.     *)
(* Both read where a conversation stands and act on it later, while a       *)
(* person puts it on a case or sets it aside.                               *)
(***************************************************************************)
EXTENDS Naturals, Sequences, SequencesExt, FiniteSets

CONSTANTS
  Messages,
  Conversations,
  ConversationOf(_), \* the conversation a message is in
  Handlers,          \* the requests that may run at once
  NoMessage,
  PageSize,          \* the messages on a page of the inbox
  MaxNotices,        \* bound on the notifications of one message
  MaxDropped         \* bound on the requests lost with their server and the rows that could not be written

ASSUME MessagesAssumption ==
  NoMessage \notin Messages /\ \A m \in Messages : ConversationOf(m) \in Conversations
ASSUME MailBoundsAssumption == PageSize \in Nat \ {0} /\ MaxNotices \in Nat /\ MaxDropped \in Nat

VARIABLES
  inbox,    \* the messages that arrived, newest first
  notices,  \* per message: the notifications still to come
  mail,     \* per message: what the system has recorded of it
  thread,   \* per conversation: open, on a case, or set aside
  handler,  \* per request: what it is doing
  passed,   \* messages passed over, after they were recorded, because their conversation had been dealt with
  dropped   \* what failed, with a count: the messages that lost requests were on, where they had recorded or
            \* claimed them; and the messages whose row on the queue could not be written

mailVars == <<inbox, notices, mail, thread, handler, passed, dropped>>

-----------------------------------------------------------------------------
(* Per message: whether it strays (names another case than its conversation's, or is no reply to us); its
   triage record; who claimed its filing; its row on the queue; how often it was filed to the case unasked. *)
MailStates == [strays : BOOLEAN, triaged : BOOLEAN, claim : {"none", "auto", "hand"},
               queue : {"none", "open", "FILED", "SET_ASIDE"}, filed : Nat]
NoMail == [strays |-> FALSE, triaged |-> FALSE, claim |-> "none", queue |-> "none", filed |-> 0]

(* A request at work on a message: a notification's, a sweep's, or that of a person who linked its
   conversation.  linked: the conversation was found to be on a case, or (by a sweep) dealt with. *)
HandlerStates ==
  [at : {"idle", "match", "record", "check", "insert", "claim", "file", "note", "weigh", "by hand"},
   msg : Messages \cup {NoMessage}, sweeping : BOOLEAN, linked : BOOLEAN]
IdleHandler == [at |-> "idle", msg |-> NoMessage, sweeping |-> FALSE, linked |-> FALSE]

MailTypeOK ==
  /\ inbox \in Seq(Messages) /\ IsInjective(inbox)
  /\ notices \in [Messages -> 0 .. MaxNotices]
  /\ mail \in [Messages -> MailStates]
  /\ thread \in [Conversations -> {"open", "case", "aside"}]
  /\ handler \in [Handlers -> HandlerStates]
  /\ passed \subseteq Messages
  /\ dropped \in [messages : SUBSET Messages, unqueued : SUBSET Messages, count : 0 .. MaxDropped]

MailInit ==
  /\ inbox = <<>> /\ notices = [m \in Messages |-> 0] /\ mail = [m \in Messages |-> NoMail]
  /\ thread \in [Conversations -> {"open", "case", "aside"}] /\ handler = [h \in Handlers |-> IdleHandler]
  /\ passed = {} /\ dropped = [messages |-> {}, unqueued |-> {}, count |-> 0]

Arrived(m) == Contains(inbox, m)
ThreadOf(m) == thread[ConversationOf(m)]
FirstPage == SubSeq(inbox, 1, IF Len(inbox) < PageSize THEN Len(inbox) ELSE PageSize)

Arrives(m) ==
  /\ ~Arrived(m)
  /\ inbox' = <<m>> \o inbox
  /\ \E n \in 0 .. MaxNotices : notices' = [notices EXCEPT ![m] = n]
  /\ \E b \in BOOLEAN : mail' = [mail EXCEPT ![m].strays = b]
  /\ UNCHANGED <<thread, handler, passed, dropped>>

-----------------------------------------------------------------------------
Starts(h, s) == handler[h] = IdleHandler /\ handler' = [handler EXCEPT ![h] = s]
GoesTo(h, at) == handler' = [handler EXCEPT ![h].at = at]

Finishes(h) == handler' = [handler EXCEPT ![h] = IdleHandler]

(* A sweep that dealt with a message itself records that it did. *)
NotesIfSweeping(h) == IF handler[h].sweeping THEN GoesTo(h, "note") ELSE Finishes(h)

(* processIncomingMessage: the message is matched, and recorded once it has been classified. *)

Notified(h, m) ==
  /\ notices[m] > 0 /\ notices' = [notices EXCEPT ![m] = @ - 1]
  /\ Starts(h, [IdleHandler EXCEPT !.at = "match", !.msg = m])
  /\ UNCHANGED <<inbox, mail, thread, passed, dropped>>

Matches(h) ==
  /\ handler[h].at = "match"
  /\ handler' = [handler EXCEPT ![h].at = "record", ![h].linked = (ThreadOf(handler[h].msg) = "case")]
  /\ UNCHANGED <<inbox, notices, mail, thread, passed, dropped>>

Records(h) ==
  LET m == handler[h].msg IN
  /\ handler[h].at = "record"
  /\ mail' = [mail EXCEPT ![m].triaged = TRUE]
  /\ GoesTo(h, IF ~handler[h].linked THEN "check" ELSE IF mail[m].strays THEN "insert" ELSE "claim")
  /\ UNCHANGED <<inbox, notices, thread, passed, dropped>>

(* enqueueMessage: not if the conversation has been dealt with, unless the message is a forward (some strays
   are); then the row, unless there is one.  A row that cannot be written is only logged, or not even that: the
   request goes on as if it were, and a sweep that held a reply back records that it dealt with it. *)

Checks(h) ==
  LET m == handler[h].msg IN
  /\ handler[h].at = "check"
  /\ \/ (ThreadOf(m) = "open" \/ mail[m].strays) /\ GoesTo(h, "insert") /\ UNCHANGED passed
     \/ ThreadOf(m) # "open" /\ Finishes(h) /\ passed' = (IF mail[m].triaged THEN passed \cup {m} ELSE passed)
  /\ UNCHANGED <<inbox, notices, mail, thread, dropped>>

RowFails(m) ==
  /\ dropped.count < MaxDropped
  /\ dropped' = [dropped EXCEPT !.count = @ + 1, !.unqueued = @ \cup {m}]

Inserts(h) ==
  LET m == handler[h].msg IN
  /\ handler[h].at = "insert"
  /\ \/ mail' = [mail EXCEPT ![m].queue = IF @ = "none" THEN "open" ELSE @] /\ UNCHANGED dropped
     \/ RowFails(m) /\ UNCHANGED mail
  /\ IF handler[h].linked THEN NotesIfSweeping(h) ELSE Finishes(h)
  /\ UNCHANGED <<inbox, notices, thread, passed>>

(* autoFileToCase: the first to claim the message files it. *)

(* Mutant: filing goes ahead whoever claimed the message. *)
AnyoneMayClaim(m) == TRUE

MayClaim(m) == mail[m].claim = "none"

Claims(h) ==
  LET m == handler[h].msg IN
  /\ handler[h].at = "claim"
  /\ IF MayClaim(m) THEN mail' = [mail EXCEPT ![m].claim = "auto"] /\ GoesTo(h, "file")
     ELSE NotesIfSweeping(h) /\ UNCHANGED mail
  /\ UNCHANGED <<inbox, notices, thread, passed, dropped>>

Files(h) ==
  /\ handler[h].at = "file"
  /\ mail' = [mail EXCEPT ![handler[h].msg].filed = @ + 1]
  /\ NotesIfSweeping(h)
  /\ UNCHANGED <<inbox, notices, thread, passed, dropped>>

Notes(h) ==
  /\ handler[h].at = "note"
  /\ mail' = [mail EXCEPT ![handler[h].msg].triaged = TRUE]
  /\ Finishes(h)
  /\ UNCHANGED <<inbox, notices, thread, passed, dropped>>

-----------------------------------------------------------------------------
(* sweepInbox: the first page, message by message, with what was found to be dealt with when it was read. *)
SweepsInbox(h, m) ==
  /\ Contains(FirstPage, m)
  /\ Starts(h, [IdleHandler EXCEPT !.at = "weigh", !.msg = m, !.sweeping = TRUE, !.linked = (ThreadOf(m) # "open")])
  /\ UNCHANGED <<inbox, notices, mail, thread, passed, dropped>>

(* Mutant: a sweep leaves the mail of filed conversations to the notifications. *)
LeavesReplies(m) == TRUE

(* fileMissedReply: nothing to do for one that is not on a case, or is on record. *)
LeavesReply(m) == ThreadOf(m) # "case" \/ mail[m].triaged

Weighs(h) ==
  LET m == handler[h].msg IN
  /\ handler[h].at = "weigh"
  /\ IF mail[m].queue # "none" THEN Finishes(h)
     ELSE IF ~handler[h].linked THEN GoesTo(h, "check")
     ELSE IF LeavesReply(m) THEN Finishes(h)
     ELSE GoesTo(h, IF mail[m].strays THEN "insert" ELSE "claim")
  /\ UNCHANGED <<inbox, notices, mail, thread, passed, dropped>>

-----------------------------------------------------------------------------
(* People.  The thread's record and its rows on the queue change in one step here. *)

Resolves(c, from, to) ==
  mail' = [m \in Messages |-> IF ConversationOf(m) = c /\ mail[m].queue = from THEN [mail[m] EXCEPT !.queue = to] ELSE mail[m]]

(* link-thread: the conversation goes on a case; the message it was linked by, if one was named, is then filed
   by hand. *)
LinksThread(c) ==
  /\ thread[c] # "case"
  /\ thread' = [thread EXCEPT ![c] = "case"]
  /\ Resolves(c, "open", "FILED")
  /\ \/ UNCHANGED handler
     \/ \E h \in Handlers, m \in Messages :
          Arrived(m) /\ ConversationOf(m) = c /\ Starts(h, [IdleHandler EXCEPT !.at = "by hand", !.msg = m])
  /\ UNCHANGED <<inbox, notices, passed, dropped>>

FilesByHand(h) ==
  /\ handler[h].at = "by hand"
  /\ mail' = [mail EXCEPT ![handler[h].msg].claim = IF @ = "none" THEN "hand" ELSE @]
  /\ Finishes(h)
  /\ UNCHANGED <<inbox, notices, thread, passed, dropped>>

SetsAside(c) ==
  /\ thread[c] = "open"
  /\ thread' = [thread EXCEPT ![c] = "aside"]
  /\ Resolves(c, "open", "SET_ASIDE")
  /\ UNCHANGED <<inbox, notices, handler, passed, dropped>>

Restores(c) ==
  /\ thread[c] = "aside"
  /\ thread' = [thread EXCEPT ![c] = "open"]
  /\ Resolves(c, "SET_ASIDE", "open")
  /\ UNCHANGED <<inbox, notices, handler, passed, dropped>>

(* A request is lost with its server: what it had recorded or claimed stays so. *)
DropsRequest(h) ==
  LET s == handler[h] IN
  /\ s # IdleHandler /\ dropped.count < MaxDropped
  /\ handler' = [handler EXCEPT ![h] = IdleHandler]
  /\ dropped' = [dropped EXCEPT !.count = @ + 1,
                                !.messages = IF s.at # "weigh" /\ (mail[s.msg].triaged \/ s.at = "file")
                                             THEN @ \cup {s.msg} ELSE @]
  /\ UNCHANGED <<inbox, notices, mail, thread, passed>>

HandlerStep(h) ==
  Matches(h) \/ Records(h) \/ Checks(h) \/ Inserts(h) \/ Claims(h) \/ Files(h) \/ Notes(h) \/ Weighs(h) \/ FilesByHand(h)

MailNext ==
  \/ \E m \in Messages : Arrives(m)
  \/ \E h \in Handlers : \/ HandlerStep(h) \/ DropsRequest(h)
                         \/ \E m \in Messages : Notified(h, m) \/ SweepsInbox(h, m)
  \/ \E c \in Conversations : LinksThread(c) \/ SetsAside(c) \/ Restores(c)

(* A request goes on, and a sweep, which somebody's look at the queue starts, takes every message of its page.
   No notification need ever come. *)
MailFairness ==
  /\ \A h \in Handlers : WF_mailVars(HandlerStep(h))
  /\ \A m \in Messages : SF_mailVars(\E h \in Handlers : SweepsInbox(h, m))

MailSpec == MailInit /\ [][MailNext]_mailVars /\ MailFairness

-----------------------------------------------------------------------------
(* "Only one files it": whatever notifications and sweeps reach a message, and a person beside them, it is
   filed unasked once at most, and not at all once it is claimed by hand (claimFiling, autoFileToCase). *)
FiledOnce == \A m \in Messages : mail[m].filed <= (IF mail[m].claim = "auto" THEN 1 ELSE 0)

(* On its way to the queue or to its case: a request at work will put it there. *)
OnItsWay(m) == \E h \in Handlers : handler[h].msg = m /\ handler[h].at \in {"check", "insert", "claim"}
Settled(m) == mail[m].queue # "none" \/ mail[m].claim # "none"

(* A message that is on record, so that a sweep takes it for dealt with once its conversation is on a case, is
   on the queue or claimed for filing, or somebody is about to see to that; or it was passed over or dropped, or
   its row could not be written (processIncomingMessage records it before it enqueues or files it, fileMissedReply
   after, whether or not it could be enqueued). *)
RecordedIsSettled ==
  \A m \in Messages :
    mail[m].triaged => Settled(m) \/ OnItsWay(m) \/ m \in passed \cup dropped.messages \cup dropped.unqueued

(* On the queue or once there, claimed for filing, or set aside with its conversation.  The three ways in which
   a message on record is lost: its request is; or its conversation is on a case, so that no sweep weighs it
   again, and went there when the message was about to be queued, or its row could not be written. *)
Placed(m) == Settled(m) \/ ThreadOf(m) = "aside"
LostOnRecord(m) ==
  \/ m \in dropped.messages
  \/ ThreadOf(m) = "case" /\ (m \in passed \/ (m \in dropped.unqueued /\ mail[m].triaged))

(* "A lapsed subscription must not mean a silent hole": a message on the first page of the inbox is placed in
   the end, with no help of any notification, but for the three ways above (sweepInbox, fileMissedReply). *)
NothingMissed ==
  \A m \in Messages : Contains(FirstPage, m) ~> (Placed(m) \/ LostOnRecord(m) \/ ~Contains(FirstPage, m))
=============================================================================

-------------------------- MODULE MailIntakeProofs --------------------------
(***************************************************************************)
(* For any messages, conversations, handlers and bounds: the types, that    *)
(* whoever meets on a message, it is filed unasked once at most, and that   *)
(* what is on record is settled or about to be.                             *)
(***************************************************************************)
EXTENDS MailIntake, TLAPS

(* A request at work is on a message; the one that claimed a message is alone to file it, and has yet to. *)
HandlerInv ==
  /\ \A h \in Handlers : handler[h] = IdleHandler \/ (handler[h].at # "idle" /\ handler[h].msg \in Messages)
  /\ \A h \in Handlers : handler[h].at = "file" =>
       mail[handler[h].msg].claim = "auto" /\ mail[handler[h].msg].filed = 0
  /\ \A h, k \in Handlers :
       handler[h].at = "file" /\ handler[k].at = "file" /\ handler[h].msg = handler[k].msg => h = k

MailInv == MailTypeOK /\ HandlerInv /\ FiledOnce

-----------------------------------------------------------------------------
LEMMA IdleIsHandler == IdleHandler \in HandlerStates /\ IdleHandler.at = "idle"
BY DEF IdleHandler, HandlerStates

LEMMA AtWork == ASSUME HandlerInv, NEW h \in Handlers, handler[h].at # "idle" PROVE handler[h].msg \in Messages
BY IdleIsHandler DEF HandlerInv

LEMMA NoMailIsMail == NoMail \in MailStates /\ NoMail.filed = 0
BY DEF NoMail, MailStates

LEMMA MailFields ==
  ASSUME MailTypeOK
  PROVE  /\ \A m \in Messages : mail[m] \in MailStates /\ mail[m].filed \in Nat
         /\ \A h \in Handlers : handler[h] \in HandlerStates
BY DEF MailTypeOK, MailStates

LEMMA MailInvInit == MailInit => MailInv
<1> SUFFICES ASSUME MailInit PROVE MailInv
  OBVIOUS
<1>1. inbox \in Seq(Messages) /\ IsInjective(inbox)
  BY DEF MailInit, IsInjective
<1>2. MailTypeOK
  BY <1>1, IdleIsHandler, NoMailIsMail, MailBoundsAssumption DEF MailInit, MailTypeOK
<1>3. HandlerInv
  BY IdleIsHandler DEF MailInit, HandlerInv
<1>4. FiledOnce
  BY NoMailIsMail DEF MailInit, FiledOnce
<1>5. QED
  BY <1>2, <1>3, <1>4 DEF MailInv

(* What a step may do to one record or request without any change of type. *)
LEMMA MailUpdates ==
  ASSUME NEW s \in MailStates
  PROVE  /\ \A b \in BOOLEAN : [s EXCEPT !.strays = b] \in MailStates
         /\ [s EXCEPT !.triaged = TRUE] \in MailStates
         /\ \A c \in {"none", "auto", "hand"} : [s EXCEPT !.claim = c] \in MailStates
         /\ \A q \in {"none", "open", "FILED", "SET_ASIDE"} : [s EXCEPT !.queue = q] \in MailStates
         /\ [s EXCEPT !.filed = s.filed + 1] \in MailStates
<1>1. s.filed + 1 \in Nat
  BY DEF MailStates
<1>2. \A n \in Nat : [s EXCEPT !.filed = n] \in MailStates
  BY DEF MailStates
<1>3. QED
  BY <1>1, <1>2 DEF MailStates

LEMMA HandlerUpdates ==
  ASSUME NEW s \in HandlerStates,
         NEW a \in {"idle", "match", "record", "check", "insert", "claim", "file", "note", "weigh", "by hand"}
  PROVE  /\ [s EXCEPT !.at = a] \in HandlerStates /\ [s EXCEPT !.at = a].at = a /\ [s EXCEPT !.at = a].msg = s.msg
         /\ \A b \in BOOLEAN : /\ [s EXCEPT !.at = a, !.linked = b] \in HandlerStates
                               /\ [s EXCEPT !.at = a, !.linked = b].at = a
                               /\ [s EXCEPT !.at = a, !.linked = b].msg = s.msg
BY DEF HandlerStates

LEMMA ArrivesInbox ==
  ASSUME inbox \in Seq(Messages), IsInjective(inbox), NEW m \in Messages, ~Arrived(m)
  PROVE  <<m>> \o inbox \in Seq(Messages) /\ IsInjective(<<m>> \o inbox)
<1> DEFINE q == <<m>> \o inbox
<1>1. q \in Seq(Messages) /\ Len(q) = Len(inbox) + 1 /\ Len(inbox) \in Nat
  OBVIOUS
<1>2. q[1] = m /\ \A i \in 2..Len(q) : q[i] = inbox[i - 1] /\ i - 1 \in 1..Len(inbox)
  OBVIOUS
<1>3. \A i \in 1..Len(inbox) : inbox[i] # m
  BY DEF Arrived, Contains
<1>4. ASSUME NEW i \in 1..Len(q), NEW j \in 1..Len(q), q[i] = q[j] PROVE i = j
  <2>1. CASE i = 1 \/ j = 1
    BY <1>1, <1>2, <1>3, <1>4, <2>1
  <2>2. CASE i # 1 /\ j # 1
    <3>1. inbox[i - 1] = inbox[j - 1] /\ i - 1 \in DOMAIN inbox /\ j - 1 \in DOMAIN inbox
      BY <1>1, <1>2, <1>4, <2>2
    <3>2. i - 1 = j - 1
      BY <3>1 DEF IsInjective
    <3>3. QED
      BY <3>2
  <2>3. QED
    BY <2>1, <2>2
<1>5. DOMAIN q = 1..Len(q)
  BY <1>1
<1> HIDE DEF q
<1>6. IsInjective(q)
  BY <1>4, <1>5 DEF IsInjective
<1>7. QED
  BY <1>1, <1>6 DEF q

-----------------------------------------------------------------------------
(* Most steps claim nothing for filing and file nothing. *)

MailQuiet ==
  /\ mail' \in [Messages -> MailStates]
  /\ \A m \in Messages :
       /\ mail'[m].filed = mail[m].filed
       /\ mail'[m].claim = mail[m].claim \/ (mail[m].claim = "none" /\ mail'[m].claim = "hand")

HandlersMove ==
  /\ handler' \in [Handlers -> HandlerStates]
  /\ \A h \in Handlers :
       /\ handler'[h] = IdleHandler \/ (handler'[h].at # "idle" /\ handler'[h].msg \in Messages)
       /\ handler'[h].at = "file" => handler'[h] = handler[h]

Losses == [messages : SUBSET Messages, unqueued : SUBSET Messages, count : 0 .. MaxDropped]

RestTypeOK ==
  /\ inbox \in Seq(Messages) /\ IsInjective(inbox)
  /\ notices \in [Messages -> 0 .. MaxNotices]
  /\ thread \in [Conversations -> {"open", "case", "aside"}]
  /\ passed \subseteq Messages
  /\ dropped \in Losses

RestVars == <<inbox, notices, thread, passed, dropped>>

LEMMA RestIsType == MailTypeOK => RestTypeOK /\ (UNCHANGED RestVars => RestTypeOK')
BY DEF MailTypeOK, RestTypeOK, RestVars, Losses

LEMMA QuietKeeps ==
  ASSUME MailInv, MailQuiet, HandlersMove, RestTypeOK'
  PROVE  MailInv'
<1>1. MailTypeOK'
  BY DEF RestTypeOK, MailTypeOK, MailQuiet, HandlersMove, Losses
<1>2. ASSUME NEW h \in Handlers, handler'[h].at = "file"
      PROVE  handler[h].at = "file" /\ handler'[h].msg = handler[h].msg /\ handler[h].msg \in Messages
  <2>1. handler'[h] = handler[h] /\ handler'[h].msg \in Messages
    BY <1>2, IdleIsHandler DEF HandlersMove
  <2>2. QED
    BY <1>2, <2>1
<1>3. ASSUME NEW h \in Handlers, handler'[h].at = "file"
      PROVE  mail'[handler'[h].msg].claim = "auto" /\ mail'[handler'[h].msg].filed = 0
  <2>1. PICK m \in Messages : m = handler[h].msg /\ m = handler'[h].msg
    BY <1>2, <1>3
  <2>2. mail[m].claim = "auto" /\ mail[m].filed = 0
    BY <1>2, <1>3, <2>1 DEF MailInv, HandlerInv
  <2>3. QED
    BY <2>1, <2>2 DEF MailQuiet
<1>4. HandlerInv'
  <2>1. \A h \in Handlers : handler'[h] = IdleHandler \/ (handler'[h].at # "idle" /\ handler'[h].msg \in Messages)
    BY DEF HandlersMove
  <2>2. ASSUME NEW h \in Handlers, NEW k \in Handlers, handler'[h].at = "file", handler'[k].at = "file",
               handler'[h].msg = handler'[k].msg
        PROVE  h = k
    BY <1>2, <2>2 DEF MailInv, HandlerInv
  <2>3. QED
    BY <1>3, <2>1, <2>2 DEF HandlerInv
<1>5. ASSUME NEW m \in Messages PROVE mail'[m].filed <= (IF mail'[m].claim = "auto" THEN 1 ELSE 0)
  <2>1. mail[m].filed <= (IF mail[m].claim = "auto" THEN 1 ELSE 0)
    BY DEF MailInv, FiledOnce
  <2>2. mail[m].claim = "auto" => mail'[m].claim = "auto"
    BY DEF MailQuiet
  <2>3. mail'[m].claim = "auto" => mail[m].claim = "auto"
    BY DEF MailQuiet
  <2>4. mail'[m].filed = mail[m].filed
    BY DEF MailQuiet
  <2>5. CASE mail[m].claim = "auto"
    BY <2>1, <2>2, <2>4, <2>5
  <2>6. CASE mail[m].claim # "auto"
    BY <2>1, <2>3, <2>4, <2>6
  <2>7. QED
    BY <2>5, <2>6
<1>6. QED
  BY <1>1, <1>4, <1>5 DEF MailInv, FiledOnce

(* What a lost request and a row that could not be written leave on record. *)
LEMMA RequestLost ==
  ASSUME dropped \in Losses, NEW h \in Handlers, handler[h].msg \in Messages, DropsRequest(h)
  PROVE  /\ dropped' \in Losses /\ dropped.messages \subseteq dropped'.messages
         /\ dropped'.unqueued = dropped.unqueued
         /\ handler[h].at # "weigh" /\ mail[handler[h].msg].triaged => handler[h].msg \in dropped'.messages
<1>1. PICK ms \in SUBSET Messages :
        ms = IF handler[h].at # "weigh" /\ (mail[handler[h].msg].triaged \/ handler[h].at = "file")
             THEN dropped.messages \cup {handler[h].msg} ELSE dropped.messages
  BY DEF Losses
<1>2. dropped' = [dropped EXCEPT !.count = dropped.count + 1, !.messages = ms]
  BY <1>1 DEF DropsRequest
<1>3. dropped.count + 1 \in 0 .. MaxDropped
  BY MailBoundsAssumption DEF DropsRequest, Losses
<1>4. dropped' \in Losses /\ dropped'.messages = ms /\ dropped'.unqueued = dropped.unqueued
  BY <1>2, <1>3 DEF Losses
<1>5. QED
  BY <1>1, <1>4

LEMMA RowLost ==
  ASSUME dropped \in Losses, NEW m \in Messages, RowFails(m)
  PROVE  /\ dropped' \in Losses /\ dropped'.messages = dropped.messages
         /\ dropped'.unqueued = dropped.unqueued \cup {m}
<1>1. dropped.count + 1 \in 0 .. MaxDropped
  BY MailBoundsAssumption DEF RowFails, Losses
<1>2. QED
  BY <1>1 DEF RowFails, Losses

LEMMA SameMail == ASSUME MailInv, mail' = mail PROVE MailQuiet
BY DEF MailInv, MailTypeOK, MailQuiet

LEMMA OneMail ==
  ASSUME MailInv, NEW m \in Messages, NEW s \in MailStates, mail' = [mail EXCEPT ![m] = s],
         s.filed = mail[m].filed, s.claim = mail[m].claim \/ (mail[m].claim = "none" /\ s.claim = "hand")
  PROVE  MailQuiet
BY DEF MailInv, MailTypeOK, MailQuiet

LEMMA SameHandlers == ASSUME MailInv, handler' = handler PROVE HandlersMove
BY DEF MailInv, MailTypeOK, HandlerInv, HandlersMove

LEMMA OneHandler ==
  ASSUME MailInv, NEW h \in Handlers, NEW s \in HandlerStates, handler' = [handler EXCEPT ![h] = s],
         s.at # "file", s = IdleHandler \/ (s.at # "idle" /\ s.msg \in Messages)
  PROVE  HandlersMove
BY DEF MailInv, MailTypeOK, HandlerInv, HandlersMove

LEMMA FinishMoves == ASSUME MailInv, NEW h \in Handlers, Finishes(h) PROVE HandlersMove
BY IdleIsHandler, OneHandler DEF Finishes

LEMMA GoMoves ==
  ASSUME MailInv, NEW h \in Handlers, handler[h].at # "idle",
         NEW a \in {"record", "check", "insert", "claim", "note"}, GoesTo(h, a)
  PROVE  HandlersMove
<1>1. PICK s : s = [handler[h] EXCEPT !.at = a]
  OBVIOUS
<1>2. handler[h] \in HandlerStates /\ handler[h].msg \in Messages
  BY AtWork, MailFields DEF MailInv
<1>3. s \in HandlerStates /\ s.at = a /\ s.msg \in Messages
  BY <1>1, <1>2 DEF HandlerStates
<1>4. handler' = [handler EXCEPT ![h] = s]
  BY <1>1 DEF GoesTo
<1>5. QED
  BY <1>3, <1>4, OneHandler

LEMMA NoteMoves == ASSUME MailInv, NEW h \in Handlers, handler[h].at # "idle", NotesIfSweeping(h) PROVE HandlersMove
BY GoMoves, FinishMoves DEF NotesIfSweeping

LEMMA StartMoves ==
  ASSUME MailInv, NEW h \in Handlers, NEW s \in HandlerStates, s.at \notin {"file", "idle"}, s.msg \in Messages, Starts(h, s)
  PROVE  HandlersMove
BY OneHandler DEF Starts

LEMMA ResolvesQuiet ==
  ASSUME MailInv, NEW c, NEW from, NEW to \in {"open", "FILED", "SET_ASIDE"}, Resolves(c, from, to)
  PROVE  MailQuiet
<1>1. ASSUME NEW m \in Messages
      PROVE  mail'[m] \in MailStates /\ mail'[m].filed = mail[m].filed /\ mail'[m].claim = mail[m].claim
  <2>1. mail[m] \in MailStates
    BY MailFields DEF MailInv
  <2>2. /\ [mail[m] EXCEPT !.queue = to] \in MailStates /\ [mail[m] EXCEPT !.queue = to].filed = mail[m].filed
        /\ [mail[m] EXCEPT !.queue = to].claim = mail[m].claim
    BY <2>1 DEF MailStates
  <2>3. mail'[m] = IF ConversationOf(m) = c /\ mail[m].queue = from THEN [mail[m] EXCEPT !.queue = to] ELSE mail[m]
    BY DEF Resolves
  <2>4. QED
    BY <2>1, <2>2, <2>3
<1>2. mail' = [m \in Messages |-> mail'[m]]
  BY DEF Resolves
<1>3. QED
  BY <1>1, <1>2 DEF MailQuiet

-----------------------------------------------------------------------------
(* The claim and the filing *)

LEMMA ClaimsKeeps == ASSUME MailInv, NEW h \in Handlers, Claims(h) PROVE MailInv'
<1>1. RestTypeOK'
  BY RestIsType DEF MailInv, Claims, RestVars
<1>2. PICK m \in Messages : m = handler[h].msg
  BY AtWork DEF MailInv, Claims
<1>3. CASE mail[m].claim = "none"
  <2>1. mail' = [mail EXCEPT ![m].claim = "auto"] /\ handler' = [handler EXCEPT ![h].at = "file"]
    BY <1>2, <1>3 DEF Claims, MayClaim, GoesTo
  <2>2. mail[m] \in MailStates /\ handler[h] \in HandlerStates
    BY MailFields DEF MailInv
  <2>3. [mail[m] EXCEPT !.claim = "auto"] \in MailStates /\ [handler[h] EXCEPT !.at = "file"] \in HandlerStates
    BY <2>2 DEF MailStates, HandlerStates
  <2>4. mail[m].filed = 0
    BY <1>3, MailFields DEF MailInv, FiledOnce
  <2>5. /\ mail'[m].claim = "auto" /\ mail'[m].filed = 0
        /\ \A n \in Messages : n # m => mail'[n] = mail[n]
    BY <2>1, <2>2, <2>4 DEF MailInv, MailTypeOK, MailStates
  <2>6. /\ handler'[h].at = "file" /\ handler'[h].msg = m
        /\ \A k \in Handlers : k # h => handler'[k] = handler[k]
    BY <1>2, <2>1, <2>2 DEF MailInv, MailTypeOK, HandlerStates
  <2>7. \A k \in Handlers : handler[k].at = "file" => handler[k].msg # m
    BY <1>3 DEF MailInv, HandlerInv
  <2>8. MailTypeOK'
    BY <1>1, <2>1, <2>3 DEF MailInv, MailTypeOK, RestTypeOK, Losses
  <2>9. HandlerInv'
    <3>1. \A k \in Handlers : handler'[k] = IdleHandler \/ (handler'[k].at # "idle" /\ handler'[k].msg \in Messages)
      BY <2>6 DEF MailInv, HandlerInv
    <3>2. ASSUME NEW k \in Handlers, handler'[k].at = "file"
          PROVE  mail'[handler'[k].msg].claim = "auto" /\ mail'[handler'[k].msg].filed = 0
      <4>1. CASE k = h
        BY <2>5, <2>6, <4>1
      <4>2. CASE k # h
        <5>1. PICK n \in Messages : n = handler[k].msg /\ n = handler'[k].msg /\ n # m
          BY <2>6, <2>7, <3>2, <4>2, AtWork DEF MailInv
        <5>2. mail[n].claim = "auto" /\ mail[n].filed = 0
          BY <2>6, <3>2, <4>2, <5>1 DEF MailInv, HandlerInv
        <5>3. QED
          BY <2>5, <5>1, <5>2
      <4>3. QED
        BY <4>1, <4>2
    <3>3. \A k, l \in Handlers :
            handler'[k].at = "file" /\ handler'[l].at = "file" /\ handler'[k].msg = handler'[l].msg => k = l
      BY <2>6, <2>7 DEF MailInv, HandlerInv
    <3>4. QED
      BY <3>1, <3>2, <3>3 DEF HandlerInv
  <2>10. FiledOnce'
    BY <2>5 DEF MailInv, FiledOnce
  <2>11. QED
    BY <2>8, <2>9, <2>10 DEF MailInv
<1>4. CASE mail[m].claim # "none"
  <2>1. NotesIfSweeping(h) /\ mail' = mail /\ handler[h].at # "idle"
    BY <1>2, <1>4 DEF Claims, MayClaim
  <2>2. QED
    BY <1>1, <2>1, NoteMoves, SameMail, QuietKeeps
<1>5. QED
  BY <1>3, <1>4

LEMMA FilesKeeps == ASSUME MailInv, NEW h \in Handlers, Files(h) PROVE MailInv'
<1>1. RestTypeOK'
  BY RestIsType DEF MailInv, Files, RestVars
<1>2. PICK m \in Messages : m = handler[h].msg
  BY AtWork DEF MailInv, Files
<1>3. mail[m].claim = "auto" /\ mail[m].filed = 0 /\ mail[m] \in MailStates
  BY <1>2, MailFields DEF MailInv, HandlerInv, Files
<1>4. [mail[m] EXCEPT !.filed = mail[m].filed + 1] \in MailStates
  BY <1>3, MailUpdates
<1>5. mail' = [mail EXCEPT ![m] = [mail[m] EXCEPT !.filed = mail[m].filed + 1]]
  BY <1>2 DEF Files
<1>6. /\ mail' \in [Messages -> MailStates] /\ mail'[m].claim = "auto" /\ mail'[m].filed = 1
      /\ \A n \in Messages : n # m => mail'[n] = mail[n]
  BY <1>3, <1>4, <1>5 DEF MailInv, MailTypeOK, MailStates
<1>7. HandlersMove
  BY NoteMoves DEF Files
<1>8. handler'[h].at # "file"
  <2>1. PICK s \in HandlerStates : s.at \in {"note", "idle"} /\ handler' = [handler EXCEPT ![h] = s]
    <3>1. handler[h] \in HandlerStates
      BY MailFields DEF MailInv
    <3>2. [handler[h] EXCEPT !.at = "note"] \in HandlerStates /\ [handler[h] EXCEPT !.at = "note"].at = "note"
      BY <3>1 DEF HandlerStates
    <3>3. QED
      BY <3>2, IdleIsHandler DEF Files, NotesIfSweeping, GoesTo, Finishes
  <2>2. QED
    BY <2>1 DEF MailInv, MailTypeOK
<1>9. MailTypeOK'
  BY <1>1, <1>6, <1>7 DEF MailTypeOK, RestTypeOK, HandlersMove, Losses
<1>10. ASSUME NEW k \in Handlers, handler'[k].at = "file"
       PROVE  k # h /\ handler'[k] = handler[k] /\ handler[k].msg \in Messages /\ handler[k].msg # m
  <2>1. k # h /\ handler'[k] = handler[k] /\ handler[k].msg \in Messages
    BY <1>7, <1>8, <1>10, AtWork DEF HandlersMove, MailInv
  <2>2. QED
    BY <1>2, <1>10, <2>1 DEF Files, MailInv, HandlerInv
<1>11. HandlerInv'
  <2>1. \A k \in Handlers : handler'[k] = IdleHandler \/ (handler'[k].at # "idle" /\ handler'[k].msg \in Messages)
    BY <1>7 DEF HandlersMove
  <2>2. ASSUME NEW k \in Handlers, handler'[k].at = "file"
        PROVE  mail'[handler'[k].msg].claim = "auto" /\ mail'[handler'[k].msg].filed = 0
    <3>1. mail[handler[k].msg].claim = "auto" /\ mail[handler[k].msg].filed = 0
      BY <1>10, <2>2 DEF MailInv, HandlerInv
    <3>2. QED
      BY <1>6, <1>10, <2>2, <3>1
  <2>3. \A k, l \in Handlers :
          handler'[k].at = "file" /\ handler'[l].at = "file" /\ handler'[k].msg = handler'[l].msg => k = l
    BY <1>10 DEF MailInv, HandlerInv
  <2>4. QED
    BY <2>1, <2>2, <2>3 DEF HandlerInv
<1>12. FiledOnce'
  BY <1>6 DEF MailInv, FiledOnce
<1>13. QED
  BY <1>9, <1>11, <1>12 DEF MailInv

-----------------------------------------------------------------------------
(* The steps *)

LEMMA MailStep == MailInv /\ [MailNext]_mailVars => MailInv'
<1> SUFFICES ASSUME MailInv, [MailNext]_mailVars PROVE MailInv'
  OBVIOUS
<1>1. RestTypeOK /\ (UNCHANGED RestVars => RestTypeOK')
  BY RestIsType DEF MailInv
<1>2. ASSUME NEW m \in Messages, Arrives(m) PROVE MailInv'
  <2>1. inbox' \in Seq(Messages) /\ IsInjective(inbox')
    BY <1>1, <1>2, ArrivesInbox DEF Arrives, RestTypeOK
  <2>2. RestTypeOK'
    BY <1>1, <1>2, <2>1 DEF Arrives, RestTypeOK
  <2>3. PICK b \in BOOLEAN : mail' = [mail EXCEPT ![m].strays = b]
    BY <1>2 DEF Arrives
  <2>4. PICK s : s = [mail[m] EXCEPT !.strays = b]
    OBVIOUS
  <2>5. s \in MailStates /\ s.filed = mail[m].filed /\ s.claim = mail[m].claim
    BY <2>4, MailFields DEF MailInv, MailStates
  <2>6. mail' = [mail EXCEPT ![m] = s]
    BY <2>3, <2>4
  <2>7. QED
    BY <1>2, <2>2, <2>5, <2>6, OneMail, SameHandlers, QuietKeeps DEF Arrives
<1>3. ASSUME NEW h \in Handlers, NEW m \in Messages, Notified(h, m) PROVE MailInv'
  <2>1. RestTypeOK'
    BY <1>1, <1>3, MailBoundsAssumption DEF Notified, RestTypeOK
  <2>2. PICK s : s = [IdleHandler EXCEPT !.at = "match", !.msg = m]
    OBVIOUS
  <2>3. s \in HandlerStates /\ s.at = "match" /\ s.msg = m
    BY <2>2 DEF IdleHandler, HandlerStates
  <2>4. Starts(h, s)
    BY <1>3, <2>2 DEF Notified
  <2>5. QED
    BY <1>3, <2>1, <2>3, <2>4, StartMoves, SameMail, QuietKeeps DEF Notified
<1>4. ASSUME NEW h \in Handlers, Matches(h) PROVE MailInv'
  <2>1. PICK s : s = [handler[h] EXCEPT !.at = "record", !.linked = (ThreadOf(handler[h].msg) = "case")]
    OBVIOUS
  <2>2. s \in HandlerStates /\ s.at = "record" /\ s.msg \in Messages
    BY <1>4, <2>1, AtWork, MailFields DEF Matches, MailInv, HandlerStates
  <2>3. handler' = [handler EXCEPT ![h] = s]
    BY <1>4, <2>1 DEF Matches
  <2>4. QED
    BY <1>1, <1>4, <2>2, <2>3, OneHandler, SameMail, QuietKeeps DEF Matches, RestVars
<1>5. ASSUME NEW h \in Handlers, NEW m \in Messages, m = handler[h].msg, mail' = [mail EXCEPT ![m].triaged = TRUE]
      PROVE  MailQuiet
  <2>1. PICK s : s = [mail[m] EXCEPT !.triaged = TRUE]
    OBVIOUS
  <2>2. s \in MailStates /\ s.filed = mail[m].filed /\ s.claim = mail[m].claim
    BY <2>1, MailFields DEF MailInv, MailStates
  <2>3. mail' = [mail EXCEPT ![m] = s]
    BY <1>5, <2>1
  <2>4. QED
    BY <2>2, <2>3, OneMail
<1>6. ASSUME NEW h \in Handlers, Records(h) PROVE MailInv'
  <2>1. handler[h].msg \in Messages
    BY <1>6, AtWork DEF Records, MailInv
  <2>2. MailQuiet
    BY <1>5, <1>6, <2>1 DEF Records
  <2>3. HandlersMove
    BY <1>6, GoMoves DEF Records
  <2>4. QED
    BY <1>1, <1>6, <2>2, <2>3, QuietKeeps DEF Records, RestVars
<1>7. ASSUME NEW h \in Handlers, Checks(h) PROVE MailInv'
  <2>1. handler[h].msg \in Messages
    BY <1>7, AtWork DEF Checks, MailInv
  <2>2. HandlersMove
    BY <1>7, GoMoves, FinishMoves DEF Checks
  <2>3. RestTypeOK'
    BY <1>1, <1>7, <2>1 DEF Checks, RestTypeOK
  <2>4. QED
    BY <1>7, <2>2, <2>3, SameMail, QuietKeeps DEF Checks
<1>8. ASSUME NEW h \in Handlers, Inserts(h) PROVE MailInv'
  <2>1. PICK m \in Messages : m = handler[h].msg
    BY <1>8, AtWork DEF Inserts, MailInv
  <2>2. PICK q \in {"none", "open", "FILED", "SET_ASIDE"} : q = (IF mail[m].queue = "none" THEN "open" ELSE mail[m].queue)
    BY MailFields DEF MailInv, MailStates
  <2>3. PICK s : s = [mail[m] EXCEPT !.queue = q]
    OBVIOUS
  <2>4. s \in MailStates /\ s.filed = mail[m].filed /\ s.claim = mail[m].claim
    BY <2>3, MailFields DEF MailInv, MailStates
  <2>5. HandlersMove
    BY <1>8, NoteMoves, FinishMoves DEF Inserts
  <2>6. CASE mail' = [mail EXCEPT ![m].queue = IF @ = "none" THEN "open" ELSE @] /\ UNCHANGED dropped
    <3>1. mail' = [mail EXCEPT ![m] = s]
      BY <2>2, <2>3, <2>6
    <3>2. MailQuiet
      BY <2>4, <3>1, OneMail
    <3>3. RestTypeOK'
      BY <1>1, <1>8, <2>6 DEF Inserts, RestVars
    <3>4. QED
      BY <2>5, <3>2, <3>3, QuietKeeps
  <2>7. CASE RowFails(m) /\ UNCHANGED mail
    <3>1. dropped \in Losses
      BY <1>1 DEF RestTypeOK
    <3>2. RestTypeOK'
      BY <1>1, <1>8, <2>7, <3>1, RowLost DEF Inserts, RestTypeOK
    <3>3. QED
      BY <2>5, <2>7, <3>2, SameMail, QuietKeeps
  <2>8. QED
    BY <1>8, <2>1, <2>6, <2>7 DEF Inserts
<1>9. ASSUME NEW h \in Handlers, Notes(h) PROVE MailInv'
  <2>1. handler[h].msg \in Messages
    BY <1>9, AtWork DEF Notes, MailInv
  <2>2. MailQuiet
    BY <1>5, <1>9, <2>1 DEF Notes
  <2>3. HandlersMove
    BY <1>9, FinishMoves DEF Notes
  <2>4. QED
    BY <1>1, <1>9, <2>2, <2>3, QuietKeeps DEF Notes, RestVars
<1>10. ASSUME NEW h \in Handlers, NEW m \in Messages, SweepsInbox(h, m) PROVE MailInv'
  <2>1. PICK s : s = [IdleHandler EXCEPT !.at = "weigh", !.msg = m, !.sweeping = TRUE, !.linked = (ThreadOf(m) # "open")]
    OBVIOUS
  <2>2. s \in HandlerStates /\ s.at = "weigh" /\ s.msg = m
    BY <2>1 DEF IdleHandler, HandlerStates
  <2>3. Starts(h, s)
    BY <1>10, <2>1 DEF SweepsInbox
  <2>4. HandlersMove
    BY <2>2, <2>3, StartMoves
  <2>5. QED
    BY <1>1, <1>10, <2>4, SameMail, QuietKeeps DEF SweepsInbox, RestVars
<1>11. ASSUME NEW h \in Handlers, Weighs(h) PROVE MailInv'
  <2>1. HandlersMove
    BY <1>11, GoMoves, FinishMoves DEF Weighs
  <2>2. QED
    BY <1>1, <1>11, <2>1, SameMail, QuietKeeps DEF Weighs, RestVars
<1>12. ASSUME NEW c \in Conversations, LinksThread(c) PROVE MailInv'
  <2>1. RestTypeOK'
    BY <1>1, <1>12 DEF LinksThread, RestTypeOK
  <2>2. MailQuiet
    BY <1>12, ResolvesQuiet DEF LinksThread
  <2>3. ASSUME NEW h \in Handlers, NEW m \in Messages, Starts(h, [IdleHandler EXCEPT !.at = "by hand", !.msg = m])
        PROVE  HandlersMove
    <3>1. PICK s : s = [IdleHandler EXCEPT !.at = "by hand", !.msg = m]
      OBVIOUS
    <3>2. s \in HandlerStates /\ s.at = "by hand" /\ s.msg = m
      BY <3>1 DEF IdleHandler, HandlerStates
    <3>3. Starts(h, s)
      BY <2>3, <3>1
    <3>4. QED
      BY <3>2, <3>3, StartMoves
  <2>4. HandlersMove
    BY <1>12, <2>3, SameHandlers DEF LinksThread
  <2>5. QED
    BY <2>1, <2>2, <2>4, QuietKeeps
<1>13. ASSUME NEW h \in Handlers, FilesByHand(h) PROVE MailInv'
  <2>1. PICK m \in Messages : m = handler[h].msg
    BY <1>13, AtWork DEF FilesByHand, MailInv
  <2>2. PICK c \in {"none", "auto", "hand"} : c = (IF mail[m].claim = "none" THEN "hand" ELSE mail[m].claim)
    BY MailFields DEF MailInv, MailStates
  <2>3. PICK s : s = [mail[m] EXCEPT !.claim = c]
    OBVIOUS
  <2>4. s \in MailStates /\ s.filed = mail[m].filed /\ s.claim = c
    BY <2>3, MailFields DEF MailInv, MailStates
  <2>5. mail' = [mail EXCEPT ![m] = s]
    BY <1>13, <2>1, <2>2, <2>3 DEF FilesByHand
  <2>6. MailQuiet
    BY <2>2, <2>4, <2>5, OneMail
  <2>7. HandlersMove
    BY <1>13, FinishMoves DEF FilesByHand
  <2>8. QED
    BY <1>1, <1>13, <2>6, <2>7, QuietKeeps DEF FilesByHand, RestVars
<1>14. ASSUME NEW c \in Conversations, SetsAside(c) \/ Restores(c) PROVE MailInv'
  <2>1. RestTypeOK'
    BY <1>1, <1>14 DEF SetsAside, Restores, RestTypeOK
  <2>2. MailQuiet
    BY <1>14, ResolvesQuiet DEF SetsAside, Restores
  <2>3. QED
    BY <1>14, <2>1, <2>2, SameHandlers, QuietKeeps DEF SetsAside, Restores
<1>15. ASSUME NEW h \in Handlers, DropsRequest(h) PROVE MailInv'
  <2>1. handler[h].msg \in Messages
    BY <1>15 DEF DropsRequest, MailInv, HandlerInv
  <2>2. dropped' \in Losses
    BY <1>1, <1>15, <2>1, RequestLost DEF RestTypeOK
  <2>3. RestTypeOK'
    BY <1>1, <1>15, <2>2 DEF DropsRequest, RestTypeOK
  <2>4. HandlersMove
    BY <1>15, IdleIsHandler, OneHandler DEF DropsRequest
  <2>5. QED
    BY <1>15, <2>3, <2>4, SameMail, QuietKeeps DEF DropsRequest
<1>16. CASE UNCHANGED mailVars
  BY <1>1, <1>16, SameMail, SameHandlers, QuietKeeps DEF mailVars, RestVars
<1>17. ASSUME NEW h \in Handlers, HandlerStep(h) PROVE MailInv'
  BY <1>4, <1>6, <1>7, <1>8, <1>9, <1>11, <1>13, <1>17, ClaimsKeeps, FilesKeeps DEF HandlerStep
<1>18. QED
  BY <1>2, <1>3, <1>10, <1>12, <1>14, <1>15, <1>16, <1>17 DEF MailNext

-----------------------------------------------------------------------------
(* What is on record is settled *)

(* A sweep notes only what it put, or failed to put, on the queue or found claimed. *)
SeenTo(m) == Settled(m) \/ m \in dropped.unqueued
NotedIsSettled == \A h \in Handlers : handler[h].at = "note" => SeenTo(handler[h].msg)
Accounted(m) == mail[m].triaged => SeenTo(m) \/ OnItsWay(m) \/ m \in passed \/ m \in dropped.messages

RInv == MailInv /\ NotedIsSettled /\ RecordedIsSettled

(* What is settled, passed over, dropped or not written stays so. *)
MailGoesOn ==
  /\ \A m \in Messages : Settled(m) => Settled(m)'
  /\ dropped.unqueued \subseteq dropped'.unqueued
  /\ passed \subseteq passed' /\ dropped.messages \subseteq dropped'.messages

(* A step of one request h leaves the others alone, and so what they are about to settle. *)
LEMMA OneStep ==
  ASSUME RInv, NEW h \in Handlers, NEW m, m = handler[h].msg, MailGoesOn,
         \A k \in Handlers \ {h} : handler'[k] = handler[k],
         \A n \in Messages : n # m => mail'[n].triaged = mail[n].triaged,
         m \in Messages => Accounted(m)',
         handler'[h].at = "note" => handler'[h].msg = m /\ SeenTo(m)'
  PROVE  NotedIsSettled' /\ RecordedIsSettled'
<1>1. NotedIsSettled'
  <2> SUFFICES ASSUME NEW k \in Handlers, k # h, handler'[k].at = "note" PROVE SeenTo(handler[k].msg)'
    BY DEF NotedIsSettled, SeenTo, Settled
  <2>1. handler[k] = handler'[k]
    OBVIOUS
  <2>2. PICK n \in Messages : n = handler[k].msg /\ n = handler'[k].msg
    BY <2>1, AtWork DEF RInv, MailInv
  <2>3. SeenTo(n)
    BY <2>1, <2>2 DEF RInv, NotedIsSettled
  <2>4. SeenTo(n)'
    BY <2>3 DEF MailGoesOn, SeenTo
  <2>5. QED
    BY <2>2, <2>4 DEF SeenTo, Settled
<1>2. ASSUME NEW n \in Messages, n # m, mail'[n].triaged
      PROVE  SeenTo(n)' \/ OnItsWay(n)' \/ n \in passed' \/ n \in dropped'.messages
  <2>1. SeenTo(n) \/ OnItsWay(n) \/ n \in passed \/ n \in dropped.messages
    BY <1>2 DEF RInv, RecordedIsSettled, SeenTo
  <2>2. ASSUME OnItsWay(n) PROVE OnItsWay(n)'
    <3>1. PICK k \in Handlers : handler[k].msg = n /\ handler[k].at \in {"check", "insert", "claim"}
      BY <2>2 DEF OnItsWay
    <3>2. handler'[k] = handler[k]
      BY <1>2, <3>1
    <3>3. QED
      BY <3>1, <3>2 DEF OnItsWay
  <2>3. QED
    BY <2>1, <2>2 DEF MailGoesOn, SeenTo
<1>3. QED
  BY <1>1, <1>2 DEF RecordedIsSettled, Accounted, SeenTo

(* A step of the world outside, or of a person, changes no record and interrupts no request. *)
LEMMA QuietStep ==
  ASSUME RInv, MailGoesOn, \A n \in Messages : mail'[n].triaged = mail[n].triaged,
         \A k \in Handlers : \/ handler'[k] = handler[k]
                             \/ handler[k].at = "idle" /\ handler'[k].at # "note"
  PROVE  NotedIsSettled' /\ RecordedIsSettled'
<1>1. ASSUME NEW k \in Handlers, handler'[k].at = "note" PROVE SeenTo(handler[k].msg)'
  <2>1. handler'[k] = handler[k]
    BY <1>1
  <2>2. PICK n \in Messages : n = handler[k].msg /\ n = handler'[k].msg
    BY <1>1, <2>1, AtWork DEF RInv, MailInv
  <2>3. SeenTo(n)'
    BY <1>1, <2>1, <2>2 DEF RInv, NotedIsSettled, MailGoesOn, SeenTo
  <2>4. QED
    BY <2>2, <2>3 DEF SeenTo, Settled
<1>2. ASSUME NEW n \in Messages, mail'[n].triaged
      PROVE  SeenTo(n)' \/ OnItsWay(n)' \/ n \in passed' \/ n \in dropped'.messages
  <2>1. SeenTo(n) \/ OnItsWay(n) \/ n \in passed \/ n \in dropped.messages
    BY <1>2 DEF RInv, RecordedIsSettled, SeenTo
  <2>2. OnItsWay(n) => OnItsWay(n)'
    BY DEF OnItsWay
  <2>3. QED
    BY <2>1, <2>2 DEF MailGoesOn, SeenTo
<1>3. QED
  BY <1>1, <1>2 DEF NotedIsSettled, RecordedIsSettled, SeenTo

(* Where a request goes. *)
LEMMA Moved ==
  ASSUME MailInv, NEW h \in Handlers,
         NEW a \in {"record", "check", "insert", "claim", "file", "note"}, GoesTo(h, a)
  PROVE  /\ handler'[h].at = a /\ handler'[h].msg = handler[h].msg
         /\ \A k \in Handlers \ {h} : handler'[k] = handler[k]
BY MailFields DEF GoesTo, MailInv, MailTypeOK, HandlerStates

LEMMA Finished ==
  ASSUME MailInv, NEW h \in Handlers, Finishes(h)
  PROVE  handler'[h].at = "idle" /\ \A k \in Handlers \ {h} : handler'[k] = handler[k]
BY IdleIsHandler DEF Finishes, MailInv, MailTypeOK

LEMMA NotedOrFinished ==
  ASSUME MailInv, NEW h \in Handlers, NotesIfSweeping(h)
  PROVE  /\ handler'[h].at = "note" => handler'[h].msg = handler[h].msg
         /\ \A k \in Handlers \ {h} : handler'[k] = handler[k]
BY Moved, Finished DEF NotesIfSweeping

LEMMA Begun ==
  ASSUME MailInv, NEW h \in Handlers, NEW s, s.at # "note", Starts(h, s)
  PROVE  \A k \in Handlers : handler'[k] = handler[k] \/ (handler[k].at = "idle" /\ handler'[k].at # "note")
BY IdleIsHandler DEF Starts, MailInv, MailTypeOK

(* A message's record when one of its fields is set. *)
LEMMA SetField ==
  ASSUME MailInv, NEW m \in Messages, NEW s, mail' = [mail EXCEPT ![m] = s]
  PROVE  mail'[m] = s /\ \A n \in Messages : n # m => mail'[n] = mail[n]
BY DEF MailInv, MailTypeOK

(* The record of a message when one of its fields is set. *)
LEMMA SetsField ==
  ASSUME NEW s \in MailStates, NEW x
  PROVE  /\ [s EXCEPT !.triaged = x].triaged = x /\ [s EXCEPT !.triaged = x].queue = s.queue
         /\ [s EXCEPT !.triaged = x].claim = s.claim
         /\ [s EXCEPT !.queue = x].queue = x /\ [s EXCEPT !.queue = x].claim = s.claim
         /\ [s EXCEPT !.queue = x].triaged = s.triaged
         /\ [s EXCEPT !.claim = x].claim = x /\ [s EXCEPT !.claim = x].queue = s.queue
         /\ [s EXCEPT !.claim = x].triaged = s.triaged
         /\ [s EXCEPT !.filed = x].claim = s.claim /\ [s EXCEPT !.filed = x].queue = s.queue
         /\ [s EXCEPT !.filed = x].triaged = s.triaged
         /\ [s EXCEPT !.strays = x].claim = s.claim /\ [s EXCEPT !.strays = x].queue = s.queue
         /\ [s EXCEPT !.strays = x].triaged = s.triaged
BY DEF MailStates

LEMMA GoesOnOneRecord ==
  ASSUME MailInv, NEW m \in Messages, NEW s, mail' = [mail EXCEPT ![m] = s],
         s.queue = mail[m].queue \/ s.queue # "none", s.claim = mail[m].claim \/ s.claim # "none",
         passed \subseteq passed', dropped.messages \subseteq dropped'.messages,
         dropped.unqueued \subseteq dropped'.unqueued
  PROVE  MailGoesOn
BY SetField DEF MailGoesOn, Settled

LEMMA GoesOnSame ==
  ASSUME mail' = mail, passed \subseteq passed', dropped.messages \subseteq dropped'.messages,
         dropped.unqueued \subseteq dropped'.unqueued
  PROVE  MailGoesOn
BY DEF MailGoesOn, Settled

LEMMA ResolvesGoesOn ==
  ASSUME MailInv, NEW c, NEW from, NEW to, to # "none", Resolves(c, from, to), passed' = passed, dropped' = dropped
  PROVE  MailGoesOn /\ \A n \in Messages : mail'[n].triaged = mail[n].triaged
<1>1. ASSUME NEW n \in Messages
      PROVE  /\ mail'[n].queue = mail[n].queue \/ mail'[n].queue # "none"
             /\ mail'[n].claim = mail[n].claim /\ mail'[n].triaged = mail[n].triaged
  BY SetsField, MailFields DEF Resolves, MailInv
<1>2. QED
  BY <1>1 DEF MailGoesOn, Settled

(* A request that records its message or settles it, or that finds it settled. *)
LEMMA RequestSteps ==
  ASSUME RInv, NEW h \in Handlers, NEW m \in Messages, m = handler[h].msg, HandlerStep(h)
  PROVE  NotedIsSettled' /\ RecordedIsSettled'
<1> USE DEF RInv
<1>0. mail[m] \in MailStates /\ handler[h] \in HandlerStates
  BY MailFields DEF MailInv
<1>1. ASSUME mail' = mail PROVE \A n \in Messages : mail'[n].triaged = mail[n].triaged
  BY <1>1
<1>2. CASE Matches(h)
  <2>1. /\ handler'[h].at = "record" /\ \A k \in Handlers \ {h} : handler'[k] = handler[k]
    BY <1>0, <1>2 DEF Matches, MailInv, MailTypeOK, HandlerStates
  <2>2. MailGoesOn /\ \A n \in Messages : mail'[n].triaged = mail[n].triaged
    BY <1>2, GoesOnSame DEF Matches
  <2>3. Accounted(m)'
    <3>1. ASSUME OnItsWay(m) PROVE OnItsWay(m)'
      BY <1>2, <2>1, <3>1 DEF OnItsWay, Matches
    <3>2. QED
      BY <2>2, <3>1 DEF Accounted, SeenTo, RecordedIsSettled, MailGoesOn
  <2>4. QED
    BY <2>1, <2>2, <2>3, OneStep
<1>3. CASE Records(h)
  <2>1. PICK s : s = [mail[m] EXCEPT !.triaged = TRUE]
    OBVIOUS
  <2>2. mail' = [mail EXCEPT ![m] = s] /\ s.queue = mail[m].queue /\ s.claim = mail[m].claim
    BY <1>0, <1>3, <2>1, SetsField DEF Records
  <2>3. MailGoesOn /\ \A n \in Messages : n # m => mail'[n].triaged = mail[n].triaged
    BY <1>3, <2>2, GoesOnOneRecord, SetField DEF Records
  <2>4. PICK a \in {"check", "insert", "claim"} : GoesTo(h, a)
    BY <1>3 DEF Records
  <2>5. /\ handler'[h].at = a /\ handler'[h].msg = m /\ \A k \in Handlers \ {h} : handler'[k] = handler[k]
    BY <2>4, Moved
  <2>6. OnItsWay(m)'
    BY <2>5 DEF OnItsWay
  <2>7. QED
    BY <2>3, <2>5, <2>6, OneStep DEF Accounted, SeenTo
<1>4. CASE Checks(h)
  <2>1. mail' = mail /\ passed \subseteq passed' /\ dropped' = dropped
    BY <1>4 DEF Checks
  <2>2. MailGoesOn
    BY <2>1, GoesOnSame
  <2>3. CASE GoesTo(h, "insert")
    <3>1. handler'[h].at = "insert" /\ handler'[h].msg = m /\ \A k \in Handlers \ {h} : handler'[k] = handler[k]
      BY <2>3, Moved
    <3>2. OnItsWay(m)'
      BY <3>1 DEF OnItsWay
    <3>3. QED
      BY <1>1, <2>1, <2>2, <3>1, <3>2, OneStep DEF Accounted, SeenTo
  <2>4. CASE Finishes(h) /\ passed' = (IF mail[m].triaged THEN passed \cup {m} ELSE passed)
    <3>1. handler'[h].at = "idle" /\ \A k \in Handlers \ {h} : handler'[k] = handler[k]
      BY <2>4, Finished
    <3>2. Accounted(m)'
      BY <2>1, <2>4 DEF Accounted
    <3>3. QED
      BY <1>1, <2>1, <2>2, <3>1, <3>2, OneStep
  <2>5. QED
    BY <1>4, <2>3, <2>4 DEF Checks
<1>5. CASE Inserts(h)
  <2>1. /\ handler'[h].at = "note" => handler'[h].msg = m
        /\ \A k \in Handlers \ {h} : handler'[k] = handler[k]
    BY <1>5, NotedOrFinished, Finished DEF Inserts
  <2>2. CASE mail' = [mail EXCEPT ![m].queue = IF @ = "none" THEN "open" ELSE @] /\ UNCHANGED dropped
    <3>1. PICK q : q = (IF mail[m].queue = "none" THEN "open" ELSE mail[m].queue)
      OBVIOUS
    <3>2. PICK s : s = [mail[m] EXCEPT !.queue = q]
      OBVIOUS
    <3>3. mail' = [mail EXCEPT ![m] = s] /\ s.queue # "none" /\ s.claim = mail[m].claim
      BY <1>0, <2>2, <3>1, <3>2, SetsField
    <3>4. MailGoesOn /\ \A n \in Messages : n # m => mail'[n].triaged = mail[n].triaged
      BY <1>5, <2>2, <3>3, GoesOnOneRecord, SetField DEF Inserts
    <3>5. SeenTo(m)'
      BY <3>3, SetField DEF SeenTo, Settled
    <3>6. QED
      BY <2>1, <3>4, <3>5, OneStep DEF Accounted
  <2>3. CASE RowFails(m) /\ UNCHANGED mail
    <3>1. dropped'.messages = dropped.messages /\ dropped'.unqueued = dropped.unqueued \cup {m}
      BY <2>3, RowLost, RestIsType DEF MailInv, RestTypeOK
    <3>2. MailGoesOn
      BY <1>5, <2>3, <3>1, GoesOnSame DEF Inserts
    <3>3. SeenTo(m)'
      BY <3>1 DEF SeenTo
    <3>4. QED
      BY <1>1, <2>1, <2>3, <3>2, <3>3, OneStep DEF Accounted
  <2>4. QED
    BY <1>5, <2>2, <2>3 DEF Inserts
<1>6. CASE Claims(h)
  <2>1. CASE mail[m].claim = "none"
    <3>1. PICK s : s = [mail[m] EXCEPT !.claim = "auto"]
      OBVIOUS
    <3>2. mail' = [mail EXCEPT ![m] = s] /\ s.claim = "auto" /\ s.queue = mail[m].queue /\ GoesTo(h, "file")
      BY <1>0, <1>6, <2>1, <3>1, SetsField DEF Claims, MayClaim
    <3>3. MailGoesOn /\ \A n \in Messages : n # m => mail'[n].triaged = mail[n].triaged
      BY <1>6, <3>2, GoesOnOneRecord, SetField DEF Claims
    <3>4. SeenTo(m)'
      BY <3>2, SetField DEF SeenTo, Settled
    <3>5. handler'[h].at = "file" /\ \A k \in Handlers \ {h} : handler'[k] = handler[k]
      BY <3>2, Moved
    <3>6. QED
      BY <3>3, <3>4, <3>5, OneStep DEF Accounted, SeenTo
  <2>2. CASE mail[m].claim # "none"
    <3>1. mail' = mail /\ NotesIfSweeping(h) /\ passed' = passed /\ dropped' = dropped
      BY <1>6, <2>2 DEF Claims, MayClaim
    <3>2. MailGoesOn /\ SeenTo(m)'
      BY <2>2, <3>1, GoesOnSame DEF SeenTo, Settled
    <3>3. QED
      BY <1>1, <3>1, <3>2, NotedOrFinished, OneStep DEF Accounted, SeenTo
  <2>3. QED
    BY <2>1, <2>2
<1>7. CASE Files(h)
  <2>1. PICK s : s = [mail[m] EXCEPT !.filed = mail[m].filed + 1]
    OBVIOUS
  <2>2. mail' = [mail EXCEPT ![m] = s] /\ s.claim = mail[m].claim /\ s.queue = mail[m].queue
    BY <1>0, <1>7, <2>1, SetsField DEF Files
  <2>3. MailGoesOn /\ \A n \in Messages : n # m => mail'[n].triaged = mail[n].triaged
    BY <1>7, <2>2, GoesOnOneRecord, SetField DEF Files
  <2>4. mail[m].claim # "none"
    BY <1>7 DEF Files, MailInv, HandlerInv
  <2>5. SeenTo(m)'
    BY <2>2, <2>4, SetField DEF SeenTo, Settled
  <2>6. QED
    BY <1>7, <2>3, <2>5, NotedOrFinished, OneStep DEF Files, Accounted, SeenTo
<1>8. CASE Notes(h)
  <2>1. PICK s : s = [mail[m] EXCEPT !.triaged = TRUE]
    OBVIOUS
  <2>2. mail' = [mail EXCEPT ![m] = s] /\ s.queue = mail[m].queue /\ s.claim = mail[m].claim
    BY <1>0, <1>8, <2>1, SetsField DEF Notes
  <2>3. MailGoesOn /\ \A n \in Messages : n # m => mail'[n].triaged = mail[n].triaged
    BY <1>8, <2>2, GoesOnOneRecord, SetField DEF Notes
  <2>4. SeenTo(m)'
    BY <1>8, <2>3 DEF Notes, NotedIsSettled, MailGoesOn, SeenTo
  <2>5. handler'[h].at = "idle" /\ \A k \in Handlers \ {h} : handler'[k] = handler[k]
    BY <1>8, Finished DEF Notes
  <2>6. QED
    BY <2>3, <2>4, <2>5, OneStep DEF Accounted, SeenTo
<1>9. CASE Weighs(h)
  <2>1. mail' = mail /\ passed' = passed /\ dropped' = dropped
    BY <1>9 DEF Weighs
  <2>2. MailGoesOn
    BY <2>1, GoesOnSame
  <2>3. handler'[h].at # "note" /\ \A k \in Handlers \ {h} : handler'[k] = handler[k]
    BY <1>9, Moved, Finished DEF Weighs
  <2>4. Accounted(m)'
    <3>1. ASSUME OnItsWay(m) PROVE OnItsWay(m)'
      BY <1>9, <2>3, <3>1 DEF OnItsWay, Weighs
    <3>2. QED
      BY <2>1, <2>2, <3>1 DEF Accounted, SeenTo, RecordedIsSettled, MailGoesOn
  <2>5. QED
    BY <1>1, <2>1, <2>2, <2>3, <2>4, OneStep
<1>10. CASE FilesByHand(h)
  <2>1. PICK c : c = (IF mail[m].claim = "none" THEN "hand" ELSE mail[m].claim)
    OBVIOUS
  <2>2. PICK s : s = [mail[m] EXCEPT !.claim = c]
    OBVIOUS
  <2>3. mail' = [mail EXCEPT ![m] = s] /\ s.claim # "none" /\ s.queue = mail[m].queue
    <3>1. mail' = [mail EXCEPT ![m] = s]
      BY <1>10, <2>1, <2>2 DEF FilesByHand
    <3>2. s.claim = c /\ s.queue = mail[m].queue
      BY <1>0, <2>2, SetsField
    <3>3. QED
      BY <2>1, <3>1, <3>2
  <2>4. MailGoesOn /\ \A n \in Messages : n # m => mail'[n].triaged = mail[n].triaged
    BY <1>10, <2>3, GoesOnOneRecord, SetField DEF FilesByHand
  <2>5. SeenTo(m)'
    BY <2>3, SetField DEF SeenTo, Settled
  <2>6. handler'[h].at = "idle" /\ \A k \in Handlers \ {h} : handler'[k] = handler[k]
    BY <1>10, Finished DEF FilesByHand
  <2>7. QED
    BY <2>4, <2>5, <2>6, OneStep DEF Accounted, SeenTo
<1>11. QED
  BY <1>2, <1>3, <1>4, <1>5, <1>6, <1>7, <1>8, <1>9, <1>10 DEF HandlerStep

(* A lost request leaves its message on the list of the dropped, if it was on its way. *)
LEMMA DropStep ==
  ASSUME RInv, NEW h \in Handlers, DropsRequest(h)
  PROVE  NotedIsSettled' /\ RecordedIsSettled'
<1>1. PICK m \in Messages : m = handler[h].msg
  BY DEF DropsRequest, RInv, MailInv, HandlerInv
<1>2. /\ mail' = mail /\ passed' = passed /\ dropped.messages \subseteq dropped'.messages
      /\ dropped'.unqueued = dropped.unqueued
      /\ handler[h].at # "weigh" /\ mail[m].triaged => m \in dropped'.messages
  BY <1>1, RequestLost, RestIsType DEF DropsRequest, RInv, MailInv, RestTypeOK
<1>3. MailGoesOn
  BY <1>2, GoesOnSame
<1>4. handler'[h].at = "idle" /\ \A k \in Handlers \ {h} : handler'[k] = handler[k]
  BY Finished DEF DropsRequest, Finishes, RInv
<1>5. Accounted(m)'
  <2>1. CASE handler[h].at # "weigh" /\ mail[m].triaged
    BY <1>2, <2>1 DEF Accounted
  <2>2. CASE ~(handler[h].at # "weigh" /\ mail[m].triaged)
    <3>1. ASSUME mail[m].triaged, OnItsWay(m) PROVE OnItsWay(m)'
      BY <1>1, <1>4, <2>2, <3>1 DEF OnItsWay
    <3>2. QED
      BY <1>2, <1>3, <3>1 DEF Accounted, SeenTo, RInv, RecordedIsSettled, MailGoesOn
  <2>3. QED
    BY <2>1, <2>2
<1>6. \A n \in Messages : mail'[n].triaged = mail[n].triaged
  BY <1>2
<1>7. QED
  BY <1>1, <1>3, <1>4, <1>5, <1>6, OneStep

LEMMA RecordStep == RInv /\ [MailNext]_mailVars => NotedIsSettled' /\ RecordedIsSettled'
<1> SUFFICES ASSUME RInv, [MailNext]_mailVars PROVE NotedIsSettled' /\ RecordedIsSettled'
  OBVIOUS
<1> USE DEF RInv
<1>1. ASSUME NEW m \in Messages, Arrives(m) PROVE NotedIsSettled' /\ RecordedIsSettled'
  <2>1. PICK b \in BOOLEAN : mail' = [mail EXCEPT ![m].strays = b]
    BY <1>1 DEF Arrives
  <2>2. PICK s : s = [mail[m] EXCEPT !.strays = b]
    OBVIOUS
  <2>3. mail' = [mail EXCEPT ![m] = s] /\ s.queue = mail[m].queue /\ s.claim = mail[m].claim /\ s.triaged = mail[m].triaged
    BY <2>1, <2>2, SetsField, MailFields DEF MailInv
  <2>4. MailGoesOn /\ \A n \in Messages : mail'[n].triaged = mail[n].triaged
    BY <1>1, <2>3, GoesOnOneRecord, SetField DEF Arrives
  <2>5. QED
    BY <1>1, <2>4, QuietStep DEF Arrives
<1>2. ASSUME mail' = mail PROVE \A n \in Messages : mail'[n].triaged = mail[n].triaged
  BY <1>2
<1>3. ASSUME NEW h \in Handlers, NEW m \in Messages, Notified(h, m) \/ SweepsInbox(h, m)
      PROVE  NotedIsSettled' /\ RecordedIsSettled'
  <2>1. PICK s : s.at # "note" /\ Starts(h, s)
    BY <1>3, IdleIsHandler DEF Notified, SweepsInbox, HandlerStates, IdleHandler
  <2>2. mail' = mail /\ passed' = passed /\ dropped' = dropped
    BY <1>3 DEF Notified, SweepsInbox
  <2>3. QED
    BY <1>2, <2>1, <2>2, Begun, GoesOnSame, QuietStep
<1>4. ASSUME NEW c \in Conversations, LinksThread(c) PROVE NotedIsSettled' /\ RecordedIsSettled'
  <2>1. MailGoesOn /\ \A n \in Messages : mail'[n].triaged = mail[n].triaged
    BY <1>4, ResolvesGoesOn DEF LinksThread
  <2>2. CASE handler' = handler
    BY <2>1, <2>2, QuietStep
  <2>3. CASE handler' # handler
    <3>1. PICK h \in Handlers, m \in Messages : Starts(h, [IdleHandler EXCEPT !.at = "by hand", !.msg = m])
      BY <1>4, <2>3 DEF LinksThread
    <3>2. PICK s : s = [IdleHandler EXCEPT !.at = "by hand", !.msg = m]
      OBVIOUS
    <3>3. s.at # "note" /\ Starts(h, s)
      BY <3>1, <3>2 DEF IdleHandler
    <3>4. QED
      BY <2>1, <3>3, Begun, QuietStep
  <2>4. QED
    BY <2>2, <2>3
<1>5. ASSUME NEW c \in Conversations, SetsAside(c) \/ Restores(c) PROVE NotedIsSettled' /\ RecordedIsSettled'
  <2>1. MailGoesOn /\ \A n \in Messages : mail'[n].triaged = mail[n].triaged
    BY <1>5, ResolvesGoesOn DEF SetsAside, Restores
  <2>2. QED
    BY <1>5, <2>1, QuietStep DEF SetsAside, Restores
<1>6. ASSUME NEW h \in Handlers, HandlerStep(h) PROVE NotedIsSettled' /\ RecordedIsSettled'
  <2>1. handler[h].at # "idle"
    BY <1>6 DEF HandlerStep, Matches, Records, Checks, Inserts, Claims, Files, Notes, Weighs, FilesByHand
  <2>2. PICK m \in Messages : m = handler[h].msg
    BY <2>1, AtWork DEF MailInv
  <2>3. QED
    BY <1>6, <2>2, RequestSteps
<1>7. CASE UNCHANGED mailVars
  BY <1>2, <1>7, GoesOnSame, QuietStep DEF mailVars
<1>8. QED
  BY <1>1, <1>3, <1>4, <1>5, <1>6, <1>7, DropStep DEF MailNext

-----------------------------------------------------------------------------
(* The theorems *)

THEOREM MailInvariance == MailSpec => []MailInv
<1>1. QED
  BY MailInvInit, MailStep, PTL DEF MailSpec

(* The inbox, what is recorded of its messages and the requests at work have their types. *)
THEOREM MailTypeCorrect == MailSpec => []MailTypeOK
<1>1. MailInv => MailTypeOK
  BY DEF MailInv
<1>2. QED
  BY MailInvariance, <1>1, PTL

(* "Only one files it" (claimFiling): for any number of notifications, sweeps and people. *)
THEOREM FiledOnceAlways == MailSpec => []FiledOnce
<1>1. MailInv => FiledOnce
  BY DEF MailInv
<1>2. QED
  BY MailInvariance, <1>1, PTL

(* What is recorded of a message is never all that becomes of it: it is on the queue or claimed for its case,
   or a request will see to that, but for those passed over or dropped and those whose row could not be written
   (Records, Checks, Inserts, Notes). *)
THEOREM RecordedIsSettledAlways == MailSpec => []RecordedIsSettled
<1>1. MailInit => RInv
  BY MailInvInit, NoMailIsMail, IdleIsHandler DEF MailInit, RInv, NotedIsSettled, RecordedIsSettled, NoMail
<1>2. RInv /\ [MailNext]_mailVars => RInv'
  BY MailStep, RecordStep DEF RInv
<1>3. RInv => RecordedIsSettled
  BY DEF RInv
<1>4. QED
  BY <1>1, <1>2, <1>3, PTL DEF MailSpec
=============================================================================

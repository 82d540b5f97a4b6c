---------------------------- MODULE LinkedMatters ----------------------------
(***************************************************************************)
(* One client's sale and purchase, two matters with a log and a lock each   *)
(* (lib/server/engine/service.ts: linkChain, unlinkChain, and what run does *)
(* for contracts_exchanged, completion_confirmed and abandon_matter).       *)
(*                                                                          *)
(* A command on one matter that depends on the other reads the other file   *)
(* before it takes its own lock; linking, unlinking and the news that a     *)
(* matter fell through are one locked command on each file, one after the   *)
(* other.  A server may be lost between any two of these.                   *)
(*                                                                          *)
(* What exchange and completion need of the file itself is one flag here    *)
(* (conditions, money); modules DocumentReview and Payments have the rest.  *)
(***************************************************************************)
EXTENDS Naturals, FiniteSets, Functions

CONSTANTS
  Files,       \* the matters
  Sales,       \* those in which our client sells
  Dates,       \* completion dates
  NoFile, NoDate,
  MaxRequests, \* bound on the requests that servers are working on at once
  MaxHolds,    \* bound on the holds raised
  MaxUpsets    \* bound on the completion dates moved and the matters that fall through

ASSUME FilesAssumption == Sales \subseteq Files /\ NoFile \notin Files /\ NoDate \notin Dates
ASSUME LinkBoundsAssumption ==
  MaxRequests \in Nat /\ MaxHolds \in Nat /\ MaxUpsets \in Nat

VARIABLES
  file,   \* per matter, its state
  work    \* the requests that servers are working on

linkVars == <<file, work>>

-----------------------------------------------------------------------------
Purchases == Files \ Sales
FileStages == {"preparing", "ready", "exchanged", "funded", "completed"}

Exchangeable == "ready"    \* in pre_exchange, and the file's own conditions of exchange are met
Funded == "funded"         \* in pre_completion, and the money that completion needs is in

(* holds: the chain_dependency issues "Linked ..." raised so far, and whether the last one is open
   (held); said: a person closed it; relinked: it was raised for another link than the file has now.
   fell: the issue that the other file fell through is open. days: the issue that the dates differ, which
   a person may settle. crossed: the file exchanged on an account of the other file from before that one
   exchanged. unread: it completed without the other file having been read. *)
FileStates ==
  [stage : FileStages, abandoned : BOOLEAN, link : Files \cup {NoFile}, holds : Nat, held : BOOLEAN,
   said : BOOLEAN, relinked : BOOLEAN, fell : BOOLEAN, date : Dates \cup {NoDate}, moves : Nat,
   days : {"none", "open", "settled"}, crossed : BOOLEAN, unread : BOOLEAN]

Fresh == [stage |-> "preparing", abandoned |-> FALSE, link |-> NoFile, holds |-> 0, held |-> FALSE,
          said |-> FALSE, relinked |-> FALSE, fell |-> FALSE, date |-> NoDate, moves |-> 0, days |-> "none",
          crossed |-> FALSE, unread |-> FALSE]

(* A request on file on, about file other; seen is the other file's date and hold the number of the own
   file's open hold (0: none) when they were read. At "unread" it is to complete although the other file could
   not be read. *)
Requests ==
  [do : {"exchange", "complete", "link both", "link", "unlink", "tell"}, at : {"check", "unread", "release", "commit"},
   on : Files, other : Files \cup {NoFile}, date : Dates \cup {NoDate}, seen : Dates \cup {NoDate}, hold : Nat]

Request(do, f, g, d) ==
  [do |-> do, at |-> "commit", on |-> f, other |-> g, date |-> d, seen |-> NoDate, hold |-> 0]

LinkTypeOK == file \in [Files -> FileStates] /\ work \subseteq Requests

LinkInit == file = [f \in Files |-> Fresh] /\ work = {}

-----------------------------------------------------------------------------
HasExchanged(f) == file[f].date # NoDate
HasCompleted(f) == file[f].stage = "completed"
Alive(f) == ~file[f].abandoned

Starts(r) == Cardinality(work) < MaxRequests /\ work' = work \cup {r}
Goes(r, q) == work' = (work \ {r}) \cup {q}
Ends(r) == work' = work \ {r}
Sets(f, s) == file' = [file EXCEPT ![f] = s]

(* The file moves on by itself, or by what other modules describe. *)
GetReady(f) ==
  /\ Alive(f)
  /\ \/ file[f].stage = "preparing" /\ Sets(f, [file[f] EXCEPT !.stage = Exchangeable])
     \/ file[f].stage = "exchanged" /\ Sets(f, [file[f] EXCEPT !.stage = Funded])
  /\ UNCHANGED work

-----------------------------------------------------------------------------
(* Linking and unlinking: a locked command on each file in turn. *)

(* Mutant: the link raises no hold. *)
LinkedOnly(s, g) == [s EXCEPT !.link = g]

(* The hold is raised unless one is open already, for a link that this one replaces: the command under the lock
   refuses the same link only. *)
Linked(s, g) ==
  IF s.held THEN [s EXCEPT !.link = g, !.relinked = TRUE]
  ELSE [s EXCEPT !.link = g, !.holds = @ + 1, !.held = TRUE, !.said = FALSE, !.relinked = FALSE]

Unlinked(s) == [s EXCEPT !.link = NoFile, !.held = FALSE]

HoldsRaised == FoldFunction(LAMBDA s, n : s.holds + n, 0, file)
Upsets == FoldFunction(LAMBDA s, n : s.moves + n, Cardinality({f \in Files : file[f].abandoned}), file)

MayLink(f, g) == Alive(f) /\ ~HasExchanged(f) /\ file[f].link # g
MayUnlink(f) == Alive(f) /\ ~HasExchanged(f) /\ file[f].link # NoFile

(* Both files are read, and which of them are to be linked is decided on that reading. *)
LinkChain(f, g) ==
  /\ HoldsRaised + Cardinality({k \in {f, g} : file[k].link = NoFile}) <= MaxHolds
  /\ (f \in Sales) = (g \in Purchases)
  /\ file[f].link \in {NoFile, g} /\ file[g].link \in {NoFile, f}
  /\ ~HasExchanged(f) /\ ~HasExchanged(g)
  /\ \/ file[f].link = NoFile /\ file[g].link = NoFile /\ Starts(Request("link both", f, g, NoDate))
     \/ file[f].link = NoFile /\ file[g].link = f /\ Starts(Request("link", f, g, NoDate))
     \/ file[f].link = g /\ file[g].link = NoFile /\ Starts(Request("link", g, f, NoDate))
  /\ UNCHANGED file

LinkFirst(r) ==
  IF MayLink(r.on, r.other)
  THEN Sets(r.on, Linked(file[r.on], r.other)) /\ Goes(r, Request("link", r.other, r.on, NoDate))
  ELSE Ends(r) /\ UNCHANGED file

LinkSecond(r) ==
  /\ IF MayLink(r.on, r.other) THEN Sets(r.on, Linked(file[r.on], r.other)) ELSE UNCHANGED file
  /\ Ends(r)

UnlinkChain(f) ==
  /\ MayUnlink(f)
  /\ Sets(f, Unlinked(file[f]))
  /\ Starts(Request("unlink", file[f].link, f, NoDate))

UnlinkSecond(r) ==
  /\ IF file[r.on].link = r.other /\ MayUnlink(r.on) THEN Sets(r.on, Unlinked(file[r.on])) ELSE UNCHANGED file
  /\ Ends(r)

-----------------------------------------------------------------------------
(* Exchange and completion: asked for at their stage, when the own file is read; checked against the other
   file; then decided under the lock. *)

AskTo(do, f, d) ==
  /\ Alive(f)
  /\ \/ do = "exchange" /\ file[f].stage = Exchangeable /\ d \in Dates
     \/ do = "complete" /\ file[f].stage \in {"exchanged", Funded} /\ d = NoDate
  /\ LET s == file[f] IN
     Starts([Request(do, f, s.link, d) EXCEPT !.at = IF s.link = NoFile THEN "commit" ELSE "check",
                                              !.hold = IF s.held THEN s.holds ELSE 0])
  /\ UNCHANGED file

Ready(s) == s.stage = Exchangeable

(* Mutant: the other file's completion date is not compared. *)
CanExchangeAnyDay(s, d) == s.date # NoDate \/ (Ready(s) /\ ~s.abandoned)

(* The other file has exchanged for the same day, or could exchange now. *)
CanExchangeWith(s, d) == s.date = d \/ (s.date = NoDate /\ Ready(s) /\ ~s.abandoned)

(* Mutants: a linked sale is not waited for; nor is a linked purchase. *)
SaleAnyTime(g) == g \in Sales \/ HasCompleted(g) \/ file[g].abandoned \/ file[g].stage = Funded
PurchaseAnyTime(g) == g \in Purchases \/ HasCompleted(g)

(* A purchase waits for the sale that pays for it; a sale for a purchase with its money in: of the other file as
   it is read. *)
CanCompleteWith(g) ==
  \/ HasCompleted(g)
  \/ g \in Purchases /\ (file[g].abandoned \/ file[g].stage = Funded)

CheckOther(r) ==
  /\ LET g == file[r.other] IN
     CASE r.do = "exchange" /\ CanExchangeWith(g, r.date) ->
            Goes(r, [r EXCEPT !.at = IF r.hold = 0 THEN "commit" ELSE "release", !.seen = g.date])
       [] r.do = "complete" /\ CanCompleteWith(r.other) -> Goes(r, [r EXCEPT !.at = "commit"])
       [] OTHER -> Ends(r)
  /\ UNCHANGED file

(* When the other file cannot be read, exchange is refused (the request is lost) and completion goes on. *)
CheckUnread(r) == Goes(r, [r EXCEPT !.at = "unread"]) /\ UNCHANGED file

(* The hold that was open when the file was read is resolved by a command of its own. *)
ReleaseHold(r) ==
  LET s == file[r.on] IN
  IF s.held /\ s.holds = r.hold /\ ~s.abandoned
  THEN Sets(r.on, [s EXCEPT !.held = FALSE]) /\ Goes(r, [r EXCEPT !.at = "commit"])
  ELSE Ends(r) /\ UNCHANGED file

(* Mutant: a hold raised since the file was read does not stop its exchange. *)
MayExchangeHeld(s) == Ready(s) /\ ~s.abandoned /\ ~s.fell

MayExchange(s) == Ready(s) /\ ~s.abandoned /\ ~s.held /\ ~s.fell

ExchangeLinked(r) ==
  /\ LET s == file[r.on] IN
     IF MayExchange(s)
     THEN Sets(r.on, [s EXCEPT !.stage = "exchanged", !.date = r.date,
                               !.crossed = s.link # NoFile /\ file[s.link].date # r.seen])
     ELSE UNCHANGED file
  /\ Ends(r)

MayComplete(s) == s.stage = Funded /\ ~s.abandoned /\ ~s.fell /\ s.days # "open"

Completed(s, unread) == [s EXCEPT !.stage = "completed", !.unread = unread]

CompleteLinked(r) ==
  /\ IF MayComplete(file[r.on]) THEN Sets(r.on, Completed(file[r.on], r.at = "unread")) ELSE UNCHANGED file
  /\ Ends(r)

-----------------------------------------------------------------------------
(* What people do to one file: each is one locked command. *)

MovedTo(s, d) == [s EXCEPT !.date = d, !.moves = @ + 1, !.days = IF s.link # NoFile THEN "open" ELSE @]

MoveDate(f, d) ==
  /\ Alive(f) /\ HasExchanged(f) /\ ~HasCompleted(f) /\ file[f].date # d
  /\ Upsets < MaxUpsets
  /\ Sets(f, MovedTo(file[f], d))
  /\ UNCHANGED work

(* A person closes an issue, on somebody's word. *)
CloseIssue(f) ==
  /\ Alive(f)
  /\ \/ file[f].held /\ Sets(f, [file[f] EXCEPT !.held = FALSE, !.said = TRUE])
     \/ file[f].fell /\ Sets(f, [file[f] EXCEPT !.fell = FALSE])
     \/ file[f].days = "open" /\ Sets(f, [file[f] EXCEPT !.days = "settled"])
  /\ UNCHANGED work

(* A matter falls through; the other file is told in a command of its own. *)
FallThrough(f) ==
  /\ Alive(f) /\ ~HasCompleted(f) /\ Upsets < MaxUpsets
  /\ Sets(f, [file[f] EXCEPT !.abandoned = TRUE])
  /\ IF file[f].link = NoFile THEN UNCHANGED work ELSE Starts(Request("tell", file[f].link, f, NoDate))

TellOther(r) ==
  /\ IF Alive(r.on) /\ ~HasCompleted(r.on) THEN Sets(r.on, [file[r.on] EXCEPT !.fell = TRUE]) ELSE UNCHANGED file
  /\ Ends(r)

LoseRequest(r) == Ends(r) /\ UNCHANGED file

-----------------------------------------------------------------------------
Does(do, at) == {r \in work : r.do = do /\ r.at = at}

LinkNext ==
  \/ \E f \in Files : GetReady(f)
  \/ \E f, g \in Files : LinkChain(f, g)
  \/ \E r \in Does("link both", "commit") : LinkFirst(r)
  \/ \E r \in Does("link", "commit") : LinkSecond(r)
  \/ \E f \in Files : UnlinkChain(f)
  \/ \E r \in Does("unlink", "commit") : UnlinkSecond(r)
  \/ \E do \in {"exchange", "complete"}, f \in Files, d \in Dates \cup {NoDate} : AskTo(do, f, d)
  \/ \E r \in Does("exchange", "check") \cup Does("complete", "check") : CheckOther(r)
  \/ \E r \in Does("exchange", "release") : ReleaseHold(r)
  \/ \E r \in Does("exchange", "commit") : ExchangeLinked(r)
  \/ \E r \in Does("complete", "check") : CheckUnread(r)
  \/ \E r \in Does("complete", "commit") \cup Does("complete", "unread") : CompleteLinked(r)
  \/ \E f \in Files, d \in Dates : MoveDate(f, d)
  \/ \E f \in Files : CloseIssue(f)
  \/ \E f \in Files : FallThrough(f)
  \/ \E r \in Does("tell", "commit") : TellOther(r)
  \/ \E r \in work : LoseRequest(r)

LinkSpec == LinkInit /\ [][LinkNext]_linkVars

-----------------------------------------------------------------------------
(* Linked files complete in order, though each reads the other before it takes its own lock: a purchase after the
   sale, whose money pays for it; a sale only when the client has a home to go to, because the linked purchase has
   completed, can complete on its own money, or is off.  But a file whose linked file could not be read when its
   completion was checked completes in whatever order. *)
CompletesInOrder ==
  \A f \in Files : HasCompleted(f) /\ file[f].link # NoFile /\ ~file[f].unread =>
    LET g == file[f].link
    IN HasCompleted(g) \/ (f \in Sales /\ (file[g].abandoned \/ file[g].stage = Funded))

(* A file exchanges only together with the file it is linked to, however late the link was made: the other has
   exchanged, can, or fell through since it was asked; or a person closed the hold that the link raised; or the
   hold that was cleared had been raised for another link (of three files linked at once). *)
ExchangedTogether ==
  \A f \in Files : HasExchanged(f) /\ file[f].link # NoFile =>
    LET g == file[f].link
    IN HasExchanged(g) \/ Ready(file[g]) \/ file[g].abandoned \/ file[f].said \/ file[f].relinked

(* The two complete on one day, unless a date was moved and the file says so, or a person settled that, or
   both exchanged at the same moment. *)
SameDay ==
  \A f, g \in Files :
    file[f].link = g /\ file[g].link = f /\ HasExchanged(f) /\ HasExchanged(g) /\ file[f].date # file[g].date
      => \E k \in {f, g} : file[k].days # "none" \/ file[k].crossed

(* The requests, with their reads outside the lock, and the commands on one file after the other keep the promise
   of module LinkedFiles, in which both files are under one lock: what was checked holds when it is acted on, and
   a completion that could not be checked is known as one. *)
DaysWord(s) == IF s.days # "none" THEN s.days ELSE IF s.crossed THEN "crossed" ELSE "none"
Excused(s) == s.said \/ s.relinked
View(s) == [stage |-> s.stage, off |-> s.abandoned, link |-> s.link, excused |-> Excused(s), day |-> s.date,
            days |-> DaysWord(s), alone |-> s.unread]
views == [f \in Files |-> View(file[f])]

Together == INSTANCE LinkedFiles WITH file <- views

TogetherSpec == Together!Spec
=============================================================================

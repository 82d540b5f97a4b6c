------------------------- MODULE LinkedMattersProofs -------------------------
(***************************************************************************)
(* For any matters, dates and bounds: the types, that linked files exchange *)
(* together and for one day, that a purchase does not complete before the   *)
(* sale it is linked to, and that a sale completes only with a home to go   *)
(* to, when it read the other.  All rest on what was read before the lock   *)
(* was taken: it cannot become untrue, and the hold that is released under the  *)
(* lock says that it was read of the file that is linked now.  Hence the    *)
(* requests implement LinkedFiles, in which both files are under one lock.  *)
(***************************************************************************)
EXTENDS LinkedMatters, TLAPS

PastExchange == {"exchanged", "funded", "completed"}

Opposite(f, g) == (f \in Sales) = (g \in Purchases)

(* The file has exchanged, could exchange now, or is off: once so, always so. *)
Could(g) == HasExchanged(g) \/ Ready(file[g]) \/ file[g].abandoned

(* More than one file could be linked to f. *)
Choice(f) == \E g, h \in Files : g # h /\ Opposite(f, g) /\ Opposite(f, h)

(* What a file keeps to: its link and its hold, and what exchange and completion require of the linked file. *)
FileOK(f) ==
  /\ file[f].stage \in PastExchange <=> HasExchanged(f)
  /\ file[f].link # NoFile => Opposite(f, file[f].link)
  /\ file[f].held => file[f].link # NoFile /\ ~HasExchanged(f)
  /\ file[f].link # NoFile /\ ~file[f].held /\ ~file[f].said /\ ~file[f].relinked => Could(file[f].link)
  /\ file[f].relinked => Choice(f)
  /\ ~HasExchanged(f) => file[f].days = "none" /\ ~file[f].crossed
  /\ HasCompleted(f) /\ file[f].link # NoFile /\ ~file[f].unread => CanCompleteWith(file[f].link)

(* A request to exchange knows the file's open hold, and by it, which link it was read with; what it has seen of
   the other file's day is its own day.  A request to complete is on a file that has exchanged, whose link can no
   longer change.  Once either is checked, what was checked stays so; what could not be, is known by its request. *)
RequestOK(r) ==
  /\ r \in Requests
  /\ r.do \in {"link both", "link"} => r.other \in Files /\ Opposite(r.on, r.other)
  /\ r.do = "exchange" =>
       /\ r.date \in Dates /\ r.seen \in {NoDate, r.date}
       /\ r.hold <= file[r.on].holds
       /\ file[r.on].held /\ file[r.on].holds = r.hold /\ ~file[r.on].relinked => r.other = file[r.on].link
  /\ r.do = "exchange" /\ r.at = "release" => r.other # NoFile /\ Could(r.other)
  /\ r.do = "complete" => HasExchanged(r.on) /\ r.other = file[r.on].link
  /\ r.do = "complete" /\ r.at = "commit" /\ r.other # NoFile => CanCompleteWith(r.other)
  /\ r.at \in {"check", "unread"} => r.other # NoFile

(* Of two files linked to each other, both exchanged: for one day, or one of them knows. *)
DayAgreed(f, g) ==
  file[f].link = g /\ file[g].link = f /\ HasExchanged(f) /\ HasExchanged(g) /\ file[f].date # file[g].date
    => \E k \in {f, g} : file[k].days # "none" \/ file[k].crossed

LinkInv ==
  /\ file \in [Files -> FileStates]
  /\ \A f \in Files : FileOK(f)
  /\ \A r \in work : RequestOK(r)
  /\ \A f, g \in Files : DayAgreed(f, g)

-----------------------------------------------------------------------------
(* What a step may make of one file *)

(* An exchanged file stays exchanged and linked as it is, a completed one completed, a funded one at least
   funded, one that could exchange exchanges next, and what fell through does not come back. *)
Onward(s, t) ==
  /\ s.date # NoDate => t.date # NoDate /\ t.link = s.link
  /\ s.stage = "ready" => t.stage = "ready" \/ t.date # NoDate
  /\ s.stage = "completed" => t.stage = "completed" /\ t.unread = s.unread
  /\ s.stage = "funded" => t.stage \in {"funded", "completed"}
  /\ s.abandoned => t.abandoned

(* Holds are only ever counted up: the open one is the one that was open, on the link it was raised for, or it is
   newer, or was taken over by another link. *)
HoldKept(s, t) ==
  /\ s.holds <= t.holds
  /\ t.held /\ t.holds = s.holds /\ ~t.relinked => s.held /\ ~s.relinked /\ t.link = s.link

(* The day of a linked file moves with a word on the file, which stays; a file exchanges for the day of the
   linked one, if that has exchanged, or has crossed with it. *)
DayKept(s, t) ==
  /\ s.date # NoDate => t.date = s.date \/ t.link = NoFile \/ t.days # "none"
  /\ s.days # "none" => t.days # "none"
  /\ s.date # NoDate /\ s.crossed => t.crossed
  /\ s.date = NoDate /\ t.date # NoDate /\ t.link # NoFile =>
       file[t.link].date \in {NoDate, t.date} \/ t.crossed

(* The new state t of file f. *)
GoodStep(f, t) ==
  /\ t \in FileStates
  /\ Onward(file[f], t) /\ HoldKept(file[f], t) /\ DayKept(file[f], t)
  /\ t.stage \in PastExchange <=> t.date # NoDate
  /\ t.link # NoFile => Opposite(f, t.link)
  /\ t.held => t.link # NoFile /\ t.date = NoDate
  /\ t.link # NoFile /\ ~t.held /\ ~t.said /\ ~t.relinked => Could(t.link)
  /\ t.relinked => Choice(f)
  /\ t.date = NoDate => t.days = "none" /\ ~t.crossed
  /\ t.stage = "completed" /\ file[f].stage # "completed" =>
       t.link = file[f].link /\ (t.link # NoFile /\ ~t.unread => CanCompleteWith(t.link))

LEMMA OnwardKeeps ==
  ASSUME LinkInv, NEW f \in Files, NEW t, GoodStep(f, t), file' = [file EXCEPT ![f] = t]
  PROVE  /\ \A g \in Files : HasExchanged(g) => HasExchanged(g)' /\ file'[g].link = file[g].link
         /\ \A g \in Files : CanCompleteWith(g) => CanCompleteWith(g)'
         /\ \A g \in Files : Could(g) => Could(g)'
         /\ \A g \in Files : HoldKept(file[g], file'[g])
<1>1. \A g \in Files : file'[g] = IF g = f THEN t ELSE file[g]
  BY DEF LinkInv
<1>2. \A g \in Files : Onward(file[g], file'[g])
  BY <1>1 DEF GoodStep, Onward
<1>3. \A g \in Files : file[g].holds \in Nat
  BY DEF LinkInv, FileStates
<1>4. \A g \in Files : HoldKept(file[g], file'[g])
  BY <1>1, <1>3 DEF GoodStep, HoldKept
<1>5. QED
  BY <1>2, <1>4 DEF Onward, HasExchanged, CanCompleteWith, HasCompleted, Funded, Could, Ready, Exchangeable

(* Of the file that took the step and another. *)
LEMMA DayStepKeeps ==
  ASSUME LinkInv, NEW f \in Files, NEW t, GoodStep(f, t), file' = [file EXCEPT ![f] = t], NEW g \in Files, g # f
  PROVE  DayAgreed(f, g)'
<1>1. file'[f] = t /\ file'[g] = file[g]
  BY DEF LinkInv
<1> SUFFICES ASSUME t.link = g, file[g].link = f, t.date # NoDate, file[g].date # NoDate, t.date # file[g].date,
                    t.days = "none", ~t.crossed, file[g].days = "none", ~file[g].crossed
             PROVE  FALSE
  BY <1>1 DEF DayAgreed, HasExchanged
<1>2. g # NoFile
  BY FilesAssumption
<1>3. CASE file[f].date = NoDate
  BY <1>2, <1>3 DEF GoodStep, DayKept
<1>4. CASE file[f].date # NoDate
  <2>1. file[f].link = g /\ file[f].date = t.date /\ file[f].days = "none"
    BY <1>2, <1>4 DEF GoodStep, DayKept, Onward
  <2>2. ~file[f].crossed
    BY <1>4 DEF GoodStep, DayKept
  <2>3. QED
    BY <1>4, <2>1, <2>2 DEF LinkInv, DayAgreed, HasExchanged
<1>5. QED
  BY <1>3, <1>4

LEMMA DaysKeep ==
  ASSUME LinkInv, NEW f \in Files, NEW t, GoodStep(f, t), file' = [file EXCEPT ![f] = t]
  PROVE  \A g, h \in Files : DayAgreed(g, h)'
<1> SUFFICES ASSUME NEW g \in Files, NEW h \in Files PROVE DayAgreed(g, h)'
  OBVIOUS
<1>1. CASE g = h
  BY <1>1 DEF DayAgreed
<1>2. CASE g # h /\ g = f
  BY <1>2, DayStepKeeps
<1>3. CASE g # h /\ h = f
  <2>1. DayAgreed(h, g)'
    BY <1>3, DayStepKeeps
  <2>2. QED
    BY <2>1 DEF DayAgreed
<1>4. CASE g # f /\ h # f
  <2>1. file'[g] = file[g] /\ file'[h] = file[h]
    BY <1>4 DEF LinkInv
  <2>2. DayAgreed(g, h)
    BY DEF LinkInv
  <2>3. QED
    BY <2>1, <2>2 DEF DayAgreed, HasExchanged
<1>5. QED
  BY <1>1, <1>2, <1>3, <1>4

(* A step that makes a good step of one file, and good requests, keeps the invariant. *)
LEMMA FileStepKeeps ==
  ASSUME LinkInv, NEW f \in Files, NEW t, GoodStep(f, t), file' = [file EXCEPT ![f] = t],
         \A q \in work' : RequestOK(q)
  PROVE  LinkInv'
<1>1. file' \in [Files -> FileStates]
  BY DEF LinkInv, GoodStep
<1>2. /\ \A g \in Files : HasExchanged(g) => HasExchanged(g)' /\ file'[g].link = file[g].link
      /\ \A g \in Files : CanCompleteWith(g) => CanCompleteWith(g)'
      /\ \A g \in Files : Could(g) => Could(g)'
      /\ \A g \in Files : HoldKept(file[g], file'[g])
  BY OnwardKeeps
<1>3. \A g \in Files : file[g] \in FileStates /\ file[g].link \in Files \cup {NoFile}
  BY DEF LinkInv, FileStates
<1>4. ASSUME NEW g \in Files PROVE FileOK(g)'
  <2>1. CASE g # f
    <3>1. file'[g] = file[g]
      BY <2>1, <1>3 DEF LinkInv
    <3>2. FileOK(g)
      BY DEF LinkInv
    <3>3. QED
      BY <1>2, <1>3, <3>1, <3>2 DEF FileOK, HasExchanged, HasCompleted, Choice
  <2>2. CASE g = f
    <3>1. file'[f] = t
      BY DEF LinkInv
    <3>2. t.link \in Files \cup {NoFile}
      BY DEF GoodStep, FileStates
    <3>3. ASSUME t.stage = "completed", t.link # NoFile, ~t.unread PROVE CanCompleteWith(t.link)
      <4>1. CASE file[f].stage = "completed"
        <5>1. FileOK(f) /\ file[f].date # NoDate
          BY <4>1 DEF LinkInv, FileOK, HasExchanged, PastExchange
        <5>2. t.link = file[f].link /\ t.unread = file[f].unread
          BY <4>1, <5>1 DEF GoodStep, Onward
        <5>3. QED
          BY <3>3, <4>1, <5>1, <5>2 DEF FileOK, HasCompleted
      <4>2. QED
        BY <3>3, <4>1 DEF GoodStep
    <3>4. t.stage = "completed" /\ t.link # NoFile /\ ~t.unread => CanCompleteWith(t.link)'
      BY <1>2, <3>2, <3>3
    <3>5. t.link # NoFile /\ ~t.held /\ ~t.said /\ ~t.relinked => Could(t.link)'
      BY <1>2, <3>2 DEF GoodStep
    <3>6. QED
      BY <2>2, <3>1, <3>4, <3>5 DEF GoodStep, FileOK, HasExchanged, HasCompleted, Choice
  <2>3. QED
    BY <2>1, <2>2
<1>5. ASSUME NEW q \in work' PROVE RequestOK(q)'
  <2>1. /\ RequestOK(q) /\ q.on \in Files /\ q.other \in Files \cup {NoFile} /\ q.hold \in Nat
        /\ file[q.on].holds \in Nat /\ file'[q.on].holds \in Nat
    BY <1>1, <1>3 DEF RequestOK, Requests, FileStates
  <2>2. q.do = "exchange" =>
          /\ q.hold <= file'[q.on].holds
          /\ file'[q.on].held /\ file'[q.on].holds = q.hold /\ ~file'[q.on].relinked => q.other = file'[q.on].link
    <3> DEFINE s == file[q.on]
               u == file'[q.on]
    <3>1. /\ s.holds <= u.holds
          /\ u.held /\ u.holds = s.holds /\ ~u.relinked => s.held /\ ~s.relinked /\ u.link = s.link
      BY <1>2, <2>1 DEF HoldKept
    <3>2. q.do = "exchange" => q.hold <= s.holds /\ (s.held /\ s.holds = q.hold /\ ~s.relinked => q.other = s.link)
      BY <2>1 DEF RequestOK
    <3> HIDE DEF s, u
    <3>3. q.do = "exchange" => q.hold <= u.holds /\ (u.held /\ u.holds = q.hold /\ ~u.relinked => q.other = u.link)
      BY <2>1, <3>1, <3>2 DEF s, u
    <3>4. QED
      BY <3>3 DEF u
  <2>3. QED
    BY <1>2, <2>1, <2>2 DEF RequestOK
<1>6. \A g, h \in Files : DayAgreed(g, h)'
  BY DaysKeep
<1>7. QED
  BY <1>1, <1>4, <1>5, <1>6 DEF LinkInv

LEMMA SameFileKeeps ==
  ASSUME LinkInv, file' = file, \A q \in work' : RequestOK(q)
  PROVE  LinkInv'
<1>1. \A g \in Files : (CanCompleteWith(g) => CanCompleteWith(g)') /\ (Could(g) => Could(g)')
  BY DEF CanCompleteWith, HasCompleted, Could, HasExchanged
<1>2. \A g \in Files : file[g].link \in Files \cup {NoFile}
  BY DEF LinkInv, FileStates
<1>3. \A g \in Files : FileOK(g)'
  BY <1>1, <1>2 DEF LinkInv, FileOK, HasExchanged, HasCompleted, Choice
<1>4. ASSUME NEW q \in work' PROVE RequestOK(q)'
  <2>1. RequestOK(q) /\ q.on \in Files /\ q.other \in Files \cup {NoFile}
    BY DEF RequestOK, Requests
  <2>2. QED
    BY <1>1, <2>1 DEF RequestOK, HasExchanged
<1>5. \A g, h \in Files : DayAgreed(g, h)'
  BY DEF LinkInv, DayAgreed, HasExchanged
<1>6. QED
  BY <1>3, <1>4, <1>5 DEF LinkInv

-----------------------------------------------------------------------------
(* The steps *)

LEMMA OppositeSides ==
  ASSUME NEW f \in Files, NEW g \in Files, Opposite(f, g)
  PROVE  Opposite(g, f)
<1>1. CASE f \in Sales
  BY <1>1, FilesAssumption DEF Opposite, Purchases
<1>2. CASE f \notin Sales
  BY <1>2, FilesAssumption DEF Opposite, Purchases
<1>3. QED
  BY <1>1, <1>2

LEMMA LinkInvInit == LinkInit => LinkInv
<1> SUFFICES ASSUME LinkInit PROVE LinkInv
  OBVIOUS
<1>1. Fresh \in FileStates
  BY DEF Fresh, FileStates, FileStages
<1>2. file \in [Files -> FileStates] /\ work = {} /\ \A f \in Files : file[f] = Fresh
  BY <1>1 DEF LinkInit
<1>3. QED
  BY <1>2 DEF LinkInv, FileOK, Fresh, PastExchange, HasCompleted, HasExchanged, DayAgreed

LEMMA FileFields ==
  ASSUME LinkInv, NEW f \in Files
  PROVE  /\ file[f] \in FileStates /\ FileOK(f)
         /\ file[f].link \in Files \cup {NoFile} /\ file[f].stage \in FileStages
         /\ file[f].holds \in Nat /\ file[f].moves \in Nat
         /\ file[f].date \in Dates \cup {NoDate} /\ file[f].abandoned \in BOOLEAN
BY DEF LinkInv, FileStates

LEMMA RequestFields ==
  ASSUME LinkInv, NEW r \in work
  PROVE  /\ RequestOK(r) /\ r.on \in Files /\ r.other \in Files \cup {NoFile}
         /\ r \in Requests /\ r.date \in Dates \cup {NoDate}
BY DEF LinkInv, RequestOK, Requests

(* A step that leaves a file's stage, day and link as they are, and its hold as it is or closed: on somebody's
   word, or because the linked file could exchange. *)
LEMMA QuietFileStep ==
  ASSUME LinkInv, NEW f \in Files, NEW t \in FileStates, t.stage = file[f].stage, t.date = file[f].date,
         t.link = file[f].link, t.holds = file[f].holds, t.relinked = file[f].relinked, t.crossed = file[f].crossed,
         t.unread = file[f].unread,
         file[f].abandoned => t.abandoned, t.days # "none" <=> file[f].days # "none",
         \/ t.held = file[f].held /\ t.said = file[f].said
         \/ ~t.held /\ (t.said \/ t.relinked \/ Could(t.link))
  PROVE  GoodStep(f, t)
<1>1. FileOK(f) /\ file[f] \in FileStates /\ file[f].holds \in Nat
  BY FileFields
<1>2. Onward(file[f], t) /\ HoldKept(file[f], t) /\ DayKept(file[f], t)
  BY <1>1 DEF Onward, HoldKept, DayKept
<1>3. QED
  BY <1>1, <1>2 DEF GoodStep, FileOK, HasExchanged

(* A step to a later stage on the same side of exchange. *)
LEMMA MovesOn ==
  ASSUME LinkInv, NEW f \in Files, NEW stage \in FileStages,
         <<file[f].stage, stage>> \in {<<"preparing", "ready">>, <<"exchanged", "funded">>}
  PROVE  GoodStep(f, [file[f] EXCEPT !.stage = stage])
<1> DEFINE s == file[f]
           t == [s EXCEPT !.stage = stage]
<1>1. s \in FileStates /\ s.holds \in Nat /\ FileOK(f)
  BY FileFields
<1>2. /\ t \in FileStates /\ t.stage = stage /\ t.link = s.link /\ t.date = s.date /\ t.abandoned = s.abandoned
      /\ t.held = s.held /\ t.said = s.said /\ t.relinked = s.relinked /\ t.holds = s.holds /\ t.days = s.days
      /\ t.crossed = s.crossed /\ t.unread = s.unread
  BY <1>1 DEF FileStates
<1> HIDE DEF s, t
<1>3. Onward(s, t) /\ HoldKept(s, t) /\ DayKept(s, t)
  BY <1>1, <1>2 DEF Onward, HoldKept, DayKept, s
<1>4. QED
  BY <1>1, <1>2, <1>3 DEF GoodStep, FileOK, HasExchanged, PastExchange, s, t

LEMMA CompletedFields ==
  ASSUME NEW s \in FileStates, NEW alone \in BOOLEAN
  PROVE  LET t == Completed(s, alone) IN
           /\ t \in FileStates
           /\ t.stage = "completed" /\ t.date = s.date /\ t.link = s.link /\ t.abandoned = s.abandoned
           /\ t.held = s.held /\ t.said = s.said /\ t.relinked = s.relinked /\ t.holds = s.holds /\ t.days = s.days
           /\ t.crossed = s.crossed /\ t.unread = alone
BY DEF Completed, FileStates, FileStages

LEMMA NewRequest ==
  ASSUME NEW do \in {"link both", "link", "unlink", "tell"}, NEW f \in Files, NEW g \in Files \cup {NoFile},
         NEW d \in Dates \cup {NoDate}, do \in {"link both", "link"} => g \in Files /\ Opposite(f, g)
  PROVE  RequestOK(Request(do, f, g, d))
<1>1. Request(do, f, g, d) \in Requests
  BY DEF Request, Requests
<1>2. QED
  BY <1>1 DEF Request, RequestOK

(* A file that has not exchanged may be linked anew. *)
LEMMA LinkedStep ==
  ASSUME LinkInv, NEW f \in Files, NEW g \in Files, Opposite(f, g), MayLink(f, g)
  PROVE  GoodStep(f, Linked(file[f], g))
<1> DEFINE s == file[f]
           t == Linked(s, g)
<1>1. s \in FileStates /\ s.holds \in Nat /\ s.holds + 1 \in Nat /\ FileOK(f) /\ g # NoFile /\ s.date = NoDate
  BY FileFields, FilesAssumption DEF MayLink, HasExchanged
<1>2. CASE s.held
  <2>1. /\ t \in FileStates /\ t.link = g /\ t.stage = s.stage /\ t.date = s.date /\ t.abandoned = s.abandoned
        /\ t.held /\ t.relinked /\ t.holds = s.holds /\ t.days = s.days /\ t.crossed = s.crossed
        /\ t.unread = s.unread
    BY <1>1, <1>2 DEF Linked, FileStates
  <2>2. s.link \in Files /\ s.link # g /\ Opposite(f, s.link)
    BY <1>1, <1>2, FileFields DEF FileOK, MayLink
  <2>3. Choice(f)
    BY <2>2 DEF Choice
  <2> HIDE DEF s, t
  <2>4. Onward(s, t) /\ HoldKept(s, t) /\ DayKept(s, t)
    BY <1>1, <2>1 DEF Onward, HoldKept, DayKept
  <2>5. QED
    BY <1>1, <2>1, <2>3, <2>4 DEF GoodStep, FileOK, HasExchanged, s, t
<1>3. CASE ~s.held
  <2>1. /\ t \in FileStates /\ t.link = g /\ t.stage = s.stage /\ t.date = s.date /\ t.abandoned = s.abandoned
        /\ t.held /\ ~t.relinked /\ t.holds = s.holds + 1 /\ t.days = s.days /\ t.crossed = s.crossed
        /\ t.unread = s.unread
    BY <1>1, <1>3 DEF Linked, FileStates
  <2> HIDE DEF s, t
  <2>2. Onward(s, t) /\ HoldKept(s, t) /\ DayKept(s, t)
    BY <1>1, <2>1 DEF Onward, HoldKept, DayKept
  <2>3. QED
    BY <1>1, <2>1, <2>2 DEF GoodStep, FileOK, HasExchanged, s, t
<1>4. QED
  BY <1>2, <1>3

(* Or not be linked any more. *)
LEMMA UnlinkedStep ==
  ASSUME LinkInv, NEW f \in Files, MayUnlink(f)
  PROVE  GoodStep(f, Unlinked(file[f]))
<1> DEFINE s == file[f]
           t == Unlinked(s)
<1>1. s \in FileStates /\ s.holds \in Nat /\ FileOK(f) /\ s.date = NoDate
  BY FileFields DEF MayUnlink, HasExchanged
<1>2. /\ t \in FileStates /\ t.link = NoFile /\ t.stage = s.stage /\ t.date = s.date /\ t.abandoned = s.abandoned
      /\ ~t.held /\ t.relinked = s.relinked /\ t.holds = s.holds /\ t.days = s.days /\ t.crossed = s.crossed
      /\ t.unread = s.unread
  BY <1>1 DEF Unlinked, FileStates
<1> HIDE DEF s, t
<1>3. Onward(s, t) /\ HoldKept(s, t) /\ DayKept(s, t)
  BY <1>1, <1>2 DEF Onward, HoldKept, DayKept
<1>4. QED
  BY <1>1, <1>2, <1>3 DEF GoodStep, FileOK, HasExchanged, s, t

LEMMA LinkingKeeps ==
  ASSUME LinkInv, NEW r \in work, r.do \in {"link both", "link"}, MayLink(r.on, r.other),
         Sets(r.on, Linked(file[r.on], r.other)), \A q \in work' : RequestOK(q)
  PROVE  LinkInv'
<1>1. r.on \in Files /\ r.other \in Files /\ Opposite(r.on, r.other)
  BY RequestFields DEF RequestOK
<1>2. GoodStep(r.on, Linked(file[r.on], r.other))
  BY <1>1, LinkedStep
<1>3. QED
  BY <1>1, <1>2, FileStepKeeps DEF Sets

LEMMA UnlinkingKeeps ==
  ASSUME LinkInv, NEW f \in Files, MayUnlink(f), Sets(f, Unlinked(file[f])), \A q \in work' : RequestOK(q)
  PROVE  LinkInv'
<1>1. GoodStep(f, Unlinked(file[f]))
  BY UnlinkedStep
<1>2. QED
  BY <1>1, FileStepKeeps DEF Sets

LEMMA LinkInvStep == LinkInv /\ [LinkNext]_linkVars => LinkInv'
<1> SUFFICES ASSUME LinkInv, [LinkNext]_linkVars PROVE LinkInv'
  OBVIOUS
<1>1. \A r \in work : RequestOK(r)
  BY DEF LinkInv
<1>2. ASSUME work' = work \/ (\E r \in work : Ends(r)) PROVE \A q \in work' : RequestOK(q)
  BY <1>1, <1>2 DEF Ends
<1>3. ASSUME NEW q, RequestOK(q), Starts(q) \/ (\E r \in work : Goes(r, q)) PROVE \A k \in work' : RequestOK(k)
  BY <1>1, <1>3 DEF Starts, Goes
<1>4. ASSUME file' = file, work' = work \/ (\E r \in work : Ends(r)) PROVE LinkInv'
  BY <1>2, <1>4, SameFileKeeps
<1>5. ASSUME NEW f \in Files, NEW t, GoodStep(f, t), Sets(f, t), work' = work \/ (\E r \in work : Ends(r))
      PROVE  LinkInv'
  BY <1>2, <1>5, FileStepKeeps DEF Sets
<1>6. ASSUME NEW f \in Files, GetReady(f) PROVE LinkInv'
  <2>1. CASE file[f].stage = "preparing" /\ Sets(f, [file[f] EXCEPT !.stage = Exchangeable])
    <3>1. GoodStep(f, [file[f] EXCEPT !.stage = Exchangeable])
      BY <2>1, MovesOn, FileFields DEF FileStages, Exchangeable, PastExchange
    <3>2. QED
      BY <1>5, <1>6, <2>1, <3>1 DEF GetReady
  <2>2. CASE file[f].stage = "exchanged" /\ Sets(f, [file[f] EXCEPT !.stage = Funded])
    <3>1. GoodStep(f, [file[f] EXCEPT !.stage = Funded])
      BY <2>2, MovesOn, FileFields DEF FileStages, Funded, PastExchange
    <3>2. QED
      BY <1>5, <1>6, <2>2, <3>1 DEF GetReady
  <2>3. QED
    BY <1>6, <2>1, <2>2 DEF GetReady
<1>7. ASSUME NEW f \in Files, NEW g \in Files, LinkChain(f, g) PROVE LinkInv'
  <2>1. Opposite(f, g) /\ Opposite(g, f)
    BY <1>7, OppositeSides DEF LinkChain, Opposite
  <2>2. /\ RequestOK(Request("link both", f, g, NoDate)) /\ RequestOK(Request("link", f, g, NoDate))
        /\ RequestOK(Request("link", g, f, NoDate))
    BY <2>1, NewRequest
  <2>3. \A k \in work' : RequestOK(k)
    BY <1>3, <1>7, <2>2 DEF LinkChain
  <2>4. QED
    BY <1>7, <2>3, SameFileKeeps DEF LinkChain
<1>8. ASSUME NEW r \in work, r.do = "link both", LinkFirst(r) PROVE LinkInv'
  <2>1. CASE MayLink(r.on, r.other)
    <3>1. r.on \in Files /\ r.other \in Files /\ Opposite(r.other, r.on)
      BY <1>8, RequestFields, OppositeSides DEF RequestOK
    <3>2. RequestOK(Request("link", r.other, r.on, NoDate))
      BY <3>1, NewRequest
    <3>3. \A k \in work' : RequestOK(k)
      BY <1>3, <1>8, <2>1, <3>2 DEF LinkFirst
    <3>4. QED
      BY <1>8, <2>1, <3>3, LinkingKeeps DEF LinkFirst
  <2>2. QED
    BY <1>4, <1>8, <2>1 DEF LinkFirst
<1>9. ASSUME NEW r \in work, r.do = "link", LinkSecond(r) PROVE LinkInv'
  <2>1. \A k \in work' : RequestOK(k)
    BY <1>2, <1>9 DEF LinkSecond
  <2>2. CASE MayLink(r.on, r.other)
    BY <1>9, <2>1, <2>2, LinkingKeeps DEF LinkSecond
  <2>3. QED
    BY <1>9, <2>1, <2>2, SameFileKeeps DEF LinkSecond
<1>10. ASSUME NEW f \in Files, UnlinkChain(f) PROVE LinkInv'
  <2>1. file[f].link \in Files
    BY <1>10, FileFields DEF UnlinkChain, MayUnlink
  <2>2. RequestOK(Request("unlink", file[f].link, f, NoDate))
    BY <2>1, NewRequest
  <2>3. \A k \in work' : RequestOK(k)
    BY <1>3, <1>10, <2>2 DEF UnlinkChain
  <2>4. QED
    BY <1>10, <2>3, UnlinkingKeeps DEF UnlinkChain
<1>11. ASSUME NEW r \in work, UnlinkSecond(r) PROVE LinkInv'
  <2>1. \A k \in work' : RequestOK(k)
    BY <1>2, <1>11 DEF UnlinkSecond
  <2>2. r.on \in Files
    BY RequestFields
  <2>3. CASE MayUnlink(r.on) /\ Sets(r.on, Unlinked(file[r.on]))
    BY <2>1, <2>2, <2>3, UnlinkingKeeps
  <2>4. QED
    BY <1>11, <2>1, <2>3, SameFileKeeps DEF UnlinkSecond
<1>12. ASSUME NEW do \in {"exchange", "complete"}, NEW f \in Files, NEW d \in Dates \cup {NoDate}, AskTo(do, f, d)
       PROVE  LinkInv'
  <2> DEFINE b == Request(do, f, file[f].link, d)
             x == IF file[f].link = NoFile THEN "commit" ELSE "check"
             y == IF file[f].held THEN file[f].holds ELSE 0
             q == [b EXCEPT !.at = x, !.hold = y]
  <2>1. b \in Requests /\ b.do = do /\ b.on = f /\ b.other = file[f].link /\ b.date = d /\ b.seen = NoDate
    BY FileFields DEF Request, Requests
  <2>2. /\ q \in Requests /\ q.do = do /\ q.on = f /\ q.other = file[f].link /\ q.date = d /\ q.at = x
        /\ q.hold = y /\ q.seen = NoDate
    <3>1. x \in {"commit", "check"} /\ y \in Nat
      BY FileFields
    <3> HIDE DEF b, x, y
    <3>2. QED
      BY <2>1, <3>1 DEF Requests
  <2>3. do = "complete" => HasExchanged(f)
    BY <1>12, FileFields DEF AskTo, FileOK, PastExchange, Funded
  <2>4. do = "exchange" => d \in Dates
    BY <1>12 DEF AskTo
  <2>5. Starts(q) /\ file' = file
    BY <1>12 DEF AskTo
  <2>6. RequestOK(q)
    <3>1. y <= file[f].holds
      BY FileFields
    <3> HIDE DEF b, q
    <3>2. QED
      BY <2>2, <2>3, <2>4, <3>1 DEF RequestOK
  <2>7. QED
    BY <1>3, <2>5, <2>6, SameFileKeeps
<1>13. ASSUME NEW r \in work, r.at = "check", CheckOther(r) PROVE LinkInv'
  <2>1. RequestOK(r) /\ r \in Requests /\ r.other \in Files /\ file[r.other].date \in Dates \cup {NoDate}
    BY <1>13, RequestFields, FileFields DEF RequestOK
  <2>2. CASE r.do = "exchange" /\ CanExchangeWith(file[r.other], r.date)
    <3> DEFINE q == [r EXCEPT !.at = IF r.hold = 0 THEN "commit" ELSE "release", !.seen = file[r.other].date]
    <3>1. q \in Requests
      BY <2>1 DEF Requests
    <3>2. RequestOK(q)
      <4>1. /\ q.do = "exchange" /\ q.on = r.on /\ q.other = r.other /\ q.date = r.date /\ q.hold = r.hold
            /\ q.seen = file[r.other].date /\ q.at # "check"
        BY <2>1, <2>2 DEF Requests
      <4>2. r.date \in Dates /\ r.date # NoDate /\ r.other # NoFile
        BY <2>1, <2>2, FilesAssumption DEF RequestOK
      <4>3. q.seen \in {NoDate, q.date} /\ Could(q.other)
        BY <2>2, <4>1, <4>2 DEF CanExchangeWith, Could, HasExchanged
      <4> HIDE DEF q
      <4>4. QED
        BY <2>1, <2>2, <3>1, <4>1, <4>2, <4>3 DEF RequestOK
    <3>3. Goes(r, q) /\ file' = file
      BY <1>13, <2>2 DEF CheckOther
    <3>4. QED
      BY <1>3, <3>2, <3>3, SameFileKeeps
  <2>3. CASE r.do = "complete" /\ CanCompleteWith(r.other)
    <3> DEFINE q == [r EXCEPT !.at = "commit"]
    <3>1. q \in Requests
      BY <2>1 DEF Requests
    <3>2. RequestOK(q)
      BY <2>1, <2>3, <3>1 DEF RequestOK, Requests
    <3>3. Goes(r, q) /\ file' = file
      BY <1>13, <2>3 DEF CheckOther
    <3>4. QED
      BY <1>3, <3>2, <3>3, SameFileKeeps
  <2>4. QED
    BY <1>4, <1>13, <2>2, <2>3 DEF CheckOther
<1>14. ASSUME NEW r \in work, r.do = "exchange", r.at = "release", ReleaseHold(r) PROVE LinkInv'
  <2>1. RequestOK(r) /\ r.on \in Files /\ r \in Requests
    BY RequestFields
  <2>2. CASE file[r.on].held /\ file[r.on].holds = r.hold /\ ~file[r.on].abandoned
    <3> DEFINE q == [r EXCEPT !.at = "commit"]
               t == [file[r.on] EXCEPT !.held = FALSE]
    <3>1. q \in Requests
      BY <2>1 DEF Requests
    <3>2. RequestOK(q)
      BY <1>14, <2>1, <3>1 DEF RequestOK, Requests
    <3>3. t \in FileStates
      BY <2>1, FileFields DEF FileStates
    <3>4. /\ t.stage = file[r.on].stage /\ t.date = file[r.on].date /\ t.abandoned = file[r.on].abandoned
          /\ t.link = file[r.on].link /\ t.holds = file[r.on].holds /\ t.relinked = file[r.on].relinked
          /\ t.crossed = file[r.on].crossed /\ t.days = file[r.on].days /\ ~t.held
          /\ t.unread = file[r.on].unread
      BY <2>1, FileFields DEF FileStates
    <3>5. t.relinked \/ Could(t.link)
      BY <1>14, <2>1, <2>2, <3>4 DEF RequestOK
    <3>6. GoodStep(r.on, t)
      BY <2>1, <3>3, <3>4, <3>5, QuietFileStep
    <3>7. Goes(r, q) /\ Sets(r.on, t)
      BY <1>14, <2>2 DEF ReleaseHold
    <3>8. \A k \in work' : RequestOK(k)
      BY <1>3, <3>2, <3>7
    <3> HIDE DEF t, q
    <3>9. QED
      BY <2>1, <3>6, <3>7, <3>8, FileStepKeeps DEF Sets
  <2>3. QED
    BY <1>4, <1>14, <2>2 DEF ReleaseHold
<1>15. ASSUME NEW r \in work, r.do = "exchange", ExchangeLinked(r) PROVE LinkInv'
  <2>1. r.on \in Files /\ r.date \in Dates /\ r.seen \in {NoDate, r.date}
    BY <1>15, RequestFields DEF RequestOK
  <2>2. CASE MayExchange(file[r.on])
    <3> DEFINE s == file[r.on]
               t == [s EXCEPT !.stage = "exchanged", !.date = r.date,
                              !.crossed = s.link # NoFile /\ file[s.link].date # r.seen]
    <3>1. t \in FileStates
      BY <2>1, FileFields DEF FileStates, FileStages
    <3>2. /\ t.stage = "exchanged" /\ t.date = r.date /\ t.link = s.link /\ t.abandoned = s.abandoned
          /\ t.held = s.held /\ t.said = s.said /\ t.relinked = s.relinked /\ t.holds = s.holds /\ t.days = s.days
          /\ t.unread = s.unread /\ (t.link # NoFile /\ file[t.link].date # r.seen => t.crossed)
      BY <2>1, FileFields DEF FileStates
    <3>3. s.stage = "ready" /\ t.date # NoDate /\ FileOK(r.on) /\ ~s.held /\ s.date = NoDate /\ s.holds \in Nat
      BY <2>1, <2>2, <3>2, FileFields, FilesAssumption
         DEF MayExchange, Ready, Exchangeable, FileOK, PastExchange, HasExchanged
    <3>4. Sets(r.on, t) /\ Ends(r)
      BY <1>15, <2>2 DEF ExchangeLinked
    <3> HIDE DEF s, t
    <3>5. Onward(s, t) /\ HoldKept(s, t) /\ DayKept(s, t)
      BY <2>1, <3>2, <3>3 DEF Onward, HoldKept, DayKept
    <3>6. GoodStep(r.on, t)
      BY <3>1, <3>2, <3>3, <3>5 DEF GoodStep, FileOK, HasExchanged, PastExchange, s
    <3>7. QED
      BY <1>5, <2>1, <3>4, <3>6
  <2>3. QED
    BY <1>4, <1>15, <2>2 DEF ExchangeLinked
<1>16. ASSUME NEW r \in work, r.do = "complete", r.at \in {"commit", "unread"}, CompleteLinked(r) PROVE LinkInv'
  <2>1. r.on \in Files /\ RequestOK(r)
    BY RequestFields
  <2>2. CASE MayComplete(file[r.on])
    <3> DEFINE s == file[r.on]
               alone == r.at = "unread"
               t == Completed(s, alone)
    <3>1. alone \in BOOLEAN /\ s \in FileStates
      BY <2>1, FileFields
    <3>2. /\ t \in FileStates
          /\ t.stage = "completed" /\ t.date = s.date /\ t.link = s.link /\ t.abandoned = s.abandoned
          /\ t.held = s.held /\ t.said = s.said /\ t.relinked = s.relinked /\ t.holds = s.holds /\ t.days = s.days
          /\ t.crossed = s.crossed /\ t.unread = alone
      <4> HIDE DEF s, alone
      <4>1. QED
        BY <3>1, CompletedFields
    <3>3. /\ s.date # NoDate /\ s.holds \in Nat /\ FileOK(r.on) /\ s.stage = "funded"
          /\ s.link # NoFile /\ ~alone => CanCompleteWith(s.link)
      BY <1>16, <2>1, <2>2, FileFields DEF RequestOK, HasExchanged, MayComplete, Funded
    <3>4. Sets(r.on, t) /\ Ends(r)
      BY <1>16, <2>2 DEF CompleteLinked
    <3> HIDE DEF s, t, alone
    <3>5. Onward(s, t) /\ HoldKept(s, t) /\ DayKept(s, t)
      BY <3>2, <3>3 DEF Onward, HoldKept, DayKept
    <3>6. GoodStep(r.on, t)
      BY <3>2, <3>3, <3>5 DEF GoodStep, FileOK, HasExchanged, PastExchange, s
    <3>7. QED
      BY <1>5, <2>1, <3>4, <3>6
  <2>3. QED
    BY <1>4, <1>16, <2>2 DEF CompleteLinked
<1>17. ASSUME NEW f \in Files, NEW d \in Dates, MoveDate(f, d) PROVE LinkInv'
  <2> DEFINE t == MovedTo(file[f], d)
  <2>1. file[f].moves + 1 \in Nat
    BY FileFields
  <2>2. \A n \in Nat, y \in {"none", "open", "settled"} :
          [file[f] EXCEPT !.date = d, !.moves = n, !.days = y] \in FileStates
    BY FileFields DEF FileStates
  <2>3. file[f].days \in {"none", "open", "settled"}
    BY FileFields DEF FileStates
  <2>4. t \in FileStates
    BY <2>1, <2>2, <2>3 DEF MovedTo
  <2> DEFINE s == file[f]
  <2>5. /\ t.stage = s.stage /\ t.date = d /\ t.link = s.link /\ t.abandoned = s.abandoned
        /\ t.held = s.held /\ t.said = s.said /\ t.relinked = s.relinked /\ t.holds = s.holds
        /\ t.days = (IF s.link # NoFile THEN "open" ELSE s.days) /\ t.crossed = s.crossed /\ t.unread = s.unread
    BY FileFields DEF FileStates, MovedTo
  <2>6. d # NoDate /\ s.date # NoDate /\ s.holds \in Nat /\ FileOK(f)
    BY <1>17, FileFields, FilesAssumption DEF MoveDate, HasExchanged
  <2>7. Sets(f, t) /\ work' = work
    BY <1>17 DEF MoveDate
  <2> HIDE DEF s, t
  <2>8. Onward(s, t) /\ HoldKept(s, t) /\ DayKept(s, t)
    BY <2>5, <2>6 DEF Onward, HoldKept, DayKept
  <2>9. GoodStep(f, t)
    BY <2>4, <2>5, <2>6, <2>8 DEF GoodStep, FileOK, HasExchanged, s
  <2>10. QED
    BY <1>5, <2>7, <2>9
<1>18. ASSUME NEW f \in Files, CloseIssue(f) PROVE LinkInv'
  <2>1. PICK t : /\ \/ t \in {[file[f] EXCEPT !.held = FALSE, !.said = TRUE], [file[f] EXCEPT !.fell = FALSE]}
                    \/ file[f].days = "open" /\ t = [file[f] EXCEPT !.days = "settled"]
                 /\ Sets(f, t)
    BY <1>18 DEF CloseIssue
  <2>2. /\ t \in FileStates /\ t.stage = file[f].stage /\ t.date = file[f].date /\ t.link = file[f].link
        /\ t.abandoned = file[f].abandoned /\ t.holds = file[f].holds /\ t.relinked = file[f].relinked
        /\ t.crossed = file[f].crossed /\ (t.days # "none" <=> file[f].days # "none") /\ t.unread = file[f].unread
        /\ (t.held = file[f].held /\ t.said = file[f].said) \/ (~t.held /\ t.said)
    BY <2>1, FileFields DEF FileStates
  <2>3. GoodStep(f, t)
    BY <2>2, QuietFileStep
  <2>4. QED
    BY <1>5, <1>18, <2>1, <2>3 DEF CloseIssue
<1>19. ASSUME NEW f \in Files, FallThrough(f) PROVE LinkInv'
  <2> DEFINE t == [file[f] EXCEPT !.abandoned = TRUE]
  <2>1. /\ t \in FileStates /\ t.stage = file[f].stage /\ t.date = file[f].date /\ t.link = file[f].link
        /\ t.abandoned /\ t.holds = file[f].holds /\ t.relinked = file[f].relinked /\ t.crossed = file[f].crossed
        /\ t.days = file[f].days /\ t.held = file[f].held /\ t.said = file[f].said /\ t.unread = file[f].unread
    BY FileFields DEF FileStates
  <2>2. GoodStep(f, t)
    BY <2>1, QuietFileStep
  <2>3. Sets(f, t)
    BY <1>19 DEF FallThrough
  <2> HIDE DEF t
  <2>4. CASE file[f].link = NoFile
    BY <1>5, <1>19, <2>2, <2>3, <2>4 DEF FallThrough
  <2>5. CASE file[f].link # NoFile
    <3>1. file[f].link \in Files
      BY <2>5, FileFields
    <3>2. RequestOK(Request("tell", file[f].link, f, NoDate))
      BY <3>1, NewRequest
    <3>3. Starts(Request("tell", file[f].link, f, NoDate))
      BY <1>19, <2>5 DEF FallThrough
    <3>4. \A k \in work' : RequestOK(k)
      BY <1>3, <3>2, <3>3
    <3>5. QED
      BY <2>2, <2>3, <3>4, FileStepKeeps DEF Sets
  <2>6. QED
    BY <2>4, <2>5
<1>20. ASSUME NEW r \in work, TellOther(r) PROVE LinkInv'
  <2>1. r.on \in Files
    BY RequestFields
  <2> DEFINE t == [file[r.on] EXCEPT !.fell = TRUE]
  <2>2. /\ t \in FileStates /\ t.stage = file[r.on].stage /\ t.date = file[r.on].date /\ t.link = file[r.on].link
        /\ t.abandoned = file[r.on].abandoned /\ t.holds = file[r.on].holds /\ t.relinked = file[r.on].relinked
        /\ t.crossed = file[r.on].crossed /\ t.days = file[r.on].days /\ t.held = file[r.on].held
        /\ t.said = file[r.on].said /\ t.unread = file[r.on].unread
    BY <2>1, FileFields DEF FileStates
  <2>3. GoodStep(r.on, t)
    BY <2>1, <2>2, QuietFileStep
  <2>4. Ends(r) /\ (Sets(r.on, t) \/ file' = file)
    BY <1>20 DEF TellOther
  <2> HIDE DEF t
  <2>5. QED
    BY <1>4, <1>5, <2>1, <2>3, <2>4
<1>21. ASSUME NEW r \in work, LoseRequest(r) PROVE LinkInv'
  BY <1>4, <1>21 DEF LoseRequest
<1>22. ASSUME NEW r \in work, r.do = "complete", r.at = "check", CheckUnread(r) PROVE LinkInv'
  <2> DEFINE q == [r EXCEPT !.at = "unread"]
  <2>1. RequestOK(r) /\ r \in Requests
    BY RequestFields
  <2>2. q \in Requests
    BY <2>1 DEF Requests
  <2>3. RequestOK(q)
    BY <1>22, <2>1, <2>2 DEF RequestOK, Requests
  <2>4. Goes(r, q) /\ file' = file
    BY <1>22 DEF CheckUnread
  <2>5. QED
    BY <1>3, <2>3, <2>4, SameFileKeeps
<1>23. CASE UNCHANGED linkVars
  BY <1>4, <1>23 DEF linkVars
<1>24. ASSUME LinkNext PROVE LinkInv'
  BY <1>6, <1>7, <1>8, <1>9, <1>10, <1>11, <1>12, <1>13, <1>14, <1>15, <1>16, <1>17, <1>18, <1>19, <1>20, <1>21, <1>22, <1>24
     DEF LinkNext, Does
<1>25. QED
  BY <1>23, <1>24

-----------------------------------------------------------------------------
(* The theorems *)

THEOREM LinkInvariance == LinkSpec => []LinkInv
<1>1. QED
  BY LinkInvInit, LinkInvStep, PTL DEF LinkSpec

(* Files and requests have their types, whatever is linked, checked, lost or falls through. *)
THEOREM LinkTypeCorrect == LinkSpec => []LinkTypeOK
<1>1. LinkInv => LinkTypeOK
  BY DEF LinkInv, LinkTypeOK, RequestOK
<1>2. QED
  BY LinkInvariance, <1>1, PTL

(* Linked files complete in order: the purchase after the sale that pays for it, the sale with a home to go to,
   unless the linked file could not be read when that was checked (assertLinkedSaleCompleted,
   assertLinkedPurchaseReady, whose read of it that fails is no refusal). *)
THEOREM CompletionInOrder == LinkSpec => []CompletesInOrder
<1>1. LinkInv => CompletesInOrder
  BY FileFields, FilesAssumption DEF CompletesInOrder, FileOK, Opposite, Purchases, CanCompleteWith
<1>2. QED
  BY LinkInvariance, <1>1, PTL

(* Linked files exchange together, whichever servers are lost between the commands that link, check, release and
   exchange; the hold that is cleared is that of the link that was checked (linkChain, assertLinkedMatterReady). *)
THEOREM ExchangeTogether == LinkSpec => []ExchangedTogether
<1>1. LinkInv => ExchangedTogether
  BY FileFields DEF ExchangedTogether, FileOK, Could
<1>2. QED
  BY LinkInvariance, <1>1, PTL

(* Where a file has but one file to be linked to, no link replaces another: what the third file costs is said. *)
THEOREM OneLinkEach ==
  ASSUME \A f, g, h \in Files : Opposite(f, g) /\ Opposite(f, h) => g = h
  PROVE  LinkSpec => [](\A f \in Files : ~file[f].relinked)
<1>1. LinkInv => \A f \in Files : ~file[f].relinked
  BY DEF LinkInv, FileOK, Choice
<1>2. QED
  BY LinkInvariance, <1>1, PTL

(* Linked files complete on one day, unless a date was moved and the file says so, or both exchanged at the same
   moment (assertLinkedMatterReady's comparison of the days, change_completion_date). *)
THEOREM OneDay == LinkSpec => []SameDay
<1>1. LinkInv => SameDay
  BY DEF LinkInv, SameDay, DayAgreed
<1>2. QED
  BY LinkInvariance, <1>1, PTL

-----------------------------------------------------------------------------
(* The promise of module LinkedFiles *)

(* The views by their fields, and what becomes of one when some of them are set. *)
Row(a, b, c, d, e, f, g) == [stage |-> a, off |-> b, link |-> c, excused |-> d, day |-> e, days |-> f, alone |-> g]

LEMMA ViewIsRow ==
  ASSUME NEW s
  PROVE  View(s) = Row(s.stage, s.abandoned, s.link, Excused(s), s.date, DaysWord(s), s.unread)
BY DEF View, Row

LEMMA LinkedToRow ==
  ASSUME NEW a, NEW b, NEW c, NEW d, NEW e, NEW f, NEW g, NEW x, NEW y
  PROVE  Together!LinkedTo(Row(a, b, c, d, e, f, g), x, y) = Row(a, b, x, y, e, f, g)
<1> DEFINE r == Row(a, b, c, d, e, f, g)
<1> DEFINE u == [r EXCEPT !.link = x]
<1>1. [r EXCEPT !.link = x, !.excused = y] = [u EXCEPT !.excused = y]
  OBVIOUS
<1>2. u = Row(a, b, x, d, e, f, g)
  BY DEF Row
<1> HIDE DEF u
<1>3. [u EXCEPT !.excused = y] = Row(a, b, x, y, e, f, g)
  BY <1>2 DEF Row
<1>4. QED
  BY <1>1, <1>3 DEF Together!LinkedTo

LEMMA ExchangedForRow ==
  ASSUME NEW a, NEW b, NEW c, NEW d, NEW e, NEW f, NEW g, NEW x, NEW y
  PROVE  Together!ExchangedFor(Row(a, b, c, d, e, f, g), x, y) = Row("exchanged", b, c, d, x, y, g)
<1> DEFINE r == Row(a, b, c, d, e, f, g)
<1> DEFINE u == [r EXCEPT !.stage = "exchanged"]
           v == [u EXCEPT !.day = x]
<1>1. [r EXCEPT !.stage = "exchanged", !.day = x, !.days = y] = [v EXCEPT !.days = y]
  OBVIOUS
<1>2. u = Row("exchanged", b, c, d, e, f, g)
  BY DEF Row
<1> HIDE DEF u
<1>3. v = Row("exchanged", b, c, d, x, f, g)
  BY <1>2 DEF Row
<1> HIDE DEF v
<1>4. [v EXCEPT !.days = y] = Row("exchanged", b, c, d, x, y, g)
  BY <1>3 DEF Row
<1>5. QED
  BY <1>1, <1>4 DEF Together!ExchangedFor

LEMMA CompletedAsRow ==
  ASSUME NEW a, NEW b, NEW c, NEW d, NEW e, NEW f, NEW g, NEW x
  PROVE  Together!CompletedAs(Row(a, b, c, d, e, f, g), x) = Row("completed", b, c, d, e, f, x)
<1> DEFINE r == Row(a, b, c, d, e, f, g)
<1> DEFINE u == [r EXCEPT !.stage = "completed"]
<1>1. [r EXCEPT !.stage = "completed", !.alone = x] = [u EXCEPT !.alone = x]
  OBVIOUS
<1>2. u = Row("completed", b, c, d, e, f, g)
  BY DEF Row
<1> HIDE DEF u
<1>3. [u EXCEPT !.alone = x] = Row("completed", b, c, d, e, f, x)
  BY <1>2 DEF Row
<1>4. QED
  BY <1>1, <1>3 DEF Together!CompletedAs

LEMMA MovedToRow ==
  ASSUME NEW a, NEW b, NEW c, NEW d, NEW e, NEW f, NEW g, NEW x
  PROVE  Together!MovedTo(Row(a, b, c, d, e, f, g), x) = Row(a, b, c, d, x, (IF c = NoFile THEN f ELSE "open"), g)
<1> DEFINE r == Row(a, b, c, d, e, f, g)
<1> DEFINE u == [r EXCEPT !.day = x]
           w == IF r.link = NoFile THEN r.days ELSE "open"
<1>1. r.link = c /\ r.days = f
  BY DEF Row
<1>2. u = Row(a, b, c, d, x, f, g)
  BY DEF Row
<1>3. [r EXCEPT !.day = x, !.days = w] = [u EXCEPT !.days = w]
  OBVIOUS
<1> HIDE DEF u
<1>4. w = IF c = NoFile THEN f ELSE "open"
  BY <1>1
<1> HIDE DEF w
<1>5. [u EXCEPT !.days = w] = Row(a, b, c, d, x, w, g)
  BY <1>2 DEF Row
<1>6. [r EXCEPT !.day = x, !.days = w] = Row(a, b, c, d, x, w, g)
  BY <1>3, <1>5
<1>7. Together!MovedTo(r, x) = Row(a, b, c, d, x, w, g)
  BY <1>6 DEF Together!MovedTo, w
<1>8. QED
  BY <1>4, <1>7


LEMMA ViewInit == LinkInit => Together!Init
<1> SUFFICES ASSUME LinkInit PROVE Together!Init
  OBVIOUS
<1>1. \A f \in Files : file[f] = Fresh
  BY DEF LinkInit
<1>2. View(Fresh) = Together!Fresh
  BY DEF View, DaysWord, Excused, Fresh, Together!Fresh
<1>3. QED
  BY <1>1, <1>2 DEF Together!Init, views

(* One file is set, in both: a stutter if the view stays, else a step of that file. *)
LEMMA ViewStep ==
  ASSUME LinkInv, NEW f \in Files, NEW t, Sets(f, t),
         View(t) = View(file[f]) \/ (Together!Sets(f, View(t)) => Together!Step(f))
  PROVE  [Together!Next]_views
<1>1. views' = [views EXCEPT ![f] = View(t)] /\ views[f] = View(file[f])
  <2>1. \A g \in Files : file'[g] = IF g = f THEN t ELSE file[g]
    BY DEF Sets, LinkInv
  <2>2. QED
    BY <2>1 DEF views
<1>2. views'[f] = View(t)
  BY <1>1 DEF views
<1>3. CASE View(t) = View(file[f])
  <2>1. views' = views
    BY <1>1, <1>3 DEF views
  <2>2. QED
    BY <2>1
<1>4. CASE View(t) # View(file[f])
  <2>1. Together!Sets(f, View(t))
    BY <1>1 DEF Together!Sets
  <2>2. QED
    BY <1>1, <1>2, <1>4, <2>1 DEF Together!Next
<1>5. QED
  BY <1>3, <1>4

LEMMA SameFilesStutter ==
  ASSUME file' = file
  PROVE  [Together!Next]_views
BY DEF views

LEMMA Viewed ==
  ASSUME NEW f \in Files
  PROVE  /\ views[f].stage = file[f].stage /\ views[f].off = file[f].abandoned /\ views[f].link = file[f].link
         /\ views[f].excused = Excused(file[f]) /\ views[f].day = file[f].date
         /\ views[f].days = DaysWord(file[f]) /\ views[f].alone = file[f].unread
         /\ views[f] = View(file[f])
BY DEF views, View

LEMMA ReadyView ==
  ASSUME LinkInv, NEW f \in Files, GetReady(f)
  PROVE  [Together!Next]_views
<1>1. PICK stage \in {"ready", "funded"} :
        /\ <<file[f].stage, stage>> \in {<<"preparing", "ready">>, <<"exchanged", "funded">>}
        /\ Sets(f, [file[f] EXCEPT !.stage = stage])
  BY DEF GetReady, Exchangeable, Funded
<1> DEFINE s == file[f]
           t == [s EXCEPT !.stage = stage]
<1>2. View(t) = [views[f] EXCEPT !.stage = stage]
  <2>1. s \in FileStates /\ views[f] = View(s)
    BY FileFields, Viewed
  <2>2. /\ t.stage = stage /\ t.link = s.link /\ t.date = s.date /\ t.abandoned = s.abandoned
        /\ Excused(t) = Excused(s) /\ DaysWord(t) = DaysWord(s) /\ t.unread = s.unread
    BY <2>1 DEF FileStates, DaysWord, Excused
  <2> HIDE DEF s, t
  <2>3. QED
    BY <2>1, <2>2 DEF View
<1>3. Together!Alive(f)
  BY Viewed DEF GetReady, Alive, Together!Alive
<1>4. Together!Sets(f, View(t)) => Together!Prepare(f)
  BY <1>1, <1>2, <1>3, Viewed DEF Together!Prepare
<1>5. QED
  BY <1>1, <1>4, ViewStep DEF Together!Step

LEMMA LinkedView ==
  ASSUME LinkInv, NEW f \in Files, NEW g \in Files, Opposite(f, g), MayLink(f, g), Sets(f, Linked(file[f], g))
  PROVE  [Together!Next]_views
<1> DEFINE s == file[f]
           t == Linked(s, g)
<1>1. s \in FileStates /\ (s.held => s.link # NoFile) /\ views[f] = View(s) /\ s.held \in BOOLEAN
  BY FileFields, Viewed DEF FileOK, FileStates
<1>2. View(t) = Together!LinkedTo(views[f], g, s.held)
  <2>1. /\ t.stage = s.stage /\ t.link = g /\ t.date = s.date /\ t.abandoned = s.abandoned
        /\ Excused(t) = s.held /\ DaysWord(t) = DaysWord(s) /\ t.unread = s.unread
    BY <1>1 DEF FileStates, DaysWord, Excused, Linked
  <2> HIDE DEF s, t
  <2>2. QED
    BY <1>1, <2>1, ViewIsRow, LinkedToRow
<1>3. (f \in Sales) # (g \in Sales)
  BY FilesAssumption DEF Opposite, Purchases
<1>4. Together!Sets(f, View(t)) => Together!Link(f, g, s.held)
  BY <1>1, <1>2, <1>3, Viewed
     DEF Together!Link, Together!Alive, Together!Exchanged, Together!Linked, MayLink, Alive, HasExchanged
<1>5. QED
  BY <1>1, <1>4, ViewStep DEF Together!Step

LEMMA UnlinkedView ==
  ASSUME LinkInv, NEW f \in Files, MayUnlink(f), Sets(f, Unlinked(file[f]))
  PROVE  [Together!Next]_views
<1> DEFINE s == file[f]
           t == Unlinked(s)
<1>1. s \in FileStates /\ views[f] = View(s)
  BY FileFields, Viewed
<1>2. View(t) = [views[f] EXCEPT !.link = NoFile]
  <2>1. /\ t.stage = s.stage /\ t.link = NoFile /\ t.date = s.date /\ t.abandoned = s.abandoned
        /\ Excused(t) = Excused(s) /\ DaysWord(t) = DaysWord(s) /\ t.unread = s.unread
    BY <1>1 DEF FileStates, DaysWord, Excused, Unlinked
  <2> HIDE DEF s, t
  <2>2. QED
    BY <1>1, <2>1 DEF View
<1>3. Together!Sets(f, View(t)) => Together!Unlink(f)
  BY <1>2, Viewed
     DEF Together!Unlink, Together!Alive, Together!Exchanged, Together!Linked, MayUnlink, Alive, HasExchanged
<1>4. QED
  BY <1>3, ViewStep DEF Together!Step

(* The hold that is read is cleared under the lock: nothing that was promised changes. *)
LEMMA QuietView ==
  ASSUME LinkInv, NEW f \in Files, NEW t, Sets(f, t),
         t \in {[file[f] EXCEPT !.held = FALSE], [file[f] EXCEPT !.fell = TRUE], [file[f] EXCEPT !.fell = FALSE]}
  PROVE  [Together!Next]_views
<1> DEFINE s == file[f]
<1>1. s \in FileStates
  BY FileFields
<1>2. /\ t.stage = s.stage /\ t.link = s.link /\ t.date = s.date /\ t.abandoned = s.abandoned
      /\ t.said = s.said /\ t.relinked = s.relinked /\ t.days = s.days /\ t.crossed = s.crossed /\ t.unread = s.unread
  BY <1>1 DEF FileStates
<1>3. View(t) = View(s)
  BY <1>2 DEF View, DaysWord, Excused
<1>4. QED
  BY <1>3, ViewStep

(* Under the lock the file knows only its own hold; that there is none says of the linked file, whatever has
   happened since it was read, that it can exchange or has (FileOK). *)
LEMMA ExchangeView ==
  ASSUME LinkInv, NEW r \in work, r.do = "exchange", ExchangeLinked(r)
  PROVE  [Together!Next]_views
<1>1. r.on \in Files /\ r.date \in Dates /\ r.seen \in {NoDate, r.date}
  BY RequestFields DEF RequestOK
<1>2. CASE MayExchange(file[r.on])
  <2> DEFINE s == file[r.on]
             across == s.link # NoFile /\ file[s.link].date # r.seen
             t == [s EXCEPT !.stage = "exchanged", !.date = r.date, !.crossed = across]
             word == IF across THEN "crossed" ELSE "none"
  <2>1. /\ s \in FileStates /\ FileOK(r.on) /\ views[r.on] = View(s) /\ s.stage = "ready" /\ ~s.abandoned /\ ~s.held
        /\ s.days = "none" /\ s.link \in Files \cup {NoFile}
    BY <1>1, <1>2, FileFields, Viewed DEF MayExchange, Ready, Exchangeable, FileOK, PastExchange
  <2>2. View(t) = Together!ExchangedFor(views[r.on], r.date, word)
    <3>1. /\ t.stage = "exchanged" /\ t.link = s.link /\ t.date = r.date /\ t.abandoned = s.abandoned
          /\ Excused(t) = Excused(s) /\ t.days = "none" /\ t.crossed = across /\ t.unread = s.unread
      BY <2>1 DEF FileStates, Excused
    <3> HIDE DEF s, t, across
    <3>2. DaysWord(t) = word
      BY <3>1 DEF DaysWord
    <3>3. QED
      BY <2>1, <3>1, <3>2, ViewIsRow, ExchangedForRow
  <2>3. s.link # NoFile =>
          /\ views[r.on].excused \/ Together!Beside(s.link)
          /\ views[s.link].day \in {NoDate, r.date} \/ word = "crossed"
    <3> SUFFICES ASSUME s.link # NoFile
                 PROVE  /\ views[r.on].excused \/ Together!Beside(s.link)
                        /\ views[s.link].day \in {NoDate, r.date} \/ word = "crossed"
      OBVIOUS
    <3>1. s.said \/ s.relinked \/ Could(s.link)
      BY <2>1 DEF FileOK
    <3>2. Could(s.link) => Together!Beside(s.link)
      BY <2>1, Viewed DEF Could, Together!Beside, Together!Exchanged, HasExchanged, Ready, Exchangeable
    <3>3. views[s.link].day = file[s.link].date /\ views[r.on].excused = Excused(s)
      BY <1>1, <2>1, Viewed
    <3>4. QED
      BY <1>1, <3>1, <3>2, <3>3 DEF Excused
  <2>4. Together!Sets(r.on, View(t)) => Together!Exchange(r.on, r.date, word)
    BY <1>1, <2>1, <2>2, <2>3, Viewed DEF Together!Exchange, Together!Alive, Together!Linked
  <2>5. Sets(r.on, t)
    BY <1>2 DEF ExchangeLinked
  <2> HIDE DEF t
  <2>6. word \in {"none", "crossed"}
    OBVIOUS
  <2> HIDE DEF word
  <2>7. QED
    BY <1>1, <2>4, <2>5, <2>6, ViewStep DEF Together!Step
<1>3. QED
  BY <1>2, SameFilesStutter DEF ExchangeLinked

(* What was read of the linked file, whenever it was read, is still so; if it could not be read, the file completes
   alone. *)
LEMMA CompleteView ==
  ASSUME LinkInv, NEW r \in work, r.do = "complete", r.at \in {"commit", "unread"}, CompleteLinked(r)
  PROVE  [Together!Next]_views
<1>1. r.on \in Files /\ RequestOK(r) /\ r.other = file[r.on].link
  BY RequestFields DEF RequestOK
<1>2. CASE MayComplete(file[r.on])
  <2> DEFINE s == file[r.on]
             alone == r.at = "unread"
             t == Completed(s, alone)
  <2>1. /\ s \in FileStates /\ views[r.on] = View(s) /\ s.stage = "funded" /\ ~s.abandoned /\ s.days # "open"
        /\ s.link \in Files \cup {NoFile} /\ alone \in BOOLEAN
    BY <1>1, <1>2, FileFields, Viewed DEF MayComplete, Funded
  <2>2. View(t) = Together!CompletedAs(views[r.on], alone)
    <3> HIDE DEF alone
    <3>1. /\ t.stage = "completed" /\ t.link = s.link /\ t.date = s.date /\ t.abandoned = s.abandoned
          /\ t.said = s.said /\ t.relinked = s.relinked /\ t.days = s.days /\ t.crossed = s.crossed /\ t.unread = alone
      <4> HIDE DEF s
      <4>1. QED
        BY <2>1, CompletedFields
    <3>2. Excused(t) = Excused(s) /\ DaysWord(t) = DaysWord(s)
      BY <3>1 DEF DaysWord, Excused
    <3> HIDE DEF s, t
    <3>3. QED
      BY <2>1, <3>1, <3>2, ViewIsRow, CompletedAsRow
  <2>3. /\ alone => s.link # NoFile
        /\ s.link # NoFile => alone \/ Together!WayFree(s.link)
    <3> SUFFICES ASSUME ~alone, s.link # NoFile PROVE Together!WayFree(s.link)
      BY <1>1 DEF RequestOK
    <3>1. CanCompleteWith(s.link) /\ s.link \in Files
      BY <1>1, <2>1 DEF RequestOK
    <3>2. QED
      BY <3>1, Viewed DEF CanCompleteWith, HasCompleted, Purchases, Funded, Together!WayFree
  <2>4. views[r.on].days # "open"
    BY <1>1, <2>1, Viewed DEF DaysWord
  <2>5. Sets(r.on, t)
    BY <1>2 DEF CompleteLinked
  <2> HIDE DEF t, alone
  <2>6. Together!Sets(r.on, View(t)) => Together!Complete(r.on, alone)
    BY <1>1, <2>1, <2>2, <2>3, <2>4, Viewed DEF Together!Complete, Together!Alive, Together!Linked
  <2>7. QED
    BY <1>1, <2>1, <2>5, <2>6, ViewStep DEF Together!Step
<1>3. QED
  BY <1>2, SameFilesStutter DEF CompleteLinked

LEMMA MoveView ==
  ASSUME LinkInv, NEW f \in Files, NEW d \in Dates, MoveDate(f, d)
  PROVE  [Together!Next]_views
<1> DEFINE s == file[f]
           t == MovedTo(s, d)
           word == IF s.link = NoFile THEN DaysWord(s) ELSE "open"
<1>1. s \in FileStates /\ views[f] = View(s)
  BY FileFields, Viewed
<1>2. View(t) = Together!MovedTo(views[f], d)
  <2>1. /\ t.stage = s.stage /\ t.link = s.link /\ t.date = d /\ t.abandoned = s.abandoned
        /\ Excused(t) = Excused(s) /\ DaysWord(t) = word /\ t.unread = s.unread
    BY <1>1 DEF FileStates, DaysWord, Excused, MovedTo
  <2> HIDE DEF s, t, word
  <2>2. QED
    BY <1>1, <2>1, ViewIsRow, MovedToRow DEF word
<1>3. views[f].link = s.link /\ views[f].days = DaysWord(s)
  BY Viewed
<1>4. Together!Sets(f, View(t)) => Together!Move(f, d)
  BY <1>1, <1>2, <1>3, Viewed
     DEF Together!Move, Together!Alive, Together!Exchanged, Together!Linked,
         MoveDate, Alive, HasExchanged, HasCompleted
<1>5. QED
  BY <1>4, ViewStep DEF Together!Step, MoveDate

LEMMA CloseView ==
  ASSUME LinkInv, NEW f \in Files, CloseIssue(f)
  PROVE  [Together!Next]_views
<1> DEFINE s == file[f]
<1>1. /\ s \in FileStates /\ views[f] = View(s) /\ FileOK(f) /\ s.said \in BOOLEAN /\ s.relinked \in BOOLEAN
      /\ Together!Alive(f)
  BY FileFields, Viewed DEF CloseIssue, Alive, Together!Alive, FileStates
<1>2. CASE s.held /\ Sets(f, [s EXCEPT !.held = FALSE, !.said = TRUE])
  <2> DEFINE t == [s EXCEPT !.held = FALSE, !.said = TRUE]
  <2>1. /\ t.stage = s.stage /\ t.link = s.link /\ t.date = s.date /\ t.abandoned = s.abandoned
        /\ Excused(t) = TRUE /\ DaysWord(t) = DaysWord(s) /\ t.unread = s.unread
    BY <1>1 DEF FileStates, DaysWord, Excused
  <2>2. View(t) = Together!ExcusedFrom(views[f])
    <3> HIDE DEF s, t
    <3>1. /\ View(t) = Row(s.stage, s.abandoned, s.link, TRUE, s.date, DaysWord(s), s.unread)
          /\ views[f] = Row(s.stage, s.abandoned, s.link, Excused(s), s.date, DaysWord(s), s.unread)
      BY <1>1, <2>1, Zenon DEF View, Row
    <3> DEFINE v == views[f]
               yes == TRUE
    <3> HIDE DEF v, yes
    <3>2. [v EXCEPT !.excused = yes] = Row(s.stage, s.abandoned, s.link, yes, s.date, DaysWord(s), s.unread)
      BY <3>1 DEF Row, v
    <3>3. QED
      BY <3>1, <3>2, Zenon DEF yes, v, Together!ExcusedFrom
  <2>3. Together!Sets(f, View(t)) => Together!Excuse(f)
    BY <1>1, <1>2, <2>2, Viewed DEF FileOK, HasExchanged, Together!Excuse, Together!Exchanged, Together!Linked
  <2>4. QED
    BY <1>2, <2>3, ViewStep DEF Together!Step
<1>3. CASE Sets(f, [s EXCEPT !.fell = FALSE])
  BY <1>3, QuietView
<1>4. CASE s.days = "open" /\ Sets(f, [s EXCEPT !.days = "settled"])
  <2> DEFINE t == [s EXCEPT !.days = "settled"]
  <2>1. /\ t.stage = s.stage /\ t.link = s.link /\ t.date = s.date /\ t.abandoned = s.abandoned
        /\ Excused(t) = Excused(s) /\ DaysWord(t) = "settled" /\ t.unread = s.unread
    BY <1>1 DEF FileStates, DaysWord, Excused
  <2>2. View(t) = [views[f] EXCEPT !.days = "settled"]
    <3> HIDE DEF s, t
    <3>1. QED
      BY <1>1, <2>1 DEF View
  <2>3. views[f].days = "open"
    BY <1>4, Viewed DEF DaysWord
  <2>4. Together!Sets(f, View(t)) => Together!Settle(f)
    BY <1>1, <2>2, <2>3 DEF Together!Settle
  <2>5. QED
    BY <1>4, <2>4, ViewStep DEF Together!Step
<1>5. QED
  BY <1>2, <1>3, <1>4 DEF CloseIssue

LEMMA FallView ==
  ASSUME LinkInv, NEW f \in Files, FallThrough(f)
  PROVE  [Together!Next]_views
<1> DEFINE s == file[f]
           t == [s EXCEPT !.abandoned = TRUE]
<1>1. s \in FileStates /\ views[f] = View(s)
  BY FileFields, Viewed
<1>2. View(t) = Together!Fallen(views[f])
  <2>1. /\ t.stage = s.stage /\ t.link = s.link /\ t.date = s.date /\ t.abandoned = TRUE
        /\ Excused(t) = Excused(s) /\ DaysWord(t) = DaysWord(s) /\ t.unread = s.unread
    BY <1>1 DEF FileStates, DaysWord, Excused
  <2> HIDE DEF s, t
  <2>2. /\ View(t) = Row(s.stage, TRUE, s.link, Excused(s), s.date, DaysWord(s), s.unread)
        /\ views[f] = Row(s.stage, s.abandoned, s.link, Excused(s), s.date, DaysWord(s), s.unread)
    BY <1>1, <2>1, Zenon DEF View, Row
  <2> DEFINE v == views[f]
             yes == TRUE
  <2> HIDE DEF v, yes
  <2>3. [v EXCEPT !.off = yes] = Row(s.stage, yes, s.link, Excused(s), s.date, DaysWord(s), s.unread)
    BY <2>2 DEF Row, v
  <2>4. QED
    BY <2>2, <2>3, Zenon DEF yes, v, Together!Fallen
<1>3. Together!Sets(f, View(t)) => Together!FallThrough(f)
  BY <1>2, Viewed DEF Together!FallThrough, Together!Alive, FallThrough, Alive, HasCompleted
<1>4. QED
  BY <1>3, ViewStep DEF Together!Step, FallThrough

LEMMA TogetherStep == LinkInv /\ [LinkNext]_linkVars => [Together!Next]_views
<1> SUFFICES ASSUME LinkInv, [LinkNext]_linkVars PROVE [Together!Next]_views
  OBVIOUS
<1>1. ASSUME NEW r \in work, r.do \in {"link both", "link"}, MayLink(r.on, r.other),
             Sets(r.on, Linked(file[r.on], r.other))
      PROVE  [Together!Next]_views
  <2>1. r.on \in Files /\ r.other \in Files /\ Opposite(r.on, r.other)
    BY <1>1, RequestFields DEF RequestOK
  <2>2. QED
    BY <1>1, <2>1, LinkedView
<1>2. ASSUME NEW r \in work, r.do = "link both", LinkFirst(r) PROVE [Together!Next]_views
  BY <1>1, <1>2, SameFilesStutter DEF LinkFirst
<1>3. ASSUME NEW r \in work, r.do = "link", LinkSecond(r) PROVE [Together!Next]_views
  BY <1>1, <1>3, SameFilesStutter DEF LinkSecond
<1>4. ASSUME NEW f \in Files, UnlinkChain(f) PROVE [Together!Next]_views
  BY <1>4, UnlinkedView DEF UnlinkChain
<1>5. ASSUME NEW r \in work, UnlinkSecond(r) PROVE [Together!Next]_views
  BY <1>5, UnlinkedView, SameFilesStutter, RequestFields DEF UnlinkSecond
<1>6. ASSUME NEW r \in work, ReleaseHold(r) PROVE [Together!Next]_views
  BY <1>6, QuietView, SameFilesStutter, RequestFields DEF ReleaseHold
<1>7. ASSUME NEW r \in work, TellOther(r) PROVE [Together!Next]_views
  BY <1>7, QuietView, SameFilesStutter, RequestFields DEF TellOther
<1>8. CASE file' = file
  BY <1>8, SameFilesStutter
<1>9. CASE LinkNext
  BY <1>2, <1>3, <1>4, <1>5, <1>6, <1>7, <1>8, <1>9,
     ReadyView, ExchangeView, CompleteView, MoveView, CloseView, FallView
     DEF LinkNext, Does, LinkChain, AskTo, CheckOther, CheckUnread, LoseRequest
<1>10. QED
  BY <1>8, <1>9 DEF linkVars

(* The requests, each with its reads of the other file outside the lock, keep the promise of files under one lock:
   nothing that was checked of the linked file is untrue when it is acted on, no link or unlink gets between unseen,
   and a file that completes although the linked one could not be read is known as such (run, linkChain, unlinkChain, assertLinkedMatterReady and the two like it). *)
THEOREM LinkedMattersKeepTogether == LinkSpec => TogetherSpec
<1>1. QED
  BY ViewInit, TogetherStep, LinkInvariance, PTL DEF LinkSpec, TogetherSpec, Together!Spec
=============================================================================

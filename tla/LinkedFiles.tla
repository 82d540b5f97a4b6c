----------------------------- MODULE LinkedFiles -----------------------------
(***************************************************************************)
(* What is promised of a client's linked matters (the comments and refusals *)
(* of assertLinkedMatterReady, assertLinkedSaleCompleted and                *)
(* assertLinkedPurchaseReady in lib/server/engine/service.ts), as if both   *)
(* files were under one lock: a file exchanges when the linked one, as it   *)
(* is then, has exchanged or can, and for its day; a purchase completes     *)
(* after the linked sale, a sale with a home to go to, unless it completes  *)
(* alone (the other file cannot be read); and a day that was moved is       *)
(* settled before.                                                          *)
(***************************************************************************)
CONSTANTS Files, Sales, Dates, NoFile, NoDate

VARIABLE file   \* per matter; excused: a word on the file that exchange need not wait; days: that the days may differ

Fresh == [stage |-> "preparing", off |-> FALSE, link |-> NoFile, excused |-> FALSE, day |-> NoDate, days |-> "none",
          alone |-> FALSE]

Init == file = [f \in Files |-> Fresh]

Alive(f) == ~file[f].off
Exchanged(f) == file[f].day # NoDate
Linked(f) == file[f].link # NoFile
Sets(f, s) == file' = [file EXCEPT ![f] = s]

(* The linked file is no reason to wait with exchange, or with completion. *)
Beside(g) == Exchanged(g) \/ file[g].stage = "ready" \/ file[g].off
WayFree(g) == file[g].stage = "completed" \/ (g \notin Sales /\ (file[g].off \/ file[g].stage = "funded"))

Prepare(f) ==
  /\ Alive(f)
  /\ \/ file[f].stage = "preparing" /\ Sets(f, [file[f] EXCEPT !.stage = "ready"])
     \/ file[f].stage = "exchanged" /\ Sets(f, [file[f] EXCEPT !.stage = "funded"])

LinkedTo(s, g, excused) == [s EXCEPT !.link = g, !.excused = excused]
ExcusedFrom(s) == [s EXCEPT !.excused = TRUE]
ExchangedFor(s, d, word) == [s EXCEPT !.stage = "exchanged", !.day = d, !.days = word]
MovedTo(s, d) == [s EXCEPT !.day = d, !.days = IF s.link = NoFile THEN s.days ELSE "open"]
CompletedAs(s, alone) == [s EXCEPT !.stage = "completed", !.alone = alone]
Fallen(s) == [s EXCEPT !.off = TRUE]

(* Only a link that replaces one may come with an excuse. *)
Link(f, g, excused) ==
  /\ Alive(f) /\ ~Exchanged(f) /\ file[f].link # g /\ (f \in Sales) # (g \in Sales)
  /\ excused => Linked(f)
  /\ Sets(f, LinkedTo(file[f], g, excused))

Unlink(f) == Alive(f) /\ ~Exchanged(f) /\ Linked(f) /\ Sets(f, [file[f] EXCEPT !.link = NoFile])
Excuse(f) == Alive(f) /\ ~Exchanged(f) /\ Linked(f) /\ Sets(f, ExcusedFrom(file[f]))

Exchange(f, d, word) ==
  /\ Alive(f) /\ file[f].stage = "ready"
  /\ Linked(f) => /\ file[f].excused \/ Beside(file[f].link)
                  /\ file[file[f].link].day \in {NoDate, d} \/ word = "crossed"
  /\ Sets(f, ExchangedFor(file[f], d, word))

Move(f, d) ==
  /\ Alive(f) /\ Exchanged(f) /\ file[f].stage # "completed" /\ file[f].day # d
  /\ Sets(f, MovedTo(file[f], d))

Settle(f) == Alive(f) /\ file[f].days = "open" /\ Sets(f, [file[f] EXCEPT !.days = "settled"])

(* Only a linked file may complete alone. *)
Complete(f, alone) ==
  /\ Alive(f) /\ file[f].stage = "funded" /\ file[f].days # "open"
  /\ alone => Linked(f)
  /\ Linked(f) => alone \/ WayFree(file[f].link)
  /\ Sets(f, CompletedAs(file[f], alone))

FallThrough(f) == Alive(f) /\ file[f].stage # "completed" /\ Sets(f, Fallen(file[f]))

(* A step of file f. *)
Step(f) ==
  \/ Prepare(f) \/ Unlink(f) \/ Excuse(f) \/ Settle(f) \/ FallThrough(f)
  \/ \E alone \in BOOLEAN : Complete(f, alone)
  \/ \E g \in Files, excused \in BOOLEAN : Link(f, g, excused)
  \/ \E d \in Dates, word \in {"none", "crossed"} : Exchange(f, d, word)
  \/ \E d \in Dates : Move(f, d)

Next == \E f \in Files : file'[f] # file[f] /\ Step(f)

Spec == Init /\ [][Next]_file
=============================================================================

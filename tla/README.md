# A verification project for case-lightning

TLA+ modules, TLC runs and TLAPS proofs about the server of case-lightning, a conveyancing
practice-management system (TypeScript on Next.js and Postgres). Paths below are relative to the
repository's root; `engine/` stands for `src/lib/server/engine/`, `server/` for `src/lib/server/`.

`PROJECT.json` lists the components, runs, mutants, the map from definitions to source lines, the
hazards and the theorems. To repeat everything: `tlc -workers 2 -config X.cfg M` for each run,
`tlapm M.tla` for each proof module (`*Proofs.tla`).

## 1. The system

Every matter (case) of a firm is an append-only log of events. A command on a matter (a person's
click, a webhook, the daily tick) goes through one function, `EngineService.run`: take the matter's
lock, bring the state up to date, let the pure decision core (`decide`) answer with events or an
error, append them, and rewrite the read models, in one transaction. What the engine wants to do to
the world (send a letter, order a search, draft a document) is an event too, a *proposal*, that a
trust level decides to leave for approval or to perform; results come back as events. Documents that
arrive are read by an AI, whose findings raise issues and decisions that a person or, for routine
ones, an auto-clear answers.

Around the engine stand the older parts: mail intake by Graph notifications and sweeps, scheduled
sends, referral commissions over Stripe, sign-in links, demo bookings, calendar and mailbox
subscriptions, and synchronisation with InTouch, LEAP and InfoTrack.

| Component | State | Operations | Talks to | Hard behaviour |
|---|---|---|---|---|
| **Event log** `engine/store.ts`, `service.ts` (`run`, `getState`, `remember`) | `matter_events`, `matter_engine_state`, a cache per server instance | append under the lock, read, undo a completion, evict | every engine component | several instances, lock-free reads, rollback and crash between commit and remembering, a remembered state that is folded forward, never recomputed |
| **Decision core** `engine/machine.ts`, `spec.ts`, `issues.ts` | `MatterState` (a fold of the log) | about 150 commands; automatic rules after each; stage gates | event log | gates that must hold when a stage advances and are read when a command is decided |
| **Payments** `engine/machine.ts`, `projection.ts`, `money.ts` | versions of bank details, decisions, escalations, funds requested/received/cleared, payments, completion | record, verify, reject, escalate, request, receive, clear, authorise, send, complete | decision core | details that change at every point of the money's way, late answers to old decisions |
| **Document review** `engine/review.ts`, `extraction.ts`, `rules.ts`, `findings.ts` | documents, extractions, issues, decisions, held auto-clears | upload, replace, extract, review, auto-clear, resolve | decision core, AI | the AI's answer arrives after the document was replaced or decided on |
| **Outbox** `service.ts`, `defer.ts`, `loop-guard.ts` | actions: proposed, approved, performed, failed | propose, approve, edit, perform, record, retry | mail, LEAP, InTouch, InfoTrack | the effect happens outside the transaction; crash, retry, double click |
| **Proof of funds** `engine/proof-of-funds.ts` | rounds, evidence, assessment | send, answer, assess, escalate | decisions, exchange gate | reassessment while a round is open |
| **SLA clock** `engine/sla.ts`, `due.ts` | waits and their due dates | open, close, chase, tick | decision core, outbox | the tick runs beside people; missed and repeated ticks |
| **Linked matters** `service.ts`, `chain.ts` | a sale and a purchase that exchange together | link, simultaneous exchange | two logs | the other matter is read without its lock |
| **Notes, counterparties** | notes, proposed actions | add, promote, contact changes | decisions | escalated note actions |
| **Scheduled sends** `server/scheduledSend.ts` | `scheduled_send` rows | schedule, cancel, sweep | Graph | overlapping sweeps, cancel during a sweep, crash after the send |
| **Mail intake** `server/mail/*` | intake queue, filed mails | notification, sweep, file, reopen | Graph | the notification and the sweep meet on one message |
| **Subscriptions** `server/subscriptions.ts` | Graph subscriptions | create, renew, reconcile | Graph | concurrent reconciliations |
| **Sign-in links, bookings** | claim-once rows | request, redeem; book, cancel, remind | mail | double clicks, crash after the claim |
| **Referral commissions** `server/referrals.ts`, billing webhook | commissions, balance adjustments | accrue, claw back, apply | Stripe | webhook replays, clawback racing the monthly run |
| Read models, briefs, analytics, onboarding, files, portal, access control, UI | projections, policies | - | - | no protocol of their own |

What makes each correct, and so what its properties are (or will be) about:

- *Event log*: the log only grows; every copy of the state is a faithful account of a prefix of it;
  the read model never lags; no command fails on `expectedLastSeq`; an undo hits what it was meant for.
- *Payments*: money goes only to the newest, verified details; a verification stands until replaced;
  completion is on all the money, cleared, against an authorised payment; a case whose details have
  settled can complete.
- *Decision core*: a stage advances only with its gate met and at most once; what an automatic rule
  derived goes when what it was derived from goes; no command leaves a rule with something to do.
- *Document review*: what waits for a person is on somebody's list, and on one list only; an answer
  settles the document it was asked about; what goes to the client is what was approved.
- *Outbox*: nothing is performed without approval or trust; performed at most once per approval;
  a performed action is on record.
- *Linked matters*: the two exchange together and for one day; the sale completes first, and only when
  there is a home to go to - though each file looks at the other outside its own lock.
- *Scheduled sends*: a send that is due goes, whatever fails; not after a cancel that came in time.
- *Commissions*: an invoice earns one referrer a commission, credited once at most.
- *Mail*: every message is placed, on the queue or on its case, with or without its notification, and
  filed once.

## 2. The modules

| Module | What it is | Runs |
|---|---|---|
| `MatterEvents` | what a matter's events say of it (replay, fold) and what a command answers (decide) | `MatterLog` |
| `SerialLog` | abstract: one server, one command at a time, whole or not at all | `SerialSpec` of run `MatterLog` |
| `MatterLog` | the log, lock, read model and caches of one matter, with several instances | `MatterLog`, `MatterLogUndo` |
| `MatterLogProofs` | theorems about it, and that it implements `SerialLog` | - |
| `PaymentRelease` | abstract: what payment verification promises | `ReleaseSpec` of run `Payments` |
| `Payments` | bank details, decisions, money, completion | `Payments`, `PaymentsLive`, `PaymentsSent`, `PaymentsStall` |
| `PaymentsProofs` | theorems about it, and that it implements `PaymentRelease` | - |
| `Chases` | the outbox, for the chases of one party: timer, proposals, approval, sending, recording, retry | `Chases`, `ChasesGrouped`, `ChasesWithdrawn` |
| `ChaseDecisions` | abstract: what people are promised about the chases put to them | `DecisionsSpec` of run `Chases` |
| `ChasesProofs` | theorems about it, and that it implements `ChaseDecisions` | - |
| `DocumentReview` | the documents of a purchase, the decisions and escalations about them, the stages up to exchange, the report on title | `Files`, `ReviewDeposit` |
| `DocumentReviewProofs` | theorems about it | - |
| `LinkedMatters` | a sale and a purchase that exchange and complete together | `Files` |
| `LinkedFiles` | abstract: what is promised of linked files, as if both were under one lock | `TogetherSpec` of run `Files` |
| `LinkedMattersProofs` | theorems about it, and that it implements `LinkedFiles` | - |
| `FilesProofs` | that the last two keep their specifications side by side | - |
| `ScheduledSends` | deferred sending | `Around` |
| `MailIntake` | the filing queue: notifications, sweeps, people | `Around` |
| `MailIntakeProofs` | theorems about it | - |
| `Commissions` | referral commissions | `Around` |
| `AroundProofs` | theorems about sends and commissions, and that the three keep their specifications side by side | - |
| `MCMatterLog`, `MCPayments`, `MCChases`, `MCDocumentReview`, `MCFiles`, `MCAround` | instances for TLC; the last two run components that share no state beside each other, one of them active in each behaviour | |

The definitions named `...` after a comment "Mutant:" are plausible bugs of the definition below
them; each replaces it in one run that must then fail (`PROJECT.json`, `mutants`).

### MatterLog, MatterEvents and SerialLog

State and code: `log` is `matter_events` of one matter in `seq` order; `lock` the transaction-scoped
advisory lock of `withMatterLock`; `model` the row of `matter_engine_state`; `cache[i]` the entry for
the matter in instance `i`'s `stateCache`; `pc`, `known`, `view` and `staged` are the local state of
a request.

A matter's state is abstracted to the *effects* it holds: `[last |-> seq, effects |-> set of events]`.
`Replay` is `project` (which leaves undone completions out), `Fold` is `foldOnto` (which cannot take
an effect back). The decision core is cut down to what the protocol can tell apart: a fact, a step
completed by hand, the undo of it, and the automatic stage advance once all of `Steps` are complete.
What a step's completion means in the state (the mark in `manualSteps`) is read off the log
(`Mark`): it is folded the same way by every copy, so every up-to-date state has it. These
definitions are pure and have a module of their own, `MatterEvents`.

`SerialLog` says in them what the whole protocol promises: commands are handled one at a time, each
on a state that is at the end of the log, and the log and the read model change together. Its one
freedom (`States`) is what finding 1 is about: the state a command is handled on may still count
completions that were undone. The refinement mapping is the identity on `log` and `model`; locks,
caches, open transactions, slow reads, crashes and rollbacks are stutters.

| Action | Code |
|---|---|
| `ReadBegin`, `ReadEvents`, `Remember` | `getState`: take the cache, `await` the events after it, fold, `remember`; each `await` is a point where others run |
| `RunLocked`, `Commit`, `Remember` | `run`: one critical section under the lock, the commit, and `remember` after it |
| `Rollback` | an error in the append or in the read models: `withMatterLock` rolls back |
| `Evict` | `remember` drops the oldest of 500 cases |
| `Crash` | an instance of a serverless deployment goes, with its cache, requests and transactions |

Abstracted: `step_reopened` (it closes the way to an undo: the model allows more undos than the
code), the hash chain (it guards the log against edits made outside the program), and the
work-list rows written beside the state. `RunLocked` reads, decides and stages in one action: the
lock excludes other writers, and readers cannot see an uncommitted transaction, so nobody can tell.

### Payments and PaymentRelease

`records` is `bankDetails` in the order of the log, each with the state of its own decision and the
latest escalation of it; `payments` the authorised completion payments; `stage` from before exchange
to completion; `requested`, `receivedFrom`, `allReceived`, `short`, `uncleared` the open funds waits,
`completion.receivedFrom`, `completion.fundsReceivedAt`, the shortfall issue and the receipts waiting
to clear; `sent` and `confirmed` are `completion.paymentSent` and `completion.confirmedAt`.
`certificate`, `papers` and `hold` stand for the rest of what the completion gate reads.
The guards of the money's commands are operators of their own (`MayRequest`, `MayReceive`, `MayAuthorise`,
`MaySend`, `MayConfirm`), since `SomethingToDo` is about them: it says that some next step is allowed.

Each action is one command of `decide` together with the fold of its events. Amounts are abstracted:
a receipt says whether it leaves the shortfall issue open. Not modelled: deposits, sales and
remortgages, payments for other purposes, refunds, waiver of issues.

`PaymentRelease` keeps, per payee, only the record a payment may use (`trusted`), which was ever
trusted, what the completion money was authorised to, and whether the case has completed. The
refinement mapping takes `trusted[p]` to the payee's verified record, `everTrusted` to the records
with a verification time, `authorised` to the record of the completion payment.

### Chases

`open` are the open waits on one party, `due` those whose chase the SLA rules call for; `proposals`
are the chase proposals in order, with their status and, for the properties, how many letters went
for each, how often people decided to send it, and whether a job on it, or the record of its failure, was
lost; `task` is the open `send_failed` issue (failures to one party have one title, hence one issue);
`completed` that completion has been confirmed, after which no such task is raised. `jobs` are the
activities under way: what the timer does for a due chase, or the follow-on work of an approval, a
retry or a "Chase Now". A job alternates commands (under the lock, one step each), reads without the
lock, and calls to the mail provider; other jobs run in between.

| Action | Code |
|---|---|
| `OpenWait`, `Arrive` | `openWait` and `closeWait` in the projection, each followed by the automatic withdrawal of chases whose key is no open wait's (`Withdrawn`) |
| `FallDue`, `QuietEnds` | time: `dueActions`; `REJECTED_QUIET_MS` |
| `TimerBegin`, `TimerNext`, `Propose` | `tickInner` with the snapshot it works from, `proposeUnless`, `propose_action` |
| `Send`, `Record` | `perform` of a chase: read, send, then one `record_chase` for each wait the letter covers |
| `Complete` | `completion_confirmed`; chases go on until the case is closed |
| `Fail`, `Report` | `record_action_failed` and `recordSendFailure` (`service.ts:2271-2303`) |
| `FailLost`, `ReportLost` | the same when they fail themselves: the error is swallowed (1997, 2300-2302) and the job goes on |
| `Approve`, `Reject` | the answer to the proposal's decision; the approved chase is performed after the commit |
| `Retry`, `Retried`, `Closing` | `retryFailedAction`, which checks the status before it sends and records it after |
| `ChaseNow`, `ResolveTask` | a person chases; a person resolves the task |
| `Crash` | the function instance that runs a job goes; nothing remembers the rest of the job |

Abstracted: whether the trust level, manual handling or an email not yet answered let a chase go
unasked is left open each time (`TimerNext`). A run of the timer handles what it found due one by
one; each is a job of its own here, which allows every order and overlap the code has, and more.
`Send` reads the waits and sends in one step: a wait that closes in between has the same outcome as
one that closes after the letter. A chase whose dossier cannot be stored is dropped until the next
tick, as a `Crash` before `Propose` drops it. Not modelled: escalations of waits, Sent Another Way,
the system's own retry of an unproposed send, absences and booked surveys.

A wait that is due is chased, arrives, is put to a person or is on the Tasks list in the end
(`OutstandingIsPut`), whatever is lost or swallowed on the way, as long as that happens finitely often: the
next tick makes up for it. After completion less is true. The timer chases on (up to `closedAt`), and a chase
that goes unasked and keeps failing is then on nobody's list; the property promises only that it is tried again.

`ChaseDecisions` says what people are promised of all this, without timer, jobs or crashes: one chase
is put to them at a time for what is outstanding, each decision is good for one letter, no letter goes
otherwise, and a chase whose approval failed is on record as failed only when nobody is still about to
send it. The refinement mapping takes `chases` to the proposals, with their key, their standing (`Standing`:
approved is *going*; rejected, withdrawn by the engine and failed are *stopped*) and the letters *owed*: the jobs
that are about to send (`Owing`). So `Propose` maps to `Put`, `Approve` to `Agree`, `Reject` to `Refuse`,
`Retry` to `Again`, `Send` to `Letter`; a lost job that owed a letter, and a send that failed, to `Waive` (that its record is then lost changes nothing here);
the record of a failure (`Fail`) to `Failed`, the record of a retry that went (`Retried`) to `Went`; what opens and closes waits to
`Turn`; the rest to stutters.

### DocumentReview

`m` is what `MatterState` holds of a purchase's documents and gates: the stage, the searches it
requires, per *item* (a search, an enquiry, the title, the mortgage offer) its status and the number of
its newest document, the report on title, and the contract, the deposit and the conditions of exchange.
`judged`, `redone`, `full` and `report.approved` remember, for the properties, what an answer was
about. `decisions` are the open decisions, each with the escalations of it; `reading` the offers whose
reading by the AI is still to be recorded. A command is one step, and ends with the automatic rules
(`Settle`: `automatic`, `machine.ts:818`): three applications are enough, because what can follow one command is the
conditions of exchange and two stages; `TypeOK` says that nothing is left.

| Action | Code |
|---|---|
| `Order`, `RaiseEnquiry`, `SearchReturned`, `OfferReceived` | `record_search_ordered`, `raise_enquiry`, `search_returned`, `mortgage_offer_received`: the last two are recorded before the reading |
| `SearchExtracted`, `ReplyReceived`, `OfferExtracted`, `TitleExtracted` with `Verdict` | `search_extracted`, `enquiry_reply_received`, `mortgage_offer_extracted`, `title_extracted` and `verdictEvents`: flag, clear, clear to be confirmed, clear held back |
| `OfferReadLost` | the extraction fails, or its server goes |
| `Resolve`, `Escalate`, `EscalateFurther`, `SeniorAnswers` | `resolveEvents`: the answer to a decision, to an escalation, to an escalation of that |
| `DraftReport`, `SendReport` | `draft_report_on_title` (`reportDraftProblem`), `assertCanSendReport` |
| `ApproveContract`, `HoldSignedContract`, `ReceiveDeposit`, `Exchange` | `contract_approved`, `signed_contract_held`, `deposit_received`, `contracts_exchanged` |
| `ReopenSearch`, `ReopenTitle`, `ReopenReport`, `ReopenContract`, `ReopenDeposit`, `WithdrawOffer`, `WithdrawEnquiry` | `reopen_step`, `mortgage_offer_withdrawn`, `withdraw_enquiry` |

Abstracted: what a rule finds in a document (each verdict is possible for each); the trust level, which
may be any at any time. Left out: issues, proof of funds, survey and authority, which hold the same gates
and only make the model's cases fewer; sales and remortgages; what follows exchange (`Payments` has that);
decisions about ID, forms, packs and the contract, which follow the same path.

Left out too is manual handling, and that is no mere restriction: while it lasts a person may complete a step
by hand (`complete_step_manually`, `machine.ts:2568-2583`; its fold, `projection.ts:1324-1373`). Such a step
is done without what is modelled here: a search, an enquiry, the title or the offer becomes reviewed whatever
document it has, its pending decisions are closed as approved, and the report on title counts as sent, in
full, whether or not a draft was approved. `JudgedAsReturned`, `ReportAsApproved` and `FullReportWent`, and
the theorems about them, are about steps done in the ordinary way and say nothing of those. (What completing a
step by hand and its undo do to the copies of the state is in `MatterLog`.)

### LinkedMatters

`file` holds per matter the stage (as far as exchange and completion go), the link, the hold that the
link raised, the issues that the other file fell through and that the dates differ. `work` are the
requests in flight: each command on a file is a step under that file's lock, and what happens between
two of them - the other file read outside the lock, a server lost - is between two steps.

| Action | Code |
|---|---|
| `LinkChain`, `LinkFirst`, `LinkSecond`; `UnlinkChain`, `UnlinkSecond` | `linkChain`, `unlinkChain`: two commands on two files |
| `AskTo`, `CheckOther`, `ReleaseHold` | `run` before the lock: `assertLinkedMatterReady`, `assertLinkedSaleCompleted`, `assertLinkedPurchaseReady` |
| `CheckUnread` | the other file cannot be read: both completion checks let the completion through (`service.ts:1385-1386`, `1398-1399`); the exchange check refuses (1406-1407), which is `LoseRequest` |
| `ExchangeLinked`, `CompleteLinked` | `contracts_exchanged`, `completion_confirmed` under the lock |
| `MoveDate`, `CloseIssue`, `FallThrough`, `TellOther` | `change_completion_date`, an issue resolved by a person, `abandon_matter` and the news to the other file |
| `LoseRequest` | the server goes between two commands |

`GetReady` is the file's own progress, which `DocumentReview` and `Payments` describe: here it only
makes a file ready to exchange or funded to complete, and neither goes back. `said`, `crossed`,
`relinked` and `unread` remember, for the properties, that a person closed the hold, that both files exchanged
at the same moment, that the hold was raised for an earlier link than the file has now, and that the file
completed without its linked file having been read. Such a file completes in whatever order, a purchase before
its sale among them: `CompletesInOrder` is about all others.

`LinkedFiles` is the same with both files under one lock: a file exchanges only when the linked one, *as it
is at that moment*, has exchanged, can, or is off, or with a word on the file; for its day, unless both
exchange at once; and completes only after it, in the order of the money, unless it completes *alone*: a linked
file may, and is marked as having done so (in the code, because the other could not be read). The refinement mapping (`View`)
takes of each file the stage, whether it is off, the link, whether it is *excused* (a person closed the hold, or
the hold was of an earlier link), the day, the word about the days and whether it completed alone; the requests disappear. Checks, releases
of a hold and lost requests are stutters. What it says is that the reads outside the lock cannot be seen from
outside: whoever looks at the two files finds that the check held when it was acted on, or that there was none.

### ScheduledSends

`row` are the rows of `scheduled_send`, `due` those whose time has come, `draft` what became of the
drafts in the mailbox (external: the Graph client), `sweep` the batch a sweep still has to go through.
`Schedule`, `Cancel`, `SweepStarts` are `scheduleSend`, `cancelScheduledSend` and the select of
`processDueSends` (the `Soonest` due rows, as many as `BatchLimit`: those with fewer due rows before
them; a sweep then takes the `Foremost` of what it still has); `Send`, `Refused` and `Mark` the two halves of its loop, with the call to the
mailbox between; `LoseSweep` a crash. `TakeDraft` is the mailbox's owner. An update whose row says
something else by now still marks it: a send cancelled during a sweep may go and say SENT.

### MailIntake

`mail` is, per message, the triage record, the row of the filing queue, the claim on its filing and how
often it was filed unasked; `thread` where its conversation stands; `handler` the requests in flight.

| Action | Code |
|---|---|
| `Notified`, `Matches`, `Records` | the notification route and `processIncomingMessage`: matched, classified, recorded |
| `Checks`, `Inserts` | `enqueueMessage`: the look at the conversation, then the insert, which may fail (`RowFails`): the error is swallowed, a sweep that held a reply back records that it dealt with it all the same (`mail/queue.ts:200-202`), and a notification has recorded the message before (`incoming.ts:82-88`) |
| `Claims`, `Files`, `Notes` | `autoFileToCase` with `claimFiling`; the sweep's record of what it filed |
| `SweepsInbox`, `Weighs` | `sweepInbox`, `fileMissedReply` for one message of the first page |
| `LinksThread`, `FilesByHand`, `SetsAside`, `Restores` | the link-thread and not-a-case routes |
| `DropsRequest` | the server goes |

`strays` stands for a message that names another case than its conversation's, or is no reply to us, or
is a forward: what the code decides from the text is left open. The thread and its queue rows change in
one step, as a person's action is not interleaved with itself. It is assumed that a claim can be
recorded: `claimFiling` says yes when its table cannot be written. Only the first page is swept.

### Commissions

Per referrer and invoice `ledger` has the commission's status and `balance` how often it was credited
and debited; amounts are left out. `ChecksReferrer`, `Binds` are `setReferrer` (the look, then the
insert that the first one keeps); `IsPaid`, `Accrues` are `accrueCommission` from either of the two
events Stripe sends for a payment, each any number of times; `Applies`, `Credits` the claim and the
credit of `applyPayableCommissions`; `IsRefunded`, `ClawsBack` the read and the update of
`clawbackByInvoice`; `LoseProcess` a crash between any two statements.

## 3. The runs

| Run | Question | Result |
|---|---|---|
| `MatterLog` | do the lock and the remembered states keep log, read model and caches together, with crashes, rollbacks, evictions and slow readers? Do all instances come to one server that takes a command at a time? | holds |
| `MatterLogUndo` | is the read model the projection of the log, as the documentation says? | no: finding 1 |
| `Payments` | does money follow verified details, in every order of commands? Is there always something somebody can do? Is `PaymentRelease` implemented? | holds |
| `PaymentsLive` | does a purchase with a lender, whose details settle, complete? | holds |
| `PaymentsSent` | is nothing sent during a hard stop, as its text says? | no: finding 2 |
| `PaymentsStall` | does no case stop by itself, as the test of that name says? | no: finding 3 |
| `Chases` | are chases proposed once and never forgotten, with overlapping jobs, failing sends and lost jobs? Do letters and records follow the decisions (`ChaseDecisions`)? | holds |
| `ChasesGrouped` | do letters still follow decisions when one letter covers several enquiries? | holds |
| `ChasesWithdrawn` | is a proposed chase withdrawn by the engine only when what it is about has arrived? | no: finding 4 |
| `Files` | do questions about documents stay asked, and get answered about the document they were asked about; does the report go as approved, and in full; do linked files exchange and complete in step, with checks outside the lock and lost servers, as if under one lock (`LinkedFiles`)? | holds |
| `ReviewDeposit` | does a deposit that is no longer held lock exchange again? | no: finding 5 |
| `Around` | do scheduled sends settle and respect a cancel in time; is mail placed and filed once without its notifications; is commission earned once and credited once? | holds |

**Bounds.** `MatterLog`: two instances, one with two concurrent requests (the smallest in which a
slow reader, a writer of the same instance and a writer of another meet), two steps (so that one
completion alone does not advance the stage and an undo of either matters), `MaxLog = 4`: room for
both completions, the advance they cause and one undo, or for a completion, its undo and a completion
again. `Payments`: two payees (the one who is paid and our own client account, which payers are told
to pay), two accounts, three versions (a verified one, a replacement, and a replacement of that, or
one of the other payee), one receipt at a time waiting to clear. The liveness runs have both payers
or start where our own account is verified, so that the remaining versions go to the payee whose
details change. `Chases`: one wait and two jobs (two are enough for each race: timer and timer, timer
and approval, approval and retry, a person and any of them), two proposals (the second is what a
race, a rejection or a loss may bring), two decisions to send and one lost job or swallowed failure (`MaxCrashes`). `ChasesGrouped`: the
contract pack and two enquiries, one job, one proposal: what is tested is a letter whose waits close
while it is recorded. `Files` runs its two components side by side, one active in each behaviour, since
they share no state. The documents: one search that is required, one enquiry, with and without a lender,
three documents in all (a result, its re-order and one more item, or any other split), two drafts (the
second replaces a rejected or reopened one), two decisions open at once with a lender and one without (`Bounded`), two escalations (an escalation
of an escalation) and one step reopened or withdrawn. The links: a sale and a purchase, two dates
(interchangeable), two requests in flight, two holds (one on each file, or a link made again), one date
moved or matter abandoned. `ReviewDeposit` has the same bounds. `Around` likewise: three sends, two
sweeps of two and one lost sweep (a batch that does not hold all, and a sweep that overlaps another);
one message, two requests, two notifications, and two requests lost or rows not written (`MaxDropped`; every
race is between two requests on one message, or with a person); three accounts, one invoice and two processes (two referrers that
claim the third, told of the payment twice). Every action fires in every passing run of its module that explores from `Init`.

**Fairness** is only used by `PaymentsLive` and `PaymentsStall` (`Fairness` in `Payments`). It says that
people do what is on their list, which is the premise of `tests/unit/engine/no-stall.test.ts`: the
stage moves on and the papers come when nothing prevents them (weak fairness), and a payer is asked
and pays, the payment is authorised, sent, and the completion confirmed if they can be again and
again (strong, because a hold or a change of details may interrupt them). Nothing is assumed about
how decisions are answered or whether details are recorded: `Completes` has these as its premise
(`DetailsSettled`, no hold). `Chases` assumes (`Fairness` in `Chases`) that a job that runs takes its
next step (weak), that the cron starts a job for a due chase if it can again and again (strong,
because other jobs and what arrives interrupt it; one sweep skipped is made up by the next), and that
five days pass. Nothing is assumed about people, about sends succeeding, or about jobs surviving and failures being recorded
(but that `MaxCrashes` bounds how many are not).
`OutstandingIsPut` ends at `MaxProposals`: the last proposal may be rejected, and there is no next one.
`ScheduledSends` assumes (`SendFairness`) that some sweep goes on - they run from the worklist page
and from cron - and that a send that is tried again and again goes through in the end; `DueSettles`
has as its premise that fewer rows than a batch stay stuck (a draft that is gone and answers "not found"
keeps its place in every batch of fifty, `scheduledSend.ts:82`, `106`), without which it is false. `MailIntake` assumes
(`MailFairness`) that a request goes on, and that a sweep comes to each message that is on the first
page again and again; of notifications nothing is assumed. What lost requests, mail that was passed
over and rows that could not be written take away is named in `LostOnRecord`. `DocumentReview`, `LinkedMatters` and `Commissions` assume no
fairness: what they do next is up to people.

## 4. Findings

1. **An undone completion comes back** (`MatterLogUndo`). `manual_step_undone` takes the step's mark
   away; what the completion did to the state is only undone by replaying the log, which the run
   that undoes it does. Another instance's remembered state folds the undo forward and keeps the
   effect, and its next command writes that to the read model. `docs/engine-map.md:704` says
   replaying the log reproduces the live state exactly.
2. **Money can be sent during the hard stop** (`PaymentsSent`). Sending only asks whether a completion
   payment was authorised. New details recorded after the authorisation raise the "mandatory
   hard-stop" whose text says no payment to the payee can proceed; the transfer is still accepted.
   Completion is refused afterwards.
3. **A change of details after authorisation stops the case** (`PaymentsStall`). Completion wants a
   payment authorised to the current verified details, and a second authorisation for the payee is
   refused, so no command completes the case any more.
4. **A chase of enquiries is withdrawn as it is proposed** (`ChasesWithdrawn`). Enquiries are chased
   in one letter, whose proposal has the key `enquiry:replies` (`service.ts:1513`). The automatic rule
   that takes back a chase when "the thing we were going to chase for has arrived" (`machine.ts:826`,
   `836`) looks for an open wait with the proposal's key, and no wait has that one: the proposal is
   rejected in the command that made it and quiet for five days, then the same again. At the default
   trust level (propose) enquiries are therefore never chased by the timer.
5. **A deposit that is no longer held still lets contracts be exchanged** (`ReviewDeposit`). Once the
   deposit is in, an automatic rule marks the conditions of exchange as met. Marking the deposit
   incomplete (`projection.ts:1394`) clears the deposit and leaves the conditions, and
   `contracts_exchanged` reads only those (`machine.ts:1476`). `types.ts:1578` says that what the step
   unlocked is locked again.

Seen while modelling, of which the repository promises nothing, so that no run is about it:

- A purchase exchanged and its linked sale then abandoned can never complete: it waits for the sale
  (`service.ts:1395-1400`), and the link cannot be taken away after exchange.
- A link made between three files at once may be one-sided: the second command is refused and the first
  stays (`service.ts:1363-1364`). With three files a sale may even be linked to a second purchase while
  its exchange was checked against the first: `linkChain` refuses a file that is linked already, but
  decides that outside the lock, and the command itself refuses only the same link
  (`machine.ts:2556-2566`). The exchange then commits under a link nobody checked. `ExchangedTogether`
  exempts the file (`relinked`); `OneLinkEach` proves that it never happens where a file has only one
  other it can be linked to.
- An interim report that was approved, and whose stage then moved on before it was sent, can be neither
  sent (`machine.ts:3907`) nor drafted again (`machine.ts:3896`) until it is marked incomplete.
- The AI's reading of one mortgage offer is recorded as the verdict on the next when that arrives
  in between (`service.ts:764-779`, `machine.ts:1295`).
- A linked file completes unchecked when the other cannot be read at that moment: both completion checks
  read it with `.catch(() => null)` and then let the completion through (`service.ts:1385-1386`,
  `1398-1399`), where the exchange check refuses (`1406-1407`). A purchase may so complete before the sale
  whose proceeds pay for it. The comments above the two (`1380-1381`) state the order; what is to happen
  when it cannot be checked they do not say. The model has the path (`CheckUnread`), and the order is promised
  of all other completions.
- After completion is confirmed no task is raised for a chase that fails (`service.ts:2284`), while the timer
  chases on until the case is closed: one that goes unasked and keeps failing is put to nobody.
- A held-back reply whose row on the queue could not be written is recorded as dealt with all the same
  (`mail/queue.ts:200-202`), and a new message is recorded before its row is (`incoming.ts:82-88`). Once the
  conversation is on a case no sweep looks at either again, and it is on no list. `LostOnRecord` names it.
- A message whose conversation is put on a case while it is being recorded may end with an open row on
  the queue, or be passed over (`mail/queue.ts:74`); link-thread does not look at what `claimFiling`
  answers.
- A crash between the claim and the credit of a commission loses the credit (`referrals.ts:221`); two
  racing refunds debit it twice (`referrals.ts:183`).

## 5. The proofs

All theorems hold for every value of the constants that satisfies the assumptions in the modules:
`MatterLog` assumes that `InstOf` is a function from requests to instances, that `NoView` is no view,
that `NoRequest` is no request, and `MaxLog \in Nat`; `Payments` that the two distinguished payees are
different members of `Payees`, that somebody pays
(`payersExpected` of a purchase has the client) and that the two bounds are natural numbers; `Chases` that the enquiries
are waits, that `Replies` and `NoWait` are none and `NoTask` is no number, that the set of jobs is
finite and that the three bounds are natural numbers; `DocumentReview` that searches, enquiries, title and
mortgage are different things and that the five bounds are natural numbers; `LinkedMatters` that the
sales are files, that `NoFile` is no file and `NoDate` no date, and the same of its three bounds;
`ScheduledSends` that rows are natural numbers (their order is that of their times), that a batch has
room for one and that the bound on lost sweeps is a natural number; `MailIntake` that every message is in one
of the conversations, that `NoMessage` is no message, that a page
holds at least one message, and the same of its bounds; `Commissions` that every invoice has a payer
and that `NoAccount` is no account.

**MatterLogProofs.** The properties the run checks are not inductive by themselves. What carries everything is
`StagedInv`, about a request that has decided and not committed: what it will append is the answer to
one command on a faithful state at the end of the log *as it is now*, and the view it will publish is
what follows from that. It holds when the request gets the lock, and stays because only the lock's
holder commits (`LockInv`). Two lemmas say what a state is worth: `Replay` is faithful, and `Fold`
takes a faithful view of a prefix to a faithful view of the whole; faithfulness survives a log that
grows, which is why a slow reader may remember late. From these, commit by commit: `CopiesFaithful`
and `ReadModelCurrent`; `UndoneOnce` and `AdvanceJustified`, because the mark and the advance a
command reads are those of the log it is appended to (`Mark`, `HasAdvanced` of the same log) and
because steps that a faithful state counts as complete were completed in the log, even if an undo
has since come; `NoConcurrencyError`, and the action property. `InstancesImplementSerial` is the same
argument read as a refinement: a commit is `Handle` of the command and the state `StagedInv` names,
every other action a stutter.

**PaymentsProofs.** The invariants of versions, payments and completion are inductive only together and with three
facts more: `UnverifiedIsFlagged` (a version not yet verified has its decision open or escalated),
`VerifiedIsAnswered` (a version is verified, and has its verification time, only by the answer to its
decision, so that no later answer, a rejection above all, can reach it) and `OnePaymentPerPayee`.
`VerificationStands` then follows action
by action. `PaymentsImplementRelease` is the refinement theorem: `RecordBankDetails` maps to
`Withdraw`, `Verify` of an unverified version to `Trust` (the version is trusted once, and none other
is, because only the newest is unverified), authorisation of the completion payment to `Authorise`,
`ConfirmCompletion` to `Complete`, and every other action to a stutter.
`CaseGoesOn` is the safety half of `Completes`: in every state of a case that is not completed, on hold or
overtaken (finding 3), some step of the way can be taken, or the details it needs are to be recorded or to be
settled. The run's fairness, and TLC on its instance, make that into completion; the theorem says that for no number
of payers, payees and versions is there a state from which nobody could go on. It needs `MoneyInv` besides the invariant: that
the last receipt with no request open marks the money as received, that a shortfall has a payer who can make it
good, and that the stage reaches "completed" only by completion.

**ChasesProofs.** Three of the invariants need more than themselves. For `SentAsDecided` the
proof counts: `SentInv` says that a proposal's letters and the jobs that still owe one (`Owing`: those
that are about to send it) together are no more than its decisions, so that a decision adds one to
both sides, a sending turns an owing job into a letter, and a failure or a crash only lowers the sum. For
`ApprovedWent`, `ApprovedInv` names the job that answers for an approved chase that has not gone: one
that approves it and is about to send it or to record its failure; a retry approves only what went
(`JobOK`: a job that records or closes something has sent it). `JobInv` says which proposal a job is about, and
that the timer's jobs are about none until they make one. `OnePendingPerKey` and
`PendingIsOutstanding` are inductive together: only `Propose` makes anything pending, under the
lock's own check of the key, and every step that closes a wait withdraws what was pending about it.
`ChasesKeepDecisions` is the refinement of `ChaseDecisions`, and needs three facts more. `KeyOpen`: a pending
chase is about something open, so that what closes withdraws it in the same step and never later. `Untouched`:
nobody is at work on a chase that is still pending, so its approval starts from nothing owed. `Alone`: an approval is
carried out by one job, while the chase stays approved, so that when this job records its failure no other
job still owes a letter - the record "failed" never overtakes a letter. That a failed chase comes back as
sent only when a letter went is `JobOK`, which the invariant has already.

**DocumentReviewProofs.** The invariant has four parts: types (`GoodMatter`, and decisions typed),
`AutoStep(m) = m`, one about each open decision (`DecisionOK`: on one desk, and about which document) and
one about each item (`ItemOK`: what waits is asked, and a question about an item binds the document it
has). That three automatic steps suffice (`StepsLeft`) is proved once, by counting the stages and
conditions left, and every command uses it; the automatic rules never touch an item, so the other parts are
preserved by what the command itself did. The second half of `ItemOK` is what makes a late answer
harmless: while a search is flagged or held, nothing brings it a new result, so its decision is about the
result it has; only a reopened step breaks this, which `redone` exempts. `ReportAsApproved` and
`FullReportWent` follow from the matter's part.

**LinkedMattersProofs.** All the properties are about a check that was made earlier, on a state that
may have moved on. The invariant says of each request about to commit (`RequestOK`) that what was checked
of the other file is still true, and the proof is that nothing the other file does can make it untrue: a
completed sale stays completed, money that is in stays in, what has exchanged or can stays so (`Could`), and
a matter that fell through stays so. A completion whose check could not read the other file is known as one from its request on (`unread`), and
nothing of the other is claimed of it. `Onward` is what every step does to a file; `FileOK` is what a file keeps
to by itself. Which file was checked is the other half. An exchanged file keeps its link, so a request to
complete still speaks of the file it is linked to. A request to exchange does not, for links come and go
before exchange: it knows the *hold* it read, holds are counted up and never come back (`HoldKept`), so
that the hold it clears is that of the link it checked, unless the file was linked anew under an open hold (`relinked`).
For `SameDay`, `DayAgreed` needs that the day a request saw of the other file is its own, and
that a day moves after exchange only with a word on the file (`DayKept`).
`LinkedMattersKeepTogether` is the refinement. Most commands map to the step of their name on the file they
touch, and leave the view of the other alone. The two that act on an old check need the invariant: a file
that exchanges has no hold open, so `FileOK` says that its linked file could be exchanged with or that it is excused, and
`RequestOK` that the day is the linked file's; a file that completes has `CanCompleteWith` of the file as it is, or completes alone.
`FileOK` also says that there is no word about the days before exchange, without which an exchange
could bring an old word along.

**FilesProofs.** `PartsCompose`: a step of the composition is a step of one component and a stutter of the
other, so what is proved of either alone holds of both beside each other, `FilesTypeOK` among it.

**MailIntakeProofs.** `FiledOnce` needs the claim's owner: at most one request is about to file a message,
only where it is claimed unasked and not filed yet (`HandlerInv`). The claim is one atomic insert,
so two requests that come to it cannot both pass. `RecordedIsSettled` is the safety half of `NothingMissed`:
once a message is on record, a sweep of a filed conversation leaves it alone (`LeavesReply`), so that record
must never be all there is. It needs that a sweep notes only what it put on the queue, tried to, or found claimed
(`NotedIsSettled`), that queue rows and claims are never taken away, and names the three ways out: passed over
because the conversation was dealt with, dropped with a lost server, or recorded although its row could not be
written. TLC confirms it on the instance of
run `Around`, which does not list it.

**AroundProofs.** Scheduled sends: `CancelledInTime` needs that a row cancelled while no sweep holds it is held
by none later: a batch takes up pending rows only, and nothing makes a cancelled row pending again (`CancelsKept`).
The types include the size of a batch: rows with fewer than `BatchLimit` due rows before them are at most so
many, since two of them differ in how many are before them (`SoonestBounded`). Commissions: `CreditedOnce` counts
the credit that a run has still to give, and `UnappliedInv` says that a commission not yet applied has none and
nobody is about to give one. `OneReferrerPaid` needs that a referrer once bound stays (`BoundInv`): a commission,
or a request about to make one, is for the referrer that is bound. `PartsCompose` puts these and mail intake side
by side, as in `FilesProofs`, and `AroundTypeOK` follows.

**Only model-checked**: liveness (`Completes`, `OutstandingIsPut`, `DueSettles`, `NothingMissed`), which is
out of the prover's reach. Every invariant and every refinement that a passing run checks is a theorem.

## 6. Not modelled, and the plan

The order is by what goes wrong most expensively.

1. `MatterLog` with `SerialLog`, `Payments` with `PaymentRelease`, `Chases`, `DocumentReview`, `LinkedMatters`,
   `ScheduledSends`, `MailIntake`, `Commissions` - done, with the theorems above.
2. An abstract specification of what `DocumentReview` promises, proved to be implemented (those of `Chases`
   and `LinkedMatters` are `ChaseDecisions` and `LinkedFiles`).
3. The actions of the outbox that record differently (acknowledgements, client updates, search orders) and
   the escalation of waits.
4. Issues (raised, waived, resolved) as holds on the gates; proof of funds, whose rounds hold exchange.
5. The claim-once tables (sign-in links, demo bookings) and subscriptions: small, and mostly settled by
   one guarded statement each.

Why the rest is not modelled: the engine's decision core has some 150 commands, most of which record a fact
that nothing else depends on; what is modelled is what gates, decisions, money and letters depend
on. The user interface, the API routes and the AI client, the larger part of the code, hold no state
of their own that outlives a request.

Left out for good: wording, prompts and layouts (no state), read-only projections, the row-level
security policies of the database (relations rather than behaviour), rendering, and date arithmetic.

---------------------------- MODULE ChasesProofs ----------------------------
(***************************************************************************)
(* For any waits, jobs and bounds: the types, that a key has one pending    *)
(* chase, that what is pending is outstanding, that letters follow          *)
(* decisions, and that an approved chase went, is on its way or was lost.   *)
(***************************************************************************)
EXTENDS Chases, TLAPS, SequenceTheorems, FiniteSetTheorems

JobRecords ==
  [pc : {"idle", "choosing", "proposing", "performing", "recording", "failed", "reporting", "retried", "closing"},
   by : {"none", "timer", "person", "approval", "retry"}, wait : Waits \cup {NoWait}, also : SUBSET Enquiries,
   left : SUBSET Waits, proposal : Nat]

(* A job is about a proposal exactly when it approves or retries it; what it records or closes went. *)
JobOK(job, ps) ==
  /\ job.by \in {"approval", "retry"} => job.proposal \in 1..Len(ps)
  /\ job.by \notin {"approval", "retry"} => job.proposal = 0
  /\ job.pc \in {"choosing", "proposing"} => job.by = "timer"
  /\ job.pc \in {"choosing", "proposing", "performing", "recording"} => job.wait \in Waits
  /\ job.pc = "recording" => job.left # {}
  /\ job.pc = "failed" => job.by = "approval"
  /\ job.pc \in {"retried", "closing"} => job.by = "retry"
  /\ job.pc \in {"recording", "retried", "closing"} /\ job.proposal # 0 => ps[job.proposal].letters > 0

JobInv == jobs \in [Jobs -> JobRecords] /\ \A j \in Jobs : JobOK(jobs[j], proposals)

(* Who will send an approved chase that has not gone, or say that it failed. *)
Approving(k) == {j \in Jobs : /\ jobs[j].by = "approval" /\ jobs[j].proposal = k
                              /\ jobs[j].pc \in {"performing", "failed"}}

ApprovedInv ==
  \A k \in Ids : /\ proposals[k].status = "approved" /\ proposals[k].letters = 0 /\ ~proposals[k].lost
                 => Approving(k) # {}

(* The decisions to send that a job has yet to carry out are on top of the letters that went. *)
SentInv == \A k \in Ids : proposals[k].letters + Cardinality(Owing(k)) <= proposals[k].clicks

PendingInv == OnePendingPerKey /\ PendingIsOutstanding

IInv == TypeOK /\ JobInv /\ PendingInv /\ ApprovedInv /\ SentInv

-----------------------------------------------------------------------------
(* Proposals *)

LEMMA ProposalUpdates ==
  ASSUME NEW p \in Proposals
  PROVE  /\ \A s \in Statuses : [p EXCEPT !.status = s] \in Proposals
         /\ \A s \in Statuses, q \in BOOLEAN : [p EXCEPT !.status = s, !.quiet = q] \in Proposals
         /\ [p EXCEPT !.quiet = FALSE] \in Proposals
         /\ [p EXCEPT !.letters = p.letters + 1] \in Proposals
         /\ \A s \in Statuses : [p EXCEPT !.status = s, !.clicks = p.clicks + 1] \in Proposals
         /\ [p EXCEPT !.clicks = p.clicks + 1] \in Proposals
         /\ [p EXCEPT !.lost = TRUE] \in Proposals
<1>1. /\ [p EXCEPT !.quiet = FALSE] \in Proposals /\ [p EXCEPT !.lost = TRUE] \in Proposals
      /\ \A s \in Statuses : [p EXCEPT !.status = s] \in Proposals
  BY DEF Proposals
<1>2. \A s \in Statuses, q \in BOOLEAN : [p EXCEPT !.status = s, !.quiet = q] \in Proposals
  BY DEF Proposals
<1>3. p.letters + 1 \in Nat /\ p.clicks + 1 \in Nat
  BY DEF Proposals
<1>4. \A n \in Nat : [p EXCEPT !.letters = n] \in Proposals /\ [p EXCEPT !.clicks = n] \in Proposals
  BY DEF Proposals
<1>5. \A s \in Statuses, n \in Nat : [p EXCEPT !.status = s, !.clicks = n] \in Proposals
  BY DEF Proposals
<1>6. QED
  BY <1>1, <1>2, <1>3, <1>4, <1>5

(* The withdrawal of what has arrived keeps the proposals, but what it leaves pending is outstanding. *)
LEMMA WithdrawnEffect ==
  ASSUME NEW ps \in Seq(Proposals), NEW waits \in SUBSET Waits
  PROVE  /\ Withdrawn(ps, waits) \in Seq(Proposals) /\ Len(Withdrawn(ps, waits)) = Len(ps)
         /\ \A k \in 1..Len(ps) :
              LET q == Withdrawn(ps, waits)[k] IN
                /\ q.wait = ps[k].wait /\ q.letters = ps[k].letters /\ q.clicks = ps[k].clicks /\ q.lost = ps[k].lost
                /\ q.status = "pending" => ps[k].status = "pending" /\ q.wait \in waits
                /\ q.status = "approved" => ps[k].status = "approved"
<1> DEFINE q == Withdrawn(ps, waits)
           one(k) == IF ps[k].status = "pending" /\ DedupKey(ps[k].wait) \notin waits
                     THEN [ps[k] EXCEPT !.status = "rejected", !.quiet = TRUE] ELSE ps[k]
<1>1. Len(ps) \in Nat /\ \A k \in 1..Len(ps) : ps[k] \in Proposals
  OBVIOUS
<1>2. \A k \in 1..Len(ps) : one(k) \in Proposals
  BY <1>1, ProposalUpdates DEF Statuses
<1>3. q = [k \in 1..Len(ps) |-> one(k)]
  BY DEF Withdrawn
<1>4. q \in Seq(Proposals) /\ Len(q) = Len(ps) /\ \A k \in 1..Len(ps) : q[k] = one(k)
  <2> HIDE DEF one, q
  <2>1. QED
    BY <1>1, <1>2, <1>3
<1>5. ASSUME NEW k \in 1..Len(ps)
      PROVE  /\ one(k).wait = ps[k].wait /\ one(k).letters = ps[k].letters
             /\ one(k).clicks = ps[k].clicks /\ one(k).lost = ps[k].lost
             /\ one(k).status = "pending" => ps[k].status = "pending" /\ one(k).wait \in waits
             /\ one(k).status = "approved" => ps[k].status = "approved"
  BY <1>1, WaitsAssumption DEF Proposals, DedupKey
<1>6. QED
  BY <1>4, <1>5

(* A new proposal, and what the withdrawal makes of it, at the end of the others. *)
LEMMA NewProposalType ==
  ASSUME NEW job \in JobRecords, job.wait \in Waits
  PROVE  /\ NewProposal(job) \in Proposals /\ NewProposal(job).wait = job.wait
         /\ NewProposal(job).letters = 0 /\ NewProposal(job).clicks = 0 /\ NewProposal(job).status = "pending"
BY DEF JobRecords, NewProposal, Proposals, Statuses

LEMMA ProposalTypes ==
  ASSUME TypeOK
  PROVE  /\ proposals \in Seq(Proposals) /\ Len(proposals) \in Nat /\ Len(proposals) <= MaxProposals
         /\ open \in SUBSET Waits
         /\ \A k \in Ids : /\ proposals[k] \in Proposals /\ proposals[k].wait \in Waits
                           /\ proposals[k].letters \in Nat /\ proposals[k].clicks \in Nat
<1>1. proposals \in Seq(Proposals) /\ Len(proposals) <= MaxProposals /\ open \in SUBSET Waits
  BY DEF TypeOK
<1>2. Len(proposals) \in Nat /\ \A k \in Ids : proposals[k] \in Proposals
  BY <1>1 DEF Ids
<1>3. \A p \in Proposals : p.wait \in Waits /\ p.letters \in Nat /\ p.clicks \in Nat
  BY DEF Proposals
<1>4. QED
  BY <1>1, <1>2, <1>3

(* Rewriting the proposal k: the others are left alone. *)
Rewrites(k) ==
  /\ proposals' \in Seq(Proposals) /\ Len(proposals') = Len(proposals)
  /\ proposals'[k].wait = proposals[k].wait /\ proposals'[k].letters >= proposals[k].letters
  /\ \A i \in Ids : i # k => proposals'[i] = proposals[i]

(* No step takes a proposal or a letter back. *)
Kept ==
  /\ proposals' \in Seq(Proposals) /\ Len(proposals') <= MaxProposals /\ Len(proposals') >= Len(proposals)
  /\ \A k \in Ids : k \in Ids' /\ proposals'[k].wait = proposals[k].wait /\ proposals'[k].letters >= proposals[k].letters

LEMMA RewriteOne ==
  ASSUME TypeOK, NEW k \in Ids, NEW p \in Proposals, proposals' = [proposals EXCEPT ![k] = p],
         p.wait = proposals[k].wait, p.letters >= proposals[k].letters
  PROVE  Rewrites(k) /\ Kept /\ proposals'[k] = p /\ Ids' = Ids
<1>1. proposals \in Seq(Proposals) /\ k \in 1..Len(proposals) /\ Len(proposals) \in Nat /\ Len(proposals) <= MaxProposals
  BY ProposalTypes DEF Ids
<1>2. /\ proposals' \in Seq(Proposals) /\ Len(proposals') = Len(proposals)
      /\ \A i \in 1..Len(proposals) : proposals'[i] = IF i = k THEN p ELSE proposals[i]
  BY <1>1, ExceptSeq
<1>3. QED
  BY <1>1, <1>2, ProposalTypes DEF Ids, Rewrites, Kept

LEMMA UnchangedKept == ASSUME TypeOK, UNCHANGED proposals PROVE Kept /\ Ids' = Ids
BY ProposalTypes DEF Kept, Ids

LEMMA WithdrawalsKept ==
  ASSUME TypeOK, open' \in SUBSET Waits, proposals' = Withdrawn(proposals, open')
  PROVE  /\ Kept /\ Ids' = Ids
         /\ \A k \in Ids : /\ proposals'[k].wait = proposals[k].wait /\ proposals'[k].letters = proposals[k].letters
                           /\ proposals'[k].clicks = proposals[k].clicks /\ proposals'[k].lost = proposals[k].lost
                           /\ proposals'[k].status = "pending" => proposals[k].status = "pending" /\ proposals[k].wait \in open'
                           /\ proposals'[k].status = "approved" => proposals[k].status = "approved"
BY ProposalTypes, WithdrawnEffect DEF Kept, Ids

(* A proposal is made: if its key is not pending, at the end of the others, which the withdrawal keeps. *)
LEMMA Proposed ==
  ASSUME IInv, NEW j \in Jobs, Propose(j)
  PROVE  /\ Kept
         /\ \/ UNCHANGED proposals
            \/ LET n == Len(proposals) + 1 IN
                 /\ Len(proposals') = n /\ n \in Nat /\ Ids' = Ids \cup {n} /\ n \notin Ids
                 /\ proposals'[n].wait = jobs[j].wait /\ proposals'[n].letters = 0 /\ proposals'[n].clicks = 0
                 /\ proposals'[n].status # "approved"
                 /\ ~Pending(DedupKey(jobs[j].wait))
                 /\ \A k \in Ids' : proposals'[k].status = "pending" => proposals'[k].wait \in open
                 /\ \A k \in Ids : /\ proposals'[k].wait = proposals[k].wait /\ proposals'[k].letters = proposals[k].letters
                                   /\ proposals'[k].clicks = proposals[k].clicks /\ proposals'[k].lost = proposals[k].lost
                                   /\ proposals'[k].status = "pending" => proposals[k].status = "pending"
                                   /\ proposals'[k].status = "approved" => proposals[k].status = "approved"
<1> DEFINE new == NewProposal(jobs[j])
           ps == Append(proposals, new)
           n == Len(proposals) + 1
<1>1. /\ proposals \in Seq(Proposals) /\ Len(proposals) \in Nat /\ Len(proposals) <= MaxProposals
      /\ open \in SUBSET Waits /\ \A k \in Ids : proposals[k].letters \in Nat
  BY ProposalTypes DEF IInv
<1>2. jobs[j] \in JobRecords /\ jobs[j].wait \in Waits /\ jobs[j].pc = "proposing"
  BY DEF IInv, JobInv, JobOK, Propose
<1>3. /\ new \in Proposals /\ new.wait = jobs[j].wait /\ new.letters = 0 /\ new.clicks = 0 /\ new.status = "pending"
  BY <1>2, NewProposalType
<1>4. CASE UNCHANGED proposals
  BY <1>4, UnchangedKept DEF IInv
<1>5. CASE ~Pending(DedupKey(jobs[j].wait)) /\ Len(proposals) < MaxProposals /\ proposals' = Withdrawn(ps, open)
  <2> HIDE DEF new
  <2>1. /\ ps \in Seq(Proposals) /\ Len(ps) = n /\ ps[n] = new
        /\ \A k \in 1..Len(proposals) : ps[k] = proposals[k]
    BY <1>1, <1>3, AppendProperties
  <2> HIDE DEF ps
  <2>2. n \in Nat /\ n <= MaxProposals /\ 1..n = Ids \cup {n} /\ n \notin Ids
    BY <1>1, <1>5, BoundsAssumption DEF Ids
  <2>3. /\ proposals' \in Seq(Proposals) /\ Len(proposals') = n
        /\ \A k \in 1..n :
              /\ proposals'[k].wait = ps[k].wait /\ proposals'[k].letters = ps[k].letters
              /\ proposals'[k].clicks = ps[k].clicks /\ proposals'[k].lost = ps[k].lost
              /\ proposals'[k].status = "pending" => ps[k].status = "pending" /\ proposals'[k].wait \in open
              /\ proposals'[k].status = "approved" => ps[k].status = "approved"
    BY <1>1, <1>5, <2>1, WithdrawnEffect
  <2>4. Ids' = Ids \cup {n}
    BY <2>2, <2>3 DEF Ids
  <2>5. /\ proposals'[n].wait = jobs[j].wait /\ proposals'[n].letters = 0 /\ proposals'[n].clicks = 0
        /\ proposals'[n].status # "approved"
    BY <1>3, <2>1, <2>2, <2>3
  <2>6. \A k \in Ids : /\ proposals'[k].wait = proposals[k].wait /\ proposals'[k].letters = proposals[k].letters
                       /\ proposals'[k].clicks = proposals[k].clicks /\ proposals'[k].lost = proposals[k].lost
                       /\ proposals'[k].status = "pending" => proposals[k].status = "pending"
                       /\ proposals'[k].status = "approved" => proposals[k].status = "approved"
    BY <2>1, <2>2, <2>3 DEF Ids
  <2>7. Kept
    BY <1>1, <2>2, <2>3, <2>4, <2>6 DEF Kept
  <2>8. QED
    BY <1>5, <2>2, <2>3, <2>4, <2>5, <2>6, <2>7
<1>6. QED
  BY <1>4, <1>5 DEF Propose

(* What the rewriting of one proposal by each action is. *)
LEMMA Rewritings ==
  ASSUME TypeOK, NEW k \in Ids
  PROVE  /\ QuietEnds(k) => /\ Rewrites(k) /\ Kept /\ Ids' = Ids
                            /\ proposals'[k] = [proposals[k] EXCEPT !.quiet = FALSE]
         /\ Reject(k) => /\ Rewrites(k) /\ Kept /\ Ids' = Ids
                         /\ proposals'[k] = [proposals[k] EXCEPT !.status = "rejected", !.quiet = TRUE]
         /\ \A j \in Jobs :
              /\ Approve(k, j) => /\ Rewrites(k) /\ Kept /\ Ids' = Ids
                                  /\ proposals'[k] = [proposals[k] EXCEPT !.status = "approved", !.clicks = @ + 1]
              /\ Retry(k, j) => /\ Rewrites(k) /\ Kept /\ Ids' = Ids
                                /\ proposals'[k] = [proposals[k] EXCEPT !.clicks = @ + 1]
         /\ \A s \in Statuses :
              proposals' = [proposals EXCEPT ![k].status = s] =>
                /\ Rewrites(k) /\ Kept /\ Ids' = Ids /\ proposals'[k] = [proposals[k] EXCEPT !.status = s]
         /\ proposals' = [proposals EXCEPT ![k].letters = @ + 1] =>
              /\ Rewrites(k) /\ Kept /\ Ids' = Ids /\ proposals'[k] = [proposals[k] EXCEPT !.letters = @ + 1]
         /\ proposals' = [proposals EXCEPT ![k].lost = TRUE] =>
              /\ Rewrites(k) /\ Kept /\ Ids' = Ids /\ proposals'[k] = [proposals[k] EXCEPT !.lost = TRUE]
<1> DEFINE p == proposals[k]
           Is(q) == proposals' = [proposals EXCEPT ![k] = q]
           May(q) == q \in Proposals /\ q.wait = p.wait /\ q.letters >= p.letters
           Done(q) == Rewrites(k) /\ Kept /\ Ids' = Ids /\ proposals'[k] = q
<1>1. p \in Proposals /\ p.letters \in Nat /\ proposals \in Seq(Proposals) /\ k \in DOMAIN proposals
  BY ProposalTypes DEF Ids
<1>2. ASSUME NEW q, Is(q), May(q) PROVE Done(q)
  BY <1>2, RewriteOne
<1>3. QuietEnds(k) => Is([p EXCEPT !.quiet = FALSE])
  BY <1>1 DEF QuietEnds
<1>4. Reject(k) => Is([p EXCEPT !.status = "rejected", !.quiet = TRUE])
  BY <1>1 DEF Reject
<1>5. \A j \in Jobs : /\ Approve(k, j) => Is([p EXCEPT !.status = "approved", !.clicks = p.clicks + 1])
                      /\ Retry(k, j) => Is([p EXCEPT !.clicks = p.clicks + 1])
  BY <1>1 DEF Approve, Retry
<1>6. /\ \A s \in Statuses : proposals' = [proposals EXCEPT ![k].status = s] => Is([p EXCEPT !.status = s])
      /\ proposals' = [proposals EXCEPT ![k].letters = @ + 1] => Is([p EXCEPT !.letters = p.letters + 1])
      /\ proposals' = [proposals EXCEPT ![k].lost = TRUE] => Is([p EXCEPT !.lost = TRUE])
  BY <1>1
<1>7. /\ \A s \in Statuses : May([p EXCEPT !.status = s])
      /\ May([p EXCEPT !.quiet = FALSE])
      /\ May([p EXCEPT !.status = "rejected", !.quiet = TRUE])
      /\ May([p EXCEPT !.status = "approved", !.clicks = p.clicks + 1])
      /\ May([p EXCEPT !.clicks = p.clicks + 1])
      /\ May([p EXCEPT !.letters = p.letters + 1])
      /\ May([p EXCEPT !.lost = TRUE])
  <2> HIDE DEF p
  <2>1. /\ \A s \in Statuses : [p EXCEPT !.status = s].wait = p.wait /\ [p EXCEPT !.status = s].letters = p.letters
        /\ [p EXCEPT !.quiet = FALSE].wait = p.wait /\ [p EXCEPT !.quiet = FALSE].letters = p.letters
        /\ [p EXCEPT !.status = "rejected", !.quiet = TRUE].wait = p.wait
        /\ [p EXCEPT !.status = "rejected", !.quiet = TRUE].letters = p.letters
        /\ [p EXCEPT !.status = "approved", !.clicks = p.clicks + 1].wait = p.wait
        /\ [p EXCEPT !.status = "approved", !.clicks = p.clicks + 1].letters = p.letters
        /\ [p EXCEPT !.clicks = p.clicks + 1].wait = p.wait /\ [p EXCEPT !.clicks = p.clicks + 1].letters = p.letters
        /\ [p EXCEPT !.letters = p.letters + 1].wait = p.wait
        /\ [p EXCEPT !.letters = p.letters + 1].letters = p.letters + 1
        /\ [p EXCEPT !.lost = TRUE].wait = p.wait /\ [p EXCEPT !.lost = TRUE].letters = p.letters
    BY <1>1 DEF Proposals
  <2>2. /\ \A s \in Statuses : [p EXCEPT !.status = s] \in Proposals
        /\ [p EXCEPT !.quiet = FALSE] \in Proposals
        /\ [p EXCEPT !.status = "rejected", !.quiet = TRUE] \in Proposals
        /\ [p EXCEPT !.status = "approved", !.clicks = p.clicks + 1] \in Proposals
        /\ [p EXCEPT !.clicks = p.clicks + 1] \in Proposals
        /\ [p EXCEPT !.letters = p.letters + 1] \in Proposals
        /\ [p EXCEPT !.lost = TRUE] \in Proposals
    <3>1. "rejected" \in Statuses /\ "approved" \in Statuses /\ TRUE \in BOOLEAN
      BY DEF Statuses
    <3>2. QED
      BY <1>1, <3>1, ProposalUpdates
  <2>3. /\ p.letters >= p.letters /\ p.letters + 1 >= p.letters
    BY <1>1
  <2>4. \A s \in Statuses : May([p EXCEPT !.status = s])
    BY <2>1, <2>2, <2>3
  <2>5. /\ May([p EXCEPT !.quiet = FALSE])
        /\ May([p EXCEPT !.status = "rejected", !.quiet = TRUE])
        /\ May([p EXCEPT !.lost = TRUE])
    BY <2>1, <2>2, <2>3
  <2>6. /\ May([p EXCEPT !.status = "approved", !.clicks = p.clicks + 1])
        /\ May([p EXCEPT !.clicks = p.clicks + 1])
    BY <2>1, <2>2, <2>3
  <2>7. May([p EXCEPT !.letters = p.letters + 1])
    BY <2>1, <2>2, <2>3
  <2>8. QED
    BY <2>4, <2>5, <2>6, <2>7
<1> HIDE DEF p, Is, May, Done
<1>8. /\ QuietEnds(k) => Done([p EXCEPT !.quiet = FALSE])
      /\ Reject(k) => Done([p EXCEPT !.status = "rejected", !.quiet = TRUE])
  BY <1>2, <1>3, <1>4, <1>7
<1>9. \A j \in Jobs : /\ Approve(k, j) => Done([p EXCEPT !.status = "approved", !.clicks = p.clicks + 1])
                      /\ Retry(k, j) => Done([p EXCEPT !.clicks = p.clicks + 1])
  BY <1>2, <1>5, <1>7
<1>10. /\ \A s \in Statuses : proposals' = [proposals EXCEPT ![k].status = s] => Done([p EXCEPT !.status = s])
       /\ proposals' = [proposals EXCEPT ![k].letters = @ + 1] => Done([p EXCEPT !.letters = p.letters + 1])
       /\ proposals' = [proposals EXCEPT ![k].lost = TRUE] => Done([p EXCEPT !.lost = TRUE])
  BY <1>2, <1>6, <1>7
<1>11. QED
  BY <1>8, <1>9, <1>10 DEF p, Done

(* What each action does to the fields of the proposal it rewrites. *)
Alike(k) == /\ proposals'[k].letters = proposals[k].letters /\ proposals'[k].clicks = proposals[k].clicks
            /\ proposals'[k].lost = proposals[k].lost

LEMMA Effects ==
  ASSUME TypeOK, NEW k \in Ids
  PROVE  /\ QuietEnds(k) => Rewrites(k) /\ Alike(k) /\ proposals'[k].status = proposals[k].status
         /\ Reject(k) => Rewrites(k) /\ Alike(k) /\ proposals'[k].status = "rejected"
         /\ \A j \in Jobs :
              /\ Approve(k, j) => /\ Rewrites(k) /\ proposals'[k].status = "approved"
                                  /\ proposals'[k].letters = proposals[k].letters /\ proposals'[k].lost = proposals[k].lost
                                  /\ proposals'[k].clicks = proposals[k].clicks + 1
              /\ Retry(k, j) => /\ Rewrites(k) /\ proposals'[k].status = proposals[k].status
                                /\ proposals'[k].letters = proposals[k].letters /\ proposals'[k].lost = proposals[k].lost
                                /\ proposals'[k].clicks = proposals[k].clicks + 1
         /\ \A s \in Statuses : proposals' = [proposals EXCEPT ![k].status = s] =>
              Rewrites(k) /\ Alike(k) /\ proposals'[k].status = s
         /\ proposals' = [proposals EXCEPT ![k].letters = @ + 1] =>
              /\ Rewrites(k) /\ proposals'[k].status = proposals[k].status
              /\ proposals'[k].letters = proposals[k].letters + 1
              /\ proposals'[k].clicks = proposals[k].clicks /\ proposals'[k].lost = proposals[k].lost
         /\ proposals' = [proposals EXCEPT ![k].lost = TRUE] =>
              /\ Rewrites(k) /\ proposals'[k].status = proposals[k].status /\ proposals'[k].lost
              /\ proposals'[k].letters = proposals[k].letters /\ proposals'[k].clicks = proposals[k].clicks
<1> DEFINE p == proposals[k]
           q == proposals'[k]
<1>1. p \in Proposals
  BY ProposalTypes
<1>2. ASSUME q = [p EXCEPT !.quiet = FALSE]
      PROVE  q.status = p.status /\ q.letters = p.letters /\ q.clicks = p.clicks /\ q.lost = p.lost
  BY <1>1, <1>2 DEF Proposals
<1>3. ASSUME q = [p EXCEPT !.status = "rejected", !.quiet = TRUE]
      PROVE  q.status = "rejected" /\ q.letters = p.letters /\ q.clicks = p.clicks /\ q.lost = p.lost
  BY <1>1, <1>3 DEF Proposals
<1>4. ASSUME q = [p EXCEPT !.status = "approved", !.clicks = @ + 1]
      PROVE  q.status = "approved" /\ q.letters = p.letters /\ q.clicks = p.clicks + 1 /\ q.lost = p.lost
  BY <1>1, <1>4 DEF Proposals
<1>5. ASSUME q = [p EXCEPT !.clicks = @ + 1]
      PROVE  q.status = p.status /\ q.letters = p.letters /\ q.clicks = p.clicks + 1 /\ q.lost = p.lost
  BY <1>1, <1>5 DEF Proposals
<1>6. ASSUME NEW s \in Statuses, q = [p EXCEPT !.status = s]
      PROVE  q.status = s /\ q.letters = p.letters /\ q.clicks = p.clicks /\ q.lost = p.lost
  BY <1>1, <1>6 DEF Proposals
<1>7. ASSUME q = [p EXCEPT !.letters = @ + 1]
      PROVE  q.status = p.status /\ q.letters = p.letters + 1 /\ q.clicks = p.clicks /\ q.lost = p.lost
  BY <1>1, <1>7 DEF Proposals
<1>8. ASSUME q = [p EXCEPT !.lost = TRUE]
      PROVE  q.status = p.status /\ q.letters = p.letters /\ q.clicks = p.clicks /\ q.lost
  BY <1>1, <1>8 DEF Proposals
<1> HIDE DEF p, q
<1>9. /\ QuietEnds(k) => Rewrites(k) /\ q = [p EXCEPT !.quiet = FALSE]
      /\ Reject(k) => Rewrites(k) /\ q = [p EXCEPT !.status = "rejected", !.quiet = TRUE]
      /\ \A j \in Jobs : /\ Approve(k, j) => Rewrites(k) /\ q = [p EXCEPT !.status = "approved", !.clicks = @ + 1]
                         /\ Retry(k, j) => Rewrites(k) /\ q = [p EXCEPT !.clicks = @ + 1]
      /\ \A s \in Statuses :
           proposals' = [proposals EXCEPT ![k].status = s] => Rewrites(k) /\ q = [p EXCEPT !.status = s]
      /\ proposals' = [proposals EXCEPT ![k].letters = @ + 1] => Rewrites(k) /\ q = [p EXCEPT !.letters = @ + 1]
      /\ proposals' = [proposals EXCEPT ![k].lost = TRUE] => Rewrites(k) /\ q = [p EXCEPT !.lost = TRUE]
  BY Rewritings DEF p, q
<1>10. Alike(k) <=> q.letters = p.letters /\ q.clicks = p.clicks /\ q.lost = p.lost
  BY DEF Alike, p, q
<1>11. QED
  <2>1. /\ QuietEnds(k) => Rewrites(k) /\ Alike(k) /\ q.status = p.status
        /\ Reject(k) => Rewrites(k) /\ Alike(k) /\ q.status = "rejected"
    BY <1>2, <1>3, <1>9, <1>10
  <2>2. \A j \in Jobs :
          /\ Approve(k, j) => /\ Rewrites(k) /\ q.status = "approved" /\ q.letters = p.letters /\ q.lost = p.lost
                              /\ q.clicks = p.clicks + 1
          /\ Retry(k, j) => /\ Rewrites(k) /\ q.status = p.status /\ q.letters = p.letters /\ q.lost = p.lost
                            /\ q.clicks = p.clicks + 1
    BY <1>4, <1>5, <1>9
  <2>3. \A s \in Statuses : proposals' = [proposals EXCEPT ![k].status = s] =>
                               Rewrites(k) /\ Alike(k) /\ q.status = s
    BY <1>6, <1>9, <1>10
  <2>4. /\ proposals' = [proposals EXCEPT ![k].letters = @ + 1] =>
             Rewrites(k) /\ q.status = p.status /\ q.letters = p.letters + 1 /\ q.clicks = p.clicks /\ q.lost = p.lost
        /\ proposals' = [proposals EXCEPT ![k].lost = TRUE] =>
             Rewrites(k) /\ q.status = p.status /\ q.lost /\ q.letters = p.letters /\ q.clicks = p.clicks
    BY <1>7, <1>8, <1>9
  <2>5. QED
    BY <2>1, <2>2, <2>3, <2>4 DEF p, q

-----------------------------------------------------------------------------
(* Jobs *)

LEMMA JobsStay ==
  ASSUME TypeOK, JobInv, Kept
  PROVE  \A j \in Jobs : JobOK(jobs[j], proposals')
<1>1. ASSUME NEW j \in Jobs PROVE JobOK(jobs[j], proposals')
  <2>1. jobs[j] \in JobRecords /\ JobOK(jobs[j], proposals)
    BY DEF JobInv
  <2>2. Len(proposals') \in Nat /\ Len(proposals) \in Nat /\ Len(proposals') >= Len(proposals)
    BY ProposalTypes DEF Kept
  <2>3. \A k \in 1..Len(proposals) : k \in 1..Len(proposals') /\ proposals[k].letters \in Nat
                                     /\ proposals'[k].letters \in Nat /\ proposals'[k].letters >= proposals[k].letters
    <3>1. \A k \in 1..Len(proposals') : proposals'[k] \in Proposals
      BY DEF Kept
    <3>2. \A p \in Proposals : p.letters \in Nat
      BY DEF Proposals
    <3>3. QED
      BY <2>2, <3>1, <3>2, ProposalTypes DEF Kept, Ids
  <2>4. jobs[j].proposal \in Nat
    BY <2>1 DEF JobRecords
  <2>5. jobs[j].proposal # 0 => jobs[j].proposal \in 1..Len(proposals)
    BY <2>1 DEF JobOK
  <2>6. QED
    BY <2>1, <2>2, <2>3, <2>4, <2>5 DEF JobOK
<1>2. QED
  BY <1>1

LEMMA JobsUnchanged ==
  ASSUME TypeOK, JobInv, Kept, UNCHANGED jobs
  PROVE  JobInv'
BY JobsStay DEF JobInv

LEMMA OneJob ==
  ASSUME TypeOK, JobInv, Kept, NEW j \in Jobs, NEW new \in JobRecords,
         jobs' = [jobs EXCEPT ![j] = new], JobOK(new, proposals')
  PROVE  JobInv'
<1>1. jobs \in [Jobs -> JobRecords]
  BY DEF JobInv
<1>2. jobs' \in [Jobs -> JobRecords] /\ jobs'[j] = new /\ \A i \in Jobs : i # j => jobs'[i] = jobs[i]
  BY <1>1
<1>3. QED
  BY <1>2, JobsStay DEF JobInv

LEMMA JobTypes ==
  ASSUME JobInv, NEW j \in Jobs
  PROVE  /\ jobs[j] \in JobRecords /\ JobOK(jobs[j], proposals) /\ Idle \in JobRecords
         /\ jobs[j].also \in SUBSET Enquiries /\ jobs[j].left \in SUBSET Waits /\ jobs[j].proposal \in Nat
         /\ \A ps : JobOK(Idle, ps)
         /\ jobs[j].proposal # 0 => jobs[j].proposal \in Ids
BY DEF JobInv, JobOK, JobRecords, Idle, Ids

(* A step of a job that leaves its proposal alone. *)
LEMMA QuietJobSteps ==
  ASSUME IInv, NEW j \in Jobs, UNCHANGED proposals,
         \/ \E w \in Waits : TimerBegin(j, w) \/ ChaseNow(w, j)
         \/ TimerNext(j) \/ Send(j) \/ Record(j) \/ Report(j) \/ ReportLost(j) \/ Closing(j)
  PROVE  JobInv'
<1> DEFINE job == jobs[j]
<1>1. /\ TypeOK /\ JobInv /\ Kept /\ proposals' = proposals
      /\ job \in JobRecords /\ JobOK(job, proposals) /\ Idle \in JobRecords /\ \A ps : JobOK(Idle, ps)
  BY UnchangedKept, JobTypes DEF IInv
<1>2. open \subseteq Waits /\ due \subseteq open /\ Enquiries \subseteq Waits
      /\ \A w \in Waits : Also(w, open) \in SUBSET Enquiries
  BY <1>1, WaitsAssumption DEF TypeOK, Also
<1>3. SUFFICES \E new \in JobRecords : jobs' = [jobs EXCEPT ![j] = new] /\ JobOK(new, proposals)
  BY <1>1, OneJob
<1>4. CASE \E w \in Waits : TimerBegin(j, w)
  <2>1. PICK w \in Waits : TimerBegin(j, w)
    BY <1>4
  <2> DEFINE new == [Idle EXCEPT !.pc = "choosing", !.by = "timer", !.wait = w, !.also = Also(w, open)]
  <2>2. new \in JobRecords /\ JobOK(new, proposals)
    BY <1>2 DEF JobRecords, JobOK, Idle
  <2>3. QED
    BY <2>1, <2>2 DEF TimerBegin
<1>5. CASE \E w \in Waits : ChaseNow(w, j)
  <2>1. PICK w \in Waits : ChaseNow(w, j)
    BY <1>5
  <2> DEFINE new == Performing("person", w, Also(w, open), 0)
  <2>2. new \in JobRecords /\ JobOK(new, proposals)
    BY <1>2 DEF JobRecords, JobOK, Idle, Performing
  <2>3. QED
    BY <2>1, <2>2 DEF ChaseNow
<1>6. CASE TimerNext(j)
  <2>1. /\ [job EXCEPT !.pc = "performing"] \in JobRecords /\ JobOK([job EXCEPT !.pc = "performing"], proposals)
        /\ [job EXCEPT !.pc = "proposing"] \in JobRecords /\ JobOK([job EXCEPT !.pc = "proposing"], proposals)
    BY <1>1, <1>6 DEF TimerNext, JobRecords, JobOK
  <2>2. \/ jobs' = [jobs EXCEPT ![j] = [job EXCEPT !.pc = "performing"]]
        \/ jobs' = [jobs EXCEPT ![j] = [job EXCEPT !.pc = "proposing"]]
        \/ jobs' = [jobs EXCEPT ![j] = Idle]
    BY <1>1, <1>6 DEF TimerNext, JobInv
  <2>3. QED
    BY <1>1, <2>1, <2>2
<1>7. ASSUME job.pc \in {"performing", "recording"}
      PROVE  AfterFailure(job) \in JobRecords /\ JobOK(AfterFailure(job), proposals)
  BY <1>1, <1>7 DEF AfterFailure, Idle, JobRecords, JobOK
<1>8. CASE Send(j)
  <2>1. CASE jobs' = [jobs EXCEPT ![j] = AfterFailure(job)]
    BY <1>7, <1>8, <2>1 DEF Send
  <2> DEFINE new == [job EXCEPT !.pc = "recording", !.left = {job.wait} \cup (job.also \cap open)]
  <2>2. CASE job.proposal = 0 /\ jobs' = [jobs EXCEPT ![j] = new]
    <3>1. job.wait \in Waits /\ job.also \subseteq Enquiries /\ job.pc = "performing"
      BY <1>1, <1>8 DEF Send, JobOK, JobRecords
    <3>2. {job.wait} \cup (job.also \cap open) \in SUBSET Waits /\ {job.wait} \cup (job.also \cap open) # {}
      BY <1>2, <3>1
    <3>3. new \in JobRecords
      BY <1>1, <3>2 DEF JobRecords
    <3>4. JobOK(new, proposals)
      BY <1>1, <2>2, <3>1, <3>2 DEF JobRecords, JobOK
    <3>5. QED
      BY <2>2, <3>3, <3>4
  <2>3. CASE job.proposal # 0 /\ proposals' = [proposals EXCEPT ![job.proposal].letters = @ + 1]
    <3>1. job.proposal \in Ids /\ proposals[job.proposal].letters \in Nat /\ proposals[job.proposal] \in Proposals
      BY <1>1, <2>3, JobTypes, ProposalTypes
    <3>2. proposals'[job.proposal] = [proposals[job.proposal] EXCEPT !.letters = @ + 1]
      BY <1>1, <2>3, <3>1, Rewritings
    <3>3. proposals'[job.proposal].letters = proposals[job.proposal].letters + 1
      BY <3>1, <3>2 DEF Proposals
    <3>4. QED
      BY <1>1, <3>1, <3>3
  <2>4. QED
    BY <1>8, <2>1, <2>2, <2>3 DEF Send
<1>9. CASE Record(j)
  <2>1. CASE jobs' = [jobs EXCEPT ![j] = AfterFailure(job)]
    BY <1>7, <1>9, <2>1 DEF Record, Recording
  <2>2. CASE \E w \in job.left : jobs' = [jobs EXCEPT ![j] = Chased(job, w)]
    <3>1. PICK w \in job.left : jobs' = [jobs EXCEPT ![j] = Chased(job, w)]
      BY <2>2
    <3> DEFINE rest == [job EXCEPT !.left = job.left \ {w}]
    <3>2. job.pc = "recording"
      BY <1>9 DEF Record, Recording
    <3>3. rest \in JobRecords /\ rest.left = job.left \ {w}
      BY <1>1 DEF JobRecords
    <3>4. rest.left # {} => JobOK(rest, proposals)
      BY <1>1, <3>2 DEF JobRecords, JobOK
    <3>5. job.by = "retry" => [rest EXCEPT !.pc = "retried"] \in JobRecords /\ JobOK([rest EXCEPT !.pc = "retried"], proposals)
      BY <1>1, <3>2 DEF JobRecords, JobOK
    <3>6. rest.by = job.by
      BY <1>1 DEF JobRecords
    <3>7. Chased(job, w) = IF rest.left = {} THEN IF rest.by = "retry" THEN [rest EXCEPT !.pc = "retried"] ELSE Idle ELSE rest
      BY DEF Chased, AfterSent
    <3> HIDE DEF rest
    <3>8. Chased(job, w) \in JobRecords /\ JobOK(Chased(job, w), proposals)
      BY <1>1, <3>3, <3>4, <3>5, <3>6, <3>7
    <3>9. QED
      BY <3>1, <3>8
  <2>3. QED
    BY <1>9, <2>1, <2>2 DEF Record
<1>10. CASE Report(j) \/ ReportLost(j) \/ Closing(j)
  BY <1>1, <1>10 DEF Report, ReportLost, Closing
<1>11. QED
  BY <1>4, <1>5, <1>6, <1>8, <1>9, <1>10

(* A step of a job that changes its proposal. *)
LEMMA JobStepsOnProposal ==
  ASSUME IInv, NEW j \in Jobs,
         \/ Send(j) /\ jobs[j].proposal # 0 /\ proposals' = [proposals EXCEPT ![jobs[j].proposal].letters = @ + 1]
            /\ jobs' = [jobs EXCEPT ![j] = [jobs[j] EXCEPT !.pc = "recording",
                                              !.left = {jobs[j].wait} \cup (jobs[j].also \cap open)]]
         \/ Fail(j) \/ FailLost(j) \/ Retried(j) \/ Crash(j)
         \/ \E k \in Ids : Approve(k, j) \/ Retry(k, j)
  PROVE  JobInv' /\ Kept
<1> DEFINE job == jobs[j]
           k == job.proposal
<1>1. /\ TypeOK /\ JobInv
      /\ job \in JobRecords /\ JobOK(job, proposals) /\ Idle \in JobRecords /\ \A ps : JobOK(Idle, ps)
      /\ k # 0 => k \in Ids
  BY JobTypes DEF IInv
<1>2. Kept => JobOK(job, proposals')
  BY <1>1, JobsStay
<1>3. CASE Send(j) /\ k # 0 /\ proposals' = [proposals EXCEPT ![k].letters = @ + 1]
            /\ jobs' = [jobs EXCEPT ![j] = [job EXCEPT !.pc = "recording", !.left = {job.wait} \cup (job.also \cap open)]]
  <2> DEFINE new == [job EXCEPT !.pc = "recording", !.left = {job.wait} \cup (job.also \cap open)]
  <2>1. k \in Ids /\ Kept /\ proposals'[k] = [proposals[k] EXCEPT !.letters = @ + 1]
    BY <1>1, <1>3, Rewritings
  <2>2. proposals'[k].letters > 0
    <3>1. proposals[k] \in Proposals /\ proposals[k].letters \in Nat
      BY <1>1, <2>1, ProposalTypes
    <3>2. proposals'[k].letters = proposals[k].letters + 1
      BY <2>1, <3>1 DEF Proposals
    <3>3. QED
      BY <3>1, <3>2
  <2>3. job.wait \in Waits /\ job.also \subseteq Enquiries /\ job.pc = "performing" /\ Enquiries \subseteq Waits
    BY <1>1, <1>3, WaitsAssumption DEF Send, JobOK, JobRecords
  <2>4. {job.wait} \cup (job.also \cap open) \in SUBSET Waits /\ {job.wait} \cup (job.also \cap open) # {}
    BY <2>3
  <2>5. new \in JobRecords
    BY <1>1, <2>4 DEF JobRecords
  <2>6. JobOK(new, proposals')
    BY <1>1, <1>2, <2>1, <2>2, <2>3, <2>4 DEF JobRecords, JobOK
  <2>7. QED
    BY <1>1, <1>3, <2>1, <2>5, <2>6, OneJob
<1>4. CASE Fail(j) \/ FailLost(j)
  <2>1. k \in Ids /\ Kept
    <3>1. k \in Ids
      BY <1>1, <1>4 DEF Fail, FailLost, JobOK, Ids
    <3>2. "failed" \in Statuses
      BY DEF Statuses
    <3>3. QED
      BY <1>1, <1>4, <3>1, <3>2, Rewritings DEF Fail, FailLost
  <2>2. [job EXCEPT !.pc = "reporting"] \in JobRecords /\ JobOK([job EXCEPT !.pc = "reporting"], proposals')
    BY <1>1, <1>2, <2>1 DEF JobRecords, JobOK
  <2>3. jobs' = [jobs EXCEPT ![j] = [job EXCEPT !.pc = "reporting"]]
    BY <1>1, <1>4 DEF Fail, FailLost, JobInv
  <2>4. QED
    BY <1>1, <2>1, <2>2, <2>3, OneJob
<1>5. CASE Retried(j)
  <2>1. k \in Ids /\ job.pc = "retried"
    BY <1>1, <1>5 DEF Retried, JobOK, Ids
  <2>2. Kept
    <3>1. "approved" \in Statuses
      BY DEF Statuses
    <3>2. QED
      BY <1>1, <1>5, <2>1, <3>1, Rewritings, UnchangedKept DEF Retried
  <2>3. [job EXCEPT !.pc = "closing"] \in JobRecords /\ JobOK([job EXCEPT !.pc = "closing"], proposals')
    BY <1>1, <1>2, <2>1, <2>2 DEF JobRecords, JobOK
  <2>4. jobs' = [jobs EXCEPT ![j] = [job EXCEPT !.pc = "closing"]] \/ jobs' = [jobs EXCEPT ![j] = Idle]
    BY <1>1, <1>5 DEF Retried, JobInv
  <2>5. QED
    BY <1>1, <2>2, <2>3, <2>4, OneJob
<1>6. CASE Crash(j)
  <2>1. Kept
    BY <1>1, <1>6, Rewritings, UnchangedKept DEF Crash
  <2>2. QED
    BY <1>1, <1>6, <2>1, OneJob DEF Crash
<1>7. CASE \E i \in Ids : Approve(i, j) \/ Retry(i, j)
  <2>1. PICK i \in Ids : Approve(i, j) \/ Retry(i, j)
    BY <1>7
  <2>2. PICK by \in {"approval", "retry"} :
          jobs' = [jobs EXCEPT ![j] = Performing(by, proposals[i].wait, proposals[i].also, i)]
    BY <2>1 DEF Approve, Retry
  <2>3. Kept /\ Ids' = Ids
    BY <1>1, <2>1, Rewritings
  <2>4. proposals[i].wait \in Waits /\ proposals[i].also \in SUBSET Enquiries /\ i \in Nat /\ i # 0
    BY <1>1, <2>1, ProposalTypes DEF Proposals, Ids
  <2> DEFINE new == Performing(by, proposals[i].wait, proposals[i].also, i)
  <2>5. /\ new.by = by /\ new.proposal = i /\ new.pc = "performing" /\ new.wait = proposals[i].wait
        /\ new \in JobRecords
    BY <2>2, <2>4 DEF Performing, Idle, JobRecords
  <2>6. i \in 1..Len(proposals')
    BY <2>1, <2>3 DEF Ids
  <2>7. JobOK(new, proposals')
    <3> HIDE DEF new
    <3>1. QED
      BY <2>2, <2>4, <2>5, <2>6 DEF JobOK
  <2>8. QED
    BY <1>1, <2>2, <2>3, <2>5, <2>7, OneJob
<1>8. QED
  BY <1>3, <1>4, <1>5, <1>6, <1>7

(* Every step keeps the proposals and leaves the jobs in order. *)
LEMMA JobInvStep == IInv /\ [Next]_vars => JobInv' /\ Kept
<1> SUFFICES ASSUME IInv, [Next]_vars PROVE JobInv' /\ Kept
  OBVIOUS
<1>1. TypeOK /\ JobInv
  BY DEF IInv
<1>2. CASE \E w \in Waits : OpenWait(w) \/ Arrive(w)
  <2>1. open' \in SUBSET Waits /\ proposals' = Withdrawn(proposals, open') /\ UNCHANGED jobs
    BY <1>1, <1>2 DEF OpenWait, Arrive, TypeOK
  <2>2. QED
    BY <1>1, <2>1, WithdrawalsKept, JobsUnchanged
<1>3. CASE (\E w \in Waits : FallDue(w)) \/ ResolveTask \/ Complete \/ UNCHANGED vars
  BY <1>1, <1>3, UnchangedKept, JobsUnchanged DEF FallDue, ResolveTask, Complete, vars
<1>4. CASE \E k \in Ids : QuietEnds(k) \/ Reject(k)
  <2>1. Kept
    BY <1>1, <1>4, Rewritings
  <2>2. UNCHANGED jobs
    BY <1>4 DEF QuietEnds, Reject
  <2>3. QED
    BY <1>1, <2>1, <2>2, JobsUnchanged
<1>5. CASE \E j \in Jobs : Propose(j)
  <2>1. PICK j \in Jobs : Propose(j)
    BY <1>5
  <2>2. Kept /\ jobs' = [jobs EXCEPT ![j] = Idle]
    BY <2>1, Proposed DEF Propose
  <2>3. QED
    BY <1>1, <2>2, JobTypes, OneJob
<1>6. CASE \E j \in Jobs : Send(j)
  <2>1. PICK j \in Jobs : Send(j)
    BY <1>6
  <2>2. CASE UNCHANGED proposals
    BY <1>1, <2>1, <2>2, QuietJobSteps, UnchangedKept DEF Send
  <2>3. CASE proposals' # proposals
    <3>1. jobs[j].proposal # 0 /\ proposals' = [proposals EXCEPT ![jobs[j].proposal].letters = @ + 1]
          /\ jobs' = [jobs EXCEPT ![j] = [jobs[j] EXCEPT !.pc = "recording",
                                              !.left = {jobs[j].wait} \cup (jobs[j].also \cap open)]]
      BY <2>1, <2>3 DEF Send
    <3>2. QED
      BY <2>1, <3>1, JobStepsOnProposal
  <2>4. QED
    BY <2>2, <2>3
<1>7. CASE \E j \in Jobs : TimerNext(j) \/ Record(j) \/ Report(j) \/ ReportLost(j) \/ Closing(j)
  <2>1. PICK j \in Jobs : TimerNext(j) \/ Record(j) \/ Report(j) \/ ReportLost(j) \/ Closing(j)
    BY <1>7
  <2>2. UNCHANGED proposals
    BY <2>1 DEF TimerNext, Record, Report, ReportLost, Closing, case
  <2>3. QED
    BY <1>1, <2>1, <2>2, QuietJobSteps, UnchangedKept
<1>8. CASE \E j \in Jobs, w \in Waits : TimerBegin(j, w) \/ ChaseNow(w, j)
  <2>1. PICK j \in Jobs, w \in Waits : TimerBegin(j, w) \/ ChaseNow(w, j)
    BY <1>8
  <2>2. UNCHANGED proposals
    BY <2>1 DEF TimerBegin, ChaseNow, case
  <2>3. QED
    BY <1>1, <2>1, <2>2, QuietJobSteps, UnchangedKept
<1>9. CASE \E j \in Jobs : Fail(j) \/ FailLost(j) \/ Retried(j) \/ Crash(j) \/ \E k \in Ids : Approve(k, j) \/ Retry(k, j)
  BY <1>9, JobStepsOnProposal
<1>10. QED
  BY <1>2, <1>3, <1>4, <1>5, <1>6, <1>7, <1>8, <1>9 DEF Next, JobStep

-----------------------------------------------------------------------------
(* The invariant *)

LEMMA TypeStep == IInv /\ [Next]_vars => TypeOK'
<1> SUFFICES ASSUME IInv, [Next]_vars PROVE TypeOK'
  OBVIOUS
<1>1. TypeOK /\ JobInv /\ JobInv' /\ Kept
  BY JobInvStep DEF IInv
<1>2. proposals' \in Seq(Proposals) /\ Len(proposals') <= MaxProposals /\ Ids \subseteq Ids'
  BY <1>1 DEF Kept
<1>3. \A j \in Jobs : /\ jobs'[j].proposal \in Ids' \cup {0}
                      /\ jobs'[j].also \subseteq Enquiries /\ jobs'[j].wait \in Waits \cup {NoWait}
                      /\ jobs'[j].pc = "recording" => jobs'[j].left # {}
  <2>1. ASSUME NEW j \in Jobs
        PROVE  /\ jobs'[j].proposal \in Ids' \cup {0}
               /\ jobs'[j].also \subseteq Enquiries /\ jobs'[j].wait \in Waits \cup {NoWait}
               /\ jobs'[j].pc = "recording" => jobs'[j].left # {}
    <3>1. jobs'[j] \in JobRecords /\ JobOK(jobs'[j], proposals')
      BY <1>1 DEF JobInv
    <3>2. QED
      BY <3>1 DEF JobRecords, JobOK, Ids
  <2>2. QED
    BY <2>1
<1>4. open' \subseteq Waits /\ due' \subseteq open'
  <2>1. open \subseteq Waits /\ due \subseteq open
    BY <1>1 DEF TypeOK
  <2>2. CASE \E w \in Waits : OpenWait(w) \/ Arrive(w) \/ FallDue(w)
    BY <2>1, <2>2 DEF OpenWait, Arrive, FallDue
  <2>3. CASE \E j \in Jobs : Record(j)
    BY <2>1, <2>3 DEF Record
  <2>4. CASE UNCHANGED <<open, due>>
    BY <2>1, <2>4
  <2>5. QED
    BY <2>2, <2>3, <2>4 DEF Next, JobStep, vars, case, QuietEnds, Reject, ResolveTask, TimerBegin, TimerNext, Propose,
                            Send, Fail, FailLost, Report, ReportLost, Retried, Closing, Approve, Retry, ChaseNow,
                            Complete, Crash
<1>5. task' \in Ids' \cup {0, NoTask}
  <2>1. task \in Ids \cup {0, NoTask} /\ \A j \in Jobs : jobs[j].proposal \in Ids \cup {0}
    BY <1>1 DEF TypeOK
  <2>2. task' \in {task, NoTask} \/ \E j \in Jobs : task' = jobs[j].proposal
    <3>1. CASE \E j \in Jobs : Report(j) \/ Closing(j)
      BY <3>1 DEF Report, Closing
    <3>2. CASE ResolveTask
      BY <3>2 DEF ResolveTask
    <3>3. CASE UNCHANGED task
      BY <3>3
    <3>4. QED
      BY <3>1, <3>2, <3>3 DEF Next, JobStep, vars, case, QuietEnds, Reject, TimerBegin, TimerNext, Propose, Record,
           Send, Fail, FailLost, ReportLost, Retried, Approve, Retry, ChaseNow, Crash, Complete, OpenWait, Arrive,
           FallDue
  <2>3. QED
    BY <1>2, <2>1, <2>2
<1>6. crashes' \in 0..MaxCrashes
  <2>1. crashes \in 0..MaxCrashes
    BY <1>1 DEF TypeOK
  <2>2. crashes' = crashes \/ (crashes' = crashes + 1 /\ crashes < MaxCrashes)
    <3>1. CASE \E j \in Jobs : FailLost(j) \/ ReportLost(j) \/ Crash(j)
      BY <3>1 DEF FailLost, ReportLost, Swallowed, Crash
    <3>2. CASE UNCHANGED crashes
      BY <3>2
    <3>3. QED
      BY <3>1, <3>2 DEF Next, JobStep, vars, case, QuietEnds, Reject, ResolveTask, TimerBegin, TimerNext, Propose, Record,
           Send, Fail, Report, Retried, Closing, Approve, Retry, ChaseNow, Complete, OpenWait, Arrive, FallDue
  <2>3. QED
    BY <2>1, <2>2, BoundsAssumption
<1>7. completed' \in BOOLEAN
  <2>1. completed \in BOOLEAN
    BY <1>1 DEF TypeOK
  <2>2. CASE Complete
    BY <2>2 DEF Complete
  <2>3. CASE UNCHANGED completed
    BY <2>1, <2>3
  <2>4. QED
    BY <2>2, <2>3 DEF Next, JobStep, vars, case, QuietEnds, Reject, ResolveTask, TimerBegin, TimerNext, Propose, Record,
         Send, Fail, FailLost, Report, ReportLost, Retried, Closing, Approve, Retry, ChaseNow, Crash, OpenWait, Arrive,
         FallDue
<1>8. QED
  BY <1>2, <1>3, <1>4, <1>5, <1>6, <1>7 DEF TypeOK

(* What a step can do to a status, and that a loss stays. *)
StatusStep(k) ==
  /\ proposals'[k].status = "pending" => proposals[k].status = "pending"
  /\ \/ proposals'[k].status = proposals[k].status
     \/ proposals'[k].status \in {"rejected", "failed"}
     \/ \E j \in Jobs : Approve(k, j) \/ (Retried(j) /\ jobs[j].proposal = k)
  /\ proposals[k].status = "approved" =>
       proposals'[k].status = "approved" \/ \E j \in Jobs : Fail(j) /\ jobs[j].proposal = k
  /\ proposals[k].lost => proposals'[k].lost

LEMMA StatusSteps ==
  ASSUME IInv, [Next]_vars, NEW k \in Ids
  PROVE  StatusStep(k)
<1>1. TypeOK /\ JobInv /\ proposals[k] \in Proposals
  BY ProposalTypes DEF IInv
<1>2. CASE UNCHANGED proposals
  BY <1>2 DEF StatusStep
<1>3. ASSUME NEW i \in Ids, Rewrites(i), i # k PROVE StatusStep(k)
  BY <1>3 DEF Rewrites, StatusStep
<1>4. CASE \E w \in Waits : OpenWait(w) \/ Arrive(w)
  <2>1. open' \in SUBSET Waits /\ proposals' = Withdrawn(proposals, open')
    BY <1>1, <1>4 DEF OpenWait, Arrive, TypeOK
  <2>2. \/ proposals'[k].status = proposals[k].status
        \/ proposals[k].status = "pending" /\ proposals'[k].status = "rejected"
    BY <1>1, <2>1, ProposalTypes DEF Withdrawn, Proposals, Ids
  <2>3. proposals'[k].lost = proposals[k].lost
    BY <1>1, <2>1, WithdrawalsKept
  <2>4. QED
    BY <2>2, <2>3 DEF StatusStep
<1>5. CASE \E j \in Jobs : Propose(j)
  <2>1. PICK j \in Jobs : Propose(j)
    BY <1>5
  <2>2. CASE proposals' = Withdrawn(Append(proposals, NewProposal(jobs[j])), open)
    <3>1. jobs[j] \in JobRecords /\ jobs[j].wait \in Waits /\ proposals \in Seq(Proposals) /\ k \in 1..Len(proposals)
      BY <1>1, <2>1, ProposalTypes DEF JobInv, JobOK, Propose, Ids
    <3> DEFINE ps == Append(proposals, NewProposal(jobs[j]))
    <3>2. Len(ps) = Len(proposals) + 1 /\ ps[k] = proposals[k] /\ k \in 1..Len(ps)
      BY <3>1, NewProposalType, AppendProperties
    <3> HIDE DEF ps
    <3>3. proposals' = Withdrawn(ps, open)
      BY <2>2 DEF ps
    <3>4. /\ \/ proposals'[k].status = proposals[k].status
             \/ proposals[k].status = "pending" /\ proposals'[k].status = "rejected"
          /\ proposals'[k].lost = proposals[k].lost
      BY <1>1, <3>2, <3>3 DEF Withdrawn, Proposals
    <3>5. QED
      BY <3>4 DEF StatusStep
  <2>3. QED
    BY <1>2, <2>1, <2>2 DEF Propose
<1>6. CASE \E i \in Ids : QuietEnds(i) \/ Reject(i)
  <2>1. PICK i \in Ids : QuietEnds(i) \/ Reject(i)
    BY <1>6
  <2>2. /\ Rewrites(i) /\ Alike(i)
        /\ \/ proposals'[i].status = proposals[i].status
           \/ proposals[i].status = "pending" /\ proposals'[i].status = "rejected"
    BY <1>1, <2>1, Effects DEF Reject
  <2>3. QED
    BY <1>3, <2>2 DEF Alike, StatusStep
<1>7. CASE \E j \in Jobs, i \in Ids : Approve(i, j) \/ Retry(i, j)
  <2>1. PICK j \in Jobs, i \in Ids : Approve(i, j) \/ Retry(i, j)
    BY <1>7
  <2>2. /\ Rewrites(i) /\ proposals'[i].lost = proposals[i].lost
        /\ Approve(i, j) => proposals'[i].status = "approved"
        /\ Retry(i, j) => proposals'[i].status = proposals[i].status
    BY <1>1, <2>1, Effects
  <2>3. QED
    BY <1>3, <2>1, <2>2 DEF StatusStep
<1>8. ASSUME NEW j \in Jobs, Send(j) \/ FailLost(j) \/ Crash(j) PROVE StatusStep(k)
  <2>1. /\ jobs[j].proposal # 0 => jobs[j].proposal \in Ids
        /\ FailLost(j) => jobs[j].proposal \in Ids
    BY <1>1, JobTypes DEF FailLost, JobOK, Ids
  <2>2. CASE proposals' # proposals
    <3>1. jobs[j].proposal \in Ids
          /\ \/ proposals' = [proposals EXCEPT ![jobs[j].proposal].letters = @ + 1]
             \/ proposals' = [proposals EXCEPT ![jobs[j].proposal].lost = TRUE]
      BY <1>8, <2>1, <2>2 DEF Send, FailLost, Crash
    <3> DEFINE i == jobs[j].proposal
    <3>2. /\ i \in Ids /\ Rewrites(i) /\ proposals'[i].status = proposals[i].status
          /\ proposals[i].lost => proposals'[i].lost
      BY <1>1, <3>1, Effects
    <3>3. QED
      BY <1>3, <3>2 DEF StatusStep
  <2>3. QED
    BY <1>2, <2>2
<1>9. ASSUME NEW j \in Jobs, Fail(j) \/ Retried(j) PROVE StatusStep(k)
  <2> DEFINE i == jobs[j].proposal
  <2>1. i \in Ids
    BY <1>1, <1>9 DEF Fail, Retried, JobInv, JobOK, Ids
  <2>2. CASE Fail(j)
    <3>1. "failed" \in Statuses /\ proposals' = [proposals EXCEPT ![i].status = "failed"]
      BY <2>2 DEF Fail, Statuses
    <3>2. Rewrites(i) /\ Alike(i) /\ proposals'[i].status = "failed"
      BY <1>1, <2>1, <3>1, Effects
    <3>3. QED
      BY <1>3, <2>1, <2>2, <3>2 DEF Alike, StatusStep
  <2>3. CASE Retried(j) /\ proposals' # proposals
    <3>1. "approved" \in Statuses /\ proposals' = [proposals EXCEPT ![i].status = "approved"]
      BY <2>3 DEF Retried, Statuses
    <3>2. Rewrites(i) /\ Alike(i) /\ proposals'[i].status = "approved"
      BY <1>1, <2>1, <3>1, Effects
    <3>3. QED
      BY <1>3, <2>1, <2>3, <3>2 DEF Alike, StatusStep
  <2>4. QED
    BY <1>2, <1>9, <2>2, <2>3
<1>10. QED
  <2>1. CASE \E w \in Waits : FallDue(w)
    BY <1>2, <2>1 DEF FallDue
  <2>2. CASE ResolveTask \/ Complete \/ UNCHANGED vars
    BY <1>2, <2>2 DEF ResolveTask, Complete, vars
  <2>3. CASE \E j \in Jobs : TimerNext(j) \/ Record(j) \/ Report(j) \/ ReportLost(j) \/ Closing(j)
    BY <1>2, <2>3 DEF TimerNext, Record, Report, ReportLost, Closing, case
  <2>4. CASE \E j \in Jobs, w \in Waits : TimerBegin(j, w) \/ ChaseNow(w, j)
    BY <1>2, <2>4 DEF TimerBegin, ChaseNow, case
  <2>5. QED
    BY <1>4, <1>5, <1>6, <1>7, <1>8, <1>9, <2>1, <2>2, <2>3, <2>4 DEF Next, JobStep

(* Only a job of the timer makes a proposal. *)
LEMMA NoNewOnes ==
  ASSUME IInv, [Next]_vars, ~\E j \in Jobs : Propose(j)
  PROVE  Ids' = Ids
<1>1. TypeOK /\ JobInv
  BY DEF IInv
<1>2. ASSUME NEW k \in Ids, Rewrites(k) PROVE Ids' = Ids
  BY <1>2 DEF Rewrites, Ids
<1>3. CASE UNCHANGED proposals
  BY <1>1, <1>3, UnchangedKept
<1>4. CASE \E w \in Waits : OpenWait(w) \/ Arrive(w)
  <2>1. open' \in SUBSET Waits /\ proposals' = Withdrawn(proposals, open')
    BY <1>1, <1>4 DEF OpenWait, Arrive, TypeOK
  <2>2. QED
    BY <1>1, <2>1, WithdrawalsKept
<1>5. CASE \E k \in Ids : QuietEnds(k) \/ Reject(k) \/ \E j \in Jobs : Approve(k, j) \/ Retry(k, j)
  BY <1>1, <1>2, <1>5, Effects
<1>6. ASSUME NEW j \in Jobs, Send(j) \/ Crash(j) \/ Fail(j) \/ FailLost(j) \/ Retried(j), proposals' # proposals PROVE Ids' = Ids
  <2> DEFINE i == jobs[j].proposal
  <2>1. i \in Ids
    BY <1>1, <1>6, JobTypes DEF Fail, FailLost, Retried, Send, Crash, JobInv, JobOK, Ids
  <2>2. "failed" \in Statuses /\ "approved" \in Statuses
    BY DEF Statuses
  <2>3. \/ proposals' = [proposals EXCEPT ![i].letters = @ + 1]
        \/ proposals' = [proposals EXCEPT ![i].lost = TRUE]
        \/ proposals' = [proposals EXCEPT ![i].status = "failed"]
        \/ proposals' = [proposals EXCEPT ![i].status = "approved"]
    BY <1>6 DEF Fail, FailLost, Retried, Send, Crash
  <2>4. Rewrites(i)
    BY <1>1, <2>1, <2>2, <2>3, Effects
  <2>5. QED
    BY <1>2, <2>1, <2>4
<1>7. QED
  <2>1. CASE \E w \in Waits : FallDue(w)
    BY <1>3, <2>1 DEF FallDue
  <2>2. CASE ResolveTask \/ Complete \/ UNCHANGED vars
    BY <1>3, <2>2 DEF ResolveTask, Complete, vars
  <2>3. CASE \E j \in Jobs : TimerNext(j) \/ Record(j) \/ Report(j) \/ ReportLost(j) \/ Closing(j)
    BY <1>3, <2>3 DEF TimerNext, Record, Report, ReportLost, Closing, case
  <2>4. CASE \E j \in Jobs, w \in Waits : TimerBegin(j, w) \/ ChaseNow(w, j)
    BY <1>3, <2>4 DEF TimerBegin, ChaseNow, case
  <2>5. QED
    BY <1>3, <1>4, <1>5, <1>6, <2>1, <2>2, <2>3, <2>4 DEF Next, JobStep

(* A wait closes only when what it waits for arrives, and that step withdraws what was pending about it. *)
LEMMA OpenSteps ==
  ASSUME IInv, [Next]_vars, NEW k \in Ids, proposals'[k].status = "pending"
  PROVE  proposals[k].wait \in open'
<1>1. TypeOK /\ proposals[k].status = "pending"
  BY StatusSteps DEF IInv, StatusStep
<1>2. proposals[k].wait \in open
  BY <1>1 DEF IInv, PendingInv, PendingIsOutstanding
<1>3. CASE \E w \in Waits : OpenWait(w) \/ Arrive(w)
  <2>1. open' \in SUBSET Waits /\ proposals' = Withdrawn(proposals, open')
    BY <1>1, <1>3 DEF OpenWait, Arrive, TypeOK
  <2>2. QED
    BY <1>1, <2>1, WithdrawalsKept
<1>4. CASE UNCHANGED open
  BY <1>2, <1>4
<1>5. QED
  BY <1>3, <1>4 DEF Next, JobStep, vars, case, FallDue, QuietEnds, Reject, ResolveTask, TimerBegin, TimerNext, Propose,
                    Send, Record, Fail, FailLost, Report, ReportLost, Retried, Closing, Approve, Retry, ChaseNow,
                    Complete, Crash

LEMMA PendingStep == IInv /\ [Next]_vars => PendingInv'
<1> SUFFICES ASSUME IInv, [Next]_vars PROVE PendingInv'
  OBVIOUS
<1>1. Kept /\ \A k \in Ids : proposals'[k].status = "pending" => proposals[k].status = "pending"
  BY JobInvStep, StatusSteps DEF StatusStep
<1>2. \A k \in Ids : proposals'[k].wait = proposals[k].wait
  BY <1>1 DEF Kept
<1>3. ASSUME NEW k \in Ids, NEW l \in Ids, proposals'[k].status = "pending", proposals'[l].status = "pending",
             DedupKey(proposals'[k].wait) = DedupKey(proposals'[l].wait)
      PROVE  k = l
  BY <1>1, <1>2, <1>3 DEF IInv, PendingInv, OnePendingPerKey
<1>4. \A k \in Ids : proposals'[k].status = "pending" => proposals'[k].wait \in open'
  BY <1>2, OpenSteps
<1>5. CASE Ids' = Ids
  BY <1>3, <1>4, <1>5 DEF PendingInv, OnePendingPerKey, PendingIsOutstanding, DedupKey
<1>6. CASE \E j \in Jobs : Propose(j)
  <2>1. PICK j \in Jobs : Propose(j)
    BY <1>6
  <2> DEFINE n == Len(proposals) + 1
             key == DedupKey(jobs[j].wait)
  <2>2. CASE UNCHANGED proposals
    BY <1>5, <2>2 DEF Ids
  <2>3. CASE /\ Ids' = Ids \cup {n} /\ proposals'[n].wait = jobs[j].wait /\ ~Pending(key)
             /\ \A k \in Ids' : proposals'[k].status = "pending" => proposals'[k].wait \in open
    <3> HIDE DEF n
    <3>1. \A k \in Ids : proposals'[k].status = "pending" => DedupKey(proposals'[k].wait) # key
      BY <1>1, <1>2, <2>3 DEF Pending
    <3>2. OnePendingPerKey'
      <4>1. ASSUME NEW k \in Ids', NEW l \in Ids', proposals'[k].status = "pending", proposals'[l].status = "pending",
                   DedupKey(proposals'[k].wait) = DedupKey(proposals'[l].wait)
            PROVE  k = l
        <5>1. CASE k \in Ids /\ l \in Ids
          BY <1>3, <4>1, <5>1
        <5>2. CASE k = n /\ l \in Ids
          BY <2>3, <3>1, <4>1, <5>2
        <5>3. CASE k \in Ids /\ l = n
          BY <2>3, <3>1, <4>1, <5>3
        <5>4. QED
          BY <2>3, <5>1, <5>2, <5>3
      <4>2. QED
        BY <4>1 DEF OnePendingPerKey, DedupKey
    <3>3. PendingIsOutstanding'
      BY <2>1, <2>3 DEF PendingIsOutstanding, Propose
    <3>4. QED
      BY <3>2, <3>3 DEF PendingInv
  <2>4. QED
    BY <2>1, <2>2, <2>3, Proposed
<1>7. QED
  BY <1>5, <1>6, NoNewOnes

(* The job that is to send an approved chase goes on to send it, to fail it or to be lost. *)
LEMMA ApprovingStays ==
  ASSUME IInv, [Next]_vars, NEW k \in Ids, NEW j \in Approving(k),
         proposals'[k].status = "approved", proposals'[k].letters = 0, ~proposals'[k].lost
  PROVE  j \in Approving(k)'
<1>1. /\ TypeOK /\ JobInv /\ j \in Jobs /\ jobs \in [Jobs -> JobRecords] /\ jobs[j] \in JobRecords
      /\ jobs[j].by = "approval" /\ jobs[j].proposal = k /\ jobs[j].pc \in {"performing", "failed"}
      /\ k # 0 /\ proposals[k].letters \in Nat
  BY ProposalTypes DEF IInv, JobInv, Approving, Ids
<1>2. CASE jobs'[j] = jobs[j]
  BY <1>1, <1>2 DEF Approving
<1>3. ASSUME NEW i \in Jobs, NEW new, jobs' = [jobs EXCEPT ![i] = new], i # j PROVE jobs'[j] = jobs[j]
  BY <1>1, <1>3
<1>4. CASE Send(j)
  <2>1. CASE proposals' = [proposals EXCEPT ![k].letters = @ + 1]
    <3>1. proposals'[k].letters = proposals[k].letters + 1
      BY <1>1, <2>1, Effects
    <3>2. QED
      BY <1>1, <3>1
  <2>2. CASE jobs' = [jobs EXCEPT ![j] = AfterFailure(jobs[j])]
    <3>1. jobs'[j] = [jobs[j] EXCEPT !.pc = "failed", !.left = {}]
      BY <1>1, <2>2 DEF AfterFailure
    <3>2. QED
      BY <1>1, <3>1 DEF Approving, JobRecords
  <2>3. QED
    BY <1>1, <1>4, <2>1, <2>2 DEF Send
<1>5. CASE Fail(j)
  <2>1. "failed" \in Statuses /\ proposals' = [proposals EXCEPT ![k].status = "failed"]
    BY <1>1, <1>5 DEF Fail, Statuses
  <2>2. QED
    BY <1>1, <2>1, Effects
<1>6. CASE FailLost(j) \/ Crash(j)
  BY <1>1, <1>6, Effects DEF FailLost, Crash
<1>7. jobs[j] # Idle
  BY <1>1 DEF Idle
<1>8. CASE TimerNext(j) \/ Propose(j) \/ Record(j) \/ Report(j) \/ ReportLost(j) \/ Retried(j) \/ Closing(j)
  BY <1>1, <1>8 DEF TimerNext, Propose, Record, Recording, Report, ReportLost, Retried, Closing
<1>9. ASSUME NEW i \in Jobs, i # j, JobStep(i) \/ FailLost(i) \/ ReportLost(i) \/ Crash(i) PROVE jobs'[j] = jobs[j]
  <2>1. jobs'[j] = jobs[j] \/ \E new : jobs' = [jobs EXCEPT ![i] = new]
    BY <1>9 DEF JobStep, TimerNext, Propose, Send, Record, Fail, FailLost, Report, ReportLost, Retried, Closing, Crash
  <2>2. QED
    BY <1>3, <1>9, <2>1
<1>10. ASSUME NEW i \in Jobs,
              \/ \E w \in Waits : TimerBegin(i, w) \/ ChaseNow(w, i)
              \/ \E l \in Ids : Approve(l, i) \/ Retry(l, i)
       PROVE  jobs'[j] = jobs[j]
  <2>1. i # j /\ \E new : jobs' = [jobs EXCEPT ![i] = new]
    BY <1>7, <1>10 DEF TimerBegin, ChaseNow, Approve, Retry
  <2>2. QED
    BY <1>3, <2>1
<1>11. CASE UNCHANGED jobs
  BY <1>2, <1>11
<1>12. QED
  <2>1. CASE \E i \in Jobs : JobStep(i) \/ FailLost(i) \/ ReportLost(i) \/ Crash(i)
    BY <1>2, <1>4, <1>5, <1>6, <1>8, <1>9, <2>1 DEF JobStep
  <2>2. CASE \/ \E i \in Jobs, w \in Waits : TimerBegin(i, w) \/ ChaseNow(w, i)
             \/ \E i \in Jobs, l \in Ids : Approve(l, i) \/ Retry(l, i)
    BY <1>2, <1>10, <2>2
  <2>3. QED
    BY <1>11, <2>1, <2>2 DEF Next, vars, OpenWait, Arrive, FallDue, QuietEnds, Reject, ResolveTask, Complete

LEMMA ApprovedStep == IInv /\ [Next]_vars => ApprovedInv'
<1> SUFFICES ASSUME IInv, [Next]_vars, NEW k \in Ids', proposals'[k].status = "approved",
                    proposals'[k].letters = 0, ~proposals'[k].lost
             PROVE  Approving(k)' # {}
  BY DEF ApprovedInv, Approving
<1>1. TypeOK /\ JobInv /\ Kept
  BY JobInvStep DEF IInv
<1>2. CASE k \notin Ids
  <2>1. PICK j \in Jobs : Propose(j)
    BY <1>2, NoNewOnes
  <2>2. QED
    BY <1>2, <2>1, Proposed DEF Ids
<1>3. CASE k \in Ids
  <2>1. StatusStep(k)
    BY <1>3, StatusSteps
  <2>2. proposals[k].letters = 0
    BY <1>1, <1>3, ProposalTypes DEF Kept
  <2>3. CASE proposals[k].status = "approved"
    <3>1. ~proposals[k].lost
      BY <2>1 DEF StatusStep
    <3>2. PICK j \in Approving(k) : TRUE
      BY <1>3, <2>2, <2>3, <3>1 DEF IInv, ApprovedInv
    <3>3. QED
      BY <1>3, <3>2, ApprovingStays
  <2>4. CASE \E j \in Jobs : Retried(j) /\ jobs[j].proposal = k
    <3>1. PICK j \in Jobs : Retried(j) /\ jobs[j].proposal = k
      BY <2>4
    <3>2. k # 0
      BY <1>3, ProposalTypes DEF Ids, IInv
    <3>3. proposals[k].letters > 0
      BY <1>1, <3>1, <3>2 DEF JobInv, JobOK, Retried
    <3>4. QED
      BY <2>2, <3>3
  <2>5. CASE \E j \in Jobs : Approve(k, j)
    <3>1. PICK j \in Jobs : Approve(k, j)
      BY <2>5
    <3>2. jobs'[j] = Performing("approval", proposals[k].wait, proposals[k].also, k)
      BY <1>1, <3>1 DEF Approve, JobInv
    <3>3. j \in Approving(k)'
      BY <3>2 DEF Approving, Performing, Idle
    <3>4. QED
      BY <3>3
  <2>6. QED
    BY <2>1, <2>3, <2>4, <2>5 DEF StatusStep
<1>4. QED
  BY <1>2, <1>3

-----------------------------------------------------------------------------
(* Letters and decisions *)

Owes(job, k) == job.pc = "performing" /\ job.proposal = k

(* A change of one job, which may be about to send k before and after it. *)
LEMMA OwingOneJob ==
  ASSUME JobInv, NEW k, NEW j \in Jobs, NEW new, jobs' = [jobs EXCEPT ![j] = new]
  PROVE  /\ Cardinality(Owing(k)) \in Nat /\ Cardinality(Owing(k)') \in Nat
         /\ Owes(jobs[j], k) /\ ~Owes(new, k) => Cardinality(Owing(k)') = Cardinality(Owing(k)) - 1
         /\ ~Owes(jobs[j], k) /\ Owes(new, k) => Cardinality(Owing(k)') = Cardinality(Owing(k)) + 1
         /\ (Owes(jobs[j], k) <=> Owes(new, k)) => Cardinality(Owing(k)') = Cardinality(Owing(k))
<1>1. /\ jobs \in [Jobs -> JobRecords] /\ jobs'[j] = new /\ \A i \in Jobs : i # j => jobs'[i] = jobs[i]
  BY DEF JobInv
<1>2. /\ \A i \in Jobs : i \in Owing(k) <=> Owes(jobs[i], k)
      /\ \A i \in Jobs : i \in Owing(k)' <=> Owes(jobs'[i], k)
      /\ Owing(k) \subseteq Jobs /\ Owing(k)' \subseteq Jobs
  BY DEF Owing, Owes
<1>3. IsFiniteSet(Owing(k)) /\ IsFiniteSet(Owing(k)')
  BY <1>2, JobsAssumption, FS_Subset
<1>4. Cardinality(Owing(k)) \in Nat /\ Cardinality(Owing(k)') \in Nat
  BY <1>3, FS_CardinalityType
<1>5. CASE Owes(jobs[j], k) /\ ~Owes(new, k)
  <2>1. j \in Owing(k) /\ Owing(k)' = Owing(k) \ {j}
    BY <1>1, <1>2, <1>5
  <2>2. QED
    BY <1>3, <1>4, <1>5, <2>1, FS_RemoveElement
<1>6. CASE ~Owes(jobs[j], k) /\ Owes(new, k)
  <2>1. j \notin Owing(k) /\ Owing(k)' = Owing(k) \cup {j}
    BY <1>1, <1>2, <1>6
  <2>2. QED
    BY <1>3, <1>4, <1>6, <2>1, FS_AddElement
<1>7. CASE Owes(jobs[j], k) <=> Owes(new, k)
  <2>1. Owing(k)' = Owing(k)
    BY <1>1, <1>2, <1>7
  <2>2. QED
    BY <1>4, <1>7, <2>1
<1>8. QED
  BY <1>4, <1>5, <1>6, <1>7

Sent(k) == proposals[k].letters + Cardinality(Owing(k)) <= proposals[k].clicks

(* A job that comes to owe nothing, while the letters stay and the decisions do not fall. *)
LEMMA SentByNoneNew ==
  ASSUME IInv, NEW k \in Ids, NEW j \in Jobs, NEW new, jobs' = [jobs EXCEPT ![j] = new],
         Owes(new, k) => Owes(jobs[j], k),
         proposals'[k].letters = proposals[k].letters, proposals'[k].clicks = proposals[k].clicks
  PROVE  Sent(k)'
<1>1. JobInv /\ Sent(k) /\ proposals[k].letters \in Nat /\ proposals[k].clicks \in Nat
  BY ProposalTypes DEF IInv, SentInv, Sent
<1>2. Cardinality(Owing(k)) \in Nat /\ Cardinality(Owing(k)') \in Nat
      /\ Cardinality(Owing(k)') <= Cardinality(Owing(k))
  <2>1. JobInv
    BY DEF IInv
  <2>2. (Owes(jobs[j], k) /\ ~Owes(new, k)) \/ (Owes(jobs[j], k) <=> Owes(new, k))
    OBVIOUS
  <2> DEFINE c == Cardinality(Owing(k))
             d == Cardinality(Owing(k)')
  <2>3. c \in Nat /\ d \in Nat /\ (d = c - 1 \/ d = c)
    BY <2>1, <2>2, OwingOneJob
  <2> HIDE DEF c, d
  <2>4. d <= c
    BY <2>3
  <2>5. QED
    BY <2>3, <2>4 DEF c, d
<1>3. Sent(k)' <=> proposals'[k].letters + Cardinality(Owing(k)') <= proposals'[k].clicks
  BY DEF Sent, Owing
<1>4. QED
  BY <1>1, <1>2, <1>3 DEF Sent

LEMMA SentUnchanged ==
  ASSUME IInv, NEW k \in Ids, UNCHANGED jobs,
         proposals'[k].letters = proposals[k].letters, proposals'[k].clicks = proposals[k].clicks
  PROVE  Sent(k)'
BY DEF IInv, SentInv, Sent, Owing

SameCounts(k) == proposals'[k].letters = proposals[k].letters /\ proposals'[k].clicks = proposals[k].clicks

LEMMA SentByRun ==
  ASSUME IInv, NEW k \in Ids, NEW j \in Jobs, JobStep(j) \/ FailLost(j) \/ ReportLost(j) \/ Crash(j)
  PROVE  Sent(k)'
<1> DEFINE job == jobs[j]
           i == job.proposal
<1>1. /\ TypeOK /\ JobInv /\ jobs \in [Jobs -> JobRecords] /\ job \in JobRecords /\ JobOK(job, proposals)
      /\ i # 0 => i \in Ids
  BY JobTypes DEF IInv, JobInv
<1>2. k # 0 /\ proposals[k].letters \in Nat /\ proposals[k].clicks \in Nat
  BY <1>1, ProposalTypes DEF Ids
<1>3. ~Owes(Idle, k) /\ ~Owes(AfterFailure(job), k)
  BY DEF Owes, Idle, AfterFailure
<1>4. ASSUME NEW new, jobs' = [jobs EXCEPT ![j] = new], Owes(new, k) => Owes(job, k), SameCounts(k)
      PROVE  Sent(k)'
  BY <1>4, SentByNoneNew DEF SameCounts
<1>5. UNCHANGED proposals => SameCounts(k)
  BY DEF SameCounts
<1>6. ASSUME Rewrites(i), i \in Ids, i # k PROVE SameCounts(k)
  BY <1>6 DEF Rewrites, SameCounts
<1>7. CASE TimerNext(j)
  <2>1. ~Owes([job EXCEPT !.pc = "performing"], k) /\ ~Owes([job EXCEPT !.pc = "proposing"], k)
    BY <1>1, <1>2, <1>7 DEF TimerNext, JobOK, Owes, JobRecords
  <2>2. \/ jobs' = [jobs EXCEPT ![j] = [job EXCEPT !.pc = "performing"]]
        \/ jobs' = [jobs EXCEPT ![j] = [job EXCEPT !.pc = "proposing"]]
        \/ jobs' = [jobs EXCEPT ![j] = Idle]
    BY <1>1, <1>7 DEF TimerNext
  <2>3. SameCounts(k)
    BY <1>5, <1>7 DEF TimerNext, case
  <2>4. QED
    BY <1>3, <1>4, <2>1, <2>2, <2>3
<1>8. CASE Propose(j)
  <2>1. SameCounts(k)
    BY <1>5, <1>8, Proposed DEF SameCounts
  <2>2. QED
    BY <1>3, <1>4, <1>8, <2>1 DEF Propose
<1>9. CASE Send(j)
  <2> DEFINE new == [job EXCEPT !.pc = "recording", !.left = {job.wait} \cup (job.also \cap open)]
  <2>1. ~Owes(new, k)
    BY <1>1 DEF Owes, JobRecords
  <2> HIDE DEF new
  <2>2. CASE jobs' = [jobs EXCEPT ![j] = new] /\ (i = k => proposals' = [proposals EXCEPT ![k].letters = @ + 1])
             /\ (i # k => UNCHANGED proposals \/ (i \in Ids /\ proposals' = [proposals EXCEPT ![i].letters = @ + 1]))
    <3>1. CASE i # k
      <4>1. SameCounts(k)
        BY <1>1, <1>5, <1>6, <2>2, <3>1, Effects
      <4>2. QED
        BY <1>4, <2>1, <2>2, <4>1
    <3>2. CASE i = k
      <4>1. proposals'[k].letters = proposals[k].letters + 1 /\ proposals'[k].clicks = proposals[k].clicks
        BY <1>1, <2>2, <3>2, Effects
      <4>2. Owes(job, k)
        BY <1>9, <3>2 DEF Send, Owes
      <4> DEFINE c == Cardinality(Owing(k))
                 d == Cardinality(Owing(k)')
      <4>3. c \in Nat /\ d \in Nat /\ d = c - 1
        BY <1>1, <2>1, <2>2, <4>2, OwingOneJob
      <4>4. proposals[k].letters + c <= proposals[k].clicks
        BY DEF IInv, SentInv
      <4> HIDE DEF c, d
      <4>5. proposals'[k].letters + d <= proposals'[k].clicks
        BY <1>2, <4>1, <4>3, <4>4
      <4>6. QED
        BY <4>5 DEF Sent, Owing, d
    <3>3. QED
      BY <3>1, <3>2
  <2>3. CASE jobs' = [jobs EXCEPT ![j] = AfterFailure(job)] /\ UNCHANGED proposals
    BY <1>3, <1>4, <1>5, <2>3
  <2>4. QED
    BY <1>1, <1>2, <1>9, <2>2, <2>3 DEF Send, new
<1>10. CASE Record(j)
  <2>1. SameCounts(k) /\ job.pc = "recording"
    BY <1>5, <1>10 DEF Record, Recording
  <2>2. CASE jobs' = [jobs EXCEPT ![j] = AfterFailure(job)]
    BY <1>3, <1>4, <2>1, <2>2
  <2>3. CASE \E w \in job.left : jobs' = [jobs EXCEPT ![j] = Chased(job, w)]
    <3>1. PICK w \in job.left : jobs' = [jobs EXCEPT ![j] = Chased(job, w)]
      BY <2>3
    <3>2. ~Owes(Chased(job, w), k)
      BY <1>1, <2>1 DEF Chased, AfterSent, Owes, Idle, JobRecords
    <3>3. QED
      BY <1>4, <2>1, <3>1, <3>2
  <2>4. QED
    BY <1>10, <2>2, <2>3 DEF Record
<1>11. CASE Fail(j) \/ Retried(j)
  <2>1. i \in Ids
    BY <1>1, <1>11 DEF Fail, Retried, JobOK, Ids
  <2>2. "failed" \in Statuses /\ "approved" \in Statuses
    BY DEF Statuses
  <2>3. \/ UNCHANGED proposals
        \/ proposals' = [proposals EXCEPT ![i].status = "failed"]
        \/ proposals' = [proposals EXCEPT ![i].status = "approved"]
    BY <1>11 DEF Fail, Retried
  <2>4. SameCounts(k)
    <3>1. UNCHANGED proposals \/ (Rewrites(i) /\ Alike(i))
      BY <1>1, <2>1, <2>2, <2>3, Effects
    <3>2. QED
      BY <1>5, <1>6, <2>1, <3>1 DEF Alike, SameCounts
  <2>5. \/ jobs' = [jobs EXCEPT ![j] = [job EXCEPT !.pc = "reporting"]]
        \/ jobs' = [jobs EXCEPT ![j] = [job EXCEPT !.pc = "closing"]]
        \/ jobs' = [jobs EXCEPT ![j] = Idle]
    BY <1>1, <1>11 DEF Fail, Retried
  <2>6. ~Owes([job EXCEPT !.pc = "reporting"], k) /\ ~Owes([job EXCEPT !.pc = "closing"], k)
    BY <1>1 DEF Owes, JobRecords
  <2>7. QED
    BY <1>3, <1>4, <2>4, <2>5, <2>6
<1>12. CASE Report(j) \/ ReportLost(j) \/ Closing(j)
  BY <1>3, <1>4, <1>5, <1>12 DEF Report, ReportLost, Closing, case
<1>13. CASE FailLost(j) \/ Crash(j)
  <2>1. UNCHANGED proposals \/ (i \in Ids /\ proposals' = [proposals EXCEPT ![i].lost = TRUE])
    BY <1>1, <1>13 DEF FailLost, JobOK, Ids, Crash
  <2>2. UNCHANGED proposals \/ (i \in Ids /\ Rewrites(i) /\ SameCounts(i))
    BY <1>1, <2>1, Effects DEF SameCounts
  <2>3. SameCounts(k)
    BY <1>5, <1>6, <2>2
  <2>4. ~Owes([job EXCEPT !.pc = "reporting"], k)
    BY <1>1 DEF Owes, JobRecords
  <2>5. QED
    BY <1>3, <1>4, <1>13, <2>3, <2>4 DEF FailLost, Crash
<1>14. QED
  BY <1>7, <1>8, <1>9, <1>10, <1>11, <1>12, <1>13 DEF JobStep

(* A person's click: a decision for each job that comes to owe a letter. *)
LEMMA SentByClick ==
  ASSUME IInv, NEW k \in Ids, NEW i \in Ids, NEW j \in Jobs, Approve(i, j) \/ Retry(i, j)
  PROVE  Sent(k)'
<1>1. /\ TypeOK /\ JobInv /\ jobs[j] = Idle
      /\ proposals[k].letters \in Nat /\ proposals[k].clicks \in Nat
  BY ProposalTypes DEF IInv, Approve, Retry
<1>2. /\ Rewrites(i) /\ proposals'[i].letters = proposals[i].letters /\ proposals'[i].clicks = proposals[i].clicks + 1
  BY <1>1, Effects
<1>3. PICK by \in {"approval", "retry"} :
        jobs' = [jobs EXCEPT ![j] = Performing(by, proposals[i].wait, proposals[i].also, i)]
  BY DEF Approve, Retry
<1> DEFINE new == Performing(by, proposals[i].wait, proposals[i].also, i)
<1>4. Owes(new, k) <=> i = k
  BY DEF Owes, Performing, Idle
<1>5. ~Owes(jobs[j], k)
  BY <1>1 DEF Owes, Idle
<1> HIDE DEF new
<1>6. CASE i # k
  <2>1. proposals'[k] = proposals[k]
    BY <1>2, <1>6 DEF Rewrites
  <2>2. QED
    BY <1>3, <1>4, <1>6, <2>1, SentByNoneNew DEF new
<1>7. CASE i = k
  <2> DEFINE c == Cardinality(Owing(k))
             d == Cardinality(Owing(k)')
  <2>1. c \in Nat /\ d \in Nat /\ d = c + 1
    BY <1>1, <1>3, <1>4, <1>5, <1>7, OwingOneJob DEF new
  <2>2. proposals[k].letters + c <= proposals[k].clicks
    BY DEF IInv, SentInv
  <2> HIDE DEF c, d
  <2>3. proposals'[k].letters + d <= proposals'[k].clicks
    BY <1>1, <1>2, <1>7, <2>1, <2>2
  <2>4. QED
    BY <2>3 DEF Sent, Owing, d
<1>8. QED
  BY <1>6, <1>7

LEMMA SentStep == IInv /\ [Next]_vars => SentInv'
<1> SUFFICES ASSUME IInv, [Next]_vars, NEW k \in Ids' PROVE Sent(k)'
  BY DEF SentInv, Sent, Owing
<1>1. TypeOK /\ JobInv
  BY DEF IInv
<1>2. CASE k \notin Ids
  <2>1. PICK j \in Jobs : Propose(j)
    BY <1>2, NoNewOnes
  <2>2. k = Len(proposals) + 1 /\ k \in Nat /\ proposals'[k].letters = 0 /\ proposals'[k].clicks = 0
    BY <1>2, <2>1, Proposed DEF Ids
  <2>3. jobs' = [jobs EXCEPT ![j] = Idle]
    BY <2>1 DEF Propose
  <2>4. Owing(k)' = {}
    <3>1. \A i \in Jobs : jobs'[i] = jobs[i] \/ jobs'[i] = Idle
      BY <1>1, <2>3 DEF JobInv
    <3>2. \A i \in Jobs : jobs[i].proposal \in Ids \cup {0}
      BY <1>1 DEF TypeOK
    <3>3. k # 0
      BY <2>2, ProposalTypes, <1>1
    <3>4. \A i \in Jobs : jobs'[i].proposal # k
      BY <1>2, <3>1, <3>2, <3>3 DEF Idle
    <3>5. QED
      BY <3>4 DEF Owing
  <2>5. Cardinality(Owing(k)') = 0
    BY <2>4, FS_EmptySet
  <2>6. proposals'[k].letters + Cardinality(Owing(k)') <= proposals'[k].clicks
    BY <2>2, <2>5
  <2>7. QED
    BY <2>6 DEF Sent, Owing
<1>3. CASE k \in Ids
  <2>1. CASE \E w \in Waits : OpenWait(w) \/ Arrive(w)
    <3>1. open' \in SUBSET Waits /\ proposals' = Withdrawn(proposals, open') /\ UNCHANGED jobs
      BY <1>1, <2>1 DEF OpenWait, Arrive, TypeOK
    <3>2. QED
      BY <1>1, <1>3, <3>1, WithdrawalsKept, SentUnchanged
  <2>2. CASE \E i \in Ids : QuietEnds(i) \/ Reject(i)
    <3>1. PICK i \in Ids : QuietEnds(i) \/ Reject(i)
      BY <2>2
    <3>2. Rewrites(i) /\ Alike(i) /\ UNCHANGED jobs
      BY <1>1, <3>1, Effects DEF QuietEnds, Reject
    <3>3. SameCounts(k)
      BY <1>3, <3>2 DEF Rewrites, Alike, SameCounts
    <3>4. QED
      BY <1>3, <3>2, <3>3, SentUnchanged DEF SameCounts
  <2>3. CASE (\E w \in Waits : FallDue(w)) \/ ResolveTask \/ Complete \/ UNCHANGED vars
    BY <1>3, <2>3, SentUnchanged DEF FallDue, ResolveTask, Complete, vars
  <2>4. CASE \E j \in Jobs, w \in Waits : TimerBegin(j, w) \/ ChaseNow(w, j)
    <3>1. PICK j \in Jobs, w \in Waits : TimerBegin(j, w) \/ ChaseNow(w, j)
      BY <2>4
    <3>2. k # 0
      BY <1>1, <1>3, ProposalTypes DEF Ids
    <3>3. \E new : jobs' = [jobs EXCEPT ![j] = new] /\ ~Owes(new, k)
      <4>1. CASE TimerBegin(j, w)
        <5> DEFINE new == [Idle EXCEPT !.pc = "choosing", !.by = "timer", !.wait = w, !.also = Also(w, open)]
        <5>1. ~Owes(new, k)
          BY DEF Owes, Idle
        <5>2. jobs' = [jobs EXCEPT ![j] = new]
          BY <4>1 DEF TimerBegin
        <5>3. QED
          BY <5>1, <5>2
      <4>2. CASE ChaseNow(w, j)
        <5> DEFINE new == Performing("person", w, Also(w, open), 0)
        <5>1. ~Owes(new, k)
          BY <3>2 DEF Owes, Performing, Idle
        <5>2. jobs' = [jobs EXCEPT ![j] = new]
          BY <4>2 DEF ChaseNow
        <5>3. QED
          BY <5>1, <5>2
      <4>3. QED
        BY <3>1, <4>1, <4>2
    <3>4. UNCHANGED proposals
      BY <3>1 DEF TimerBegin, ChaseNow, case
    <3>5. QED
      BY <1>3, <3>3, <3>4, SentByNoneNew
  <2>5. QED
    BY <1>3, <2>1, <2>2, <2>3, <2>4, SentByRun, SentByClick DEF Next
<1>4. QED
  BY <1>2, <1>3

-----------------------------------------------------------------------------

LEMMA InitIInv == Init => IInv
<1> SUFFICES ASSUME Init PROVE IInv
  OBVIOUS
<1>1. proposals = <<>> /\ Len(proposals) = 0 /\ proposals \in Seq(Proposals) /\ Ids = {}
  BY DEF Init, Ids
<1>2. TypeOK
  <2>1. completed \in BOOLEAN
    BY DEF Init
  <2>2. /\ open \subseteq Waits /\ due \subseteq open /\ task \in Ids \cup {0, NoTask}
        /\ crashes \in 0..MaxCrashes /\ Len(proposals) <= MaxProposals
    BY <1>1, BoundsAssumption DEF Init
  <2>3. \A j \in Jobs : jobs[j] = Idle
    BY DEF Init
  <2>4. \A j \in Jobs : /\ jobs[j].proposal \in Ids \cup {0}
                        /\ jobs[j].also \subseteq Enquiries /\ jobs[j].wait \in Waits \cup {NoWait}
                        /\ jobs[j].pc = "recording" => jobs[j].left # {}
    BY <2>3 DEF Idle
  <2>5. QED
    BY <1>1, <2>1, <2>2, <2>4 DEF TypeOK
<1>3. JobInv
  BY <1>1 DEF Init, JobInv, JobOK, JobRecords, Idle
<1>4. PendingInv /\ ApprovedInv /\ SentInv
  BY <1>1 DEF PendingInv, OnePendingPerKey, PendingIsOutstanding, ApprovedInv, SentInv
<1>5. QED
  BY <1>2, <1>3, <1>4 DEF IInv

(* The state invariant of Chases, for any waits, jobs and bounds. *)
THEOREM Invariance == Spec => []IInv
<1>1. IInv /\ [Next]_vars => IInv'
  BY TypeStep, JobInvStep, PendingStep, ApprovedStep, SentStep DEF IInv
<1>2. QED
  BY InitIInv, <1>1, PTL DEF Spec

(* Only what is open is due, and tasks, proposals and jobs refer to what exists. *)
THEOREM TypeCorrect == Spec => []TypeOK
<1>1. IInv => TypeOK
  BY DEF IInv
<1>2. QED
  BY Invariance, <1>1, PTL

(* One proposal per key at a time (proposeUnless, propose_action), for any number of overlapping runs of the timer. *)
THEOREM OnePending == Spec => []OnePendingPerKey
<1>1. IInv => OnePendingPerKey
  BY DEF IInv, PendingInv
<1>2. QED
  BY Invariance, <1>1, PTL

(* Nobody is asked to approve a chase for what has arrived (automatic). *)
THEOREM PendingOutstanding == Spec => []PendingIsOutstanding
<1>1. IInv => PendingIsOutstanding
  BY DEF IInv, PendingInv
<1>2. QED
  BY Invariance, <1>1, PTL

(* A proposed chase is sent at most once for each decision to send it (perform, retryFailedAction), *)
(* for any number of jobs, failures and crashes. *)
THEOREM SentAsDecidedAlways == Spec => []SentAsDecided
<1>1. IInv => SentAsDecided
  <2> SUFFICES ASSUME IInv, NEW k \in Ids PROVE proposals[k].letters <= proposals[k].clicks
    BY DEF SentAsDecided
  <2>1. proposals[k].letters \in Nat /\ proposals[k].clicks \in Nat
    BY ProposalTypes DEF IInv
  <2>2. Cardinality(Owing(k)) \in Nat
    BY JobsAssumption, FS_Subset, FS_CardinalityType DEF Owing
  <2>3. proposals[k].letters + Cardinality(Owing(k)) <= proposals[k].clicks
    BY DEF IInv, SentInv
  <2>4. QED
    BY <2>1, <2>2, <2>3
<1>2. QED
  BY Invariance, <1>1, PTL

(* An approved chase went, is on its way, or was lost with its job or with the record of its failure: a failure to *)
(* send it is otherwise recorded (record_action_failed). *)
THEOREM ApprovedWentAlways == Spec => []ApprovedWent
<1>1. IInv => ApprovedWent
  <2> SUFFICES ASSUME IInv, NEW k \in Ids, proposals[k].status = "approved"
               PROVE  proposals[k].letters > 0 \/ InFlight(k) \/ proposals[k].lost
    BY DEF ApprovedWent
  <2>1. proposals[k].letters \in Nat
    BY ProposalTypes DEF IInv
  <2>2. CASE Approving(k) # {}
    BY <2>2 DEF Approving, InFlight
  <2>3. QED
    BY <2>1, <2>2 DEF IInv, ApprovedInv
<1>2. QED
  BY Invariance, <1>1, PTL

-----------------------------------------------------------------------------
(* The promise of ChaseDecisions *)

(* What is pending is outstanding by its key, and no job is about it. *)
KeyOpen == \A k \in Ids : proposals[k].status = "pending" => DedupKey(proposals[k].wait) \in open
Untouched == \A k \in Ids : proposals[k].status = "pending" => ~InFlight(k)

(* An approval is carried out alone, while the chase is approved. *)
Carries(job) == job.by = "approval" /\ job.pc \in {"performing", "recording", "failed"}
Alone == \A j \in Jobs : Carries(jobs[j]) =>
           /\ proposals[jobs[j].proposal].status = "approved"
           /\ \A i \in Jobs : jobs[i].proposal = jobs[j].proposal => i = j

DInv == IInv /\ KeyOpen /\ Untouched /\ Alone

LEMMA WithdrawnStatus ==
  ASSUME NEW ps \in Seq(Proposals), NEW waits \in SUBSET Waits, NEW k \in 1..Len(ps)
  PROVE  /\ Withdrawn(ps, waits)[k].wait = ps[k].wait
         /\ Withdrawn(ps, waits)[k].letters = ps[k].letters
         /\ Withdrawn(ps, waits)[k].status =
              IF ps[k].status = "pending" /\ DedupKey(ps[k].wait) \notin waits THEN "rejected" ELSE ps[k].status
<1>1. ps[k] \in Proposals
  OBVIOUS
<1>2. QED
  BY <1>1 DEF Withdrawn, Proposals

(* Which job comes to be about a proposal: the one that a click starts. *)
LEMMA JobMoves ==
  ASSUME IInv, [Next]_vars, NEW i \in Jobs
  PROVE  /\ \/ /\ jobs'[i].proposal \in {jobs[i].proposal, 0}
               /\ Carries(jobs'[i]) => Carries(jobs[i]) /\ jobs'[i].proposal = jobs[i].proposal
            \/ \E k \in Ids : /\ Approve(k, i) \/ Retry(k, i)
                              /\ jobs'[i].proposal = k
                              /\ Carries(jobs'[i]) => Approve(k, i)
         /\ Fail(i) => ~Carries(jobs'[i])
<1> DEFINE job == jobs[i]
           Moved(new) == /\ new.proposal \in {job.proposal, 0}
                         /\ Carries(new) => Carries(job) /\ new.proposal = job.proposal
<1>1. /\ JobInv /\ jobs \in [Jobs -> JobRecords] /\ job \in JobRecords /\ JobOK(job, proposals)
  BY DEF IInv, JobInv
<1>2. Moved(Idle) /\ Moved(job)
  BY <1>1 DEF Idle, Carries
<1>3. ASSUME NEW j \in Jobs, NEW new, jobs' = [jobs EXCEPT ![j] = new], j # i PROVE jobs'[i] = job
  BY <1>1, <1>3
<1>4. CASE jobs'[i] = job /\ ~Fail(i)
  BY <1>2, <1>4
<1>5. ASSUME NEW pc \in {"performing", "proposing", "recording", "failed", "reporting", "retried", "closing"},
             NEW left, pc \in {"performing", "recording", "failed"} => job.by # "approval" \/ job.pc \in {"performing", "recording"}
      PROVE  Moved([job EXCEPT !.pc = pc]) /\ Moved([job EXCEPT !.pc = pc, !.left = left])
  BY <1>1, <1>5 DEF JobRecords, Carries
<1>6. CASE TimerNext(i)
  <2>1. job.by # "approval"
    BY <1>1, <1>6 DEF TimerNext, JobOK
  <2>2. Moved(jobs'[i])
    BY <1>1, <1>2, <1>5, <1>6, <2>1 DEF TimerNext
  <2>3. ~Fail(i)
    BY <1>6 DEF TimerNext, Fail
  <2>4. QED
    BY <2>2, <2>3
<1>7. job.pc \in {"performing", "recording"} => Moved(AfterFailure(job))
  BY <1>1, <1>2, <1>5 DEF AfterFailure
<1>8. CASE Send(i)
  <2>1. job.pc = "performing" /\ ~Fail(i)
    BY <1>8 DEF Send, Fail
  <2>2. Moved([job EXCEPT !.pc = "recording", !.left = {job.wait} \cup (job.also \cap open)])
    BY <1>5, <2>1
  <2>3. Moved(jobs'[i])
    BY <1>1, <1>7, <1>8, <2>1, <2>2 DEF Send
  <2>4. QED
    BY <2>1, <2>3
<1>9. CASE Record(i)
  <2>1. job.pc = "recording" /\ ~Fail(i)
    BY <1>9 DEF Record, Recording, Fail
  <2>2. ASSUME NEW w PROVE Moved(Chased(job, w))
    <3> DEFINE rest == [job EXCEPT !.left = @ \ {w}]
    <3>1. Moved(rest) /\ Moved([rest EXCEPT !.pc = "retried"])
      BY <1>1, <2>1 DEF JobRecords, Carries
    <3>2. Chased(job, w) \in {rest, [rest EXCEPT !.pc = "retried"], Idle}
      BY DEF Chased, AfterSent
    <3> HIDE DEF rest, Moved
    <3>3. QED
      BY <1>2, <3>1, <3>2
  <2>3. Moved(jobs'[i])
    BY <1>1, <1>7, <1>9, <2>1, <2>2 DEF Record
  <2>4. QED
    BY <2>1, <2>3
<1>10. CASE Fail(i) \/ FailLost(i)
  BY <1>1, <1>5, <1>10 DEF Fail, FailLost, Carries, JobRecords
<1>11. CASE Propose(i) \/ Report(i) \/ ReportLost(i) \/ Retried(i) \/ Closing(i) \/ Crash(i)
  <2>1. Moved(jobs'[i])
    BY <1>1, <1>2, <1>5, <1>11 DEF Propose, Report, ReportLost, Retried, Closing, Crash
  <2>2. ~Carries(jobs'[i])
    BY <1>1, <1>11 DEF Propose, Report, ReportLost, Retried, Closing, Crash, Carries, Idle, JobRecords
  <2>3. QED
    BY <2>1, <2>2
<1>12. CASE \E w \in Waits : TimerBegin(i, w) \/ ChaseNow(w, i)
  <2>1. jobs'[i].proposal = 0 /\ ~Carries(jobs'[i])
    BY <1>1, <1>12 DEF TimerBegin, ChaseNow, Performing, Idle, Carries
  <2>2. QED
    BY <2>1
<1>13. CASE \E k \in Ids : Approve(k, i) \/ Retry(k, i)
  <2>1. PICK k \in Ids : Approve(k, i) \/ Retry(k, i)
    BY <1>13
  <2>2. /\ jobs'[i].proposal = k
        /\ Retry(k, i) => ~Carries(jobs'[i])
        /\ ~Fail(i)
    BY <1>1, <2>1 DEF Approve, Retry, Performing, Idle, Carries, Fail
  <2>3. QED
    BY <2>1, <2>2
<1>14. ASSUME NEW j \in Jobs, j # i, JobStep(j) \/ FailLost(j) \/ ReportLost(j) \/ Crash(j) PROVE jobs'[i] = job
  BY <1>3, <1>14 DEF JobStep, TimerNext, Propose, Send, Record, Fail, FailLost, Report, ReportLost, Retried, Closing,
                     Crash
<1>15. ASSUME NEW j \in Jobs, j # i,
              \/ \E w \in Waits : TimerBegin(j, w) \/ ChaseNow(w, j)
              \/ \E k \in Ids : Approve(k, j) \/ Retry(k, j)
       PROVE  jobs'[i] = job
  BY <1>3, <1>15 DEF TimerBegin, ChaseNow, Approve, Retry
<1>16. Fail(i) => jobs'[i].pc = "reporting"
  BY <1>1 DEF Fail, JobRecords
<1>17. jobs'[i] = job => ~Fail(i)
  BY <1>16 DEF Fail
<1>18. QED
  BY <1>4, <1>6, <1>8, <1>9, <1>10, <1>11, <1>12, <1>13, <1>14, <1>15, <1>17
     DEF Next, JobStep, vars, OpenWait, Arrive, FallDue, QuietEnds, Reject, ResolveTask, Complete

LEMMA KeyOpenStep == IInv /\ KeyOpen /\ [Next]_vars => KeyOpen'
<1> SUFFICES ASSUME IInv, KeyOpen, [Next]_vars, NEW k \in Ids', proposals'[k].status = "pending"
             PROVE  DedupKey(proposals'[k].wait) \in open'
  BY DEF KeyOpen, DedupKey
<1>1. TypeOK /\ JobInv /\ Kept /\ proposals \in Seq(Proposals) /\ open \in SUBSET Waits
  BY JobInvStep, ProposalTypes DEF IInv
<1>2. CASE \E w \in Waits : OpenWait(w) \/ Arrive(w)
  <2>1. open' \in SUBSET Waits /\ proposals' = Withdrawn(proposals, open')
    BY <1>1, <1>2 DEF OpenWait, Arrive
  <2>2. k \in 1..Len(proposals)
    BY <1>1, <2>1, WithdrawalsKept DEF Ids
  <2>3. QED
    BY <1>1, <2>1, <2>2, WithdrawnStatus
<1>3. CASE \E j \in Jobs : Propose(j) /\ proposals' # proposals
  <2>1. PICK j \in Jobs : Propose(j) /\ proposals' # proposals
    BY <1>3
  <2>2. /\ jobs[j] \in JobRecords /\ jobs[j].wait \in Waits /\ open' = open
        /\ proposals' = Withdrawn(Append(proposals, NewProposal(jobs[j])), open)
    BY <1>1, <2>1 DEF JobInv, JobOK, Propose
  <2> DEFINE ps == Append(proposals, NewProposal(jobs[j]))
  <2>3. ps \in Seq(Proposals)
    BY <1>1, <2>2, NewProposalType, AppendProperties
  <2> HIDE DEF ps
  <2>4. proposals' = Withdrawn(ps, open)
    BY <2>2 DEF ps
  <2>5. k \in 1..Len(ps)
    BY <1>1, <2>3, <2>4, WithdrawnEffect DEF Ids
  <2>6. QED
    BY <1>1, <2>2, <2>3, <2>4, <2>5, WithdrawnStatus
<1>4. CASE UNCHANGED open /\ Ids' = Ids
  <2>1. proposals[k].status = "pending" /\ proposals'[k].wait = proposals[k].wait
    BY <1>1, <1>4, StatusSteps DEF StatusStep, Kept
  <2>2. QED
    BY <1>4, <2>1 DEF KeyOpen
<1>5. ASSUME NEW j \in Jobs, Propose(j), UNCHANGED proposals PROVE UNCHANGED open /\ Ids' = Ids
  BY <1>5 DEF Propose, Ids
<1>6. ASSUME ~\E w \in Waits : OpenWait(w) \/ Arrive(w) PROVE UNCHANGED open
  BY <1>6 DEF Next, JobStep, vars, case, FallDue, QuietEnds, Reject, ResolveTask, TimerBegin, TimerNext, Propose,
              Send, Record, Fail, FailLost, Report, ReportLost, Retried, Closing, Approve, Retry, ChaseNow, Complete,
              Crash
<1>7. QED
  BY <1>2, <1>3, <1>4, <1>5, <1>6, NoNewOnes

LEMMA UntouchedStep == IInv /\ Untouched /\ [Next]_vars => Untouched'
<1> SUFFICES ASSUME IInv, Untouched, [Next]_vars, NEW k \in Ids', proposals'[k].status = "pending",
                    NEW i \in Jobs, jobs'[i].proposal = k
             PROVE  FALSE
  BY DEF Untouched, InFlight
<1>1. TypeOK /\ JobInv /\ jobs[i].proposal \in Ids \cup {0} /\ Len(proposals) \in Nat
  BY ProposalTypes DEF IInv, TypeOK
<1>2. k # 0
  BY DEF Ids
<1>3. CASE \E l \in Ids : Approve(l, i) \/ Retry(l, i)
  <2>1. PICK l \in Ids : Approve(l, i) \/ Retry(l, i)
    BY <1>3
  <2>2. l = k
    BY <1>1, <2>1 DEF Approve, Retry, Performing, Idle, JobInv
  <2>3. proposals[k].status = "pending"
    BY <2>1, <2>2, StatusSteps DEF StatusStep
  <2>4. Approve(k, i)
    BY <2>1, <2>2, <2>3 DEF Retry
  <2>5. proposals'[k].status = "approved"
    BY <1>1, <2>1, <2>2, <2>4, Effects
  <2>6. QED
    BY <2>5
<1>4. CASE jobs'[i].proposal \in {jobs[i].proposal, 0}
  <2>1. k \in Ids /\ jobs[i].proposal = k
    BY <1>1, <1>2, <1>4
  <2>2. proposals[k].status = "pending"
    BY <2>1, StatusSteps DEF StatusStep
  <2>3. QED
    BY <2>1, <2>2 DEF Untouched, InFlight
<1>5. QED
  BY <1>3, <1>4, JobMoves

LEMMA AloneStep == IInv /\ Untouched /\ Alone /\ [Next]_vars => Alone'
<1> SUFFICES ASSUME IInv, Untouched, Alone, [Next]_vars, NEW j \in Jobs, Carries(jobs'[j]), NEW i \in Jobs
             PROVE  /\ proposals'[jobs'[j].proposal].status = "approved"
                    /\ jobs'[i].proposal = jobs'[j].proposal => i = j
  BY DEF Alone, Carries
<1>1. TypeOK /\ JobInv /\ \A h \in Jobs : jobs[h].proposal \in Ids \cup {0}
  BY DEF IInv, TypeOK
<1> DEFINE k == jobs'[j].proposal
<1>2. CASE k \in Ids /\ Approve(k, j)
  <2>1. proposals'[k].status = "approved" /\ proposals[k].status = "pending" /\ k # 0
    BY <1>1, <1>2, Effects DEF Approve, Ids
  <2>2. \A h \in Jobs : jobs[h].proposal # k
    BY <1>2, <2>1 DEF Untouched, InFlight
  <2>3. ASSUME i # j PROVE jobs'[i] = jobs[i]
    BY <1>1, <1>2, <2>3 DEF Approve, JobInv
  <2>4. QED
    BY <2>1, <2>2, <2>3
<1>3. CASE Carries(jobs[j]) /\ k = jobs[j].proposal /\ ~Fail(j)
  <2>1. /\ k \in Ids /\ k # 0 /\ proposals[k].status = "approved"
        /\ \A h \in Jobs : jobs[h].proposal = k => h = j
    BY <1>1, <1>3, JobTypes DEF Alone, Carries, JobOK, Ids
  <2>2. proposals'[k].status = "approved"
    BY <1>3, <2>1, StatusSteps DEF StatusStep
  <2>3. ~Approve(k, i) /\ ~Retry(k, i)
    BY <2>1 DEF Approve, Retry
  <2>4. ASSUME jobs'[i].proposal = k PROVE jobs[i].proposal = k
    <3> HIDE DEF k
    <3>1. CASE jobs'[i].proposal \in {jobs[i].proposal, 0}
      BY <2>1, <2>4, <3>1
    <3>2. CASE \E l \in Ids : (Approve(l, i) \/ Retry(l, i)) /\ jobs'[i].proposal = l
      BY <2>3, <2>4, <3>2
    <3>3. QED
      BY <3>1, <3>2, JobMoves
  <2>5. QED
    BY <2>1, <2>2, <2>4
<1>4. ~Fail(j)
  BY JobMoves
<1>5. CASE \E l \in Ids : (Approve(l, j) \/ Retry(l, j)) /\ k = l /\ Approve(l, j)
  BY <1>2, <1>5
<1>6. QED
  BY <1>3, <1>4, <1>5, JobMoves

LEMMA DInvHolds == Spec => []DInv
<1>1. Init => DInv
  <2>1. Init => KeyOpen /\ Untouched /\ Alone
    BY DEF Init, KeyOpen, Untouched, Alone, Ids, Carries, Idle
  <2>2. QED
    BY <2>1, InitIInv DEF DInv
<1>2. DInv /\ [Next]_vars => DInv'
  BY TypeStep, JobInvStep, PendingStep, ApprovedStep, SentStep, KeyOpenStep, UntouchedStep, AloneStep DEF DInv, IInv
<1>3. QED
  BY <1>1, <1>2, PTL DEF Spec

(* What ChaseDecisions sees of one proposal, and of all. *)
Row(k) == [key |-> DedupKey(proposals[k].wait), status |-> Standing(proposals[k].status),
           owed |-> Cardinality(Owing(k)), letters |-> proposals[k].letters]
Rows == [k \in Ids |-> Row(k)]

SameRow(k) == /\ proposals'[k].wait = proposals[k].wait /\ proposals'[k].letters = proposals[k].letters
              /\ Standing(proposals'[k].status) = Standing(proposals[k].status)
              /\ Cardinality(Owing(k)') = Cardinality(Owing(k))

LEMMA RowTypes ==
  ASSUME IInv, NEW k \in Ids
  PROVE  Row(k).owed \in Nat /\ Row(k).letters \in Nat /\ Rows[k] = Row(k)
<1>1. IsFiniteSet(Owing(k))
  BY JobsAssumption, FS_Subset DEF Owing
<1>2. Cardinality(Owing(k)) \in Nat
  BY <1>1, FS_CardinalityType
<1>3. QED
  BY <1>2, ProposalTypes DEF IInv, Row, Rows

LEMMA RowKept == ASSUME NEW k, SameRow(k) PROVE Row(k)' = Row(k)
<1>1. Row(k)' = [key |-> DedupKey(proposals'[k].wait), status |-> Standing(proposals'[k].status),
                 owed |-> Cardinality(Owing(k)'), letters |-> proposals'[k].letters]
  BY DEF Row, DedupKey, Standing, Owing
<1>2. QED
  BY <1>1 DEF SameRow, Row

LEMMA RowsKept ==
  ASSUME Ids' = Ids, \A k \in Ids : SameRow(k)
  PROVE  Rows' = Rows
<1>1. \A k \in Ids : Row(k)' = Row(k)
  BY RowKept
<1>2. QED
  BY <1>1 DEF Rows

LEMMA RowChanged ==
  ASSUME Ids' = Ids, NEW k \in Ids, \A i \in Ids : i # k => SameRow(i)
  PROVE  Rows' = [Rows EXCEPT ![k] = Row(k)']
<1>1. \A i \in Ids : i # k => Row(i)' = Row(i)
  BY RowKept
<1>2. QED
  BY <1>1 DEF Rows

(* A change of one job, in a step that leaves proposal k alone, and that the job owes k no more or less by. *)
LEMMA RowApart ==
  ASSUME JobInv, NEW k \in Ids, NEW j \in Jobs, NEW new, jobs' = [jobs EXCEPT ![j] = new],
         Owes(jobs[j], k) <=> Owes(new, k), proposals'[k] = proposals[k]
  PROVE  SameRow(k)
BY OwingOneJob DEF SameRow

LEMMA JobApart ==
  ASSUME IInv, NEW j \in Jobs, NEW new, jobs' = [jobs EXCEPT ![j] = new], UNCHANGED proposals,
         \A k \in Ids : Owes(jobs[j], k) <=> Owes(new, k)
  PROVE  Rows' = Rows
<1>1. \A k \in Ids : SameRow(k)
  BY RowApart DEF IInv
<1>2. QED
  BY <1>1, RowsKept DEF Ids

LEMMA NoZeroId == 0 \notin Ids
BY DEF Ids

(* The steps as ChaseDecisions sees them. *)
LEMMA TurnRefines ==
  ASSUME DInv, NEW w \in Waits, OpenWait(w) \/ Arrive(w)
  PROVE  \E now \in SUBSET (Waits \cup {Replies}) : Decisions!Turn(now)
<1>1. /\ TypeOK /\ open' \in SUBSET Waits /\ proposals' = Withdrawn(proposals, open') /\ UNCHANGED jobs
      /\ proposals \in Seq(Proposals)
  BY ProposalTypes DEF DInv, IInv, OpenWait, Arrive, TypeOK
<1>2. Ids' = Ids
  BY <1>1, WithdrawalsKept
<1>3. ASSUME NEW k \in Ids
      PROVE  Row(k)' = IF Row(k).status = "pending" /\ Row(k).key \notin open'
                       THEN [Row(k) EXCEPT !.status = "stopped"] ELSE Row(k)
  <2>1. k \in 1..Len(proposals) /\ proposals[k].status \in Statuses
    BY <1>1, ProposalTypes DEF Ids, Proposals
  <2>2. /\ proposals'[k].wait = proposals[k].wait /\ proposals'[k].letters = proposals[k].letters
        /\ proposals'[k].status = IF proposals[k].status = "pending" /\ DedupKey(proposals[k].wait) \notin open'
                                  THEN "rejected" ELSE proposals[k].status
    BY <1>1, <2>1, WithdrawnStatus
  <2>3. Row(k)' = [key |-> DedupKey(proposals'[k].wait), status |-> Standing(proposals'[k].status),
                   owed |-> Cardinality(Owing(k)), letters |-> proposals'[k].letters]
    BY <1>1 DEF Row, DedupKey, Standing, Owing
  <2>4. Row(k).status = "pending" <=> proposals[k].status = "pending"
    BY DEF Row, Standing
  <2>5. Standing("rejected") = "stopped"
    BY DEF Standing
  <2>6. QED
    BY <2>2, <2>3, <2>4, <2>5 DEF Row
<1>4. Rows' = [k \in DOMAIN Rows |-> IF Rows[k].status = "pending" /\ Rows[k].key \notin open'
                                     THEN [Rows[k] EXCEPT !.status = "stopped"] ELSE Rows[k]]
  BY <1>2, <1>3 DEF Rows
<1>5. PICK now \in SUBSET (Waits \cup {Replies}) : now = open'
  BY <1>1
<1>6. Decisions!Turn(now)
  BY <1>1, <1>4, <1>5 DEF Decisions!Turn, Rows, Row
<1>7. QED
  BY <1>6

(* One chase is rewritten, by a step that changes what no other is owed. *)
Turned(k) == [key |-> DedupKey(proposals[k].wait), status |-> Standing(proposals'[k].status),
              owed |-> Cardinality(Owing(k)'), letters |-> proposals'[k].letters]

LEMMA OneTurned ==
  ASSUME TypeOK, NEW k \in Ids, Rewrites(k), Ids' = Ids,
         \A i \in Ids : i # k => Cardinality(Owing(i)') = Cardinality(Owing(i))
  PROVE  Rows' = [Rows EXCEPT ![k] = Turned(k)]
<1>1. \A i \in Ids : i # k => SameRow(i)
  BY DEF Rewrites, SameRow
<1>2. Row(k)' = [key |-> DedupKey(proposals'[k].wait), status |-> Standing(proposals'[k].status),
                 owed |-> Cardinality(Owing(k)'), letters |-> proposals'[k].letters]
  BY DEF Row, DedupKey, Standing, Owing
<1>3. Row(k)' = Turned(k)
  BY <1>2 DEF Turned, Rewrites
<1>4. QED
  BY <1>1, <1>3, RowChanged

LEMMA RefuseRefines ==
  ASSUME DInv, NEW k \in Ids, Reject(k)
  PROVE  Decisions!Refuse(k)
<1>1. TypeOK /\ UNCHANGED <<open, jobs>> /\ proposals[k].status = "pending"
  BY DEF DInv, IInv, Reject
<1>2. Rewrites(k) /\ Alike(k) /\ proposals'[k].status = "rejected" /\ Ids' = Ids
  BY <1>1, Effects, Rewritings
<1>3. \A i \in Ids : Owing(i)' = Owing(i)
  BY <1>1 DEF Owing
<1>4. Rows' = [Rows EXCEPT ![k] = Turned(k)]
  BY <1>1, <1>2, <1>3, OneTurned
<1>5. Turned(k) = [Row(k) EXCEPT !.status = "stopped"]
  BY <1>1, <1>2, <1>3 DEF Row, Alike, Standing, Turned
<1>6. Rows' = [Rows EXCEPT ![k] = [Rows[k] EXCEPT !.status = "stopped"]] /\ Rows[k].status = "pending"
  BY <1>1, <1>4, <1>5 DEF Rows, Row, Standing
<1>7. QED
  BY <1>1, <1>6 DEF Decisions!Refuse, Decisions!Sets, Rows, Row

(* A click is a decision: one more letter is owed. *)
LEMMA ClickRefines ==
  ASSUME DInv, NEW k \in Ids, NEW j \in Jobs
  PROVE  /\ Approve(k, j) => Decisions!Agree(k)
         /\ Retry(k, j) => Decisions!Again(k)
<1> SUFFICES ASSUME Approve(k, j) \/ Retry(k, j)
             PROVE  /\ Approve(k, j) => Decisions!Agree(k)
                    /\ Retry(k, j) => Decisions!Again(k)
  OBVIOUS
<1>1. TypeOK /\ JobInv /\ UNCHANGED open /\ jobs[j] = Idle
  BY DEF DInv, IInv, Approve, Retry
<1>2. /\ Rewrites(k) /\ proposals'[k].letters = proposals[k].letters /\ Ids' = Ids
      /\ Approve(k, j) => proposals[k].status = "pending" /\ proposals'[k].status = "approved"
      /\ Retry(k, j) => proposals[k].status \in {"failed", "rejected"} /\ proposals'[k].status = proposals[k].status
  BY <1>1, Effects, Rewritings DEF Approve, Retry
<1>3. PICK by \in {"approval", "retry"} :
        jobs' = [jobs EXCEPT ![j] = Performing(by, proposals[k].wait, proposals[k].also, k)]
  BY DEF Approve, Retry
<1> DEFINE new == Performing(by, proposals[k].wait, proposals[k].also, k)
<1>4. \A i \in Ids : ~Owes(jobs[j], i) /\ (Owes(new, i) <=> i = k)
  BY <1>1, NoZeroId DEF Owes, Performing, Idle
<1> HIDE DEF new
<1>5. Cardinality(Owing(k)') = Cardinality(Owing(k)) + 1
  BY <1>1, <1>3, <1>4, OwingOneJob DEF new
<1>6. \A i \in Ids : i # k => Cardinality(Owing(i)') = Cardinality(Owing(i))
  BY <1>1, <1>3, <1>4, OwingOneJob DEF new
<1>7. Rows' = [Rows EXCEPT ![k] = Turned(k)] /\ Rows[k] = Row(k)
  BY <1>1, <1>2, <1>6, OneTurned DEF Rows
<1>8. CASE Approve(k, j)
  <2>1. Turned(k) = [Row(k) EXCEPT !.status = "going", !.owed = Row(k).owed + 1]
    <3>1. Standing(proposals'[k].status) = "going"
      BY <1>2, <1>8 DEF Standing
    <3>2. Turned(k) = [Row(k) EXCEPT !.status = "going", !.owed = Cardinality(Owing(k)) + 1]
      <4> DEFINE going == [key |-> DedupKey(proposals[k].wait), status |-> "going",
                           owed |-> Cardinality(Owing(k)), letters |-> proposals[k].letters]
      <4>1. [Row(k) EXCEPT !.status = "going"] = going
        BY DEF Row
      <4>2. [going EXCEPT !.owed = Cardinality(Owing(k)) + 1] = Turned(k)
        BY <1>2, <1>5, <3>1 DEF Turned
      <4> HIDE DEF going
      <4>3. QED
        BY <4>1, <4>2
    <3>3. QED
      BY <3>2 DEF Row
  <2>2. Rows' = [Rows EXCEPT ![k] = [Rows[k] EXCEPT !.status = "going", !.owed = @ + 1]] /\ Rows[k].status = "pending"
    BY <1>2, <1>7, <1>8, <2>1 DEF Row, Standing
  <2>3. Decisions!Agree(k) /\ ~Retry(k, j)
    BY <1>1, <1>2, <1>8, <2>2 DEF Decisions!Agree, Decisions!Sets, Rows, Row
  <2>4. QED
    BY <2>3
<1>9. CASE Retry(k, j)
  <2>1. Turned(k) = [Row(k) EXCEPT !.owed = @ + 1]
    BY <1>2, <1>5, <1>9 DEF Row, Turned
  <2>2. Rows' = [Rows EXCEPT ![k] = [Rows[k] EXCEPT !.owed = @ + 1]] /\ Rows[k].status = "stopped"
    BY <1>2, <1>7, <1>9, <2>1 DEF Row, Standing
  <2>3. Decisions!Again(k) /\ ~Approve(k, j)
    BY <1>1, <1>2, <1>9, <2>2 DEF Decisions!Again, Decisions!Sets, Rows, Row
  <2>4. QED
    BY <2>3
<1>10. QED
  BY <1>8, <1>9

(* A job that was about the chase k no longer owes it a letter: it went, or the decision is spent. *)
LEMMA SpentRefines ==
  ASSUME DInv, NEW j \in Jobs, NEW new, jobs' = [jobs EXCEPT ![j] = new], NEW k \in Ids, jobs[j].proposal = k,
         Rewrites(k), Ids' = Ids, proposals'[k].status = proposals[k].status, UNCHANGED open,
         \A i \in Ids : ~Owes(new, i)
  PROVE  /\ jobs[j].pc = "performing" /\ proposals'[k].letters = proposals[k].letters + 1 => Decisions!Letter(k)
         /\ jobs[j].pc = "performing" /\ proposals'[k].letters = proposals[k].letters => Decisions!Waive(k)
         /\ jobs[j].pc # "performing" /\ proposals'[k].letters = proposals[k].letters => Rows' = Rows
<1>1. TypeOK /\ JobInv /\ \A i \in Ids : Owes(jobs[j], i) <=> i = k /\ jobs[j].pc = "performing"
  BY DEF DInv, IInv, Owes
<1>2. \A i \in Ids : i # k => Cardinality(Owing(i)') = Cardinality(Owing(i))
  BY <1>1, OwingOneJob
<1>3. Rows' = [Rows EXCEPT ![k] = Turned(k)] /\ Rows[k] = Row(k)
  BY <1>1, <1>2, OneTurned DEF Rows
<1>4. CASE jobs[j].pc = "performing"
  <2> DEFINE c == Cardinality(Owing(k))
             d == Cardinality(Owing(k)')
  <2>1. c \in Nat /\ d \in Nat /\ d = c - 1
    BY <1>1, <1>4, OwingOneJob
  <2> HIDE DEF c, d
  <2>2. c > 0
    BY <2>1
  <2>3. Rows[k].owed > 0
    BY <1>3, <2>2 DEF Row, c
  <2>4. ASSUME proposals'[k].letters = proposals[k].letters + 1 PROVE Decisions!Letter(k)
    <3>1. Turned(k) = [Row(k) EXCEPT !.owed = c - 1, !.letters = proposals[k].letters + 1]
      <4> DEFINE paid == [key |-> DedupKey(proposals[k].wait), status |-> Standing(proposals[k].status),
                          owed |-> c - 1, letters |-> proposals[k].letters]
      <4>1. [Row(k) EXCEPT !.owed = c - 1] = paid
        BY DEF Row
      <4>2. [paid EXCEPT !.letters = proposals[k].letters + 1] = Turned(k)
        BY <2>1, <2>4 DEF Turned, d
      <4> HIDE DEF paid
      <4>3. QED
        BY <4>1, <4>2
    <3>2. Rows' = [Rows EXCEPT ![k] = [Rows[k] EXCEPT !.owed = @ - 1, !.letters = @ + 1]]
      BY <1>3, <3>1 DEF Row, c
    <3>3. QED
      BY <2>3, <3>2 DEF Decisions!Letter, Decisions!Sets, Rows, Row
  <2>5. ASSUME proposals'[k].letters = proposals[k].letters PROVE Decisions!Waive(k)
    <3>1. Turned(k) = [Row(k) EXCEPT !.owed = @ - 1]
      BY <2>1, <2>5 DEF Row, Turned, c, d
    <3>2. QED
      BY <1>3, <2>3, <3>1 DEF Decisions!Waive, Decisions!Sets, Rows, Row
  <2>6. QED
    BY <1>4, <2>4, <2>5
<1>5. CASE jobs[j].pc # "performing" /\ proposals'[k].letters = proposals[k].letters
  <2>1. Cardinality(Owing(k)') = Cardinality(Owing(k))
    BY <1>1, <1>5, OwingOneJob
  <2>2. Turned(k) = Row(k)
    BY <1>5, <2>1 DEF Row, Turned
  <2>3. QED
    BY <1>3, <1>5, <2>2 DEF Rows
<1>6. QED
  BY <1>4, <1>5

Steady == UNCHANGED open /\ Rows' = Rows

LEMMA SendRefines ==
  ASSUME DInv, NEW j \in Jobs, Send(j)
  PROVE  Steady \/ \E k \in Ids : Decisions!Letter(k) \/ Decisions!Waive(k)
<1> DEFINE job == jobs[j]
           went == [job EXCEPT !.pc = "recording", !.left = {job.wait} \cup (job.also \cap open)]
<1>1. /\ IInv /\ TypeOK /\ job \in JobRecords /\ job.pc = "performing" /\ UNCHANGED open
      /\ job.proposal # 0 => job.proposal \in Ids
  BY JobTypes DEF DInv, IInv, Send
<1>k. PICK k \in Ids \cup {0} : k = job.proposal
  BY <1>1
<1>2. \A i \in Ids : ~Owes(went, i)
  BY <1>1 DEF Owes, JobRecords
<1>3. \A i \in Ids : ~Owes(AfterFailure(job), i)
  BY <1>1, NoZeroId DEF Owes, AfterFailure, Idle, JobRecords
<1> HIDE DEF went
<1>4. CASE k = 0
  <2>1. PICK new \in {went, AfterFailure(job)} : jobs' = [jobs EXCEPT ![j] = new] /\ UNCHANGED proposals
    BY <1>k, <1>4 DEF Send, went
  <2>2. \A i \in Ids : Owes(job, i) <=> Owes(new, i)
    BY <1>2, <1>3, <1>4, <1>k, NoZeroId DEF Owes
  <2>3. QED
    BY <1>1, <2>1, <2>2, JobApart DEF Steady
<1>5. CASE k \in Ids
  <2>1. k # 0
    BY <1>5, NoZeroId
  <2>2. CASE proposals' = [proposals EXCEPT ![k].letters = @ + 1] /\ jobs' = [jobs EXCEPT ![j] = went]
    <3>1. Rewrites(k) /\ proposals'[k].status = proposals[k].status /\ proposals'[k].letters = proposals[k].letters + 1
      BY <1>1, <1>5, <2>2, Effects
    <3>2. Ids' = Ids
      BY <1>1, <1>5, <2>2, Rewritings
    <3>3. Decisions!Letter(k)
      BY <1>1, <1>2, <1>5, <2>2, <3>1, <3>2, <1>k, SpentRefines
    <3>4. QED
      BY <1>5, <3>3
  <2>3. CASE UNCHANGED proposals /\ jobs' = [jobs EXCEPT ![j] = AfterFailure(job)]
    <3>1. Rewrites(k) /\ Ids' = Ids
      BY <1>1, <1>5, <2>3, ProposalTypes DEF Rewrites, Ids
    <3>2. Decisions!Waive(k)
      BY <1>1, <1>3, <1>5, <2>3, <3>1, <1>k, SpentRefines
    <3>3. QED
      BY <1>5, <3>2
  <2>4. QED
    BY <1>k, <2>1, <2>2, <2>3 DEF Send, went
<1>6. QED
  BY <1>1, <1>4, <1>5

LEMMA CrashRefines ==
  ASSUME DInv, NEW j \in Jobs, Crash(j)
  PROVE  Steady \/ \E k \in Ids : Decisions!Waive(k)
<1>1. /\ IInv /\ TypeOK /\ UNCHANGED open /\ jobs' = [jobs EXCEPT ![j] = Idle]
      /\ jobs[j].proposal # 0 => jobs[j].proposal \in Ids
  BY JobTypes DEF DInv, IInv, Crash
<1>k. PICK k \in Ids \cup {0} : k = jobs[j].proposal
  BY <1>1
<1>2. \A i \in Ids : ~Owes(Idle, i)
  BY DEF Owes, Idle
<1>3. CASE k = 0
  <2>1. UNCHANGED proposals /\ \A i \in Ids : Owes(jobs[j], i) <=> Owes(Idle, i)
    BY <1>k, <1>2, <1>3, NoZeroId DEF Owes, Crash
  <2>2. QED
    BY <1>1, <2>1, JobApart DEF Steady
<1>4. CASE k \in Ids
  <2>1. proposals' = [proposals EXCEPT ![k].lost = TRUE]
    BY <1>k, <1>4, NoZeroId DEF Crash
  <2>2. Rewrites(k) /\ proposals'[k].status = proposals[k].status /\ proposals'[k].letters = proposals[k].letters
    BY <1>1, <1>4, <2>1, Effects
  <2>3. Ids' = Ids
    BY <1>1, <1>4, <2>1, Rewritings
  <2>4. Decisions!Waive(k) \/ Rows' = Rows
    BY <1>1, <1>2, <1>4, <2>2, <2>3, <1>k, SpentRefines
  <2>5. QED
    BY <1>1, <1>4, <2>4 DEF Steady
<1>5. QED
  BY <1>1, <1>3, <1>4

(* The failure of an approved chase is recorded by the one job that is about it, and it owes no letter. *)
LEMMA FailRefines ==
  ASSUME DInv, NEW j \in Jobs, Fail(j)
  PROVE  \E k \in Ids : Decisions!Failed(k)
<1> DEFINE job == jobs[j]
           new == [job EXCEPT !.pc = "reporting"]
<1>1. /\ TypeOK /\ JobInv /\ job \in JobRecords /\ job.pc = "failed" /\ UNCHANGED open
      /\ job.proposal \in Ids /\ Carries(job)
  BY JobTypes DEF DInv, IInv, Fail, JobOK, Carries, Ids
<1>k. PICK k \in Ids : k = job.proposal
  BY <1>1
<1>2. /\ proposals[k].status = "approved"
      /\ \A i \in Jobs : jobs[i].proposal = k => i = j
  BY <1>1, <1>k DEF DInv, Alone
<1>3. jobs' = [jobs EXCEPT ![j] = new] /\ proposals' = [proposals EXCEPT ![k].status = "failed"]
  BY <1>1, <1>k DEF Fail, JobInv
<1>4. \A i \in Ids : ~Owes(job, i) /\ ~Owes(new, i)
  BY <1>1 DEF Owes, JobRecords
<1> HIDE DEF new
<1>5. \A i \in Ids : Cardinality(Owing(i)') = Cardinality(Owing(i))
  BY <1>1, <1>3, <1>4, OwingOneJob
<1>6. Owing(k) = {}
  BY <1>1, <1>2 DEF Owing
<1>7. Rewrites(k) /\ Alike(k) /\ proposals'[k].status = "failed" /\ Ids' = Ids
  <2>1. "failed" \in Statuses
    BY DEF Statuses
  <2>2. QED
    BY <1>1, <1>3, <2>1, Effects, Rewritings
<1>8. Rows' = [Rows EXCEPT ![k] = Turned(k)] /\ Rows[k] = Row(k)
  BY <1>1, <1>5, <1>7, OneTurned DEF Rows
<1>9. Turned(k) = [Row(k) EXCEPT !.status = "stopped"]
  <2>1. Standing(proposals'[k].status) = "stopped" /\ proposals'[k].letters = proposals[k].letters
    BY <1>7 DEF Standing, Alike
  <2>2. QED
    BY <1>1, <1>5, <2>1 DEF Row, Turned
<1>10. Rows[k].status = "going" /\ Rows[k].owed = 0
  BY <1>2, <1>6, <1>8, FS_EmptySet DEF Row, Standing
<1>11. Decisions!Failed(k)
  BY <1>1, <1>8, <1>9, <1>10 DEF Decisions!Failed, Decisions!Sets, Rows, Row
<1>12. QED
  BY <1>1, <1>11

LEMMA RetriedRefines ==
  ASSUME DInv, NEW j \in Jobs, Retried(j)
  PROVE  Steady \/ \E k \in Ids : Decisions!Went(k)
<1> DEFINE job == jobs[j]
           new == [job EXCEPT !.pc = "closing"]
<1>1. /\ IInv /\ TypeOK /\ JobInv /\ job \in JobRecords /\ job.pc = "retried" /\ UNCHANGED open
      /\ job.proposal \in Ids
  BY JobTypes DEF DInv, IInv, Retried, JobOK, Ids
<1>k. PICK k \in Ids : k = job.proposal
  BY <1>1
<1>2. \A i \in Ids : ~Owes(job, i) /\ ~Owes(new, i) /\ ~Owes(Idle, i)
  BY <1>1 DEF Owes, JobRecords, Idle
<1>3. CASE proposals[k].status \in {"failed", "rejected"}
  <2>1. jobs' = [jobs EXCEPT ![j] = new] /\ proposals' = [proposals EXCEPT ![k].status = "approved"]
    BY <1>1, <1>k, <1>3 DEF Retried, JobInv
  <2> HIDE DEF new
  <2>2. \A i \in Ids : Cardinality(Owing(i)') = Cardinality(Owing(i))
    BY <1>1, <1>2, <2>1, OwingOneJob
  <2>3. Rewrites(k) /\ Alike(k) /\ proposals'[k].status = "approved" /\ Ids' = Ids
    <3>1. "approved" \in Statuses
      BY DEF Statuses
    <3>2. QED
      BY <1>1, <2>1, <3>1, Effects, Rewritings
  <2>4. Rows' = [Rows EXCEPT ![k] = Turned(k)] /\ Rows[k] = Row(k)
    BY <1>1, <2>2, <2>3, OneTurned DEF Rows
  <2>5. Turned(k) = [Row(k) EXCEPT !.status = "going"]
    <3>1. Standing(proposals'[k].status) = "going" /\ proposals'[k].letters = proposals[k].letters
      BY <2>3 DEF Standing, Alike
    <3>2. QED
      BY <1>1, <2>2, <3>1 DEF Row, Turned
  <2>6. Rows[k].status = "stopped" /\ Rows[k].letters > 0
    <3>1. proposals[k].letters > 0
      BY <1>1, <1>k, NoZeroId, JobTypes DEF JobOK
    <3>2. QED
      BY <1>3, <2>4, <3>1 DEF Row, Standing
  <2>7. Decisions!Went(k)
    BY <1>1, <2>4, <2>5, <2>6 DEF Decisions!Went, Decisions!Sets, Rows, Row
  <2>8. QED
    BY <1>1, <2>7
<1>4. CASE proposals[k].status \notin {"failed", "rejected"}
  <2>1. jobs' = [jobs EXCEPT ![j] = Idle] /\ UNCHANGED proposals
    BY <1>k, <1>4 DEF Retried
  <2>2. QED
    BY <1>1, <1>2, <2>1, JobApart DEF Steady
<1>5. QED
  BY <1>3, <1>4

(* A chase is proposed, unless one for its key is pending; it is withdrawn at once if it is not outstanding. *)
LEMMA ProposeRefines ==
  ASSUME DInv, NEW j \in Jobs, Propose(j)
  PROVE  Steady \/ \E key \in Waits \cup {Replies} : Decisions!Put(key)
<1> DEFINE job == jobs[j]
           key == DedupKey(job.wait)
           new == NewProposal(job)
           ps == Append(proposals, new)
           n == Len(proposals) + 1
           x == [key |-> key, status |-> IF key \in open THEN "pending" ELSE "stopped", owed |-> 0, letters |-> 0]
<1>1. /\ IInv /\ TypeOK /\ JobInv /\ job \in JobRecords /\ job.pc = "proposing" /\ job.wait \in Waits
      /\ jobs' = [jobs EXCEPT ![j] = Idle] /\ UNCHANGED open
      /\ proposals \in Seq(Proposals) /\ Len(proposals) \in Nat /\ open \in SUBSET Waits
  BY JobTypes, ProposalTypes DEF DInv, IInv, Propose, JobOK
<1>2. \A i : ~Owes(job, i) /\ ~Owes(Idle, i)
  BY <1>1 DEF Owes, Idle
<1>3. CASE UNCHANGED proposals
  BY <1>1, <1>2, <1>3, JobApart DEF Steady
<1>4. CASE ~Pending(key) /\ proposals' = Withdrawn(ps, open)
  <2>1. /\ new \in Proposals /\ new.wait = job.wait /\ new.letters = 0 /\ new.status = "pending"
    BY <1>1, NewProposalType
  <2> HIDE DEF new
  <2>2. ps \in Seq(Proposals) /\ Len(ps) = n /\ ps[n] = new /\ \A i \in Ids : ps[i] = proposals[i]
    BY <1>1, <2>1, AppendProperties DEF Ids
  <2> HIDE DEF ps
  <2>3. n \in Nat /\ 1..Len(ps) = Ids \cup {n} /\ n \notin Ids
    BY <1>1, <2>2 DEF Ids
  <2>4. Ids' = Ids \cup {n}
    BY <1>1, <1>4, <2>2, <2>3, WithdrawnEffect DEF Ids
  <2>5. \A i \in Ids \cup {n} :
          /\ proposals'[i].wait = ps[i].wait /\ proposals'[i].letters = ps[i].letters
          /\ proposals'[i].status = IF ps[i].status = "pending" /\ DedupKey(ps[i].wait) \notin open
                                    THEN "rejected" ELSE ps[i].status
    BY <1>1, <1>4, <2>2, <2>3, WithdrawnStatus
  <2>6. \A i : Cardinality(Owing(i)') = Cardinality(Owing(i))
    BY <1>1, <1>2, OwingOneJob
  <2>7. ASSUME NEW i \in Ids PROVE Row(i)' = Row(i)
    <3>1. ps[i] = proposals[i] /\ (proposals[i].status = "pending" => DedupKey(proposals[i].wait) \in open)
      BY <2>2 DEF DInv, KeyOpen
    <3>2. SameRow(i)
      BY <2>5, <2>6, <3>1 DEF SameRow
    <3>3. QED
      BY <3>2, RowKept
  <2>8. ASSUME NEW m, m = n PROVE Row(m)' = x
    <3>1. Owing(m) = {}
      BY <1>1, <2>3, <2>8, NoZeroId DEF Owing, TypeOK
    <3>2. Cardinality(Owing(m)') = 0
      BY <2>6, <3>1, FS_EmptySet
    <3>3. /\ proposals'[m].wait = job.wait /\ proposals'[m].letters = 0
          /\ proposals'[m].status = IF key \in open THEN "pending" ELSE "rejected"
      BY <2>1, <2>2, <2>3, <2>5, <2>8
    <3>4. Standing(proposals'[m].status) = IF key \in open THEN "pending" ELSE "stopped"
      BY <3>3 DEF Standing
    <3>5. Row(m)' = [key |-> DedupKey(proposals'[m].wait), status |-> Standing(proposals'[m].status),
                     owed |-> Cardinality(Owing(m)'), letters |-> proposals'[m].letters]
      BY DEF Row, DedupKey, Standing, Owing
    <3>6. QED
      BY <3>2, <3>3, <3>4, <3>5
  <2> HIDE DEF x
  <2>9. Rows' = Append(Rows, x)
    <3> DEFINE S == {Row(i) : i \in Ids}
    <3>1. Rows \in [1..Len(proposals) -> S]
      BY DEF Rows, Ids
    <3>2. Rows \in Seq(S \cup {x}) /\ Len(Rows) = Len(proposals)
      BY <1>1, <3>1
    <3>3. Append(Rows, x) = [i \in Ids \cup {n} |-> IF i = n THEN x ELSE Rows[i]]
      <4> HIDE DEF S
      <4> DEFINE app == Append(Rows, x)
      <4>1. app \in Seq(S \cup {x}) /\ Len(app) = n /\ app[n] = x /\ \A i \in 1..Len(proposals) : app[i] = Rows[i]
        BY <1>1, <3>2, AppendProperties
      <4>2. app = [i \in Ids \cup {n} |-> app[i]] /\ Ids = 1..Len(proposals)
        <5>1. 1..n = Ids \cup {n} /\ Ids = 1..Len(proposals)
          BY <2>2, <2>3 DEF Ids
        <5> HIDE DEF app, n
        <5>2. app = [i \in 1..n |-> app[i]]
          BY <4>1
        <5>3. QED
          BY <5>1, <5>2
      <4> HIDE DEF app, n
      <4>3. QED
        BY <2>3, <4>1, <4>2 DEF app
    <3>4. ASSUME NEW i \in Ids \cup {n} PROVE Row(i)' = IF i = n THEN x ELSE Rows[i]
      BY <2>3, <2>7, <2>8 DEF Rows
    <3>5. Rows' = [i \in Ids \cup {n} |-> Row(i)']
      BY <2>4 DEF Rows
    <3>6. QED
      BY <3>3, <3>4, <3>5
  <2>10. \A i \in DOMAIN Rows : ~(Rows[i].key = key /\ Rows[i].status = "pending")
    BY <1>4 DEF Rows, Row, Standing, Pending
  <2>11. PICK c \in Waits \cup {Replies} : c = key
    BY <1>1 DEF DedupKey
  <2>12. Decisions!Put(c)
    BY <1>1, <2>9, <2>10, <2>11 DEF Decisions!Put, Rows, Row, x
  <2>13. QED
    BY <2>12
<1>5. QED
  BY <1>3, <1>4 DEF Propose

(* A failure that cannot be recorded leaves the chase approved. *)
LEMMA FailLostSteady ==
  ASSUME DInv, NEW j \in Jobs, FailLost(j)
  PROVE  Steady
<1> DEFINE job == jobs[j]
           new == [job EXCEPT !.pc = "reporting"]
<1>1. /\ IInv /\ TypeOK /\ JobInv /\ job \in JobRecords /\ job.pc = "failed" /\ UNCHANGED open /\ job.proposal \in Ids
  BY JobTypes DEF DInv, IInv, FailLost, JobOK, Ids
<1>k. PICK k \in Ids : k = job.proposal
  BY <1>1
<1>2. jobs' = [jobs EXCEPT ![j] = new] /\ proposals' = [proposals EXCEPT ![k].lost = TRUE]
  BY <1>1, <1>k DEF FailLost, JobInv
<1>3. \A i \in Ids : ~Owes(job, i) /\ ~Owes(new, i)
  BY <1>1 DEF Owes, JobRecords
<1> HIDE DEF new
<1>4. \A i \in Ids : Cardinality(Owing(i)') = Cardinality(Owing(i))
  BY <1>1, <1>2, <1>3, OwingOneJob
<1>5. Rewrites(k) /\ proposals'[k].status = proposals[k].status /\ proposals'[k].letters = proposals[k].letters
  BY <1>1, <1>2, Effects
<1>6. Ids' = Ids
  BY <1>1, <1>2, Rewritings
<1>7. \A i \in Ids : SameRow(i)
  BY <1>4, <1>5 DEF SameRow, Rewrites
<1>8. QED
  BY <1>1, <1>6, <1>7, RowsKept DEF Steady

(* The steps that change nothing that was promised. *)
LEMMA SteadySteps ==
  ASSUME DInv, NEW j \in Jobs,
         \/ TimerNext(j) \/ Record(j) \/ Report(j) \/ ReportLost(j) \/ Closing(j)
         \/ \E w \in Waits : TimerBegin(j, w) \/ ChaseNow(w, j)
  PROVE  Steady
<1> DEFINE job == jobs[j]
<1>1. /\ IInv /\ JobInv /\ job \in JobRecords /\ JobOK(job, proposals) /\ UNCHANGED proposals /\ UNCHANGED open
  BY JobTypes DEF DInv, IInv, TimerNext, Record, Report, ReportLost, Closing, TimerBegin, ChaseNow, case
<1>2. SUFFICES \E new : jobs' = [jobs EXCEPT ![j] = new] /\ \A k \in Ids : Owes(job, k) <=> Owes(new, k)
  BY <1>1, JobApart DEF Steady
<1>3. \A k \in Ids : ~Owes(Idle, k) /\ ~Owes(AfterFailure(job), k)
  BY <1>1 DEF Owes, AfterFailure, Idle, JobRecords
<1>4. CASE TimerNext(j)
  <2>1. \A k \in Ids : /\ ~Owes(job, k) /\ ~Owes([job EXCEPT !.pc = "performing"], k)
                       /\ ~Owes([job EXCEPT !.pc = "proposing"], k)
    BY <1>1, <1>4, NoZeroId DEF TimerNext, JobOK, Owes, JobRecords
  <2>2. \/ jobs' = [jobs EXCEPT ![j] = [job EXCEPT !.pc = "performing"]]
        \/ jobs' = [jobs EXCEPT ![j] = [job EXCEPT !.pc = "proposing"]]
        \/ jobs' = [jobs EXCEPT ![j] = Idle]
    BY <1>1, <1>4 DEF TimerNext
  <2>3. QED
    BY <1>3, <2>1, <2>2
<1>5. CASE Record(j)
  <2>1. job.pc = "recording" /\ \A k \in Ids : ~Owes(job, k)
    BY <1>5 DEF Record, Recording, Owes
  <2>2. \A w \in job.left, k \in Ids : ~Owes(Chased(job, w), k)
    BY <1>1, <2>1 DEF Chased, AfterSent, Owes, Idle, JobRecords
  <2>3. PICK w \in job.left : jobs' = [jobs EXCEPT ![j] = AfterFailure(job)] \/ jobs' = [jobs EXCEPT ![j] = Chased(job, w)]
    BY <1>5 DEF Record
  <2>4. QED
    BY <1>3, <2>1, <2>2, <2>3
<1>6. CASE Report(j) \/ ReportLost(j) \/ Closing(j)
  BY <1>3, <1>6 DEF Report, ReportLost, Closing, Owes
<1>7. CASE \E w \in Waits : TimerBegin(j, w) \/ ChaseNow(w, j)
  <2>1. PICK w \in Waits : TimerBegin(j, w) \/ ChaseNow(w, j)
    BY <1>7
  <2> DEFINE begun == [Idle EXCEPT !.pc = "choosing", !.by = "timer", !.wait = w, !.also = Also(w, open)]
             chasing == Performing("person", w, Also(w, open), 0)
  <2>2. \A k \in Ids : ~Owes(begun, k) /\ ~Owes(chasing, k)
    BY NoZeroId DEF Owes, Performing, Idle
  <2>3. job = Idle /\ (jobs' = [jobs EXCEPT ![j] = begun] \/ jobs' = [jobs EXCEPT ![j] = chasing])
    BY <2>1 DEF TimerBegin, ChaseNow
  <2> HIDE DEF begun, chasing
  <2>4. QED
    BY <1>3, <2>2, <2>3
<1>8. QED
  BY <1>4, <1>5, <1>6, <1>7

LEMMA DecisionsInit == Init => Decisions!Init
<1> SUFFICES ASSUME Init PROVE Decisions!Init
  OBVIOUS
<1>1. Ids = {} /\ open = {}
  BY DEF Init, Ids
<1>2. \A f : DOMAIN f = {} /\ f = [k \in {} |-> f[k]] => f = <<>>
  OBVIOUS
<1>3. Rows = <<>>
  BY <1>1, <1>2 DEF Rows
<1>4. QED
  BY <1>1, <1>3 DEF Decisions!Init, Rows, Row

LEMMA DecisionsStep == DInv /\ [Next]_vars => [Decisions!Next]_(Decisions!vars)
<1> SUFFICES ASSUME DInv, [Next]_vars PROVE [Decisions!Next]_(Decisions!vars)
  OBVIOUS
<1>1. TypeOK /\ DOMAIN Rows = Ids
  BY DEF DInv, IInv, Rows
<1>2. Steady => UNCHANGED Decisions!vars
  BY DEF Steady, Decisions!vars, Rows, Row
<1>3. ASSUME NEW k \in Ids,
             \/ Decisions!Agree(k) \/ Decisions!Refuse(k) \/ Decisions!Again(k) \/ Decisions!Letter(k)
             \/ Decisions!Waive(k) \/ Decisions!Failed(k) \/ Decisions!Went(k)
      PROVE  Decisions!Next
  BY <1>3 DEF Decisions!Next
<1>4. CASE \E w \in Waits : OpenWait(w) \/ Arrive(w)
  BY <1>4, TurnRefines DEF Decisions!Next
<1>5. CASE (\E w \in Waits : FallDue(w)) \/ ResolveTask \/ Complete \/ UNCHANGED vars
  <2>1. UNCHANGED <<open, proposals, jobs>>
    BY <1>5 DEF FallDue, ResolveTask, Complete, vars
  <2>2. Steady
    BY <2>1 DEF Steady, Rows, Row, Ids, DedupKey, Standing, Owing
  <2>3. QED
    BY <1>2, <2>2
<1>6. CASE \E k \in Ids : QuietEnds(k)
  <2>1. PICK k \in Ids : QuietEnds(k)
    BY <1>6
  <2>2. UNCHANGED <<open, jobs>> /\ Ids' = Ids /\ Rewrites(k) /\ Alike(k) /\ proposals'[k].status = proposals[k].status
    BY <1>1, <2>1, Rewritings, Effects DEF QuietEnds
  <2>3. \A i \in Ids : SameRow(i)
    BY <2>2 DEF SameRow, Rewrites, Alike, Owing
  <2>4. Steady
    BY <2>2, <2>3, RowsKept DEF Steady
  <2>5. QED
    BY <1>2, <2>4
<1>7. CASE \E k \in Ids : Reject(k)
  BY <1>3, <1>7, RefuseRefines
<1>8. CASE \E j \in Jobs, k \in Ids : Approve(k, j) \/ Retry(k, j)
  BY <1>3, <1>8, ClickRefines
<1>9. CASE \E j \in Jobs : Propose(j)
  BY <1>2, <1>9, ProposeRefines DEF Decisions!Next
<1>10. CASE \E j \in Jobs : Send(j) \/ Crash(j) \/ Fail(j) \/ FailLost(j) \/ Retried(j)
  BY <1>2, <1>3, <1>10, SendRefines, CrashRefines, FailRefines, FailLostSteady, RetriedRefines
<1>11. CASE \E j \in Jobs : \/ TimerNext(j) \/ Record(j) \/ Report(j) \/ ReportLost(j) \/ Closing(j)
                            \/ \E w \in Waits : TimerBegin(j, w) \/ ChaseNow(w, j)
  BY <1>2, <1>11, SteadySteps
<1>12. QED
  BY <1>4, <1>5, <1>6, <1>7, <1>8, <1>9, <1>10, <1>11 DEF Next, JobStep

(* However runs of the timer, approvals, retries, failures and crashes interleave, what people see of the chases is *)
(* one for a key at a time, a letter for a decision and no other, a failure only once nothing is owed, and a         *)
(* revival only of what went. *)
THEOREM ChasesKeepDecisions == Spec => DecisionsSpec
<1>1. Init => Decisions!Init
  BY DecisionsInit
<1>2. DInv /\ [Next]_vars => [Decisions!Next]_(Decisions!vars)
  BY DecisionsStep
<1>3. QED
  BY <1>1, <1>2, DInvHolds, PTL DEF Spec, DecisionsSpec, Decisions!Spec
=============================================================================

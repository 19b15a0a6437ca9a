----------------------- MODULE RequestLifecycleProofs -----------------------
(***************************************************************************)
(* ExecutionQueue implements RequestLifecycle, a linked session is one of  *)
(* the request's own objective, and on the SQLite client a stop is final.  *)
(*                                                                         *)
(* What a transaction read is compared with the row when it writes, but    *)
(* two of the UPDATEs compare less than the whole row: the link looks at   *)
(* the revision and the missing session only, and the branch report        *)
(* writes the revision it read plus one whatever the row's is by then.     *)
(* That neither revives a settled request, nor lets a launched request     *)
(* with an agent expire, is a matter of who can change a row in which      *)
(* status (PlaceOK) and of how revisions grow meanwhile (BranchOK,         *)
(* AttachOK, ExpireOK).                                                    *)
(***************************************************************************)
EXTENDS ExecutionQueueProofs

SettledStatuses == {"failed", "cleared", "expired"}

\* The status each call requires of the rows it read.
StatusRead(op) ==
    CASE op = "claim"                           -> {"queued"}
      [] op = "launching"                       -> {"claimed"}
      [] op = "launched"                        -> {"launching"}
      [] op = "complete"                        -> {"claimed", "launching"}
      [] op \in {"failed", "clear", "dequeue"}  -> ACTIVE_EXECUTION_REQUEST_STATUSES
      [] op = "expire"                          -> {"claimed", "launched"}
      [] op = "attach"                          -> LinkableStatuses
      [] OTHER                                  -> Statuses

\* The reports of a runner about the request it holds, and about no other.
OwnReports == {"launching", "launched", "complete", "branch"}

\* The state of an objective no runner works on: a stop or a deletion dequeued it.
Parked(o) == (o.deleted /\ ~o.discarded) \/ o.phase = "stopped"

Runs(r) == req[r].source # Mutation => ~Parked(obj[req[r].objective])

-----------------------------------------------------------------------------
(***************************************************************************)
(* The strengthening, by what it is about.                                 *)
(***************************************************************************)

ReadsOK == \A a \in Actors : \A s \in tx[a].rows : s.status \in StatusRead(tx[a].op)

ReportsOwn ==
    \A p \in Runners : tx[p].op \in OwnReports =>
        \A s \in tx[p].rows : s.id = runner[p].held

\* Between the report that it is launching and the spawn, the request of a
\* runner can only be settled: nobody else reports on it.
PlaceOK ==
    \A p \in Runners : runner[p].pc = "launching" =>
        req[runner[p].held].status \in {"launching"} \cup SettledStatuses

\* A branch report in flight knows the revision of a row it may write twice.
BranchOK ==
    \A p \in Runners : tx[p].op = "branch" => \A b \in tx[p].rows :
        (req[b.id].status = "launching" /\ req[b.id].session = None)
        => req[b.id].revision = b.revision

\* A row that was linkable when it was read and was settled since has a newer
\* revision, and no branch report in flight will take that back.
AttachOK ==
    \A a \in Actors : tx[a].op = "attach" =>
        /\ \A s, t \in tx[a].rows : s = t
        /\ \A s \in tx[a].rows :
              /\ req[s.id].status \in LinkableStatuses \cup SettledStatuses
              /\ req[s.id].session = None =>
                    /\ s.revision <= req[s.id].revision
                    /\ req[s.id].status \in SettledStatuses => s.revision < req[s.id].revision
                    /\ \A p \in Runners : tx[p].op = "branch" =>
                          \A b \in tx[p].rows : b.id = s.id => s.revision <= b.revision

\* A launched row an expiry read has a newer revision once it is linked.
ExpireOK ==
    \A a \in Actors : tx[a].op = "expire" => \A s \in tx[a].rows : s.status = "launched" =>
        /\ req[s.id].status \in {"launched"} \cup SettledStatuses
        /\ req[s.id].status = "launched" =>
              /\ s.revision <= req[s.id].revision
              /\ req[s.id].session # None => s.revision < req[s.id].revision

BlankOK ==
    \A r \in Requests : req[r].status = "none" => req[r].owner = None /\ req[r].session = None

ObjectivesOK ==
    /\ \A r \in Requests : req[r].status # "none" => req[r].objective \in Objectives
    /\ \A a \in Actors : tx[a].op \in {"attach", "launch", "dequeue"} =>
          tx[a].objective \in Objectives

\* An attach in flight is about the objective of its session and of its row.
LinkOK ==
    \A s \in Sessions : tx[s].op = "attach" =>
        /\ sess[s].objective \in {None, tx[s].objective}
        /\ \A w \in tx[s].rows : req[w.id].objective = tx[s].objective

LinkedOK == LinkedToOwnObjective

\* On the SQLite client: one transaction at a time, what it read is still so
\* when it writes, and its objective is still to be run.
Alone ==
    Serialized => \A a, b \in Actors :
        (a # b /\ tx[a].op \in TransactionOps) => tx[b].op \notin TransactionOps

Current ==
    Serialized => \A a \in Actors : tx[a].op \in TransactionOps =>
        \A s \in tx[a].rows : Matches(s)

ClaimsRun ==
    Serialized => \A a \in Actors : tx[a].op = "claim" => \A s \in tx[a].rows : Runs(s.id)

DequeuesAll ==
    Serialized => \A a \in Actors : tx[a].op = "dequeue" =>
        \A r \in ActiveRequests(OfObjective(tx[a].objective)) : \E s \in tx[a].rows : s.id = r

StopsOK == Serialized => StoppedIsIdle

RInv == /\ ReadsOK /\ ReportsOwn /\ PlaceOK /\ BranchOK /\ AttachOK /\ ExpireOK
        /\ BlankOK /\ ObjectivesOK /\ LinkOK /\ LinkedOK
        /\ Alone /\ Current /\ ClaimsRun /\ DequeuesAll /\ StopsOK

-----------------------------------------------------------------------------
(***************************************************************************)
(* What a step does to one row, to a session, and to the caller's call.    *)
(***************************************************************************)

\* All that the proof looks at is as it was; the TTL may have passed.
Same(r) ==
    /\ req'[r].status = req[r].status /\ req'[r].owner = req[r].owner
    /\ req'[r].session = req[r].session /\ req'[r].revision = req[r].revision
    /\ req'[r].objective = req[r].objective /\ req'[r].source = req[r].source

Quiet == \A r \in Requests : Same(r)

Queued(r) ==
    /\ req[r].status = "none" /\ req'[r].status = "queued"
    /\ req'[r].owner = None /\ req'[r].session = None
    /\ req'[r].objective \in Objectives

Claimed(r) ==
    /\ req[r].status = "queued" /\ req'[r].status = "claimed"
    /\ req'[r].session = req[r].session
    /\ UNCHANGED obj
    /\ \E p \in Runners : tx[p].op = "claim" /\ \E s \in tx[p].rows : s.id = r

\* The moves of the status graph, and who makes the last one.
MayMove(r, to) ==
    \/ to = "launching" /\ req[r].status = "claimed"
    \/ /\ to = "launched" /\ req[r].status \in {"claimed", "launching"}
       /\ \E p \in Runners : runner[p].held = r /\ runner'[p].pc # "launching"
    \/ to \in {"failed", "cleared"} /\ req[r].status \in ACTIVE_EXECUTION_REQUEST_STATUSES
    \/ to = "expired" /\ req[r].status = "claimed"
    \/ to = "expired" /\ req[r].status = "launched" /\ req[r].session = None

Moves(r) ==
    /\ MayMove(r, req'[r].status)
    /\ req'[r].session = req[r].session
    /\ req'[r].revision = req[r].revision + 1

Branched(r) ==
    /\ req'[r].status = req[r].status /\ req'[r].session = req[r].session
    /\ \E p \in Runners : tx[p].op = "branch" /\ \E b \in tx[p].rows :
          /\ b.id = r /\ req'[r].revision = b.revision + 1
          /\ tx'[p].op = "none"

Linked(r) ==
    /\ req[r].status \in LinkableStatuses /\ req[r].session = None
    /\ req'[r].status = req[r].status /\ req'[r].revision = req[r].revision + 1
    /\ req'[r].session \in Sessions
    /\ sess'[req'[r].session].objective = req[r].objective

RowStep(r) ==
    \/ Same(r)
    \/ Queued(r)
    \/ /\ req'[r].objective = req[r].objective /\ req'[r].source = req[r].source
       /\ Claimed(r) \/ Moves(r) \/ Branched(r) \/ Linked(r)

\* A session gets its objective once, when an attach or a resume opens it.
SessStep(s) ==
    \/ sess'[s].objective = sess[s].objective
    \/ sess[s].objective = None /\ tx'[s].op = "none"

\* An objective is parked by a dequeue only.
ObjStep(o) ==
    \/ Parked(obj[o])
    \/ ~Parked(obj'[o])
    \/ \E a \in Actors : /\ tx[a].op = "dequeue" /\ tx[a].objective = o
                         /\ req' = SetStatus(tx[a].rows, "cleared")

\* A call that begins has just read its rows, and read the right ones.
CallFits(a, call) ==
    /\ call.op # "none"
    /\ \A s \in call.rows : s.id \in Requests /\ s = Take(s.id) /\ s.status \in StatusRead(call.op)
    /\ (a \in Runners /\ call.op \in OwnReports) => \A s \in call.rows : s.id = runner[a].held
    /\ call.op \in {"attach", "launch", "dequeue"} => call.objective \in Objectives
    /\ call.op = "claim" => \A s \in call.rows : Runs(s.id)
    /\ call.op = "expire" => \A s \in call.rows :
          s.status = "launched" => req[s.id].session = None
    /\ call.op = "dequeue" =>
          \A r \in ActiveRequests(OfObjective(call.objective)) : \E s \in call.rows : s.id = r
    /\ call.op = "attach" =>
          /\ \A s, t \in call.rows : s = t
          /\ a \in Sessions /\ sess[a].objective \in {None, call.objective}
          /\ \A s \in call.rows : /\ req[s.id].session = None
                                  /\ req[s.id].objective = call.objective

HasTheLock(a) == NotLockedOut(a) \/ tx[a].op \in TransactionOps

CallStep(a) ==
    \/ tx'[a] = tx[a] /\ tx[a].op = "none"
    \/ tx'[a] = NoTx
    \/ CallFits(a, tx'[a]) /\ HasTheLock(a) /\ UNCHANGED <<req, obj, sess, runner>>

LoopStep(a) ==
    \A p \in Runners : runner'[p].pc = "launching" =>
        \/ runner'[p] = runner[p]
        \/ p = a /\ runner'[p].held = runner[p].held /\ req'[runner[p].held].status = "launching"

\* What is written is written with the lock, and ends the call.
WriteStep(a) == (Quiet /\ UNCHANGED obj) \/ (HasTheLock(a) /\ tx'[a].op = "none")

Refines == Lifecycle!Next \/ UNCHANGED Lifecycle!vars

RowsStep == (\A r \in Requests : RowStep(r)) /\ Refines

StepOK(a) ==
    /\ OthersKept(a) /\ CallStep(a) /\ LoopStep(a) /\ WriteStep(a)
    /\ RowsStep
    /\ \A s \in Sessions : SessStep(s)
    /\ \A o \in Objectives : ObjStep(o)

\* The same of any step, whoever takes it: every call is kept with the loop of
\* its runner, ends, or has just begun.
CallKept(a) ==
    /\ tx'[a] = tx[a]
    /\ (a \in Runners /\ tx[a].op # "none") => runner'[a] = runner[a]

CallBegun(a) ==
    /\ CallFits(a, tx'[a]) /\ HasTheLock(a) /\ UNCHANGED <<req, obj, sess, runner>>
    /\ \A b \in Actors \ {a} : tx'[b] = tx[b]

StepShape ==
    /\ \A a \in Actors : CallKept(a) \/ tx'[a] = NoTx \/ CallBegun(a)
    /\ \A p \in Runners : runner'[p].pc = "launching" =>
          \/ runner'[p] = runner[p]
          \/ runner'[p].held = runner[p].held /\ req'[runner[p].held].status = "launching"
    /\ (Quiet /\ UNCHANGED obj) \/ \E a \in Actors : HasTheLock(a) /\ tx'[a].op = "none"
    /\ RowsStep
    /\ \A s \in Sessions : SessStep(s)
    /\ \A o \in Objectives : ObjStep(o)

-----------------------------------------------------------------------------
(***************************************************************************)
(* A step of that shape keeps the strengthening.                           *)
(***************************************************************************)

LEMMA RowFacts ==
    ASSUME TypeOK, NEW r \in Requests
    PROVE  /\ req[r].status \in Statuses /\ req[r].revision \in Nat
           /\ req[r].session \in Sessions \cup {None}
           /\ req[r].objective \in Objectives \cup {None}
BY DEF TypeOK, Row

\* No two runners hold the same request.
LEMMA OneHolder ==
    ASSUME IInv, NEW p \in Runners, NEW q \in Runners, NEW r \in Requests,
           runner[p].held = r, runner[q].held = r
    PROVE  p = q
BY ActorFacts DEF IInv, HoldsOK

\* A branch report is about the request its runner holds, at "launching".
LEMMA BranchHeld ==
    ASSUME IInv, RInv, NEW p \in Runners, tx[p].op = "branch", NEW b \in tx[p].rows
    PROVE  /\ b.id \in Requests /\ b.revision \in Nat /\ runner[p].held = b.id
           /\ runner[p].pc = "launching"
           /\ req[b.id].status \in {"launching"} \cup SettledStatuses
<1>1. b.id \in Requests /\ b.revision \in Nat
  BY ActorFacts, RowsOf DEF IInv
<1>2. runner[p].held = b.id
  BY DEF RInv, ReportsOwn, OwnReports
<1>3. runner[p].pc = "launching"
  BY DEF IInv, CallOK, CallAt
<1>. QED
  BY <1>1, <1>2, <1>3 DEF RInv, PlaceOK

LEMMA CallsKept ==
    ASSUME IInv, RInv, StepShape
    PROVE  ReadsOK' /\ ReportsOwn'
<1>. USE ActorFacts
<1>1. \A a \in Actors : CallKept(a) \/ tx'[a] = NoTx \/ CallBegun(a)
  BY DEF StepShape
<1>2. ASSUME NEW a \in Actors, NEW s \in tx'[a].rows
      PROVE  s.status \in StatusRead(tx'[a].op)
  BY <1>1, <1>2, NoTxType DEF RInv, ReadsOK, CallKept, CallBegun, CallFits
<1>3. ASSUME NEW p \in Runners, tx'[p].op \in OwnReports, NEW s \in tx'[p].rows
      PROVE  s.id = runner'[p].held
  <2>1. tx'[p].op # "none"
    BY <1>3 DEF OwnReports
  <2>. QED
    BY <1>1, <1>3, <2>1, NoTxType DEF RInv, ReportsOwn, CallKept, CallBegun, CallFits
<1>. QED
  BY <1>2, <1>3 DEF ReadsOK, ReportsOwn

LEMMA PlaceKept ==
    ASSUME IInv, RInv, StepShape
    PROVE  PlaceOK'
<1>. SUFFICES ASSUME NEW p \in Runners, runner'[p].pc = "launching"
              PROVE  req'[runner'[p].held].status \in {"launching"} \cup SettledStatuses
  BY DEF PlaceOK
<1>1. CASE runner'[p].held = runner[p].held /\ req'[runner[p].held].status = "launching"
  BY <1>1
<1>2. CASE runner'[p] = runner[p]
  <2>. DEFINE r == runner[p].held
  <2>1. r \in Requests
    BY <1>2, HeldRequest DEF IInv, Resting
  <2>2. req[r].status \in {"launching"} \cup SettledStatuses
    BY <1>2 DEF RInv, PlaceOK
  <2>3. RowStep(r)
    BY <2>1 DEF StepShape, RowsStep
  <2>4. ~ \E q \in Runners : runner[q].held = r /\ runner'[q].pc # "launching"
    BY <2>1, OneHolder
  <2>5. CASE Moves(r)
    BY <1>2, <2>2, <2>4, <2>5
    DEF Moves, MayMove, SettledStatuses, ACTIVE_EXECUTION_REQUEST_STATUSES
  <2>6. CASE ~Moves(r)
    BY <1>2, <2>2, <2>3, <2>6 DEF RowStep, Same, Queued, Claimed, Branched, Linked, SettledStatuses
  <2>. QED
    BY <2>5, <2>6
<1>. QED
  BY <1>1, <1>2 DEF StepShape

LEMMA BranchKept ==
    ASSUME IInv, RInv, StepShape
    PROVE  BranchOK'
<1>. USE ActorFacts
<1>. SUFFICES ASSUME NEW p \in Runners, tx'[p].op = "branch", NEW b \in tx'[p].rows,
                     req'[b.id].status = "launching", req'[b.id].session = None
              PROVE  req'[b.id].revision = b.revision
  BY DEF BranchOK
<1>1. CASE CallKept(p)
  <2>. DEFINE r == b.id
  <2>1. /\ r \in Requests /\ runner[p].held = r
        /\ req[r].status \in {"launching"} \cup SettledStatuses
    BY <1>1, BranchHeld DEF CallKept
  <2>2. RowStep(r)
    BY <2>1 DEF StepShape, RowsStep
  <2>3. CASE Branched(r)
    <3>1. PICK q \in Runners : /\ tx[q].op = "branch" /\ tx'[q].op = "none"
                               /\ \E c \in tx[q].rows : c.id = r
      BY <2>3 DEF Branched
    <3>2. runner[q].held = r
      BY <3>1, BranchHeld
    <3>. QED
      BY <2>1, <3>1, <3>2, OneHolder
  <2>4. CASE Same(r)
    BY <1>1, <2>4 DEF RInv, BranchOK, CallKept, Same
  <2>5. CASE Moves(r)
    BY <2>1, <2>5 DEF Moves, MayMove, SettledStatuses
  <2>6. ~Queued(r) /\ ~Claimed(r) /\ ~Linked(r)
    BY <2>1, QueueConstants DEF Queued, Claimed, Linked, SettledStatuses
  <2>. QED
    BY <2>2, <2>3, <2>4, <2>5, <2>6 DEF RowStep
<1>2. CASE CallBegun(p)
  BY <1>2, TakeType DEF CallBegun, CallFits, IInv
<1>. QED
  BY <1>1, <1>2, NoTxType DEF StepShape

\* A row's session is set by its link only.
LEMMA SessionKept ==
    ASSUME NEW r \in Requests, RowStep(r), req'[r].session = None
    PROVE  Queued(r) \/ (req[r].session = None /\ ~Linked(r))
BY QueueConstants DEF RowStep, Same, Queued, Claimed, Moves, Branched, Linked

LEMMA AttachKept ==
    ASSUME IInv, RInv, StepShape
    PROVE  AttachOK'
<1>. USE ActorFacts
<1>. DEFINE Bounded(a, s) ==
              req'[s.id].session = None =>
                /\ s.revision <= req'[s.id].revision
                /\ req'[s.id].status \in SettledStatuses => s.revision < req'[s.id].revision
            Branches(a, s) ==
              req'[s.id].session = None =>
                \A p \in Runners : tx'[p].op = "branch" =>
                    \A b \in tx'[p].rows : b.id = s.id => s.revision <= b.revision
<1>1. ASSUME NEW a \in Actors, tx'[a].op = "attach", CallKept(a), NEW s \in tx'[a].rows
      PROVE  /\ req'[s.id].status \in LinkableStatuses \cup SettledStatuses
             /\ Bounded(a, s) /\ Branches(a, s)
  <2>. DEFINE r == s.id
  <2>1. r \in Requests /\ s.revision \in Nat /\ s \in tx[a].rows /\ tx[a].op = "attach"
    BY <1>1, RowsOf DEF IInv, CallKept
  <2>2. /\ req[r].status \in LinkableStatuses \cup SettledStatuses
        /\ req[r].session = None =>
             /\ s.revision <= req[r].revision
             /\ req[r].status \in SettledStatuses => s.revision < req[r].revision
             /\ \A p \in Runners : tx[p].op = "branch" =>
                   \A b \in tx[p].rows : b.id = r => s.revision <= b.revision
    BY <2>1 DEF RInv, AttachOK
  <2>3. RowStep(r) /\ ~Queued(r) /\ ~Claimed(r)
    BY <2>1, <2>2 DEF StepShape, RowsStep, Queued, Claimed, LinkableStatuses, SettledStatuses
  <2>4. req[r].revision \in Nat
    BY <2>1, RowFacts DEF IInv
  <2>5. req'[r].status \in LinkableStatuses \cup SettledStatuses
    BY <2>2, <2>3
    DEF RowStep, Same, Moves, MayMove, Branched, Linked, LinkableStatuses, SettledStatuses
  <2>6. Bounded(a, s)
    <3>. SUFFICES ASSUME req'[r].session = None
                  PROVE  /\ s.revision <= req'[r].revision
                         /\ req'[r].status \in SettledStatuses => s.revision < req'[r].revision
      OBVIOUS
    <3>1. req[r].session = None /\ ~Linked(r)
      BY <2>1, <2>3, SessionKept
    <3>2. CASE Same(r)
      BY <2>2, <3>1, <3>2 DEF Same
    <3>3. CASE Moves(r)
      BY <2>1, <2>2, <2>4, <3>1, <3>3 DEF Moves
    <3>4. CASE Branched(r)
      <4>1. PICK p \in Runners : tx[p].op = "branch" /\ \E b \in tx[p].rows :
                b.id = r /\ req'[r].revision = b.revision + 1
        BY <3>4 DEF Branched
      <4>2. PICK b \in tx[p].rows : b.id = r /\ req'[r].revision = b.revision + 1
        BY <4>1
      <4>3. b.revision \in Nat /\ s.revision <= b.revision
        BY <2>2, <3>1, <4>1, <4>2, BranchHeld
      <4>. QED
        BY <2>1, <4>2, <4>3
    <3>. QED
      BY <2>3, <3>1, <3>2, <3>3, <3>4 DEF RowStep
  <2>7. Branches(a, s)
    <3>. SUFFICES ASSUME req'[r].session = None, NEW p \in Runners, tx'[p].op = "branch",
                         NEW b \in tx'[p].rows, b.id = r
                  PROVE  s.revision <= b.revision
      OBVIOUS
    <3>1. req[r].session = None
      BY <2>1, <2>3, SessionKept
    <3>2. CASE CallKept(p)
      BY <2>2, <3>1, <3>2 DEF CallKept
    <3>3. CASE CallBegun(p)
      <4>1. b = Take(r)
        BY <3>3 DEF CallBegun, CallFits
      <4>. QED
        BY <2>1, <2>2, <3>1, <4>1, TakeType DEF IInv
    <3>. QED
      BY <3>2, <3>3, NoTxType DEF StepShape
  <2>. QED
    BY <2>5, <2>6, <2>7
<1>2. ASSUME NEW a \in Actors, tx'[a].op = "attach", CallBegun(a), NEW s \in tx'[a].rows
      PROVE  /\ req'[s.id].status \in LinkableStatuses \cup SettledStatuses
             /\ Bounded(a, s) /\ Branches(a, s)
  <2>. DEFINE r == s.id
  <2>1. /\ r \in Requests /\ s = Take(r) /\ s.status \in LinkableStatuses
        /\ req[r].session = None /\ req' = req
    BY <1>2 DEF CallBegun, CallFits, StatusRead
  <2>2. /\ s.revision = req[r].revision /\ s.status = req[r].status
        /\ req[r].revision \in Nat
    BY <2>1, TakeType, RowFacts DEF IInv
  <2>3. Bounded(a, s)
    BY <2>1, <2>2 DEF LinkableStatuses, SettledStatuses
  <2>4. Branches(a, s)
    <3>. SUFFICES ASSUME NEW p \in Runners, tx'[p].op = "branch",
                         NEW b \in tx'[p].rows, b.id = r
                  PROVE  s.revision <= b.revision
      OBVIOUS
    <3>1. tx'[p] = tx[p]
      BY <1>2 DEF CallBegun
    <3>2. req[r].status = "launching"
      BY <2>1, <2>2, <3>1, BranchHeld DEF LinkableStatuses, SettledStatuses
    <3>3. req[r].revision = b.revision
      BY <2>1, <3>1, <3>2 DEF RInv, BranchOK
    <3>. QED
      BY <2>2, <3>3
  <2>. QED
    BY <2>1, <2>2, <2>3, <2>4
<1>3. ASSUME NEW a \in Actors, tx'[a].op = "attach"
      PROVE  (\A s, t \in tx'[a].rows : s = t) /\ (CallKept(a) \/ CallBegun(a))
  <2>1. CallKept(a) \/ CallBegun(a)
    BY <1>3, NoTxType DEF StepShape
  <2>. QED
    BY <1>3, <2>1 DEF RInv, AttachOK, CallKept, CallBegun, CallFits
<1>. QED
  BY <1>1, <1>2, <1>3 DEF AttachOK

LEMMA ExpireKept ==
    ASSUME IInv, RInv, StepShape
    PROVE  ExpireOK'
<1>. USE ActorFacts
<1>. SUFFICES ASSUME NEW a \in Actors, tx'[a].op = "expire", NEW s \in tx'[a].rows,
                     s.status = "launched"
              PROVE  /\ req'[s.id].status \in {"launched"} \cup SettledStatuses
                     /\ req'[s.id].status = "launched" =>
                          /\ s.revision <= req'[s.id].revision
                          /\ req'[s.id].session # None => s.revision < req'[s.id].revision
  BY DEF ExpireOK
<1>. DEFINE r == s.id
<1>1. CASE CallKept(a)
  <2>1. r \in Requests /\ s.revision \in Nat /\ req[r].revision \in Nat
    BY <1>1, RowsOf, RowFacts DEF IInv, CallKept
  <2>2. /\ req[r].status \in {"launched"} \cup SettledStatuses
        /\ req[r].status = "launched" =>
             /\ s.revision <= req[r].revision
             /\ req[r].session # None => s.revision < req[r].revision
    BY <1>1 DEF RInv, ExpireOK, CallKept
  <2>3. RowStep(r) /\ ~Queued(r) /\ ~Claimed(r)
    BY <2>1, <2>2 DEF StepShape, RowsStep, Queued, Claimed, SettledStatuses
  <2>4. CASE Same(r)
    BY <2>2, <2>4 DEF Same
  <2>5. CASE Moves(r)
    BY <2>2, <2>5 DEF Moves, MayMove, SettledStatuses, ACTIVE_EXECUTION_REQUEST_STATUSES
  <2>6. CASE Branched(r)
    <3>1. req[r].status \in {"launching"} \cup SettledStatuses /\ req'[r].status = req[r].status
      BY <2>6, BranchHeld DEF Branched
    <3>. QED
      BY <2>2, <3>1 DEF SettledStatuses
  <2>7. CASE Linked(r)
    BY <2>1, <2>2, <2>7 DEF Linked, LinkableStatuses, SettledStatuses
  <2>. QED
    BY <2>3, <2>4, <2>5, <2>6, <2>7 DEF RowStep
<1>2. CASE CallBegun(a)
  <2>1. r \in Requests /\ s = Take(r) /\ req[r].session = None /\ req' = req
    BY <1>2 DEF CallBegun, CallFits
  <2>2. s.revision = req[r].revision /\ s.status = req[r].status /\ req[r].revision \in Nat
    BY <2>1, TakeType, RowFacts DEF IInv
  <2>. QED
    BY <2>1, <2>2
<1>. QED
  BY <1>1, <1>2, NoTxType DEF StepShape

LEMMA BlankKept ==
    ASSUME IInv, RInv, StepShape
    PROVE  BlankOK'
<1>. SUFFICES ASSUME NEW r \in Requests, req'[r].status = "none"
              PROVE  req'[r].owner = None /\ req'[r].session = None
  BY DEF BlankOK
<1>1. RowStep(r)
  BY DEF StepShape, RowsStep
<1>2. ~Queued(r) /\ ~Claimed(r) /\ ~Moves(r) /\ ~Linked(r)
  BY DEF Queued, Claimed, Moves, MayMove, Linked, LinkableStatuses
<1>3. ~Branched(r)
  <2>1. ASSUME Branched(r) PROVE req[r].status \in {"launching"} \cup SettledStatuses
    BY <2>1, BranchHeld DEF Branched
  <2>. QED
    BY <2>1 DEF Branched, SettledStatuses
<1>. QED
  BY <1>1, <1>2, <1>3 DEF RowStep, Same, RInv, BlankOK

\* A row keeps its objective from its INSERT on.
LEMMA ObjectiveKept ==
    ASSUME RInv, NEW r \in Requests, RowStep(r), req[r].status # "none"
    PROVE  req'[r].objective = req[r].objective /\ req'[r].source = req[r].source
BY DEF RowStep, Same, Queued

LEMMA ObjectivesKept ==
    ASSUME IInv, RInv, StepShape
    PROVE  ObjectivesOK'
<1>1. ASSUME NEW r \in Requests, req'[r].status # "none"
      PROVE  req'[r].objective \in Objectives
  <2>1. RowStep(r)
    BY DEF StepShape, RowsStep
  <2>2. CASE req[r].status = "none"
    <3>1. Queued(r) \/ Same(r) \/ Branched(r)
      BY <2>1, <2>2 DEF RowStep, Claimed, Moves, MayMove, Linked, LinkableStatuses,
                        ACTIVE_EXECUTION_REQUEST_STATUSES
    <3>. QED
      BY <1>1, <2>2, <3>1 DEF Queued, Same, Branched
  <2>3. CASE req[r].status # "none"
    BY <2>1, <2>3, ObjectiveKept DEF RInv, ObjectivesOK
  <2>. QED
    BY <2>2, <2>3
<1>2. ASSUME NEW a \in Actors, tx'[a].op \in {"attach", "launch", "dequeue"}
      PROVE  tx'[a].objective \in Objectives
  BY <1>2, NoTxType DEF StepShape, CallKept, CallBegun, CallFits, RInv, ObjectivesOK
<1>. QED
  BY <1>1, <1>2 DEF ObjectivesOK

LEMMA LinkKept ==
    ASSUME IInv, RInv, StepShape
    PROVE  LinkOK'
<1>. USE ActorFacts
<1>. SUFFICES ASSUME NEW s \in Sessions, tx'[s].op = "attach"
              PROVE  /\ sess'[s].objective \in {None, tx'[s].objective}
                     /\ \A w \in tx'[s].rows : req'[w.id].objective = tx'[s].objective
  BY DEF LinkOK
<1>1. CASE CallKept(s)
  <2>1. sess'[s].objective = sess[s].objective
    BY DEF StepShape, SessStep
  <2>2. tx'[s] = tx[s]
    BY <1>1 DEF CallKept
  <2>3. ASSUME NEW w \in tx[s].rows PROVE req'[w.id].objective = tx[s].objective
    <3>1. w.id \in Requests
      BY RowsOf DEF IInv
    <3>2. req[w.id].status # "none"
      BY <2>2, <2>3 DEF RInv, AttachOK, LinkableStatuses, SettledStatuses
    <3>3. req'[w.id].objective = req[w.id].objective
      BY <3>1, <3>2, ObjectiveKept DEF StepShape, RowsStep
    <3>. QED
      BY <2>2, <2>3, <3>3 DEF RInv, LinkOK
  <2>. QED
    BY <2>1, <2>2, <2>3 DEF RInv, LinkOK
<1>2. CASE CallBegun(s)
  BY <1>2 DEF CallBegun, CallFits
<1>. QED
  BY <1>1, <1>2, NoTxType DEF StepShape

LEMMA LinkedKept ==
    ASSUME IInv, RInv, StepShape
    PROVE  LinkedOK'
<1>. SUFFICES ASSUME NEW r \in Requests, req'[r].session # None
              PROVE  sess'[req'[r].session].objective = req'[r].objective
  BY DEF LinkedOK, LinkedToOwnObjective
<1>1. RowStep(r) /\ ~Queued(r)
  BY DEF StepShape, RowsStep, Queued
<1>2. CASE Linked(r)
  BY <1>1, <1>2, ObjectiveKept DEF Linked, LinkableStatuses
<1>3. CASE ~Linked(r)
  <2>1. req'[r].session = req[r].session
    BY <1>1, <1>3 DEF RowStep, Same, Claimed, Moves, Branched
  <2>2. req[r].session \in Sessions
    BY <2>1, RowFacts DEF IInv
  <2>3. req[r].status # "none"
    BY <2>1 DEF RInv, BlankOK
  <2>4. sess[req[r].session].objective = req[r].objective /\ req[r].objective \in Objectives
    BY <2>1, <2>3 DEF RInv, LinkedOK, LinkedToOwnObjective, ObjectivesOK
  <2>5. sess[req[r].session].objective # None
    BY <2>4, QueueConstants
  <2>6. SessStep(req[r].session)
    BY <2>2 DEF StepShape
  <2>. QED
    BY <1>1, <2>1, <2>3, <2>4, <2>5, <2>6, ObjectiveKept DEF SessStep
<1>. QED
  BY <1>2, <1>3

-----------------------------------------------------------------------------
LEMMA AloneKept ==
    ASSUME IInv, RInv, StepShape
    PROVE  Alone'
<1>. SUFFICES ASSUME Serialized, NEW a \in Actors, NEW b \in Actors, a # b,
                     tx'[a].op \in TransactionOps, tx'[b].op \in TransactionOps
              PROVE  FALSE
  BY DEF Alone
<1>1. "none" \notin TransactionOps
  BY DEF TransactionOps
<1>2. \A c \in Actors : CallKept(c) \/ tx'[c] = NoTx \/ CallBegun(c)
  BY DEF StepShape
<1>3. ASSUME NEW c \in Actors, NEW d \in Actors, c # d, CallBegun(c),
             tx'[d].op \in TransactionOps
      PROVE  FALSE
  BY <1>3 DEF CallBegun, HasTheLock, NotLockedOut, RInv, Alone
<1>. QED
  BY <1>1, <1>2, <1>3, NoTxType DEF CallKept, RInv, Alone

\* While a transaction is open on the SQLite client, nobody writes.
LEMMA Undisturbed ==
    ASSUME IInv, RInv, StepShape, Serialized,
           NEW a \in Actors, CallKept(a), tx[a].op \in TransactionOps
    PROVE  Quiet /\ UNCHANGED obj
<1>1. ASSUME NEW b \in Actors, HasTheLock(b), tx'[b].op = "none" PROVE FALSE
  <2>1. a # b
    BY <1>1 DEF CallKept, TransactionOps
  <2>. QED
    BY <1>1, <2>1 DEF HasTheLock, NotLockedOut, RInv, Alone
<1>. QED
  BY <1>1 DEF StepShape

LEMMA CurrentKept ==
    ASSUME IInv, RInv, StepShape
    PROVE  Current'
<1>. SUFFICES ASSUME Serialized, NEW a \in Actors, tx'[a].op \in TransactionOps,
                     NEW s \in tx'[a].rows
              PROVE  req'[s.id].status = s.status /\ req'[s.id].revision = s.revision
  BY DEF Current, Matches
<1>1. CASE CallKept(a)
  <2>1. Quiet /\ s.id \in Requests
    BY <1>1, Undisturbed, RowsOf DEF CallKept, IInv
  <2>2. req[s.id].status = s.status /\ req[s.id].revision = s.revision
    BY <1>1 DEF CallKept, RInv, Current, Matches
  <2>. QED
    BY <2>1, <2>2 DEF Quiet, Same
<1>2. CASE CallBegun(a)
  BY <1>2, TakeType DEF CallBegun, CallFits, IInv
<1>. QED
  BY <1>1, <1>2, NoTxType DEF StepShape, TransactionOps

LEMMA ClaimsKept ==
    ASSUME IInv, RInv, StepShape
    PROVE  ClaimsRun'
<1>. SUFFICES ASSUME Serialized, NEW a \in Actors, tx'[a].op = "claim", NEW s \in tx'[a].rows
              PROVE  Runs(s.id)'
  BY DEF ClaimsRun
<1>1. CASE CallKept(a)
  <2>1. Quiet /\ UNCHANGED obj /\ s.id \in Requests
    BY <1>1, Undisturbed, RowsOf DEF CallKept, IInv, TransactionOps
  <2>2. Runs(s.id)
    BY <1>1 DEF CallKept, RInv, ClaimsRun
  <2>. QED
    BY <2>1, <2>2 DEF Quiet, Same, Runs
<1>2. CASE CallBegun(a)
  BY <1>2 DEF CallBegun, CallFits, Runs
<1>. QED
  BY <1>1, <1>2, NoTxType DEF StepShape

LEMMA DequeuesKept ==
    ASSUME IInv, RInv, StepShape
    PROVE  DequeuesAll'
<1>. SUFFICES ASSUME Serialized, NEW a \in Actors, tx'[a].op = "dequeue",
                     NEW r \in Requests, req'[r].status \in ACTIVE_EXECUTION_REQUEST_STATUSES,
                     req'[r].objective = tx'[a].objective
              PROVE  \E s \in tx'[a].rows : s.id = r
  BY DEF DequeuesAll, ActiveRequests, OfObjective
<1>1. CASE CallKept(a)
  <2>1. Quiet /\ tx'[a] = tx[a]
    BY <1>1, Undisturbed DEF CallKept, TransactionOps
  <2>2. r \in ActiveRequests(OfObjective(tx[a].objective))
    BY <2>1 DEF Quiet, Same, ActiveRequests, OfObjective, ACTIVE_EXECUTION_REQUEST_STATUSES
  <2>. QED
    BY <2>1, <2>2 DEF RInv, DequeuesAll
<1>2. CASE CallBegun(a)
  <2>1. r \in ActiveRequests(OfObjective(tx'[a].objective))
    BY <1>2 DEF CallBegun, ActiveRequests, OfObjective, ACTIVE_EXECUTION_REQUEST_STATUSES
  <2>. QED
    BY <1>2, <2>1 DEF CallBegun, CallFits
<1>. QED
  BY <1>1, <1>2, NoTxType DEF StepShape

LEMMA StopsKept ==
    ASSUME IInv, RInv, StepShape
    PROVE  StopsOK'
<1>. USE ActorFacts
<1>. SUFFICES ASSUME Serialized, NEW r \in Requests, req'[r].source # Mutation,
                     req'[r].status \in {"claimed", "launching"}
              PROVE  ~Parked(obj'[req'[r].objective])
  BY DEF StopsOK, StoppedIsIdle, Parked
<1>. DEFINE o == req[r].objective
<1>1. RowStep(r) /\ req[r].status # "none"
  BY DEF StepShape, RowsStep, RowStep, Same, Queued, Claimed, Moves, MayMove, Branched,
         Linked, ACTIVE_EXECUTION_REQUEST_STATUSES
<1>2. req'[r].objective = o /\ req'[r].source = req[r].source /\ o \in Objectives
  BY <1>1, ObjectiveKept DEF RInv, ObjectivesOK
<1>3. CASE Claimed(r)
  <2>1. Runs(r) /\ UNCHANGED obj
    BY <1>3 DEF Claimed, RInv, ClaimsRun
  <2>. QED
    BY <1>2, <2>1 DEF Runs
<1>4. CASE ~Claimed(r)
  <2>1. req[r].status \in {"claimed", "launching"}
    BY <1>1, <1>4 DEF RowStep, Same, Queued, Moves, MayMove, Branched, Linked
  <2>2. ~Parked(obj[o])
    BY <1>2, <2>1 DEF RInv, StopsOK, StoppedIsIdle, Parked
  <2>3. ASSUME NEW a \in Actors, tx[a].op = "dequeue", tx[a].objective = o,
               req' = SetStatus(tx[a].rows, "cleared")
        PROVE  FALSE
    <3>1. r \in ActiveRequests(OfObjective(o))
      BY <2>1 DEF ActiveRequests, OfObjective, ACTIVE_EXECUTION_REQUEST_STATUSES
    <3>2. \E s \in tx[a].rows : s.id = r /\ Matches(s)
      BY <2>3, <3>1 DEF RInv, DequeuesAll, Current, TransactionOps
    <3>3. req'[r] = [req[r] EXCEPT !.status = "cleared", !.revision = @ + 1, !.lapsed = FALSE]
      BY <2>3, <3>2 DEF SetStatus
    <3>4. req[r] \in Row
      BY DEF IInv, TypeOK
    <3>5. req'[r].status = "cleared"
      BY <3>3, <3>4 DEF Row
    <3>. QED
      BY <3>5
  <2>. QED
    BY <1>2, <2>2, <2>3 DEF StepShape, ObjStep
<1>. QED
  BY <1>3, <1>4

LEMMA ShapeKeeps ==
    ASSUME IInv, RInv, StepShape
    PROVE  RInv'
BY CallsKept, PlaceKept, BranchKept, AttachKept, ExpireKept, BlankKept, ObjectivesKept,
   LinkKept, LinkedKept, AloneKept, CurrentKept, ClaimsKept, DequeuesKept, StopsKept
DEF RInv

-----------------------------------------------------------------------------
(***************************************************************************)
(* The steps of RequestLifecycle, in terms of the rows.                    *)
(***************************************************************************)

\* What RequestLifecycle sees of a row.
Fixed(r) ==
    /\ req'[r].status = req[r].status /\ req'[r].owner = req[r].owner
    /\ req'[r].session = req[r].session

LEMMA NothingRefines ==
    ASSUME \A r \in Requests : Fixed(r)
    PROVE  Refines
BY DEF Refines, Lifecycle!vars, Fixed

LEMMA QueueRefines ==
    ASSUME NEW r \in Requests, \A q \in Requests \ {r} : Fixed(q),
           req[r].status = "none", req'[r].status = "queued",
           req'[r].owner = req[r].owner, req'[r].session = req[r].session
    PROVE  Refines
<1>1. Lifecycle!Queue(r)
  BY DEF Lifecycle!Queue, Fixed
<1>. QED
  BY <1>1 DEF Refines, Lifecycle!Next

LEMMA ClaimRefines ==
    ASSUME NEW r \in Requests, NEW p \in Runners, \A q \in Requests \ {r} : Fixed(q),
           req[r].status = "queued", req'[r].status = "claimed",
           req'[r].owner = p, req'[r].session = req[r].session
    PROVE  Refines
<1>1. Lifecycle!Claim(r, p)
  BY DEF Lifecycle!Claim, Fixed
<1>. QED
  BY <1>1 DEF Refines, Lifecycle!Next

LEMMA AdvanceRefines ==
    ASSUME NEW r \in Requests, \A q \in Requests \ {r} : Fixed(q), NEW from, NEW to,
           <<from, to>> \in {<<"claimed", "launching">>,
                             <<"launching", "launched">>,
                             <<"claimed", "launched">>},
           req[r].status = from, req'[r].status = to,
           req'[r].owner = req[r].owner, req'[r].session = req[r].session
    PROVE  Refines
<1>1. Lifecycle!Advance(r, from, to)
  BY DEF Lifecycle!Advance, Fixed
<1>2. from \in Lifecycle!Statuses /\ to \in Lifecycle!Statuses
  BY DEF Lifecycle!Statuses, Lifecycle!Active
<1>. QED
  BY <1>1, <1>2 DEF Refines, Lifecycle!Next

LEMMA SettleRefines ==
    ASSUME NEW R \in SUBSET Requests, NEW to \in SettledStatuses,
           \A r \in Requests \ R : Fixed(r),
           \A r \in R : /\ req'[r].status = to
                        /\ req'[r].owner = req[r].owner /\ req'[r].session = req[r].session
                        /\ \/ to \in {"failed", "cleared"}
                              /\ req[r].status \in ACTIVE_EXECUTION_REQUEST_STATUSES
                           \/ to = "expired" /\ req[r].status = "claimed"
                           \/ to = "expired" /\ req[r].status = "launched"
                              /\ req[r].session = None
    PROVE  Refines
<1>1. Lifecycle!Settle(R, to)
  BY DEF Lifecycle!Settle, Lifecycle!Active, ACTIVE_EXECUTION_REQUEST_STATUSES, Fixed
<1>2. to \in Lifecycle!Settled
  BY DEF Lifecycle!Settled, SettledStatuses
<1>. QED
  BY <1>1, <1>2 DEF Refines, Lifecycle!Next

LEMMA LinkRefines ==
    ASSUME NEW r \in Requests, NEW s \in Sessions, \A q \in Requests \ {r} : Fixed(q),
           req[r].status \in LinkableStatuses, req[r].session = None,
           req'[r].status = req[r].status, req'[r].owner = req[r].owner,
           req'[r].session = s
    PROVE  Refines
<1>1. Lifecycle!Link(r, s)
  BY DEF Lifecycle!Link, Lifecycle!Linkable, LinkableStatuses, Fixed
<1>. QED
  BY <1>1 DEF Refines, Lifecycle!Next

-----------------------------------------------------------------------------
(***************************************************************************)
(* What each statement does to the rows.                                   *)
(***************************************************************************)

LEMMA QuietRows ==
    ASSUME Quiet
    PROVE  RowsStep
BY NothingRefines DEF Quiet, Same, Fixed, RowsStep, RowStep

LEMMA InsertRows ==
    ASSUME TypeOK, RInv, NEW source, NEW o \in Objectives, NEW t, Insert(source, o, t)
    PROVE  RowsStep
<1>1. PICK r \in Requests :
         /\ NewId(r)
         /\ req' = [req EXCEPT ![r] =
                      [NoRow EXCEPT !.status = "queued", !.revision = 1,
                                    !.source = source, !.objective = o, !.target = t]]
  BY DEF Insert
<1>2. /\ req'[r].status = "queued" /\ req'[r].owner = None /\ req'[r].session = None
      /\ req'[r].objective = o
  <2>1. req'[r] = [NoRow EXCEPT !.status = "queued", !.revision = 1,
                                !.source = source, !.objective = o, !.target = t]
    BY <1>1 DEF TypeOK
  <2>. QED
    BY <2>1 DEF NoRow
<1>3. req[r].status = "none" /\ req[r].owner = None /\ req[r].session = None
  BY <1>1 DEF NewId, RInv, BlankOK
<1>4. \A q \in Requests \ {r} : req'[q] = req[q]
  BY <1>1 DEF TypeOK
<1>5. \A q \in Requests : RowStep(q)
  BY <1>2, <1>3, <1>4 DEF RowStep, Same, Queued
<1>6. Refines
  BY <1>2, <1>3, <1>4, QueueRefines DEF Fixed
<1>. QED
  BY <1>5, <1>6 DEF RowsStep

LEMMA ClaimRows ==
    ASSUME TypeOK, ClaimsQueued, NEW p \in Runners, ClaimWrite(p)
    PROVE  RowsStep
<1>. USE ActorFacts
<1>1. CASE UNCHANGED req
  BY <1>1, QuietRows DEF Quiet, Same
<1>2. CASE \E s \in tx[p].rows :
             /\ Matches(s)
             /\ req' = [req EXCEPT ![s.id] =
                          [req[s.id] EXCEPT !.status = "claimed", !.owner = p,
                                            !.revision = s.revision + 1, !.lapsed = FALSE]]
  <2>1. PICK s \in tx[p].rows :
             /\ Matches(s)
             /\ req' = [req EXCEPT ![s.id] =
                          [req[s.id] EXCEPT !.status = "claimed", !.owner = p,
                                            !.revision = s.revision + 1, !.lapsed = FALSE]]
    BY <1>2
  <2>. DEFINE r == s.id
  <2>2. r \in Requests /\ req[r].status = "queued" /\ tx[p].op = "claim"
    BY <2>1, RowsOf DEF ClaimWrite, ClaimsQueued, Matches
  <2>3. /\ req'[r].status = "claimed" /\ req'[r].owner = p
        /\ req'[r].session = req[r].session
        /\ req'[r].objective = req[r].objective /\ req'[r].source = req[r].source
    <3>1. req'[r] = [req[r] EXCEPT !.status = "claimed", !.owner = p,
                                   !.revision = s.revision + 1, !.lapsed = FALSE]
      BY <2>1, <2>2 DEF TypeOK
    <3>2. req[r] \in Row
      BY <2>2 DEF TypeOK
    <3>. QED
      BY <3>1, <3>2 DEF Row
  <2>4. \A q \in Requests \ {r} : req'[q] = req[q]
    BY <2>1, <2>2 DEF TypeOK
  <2>5. Claimed(r)
    BY <2>2, <2>3 DEF Claimed, ClaimWrite
  <2>6. \A q \in Requests : RowStep(q)
    BY <2>3, <2>4, <2>5 DEF RowStep, Same
  <2>7. Refines
    BY <2>2, <2>3, <2>4, ClaimRefines DEF Fixed
  <2>. QED
    BY <2>6, <2>7 DEF RowsStep
<1>. QED
  BY <1>1, <1>2 DEF ClaimWrite

\* The guarded UPDATE, row by row.
LEMMA SetStatusRow ==
    ASSUME TypeOK, NEW rows \in SUBSET Snapshot, NEW to \in Statuses,
           req' = SetStatus(rows, to), NEW r \in Requests
    PROVE  \/ Same(r)
           \/ /\ \E s \in rows : s.id = r /\ Matches(s)
              /\ req'[r].status = to /\ req'[r].owner = req[r].owner
              /\ req'[r].session = req[r].session
              /\ req'[r].revision = req[r].revision + 1
              /\ req'[r].objective = req[r].objective /\ req'[r].source = req[r].source
<1>1. req[r] \in Row
  BY DEF TypeOK
<1>2. CASE \E s \in rows : s.id = r /\ Matches(s)
  <2>1. req'[r] = [req[r] EXCEPT !.status = to, !.revision = @ + 1, !.lapsed = FALSE]
    BY <1>2 DEF SetStatus
  <2>. QED
    BY <1>1, <1>2, <2>1 DEF Row
<1>3. CASE ~ \E s \in rows : s.id = r /\ Matches(s)
  <2>1. req'[r] = req[r]
    BY <1>3 DEF SetStatus
  <2>. QED
    BY <2>1 DEF Same
<1>. QED
  BY <1>2, <1>3

\* The status a call writes.
StatusWritten(op) ==
    CASE op = "launching"               -> "launching"
      [] op \in {"launched", "complete"} -> "launched"
      [] op = "failed"                  -> "failed"
      [] op \in {"clear", "dequeue"}    -> "cleared"
      [] op = "expire"                  -> "expired"

LEMMA UpdateRows ==
    ASSUME IInv, RInv, NEW a \in Actors, NEW rows \in SUBSET tx[a].rows,
           tx[a].op \in {"launching", "launched", "complete", "failed", "clear",
                         "dequeue", "expire"},
           req' = SetStatus(rows, StatusWritten(tx[a].op)),
           tx[a].op \in OwnReports =>
               /\ \E s \in tx[a].rows : rows = {s}
               /\ a \in Runners /\ (tx[a].op # "launching" => runner'[a].pc # "launching")
    PROVE  RowsStep
<1>. DEFINE op == tx[a].op
            to == StatusWritten(op)
            hit(r) == \E s \in rows : s.id = r /\ Matches(s)
<1>1. to \in Statuses
  BY DEF StatusWritten, Statuses
<1>2. rows \in SUBSET Snapshot /\ \A s \in rows : s.id \in Requests /\ s.revision \in Nat
  BY RowsOf DEF IInv
<1>3. \A r \in Requests :
        \/ Same(r)
        \/ /\ hit(r) /\ req'[r].status = to /\ req'[r].owner = req[r].owner
           /\ req'[r].session = req[r].session /\ req'[r].revision = req[r].revision + 1
           /\ req'[r].objective = req[r].objective /\ req'[r].source = req[r].source
  BY <1>1, <1>2, SetStatusRow DEF IInv
<1>4. ASSUME NEW r \in Requests, hit(r) PROVE MayMove(r, to)
  <2>1. PICK s \in rows : s.id = r /\ Matches(s)
    BY <1>4
  <2>2. req[r].status = s.status /\ s.status \in StatusRead(op) /\ req[r].revision = s.revision
    BY <2>1 DEF Matches, RInv, ReadsOK
  <2>3. CASE op \in {"launched", "complete"}
    <3>1. runner[a].held = r /\ a \in Runners /\ runner'[a].pc # "launching"
      BY <2>1, <2>3 DEF RInv, ReportsOwn, OwnReports
    <3>. QED
      BY <2>2, <2>3, <3>1 DEF MayMove, StatusWritten, StatusRead
  <2>4. CASE op = "expire"
    <3>1. s.status = "launched" => req[r].session = None
      <4>1. s.revision \in Nat
        BY <1>2
      <4>. QED
        BY <2>1, <2>2, <2>4, <4>1 DEF RInv, ExpireOK
    <3>. QED
      BY <2>2, <2>4, <3>1 DEF MayMove, StatusWritten, StatusRead
  <2>5. CASE op \in {"launching", "failed", "clear", "dequeue"}
    BY <2>2, <2>5 DEF MayMove, StatusWritten, StatusRead
  <2>. QED
    BY <2>3, <2>4, <2>5
<1>5. \A r \in Requests : RowStep(r)
  BY <1>3, <1>4 DEF RowStep, Moves
<1>6. Refines
  <2>. HIDE DEF hit
  <2>1. CASE op \in OwnReports
    <3>1. PICK s \in tx[a].rows : rows = {s}
      BY <2>1
    <3>. DEFINE r == s.id
    <3>2. r \in Requests /\ \A q \in Requests \ {r} : ~hit(q)
      BY <1>2, <3>1 DEF hit
    <3>3. \A q \in Requests \ {r} : Fixed(q)
      BY <1>3, <3>2 DEF Same, Fixed
    <3>4. CASE Same(r)
      BY <3>2, <3>3, <3>4, NothingRefines DEF Same, Fixed
    <3>5. CASE ~Same(r)
      <4>1. /\ MayMove(r, to) /\ req'[r].status = to
            /\ req'[r].owner = req[r].owner /\ req'[r].session = req[r].session
        BY <1>3, <1>4, <3>2, <3>5
      <4>2. to \in {"launching", "launched"}
        BY <2>1 DEF OwnReports, StatusWritten
      <4>. QED
        BY <3>2, <3>3, <4>1, <4>2, AdvanceRefines DEF MayMove
    <3>. QED
      BY <3>4, <3>5
  <2>2. CASE op \notin OwnReports
    <3>. DEFINE R == {r \in Requests : ~Same(r)}
    <3>1. to \in SettledStatuses
      BY <2>2 DEF OwnReports, StatusWritten, SettledStatuses
    <3>2. \A r \in Requests \ R : Fixed(r)
      BY DEF Same, Fixed
    <3>3. \A r \in R : /\ MayMove(r, to) /\ req'[r].status = to
                       /\ req'[r].owner = req[r].owner /\ req'[r].session = req[r].session
      BY <1>3, <1>4
    <3>. HIDE DEF R
    <3>4. R \in SUBSET Requests
      BY DEF R
    <3>. QED
      BY <3>1, <3>2, <3>3, <3>4, SettleRefines DEF MayMove, SettledStatuses
  <2>. QED
    BY <2>1, <2>2
<1>. QED
  BY <1>5, <1>6 DEF RowsStep

LEMMA BranchRows ==
    ASSUME IInv, RInv, NEW p \in Runners, BranchPreparedWrite(p)
    PROVE  RowsStep
<1>. USE ActorFacts
<1>1. PICK b \in tx[p].rows : req' = [req EXCEPT ![b.id].revision = b.revision + 1]
  BY DEF BranchPreparedWrite
<1>. DEFINE r == b.id
<1>2. r \in Requests
  BY RowsOf DEF IInv
<1>3. /\ req'[r].status = req[r].status /\ req'[r].owner = req[r].owner
      /\ req'[r].session = req[r].session /\ req'[r].revision = b.revision + 1
      /\ req'[r].objective = req[r].objective /\ req'[r].source = req[r].source
  <2>1. req'[r] = [req[r] EXCEPT !.revision = b.revision + 1]
    BY <1>1, <1>2 DEF IInv, TypeOK
  <2>2. req[r] \in Row
    BY <1>2 DEF IInv, TypeOK
  <2>. QED
    BY <2>1, <2>2 DEF Row
<1>4. \A q \in Requests \ {r} : req'[q] = req[q]
  BY <1>1, <1>2 DEF IInv, TypeOK
<1>5. tx[p].op = "branch" /\ tx'[p].op = "none"
  BY EndType, NoTxType DEF BranchPreparedWrite, IInv
<1>6. Branched(r)
  BY <1>3, <1>5 DEF Branched
<1>7. \A q \in Requests : RowStep(q)
  BY <1>3, <1>4, <1>6 DEF RowStep, Same
<1>8. Refines
  BY <1>2, <1>3, <1>4, NothingRefines DEF Fixed
<1>. QED
  BY <1>7, <1>8 DEF RowsStep

LEMMA LinkRows ==
    ASSUME IInv, RInv, NEW s \in Sessions, AttachWrite(s)
    PROVE  RowsStep
<1>. USE ActorFacts
<1>1. CASE UNCHANGED req
  BY <1>1, QuietRows DEF Quiet, Same
<1>2. CASE req' # req
  <2>. DEFINE linked == {w \in tx[s].rows :
                           req[w.id].revision = w.revision /\ req[w.id].session = None}
              o == tx[s].objective
  <2>1. /\ linked = tx[s].rows
        /\ req' = [r \in Requests |->
                     IF \E w \in linked : w.id = r
                     THEN [req[r] EXCEPT !.session = s, !.revision = @ + 1]
                     ELSE req[r]]
        /\ IF sess[s].objective = None
           THEN sess' = [sess EXCEPT ![s] = [objective |-> o, open |-> TRUE]]
           ELSE UNCHANGED sess
    BY <1>2 DEF AttachWrite
  <2>2. tx[s].op = "attach"
    BY DEF AttachWrite
  <2>3. sess'[s].objective = o
    <3>1. sess[s].objective \in {None, o}
      BY <2>2 DEF RInv, LinkOK
    <3>2. [objective |-> o, open |-> TRUE].objective = o
      OBVIOUS
    <3>3. CASE sess[s].objective = None
      <4>1. sess'[s] = [objective |-> o, open |-> TRUE]
        BY <2>1, <3>3 DEF IInv, TypeOK
      <4>. QED
        BY <3>2, <4>1
    <3>4. CASE sess[s].objective # None
      BY <2>1, <3>1, <3>4
    <3>. QED
      BY <3>3, <3>4
  <2>4. CASE linked = {}
    <3>1. req' = req
      BY <2>1, <2>4 DEF IInv, TypeOK
    <3>. QED
      BY <1>2, <3>1
  <2>5. CASE linked # {}
    <3>1. PICK w \in tx[s].rows : linked = {w}
      <4>1. \A v, w \in tx[s].rows : v = w
        BY <2>2 DEF RInv, AttachOK
      <4>2. PICK w \in linked : TRUE
        BY <2>5
      <4>3. linked = tx[s].rows
        BY <2>1
      <4>. HIDE DEF linked
      <4>4. linked = {w}
        BY <4>1, <4>2, <4>3
      <4>. QED
        BY <4>2, <4>3, <4>4
    <3>. DEFINE r == w.id
    <3>2. r \in Requests /\ w.revision \in Nat
      BY RowsOf DEF IInv
    <3>3. req[r].revision = w.revision /\ req[r].session = None
      BY <3>1
    <3>4. /\ req[r].status \in LinkableStatuses \cup SettledStatuses
          /\ req[r].status \in SettledStatuses => w.revision < req[r].revision
          /\ req[r].objective = o
      BY <2>2, <3>3 DEF RInv, AttachOK, LinkOK
    <3>5. req[r].status \in LinkableStatuses
      BY <3>2, <3>3, <3>4
    <3>6. /\ req'[r].status = req[r].status /\ req'[r].owner = req[r].owner
          /\ req'[r].session = s /\ req'[r].revision = req[r].revision + 1
          /\ req'[r].objective = req[r].objective /\ req'[r].source = req[r].source
      <4>1. req'[r] = [req[r] EXCEPT !.session = s, !.revision = @ + 1]
        BY <2>1, <3>1, <3>2
      <4>2. req[r] \in Row
        BY <3>2 DEF IInv, TypeOK
      <4>. QED
        BY <4>1, <4>2 DEF Row
    <3>7. \A q \in Requests \ {r} : req'[q] = req[q]
      BY <2>1, <3>1
    <3>8. Linked(r)
      BY <2>3, <3>3, <3>4, <3>5, <3>6 DEF Linked
    <3>9. \A q \in Requests : RowStep(q)
      BY <3>6, <3>7, <3>8 DEF RowStep, Same
    <3>10. Refines
      BY <3>2, <3>3, <3>5, <3>6, <3>7, LinkRefines DEF Fixed
    <3>. QED
      BY <3>9, <3>10 DEF RowsStep
  <2>. QED
    BY <2>4, <2>5
<1>. QED
  BY <1>1, <1>2

-----------------------------------------------------------------------------
(***************************************************************************)
(* Every action has the shape.                                             *)
(***************************************************************************)

LEMMA ObjectiveStays ==
    ASSUME UNCHANGED obj
    PROVE  \A o \in Objectives : ObjStep(o)
BY DEF ObjStep

\* An objective gets a phase that is not "stopped", or is discarded.
LEMMA PhaseStep ==
    ASSUME TypeOK, NEW o, NEW phase \in {"launchable", "running", "done"},
           obj' = [obj EXCEPT ![o].phase = phase]
    PROVE  \A x \in Objectives : ObjStep(x)
BY DEF TypeOK, Objective, ObjStep, Parked

LEMMA DiscardStep ==
    ASSUME TypeOK, NEW u \in Operators, NEW gone \in SUBSET Objectives, Discard(u, gone)
    PROVE  \A x \in Objectives : ObjStep(x)
BY DEF TypeOK, Objective, Discard, ObjStep, Parked

LEMMA PromoteStep ==
    ASSUME TypeOK, NEW u \in Operators, PromoteWrite(u)
    PROVE  \A x \in Objectives : ObjStep(x)
BY DEF TypeOK, Objective, PromoteWrite, ObjStep, Parked

LEMMA SessionsStay ==
    ASSUME \A s \in Sessions : sess'[s].objective = sess[s].objective
    PROVE  \A s \in Sessions : SessStep(s)
BY DEF SessStep

\* A call begins.
LEMMA ReadStep ==
    ASSUME TypeOK, NEW a \in Actors, NEW call \in Tx, Begin(a, call), CallFits(a, call),
           UNCHANGED <<req, obj, sess, runner>>
    PROVE  StepOK(a)
<1>1. tx'[a] = call /\ \A b \in Actors \ {a} : tx'[b] = tx[b]
  BY BeginType
<1>2. HasTheLock(a)
  BY DEF Begin, HasTheLock
<1>3. RowsStep /\ Quiet
  BY QuietRows DEF Quiet, Same
<1>. QED
  BY <1>1, <1>2, <1>3, ObjectiveStays, SessionsStay
  DEF StepOK, OthersKept, CallStep, LoopStep, WriteStep

\* The loop of a runner moves, and nothing is written.
LEMMA MoveStep ==
    ASSUME TypeOK, NEW p \in Runners, OthersKept(p), runner'[p].pc # "launching",
           (tx'[p] = tx[p] /\ tx[p].op = "none") \/ tx'[p] = NoTx,
           UNCHANGED <<req, obj, sess>>
    PROVE  StepOK(p)
<1>1. RowsStep /\ Quiet
  BY QuietRows DEF Quiet, Same
<1>. QED
  BY <1>1, ObjectiveStays, SessionsStay DEF StepOK, OthersKept, CallStep, LoopStep, WriteStep

\* Somebody writes.
LEMMA WritesStep ==
    ASSUME TypeOK, NEW a \in Actors, OthersKept(a), HasTheLock(a),
           (tx'[a] = tx[a] /\ tx[a].op = "none") \/ tx'[a] = NoTx,
           a \in Runners => runner'[a].pc # "launching",
           RowsStep, \A s \in Sessions : SessStep(s), \A o \in Objectives : ObjStep(o)
    PROVE  StepOK(a)
BY NoTxType DEF StepOK, OthersKept, CallStep, LoopStep, WriteStep

LEMMA EndStep ==
    ASSUME TypeOK, NEW a \in Actors, End(a), tx[a].op \in TransactionOps \/ NotLockedOut(a)
    PROVE  tx'[a] = NoTx /\ HasTheLock(a) /\ \A b \in Actors \ {a} : tx'[b] = tx[b]
BY EndType DEF HasTheLock

\* What a call without an objective of its own reads.
LEMMA ReadFits ==
    ASSUME TypeOK, NEW a \in Actors, NEW R \in SUBSET Requests,
           NEW op \in {"expire", "claim", "launching", "launched", "failed",
                       "complete", "branch", "clear"},
           \A r \in R : req[r].status \in StatusRead(op),
           a \in Runners /\ op \in OwnReports => \A r \in R : r = runner[a].held,
           op = "claim" => \A r \in R : Runs(r),
           op = "expire" => \A r \in R : req[r].status = "launched" => req[r].session = None
    PROVE  /\ Call(op, {Take(r) : r \in R}) \in Tx
           /\ CallFits(a, Call(op, {Take(r) : r \in R}))
<1>. DEFINE rows == {Take(r) : r \in R}
            call == Call(op, rows)
<1>1. rows \in SUBSET Snapshot
  BY TakeType
<1>2. call \in Tx /\ call.op = op /\ call.rows = rows
  <2>. HIDE DEF rows
  <2>. QED
    BY <1>1, CallType DEF TransactionOps
<1>3. \A s \in rows : /\ s.id \in R /\ s = Take(s.id)
                      /\ s.status = req[s.id].status
  BY TakeType
<1>. HIDE DEF call, rows
<1>4. CallFits(a, call)
  BY <1>2, <1>3 DEF CallFits
<1>. QED
  BY <1>2, <1>4 DEF call, rows

LEMMA ReadOne ==
    ASSUME TypeOK, NEW a \in Actors, NEW r \in Requests,
           NEW op \in {"claim", "launching", "launched", "failed", "complete", "branch"},
           req[r].status \in StatusRead(op),
           a \in Runners /\ op \in OwnReports => r = runner[a].held,
           op = "claim" => Runs(r)
    PROVE  Call(op, {Take(r)}) \in Tx /\ CallFits(a, Call(op, {Take(r)}))
<1>1. {Take(x) : x \in {r}} = {Take(r)}
  OBVIOUS
<1>2. {r} \in SUBSET Requests
  OBVIOUS
<1>. QED
  BY <1>1, <1>2, ReadFits

LEMMA StaleFits ==
    ASSUME TypeOK, NEW a \in Actors
    PROVE  LET call == Call("expire", {Take(r) : r \in StaleRequests})
           IN  call \in Tx /\ CallFits(a, call)
<1>1. \A r \in StaleRequests : /\ r \in Requests /\ req[r].status \in {"claimed", "launched"}
                               /\ req[r].status = "launched" => req[r].session = None
  BY DEF StaleRequests, Stale
<1>2. StaleRequests \in SUBSET Requests
  BY <1>1
<1>. QED
  BY <1>1, <1>2, ReadFits DEF StatusRead, OwnReports

LEMMA OperatorShape ==
    ASSUME IInv, RInv, NEW u \in Operators, OperatorStep(u)
    PROVE  StepOK(u)
<1>. USE ActorFacts
<1>1. TypeOK /\ u \in Actors /\ u \notin Runners
  BY DEF IInv
<1>2. ASSUME UNCHANGED runner, \A b \in Actors \ {u} : tx'[b] = tx[b] PROVE OthersKept(u)
  BY <1>2 DEF OthersKept
<1>3. CASE \E o \in Objectives : LaunchObjectiveRead(u, o)
  <2>1. PICK o \in Objectives : LaunchObjectiveRead(u, o)
    BY <1>3
  <2>. DEFINE call == [NoTx EXCEPT !.op = "launch", !.objective = o]
  <2>2. /\ call \in Tx /\ call.op = "launch" /\ call.objective = o /\ call.rows = {}
    BY DEF NoTx, Tx, TransactionOps
  <2>3. Begin(u, call) /\ UNCHANGED <<req, obj, sess, runner>>
    BY <2>1 DEF LaunchObjectiveRead
  <2>. HIDE DEF call
  <2>4. CallFits(u, call)
    BY <2>2 DEF CallFits, OwnReports
  <2>. QED
    BY <1>1, <2>2, <2>3, <2>4, ReadStep
<1>4. CASE \E t \in Runners \cup {None} : LaunchObjectiveWrite(u, t)
  <2>1. PICK t \in Runners \cup {None} : LaunchObjectiveWrite(u, t)
    BY <1>4
  <2>. DEFINE o == tx[u].objective
  <2>2. tx[u].op = "launch" /\ End(u) /\ UNCHANGED <<sess, runner>>
    BY <2>1 DEF LaunchObjectiveWrite
  <2>3. o \in Objectives
    BY <1>1, <2>2 DEF RInv, ObjectivesOK
  <2>4. RowsStep
    <3>1. CASE Insert("webapp", o, t)
      BY <1>1, <2>3, <3>1, InsertRows
    <3>2. CASE UNCHANGED req
      BY <3>2, QuietRows DEF Quiet, Same
    <3>. QED
      BY <2>1, <3>1, <3>2 DEF LaunchObjectiveWrite
  <2>5. obj' = [obj EXCEPT ![o].phase = "launchable"] \/ obj' = obj
    BY <2>1 DEF LaunchObjectiveWrite
  <2>6. \A x \in Objectives : ObjStep(x)
    BY <1>1, <2>5, PhaseStep, ObjectiveStays
  <2>7. /\ tx'[u] = NoTx /\ HasTheLock(u) /\ OthersKept(u)
    BY <1>1, <1>2, <2>2, EndStep DEF TransactionOps
  <2>. QED
    BY <1>1, <2>2, <2>4, <2>6, <2>7, SessionsStay, WritesStep
<1>5. CASE \/ \E o \in Objectives, t \in Runners \cup {None} : AutoAdvance(u, o, t)
           \/ \E o \in Objectives, t \in Runners : QueueMutation(u, o, t)
  <2>1. PICK o \in Objectives, t \in Runners \cup {None} : AutoAdvance(u, o, t) \/ QueueMutation(u, o, t)
    BY <1>5
  <2>2. /\ UNCHANGED <<obj, sess, tx, runner>> /\ tx[u].op = "none" /\ NotLockedOut(u)
        /\ \E source \in Sources : Insert(source, o, t)
    BY <2>1 DEF AutoAdvance, QueueMutation, Sources
  <2>3. RowsStep
    BY <1>1, <2>2, InsertRows
  <2>4. OthersKept(u) /\ HasTheLock(u)
    BY <2>2 DEF OthersKept, HasTheLock
  <2>. QED
    BY <1>1, <2>2, <2>3, <2>4, SessionsStay, ObjectiveStays, WritesStep
<1>6. CASE ClearRead(u, Requests) \/ \E o \in Objectives : ClearRead(u, OfObjective(o))
  <2>1. PICK R \in SUBSET Requests : ClearRead(u, R)
    BY <1>6 DEF OfObjective
  <2>2. /\ ActiveRequests(R) \in SUBSET Requests
        /\ \A r \in ActiveRequests(R) : req[r].status \in StatusRead("clear")
    BY DEF ActiveRequests, StatusRead
  <2>. QED
    BY <1>1, <2>1, <2>2, ReadFits, ReadStep DEF ClearRead, OwnReports
<1>7. CASE RunnerStatusRead(u)
  BY <1>1, <1>7, StaleFits, ReadStep DEF RunnerStatusRead
<1>8. CASE ClearWrite(u) \/ RunnerStatusWrite(u)
  <2>1. /\ tx[u].op \in {"clear", "expire"} /\ req' = SetStatus(tx[u].rows, StatusWritten(tx[u].op))
        /\ End(u) /\ UNCHANGED <<obj, sess, runner>>
    BY <1>8 DEF ClearWrite, RunnerStatusWrite, StatusWritten
  <2>2. RowsStep
    <3>1. tx[u].rows \in SUBSET tx[u].rows
      OBVIOUS
    <3>. QED
      BY <2>1, <3>1, UpdateRows DEF OwnReports
  <2>3. tx'[u] = NoTx /\ HasTheLock(u) /\ OthersKept(u)
    BY <1>1, <1>2, <2>1, EndStep DEF TransactionOps
  <2>. QED
    BY <1>1, <2>1, <2>2, <2>3, SessionsStay, ObjectiveStays, WritesStep
<1>9. CASE \E o \in Objectives, to \in {"launchable", "running", "stopped", "deleted"} :
              DequeueRead(u, o, to)
  <2>1. PICK o \in Objectives, to \in {"launchable", "running", "stopped", "deleted"} :
           DequeueRead(u, o, to)
    BY <1>9
  <2>. DEFINE R    == ActiveRequests(OfObjective(o))
              rows == {Take(r) : r \in R}
              call == [Call("dequeue", rows) EXCEPT !.objective = o, !.to = to]
  <2>2. \A r \in R : r \in Requests /\ req[r].status \in StatusRead("dequeue")
    BY DEF ActiveRequests, OfObjective, StatusRead
  <2>3. /\ rows \in SUBSET Snapshot
        /\ \A s \in rows : s.id \in R /\ s = Take(s.id) /\ s.status = req[s.id].status
        /\ \A r \in R : \E s \in rows : s.id = r
    <3>. HIDE DEF R
    <3>1. \A r \in R : /\ Take(r) \in Snapshot /\ Take(r).id = r
                       /\ Take(r).status = req[r].status
      BY <1>1, <2>2, TakeType
    <3>. QED
      BY <3>1
  <2>4. /\ call \in Tx /\ call.op = "dequeue" /\ call.objective = o /\ call.rows = rows
    <3>. HIDE DEF rows
    <3>. QED
      BY <2>3 DEF Call, NoTx, Tx, TransactionOps
  <2>5. Begin(u, call) /\ UNCHANGED <<req, obj, sess, runner>>
    BY <2>1 DEF DequeueRead
  <2>. HIDE DEF call, rows
  <2>6. CallFits(u, call)
    BY <2>2, <2>3, <2>4 DEF CallFits, OwnReports
  <2>. QED
    BY <1>1, <2>4, <2>5, <2>6, ReadStep
<1>10. CASE DequeueWrite(u)
  <2>. DEFINE o == tx[u].objective
  <2>1. /\ tx[u].op = "dequeue" /\ req' = SetStatus(tx[u].rows, StatusWritten(tx[u].op))
        /\ End(u) /\ UNCHANGED runner
    BY <1>10 DEF DequeueWrite, StatusWritten
  <2>2. RowsStep
    <3>1. tx[u].rows \in SUBSET tx[u].rows
      OBVIOUS
    <3>. QED
      BY <2>1, <3>1, UpdateRows DEF OwnReports
  <2>3. ASSUME NEW x \in Objectives PROVE ObjStep(x)
    <3>1. CASE x = o
      BY <2>1, <3>1 DEF ObjStep, StatusWritten
    <3>2. CASE x # o
      <4>1. obj'[x] = obj[x]
        BY <1>1, <1>10, <3>2 DEF DequeueWrite, TypeOK
      <4>. QED
        BY <4>1 DEF ObjStep
    <3>. QED
      BY <3>1, <3>2
  <2>4. \A s \in Sessions : sess'[s].objective = sess[s].objective
    BY <1>1, <1>10 DEF DequeueWrite, TypeOK
  <2>5. tx'[u] = NoTx /\ HasTheLock(u) /\ OthersKept(u)
    BY <1>1, <1>2, <2>1, EndStep DEF TransactionOps
  <2>. QED
    BY <1>1, <2>2, <2>3, <2>4, <2>5, SessionsStay, WritesStep
<1>11. CASE \E o \in Objectives : BackToLaunchable(u, o)
  <2>1. PICK o \in Objectives : BackToLaunchable(u, o)
    BY <1>11
  <2>2. \A x \in Objectives : ObjStep(x)
    BY <1>1, <2>1, PhaseStep DEF BackToLaunchable
  <2>3. RowsStep
    BY <2>1, QuietRows DEF BackToLaunchable, Quiet, Same
  <2>4. OthersKept(u) /\ HasTheLock(u) /\ tx'[u] = tx[u] /\ tx[u].op = "none" /\ UNCHANGED sess
    BY <2>1 DEF BackToLaunchable, OthersKept, HasTheLock
  <2>. QED
    BY <1>1, <2>2, <2>3, <2>4, SessionsStay, WritesStep
<1>12. CASE \E o \in Objectives : PromoteRead(u, o)
  <2>1. PICK o \in Objectives : PromoteRead(u, o)
    BY <1>12
  <2>2. PICK drafts \in SUBSET (Objectives \ {o}) :
           Begin(u, [Call("promote", {}) EXCEPT !.objective = o, !.drafts = drafts])
    BY <2>1 DEF PromoteRead
  <2>. DEFINE call == [Call("promote", {}) EXCEPT !.objective = o, !.drafts = drafts]
  <2>3. call \in Tx /\ call.op = "promote" /\ call.rows = {}
    BY DEF Call, NoTx, Tx, TransactionOps
  <2>4. Begin(u, call) /\ UNCHANGED <<req, obj, sess, runner>>
    BY <2>1, <2>2 DEF PromoteRead
  <2>. HIDE DEF call
  <2>5. CallFits(u, call)
    BY <2>3 DEF CallFits, OwnReports
  <2>. QED
    BY <1>1, <2>3, <2>4, <2>5, ReadStep
<1>13. CASE PromoteWrite(u)
  <2>1. tx[u].op = "promote" /\ End(u) /\ UNCHANGED <<req, sess, runner>>
    BY <1>13 DEF PromoteWrite
  <2>2. RowsStep
    BY <2>1, QuietRows DEF Quiet, Same
  <2>3. tx'[u] = NoTx /\ HasTheLock(u) /\ OthersKept(u)
    BY <1>1, <1>2, <2>1, EndStep DEF TransactionOps
  <2>. QED
    BY <1>1, <1>13, <2>1, <2>2, <2>3, PromoteStep, SessionsStay, WritesStep
<1>14. CASE \E gone \in SUBSET Objectives : Discard(u, gone)
  <2>1. PICK gone \in SUBSET Objectives : Discard(u, gone)
    BY <1>14
  <2>2. RowsStep
    BY <2>1, QuietRows DEF Discard, Quiet, Same
  <2>3. OthersKept(u) /\ HasTheLock(u) /\ tx'[u] = tx[u] /\ tx[u].op = "none" /\ UNCHANGED sess
    BY <2>1 DEF Discard, OthersKept, HasTheLock
  <2>. QED
    BY <1>1, <2>1, <2>2, <2>3, DiscardStep, SessionsStay, WritesStep
<1>. QED
  BY <1>3, <1>4, <1>5, <1>6, <1>7, <1>8, <1>9, <1>10, <1>11, <1>12, <1>13, <1>14 DEF OperatorStep

LEMMA AttachFits ==
    ASSUME TypeOK, NEW s \in Sessions, NEW o \in Objectives,
           NEW id \in Requests \cup {None}, AttachTo(s, o, id),
           sess[s].objective \in {None, o}
    PROVE  \E call \in Tx : Begin(s, call) /\ CallFits(s, call)
<1>. USE ActorFacts
<1>. DEFINE linkTo(rows) == [Call("attach", rows) EXCEPT !.objective = o]
            c == LinkCandidates(o, id)
<1>1. ASSUME NEW rows \in SUBSET Snapshot
      PROVE  /\ linkTo(rows) \in Tx /\ linkTo(rows).op = "attach"
             /\ linkTo(rows).objective = o /\ linkTo(rows).rows = rows
  BY DEF Call, NoTx, Tx, TransactionOps
<1>2. s \notin Runners
  OBVIOUS
<1>3. CASE c = {} /\ id = None /\ Begin(s, linkTo({}))
  <2>1. {} \in SUBSET Snapshot
    OBVIOUS
  <2>. HIDE DEF linkTo
  <2>2. CallFits(s, linkTo({}))
    BY <1>1, <1>2, <2>1 DEF CallFits
  <2>. QED
    BY <1>1, <1>3, <2>1, <2>2
<1>4. CASE \E r \in c : MayLink(r) /\ Begin(s, linkTo({Take(r)}))
  <2>1. PICK r \in c : MayLink(r) /\ Begin(s, linkTo({Take(r)}))
    BY <1>4
  <2>2. r \in Requests /\ req[r].objective = o
    BY <2>1 DEF LinkCandidates, OfObjective
  <2>3. req[r].status \in StatusRead("attach") /\ req[r].session = None
    BY <2>1 DEF MayLink, StatusRead
  <2>4. /\ Take(r) \in Snapshot /\ Take(r).id = r
        /\ Take(r).status = req[r].status
    BY <2>2, TakeType
  <2>. HIDE DEF linkTo
  <2>. DEFINE call == linkTo({Take(r)})
  <2>5. /\ call \in Tx /\ call.op = "attach" /\ call.objective = o /\ call.rows = {Take(r)}
    BY <1>1, <2>4
  <2>. HIDE DEF call
  <2>6. CallFits(s, call)
    BY <1>2, <2>2, <2>3, <2>4, <2>5 DEF CallFits
  <2>. QED
    BY <2>1, <2>5, <2>6 DEF call
<1>. QED
  BY <1>3, <1>4 DEF AttachTo

LEMMA AgentShape ==
    ASSUME IInv, RInv, NEW s \in Sessions, AgentStep(s)
    PROVE  StepOK(s)
<1>. USE ActorFacts
<1>1. TypeOK /\ s \in Actors /\ s \notin Runners
  BY DEF IInv
<1>2. \A id \in agents \cup {None} : id \in Requests \cup {None}
  BY <1>1 DEF TypeOK
<1>3. CASE \/ \E o \in Objectives, id \in agents \cup {None} : AttachRead(s, o, id)
           \/ \E id \in agents \cup {None} : ReattachRead(s, id)
  <2>1. PICK o \in Objectives, id \in Requests \cup {None} :
          AttachTo(s, o, id) /\ sess[s].objective \in {None, o}
    <3>1. sess[s].objective \in Objectives \cup {None}
      BY <1>1 DEF TypeOK
    <3>. QED
      BY <1>2, <1>3, <3>1 DEF AttachRead, ReattachRead
  <2>2. PICK call \in Tx : Begin(s, call) /\ CallFits(s, call)
    BY <1>1, <2>1, AttachFits
  <2>3. UNCHANGED <<req, obj, sess, runner>>
    BY <1>3 DEF AttachRead, ReattachRead
  <2>. QED
    BY <1>1, <2>2, <2>3, ReadStep
<1>4. CASE AttachWrite(s)
  <2>. DEFINE o == tx[s].objective
  <2>1. RowsStep
    BY <1>4, LinkRows
  <2>2. /\ tx[s].op = "attach" /\ End(s) /\ UNCHANGED runner
        /\ \/ UNCHANGED <<sess, obj>>
           \/ /\ sess[s].objective = None
              /\ sess' = [sess EXCEPT ![s] = [objective |-> o, open |-> TRUE]]
              /\ obj' = [obj EXCEPT ![o].phase = "running"]
    BY <1>4 DEF AttachWrite
  <2>3. tx'[s] = NoTx /\ HasTheLock(s) /\ OthersKept(s)
    BY <1>1, <2>2, EndStep DEF TransactionOps, OthersKept
  <2>4. ASSUME NEW x \in Sessions PROVE SessStep(x)
    BY <1>1, <2>2, <2>3, NoTxType DEF SessStep, TypeOK
  <2>5. \A x \in Objectives : ObjStep(x)
    BY <1>1, <2>2, PhaseStep, ObjectiveStays
  <2>. QED
    BY <1>1, <2>1, <2>3, <2>4, <2>5, WritesStep
<1>5. CASE Deliver(s)
  <2>1. RowsStep
    BY <1>5, QuietRows DEF Deliver, Quiet, Same
  <2>2. OthersKept(s) /\ HasTheLock(s) /\ tx'[s] = tx[s] /\ tx[s].op = "none"
    BY <1>5 DEF Deliver, OthersKept, HasTheLock
  <2>3. \A x \in Sessions : sess'[x].objective = sess[x].objective
    BY <1>1, <1>5 DEF Deliver, TypeOK
  <2>4. \A x \in Objectives : ObjStep(x)
    BY <1>1, <1>5, PhaseStep DEF Deliver
  <2>. QED
    BY <1>1, <2>1, <2>2, <2>3, <2>4, SessionsStay, WritesStep
<1>6. CASE (\E o \in Objectives : Resume(s, o)) \/ FollowUp(s)
  <2>1. UNCHANGED <<req, tx, runner>> /\ tx[s].op = "none" /\ NotLockedOut(s)
    BY <1>6 DEF Resume, FollowUp
  <2>2. RowsStep
    BY <2>1, QuietRows DEF Quiet, Same
  <2>3. OthersKept(s) /\ HasTheLock(s)
    BY <2>1 DEF OthersKept, HasTheLock
  <2>4. \/ sess' = sess
        \/ /\ sess[s].objective = None
           /\ \E o \in Objectives : sess' = [sess EXCEPT ![s] = [objective |-> o, open |-> TRUE]]
    BY <1>6 DEF Resume, FollowUp
  <2>5. ASSUME NEW x \in Sessions PROVE SessStep(x)
    BY <1>1, <2>1, <2>4 DEF SessStep, TypeOK
  <2>6. obj' = obj \/ \E o : obj' = [obj EXCEPT ![o].phase = "running"]
    BY <1>6 DEF Resume, FollowUp
  <2>7. \A x \in Objectives : ObjStep(x)
    BY <1>1, <2>6, PhaseStep, ObjectiveStays
  <2>. QED
    BY <1>1, <2>1, <2>2, <2>3, <2>5, <2>7, WritesStep
<1>. QED
  BY <1>3, <1>4, <1>5, <1>6 DEF AgentStep

\* The loop of a runner goes somewhere else than "launching".
LEMMA LeavesLaunching ==
    ASSUME TypeOK, NEW p \in Runners, NEW pc, NEW r, pc # "launching",
           Goto(p, pc, r) \/ Move(p, pc) \/ Proceed(p, pc)
    PROVE  runner'[p].pc # "launching" /\ \A q \in Runners \ {p} : runner'[q] = runner[q]
BY Placed, Moved, Proceeded

LEMMA ReportShape ==
    ASSUME IInv, RInv, NEW p \in Runners, NEW to \in {"launching", "launched", "failed"},
           ReportRead(p, to) \/ ReportWrite(p, to)
    PROVE  StepOK(p)
<1>. USE ActorFacts
<1>1. TypeOK /\ p \in Actors
  BY DEF IInv
<1>. DEFINE r == runner[p].held
<1>2. CASE ReportRead(p, to)
  <2>1. r \in Requests /\ UNCHANGED <<req, obj, sess>>
    BY <1>2, HeldRequest DEF IInv, ReportRead, ReportedFrom, Resting
  <2>2. CASE /\ req[r].status \in AllowedFrom(to)
             /\ Begin(p, Call(to, {Take(r)})) /\ UNCHANGED runner
    <3>1. req[r].status \in StatusRead(to)
      BY <2>2 DEF AllowedFrom, StatusRead
    <3>2. Call(to, {Take(r)}) \in Tx /\ CallFits(p, Call(to, {Take(r)}))
      BY <1>1, <2>1, <3>1, ReadOne
    <3>. QED
      BY <1>1, <2>1, <2>2, <3>2, ReadStep
  <2>3. CASE /\ tx[p].op = "none" /\ UNCHANGED tx
             /\ Proceed(p, AfterRejection(runner[p].pc, to))
    <3>1. AfterRejection(runner[p].pc, to) # "launching"
      BY DEF AfterRejection
    <3>2. runner'[p].pc # "launching" /\ OthersKept(p)
      BY <1>1, <2>3, <3>1, LeavesLaunching DEF OthersKept
    <3>. QED
      BY <1>1, <2>1, <2>3, <3>2, MoveStep
  <2>. QED
    BY <1>2, <2>2, <2>3 DEF ReportRead
<1>3. CASE ReportWrite(p, to)
  <2>1. PICK s \in tx[p].rows :
          /\ req' = SetStatus({s}, to)
          /\ Proceed(p, IF Matches(s) THEN AfterReport(runner[p].pc, to)
                                      ELSE AfterRejection(runner[p].pc, to))
    BY <1>3 DEF ReportWrite
  <2>2. tx[p].op = to /\ End(p) /\ UNCHANGED <<obj, sess>>
    BY <1>3 DEF ReportWrite
  <2>3. tx'[p] = NoTx /\ HasTheLock(p) /\ \A b \in Actors \ {p} : tx'[b] = tx[b]
    BY <1>1, <2>2, EndStep DEF TransactionOps
  <2>4. OthersKept(p)
    BY <1>1, <2>1, <2>3, Proceeded DEF OthersKept
  <2>5. CASE to = "launching" /\ Matches(s)
    <3>1. s.id = r /\ r \in Requests
      BY <2>2, <2>5, <1>1, RowsOf DEF RInv, ReportsOwn, OwnReports
    <3>2. Move(p, "launching") /\ req' = SetStatus({s}, "launching")
      <4>1. runner[p].pc = "claimed"
        BY <2>2, <2>5 DEF IInv, CallOK, CallAt
      <4>2. AfterReport(runner[p].pc, to) = "launching"
        BY <2>5, <4>1 DEF AfterReport
      <4>3. Proceed(p, "launching")
        BY <2>1, <2>5, <4>2
      <4>. QED
        BY <2>1, <2>5, <4>3 DEF Proceed
    <3>3. runner'[p].pc = "launching" /\ runner'[p].held = r
      BY <1>1, <3>2, Moved
    <3>4. req'[r].status = "launching"
      <4>1. req'[r] = [req[r] EXCEPT !.status = "launching", !.revision = @ + 1, !.lapsed = FALSE]
        BY <2>5, <3>1, <3>2 DEF SetStatus
      <4>2. req[r] \in Row
        BY <1>1, <3>1 DEF TypeOK
      <4>. QED
        BY <4>1, <4>2 DEF Row
    <3>5. RowsStep
      <4>1. {s} \in SUBSET tx[p].rows /\ StatusWritten(tx[p].op) = "launching"
        BY <2>2, <2>5 DEF StatusWritten
      <4>. QED
        BY <1>1, <2>2, <2>5, <3>2, <4>1, UpdateRows
    <3>6. LoopStep(p)
      BY <2>4, <3>3, <3>4 DEF LoopStep, OthersKept
    <3>7. CallStep(p) /\ WriteStep(p)
      BY <2>3, NoTxType DEF CallStep, WriteStep
    <3>. QED
      BY <2>2, <2>4, <3>5, <3>6, <3>7, SessionsStay, ObjectiveStays DEF StepOK
  <2>6. CASE ~(to = "launching" /\ Matches(s))
    <3>1. runner'[p].pc # "launching"
      BY <1>1, <2>1, <2>6, Proceeded DEF AfterReport, AfterRejection
    <3>2. RowsStep
      <4>1. {s} \in SUBSET tx[p].rows /\ StatusWritten(tx[p].op) = to
        BY <2>2 DEF StatusWritten
      <4>. QED
        BY <1>1, <2>1, <2>2, <3>1, <4>1, UpdateRows
    <3>. QED
      BY <1>1, <2>2, <2>3, <2>4, <3>1, <3>2, SessionsStay, ObjectiveStays, WritesStep
  <2>. QED
    BY <2>5, <2>6
<1>. QED
  BY <1>2, <1>3

LEMMA RunnerShape ==
    ASSUME IInv, RInv, NEW p \in Runners, RunnerStep(p) \/ Crash(p)
    PROVE  StepOK(p)
<1>. USE ActorFacts
<1>1. TypeOK /\ p \in Actors
  BY DEF IInv
<1>2. CASE Poll(p)
  BY <1>1, <1>2, StaleFits, ReadStep DEF Poll
<1>3. CASE PollExpire(p)
  <2>1. /\ tx[p].op = "expire" /\ req' = SetStatus(tx[p].rows, StatusWritten(tx[p].op))
        /\ End(p) /\ Goto(p, "selecting", None) /\ UNCHANGED <<obj, sess>>
    BY <1>3 DEF PollExpire, StatusWritten
  <2>2. RowsStep
    <3>1. tx[p].rows \in SUBSET tx[p].rows
      OBVIOUS
    <3>. QED
      BY <1>1, <2>1, <3>1, UpdateRows DEF OwnReports
  <2>3. tx'[p] = NoTx /\ HasTheLock(p) /\ \A b \in Actors \ {p} : tx'[b] = tx[b]
    BY <1>1, <2>1, EndStep DEF TransactionOps
  <2>4. OthersKept(p) /\ runner'[p].pc # "launching"
    BY <1>1, <2>1, <2>3, LeavesLaunching DEF OthersKept
  <2>. QED
    BY <1>1, <2>1, <2>2, <2>3, <2>4, SessionsStay, ObjectiveStays, WritesStep
<1>4. CASE ClaimRead(p)
  <2>1. PICK r \in Claimable(p) : Begin(p, Call("claim", {Take(r)}))
    BY <1>4 DEF ClaimRead
  <2>2. r \in Requests /\ req[r].status \in StatusRead("claim") /\ Runs(r)
    BY <2>1 DEF Claimable, StatusRead, Runs, Parked
  <2>3. Call("claim", {Take(r)}) \in Tx /\ CallFits(p, Call("claim", {Take(r)}))
    BY <1>1, <2>2, ReadOne DEF OwnReports
  <2>. QED
    BY <1>1, <1>4, <2>1, <2>3, ReadStep DEF ClaimRead
<1>5. CASE ClaimNothing(p)
  <2>1. OthersKept(p) /\ runner'[p].pc # "launching"
    BY <1>1, <1>5, LeavesLaunching DEF ClaimNothing, OthersKept
  <2>. QED
    BY <1>1, <1>5, <2>1, MoveStep DEF ClaimNothing
<1>6. CASE ClaimWrite(p)
  <2>1. RowsStep
    BY <1>1, <1>6, ClaimRows DEF IInv
  <2>2. /\ tx[p].op = "claim" /\ End(p) /\ UNCHANGED <<obj, sess>>
        /\ \E s \in tx[p].rows : Goto(p, "claimed", s.id) \/ Goto(p, "idle", None)
    BY <1>6 DEF ClaimWrite
  <2>3. tx'[p] = NoTx /\ HasTheLock(p) /\ \A b \in Actors \ {p} : tx'[b] = tx[b]
    BY <1>1, <2>2, EndStep DEF TransactionOps
  <2>4. OthersKept(p) /\ runner'[p].pc # "launching"
    BY <1>1, <2>2, <2>3, LeavesLaunching DEF OthersKept
  <2>. QED
    BY <1>1, <2>1, <2>2, <2>3, <2>4, SessionsStay, ObjectiveStays, WritesStep
<1>7. CASE WorkingDirectoryMissing(p)
  <2>1. tx[p].op = "claim" /\ UNCHANGED <<req, obj, sess>>
    BY <1>7 DEF WorkingDirectoryMissing
  <2>2. PICK s \in tx[p].rows :
          \/ /\ req[s.id].status \in ACTIVE_EXECUTION_REQUEST_STATUSES
             /\ tx' = [tx EXCEPT ![p] = Call("failed", {Take(s.id)})]
             /\ UNCHANGED runner
          \/ End(p) /\ Goto(p, "idle", None)
    BY <1>7 DEF WorkingDirectoryMissing
  <2>3. CASE /\ req[s.id].status \in ACTIVE_EXECUTION_REQUEST_STATUSES
             /\ tx' = [tx EXCEPT ![p] = Call("failed", {Take(s.id)})]
             /\ UNCHANGED runner
    <3>. DEFINE call == Call("failed", {Take(s.id)})
    <3>1. s.id \in Requests /\ req[s.id].status \in StatusRead("failed")
      BY <1>1, <2>3, RowsOf DEF StatusRead
    <3>2. CallFits(p, call)
      BY <1>1, <3>1, ReadOne DEF OwnReports
    <3>. HIDE DEF call
    <3>3. tx'[p] = call /\ \A b \in Actors \ {p} : tx'[b] = tx[b]
      BY <1>1, <2>3 DEF TypeOK, call
    <3>4. OthersKept(p) /\ CallStep(p) /\ LoopStep(p)
      BY <2>1, <2>3, <3>2, <3>3 DEF OthersKept, CallStep, LoopStep, HasTheLock, TransactionOps
    <3>5. RowsStep /\ Quiet
      BY <2>1, QuietRows DEF Quiet, Same
    <3>. QED
      BY <2>1, <3>4, <3>5, SessionsStay, ObjectiveStays DEF StepOK, WriteStep
  <2>4. CASE End(p) /\ Goto(p, "idle", None)
    <3>1. tx'[p] = NoTx /\ OthersKept(p) /\ runner'[p].pc # "launching"
      BY <1>1, <2>1, <2>4, EndStep, LeavesLaunching DEF OthersKept, TransactionOps
    <3>. QED
      BY <1>1, <2>1, <3>1, MoveStep
  <2>. QED
    BY <2>2, <2>3, <2>4
<1>8. CASE BranchPreparedRead(p)
  <2>. DEFINE r == runner[p].held
  <2>1. r \in Requests
    BY <1>8, HeldRequest DEF IInv, BranchPreparedRead, Resting
  <2>2. req[r].status \in StatusRead("branch")
    BY <1>1, <2>1, RowFacts DEF StatusRead
  <2>3. Call("branch", {Take(r)}) \in Tx /\ CallFits(p, Call("branch", {Take(r)}))
    BY <1>1, <2>1, <2>2, ReadOne
  <2>. QED
    BY <1>1, <1>8, <2>3, ReadStep DEF BranchPreparedRead
<1>9. CASE BranchPreparedWrite(p)
  <2>1. RowsStep
    BY <1>9, BranchRows
  <2>2. tx[p].op = "branch" /\ End(p) /\ UNCHANGED <<obj, sess>> /\ Move(p, "prepared")
    BY <1>9 DEF BranchPreparedWrite
  <2>3. tx'[p] = NoTx /\ HasTheLock(p) /\ \A b \in Actors \ {p} : tx'[b] = tx[b]
    BY <1>1, <2>2, EndStep DEF TransactionOps
  <2>4. OthersKept(p) /\ runner'[p].pc # "launching"
    BY <1>1, <2>2, <2>3, LeavesLaunching DEF OthersKept
  <2>. QED
    BY <1>1, <2>1, <2>2, <2>3, <2>4, SessionsStay, ObjectiveStays, WritesStep
<1>10. CASE Spawn(p) \/ LaunchFails(p) \/ Crash(p)
  <2>1. /\ \E pc \in {"spawned", "failing", "mutationFailed"} :
              Goto(p, "idle", None) \/ Move(p, pc)
        /\ tx[p].op = "none" /\ UNCHANGED <<req, obj, sess, tx>>
    BY <1>10 DEF Spawn, LaunchFails, Crash
  <2>2. OthersKept(p) /\ runner'[p].pc # "launching"
    BY <1>1, <2>1, LeavesLaunching DEF OthersKept
  <2>. QED
    BY <1>1, <2>1, <2>2, MoveStep
<1>11. CASE CompleteMutationRead(p)
  <2>. DEFINE r == runner[p].held
  <2>1. r \in Requests /\ UNCHANGED <<req, obj, sess>>
    BY <1>11, HeldRequest DEF IInv, CompleteMutationRead, Resting
  <2>2. CASE /\ req[r].status \in {"claimed", "launching"}
             /\ Begin(p, Call("complete", {Take(r)})) /\ UNCHANGED runner
    <3>1. req[r].status \in StatusRead("complete")
      BY <2>2 DEF StatusRead
    <3>2. Call("complete", {Take(r)}) \in Tx /\ CallFits(p, Call("complete", {Take(r)}))
      BY <1>1, <2>1, <3>1, ReadOne
    <3>. QED
      BY <1>1, <2>1, <2>2, <3>2, ReadStep
  <2>3. CASE tx[p].op = "none" /\ Move(p, "failing") /\ UNCHANGED tx
    <3>1. OthersKept(p) /\ runner'[p].pc # "launching"
      BY <1>1, <2>3, LeavesLaunching DEF OthersKept
    <3>. QED
      BY <1>1, <2>1, <2>3, <3>1, MoveStep
  <2>. QED
    BY <1>11, <2>2, <2>3 DEF CompleteMutationRead
<1>12. CASE CompleteMutationWrite(p)
  <2>1. PICK s \in tx[p].rows :
          /\ req' = SetStatus({s}, "launched")
          /\ Goto(p, "idle", None) \/ Move(p, "failing")
    BY <1>12 DEF CompleteMutationWrite
  <2>2. tx[p].op = "complete" /\ NotLockedOut(p) /\ End(p) /\ UNCHANGED <<obj, sess>>
    BY <1>12 DEF CompleteMutationWrite
  <2>3. tx'[p] = NoTx /\ HasTheLock(p) /\ \A b \in Actors \ {p} : tx'[b] = tx[b]
    BY <1>1, <2>2, EndStep
  <2>4. OthersKept(p) /\ runner'[p].pc # "launching"
    BY <1>1, <2>1, <2>3, LeavesLaunching DEF OthersKept
  <2>5. RowsStep
    <3>1. {s} \in SUBSET tx[p].rows /\ StatusWritten(tx[p].op) = "launched"
      BY <2>2 DEF StatusWritten
    <3>. QED
      BY <1>1, <2>1, <2>2, <2>4, <3>1, UpdateRows
  <2>. QED
    BY <1>1, <2>2, <2>3, <2>4, <2>5, SessionsStay, ObjectiveStays, WritesStep
<1>. QED
  BY <1>2, <1>3, <1>4, <1>5, <1>6, <1>7, <1>8, <1>9, <1>10, <1>11, <1>12, ReportShape
  DEF RunnerStep

-----------------------------------------------------------------------------
(***************************************************************************)
(* The invariant, and what follows from it.                                *)
(***************************************************************************)

LEMMA ActorsShape ==
    ASSUME IInv, RInv, NEW a \in Actors, StepOK(a)
    PROVE  StepShape
<1>1. OthersKept(a) /\ CallStep(a) /\ LoopStep(a)
  BY DEF StepOK
<1>2. \A b \in Actors \ {a} : tx'[b] = tx[b]
  BY <1>1 DEF OthersKept
<1>3. \A p \in Runners \ {a} : runner'[p] = runner[p]
  BY <1>1 DEF OthersKept
<1>4. ASSUME NEW b \in Actors PROVE CallKept(b) \/ tx'[b] = NoTx \/ CallBegun(b)
  <2>1. CASE b # a
    BY <1>2, <1>3, <2>1 DEF CallKept
  <2>2. CASE b = a
    BY <1>1, <1>2, <2>2 DEF CallStep, CallKept, CallBegun
  <2>. QED
    BY <2>1, <2>2
<1>5. \A p \in Runners : runner'[p].pc = "launching" =>
          \/ runner'[p] = runner[p]
          \/ runner'[p].held = runner[p].held /\ req'[runner[p].held].status = "launching"
  BY <1>1 DEF LoopStep
<1>. QED
  BY <1>4, <1>5 DEF StepOK, StepShape, WriteStep

LEMMA StepsShape ==
    ASSUME IInv, RInv, [Next]_vars
    PROVE  StepShape
<1>1. CASE \E a \in Actors : StepOK(a)
  BY <1>1, ActorsShape
<1>2. CASE (\E r \in Requests : Lapse(r)) \/ UNCHANGED vars
  <2>1. UNCHANGED <<obj, sess, tx, runner>>
    BY <1>2 DEF Lapse, vars
  <2>2. Quiet
    <3>1. CASE UNCHANGED vars
      BY <3>1 DEF Quiet, Same, vars
    <3>2. CASE \E r \in Requests : Lapse(r)
      <4>1. PICK r \in Requests : Lapse(r)
        BY <3>2
      <4>2. \A q \in Requests : req[q] \in Row
        BY DEF IInv, TypeOK
      <4>3. req' = [req EXCEPT ![r] = [req[r] EXCEPT !.lapsed = TRUE]]
        BY <4>1 DEF Lapse
      <4>. QED
        BY <4>2, <4>3 DEF IInv, TypeOK, Quiet, Same, Row
    <3>. QED
      BY <1>2, <3>1, <3>2
  <2>. QED
    BY <2>1, <2>2, QuietRows, SessionsStay, ObjectiveStays DEF StepShape, CallKept
<1>. QED
  BY <1>1, <1>2, ActorFacts, RunnerShape, OperatorShape, AgentShape DEF Next

LEMMA RInvariance == IInv /\ RInv /\ [Next]_vars => RInv'
BY StepsShape, ShapeKeeps

LEMMA RInitially == Init => RInv
<1>. SUFFICES ASSUME Init PROVE RInv
  OBVIOUS
<1>1. ReadsOK /\ ReportsOwn /\ BranchOK /\ AttachOK /\ ExpireOK /\ LinkOK
  BY NoTxType, ActorFacts
  DEF Init, ReadsOK, ReportsOwn, OwnReports, BranchOK, AttachOK, ExpireOK, LinkOK
<1>2. PlaceOK
  BY DEF Init, PlaceOK
<1>3. BlankOK /\ ObjectivesOK /\ LinkedOK /\ StopsOK
  BY NoTxType
  DEF Init, NoRow, BlankOK, ObjectivesOK, LinkedOK, LinkedToOwnObjective, StopsOK, StoppedIsIdle
<1>4. Alone /\ Current /\ ClaimsRun /\ DequeuesAll
  BY NoTxType DEF Init, Alone, Current, ClaimsRun, DequeuesAll, TransactionOps
<1>. QED
  BY <1>1, <1>2, <1>3, <1>4 DEF RInv

LEMMA AlwaysRInv == Spec => [](IInv /\ RInv)
<1>1. Init => IInv /\ RInv
  BY Initially, RInitially
<1>2. (IInv /\ RInv) /\ [Next]_vars => (IInv /\ RInv)'
  BY Invariance, RInvariance
<1>. QED
  BY <1>1, <1>2, PTL DEF Spec

\* The queue implements its promise, for any number of requests, runners and
\* sessions and on either database: a request is claimed once and by one runner, no
\* race revives what was settled, expires what an agent is linked to, or replaces
\* the link.
THEOREM QueueImplements == Spec => ImplementsLifecycle
<1>1. Init => Lifecycle!Init
  BY DEF Init, NoRow, Lifecycle!Init
<1>2. IInv /\ RInv /\ [Next]_vars => [Lifecycle!Next]_(Lifecycle!vars)
  BY StepsShape DEF StepShape, RowsStep, Refines
<1>. QED
  BY <1>1, <1>2, AlwaysRInv, PTL DEF Spec, ImplementsLifecycle, Lifecycle!Spec

\* Whatever the agents name when they attach, and whatever happens to the row
\* between the read and the guarded link, a request's session is one that was
\* opened for the request's objective.
THEOREM LinksStayHome == Spec => []LinkedToOwnObjective
<1>1. IInv /\ RInv => LinkedToOwnObjective
  BY DEF RInv, LinkedOK
<1>. QED
  BY <1>1, AlwaysRInv, PTL

\* On the SQLite client a stop is final: no runner works on an objective that a user
\* moved out of the pipeline or deleted by a call that dequeues.  Objectives demoted
\* by the promotion of another draft, or deleted by a refill of the draft slot or with
\* their mission or project, are not dequeued by the code and not covered.
THEOREM StopsStick ==
    ASSUME Serialized
    PROVE  Spec => []StoppedIsIdle
<1>1. IInv /\ RInv => StoppedIsIdle
  BY DEF RInv, StopsOK
<1>. QED
  BY <1>1, AlwaysRInv, PTL

=============================================================================

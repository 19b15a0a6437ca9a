--------------------------- MODULE ExecutionQueue ---------------------------
(***************************************************************************)
(* The durable execution-request queue of                                  *)
(* packages/core/service/execution-requests.ts together with everyone who  *)
(* writes to it: the runners (cli/src/commands.ts, runRunnerCommand), the  *)
(* operators of the web application (backend/execution/launch.ts,          *)
(* runner.ts, repository.ts) and the agents that attach sessions           *)
(* (packages/core/service/protocol.ts).                                    *)
(*                                                                         *)
(* A database transaction is two steps: the read that takes a snapshot of  *)
(* the rows it is about, and the guarded UPDATE with the commit.  Between  *)
(* the two other transactions may commit (Postgres, READ COMMITTED).  With *)
(* Serialized = TRUE a transaction runs alone, as the mutex of the SQLite  *)
(* client (database/src/client.ts) makes it.  What the code reads before   *)
(* it opens its transaction is protected by neither; such a read may be    *)
(* stale by any amount when the transaction begins.                        *)
(*                                                                         *)
(* A row's 15-minute TTLs (claim_expires_at, launch_completed_at plus the  *)
(* attach TTL) are one flag, lapsed, that the passing of time raises.      *)
(* Objectives are kept as far as the queue looks at them: launchable       *)
(* (draft, submitted, launching), running (executing, pending_delivery),   *)
(* done (complete by delivery), stopped (moved out of the pipeline by a    *)
(* user: complete or future), demoted (made future because another         *)
(* objective became the draft), and the deleted_at tombstone, with         *)
(* discarded where the deletion dequeued nothing.                          *)
(***************************************************************************)
EXTENDS Naturals, FiniteSets

CONSTANTS MaxRequests, \* bound on the rows ever inserted
          Objectives,  \* objectives of one mission
          Runners,     \* one runner per execution target
          Operators,   \* concurrent requests of the web application
          Sessions,    \* bound on agent_sessions rows
          None,        \* SQL NULL
          Serialized,  \* TRUE: SQLite client, FALSE: Postgres
          MaxCrashes,  \* bound on runner crashes
          Workload     \* the sources of requests, and the moves of
                       \* objectives past the queue, this instance has

VARIABLES req,     \* execution_requests
          obj,     \* objectives, as far as the queue reads them
          sess,    \* agent_sessions
          tx,      \* the call each actor has in flight in the service
          runner,  \* where each runner's loop is, and the request it holds
          agents,  \* requests whose agent process was spawned
          crashes  \* runner crashes so far

vars == <<req, obj, sess, tx, runner, agents, crashes>>

-----------------------------------------------------------------------------
Requests == 1..MaxRequests
Actors   == Runners \cup Operators \cup Sessions

\* Mutation: a launched request still counts as active.
ActiveOnceLaunched == {"queued", "claimed", "launching", "launched"}

ACTIVE_EXECUTION_REQUEST_STATUSES == {"queued", "claimed", "launching"}
LinkableStatuses == {"launching", "launched"}
Statuses == {"none", "queued", "claimed", "launching", "launched",
             "failed", "cleared", "expired"}
Mutation == "local_target_mutation"
Sources  == {"webapp", "auto_advance", Mutation}
ObjectiveMoves == {"promote", "discard", "resume"}
Phases   == {"launchable", "running", "done", "stopped", "demoted"}

ASSUME QueueConstants ==
    /\ MaxRequests \in Nat
    /\ MaxCrashes \in Nat
    /\ Serialized \in BOOLEAN
    /\ Workload \subseteq Sources \cup ObjectiveMoves
    /\ None \notin Objectives \cup Runners \cup Sessions \cup Nat
    /\ Runners \cap Operators = {}
    /\ Runners \cap Sessions = {}
    /\ Operators \cap Sessions = {}

Row == [status    : Statuses,
        revision  : Nat,
        source    : Sources,
        objective : Objectives \cup {None},
        target    : Runners \cup {None},   \* execution_target_id, the pin
        owner     : Runners \cup {None},   \* claimed_by_execution_target_id
        session   : Sessions \cup {None},  \* launched_session_id
        lapsed    : BOOLEAN]               \* the TTL of this status has passed

NoRow == [status |-> "none", revision |-> 0, source |-> "webapp",
          objective |-> None, target |-> None, owner |-> None,
          session |-> None, lapsed |-> FALSE]

Objective == [phase : Phases, deleted : BOOLEAN, discarded : BOOLEAN]

\* What a transaction remembers of a row it read.
Snapshot == [id : Requests, status : Statuses, revision : Nat]

\* Calls that hold the database transaction open between the two steps;
\* "complete" reads its row before its transaction begins.
TransactionOps == {"expire", "claim", "launching", "launched", "failed",
                   "branch", "clear", "dequeue", "promote", "launch", "attach"}

Tx == [op        : TransactionOps \cup {"none", "complete"},
       rows      : SUBSET Snapshot,
       objective : Objectives \cup {None},
       drafts    : SUBSET Objectives,     \* the other drafts of the mission
       to        : {"", "launchable", "running", "stopped", "deleted"}]

NoTx == [op |-> "none", rows |-> {}, objective |-> None, drafts |-> {}, to |-> ""]

RunnerPcs == {"idle", "selecting", "claimed", "launching",
              "prepared", "spawned", "mutationFailed", "failing"}

TypeOK ==
    /\ req \in [Requests -> Row]
    /\ obj \in [Objectives -> Objective]
    /\ sess \in [Sessions -> [objective : Objectives \cup {None}, open : BOOLEAN]]
    /\ tx \in [Actors -> Tx]
    /\ runner \in [Runners -> [pc : RunnerPcs, held : Requests \cup {None}]]
    /\ agents \in SUBSET Requests
    /\ crashes \in 0..MaxCrashes

Init ==
    /\ req = [r \in Requests |-> NoRow]
    /\ obj = [o \in Objectives |->
                [phase |-> "launchable", deleted |-> FALSE, discarded |-> FALSE]]
    /\ sess = [s \in Sessions |-> [objective |-> None, open |-> FALSE]]
    /\ tx = [a \in Actors |-> NoTx]
    /\ runner = [p \in Runners |-> [pc |-> "idle", held |-> None]]
    /\ agents = {}
    /\ crashes = 0

-----------------------------------------------------------------------------
(***************************************************************************)
(* Transactions.                                                           *)
(***************************************************************************)

\* The SQLite client lets nobody read or write while a transaction is open.
NotLockedOut(a) ==
    Serialized => \A b \in Actors \ {a} : tx[b].op \notin TransactionOps

Take(r) == [id |-> r, status |-> req[r].status, revision |-> req[r].revision]

\* The compare-and-set guard "WHERE id = ? AND status = ? AND revision = ?".
Matches(s) ==
    /\ req[s.id].status = s.status
    /\ req[s.id].revision = s.revision

Begin(a, call) ==
    /\ tx[a].op = "none"
    /\ NotLockedOut(a)
    /\ tx' = [tx EXCEPT ![a] = call]

End(a) == tx' = [tx EXCEPT ![a] = NoTx]

Call(op, rows) == [NoTx EXCEPT !.op = op, !.rows = rows]

\* Mutation: the UPDATE forgets its guard.
SetStatusUnguarded(rows, st) ==
    [r \in Requests |->
        IF \E s \in rows : s.id = r
        THEN [req[r] EXCEPT !.status = st, !.revision = @ + 1, !.lapsed = FALSE]
        ELSE req[r]]

\* Every row of the snapshot that is still as it was read gets status st;
\* a row that changed meanwhile is left alone and nobody is told.
SetStatus(rows, st) ==
    [r \in Requests |->
        IF \E s \in rows : s.id = r /\ Matches(s)
        THEN [req[r] EXCEPT !.status = st, !.revision = @ + 1, !.lapsed = FALSE]
        ELSE req[r]]

-----------------------------------------------------------------------------
(***************************************************************************)
(* Queueing.                                                               *)
(***************************************************************************)

OfObjective(o) == {r \in Requests : req[r].status # "none" /\ req[r].objective = o}

ActiveRequests(R) ==
    {r \in R : req[r].status \in ACTIVE_EXECUTION_REQUEST_STATUSES}

\* Rows are inserted in the order of their created_at.
NewId(r) ==
    /\ req[r].status = "none"
    /\ \A q \in 1..(r - 1) : req[q].status # "none"

\* The bound MaxRequests: a launch starts while a row is left for it.
HasRoom ==
    Cardinality({a \in Actors : tx[a].op = "launch"})
        < Cardinality({r \in Requests : req[r].status = "none"})

Insert(source, o, target) ==
    \E r \in Requests :
        /\ NewId(r)
        /\ req' = [req EXCEPT ![r] =
                     [NoRow EXCEPT !.status = "queued", !.revision = 1,
                                   !.source = source, !.objective = o,
                                   !.target = target]]

\* launchObjective: an active request of the objective is returned as it is,
\* otherwise one is inserted, pinned to a target or to none.  A draft becomes
\* launching whatever was committed since it was read; any other objective is
\* read again by createExecutionRequest, which rejects it if it was moved.
LaunchObjectiveRead(u, o) ==
    /\ "webapp" \in Workload /\ HasRoom
    /\ obj[o].phase = "launchable" /\ ~obj[o].deleted
    /\ ActiveRequests(OfObjective(o)) = {}
    /\ Begin(u, [NoTx EXCEPT !.op = "launch", !.objective = o])
    /\ UNCHANGED <<req, obj, sess, runner, agents, crashes>>

LaunchObjectiveWrite(u, t) ==
    /\ tx[u].op = "launch"
    /\ LET o == tx[u].objective
       IN  \/ /\ Insert("webapp", o, t)
              /\ obj' = [obj EXCEPT ![o].phase = "launchable"]
           \/ obj[o].phase # "launchable" /\ UNCHANGED <<req, obj>>
    /\ End(u)
    /\ UNCHANGED <<sess, runner, agents, crashes>>

\* createExecutionRequest as deliverSession calls it to auto-advance.  That the
\* objective is launchable was read before the transaction; no other request of
\* the objective is looked for.  With an idempotency key that is used already the
\* old request is returned (or the unique index refuses the INSERT): no row.
AutoAdvance(u, o, t) ==
    /\ "auto_advance" \in Workload /\ HasRoom
    /\ tx[u].op = "none" /\ NotLockedOut(u)
    /\ \A r \in OfObjective(o) : req[r].source # "auto_advance"
    /\ Insert("auto_advance", o, t)
    /\ UNCHANGED <<obj, sess, tx, runner, agents, crashes>>

\* createLocalTargetMutationRequest: a git operation for one target, anchored
\* on an objective in whatever state it is.
QueueMutation(u, o, t) ==
    /\ Mutation \in Workload /\ HasRoom
    /\ tx[u].op = "none" /\ NotLockedOut(u)
    /\ Insert(Mutation, o, t)
    /\ UNCHANGED <<obj, sess, tx, runner, agents, crashes>>

-----------------------------------------------------------------------------
(***************************************************************************)
(* Clearing and expiring.                                                  *)
(***************************************************************************)

\* clearExecutionRequests for the whole queue (R = Requests) or an objective.
ClearRead(u, R) ==
    /\ ActiveRequests(R) # {}
    /\ Begin(u, Call("clear", {Take(r) : r \in ActiveRequests(R)}))
    /\ UNCHANGED <<req, obj, sess, runner, agents, crashes>>

ClearWrite(u) ==
    /\ tx[u].op = "clear"
    /\ req' = SetStatus(tx[u].rows, "cleared")
    /\ End(u)
    /\ UNCHANGED <<obj, sess, runner, agents, crashes>>

\* Mutation: launches nobody attached to are not looked for.
StaleClaimsOnly(r) == req[r].lapsed /\ req[r].status = "claimed"

\* The SELECT of expireStaleExecutionRequests.  A request that is launching
\* is never stale.
Stale(r) ==
    /\ req[r].lapsed
    /\ \/ req[r].status = "claimed"
       \/ /\ req[r].status = "launched"
          /\ req[r].session = None
          /\ obj[req[r].objective].phase = "launchable"

StaleRequests == {r \in Requests : req[r].status # "none" /\ Stale(r)}

\* runnerStatus of an operator.
RunnerStatusRead(u) ==
    /\ StaleRequests # {}
    /\ Begin(u, Call("expire", {Take(r) : r \in StaleRequests}))
    /\ UNCHANGED <<req, obj, sess, runner, agents, crashes>>

RunnerStatusWrite(u) ==
    /\ tx[u].op = "expire"
    /\ req' = SetStatus(tx[u].rows, "expired")
    /\ End(u)
    /\ UNCHANGED <<obj, sess, runner, agents, crashes>>

-----------------------------------------------------------------------------
(***************************************************************************)
(* The runner: claim, launching, branch-prepared, spawn, launched, failed. *)
(***************************************************************************)

Goto(p, pc, r) == runner' = [runner EXCEPT ![p] = [pc |-> pc, held |-> r]]
Move(p, pc)    == Goto(p, pc, runner[p].held)

\* POST /api/runner/claim expires what is stale in a transaction of its own,
\* before it selects a candidate; when nothing is stale that is no step.
Poll(p) ==
    /\ runner[p].pc = "idle" /\ StaleRequests # {}
    /\ Begin(p, Call("expire", {Take(r) : r \in StaleRequests}))
    /\ UNCHANGED <<req, obj, sess, runner, agents, crashes>>

\* Mutation: a stale claim goes back to the queue.
PollRequeue(p) ==
    /\ tx[p].op = "expire"
    /\ req' = SetStatus(tx[p].rows, "queued")
    /\ End(p)
    /\ Goto(p, "selecting", None)
    /\ UNCHANGED <<obj, sess, agents, crashes>>

\* Mutation: a status the column's CHECK does not list.
PollExpireMisspelt(p) ==
    /\ tx[p].op = "expire"
    /\ req' = SetStatus(tx[p].rows, "stale")
    /\ End(p)
    /\ Goto(p, "selecting", None)
    /\ UNCHANGED <<obj, sess, agents, crashes>>

PollExpire(p) ==
    /\ tx[p].op = "expire"
    /\ req' = SetStatus(tx[p].rows, "expired")
    /\ End(p)
    /\ Goto(p, "selecting", None)
    /\ UNCHANGED <<obj, sess, agents, crashes>>

Selecting(p) ==
    \/ runner[p].pc = "selecting"
    \/ runner[p].pc = "idle" /\ StaleRequests = {}

\* Mutation: the claim does not look at the objective.
ClaimableAnyObjective(p) ==
    {r \in Requests : req[r].status = "queued" /\ req[r].target \in {None, p}}

\* The candidates of claimNextExecutionRequest for runner p, oldest first.
Claimable(p) ==
    {r \in Requests :
        /\ req[r].status = "queued"
        /\ ~obj[req[r].objective].deleted
        /\ req[r].source = Mutation \/ obj[req[r].objective].phase = "launchable"
        /\ req[r].target \in {None, p}}

\* Mutation: only the oldest queued request is considered.
ClaimReadHeadOnly(p) ==
    /\ Selecting(p)
    /\ \E r \in Claimable(p) :
          /\ \A q \in Requests : req[q].status = "queued" => r <= q
          /\ Begin(p, Call("claim", {Take(r)}))
    /\ UNCHANGED <<req, obj, sess, runner, agents, crashes>>

ClaimRead(p) ==
    /\ Selecting(p)
    /\ \E r \in Claimable(p) :
          /\ \A q \in Claimable(p) : r <= q
          /\ Begin(p, Call("claim", {Take(r)}))
    /\ UNCHANGED <<req, obj, sess, runner, agents, crashes>>

ClaimNothing(p) ==
    /\ runner[p].pc = "selecting"
    /\ tx[p].op = "none"
    /\ NotLockedOut(p)
    /\ Claimable(p) = {}
    /\ Goto(p, "idle", None)
    /\ UNCHANGED <<req, obj, sess, tx, agents, crashes>>

\* Mutation: the claim's UPDATE names the row only.
ClaimWriteUnguarded(p) ==
    /\ tx[p].op = "claim"
    /\ \E s \in tx[p].rows :
          /\ req' = [req EXCEPT ![s.id] =
                       [req[s.id] EXCEPT !.status = "claimed", !.owner = p,
                                         !.revision = s.revision + 1, !.lapsed = FALSE]]
          /\ Goto(p, "claimed", s.id)
    /\ End(p)
    /\ UNCHANGED <<obj, sess, agents, crashes>>

ClaimWrite(p) ==
    /\ tx[p].op = "claim"
    /\ \E s \in tx[p].rows :
          \/ /\ Matches(s)
             /\ req' = [req EXCEPT ![s.id] =
                          [req[s.id] EXCEPT !.status = "claimed", !.owner = p,
                                            !.revision = s.revision + 1, !.lapsed = FALSE]]
             /\ Goto(p, "claimed", s.id)
          \/ ~Matches(s) /\ UNCHANGED req /\ Goto(p, "idle", None)
    /\ End(p)
    /\ UNCHANGED <<obj, sess, agents, crashes>>

\* The candidate's working directory does not resolve: the claim transaction
\* goes on with markExecutionFailed, which reads the row again.
WorkingDirectoryMissing(p) ==
    /\ tx[p].op = "claim"
    /\ \E s \in tx[p].rows :
          \/ /\ req[s.id].status \in ACTIVE_EXECUTION_REQUEST_STATUSES
             /\ tx' = [tx EXCEPT ![p] = Call("failed", {Take(s.id)})]
             /\ UNCHANGED runner
          \/ /\ req[s.id].status \notin ACTIVE_EXECUTION_REQUEST_STATUSES
             /\ End(p)
             /\ Goto(p, "idle", None)
    /\ UNCHANGED <<req, obj, sess, agents, crashes>>

-----------------------------------------------------------------------------
\* The three reports POST /api/runner/requests/:id/{launching,launched,failed}:
\* the status assertTransition requires, and where the runner's loop goes when
\* the report succeeds and when it is answered 409.
AllowedFrom(to) ==
    CASE to = "launching" -> {"claimed"}
      [] to = "launched"  -> {"launching"}
      [] to = "failed"    -> ACTIVE_EXECUTION_REQUEST_STATUSES

ReportedFrom(to) ==
    CASE to = "launching" -> {"claimed"}
      [] to = "launched"  -> {"spawned"}
      [] to = "failed"    -> {"mutationFailed", "failing"}

AfterReport(pc, to) ==
    CASE to = "launching"       -> "launching"
      [] to = "launched"        -> "idle"
      [] pc = "mutationFailed"  -> "failing"
      [] OTHER                  -> "idle"

AfterRejection(pc, to) ==
    CASE to = "launched"        -> "failing"
      [] pc = "mutationFailed"  -> "failing"
      [] OTHER                  -> "idle"

Proceed(p, pc) == IF pc = "idle" THEN Goto(p, "idle", None) ELSE Move(p, pc)

ReportRead(p, to) ==
    /\ runner[p].pc \in ReportedFrom(to)
    /\ LET r == runner[p].held
       IN  \/ /\ req[r].status \in AllowedFrom(to)
              /\ Begin(p, Call(to, {Take(r)}))
              /\ UNCHANGED runner
           \/ /\ req[r].status \notin AllowedFrom(to)
              /\ tx[p].op = "none"
              /\ NotLockedOut(p)
              /\ Proceed(p, AfterRejection(runner[p].pc, to))
              /\ UNCHANGED tx
    /\ UNCHANGED <<req, obj, sess, agents, crashes>>

ReportWrite(p, to) ==
    /\ tx[p].op = to
    /\ \E s \in tx[p].rows :
          /\ req' = SetStatus({s}, to)
          /\ Proceed(p, IF Matches(s) THEN AfterReport(runner[p].pc, to)
                                      ELSE AfterRejection(runner[p].pc, to))
    /\ End(p)
    /\ UNCHANGED <<obj, sess, agents, crashes>>

\* prepareMissionBranch and POST /api/missions/:id/branch-prepared, when
\* worktree automation is on.  The UPDATE has no guard on the revision.
BranchPreparedRead(p) ==
    /\ runner[p].pc = "launching"
    /\ req[runner[p].held].source # Mutation
    /\ Begin(p, Call("branch", {Take(runner[p].held)}))
    /\ UNCHANGED <<req, obj, sess, runner, agents, crashes>>

BranchPreparedWrite(p) ==
    /\ tx[p].op = "branch"
    /\ \E s \in tx[p].rows :
          req' = [req EXCEPT ![s.id].revision = s.revision + 1]
    /\ End(p)
    /\ Move(p, "prepared")
    /\ UNCHANGED <<obj, sess, agents, crashes>>

\* launchAgent opens the agent with the request's id in its environment.
Spawn(p) ==
    /\ runner[p].pc \in {"launching", "prepared"}
    /\ tx[p].op = "none"
    /\ req[runner[p].held].source # Mutation
    /\ agents' = agents \cup {runner[p].held}
    /\ Move(p, "spawned")
    /\ UNCHANGED <<req, obj, sess, tx, crashes>>

\* Anything inside the try block throws: no agent, no branch, a launch command
\* that exits with a status.  A mutation that ran and reports an error is
\* posted as failed inside the try block and once more by its handler.
LaunchFails(p) ==
    /\ runner[p].pc \in {"launching", "prepared", "spawned"}
    /\ tx[p].op = "none"
    /\ \/ Move(p, "failing")
       \/ req[runner[p].held].source = Mutation /\ Move(p, "mutationFailed")
    /\ UNCHANGED <<req, obj, sess, tx, agents, crashes>>

\* A mutation ran on the target: POST .../completed, whose read is made before
\* its transaction.
CompleteMutationRead(p) ==
    /\ runner[p].pc = "launching"
    /\ LET r == runner[p].held
       IN  /\ req[r].source = Mutation
           /\ \/ /\ req[r].status \in {"claimed", "launching"}
                 /\ Begin(p, Call("complete", {Take(r)}))
                 /\ UNCHANGED runner
              \/ /\ req[r].status \notin {"claimed", "launching"}
                 /\ tx[p].op = "none"
                 /\ NotLockedOut(p)
                 /\ Move(p, "failing")
                 /\ UNCHANGED tx
    /\ UNCHANGED <<req, obj, sess, agents, crashes>>

CompleteMutationWrite(p) ==
    /\ tx[p].op = "complete"
    /\ NotLockedOut(p)
    /\ \E s \in tx[p].rows :
          /\ req' = SetStatus({s}, "launched")
          /\ IF Matches(s) THEN Goto(p, "idle", None) ELSE Move(p, "failing")
    /\ End(p)
    /\ UNCHANGED <<obj, sess, agents, crashes>>

\* The runner process dies, or never sees the answer of its last call.
Crash(p) ==
    /\ crashes < MaxCrashes
    /\ runner[p].pc # "idle"
    /\ tx[p].op = "none"
    /\ Goto(p, "idle", None)
    /\ crashes' = crashes + 1
    /\ UNCHANGED <<req, obj, sess, tx, agents>>

RunnerStep(p) ==
    \/ Poll(p) \/ PollExpire(p) \/ ClaimRead(p) \/ ClaimNothing(p) \/ ClaimWrite(p)
    \/ WorkingDirectoryMissing(p)
    \/ \E to \in {"launching", "launched", "failed"} :
          ReportRead(p, to) \/ ReportWrite(p, to)
    \/ BranchPreparedRead(p) \/ BranchPreparedWrite(p) \/ Spawn(p) \/ LaunchFails(p)
    \/ CompleteMutationRead(p) \/ CompleteMutationWrite(p)

-----------------------------------------------------------------------------
(***************************************************************************)
(* Agents: attachSession and linkExecutionRequestToSession.                *)
(***************************************************************************)

MayLink(r) == req[r].status \in LinkableStatuses /\ req[r].session = None

\* Mutation: a request named by the agent is looked up by its id alone.
LinkCandidatesById(o, id) ==
    IF id = None THEN {r \in OfObjective(o) : MayLink(r)} ELSE {id}

\* The rows linkExecutionRequestToSession picks from: the request named, if it
\* is of this objective; else those of the objective nobody attached to yet
\* (the code takes the one updated last).
LinkCandidates(o, id) ==
    {r \in OfObjective(o) : IF id = None THEN MayLink(r) ELSE r = id}

\* attachSession picked the objective from a read before its transaction, so by
\* now it may be in any phase.  An agent the runner spawned names its request,
\* any other names none; without a name there may be no row to link, and the
\* attach goes on.  In the other cases - the request is another objective's,
\* settled, or linked to another session - the attach is answered 409.
AttachTo(s, o, id) ==
    LET c == LinkCandidates(o, id)
    IN  \/ \E r \in c : /\ MayLink(r)
                        /\ Begin(s, [Call("attach", {Take(r)}) EXCEPT !.objective = o])
        \/ /\ c = {} /\ id = None
           /\ Begin(s, [Call("attach", {}) EXCEPT !.objective = o])

AttachRead(s, o, id) ==
    /\ sess[s].objective = None
    /\ AttachTo(s, o, id)
    /\ UNCHANGED <<req, obj, sess, runner, agents, crashes>>

\* attach with the key of a session that was open when it was looked up: only
\* the link is made.
ReattachRead(s, id) ==
    /\ sess[s].objective # None
    /\ AttachTo(s, sess[s].objective, id)
    /\ tx'[s].rows # {}
    /\ UNCHANGED <<req, obj, sess, runner, agents, crashes>>

\* The link's UPDATE is guarded by the revision and the missing session only.
\* The objective is set to executing and a new session opened with it; when
\* the guard fails the whole attach is rolled back.
AttachWrite(s) ==
    /\ tx[s].op = "attach"
    /\ LET linked == {w \in tx[s].rows :
                        /\ req[w.id].revision = w.revision
                        /\ req[w.id].session = None}
       IN  \/ /\ linked = tx[s].rows
              /\ req' = [r \in Requests |->
                           IF \E w \in linked : w.id = r
                           THEN [req[r] EXCEPT !.session = s, !.revision = @ + 1]
                           ELSE req[r]]
              /\ IF sess[s].objective = None
                 THEN /\ sess' = [sess EXCEPT ![s] = [objective |-> tx[s].objective,
                                                      open |-> TRUE]]
                      /\ obj' = [obj EXCEPT ![tx[s].objective].phase = "running"]
                 ELSE UNCHANGED <<sess, obj>>
           \/ linked # tx[s].rows /\ UNCHANGED <<req, sess, obj>>
    /\ End(s)
    /\ UNCHANGED <<runner, agents, crashes>>

\* deliverSession completes the objective and ends the session.
Deliver(s) ==
    /\ sess[s].open
    /\ tx[s].op = "none"
    /\ NotLockedOut(s)
    /\ sess' = [sess EXCEPT ![s].open = FALSE]
    /\ obj' = [obj EXCEPT ![sess[s].objective].phase = "done"]
    /\ UNCHANGED <<req, tx, runner, agents, crashes>>

\* resumeFollowUp: the objective was complete when it was picked, before the
\* transaction.  It becomes pending_delivery if it still is, and a session is
\* opened in any case; the queue is not looked at.
Resume(s, o) ==
    /\ "resume" \in Workload
    /\ sess[s].objective = None
    /\ tx[s].op = "none" /\ NotLockedOut(s)
    /\ \/ /\ obj[o].phase \in {"done", "stopped"}
          /\ obj' = [obj EXCEPT ![o].phase = "running"]
       \/ obj[o].phase # "done" /\ UNCHANGED obj
    /\ sess' = [sess EXCEPT ![s] = [objective |-> o, open |-> TRUE]]
    /\ UNCHANGED <<req, tx, runner, agents, crashes>>

\* An update with beginFollowUpWork, from a session that was open when it was
\* looked up: the objective becomes pending_delivery whatever it is by now.
FollowUp(s) ==
    /\ "resume" \in Workload
    /\ sess[s].objective # None
    /\ tx[s].op = "none" /\ NotLockedOut(s)
    /\ obj' = [obj EXCEPT ![sess[s].objective].phase = "running"]
    /\ UNCHANGED <<req, sess, tx, runner, agents, crashes>>

-----------------------------------------------------------------------------
(***************************************************************************)
(* Users moving objectives: updateObjective, deleteObjective, and what     *)
(* moves or deletes objectives without a look at the queue.                *)
(***************************************************************************)

\* dequeueObjective in the transaction that moves the objective out of the
\* launchable states, disconnects it back to submitted, or deletes it.  What was
\* completed by a delivery is not parked again.
DequeueRead(u, o, to) ==
    /\ ~obj[o].deleted
    /\ to = "stopped" => obj[o].phase # "done"
    /\ to = "launchable" => obj[o].phase \in {"launchable", "running"}
    /\ Begin(u, [Call("dequeue", {Take(r) : r \in ActiveRequests(OfObjective(o))})
                   EXCEPT !.objective = o, !.to = to])
    /\ UNCHANGED <<req, obj, sess, runner, agents, crashes>>

DequeueWrite(u) ==
    /\ tx[u].op = "dequeue"
    /\ LET o == tx[u].objective
       IN  /\ req' = SetStatus(tx[u].rows, "cleared")
           /\ obj' = IF tx[u].to = "deleted"
                     THEN [obj EXCEPT ![o].deleted = TRUE]
                     ELSE [obj EXCEPT ![o].phase = tx[u].to]
           /\ sess' = [s \in Sessions |->
                         IF sess[s].objective = o
                         THEN [sess[s] EXCEPT !.open = FALSE] ELSE sess[s]]
    /\ End(u)
    /\ UNCHANGED <<runner, agents, crashes>>

\* A user moves an objective back to a launchable state without a disconnect,
\* deliverSession auto-advances to it, or a refill of the draft slot takes it
\* from the future: nothing is dequeued.
BackToLaunchable(u, o) ==
    /\ tx[u].op = "none" /\ NotLockedOut(u)
    /\ ~obj[o].deleted /\ obj[o].phase # "launchable"
    /\ obj' = [obj EXCEPT ![o].phase = "launchable"]
    /\ UNCHANGED <<req, sess, tx, runner, agents, crashes>>

\* updateObjective with state draft when the mission has other drafts: they are
\* made future by an UPDATE without a guard, and nothing is dequeued for them.
PromoteRead(u, o) ==
    /\ "promote" \in Workload
    /\ ~obj[o].deleted
    /\ \E drafts \in SUBSET (Objectives \ {o}) :
          /\ drafts # {}
          /\ \A d \in drafts : obj[d].phase = "launchable" /\ ~obj[d].deleted
          /\ Begin(u, [Call("promote", {}) EXCEPT !.objective = o, !.drafts = drafts])
    /\ UNCHANGED <<req, obj, sess, runner, agents, crashes>>

PromoteWrite(u) ==
    /\ tx[u].op = "promote"
    /\ obj' = [o \in Objectives |->
                 IF o = tx[u].objective
                 THEN [obj[o] EXCEPT !.phase = "launchable"]
                 ELSE IF o \in tx[u].drafts
                 THEN [obj[o] EXCEPT !.phase = "demoted"]
                 ELSE obj[o]]
    /\ End(u)
    /\ UNCHANGED <<req, sess, runner, agents, crashes>>

\* A refill of the draft slot deletes the blank drafts before it takes an objective
\* from the future (here a step of its own, BackToLaunchable); deleteMission and
\* deleteProject delete all that is left.  Nothing is dequeued, no session is ended.
Discard(u, gone) ==
    /\ "discard" \in Workload
    /\ tx[u].op = "none" /\ NotLockedOut(u)
    /\ gone # {} /\ \A o \in gone : ~obj[o].deleted
    /\ \/ \A o \in gone : obj[o].phase = "launchable"
       \/ \A o \in Objectives \ gone : obj[o].deleted
    /\ obj' = [o \in Objectives |->
                 IF o \in gone
                 THEN [obj[o] EXCEPT !.deleted = TRUE, !.discarded = TRUE]
                 ELSE obj[o]]
    /\ UNCHANGED <<req, sess, tx, runner, agents, crashes>>

\* Fifteen minutes pass since the claim, or since the launch.
Lapse(r) ==
    /\ req[r].status \in {"claimed", "launched"} /\ ~req[r].lapsed
    /\ req' = [req EXCEPT ![r].lapsed = TRUE]
    /\ UNCHANGED <<obj, sess, tx, runner, agents, crashes>>

-----------------------------------------------------------------------------
OperatorStep(u) ==
    \/ \E o \in Objectives : LaunchObjectiveRead(u, o)
    \/ \E t \in Runners \cup {None} : LaunchObjectiveWrite(u, t)
    \/ \E o \in Objectives, t \in Runners \cup {None} : AutoAdvance(u, o, t)
    \/ \E o \in Objectives, t \in Runners : QueueMutation(u, o, t)
    \/ ClearRead(u, Requests) \/ (\E o \in Objectives : ClearRead(u, OfObjective(o)))
    \/ ClearWrite(u) \/ RunnerStatusRead(u) \/ RunnerStatusWrite(u)
    \/ \E o \in Objectives, to \in {"launchable", "running", "stopped", "deleted"} :
          DequeueRead(u, o, to)
    \/ DequeueWrite(u)
    \/ \E o \in Objectives : BackToLaunchable(u, o) \/ PromoteRead(u, o)
    \/ PromoteWrite(u)
    \/ \E gone \in SUBSET Objectives : Discard(u, gone)

AgentStep(s) ==
    \/ \E o \in Objectives, id \in agents \cup {None} : AttachRead(s, o, id)
    \/ \E id \in agents \cup {None} : ReattachRead(s, id)
    \/ AttachWrite(s) \/ Deliver(s)
    \/ \E o \in Objectives : Resume(s, o)
    \/ FollowUp(s)

Next ==
    \/ \E p \in Runners : RunnerStep(p) \/ Crash(p)
    \/ \E u \in Operators : OperatorStep(u)
    \/ \E s \in Sessions : AgentStep(s)
    \/ \E r \in Requests : Lapse(r)

Spec == Init /\ [][Next]_vars

\* Runners keep polling (the loop of runRunnerCommand, restarted after a crash)
\* and get their turn, for the mutex serves those who wait in order; calls that
\* reached the service end; time passes.  Nothing is assumed of users and agents.
Fairness ==
    /\ \A p \in Runners : SF_vars(RunnerStep(p))
    /\ \A u \in Operators :
          WF_vars(\/ \E t \in Runners \cup {None} : LaunchObjectiveWrite(u, t)
                  \/ ClearWrite(u) \/ RunnerStatusWrite(u) \/ DequeueWrite(u)
                  \/ PromoteWrite(u))
    /\ \A s \in Sessions : WF_vars(AttachWrite(s))
    /\ \A r \in Requests : WF_vars(Lapse(r))

FairSpec == Spec /\ Fairness

-----------------------------------------------------------------------------
(***************************************************************************)
(* Properties.                                                             *)
(***************************************************************************)

\* The queue implements its promise (RequestLifecycle): one claim and one
\* owner per request, settled requests stay settled, a launched request an
\* agent is linked to is final, and its session is never replaced - for every
\* interleaving of the read and the write of concurrent transactions.
Lifecycle == INSTANCE RequestLifecycle
                 WITH status  <- [r \in Requests |-> req[r].status],
                      owner   <- [r \in Requests |-> req[r].owner],
                      session <- [r \in Requests |-> req[r].session]

ImplementsLifecycle == Lifecycle!Spec

\* The request a runner works on was claimed by that very runner: two runners
\* never hold, and never launch, the same request (claimNextExecutionRequest's
\* guarded UPDATE; "Competing runners should not be able to claim the same
\* active execution request").
HeldByOwner ==
    \A p \in Runners : runner[p].held # None => req[runner[p].held].owner = p

\* Whatever races, expires, crashes or is cleared, a request has its agent
\* spawned at most once (nobody claims or launches it a second time).
SpawnedOnce ==
    [][\A p \in Runners :
          (runner[p].pc # "spawned" /\ runner'[p].pc = "spawned")
          => runner'[p].held \notin agents]_vars

\* The session linked to a request was opened for the request's own objective,
\* whichever request its agent named when it attached
\* (linkExecutionRequestToSession, execution_request_mismatch).
LinkedToOwnObjective ==
    \A r \in Requests :
        req[r].session # None => sess[req[r].session].objective = req[r].objective

\* Once a user has stopped or deleted an objective, no runner is working on a
\* run of it: dequeueObjective clears every active request in the transaction
\* that moves the objective ("so a runner never claims work the user has
\* stopped"), and a request that slips in later is not claimed.  What dequeues
\* nothing is excepted: a draft demoted because another objective became the
\* draft, and an objective deleted by a refill of the draft slot or with its
\* mission or project, may still be worked on.
StoppedIsIdle ==
    \A r \in Requests :
        (req[r].source # Mutation /\ req[r].status \in {"claimed", "launching"})
        => LET o == obj[req[r].objective]
           IN  (o.deleted => o.discarded) /\ o.phase # "stopped"

\* The queue keeps moving: a request some runner may claim is not left queued,
\* whatever older requests wait for another runner or another objective state.
QueuedIsServed ==
    \A p \in Runners, r \in Requests : []<>(r \notin Claimable(p))

\* "Stale claims should expire", and so should "a launched request that never
\* attaches": neither lasts while its objective waits to be run again.
StaleIsExpired ==
    \A r \in Requests :
        []<>~ \/ req[r].status = "claimed"
              \/ /\ req[r].status = "launched" /\ req[r].session = None
                 /\ obj[req[r].objective].phase = "launchable"

-----------------------------------------------------------------------------
(***************************************************************************)
(* What the documentation says of the queue and the code does not do.      *)
(***************************************************************************)

\* When an objective moves out of the launch pipeline or is deleted, "the runner
\* must stop seeing it" (backend/repository.ts): without exceptions, a runner
\* works on no objective that was parked or deleted.
ParkedIsIdle ==
    \A r \in Requests :
        (req[r].source # Mutation /\ req[r].status \in {"claimed", "launching"})
        => LET o == obj[req[r].objective]
           IN  ~o.deleted /\ o.phase \notin {"stopped", "demoted"}

\* "a claimed/launching request's lease expires before attach - the next poll
\* fails it" (objective-lifecycle.md): a request does not stay launching forever.
LaunchingIsExpired ==
    \A r \in Requests : req[r].status = "launching" ~> req[r].status # "launching"

=============================================================================

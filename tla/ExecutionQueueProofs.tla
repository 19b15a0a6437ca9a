------------------------ MODULE ExecutionQueueProofs ------------------------
(***************************************************************************)
(* Theorems about ExecutionQueue, for any number of requests, objectives,  *)
(* runners, operators and sessions, on either database.                    *)
(*                                                                         *)
(* TypeOK alone is not inductive: that a runner reports on a request at    *)
(* all rests on where its loop is (HeldOK), and that on which calls it can *)
(* have in flight there (CallOK).  Ownership needs, beyond these, that a   *)
(* request once claimed never looks queued again (HoldsOK, ClaimsQueued),  *)
(* and that an agent is spawned once needs that a spawned request is held  *)
(* at most by the runner that spawned it, past the spawn (SpawnOK).        *)
(***************************************************************************)
EXTENDS ExecutionQueue, TLAPS

Started(r) == req[r].status \notin {"none", "queued"}

Resting == {"idle", "selecting"}

\* The calls a runner may have in flight at each point of its loop.
CallAt(op, pc) ==
    \/ op = "none"
    \/ op = "expire"    /\ pc = "idle"
    \/ op = "claim"     /\ pc \in Resting
    \/ op = "launching" /\ pc = "claimed"
    \/ op = "launched"  /\ pc = "spawned"
    \/ op = "failed"    /\ pc \in Resting \cup {"mutationFailed", "failing"}
    \/ op = "branch"    /\ pc = "launching"
    \/ op = "complete"  /\ pc = "launching"

CallOK == \A p \in Runners : CallAt(tx[p].op, runner[p].pc)

\* A runner holds a request from its claim to the end of the launch.
HeldOK == \A p \in Runners : (runner[p].held = None) <=> (runner[p].pc \in Resting)

\* What is held was claimed by its holder and is never queued again.
HoldsOK ==
    \A p \in Runners : runner[p].held # None =>
        /\ Started(runner[p].held)
        /\ req[runner[p].held].owner = p

\* A claim in flight read a queued row.
ClaimsQueued ==
    \A a \in Actors : tx[a].op = "claim" => \A s \in tx[a].rows : s.status = "queued"

\* A dequeue in flight knows where the objective goes.
DequeuesOK == \A a \in Actors : tx[a].op = "dequeue" => tx[a].to # ""

\* A request with an agent is started, and its holder is past the spawn.
SpawnOK ==
    /\ \A r \in agents : Started(r)
    /\ \A p \in Runners :
          runner[p].held \in agents
          => runner[p].pc \in {"spawned", "mutationFailed", "failing"}

IInv == TypeOK /\ DequeuesOK /\ HeldOK /\ CallOK /\ HoldsOK /\ ClaimsQueued /\ SpawnOK


-----------------------------------------------------------------------------
(***************************************************************************)
(* Lemmas about transactions.                                              *)
(***************************************************************************)

\* Actors of different kinds are different, and NULL is none of them.
LEMMA ActorFacts ==
    /\ Runners \subseteq Actors /\ Operators \subseteq Actors /\ Sessions \subseteq Actors
    /\ Requests \subseteq Nat /\ None \notin Requests
    /\ \A p \in Runners : p \notin Operators /\ p \notin Sessions
BY QueueConstants DEF Actors, Requests

\* What a transaction reads of a row is a snapshot of it.
LEMMA TakeType ==
    ASSUME TypeOK, NEW r \in Requests
    PROVE  /\ Take(r) \in Snapshot
           /\ Take(r).id = r /\ Take(r).status = req[r].status
           /\ Take(r).revision = req[r].revision
BY DEF TypeOK, Row, Take, Snapshot

LEMMA CallType ==
    ASSUME NEW op \in TransactionOps \cup {"complete"}, NEW rows \in SUBSET Snapshot
    PROVE  Call(op, rows) \in Tx /\ Call(op, rows).op = op /\ Call(op, rows).rows = rows
BY DEF Call, Tx, NoTx

LEMMA NoTxType == NoTx \in Tx /\ NoTx.op = "none" /\ NoTx.rows = {}
BY DEF Tx, NoTx

\* Beginning and ending a call concern the caller only.
LEMMA BeginType ==
    ASSUME TypeOK, NEW a \in Actors, NEW call \in Tx, Begin(a, call)
    PROVE  /\ tx' \in [Actors -> Tx]
           /\ tx[a].op = "none" /\ tx'[a] = call
           /\ \A b \in Actors \ {a} : tx'[b] = tx[b]
BY DEF TypeOK, Begin

LEMMA BeginOp ==
    ASSUME TypeOK, NEW a \in Actors, NEW op, NEW rows, Begin(a, Call(op, rows))
    PROVE  tx'[a].op = op
<1>1. tx'[a] = Call(op, rows)
  BY DEF TypeOK, Begin
<1>2. Call(op, rows).op = op
  BY DEF Call, NoTx
<1>. QED
  BY <1>1, <1>2

LEMMA EndType ==
    ASSUME TypeOK, NEW a \in Actors, End(a)
    PROVE  /\ tx' \in [Actors -> Tx]
           /\ tx'[a] = NoTx
           /\ \A b \in Actors \ {a} : tx'[b] = tx[b]
BY NoTxType DEF TypeOK, End

\* The rows the statements write are rows.
LEMMA RowWritten ==
    ASSUME NEW w \in Row
    PROVE  /\ w.revision + 1 \in Nat
           /\ [w EXCEPT !.lapsed = TRUE] \in Row
           /\ \A n \in Nat : [w EXCEPT !.revision = n] \in Row
           /\ \A n \in Nat, st \in Statuses :
                 [w EXCEPT !.status = st, !.revision = n, !.lapsed = FALSE] \in Row
           /\ \A n \in Nat, s \in Sessions : [w EXCEPT !.session = s, !.revision = n] \in Row
<1>1. w.revision + 1 \in Nat
  BY DEF Row
<1>2. [w EXCEPT !.lapsed = TRUE] \in Row
  BY DEF Row
<1>3. ASSUME NEW n \in Nat PROVE [w EXCEPT !.revision = n] \in Row
  BY DEF Row
<1>4. ASSUME NEW n \in Nat, NEW st \in Statuses
      PROVE  [w EXCEPT !.status = st, !.revision = n, !.lapsed = FALSE] \in Row
  BY DEF Row
<1>5. ASSUME NEW n \in Nat, NEW s \in Sessions
      PROVE  [w EXCEPT !.session = s, !.revision = n] \in Row
  BY DEF Row
<1>. QED
  BY <1>1, <1>2, <1>3, <1>4, <1>5

LEMMA RowClaimed ==
    ASSUME NEW w \in Row, NEW p \in Runners, NEW n \in Nat
    PROVE  LET v == [w EXCEPT !.status = "claimed", !.owner = p, !.revision = n, !.lapsed = FALSE]
           IN  v \in Row /\ v.status = "claimed" /\ v.owner = p
<1>1. "claimed" \in Statuses
  BY DEF Statuses
<1>. QED
  BY <1>1 DEF Row

\* A guarded UPDATE writes the new status or leaves the row alone; it never
\* touches the owner.
LEMMA SetStatusType ==
    ASSUME TypeOK, NEW rows \in SUBSET Snapshot, NEW st \in Statuses
    PROVE  /\ SetStatus(rows, st) \in [Requests -> Row]
           /\ \A r \in Requests :
                 /\ SetStatus(rows, st)[r].owner = req[r].owner
                 /\ SetStatus(rows, st)[r].status \in {req[r].status, st}
<1>. DEFINE written(r) ==
              [req[r] EXCEPT !.status = st, !.revision = @ + 1, !.lapsed = FALSE]
            new(r) == IF \E s \in rows : s.id = r /\ Matches(s) THEN written(r) ELSE req[r]
<1>1. SetStatus(rows, st) = [r \in Requests |-> new(r)]
  BY DEF SetStatus
<1>2. ASSUME NEW r \in Requests
      PROVE  new(r) \in Row /\ new(r).owner = req[r].owner /\ new(r).status \in {req[r].status, st}
  <2>1. req[r] \in Row
    BY DEF TypeOK
  <2>2. written(r) \in Row
    BY <2>1, RowWritten
  <2>3. written(r).owner = req[r].owner /\ written(r).status = st
    BY <2>1 DEF Row
  <2>. QED
    BY <2>1, <2>2, <2>3
<1>. HIDE DEF new
<1>. QED
  BY <1>1, <1>2

-----------------------------------------------------------------------------
(***************************************************************************)
(* What a step does to the rows: types are kept, and a request that was    *)
(* claimed stays claimed by the same runner.                               *)
(***************************************************************************)

OwnerKept ==
    \A r \in Requests : Started(r) => Started(r)' /\ req'[r].owner = req[r].owner

LEMMA BeginKeeps ==
    ASSUME TypeOK, NEW a \in Actors, NEW call \in Tx, Begin(a, call),
           UNCHANGED <<req, obj, sess, runner, agents, crashes>>
    PROVE  TypeOK' /\ OwnerKept
<1>1. tx' \in [Actors -> Tx]
  BY BeginType
<1>. QED
  BY <1>1 DEF TypeOK, OwnerKept, Started

LEMMA UpdateKeeps ==
    ASSUME TypeOK, NEW rows \in SUBSET Snapshot, NEW st \in Statuses \ {"none", "queued"},
           req' = SetStatus(rows, st)
    PROVE  req' \in [Requests -> Row] /\ OwnerKept
BY SetStatusType DEF OwnerKept, Started

\* The rows of a call in flight are snapshots.
LEMMA RowsOf ==
    ASSUME TypeOK, NEW a \in Actors
    PROVE  /\ tx[a] \in Tx /\ tx[a].rows \in SUBSET Snapshot
           /\ \A s \in tx[a].rows : s \in Snapshot /\ {s} \in SUBSET Snapshot
                                    /\ s.id \in Requests /\ s.revision \in Nat
<1>1. tx[a] \in Tx
  BY DEF TypeOK
<1>2. tx[a].rows \in SUBSET Snapshot
  BY <1>1 DEF Tx
<1>. QED
  BY <1>1, <1>2 DEF Snapshot

\* Moving a runner's loop keeps its type.
LEMMA MoveType ==
    ASSUME TypeOK, NEW p \in Runners, NEW pc \in RunnerPcs, NEW r \in Requests \cup {None}
    PROVE  /\ Goto(p, pc, r) => runner' \in [Runners -> [pc : RunnerPcs, held : Requests \cup {None}]]
           /\ Move(p, pc) => runner' \in [Runners -> [pc : RunnerPcs, held : Requests \cup {None}]]
<1>. DEFINE Loop == [pc : RunnerPcs, held : Requests \cup {None}]
<1>1. runner \in [Runners -> Loop] /\ runner[p].held \in Requests \cup {None}
  BY DEF TypeOK
<1>2. ASSUME NEW q \in Requests \cup {None}, Goto(p, pc, q)
      PROVE  runner' \in [Runners -> Loop]
  <2>1. [pc |-> pc, held |-> q] \in Loop
    OBVIOUS
  <2>. QED
    BY <1>1, <1>2, <2>1 DEF Goto
<1>3. Move(p, pc) => runner' \in [Runners -> Loop]
  BY <1>1, <1>2 DEF Move
<1>. QED
  BY <1>2, <1>3

LEMMA InsertKeeps ==
    ASSUME TypeOK, NEW source \in Sources, NEW o \in Objectives \cup {None},
           NEW t \in Runners \cup {None}, Insert(source, o, t)
    PROVE  req' \in [Requests -> Row] /\ OwnerKept
<1>1. PICK r \in Requests :
         /\ NewId(r)
         /\ req' = [req EXCEPT ![r] =
                      [NoRow EXCEPT !.status = "queued", !.revision = 1,
                                    !.source = source, !.objective = o, !.target = t]]
  BY DEF Insert
<1>2. [NoRow EXCEPT !.status = "queued", !.revision = 1,
                    !.source = source, !.objective = o, !.target = t] \in Row
  BY DEF NoRow, Row, Statuses
<1>3. ~Started(r)
  BY <1>1 DEF NewId, Started
<1>. QED
  BY <1>1, <1>2, <1>3 DEF TypeOK, OwnerKept, Started

LEMMA OperatorKeeps ==
    ASSUME TypeOK, DequeuesOK, NEW u \in Operators, OperatorStep(u)
    PROVE  TypeOK' /\ OwnerKept
<1>. USE ActorFacts
<1>1. \A R \in SUBSET Requests : {Take(r) : r \in ActiveRequests(R)} \in SUBSET Snapshot
  BY TakeType DEF ActiveRequests
<1>2. \A o \in Objectives : OfObjective(o) \in SUBSET Requests
  BY DEF OfObjective
<1>3. CASE \E o \in Objectives : LaunchObjectiveRead(u, o)
  <2>1. PICK o \in Objectives : LaunchObjectiveRead(u, o)
    BY <1>3
  <2>2. [NoTx EXCEPT !.op = "launch", !.objective = o] \in Tx
    BY DEF NoTx, Tx, TransactionOps
  <2>. QED
    BY <2>1, <2>2, BeginKeeps DEF LaunchObjectiveRead
<1>4. CASE \E t \in Runners \cup {None} : LaunchObjectiveWrite(u, t)
  <2>1. PICK t \in Runners \cup {None} : LaunchObjectiveWrite(u, t)
    BY <1>4
  <2>. DEFINE o == tx[u].objective
  <2>2. tx' \in [Actors -> Tx]
    BY <2>1, EndType DEF LaunchObjectiveWrite
  <2>3. req' \in [Requests -> Row] /\ OwnerKept /\ obj' \in [Objectives -> Objective]
    <3>1. CASE Insert("webapp", o, t) /\ obj' = [obj EXCEPT ![o].phase = "launchable"]
      <4>1. o \in Objectives \cup {None}
        BY RowsOf DEF Tx
      <4>2. req' \in [Requests -> Row] /\ OwnerKept
        BY <3>1, <4>1, InsertKeeps DEF Sources
      <4>3. obj' \in [Objectives -> Objective]
        <5>1. \A row \in Objective : [row EXCEPT !.phase = "launchable"] \in Objective
          BY DEF Objective, Phases
        <5>2. obj \in [Objectives -> Objective]
          BY DEF TypeOK
        <5>. QED
          BY <3>1, <5>1, <5>2
      <4>. QED
        BY <4>2, <4>3
    <3>2. CASE UNCHANGED <<req, obj>>
      BY <3>2 DEF TypeOK, OwnerKept, Started
    <3>. QED
      BY <2>1, <3>1, <3>2 DEF LaunchObjectiveWrite
  <2>. QED
    BY <2>1, <2>2, <2>3 DEF LaunchObjectiveWrite, TypeOK
<1>5. CASE \E o \in Objectives, t \in Runners \cup {None} : AutoAdvance(u, o, t)
  BY <1>5, InsertKeeps DEF AutoAdvance, TypeOK, Sources
<1>6. CASE \E o \in Objectives, t \in Runners : QueueMutation(u, o, t)
  BY <1>6, InsertKeeps DEF QueueMutation, TypeOK, Sources, Mutation
<1>7. CASE ClearRead(u, Requests) \/ \E o \in Objectives : ClearRead(u, OfObjective(o))
  <2>1. PICK R \in SUBSET Requests : ClearRead(u, R)
    BY <1>7, <1>2
  <2>2. Call("clear", {Take(r) : r \in ActiveRequests(R)}) \in Tx
    BY <1>1, CallType DEF TransactionOps
  <2>. QED
    BY <2>1, <2>2, BeginKeeps DEF ClearRead
<1>8. CASE ClearWrite(u)
  BY <1>8, RowsOf, UpdateKeeps, EndType DEF ClearWrite, TypeOK, Statuses
<1>9. CASE RunnerStatusRead(u)
  <2>1. {Take(r) : r \in StaleRequests} \in SUBSET Snapshot
    BY TakeType DEF StaleRequests
  <2>2. Call("expire", {Take(r) : r \in StaleRequests}) \in Tx
    BY <2>1, CallType DEF TransactionOps
  <2>. QED
    BY <1>9, <2>2, BeginKeeps DEF RunnerStatusRead
<1>10. CASE RunnerStatusWrite(u)
  BY <1>10, RowsOf, UpdateKeeps, EndType DEF RunnerStatusWrite, TypeOK, Statuses
<1>11. CASE \E o \in Objectives, to \in {"launchable", "running", "stopped", "deleted"} :
              DequeueRead(u, o, to)
  <2>1. PICK o \in Objectives, to \in {"launchable", "running", "stopped", "deleted"} :
           DequeueRead(u, o, to)
    BY <1>11
  <2>. DEFINE rows == {Take(r) : r \in ActiveRequests(OfObjective(o))}
  <2>2. rows \in SUBSET Snapshot
    BY <1>1, <1>2
  <2>3. [Call("dequeue", rows) EXCEPT !.objective = o, !.to = to] \in Tx
    <3>. HIDE DEF rows
    <3>. QED
      BY <2>2 DEF Call, NoTx, Tx, TransactionOps
  <2>. QED
    BY <2>1, <2>3, BeginKeeps DEF DequeueRead
<1>12. CASE DequeueWrite(u)
  <2>. DEFINE o == tx[u].objective
  <2>1. tx' \in [Actors -> Tx]
    BY <1>12, EndType DEF DequeueWrite
  <2>2. req' \in [Requests -> Row] /\ OwnerKept
    BY <1>12, RowsOf, UpdateKeeps DEF DequeueWrite, Statuses
  <2>3. obj' \in [Objectives -> Objective]
    <3>1. tx[u].to \in Phases \cup {"deleted"}
      BY <1>12, RowsOf DEF DequeueWrite, DequeuesOK, Tx, Phases
    <3>2. CASE tx[u].to = "deleted"
      BY <1>12, <3>2 DEF DequeueWrite, TypeOK, Objective
    <3>3. CASE tx[u].to # "deleted"
      <4>1. obj' = [obj EXCEPT ![o].phase = tx[u].to] /\ tx[u].to \in Phases
        BY <1>12, <3>1, <3>3 DEF DequeueWrite
      <4>. QED
        BY <4>1 DEF TypeOK, Objective
    <3>. QED
      BY <3>2, <3>3
  <2>4. sess' \in [Sessions -> [objective : Objectives \cup {None}, open : BOOLEAN]]
    BY <1>12 DEF DequeueWrite, TypeOK
  <2>. QED
    BY <1>12, <2>1, <2>2, <2>3, <2>4 DEF DequeueWrite, TypeOK
<1>13. CASE \E o \in Objectives : BackToLaunchable(u, o)
  BY <1>13 DEF BackToLaunchable, TypeOK, Objective, OwnerKept, Started, Phases
<1>14. CASE \E o \in Objectives : PromoteRead(u, o)
  <2>1. PICK o \in Objectives : PromoteRead(u, o)
    BY <1>14
  <2>2. PICK drafts \in SUBSET (Objectives \ {o}) :
           Begin(u, [Call("promote", {}) EXCEPT !.objective = o, !.drafts = drafts])
    BY <2>1 DEF PromoteRead
  <2>3. [Call("promote", {}) EXCEPT !.objective = o, !.drafts = drafts] \in Tx
    BY DEF Call, NoTx, Tx, TransactionOps
  <2>. QED
    BY <2>1, <2>2, <2>3, BeginKeeps DEF PromoteRead
<1>15. CASE PromoteWrite(u)
  <2>1. tx' \in [Actors -> Tx]
    BY <1>15, EndType DEF PromoteWrite
  <2>2. obj' \in [Objectives -> Objective]
    BY <1>15 DEF PromoteWrite, TypeOK, Objective, Phases
  <2>. QED
    BY <1>15, <2>1, <2>2 DEF PromoteWrite, TypeOK, OwnerKept, Started
<1>16. CASE \E gone \in SUBSET Objectives : Discard(u, gone)
  <2>1. PICK gone \in SUBSET Objectives : Discard(u, gone)
    BY <1>16
  <2>2. obj' \in [Objectives -> Objective]
    BY <2>1 DEF Discard, TypeOK, Objective
  <2>. QED
    BY <2>1, <2>2 DEF Discard, TypeOK, OwnerKept, Started
<1>. QED
  BY <1>3, <1>4, <1>5, <1>6, <1>7, <1>8, <1>9, <1>10, <1>11, <1>12, <1>13, <1>14, <1>15, <1>16
  DEF OperatorStep

LEMMA AttachToKeeps ==
    ASSUME TypeOK, NEW s \in Sessions, NEW o \in Objectives \cup {None},
           NEW id \in Requests \cup {None}, AttachTo(s, o, id)
    PROVE  \E call \in Tx : call.op = "attach" /\ Begin(s, call)
<1>. DEFINE linkTo(rows) == [Call("attach", rows) EXCEPT !.objective = o]
<1>1. ASSUME NEW rows \in SUBSET Snapshot
      PROVE  linkTo(rows) \in Tx /\ linkTo(rows).op = "attach"
  BY DEF Call, NoTx, Tx, TransactionOps
<1>. DEFINE c == LinkCandidates(o, id)
<1>2. CASE c = {} /\ id = None /\ Begin(s, linkTo({}))
  BY <1>1, <1>2
<1>3. CASE \E r \in c : MayLink(r) /\ Begin(s, linkTo({Take(r)}))
  <2>1. PICK r \in Requests : Begin(s, linkTo({Take(r)}))
    BY <1>3 DEF LinkCandidates, OfObjective
  <2>2. {Take(r)} \in SUBSET Snapshot
    BY TakeType
  <2>. QED
    BY <1>1, <2>1, <2>2
<1>. QED
  BY <1>2, <1>3 DEF AttachTo

LEMMA AgentKeeps ==
    ASSUME TypeOK, NEW s \in Sessions, AgentStep(s)
    PROVE  TypeOK' /\ OwnerKept
<1>. USE ActorFacts
<1>1. \A id \in agents \cup {None} : id \in Requests \cup {None}
  BY DEF TypeOK
<1>2. CASE \E o \in Objectives, id \in agents \cup {None} : AttachRead(s, o, id)
  <2>1. PICK o \in Objectives, id \in agents \cup {None} : AttachRead(s, o, id)
    BY <1>2
  <2>2. PICK call \in Tx : Begin(s, call)
    BY <1>1, <2>1, AttachToKeeps DEF AttachRead
  <2>. QED
    BY <2>1, <2>2, BeginKeeps DEF AttachRead
<1>3. CASE \E id \in agents \cup {None} : ReattachRead(s, id)
  <2>1. PICK id \in agents \cup {None} : ReattachRead(s, id)
    BY <1>3
  <2>2. sess[s].objective \in Objectives \cup {None}
    BY DEF TypeOK
  <2>3. PICK call \in Tx : Begin(s, call)
    BY <1>1, <2>1, <2>2, AttachToKeeps DEF ReattachRead
  <2>. QED
    BY <2>1, <2>3, BeginKeeps DEF ReattachRead
<1>4. CASE AttachWrite(s)
  <2>. DEFINE linked == {w \in tx[s].rows :
                           req[w.id].revision = w.revision /\ req[w.id].session = None}
              new(r) == IF \E w \in linked : w.id = r
                        THEN [req[r] EXCEPT !.session = s, !.revision = @ + 1]
                        ELSE req[r]
              o == tx[s].objective
  <2>1. tx' \in [Actors -> Tx]
    BY <1>4, EndType DEF AttachWrite
  <2>2. ASSUME NEW r \in Requests
        PROVE  new(r) \in Row /\ new(r).status = req[r].status /\ new(r).owner = req[r].owner
    <3>1. req[r] \in Row
      BY DEF TypeOK
    <3>2. [req[r] EXCEPT !.session = s, !.revision = @ + 1] \in Row
      BY <3>1, RowWritten
    <3>. QED
      BY <3>1, <3>2 DEF Row
  <2>3. req' = [r \in Requests |-> new(r)] \/ req' = req
    BY <1>4 DEF AttachWrite
  <2>4. req' \in [Requests -> Row] /\ OwnerKept
    <3>. HIDE DEF new
    <3>. QED
      BY <2>2, <2>3 DEF TypeOK, OwnerKept, Started
  <2>5. /\ o \in Objectives \cup {None}
        /\ \/ UNCHANGED <<sess, obj>>
           \/ /\ sess' = [sess EXCEPT ![s] = [objective |-> o, open |-> TRUE]]
              /\ obj' = [obj EXCEPT ![o].phase = "running"]
    BY <1>4, RowsOf DEF AttachWrite, Tx
  <2>6. obj' \in [Objectives -> Objective]
    <3>1. ASSUME NEW x \in Objectives PROVE [obj[x] EXCEPT !.phase = "running"]
                                            \in Objective
      BY DEF TypeOK, Objective, Phases
    <3>2. obj' = obj \/ obj' = [obj EXCEPT ![o] = [obj[o] EXCEPT !.phase = "running"]]
      BY <2>5
    <3>. QED
      BY <3>1, <3>2 DEF TypeOK
  <2>7. sess' \in [Sessions -> [objective : Objectives \cup {None}, open : BOOLEAN]]
    <3>1. [objective |-> o, open |-> TRUE] \in [objective : Objectives \cup {None}, open : BOOLEAN]
      BY <2>5
    <3>. HIDE DEF o
    <3>. QED
      BY <2>5, <3>1 DEF TypeOK
  <2>. QED
    BY <1>4, <2>1, <2>4, <2>6, <2>7 DEF AttachWrite, TypeOK
<1>5. CASE Deliver(s)
  <2>1. ASSUME NEW x \in Objectives PROVE [obj[x] EXCEPT !.phase = "done"] \in Objective
    BY DEF TypeOK, Objective, Phases
  <2>2. obj' \in [Objectives -> Objective]
    BY <1>5, <2>1 DEF Deliver, TypeOK
  <2>3. sess' \in [Sessions -> [objective : Objectives \cup {None}, open : BOOLEAN]]
    BY <1>5 DEF Deliver, TypeOK
  <2>. QED
    BY <1>5, <2>2, <2>3 DEF Deliver, TypeOK, OwnerKept, Started
<1>6. CASE (\E o \in Objectives : Resume(s, o)) \/ FollowUp(s)
  <2>1. /\ UNCHANGED <<req, tx, runner, agents, crashes>>
        /\ \/ obj' = obj
           \/ \E o \in Objectives \cup {None} : obj' = [obj EXCEPT ![o].phase = "running"]
        /\ \/ sess' = sess
           \/ \E o \in Objectives : sess' = [sess EXCEPT ![s] = [objective |-> o, open |-> TRUE]]
    BY <1>6 DEF Resume, FollowUp, TypeOK
  <2>2. obj' \in [Objectives -> Objective]
    BY <2>1 DEF TypeOK, Objective, Phases
  <2>3. sess' \in [Sessions -> [objective : Objectives \cup {None}, open : BOOLEAN]]
    <3>1. CASE sess' = sess
      BY <3>1 DEF TypeOK
    <3>2. ASSUME NEW o \in Objectives,
                 sess' = [sess EXCEPT ![s] = [objective |-> o, open |-> TRUE]]
          PROVE  sess' \in [Sessions -> [objective : Objectives \cup {None}, open : BOOLEAN]]
      BY <3>2 DEF TypeOK
    <3>. QED
      BY <2>1, <3>1, <3>2
  <2>. QED
    BY <2>1, <2>2, <2>3 DEF TypeOK, OwnerKept, Started
<1>. QED
  BY <1>2, <1>3, <1>4, <1>5, <1>6 DEF AgentStep

LEMMA LapseKeeps ==
    ASSUME TypeOK, NEW r \in Requests, Lapse(r)
    PROVE  TypeOK' /\ OwnerKept
<1>1. req[r] \in Row /\ [req[r] EXCEPT !.lapsed = TRUE] \in Row
  BY RowWritten DEF TypeOK
<1>2. req' = [req EXCEPT ![r] = [req[r] EXCEPT !.lapsed = TRUE]]
  BY DEF Lapse
<1>3. req' \in [Requests -> Row] /\ OwnerKept
  BY <1>1, <1>2 DEF TypeOK, OwnerKept, Started, Row
<1>. QED
  BY <1>3 DEF Lapse, TypeOK

\* A runner past the claim holds a request.
LEMMA HeldRequest ==
    ASSUME TypeOK, HeldOK, NEW p \in Runners, runner[p].pc \notin Resting
    PROVE  runner[p].held \in Requests
BY DEF TypeOK, HeldOK

\* The rest of the loop's steps: only the loop moves, and an agent may be added.
LEMMA LoopKeeps ==
    ASSUME TypeOK, NEW p \in Runners, NEW pc \in RunnerPcs,
           Goto(p, pc, None) \/ Move(p, pc), UNCHANGED <<req, obj, sess>>,
           tx' \in [Actors -> Tx], agents' \in SUBSET Requests, crashes' \in 0..MaxCrashes
    PROVE  TypeOK' /\ OwnerKept
<1>1. runner[p].held \in Requests \cup {None}
  BY DEF TypeOK
<1>2. runner' \in [Runners -> [pc : RunnerPcs, held : Requests \cup {None}]]
  BY <1>1, MoveType
<1>. QED
  BY <1>2 DEF TypeOK, OwnerKept, Started

LEMMA ReportKeeps ==
    ASSUME TypeOK, HeldOK, CallOK, NEW p \in Runners,
           NEW to \in {"launching", "launched", "failed"},
           ReportRead(p, to) \/ ReportWrite(p, to)
    PROVE  TypeOK' /\ OwnerKept
<1>. USE ActorFacts
<1>1. \A pc \in RunnerPcs : AfterReport(pc, to) \in RunnerPcs /\ AfterRejection(pc, to) \in RunnerPcs
  BY DEF AfterReport, AfterRejection, RunnerPcs
<1>3. runner[p].pc \in RunnerPcs
  BY DEF TypeOK
<1>4. CASE ReportRead(p, to)
  <2>. DEFINE r == runner[p].held
  <2>1. r \in Requests
    BY <1>4, HeldRequest DEF ReportRead, ReportedFrom, Resting
  <2>2. CASE Begin(p, Call(to, {Take(r)})) /\ UNCHANGED runner
    <3>1. {Take(r)} \in SUBSET Snapshot
      BY <2>1, TakeType
    <3>2. Call(to, {Take(r)}) \in Tx
      BY <3>1, CallType DEF TransactionOps
    <3>. QED
      BY <1>4, <2>2, <3>2, BeginKeeps DEF ReportRead
  <2>3. CASE Proceed(p, AfterRejection(runner[p].pc, to)) /\ UNCHANGED tx
    BY <1>1, <1>3, <1>4, <2>3, LoopKeeps DEF ReportRead, Proceed, TypeOK
  <2>. QED
    BY <1>4, <2>2, <2>3 DEF ReportRead
<1>5. CASE ReportWrite(p, to)
  <2>1. PICK s \in tx[p].rows :
          /\ req' = SetStatus({s}, to)
          /\ Proceed(p, IF Matches(s) THEN AfterReport(runner[p].pc, to)
                                      ELSE AfterRejection(runner[p].pc, to))
    BY <1>5 DEF ReportWrite
  <2>2. req' \in [Requests -> Row] /\ OwnerKept
    BY <2>1, RowsOf, UpdateKeeps DEF Statuses
  <2>3. runner' \in [Runners -> [pc : RunnerPcs, held : Requests \cup {None}]]
    <3>1. PICK pc \in RunnerPcs : Proceed(p, pc)
      BY <1>1, <1>3, <2>1
    <3>2. runner[p].held \in Requests \cup {None}
      BY DEF TypeOK
    <3>. QED
      BY <3>1, <3>2, MoveType DEF Proceed
  <2>4. tx' \in [Actors -> Tx]
    BY <1>5, EndType DEF ReportWrite
  <2>. QED
    BY <1>5, <2>2, <2>3, <2>4 DEF ReportWrite, TypeOK
<1>. QED
  BY <1>4, <1>5

LEMMA ClaimKeeps ==
    ASSUME TypeOK, ClaimsQueued, NEW p \in Runners, ClaimWrite(p)
    PROVE  TypeOK' /\ OwnerKept
<1>. USE ActorFacts
<1>1. PICK s \in tx[p].rows :
         \/ /\ Matches(s)
            /\ req' = [req EXCEPT ![s.id] =
                         [req[s.id] EXCEPT !.status = "claimed", !.owner = p,
                                           !.revision = s.revision + 1, !.lapsed = FALSE]]
            /\ Goto(p, "claimed", s.id)
         \/ ~Matches(s) /\ UNCHANGED req /\ Goto(p, "idle", None)
  BY DEF ClaimWrite
<1>2. s.id \in Requests /\ s.status = "queued"
  BY RowsOf DEF ClaimWrite, ClaimsQueued
<1>3. req' \in [Requests -> Row] /\ OwnerKept
  <2>1. CASE UNCHANGED req
    BY <2>1 DEF TypeOK, OwnerKept, Started
  <2>2. CASE Matches(s) /\ req' = [req EXCEPT ![s.id] =
                         [req[s.id] EXCEPT !.status = "claimed", !.owner = p,
                                           !.revision = s.revision + 1, !.lapsed = FALSE]]
    <3>. DEFINE w == [req[s.id] EXCEPT !.status = "claimed", !.owner = p,
                                       !.revision = s.revision + 1, !.lapsed = FALSE]
    <3>1. req[s.id] \in Row
      BY <1>2 DEF TypeOK
    <3>2. w \in Row
      <4>1. s.revision + 1 \in Nat
        BY RowsOf
      <4>. QED
        BY <3>1, <4>1, RowClaimed
    <3>3. ~Started(s.id)
      BY <1>2, <2>2 DEF Matches, Started
    <3>4. req' = [req EXCEPT ![s.id] = w]
      BY <1>2, <2>2
    <3>. HIDE DEF w
    <3>. QED
      BY <1>2, <3>2, <3>3, <3>4 DEF TypeOK, OwnerKept, Started
  <2>. QED
    BY <1>1, <2>1, <2>2
<1>4. runner' \in [Runners -> [pc : RunnerPcs, held : Requests \cup {None}]]
  BY <1>1, <1>2, MoveType DEF RunnerPcs
<1>5. tx' \in [Actors -> Tx]
  BY EndType DEF ClaimWrite
<1>. QED
  BY <1>3, <1>4, <1>5 DEF ClaimWrite, TypeOK

LEMMA BranchKeeps ==
    ASSUME TypeOK, HeldOK, NEW p \in Runners, BranchPreparedRead(p) \/ BranchPreparedWrite(p)
    PROVE  TypeOK' /\ OwnerKept
<1>. USE ActorFacts
<1>1. CASE BranchPreparedRead(p)
  <2>1. runner[p].held \in Requests
    BY <1>1, HeldRequest DEF BranchPreparedRead, Resting
  <2>2. {Take(runner[p].held)} \in SUBSET Snapshot
    BY <2>1, TakeType
  <2>3. Call("branch", {Take(runner[p].held)}) \in Tx
    BY <2>2, CallType DEF TransactionOps
  <2>. QED
    BY <1>1, <2>3, BeginKeeps DEF BranchPreparedRead
<1>2. CASE BranchPreparedWrite(p)
  <2>1. PICK s \in tx[p].rows : req' = [req EXCEPT ![s.id].revision = s.revision + 1]
    BY <1>2 DEF BranchPreparedWrite
  <2>. DEFINE w == [req[s.id] EXCEPT !.revision = s.revision + 1]
  <2>2. s.id \in Requests /\ s.revision + 1 \in Nat
    BY RowsOf
  <2>3. w \in Row /\ w.status = req[s.id].status /\ w.owner = req[s.id].owner
    <3>1. req[s.id] \in Row
      BY <2>2 DEF TypeOK
    <3>2. w \in Row
      BY <2>2, <3>1, RowWritten
    <3>. QED
      BY <3>1, <3>2 DEF Row
  <2>4. req' = [req EXCEPT ![s.id] = w]
    BY <2>1
  <2>5. req' \in [Requests -> Row] /\ OwnerKept
    <3>. HIDE DEF w
    <3>. QED
      BY <2>2, <2>3, <2>4 DEF TypeOK, OwnerKept, Started
  <2>6. runner[p].held \in Requests \cup {None}
    BY DEF TypeOK
  <2>7. runner' \in [Runners -> [pc : RunnerPcs, held : Requests \cup {None}]]
    BY <1>2, <2>6, MoveType DEF BranchPreparedWrite, RunnerPcs
  <2>8. tx' \in [Actors -> Tx]
    BY <1>2, EndType DEF BranchPreparedWrite
  <2>. QED
    BY <1>2, <2>5, <2>7, <2>8 DEF BranchPreparedWrite, TypeOK
<1>. QED
  BY <1>1, <1>2

LEMMA CompleteKeeps ==
    ASSUME TypeOK, HeldOK, NEW p \in Runners,
           CompleteMutationRead(p) \/ CompleteMutationWrite(p)
    PROVE  TypeOK' /\ OwnerKept
<1>. USE ActorFacts
<1>1. CASE CompleteMutationRead(p)
  <2>. DEFINE r == runner[p].held
  <2>1. r \in Requests
    BY <1>1, HeldRequest DEF CompleteMutationRead, Resting
  <2>2. Call("complete", {Take(r)}) \in Tx
    <3>1. {Take(r)} \in SUBSET Snapshot
      BY <2>1, TakeType
    <3>. QED
      BY <3>1, CallType
  <2>3. CASE Begin(p, Call("complete", {Take(r)})) /\ UNCHANGED runner
    BY <1>1, <2>2, <2>3, BeginKeeps DEF CompleteMutationRead
  <2>4. CASE Move(p, "failing") /\ UNCHANGED tx
    BY <1>1, <2>4, LoopKeeps DEF CompleteMutationRead, RunnerPcs, TypeOK
  <2>. QED
    BY <1>1, <2>3, <2>4 DEF CompleteMutationRead
<1>2. CASE CompleteMutationWrite(p)
  <2>1. PICK s \in tx[p].rows :
          /\ req' = SetStatus({s}, "launched")
          /\ Goto(p, "idle", None) \/ Move(p, "failing")
    BY <1>2 DEF CompleteMutationWrite
  <2>2. req' \in [Requests -> Row] /\ OwnerKept
    BY <2>1, RowsOf, UpdateKeeps DEF Statuses
  <2>3. runner[p].held \in Requests \cup {None}
    BY DEF TypeOK
  <2>4. runner' \in [Runners -> [pc : RunnerPcs, held : Requests \cup {None}]]
    BY <2>1, <2>3, MoveType DEF RunnerPcs
  <2>5. tx' \in [Actors -> Tx]
    BY <1>2, EndType DEF CompleteMutationWrite
  <2>. QED
    BY <1>2, <2>2, <2>4, <2>5 DEF CompleteMutationWrite, TypeOK
<1>. QED
  BY <1>1, <1>2

LEMMA RunnerKeeps ==
    ASSUME TypeOK, HeldOK, CallOK, ClaimsQueued, NEW p \in Runners, RunnerStep(p) \/ Crash(p)
    PROVE  TypeOK' /\ OwnerKept
<1>. USE ActorFacts
<1>1. tx \in [Actors -> Tx] /\ agents \in SUBSET Requests /\ crashes \in 0..MaxCrashes
  BY DEF TypeOK
<1>2. CASE Poll(p)
  <2>1. {Take(r) : r \in StaleRequests} \in SUBSET Snapshot
    BY TakeType DEF StaleRequests
  <2>2. Call("expire", {Take(r) : r \in StaleRequests}) \in Tx
    BY <2>1, CallType DEF TransactionOps
  <2>. QED
    BY <1>2, <2>2, BeginKeeps DEF Poll
<1>3. CASE PollExpire(p)
  <2>1. req' \in [Requests -> Row] /\ OwnerKept
    BY <1>3, RowsOf, UpdateKeeps DEF PollExpire, Statuses
  <2>2. runner' \in [Runners -> [pc : RunnerPcs, held : Requests \cup {None}]]
    BY <1>3, MoveType DEF PollExpire, RunnerPcs
  <2>3. tx' \in [Actors -> Tx]
    BY <1>3, EndType DEF PollExpire
  <2>. QED
    BY <1>3, <2>1, <2>2, <2>3 DEF PollExpire, TypeOK
<1>4. CASE ClaimRead(p)
  <2>1. PICK r \in Requests : Begin(p, Call("claim", {Take(r)}))
    BY <1>4 DEF ClaimRead, Claimable
  <2>2. {Take(r)} \in SUBSET Snapshot
    BY TakeType
  <2>3. Call("claim", {Take(r)}) \in Tx
    BY <2>2, CallType DEF TransactionOps
  <2>. QED
    BY <1>4, <2>1, <2>3, BeginKeeps DEF ClaimRead
<1>5. CASE ClaimNothing(p)
  BY <1>1, <1>5, LoopKeeps DEF ClaimNothing, RunnerPcs
<1>6. CASE WorkingDirectoryMissing(p)
  <2>1. PICK s \in tx[p].rows :
          \/ tx' = [tx EXCEPT ![p] = Call("failed", {Take(s.id)})] /\ UNCHANGED runner
          \/ End(p) /\ Goto(p, "idle", None)
    BY <1>6 DEF WorkingDirectoryMissing
  <2>2. s.id \in Requests
    BY RowsOf
  <2>3. {Take(s.id)} \in SUBSET Snapshot
    BY <2>2, TakeType
  <2>4. Call("failed", {Take(s.id)}) \in Tx
    BY <2>3, CallType DEF TransactionOps
  <2>5. tx' \in [Actors -> Tx]
    BY <1>1, <2>1, <2>4, EndType
  <2>6. runner' \in [Runners -> [pc : RunnerPcs, held : Requests \cup {None}]]
    BY <2>1, MoveType DEF RunnerPcs, TypeOK
  <2>. QED
    BY <1>6, <2>5, <2>6 DEF WorkingDirectoryMissing, TypeOK, OwnerKept, Started
<1>7. CASE Spawn(p)
  <2>1. runner[p].held \in Requests
    BY <1>7, HeldRequest DEF Spawn, Resting
  <2>. QED
    BY <1>1, <1>7, <2>1, LoopKeeps DEF Spawn, RunnerPcs
<1>8. CASE LaunchFails(p)
  BY <1>1, <1>8, LoopKeeps DEF LaunchFails, RunnerPcs
<1>9. CASE Crash(p)
  <2>1. crashes + 1 \in 0..MaxCrashes
    BY <1>1, <1>9, QueueConstants DEF Crash
  <2>. QED
    BY <1>1, <1>9, <2>1, LoopKeeps DEF Crash, RunnerPcs
<1>. QED
  BY <1>2, <1>3, <1>4, <1>5, <1>6, <1>7, <1>8, <1>9,
     ClaimKeeps, ReportKeeps, BranchKeeps, CompleteKeeps DEF RunnerStep

LEMMA StepKeeps ==
    ASSUME IInv, [Next]_vars
    PROVE  TypeOK' /\ OwnerKept
<1>1. CASE UNCHANGED vars
  BY <1>1 DEF IInv, TypeOK, OwnerKept, Started, vars
<1>. QED
  BY <1>1, RunnerKeeps, OperatorKeeps, AgentKeeps, LapseKeeps DEF Next, IInv

-----------------------------------------------------------------------------
(***************************************************************************)
(* What a step does to the loop of the runner that takes it.               *)
(***************************************************************************)

PastSpawn == {"spawned", "mutationFailed", "failing"}

OthersKept(a) ==
    /\ \A b \in Actors \ {a} : tx'[b] = tx[b]
    /\ \A q \in Runners \ {a} : runner'[q] = runner[q]

\* The hold of a runner after its step: the one it had, none, or a request it
\* claimed just now.
Hold(p) ==
    \/ runner'[p].held = None
    \/ /\ runner'[p].held = runner[p].held
       /\ runner[p].pc \in PastSpawn => runner'[p].pc \in PastSpawn
    \/ \E r \in Requests : /\ runner'[p].held = r
                          /\ ~Started(r) /\ Started(r)'
                          /\ req'[r].owner = p

Spawns(p) ==
    \/ agents' = agents
    \/ /\ agents' = agents \cup {runner[p].held}
       /\ runner[p].held # None
       /\ runner'[p].held = runner[p].held
       /\ runner'[p].pc = "spawned"

SpawnsFresh(p) ==
    runner'[p].pc = "spawned" =>
        \/ runner[p].pc = "spawned"
        \/ runner[p].pc \in {"launching", "prepared"} /\ runner'[p].held = runner[p].held

CallKnown(a) ==
    /\ tx'[a].op = "claim" => \A s \in tx'[a].rows : s.status = "queued"
    /\ tx'[a].op = "dequeue" => tx'[a].to # ""

LoopOK(p) ==
    /\ OthersKept(p)
    /\ CallAt(tx'[p].op, runner'[p].pc)
    /\ (runner'[p].held = None) <=> (runner'[p].pc \in Resting)
    /\ Hold(p)
    /\ Spawns(p)
    /\ SpawnsFresh(p)
    /\ CallKnown(p)

LEMMA Placed ==
    ASSUME TypeOK, NEW p \in Runners, NEW pc, NEW r, Goto(p, pc, r)
    PROVE  /\ runner'[p].pc = pc /\ runner'[p].held = r
           /\ \A q \in Runners \ {p} : runner'[q] = runner[q]
BY DEF TypeOK, Goto

LEMMA Moved ==
    ASSUME TypeOK, NEW p \in Runners, NEW pc, Move(p, pc)
    PROVE  /\ runner'[p].pc = pc /\ runner'[p].held = runner[p].held
           /\ \A q \in Runners \ {p} : runner'[q] = runner[q]
BY Placed DEF Move

LEMMA Proceeded ==
    ASSUME TypeOK, NEW p \in Runners, NEW pc, Proceed(p, pc)
    PROVE  /\ runner'[p].pc = pc
           /\ runner'[p].held = IF pc = "idle" THEN None ELSE runner[p].held
           /\ \A q \in Runners \ {p} : runner'[q] = runner[q]
BY Placed, Moved DEF Proceed

\* A call begins: the loop stays where it is.
LEMMA BeginsLoop ==
    ASSUME TypeOK, HeldOK, NEW p \in Runners, NEW call \in Tx, Begin(p, call),
           CallAt(call.op, runner[p].pc), UNCHANGED <<runner, agents>>,
           call.op = "claim" => \A s \in call.rows : s.status = "queued",
           call.op # "dequeue"
    PROVE  LoopOK(p)
<1>1. tx'[p] = call /\ \A b \in Actors \ {p} : tx'[b] = tx[b]
  BY ActorFacts, BeginType
<1>. QED
  BY <1>1 DEF LoopOK, OthersKept, Hold, Spawns, SpawnsFresh, CallKnown, HeldOK

\* No call is in flight afterwards and the loop goes on with the same request,
\* or with none.
LEMMA GoesOnLoop ==
    ASSUME TypeOK, HeldOK, NEW p \in Runners, NEW pc \in RunnerPcs \ {"spawned"},
           \A b \in Actors \ {p} : tx'[b] = tx[b], tx'[p].op = "none",
           \/ pc \in Resting /\ Goto(p, pc, None)
           \/ /\ pc \notin Resting /\ runner[p].pc \notin Resting /\ Move(p, pc)
              /\ runner[p].pc \in PastSpawn => pc \in PastSpawn,
           UNCHANGED agents
    PROVE  LoopOK(p)
<1>1. CASE pc \in Resting /\ Goto(p, pc, None)
  BY <1>1, Placed DEF LoopOK, OthersKept, CallAt, Hold, Spawns, SpawnsFresh, CallKnown
<1>2. CASE /\ pc \notin Resting /\ runner[p].pc \notin Resting /\ Move(p, pc)
           /\ runner[p].pc \in PastSpawn => pc \in PastSpawn
  BY <1>2, Moved DEF LoopOK, OthersKept, CallAt, Hold, Spawns, SpawnsFresh, CallKnown, HeldOK
<1>. QED
  BY <1>1, <1>2


LEMMA ReportLoop ==
    ASSUME TypeOK, HeldOK, CallOK, NEW p \in Runners,
           NEW to \in {"launching", "launched", "failed"},
           ReportRead(p, to) \/ ReportWrite(p, to)
    PROVE  LoopOK(p)
<1>. USE ActorFacts
<1>. DEFINE pc == runner[p].pc
<1>1. CASE ReportRead(p, to)
  <2>. DEFINE r == runner[p].held
  <2>1. r \in Requests /\ pc \notin Resting /\ pc \in ReportedFrom(to)
    BY <1>1, HeldRequest DEF ReportRead, ReportedFrom, Resting
  <2>2. CASE Begin(p, Call(to, {Take(r)})) /\ UNCHANGED runner
    <3>1. {Take(r)} \in SUBSET Snapshot
      BY <2>1, TakeType
    <3>2. Call(to, {Take(r)}) \in Tx /\ Call(to, {Take(r)}).op = to
      BY <3>1, CallType DEF TransactionOps
    <3>3. CallAt(to, pc)
      BY <2>1 DEF CallAt, ReportedFrom
    <3>. QED
      BY <1>1, <2>2, <3>2, <3>3, BeginsLoop DEF ReportRead
  <2>3. CASE /\ tx[p].op = "none" /\ UNCHANGED tx
             /\ Proceed(p, AfterRejection(pc, to))
    <3>1. CASE AfterRejection(pc, to) = "idle"
      BY <1>1, <2>3, <3>1, GoesOnLoop DEF ReportRead, Proceed, Resting, RunnerPcs
    <3>2. CASE AfterRejection(pc, to) = "failing"
      <4>1. Move(p, "failing")
        BY <2>3, <3>2 DEF Proceed
      <4>. QED
        BY <1>1, <2>1, <2>3, <4>1, GoesOnLoop DEF ReportRead, Resting, RunnerPcs, PastSpawn
    <3>. QED
      BY <3>1, <3>2 DEF AfterRejection
  <2>. QED
    BY <1>1, <2>2, <2>3 DEF ReportRead
<1>2. CASE ReportWrite(p, to)
  <2>1. PICK next \in {AfterReport(pc, to), AfterRejection(pc, to)} : Proceed(p, next)
    BY <1>2 DEF ReportWrite
  <2>2. CallAt(to, pc)
    BY <1>2 DEF ReportWrite, CallOK
  <2>3. /\ \A b \in Actors \ {p} : tx'[b] = tx[b]
        /\ tx'[p].op = "none" /\ UNCHANGED agents
    BY <1>2, EndType, NoTxType DEF ReportWrite
  <2>4. CASE next = "idle"
    BY <2>1, <2>3, <2>4, GoesOnLoop DEF Proceed, Resting, RunnerPcs
  <2>5. CASE next = "launching" /\ to = "launching"
    <3>1. Move(p, "launching") /\ pc = "claimed"
      BY <2>1, <2>2, <2>5 DEF Proceed, CallAt
    <3>. QED
      BY <2>3, <3>1, GoesOnLoop DEF Resting, RunnerPcs, PastSpawn
  <2>6. CASE next = "failing" /\ (to = "launched" \/ pc = "mutationFailed")
    <3>1. Move(p, "failing") /\ pc \in {"spawned", "mutationFailed"}
      BY <2>1, <2>2, <2>6 DEF Proceed, CallAt
    <3>. QED
      BY <2>3, <3>1, GoesOnLoop DEF Resting, RunnerPcs, PastSpawn
  <2>. QED
    BY <2>1, <2>4, <2>5, <2>6 DEF AfterReport, AfterRejection
<1>. QED
  BY <1>1, <1>2

LEMMA ClaimLoop ==
    ASSUME TypeOK, HeldOK, CallOK, ClaimsQueued, NEW p \in Runners, ClaimWrite(p)
    PROVE  LoopOK(p)
<1>. USE ActorFacts
<1>1. PICK s \in tx[p].rows :
         \/ /\ Matches(s)
            /\ req' = [req EXCEPT ![s.id] =
                         [req[s.id] EXCEPT !.status = "claimed", !.owner = p,
                                           !.revision = s.revision + 1, !.lapsed = FALSE]]
            /\ Goto(p, "claimed", s.id)
         \/ ~Matches(s) /\ UNCHANGED req /\ Goto(p, "idle", None)
  BY DEF ClaimWrite
<1>2. s.id \in Requests /\ s.status = "queued"
  BY RowsOf DEF ClaimWrite, ClaimsQueued
<1>3. /\ \A b \in Actors \ {p} : tx'[b] = tx[b]
      /\ tx'[p].op = "none" /\ UNCHANGED agents
  BY EndType, NoTxType DEF ClaimWrite
<1>4. CASE Goto(p, "idle", None)
  BY <1>3, <1>4, GoesOnLoop DEF Resting, RunnerPcs
<1>5. CASE /\ Matches(s)
           /\ req' = [req EXCEPT ![s.id] =
                         [req[s.id] EXCEPT !.status = "claimed", !.owner = p,
                                           !.revision = s.revision + 1, !.lapsed = FALSE]]
           /\ Goto(p, "claimed", s.id)
  <2>1. ~Started(s.id)
    BY <1>2, <1>5 DEF Matches, Started
  <2>2. req'[s.id].status = "claimed" /\ req'[s.id].owner = p
    <3>1. req[s.id] \in Row
      BY <1>2 DEF TypeOK
    <3>2. req'[s.id] = [req[s.id] EXCEPT !.status = "claimed", !.owner = p,
                                         !.revision = s.revision + 1, !.lapsed = FALSE]
      BY <1>2, <1>5 DEF TypeOK
    <3>. QED
      BY <3>1, <3>2 DEF Row
  <2>3. /\ runner'[p].pc = "claimed" /\ runner'[p].held = s.id
        /\ \A q \in Runners \ {p} : runner'[q] = runner[q]
    BY <1>5, Placed
  <2>4. Hold(p)
    BY <1>2, <2>1, <2>2, <2>3 DEF Hold, Started
  <2>. QED
    BY <1>2, <1>3, <2>3, <2>4 DEF LoopOK, OthersKept, CallAt, Spawns, SpawnsFresh, CallKnown, Resting
<1>. QED
  BY <1>1, <1>4, <1>5


LEMMA RunnerLoop ==
    ASSUME TypeOK, HeldOK, CallOK, ClaimsQueued, NEW p \in Runners, RunnerStep(p) \/ Crash(p)
    PROVE  LoopOK(p)
<1>. USE ActorFacts
<1>1. CASE Poll(p)
  <2>. DEFINE rows == {Take(r) : r \in StaleRequests}
  <2>1. rows \in SUBSET Snapshot
    BY TakeType DEF StaleRequests
  <2>2. Call("expire", rows) \in Tx /\ Call("expire", rows).op = "expire"
    BY <2>1, CallType DEF TransactionOps
  <2>. QED
    BY <1>1, <2>2, BeginsLoop DEF Poll, CallAt
<1>2. CASE PollExpire(p)
  BY <1>2, EndType, NoTxType, GoesOnLoop DEF PollExpire, Resting, RunnerPcs
<1>3. CASE ClaimRead(p)
  <2>1. PICK r \in Requests : req[r].status = "queued" /\ Begin(p, Call("claim", {Take(r)}))
    BY <1>3 DEF ClaimRead, Claimable
  <2>2. {Take(r)} \in SUBSET Snapshot /\ Take(r).status = "queued"
    BY <2>1, TakeType
  <2>3. /\ Call("claim", {Take(r)}) \in Tx
        /\ Call("claim", {Take(r)}).op = "claim" /\ Call("claim", {Take(r)}).rows = {Take(r)}
    BY <2>2, CallType DEF TransactionOps
  <2>4. CallAt("claim", runner[p].pc)
    BY <1>3 DEF ClaimRead, Selecting, CallAt, Resting
  <2>. QED
    BY <1>3, <2>1, <2>2, <2>3, <2>4, BeginsLoop DEF ClaimRead
<1>4. CASE ClaimNothing(p)
  BY <1>4, GoesOnLoop DEF ClaimNothing, Resting, RunnerPcs
<1>5. CASE WorkingDirectoryMissing(p)
  <2>1. PICK s \in tx[p].rows :
          \/ tx' = [tx EXCEPT ![p] = Call("failed", {Take(s.id)})] /\ UNCHANGED runner
          \/ End(p) /\ Goto(p, "idle", None)
    BY <1>5 DEF WorkingDirectoryMissing
  <2>2. tx[p].op = "claim" /\ UNCHANGED <<req, agents>>
    BY <1>5 DEF WorkingDirectoryMissing
  <2>3. CASE tx' = [tx EXCEPT ![p] = Call("failed", {Take(s.id)})] /\ UNCHANGED runner
    <3>1. tx'[p].op = "failed" /\ \A b \in Actors \ {p} : tx'[b] = tx[b]
      BY <2>3 DEF TypeOK, Call, NoTx
    <3>2. runner[p].pc \in Resting
      BY <2>2 DEF CallOK, CallAt
    <3>. QED
      BY <2>2, <2>3, <3>1, <3>2
      DEF LoopOK, OthersKept, CallAt, Hold, Spawns, SpawnsFresh, CallKnown, HeldOK
  <2>4. CASE End(p) /\ Goto(p, "idle", None)
    BY <2>2, <2>4, EndType, NoTxType, GoesOnLoop DEF Resting, RunnerPcs
  <2>. QED
    BY <2>1, <2>3, <2>4
<1>6. CASE BranchPreparedRead(p)
  <2>1. runner[p].held \in Requests
    BY <1>6, HeldRequest DEF BranchPreparedRead, Resting
  <2>2. {Take(runner[p].held)} \in SUBSET Snapshot
    BY <2>1, TakeType
  <2>3. /\ Call("branch", {Take(runner[p].held)}) \in Tx
        /\ Call("branch", {Take(runner[p].held)}).op = "branch"
    BY <2>2, CallType DEF TransactionOps
  <2>. QED
    BY <1>6, <2>3, BeginsLoop DEF BranchPreparedRead, CallAt
<1>7. CASE BranchPreparedWrite(p)
  <2>1. runner[p].pc = "launching"
    BY <1>7 DEF BranchPreparedWrite, CallOK, CallAt
  <2>. QED
    BY <1>7, <2>1, EndType, NoTxType, GoesOnLoop
    DEF BranchPreparedWrite, Resting, RunnerPcs, PastSpawn
<1>8. CASE Spawn(p)
  <2>1. runner[p].held \in Requests
    BY <1>8, HeldRequest DEF Spawn, Resting
  <2>2. /\ runner'[p].pc = "spawned" /\ runner'[p].held = runner[p].held
        /\ \A q \in Runners \ {p} : runner'[q] = runner[q]
    BY <1>8, Moved DEF Spawn
  <2>3. agents' = agents \cup {runner[p].held} /\ UNCHANGED tx /\ tx[p].op = "none"
    BY <1>8 DEF Spawn
  <2>4. runner[p].pc \in {"launching", "prepared"}
    BY <1>8 DEF Spawn
  <2>. QED
    BY <2>1, <2>2, <2>3, <2>4
    DEF LoopOK, OthersKept, CallAt, Hold, Spawns, SpawnsFresh, CallKnown, Resting, PastSpawn
<1>9. CASE LaunchFails(p)
  <2>1. PICK pc \in {"failing", "mutationFailed"} : Move(p, pc)
    BY <1>9 DEF LaunchFails
  <2>. QED
    BY <1>9, <2>1, GoesOnLoop DEF LaunchFails, Resting, RunnerPcs, PastSpawn
<1>10. CASE CompleteMutationRead(p)
  <2>. DEFINE r == runner[p].held
  <2>1. r \in Requests
    BY <1>10, HeldRequest DEF CompleteMutationRead, Resting
  <2>2. CASE Begin(p, Call("complete", {Take(r)})) /\ UNCHANGED runner
    <3>1. {Take(r)} \in SUBSET Snapshot
      BY <2>1, TakeType
    <3>2. Call("complete", {Take(r)}) \in Tx /\ Call("complete", {Take(r)}).op = "complete"
      BY <3>1, CallType
    <3>. QED
      BY <1>10, <2>2, <3>2, BeginsLoop DEF CompleteMutationRead, CallAt
  <2>3. CASE tx[p].op = "none" /\ UNCHANGED tx /\ Move(p, "failing")
    BY <1>10, <2>3, GoesOnLoop DEF CompleteMutationRead, Resting, RunnerPcs, PastSpawn
  <2>. QED
    BY <1>10, <2>2, <2>3 DEF CompleteMutationRead
<1>11. CASE CompleteMutationWrite(p)
  <2>1. runner[p].pc = "launching"
    BY <1>11 DEF CompleteMutationWrite, CallOK, CallAt
  <2>2. Goto(p, "idle", None) \/ Move(p, "failing")
    BY <1>11 DEF CompleteMutationWrite
  <2>. QED
    BY <1>11, <2>1, <2>2, EndType, NoTxType, GoesOnLoop
    DEF CompleteMutationWrite, Resting, RunnerPcs, PastSpawn
<1>12. CASE Crash(p)
  BY <1>12, GoesOnLoop DEF Crash, Resting, RunnerPcs
<1>. QED
  BY <1>1, <1>2, <1>3, <1>4, <1>5, <1>6, <1>7, <1>8, <1>9, <1>10, <1>11, <1>12,
     ClaimLoop, ReportLoop DEF RunnerStep

\* Operators and agents leave the runners' loops and agents alone, and so does time.
Bystander(a) ==
    /\ \A b \in Actors \ {a} : tx'[b] = tx[b]
    /\ UNCHANGED <<runner, agents>>
    /\ CallKnown(a)

LEMMA OperatorLoop ==
    ASSUME TypeOK, NEW u \in Operators, OperatorStep(u)
    PROVE  Bystander(u)
<1>. USE ActorFacts
<1>1. /\ UNCHANGED <<runner, agents>>
      /\ \A b \in Actors \ {u} : tx'[b] = tx[b]
  BY DEF TypeOK, OperatorStep, LaunchObjectiveRead, LaunchObjectiveWrite, AutoAdvance,
         QueueMutation, ClearRead, ClearWrite, RunnerStatusRead, RunnerStatusWrite,
         DequeueRead, DequeueWrite, BackToLaunchable, PromoteRead, PromoteWrite, Discard,
         Begin, End
<1>2. CallKnown(u)
  <2>1. CASE \E o \in Objectives, to \in {"launchable", "running", "stopped", "deleted"} :
                DequeueRead(u, o, to)
    <3>1. PICK o \in Objectives, to \in {"launchable", "running", "stopped", "deleted"} :
             DequeueRead(u, o, to)
      BY <2>1
    <3>2. tx'[u].op = "dequeue" /\ tx'[u].to = to
      BY <3>1 DEF DequeueRead, Begin, Call, NoTx, TypeOK
    <3>. QED
      BY <3>2 DEF CallKnown
  <2>2. CASE tx' = [tx EXCEPT ![u] = NoTx]
    BY <2>2 DEF CallKnown, NoTx, TypeOK
  <2>3. CASE UNCHANGED tx /\ tx[u].op = "none"
    BY <2>3 DEF CallKnown
  <2>4. CASE \/ \E o \in Objectives : LaunchObjectiveRead(u, o)
             \/ \E R \in SUBSET Requests : ClearRead(u, R)
             \/ RunnerStatusRead(u)
    <3>1. CASE \E o \in Objectives : LaunchObjectiveRead(u, o)
      <4>1. tx'[u].op = "launch"
        BY <3>1 DEF LaunchObjectiveRead, Begin, NoTx, TypeOK
      <4>. QED
        BY <4>1 DEF CallKnown
    <3>2. CASE RunnerStatusRead(u) \/ \E R \in SUBSET Requests : ClearRead(u, R)
      <4>1. tx'[u].op \in {"clear", "expire"}
        BY <3>2, BeginOp DEF ClearRead, RunnerStatusRead
      <4>. QED
        BY <4>1 DEF CallKnown
    <3>. QED
      BY <2>4, <3>1, <3>2
  <2>5. CASE \E o \in Objectives : PromoteRead(u, o)
    <3>1. tx'[u].op = "promote"
      BY <2>5 DEF PromoteRead, Begin, Call, NoTx, TypeOK
    <3>. QED
      BY <3>1 DEF CallKnown
  <2>6. \A o \in Objectives : OfObjective(o) \in SUBSET Requests
    BY DEF OfObjective
  <2>. QED
    BY <2>1, <2>2, <2>3, <2>4, <2>5, <2>6
    DEF OperatorStep, LaunchObjectiveWrite, AutoAdvance, QueueMutation, ClearWrite,
        RunnerStatusWrite, DequeueWrite, BackToLaunchable, PromoteWrite, Discard, End
<1>. QED
  BY <1>1, <1>2 DEF Bystander

LEMMA AgentLoop ==
    ASSUME TypeOK, NEW s \in Sessions, AgentStep(s)
    PROVE  Bystander(s)
<1>. USE ActorFacts
<1>1. CASE AttachWrite(s) \/ Deliver(s)
  <2>1. tx'[s].op = "none" /\ \A b \in Actors \ {s} : tx'[b] = tx[b]
    BY <1>1, EndType, NoTxType DEF AttachWrite, Deliver
  <2>2. UNCHANGED <<runner, agents>>
    BY <1>1 DEF AttachWrite, Deliver
  <2>. QED
    BY <2>1, <2>2 DEF Bystander, CallKnown
<1>2. CASE \/ \E o \in Objectives, id \in agents \cup {None} : AttachRead(s, o, id)
           \/ \E id \in agents \cup {None} : ReattachRead(s, id)
  <2>1. PICK o \in Objectives \cup {None}, id \in Requests \cup {None} : AttachTo(s, o, id)
    BY <1>2 DEF AttachRead, ReattachRead, TypeOK
  <2>2. UNCHANGED <<runner, agents>>
    BY <1>2 DEF AttachRead, ReattachRead
  <2>3. PICK call \in Tx : call.op = "attach" /\ Begin(s, call)
    BY <2>1, AttachToKeeps
  <2>4. tx'[s] = call /\ \A b \in Actors \ {s} : tx'[b] = tx[b]
    BY <2>3, BeginType
  <2>. QED
    BY <2>2, <2>3, <2>4 DEF Bystander, CallKnown
<1>3. CASE (\E o \in Objectives : Resume(s, o)) \/ FollowUp(s)
  <2>1. UNCHANGED <<tx, runner, agents>> /\ tx[s].op = "none"
    BY <1>3 DEF Resume, FollowUp
  <2>. QED
    BY <2>1 DEF Bystander, CallKnown
<1>. QED
  BY <1>1, <1>2, <1>3 DEF AgentStep

-----------------------------------------------------------------------------
(***************************************************************************)
(* The invariant, and what follows from it.                                *)
(***************************************************************************)

\* Every step is a step of one runner's loop, or leaves the loops alone.
LEMMA StepLoop ==
    ASSUME IInv, [Next]_vars
    PROVE  \/ \E p \in Runners : LoopOK(p)
           \/ \E a \in Operators \cup Sessions : Bystander(a)
           \/ UNCHANGED <<tx, runner, agents>>
<1>. USE ActorFacts DEF IInv
<1>1. CASE \E p \in Runners : RunnerStep(p) \/ Crash(p)
  BY <1>1, RunnerLoop
<1>2. CASE \E u \in Operators : OperatorStep(u)
  BY <1>2, OperatorLoop
<1>3. CASE \E s \in Sessions : AgentStep(s)
  BY <1>3, AgentLoop
<1>4. CASE (\E r \in Requests : Lapse(r)) \/ UNCHANGED vars
  BY <1>4 DEF Lapse, vars
<1>. QED
  BY <1>1, <1>2, <1>3, <1>4 DEF Next

LEMMA HoldsStep ==
    ASSUME IInv, OwnerKept, NEW p \in Runners, LoopOK(p)
    PROVE  HoldsOK' /\ SpawnOK'
<1>. USE DEF IInv
<1>1. \A q \in Runners : runner[q].held \in Requests \cup {None}
  BY DEF TypeOK
<1>2. \A q \in Runners \ {p} : runner'[q] = runner[q]
  BY DEF LoopOK, OthersKept
<1>3. \A q \in Runners, r \in Requests :
         runner[q].held = r => Started(r) /\ Started(r)' /\ req[r].owner = q /\ req'[r].owner = q
  BY ActorFacts DEF HoldsOK, OwnerKept
<1>4. HoldsOK'
  <2>1. ASSUME NEW q \in Runners, runner'[q].held # None
        PROVE  \E r \in Requests : runner'[q].held = r /\ Started(r)' /\ req'[r].owner = q
    <3>1. CASE runner'[q].held = runner[q].held
      BY <1>1, <1>3, <2>1, <3>1
    <3>2. CASE q = p /\ \E r \in Requests : runner'[p].held = r /\ Started(r)' /\ req'[r].owner = p
      BY <3>2
    <3>. QED
      BY <1>2, <2>1, <3>1, <3>2 DEF LoopOK, Hold
  <2>. QED
    BY <2>1 DEF HoldsOK, Started
<1>5. agents \subseteq Requests /\ \A r \in agents : Started(r) /\ Started(r)'
  BY DEF TypeOK, SpawnOK, OwnerKept
<1>6. \A r \in agents' : Started(r)'
  BY <1>1, <1>3, <1>5 DEF LoopOK, Spawns
<1>7. ASSUME NEW q \in Runners, runner'[q].held \in agents'
      PROVE  runner'[q].pc \in PastSpawn
  <2>1. CASE q # p
    <3>1. runner'[q] = runner[q]
      BY <1>2, <2>1
    <3>2. runner[q].held \in agents
      <4>1. ASSUME runner[p].held # None, runner[q].held = runner[p].held
            PROVE  FALSE
        <5>1. PICK r \in Requests : runner[p].held = r /\ runner[q].held = r
          BY <1>1, <4>1
        <5>2. req[r].owner = p /\ req[r].owner = q
          BY <1>3, <5>1
        <5>. QED
          BY <2>1, <5>2
      <4>. QED
        BY <1>7, <3>1, <4>1 DEF LoopOK, Spawns
    <3>. QED
      BY <3>1, <3>2 DEF SpawnOK, PastSpawn
  <2>2. CASE q = p /\ agents' = agents
    <3>1. runner'[p].held \in Requests /\ Started(runner'[p].held)
      BY <1>5, <1>7, <2>2
    <3>2. runner'[p].held = runner[p].held /\ (runner[p].pc \in PastSpawn => runner'[p].pc \in PastSpawn)
      BY <3>1, ActorFacts DEF LoopOK, Hold
    <3>. QED
      BY <1>7, <2>2, <3>2 DEF SpawnOK, PastSpawn
  <2>3. CASE q = p /\ runner'[p].pc = "spawned"
    BY <2>3 DEF PastSpawn
  <2>. QED
    BY <2>1, <2>2, <2>3 DEF LoopOK, Spawns
<1>. QED
  BY <1>4, <1>6, <1>7 DEF SpawnOK, PastSpawn, Started

LEMMA Invariance == IInv /\ [Next]_vars => IInv'
<1>. SUFFICES ASSUME IInv, [Next]_vars PROVE IInv'
  OBVIOUS
<1>. USE ActorFacts
<1>1. TypeOK' /\ OwnerKept
  BY StepKeeps
<1>2. CASE \E p \in Runners : LoopOK(p)
  <2>1. PICK p \in Runners : LoopOK(p)
    BY <1>2
  <2>2. HoldsOK' /\ SpawnOK'
    BY <1>1, <2>1, HoldsStep
  <2>3. HeldOK' /\ CallOK'
    BY <2>1 DEF IInv, LoopOK, OthersKept, HeldOK, CallOK
  <2>4. ClaimsQueued' /\ DequeuesOK'
    BY <2>1 DEF IInv, LoopOK, OthersKept, CallKnown, ClaimsQueued, DequeuesOK
  <2>. QED
    BY <1>1, <2>2, <2>3, <2>4 DEF IInv
<1>3. CASE (\E a \in Operators \cup Sessions : Bystander(a)) \/ UNCHANGED <<tx, runner, agents>>
  <2>1. UNCHANGED <<runner, agents>>
    BY <1>3 DEF Bystander
  <2>2. HoldsOK' /\ SpawnOK'
    <3>1. \A p \in Runners : runner[p].held \in Requests \cup {None}
      BY DEF IInv, TypeOK
    <3>. QED
      BY <1>1, <2>1, <3>1 DEF IInv, TypeOK, HoldsOK, SpawnOK, OwnerKept, Started
  <2>3. ClaimsQueued' /\ DequeuesOK'
    BY <1>3 DEF IInv, Bystander, CallKnown, ClaimsQueued, DequeuesOK
  <2>4. HeldOK'
    BY <2>1 DEF IInv, HeldOK
  <2>5. CallOK'
    <3>1. \A p \in Runners : tx'[p] = tx[p]
      BY <1>3 DEF Bystander
    <3>. QED
      BY <2>1, <3>1 DEF IInv, CallOK
  <2>. QED
    BY <1>1, <2>2, <2>3, <2>4, <2>5 DEF IInv
<1>. QED
  BY <1>2, <1>3, StepLoop

LEMMA Initially == Init => IInv
<1>. SUFFICES ASSUME Init PROVE IInv
  OBVIOUS
<1>1. NoRow \in Row
  BY DEF NoRow, Row, Statuses, Sources
<1>2. TypeOK
  BY <1>1, NoTxType, QueueConstants DEF Init, TypeOK, Objective, Phases, RunnerPcs
<1>3. HeldOK /\ CallOK /\ HoldsOK
  BY NoTxType, ActorFacts DEF Init, HeldOK, CallOK, CallAt, HoldsOK, Resting
<1>4. DequeuesOK /\ ClaimsQueued /\ SpawnOK
  BY NoTxType DEF Init, DequeuesOK, ClaimsQueued, SpawnOK
<1>. QED
  BY <1>2, <1>3, <1>4 DEF IInv

LEMMA AlwaysIInv == Spec => []IInv
BY Initially, Invariance, PTL DEF Spec

\* The queue's rows, calls and loops stay within their types: no status, call or
\* point of the loop arises that the code does not know.
THEOREM TypeCorrect == Spec => []TypeOK
<1>1. IInv => TypeOK
  BY DEF IInv
<1>. QED
  BY <1>1, AlwaysIInv, PTL

\* However many runners, operators and agents race on either database, and
\* wherever runners crash, a runner only ever works on a request that it claimed
\* and that nobody claimed from it.
THEOREM HoldersOwn == Spec => []HeldByOwner
<1>1. IInv => HeldByOwner
  BY DEF IInv, HoldsOK, HeldByOwner
<1>. QED
  BY <1>1, AlwaysIInv, PTL

\* No request has its agent spawned twice: not by two runners, not after an
\* expiry, a crash or a failed report.
THEOREM SpawnsOnce == Spec => SpawnedOnce
<1>. DEFINE A == \A p \in Runners :
                    (runner[p].pc # "spawned" /\ runner'[p].pc = "spawned")
                    => runner'[p].held \notin agents
<1>1. IInv /\ [Next]_vars => [A]_vars
  <2>. SUFFICES ASSUME IInv, Next, NEW p \in Runners,
                       runner[p].pc # "spawned", runner'[p].pc = "spawned"
                PROVE  runner'[p].held \notin agents
    BY DEF vars
  <2>1. PICK q \in Runners : LoopOK(q)
    BY StepLoop DEF Bystander
  <2>2. /\ runner[p].pc \in {"launching", "prepared"}
        /\ runner'[p].held = runner[p].held
    BY <2>1 DEF LoopOK, OthersKept, SpawnsFresh
  <2>. QED
    BY <2>2 DEF IInv, SpawnOK
<1>. QED
  BY <1>1, AlwaysIInv, PTL DEF Spec, SpawnedOnce

=============================================================================

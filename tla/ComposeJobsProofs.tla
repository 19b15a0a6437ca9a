------------------------- MODULE ComposeJobsProofs --------------------------
(***************************************************************************)
(* Theorems about ComposeJobs: types, the refinement of DeliveryReport and *)
(* the bound on the workers of one job, for every number of deliveries,    *)
(* workers, attempts, lapses, faults and project moves.                    *)
(***************************************************************************)
EXTENDS ComposeJobs, FiniteSetTheorems, TLAPS

-----------------------------------------------------------------------------
(* Types.                                                                  *)

LEMMA InitTypes == ASSUME Init PROVE TypeOK
BY DEF Init, TypeOK, NoJob, Job, Idle, Worker, Pcs, NoReport, Reports

LEMMA IdleType == Idle \in Worker /\ Idle.pc = "idle"
BY DEF Idle, Worker, Pcs, NoReport, Reports

LEMMA ReclaimedType ==
    ASSUME TypeOK, NEW d \in Deliveries PROVE Reclaimed(d) \in Job
<1>1. job[d] \in Job
  BY DEF TypeOK
<1> QED BY <1>1 DEF Reclaimed, Job

\* A worker that is replaced by one of the right type.
LEMMA WorkerType ==
    ASSUME TypeOK, NEW w \in Workers, NEW x \in Worker,
           x.pc # "idle" => x.job \in Deliveries,
           worker' = [worker EXCEPT ![w] = x]
    PROVE  /\ worker' \in [Workers -> Worker]
           /\ \A v \in Workers : worker'[v].pc # "idle" => worker'[v].job \in Deliveries
BY DEF TypeOK

LEMMA OthersTypes ==
    ASSUME TypeOK, NEW d \in Deliveries,
           Deliver(d) \/ MoveProject(d) \/ BecomeDue(d) \/ Lapse(d)
    PROVE  TypeOK'
<1>1. job[d] \in Job
  BY DEF TypeOK
<1>2. CASE Deliver(d)
  <2>1. [job[d] EXCEPT !.status = "queued", !.due = TRUE] \in Job
    BY <1>1 DEF Job
  <2>2. job' \in [Deliveries -> Job]
    BY <2>1, <1>2 DEF Deliver, TypeOK
  <2>3. [delivery[d] EXCEPT !.revision = 1, !.report = Pending] \in
            [revision : Nat, report : Reports, announced : BOOLEAN]
    BY DEF TypeOK, Pending, Reports
  <2>4. delivery' \in [Deliveries -> [revision : Nat, report : Reports, announced : BOOLEAN]]
    BY <2>3, <1>2 DEF Deliver, TypeOK
  <2> QED BY <1>2, <2>2, <2>4 DEF Deliver, TypeOK
<1>3. CASE MoveProject(d)
  BY <1>3 DEF MoveProject, TypeOK
<1>4. CASE BecomeDue(d)
  BY <1>4 DEF BecomeDue, TypeOK, Job
<1>5. CASE Lapse(d)
  <2> DEFINE L == [job[d] EXCEPT !.lapsed = TRUE, !.lapses = job[d].lapses + 1]
  <2>1. L \in Job
    <3>1. job[d].lapses + 1 \in Nat
      BY <1>1 DEF Job
    <3> QED BY <1>1, <3>1 DEF Job, Terminal
  <2>2. job' = [job EXCEPT ![d] = L]
    BY <1>1, <1>5 DEF Lapse, TypeOK, Job
  <2>3. early' \in Nat
    BY <1>5 DEF Lapse, TypeOK
  <2> HIDE DEF L
  <2>4. job' \in [Deliveries -> Job]
    BY <2>1, <2>2 DEF TypeOK
  <2> QED BY <2>3, <2>4, <1>5 DEF Lapse, TypeOK
<1> QED BY <1>2, <1>3, <1>4, <1>5

LEMMA WorkerTypes ==
    ASSUME TypeOK, NEW w \in Workers, WorkerStep(w)
    PROVE  TypeOK'
<1> DEFINE W == worker[w]
<1>0. W \in Worker
  BY DEF TypeOK
<1>1. CASE \E d \in Deliveries : Claim(w, d)
  <2>1. PICK d \in Deliveries : Claim(w, d)
    BY <1>1
  <2>2. Reclaimed(d) \in Job
    BY ReclaimedType
  <2>3. Reclaimed(d).attempts + 1 \in Nat
    BY <2>2 DEF Job
  <2> DEFINE C == [Reclaimed(d) EXCEPT !.status = "running", !.lapsed = FALSE,
                                       !.attempts = Reclaimed(d).attempts + 1]
  <2>4. C \in Job
    BY <2>2, <2>3 DEF Job, Terminal
  <2>5. job' \in [Deliveries -> Job]
    BY <2>1, <2>4, ReclaimedType DEF Claim
  <2> DEFINE X == [Idle EXCEPT !.pc = "loading", !.job = d,
                               !.attempt = Reclaimed(d).attempts + 1]
  <2>7. X \in Worker /\ X.job \in Deliveries
    BY <2>3 DEF Idle, Worker, Pcs, NoReport, Reports
  <2>8. worker' = [worker EXCEPT ![w] = X]
    BY <2>1 DEF Claim
  <2> HIDE DEF X
  <2> QED BY <2>1, <2>5, <2>7, <2>8, WorkerType DEF Claim, TypeOK
<1>2. CASE Load(w)
  <2> DEFINE X == [W EXCEPT !.pc = "composing", !.revision = delivery[W.job].revision,
                            !.report = delivery[W.job].report]
  <2>1. W.job \in Deliveries
    BY <1>2 DEF Load, TypeOK
  <2>2. delivery[W.job].revision \in Nat /\ delivery[W.job].report \in Reports
    BY <2>1 DEF TypeOK
  <2>3. X \in Worker /\ X.job \in Deliveries
    BY <1>0, <2>1, <2>2 DEF Worker, Pcs
  <2>4. worker' = [worker EXCEPT ![w] = X]
    BY <1>2 DEF Load, TypeOK
  <2> HIDE DEF X
  <2> QED BY <1>2, <2>3, <2>4, WorkerType DEF Load, TypeOK
<1>3. CASE \E drafted \in BOOLEAN : Persist(w, drafted)
  <2>1. PICK drafted \in BOOLEAN : Persist(w, drafted)
    BY <1>3
  <2>2. Presented(W.report, drafted) \in Reports
    <3>1. W.report \in Reports
      BY <1>0 DEF Worker
    <3> QED BY <3>1 DEF Presented, Reports
  <2>3. W.revision \in Nat /\ W.job \in Deliveries
    BY <1>0, <2>1 DEF Persist, TypeOK, Worker
  <2>4. CASE RowUnchanged(w)
    <3> DEFINE X == [W EXCEPT !.pc = "announcing"]
    <3> DEFINE D == [delivery[W.job] EXCEPT
                        !.revision = W.revision + 1,
                        !.report = Presented(W.report, drafted),
                        !.announced = FALSE]
    <3>0. W.revision + 1 \in Nat
      BY <2>3
    <3>1. D \in [revision : Nat, report : Reports, announced : BOOLEAN]
      BY <2>2, <2>3, <3>0 DEF TypeOK
    <3>2. delivery' \in [Deliveries -> [revision : Nat, report : Reports, announced : BOOLEAN]]
      BY <2>1, <2>4, <3>1 DEF Persist, TypeOK
    <3>3. X \in Worker /\ X.job \in Deliveries
      BY <1>0, <2>3 DEF Worker, Pcs
    <3>4. worker' = [worker EXCEPT ![w] = X]
      BY <2>1, <2>4 DEF Persist, TypeOK
    <3> HIDE DEF X, D
    <3> QED BY <2>1, <2>4, <3>2, <3>3, <3>4, WorkerType DEF Persist, TypeOK
  <2>5. CASE ~RowUnchanged(w)
    <3>1. AfterWrite(w) \in Worker /\ (AfterWrite(w).pc # "idle" => AfterWrite(w).job \in Deliveries)
      BY <1>0, <2>3, IdleType DEF AfterWrite, Worker, Pcs
    <3>2. worker' = [worker EXCEPT ![w] = AfterWrite(w)]
      BY <2>1, <2>5 DEF Persist
    <3>3. cut' \in SUBSET Deliveries
      BY <2>1, <2>3, <2>5 DEF Persist, TypeOK
    <3> QED BY <2>1, <2>5, <3>1, <3>2, <3>3, WorkerType DEF Persist, TypeOK
  <2> QED BY <2>4, <2>5
<1>4. CASE Announce(w)
  <2>1. W.job \in Deliveries
    BY <1>4 DEF Announce, TypeOK
  <2>2. AfterWrite(w) \in Worker /\ (AfterWrite(w).pc # "idle" => AfterWrite(w).job \in Deliveries)
    BY <1>0, <2>1, IdleType DEF AfterWrite, Worker, Pcs
  <2> QED BY <1>4, <2>2, WorkerType DEF Announce, TypeOK
<1>5. CASE MarkSucceeded(w) \/ Reschedule(w)
  <2>1. W.job \in Deliveries
    BY <1>5 DEF MarkSucceeded, Reschedule, TypeOK
  <2>2. job[W.job] \in Job
    BY <2>1 DEF TypeOK
  <2>3. /\ [job[W.job] EXCEPT !.status = "succeeded", !.lapsed = FALSE] \in Job
        /\ [job[W.job] EXCEPT !.status = "queued", !.lapsed = FALSE, !.due = FALSE] \in Job
    BY <2>2 DEF Job, Terminal
  <2>4. job' \in [Deliveries -> Job]
    BY <1>5, <2>3 DEF MarkSucceeded, Reschedule, TypeOK
  <2> QED BY <1>5, <2>4, IdleType, WorkerType DEF MarkSucceeded, Reschedule, TypeOK
<1>6. CASE MarkFailed(w)
  <2> DEFINE X == [W EXCEPT !.pc = "loading", !.rescue = TRUE]
  <2>1. W.job \in Deliveries
    BY <1>6 DEF MarkFailed, TypeOK
  <2>2. job[W.job] \in Job
    BY <2>1 DEF TypeOK
  <2>3. [job[W.job] EXCEPT !.status = "failed", !.lapsed = FALSE] \in Job
    BY <2>2 DEF Job, Terminal
  <2>4. job' \in [Deliveries -> Job]
    BY <1>6, <2>3 DEF MarkFailed, TypeOK
  <2>5. X \in Worker /\ X.job \in Deliveries
    BY <1>0, <2>1 DEF Worker, Pcs
  <2>6. worker' = [worker EXCEPT ![w] = X]
    BY <1>6 DEF MarkFailed, TypeOK
  <2> HIDE DEF X
  <2> QED BY <1>6, <2>4, <2>5, <2>6, WorkerType DEF MarkFailed, TypeOK
<1> QED BY <1>1, <1>2, <1>3, <1>4, <1>5, <1>6 DEF WorkerStep

LEMMA FaultTypes ==
    ASSUME TypeOK, NEW w \in Workers, Throw(w) \/ Crash(w)
    PROVE  TypeOK'
<1> DEFINE W == worker[w]
<1>1. W \in Worker /\ W.job \in Deliveries
  BY DEF Throw, Crash, TypeOK
<1>2. CASE Forgotten(w)
  <2>1. cut' \in SUBSET Deliveries
    BY <1>1, <1>2 DEF Forgotten, TypeOK
  <2> QED BY <1>2, <2>1, IdleType, WorkerType DEF Forgotten, TypeOK, Throw, Crash
<1>3. CASE ~Forgotten(w)
  <2> DEFINE X == [W EXCEPT !.pc = "failing"]
  <2>1. X \in Worker /\ X.job \in Deliveries
    BY <1>1 DEF Worker, Pcs
  <2>2. worker' = [worker EXCEPT ![w] = X]
    BY <1>3 DEF Throw, Crash, TypeOK
  <2> HIDE DEF X
  <2> QED BY <1>3, <2>1, <2>2, WorkerType DEF Throw, Crash, TypeOK
<1> QED BY <1>2, <1>3

\* Jobs, deliveries and workers keep their types, and a worker that is not
\* idle has a job: what it marks at the end is the row of a delivery.
THEOREM TypeCorrect == Spec => []TypeOK
<1>1. Init => TypeOK
  BY InitTypes
<1>2. TypeOK /\ [Next]_vars => TypeOK'
  BY OthersTypes, WorkerTypes, FaultTypes DEF Next, vars, TypeOK
<1> QED BY <1>1, <1>2, PTL DEF Spec

-----------------------------------------------------------------------------
(***************************************************************************)
(* The refinement of DeliveryReport.                                       *)
(***************************************************************************)

\* A delivery has a report as soon as it has a job, and a worker works on a
\* job that there is.
JobsOK ==
    /\ \A d \in Deliveries :
          IF job[d].status = "none" THEN delivery[d].report = NoReport
                                    ELSE delivery[d].report # NoReport
    /\ \A w \in Workers :
          worker[w].pc # "idle" => job[worker[w].job].status # "none"

\* What a worker has loaded is the row as it is, or an older revision of it.
Fresh(W) ==
    /\ W.revision =< delivery[W.job].revision
    /\ W.revision = delivery[W.job].revision => W.report = delivery[W.job].report

SnapshotsOK == \A w \in Workers : worker[w].pc = "composing" => Fresh(worker[w])

IInv == TypeOK /\ JobsOK /\ SnapshotsOK

LEMMA InitInv == Init => IInv
BY InitTypes, IdleType DEF Init, IInv, JobsOK, SnapshotsOK, NoJob

\* Every step keeps what TypeCorrect and IInv say of types.
LEMMA StepTypes == TypeOK /\ [Next]_vars => TypeOK'
BY OthersTypes, WorkerTypes, FaultTypes DEF Next, vars, TypeOK

LEMMA OthersKeep ==
    ASSUME IInv, NEW d \in Deliveries,
           Deliver(d) \/ MoveProject(d) \/ BecomeDue(d) \/ Lapse(d)
    PROVE  JobsOK' /\ SnapshotsOK'
<1>1. worker' = worker /\ TypeOK
  BY DEF Deliver, MoveProject, BecomeDue, Lapse, IInv
<1>2. CASE Deliver(d)
  <2>1. /\ job'[d].status # "none"
        /\ delivery'[d].report # NoReport
        /\ \A e \in Deliveries \ {d} : job'[e] = job[e] /\ delivery'[e] = delivery[e]
    BY <1>1, <1>2 DEF Deliver, TypeOK, Pending, NoReport, Job
  <2>2. \A w \in Workers : worker[w].pc # "idle" =>
            worker[w].job # d /\ worker[w].job \in Deliveries
    BY <1>1, <1>2 DEF Deliver, IInv, JobsOK, TypeOK
  <2>3. JobsOK'
    BY <1>1, <2>1, <2>2 DEF IInv, JobsOK
  <2>4. SnapshotsOK'
    BY <1>1, <2>1, <2>2 DEF IInv, SnapshotsOK, Fresh
  <2> QED BY <2>3, <2>4
<1>3. CASE MoveProject(d)
  <2>1. /\ job' = job
        /\ \A e \in Deliveries : /\ delivery'[e].report = delivery[e].report
                                 /\ delivery'[e].revision \in {delivery[e].revision,
                                                               delivery[e].revision + 1}
                                 /\ delivery[e].revision \in Nat
    BY <1>1, <1>3 DEF MoveProject, TypeOK
  <2>2. JobsOK'
    BY <1>1, <2>1 DEF IInv, JobsOK, TypeOK
  <2>3. ASSUME NEW w \in Workers, worker[w].pc = "composing" PROVE Fresh(worker[w])'
    <3>1. worker[w].job \in Deliveries /\ worker[w].revision \in Nat
      BY <1>1, <2>3 DEF TypeOK, Worker
    <3>2. Fresh(worker[w])
      BY <2>3 DEF IInv, SnapshotsOK
    <3> QED BY <1>1, <2>1, <3>1, <3>2 DEF Fresh
  <2> QED BY <1>1, <2>2, <2>3 DEF SnapshotsOK
<1>4. CASE BecomeDue(d) \/ Lapse(d)
  <2>1. /\ delivery' = delivery
        /\ \A e \in Deliveries : job'[e].status = job[e].status
    <3>1. CASE BecomeDue(d)
      BY <1>1, <3>1 DEF BecomeDue, TypeOK, Job
    <3>2. CASE Lapse(d)
      <4> DEFINE L == [job[d] EXCEPT !.lapsed = TRUE, !.lapses = job[d].lapses + 1]
      <4>1. L.status = job[d].status
        BY <1>1 DEF TypeOK, Job
      <4>2. job' = [job EXCEPT ![d] = L] /\ delivery' = delivery
        BY <1>1, <3>2 DEF Lapse, TypeOK, Job
      <4> HIDE DEF L
      <4> QED BY <1>1, <4>1, <4>2 DEF TypeOK
    <3> QED BY <1>4, <3>1, <3>2
  <2>2. JobsOK'
    BY <1>1, <2>1 DEF IInv, JobsOK, TypeOK
  <2>3. SnapshotsOK'
    BY <1>1, <2>1 DEF IInv, SnapshotsOK, Fresh
  <2> QED BY <2>2, <2>3
<1> QED BY <1>2, <1>3, <1>4

\* A step of worker w that leaves the deliveries alone, ends no job's being
\* there, and leaves w idle or on a job that there is.
LEMMA KeepsByWorker ==
    ASSUME IInv, NEW w \in Workers,
           delivery' = delivery,
           \A e \in Deliveries : (job'[e].status = "none") <=> (job[e].status = "none"),
           NEW x, worker' = [worker EXCEPT ![w] = x],
           x.pc # "idle" => x.job \in Deliveries /\ job[x.job].status # "none",
           x.pc = "composing" => Fresh(x)
    PROVE  JobsOK' /\ SnapshotsOK'
<1>1. TypeOK
  BY DEF IInv
<1>2. ASSUME NEW v \in Workers
      PROVE  /\ worker'[v].pc # "idle" => job'[worker'[v].job].status # "none"
             /\ worker'[v].pc = "composing" => Fresh(worker'[v])
  <2>1. CASE v = w
    BY <1>1, <2>1 DEF TypeOK
  <2>2. CASE v # w
    BY <1>1, <2>2 DEF TypeOK, IInv, JobsOK, SnapshotsOK
  <2> QED BY <2>1, <2>2
<1>3. JobsOK'
  BY <1>2 DEF IInv, JobsOK
<1>4. \A v \in Workers : Fresh(worker'[v]) => Fresh(worker[v])'
  BY DEF Fresh
<1> QED BY <1>2, <1>3, <1>4 DEF SnapshotsOK

\* Marks, reschedules and claims change the status of one job, and not to none.
LEMMA WorkerKeeps ==
    ASSUME IInv, NEW w \in Workers, WorkerStep(w) \/ Throw(w) \/ Crash(w)
    PROVE  JobsOK' /\ SnapshotsOK'
<1> DEFINE W == worker[w]
<1>0. TypeOK /\ W \in Worker /\ (W.pc # "idle" => W.job \in Deliveries /\ job[W.job].status # "none")
  BY DEF IInv, TypeOK, JobsOK
<1>1. CASE \E d \in Deliveries : Claim(w, d)
  <2>1. PICK d \in Deliveries : Claim(w, d)
    BY <1>1
  <2> DEFINE X == [Idle EXCEPT !.pc = "loading", !.job = d,
                               !.attempt = Reclaimed(d).attempts + 1]
  <2>2. \A e \in Deliveries :
            /\ Reclaimed(e) \in Job
            /\ (Reclaimed(e).status = "none") <=> (job[e].status = "none")
    <3> TAKE e \in Deliveries
    <3>1. job[e] \in Job
      BY <1>0 DEF TypeOK
    <3> QED BY <3>1, <1>0, ReclaimedType DEF Reclaimed, Reclaimable, Job
  <2>3. \A e \in Deliveries : (job'[e].status = "none") <=> (job[e].status = "none")
    BY <2>1, <2>2 DEF Claim, Job
  <2>4. job[d].status # "none"
    BY <2>1, <2>2 DEF Claim
  <2>5. X.pc = "loading" /\ X.job = d
    BY DEF Idle
  <2>6. worker' = [worker EXCEPT ![w] = X] /\ delivery' = delivery
    BY <2>1 DEF Claim
  <2> HIDE DEF X
  <2> QED BY <2>3, <2>4, <2>5, <2>6, KeepsByWorker
<1>2. CASE Load(w)
  <2> DEFINE X == [W EXCEPT !.pc = "composing", !.revision = delivery[W.job].revision,
                            !.report = delivery[W.job].report]
  <2>1. delivery[W.job].revision \in Nat /\ W.pc # "idle"
    BY <1>0, <1>2 DEF Load, TypeOK
  <2>2. Fresh(X) /\ X.job = W.job
    BY <1>0, <2>1 DEF Fresh, Worker
  <2>3. worker' = [worker EXCEPT ![w] = X] /\ delivery' = delivery /\ job' = job
    BY <1>0, <1>2 DEF Load, TypeOK
  <2> HIDE DEF X
  <2> QED BY <1>0, <2>1, <2>2, <2>3, KeepsByWorker
<1>3. CASE \E drafted \in BOOLEAN : Persist(w, drafted)
  <2>1. PICK drafted \in BOOLEAN : Persist(w, drafted)
    BY <1>3
  <2>2. CASE RowUnchanged(w)
    <3> DEFINE d == W.job
    <3>1. /\ job' = job /\ d \in Deliveries /\ W.pc = "composing"
          /\ worker' = [worker EXCEPT ![w].pc = "announcing"]
          /\ delivery'[d].report = Presented(W.report, drafted)
          /\ delivery'[d].revision = delivery[d].revision + 1
          /\ \A e \in Deliveries \ {d} : delivery'[e] = delivery[e]
      BY <1>0, <2>1, <2>2 DEF Persist, RowUnchanged, TypeOK
    <3>2. Presented(W.report, drafted).status \in {"composed", "fallback"}
      BY <1>0 DEF Presented, Worker, Reports
    <3>3. \A v \in Workers : /\ worker'[v].job = worker[v].job
                             /\ worker'[v].revision = worker[v].revision
                             /\ worker'[v].report = worker[v].report
                             /\ worker'[v].pc = "idle" <=> worker[v].pc = "idle"
                             /\ worker'[v].pc = "composing" => worker[v].pc = "composing"
      BY <1>0, <3>1 DEF TypeOK, Worker
    <3>4. JobsOK'
      <4>1. delivery'[d].report # NoReport
        BY <3>1, <3>2 DEF NoReport
      <4> QED BY <1>0, <3>1, <3>3, <4>1 DEF IInv, JobsOK
    <3>5. ASSUME NEW v \in Workers, worker'[v].pc = "composing"
          PROVE  Fresh(worker[v])'
      <4>1. /\ worker[v].pc = "composing" /\ Fresh(worker[v])
            /\ worker[v].job \in Deliveries /\ worker[v].revision \in Nat
        BY <1>0, <3>3, <3>5 DEF IInv, SnapshotsOK, TypeOK, Worker
      <4>2. CASE worker[v].job = d
        <5>1. delivery[d].revision \in Nat
          BY <1>0, <3>1 DEF TypeOK
        <5> QED BY <3>1, <3>3, <4>1, <4>2, <5>1 DEF Fresh
      <4>3. CASE worker[v].job # d
        BY <3>1, <3>3, <4>1, <4>3 DEF Fresh
      <4> QED BY <4>2, <4>3
    <3> QED BY <3>4, <3>5 DEF SnapshotsOK
  <2>3. CASE ~RowUnchanged(w)
    <3>1. /\ job' = job /\ delivery' = delivery /\ W.pc = "composing"
          /\ worker' = [worker EXCEPT ![w] = AfterWrite(w)]
      BY <2>1, <2>3 DEF Persist
    <3>2. /\ AfterWrite(w).pc # "composing"
          /\ AfterWrite(w).pc # "idle" => AfterWrite(w).job = W.job
      BY <1>0, IdleType DEF AfterWrite, Worker
    <3> QED BY <1>0, <3>1, <3>2, KeepsByWorker
  <2> QED BY <2>2, <2>3
<1>4. CASE Announce(w)
  <2>1. /\ job' = job /\ W.pc = "announcing"
        /\ worker' = [worker EXCEPT ![w] = AfterWrite(w)]
        /\ \A e \in Deliveries : /\ delivery'[e].report = delivery[e].report
                                 /\ delivery'[e].revision = delivery[e].revision
    BY <1>0, <1>4 DEF Announce, TypeOK
  <2>2. /\ AfterWrite(w).pc # "composing"
        /\ AfterWrite(w).pc # "idle" => AfterWrite(w).job = W.job
    BY <1>0, IdleType DEF AfterWrite, Worker
  <2>3. ASSUME NEW v \in Workers
        PROVE  /\ worker'[v].pc # "idle" =>
                      worker'[v].job \in Deliveries /\ job[worker'[v].job].status # "none"
               /\ worker'[v].pc = "composing" =>
                      /\ v # w
                      /\ worker'[v] = worker[v]
    BY <1>0, <2>1, <2>2 DEF TypeOK, IInv, JobsOK
  <2>4. JobsOK'
    BY <2>1, <2>3 DEF IInv, JobsOK
  <2>5. ASSUME NEW v \in Workers, worker'[v].pc = "composing" PROVE Fresh(worker[v])'
    BY <1>0, <2>1, <2>3, <2>5 DEF IInv, SnapshotsOK, Fresh, TypeOK
  <2> QED BY <2>4, <2>5 DEF SnapshotsOK
<1>5. CASE MarkSucceeded(w) \/ Reschedule(w)
  <2>1. /\ delivery' = delivery /\ worker' = [worker EXCEPT ![w] = Idle]
        /\ W.job \in Deliveries /\ job[W.job].status # "none"
        /\ \A e \in Deliveries \ {W.job} : job'[e] = job[e]
        /\ job'[W.job].status # "none"
    BY <1>0, <1>5 DEF MarkSucceeded, Reschedule, TypeOK, Job
  <2> QED BY <2>1, IdleType, KeepsByWorker
<1>6. CASE MarkFailed(w)
  <2> DEFINE X == [W EXCEPT !.pc = "loading", !.rescue = TRUE]
  <2>1. /\ delivery' = delivery /\ worker' = [worker EXCEPT ![w] = X]
        /\ W.job \in Deliveries /\ job[W.job].status # "none"
        /\ \A e \in Deliveries \ {W.job} : job'[e] = job[e]
        /\ job'[W.job].status # "none"
    BY <1>0, <1>6 DEF MarkFailed, TypeOK, Job
  <2>2. X.pc = "loading" /\ X.job = W.job
    BY <1>0 DEF Worker
  <2> HIDE DEF X
  <2> QED BY <2>1, <2>2, KeepsByWorker
<1>7. CASE Throw(w) \/ Crash(w)
  <2> DEFINE X == [W EXCEPT !.pc = "failing"]
  <2>1. delivery' = delivery /\ job' = job /\ W.pc # "idle"
    BY <1>7 DEF Throw, Crash
  <2>2. X.pc = "failing" /\ X.job = W.job
    BY <1>0 DEF Worker
  <2>3. \/ worker' = [worker EXCEPT ![w] = X]
        \/ worker' = [worker EXCEPT ![w] = Idle]
    BY <1>7, <1>0 DEF Throw, Crash, Forgotten, TypeOK
  <2> HIDE DEF X
  <2> QED BY <1>0, <2>1, <2>2, <2>3, IdleType, KeepsByWorker
<1> QED BY <1>1, <1>2, <1>3, <1>4, <1>5, <1>6, <1>7 DEF WorkerStep

LEMMA StepKeeps == IInv /\ [Next]_vars => IInv'
<1>1. ASSUME IInv, Next PROVE JobsOK' /\ SnapshotsOK'
  BY <1>1, OthersKeep, WorkerKeeps DEF Next
<1>2. ASSUME IInv, UNCHANGED vars PROVE JobsOK' /\ SnapshotsOK'
  BY <1>2 DEF vars, IInv, JobsOK, SnapshotsOK, Fresh
<1> QED BY <1>1, <1>2, StepTypes DEF IInv

\* The report of every delivery but the one a step writes stays as it is.
LEMMA StepIsReportStep ==
    ASSUME IInv, Next
    PROVE  Report!Next \/ UNCHANGED [d \in Deliveries |-> delivery[d].report]
<1> DEFINE rep == [d \in Deliveries |-> delivery[d].report]
<1>0. TypeOK
  BY DEF IInv
<1>1. ASSUME NEW d \in Deliveries, Deliver(d) PROVE Report!Deliver(d)
  <2>1. rep[d] = NoReport
    BY <1>1 DEF IInv, JobsOK, Deliver
  <2>2. rep' = [rep EXCEPT ![d] = Pending]
    BY <1>0, <1>1 DEF Deliver, TypeOK
  <2> QED BY <2>1, <2>2 DEF Report!Deliver, Report!NoReport, Report!Pending, NoReport, Pending
<1>2. ASSUME NEW w \in Workers, NEW drafted \in BOOLEAN, Persist(w, drafted), RowUnchanged(w)
      PROVE  Report!Next
  <2>0. PICK d \in Deliveries : d = worker[w].job
    BY <1>0, <1>2 DEF Persist, TypeOK
  <2>1. /\ worker[w].pc = "composing" /\ rep[d] # NoReport
        /\ delivery' = [delivery EXCEPT
                           ![d].revision = worker[w].revision + 1,
                           ![d].report = Presented(worker[w].report, drafted),
                           ![d].announced = FALSE]
    BY <1>0, <1>2, <2>0 DEF Persist, TypeOK, IInv, JobsOK
  <2>2. worker[w].report = rep[d]
    BY <1>2, <2>0, <2>1 DEF IInv, SnapshotsOK, Fresh, RowUnchanged
  <2>3. rep' = [rep EXCEPT ![d] = Presented(rep[d], drafted)]
    BY <1>0, <2>1, <2>2 DEF TypeOK
  <2>4. CASE drafted
    <3>1. rep' = [rep EXCEPT ![d] = Report!Composed]
      BY <2>3, <2>4 DEF Presented, Report!Composed
    <3>2. Report!Compose(d)
      BY <2>1, <3>1 DEF Report!Compose, Report!NoReport, NoReport
    <3> QED BY <2>1, <3>2 DEF Report!Next
  <2>5. CASE ~drafted
    <3>1. rep' = [rep EXCEPT ![d].status = "fallback"]
      BY <2>3, <2>5 DEF Presented
    <3>2. Report!FallBack(d)
      BY <2>1, <3>1 DEF Report!FallBack, Report!NoReport, NoReport
    <3> QED BY <2>1, <3>2 DEF Report!Next
  <2> QED BY <2>4, <2>5
<1>3. ASSUME NEW d \in Deliveries, MoveProject(d) \/ BecomeDue(d) \/ Lapse(d)
      PROVE  UNCHANGED rep
  BY <1>0, <1>3 DEF MoveProject, BecomeDue, Lapse, TypeOK
<1>4. ASSUME NEW w \in Workers, WorkerStep(w) \/ Throw(w) \/ Crash(w),
             ~\E drafted \in BOOLEAN : Persist(w, drafted) /\ RowUnchanged(w)
      PROVE  UNCHANGED rep
  <2>1. CASE Announce(w)
    BY <1>0, <2>1 DEF Announce, TypeOK
  <2>2. CASE ~Announce(w)
    <3>1. delivery' = delivery
      BY <1>4, <2>2 DEF WorkerStep, Claim, Load, Persist, MarkSucceeded, Reschedule,
                        MarkFailed, Throw, Crash
    <3> QED BY <3>1
  <2> QED BY <2>1, <2>2
<1> QED BY <1>1, <1>2, <1>3, <1>4 DEF Next, Report!Next

\* For any number of workers, retries and overtaking writers, what a user sees
\* of a delivery changes as DeliveryReport says: the model's words are never
\* replaced by the agent's, and no report is pending twice.
THEOREM ReportImplemented == Spec => ImplementsReport
<1>1. Init => Report!Init
  BY DEF Init, Report!Init, Report!NoReport, NoReport
<1>2. IInv /\ [Next]_vars => IInv'
  BY StepKeeps
<1>3. IInv /\ [Next]_vars =>
          [Report!Next]_([d \in Deliveries |-> delivery[d].report])
  BY StepIsReportStep DEF vars
<1> QED BY <1>1, <1>2, <1>3, InitInv, PTL DEF Spec, ImplementsReport, Report!Spec

-----------------------------------------------------------------------------
(***************************************************************************)
(* The workers of one job.                                                 *)
(***************************************************************************)

\* A job that the next claim will find.
Waiting(j) == \/ j.status = "queued"
              \/ j.status = "running" /\ j.lapsed

\* What is on a job, or waits to get on it, has been let in by the insert or by
\* a lapse.
Admits(j, S) ==
    /\ IsFiniteSet(S)
    /\ Waiting(j) => Cardinality(S) =< j.lapses
    /\ Cardinality(S) =< 1 + j.lapses

AdmittedOK ==
    /\ \A w \in Workers : worker[w].pc = "idle" => worker[w].job = None
    /\ \A d \in Deliveries : Admits(job[d], WorkersOn(d))

JInv == IInv /\ AdmittedOK

\* The worker of one job is idle again.
LEMMA Leaves ==
    ASSUME NEW j \in Job, NEW k \in Job, NEW S, NEW w \in S, Admits(j, S),
           k.lapses = j.lapses
    PROVE  Admits(k, S \ {w})
<1>1. /\ IsFiniteSet(S \ {w})
      /\ Cardinality(S \ {w}) = Cardinality(S) - 1
      /\ Cardinality(S) \in Nat
  BY FS_RemoveElement, FS_CardinalityType DEF Admits
<1> QED BY <1>1 DEF Admits, Job

\* A worker gets on a job that waits for one.
LEMMA Enters ==
    ASSUME NEW j \in Job, NEW k \in Job, NEW S, NEW w, w \notin S, Admits(j, S),
           Waiting(j), ~Waiting(k), k.lapses = j.lapses
    PROVE  Admits(k, S \cup {w})
<1>1. /\ IsFiniteSet(S \cup {w})
      /\ Cardinality(S \cup {w}) = Cardinality(S) + 1
      /\ Cardinality(S) \in Nat
  BY FS_AddElement, FS_CardinalityType DEF Admits
<1> QED BY <1>1 DEF Admits, Job

LEMMA InitAdmits == Init => AdmittedOK
<1> SUFFICES ASSUME Init PROVE AdmittedOK
  OBVIOUS
<1>1. \A d \in Deliveries : WorkersOn(d) = {}
  BY ComposeConstants DEF Init, WorkersOn, Idle
<1>2. \A d \in Deliveries : Admits(NoJob, {})
  BY FS_EmptySet DEF Admits, NoJob, Waiting
<1> QED BY <1>1, <1>2 DEF Init, AdmittedOK, Idle

LEMMA OthersAdmit ==
    ASSUME JInv, NEW d \in Deliveries,
           Deliver(d) \/ MoveProject(d) \/ BecomeDue(d) \/ Lapse(d)
    PROVE  AdmittedOK'
<1>1. /\ worker' = worker /\ TypeOK /\ job[d] \in Job
      /\ \A e \in Deliveries : WorkersOn(e)' = WorkersOn(e)
      /\ \A e \in Deliveries \ {d} : job'[e] = job[e]
      /\ Admits(job[d], WorkersOn(d))
  BY DEF Deliver, MoveProject, BecomeDue, Lapse, JInv, IInv, AdmittedOK, TypeOK, WorkersOn
<1>2. Cardinality(WorkersOn(d)) \in Nat
  BY <1>1, FS_CardinalityType DEF Admits
<1>3. Admits(job'[d], WorkersOn(d))
  <2>1. CASE Deliver(d)
    <3>1. \A w \in Workers : worker[w].job # d
      BY <2>1, ComposeConstants DEF JInv, IInv, JobsOK, AdmittedOK, Deliver
    <3>2. WorkersOn(d) = {} /\ Cardinality({}) = 0
      BY <3>1, FS_EmptySet DEF WorkersOn
    <3>3. job'[d].lapses \in Nat
      BY <1>1, <2>1 DEF Deliver, TypeOK, Job
    <3> QED BY <1>1, <3>2, <3>3 DEF Admits
  <2>2. CASE MoveProject(d)
    BY <1>1, <2>2 DEF MoveProject
  <2>3. CASE BecomeDue(d)
    <3>1. /\ job'[d].status = job[d].status /\ job'[d].lapsed = job[d].lapsed
          /\ job'[d].lapses = job[d].lapses
      BY <1>1, <2>3 DEF BecomeDue, TypeOK, Job
    <3> QED BY <1>1, <3>1 DEF Admits, Waiting
  <2>4. CASE Lapse(d)
    <3>1. job'[d].lapses = job[d].lapses + 1 /\ job[d].lapses \in Nat
      BY <1>1, <2>4 DEF Lapse, TypeOK, Job
    <3> QED BY <1>1, <1>2, <3>1 DEF Admits
  <2> QED BY <2>1, <2>2, <2>3, <2>4
<1> QED BY <1>1, <1>3 DEF JInv, AdmittedOK

\* A worker step that leaves every job's lapses and every other job alone, and
\* with which the worker stays on its job, or goes.
LEMMA AdmitsByWorker ==
    ASSUME JInv, NEW w \in Workers, worker[w].pc # "idle",
           NEW k \in Job, k.lapses = job[worker[w].job].lapses,
           \A e \in Deliveries : job'[e] = IF e = worker[w].job THEN k ELSE job[e],
           NEW x, worker' = [worker EXCEPT ![w] = x],
           \/ x = Idle
           \/ /\ x.pc # "idle" /\ x.job = worker[w].job
              /\ Waiting(k) => Waiting(job[worker[w].job])
    PROVE  AdmittedOK'
<1>0. PICK d \in Deliveries : d = worker[w].job
  BY DEF JInv, IInv, TypeOK
<1>1. /\ TypeOK /\ job[d] \in Job
      /\ w \in WorkersOn(d)
      /\ \A e \in Deliveries : Admits(job[e], WorkersOn(e))
      /\ \A e \in Deliveries : job'[e] = IF e = d THEN k ELSE job[e]
  BY <1>0 DEF JInv, IInv, TypeOK, AdmittedOK, WorkersOn
<1>2. \A v \in Workers : worker'[v] = IF v = w THEN x ELSE worker[v]
  BY <1>1 DEF TypeOK
<1>3. \A v \in Workers : worker'[v].pc = "idle" => worker'[v].job = None
  BY <1>2 DEF JInv, AdmittedOK, Idle
<1>4. \A e \in Deliveries \ {d} : WorkersOn(e)' = WorkersOn(e)
  <2> TAKE e \in Deliveries \ {d}
  <2>1. x.job # e
    BY <1>0, ComposeConstants DEF Idle
  <2> QED BY <1>0, <1>1, <1>2, <2>1 DEF WorkersOn
<1>5. Admits(job'[d], WorkersOn(d)')
  <2>1. job'[d] = k
    BY <1>1
  <2>2. CASE x = Idle
    <3>1. x.job # d
      BY <2>2, ComposeConstants DEF Idle
    <3>2. WorkersOn(d)' = WorkersOn(d) \ {w}
      BY <1>1, <1>2, <3>1 DEF WorkersOn
    <3>3. Admits(k, WorkersOn(d) \ {w})
      BY <1>0, <1>1, Leaves
    <3> QED BY <2>1, <3>2, <3>3
  <2>3. CASE x # Idle
    <3>1. WorkersOn(d)' = WorkersOn(d)
      BY <1>0, <1>1, <1>2, <2>3 DEF WorkersOn
    <3>2. Admits(k, WorkersOn(d))
      BY <1>0, <1>1, <2>3 DEF Admits
    <3> QED BY <2>1, <3>1, <3>2
  <2> QED BY <2>2, <2>3
<1>6. \A e \in Deliveries : Admits(job'[e], WorkersOn(e)')
  BY <1>1, <1>4, <1>5
<1>7. \A e \in Deliveries : Admits(job[e], WorkersOn(e))' = Admits(job'[e], WorkersOn(e)')
  BY DEF Admits, Waiting
<1> QED BY <1>3, <1>6, <1>7 DEF AdmittedOK

LEMMA ClaimAdmits ==
    ASSUME JInv, NEW w \in Workers, NEW d \in Deliveries, Claim(w, d)
    PROVE  AdmittedOK'
<1> DEFINE X == [Idle EXCEPT !.pc = "loading", !.job = d,
                             !.attempt = Reclaimed(d).attempts + 1]
<1>1. /\ TypeOK /\ worker[w].job = None
      /\ \A e \in Deliveries : job[e] \in Job /\ Admits(job[e], WorkersOn(e))
  BY DEF JInv, IInv, TypeOK, AdmittedOK, Claim
<1>2. worker' = [worker EXCEPT ![w] = X]
  BY DEF Claim
<1>3. X.pc = "loading" /\ X.job = d
  BY DEF Idle
<1> HIDE DEF X
<1>4. \A v \in Workers : worker'[v] = IF v = w THEN X ELSE worker[v]
  BY <1>1, <1>2 DEF TypeOK
<1>5. \A e \in Deliveries : /\ Reclaimed(e) \in Job
                            /\ Reclaimed(e).lapses = job[e].lapses
                            /\ Waiting(Reclaimed(e)) => Waiting(job[e])
  <2> TAKE e \in Deliveries
  <2>1. job[e] \in Job
    BY <1>1
  <2> QED BY <2>1, <1>1, ReclaimedType DEF Reclaimed, Reclaimable, Waiting, Job
<1>6. \A e \in Deliveries \ {d} : Admits(job'[e], WorkersOn(e)')
  <2> TAKE e \in Deliveries \ {d}
  <2>1. WorkersOn(e)' = WorkersOn(e)
    BY <1>1, <1>3, <1>4, ComposeConstants DEF WorkersOn
  <2>2. job'[e] = Reclaimed(e)
    BY DEF Claim
  <2>3. Admits(job[e], WorkersOn(e))
    BY <1>1
  <2> QED BY <1>5, <2>1, <2>2, <2>3 DEF Admits
<1>7. Admits(job'[d], WorkersOn(d)')
  <2> DEFINE K == [Reclaimed(d) EXCEPT !.status = "running", !.lapsed = FALSE,
                                       !.attempts = Reclaimed(d).attempts + 1]
  <2>0. Reclaimed(d).attempts + 1 \in Nat
    BY <1>5 DEF Job
  <2>1. K \in Job /\ ~Waiting(K) /\ K.lapses = job[d].lapses
    BY <1>5, <2>0 DEF Job, Terminal, Waiting
  <2>2. job'[d] = K
    <3>1. Reclaimed(d) \in Job
      BY <1>5
    <3>2. job'[d] = [Reclaimed(d) EXCEPT !.status = "running", !.lapsed = FALSE,
                                         !.attempts = @ + 1]
      BY DEF Claim
    <3> QED BY <3>1, <3>2 DEF Job
  <2>3. Waiting(job[d])
    <3>1. Reclaimed(d).status = "queued"
      BY DEF Claim
    <3>2. Waiting(Reclaimed(d))
      BY <3>1 DEF Waiting
    <3> QED BY <1>5, <3>2
  <2>4. w \notin WorkersOn(d)
    BY <1>1, ComposeConstants DEF WorkersOn
  <2>5. WorkersOn(d)' = WorkersOn(d) \cup {w}
    BY <1>3, <1>4 DEF WorkersOn
  <2> HIDE DEF K
  <2>6. Admits(K, WorkersOn(d) \cup {w})
    BY <1>1, <2>1, <2>3, <2>4, Enters
  <2> QED BY <2>2, <2>5, <2>6
<1>8. \A v \in Workers : worker'[v].pc = "idle" => worker'[v].job = None
  BY <1>3, <1>4 DEF JInv, AdmittedOK
<1>9. \A e \in Deliveries : Admits(job[e], WorkersOn(e))' = Admits(job'[e], WorkersOn(e)')
  BY DEF Admits, Waiting
<1> QED BY <1>6, <1>7, <1>8, <1>9 DEF AdmittedOK

LEMMA WorkerAdmits ==
    ASSUME JInv, NEW w \in Workers, WorkerStep(w) \/ Throw(w) \/ Crash(w)
    PROVE  AdmittedOK'
<1> DEFINE W == worker[w]
<1>0. TypeOK /\ W \in Worker
  BY DEF JInv, IInv, TypeOK
<1>1. CASE \E d \in Deliveries : Claim(w, d)
  BY <1>1, ClaimAdmits
<1>2. CASE ~\E d \in Deliveries : Claim(w, d)
  <2>0. W.pc # "idle" /\ W.job \in Deliveries /\ job[W.job] \in Job
    BY <1>0, <1>2 DEF WorkerStep, Load, Persist, Announce, MarkSucceeded, Reschedule,
                      MarkFailed, Throw, Crash, TypeOK
  <2>1. CASE Load(w)
    <3> DEFINE X == [W EXCEPT !.pc = "composing", !.revision = delivery[W.job].revision,
                              !.report = delivery[W.job].report]
    <3>1. worker' = [worker EXCEPT ![w] = X] /\ job' = job
      BY <1>0, <2>1 DEF Load, TypeOK
    <3>2. X.pc # "idle" /\ X.job = W.job
      BY <1>0 DEF Worker
    <3> HIDE DEF X
    <3> QED BY <2>0, <3>1, <3>2, AdmitsByWorker
  <2>2. CASE (\E drafted \in BOOLEAN : Persist(w, drafted)) \/ Announce(w)
    <3> DEFINE X == [W EXCEPT !.pc = "announcing"]
    <3>1. job' = job
      BY <2>2 DEF Persist, Announce
    <3>2. \/ worker' = [worker EXCEPT ![w] = X]
          \/ worker' = [worker EXCEPT ![w] = AfterWrite(w)]
      BY <1>0, <2>2 DEF Persist, Announce, TypeOK
    <3>3. X.pc # "idle" /\ X.job = W.job
      BY <1>0 DEF Worker
    <3>4. \/ AfterWrite(w) = Idle
          \/ AfterWrite(w).pc # "idle" /\ AfterWrite(w).job = W.job
      BY <1>0 DEF AfterWrite, Worker
    <3> HIDE DEF X
    <3> QED BY <2>0, <3>1, <3>2, <3>3, <3>4, AdmitsByWorker
  <2>3. CASE MarkSucceeded(w)
    <3> DEFINE K == [job[W.job] EXCEPT !.status = "succeeded", !.lapsed = FALSE]
    <3>1. K \in Job /\ K.lapses = job[W.job].lapses
      BY <2>0 DEF Job, Terminal
    <3>2. /\ worker' = [worker EXCEPT ![w] = Idle]
          /\ \A e \in Deliveries : job'[e] = IF e = W.job THEN K ELSE job[e]
      BY <1>0, <2>0, <2>3 DEF MarkSucceeded, TypeOK
    <3> HIDE DEF K
    <3> QED BY <2>0, <3>1, <3>2, AdmitsByWorker
  <2>4. CASE Reschedule(w)
    <3> DEFINE K == [job[W.job] EXCEPT !.status = "queued", !.lapsed = FALSE, !.due = FALSE]
    <3>1. K \in Job /\ K.lapses = job[W.job].lapses
      BY <2>0 DEF Job
    <3>2. /\ worker' = [worker EXCEPT ![w] = Idle]
          /\ \A e \in Deliveries : job'[e] = IF e = W.job THEN K ELSE job[e]
      BY <1>0, <2>0, <2>4 DEF Reschedule, TypeOK
    <3> HIDE DEF K
    <3> QED BY <2>0, <3>1, <3>2, AdmitsByWorker
  <2>5. CASE MarkFailed(w)
    <3> DEFINE K == [job[W.job] EXCEPT !.status = "failed", !.lapsed = FALSE]
    <3> DEFINE X == [W EXCEPT !.pc = "loading", !.rescue = TRUE]
    <3>1. K \in Job /\ K.lapses = job[W.job].lapses /\ ~Waiting(K)
      BY <2>0 DEF Job, Terminal, Waiting
    <3>2. /\ worker' = [worker EXCEPT ![w] = X]
          /\ \A e \in Deliveries : job'[e] = IF e = W.job THEN K ELSE job[e]
      BY <1>0, <2>0, <2>5 DEF MarkFailed, TypeOK
    <3>3. X.pc # "idle" /\ X.job = W.job
      BY <1>0 DEF Worker
    <3> HIDE DEF K, X
    <3> QED BY <2>0, <3>1, <3>2, <3>3, AdmitsByWorker
  <2>6. CASE Throw(w) \/ Crash(w)
    <3> DEFINE X == [W EXCEPT !.pc = "failing"]
    <3>1. job' = job
      BY <2>6 DEF Throw, Crash
    <3>2. \/ worker' = [worker EXCEPT ![w] = X]
          \/ worker' = [worker EXCEPT ![w] = Idle]
      BY <1>0, <2>6 DEF Throw, Crash, Forgotten, TypeOK
    <3>3. X.pc # "idle" /\ X.job = W.job
      BY <1>0 DEF Worker
    <3> HIDE DEF X
    <3> QED BY <2>0, <3>1, <3>2, <3>3, AdmitsByWorker
  <2> QED BY <1>2, <2>1, <2>2, <2>3, <2>4, <2>5, <2>6 DEF WorkerStep
<1> QED BY <1>1, <1>2

LEMMA JobStep == JInv /\ [Next]_vars => JInv'
<1>1. ASSUME JInv, Next PROVE AdmittedOK'
  BY <1>1, OthersAdmit, WorkerAdmits DEF Next
<1>2. ASSUME JInv, UNCHANGED vars PROVE AdmittedOK'
  BY <1>2 DEF vars, JInv, AdmittedOK, Admits, Waiting, WorkersOn
<1> QED BY <1>1, <1>2, StepKeeps DEF JInv

\* The workers on one job are never more than its lapses and one, however the
\* late ones end: a final write that names the job by id puts it back in the
\* queue at most once for every claim.
THEOREM WorkersAreAdmitted == Spec => []OneWorkerPerLease
<1>1. Init => JInv
  BY InitInv, InitAdmits DEF JInv
<1>2. JInv /\ [Next]_vars => JInv'
  BY JobStep
<1>3. JInv => OneWorkerPerLease
  BY DEF JInv, AdmittedOK, Admits, OneWorkerPerLease
<1> QED BY <1>1, <1>2, <1>3, PTL DEF Spec

-----------------------------------------------------------------------------
(***************************************************************************)
(* The attempts of one job.                                                *)
(***************************************************************************)

\* The workers that would put their job back in the queue if they failed.
Able(d) == {w \in WorkersOn(d) : worker[w].attempt < MaxAttempts}

\* Of n claims, those that may put the job back.
Counted(n) == IF n < MaxAttempts THEN n ELSE MaxAttempts - 1

\* A claim is owed to the insert, to a lapse, or to a worker that put the job
\* back: the claims there were, the one that waits and those that the workers
\* can still cause are no more than these.
Budget(j, S) ==
    /\ IsFiniteSet(S)
    /\ j.attempts + (IF Waiting(j) THEN 1 ELSE 0) + Cardinality(S)
       =< 1 + j.lapses + Counted(j.attempts)

BudgetOK ==
    \A d \in Deliveries : /\ Budget(job[d], Able(d))
                          /\ job[d].status = "none" => job[d].attempts = 0

\* A worker that can put the job back leaves, and may have done so.
LEMMA AbleLeaves ==
    ASSUME NEW j \in Job, NEW k \in Job, NEW S, NEW w \in S, Budget(j, S),
           k.lapses = j.lapses, k.attempts = j.attempts
    PROVE  Budget(k, S \ {w})
<1>1. /\ IsFiniteSet(S \ {w})
      /\ Cardinality(S \ {w}) = Cardinality(S) - 1
      /\ Cardinality(S) \in Nat
  BY FS_RemoveElement, FS_CardinalityType DEF Budget
<1>2. j.attempts \in Nat /\ j.lapses \in Nat /\ Counted(j.attempts) \in Int
  BY ComposeConstants DEF Job, Counted
<1> QED BY <1>1, <1>2 DEF Budget

\* Nothing is put back.
LEMMA NoneReturns ==
    ASSUME NEW j \in Job, NEW k \in Job, NEW S, Budget(j, S),
           k.lapses = j.lapses, k.attempts = j.attempts, Waiting(k) => Waiting(j)
    PROVE  Budget(k, S)
<1>1. Cardinality(S) \in Nat
  BY FS_CardinalityType DEF Budget
<1>2. j.attempts \in Nat /\ j.lapses \in Nat /\ Counted(j.attempts) \in Int
  BY ComposeConstants DEF Job, Counted
<1> QED BY <1>1, <1>2 DEF Budget

\* A claim takes the job that waits, and is counted while it may put it back.
LEMMA ClaimIsCounted ==
    ASSUME NEW j \in Job, NEW k \in Job, NEW S, NEW w, w \notin S, Budget(j, S),
           Waiting(j), ~Waiting(k), k.lapses = j.lapses, k.attempts = j.attempts + 1
    PROVE  Budget(k, IF k.attempts < MaxAttempts THEN S \cup {w} ELSE S)
<1>1. /\ IsFiniteSet(S \cup {w})
      /\ Cardinality(S \cup {w}) = Cardinality(S) + 1
      /\ Cardinality(S) \in Nat
  BY FS_AddElement, FS_CardinalityType DEF Budget
<1>2. j.attempts \in Nat /\ j.lapses \in Nat /\ MaxAttempts \in Nat \ {0}
  BY ComposeConstants DEF Job
<1>3. CASE k.attempts < MaxAttempts
  <2>1. Counted(k.attempts) = j.attempts + 1 /\ Counted(j.attempts) = j.attempts
    BY <1>2, <1>3 DEF Counted
  <2> QED BY <1>1, <1>2, <1>3, <2>1 DEF Budget
<1>4. CASE ~(k.attempts < MaxAttempts)
  <2>1. Counted(k.attempts) = MaxAttempts - 1 /\ Counted(j.attempts) = MaxAttempts - 1
    BY <1>2, <1>4 DEF Counted
  <2> QED BY <1>1, <1>2, <1>4, <2>1 DEF Budget
<1> QED BY <1>3, <1>4

LEMMA InitBudget == Init => BudgetOK
<1> SUFFICES ASSUME Init PROVE BudgetOK
  OBVIOUS
<1>1. \A d \in Deliveries : Able(d) = {}
  BY ComposeConstants DEF Init, Able, WorkersOn, Idle
<1>2. Counted(0) = 0
  BY ComposeConstants DEF Counted
<1>3. Budget(NoJob, {})
  BY <1>2, FS_EmptySet DEF Budget, NoJob, Waiting
<1>4. NoJob.attempts = 0
  BY DEF NoJob
<1> QED BY <1>1, <1>3, <1>4 DEF Init, BudgetOK

LEMMA OthersBudget ==
    ASSUME JInv, BudgetOK, NEW d \in Deliveries,
           Deliver(d) \/ MoveProject(d) \/ BecomeDue(d) \/ Lapse(d)
    PROVE  BudgetOK'
<1>1. /\ worker' = worker /\ TypeOK /\ job[d] \in Job
      /\ \A e \in Deliveries : Able(e)' = Able(e)
      /\ \A e \in Deliveries \ {d} : job'[e] = job[e]
      /\ Budget(job[d], Able(d))
      /\ job[d].status = "none" => job[d].attempts = 0
  BY DEF Deliver, MoveProject, BecomeDue, Lapse, JInv, IInv, BudgetOK, TypeOK, Able, WorkersOn
<1>2. Cardinality(Able(d)) \in Nat
  BY <1>1, FS_CardinalityType DEF Budget
<1>3. job[d].attempts \in Nat /\ job[d].lapses \in Nat /\ Counted(job[d].attempts) \in Int
  BY <1>1, ComposeConstants DEF Job, Counted
<1>4. /\ Budget(job'[d], Able(d))
      /\ job'[d].status = "none" => job'[d].attempts = 0
  <2>1. CASE Deliver(d)
    <3>1. \A w \in Workers : worker[w].job # d
      BY <2>1, ComposeConstants DEF JInv, IInv, JobsOK, AdmittedOK, Deliver
    <3>2. Able(d) = {} /\ IsFiniteSet({}) /\ Cardinality({}) = 0
      BY <3>1, FS_EmptySet DEF Able, WorkersOn
    <3>3. /\ job'[d].lapses = job[d].lapses /\ job'[d].attempts = 0
          /\ job'[d].status = "queued"
      BY <1>1, <2>1 DEF Deliver, TypeOK, Job
    <3>4. Counted(0) = 0
      BY ComposeConstants DEF Counted
    <3> QED BY <1>3, <3>2, <3>3, <3>4 DEF Budget
  <2>2. CASE MoveProject(d)
    BY <1>1, <2>2 DEF MoveProject
  <2>3. CASE BecomeDue(d)
    <3>1. /\ job'[d].status = job[d].status /\ job'[d].lapsed = job[d].lapsed
          /\ job'[d].lapses = job[d].lapses /\ job'[d].attempts = job[d].attempts
      BY <1>1, <2>3 DEF BecomeDue, TypeOK, Job
    <3> QED BY <1>1, <3>1 DEF Budget, Waiting
  <2>4. CASE Lapse(d)
    <3>1. /\ job'[d].lapses = job[d].lapses + 1 /\ job'[d].attempts = job[d].attempts
          /\ job'[d].status = "running"
      BY <1>1, <2>4 DEF Lapse, TypeOK, Job
    <3>2. ~Waiting(job[d])
      BY <2>4 DEF Lapse, Waiting
    <3> QED BY <1>1, <1>2, <1>3, <3>1, <3>2 DEF Budget
  <2> QED BY <2>1, <2>2, <2>3, <2>4
<1>5. \A e \in Deliveries : Budget(job[e], Able(e))' = Budget(job'[e], Able(e)')
  BY DEF Budget, Waiting
<1> QED BY <1>1, <1>4, <1>5 DEF BudgetOK

\* A worker step that leaves the lapses and attempts of every job and every other
\* job alone, with which the worker stays on its job, or goes; only one that goes
\* and is able to may put the job back.
LEMMA BudgetByWorker ==
    ASSUME JInv, BudgetOK, NEW w \in Workers, worker[w].pc # "idle",
           NEW k \in Job, k.lapses = job[worker[w].job].lapses,
           k.attempts = job[worker[w].job].attempts,
           k.status = "none" => job[worker[w].job].status = "none",
           \A e \in Deliveries : job'[e] = IF e = worker[w].job THEN k ELSE job[e],
           NEW x, worker' = [worker EXCEPT ![w] = x],
           x = Idle \/ (x.job = worker[w].job /\ x.attempt = worker[w].attempt),
           Waiting(k) => \/ Waiting(job[worker[w].job])
                         \/ x = Idle /\ worker[w].attempt < MaxAttempts
    PROVE  BudgetOK'
<1>0. PICK d \in Deliveries : d = worker[w].job
  BY DEF JInv, IInv, TypeOK
<1>1. /\ TypeOK /\ job[d] \in Job
      /\ w \in WorkersOn(d)
      /\ \A e \in Deliveries : /\ Budget(job[e], Able(e))
                               /\ job[e].status = "none" => job[e].attempts = 0
      /\ \A e \in Deliveries : job'[e] = IF e = d THEN k ELSE job[e]
  BY <1>0 DEF JInv, IInv, TypeOK, BudgetOK, WorkersOn
<1>2. \A v \in Workers : worker'[v] = IF v = w THEN x ELSE worker[v]
  BY <1>1 DEF TypeOK
<1>3. \A e \in Deliveries \ {d} : Able(e)' = Able(e)
  <2> TAKE e \in Deliveries \ {d}
  <2>1. x.job # e
    BY <1>0, ComposeConstants DEF Idle
  <2> QED BY <1>0, <1>1, <1>2, <2>1 DEF Able, WorkersOn
<1>4. Budget(k, Able(d)')
  <2>1. CASE x = Idle
    <3>1. x.job # d
      BY <2>1, ComposeConstants DEF Idle
    <3>2. Able(d)' = Able(d) \ {w}
      BY <1>1, <1>2, <3>1 DEF Able, WorkersOn
    <3>3. CASE w \in Able(d)
      <4>1. Budget(k, Able(d) \ {w})
        BY <1>0, <1>1, <3>3, AbleLeaves
      <4> QED BY <3>2, <4>1
    <3>4. CASE w \notin Able(d)
      <4>1. Able(d) \ {w} = Able(d)
        BY <3>4
      <4>2. ~(worker[w].attempt < MaxAttempts)
        BY <1>1, <3>4 DEF Able
      <4>3. Budget(k, Able(d))
        BY <1>0, <1>1, <4>2, NoneReturns
      <4> QED BY <3>2, <4>1, <4>3
    <3> QED BY <3>3, <3>4
  <2>2. CASE x # Idle
    <3>1. Able(d)' = Able(d)
      BY <1>0, <1>1, <1>2, <2>2 DEF Able, WorkersOn
    <3>2. Budget(k, Able(d))
      BY <1>0, <1>1, <2>2, NoneReturns
    <3> QED BY <3>1, <3>2
  <2> QED BY <2>1, <2>2
<1>5. \A e \in Deliveries : /\ Budget(job'[e], Able(e)')
                            /\ job'[e].status = "none" => job'[e].attempts = 0
  BY <1>0, <1>1, <1>3, <1>4
<1>6. \A e \in Deliveries : Budget(job[e], Able(e))' = Budget(job'[e], Able(e)')
  BY DEF Budget, Waiting
<1> QED BY <1>5, <1>6 DEF BudgetOK

LEMMA ClaimBudget ==
    ASSUME JInv, BudgetOK, NEW w \in Workers, NEW d \in Deliveries, Claim(w, d)
    PROVE  BudgetOK'
<1> DEFINE X == [Idle EXCEPT !.pc = "loading", !.job = d,
                             !.attempt = Reclaimed(d).attempts + 1]
<1>1. /\ TypeOK /\ worker[w].job = None
      /\ \A e \in Deliveries : /\ job[e] \in Job /\ Budget(job[e], Able(e))
                               /\ job[e].status = "none" => job[e].attempts = 0
  BY DEF JInv, IInv, TypeOK, AdmittedOK, BudgetOK, Claim
<1>2. worker' = [worker EXCEPT ![w] = X]
  BY DEF Claim
<1>3. X.job = d /\ X.attempt = Reclaimed(d).attempts + 1
  BY DEF Idle
<1> HIDE DEF X
<1>4. \A v \in Workers : worker'[v] = IF v = w THEN X ELSE worker[v]
  BY <1>1, <1>2 DEF TypeOK
<1>5. \A e \in Deliveries : /\ Reclaimed(e) \in Job
                            /\ Reclaimed(e).lapses = job[e].lapses
                            /\ Reclaimed(e).attempts = job[e].attempts
                            /\ Reclaimed(e).status = "none" => job[e].status = "none"
                            /\ Waiting(Reclaimed(e)) => Waiting(job[e])
  <2> TAKE e \in Deliveries
  <2>1. job[e] \in Job
    BY <1>1
  <2> QED BY <2>1, <1>1, ReclaimedType DEF Reclaimed, Reclaimable, Waiting, Job
<1>6. \A e \in Deliveries \ {d} : /\ Budget(job'[e], Able(e)')
                                  /\ job'[e].status = "none" => job'[e].attempts = 0
  <2> TAKE e \in Deliveries \ {d}
  <2>1. Able(e)' = Able(e)
    BY <1>1, <1>3, <1>4, ComposeConstants DEF Able, WorkersOn
  <2>2. job'[e] = Reclaimed(e)
    BY DEF Claim
  <2>3. Budget(Reclaimed(e), Able(e))
    BY <1>1, <1>5, NoneReturns
  <2> QED BY <1>1, <1>5, <2>1, <2>2, <2>3
<1>7. /\ Budget(job'[d], Able(d)')
      /\ job'[d].status = "none" => job'[d].attempts = 0
  <2> DEFINE K == [Reclaimed(d) EXCEPT !.status = "running", !.lapsed = FALSE,
                                       !.attempts = Reclaimed(d).attempts + 1]
  <2>0. Reclaimed(d).attempts + 1 \in Nat
    BY <1>5 DEF Job
  <2>1. /\ K \in Job /\ ~Waiting(K) /\ K.lapses = job[d].lapses
        /\ K.attempts = job[d].attempts + 1 /\ K.status = "running"
    BY <1>5, <2>0 DEF Job, Terminal, Waiting
  <2>2. job'[d] = K
    <3>1. Reclaimed(d) \in Job
      BY <1>5
    <3>2. job'[d] = [Reclaimed(d) EXCEPT !.status = "running", !.lapsed = FALSE,
                                         !.attempts = @ + 1]
      BY DEF Claim
    <3> QED BY <3>1, <3>2 DEF Job
  <2>3. Waiting(job[d])
    <3>1. Reclaimed(d).status = "queued"
      BY DEF Claim
    <3>2. Waiting(Reclaimed(d))
      BY <3>1 DEF Waiting
    <3> QED BY <1>5, <3>2
  <2>4. w \notin Able(d)
    BY <1>1, ComposeConstants DEF Able, WorkersOn
  <2>5. X.attempt = K.attempts
    BY <1>3, <1>5, <2>1
  <2> HIDE DEF K
  <2>6. Able(d)' = IF K.attempts < MaxAttempts THEN Able(d) \cup {w} ELSE Able(d)
    BY <1>3, <1>4, <2>4, <2>5 DEF Able, WorkersOn
  <2>7. Budget(K, IF K.attempts < MaxAttempts THEN Able(d) \cup {w} ELSE Able(d))
    BY <1>1, <2>1, <2>3, <2>4, ClaimIsCounted
  <2> QED BY <2>1, <2>2, <2>6, <2>7
<1>8. \A e \in Deliveries : Budget(job[e], Able(e))' = Budget(job'[e], Able(e)')
  BY DEF Budget, Waiting
<1> QED BY <1>6, <1>7, <1>8 DEF BudgetOK

LEMMA WorkerBudget ==
    ASSUME JInv, BudgetOK, NEW w \in Workers, WorkerStep(w) \/ Throw(w) \/ Crash(w)
    PROVE  BudgetOK'
<1> DEFINE W == worker[w]
<1>0. TypeOK /\ W \in Worker
  BY DEF JInv, IInv, TypeOK
<1>1. CASE \E d \in Deliveries : Claim(w, d)
  BY <1>1, ClaimBudget
<1>2. CASE ~\E d \in Deliveries : Claim(w, d)
  <2>0. W.pc # "idle" /\ W.job \in Deliveries /\ job[W.job] \in Job
    BY <1>0, <1>2 DEF WorkerStep, Load, Persist, Announce, MarkSucceeded, Reschedule,
                      MarkFailed, Throw, Crash, TypeOK
  <2>1. CASE Load(w)
    <3> DEFINE X == [W EXCEPT !.pc = "composing", !.revision = delivery[W.job].revision,
                              !.report = delivery[W.job].report]
    <3>1. worker' = [worker EXCEPT ![w] = X] /\ job' = job
      BY <1>0, <2>1 DEF Load, TypeOK
    <3>2. X.job = W.job /\ X.attempt = W.attempt
      BY <1>0 DEF Worker
    <3> HIDE DEF X
    <3> QED BY <2>0, <3>1, <3>2, BudgetByWorker
  <2>2. CASE (\E drafted \in BOOLEAN : Persist(w, drafted)) \/ Announce(w)
    <3> DEFINE X == [W EXCEPT !.pc = "announcing"]
    <3>1. job' = job
      BY <2>2 DEF Persist, Announce
    <3>2. \/ worker' = [worker EXCEPT ![w] = X]
          \/ worker' = [worker EXCEPT ![w] = AfterWrite(w)]
      BY <1>0, <2>2 DEF Persist, Announce, TypeOK
    <3>3. X.job = W.job /\ X.attempt = W.attempt
      BY <1>0 DEF Worker
    <3>4. \/ AfterWrite(w) = Idle
          \/ AfterWrite(w).job = W.job /\ AfterWrite(w).attempt = W.attempt
      BY <1>0 DEF AfterWrite, Worker
    <3> HIDE DEF X
    <3> QED BY <2>0, <3>1, <3>2, <3>3, <3>4, BudgetByWorker
  <2>3. CASE MarkSucceeded(w)
    <3> DEFINE K == [job[W.job] EXCEPT !.status = "succeeded", !.lapsed = FALSE]
    <3>1. /\ K \in Job /\ K.lapses = job[W.job].lapses /\ K.attempts = job[W.job].attempts
          /\ K.status # "none" /\ ~Waiting(K)
      BY <2>0 DEF Job, Terminal, Waiting
    <3>2. /\ worker' = [worker EXCEPT ![w] = Idle]
          /\ \A e \in Deliveries : job'[e] = IF e = W.job THEN K ELSE job[e]
      BY <1>0, <2>0, <2>3 DEF MarkSucceeded, TypeOK
    <3> HIDE DEF K
    <3> QED BY <2>0, <3>1, <3>2, BudgetByWorker
  <2>4. CASE Reschedule(w)
    <3> DEFINE K == [job[W.job] EXCEPT !.status = "queued", !.lapsed = FALSE, !.due = FALSE]
    <3>1. /\ K \in Job /\ K.lapses = job[W.job].lapses /\ K.attempts = job[W.job].attempts
          /\ K.status # "none"
      BY <2>0 DEF Job
    <3>2. /\ worker' = [worker EXCEPT ![w] = Idle]
          /\ \A e \in Deliveries : job'[e] = IF e = W.job THEN K ELSE job[e]
      BY <1>0, <2>0, <2>4 DEF Reschedule, TypeOK
    <3>3. W.attempt < MaxAttempts
      BY <2>4 DEF Reschedule, AttemptsLeft
    <3> HIDE DEF K
    <3> QED BY <2>0, <3>1, <3>2, <3>3, BudgetByWorker
  <2>5. CASE MarkFailed(w)
    <3> DEFINE K == [job[W.job] EXCEPT !.status = "failed", !.lapsed = FALSE]
    <3> DEFINE X == [W EXCEPT !.pc = "loading", !.rescue = TRUE]
    <3>1. /\ K \in Job /\ K.lapses = job[W.job].lapses /\ K.attempts = job[W.job].attempts
          /\ K.status # "none" /\ ~Waiting(K)
      BY <2>0 DEF Job, Terminal, Waiting
    <3>2. /\ worker' = [worker EXCEPT ![w] = X]
          /\ \A e \in Deliveries : job'[e] = IF e = W.job THEN K ELSE job[e]
      BY <1>0, <2>0, <2>5 DEF MarkFailed, TypeOK
    <3>3. X.job = W.job /\ X.attempt = W.attempt
      BY <1>0 DEF Worker
    <3> HIDE DEF K, X
    <3> QED BY <2>0, <3>1, <3>2, <3>3, BudgetByWorker
  <2>6. CASE Throw(w) \/ Crash(w)
    <3> DEFINE X == [W EXCEPT !.pc = "failing"]
    <3>1. job' = job
      BY <2>6 DEF Throw, Crash
    <3>2. \/ worker' = [worker EXCEPT ![w] = X]
          \/ worker' = [worker EXCEPT ![w] = Idle]
      BY <1>0, <2>6 DEF Throw, Crash, Forgotten, TypeOK
    <3>3. X.job = W.job /\ X.attempt = W.attempt
      BY <1>0 DEF Worker
    <3> HIDE DEF X
    <3> QED BY <2>0, <3>1, <3>2, <3>3, BudgetByWorker
  <2> QED BY <1>2, <2>1, <2>2, <2>3, <2>4, <2>5, <2>6 DEF WorkerStep
<1> QED BY <1>1, <1>2

\* A job is attempted MaxAttempts times, and once more for every lease that
\* lapsed: the workers that put it back count their attempts by their own claims.
THEOREM AttemptsAreOwed == Spec => []ExtraAttemptsAreLapses
<1>1. Init => JInv /\ BudgetOK
  BY InitInv, InitAdmits, InitBudget DEF JInv
<1>2. JInv /\ [Next]_vars => JInv'
  BY JobStep
<1>3. JInv /\ BudgetOK /\ [Next]_vars => BudgetOK'
  <2>1. ASSUME JInv, BudgetOK, Next PROVE BudgetOK'
    BY <2>1, OthersBudget, WorkerBudget DEF Next
  <2>2. ASSUME BudgetOK, UNCHANGED vars PROVE BudgetOK'
    BY <2>2 DEF vars, BudgetOK, Budget, Waiting, Able, WorkersOn
  <2> QED BY <2>1, <2>2
<1>4. JInv /\ BudgetOK => ExtraAttemptsAreLapses
  <2> SUFFICES ASSUME JInv, BudgetOK, NEW d \in Deliveries
               PROVE  job[d].attempts =< MaxAttempts + job[d].lapses
    BY DEF ExtraAttemptsAreLapses
  <2>1. Budget(job[d], Able(d)) /\ job[d] \in Job
    BY DEF BudgetOK, JInv, IInv, TypeOK
  <2>2. Cardinality(Able(d)) \in Nat
    BY <2>1, FS_CardinalityType DEF Budget
  <2>3. job[d].attempts \in Nat /\ job[d].lapses \in Nat /\ MaxAttempts \in Nat \ {0}
    BY <2>1, ComposeConstants DEF Job
  <2> QED BY <2>1, <2>2, <2>3 DEF Budget, Counted
<1> QED BY <1>1, <1>2, <1>3, <1>4, PTL DEF Spec

=============================================================================

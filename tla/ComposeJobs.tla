---------------------------- MODULE ComposeJobs -----------------------------
(***************************************************************************)
(* The durable jobs of packages/core/service/worker-jobs.ts and the worker *)
(* of backend/delivery-compose-worker.ts that turns the report of a        *)
(* delivery into one composed by a model.  A job is leased for a minute;   *)
(* a lease that lapses puts the job back whether or not its worker still   *)
(* lives, and the last writes of a worker name the job by id alone.        *)
(*                                                                         *)
(* The claim is one transaction, on Postgres over locked rows, and one     *)
(* step here.  Everything else the worker does is one statement at a time. *)
(* A statement may be refused (Throw), the process may stop (Crash), the   *)
(* lease of a slow worker may lapse (Lapse), and a user may move the       *)
(* mission to another project, which rewrites the row of the delivery      *)
(* (MoveProject).  Errors of the model are swallowed by                    *)
(* composeDeliveryWithGemini: they are the absence of a draft.             *)
(*                                                                         *)
(* No statement of the repository deletes a delivery, so "delivery not     *)
(* found" and the status cancelled do not occur.  A delivery has one job:  *)
(* its id is new when the job is inserted.                                 *)
(***************************************************************************)
EXTENDS Naturals, FiniteSets

CONSTANTS Deliveries,  \* deliveries, and the job of each
          Workers,     \* backend processes, one worker loop in each
          None,        \* SQL NULL
          MaxAttempts, \* worker_jobs.max_attempts
          MaxLapses,   \* bound on leases that lapse under a live worker
          MaxFaults,   \* bound on crashes and refused statements
          MaxMoves     \* bound on project moves

VARIABLES job,      \* worker_jobs
          delivery, \* deliveries: revision and the presented report
          worker,   \* what each worker loop is doing
          early,    \* leases that lapsed under a live worker so far
          faults,   \* crashes and refused statements so far
          moves,    \* project moves so far
          cut       \* history: deliveries with a write that was given up

vars == <<job, delivery, worker, early, faults, moves, cut>>

ASSUME ComposeConstants ==
    /\ MaxAttempts \in Nat \ {0}
    /\ MaxLapses \in Nat
    /\ MaxFaults \in Nat
    /\ MaxMoves \in Nat
    /\ None \notin Deliveries

-----------------------------------------------------------------------------
Terminal == {"succeeded", "failed"}

Job == [status   : {"none", "queued", "running"} \cup Terminal,
        attempts : Nat,
        due      : BOOLEAN,  \* run_after has passed
        lapsed   : BOOLEAN,  \* locked_until has passed
        lapses   : Nat]      \* history: how often it has

NoJob == [status |-> "none", attempts |-> 0, due |-> FALSE,
          lapsed |-> FALSE, lapses |-> 0]

Reports == [status : {"none", "pending", "composed", "fallback"},
            text   : {"none", "agent", "model"}]

NoReport == [status |-> "none", text |-> "none"]
Pending  == [status |-> "pending", text |-> "agent"]

Pcs == {"idle", "loading", "composing", "announcing", "finishing", "failing"}

\* revision and report are the row that the worker has loaded; rescue is set
\* once the job has failed for good and only the fallback is still written.
Worker == [pc       : Pcs,
           job      : Deliveries \cup {None},
           attempt  : Nat,
           revision : Nat,
           report   : Reports,
           rescue   : BOOLEAN]

Idle == [pc |-> "idle", job |-> None, attempt |-> 0, revision |-> 0,
         report |-> NoReport, rescue |-> FALSE]

TypeOK ==
    /\ job \in [Deliveries -> Job]
    /\ delivery \in [Deliveries ->
           [revision : Nat, report : Reports, announced : BOOLEAN]]
    /\ worker \in [Workers -> Worker]
    /\ \A w \in Workers : worker[w].pc # "idle" => worker[w].job \in Deliveries
    /\ early \in Nat
    /\ faults \in Nat
    /\ moves \in Nat
    /\ cut \in SUBSET Deliveries

Init ==
    /\ job = [d \in Deliveries |-> NoJob]
    /\ delivery = [d \in Deliveries |->
           [revision |-> 0, report |-> NoReport, announced |-> TRUE]]
    /\ worker = [w \in Workers |-> Idle]
    /\ early = 0
    /\ faults = 0
    /\ moves = 0
    /\ cut = {}

WorkersOn(d) == {w \in Workers : worker[w].job = d}

-----------------------------------------------------------------------------
(* The delivery, which inserts the job in its transaction; users; time.    *)

Deliver(d) ==
    /\ job[d].status = "none"
    /\ job' = [job EXCEPT ![d].status = "queued", ![d].due = TRUE]
    /\ delivery' = [delivery EXCEPT ![d].revision = 1, ![d].report = Pending]
    /\ UNCHANGED <<worker, early, faults, moves, cut>>

\* cascadeMissionProjectId rewrites project_id and bumps the revision.
MoveProject(d) ==
    /\ moves < MaxMoves
    /\ delivery[d].report # NoReport
    /\ delivery' = [delivery EXCEPT ![d].revision = @ + 1]
    /\ moves' = moves + 1
    /\ UNCHANGED <<job, worker, early, faults, cut>>

\* A rescheduled job becomes due.
BecomeDue(d) ==
    /\ job[d].status = "queued"
    /\ ~job[d].due
    /\ job' = [job EXCEPT ![d].due = TRUE]
    /\ UNCHANGED <<delivery, worker, early, faults, moves, cut>>

\* The minute is over: nobody renews a lease.
Lapse(d) ==
    /\ job[d].status = "running"
    /\ ~job[d].lapsed
    /\ \/ /\ WorkersOn(d) = {}
          /\ UNCHANGED early
       \/ /\ WorkersOn(d) # {}
          /\ early < MaxLapses
          /\ early' = early + 1
    /\ job' = [job EXCEPT ![d].lapsed = TRUE, ![d].lapses = @ + 1]
    /\ UNCHANGED <<delivery, worker, faults, moves, cut>>

-----------------------------------------------------------------------------
(* The worker.                                                             *)

Reclaimable == {d \in Deliveries : job[d].status = "running" /\ job[d].lapsed}

\* Mutation: a reclaimed job starts counting its attempts again.
ReclaimedAfresh(d) ==
    IF d \in Reclaimable
    THEN [job[d] EXCEPT !.status = "queued", !.lapsed = FALSE, !.due = TRUE,
                        !.attempts = 0]
    ELSE job[d]

\* Mutation: a job is reclaimed although its lease has not lapsed.
ReclaimedAlways(d) ==
    IF job[d].status = "running"
    THEN [job[d] EXCEPT !.status = "queued", !.lapsed = FALSE, !.due = TRUE]
    ELSE job[d]

\* Mutation: nothing is reclaimed.
ReclaimedNever(d) == job[d]

\* The row of d after the reset of lapsed leases that begins every claim.
Reclaimed(d) ==
    IF d \in Reclaimable
    THEN [job[d] EXCEPT !.status = "queued", !.lapsed = FALSE, !.due = TRUE]
    ELSE job[d]

\* claimNextComposeJob.  The oldest due job is taken; here any due job.
Claim(w, d) ==
    /\ worker[w].pc = "idle"
    /\ Reclaimed(d).status = "queued"
    /\ Reclaimed(d).due
    /\ job' = [e \in Deliveries |->
           IF e = d
           THEN [Reclaimed(e) EXCEPT !.status = "running", !.lapsed = FALSE,
                                     !.attempts = @ + 1]
           ELSE Reclaimed(e)]
    /\ worker' = [worker EXCEPT ![w] =
           [Idle EXCEPT !.pc = "loading", !.job = d,
                        !.attempt = Reclaimed(d).attempts + 1]]
    /\ UNCHANGED <<delivery, early, faults, moves, cut>>

\* loadComposeContext, at the start of a job and again for the rescue.
Load(w) ==
    /\ worker[w].pc = "loading"
    /\ LET d == worker[w].job IN
       worker' = [worker EXCEPT ![w].pc = "composing",
                                ![w].revision = delivery[d].revision,
                                ![w].report = delivery[d].report]
    /\ UNCHANGED <<job, delivery, early, faults, moves, cut>>

\* reconcileDeliveryComposeDraft: a draft is the model's text; without one
\* the loaded text stays and is labelled as the fallback.
Presented(report, drafted) ==
    IF drafted THEN [status |-> "composed", text |-> "model"]
               ELSE [report EXCEPT !.status = "fallback"]

\* Mutation: the worker goes on without the job it is to finish.
AfterWriteForgetful(w) ==
    IF worker[w].rescue THEN Idle ELSE [Idle EXCEPT !.pc = "finishing"]

\* Where a worker goes when a write of the report is done with.
AfterWrite(w) ==
    IF worker[w].rescue THEN Idle ELSE [worker[w] EXCEPT !.pc = "finishing"]

\* Mutation: the report is written whatever has become of the row.
RowIsAsLoaded(w) == TRUE

\* WHERE id = ? AND revision = ?
RowUnchanged(w) == delivery[worker[w].job].revision = worker[w].revision

\* persistDeliveryReport, its UPDATE.  No row matched counts as a success.
Persist(w, drafted) ==
    /\ worker[w].pc = "composing"
    /\ worker[w].rescue => ~drafted
    /\ LET d == worker[w].job IN
       IF RowUnchanged(w)
       THEN /\ delivery' = [delivery EXCEPT
                   ![d].revision = worker[w].revision + 1,
                   ![d].report = Presented(worker[w].report, drafted),
                   ![d].announced = FALSE]
            /\ worker' = [worker EXCEPT ![w].pc = "announcing"]
            /\ UNCHANGED cut
       ELSE /\ worker' = [worker EXCEPT ![w] = AfterWrite(w)]
            /\ cut' = IF delivery[d].report = Pending \/ ~delivery[d].announced
                      THEN cut \cup {d} ELSE cut
            /\ UNCHANGED delivery
    /\ UNCHANGED <<job, early, faults, moves>>

\* persistDeliveryReport, recordChange: a statement of its own.
Announce(w) ==
    /\ worker[w].pc = "announcing"
    /\ delivery' = [delivery EXCEPT ![worker[w].job].announced = TRUE]
    /\ worker' = [worker EXCEPT ![w] = AfterWrite(w)]
    /\ UNCHANGED <<job, early, faults, moves, cut>>

\* markJobTerminal(succeeded), by id.
MarkSucceeded(w) ==
    /\ worker[w].pc = "finishing"
    /\ job' = [job EXCEPT ![worker[w].job].status = "succeeded",
                          ![worker[w].job].lapsed = FALSE]
    /\ worker' = [worker EXCEPT ![w] = Idle]
    /\ UNCHANGED <<delivery, early, faults, moves, cut>>

\* Mutation: one attempt too many.
AttemptsLeftByOne(w) == worker[w].attempt =< MaxAttempts

AttemptsLeft(w) == worker[w].attempt < MaxAttempts

\* rescheduleJob, by id.
Reschedule(w) ==
    /\ worker[w].pc = "failing"
    /\ AttemptsLeft(w)
    /\ job' = [job EXCEPT ![worker[w].job].status = "queued",
                          ![worker[w].job].lapsed = FALSE,
                          ![worker[w].job].due = FALSE]
    /\ worker' = [worker EXCEPT ![w] = Idle]
    /\ UNCHANGED <<delivery, early, faults, moves, cut>>

\* Mutation: a job that has failed for good is left alone.
MarkFailedOnly(w) ==
    /\ worker[w].pc = "failing"
    /\ ~AttemptsLeft(w)
    /\ job' = [job EXCEPT ![worker[w].job].status = "failed",
                          ![worker[w].job].lapsed = FALSE]
    /\ worker' = [worker EXCEPT ![w] = Idle]
    /\ UNCHANGED <<delivery, early, faults, moves, cut>>

\* markJobTerminal(failed), by id, and on to persistFallbackPresentation.
MarkFailed(w) ==
    /\ worker[w].pc = "failing"
    /\ ~AttemptsLeft(w)
    /\ job' = [job EXCEPT ![worker[w].job].status = "failed",
                          ![worker[w].job].lapsed = FALSE]
    /\ worker' = [worker EXCEPT ![w].pc = "loading", ![w].rescue = TRUE]
    /\ UNCHANGED <<delivery, early, faults, moves, cut>>

\* The worker forgets its job in the middle of it: a stop of the process, an
\* error in the catch block, or a swallowed error of the rescue.
Forgotten(w) ==
    /\ worker' = [worker EXCEPT ![w] = Idle]
    /\ cut' = IF worker[w].rescue THEN cut \cup {worker[w].job} ELSE cut

\* A statement is refused: the catch block of processJob runs, once.
Throw(w) ==
    /\ worker[w].pc # "idle"
    /\ faults < MaxFaults
    /\ faults' = faults + 1
    /\ IF worker[w].pc = "failing" \/ worker[w].rescue
       THEN Forgotten(w)
       ELSE /\ worker' = [worker EXCEPT ![w].pc = "failing"]
            /\ UNCHANGED cut
    /\ UNCHANGED <<job, delivery, early, moves>>

\* The process stops and is started again with an empty loop.
Crash(w) ==
    /\ worker[w].pc # "idle"
    /\ faults < MaxFaults
    /\ faults' = faults + 1
    /\ Forgotten(w)
    /\ UNCHANGED <<job, delivery, early, moves>>

-----------------------------------------------------------------------------
WorkerStep(w) ==
    \/ \E d \in Deliveries : Claim(w, d)
    \/ Load(w)
    \/ \E drafted \in BOOLEAN : Persist(w, drafted)
    \/ Announce(w)
    \/ MarkSucceeded(w)
    \/ Reschedule(w)
    \/ MarkFailed(w)

Next ==
    \/ \E d \in Deliveries : Deliver(d) \/ MoveProject(d) \/ BecomeDue(d) \/ Lapse(d)
    \/ \E w \in Workers : WorkerStep(w) \/ Throw(w) \/ Crash(w)

Spec == Init /\ [][Next]_vars

\* A poll every 1.5 seconds, no call without an end, and time passes.
Fairness ==
    /\ \A w \in Workers : WF_vars(WorkerStep(w))
    /\ \A d \in Deliveries : WF_vars(BecomeDue(d)) /\ WF_vars(Lapse(d))

FairSpec == Spec /\ Fairness

-----------------------------------------------------------------------------
(* Properties.                                                             *)

Report == INSTANCE DeliveryReport
          WITH report <- [d \in Deliveries |-> delivery[d].report]

\* The worker implements DeliveryReport: a stale worker, a retry or the
\* fallback of a failed job never puts the agent's words back in the place
\* of the model's (the compare-and-set of persistDeliveryReport).
ImplementsReport == Report!Spec

\* Attempts beyond max_attempts are owed to leases that lapsed: the claim
\* does not look at max_attempts, only the catch block of processJob does,
\* and it counts by the attempt of its own claim.
ExtraAttemptsAreLapses ==
    \A d \in Deliveries : job[d].attempts =< MaxAttempts + job[d].lapses

\* Two workers are on one job only if a lease has lapsed: late final writes,
\* which name the job by id, do not multiply them any further.
OneWorkerPerLease ==
    \A d \in Deliveries : Cardinality(WorkersOn(d)) =< 1 + job[d].lapses

\* Every job comes to its end, whatever crashes, lapses and is refused.
EveryJobIsFinished ==
    \A d \in Deliveries :
        job[d].status = "queued" ~> [](job[d].status \in Terminal)

\* Every delivery is given a report that is not pending, unless the fallback
\* after the last attempt was cut short or a write was given up to another of
\* the row (a project move is none of the report); and clients are told of it,
\* unless two workers were on the job at once.
EveryDeliveryIsPresented ==
    \A d \in Deliveries :
        job[d].status = "queued" ~>
            \/ /\ delivery[d].report # Pending
               /\ delivery[d].announced \/ early > 0
            \/ d \in cut

=============================================================================

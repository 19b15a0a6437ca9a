---------------------------- MODULE RunnerWakeup ----------------------------
(***************************************************************************)
(* How a runner learns of work: the claim call of a runner                 *)
(* (backend/execution/runner.ts: claimRunnerRequest), which looks in one   *)
(* workspace of the caller after the other, listens for the notification   *)
(* of Postgres (runner-queue-notify.ts and the trigger on                  *)
(* execution_requests), looks again, waits, and looks a last time; and the *)
(* runner's loop around it (cli/src/commands.ts).                          *)
(*                                                                         *)
(* The lifecycle of a request is ExecutionQueue's: here it ends when the   *)
(* runner marks it launching.  On SQLite a call ends as one of Postgres    *)
(* that cannot listen.  A call does not notice that its runner has gone:   *)
(* it goes on, and claims for nobody.                                      *)
(***************************************************************************)
EXTENDS Naturals, FiniteSets

CONSTANTS Runners,     \* runners, each of its own target
          MaxCalls,    \* bound on the claim calls that the backend has at a time
          Workspaces,  \* number of workspaces of the caller, in their order
          MaxRequests, \* bound on requests
          MaxFaults,   \* bound on lost connections, stopped runners and restarts
          MaxTurns,    \* bound on changes of an objective's state
          None         \* no call

VARIABLES request, \* execution_requests, numbered in the order of created_at
          lapsed,  \* requests whose claim_expires_at has passed
          call,    \* calls of claimRunnerRequest
          runner,  \* the runners' loops
          faults, turns \* counters of the bounds

counters == <<faults, turns>>
vars == <<request, lapsed, call, runner, counters>>

ASSUME RunnerWakeupConstants ==
    /\ None \notin Nat \cup Runners
    /\ MaxCalls \in Nat \ {0}
    /\ Workspaces \in Nat \ {0}
    /\ MaxRequests \in Nat
    /\ MaxFaults \in Nat
    /\ MaxTurns \in Nat

-----------------------------------------------------------------------------
Requests == 1 .. MaxRequests

Calls == 1 .. MaxCalls

Row == [status     : {"none", "queued", "claimed", "launching", "failed", "expired", "cleared"},
        workspace  : 1 .. Workspaces,
        for        : SUBSET Runners, \* runners of execution_target_id, all if it is NULL
        connected  : BOOLEAN,        \* resolveWorkingDirectory finds a directory
        launchable : BOOLEAN]        \* the objective's state is launchable

Call == [pc        : {"free", "first", "arming", "second", "waiting", "third", "answering"},
         for       : Runners \cup {None},
         workspace : 1 .. Workspaces + 1, \* the workspace that it looks in
         request   : 0 .. MaxRequests, \* the candidate, then the answer; 0 if there is none
         listens   : BOOLEAN,          \* its session is connected and has listened
         settled   : BOOLEAN,          \* a notification or an error has come
         passed    : SUBSET Requests]  \* history: requests that it left, or was not told of

Runner == [pc : {"down", "ready", "asking", "working"}, call : Calls \cup {None},
           request : 0 .. MaxRequests]

Free == [pc |-> "free", for |-> None, workspace |-> 1, request |-> 0,
         listens |-> FALSE, settled |-> FALSE, passed |-> {}]

Ready == [pc |-> "ready", call |-> None, request |-> 0]

TypeOK ==
    /\ request \in [Requests -> Row]
    /\ lapsed \in SUBSET Requests
    /\ call \in [Calls -> Call]
    /\ runner \in [Runners -> Runner]
    /\ faults \in Nat
    /\ turns \in Nat

Init ==
    /\ request = [q \in Requests |-> [status |-> "none", workspace |-> 1, for |-> {},
                                      connected |-> FALSE, launchable |-> FALSE]]
    /\ lapsed = {}
    /\ call = [c \in Calls |-> Free]
    /\ runner = [r \in Runners |-> Ready]
    /\ faults = 0
    /\ turns = 0

\* The conditions of the claim's SELECT.
Claimable(q, r) ==
    /\ request[q].status = "queued"
    /\ request[q].launchable
    /\ r \in request[q].for

InWorkspace(c) ==
    {q \in Requests : Claimable(q, call[c].for) /\ request[q].workspace = call[c].workspace}

-----------------------------------------------------------------------------
(* The queue.                                                              *)

\* A request is inserted, and its trigger notifies every session that listens.
\* What comes before the call has put its handlers in place may be lost.
Queue(q, w, for, connected) ==
    /\ request[q].status = "none"
    /\ \A p \in Requests : p < q => request[p].status # "none"
    /\ request' = [request EXCEPT ![q] =
           [status |-> "queued", workspace |-> w, for |-> for,
            connected |-> connected, launchable |-> TRUE]]
    /\ \E deaf \in SUBSET {c \in Calls : call[c].pc = "arming"} :
           call' = [c \in Calls |-> IF call[c].listens /\ c \notin deaf
                                    THEN [call[c] EXCEPT !.settled = TRUE] ELSE call[c]]
    /\ UNCHANGED <<lapsed, runner, counters>>

\* The objective's state changes, and no trigger tells of it.
Turn(q) ==
    /\ turns < MaxTurns
    /\ request[q].status = "queued"
    /\ turns' = turns + 1
    /\ request' = [request EXCEPT ![q].launchable = ~@]
    /\ call' = [c \in Calls |->
           IF call[c].pc \in {"arming", "second", "waiting"} /\ ~request[q].launchable
           THEN [call[c] EXCEPT !.passed = @ \cup {q}] ELSE call[c]]
    /\ UNCHANGED <<lapsed, runner, faults>>

\* clearExecutionRequests
Clear(q) ==
    /\ request[q].status \in {"queued", "claimed"}
    /\ request' = [request EXCEPT ![q].status = "cleared"]
    /\ UNCHANGED <<lapsed, call, runner, counters>>

\* The time of a claim is over.
Lapse(q) ==
    /\ request[q].status = "claimed"
    /\ q \notin lapsed
    /\ lapsed' = lapsed \cup {q}
    /\ UNCHANGED <<request, call, runner, counters>>

-----------------------------------------------------------------------------
(* A call.                                                                 *)

\* A runner's loop asks again.
Ask(r, c) ==
    /\ runner[r].pc = "ready"
    /\ call[c].pc = "free"
    /\ \A other \in 1 .. c - 1 : call[other].pc # "free"
    /\ runner' = [runner EXCEPT ![r] = [pc |-> "asking", call |-> c, request |-> 0]]
    /\ call' = [call EXCEPT ![c] = [Free EXCEPT !.pc = "first", !.for = r]]
    /\ UNCHANGED <<request, lapsed, counters>>

\* claimNow has no request of this workspace: it goes on with the next.
Onward(c) == [call[c] EXCEPT !.workspace = @ + 1, !.request = 0]

\* expireStaleExecutionRequests
Expired(w) == {q \in lapsed : request[q].status = "claimed" /\ request[q].workspace = w}

\* The call goes on with the pc, and what its session says matters no more.
Reset(c, pc, q) == [Free EXCEPT !.pc = pc, !.for = call[c].for, !.request = q]

\* claimNow looks in a workspace.
Look(c) ==
    /\ call[c].pc \in {"first", "second", "third"}
    /\ call[c].workspace =< Workspaces
    /\ call[c].request = 0
    /\ request' = [q \in Requests |-> IF q \in Expired(call[c].workspace)
                                      THEN [request[q] EXCEPT !.status = "expired"]
                                      ELSE request[q]]
    /\ \/ /\ InWorkspace(c) = {}
          /\ call' = [call EXCEPT ![c] = Onward(c)]
       \/ \E q \in InWorkspace(c) :
              /\ \A other \in InWorkspace(c) : q =< other
              /\ call' = [call EXCEPT ![c].request = q]
    /\ UNCHANGED <<lapsed, runner, counters>>

\* The candidate is claimed.
Take(c) ==
    /\ call[c].pc \in {"first", "second", "third"}
    /\ \E q \in Requests :
        /\ call[c].request = q
        /\ request[q].status = "queued"
        /\ request[q].connected
        /\ request' = [request EXCEPT ![q].status = "claimed"]
        /\ call' = [call EXCEPT ![c] = Reset(c, "answering", q)]
    /\ UNCHANGED <<lapsed, runner, counters>>

\* The candidate has no directory and is marked failed, or it is no longer
\* queued: the call leaves what else the workspace has.
Leave(c) ==
    /\ call[c].pc \in {"first", "second", "third"}
    /\ \E q \in Requests :
        /\ call[c].request = q
        /\ \/ /\ request[q].status = "queued"
              /\ ~request[q].connected
              /\ request' = [request EXCEPT ![q].status = "failed"]
           \/ /\ request[q].status # "queued"
              /\ request[q].connected
              /\ UNCHANGED request
    /\ call' = [call EXCEPT ![c] = [Onward(c) EXCEPT
           !.passed = IF call[c].pc = "second" THEN @ \cup InWorkspace(c) ELSE @]]
    /\ UNCHANGED <<lapsed, runner, counters>>

\* It has no directory, and cannot be marked failed any more: an error.
Refuse(c) ==
    /\ call[c].pc \in {"first", "second", "third"}
    /\ \E q \in Requests :
        /\ call[c].request = q
        /\ request[q].status # "queued"
        /\ ~request[q].connected
    /\ call' = [call EXCEPT ![c] = Reset(c, "answering", 0)]
    /\ UNCHANGED <<request, lapsed, runner, counters>>

\* Mutation: the call waits without looking again.
AfterFirstAtOnce(c) ==
    \/ call' = [call EXCEPT ![c] = Reset(c, "answering", 0)]
    \/ call' = [call EXCEPT ![c] = [Reset(c, "waiting", 0) EXCEPT !.listens = TRUE]]

\* It has found nothing and listens; on SQLite, or if it cannot, this is the
\* answer.
AfterFirst(c) ==
    \/ call' = [call EXCEPT ![c] = Reset(c, "answering", 0)]
    \/ call' = [call EXCEPT ![c] = [Reset(c, "arming", 0) EXCEPT !.listens = TRUE]]

\* claimNow has looked everywhere.
NothingFound(c) ==
    /\ call[c].workspace = Workspaces + 1
    /\ \/ /\ call[c].pc = "first"
          /\ AfterFirst(c)
       \/ /\ call[c].pc = "second"
          /\ call' = [call EXCEPT ![c].pc = "waiting", ![c].workspace = 1]
       \/ /\ call[c].pc = "third"
          /\ call' = [call EXCEPT ![c] = Reset(c, "answering", 0)]
    /\ UNCHANGED <<request, lapsed, runner, counters>>

\* The handlers are in place, and claimNow begins again.
Arm(c) ==
    /\ call[c].pc = "arming"
    /\ call' = [call EXCEPT ![c].pc = "second"]
    /\ UNCHANGED <<request, lapsed, runner, counters>>

\* Mutation: the wait has no timer.
WaitEndsSettled(c) == call[c].settled

\* A notification or an error has come, or the time is over, as it may be at
\* any moment.
WaitEnds(c) == call[c].settled \in BOOLEAN

\* The call looks a last time.
Wake(c) ==
    /\ call[c].pc = "waiting"
    /\ WaitEnds(c)
    /\ call' = [call EXCEPT ![c] = Reset(c, "third", 0)]
    /\ UNCHANGED <<request, lapsed, runner, counters>>

\* The call answers: its runner, if it still asks, has the request.
Answer(c) ==
    /\ call[c].pc = "answering"
    /\ call' = [call EXCEPT ![c] = Free]
    /\ runner' = [r \in Runners |->
           IF runner[r].call # c THEN runner[r]
           ELSE IF call[c].request = 0 THEN Ready
           ELSE [pc |-> "working", call |-> None, request |-> call[c].request]]
    /\ UNCHANGED <<request, lapsed, counters>>

-----------------------------------------------------------------------------
(* A runner with a request, and what goes wrong.                           *)

\* Mutation: the runner writes a status that the table does not have.
LaunchMisspelt(r) ==
    /\ runner[r].pc = "working"
    /\ request' = [request EXCEPT ![runner[r].request].status = "running"]
    /\ runner' = [runner EXCEPT ![r] = Ready]
    /\ UNCHANGED <<lapsed, call, counters>>

\* The runner marks its request launching, or is told that it has changed.
Launch(r) ==
    /\ runner[r].pc = "working"
    /\ request' = [q \in Requests |->
           IF q = runner[r].request /\ request[q].status = "claimed"
           THEN [request[q] EXCEPT !.status = "launching"] ELSE request[q]]
    /\ runner' = [runner EXCEPT ![r] = Ready]
    /\ UNCHANGED <<lapsed, call, counters>>

Fault == faults < MaxFaults /\ faults' = faults + 1

\* The call's session is lost: with an error, or without a sign.
LoseSession(c, sign) ==
    /\ Fault
    /\ call[c].pc \in {"second", "waiting"}
    /\ call[c].listens
    /\ call' = [call EXCEPT ![c].listens = FALSE, ![c].settled = @ \/ sign]
    /\ UNCHANGED <<request, lapsed, runner, turns>>

\* The answer is lost, or the call fails after the claim.
LoseAnswer(c) ==
    /\ Fault
    /\ call[c].pc = "answering"
    /\ call' = [call EXCEPT ![c] = Free]
    /\ runner' = [r \in Runners |-> IF runner[r].call = c THEN Ready ELSE runner[r]]
    /\ UNCHANGED <<request, lapsed, turns>>

\* The runner stops; its service starts it again.
Stop(r) ==
    /\ Fault
    /\ runner[r].pc # "down"
    /\ runner' = [runner EXCEPT ![r] = [Ready EXCEPT !.pc = "down"]]
    /\ UNCHANGED <<request, lapsed, call, turns>>

Start(r) ==
    /\ runner[r].pc = "down"
    /\ runner' = [runner EXCEPT ![r] = Ready]
    /\ UNCHANGED <<request, lapsed, call, counters>>

\* The backend restarts: its calls end.
Restart ==
    /\ Fault
    /\ call' = [c \in Calls |-> Free]
    /\ runner' = [r \in Runners |-> IF runner[r].pc = "asking" THEN Ready ELSE runner[r]]
    /\ UNCHANGED <<request, lapsed, turns>>

-----------------------------------------------------------------------------
CallStep(c) ==
    Look(c) \/ Take(c) \/ Leave(c) \/ Refuse(c) \/ NothingFound(c) \/ Arm(c) \/ Wake(c) \/ Answer(c)

RunnerStep(r) == Start(r) \/ Launch(r) \/ \E c \in Calls : Ask(r, c)

Next ==
    \/ \E q \in Requests :
        \/ \E w \in 1 .. Workspaces, for \in {Runners} \cup {{r} : r \in Runners},
              connected \in BOOLEAN : Queue(q, w, for, connected)
        \/ Turn(q)
        \/ Clear(q)
        \/ Lapse(q)
    \/ \E c \in Calls :
        \/ CallStep(c)
        \/ \E sign \in BOOLEAN : LoseSession(c, sign)
        \/ LoseAnswer(c)
    \/ \E r \in Runners : RunnerStep(r) \/ Stop(r)
    \/ Restart

Spec == Init /\ [][Next]_vars

\* A call's statements and its timer go on; a runner's loop goes on, and its
\* service starts it again; time passes.
Fairness ==
    /\ \A c \in Calls : WF_vars(CallStep(c))
    /\ \A r \in Runners : SF_vars(RunnerStep(r))
    /\ \A q \in Requests : WF_vars(Lapse(q))

FairSpec == Spec /\ Fairness

-----------------------------------------------------------------------------
(* Properties.                                                             *)

\* A call that waits, whose session is up and has not been told of anything,
\* waits beside no request that its runner may claim; but for those that were
\* there when it lost another of the same workspace, or found it without a
\* directory, and those that became claimable by their objective's state.
NoWakeIsMissed ==
    \A c \in Calls :
        call[c].pc = "waiting" /\ call[c].listens /\ ~call[c].settled
        => \A q \in Requests : Claimable(q, call[c].for) => q \in call[c].passed

\* A request whose objective stays launchable is launched, failed, cleared or
\* expired in the end: a runner that stops, a call that claims for a runner that
\* has gone, a lost session or answer delay it.
EveryRequestIsDecided ==
    \A q \in Requests :
        request[q].status \in {"queued", "claimed"}
        ~> (request[q].status \notin {"queued", "claimed"} \/ ~request[q].launchable)

=============================================================================

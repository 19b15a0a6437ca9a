-------------------------- MODULE RequestLifecycle --------------------------
(***************************************************************************)
(* What the execution-request queue promises, whatever the database and    *)
(* however many runners, operators and agents write to it at once: every   *)
(* request is claimed at most once and by one runner, a settled request is *)
(* never revived, and the session an agent linked to it stays linked.      *)
(*                                                                         *)
(* ExecutionQueue is shown to implement this module.  The status graph is  *)
(* the one packages/core/service/execution-requests.ts writes.             *)
(***************************************************************************)

CONSTANTS Requests, \* identities of execution_requests rows
          Runners,  \* execution targets that claim
          Sessions, \* identities of agent_sessions rows
          None      \* SQL NULL

VARIABLES status,   \* execution_requests.status, "none" before the INSERT
          owner,    \* claimed_by_execution_target_id
          session   \* launched_session_id

vars == <<status, owner, session>>

Active   == {"queued", "claimed", "launching"}
Linkable == {"launching", "launched"}
Settled  == {"failed", "cleared", "expired"}
Statuses == Active \cup {"launched"} \cup Settled

TypeOK ==
    /\ status  \in [Requests -> Statuses \cup {"none"}]
    /\ owner   \in [Requests -> Runners \cup {None}]
    /\ session \in [Requests -> Sessions \cup {None}]

Init ==
    /\ status  = [r \in Requests |-> "none"]
    /\ owner   = [r \in Requests |-> None]
    /\ session = [r \in Requests |-> None]

-----------------------------------------------------------------------------
\* A request is queued once.
Queue(r) ==
    /\ status[r] = "none"
    /\ status' = [status EXCEPT ![r] = "queued"]
    /\ UNCHANGED <<owner, session>>

\* A queued request is claimed by one runner, who owns it from then on.
Claim(r, p) ==
    /\ status[r] = "queued"
    /\ status' = [status EXCEPT ![r] = "claimed"]
    /\ owner'  = [owner EXCEPT ![r] = p]
    /\ UNCHANGED session

\* The owner opens the launch, and reports it done.  A mutation request may be
\* reported done without the launch having been opened.
Advance(r, from, to) ==
    /\ <<from, to>> \in {<<"claimed", "launching">>,
                         <<"launching", "launched">>,
                         <<"claimed", "launched">>}
    /\ status[r] = from
    /\ status' = [status EXCEPT ![r] = to]
    /\ UNCHANGED <<owner, session>>

\* The requests of R, every one of them still undecided, are settled at once:
\* active ones fail or are cleared; a stale claim, or a launch no agent
\* attached to, expires.
Settle(R, to) ==
    /\ \A r \in R :
          \/ to \in {"failed", "cleared"} /\ status[r] \in Active
          \/ to = "expired" /\ status[r] = "claimed"
          \/ to = "expired" /\ status[r] = "launched" /\ session[r] = None
    /\ status' = [r \in Requests |-> IF r \in R THEN to ELSE status[r]]
    /\ UNCHANGED <<owner, session>>

\* The launched agent's session is recorded on the request, once.
Link(r, s) ==
    /\ status[r] \in Linkable
    /\ session[r] = None
    /\ session' = [session EXCEPT ![r] = s]
    /\ UNCHANGED <<status, owner>>

Next ==
    \/ \E r \in Requests : Queue(r)
    \/ \E r \in Requests, p \in Runners : Claim(r, p)
    \/ \E r \in Requests, from, to \in Statuses : Advance(r, from, to)
    \/ \E R \in SUBSET Requests, to \in Settled : Settle(R, to)
    \/ \E r \in Requests, s \in Sessions : Link(r, s)

Spec == Init /\ [][Next]_vars

=============================================================================

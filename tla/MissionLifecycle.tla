--------------------------- MODULE MissionLifecycle ---------------------------
(***************************************************************************)
(* The objectives of one mission and the agent sessions that run them: the *)
(* protocol calls of agents (packages/core/service/protocol.ts, with the   *)
(* helpers of missions.ts) and the calls of users (backend/repository.ts   *)
(* and execution/launch.ts).                                               *)
(*                                                                         *)
(* The database is the SQLite client, which runs one transaction at a      *)
(* time: a transaction is one step.  A statement outside a transaction is  *)
(* a step of its own, so the objective that attach picks, the session that *)
(* deliver looks up and the whole tail of deliver (the draft slot and the  *)
(* auto-advance, made after its transaction has committed) can be          *)
(* overtaken.  Each caller makes one call at a time; with a single caller  *)
(* calls do not overlap.                                                   *)
(*                                                                         *)
(* Of the execution requests only those that are active matter here,       *)
(* ExecutionQueue has the rest of the queue: queued is the set of          *)
(* objectives with an active request.  Titles, agents, completed_at, the   *)
(* board column of the mission and the position field of a PATCH, which no *)
(* client sends, are left out.                                             *)
(***************************************************************************)
EXTENDS Naturals, FiniteSets

CONSTANTS MaxObjectives, \* bound on the objective rows
          Sessions,      \* bound on agent_sessions rows
          Callers,       \* calls in progress at a time
          None,          \* no objective, no session
          CreateStates,  \* objective states that clients create
          PatchStates,   \* objective states that clients PATCH
          AutoAdvance,   \* values of auto_advance that clients send
          Calls          \* the calls that this instance makes

VARIABLES objectives, \* the rows of the mission
          sessions,   \* agent_sessions
          queued,     \* objectives with an active execution request
          keyed,      \* objectives whose auto_advance idempotency key is used
          call        \* what each caller is doing

vars == <<objectives, sessions, queued, keyed, call>>

-----------------------------------------------------------------------------
Objectives == 1..MaxObjectives

OBJECTIVE_STATES == {"future", "draft", "submitted", "launching",
                     "executing", "pending_delivery", "complete"}
LAUNCHABLE_STATES == {"draft", "submitted", "launching"}
ACTIVE_SIBLING_OBJECTIVE_STATES == {"launching", "executing", "pending_delivery"}
DISCONNECT_FROM_STATES == {"launching", "executing", "pending_delivery"}

CallNames == {"attach", "deliver", "resume", "followUp", "discuss",
              "add", "launch", "state", "text", "autoAdvance", "delete", "reorder"}

ASSUME MissionConstants ==
    /\ MaxObjectives \in Nat
    /\ CreateStates \subseteq OBJECTIVE_STATES
    /\ PatchStates \subseteq OBJECTIVE_STATES
    /\ AutoAdvance \subseteq BOOLEAN
    /\ Calls \subseteq CallNames
    /\ None \notin Nat \cup Sessions

Objective == [state   : OBJECTIVE_STATES \cup {"none"},
              pos     : Nat,
              text    : BOOLEAN,  \* instruction_text is not blank
              auto    : BOOLEAN,  \* auto_advance
              deleted : BOOLEAN]

NoObjective == [state |-> "none", pos |-> 0, text |-> FALSE, auto |-> FALSE,
                deleted |-> FALSE]

Session == [objective : Objectives \cup {None}, open : BOOLEAN]

\* Where a call is, and what it carries from one step to the next.
Steps == {"none", "attach", "deliver", "drafts", "future", "discard", "promote",
          "slot", "position", "insert", "advance", "launch", "queue", "resume",
          "discuss", "followUp"}

Call == [step      : Steps,
         objective : Objectives \cup {None},
         session   : Sessions \cup {None},
         drafts    : SUBSET Objectives,
         next      : Objectives \cup {None},
         state     : {"draft", "future"},
         pos       : Nat]

NoCall == [step |-> "none", objective |-> None, session |-> None,
           drafts |-> {}, next |-> None, state |-> "draft", pos |-> 0]

TypeOK ==
    /\ objectives \in [Objectives -> Objective]
    /\ sessions \in [Sessions -> Session]
    /\ queued \in SUBSET Objectives
    /\ keyed \in SUBSET Objectives
    /\ call \in [Callers -> Call]

Init ==
    /\ objectives = [o \in Objectives |-> NoObjective]
    /\ sessions = [s \in Sessions |-> [objective |-> None, open |-> FALSE]]
    /\ queued = {}
    /\ keyed = {}
    /\ call = [c \in Callers |-> NoCall]

-----------------------------------------------------------------------------
(***************************************************************************)
(* Rows.  f is the table before or after a statement.                      *)
(***************************************************************************)

Live(f) == {o \in Objectives : f[o].state # "none" /\ ~f[o].deleted}

In(f, states) == {o \in Live(f) : f[o].state \in states}

\* ORDER BY position LIMIT 1.
FirstOf(f, S) == {o \in S : \A p \in S : f[o].pos <= f[p].pos}

\* MAX(position) + 1 of the live rows.
NextPosition(f) ==
    IF Live(f) = {} THEN 0
    ELSE 1 + (CHOOSE m \in {f[o].pos : o \in Live(f)} :
                 \A o \in Live(f) : f[o].pos <= m)

\* Mutation: there is no unique index.
FitsAnywhere(f) == TRUE

\* UNIQUE (mission_id, position) WHERE deleted_at IS NULL.
Fits(f) == \A a, b \in Live(f) : a # b => f[a].pos # f[b].pos

\* The next free row.
NewRow(f, o) ==
    /\ f[o].state = "none"
    /\ \A p \in 1..(o - 1) : f[p].state # "none"

Drafts == In(objectives, {"draft"})

\* Mutation: nobody looks for a draft.
ResolvedAsRequested(f, requested) == requested

\* requested 'draft' becomes 'future' when there is a draft.
ResolvedState(f, requested) ==
    IF requested = "draft" /\ In(f, {"draft"}) # {} THEN "future" ELSE requested

Blank(pos) == [NoObjective EXCEPT !.state = "draft", !.pos = pos]

\* Mutation: the draft is replaced whether it has a text or not.
RefilledOverText(f, g) ==
    IF In(f, {"future"}) # {}
    THEN \E n \in FirstOf(f, In(f, {"future"})) :
            g = [o \in Objectives |->
                   IF o \in In(f, {"draft"}) THEN [f[o] EXCEPT !.deleted = TRUE]
                   ELSE IF o = n THEN [f[o] EXCEPT !.state = "draft"] ELSE f[o]]
    ELSE IF In(f, {"draft"}) # {} THEN g = f
    ELSE \E o \in Objectives :
            NewRow(f, o) /\ g = [f EXCEPT ![o] = Blank(NextPosition(f))]

\* ensureNextDraftObjective, and ensureDraftSlotAfterObjectiveLeavesQueue, in
\* the transaction of their caller: g is f with the next-up slot restored.  A
\* draft with text is the slot; else the first future objective replaces the
\* blank drafts; else a blank draft is inserted.
Refilled(f, g) ==
    LET drafts == In(f, {"draft"})
        future == In(f, {"future"})
    IN  IF \E d \in drafts : f[d].text THEN g = f
        ELSE IF future # {}
        THEN \E n \in FirstOf(f, future) :
                g = [o \in Objectives |->
                       IF o \in drafts THEN [f[o] EXCEPT !.deleted = TRUE]
                       ELSE IF o = n THEN [f[o] EXCEPT !.state = "draft"] ELSE f[o]]
        ELSE IF drafts # {} THEN g = f
        ELSE \E o \in Objectives :
                NewRow(f, o) /\ g = [f EXCEPT ![o] = Blank(NextPosition(f))]

EndSessions(o) ==
    [s \in Sessions |-> IF sessions[s].objective = o
                        THEN [sessions[s] EXCEPT !.open = FALSE] ELSE sessions[s]]

Unused(s) == sessions[s].objective = None

OpenSession(s, o) ==
    sessions' = [sessions EXCEPT ![s] = [objective |-> o, open |-> TRUE]]

Idle(c) == call[c].step = "none"

Enter(c, next) == call' = [call EXCEPT ![c] = next]

Goto(c, step) == Enter(c, [call[c] EXCEPT !.step = step])

End(c) == Enter(c, NoCall)

-----------------------------------------------------------------------------
(***************************************************************************)
(* attachSession (and connectSession).                                     *)
(***************************************************************************)

\* resolveActiveObjective: the groups in the order they are tried.
Preference == <<{"executing"}, {"launching"}, {"pending_delivery"}, {"draft"},
                OBJECTIVE_STATES \ {"complete"}>>

ActiveObjective(o) ==
    \E i \in 1..5 :
        /\ o \in FirstOf(objectives, In(objectives, Preference[i]))
        /\ \A j \in 1..(i - 1) : In(objectives, Preference[j]) = {}

\* The objective is picked before the transaction.
AttachPick(c) ==
    /\ Idle(c)
    /\ \E o \in Objectives :
          /\ ActiveObjective(o)
          /\ Enter(c, [NoCall EXCEPT !.step = "attach", !.objective = o])
    /\ UNCHANGED <<objectives, sessions, queued, keyed>>

\* Mutation: the slot is not restored.
AttachWithoutRefill(c, s) ==
    /\ call[c].step = "attach" /\ Unused(s)
    /\ LET o == call[c].objective
       IN  /\ objectives' = [objectives EXCEPT ![o].state = "executing"]
           /\ OpenSession(s, o)
    /\ End(c)
    /\ UNCHANGED <<queued, keyed>>

\* The row is set to executing whatever it has become.  The link of the request
\* leaves its status alone.
Attach(c, s) ==
    /\ call[c].step = "attach" /\ Unused(s)
    /\ LET o == call[c].objective
       IN  /\ Refilled([objectives EXCEPT ![o].state = "executing"], objectives')
           /\ OpenSession(s, o)
    /\ End(c)
    /\ UNCHANGED <<queued, keyed>>

-----------------------------------------------------------------------------
(***************************************************************************)
(* deliverSession: the transaction, and the tail of single statements.     *)
(***************************************************************************)

\* getSessionByKey finds the session open.
DeliverLookUp(c, s) ==
    /\ Idle(c) /\ sessions[s].open
    /\ Enter(c, [NoCall EXCEPT !.step = "deliver", !.session = s,
                               !.objective = sessions[s].objective])
    /\ UNCHANGED <<objectives, sessions, queued, keyed>>

\* Mutation: a state the column's CHECK does not list.
DeliverMisspelt(c) ==
    /\ call[c].step = "deliver"
    /\ objectives' = [objectives EXCEPT ![call[c].objective].state = "completed"]
    /\ sessions' = [sessions EXCEPT ![call[c].session].open = FALSE]
    /\ Goto(c, "drafts")
    /\ UNCHANGED <<queued, keyed>>

\* The row is completed and the session ended, whatever they have become.
Deliver(c) ==
    /\ call[c].step = "deliver"
    /\ objectives' = [objectives EXCEPT ![call[c].objective].state = "complete"]
    /\ sessions' = [sessions EXCEPT ![call[c].session].open = FALSE]
    /\ Goto(c, "drafts")
    /\ UNCHANGED <<queued, keyed>>

\* ensureNextDraftObjective outside a transaction, one statement at a time.
RefillDrafts(c) ==
    /\ call[c].step = "drafts"
    /\ IF \E d \in Drafts : objectives[d].text
       THEN Goto(c, "advance")
       ELSE Enter(c, [call[c] EXCEPT !.step = "future", !.drafts = Drafts])
    /\ UNCHANGED <<objectives, sessions, queued, keyed>>

RefillFuture(c) ==
    /\ call[c].step = "future"
    /\ LET future == In(objectives, {"future"})
       IN  IF future # {}
           THEN \E n \in FirstOf(objectives, future) :
                   Enter(c, [call[c] EXCEPT
                               !.step = IF call[c].drafts = {} THEN "promote" ELSE "discard",
                               !.next = n])
           ELSE Goto(c, IF call[c].drafts = {} THEN "slot" ELSE "advance")
    /\ UNCHANGED <<objectives, sessions, queued, keyed>>

\* The drafts that were read are deleted, whatever they have become.  The code has
\* a statement for each; there is more than one only where drafts were doubled.
RefillDiscard(c) ==
    /\ call[c].step = "discard"
    /\ objectives' = [o \in Objectives |->
                        IF o \in call[c].drafts
                        THEN [objectives[o] EXCEPT !.deleted = TRUE] ELSE objectives[o]]
    /\ Goto(c, "promote")
    /\ UNCHANGED <<sessions, queued, keyed>>

RefillPromote(c) ==
    /\ call[c].step = "promote"
    /\ objectives' = [objectives EXCEPT ![call[c].next].state = "draft"]
    /\ Goto(c, "advance")
    /\ UNCHANGED <<sessions, queued, keyed>>

\* insertObjective: is there a draft, where is the end, and the INSERT, which
\* the unique index refuses when the place was taken meanwhile.  The call then
\* fails, with the delivery committed.
RefillSlot(c) ==
    /\ call[c].step = "slot"
    /\ Enter(c, [call[c] EXCEPT !.step = "position",
                                !.state = ResolvedState(objectives, "draft")])
    /\ UNCHANGED <<objectives, sessions, queued, keyed>>

RefillPosition(c) ==
    /\ call[c].step = "position"
    /\ Enter(c, [call[c] EXCEPT !.step = "insert", !.pos = NextPosition(objectives)])
    /\ UNCHANGED <<objectives, sessions, queued, keyed>>

RefillInsert(c) ==
    /\ call[c].step = "insert"
    /\ \E o \in Objectives :
          LET f == [objectives EXCEPT ![o] =
                      [Blank(call[c].pos) EXCEPT !.state = call[c].state]]
          IN  /\ NewRow(objectives, o)
              /\ IF Fits(f) THEN objectives' = f /\ Goto(c, "advance")
                            ELSE End(c) /\ UNCHANGED objectives
    /\ UNCHANGED <<sessions, queued, keyed>>

\* The first draft below the delivered objective.  The query does not look at
\* deleted_at.  Without auto_advance a user is asked and the call is over.
AdvanceRead(c) ==
    /\ call[c].step = "advance"
    /\ LET below == {o \in Objectives :
                       /\ objectives[o].state = "draft"
                       /\ objectives[o].pos > objectives[call[c].objective].pos}
       IN  IF below = {} THEN End(c)
           ELSE \E n \in FirstOf(objectives, below) :
                   IF objectives[n].auto
                   THEN Enter(c, [call[c] EXCEPT !.step = "launch", !.next = n])
                   ELSE End(c)
    /\ UNCHANGED <<objectives, sessions, queued, keyed>>

AdvanceLaunch(c) ==
    /\ call[c].step = "launch"
    /\ objectives' = [objectives EXCEPT ![call[c].next].state = "launching"]
    /\ Goto(c, "queue")
    /\ UNCHANGED <<sessions, queued, keyed>>

\* createExecutionRequest: the request of an earlier advance is returned as it
\* is, whatever its status; else a request is queued.
AdvanceQueue(c) ==
    /\ call[c].step = "queue"
    /\ LET n == call[c].next
       IN  /\ objectives[n].state \in LAUNCHABLE_STATES
           /\ IF n \in keyed THEN UNCHANGED <<queued, keyed>>
              ELSE /\ queued' = queued \cup {n}
                   /\ keyed' = keyed \cup {n}
    /\ End(c)
    /\ UNCHANGED <<objectives, sessions>>

\* The target or the launch configuration does not resolve, or the objective was
\* moved out of the launchable states: the error becomes an alert of the mission.
AdvanceFails(c) ==
    /\ call[c].step = "queue"
    /\ End(c)
    /\ UNCHANGED <<objectives, sessions, queued, keyed>>

-----------------------------------------------------------------------------
(***************************************************************************)
(* resumeFollowUp, updateSession with beginFollowUpWork, discussObjective. *)
(***************************************************************************)

\* Any complete objective may be named, unless the mission is at work.
ResumePick(c) ==
    /\ Idle(c)
    /\ In(objectives, {"executing", "pending_delivery"}) = {}
    /\ \E o \in In(objectives, {"complete"}) :
          Enter(c, [NoCall EXCEPT !.step = "resume", !.objective = o])
    /\ UNCHANGED <<objectives, sessions, queued, keyed>>

\* WHERE state = 'complete'; the session is opened even if no row matched.
Resume(c, s) ==
    /\ call[c].step = "resume" /\ Unused(s)
    /\ LET o == call[c].objective
       IN  /\ objectives' = IF objectives[o].state = "complete"
                            THEN [objectives EXCEPT ![o].state = "pending_delivery"]
                            ELSE objectives
           /\ OpenSession(s, o)
    /\ End(c)
    /\ UNCHANGED <<queued, keyed>>

FollowUpLookUp(c, s) ==
    /\ Idle(c) /\ sessions[s].open
    /\ Enter(c, [NoCall EXCEPT !.step = "followUp", !.objective = sessions[s].objective])
    /\ UNCHANGED <<objectives, sessions, queued, keyed>>

FollowUp(c) ==
    /\ call[c].step = "followUp"
    /\ objectives' = [objectives EXCEPT ![call[c].objective].state = "pending_delivery"]
    /\ End(c)
    /\ UNCHANGED <<sessions, queued, keyed>>

DiscussPick(c) ==
    /\ Idle(c)
    /\ \E o \in FirstOf(objectives, Drafts) :
          Enter(c, [NoCall EXCEPT !.step = "discuss", !.objective = o])
    /\ UNCHANGED <<objectives, sessions, queued, keyed>>

Discuss(c) ==
    /\ call[c].step = "discuss"
    /\ objectives' = [objectives EXCEPT ![call[c].objective].state = "launching"]
    /\ End(c)
    /\ UNCHANGED <<sessions, queued, keyed>>

-----------------------------------------------------------------------------
(***************************************************************************)
(* Users.  Each of these is one transaction.                               *)
(***************************************************************************)

\* createObjective, addObjectivesToMission.
AddObjective(c, requested, text, auto) ==
    /\ Idle(c)
    /\ LET state == ResolvedState(objectives, requested)
       IN  /\ text \/ state \in {"draft", "future"}
           /\ \E o \in Objectives :
                 /\ NewRow(objectives, o)
                 /\ objectives' = [objectives EXCEPT ![o] =
                      [state |-> state, pos |-> NextPosition(objectives),
                       text |-> text, auto |-> auto, deleted |-> FALSE]]
    /\ UNCHANGED <<sessions, queued, keyed, call>>

\* launchObjective.
Launch(c, o) ==
    /\ Idle(c)
    /\ o \in In(objectives, LAUNCHABLE_STATES)
    /\ In(objectives, ACTIVE_SIBLING_OBJECTIVE_STATES) \subseteq {o}
    /\ objectives' = IF objectives[o].state = "draft"
                     THEN [objectives EXCEPT ![o].state = "launching"]
                     ELSE objectives
    /\ queued' = queued \cup {o}
    /\ UNCHANGED <<sessions, keyed, call>>

\* The request is launched, fails, expires or is cleared (ExecutionQueue).
RequestSettles(o) ==
    /\ o \in queued
    /\ queued' = queued \ {o}
    /\ UNCHANGED <<objectives, sessions, keyed, call>>

\* dequeueObjective.
Dequeue(o) ==
    /\ queued' = queued \ {o}
    /\ sessions' = EndSessions(o)

\* Mutation: the other drafts stay drafts.
DemotedNone(o) == objectives

\* The other drafts go back to the future group.
Demoted(o) ==
    [p \in Objectives |-> IF p \in Drafts \ {o}
                          THEN [objectives[p] EXCEPT !.state = "future"]
                          ELSE objectives[p]]

\* Mutation: the rows at the slot and above make room only.
SplicedPastSlot(f, o, slot) ==
    [p \in Objectives |->
        IF p = o THEN [f[p] EXCEPT !.pos = slot]
        ELSE IF p \in Live(f) /\ f[p].pos > slot /\ f[p].pos < f[o].pos
        THEN [f[p] EXCEPT !.pos = @ + 1] ELSE f[p]]

\* Mutation: the objective lands behind the draft it replaces.
SplicedBehind(f, o, slot) ==
    [p \in Objectives |->
        IF p = o THEN [f[p] EXCEPT !.pos = slot + 1]
        ELSE IF p \in Live(f) /\ f[p].pos > slot /\ f[p].pos < f[o].pos
        THEN [f[p] EXCEPT !.pos = @ + 1] ELSE f[p]]

\* applyObjectivePositionUpdates for a promotion: o takes the slot, the rows
\* from there down to its old place move down by one.
Spliced(f, o, slot) ==
    [p \in Objectives |->
        IF p = o THEN [f[p] EXCEPT !.pos = slot]
        ELSE IF p \in Live(f) /\ f[p].pos >= slot /\ f[p].pos < f[o].pos
        THEN [f[p] EXCEPT !.pos = @ + 1] ELSE f[p]]

\* The positions after objective o was PATCHed to draft: a future objective
\* that replaces drafts goes in front of the first of them.
Promoted(o) ==
    LET others == Drafts \ {o}
        f      == Demoted(o)
    IN  IF objectives[o].state = "future" /\ others # {}
        THEN LET slot == CHOOSE m \in {f[d].pos : d \in others} :
                            \A d \in others : m <= f[d].pos
             IN  IF f[o].pos > slot THEN Spliced(f, o, slot) ELSE f
        ELSE f

\* updateObjectiveTx with a state.
PatchState(c, o, state) ==
    /\ Idle(c)
    /\ o \in Live(objectives)
    /\ ~(objectives[o].state = "complete" /\ state = "future")
    /\ LET from == objectives[o].state
           f    == IF state = "draft" THEN Promoted(o) ELSE objectives
           g    == [f EXCEPT ![o].state = state]
           disconnecting == state = "submitted" /\ from \in DISCONNECT_FROM_STATES
       IN  /\ Fits(g)
           /\ IF state = "executing" /\ from \in {"draft", "future", "submitted", "launching"}
              THEN Refilled(g, objectives') ELSE objectives' = g
           /\ IF state # from /\ (disconnecting \/ state \notin LAUNCHABLE_STATES)
              THEN Dequeue(o) ELSE UNCHANGED <<queued, sessions>>
    /\ UNCHANGED <<keyed, call>>

\* updateObjectiveTx with an instruction text: locked once execution began.
PatchText(c, o, text) ==
    /\ Idle(c)
    /\ o \in In(objectives, LAUNCHABLE_STATES \cup {"future"})
    /\ text \/ objectives[o].state \in {"draft", "future"}
    /\ objectives' = [objectives EXCEPT ![o].text = text]
    /\ UNCHANGED <<sessions, queued, keyed, call>>

PatchAutoAdvance(c, o, auto) ==
    /\ Idle(c)
    /\ o \in Live(objectives)
    /\ objectives' = [objectives EXCEPT ![o].auto = auto]
    /\ UNCHANGED <<sessions, queued, keyed, call>>

DeleteObjective(c, o) ==
    /\ Idle(c)
    /\ o \in Live(objectives)
    /\ objectives' = [objectives EXCEPT ![o].deleted = TRUE]
    /\ Dequeue(o)
    /\ UNCHANGED <<keyed, call>>

\* The orders in which objectives of the future group can be sent.
Orders(G) == {r \in [G -> 0..(Cardinality(G) - 1)] :
                 \A a, b \in G : a # b => r[a] # r[b]}

\* Numbered from the first position they hold.
Reordered(rank) ==
    LET G    == DOMAIN rank
        base == CHOOSE m \in {objectives[o].pos : o \in G} :
                   \A o \in G : m <= objectives[o].pos
    IN  [o \in Objectives |-> IF o \in G
                              THEN [objectives[o] EXCEPT !.pos = base + rank[o]]
                              ELSE objectives[o]]

\* reorderFutureObjectives of all or some of the group; the unique index refuses
\* what does not fit.
ReorderFuture(c) ==
    /\ Idle(c)
    /\ \E G \in SUBSET In(objectives, {"future"}) :
          /\ G # {}
          /\ \E rank \in Orders(G) :
                /\ Fits(Reordered(rank))
                /\ objectives' = Reordered(rank)
    /\ UNCHANGED <<sessions, queued, keyed, call>>

-----------------------------------------------------------------------------
\* A statement of the call is refused, or the backend stops.
Abort(c) ==
    /\ ~Idle(c)
    /\ End(c)
    /\ UNCHANGED <<objectives, sessions, queued, keyed>>

\* A call begins only if the instance makes it.
Begin(c) ==
    \/ "attach" \in Calls /\ AttachPick(c)
    \/ "deliver" \in Calls /\ \E s \in Sessions : DeliverLookUp(c, s)
    \/ "resume" \in Calls /\ ResumePick(c)
    \/ "followUp" \in Calls /\ \E s \in Sessions : FollowUpLookUp(c, s)
    \/ "discuss" \in Calls /\ DiscussPick(c)

Continue(c) ==
    \/ \E s \in Sessions : Attach(c, s) \/ Resume(c, s)
    \/ Deliver(c)
    \/ RefillDrafts(c) \/ RefillFuture(c) \/ RefillDiscard(c) \/ RefillPromote(c)
    \/ RefillSlot(c) \/ RefillPosition(c) \/ RefillInsert(c)
    \/ AdvanceRead(c) \/ AdvanceLaunch(c) \/ AdvanceQueue(c) \/ AdvanceFails(c)
    \/ FollowUp(c) \/ Discuss(c)
    \/ Abort(c)

UserStep(c) ==
    \/ /\ "add" \in Calls
       /\ \E state \in CreateStates, text \in BOOLEAN, auto \in AutoAdvance :
             AddObjective(c, state, text, auto)
    \/ \E o \in Objectives :
          \/ "launch" \in Calls /\ Launch(c, o)
          \/ "state" \in Calls /\ \E state \in PatchStates : PatchState(c, o, state)
          \/ "text" \in Calls /\ \E text \in BOOLEAN : PatchText(c, o, text)
          \/ "autoAdvance" \in Calls /\ \E auto \in AutoAdvance : PatchAutoAdvance(c, o, auto)
          \/ "delete" \in Calls /\ DeleteObjective(c, o)
    \/ "reorder" \in Calls /\ ReorderFuture(c)

Next ==
    \/ \E c \in Callers : Begin(c) \/ Continue(c) \/ UserStep(c)
    \/ \E o \in Objectives : RequestSettles(o)

Spec == Init /\ [][Next]_vars

-----------------------------------------------------------------------------
(***************************************************************************)
(* Properties.                                                             *)
(***************************************************************************)

\* "At most one draft per mission" (objective-lifecycle.md, invariant 1): adding,
\* promoting, demoting, refilling and attaching keep it, one call at a time.
AtMostOneDraft == Cardinality(Drafts) <= 1

\* Whatever calls overlap, a second draft comes from one place only: the
\* statements that deliver makes after its transaction.
DraftsDoubledByDeliverOnly ==
    [][(Cardinality(Drafts) <= 1 /\ Cardinality(Drafts') > 1)
       => \E c \in Callers : RefillPromote(c) \/ RefillInsert(c)]_vars

\* An objective somebody wrote a text for goes away only when a user deletes it;
\* the refill deletes blank slots ("drafts.some(draft =>
\* draft.instruction_text.trim())").
TextIsKept ==
    [][\A o \in Live(objectives) :
          (objectives[o].text /\ o \notin Live(objectives)')
          => \E c \in Callers : DeleteObjective(c, o)]_vars

\* A promotion to draft is never refused by the unique index: the splice leaves
\* distinct positions, whatever gaps deletions and reorders made.
SplicesFit == \A o \in In(objectives, {"future"}) : Fits(Promoted(o))

\* After an attach there is a draft to type the next objective into, whatever
\* happened to the objective between the pick and the transaction.
AttachRefills ==
    [][\A c \in Callers, s \in Sessions : Attach(c, s) => Drafts' # {}]_vars

\* The pairs of live objectives with the first above the second.
Above == {pair \in Live(objectives) \X Live(objectives) :
             objectives[pair[1]].pos < objectives[pair[2]].pos}

\* The positions implement the order that ObjectiveOrder promises.  The draft
\* that deliver inserts goes where the end was when it looked, which is in front
\* of an objective that another call added since.
Order == INSTANCE ObjectiveOrder
            WITH live <- Live(objectives), parked <- In(objectives, {"future"}),
                 before <- Above, Overlapping <- \E c, d \in Callers : c # d

ImplementsOrder == Order!Spec

-----------------------------------------------------------------------------
(***************************************************************************)
(* What the documentation says of objectives and the code does not do.     *)
(***************************************************************************)

\* A reorder is never refused: the group is renumbered "so they keep sitting
\* after any non-future objectives" (reorderFutureObjectives).
ReorderFits ==
    LET future == In(objectives, {"future"})
    IN  future # {} => \A rank \in Orders(future) : Fits(Reordered(rank))

\* "inspect the lowest-position draft on the mission ... draft.auto_advance ->
\* launching" (objective-lifecycle.md, 5.6): the auto-advance decision picks the
\* first draft below the delivered objective, if it asks for it.
AdvanceTakesNextDraft ==
    [][\A c \in Callers :
          AdvanceRead(c) =>
             LET below == {o \in Drafts :
                             objectives[o].pos > objectives[call[c].objective].pos}
             IN  \A n \in FirstOf(objectives, below) :
                    objectives[n].auto => call'[c].next = n]_vars

\* "draft -> launching, insert queued execution request" (objective-lifecycle.md,
\* 5.6): an auto-advance that succeeds leaves the objective with a request that a
\* runner will find.
RerunIsQueued ==
    [][\A c \in Callers : AdvanceQueue(c) => call[c].next \in queued']_vars

=============================================================================

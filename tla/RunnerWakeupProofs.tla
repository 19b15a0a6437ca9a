------------------------- MODULE RunnerWakeupProofs -------------------------
(***************************************************************************)
(* Theorems about RunnerWakeup, for every number of runners, calls,        *)
(* workspaces, requests and faults.                                        *)
(***************************************************************************)
EXTENDS RunnerWakeup, TLAPS

Scanning == {"first", "second", "third"}

\* Claimable, of the rows of a state.
ClaimableOf(rows, q, r) ==
    /\ rows[q].status = "queued"
    /\ rows[q].launchable
    /\ r \in rows[q].for

\* What a call's record x says of the rows of the requests.  While it looks for
\* the second time it has been told of, or has left, what it may claim in the
\* workspaces behind it; when it waits there are no others.
CallOK(x, rows) ==
    /\ x \in Call
    /\ x.pc = "arming" => x.workspace = 1
    /\ x.pc \in Scanning /\ x.request # 0 => x.workspace =< Workspaces
    /\ x.pc = "second" /\ x.listens /\ ~x.settled
       => \A q \in Requests : /\ ClaimableOf(rows, q, x.for)
                              /\ rows[q].workspace < x.workspace
                              => q \in x.passed
    /\ x.pc = "waiting" /\ x.listens /\ ~x.settled
       => \A q \in Requests : ClaimableOf(rows, q, x.for) => q \in x.passed

RestOK ==
    /\ request \in [Requests -> Row]
    /\ lapsed \in SUBSET Requests
    /\ runner \in [Runners -> Runner]
    /\ faults \in Nat
    /\ turns \in Nat

CallsOK ==
    /\ call \in [Calls -> Call]
    /\ \A c \in Calls : CallOK(call[c], request)

IInv == RestOK /\ CallsOK

LEMMA Meaning == IInv => TypeOK /\ NoWakeIsMissed
BY DEF IInv, RestOK, CallsOK, CallOK, TypeOK, NoWakeIsMissed, Claimable, ClaimableOf

LEMMA Numbers == /\ 1 \in 1 .. Workspaces + 1 /\ 1 \in 1 .. Workspaces
                 /\ 0 \in 0 .. MaxRequests /\ Workspaces \in Nat /\ MaxRequests \in Nat
                 /\ \A q \in Requests : q \in 0 .. MaxRequests /\ q # 0
BY RunnerWakeupConstants DEF Requests

LEMMA FreeOK == /\ \A rows : CallOK(Free, rows)
                /\ Free \in Call /\ Free.pc = "free" /\ Free.for = None
BY Numbers DEF Free, Call, CallOK, Scanning

LEMMA ReadyType == Ready \in Runner /\ [Ready EXCEPT !.pc = "down"] \in Runner
BY Numbers DEF Ready, Runner

LEMMA InitInv == Init => IInv
<1> SUFFICES ASSUME Init PROVE IInv
  OBVIOUS
<1>1. request \in [Requests -> Row]
  BY Numbers DEF Init, Row
<1>2. RestOK
  BY <1>1, ReadyType DEF Init, RestOK
<1>3. call = [c \in Calls |-> Free]
  BY DEF Init
<1>4. CallsOK
  BY <1>3, FreeOK DEF CallsOK
<1> QED BY <1>2, <1>4 DEF IInv

-----------------------------------------------------------------------------
\* The requests that are not as they were are not queued.
OnlyLeave(rows, later) ==
    \A q \in Requests : later[q] = rows[q] \/ later[q].status # "queued"

\* What a call waits beside does not grow when requests only leave the queue.
LEMMA Shrinks ==
    ASSUME NEW x, NEW rows, NEW later, CallOK(x, rows), OnlyLeave(rows, later)
    PROVE  CallOK(x, later)
BY DEF CallOK, ClaimableOf, OnlyLeave

\* A step of one call, beside which requests only leave the queue.
LEMMA OneCall ==
    ASSUME IInv, NEW c \in Calls, NEW x, CallOK(x, request'), call' = [call EXCEPT ![c] = x],
           OnlyLeave(request, request')
    PROVE  CallsOK'
<1>1. call \in [Calls -> Call] /\ \A d \in Calls : CallOK(call[d], request)
  BY DEF IInv, CallsOK
<1>2. \A d \in Calls : call'[d] = IF d = c THEN x ELSE call[d]
  BY <1>1
<1>3. x \in Call
  BY DEF CallOK
<1>4. \A d \in Calls : CallOK(call'[d], request')
  BY <1>1, <1>2, Shrinks
<1> QED BY <1>1, <1>3, <1>4 DEF CallsOK

\* A step of no call.
LEMMA NoCall ==
    ASSUME IInv, call' = call, OnlyLeave(request, request')
    PROVE  CallsOK'
<1>1. call \in [Calls -> Call] /\ \A d \in Calls : CallOK(call[d], request)
  BY DEF IInv, CallsOK
<1> QED BY <1>1, Shrinks DEF CallsOK

LEMMA SameRequests == request' = request => OnlyLeave(request, request')
BY DEF OnlyLeave

\* A request that takes a status which is not queued.
LEMMA RowLeaves ==
    ASSUME RestOK, NEW q \in Requests, NEW s \in {"claimed", "launching", "failed", "cleared"},
           request' = [request EXCEPT ![q].status = s]
    PROVE  request' \in [Requests -> Row] /\ OnlyLeave(request, request')
BY DEF RestOK, Row, OnlyLeave

\* A call that goes on with another pc than second and waiting.
LEMMA ResetOK ==
    ASSUME IInv, NEW c \in Calls, NEW pc \in {"first", "arming", "third", "answering"},
           NEW q \in 0 .. MaxRequests, NEW rows, q = 0 \/ pc = "answering"
    PROVE  CallOK(Reset(c, pc, q), rows)
<1>1. call[c] \in Call
  BY DEF IInv, CallsOK
<1>2. call[c].for \in Runners \cup {None}
  BY <1>1 DEF Call
<1> QED BY <1>2, Numbers DEF Reset, Free, Call, CallOK, Scanning

-----------------------------------------------------------------------------
(* The queue.                                                              *)

LEMMA QueueInv ==
    ASSUME IInv, NEW q \in Requests, NEW w \in 1 .. Workspaces, NEW for \in SUBSET Runners,
           NEW connected \in BOOLEAN, Queue(q, w, for, connected)
    PROVE  IInv'
<1> DEFINE row == [status |-> "queued", workspace |-> w, for |-> for,
                   connected |-> connected, launchable |-> TRUE]
<1>1. row \in Row
  BY DEF Row
<1>2. request' = [request EXCEPT ![q] = row] /\ UNCHANGED <<lapsed, runner, counters>>
  BY DEF Queue
<1> HIDE DEF row
<1>3. request' \in [Requests -> Row] /\ \A p \in Requests : p # q => request'[p] = request[p]
  BY <1>1, <1>2 DEF IInv, RestOK
<1>4. RestOK'
  BY <1>2, <1>3 DEF IInv, RestOK, counters
<1>5. PICK deaf \in SUBSET {c \in Calls : call[c].pc = "arming"} :
          call' = [c \in Calls |-> IF call[c].listens /\ c \notin deaf
                                   THEN [call[c] EXCEPT !.settled = TRUE] ELSE call[c]]
  BY DEF Queue
<1>6. ASSUME NEW c \in Calls
      PROVE  call'[c] \in Call /\ CallOK(call'[c], request')
  <2>1. call[c] \in Call /\ CallOK(call[c], request)
    BY DEF IInv, CallsOK
  <2>2. CASE call[c].listens /\ c \notin deaf
    <3>1. /\ call'[c] \in Call /\ call'[c].settled /\ call'[c].pc = call[c].pc
          /\ call'[c].workspace = call[c].workspace /\ call'[c].request = call[c].request
      BY <1>5, <2>1, <2>2 DEF Call
    <3> QED BY <2>1, <3>1 DEF CallOK
  <2>3. CASE ~call[c].listens \/ c \in deaf
    <3>1. call'[c] = call[c]
      BY <1>5, <2>3
    <3>2. ~call[c].listens \/ call[c].pc = "arming"
      BY <1>5, <2>3
    <3> QED BY <2>1, <3>1, <3>2 DEF CallOK
  <2> QED BY <2>2, <2>3
<1>7. CallsOK'
  BY <1>5, <1>6 DEF CallsOK
<1> QED BY <1>4, <1>7 DEF IInv

LEMMA TurnInv ==
    ASSUME IInv, NEW q \in Requests, Turn(q)
    PROVE  IInv'
<1>1. /\ request' = [request EXCEPT ![q].launchable = ~@]
      /\ call' = [c \in Calls |->
             IF call[c].pc \in {"arming", "second", "waiting"} /\ ~request[q].launchable
             THEN [call[c] EXCEPT !.passed = @ \cup {q}] ELSE call[c]]
      /\ turns' = turns + 1 /\ UNCHANGED <<lapsed, runner, faults>>
  BY DEF Turn
<1>2. request \in [Requests -> Row]
  BY DEF IInv, RestOK
<1>3. /\ request' \in [Requests -> Row]
      /\ \A p \in Requests : p # q => request'[p] = request[p]
      /\ request'[q].status = request[q].status /\ request'[q].for = request[q].for
      /\ request'[q].workspace = request[q].workspace
      /\ request'[q].launchable = ~request[q].launchable
  BY <1>1, <1>2 DEF Row
<1>4. turns' \in Nat
  BY <1>1 DEF IInv, RestOK
<1>5. RestOK'
  BY <1>1, <1>3, <1>4 DEF IInv, RestOK
<1>6. ASSUME NEW c \in Calls
      PROVE  call'[c] \in Call /\ CallOK(call'[c], request')
  <2>1. call[c] \in Call /\ CallOK(call[c], request)
    BY DEF IInv, CallsOK
  <2>2. CASE call[c].pc \in {"arming", "second", "waiting"} /\ ~request[q].launchable
    <3>1. /\ call'[c] \in Call /\ call'[c].passed = call[c].passed \cup {q}
          /\ call'[c].pc = call[c].pc /\ call'[c].for = call[c].for
          /\ call'[c].workspace = call[c].workspace /\ call'[c].request = call[c].request
          /\ call'[c].listens = call[c].listens /\ call'[c].settled = call[c].settled
      BY <1>1, <2>1, <2>2 DEF Call
    <3> QED BY <1>3, <2>1, <3>1 DEF CallOK, ClaimableOf
  <2>3. CASE call[c].pc \notin {"arming", "second", "waiting"}
    <3>1. call'[c] = call[c]
      BY <1>1, <2>3
    <3> QED BY <2>1, <2>3, <3>1 DEF CallOK
  <2>4. CASE request[q].launchable
    <3>1. call'[c] = call[c]
      BY <1>1, <2>4
    <3>2. \A p \in Requests : ClaimableOf(request', p, call[c].for)
                              => ClaimableOf(request, p, call[c].for)
                                 /\ request'[p].workspace = request[p].workspace
      BY <1>3, <2>4 DEF ClaimableOf
    <3> QED BY <2>1, <3>1, <3>2 DEF CallOK
  <2> QED BY <2>2, <2>3, <2>4
<1>7. CallsOK'
  BY <1>1, <1>6 DEF CallsOK
<1> QED BY <1>5, <1>7 DEF IInv

LEMMA ClearInv ==
    ASSUME IInv, NEW q \in Requests, Clear(q)
    PROVE  IInv'
<1>1. /\ request' = [request EXCEPT ![q].status = "cleared"]
      /\ call' = call /\ UNCHANGED <<lapsed, runner, counters>>
  BY DEF Clear
<1>2. request' \in [Requests -> Row] /\ OnlyLeave(request, request')
  BY <1>1, RowLeaves DEF IInv
<1> QED BY <1>1, <1>2, NoCall DEF IInv, RestOK, counters

LEMMA LapseInv ==
    ASSUME IInv, NEW q \in Requests, Lapse(q)
    PROVE  IInv'
<1>1. lapsed' = lapsed \cup {q} /\ UNCHANGED <<request, call, runner, counters>>
  BY DEF Lapse
<1> QED BY <1>1, NoCall, SameRequests DEF IInv, RestOK, counters

-----------------------------------------------------------------------------
(* The steps of a call.                                                    *)

LEMMA AskInv ==
    ASSUME IInv, NEW r \in Runners, NEW c \in Calls, Ask(r, c)
    PROVE  IInv'
<1> DEFINE x == [Free EXCEPT !.pc = "first", !.for = r]
<1>1. CallOK(x, request')
  BY Numbers DEF Free, Call, CallOK, Scanning
<1>2. /\ call' = [call EXCEPT ![c] = x] /\ UNCHANGED <<request, lapsed, counters>>
      /\ runner' = [runner EXCEPT ![r] = [pc |-> "asking", call |-> c, request |-> 0]]
  BY DEF Ask
<1>3. runner' \in [Runners -> Runner]
  BY <1>2, Numbers DEF IInv, RestOK, Runner
<1> HIDE DEF x
<1> QED BY <1>1, <1>2, <1>3, OneCall, SameRequests DEF IInv, RestOK, counters

LEMMA OnwardFields ==
    ASSUME IInv, NEW c \in Calls, call[c].workspace =< Workspaces
    PROVE  /\ Onward(c) \in Call /\ Onward(c).pc = call[c].pc /\ Onward(c).for = call[c].for
           /\ Onward(c).workspace = call[c].workspace + 1 /\ Onward(c).request = 0
           /\ Onward(c).listens = call[c].listens /\ Onward(c).settled = call[c].settled
           /\ Onward(c).passed = call[c].passed
<1>1. call[c] \in Call
  BY DEF IInv, CallsOK
<1>2. call[c].workspace \in 1 .. Workspaces + 1
  BY <1>1 DEF Call
<1>3. call[c].workspace + 1 \in 1 .. Workspaces + 1
  BY <1>2, Numbers
<1> QED BY <1>1, <1>3, Numbers DEF Onward, Call

LEMMA LookInv ==
    ASSUME IInv, NEW c \in Calls, Look(c)
    PROVE  IInv'
<1>1. /\ call[c].pc \in Scanning /\ call[c].workspace =< Workspaces
      /\ request' = [q \in Requests |-> IF q \in Expired(call[c].workspace)
                                        THEN [request[q] EXCEPT !.status = "expired"]
                                        ELSE request[q]]
      /\ UNCHANGED <<lapsed, runner, counters>>
  BY DEF Look, Scanning
<1>2. request' \in [Requests -> Row] /\ OnlyLeave(request, request')
  <2>1. request \in [Requests -> Row]
    BY DEF IInv, RestOK
  <2> QED BY <1>1, <2>1 DEF Row, OnlyLeave
<1>3. RestOK'
  BY <1>1, <1>2 DEF IInv, RestOK, counters
<1>4. call[c] \in Call /\ CallOK(call[c], request)
  BY DEF IInv, CallsOK
<1>5. CASE InWorkspace(c) = {} /\ call' = [call EXCEPT ![c] = Onward(c)]
  <2>1. ASSUME NEW q \in Requests, ClaimableOf(request, q, call[c].for),
               request[q].workspace < call[c].workspace + 1
        PROVE  request[q].workspace < call[c].workspace
    <3>1. request[q].workspace # call[c].workspace
      BY <1>5, <2>1 DEF InWorkspace, Claimable, ClaimableOf
    <3>2. request[q].workspace \in Nat /\ call[c].workspace \in Nat
      BY <1>4, Numbers DEF IInv, RestOK, Row, Call
    <3> QED BY <2>1, <3>1, <3>2
  <2>2. CallOK(Onward(c), request)
    BY <1>1, <1>4, <2>1, OnwardFields DEF CallOK, Scanning
  <2>3. CallOK(Onward(c), request')
    BY <1>2, <2>2, Shrinks
  <2> QED BY <1>2, <1>3, <1>5, <2>3, OneCall DEF IInv
<1>6. ASSUME NEW q \in Requests, call' = [call EXCEPT ![c].request = q] PROVE IInv'
  <2> DEFINE x == [call[c] EXCEPT !.request = q]
  <2>1. /\ x \in Call /\ x.pc = call[c].pc /\ x.for = call[c].for /\ x.request = q
        /\ x.workspace = call[c].workspace /\ x.listens = call[c].listens
        /\ x.settled = call[c].settled /\ x.passed = call[c].passed
    BY <1>4, Numbers DEF Call
  <2>2. call' = [call EXCEPT ![c] = x]
    BY <1>6
  <2> HIDE DEF x
  <2>3. CallOK(x, request)
    BY <1>1, <1>4, <2>1 DEF CallOK
  <2>4. CallOK(x, request')
    BY <1>2, <2>3, Shrinks
  <2> QED BY <1>2, <1>3, <2>2, <2>4, OneCall DEF IInv
<1>7. InWorkspace(c) \subseteq Requests
  BY DEF InWorkspace
<1> QED BY <1>5, <1>6, <1>7 DEF Look

LEMMA TakeInv ==
    ASSUME IInv, NEW c \in Calls, Take(c)
    PROVE  IInv'
<1>1. PICK q \in Requests : /\ request' = [request EXCEPT ![q].status = "claimed"]
                            /\ call' = [call EXCEPT ![c] = Reset(c, "answering", q)]
  BY DEF Take
<1>2. UNCHANGED <<lapsed, runner, counters>>
  BY DEF Take
<1>3. request' \in [Requests -> Row] /\ OnlyLeave(request, request')
  BY <1>1, RowLeaves DEF IInv
<1>4. CallOK(Reset(c, "answering", q), request')
  BY Numbers, ResetOK
<1> QED BY <1>1, <1>2, <1>3, <1>4, OneCall DEF IInv, RestOK, counters

LEMMA LeaveInv ==
    ASSUME IInv, NEW c \in Calls, Leave(c)
    PROVE  IInv'
<1>1. PICK q \in Requests :
          /\ call[c].request = q
          /\ request' = [request EXCEPT ![q].status = "failed"] \/ request' = request
  BY DEF Leave
<1>2. /\ call[c].pc \in Scanning /\ UNCHANGED <<lapsed, runner, counters>>
      /\ call' = [call EXCEPT ![c] = [Onward(c) EXCEPT
             !.passed = IF call[c].pc = "second" THEN @ \cup InWorkspace(c) ELSE @]]
  BY DEF Leave, Scanning
<1>3. request' \in [Requests -> Row] /\ OnlyLeave(request, request')
  <2>1. CASE request' = request
    BY <2>1, SameRequests DEF IInv, RestOK
  <2>2. CASE request' = [request EXCEPT ![q].status = "failed"]
    BY <2>2, RowLeaves DEF IInv
  <2> QED BY <1>1, <2>1, <2>2
<1>4. call[c] \in Call /\ CallOK(call[c], request)
  BY DEF IInv, CallsOK
<1>5. call[c].workspace =< Workspaces
  BY <1>1, <1>2, <1>4, Numbers DEF CallOK
<1> DEFINE x == [Onward(c) EXCEPT
             !.passed = IF call[c].pc = "second" THEN @ \cup InWorkspace(c) ELSE @]
<1>6. InWorkspace(c) \subseteq Requests
  BY DEF InWorkspace
<1>7. /\ x \in Call /\ x.pc = call[c].pc /\ x.for = call[c].for /\ x.request = 0
      /\ x.workspace = call[c].workspace + 1 /\ x.listens = call[c].listens
      /\ x.settled = call[c].settled
      /\ call[c].pc = "second" => x.passed = call[c].passed \cup InWorkspace(c)
  BY <1>5, <1>6, OnwardFields DEF Call
<1>8. call' = [call EXCEPT ![c] = x]
  BY <1>2
<1> HIDE DEF x
<1>9. ASSUME NEW p \in Requests, ClaimableOf(request, p, call[c].for),
             request[p].workspace < call[c].workspace + 1
      PROVE  request[p].workspace < call[c].workspace \/ p \in InWorkspace(c)
  <2>1. request[p].workspace \in Nat /\ call[c].workspace \in Nat
    BY <1>4, Numbers DEF IInv, RestOK, Row, Call
  <2>2. request[p].workspace < call[c].workspace \/ request[p].workspace = call[c].workspace
    BY <1>9, <2>1
  <2> QED BY <1>9, <2>2 DEF InWorkspace, Claimable, ClaimableOf
<1>10. CallOK(x, request)
  BY <1>2, <1>4, <1>7, <1>9 DEF CallOK, Scanning
<1>11. CallOK(x, request')
  BY <1>3, <1>10, Shrinks
<1> QED BY <1>2, <1>3, <1>8, <1>11, OneCall DEF IInv, RestOK, counters

\* The other steps of a call leave the requests alone.
LEMMA CallAlone ==
    ASSUME IInv, NEW c \in Calls, NEW x, CallOK(x, request), call' = [call EXCEPT ![c] = x],
           UNCHANGED <<request, lapsed>>, runner' \in [Runners -> Runner],
           faults' \in Nat, turns' \in Nat
    PROVE  IInv'
BY OneCall, SameRequests DEF IInv, RestOK

LEMMA RefuseInv ==
    ASSUME IInv, NEW c \in Calls, Refuse(c)
    PROVE  IInv'
<1>1. /\ call' = [call EXCEPT ![c] = Reset(c, "answering", 0)]
      /\ UNCHANGED <<request, lapsed, runner, counters>>
  BY DEF Refuse
<1>2. CallOK(Reset(c, "answering", 0), request)
  BY Numbers, ResetOK
<1> QED BY <1>1, <1>2, CallAlone DEF IInv, RestOK, counters

LEMMA NothingFoundInv ==
    ASSUME IInv, NEW c \in Calls, NothingFound(c)
    PROVE  IInv'
<1>1. call[c].workspace = Workspaces + 1 /\ UNCHANGED <<request, lapsed, runner, counters>>
  BY DEF NothingFound
<1>2. call[c] \in Call /\ CallOK(call[c], request)
  BY DEF IInv, CallsOK
<1>3. ASSUME call' = [call EXCEPT ![c] = Reset(c, "answering", 0)] PROVE IInv'
  <2>1. CallOK(Reset(c, "answering", 0), request)
    BY Numbers, ResetOK
  <2> QED BY <1>1, <1>3, <2>1, CallAlone DEF IInv, RestOK, counters
<1>4. ASSUME call' = [call EXCEPT ![c] = [Reset(c, "arming", 0) EXCEPT !.listens = TRUE]]
      PROVE  IInv'
  <2> DEFINE x == [Reset(c, "arming", 0) EXCEPT !.listens = TRUE]
  <2>1. Reset(c, "arming", 0) \in Call
    BY Numbers, ResetOK DEF CallOK
  <2>2. Reset(c, "arming", 0).pc = "arming" /\ Reset(c, "arming", 0).workspace = 1
    BY DEF Reset, Free
  <2>3. x \in Call /\ x.pc = "arming" /\ x.workspace = 1
    BY <2>1, <2>2 DEF Call
  <2>4. call' = [call EXCEPT ![c] = x]
    BY <1>4
  <2> HIDE DEF x
  <2>5. CallOK(x, request)
    BY <2>3 DEF CallOK, Scanning
  <2> QED BY <1>1, <2>4, <2>5, CallAlone DEF IInv, RestOK, counters
<1>5. ASSUME call[c].pc = "second",
             call' = [call EXCEPT ![c].pc = "waiting", ![c].workspace = 1]
      PROVE  IInv'
  <2> DEFINE x == [call[c] EXCEPT !.pc = "waiting", !.workspace = 1]
  <2>1. /\ x \in Call /\ x.pc = "waiting" /\ x.for = call[c].for
        /\ x.listens = call[c].listens /\ x.settled = call[c].settled
        /\ x.passed = call[c].passed
    BY <1>2, Numbers DEF Call
  <2>2. call' = [call EXCEPT ![c] = x]
    BY <1>5
  <2> HIDE DEF x
  <2>3. \A q \in Requests : request[q].workspace < call[c].workspace
    BY <1>1, Numbers DEF IInv, RestOK, Row
  <2>4. CallOK(x, request)
    BY <1>2, <1>5, <2>1, <2>3 DEF CallOK, Scanning
  <2> QED BY <1>1, <2>2, <2>4, CallAlone DEF IInv, RestOK, counters
<1> QED BY <1>3, <1>4, <1>5 DEF NothingFound, AfterFirst

LEMMA ArmInv ==
    ASSUME IInv, NEW c \in Calls, Arm(c)
    PROVE  IInv'
<1>1. /\ call[c].pc = "arming" /\ call' = [call EXCEPT ![c].pc = "second"]
      /\ UNCHANGED <<request, lapsed, runner, counters>>
  BY DEF Arm
<1>2. call[c] \in Call /\ CallOK(call[c], request)
  BY DEF IInv, CallsOK
<1> DEFINE x == [call[c] EXCEPT !.pc = "second"]
<1>3. x \in Call /\ x.pc = "second" /\ x.workspace = call[c].workspace
  BY <1>2 DEF Call
<1>4. call' = [call EXCEPT ![c] = x]
  BY <1>1
<1> HIDE DEF x
<1>5. x.workspace = 1 /\ x.workspace =< Workspaces
  BY <1>1, <1>2, <1>3, RunnerWakeupConstants DEF CallOK
<1>6. \A q \in Requests : ~(request[q].workspace < x.workspace)
  BY <1>5, Numbers DEF IInv, RestOK, Row
<1>7. CallOK(x, request)
  BY <1>3, <1>5, <1>6 DEF CallOK
<1> QED BY <1>1, <1>4, <1>7, CallAlone DEF IInv, RestOK, counters

LEMMA WakeInv ==
    ASSUME IInv, NEW c \in Calls, Wake(c)
    PROVE  IInv'
<1>1. /\ call' = [call EXCEPT ![c] = Reset(c, "third", 0)]
      /\ UNCHANGED <<request, lapsed, runner, counters>>
  BY DEF Wake
<1>2. CallOK(Reset(c, "third", 0), request)
  BY Numbers, ResetOK
<1> QED BY <1>1, <1>2, CallAlone DEF IInv, RestOK, counters

LEMMA AnswerInv ==
    ASSUME IInv, NEW c \in Calls, Answer(c)
    PROVE  IInv'
<1>1. /\ call' = [call EXCEPT ![c] = Free] /\ UNCHANGED <<request, lapsed, counters>>
      /\ runner' = [r \in Runners |->
             IF runner[r].call # c THEN runner[r]
             ELSE IF call[c].request = 0 THEN Ready
             ELSE [pc |-> "working", call |-> None, request |-> call[c].request]]
  BY DEF Answer
<1>2. call[c].request \in 0 .. MaxRequests
  BY DEF IInv, CallsOK, Call
<1>3. runner' \in [Runners -> Runner]
  BY <1>1, <1>2, ReadyType DEF IInv, RestOK, Runner
<1> QED BY <1>1, <1>3, FreeOK, CallAlone DEF IInv, RestOK, counters

-----------------------------------------------------------------------------
(* Runners and faults.                                                     *)

LEMMA FaultType == RestOK /\ Fault => faults' \in Nat
BY DEF RestOK, Fault

LEMMA LaunchInv ==
    ASSUME IInv, NEW r \in Runners, Launch(r)
    PROVE  IInv'
<1>1. /\ request' = [q \in Requests |->
             IF q = runner[r].request /\ request[q].status = "claimed"
             THEN [request[q] EXCEPT !.status = "launching"] ELSE request[q]]
      /\ runner' = [runner EXCEPT ![r] = Ready] /\ UNCHANGED <<lapsed, call, counters>>
  BY DEF Launch
<1>2. request' \in [Requests -> Row] /\ OnlyLeave(request, request')
  <2>1. request \in [Requests -> Row]
    BY DEF IInv, RestOK
  <2> QED BY <1>1, <2>1 DEF Row, OnlyLeave
<1>3. runner' \in [Runners -> Runner]
  BY <1>1, ReadyType DEF IInv, RestOK
<1> QED BY <1>1, <1>2, <1>3, NoCall DEF IInv, RestOK, counters

LEMMA LoseSessionInv ==
    ASSUME IInv, NEW c \in Calls, NEW sign \in BOOLEAN, LoseSession(c, sign)
    PROVE  IInv'
<1>1. /\ call[c].pc \in {"second", "waiting"}
      /\ call' = [call EXCEPT ![c].listens = FALSE, ![c].settled = @ \/ sign]
      /\ Fault /\ UNCHANGED <<request, lapsed, runner, turns>>
  BY DEF LoseSession
<1>2. call[c] \in Call /\ CallOK(call[c], request)
  BY DEF IInv, CallsOK
<1> DEFINE x == [call[c] EXCEPT !.listens = FALSE, !.settled = @ \/ sign]
<1>3. call[c].settled \in BOOLEAN
  BY <1>2 DEF Call
<1>4. (call[c].settled \/ sign) \in BOOLEAN
  BY <1>3
<1>5. /\ x \in Call /\ ~x.listens /\ x.pc = call[c].pc
      /\ x.workspace = call[c].workspace /\ x.request = call[c].request
  BY <1>2, <1>4 DEF Call
<1>6. call' = [call EXCEPT ![c] = x]
  BY <1>1
<1> HIDE DEF x
<1>7. CallOK(x, request)
  BY <1>1, <1>2, <1>5 DEF CallOK
<1> QED BY <1>1, <1>6, <1>7, FaultType, CallAlone DEF IInv, RestOK

LEMMA LoseAnswerInv ==
    ASSUME IInv, NEW c \in Calls, LoseAnswer(c)
    PROVE  IInv'
<1>1. /\ call' = [call EXCEPT ![c] = Free] /\ Fault /\ UNCHANGED <<request, lapsed, turns>>
      /\ runner' = [r \in Runners |-> IF runner[r].call = c THEN Ready ELSE runner[r]]
  BY DEF LoseAnswer
<1>2. runner' \in [Runners -> Runner]
  BY <1>1, ReadyType DEF IInv, RestOK
<1> QED BY <1>1, <1>2, FreeOK, FaultType, CallAlone DEF IInv, RestOK

LEMMA RunnerInv ==
    ASSUME IInv, NEW r \in Runners, Stop(r) \/ Start(r)
    PROVE  IInv'
<1>1. /\ UNCHANGED <<request, lapsed, call, turns>> /\ (Fault \/ faults' = faults)
      /\ \/ runner' = [runner EXCEPT ![r] = [Ready EXCEPT !.pc = "down"]]
         \/ runner' = [runner EXCEPT ![r] = Ready]
  BY DEF Stop, Start, counters
<1>2. runner' \in [Runners -> Runner]
  BY <1>1, ReadyType DEF IInv, RestOK
<1> QED BY <1>1, <1>2, FaultType, NoCall, SameRequests DEF IInv, RestOK

LEMMA RestartInv ==
    ASSUME IInv, Restart
    PROVE  IInv'
<1>1. /\ call' = [c \in Calls |-> Free] /\ Fault /\ UNCHANGED <<request, lapsed, turns>>
      /\ runner' = [r \in Runners |-> IF runner[r].pc = "asking" THEN Ready ELSE runner[r]]
  BY DEF Restart
<1>2. runner' \in [Runners -> Runner]
  BY <1>1, ReadyType DEF IInv, RestOK
<1>3. CallsOK'
  BY <1>1, FreeOK DEF CallsOK
<1> QED BY <1>1, <1>2, <1>3, FaultType DEF IInv, RestOK

-----------------------------------------------------------------------------
LEMMA StepInv == IInv /\ [Next]_vars => IInv'
<1> SUFFICES ASSUME IInv, [Next]_vars PROVE IInv'
  OBVIOUS
<1>1. ASSUME NEW q \in Requests, NEW w \in 1 .. Workspaces,
             NEW for \in {Runners} \cup {{r} : r \in Runners}, NEW connected \in BOOLEAN,
             Queue(q, w, for, connected)
      PROVE  IInv'
  BY <1>1, QueueInv
<1>2. ASSUME NEW q \in Requests, Turn(q) \/ Clear(q) \/ Lapse(q) PROVE IInv'
  BY <1>2, TurnInv, ClearInv, LapseInv
<1>3. ASSUME NEW c \in Calls, CallStep(c) PROVE IInv'
  BY <1>3, LookInv, TakeInv, LeaveInv, RefuseInv, NothingFoundInv, ArmInv, WakeInv, AnswerInv
  DEF CallStep
<1>4. ASSUME NEW c \in Calls, NEW sign \in BOOLEAN, LoseSession(c, sign) PROVE IInv'
  BY <1>4, LoseSessionInv
<1>5. ASSUME NEW c \in Calls, LoseAnswer(c) PROVE IInv'
  BY <1>5, LoseAnswerInv
<1>6. ASSUME NEW r \in Runners, RunnerStep(r) \/ Stop(r) PROVE IInv'
  BY <1>6, RunnerInv, LaunchInv, AskInv DEF RunnerStep
<1>7. CASE Restart
  BY <1>7, RestartInv
<1>8. CASE UNCHANGED vars
  BY <1>8, NoCall, SameRequests DEF vars, counters, IInv, RestOK
<1> QED BY <1>1, <1>2, <1>3, <1>4, <1>5, <1>6, <1>7, <1>8 DEF Next

\* The requests, the calls and the runners keep their types.
THEOREM TypeCorrect == Spec => []TypeOK
<1>1. IInv => TypeOK
  BY Meaning
<1> QED BY <1>1, InitInv, StepInv, PTL DEF Spec

\* For any number of workspaces, calls and runners: between its look and its
\* wait a call misses no request, but for those it left beside a lost candidate
\* and those whose objective turned launchable.
THEOREM WakesAreSeen == Spec => []NoWakeIsMissed
<1>1. IInv => NoWakeIsMissed
  BY Meaning
<1> QED BY <1>1, InitInv, StepInv, PTL DEF Spec

=============================================================================

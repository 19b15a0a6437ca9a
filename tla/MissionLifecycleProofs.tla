------------------------ MODULE MissionLifecycleProofs ------------------------
(***************************************************************************)
(* Theorems about MissionLifecycle, for any number of objectives, sessions *)
(* and callers, whatever calls the instance makes and however they         *)
(* overlap.                                                                *)
(***************************************************************************)
EXTENDS MissionLifecycle, FiniteSetTheorems, WellFoundedInduction, TLAPS

-----------------------------------------------------------------------------
(***************************************************************************)
(* Smallest and largest positions.                                         *)
(***************************************************************************)

\* A set of naturals has a smallest element.
LEMMA SmallestExists ==
    ASSUME NEW S \in SUBSET Nat, S # {}
    PROVE  \E m \in S : \A n \in S : m <= n
<1>1. IsWellFoundedOn(OpToRel(<, Nat), Nat)
  BY NatLessThanWellFounded
<1>2. PICK m \in S : \A n \in S : <<n, m>> \notin OpToRel(<, Nat)
  BY <1>1, WFMin
<1>3. \A n \in S : ~(n < m)
  BY <1>2 DEF OpToRel
<1> QED
  BY <1>3

\* A bounded one has a largest.
LEMMA LargestExists ==
    ASSUME NEW S \in SUBSET Nat, S # {},
           NEW B \in Nat, \A n \in S : n <= B
    PROVE  \E m \in S : \A n \in S : n <= m
<1> DEFINE T == {B - n : n \in S}
<1>0. \A n \in S : B - n \in Nat
  OBVIOUS
<1>1. T \in SUBSET Nat /\ T # {}
  BY <1>0
<1>2. PICK t \in T : \A u \in T : t <= u
  BY <1>1, SmallestExists
<1>3. PICK m \in S : t = B - m
  OBVIOUS
<1>4. \A n \in S : B - m <= B - n
  BY <1>2, <1>3
<1> QED
  BY <1>4

-----------------------------------------------------------------------------
(***************************************************************************)
(* Tables of objectives.                                                   *)
(***************************************************************************)

Table == [Objectives -> Objective]

\* The positions have a largest one.
Bounded(f) == \E B \in Nat : \A o \in Objectives : f[o].pos <= B

\* What every statement makes of a table f: objectives keep their rows, and the
\* unique index holds.
Kept(f, g) ==
    /\ g \in Table
    /\ Bounded(g)
    /\ \A o \in Objectives : f[o].state # "none" => g[o].state # "none"
    /\ Fits(g)

\* A change that moves nothing and brings nothing back.
LEMMA Stays ==
    ASSUME NEW f \in Table, NEW g \in Table, Bounded(f), Fits(f),
           \A o \in Objectives :
              /\ g[o].pos = f[o].pos
              /\ g[o].state = "none" <=> f[o].state = "none"
              /\ f[o].deleted => g[o].deleted
    PROVE  Kept(f, g)
<1>1. Live(g) \subseteq Live(f)
  BY DEF Live
<1>2. Fits(g)
  BY <1>1 DEF Fits, Live
<1> QED
  BY <1>2 DEF Kept, Bounded

\* The end of the mission is behind every live objective.
LEMMA EndIsLast ==
    ASSUME NEW f \in Table, NEW B \in Nat, \A o \in Objectives : f[o].pos <= B
    PROVE  /\ NextPosition(f) \in 0..(B + 1)
           /\ \A o \in Live(f) : f[o].pos < NextPosition(f)
<1>1. CASE Live(f) = {}
  BY <1>1 DEF NextPosition
<1>2. CASE Live(f) # {}
  <2> DEFINE P == {f[o].pos : o \in Live(f)}
  <2>1. \A o \in Live(f) : o \in Objectives /\ f[o].pos \in Nat /\ f[o].pos <= B
    BY DEF Live, Table, Objective
  <2>2. P \in SUBSET Nat /\ P # {} /\ \A n \in P : n <= B
    BY <1>2, <2>1
  <2> HIDE DEF P
  <2>3. \E m \in P : \A n \in P : n <= m
    BY <2>2, LargestExists
  <2>4. \E m \in P : \A o \in Live(f) : f[o].pos <= m
    BY <2>3 DEF P
  <2> DEFINE M == CHOOSE m \in P : \A o \in Live(f) : f[o].pos <= m
  <2>5. M \in P /\ \A o \in Live(f) : f[o].pos <= M
    BY <2>4
  <2>6. NextPosition(f) = 1 + M
    BY <1>2 DEF NextPosition, P
  <2> HIDE DEF M
  <2> QED
    BY <2>1, <2>2, <2>5, <2>6
<1> QED
  BY <1>1, <1>2

\* A row inserted at the end.
LEMMA Appended ==
    ASSUME NEW f \in Table, Bounded(f), Fits(f), NEW o \in Objectives,
           NEW row \in Objective, row.state # "none", row.pos = NextPosition(f)
    PROVE  Kept(f, [f EXCEPT ![o] = row])
<1> DEFINE g == [f EXCEPT ![o] = row]
<1>1. PICK B \in Nat : \A p \in Objectives : f[p].pos <= B
  BY DEF Bounded
<1>2. row.pos \in 0..(B + 1) /\ \A p \in Live(f) : f[p].pos < row.pos
  BY <1>1, EndIsLast
<1>3. g \in Table /\ \A p \in Objectives : g[p] = IF p = o THEN row ELSE f[p]
  BY DEF Table
<1> HIDE DEF g
<1>4. \A p \in Objectives : f[p].pos \in Nat
  BY DEF Table, Objective
<1>5. Bounded(g)
  <2>1. \A p \in Objectives : g[p].pos <= B + 1
    BY <1>1, <1>2, <1>3, <1>4
  <2> QED
    BY <2>1 DEF Bounded
<1>6. Fits(g)
  <2>1. \A p \in Live(g) : p = o \/ p \in Live(f)
    BY <1>3 DEF Live
  <2>2. \A p \in Live(g) : p \in Objectives
    BY DEF Live
  <2> QED
    BY <1>2, <1>3, <1>4, <2>1, <2>2 DEF Fits
<1>7. \A p \in Objectives : f[p].state # "none" => g[p].state # "none"
  BY <1>3
<1> QED
  BY <1>3, <1>5, <1>6, <1>7 DEF Kept, g

\* Restoring the draft slot keeps the table in order, and leaves a draft.
LEMMA RefillKeeps ==
    ASSUME NEW f \in Table, Bounded(f), Fits(f), NEW g, Refilled(f, g)
    PROVE  Kept(f, g) /\ In(g, {"draft"}) # {}
<1> DEFINE drafts == In(f, {"draft"})
           future == In(f, {"future"})
<1>0. Kept(f, f)
  BY Stays
<1>1. CASE \E d \in drafts : f[d].text
  BY <1>0, <1>1 DEF Refilled
<1>2. CASE ~(\E d \in drafts : f[d].text) /\ future # {}
  <2>1. PICK n \in FirstOf(f, future) :
           g = [o \in Objectives |->
                  IF o \in drafts THEN [f[o] EXCEPT !.deleted = TRUE]
                  ELSE IF o = n THEN [f[o] EXCEPT !.state = "draft"] ELSE f[o]]
    BY <1>2 DEF Refilled
  <2>2. n \in future /\ n \in Objectives /\ f[n].state = "future" /\ ~f[n].deleted
    BY DEF FirstOf, In, Live
  <2>3. n \notin drafts
    BY <2>2 DEF In
  <2>4. \A o \in Objectives : g[o] \in Objective
    BY <2>1 DEF Table, Objective, OBJECTIVE_STATES
  <2>5. g \in Table
    BY <2>1, <2>4 DEF Table
  <2>6. \A o \in Objectives :
           /\ g[o].pos = f[o].pos
           /\ g[o].state = "none" <=> f[o].state = "none"
           /\ f[o].deleted => g[o].deleted
    BY <2>1, <2>2 DEF Table, Objective
  <2>7. g[n].state = "draft" /\ ~g[n].deleted
    BY <2>1, <2>2, <2>3 DEF Table, Objective
  <2>8. n \in In(g, {"draft"})
    BY <2>2, <2>7 DEF In, Live
  <2> QED
    BY <2>5, <2>6, <2>8, Stays
<1>3. CASE ~(\E d \in drafts : f[d].text) /\ future = {} /\ drafts # {}
  BY <1>0, <1>3 DEF Refilled
<1>4. CASE ~(\E d \in drafts : f[d].text) /\ future = {} /\ drafts = {}
  <2>1. PICK o \in Objectives :
           NewRow(f, o) /\ g = [f EXCEPT ![o] = Blank(NextPosition(f))]
    BY <1>4 DEF Refilled
  <2>2. NextPosition(f) \in Nat
    BY EndIsLast DEF Bounded
  <2>3. Blank(NextPosition(f)) \in Objective
    BY <2>2 DEF Blank, NoObjective, Objective, OBJECTIVE_STATES
  <2>4. /\ Blank(NextPosition(f)).state = "draft"
        /\ Blank(NextPosition(f)).pos = NextPosition(f)
        /\ ~Blank(NextPosition(f)).deleted
    BY DEF Blank, NoObjective
  <2>5. Kept(f, g)
    BY <2>1, <2>3, <2>4, Appended
  <2>6. o \in In(g, {"draft"})
    BY <2>1, <2>4 DEF In, Live, Table
  <2> QED
    BY <2>5, <2>6
<1> QED
  BY <1>1, <1>2, <1>3, <1>4

-----------------------------------------------------------------------------
(***************************************************************************)
(* Promotions.                                                             *)
(***************************************************************************)

\* What a promotion makes of the table f, but for the state of the promoted.
Shuffled(f, g) ==
    /\ g \in Table
    /\ Bounded(g)
    /\ \A o \in Objectives : /\ g[o].state = "none" <=> f[o].state = "none"
                             /\ g[o].deleted = f[o].deleted
    /\ Fits(g)

\* Moving one objective up to a position and the rows from there to its old one
\* down by one keeps the positions distinct.
LEMMA SpliceFits ==
    ASSUME NEW f \in Table, Bounded(f), Fits(f), NEW o \in Live(f),
           NEW slot \in Nat, slot < f[o].pos
    PROVE  Shuffled(f, Spliced(f, o, slot))
<1> DEFINE g == Spliced(f, o, slot)
           Raised(p) == p \in Live(f) /\ f[p].pos >= slot /\ f[p].pos < f[o].pos
<1>1. \A p \in Objectives : f[p] \in Objective /\ f[p].pos \in Nat
  BY DEF Table, Objective
<1>2. o \in Objectives
  BY DEF Live
<1>3. \A p \in Objectives :
         g[p] = IF p = o THEN [f[p] EXCEPT !.pos = slot]
                ELSE IF Raised(p) THEN [f[p] EXCEPT !.pos = f[p].pos + 1] ELSE f[p]
  BY DEF Spliced
<1>4. \A p \in Objectives :
         /\ g[p] \in Objective
         /\ g[p].state = f[p].state
         /\ g[p].deleted = f[p].deleted
         /\ g[p].pos = IF p = o THEN slot ELSE IF Raised(p) THEN f[p].pos + 1 ELSE f[p].pos
  <2> TAKE p \in Objectives
  <2> HIDE DEF g, Raised
  <2>1. f[p] \in Objective /\ f[p].pos + 1 \in Nat
    BY <1>1
  <2> QED
    BY <1>3, <2>1 DEF Objective
<1>5. g \in Table
  BY <1>4 DEF Spliced, Table
<1> HIDE DEF g
<1>6. Live(g) = Live(f)
  BY <1>4 DEF Live
<1>7. Bounded(g)
  <2>1. PICK B \in Nat : \A p \in Objectives : f[p].pos <= B
    BY DEF Bounded
  <2>2. \A p \in Objectives : g[p].pos <= B
    BY <1>1, <1>2, <1>4, <2>1
  <2> QED
    BY <2>2 DEF Bounded
<1>8. Fits(g)
  <2> SUFFICES ASSUME NEW a \in Live(f), NEW b \in Live(f), a # b
               PROVE  g[a].pos # g[b].pos
    BY <1>6 DEF Fits
  <2>1. a \in Objectives /\ b \in Objectives /\ f[a].pos # f[b].pos
    BY DEF Fits, Live
  <2>2. f[a].pos # f[o].pos \/ a = o
    BY DEF Fits
  <2>3. f[b].pos # f[o].pos \/ b = o
    BY DEF Fits
  <2> QED
    BY <1>1, <1>2, <1>4, <2>1, <2>2, <2>3
<1> QED
  BY <1>4, <1>5, <1>7, <1>8 DEF Shuffled, g

\* A promotion keeps the positions distinct, whatever gaps there are.
LEMMA PromotionFits ==
    ASSUME objectives \in Table, Bounded(objectives), Fits(objectives),
           NEW o \in Live(objectives)
    PROVE  Shuffled(objectives, Promoted(o))
<1> DEFINE others == Drafts \ {o}
           f == Demoted(o)
<1>1. \A p \in Objectives : objectives[p] \in Objective /\ objectives[p].pos \in Nat
  BY DEF Table, Objective
<1>2. \A p \in Objectives :
         /\ f[p] \in Objective
         /\ f[p].pos = objectives[p].pos
         /\ f[p].deleted = objectives[p].deleted
         /\ f[p].state = "none" <=> objectives[p].state = "none"
  <2> TAKE p \in Objectives
  <2>1. CASE p \in others
    <3>1. f[p] = [objectives[p] EXCEPT !.state = "future"]
      BY <2>1 DEF Demoted
    <3>2. objectives[p].state # "none"
      BY <2>1 DEF Drafts, In, Live
    <3> QED
      BY <1>1, <3>1, <3>2 DEF Objective, OBJECTIVE_STATES
  <2>2. CASE p \notin others
    BY <1>1, <2>2 DEF Demoted
  <2> QED
    BY <2>1, <2>2
<1>3. f \in Table
  BY <1>2 DEF Demoted, Table
<1> HIDE DEF f
<1>4. Live(f) = Live(objectives)
  BY <1>2 DEF Live
<1>5. Bounded(f) /\ Fits(f)
  <2>1. Fits(f)
    BY <1>2, <1>4 DEF Fits, Live
  <2> QED
    BY <1>2, <2>1 DEF Bounded
<1>6. Shuffled(objectives, f)
  BY <1>2, <1>3, <1>5 DEF Shuffled
<1>7. CASE objectives[o].state = "future" /\ others # {}
  <2> DEFINE P == {f[d].pos : d \in others}
             slot == CHOOSE m \in P : \A d \in others : m <= f[d].pos
  <2>1. P \in SUBSET Nat /\ P # {}
    BY <1>1, <1>2, <1>7 DEF Drafts, In, Live
  <2> HIDE DEF P
  <2>2. \E m \in P : \A n \in P : m <= n
    BY <2>1, SmallestExists
  <2>3. \E m \in P : \A d \in others : m <= f[d].pos
    BY <2>2 DEF P
  <2>4. slot \in P
    BY <2>3
  <2>5. Promoted(o) = IF f[o].pos > slot THEN Spliced(f, o, slot) ELSE f
    BY <1>7 DEF Promoted, P, f
  <2> HIDE DEF slot
  <2>6. CASE f[o].pos > slot
    <3>1. slot \in Nat /\ o \in Live(f) /\ slot < f[o].pos
      BY <1>1, <1>2, <1>4, <2>1, <2>4, <2>6 DEF Live
    <3>2. Shuffled(f, Spliced(f, o, slot))
      BY <1>3, <1>5, <3>1, SpliceFits
    <3> QED
      BY <1>2, <2>5, <2>6, <3>2 DEF Shuffled
  <2>7. CASE ~(f[o].pos > slot)
    BY <1>6, <2>5, <2>7
  <2> QED
    BY <2>6, <2>7
<1>8. CASE ~(objectives[o].state = "future" /\ others # {})
  BY <1>6, <1>8 DEF Promoted, f
<1> QED
  BY <1>7, <1>8

-----------------------------------------------------------------------------
(***************************************************************************)
(* The invariant.                                                          *)
(***************************************************************************)

Launching == {"launch", "queue"}

\* What a call carries are rows of the table f, and an auto-advance has one.
RowsOf(k, f) ==
    /\ k.step \in Launching => k.next # None
    /\ k.objective # None => f[k.objective].state # "none"
    /\ k.next # None => f[k.next].state # "none"
    /\ \A o \in k.drafts : f[o].state # "none"

CallsOK == \A c \in Callers : RowsOf(call[c], objectives)

SessionsOK ==
    \A s \in Sessions :
        sessions[s].objective # None => objectives[sessions[s].objective].state # "none"

IInv ==
    /\ TypeOK
    /\ CallsOK
    /\ SessionsOK
    /\ Bounded(objectives)
    /\ Fits(objectives)

LEMMA InitInv == Init => IInv
<1> SUFFICES ASSUME Init PROVE IInv
  OBVIOUS
<1>1. NoObjective \in Objective
  BY DEF NoObjective, Objective
<1>2. NoCall \in Call
  BY DEF NoCall, Call, Steps
<1>3. TypeOK
  BY <1>1, <1>2 DEF Init, TypeOK, Session
<1>4. CallsOK
  BY DEF Init, CallsOK, RowsOf, NoCall, Launching
<1>5. SessionsOK
  BY DEF Init, SessionsOK
<1>6. Bounded(objectives)
  BY DEF Init, Bounded, NoObjective
<1>7. Fits(objectives)
  BY DEF Init, Fits, Live, NoObjective
<1> QED
  BY <1>3, <1>4, <1>5, <1>6, <1>7 DEF IInv

\* The calls after a step carry rows of the table before it.
CallsNext ==
    /\ call' \in [Callers -> Call]
    /\ \A c \in Callers : RowsOf(call'[c], objectives)

\* So do the sessions.
SessionsNext ==
    /\ sessions' \in [Sessions -> Session]
    /\ \A s \in Sessions : sessions'[s].objective # None
                           => objectives[sessions'[s].objective].state # "none"

\* Rows never cease to exist, so what held of the old table holds of the new.
LEMMA Preserved ==
    ASSUME IInv, Kept(objectives, objectives'), CallsNext, SessionsNext,
           queued' \in SUBSET Objectives, keyed' \in SUBSET Objectives
    PROVE  IInv'
<1>1. objectives' \in [Objectives -> Objective] /\ Bounded(objectives') /\ Fits(objectives')
  BY DEF Kept, Table
<1>2. TypeOK'
  BY <1>1 DEF TypeOK, CallsNext, SessionsNext
<1>3. \A o \in Objectives : objectives[o].state # "none" => objectives'[o].state # "none"
  BY DEF Kept
<1>4. CallsOK'
  <2> SUFFICES ASSUME NEW c \in Callers PROVE RowsOf(call'[c], objectives')
    BY DEF CallsOK, RowsOf
  <2>1. call'[c] \in Call /\ RowsOf(call'[c], objectives)
    BY DEF CallsNext
  <2> QED
    BY <1>3, <2>1 DEF RowsOf, Call
<1>5. SessionsOK'
  <2> SUFFICES ASSUME NEW s \in Sessions, sessions'[s].objective # None
               PROVE  objectives'[sessions'[s].objective].state # "none"
    BY DEF SessionsOK
  <2>1. sessions'[s].objective \in Objectives
    BY DEF SessionsNext, Session
  <2> QED
    BY <1>3, <2>1 DEF SessionsNext
<1> QED
  BY <1>1, <1>2, <1>4, <1>5 DEF IInv, Bounded, Fits, Live

\* A statement that leaves the table alone.
LEMMA Same == IInv /\ objectives' = objectives => Kept(objectives, objectives')
<1> SUFFICES ASSUME IInv, objectives' = objectives PROVE Kept(objectives, objectives')
  OBVIOUS
<1>1. objectives \in Table
  BY DEF IInv, TypeOK, Table
<1> QED
  BY <1>1, Stays DEF IInv

\* A call enters its next step with rows of the table.
LEMMA Entered ==
    ASSUME IInv, NEW c \in Callers, NEW k \in Call, RowsOf(k, objectives), Enter(c, k)
    PROVE  CallsNext
<1>1. \A d \in Callers : call[d] \in Call /\ RowsOf(call[d], objectives)
  BY DEF IInv, TypeOK, CallsOK
<1>2. \A d \in Callers : call'[d] = IF d = c THEN k ELSE call[d]
  BY DEF Enter, IInv, TypeOK
<1>3. call' \in [Callers -> Call]
  BY <1>1 DEF Enter, IInv, TypeOK
<1> QED
  BY <1>1, <1>2, <1>3 DEF CallsNext

\* It may carry on with what it has, or end.
LEMMA Carries ==
    ASSUME IInv, NEW c \in Callers
    PROVE  /\ \A step \in Steps \ Launching : Goto(c, step) => CallsNext
           /\ call[c].step = "launch" /\ Goto(c, "queue") => CallsNext
           /\ End(c) => CallsNext
           /\ UNCHANGED call => CallsNext
<1>1. call[c] \in Call /\ RowsOf(call[c], objectives)
  BY DEF IInv, TypeOK, CallsOK
<1>2. \A step \in Steps : Goto(c, step) /\ (step \in Launching => call[c].step = "launch") => CallsNext
  <2> SUFFICES ASSUME NEW step \in Steps, Goto(c, step),
                      step \in Launching => call[c].step = "launch"
               PROVE  CallsNext
    OBVIOUS
  <2> DEFINE k == [call[c] EXCEPT !.step = step]
  <2>1. k \in Call /\ RowsOf(k, objectives)
    BY <1>1 DEF Call, RowsOf, Launching
  <2> QED
    BY <2>1, Entered DEF Goto
<1>3. End(c) => CallsNext
  <2>1. NoCall \in Call /\ RowsOf(NoCall, objectives)
    BY DEF NoCall, Call, Steps, RowsOf, Launching
  <2> QED
    BY <2>1, Entered DEF End
<1>4. UNCHANGED call => CallsNext
  BY DEF CallsNext, IInv, TypeOK, CallsOK
<1> QED
  BY <1>2, <1>3, <1>4 DEF Launching, Steps

\* Sessions stay, are ended, or one is opened on the objective of a call.
LEMMA SessionsKept ==
    ASSUME IInv
    PROVE  /\ UNCHANGED sessions => SessionsNext
           /\ \A o : sessions' = EndSessions(o) => SessionsNext
           /\ \A c \in Callers, s \in Sessions :
                 OpenSession(s, call[c].objective) => SessionsNext
           /\ \A s : sessions' = [sessions EXCEPT ![s].open = FALSE] => SessionsNext
<1>1. \A s \in Sessions :
         /\ sessions[s] \in Session
         /\ sessions[s].objective # None => objectives[sessions[s].objective].state # "none"
  BY DEF IInv, TypeOK, SessionsOK
<1>2. UNCHANGED sessions => SessionsNext
  BY DEF SessionsNext, IInv, TypeOK, SessionsOK
<1>3. ASSUME NEW o, sessions' = EndSessions(o) PROVE SessionsNext
  <2>1. \A s \in Sessions : sessions'[s] \in Session /\ sessions'[s].objective = sessions[s].objective
    BY <1>1, <1>3 DEF EndSessions, Session
  <2>2. sessions' \in [Sessions -> Session]
    BY <1>3, <2>1 DEF EndSessions
  <2> QED
    BY <1>1, <2>1, <2>2 DEF SessionsNext
<1>4. ASSUME NEW c \in Callers, NEW s \in Sessions, OpenSession(s, call[c].objective)
      PROVE  SessionsNext
  <2> DEFINE new == [objective |-> call[c].objective, open |-> TRUE]
  <2>1. call[c] \in Call /\ RowsOf(call[c], objectives)
    BY DEF IInv, TypeOK, CallsOK
  <2>2. new \in Session
    BY <2>1 DEF Call, Session
  <2>3. sessions \in [Sessions -> Session] /\ sessions' = [sessions EXCEPT ![s] = new]
    BY <1>4 DEF OpenSession, IInv, TypeOK
  <2>4. new.objective # None => objectives[new.objective].state # "none"
    BY <2>1 DEF RowsOf
  <2> HIDE DEF new
  <2>5. sessions' \in [Sessions -> Session]
    BY <2>2, <2>3
  <2>6. \A t \in Sessions : sessions'[t] = IF t = s THEN new ELSE sessions[t]
    BY <2>3
  <2> QED
    BY <1>1, <2>4, <2>5, <2>6 DEF SessionsNext
<1>5. ASSUME NEW s, sessions' = [sessions EXCEPT ![s].open = FALSE] PROVE SessionsNext
  <2>0. sessions \in [Sessions -> Session]
    BY DEF IInv, TypeOK
  <2>1. \A t \in Sessions : sessions'[t] \in Session /\ sessions'[t].objective = sessions[t].objective
    BY <1>1, <1>5, <2>0 DEF Session
  <2>2. sessions' \in [Sessions -> Session]
    BY <1>5, <2>0, <2>1
  <2> QED
    BY <1>1, <2>1, <2>2 DEF SessionsNext
<1> QED
  BY <1>2, <1>3, <1>4, <1>5

-----------------------------------------------------------------------------
(***************************************************************************)
(* Every step preserves the invariant.                                     *)
(***************************************************************************)

\* Another state for an existing objective, or for none.
LEMMA StateKeeps ==
    ASSUME IInv, NEW o, o \in Objectives => objectives[o].state # "none",
           NEW state \in OBJECTIVE_STATES
    PROVE  /\ [objectives EXCEPT ![o].state = state] \in Table
           /\ Kept(objectives, [objectives EXCEPT ![o].state = state])
<1> DEFINE g == [objectives EXCEPT ![o].state = state]
<1>1. objectives \in Table /\ Bounded(objectives) /\ Fits(objectives)
  BY DEF IInv, TypeOK, Table
<1>2. \A p \in Objectives :
         g[p] = IF p = o THEN [objectives[p] EXCEPT !.state = state] ELSE objectives[p]
  BY <1>1 DEF Table
<1>3. \A p \in Objectives : g[p] \in Objective
  BY <1>1, <1>2 DEF Table, Objective
<1>4. g \in Table
  BY <1>1, <1>3 DEF Table
<1>5. state # "none"
  BY DEF OBJECTIVE_STATES
<1>6. \A p \in Objectives :
         /\ g[p].pos = objectives[p].pos
         /\ g[p].state = "none" <=> objectives[p].state = "none"
         /\ objectives[p].deleted => g[p].deleted
  BY <1>1, <1>2, <1>5 DEF Table, Objective
<1> HIDE DEF g
<1>7. Kept(objectives, g)
  BY <1>1, <1>4, <1>6, Stays
<1> QED
  BY <1>4, <1>7 DEF g

\* What a call carries, and what the table is like, in the invariant.
LEMMA Facts ==
    ASSUME IInv, NEW c \in Callers
    PROVE  /\ objectives \in Table /\ Bounded(objectives) /\ Fits(objectives)
           /\ call[c] \in Call
           /\ call[c].objective \in Objectives => objectives[call[c].objective].state # "none"
           /\ call[c].next \in Objectives => objectives[call[c].next].state # "none"
           /\ call[c].step \in Launching => call[c].next \in Objectives
           /\ \A o \in call[c].drafts : objectives[o].state # "none"
<1>1. None \notin Objectives
  BY MissionConstants DEF Objectives
<1>2. call[c] \in Call /\ RowsOf(call[c], objectives)
  BY DEF IInv, TypeOK, CallsOK
<1> QED
  BY <1>1, <1>2 DEF IInv, TypeOK, Table, RowsOf, Call

\* A call that begins with an existing objective, and no more.
LEMMA Picked ==
    ASSUME IInv, NEW c \in Callers, NEW step \in Steps \ Launching,
           NEW o \in Objectives \cup {None}, o # None => objectives[o].state # "none"
    PROVE  /\ Enter(c, [NoCall EXCEPT !.step = step, !.objective = o]) => CallsNext
           /\ \A s \in Sessions :
                 Enter(c, [NoCall EXCEPT !.step = step, !.session = s, !.objective = o])
                 => CallsNext
<1>1. ASSUME NEW s \in Sessions
      PROVE  LET k == [NoCall EXCEPT !.step = step, !.session = s, !.objective = o]
             IN  k \in Call /\ RowsOf(k, objectives)
  BY DEF NoCall, Call, RowsOf, Launching
<1>2. LET k == [NoCall EXCEPT !.step = step, !.objective = o]
      IN  k \in Call /\ RowsOf(k, objectives)
  BY DEF NoCall, Call, RowsOf, Launching
<1> QED
  BY <1>1, <1>2, Entered

LEMMA BeginStep == ASSUME IInv, NEW c \in Callers, Begin(c) PROVE IInv'
<1> USE DEF Steps, Launching
<1>1. SUFFICES CallsNext /\ UNCHANGED <<objectives, sessions, queued, keyed>>
  <2>1. Kept(objectives, objectives') /\ SessionsNext
    BY <1>1, Same, SessionsKept
  <2> QED
    BY <1>1, <2>1, Preserved DEF IInv, TypeOK
<1>2. ASSUME NEW o \in Objectives, NEW step \in Steps \ Launching, objectives[o].state # "none",
             Enter(c, [NoCall EXCEPT !.step = step, !.objective = o])
      PROVE  CallsNext
  BY <1>2, Picked
<1>3. ASSUME NEW s \in Sessions
      PROVE  /\ sessions[s].objective \in Objectives \cup {None}
             /\ sessions[s].objective # None => objectives[sessions[s].objective].state # "none"
  BY DEF IInv, TypeOK, SessionsOK, Session
<1>4. CASE AttachPick(c)
  <2>1. PICK o \in Objectives :
           ActiveObjective(o) /\ Enter(c, [NoCall EXCEPT !.step = "attach", !.objective = o])
    BY <1>4 DEF AttachPick
  <2>2. objectives[o].state # "none"
    BY <2>1 DEF ActiveObjective, FirstOf, In, Live
  <2> QED
    BY <1>2, <1>4, <2>1, <2>2 DEF AttachPick
<1>5. CASE \E s \in Sessions : DeliverLookUp(c, s)
  <2>1. PICK s \in Sessions : DeliverLookUp(c, s)
    BY <1>5
  <2> QED
    BY <1>3, <2>1, Picked DEF DeliverLookUp
<1>6. CASE ResumePick(c)
  <2>1. PICK o \in In(objectives, {"complete"}) :
           Enter(c, [NoCall EXCEPT !.step = "resume", !.objective = o])
    BY <1>6 DEF ResumePick
  <2>2. o \in Objectives /\ objectives[o].state # "none"
    BY DEF In, Live
  <2> QED
    BY <1>2, <1>6, <2>1, <2>2 DEF ResumePick
<1>7. CASE \E s \in Sessions : FollowUpLookUp(c, s)
  <2>1. PICK s \in Sessions : FollowUpLookUp(c, s)
    BY <1>7
  <2> QED
    BY <1>3, <2>1, Picked DEF FollowUpLookUp
<1>8. CASE DiscussPick(c)
  <2>1. PICK o \in FirstOf(objectives, Drafts) :
           Enter(c, [NoCall EXCEPT !.step = "discuss", !.objective = o])
    BY <1>8 DEF DiscussPick
  <2>2. o \in Objectives /\ objectives[o].state # "none"
    BY DEF FirstOf, Drafts, In, Live
  <2> QED
    BY <1>2, <1>8, <2>1, <2>2 DEF DiscussPick
<1> QED
  BY <1>4, <1>5, <1>6, <1>7, <1>8 DEF Begin

\* The reads of a call, and the ways it ends.
LEMMA ReadStep ==
    ASSUME IInv, NEW c \in Callers, UNCHANGED <<objectives, sessions, queued, keyed>>,
           \/ RefillDrafts(c) \/ RefillFuture(c) \/ RefillSlot(c) \/ RefillPosition(c)
           \/ AdvanceRead(c) \/ AdvanceFails(c) \/ Abort(c)
    PROVE  IInv'
<1> USE DEF Steps, Launching
<1>1. SUFFICES CallsNext
  <2>1. Kept(objectives, objectives') /\ SessionsNext
    BY Same, SessionsKept
  <2> QED
    BY <1>1, <2>1, Preserved DEF IInv, TypeOK
<1>2. call[c] \in Call /\ RowsOf(call[c], objectives)
  BY DEF IInv, TypeOK, CallsOK
<1>3. /\ \A step \in Steps \ Launching : Goto(c, step) => CallsNext
      /\ call[c].step = "launch" /\ Goto(c, "queue") => CallsNext
      /\ End(c) => CallsNext
  BY Carries
<1>4. ASSUME NEW n \in Objectives, objectives[n].state # "none", NEW step \in Steps,
             Enter(c, [call[c] EXCEPT !.step = step, !.next = n])
      PROVE  CallsNext
  <2> DEFINE k == [call[c] EXCEPT !.step = step, !.next = n]
  <2>1. n # None
    BY MissionConstants DEF Objectives
  <2>2. k \in Call
    BY <1>2 DEF Call
  <2>3. /\ k.next = n /\ k.objective = call[c].objective
        /\ k.drafts = call[c].drafts
    BY <1>2 DEF Call
  <2>4. RowsOf(k, objectives)
    BY <1>2, <1>4, <2>1, <2>3 DEF RowsOf
  <2> QED
    BY <1>4, <2>2, <2>4, Entered
<1>5. CASE RefillDrafts(c)
  <2> DEFINE k == [call[c] EXCEPT !.step = "future", !.drafts = Drafts]
  <2>1. k \in Call /\ RowsOf(k, objectives)
    BY <1>2 DEF Call, RowsOf, Drafts, In, Live
  <2> QED
    BY <1>3, <1>5, <2>1, Entered DEF RefillDrafts
<1>6. CASE RefillFuture(c)
  <2>1. CASE In(objectives, {"future"}) = {}
    BY <1>3, <1>6, <2>1 DEF RefillFuture
  <2>2. CASE In(objectives, {"future"}) # {}
    <3>1. PICK n \in FirstOf(objectives, In(objectives, {"future"})) :
             Enter(c, [call[c] EXCEPT
                         !.step = IF call[c].drafts = {} THEN "promote" ELSE "discard",
                         !.next = n])
      BY <1>6, <2>2 DEF RefillFuture
    <3>2. n \in Objectives /\ objectives[n].state # "none"
      BY DEF FirstOf, In, Live
    <3>3. (IF call[c].drafts = {} THEN "promote" ELSE "discard") \in Steps
      OBVIOUS
    <3> QED
      BY <1>4, <3>1, <3>2, <3>3
  <2> QED
    BY <2>1, <2>2
<1>7. CASE RefillSlot(c)
  <2> DEFINE k == [call[c] EXCEPT !.step = "position",
                                  !.state = ResolvedState(objectives, "draft")]
  <2>1. k \in Call /\ RowsOf(k, objectives)
    BY <1>2 DEF Call, RowsOf, ResolvedState
  <2> QED
    BY <1>7, <2>1, Entered DEF RefillSlot
<1>8. CASE RefillPosition(c)
  <2> DEFINE k == [call[c] EXCEPT !.step = "insert", !.pos = NextPosition(objectives)]
  <2>1. NextPosition(objectives) \in Nat
    BY Facts, EndIsLast DEF Bounded
  <2>2. k \in Call /\ RowsOf(k, objectives)
    BY <1>2, <2>1 DEF Call, RowsOf
  <2> QED
    BY <1>8, <2>2, Entered DEF RefillPosition
<1>9. CASE AdvanceRead(c)
  <2> DEFINE below == {o \in Objectives :
                         /\ objectives[o].state = "draft"
                         /\ objectives[o].pos > objectives[call[c].objective].pos}
  <2>1. CASE below = {}
    BY <1>3, <1>9, <2>1 DEF AdvanceRead
  <2>2. CASE below # {}
    <3>1. PICK n \in FirstOf(objectives, below) :
             \/ Enter(c, [call[c] EXCEPT !.step = "launch", !.next = n])
             \/ End(c)
      BY <1>9, <2>2 DEF AdvanceRead
    <3>2. n \in Objectives /\ objectives[n].state # "none"
      BY DEF FirstOf
    <3> QED
      BY <1>3, <1>4, <3>1, <3>2
  <2> QED
    BY <2>1, <2>2
<1>10. CASE AdvanceFails(c) \/ Abort(c)
  BY <1>3, <1>10 DEF AdvanceFails, Abort
<1> QED
  BY <1>5, <1>6, <1>7, <1>8, <1>9, <1>10

\* The statements of a call that set a state.
LEMMA WriteStep ==
    ASSUME IInv, NEW c \in Callers,
           \/ Deliver(c) \/ RefillPromote(c) \/ AdvanceLaunch(c) \/ FollowUp(c)
           \/ Discuss(c) \/ \E s \in Sessions : Resume(c, s)
    PROVE  IInv'
<1> USE DEF Steps, Launching
<1>1. /\ \A step \in Steps \ Launching : Goto(c, step) => CallsNext
      /\ call[c].step = "launch" /\ Goto(c, "queue") => CallsNext
      /\ End(c) => CallsNext
  BY Carries
<1>2. \A state \in OBJECTIVE_STATES :
         /\ Kept(objectives, [objectives EXCEPT ![call[c].objective].state = state])
         /\ Kept(objectives, [objectives EXCEPT ![call[c].next].state = state])
  BY Facts, StateKeeps
<1>3. {"complete", "draft", "launching", "pending_delivery"} \subseteq OBJECTIVE_STATES
  BY DEF OBJECTIVE_STATES
<1>4. queued \in SUBSET Objectives /\ keyed \in SUBSET Objectives
  BY DEF IInv, TypeOK
<1>5. CASE Deliver(c)
  <2>1. Kept(objectives, objectives') /\ CallsNext
    BY <1>1, <1>2, <1>3, <1>5 DEF Deliver
  <2>2. SessionsNext
    BY <1>5, SessionsKept DEF Deliver
  <2> QED
    BY <1>4, <1>5, <2>1, <2>2, Preserved DEF Deliver
<1>6. CASE RefillPromote(c)
  <2>1. Kept(objectives, objectives') /\ CallsNext
    BY <1>1, <1>2, <1>3, <1>6 DEF RefillPromote
  <2> QED
    BY <1>4, <1>6, <2>1, SessionsKept, Preserved DEF RefillPromote
<1>7. CASE AdvanceLaunch(c)
  <2>1. Kept(objectives, objectives') /\ CallsNext
    BY <1>1, <1>2, <1>3, <1>7 DEF AdvanceLaunch
  <2> QED
    BY <1>4, <1>7, <2>1, SessionsKept, Preserved DEF AdvanceLaunch
<1>8. CASE FollowUp(c)
  <2>1. Kept(objectives, objectives') /\ CallsNext
    BY <1>1, <1>2, <1>3, <1>8 DEF FollowUp
  <2> QED
    BY <1>4, <1>8, <2>1, SessionsKept, Preserved DEF FollowUp
<1>9. CASE Discuss(c)
  <2>1. Kept(objectives, objectives') /\ CallsNext
    BY <1>1, <1>2, <1>3, <1>9 DEF Discuss
  <2> QED
    BY <1>4, <1>9, <2>1, SessionsKept, Preserved DEF Discuss
<1>10. ASSUME NEW s \in Sessions, Resume(c, s) PROVE IInv'
  <2>1. Kept(objectives, objectives) /\ CallsNext
    BY <1>1, <1>10, Facts, Stays DEF Resume
  <2>2. Kept(objectives, objectives')
    BY <1>2, <1>3, <1>10, <2>1 DEF Resume
  <2>3. SessionsNext
    BY <1>10, SessionsKept DEF Resume
  <2> QED
    BY <1>4, <1>10, <2>1, <2>2, <2>3, Preserved DEF Resume
<1> QED
  BY <1>5, <1>6, <1>7, <1>8, <1>9, <1>10

\* Rows may be deleted.
LEMMA DeleteKeeps ==
    ASSUME IInv, NEW D \in SUBSET Objectives,
           NEW g, g = [o \in Objectives |->
                         IF o \in D THEN [objectives[o] EXCEPT !.deleted = TRUE]
                         ELSE objectives[o]]
    PROVE  Kept(objectives, g)
<1>1. objectives \in Table /\ Bounded(objectives) /\ Fits(objectives)
  BY DEF IInv, TypeOK, Table
<1>2. \A o \in Objectives :
         /\ g[o] \in Objective
         /\ g[o].pos = objectives[o].pos
         /\ g[o].state = "none" <=> objectives[o].state = "none"
         /\ objectives[o].deleted => g[o].deleted
  BY <1>1 DEF Table, Objective
<1>3. g \in Table
  BY <1>2 DEF Table
<1> QED
  BY <1>1, <1>2, <1>3, Stays

\* The other statements of calls.
LEMMA CallStep ==
    ASSUME IInv, NEW c \in Callers,
           \/ \E s \in Sessions : Attach(c, s)
           \/ RefillDiscard(c) \/ RefillInsert(c) \/ AdvanceQueue(c)
    PROVE  IInv'
<1> USE DEF Steps, Launching
<1>1. /\ \A step \in Steps \ Launching : Goto(c, step) => CallsNext
      /\ call[c].step = "launch" /\ Goto(c, "queue") => CallsNext
      /\ End(c) => CallsNext
  BY Carries
<1>2. queued \in SUBSET Objectives /\ keyed \in SUBSET Objectives
  BY DEF IInv, TypeOK
<1>3. call[c] \in Call
  BY Facts
<1>4. ASSUME NEW s \in Sessions, Attach(c, s) PROVE IInv'
  <2> DEFINE f == [objectives EXCEPT ![call[c].objective].state = "executing"]
  <2>1. f \in Table /\ Kept(objectives, f)
    BY Facts, StateKeeps DEF OBJECTIVE_STATES
  <2>2. Kept(f, objectives')
    BY <1>4, <2>1, RefillKeeps DEF Attach, Kept
  <2>3. Kept(objectives, objectives')
    BY <2>1, <2>2 DEF Kept
  <2>4. SessionsNext /\ CallsNext
    BY <1>1, <1>4, SessionsKept DEF Attach
  <2> QED
    BY <1>2, <1>4, <2>3, <2>4, Preserved DEF Attach
<1>5. CASE RefillDiscard(c)
  <2>1. Kept(objectives, objectives')
    BY <1>3, <1>5, DeleteKeeps DEF RefillDiscard, Call
  <2> QED
    BY <1>1, <1>2, <1>5, <2>1, SessionsKept, Preserved DEF RefillDiscard
<1>6. CASE RefillInsert(c)
  <2>1. PICK o \in Objectives :
           LET f == [objectives EXCEPT ![o] =
                       [Blank(call[c].pos) EXCEPT !.state = call[c].state]]
           IN  IF Fits(f) THEN objectives' = f /\ Goto(c, "advance")
                          ELSE End(c) /\ UNCHANGED objectives
    BY <1>6 DEF RefillInsert
  <2> DEFINE row == [Blank(call[c].pos) EXCEPT !.state = call[c].state]
             f == [objectives EXCEPT ![o] = row]
  <2>2. objectives \in Table /\ Bounded(objectives)
    BY Facts
  <2>3. row \in Objective /\ row.state # "none"
    BY <1>3 DEF Blank, NoObjective, Objective, OBJECTIVE_STATES, Call
  <2> HIDE DEF row
  <2>4. f \in Table /\ \A p \in Objectives : f[p] = IF p = o THEN row ELSE objectives[p]
    BY <2>2, <2>3 DEF Table
  <2> HIDE DEF f
  <2>5. Bounded(f)
    <3>1. PICK B \in Nat : \A p \in Objectives : objectives[p].pos <= B
      BY <2>2 DEF Bounded
    <3>2. row.pos \in Nat /\ \A p \in Objectives : objectives[p].pos \in Nat
      BY <2>2, <2>3 DEF Table, Objective
    <3>3. \A p \in Objectives : f[p].pos <= B + row.pos
      BY <2>4, <3>1, <3>2
    <3> QED
      BY <3>2, <3>3 DEF Bounded
  <2>6. CASE Fits(f)
    <3>1. objectives' = f /\ CallsNext
      BY <1>1, <2>1, <2>6 DEF f, row
    <3>2. Kept(objectives, objectives')
      BY <2>3, <2>4, <2>5, <2>6, <3>1 DEF Kept
    <3> QED
      BY <1>2, <1>6, <3>1, <3>2, SessionsKept, Preserved DEF RefillInsert
  <2>7. CASE ~Fits(f)
    <3>1. UNCHANGED objectives /\ CallsNext
      BY <1>1, <2>1, <2>7 DEF f, row
    <3> QED
      BY <1>2, <1>6, <3>1, Same, SessionsKept, Preserved DEF RefillInsert
  <2> QED
    BY <2>6, <2>7
<1>7. CASE AdvanceQueue(c)
  <2>1. call[c].next \in Objectives
    BY <1>7, Facts DEF AdvanceQueue
  <2> QED
    BY <1>1, <1>2, <1>7, <2>1, Same, SessionsKept, Preserved DEF AdvanceQueue
<1> QED
  BY <1>4, <1>5, <1>6, <1>7

\* The call of a user is one transaction.
LEMMA UserStepKeeps == ASSUME IInv, NEW c \in Callers, UserStep(c) PROVE IInv'
<1>1. objectives \in Table /\ Bounded(objectives) /\ Fits(objectives)
  BY Facts
<1>2. \A o \in Objectives :
         /\ objectives[o] \in Objective
         /\ objectives[o].pos \in Nat
  BY <1>1 DEF Table, Objective
<1>3. queued \in SUBSET Objectives /\ keyed \in SUBSET Objectives
  BY DEF IInv, TypeOK
<1>4. UNCHANGED call => CallsNext
  BY Carries
<1>5. ASSUME NEW state \in CreateStates, NEW text \in BOOLEAN, NEW auto \in AutoAdvance,
             AddObjective(c, state, text, auto)
      PROVE  IInv'
  <2> DEFINE row == [state |-> ResolvedState(objectives, state),
                     pos |-> NextPosition(objectives),
                     text |-> text, auto |-> auto, deleted |-> FALSE]
  <2>1. PICK o \in Objectives : objectives' = [objectives EXCEPT ![o] = row]
    BY <1>5 DEF AddObjective
  <2>2. NextPosition(objectives) \in Nat
    BY <1>1, EndIsLast DEF Bounded
  <2>3. ResolvedState(objectives, state) \in OBJECTIVE_STATES
    BY MissionConstants DEF ResolvedState, OBJECTIVE_STATES
  <2>4. auto \in BOOLEAN
    BY MissionConstants
  <2>5. row \in Objective /\ row.state # "none" /\ row.pos = NextPosition(objectives)
    BY <2>2, <2>3, <2>4 DEF Objective, OBJECTIVE_STATES
  <2> HIDE DEF row
  <2>6. Kept(objectives, objectives')
    BY <1>1, <2>1, <2>5, Appended
  <2> QED
    BY <1>3, <1>4, <1>5, <2>6, SessionsKept, Preserved DEF AddObjective
<1>6. ASSUME NEW o \in Objectives, Launch(c, o) PROVE IInv'
  <2>1. objectives[o].state # "none"
    BY <1>6 DEF Launch, In, Live
  <2>2. Kept(objectives, [objectives EXCEPT ![o].state = "launching"])
    BY <2>1, StateKeeps DEF OBJECTIVE_STATES
  <2>3. Kept(objectives, objectives)
    BY <1>1, Stays
  <2>4. Kept(objectives, objectives')
    BY <1>6, <2>2, <2>3 DEF Launch
  <2> QED
    BY <1>3, <1>4, <1>6, <2>4, SessionsKept, Preserved DEF Launch
<1>7. ASSUME NEW o \in Objectives, NEW state \in PatchStates, PatchState(c, o, state)
      PROVE  IInv'
  <2> DEFINE f == IF state = "draft" THEN Promoted(o) ELSE objectives
             g == [f EXCEPT ![o].state = state]
  <2>1. /\ o \in Live(objectives)
        /\ Fits(g)
        /\ Refilled(g, objectives') \/ objectives' = g
        /\ Dequeue(o) \/ UNCHANGED <<queued, sessions>>
        /\ UNCHANGED <<keyed, call>>
    BY <1>7 DEF PatchState
  <2>2. state \in OBJECTIVE_STATES /\ state # "none"
    BY MissionConstants DEF OBJECTIVE_STATES
  <2>3. Shuffled(objectives, f)
    <3>1. Shuffled(objectives, objectives)
      BY <1>1 DEF Shuffled
    <3> QED
      BY <1>1, <2>1, <3>1, PromotionFits
  <2> HIDE DEF f
  <2>4. f \in Table /\ Bounded(f)
    BY <2>3 DEF Shuffled
  <2>5. \A p \in Objectives :
           g[p] = IF p = o THEN [f[p] EXCEPT !.state = state] ELSE f[p]
    BY <2>4 DEF Table
  <2>6. \A p \in Objectives : /\ f[p] \in Objective
                              /\ g[p] \in Objective
                              /\ g[p].pos = f[p].pos
                              /\ f[p].state # "none" => g[p].state # "none"
    BY <2>2, <2>4, <2>5 DEF Table, Objective
  <2>7. g \in Table
    BY <2>4, <2>6 DEF Table
  <2>8. Kept(objectives, g)
    BY <2>1, <2>3, <2>4, <2>6, <2>7 DEF Kept, Shuffled, Bounded
  <2> HIDE DEF g
  <2>9. Kept(objectives, objectives')
    BY <2>1, <2>8, RefillKeeps DEF Kept
  <2>10. SessionsNext
    BY <2>1, SessionsKept DEF Dequeue
  <2> QED
    BY <1>3, <1>4, <2>1, <2>9, <2>10, Preserved DEF Dequeue
<1>8. ASSUME NEW o \in Objectives, NEW text \in BOOLEAN, PatchText(c, o, text)
      PROVE  IInv'
  <2> DEFINE g == [objectives EXCEPT ![o].text = text]
  <2>1. g \in Table /\ \A p \in Objectives : /\ g[p].pos = objectives[p].pos
                                             /\ g[p].state = objectives[p].state
                                             /\ g[p].deleted = objectives[p].deleted
    BY <1>1 DEF Table, Objective
  <2> HIDE DEF g
  <2>2. Kept(objectives, g)
    BY <1>1, <2>1, Stays
  <2> QED
    BY <1>3, <1>4, <1>8, <2>2, SessionsKept, Preserved DEF PatchText, g
<1>9. ASSUME NEW o \in Objectives, NEW auto \in AutoAdvance, PatchAutoAdvance(c, o, auto)
      PROVE  IInv'
  <2> DEFINE g == [objectives EXCEPT ![o].auto = auto]
  <2>0. auto \in BOOLEAN
    BY MissionConstants
  <2>1. g \in Table /\ \A p \in Objectives : /\ g[p].pos = objectives[p].pos
                                             /\ g[p].state = objectives[p].state
                                             /\ g[p].deleted = objectives[p].deleted
    BY <1>1, <2>0 DEF Table, Objective
  <2> HIDE DEF g
  <2>2. Kept(objectives, g)
    BY <1>1, <2>1, Stays
  <2> QED
    BY <1>3, <1>4, <1>9, <2>2, SessionsKept, Preserved DEF PatchAutoAdvance, g
<1>10. ASSUME NEW o \in Objectives, DeleteObjective(c, o) PROVE IInv'
  <2> DEFINE g == [objectives EXCEPT ![o].deleted = TRUE]
  <2>1. g = [p \in Objectives |-> IF p \in {o} THEN [objectives[p] EXCEPT !.deleted = TRUE]
                                 ELSE objectives[p]]
    BY <1>1 DEF Table
  <2>2. Kept(objectives, g)
    BY <2>1, DeleteKeeps
  <2>3. SessionsNext
    BY <1>10, SessionsKept DEF DeleteObjective, Dequeue
  <2> QED
    BY <1>3, <1>4, <1>10, <2>2, <2>3, Preserved DEF DeleteObjective, Dequeue
<1>11. CASE ReorderFuture(c)
  <2>0. PICK G \in SUBSET In(objectives, {"future"}) :
          /\ G # {}
          /\ \E rank \in Orders(G) : Fits(Reordered(rank)) /\ objectives' = Reordered(rank)
    BY <1>11 DEF ReorderFuture
  <2>1. PICK rank \in Orders(G) : Fits(Reordered(rank)) /\ objectives' = Reordered(rank)
    BY <2>0
  <2>2. G # {} /\ G \subseteq Objectives
    BY <2>0 DEF In, Live
  <2>3. Cardinality(G) \in Nat
    <3>1. IsFiniteSet(Objectives)
      BY FS_Interval, MissionConstants DEF Objectives
    <3> QED
      BY <2>2, <3>1, FS_Subset, FS_CardinalityType
  <2>4. /\ DOMAIN rank = G
        /\ \A o \in G : rank[o] \in Nat /\ rank[o] <= Cardinality(G)
    BY <2>1, <2>3 DEF Orders
  <2> DEFINE P == {objectives[o].pos : o \in G}
             base == CHOOSE m \in P : \A o \in G : m <= objectives[o].pos
             g == Reordered(rank)
  <2>5. P \in SUBSET Nat /\ P # {}
    BY <1>2, <2>2
  <2> HIDE DEF P
  <2>6. \E m \in P : \A n \in P : m <= n
    BY <2>5, SmallestExists
  <2>7. \E m \in P : \A o \in G : m <= objectives[o].pos
    BY <2>6 DEF P
  <2>8. base \in Nat
    BY <2>5, <2>7
  <2>9. g = [o \in Objectives |-> IF o \in G
                                 THEN [objectives[o] EXCEPT !.pos = base + rank[o]]
                                 ELSE objectives[o]]
    BY <2>4 DEF Reordered, P
  <2> HIDE DEF base, g
  <2>10. \A o \in Objectives :
            /\ g[o] \in Objective
            /\ g[o].pos = IF o \in G THEN base + rank[o] ELSE objectives[o].pos
            /\ g[o].state = objectives[o].state
    <3> TAKE o \in Objectives
    <3>1. o \in G => base + rank[o] \in Nat
      BY <2>4, <2>8
    <3> QED
      BY <1>2, <2>9, <3>1 DEF Objective
  <2>11. g \in Table
    BY <2>9, <2>10 DEF Table
  <2>12. Bounded(g)
    <3>1. PICK B \in Nat : \A o \in Objectives : objectives[o].pos <= B
      BY <1>1 DEF Bounded
    <3>2. \A o \in Objectives : g[o].pos <= B + base + Cardinality(G)
      BY <1>2, <2>3, <2>4, <2>8, <2>10, <3>1
    <3> QED
      BY <2>3, <2>8, <3>1, <3>2 DEF Bounded
  <2>13. Kept(objectives, g)
    BY <2>1, <2>10, <2>11, <2>12 DEF Kept, g
  <2> QED
    BY <1>3, <1>4, <1>11, <2>1, <2>13, SessionsKept, Preserved DEF ReorderFuture, g
<1> QED
  BY <1>5, <1>6, <1>7, <1>8, <1>9, <1>10, <1>11 DEF UserStep

LEMMA NextInv == IInv /\ [Next]_vars => IInv'
<1> SUFFICES ASSUME IInv, [Next]_vars PROVE IInv'
  OBVIOUS
<1>1. ASSUME NEW c \in Callers, Continue(c) PROVE IInv'
  <2>1. CASE \/ \E s \in Sessions : Attach(c, s)
             \/ RefillDiscard(c) \/ RefillInsert(c) \/ AdvanceQueue(c)
    BY <2>1, CallStep
  <2>2. CASE \/ Deliver(c) \/ RefillPromote(c) \/ AdvanceLaunch(c) \/ FollowUp(c)
             \/ Discuss(c) \/ \E s \in Sessions : Resume(c, s)
    BY <2>2, WriteStep
  <2>3. CASE \/ RefillDrafts(c) \/ RefillFuture(c) \/ RefillSlot(c) \/ RefillPosition(c)
             \/ AdvanceRead(c) \/ AdvanceFails(c) \/ Abort(c)
    <3>1. UNCHANGED <<objectives, sessions, queued, keyed>>
      BY <2>3 DEF RefillDrafts, RefillFuture, RefillSlot, RefillPosition, AdvanceRead,
                  AdvanceFails, Abort
    <3> QED
      BY <2>3, <3>1, ReadStep
  <2> QED
    BY <1>1, <2>1, <2>2, <2>3 DEF Continue
<1>2. ASSUME NEW o \in Objectives, RequestSettles(o) PROVE IInv'
  <2>1. UNCHANGED call => CallsNext
    BY DEF CallsNext, IInv, TypeOK, CallsOK
  <2> QED
    BY <1>2, <2>1, Same, SessionsKept, Preserved DEF RequestSettles, IInv, TypeOK
<1>3. CASE UNCHANGED vars
  <2>1. UNCHANGED call => CallsNext
    BY DEF CallsNext, IInv, TypeOK, CallsOK
  <2> QED
    BY <1>3, <2>1, Same, SessionsKept, Preserved DEF vars, IInv, TypeOK
<1> QED
  BY <1>1, <1>2, <1>3, BeginStep, UserStepKeeps DEF Next

-----------------------------------------------------------------------------
(***************************************************************************)
(* Theorems.                                                               *)
(***************************************************************************)

\* What the other theorems rest on.
THEOREM Invariant == Spec => []IInv
<1> QED
  BY InitInv, NextInv, PTL DEF Spec

\* The tables and the calls keep their types: every state and position that a
\* call reads, computes and writes is one the columns allow.
THEOREM TypeCorrect == Spec => []TypeOK
<1>1. IInv => TypeOK
  BY DEF IInv
<1> QED
  BY <1>1, Invariant, PTL

\* The splice of a promotion is never refused by the unique index, for any
\* number of objectives and whatever gaps their positions have.
THEOREM PromotionsFit == Spec => []SplicesFit
<1>1. IInv => SplicesFit
  <2> SUFFICES ASSUME IInv, NEW o \in In(objectives, {"future"}) PROVE Fits(Promoted(o))
    BY DEF SplicesFit
  <2>1. o \in Live(objectives)
    BY DEF In
  <2>2. objectives \in Table /\ Bounded(objectives) /\ Fits(objectives)
    BY DEF IInv, TypeOK, Table
  <2> QED
    BY <2>1, <2>2, PromotionFits DEF Shuffled
<1> QED
  BY <1>1, Invariant, PTL

\* However calls overlap, an attach leaves a draft.
THEOREM AttachesRefill == Spec => AttachRefills
<1>1. ASSUME IInv, NEW c \in Callers, NEW s \in Sessions, Attach(c, s)
      PROVE  Drafts' # {}
  <2> DEFINE f == [objectives EXCEPT ![call[c].objective].state = "executing"]
  <2>1. f \in Table /\ Bounded(f) /\ Fits(f)
    BY <1>1, Facts, StateKeeps DEF OBJECTIVE_STATES, Kept
  <2>2. Refilled(f, objectives')
    BY <1>1 DEF Attach
  <2>3. In(objectives', {"draft"}) # {}
    BY <2>1, <2>2, RefillKeeps
  <2> QED
    BY <2>3 DEF Drafts, In, Live
<1>2. IInv /\ [Next]_vars
      => [\A c \in Callers, s \in Sessions : Attach(c, s) => Drafts' # {}]_vars
  BY <1>1
<1> QED
  BY <1>2, Invariant, PTL DEF Spec, AttachRefills

-----------------------------------------------------------------------------
(***************************************************************************)
(* MissionLifecycle implements ObjectiveOrder, for any number of           *)
(* objectives, sessions and callers.                                       *)
(***************************************************************************)

Several == \E c, d \in Callers : c # d

Future(f) == In(f, {"future"})

\* The tables before and after a step.
Tables == objectives \in Table /\ objectives' \in Table

-----------------------------------------------------------------------------
(***************************************************************************)
(* The steps of the order, said of positions.                              *)
(***************************************************************************)

LEMMA Primes ==
    /\ Live(objectives)' = Live(objectives')
    /\ In(objectives, {"future"})' = Future(objectives')
    /\ Above' = {pair \in Live(objectives') \X Live(objectives') :
                   objectives'[pair[1]].pos < objectives'[pair[2]].pos}
BY DEF Live, In, Future, Above

\* Distinct positions are a strict order.
LEMMA StrictlyAbove ==
    ASSUME Tables, Fits(objectives')
    PROVE  Order!StrictOrder(Live(objectives'), Above')
<1>1. \A o \in Live(objectives') : objectives'[o].pos \in Nat
  BY DEF Tables, Table, Objective, Live
<1>2. \A a, b \in Live(objectives') : a # b => objectives'[a].pos # objectives'[b].pos
  BY DEF Fits
<1>3. \A a, b \in Live(objectives') :
         <<a, b>> \in Above' <=> objectives'[a].pos < objectives'[b].pos
  BY Primes
<1>4. Above' \subseteq Live(objectives') \X Live(objectives')
  BY Primes
<1>5. \A a, b \in Live(objectives') :
         a # b => (<<a, b>> \in Above' <=> <<b, a>> \notin Above')
  BY <1>1, <1>2, <1>3
<1>6. \A a \in Live(objectives') : <<a, a>> \notin Above'
  BY <1>1, <1>3
<1>7. \A a, b, c \in Live(objectives') :
         <<a, b>> \in Above' /\ <<b, c>> \in Above' => <<a, c>> \in Above'
  BY <1>1, <1>3
<1> QED
  BY <1>4, <1>5, <1>6, <1>7 DEF Order!StrictOrder

\* Objectives go, or only states change.
LEMMA Shrinks ==
    ASSUME Tables, Live(objectives') \subseteq Live(objectives),
           \A o \in Live(objectives') : objectives'[o].pos = objectives[o].pos,
           \A a \in Future(objectives) \ Future(objectives') :
              \A b \in Future(objectives') \ Future(objectives) :
                 objectives[a].pos < objectives[b].pos
    PROVE  Order!Next
<1>1. Future(objectives') \subseteq Live(objectives') /\ Future(objectives) \subseteq Live(objectives)
  BY DEF Future, In
<1>2. Above' = Above \cap (Live(objectives') \X Live(objectives'))
  BY Primes DEF Above
<1>3. CASE Live(objectives') # Live(objectives)
  <2>1. Order!Remove
    BY <1>2, <1>3, Primes DEF Order!Remove, Order!Among
  <2> QED
    BY <1>1, <2>1, Primes DEF Order!Next
<1>4. CASE Live(objectives') = Live(objectives)
  <2>1. Above' = Above
    BY <1>2, <1>4 DEF Above
  <2>2. (Future(objectives) \ Future(objectives')) \X (Future(objectives') \ Future(objectives))
          \subseteq Above
    BY <1>1, <1>4 DEF Above
  <2>3. Order!Restate
    BY <1>4, <2>1, <2>2, Primes DEF Order!Restate, Future
  <2> QED
    BY <1>1, <2>3, Primes DEF Order!Next
<1> QED
  BY <1>3, <1>4

\* An objective comes, last or, when calls overlap, anywhere.
LEMMA Grows ==
    ASSUME Tables, Fits(objectives'), NEW o \in Objectives, o \notin Live(objectives),
           Live(objectives') = Live(objectives) \cup {o},
           \A p \in Live(objectives) : objectives'[p].pos = objectives[p].pos,
           Several \/ \A p \in Live(objectives) : objectives[p].pos < objectives'[o].pos
    PROVE  Order!Next
<1>1. Future(objectives') \subseteq Live(objectives')
  BY DEF Future, In
<1>2. \A p \in Live(objectives') : objectives'[p].pos \in Nat
  BY DEF Tables, Table, Objective, Live
<1>3. CASE \A p \in Live(objectives) : objectives[p].pos < objectives'[o].pos
  <2>1. Above \subseteq Live(objectives) \X Live(objectives)
    BY DEF Above
  <2>2. \A a, b \in Live(objectives') :
           <<a, b>> \in Above' <=> objectives'[a].pos < objectives'[b].pos
    BY Primes
  <2>3. \A a, b \in Live(objectives) :
           <<a, b>> \in Above <=> objectives[a].pos < objectives[b].pos
    BY DEF Above
  <2>4. \A a, b \in Live(objectives') :
           <<a, b>> \in Above' <=> <<a, b>> \in Above \/ (a \in Live(objectives) /\ b = o)
    <3> TAKE a, b \in Live(objectives')
    <3>1. CASE a \in Live(objectives) /\ b \in Live(objectives)
      BY <2>2, <2>3, <3>1
    <3>2. CASE a \in Live(objectives) /\ b = o
      BY <1>3, <2>2, <3>2
    <3>3. CASE a = o
      <4>1. <<a, b>> \notin Above
        BY <2>1, <3>3
      <4>2. ~(objectives'[a].pos < objectives'[b].pos)
        BY <1>2, <1>3, <3>3
      <4> QED
        BY <2>2, <3>3, <4>1, <4>2
    <3> QED
      BY <3>1, <3>2, <3>3
  <2>5. Above' \subseteq Live(objectives') \X Live(objectives')
    BY Primes
  <2>6. Above' = Above \cup (Live(objectives) \X {o})
    BY <2>1, <2>4, <2>5
  <2>7. Order!Append(o)
    BY <2>6, Primes DEF Order!Append
  <2> QED
    BY <1>1, <2>7, Primes DEF Order!Next
<1>4. CASE Several
  <2>1. Order!StrictOrder(Live(objectives'), Above')
    BY StrictlyAbove
  <2>2. Above' \cap (Live(objectives) \X Live(objectives)) = Above
    BY Primes DEF Above
  <2>3. Order!Insert(o)
    BY <1>4, <2>1, <2>2, Primes DEF Order!Insert, Several, Order!StrictOrder
  <2> QED
    BY <1>1, <2>3, Primes DEF Order!Next
<1> QED
  BY <1>3, <1>4

\* An objective leaves the future group and takes the place of a draft that goes
\* there, the first of those that do; what is in between moves down by one.
LEMMA Moves ==
    ASSUME Tables, Fits(objectives), Fits(objectives'),
           NEW o \in Future(objectives) \ Future(objectives'),
           NEW d \in Future(objectives') \ Future(objectives),
           Live(objectives') = Live(objectives),
           objectives[d].pos < objectives[o].pos,
           \A x \in Future(objectives') \ Future(objectives) :
              x = d \/ objectives[d].pos < objectives[x].pos,
           \A p \in Live(objectives) :
              objectives'[p].pos =
                 IF p = o THEN objectives[d].pos
                 ELSE IF /\ objectives[p].pos >= objectives[d].pos
                         /\ objectives[p].pos < objectives[o].pos
                 THEN objectives[p].pos + 1 ELSE objectives[p].pos
    PROVE  Order!Next
<1> DEFINE L == Live(objectives)
<1>1. /\ Future(objectives') \subseteq L /\ Future(objectives) \subseteq L
      /\ o \in L /\ d \in L /\ o # d
  BY DEF Future, In
<1>2. \A p \in L : objectives[p].pos \in Nat
  BY DEF Tables, Table, Objective, Live
<1>3. \A a, b \in L : a # b => objectives[a].pos # objectives[b].pos
  BY DEF Fits
<1>4. \A a, b \in L : <<a, b>> \in Above <=> objectives[a].pos < objectives[b].pos
  BY DEF Above
<1>5. \A a, b \in L : <<a, b>> \in Above' <=> objectives'[a].pos < objectives'[b].pos
  BY Primes
<1>6. Above' \subseteq L \X L /\ Above \subseteq L \X L
  BY Primes DEF Above
<1> DEFINE kept == Above \cap ((L \ {o}) \X (L \ {o}))
           below == {<<o, x>> : x \in {y \in L \ {o} : y = d \/ <<d, y>> \in Above}}
           above == {<<x, o>> : x \in {y \in L \ {o} : <<y, d>> \in Above}}
<1> HIDE DEF L
<1>7. \A a, b \in L : <<a, b>> \in Above' <=> <<a, b>> \in kept \cup below \cup above
  <2> TAKE a, b \in L
  <2>1. CASE a # o /\ b # o
    <3>1. <<a, b>> \in kept \cup below \cup above <=> <<a, b>> \in Above
      BY <2>1
    <3>2. objectives'[a].pos < objectives'[b].pos <=> objectives[a].pos < objectives[b].pos
      <4>1. objectives[a].pos # objectives[o].pos /\ objectives[b].pos # objectives[o].pos
        BY <1>1, <1>3, <2>1
      <4> QED
        BY <1>1, <1>2, <2>1, <4>1 DEF L
    <3> QED
      BY <1>4, <1>5, <3>1, <3>2
  <2>2. CASE a = o /\ b # o
    <3>1. <<a, b>> \in kept \cup below \cup above <=> b = d \/ <<d, b>> \in Above
      BY <2>2
    <3>2. objectives'[a].pos < objectives'[b].pos <=> objectives[d].pos <= objectives[b].pos
      BY <1>1, <1>2, <2>2 DEF L
    <3>3. objectives[d].pos <= objectives[b].pos <=> b = d \/ objectives[d].pos < objectives[b].pos
      BY <1>1, <1>2, <1>3
    <3> QED
      BY <1>1, <1>4, <1>5, <3>1, <3>2, <3>3
  <2>3. CASE a # o /\ b = o
    <3>1. <<a, b>> \in kept \cup below \cup above <=> <<a, d>> \in Above
      BY <2>3
    <3>2. objectives'[a].pos < objectives'[b].pos <=> objectives[a].pos < objectives[d].pos
      BY <1>1, <1>2, <2>3 DEF L
    <3> QED
      BY <1>1, <1>4, <1>5, <3>1, <3>2
  <2>4. CASE a = o /\ b = o
    <3>1. <<a, b>> \notin kept \cup below \cup above
      BY <2>4
    <3>2. ~(objectives'[a].pos < objectives'[b].pos)
      BY <1>1, <1>2, <2>4 DEF L
    <3> QED
      BY <1>5, <3>1, <3>2
  <2> QED
    BY <2>1, <2>2, <2>3, <2>4
<1>8. kept \cup below \cup above \subseteq L \X L
  <2>1. kept \subseteq L \X L
    OBVIOUS
  <2>2. ASSUME NEW w \in below \cup above PROVE w \in L \X L
    <3>1. o \in L
      BY <1>1 DEF L
    <3>2. PICK x \in L : w = <<o, x>> \/ w = <<x, o>>
      OBVIOUS
    <3> QED
      BY <3>1, <3>2
  <2> QED
    BY <2>1, <2>2
<1> HIDE DEF kept, below, above
<1>9. Above' = kept \cup below \cup above
  BY <1>6, <1>7, <1>8
<1>10. /\ <<d, o>> \in Above
       /\ \A x \in Future(objectives') \ Future(objectives) : x = d \/ <<d, x>> \in Above
  BY <1>1, <1>4
<1>11. Order!MoveInFront(o, d)
  BY <1>9, <1>10, Primes DEF Order!MoveInFront, Order!Among, kept, below, above, L, Future
<1>12. o \in Objectives /\ d \in Objectives
  BY <1>1 DEF L, Live
<1> QED
  BY <1>1, <1>11, <1>12, Primes DEF Order!Next, L

\* The future group is put in another order.
LEMMA Reorders ==
    ASSUME Tables, Fits(objectives'),
           Live(objectives') = Live(objectives), Future(objectives') = Future(objectives),
           \A p \in Live(objectives) \ Future(objectives) :
              objectives'[p].pos = objectives[p].pos
    PROVE  Order!Next
<1> DEFINE rest == Live(objectives) \ Future(objectives)
<1>1. Order!StrictOrder(Live(objectives), Above')
  BY StrictlyAbove
<1>2. Above' \cap (rest \X rest) = Above \cap (rest \X rest)
  BY Primes DEF Above
<1>3. Order!Reorder
  BY <1>1, <1>2, Primes DEF Order!Reorder, Order!Among, Future, Order!StrictOrder
<1>4. Future(objectives') \subseteq Live(objectives')
  BY DEF Future, In
<1> QED
  BY <1>3, <1>4, Primes DEF Order!Next

-----------------------------------------------------------------------------
(***************************************************************************)
(* A single caller inserts at the end: nothing happens after its look.     *)
(***************************************************************************)

SoloOK ==
    ~Several => \A c \in Callers : call[c].step = "insert"
                  => \A o \in Live(objectives) : objectives[o].pos < call[c].pos

LEMMA SoloInit == Init => SoloOK
BY DEF Init, SoloOK, NoCall

LEMMA SoloNext == IInv /\ SoloOK /\ [Next]_vars => SoloOK'
<1> SUFFICES ASSUME IInv, SoloOK, [Next]_vars, ~Several, NEW c \in Callers,
                    call'[c].step = "insert"
             PROVE  \A o \in Live(objectives') : objectives'[o].pos < call'[c].pos
  BY DEF SoloOK, Several, Live
<1>1. \A d \in Callers : d = c
  BY DEF Several
<1>2. objectives \in Table /\ Bounded(objectives) /\ call[c] \in Call
  BY Facts
<1>3. \A k : Enter(c, k) => call'[c] = k
  BY DEF Enter, IInv, TypeOK
<1>4. NoCall.step = "none"
  BY DEF NoCall
<1>5. CASE UNCHANGED <<objectives, call>>
  BY <1>5 DEF SoloOK
<1>6. ~Begin(c)
  <2>1. ASSUME NEW step, NEW o, Enter(c, [NoCall EXCEPT !.step = step, !.objective = o])
        PROVE  step = "insert"
    <3>1. [NoCall EXCEPT !.step = step, !.objective = o].step = step
      BY DEF NoCall
    <3> QED
      BY <1>3, <2>1, <3>1
  <2>2. ASSUME NEW step, NEW o, NEW s,
               Enter(c, [NoCall EXCEPT !.step = step, !.session = s, !.objective = o])
        PROVE  step = "insert"
    <3>1. [NoCall EXCEPT !.step = step, !.session = s, !.objective = o].step = step
      BY DEF NoCall
    <3> QED
      BY <1>3, <2>2, <3>1
  <2>3. ~AttachPick(c)
    BY <2>1 DEF AttachPick
  <2>4. ~ResumePick(c)
    BY <2>1 DEF ResumePick
  <2>5. ~DiscussPick(c)
    BY <2>1 DEF DiscussPick
  <2>6. \A s \in Sessions : ~DeliverLookUp(c, s)
    BY <2>2 DEF DeliverLookUp
  <2>7. \A s \in Sessions : ~FollowUpLookUp(c, s)
    BY <2>1 DEF FollowUpLookUp
  <2> QED
    BY <2>3, <2>4, <2>5, <2>6, <2>7 DEF Begin
<1>7. ~UserStep(c)
  BY DEF UserStep, AddObjective, Launch, PatchState, PatchText, PatchAutoAdvance,
         DeleteObjective, ReorderFuture, Idle
<1>8. \A step : Goto(c, step) => call'[c].step = step
  BY <1>2, <1>3 DEF Goto, Call
<1>9. ~End(c)
  BY <1>3, <1>4 DEF End
<1>10. ASSUME Continue(c) PROVE RefillPosition(c)
  <2>1. ~(\E s \in Sessions : Attach(c, s) \/ Resume(c, s))
    BY <1>9 DEF Attach, Resume
  <2>2. ~Deliver(c) /\ ~RefillDiscard(c) /\ ~RefillPromote(c) /\ ~AdvanceLaunch(c)
    BY <1>8 DEF Deliver, RefillDiscard, RefillPromote, AdvanceLaunch
  <2>3. ~RefillDrafts(c)
    BY <1>2, <1>3, <1>8 DEF RefillDrafts, Call
  <2>4. ~RefillFuture(c)
    BY <1>2, <1>3, <1>8 DEF RefillFuture, Call
  <2>5. ~RefillSlot(c)
    BY <1>2, <1>3 DEF RefillSlot, Call
  <2>6. ~RefillInsert(c)
    BY <1>8, <1>9 DEF RefillInsert
  <2>7. ~AdvanceRead(c)
    BY <1>2, <1>3, <1>9 DEF AdvanceRead, Call
  <2>8. ~AdvanceQueue(c) /\ ~AdvanceFails(c) /\ ~FollowUp(c) /\ ~Discuss(c) /\ ~Abort(c)
    BY <1>9 DEF AdvanceQueue, AdvanceFails, FollowUp, Discuss, Abort
  <2> QED
    BY <1>10, <2>1, <2>2, <2>3, <2>4, <2>5, <2>6, <2>7, <2>8 DEF Continue
<1>11. CASE RefillPosition(c)
  <2>1. call'[c].pos = NextPosition(objectives) /\ UNCHANGED objectives
    BY <1>2, <1>3, <1>11 DEF RefillPosition, Call
  <2>2. \A o \in Live(objectives) : objectives[o].pos < NextPosition(objectives)
    BY <1>2, EndIsLast DEF Bounded
  <2> QED
    BY <2>1, <2>2
<1>12. CASE \E o \in Objectives : RequestSettles(o)
  BY <1>5, <1>12 DEF RequestSettles
<1> QED
  BY <1>1, <1>5, <1>6, <1>7, <1>10, <1>11, <1>12 DEF Next, vars

-----------------------------------------------------------------------------
(***************************************************************************)
(* Every step is one of the order.                                         *)
(***************************************************************************)

\* The invariant before and after a step, of the tables.
LEMMA Around ==
    ASSUME IInv, IInv'
    PROVE  /\ Tables /\ Bounded(objectives) /\ Fits(objectives) /\ Fits(objectives')
           /\ \A o \in Objectives : /\ objectives[o] \in Objective
                                    /\ objectives'[o] \in Objective
BY DEF IInv, TypeOK, Tables, Table, Fits, Live

\* Nothing moves, nothing comes, and nothing enters the future group.
LEMMA Fewer ==
    ASSUME Tables, \A o \in Objectives : objectives'[o].pos = objectives[o].pos,
           Live(objectives') \subseteq Live(objectives),
           Future(objectives') \subseteq Future(objectives)
    PROVE  Order!Next
BY Shrinks DEF Live

\* Another state than future for an existing objective.
LEMMA StateFewer ==
    ASSUME IInv, IInv', NEW o, o \in Objectives => objectives[o].state # "none",
           NEW state, state # "future", objectives' = [objectives EXCEPT ![o].state = state]
    PROVE  Order!Next
<1>1. Tables /\ \A p \in Objectives : objectives[p] \in Objective
  BY Around
<1>2. \A p \in Objectives :
         objectives'[p] = IF p = o THEN [objectives[p] EXCEPT !.state = state] ELSE objectives[p]
  BY <1>1 DEF Tables, Table
<1>3. \A p \in Objectives : /\ objectives'[p].pos = objectives[p].pos
                            /\ objectives'[p].deleted = objectives[p].deleted
                            /\ p # o => objectives'[p].state = objectives[p].state
                            /\ p = o => objectives'[p].state = state
  BY <1>1, <1>2 DEF Objective
<1>4. Live(objectives') \subseteq Live(objectives)
  BY <1>3 DEF Live
<1>5. Future(objectives') \subseteq Future(objectives)
  BY <1>3, <1>4 DEF Future, In, Live
<1> QED
  BY <1>1, <1>3, <1>4, <1>5, Fewer

\* The slot is restored after a state was set.
LEMMA RefillSteps ==
    ASSUME IInv, IInv', NEW o, o \in Objectives => objectives[o].state # "none",
           Refilled([objectives EXCEPT ![o].state = "executing"], objectives')
    PROVE  Order!Next
<1> DEFINE f == [objectives EXCEPT ![o].state = "executing"]
           drafts == In(f, {"draft"})
           future == In(f, {"future"})
<1>1. Tables /\ Fits(objectives') /\ \A p \in Objectives : objectives[p] \in Objective
  BY Around
<1>2. f \in Table /\ Bounded(f)
  BY StateKeeps DEF Kept, OBJECTIVE_STATES
<1>3. \A p \in Objectives :
         f[p] = IF p = o THEN [objectives[p] EXCEPT !.state = "executing"] ELSE objectives[p]
  BY <1>1 DEF Tables, Table
<1>4. \A p \in Objectives : /\ f[p].pos = objectives[p].pos
                            /\ f[p].deleted = objectives[p].deleted
                            /\ p # o => f[p].state = objectives[p].state
                            /\ p = o => f[p].state = "executing"
  BY <1>1, <1>3 DEF Objective
<1>5. Refilled(f, objectives')
  OBVIOUS
<1> HIDE DEF f
<1>6. Live(f) = Live(objectives)
  BY <1>4 DEF Live
<1>7. future \subseteq Future(objectives)
  BY <1>4, <1>6 DEF Future, In, Live
<1>8. CASE objectives' = f
  <2>1. Live(objectives') \subseteq Live(objectives) /\ Future(objectives') \subseteq Future(objectives)
    BY <1>6, <1>7, <1>8 DEF Future
  <2> QED
    BY <1>1, <1>4, <1>8, <2>1, Fewer
<1>9. CASE future # {} /\ objectives' # f
  <2>1. PICK n \in FirstOf(f, future) :
           objectives' = [p \in Objectives |->
                            IF p \in drafts THEN [f[p] EXCEPT !.deleted = TRUE]
                            ELSE IF p = n THEN [f[p] EXCEPT !.state = "draft"] ELSE f[p]]
    BY <1>5, <1>9 DEF Refilled
  <2>2. n \in Live(f)
    BY DEF FirstOf, In
  <2>3. \A p \in Objectives :
           /\ objectives'[p].pos = f[p].pos
           /\ ~objectives'[p].deleted => objectives'[p].deleted = f[p].deleted
           /\ objectives'[p].state = f[p].state \/ (p = n /\ objectives'[p].state = "draft")
    BY <1>2, <2>1 DEF Table, Objective
  <2>4. Live(objectives') \subseteq Live(f)
    BY <2>2, <2>3 DEF Live
  <2>5. Future(objectives') \subseteq Future(objectives)
    BY <1>7, <2>3, <2>4 DEF Future, In, Live
  <2> QED
    BY <1>1, <1>4, <1>6, <2>3, <2>4, <2>5, Fewer
<1>10. CASE future = {} /\ objectives' # f
  <2>1. PICK n \in Objectives :
           NewRow(f, n) /\ objectives' = [f EXCEPT ![n] = Blank(NextPosition(f))]
    BY <1>5, <1>10 DEF Refilled
  <2>2. n \notin Live(f)
    BY <2>1 DEF NewRow, Live
  <2>3. /\ Blank(NextPosition(f)).state = "draft"
        /\ Blank(NextPosition(f)).pos = NextPosition(f)
        /\ ~Blank(NextPosition(f)).deleted
    BY DEF Blank, NoObjective
  <2>4. objectives'[n] = Blank(NextPosition(f)) /\ \A p \in Objectives : p # n => objectives'[p] = f[p]
    BY <1>2, <2>1 DEF Table
  <2>5. Live(objectives') = Live(objectives) \cup {n}
    BY <1>6, <2>3, <2>4 DEF Live
  <2>6. \A p \in Live(f) : f[p].pos < NextPosition(f)
    BY <1>2, EndIsLast DEF Bounded
  <2>7. \A p \in Live(objectives) : /\ objectives'[p].pos = objectives[p].pos
                                    /\ objectives[p].pos < objectives'[n].pos
    BY <1>4, <1>6, <2>2, <2>3, <2>4, <2>6 DEF Live
  <2> QED
    BY <1>1, <1>6, <2>2, <2>5, <2>7, Grows
<1> QED
  BY <1>8, <1>9, <1>10

\* A new row.
LEMMA RowSteps ==
    ASSUME IInv, IInv', NEW o \in Objectives, NewRow(objectives, o),
           NEW row, row.state # "none", ~row.deleted,
           objectives' = [objectives EXCEPT ![o] = row],
           Several \/ \A p \in Live(objectives) : objectives[p].pos < row.pos
    PROVE  Order!Next
<1>1. Tables /\ Fits(objectives')
  BY Around
<1>2. objectives'[o] = row /\ \A p \in Objectives : p # o => objectives'[p] = objectives[p]
  BY <1>1 DEF Tables, Table
<1>3. o \notin Live(objectives)
  BY DEF NewRow, Live
<1>4. Live(objectives') = Live(objectives) \cup {o}
  BY <1>2 DEF Live
<1>5. \A p \in Live(objectives) : objectives'[p].pos = objectives[p].pos
  BY <1>2, <1>3 DEF Live
<1> QED
  BY <1>1, <1>2, <1>3, <1>4, <1>5, Grows

\* A promotion to draft.
LEMMA PromotionSteps ==
    ASSUME IInv, IInv', NEW o \in Live(objectives),
           objectives' = [Promoted(o) EXCEPT ![o].state = "draft"]
    PROVE  Order!Next
<1> DEFINE others == Drafts \ {o}
           f == Demoted(o)
           g == Promoted(o)
<1>1. /\ Tables /\ Bounded(objectives) /\ Fits(objectives) /\ Fits(objectives')
      /\ \A p \in Objectives : objectives[p] \in Objective /\ objectives[p].pos \in Nat
      /\ o \in Objectives
  BY Around DEF Objective, Live
<1>2. \A p \in Objectives :
         f[p] = IF p \in others THEN [objectives[p] EXCEPT !.state = "future"] ELSE objectives[p]
  BY DEF Demoted
<1>3. \A p \in Objectives :
         /\ f[p] \in Objective
         /\ f[p].pos = objectives[p].pos
         /\ f[p].deleted = objectives[p].deleted
         /\ f[p].state = IF p \in others THEN "future" ELSE objectives[p].state
  <2> HIDE DEF others, f
  <2> TAKE p \in Objectives
  <2>1. CASE p \in others
    <3>1. f[p] = [objectives[p] EXCEPT !.state = "future"]
      BY <1>2, <2>1
    <3> QED
      BY <1>1, <2>1, <3>1 DEF Objective, OBJECTIVE_STATES
  <2>2. CASE p \notin others
    <3>1. f[p] = objectives[p]
      BY <1>2, <2>2
    <3> QED
      BY <1>1, <2>2, <3>1
  <2> QED
    BY <2>1, <2>2
<1>4. g \in Table
  BY <1>1, PromotionFits DEF Shuffled, Tables
<1> HIDE DEF f
<1>5. \A slot : \A p \in Objectives :
         /\ Spliced(f, o, slot)[p].state = f[p].state
         /\ Spliced(f, o, slot)[p].deleted = f[p].deleted
  BY <1>3 DEF Spliced, Objective
<1>6. g = f \/ \E slot : g = Spliced(f, o, slot)
  BY DEF Promoted, f
<1>7. \A p \in Objectives :
         /\ g[p].state = IF p \in others THEN "future" ELSE objectives[p].state
         /\ g[p].deleted = objectives[p].deleted
  BY <1>3, <1>5, <1>6
<1> HIDE DEF g
<1>8. \A p \in Objectives :
         /\ objectives'[p].pos = g[p].pos
         /\ objectives'[p].deleted = objectives[p].deleted
         /\ objectives'[p].state = IF p = o THEN "draft"
                                   ELSE IF p \in others THEN "future" ELSE objectives[p].state
  <2>1. objectives' = [g EXCEPT ![o].state = "draft"]
    BY DEF g
  <2>2. \A p \in Objectives :
           objectives'[p] = IF p = o THEN [g[p] EXCEPT !.state = "draft"] ELSE g[p]
    BY <1>4, <2>1 DEF Table
  <2>3. \A p \in Objectives : g[p] \in Objective
    BY <1>4 DEF Table
  <2> HIDE DEF others
  <2> TAKE p \in Objectives
  <2>4. CASE p = o
    <3>1. objectives'[p] = [g[p] EXCEPT !.state = "draft"]
      BY <2>2, <2>4
    <3> QED
      BY <1>7, <2>3, <2>4, <3>1 DEF Objective
  <2>5. CASE p # o
    <3>1. objectives'[p] = g[p]
      BY <2>2, <2>5
    <3> QED
      BY <1>7, <2>5, <3>1
  <2> QED
    BY <2>4, <2>5
<1>9. others \subseteq Live(objectives) /\ \A d \in others : objectives[d].state = "draft"
  BY DEF Drafts, In
<1>10. Live(objectives') = Live(objectives)
  <2>1. \A p \in Objectives : objectives'[p].state # "none" /\ ~objectives'[p].deleted
                               => objectives[p].state # "none" /\ ~objectives[p].deleted
    BY <1>8, <1>9 DEF Live
  <2>2. \A p \in Live(objectives) : objectives'[p].state # "none" /\ ~objectives'[p].deleted
    BY <1>8 DEF Live
  <2> QED
    BY <2>1, <2>2 DEF Live
<1>11. Future(objectives') \ Future(objectives) = others
  <2>1. \A p \in Live(objectives) : p \in Future(objectives') <=> objectives'[p].state = "future"
    BY <1>10 DEF Future, In
  <2>2. \A p \in Live(objectives) : p \in Future(objectives) <=> objectives[p].state = "future"
    BY DEF Future, In
  <2>3. Future(objectives') \subseteq Live(objectives)
    BY <1>10 DEF Future, In
  <2>4. \A p \in Live(objectives) :
           p \in Future(objectives') /\ p \notin Future(objectives) <=> p \in others
    <3> TAKE p \in Live(objectives)
    <3>1. p \in Objectives /\ o \notin others
      BY DEF Live
    <3> HIDE DEF others
    <3>2. CASE p \in others
      BY <1>8, <1>9, <2>1, <2>2, <3>1, <3>2
    <3>3. CASE p \notin others
      <4>1. objectives'[p].state = IF p = o THEN "draft" ELSE objectives[p].state
        BY <1>8, <3>1, <3>3
      <4>2. objectives'[p].state = "future" => objectives[p].state = "future"
        BY <4>1
      <4> QED
        BY <2>1, <2>2, <3>3, <4>2
    <3> QED
      BY <3>2, <3>3
  <2> QED
    BY <1>9, <2>3, <2>4
<1>12. Future(objectives) \ Future(objectives') \subseteq {o}
  BY <1>8, <1>10 DEF Future, In, Live
<1>13. CASE objectives[o].state = "future" /\ others # {}
  <2> DEFINE P == {f[d].pos : d \in others}
             slot == CHOOSE m \in P : \A d \in others : m <= f[d].pos
  <2>1. P \in SUBSET Nat /\ P # {}
    BY <1>1, <1>3, <1>9, <1>13 DEF Live
  <2> HIDE DEF P
  <2>2. \E m \in P : \A n \in P : m <= n
    BY <2>1, SmallestExists
  <2>3. \E m \in P : \A d \in others : m <= f[d].pos
    BY <2>2 DEF P
  <2>4. slot \in P /\ \A d \in others : slot <= f[d].pos
    BY <2>3
  <2>5. g = IF f[o].pos > slot THEN Spliced(f, o, slot) ELSE f
    BY <1>13 DEF Promoted, P, f, g
  <2> HIDE DEF slot
  <2>6. PICK d \in others : slot = f[d].pos
    BY <2>4 DEF P
  <2>7. /\ d \in Live(objectives) /\ d \in Objectives /\ d # o
        /\ slot = objectives[d].pos /\ slot \in Nat
    BY <1>1, <1>3, <1>9, <2>6 DEF Live
  <2>8. \A x \in others : x = d \/ objectives[d].pos < objectives[x].pos
    <3> TAKE x \in others
    <3>1. x \in Objectives /\ objectives[d].pos <= objectives[x].pos
      BY <1>3, <1>9, <2>4, <2>7 DEF Live
    <3>2. x = d \/ objectives[d].pos # objectives[x].pos
      BY <1>1, <1>9, <2>7 DEF Fits
    <3> QED
      BY <1>1, <2>7, <3>1, <3>2
  <2>9. CASE f[o].pos > slot
    <3>1. \A p \in Objectives :
             g[p] = IF p = o THEN [f[p] EXCEPT !.pos = slot]
                    ELSE IF p \in Live(f) /\ f[p].pos >= slot /\ f[p].pos < f[o].pos
                    THEN [f[p] EXCEPT !.pos = f[p].pos + 1] ELSE f[p]
      BY <2>5, <2>9 DEF Spliced
    <3>2. \A p \in Live(objectives) : p \in Objectives /\ p \in Live(f)
      BY <1>3 DEF Live
    <3>3. \A p \in Live(objectives) :
             g[p].pos = IF p = o THEN slot
                        ELSE IF f[p].pos >= slot /\ f[p].pos < f[o].pos
                        THEN f[p].pos + 1 ELSE f[p].pos
      BY <1>3, <3>1, <3>2 DEF Objective
    <3>4. \A p \in Live(objectives) :
             objectives'[p].pos =
                IF p = o THEN objectives[d].pos
                ELSE IF /\ objectives[p].pos >= objectives[d].pos
                        /\ objectives[p].pos < objectives[o].pos
                THEN objectives[p].pos + 1 ELSE objectives[p].pos
      BY <1>1, <1>3, <1>8, <2>7, <3>2, <3>3
    <3>5. o \in Future(objectives) \ Future(objectives')
      BY <1>1, <1>8, <1>13 DEF Future, In
    <3>6. objectives[d].pos < objectives[o].pos
      BY <1>1, <1>3, <2>7, <2>9
    <3> HIDE DEF others
    <3> QED
      BY <1>1, <1>10, <1>11, <2>6, <2>8, <3>4, <3>5, <3>6, Moves
  <2>10. CASE ~(f[o].pos > slot)
    <3>1. \A p \in Objectives : objectives'[p].pos = objectives[p].pos
      BY <1>3, <1>8, <2>5, <2>10
    <3>2. objectives[o].pos < objectives[d].pos
      <4>1. objectives[o].pos <= objectives[d].pos
        BY <1>1, <1>3, <2>7, <2>10
      <4>2. objectives[o].pos # objectives[d].pos
        BY <1>1, <2>7 DEF Fits
      <4> QED
        BY <1>1, <2>7, <4>1, <4>2
    <3>3. \A x \in others : objectives[o].pos < objectives[x].pos
      BY <1>1, <1>9, <2>7, <2>8, <3>2 DEF Live
    <3> HIDE DEF others
    <3> QED
      BY <1>1, <1>10, <1>11, <1>12, <3>1, <3>3, Shrinks DEF Live
  <2> QED
    BY <2>9, <2>10
<1>14. CASE ~(objectives[o].state = "future" /\ others # {})
  <2>1. g = f
    BY <1>14 DEF Promoted, f, g
  <2>2. \A p \in Objectives : objectives'[p].pos = objectives[p].pos
    BY <1>3, <1>8, <2>1
  <2>3. Future(objectives) \ Future(objectives') = {} \/ others = {}
    BY <1>12, <1>14 DEF Future, In
  <2> HIDE DEF others
  <2> QED
    BY <1>1, <1>10, <1>11, <2>2, <2>3, Shrinks DEF Live
<1> QED
  BY <1>13, <1>14

LEMMA UserSteps == ASSUME IInv, IInv', NEW c \in Callers, UserStep(c) PROVE Order!Next
<1>1. /\ Tables /\ Bounded(objectives) /\ Fits(objectives) /\ Fits(objectives')
      /\ \A p \in Objectives : objectives[p] \in Objective /\ objectives[p].pos \in Nat
  BY Around DEF Objective
<1>2. ASSUME objectives' = objectives PROVE Order!Next
  BY <1>1, <1>2, Fewer
<1>3. ASSUME NEW state \in CreateStates, NEW text \in BOOLEAN, NEW auto \in AutoAdvance,
             AddObjective(c, state, text, auto)
      PROVE  Order!Next
  <2> DEFINE row == [state |-> ResolvedState(objectives, state),
                     pos |-> NextPosition(objectives),
                     text |-> text, auto |-> auto, deleted |-> FALSE]
  <2>1. PICK o \in Objectives :
           NewRow(objectives, o) /\ objectives' = [objectives EXCEPT ![o] = row]
    BY <1>3 DEF AddObjective
  <2>2. row.state # "none" /\ ~row.deleted /\ row.pos = NextPosition(objectives)
    BY MissionConstants DEF ResolvedState, OBJECTIVE_STATES
  <2>3. \A p \in Live(objectives) : objectives[p].pos < NextPosition(objectives)
    BY <1>1, EndIsLast DEF Bounded, Tables
  <2> HIDE DEF row
  <2> QED
    BY <2>1, <2>2, <2>3, RowSteps
<1>4. ASSUME NEW o \in Objectives, Launch(c, o) PROVE Order!Next
  <2>1. objectives[o].state # "none"
    BY <1>4 DEF Launch, In, Live
  <2>2. objectives' = [objectives EXCEPT ![o].state = "launching"] \/ objectives' = objectives
    BY <1>4 DEF Launch
  <2> QED
    BY <1>2, <2>1, <2>2, StateFewer
<1>5. ASSUME NEW o \in Objectives, NEW state \in PatchStates, PatchState(c, o, state)
      PROVE  Order!Next
  <2>1. o \in Live(objectives) /\ objectives[o].state # "none"
    BY <1>5 DEF PatchState, Live
  <2>2. CASE state = "draft"
    <3>1. objectives' = [Promoted(o) EXCEPT ![o].state = "draft"]
      BY <1>5, <2>2 DEF PatchState
    <3> QED
      BY <2>1, <3>1, PromotionSteps
  <2>3. CASE state = "executing"
    <3>1. \/ Refilled([objectives EXCEPT ![o].state = "executing"], objectives')
          \/ objectives' = [objectives EXCEPT ![o].state = "executing"]
      BY <1>5, <2>3 DEF PatchState
    <3> QED
      BY <2>1, <3>1, RefillSteps, StateFewer
  <2>4. CASE state \notin {"draft", "executing"}
    <3>1. objectives' = [objectives EXCEPT ![o].state = state]
      BY <1>5, <2>4 DEF PatchState
    <3>2. CASE state # "future"
      BY <2>1, <3>1, <3>2, StateFewer
    <3>3. CASE state = "future"
      <4>1. \A p \in Objectives : /\ objectives'[p].pos = objectives[p].pos
                                  /\ objectives'[p].deleted = objectives[p].deleted
                                  /\ p # o => objectives'[p].state = objectives[p].state
                                  /\ p = o => objectives'[p].state = "future"
        BY <1>1, <3>1, <3>3 DEF Tables, Table, Objective
      <4>2. Live(objectives') = Live(objectives)
        BY <2>1, <4>1 DEF Live
      <4>3. Future(objectives) \subseteq Future(objectives')
        BY <4>1, <4>2 DEF Future, In, Live
      <4> QED
        BY <1>1, <4>1, <4>2, <4>3, Shrinks DEF Live
    <3> QED
      BY <3>2, <3>3
  <2> QED
    BY <2>2, <2>3, <2>4
<1>6. ASSUME NEW o \in Objectives, NEW text \in BOOLEAN, PatchText(c, o, text)
      PROVE  Order!Next
  <2>1. \A p \in Objectives : /\ objectives'[p].pos = objectives[p].pos
                              /\ objectives'[p].deleted = objectives[p].deleted
                              /\ objectives'[p].state = objectives[p].state
    BY <1>1, <1>6 DEF PatchText, Tables, Table, Objective
  <2>2. Live(objectives') = Live(objectives) /\ Future(objectives') = Future(objectives)
    BY <2>1 DEF Future, In, Live
  <2> QED
    BY <1>1, <2>1, <2>2, Fewer
<1>7. ASSUME NEW o \in Objectives, NEW auto \in AutoAdvance, PatchAutoAdvance(c, o, auto)
      PROVE  Order!Next
  <2>1. \A p \in Objectives : /\ objectives'[p].pos = objectives[p].pos
                              /\ objectives'[p].deleted = objectives[p].deleted
                              /\ objectives'[p].state = objectives[p].state
    BY <1>1, <1>7 DEF PatchAutoAdvance, Tables, Table, Objective
  <2>2. Live(objectives') = Live(objectives) /\ Future(objectives') = Future(objectives)
    BY <2>1 DEF Future, In, Live
  <2> QED
    BY <1>1, <2>1, <2>2, Fewer
<1>8. ASSUME NEW o \in Objectives, DeleteObjective(c, o) PROVE Order!Next
  <2>1. \A p \in Objectives : /\ objectives'[p].pos = objectives[p].pos
                              /\ objectives'[p].state = objectives[p].state
                              /\ p # o => objectives'[p].deleted = objectives[p].deleted
    BY <1>1, <1>8 DEF DeleteObjective, Tables, Table, Objective
  <2>2. o \in Live(objectives)
    BY <1>8 DEF DeleteObjective
  <2>3. Live(objectives') \subseteq Live(objectives)
    BY <2>1, <2>2 DEF Live
  <2>4. Future(objectives') \subseteq Future(objectives)
    BY <2>1, <2>3 DEF Future, In, Live
  <2> QED
    BY <1>1, <2>1, <2>3, <2>4, Fewer
<1>9. CASE ReorderFuture(c)
  <2>0. PICK G \in SUBSET Future(objectives) :
          \E rank \in Orders(G) : objectives' = Reordered(rank)
    BY <1>9 DEF ReorderFuture, Future
  <2>1. PICK rank \in Orders(G) : objectives' = Reordered(rank)
    BY <2>0
  <2>2. DOMAIN rank \subseteq Future(objectives)
    BY <2>1 DEF Orders
  <2>3. \A p \in Objectives : /\ objectives'[p].state = objectives[p].state
                              /\ objectives'[p].deleted = objectives[p].deleted
                              /\ p \notin Future(objectives) => objectives'[p].pos = objectives[p].pos
    BY <1>1, <2>1, <2>2 DEF Reordered, Objective
  <2>4. Live(objectives') = Live(objectives) /\ Future(objectives') = Future(objectives)
    BY <2>3 DEF Future, In, Live
  <2> QED
    BY <1>1, <2>3, <2>4, Reorders DEF Live
<1> QED
  BY <1>3, <1>4, <1>5, <1>6, <1>7, <1>8, <1>9 DEF UserStep

LEMMA CallSteps ==
    ASSUME IInv, IInv', SoloOK, NEW c \in Callers, Begin(c) \/ Continue(c)
    PROVE  Order!Next
<1>1. Tables /\ \A p \in Objectives : objectives[p] \in Objective
  BY Around
<1>2. ASSUME objectives' = objectives PROVE Order!Next
  BY <1>1, <1>2, Fewer
<1>3. ASSUME NEW state, state # "future",
             \/ objectives' = [objectives EXCEPT ![call[c].objective].state = state]
             \/ objectives' = [objectives EXCEPT ![call[c].next].state = state]
      PROVE  Order!Next
  BY <1>3, Facts, StateFewer
<1>4. CASE Begin(c)
  BY <1>2, <1>4 DEF Begin, AttachPick, DeliverLookUp, ResumePick, FollowUpLookUp, DiscussPick
<1>5. CASE \/ RefillDrafts(c) \/ RefillFuture(c) \/ RefillSlot(c) \/ RefillPosition(c)
           \/ AdvanceRead(c) \/ AdvanceQueue(c) \/ AdvanceFails(c) \/ Abort(c)
  BY <1>2, <1>5 DEF RefillDrafts, RefillFuture, RefillSlot, RefillPosition, AdvanceRead,
                    AdvanceQueue, AdvanceFails, Abort
<1>6. CASE Deliver(c)
  BY <1>3, <1>6 DEF Deliver
<1>7. CASE RefillPromote(c)
  BY <1>3, <1>7 DEF RefillPromote
<1>8. CASE AdvanceLaunch(c)
  BY <1>3, <1>8 DEF AdvanceLaunch
<1>9. CASE FollowUp(c)
  BY <1>3, <1>9 DEF FollowUp
<1>10. CASE Discuss(c)
  BY <1>3, <1>10 DEF Discuss
<1>11. ASSUME NEW s \in Sessions, Resume(c, s) PROVE Order!Next
  BY <1>2, <1>3, <1>11 DEF Resume
<1>12. ASSUME NEW s \in Sessions, Attach(c, s) PROVE Order!Next
  <2>1. Refilled([objectives EXCEPT ![call[c].objective].state = "executing"], objectives')
    BY <1>12 DEF Attach
  <2> QED
    BY <2>1, Facts, RefillSteps
<1>13. CASE RefillDiscard(c)
  <2>1. \A p \in Objectives : /\ objectives'[p].pos = objectives[p].pos
                              /\ objectives'[p].state = objectives[p].state
                              /\ ~objectives'[p].deleted => ~objectives[p].deleted
    BY <1>1, <1>13 DEF RefillDiscard, Objective
  <2>2. Live(objectives') \subseteq Live(objectives)
    BY <2>1 DEF Live
  <2>3. Future(objectives') \subseteq Future(objectives)
    BY <2>1, <2>2 DEF Future, In, Live
  <2> QED
    BY <1>1, <2>1, <2>2, <2>3, Fewer
<1>14. CASE RefillInsert(c)
  <2> DEFINE row == [Blank(call[c].pos) EXCEPT !.state = call[c].state]
  <2>1. PICK o \in Objectives :
           /\ NewRow(objectives, o)
           /\ objectives' = [objectives EXCEPT ![o] = row] \/ objectives' = objectives
    BY <1>14 DEF RefillInsert
  <2>2. row.state # "none" /\ ~row.deleted /\ row.pos = call[c].pos
    BY Facts DEF Blank, NoObjective, Call
  <2>3. Several \/ \A p \in Live(objectives) : objectives[p].pos < call[c].pos
    BY <1>14 DEF SoloOK, RefillInsert
  <2> HIDE DEF row
  <2> QED
    BY <1>2, <2>1, <2>2, <2>3, RowSteps
<1> QED
  BY <1>4, <1>5, <1>6, <1>7, <1>8, <1>9, <1>10, <1>11, <1>12, <1>13, <1>14 DEF Continue

-----------------------------------------------------------------------------
\* The positions implement the order that ObjectiveOrder promises: whatever
\* calls are made, and however they overlap, an objective changes its place among
\* the others only where that specification says so.
THEOREM OrderImplemented == Spec => ImplementsOrder
<1>1. Init => Order!Init
  <2>1. Init => Live(objectives) = {}
    BY DEF Init, Live, NoObjective
  <2> QED
    BY <2>1 DEF Order!Init, Above, In
<1>2. IInv /\ IInv' /\ SoloOK /\ [Next]_vars => [Order!Next]_Order!vars
  <2> SUFFICES ASSUME IInv, IInv', SoloOK, [Next]_vars PROVE [Order!Next]_Order!vars
    OBVIOUS
  <2>1. CASE Next
    <3>1. ASSUME NEW o \in Objectives, RequestSettles(o) PROVE Order!Next
      <4>1. objectives' = objectives
        BY <3>1 DEF RequestSettles
      <4> QED
        BY <4>1, Around, Fewer
    <3> QED
      BY <2>1, <3>1, UserSteps, CallSteps DEF Next
  <2>2. CASE UNCHANGED vars
    <3>1. objectives' = objectives
      BY <2>2 DEF vars
    <3> QED
      BY <3>1, Around, Fewer
  <2> QED
    BY <2>1, <2>2
<1>3. Spec => []SoloOK
  BY SoloInit, SoloNext, Invariant, PTL DEF Spec
<1> QED
  BY <1>1, <1>2, <1>3, Invariant, PTL DEF Spec, ImplementsOrder, Order!Spec

-----------------------------------------------------------------------------
(***************************************************************************)
(* Where a second draft can come from.                                     *)
(***************************************************************************)

OneDraft(f) == \A a, b \in In(f, {"draft"}) : a = b

LEMMA OneDraftCounted ==
    ASSUME NEW f
    PROVE  /\ Cardinality(In(f, {"draft"})) <= 1 => OneDraft(f)
           /\ OneDraft(f) => ~(Cardinality(In(f, {"draft"})) > 1)
<1> DEFINE D == In(f, {"draft"})
<1>1. IsFiniteSet(D)
  <2>1. IsFiniteSet(Objectives)
    BY FS_Interval, MissionConstants DEF Objectives
  <2>2. D \in SUBSET Objectives
    BY DEF In, Live
  <2> QED
    BY <2>1, <2>2, FS_Subset
<1>2. OneDraft(f) <=> \A a, b \in D : a = b
  BY DEF OneDraft
<1> HIDE DEF D
<1>3. ASSUME \A a, b \in D : a = b PROVE ~(Cardinality(D) > 1)
  <2>1. D = {} \/ \E d : D = {d}
    BY <1>3
  <2>2. Cardinality(D) = 0 \/ Cardinality(D) = 1
    BY <2>1, FS_EmptySet, FS_Singleton
  <2> QED
    BY <2>2
<1>4. ASSUME Cardinality(D) <= 1 PROVE \A a, b \in D : a = b
  <2>1. Cardinality(D) \in Nat
    BY <1>1, FS_CardinalityType
  <2>2. Cardinality(D) = 0 \/ Cardinality(D) = 1
    BY <1>4, <2>1
  <2>3. D = {} \/ \E d : D = {d}
    BY <1>1, <2>2, FS_EmptySet, FS_Singleton
  <2> QED
    BY <2>3
<1> QED
  BY <1>2, <1>3, <1>4 DEF D

\* A table with no other drafts has one at most, too.
LEMMA NoNewDraft ==
    ASSUME NEW f, NEW g, OneDraft(f), In(g, {"draft"}) \subseteq In(f, {"draft"})
    PROVE  OneDraft(g)
BY DEF OneDraft

LEMMA SameStates ==
    ASSUME NEW f, NEW g, OneDraft(f),
           \A p \in Objectives : g[p].state = f[p].state,
           \A p \in Objectives : f[p].deleted => g[p].deleted
    PROVE  OneDraft(g)
<1>1. ASSUME NEW p \in In(g, {"draft"}) PROVE p \in In(f, {"draft"})
  <2>1. p \in Objectives /\ g[p].state = "draft" /\ ~g[p].deleted
    BY DEF In, Live
  <2>2. f[p].state = "draft"
    BY <2>1
  <2>3. ~f[p].deleted
    BY <2>1
  <2> QED
    BY <2>1, <2>2, <2>3 DEF In, Live
<1> QED
  BY <1>1, NoNewDraft

\* Another state than draft makes no draft.
LEMMA StateIsNoDraft ==
    ASSUME objectives \in Table, NEW o, NEW state, state # "draft"
    PROVE  In([objectives EXCEPT ![o].state = state], {"draft"}) \subseteq Drafts
<1> DEFINE g == [objectives EXCEPT ![o].state = state]
<1>1. \A p \in Objectives :
         g[p] = IF p = o THEN [objectives[p] EXCEPT !.state = state] ELSE objectives[p]
  BY DEF Table
<1>2. \A p \in Objectives :
         g[p].state = "draft" => p # o /\ g[p] = objectives[p]
  BY <1>1 DEF Table, Objective
<1> HIDE DEF g
<1>3. In(g, {"draft"}) \subseteq Drafts
  BY <1>2 DEF Drafts, In, Live
<1> QED
  BY <1>3 DEF g

\* Restoring the slot, in a transaction, leaves one draft where there was one at
\* most: the blank one goes when the future one comes.
LEMMA RefillOne ==
    ASSUME NEW f \in Table, OneDraft(f), NEW g, Refilled(f, g)
    PROVE  OneDraft(g)
<1> DEFINE drafts == In(f, {"draft"})
           future == In(f, {"future"})
<1>1. CASE g = f
  BY <1>1
<1>2. CASE future # {} /\ g # f
  <2>1. PICK n \in FirstOf(f, future) :
           g = [o \in Objectives |->
                  IF o \in drafts THEN [f[o] EXCEPT !.deleted = TRUE]
                  ELSE IF o = n THEN [f[o] EXCEPT !.state = "draft"] ELSE f[o]]
    BY <1>2 DEF Refilled
  <2>2. \A o \in In(g, {"draft"}) : o \in Objectives /\ g[o].state = "draft" /\ ~g[o].deleted
    BY DEF In, Live
  <2>3. \A o \in In(g, {"draft"}) : o \notin drafts
    BY <2>1, <2>2 DEF Table, Objective
  <2>4. \A o \in In(g, {"draft"}) : o # n => o \in drafts
    BY <2>1, <2>2, <2>3 DEF In, Live
  <2> QED
    BY <2>3, <2>4 DEF OneDraft
<1>3. CASE future = {} /\ g # f
  <2>1. drafts = {}
    BY <1>3 DEF Refilled
  <2>2. PICK o \in Objectives : g = [f EXCEPT ![o] = Blank(NextPosition(f))]
    BY <1>3 DEF Refilled
  <2>3. \A p \in Objectives : p # o => g[p] = f[p]
    BY <2>2 DEF Table
  <2>4. \A p \in In(g, {"draft"}) : p = o
    BY <2>1, <2>3 DEF In, Live
  <2> QED
    BY <2>4 DEF OneDraft
<1> QED
  BY <1>1, <1>2, <1>3

\* A promotion leaves no draft but the promoted.
LEMMA PromotedAlone ==
    ASSUME objectives \in Table, NEW o \in Objectives
    PROVE  In(Promoted(o), {"draft"}) \subseteq {o}
<1> DEFINE f == Demoted(o)
<1>1. \A p \in Objectives :
         f[p] = IF p \in Drafts \ {o} THEN [objectives[p] EXCEPT !.state = "future"]
                ELSE objectives[p]
  BY DEF Demoted
<1>2. \A p \in Objectives :
         /\ f[p] \in Objective
         /\ f[p].deleted = objectives[p].deleted
         /\ f[p].state = "draft" => objectives[p].state = "draft" /\ p \notin Drafts \ {o}
  BY <1>1 DEF Table, Objective, OBJECTIVE_STATES
<1>3. \A p \in Objectives : f[p].state = "draft" /\ ~f[p].deleted => p = o
  BY <1>2 DEF Drafts, In, Live
<1> HIDE DEF f
<1>4. \A slot : \A p \in Objectives :
         /\ Spliced(f, o, slot)[p].state = f[p].state
         /\ Spliced(f, o, slot)[p].deleted = f[p].deleted
  BY <1>2 DEF Spliced, Objective
<1>5. Promoted(o) = f \/ \E slot : Promoted(o) = Spliced(f, o, slot)
  BY DEF Promoted, f
<1> QED
  BY <1>3, <1>4, <1>5 DEF In, Live

LEMMA UserKeepsOne ==
    ASSUME IInv, OneDraft(objectives), NEW c \in Callers, UserStep(c)
    PROVE  OneDraft(objectives')
<1>1. objectives \in Table
  BY Facts
<1>2. OneDraft(objectives)
  OBVIOUS
<1>3. ASSUME NEW state \in CreateStates, NEW text \in BOOLEAN, NEW auto \in AutoAdvance,
             AddObjective(c, state, text, auto)
      PROVE  OneDraft(objectives')
  <2> DEFINE row == [state |-> ResolvedState(objectives, state),
                     pos |-> NextPosition(objectives),
                     text |-> text, auto |-> auto, deleted |-> FALSE]
  <2>1. PICK o \in Objectives : objectives' = [objectives EXCEPT ![o] = row]
    BY <1>3 DEF AddObjective
  <2>2. row.state = "draft" => Drafts = {}
    BY DEF ResolvedState, Drafts
  <2> HIDE DEF row
  <2>3. \A p \in Objectives : objectives'[p] = IF p = o THEN row ELSE objectives[p]
    BY <1>1, <2>1 DEF Table
  <2>4. CASE row.state = "draft"
    <3>1. In(objectives', {"draft"}) \subseteq {o}
      BY <2>2, <2>3, <2>4 DEF Drafts, In, Live
    <3> QED
      BY <3>1 DEF OneDraft
  <2>5. CASE row.state # "draft"
    <3>1. In(objectives', {"draft"}) \subseteq In(objectives, {"draft"})
      BY <2>3, <2>5 DEF In, Live
    <3> QED
      BY <3>1, NoNewDraft
  <2> QED
    BY <2>4, <2>5
<1>4. ASSUME NEW o \in Objectives, Launch(c, o) PROVE OneDraft(objectives')
  <2>1. In(objectives', {"draft"}) \subseteq In(objectives, {"draft"})
    BY <1>1, <1>4, StateIsNoDraft DEF Launch, Drafts
  <2> QED
    BY <2>1, NoNewDraft
<1>5. ASSUME NEW o \in Objectives, NEW state \in PatchStates, PatchState(c, o, state)
      PROVE  OneDraft(objectives')
  <2>1. CASE state = "draft"
    <3> DEFINE f == Promoted(o)
    <3>1. objectives' = [f EXCEPT ![o].state = "draft"]
      BY <1>5, <2>1 DEF PatchState
    <3>2. o \in Live(objectives) /\ Bounded(objectives) /\ Fits(objectives)
      BY <1>5, Facts DEF PatchState
    <3>3. f \in Table /\ In(f, {"draft"}) \subseteq {o}
      BY <1>1, <3>2, PromotionFits, PromotedAlone DEF Shuffled
    <3> HIDE DEF f
    <3>4. \A p \in Objectives : p # o => objectives'[p] = f[p]
      BY <3>1, <3>3 DEF Table
    <3>5. In(objectives', {"draft"}) \subseteq {o}
      BY <3>3, <3>4 DEF In, Live
    <3> QED
      BY <3>5 DEF OneDraft
  <2>2. CASE state # "draft"
    <3> DEFINE g == [objectives EXCEPT ![o].state = state]
    <3>1. Refilled(g, objectives') \/ objectives' = g
      BY <1>5, <2>2 DEF PatchState
    <3>2. OneDraft(g)
      BY <1>1, <2>2, StateIsNoDraft, NoNewDraft DEF Drafts
    <3>3. g \in Table
      <4>1. state \in OBJECTIVE_STATES
        BY MissionConstants
      <4>2. objectives[o].state # "none"
        BY <1>5 DEF PatchState, Live
      <4> QED
        BY <4>1, <4>2, StateKeeps
    <3> HIDE DEF g
    <3> QED
      BY <3>1, <3>2, <3>3, RefillOne
  <2> QED
    BY <2>1, <2>2
<1>7. ASSUME NEW o \in Objectives, NEW text \in BOOLEAN, PatchText(c, o, text)
      PROVE  OneDraft(objectives')
  <2>1. \A p \in Objectives : objectives'[p].state = objectives[p].state
    BY <1>1, <1>7 DEF PatchText, Table, Objective
  <2>2. \A p \in Objectives : objectives[p].deleted => objectives'[p].deleted
    BY <1>1, <1>7 DEF PatchText, Table, Objective
  <2> QED
    BY <2>1, <2>2, SameStates
<1>8. ASSUME NEW o \in Objectives, NEW auto \in AutoAdvance, PatchAutoAdvance(c, o, auto)
      PROVE  OneDraft(objectives')
  <2>1. \A p \in Objectives : objectives'[p].state = objectives[p].state
    BY <1>1, <1>8 DEF PatchAutoAdvance, Table, Objective
  <2>2. \A p \in Objectives : objectives[p].deleted => objectives'[p].deleted
    BY <1>1, <1>8 DEF PatchAutoAdvance, Table, Objective
  <2> QED
    BY <2>1, <2>2, SameStates
<1>9. ASSUME NEW o \in Objectives, DeleteObjective(c, o) PROVE OneDraft(objectives')
  <2>1. \A p \in Objectives : objectives'[p].state = objectives[p].state
    BY <1>1, <1>9 DEF DeleteObjective, Table, Objective
  <2>2. \A p \in Objectives : objectives[p].deleted => objectives'[p].deleted
    BY <1>1, <1>9 DEF DeleteObjective, Table, Objective
  <2> QED
    BY <2>1, <2>2, SameStates
<1>10. CASE ReorderFuture(c)
  <2>1. \E rank : objectives' = Reordered(rank)
    BY <1>10 DEF ReorderFuture
  <2>2. \A p \in Objectives : /\ objectives'[p].state = objectives[p].state
                              /\ objectives'[p].deleted = objectives[p].deleted
    BY <1>1, <2>1 DEF Reordered, Table, Objective
  <2> QED
    BY <2>2, SameStates
<1> QED
  BY <1>3, <1>4, <1>5, <1>7, <1>8, <1>9, <1>10 DEF UserStep

LEMMA CallKeepsOne ==
    ASSUME IInv, OneDraft(objectives), NEW c \in Callers, Begin(c) \/ Continue(c),
           ~RefillPromote(c), ~RefillInsert(c)
    PROVE  OneDraft(objectives')
<1>1. objectives \in Table
  BY Facts
<1>2. ASSUME NEW o, NEW state, state # "draft"
      PROVE  OneDraft([objectives EXCEPT ![o].state = state])
  BY <1>1, <1>2, StateIsNoDraft, NoNewDraft DEF Drafts
<1>3. CASE objectives' = objectives
  BY <1>3
<1>4. ASSUME NEW s \in Sessions, Attach(c, s) PROVE OneDraft(objectives')
  <2> DEFINE f == [objectives EXCEPT ![call[c].objective].state = "executing"]
  <2>1. f \in Table
    BY Facts, StateKeeps DEF OBJECTIVE_STATES
  <2>2. OneDraft(f) /\ Refilled(f, objectives')
    BY <1>2, <1>4 DEF Attach
  <2> HIDE DEF f
  <2> QED
    BY <2>1, <2>2, RefillOne
<1>5. CASE RefillDiscard(c)
  <2>1. In(objectives', {"draft"}) \subseteq In(objectives, {"draft"})
    BY <1>1, <1>5 DEF RefillDiscard, In, Live, Table, Objective
  <2> QED
    BY <2>1, NoNewDraft
<1>6. CASE \/ Deliver(c) \/ AdvanceLaunch(c) \/ FollowUp(c) \/ Discuss(c)
           \/ \E s \in Sessions : Resume(c, s)
  <2>1. CASE Deliver(c)
    BY <1>2, <2>1 DEF Deliver
  <2>2. CASE AdvanceLaunch(c)
    BY <1>2, <2>2 DEF AdvanceLaunch
  <2>3. CASE FollowUp(c)
    BY <1>2, <2>3 DEF FollowUp
  <2>4. CASE Discuss(c)
    BY <1>2, <2>4 DEF Discuss
  <2>5. ASSUME NEW s \in Sessions, Resume(c, s) PROVE OneDraft(objectives')
    BY <1>2, <1>3, <2>5 DEF Resume
  <2> QED
    BY <1>6, <2>1, <2>2, <2>3, <2>4, <2>5
<1>7. CASE Begin(c)
  BY <1>3, <1>7 DEF Begin, AttachPick, DeliverLookUp, ResumePick, FollowUpLookUp, DiscussPick
<1>8. CASE \/ RefillDrafts(c) \/ RefillFuture(c) \/ RefillSlot(c) \/ RefillPosition(c)
           \/ AdvanceRead(c) \/ AdvanceQueue(c) \/ AdvanceFails(c) \/ Abort(c)
  BY <1>3, <1>8 DEF RefillDrafts, RefillFuture, RefillSlot, RefillPosition, AdvanceRead,
                    AdvanceQueue, AdvanceFails, Abort
<1> QED
  BY <1>4, <1>5, <1>6, <1>7, <1>8 DEF Continue

-----------------------------------------------------------------------------
\* However many calls overlap, only the statements that deliver makes after its
\* transaction can make a second draft.
THEOREM DraftsDoubled == Spec => DraftsDoubledByDeliverOnly
<1>1. ASSUME IInv, Next, OneDraft(objectives),
             \A c \in Callers : ~RefillPromote(c) /\ ~RefillInsert(c)
      PROVE  OneDraft(objectives')
  <2>1. ASSUME NEW o \in Objectives, RequestSettles(o) PROVE OneDraft(objectives')
    BY <1>1, <2>1 DEF RequestSettles
  <2> QED
    BY <1>1, <2>1, UserKeepsOne, CallKeepsOne DEF Next
<1>2. IInv /\ [Next]_vars
      => [(Cardinality(Drafts) <= 1 /\ Cardinality(Drafts') > 1)
          => \E c \in Callers : RefillPromote(c) \/ RefillInsert(c)]_vars
  <2> SUFFICES ASSUME IInv, Next, Cardinality(Drafts) <= 1,
                      \A c \in Callers : ~RefillPromote(c) /\ ~RefillInsert(c)
               PROVE  ~(Cardinality(Drafts') > 1)
    OBVIOUS
  <2>1. OneDraft(objectives')
    BY <1>1, OneDraftCounted DEF Drafts
  <2> QED
    BY <2>1, OneDraftCounted DEF Drafts, In, Live
<1> QED
  BY <1>2, Invariant, PTL DEF Spec, DraftsDoubledByDeliverOnly

-----------------------------------------------------------------------------
(***************************************************************************)
(* Calls that do not overlap.                                              *)
(***************************************************************************)

Solo == \A c, d \in Callers : c = d

\* What the tail of deliver has read of the table f still holds.
FreeSlot(k, f) ==
    /\ k.step \in {"future", "discard"}
       => k.drafts = In(f, {"draft"}) /\ \A d \in k.drafts : ~f[d].text
    /\ k.step \in {"promote", "slot"} => In(f, {"draft"}) = {}
    /\ k.step \in {"position", "insert"} /\ k.state = "draft" => In(f, {"draft"}) = {}

SlotOK == \A c \in Callers : FreeSlot(call[c], objectives)

LEMMA SlotInit == Init => SlotOK
BY DEF Init, SlotOK, FreeSlot, NoCall

LEMMA SlotNext == Solo /\ IInv /\ SlotOK /\ [Next]_vars => SlotOK'
<1> DEFINE Tail == {"future", "discard", "promote", "slot", "position", "insert"}
<1> SUFFICES ASSUME Solo, IInv, SlotOK, [Next]_vars, NEW c \in Callers
             PROVE  FreeSlot(call'[c], objectives')
  BY DEF SlotOK, FreeSlot, In, Live
<1>1. \A d \in Callers : d = c
  BY DEF Solo
<1>2. objectives \in Table /\ call[c] \in Call
  BY Facts
<1>3. \A k : Enter(c, k) => call'[c] = k
  BY DEF Enter, IInv, TypeOK
<1>4. call'[c].step \notin Tail => FreeSlot(call'[c], objectives')
  BY DEF FreeSlot
<1>5. FreeSlot(call[c], objectives)
  BY DEF SlotOK
<1>6. CASE UNCHANGED <<objectives, call>>
  BY <1>5, <1>6
<1>7. End(c) => FreeSlot(call'[c], objectives')
  <2>1. NoCall.step \notin Tail
    BY DEF NoCall
  <2> HIDE DEF Tail
  <2> QED
    BY <1>3, <1>4, <2>1 DEF End
<1>8. \A step : Goto(c, step) => call'[c].step = step
  BY <1>2, <1>3 DEF Goto, Call
<1>9. \A step : step \notin Tail /\ Goto(c, step) => FreeSlot(call'[c], objectives')
  BY <1>4, <1>8
<1>10. CASE Begin(c)
  <2>1. ASSUME NEW step, step \notin Tail, NEW o,
               Enter(c, [NoCall EXCEPT !.step = step, !.objective = o])
        PROVE  FreeSlot(call'[c], objectives')
    <3>1. [NoCall EXCEPT !.step = step, !.objective = o].step = step
      BY DEF NoCall
    <3> QED
      BY <1>3, <1>4, <2>1, <3>1
  <2>2. ASSUME NEW step, step \notin Tail, NEW o, NEW s,
               Enter(c, [NoCall EXCEPT !.step = step, !.session = s, !.objective = o])
        PROVE  FreeSlot(call'[c], objectives')
    <3>1. [NoCall EXCEPT !.step = step, !.session = s, !.objective = o].step = step
      BY DEF NoCall
    <3> QED
      BY <1>3, <1>4, <2>2, <3>1
  <2>3. AttachPick(c) => FreeSlot(call'[c], objectives')
    BY <2>1 DEF AttachPick
  <2>4. ResumePick(c) => FreeSlot(call'[c], objectives')
    BY <2>1 DEF ResumePick
  <2>5. DiscussPick(c) => FreeSlot(call'[c], objectives')
    BY <2>1 DEF DiscussPick
  <2>6. \A s \in Sessions : DeliverLookUp(c, s) => FreeSlot(call'[c], objectives')
    BY <2>2 DEF DeliverLookUp
  <2>7. \A s \in Sessions : FollowUpLookUp(c, s) => FreeSlot(call'[c], objectives')
    BY <2>1 DEF FollowUpLookUp
  <2> QED
    BY <1>10, <2>3, <2>4, <2>5, <2>6, <2>7 DEF Begin
<1>11. CASE UserStep(c)
  <2>1. call' = call /\ call[c].step = "none"
    BY <1>11 DEF UserStep, AddObjective, Launch, PatchState, PatchText, PatchAutoAdvance,
                 DeleteObjective, ReorderFuture, Idle
  <2> QED
    BY <1>4, <2>1
<1>12. CASE RefillDrafts(c)
  <2>1. CASE \E d \in Drafts : objectives[d].text
    BY <1>9, <1>12, <2>1 DEF RefillDrafts
  <2>2. CASE ~\E d \in Drafts : objectives[d].text
    <3>1. call'[c] = [call[c] EXCEPT !.step = "future", !.drafts = Drafts] /\ UNCHANGED objectives
      BY <1>3, <1>12, <2>2 DEF RefillDrafts
    <3>2. call'[c].step = "future" /\ call'[c].drafts = Drafts
      BY <1>2, <3>1 DEF Call
    <3> QED
      BY <2>2, <3>1, <3>2 DEF FreeSlot, Drafts
  <2> QED
    BY <2>1, <2>2
<1>13. CASE RefillFuture(c)
  <2>1. call[c].drafts = Drafts /\ \A d \in Drafts : ~objectives[d].text
    BY <1>5, <1>13 DEF RefillFuture, FreeSlot, Drafts
  <2>2. UNCHANGED objectives
    BY <1>13 DEF RefillFuture
  <2>3. ASSUME NEW step, NEW n, step = IF call[c].drafts = {} THEN "promote" ELSE "discard",
               Enter(c, [call[c] EXCEPT !.step = step, !.next = n])
        PROVE  FreeSlot(call'[c], objectives')
    <3>1. call'[c].step = step /\ call'[c].drafts = call[c].drafts
      BY <1>2, <1>3, <2>3 DEF Call
    <3> QED
      BY <2>1, <2>2, <2>3, <3>1 DEF FreeSlot, Drafts
  <2>4. ASSUME Goto(c, "slot"), call[c].drafts = {}
        PROVE  FreeSlot(call'[c], objectives')
    <3>1. call'[c].step = "slot"
      BY <1>8, <2>4
    <3> QED
      BY <2>1, <2>2, <2>4, <3>1 DEF FreeSlot, Drafts
  <2> QED
    BY <1>9, <1>13, <2>3, <2>4 DEF RefillFuture
<1>14. CASE RefillDiscard(c)
  <2>1. call[c].drafts = Drafts
    BY <1>5, <1>14 DEF RefillDiscard, FreeSlot, Drafts
  <2>2. call'[c].step = "promote"
    BY <1>8, <1>14 DEF RefillDiscard
  <2>3. \A o \in Objectives : objectives'[o] = IF o \in Drafts
                                               THEN [objectives[o] EXCEPT !.deleted = TRUE]
                                               ELSE objectives[o]
    BY <1>14, <2>1 DEF RefillDiscard
  <2>4. In(objectives', {"draft"}) = {}
    <3>1. \A o \in Objectives : o \in Drafts => objectives'[o].deleted
      BY <1>2, <2>3 DEF Table, Objective
    <3> QED
      BY <2>3, <3>1 DEF Drafts, In, Live
  <2> QED
    BY <2>2, <2>4 DEF FreeSlot
<1>15. CASE RefillSlot(c)
  <2>1. /\ call'[c].step = "position"
        /\ UNCHANGED objectives
    BY <1>2, <1>3, <1>15 DEF RefillSlot, Call
  <2>2. Drafts = {}
    BY <1>5, <1>15 DEF RefillSlot, FreeSlot, Drafts
  <2> QED
    BY <2>1, <2>2 DEF FreeSlot, Drafts
<1>16. CASE RefillPosition(c)
  <2>1. /\ call'[c].step = "insert" /\ call'[c].state = call[c].state
        /\ UNCHANGED objectives
    BY <1>2, <1>3, <1>16 DEF RefillPosition, Call
  <2> QED
    BY <1>5, <1>16, <2>1 DEF RefillPosition, FreeSlot
<1>17. CASE RefillPromote(c)
  BY <1>9, <1>17 DEF RefillPromote
<1>18. CASE RefillInsert(c)
  BY <1>7, <1>9, <1>18 DEF RefillInsert
<1>19. CASE \/ \E s \in Sessions : Attach(c, s) \/ Resume(c, s)
            \/ Deliver(c) \/ AdvanceRead(c) \/ AdvanceLaunch(c) \/ AdvanceQueue(c)
            \/ AdvanceFails(c) \/ FollowUp(c) \/ Discuss(c) \/ Abort(c)
  <2>1. ASSUME NEW s \in Sessions, Attach(c, s) \/ Resume(c, s)
        PROVE  FreeSlot(call'[c], objectives')
    BY <1>7, <2>1 DEF Attach, Resume
  <2>2. Deliver(c) \/ AdvanceLaunch(c) => FreeSlot(call'[c], objectives')
    BY <1>9 DEF Deliver, AdvanceLaunch
  <2>3. AdvanceRead(c) => FreeSlot(call'[c], objectives')
    <3>1. ASSUME NEW n, Enter(c, [call[c] EXCEPT !.step = "launch", !.next = n])
          PROVE  FreeSlot(call'[c], objectives')
      BY <1>2, <1>3, <1>4, <3>1 DEF Call
    <3> QED
      BY <1>7, <3>1 DEF AdvanceRead
  <2>4. AdvanceQueue(c) \/ AdvanceFails(c) \/ FollowUp(c) \/ Discuss(c) \/ Abort(c)
        => FreeSlot(call'[c], objectives')
    BY <1>7 DEF AdvanceQueue, AdvanceFails, FollowUp, Discuss, Abort
  <2> QED
    BY <1>19, <2>1, <2>2, <2>3, <2>4
<1>20. Continue(c) => FreeSlot(call'[c], objectives')
  BY <1>12, <1>13, <1>14, <1>15, <1>16, <1>17, <1>18, <1>19 DEF Continue
<1>21. CASE \E o \in Objectives : RequestSettles(o)
  BY <1>6, <1>21 DEF RequestSettles
<1>22. CASE UNCHANGED vars
  BY <1>6, <1>22 DEF vars
<1> QED
  BY <1>1, <1>10, <1>11, <1>20, <1>21, <1>22 DEF Next

\* With the slot still free, the draft that deliver makes is the only one.
LEMMA TailKeepsOne ==
    ASSUME IInv, SlotOK, OneDraft(objectives), NEW c \in Callers,
           RefillPromote(c) \/ RefillInsert(c)
    PROVE  OneDraft(objectives')
<1>1. objectives \in Table
  BY Facts
<1>2. FreeSlot(call[c], objectives)
  BY DEF SlotOK
<1>3. CASE RefillPromote(c)
  <2>1. \A o \in Objectives : o # call[c].next => objectives'[o] = objectives[o]
    BY <1>1, <1>3 DEF RefillPromote, Table
  <2>2. In(objectives, {"draft"}) = {}
    BY <1>2, <1>3 DEF RefillPromote, FreeSlot
  <2>3. In(objectives', {"draft"}) \subseteq {call[c].next}
    BY <2>1, <2>2 DEF In, Live
  <2> QED
    BY <2>3 DEF OneDraft
<1>4. CASE RefillInsert(c)
  <2> DEFINE row == [Blank(call[c].pos) EXCEPT !.state = call[c].state]
  <2>1. CASE UNCHANGED objectives
    BY <2>1
  <2>2. CASE ~UNCHANGED objectives
    <3>1. PICK o \in Objectives : objectives' = [objectives EXCEPT ![o] = row]
      BY <1>4, <2>2 DEF RefillInsert
    <3>2. row.state = call[c].state
      BY DEF Blank, NoObjective
    <3> HIDE DEF row
    <3>3. \A p \in Objectives : objectives'[p] = IF p = o THEN row ELSE objectives[p]
      BY <1>1, <3>1 DEF Table
    <3>4. CASE call[c].state = "draft"
      <4>1. In(objectives, {"draft"}) = {}
        BY <1>2, <1>4, <3>4 DEF RefillInsert, FreeSlot
      <4>2. In(objectives', {"draft"}) \subseteq {o}
        BY <3>3, <4>1 DEF In, Live
      <4> QED
        BY <4>2 DEF OneDraft
    <3>5. CASE call[c].state # "draft"
      <4>1. In(objectives', {"draft"}) \subseteq In(objectives, {"draft"})
        BY <3>2, <3>3, <3>5 DEF In, Live
      <4> QED
        BY <4>1, NoNewDraft
    <3> QED
      BY <3>4, <3>5
  <2> QED
    BY <2>1, <2>2
<1> QED
  BY <1>3, <1>4

LEMMA SoloOneDraft ==
    IInv /\ SlotOK /\ OneDraft(objectives) /\ [Next]_vars => OneDraft(objectives)'
<1> SUFFICES ASSUME IInv, SlotOK, OneDraft(objectives), [Next]_vars
             PROVE  OneDraft(objectives')
  BY DEF OneDraft, In, Live
<1>1. CASE Next
  <2>1. ASSUME NEW o \in Objectives, RequestSettles(o) PROVE OneDraft(objectives')
    BY <2>1 DEF RequestSettles
  <2> QED
    BY <1>1, <2>1, UserKeepsOne, CallKeepsOne, TailKeepsOne DEF Next
<1>2. CASE UNCHANGED vars
  BY <1>2 DEF vars
<1> QED
  BY <1>1, <1>2

\* While calls do not overlap there is one draft at most: every way of making one
\* looks for another first, and what it saw is still so when it writes.
THEOREM DraftIsAlone ==
    ASSUME Solo PROVE Spec => []AtMostOneDraft
<1>1. Init => OneDraft(objectives)
  BY DEF Init, OneDraft, In, Live, NoObjective
<1>2. IInv /\ OneDraft(objectives) => AtMostOneDraft
  <2> SUFFICES ASSUME IInv, OneDraft(objectives) PROVE Cardinality(Drafts) <= 1
    BY DEF AtMostOneDraft
  <2>1. ~(Cardinality(Drafts) > 1)
    BY OneDraftCounted DEF Drafts
  <2>2. Cardinality(Drafts) \in Nat
    <3>1. IsFiniteSet(Objectives)
      BY FS_Interval, MissionConstants DEF Objectives
    <3>2. Drafts \in SUBSET Objectives
      BY DEF Drafts, In, Live
    <3> QED
      BY <3>1, <3>2, FS_Subset, FS_CardinalityType
  <2> QED
    BY <2>1, <2>2
<1>3. Solo
  OBVIOUS
<1>4. Init /\ [][Next]_vars /\ []IInv => []SlotOK
  BY <1>3, SlotInit, SlotNext, PTL
<1> QED
  BY <1>1, <1>2, <1>4, SoloOneDraft, Invariant, PTL DEF Spec

-----------------------------------------------------------------------------
\* The rows of f with a text are live in g.
TextKept(f, g) == \A o \in Live(f) : f[o].text => o \in Live(g)

LEMMA RowsKeepText ==
    ASSUME NEW f, NEW g,
           \A o \in Objectives : /\ f[o].state # "none" => g[o].state # "none"
                                 /\ ~f[o].deleted => ~g[o].deleted
    PROVE  TextKept(f, g)
BY DEF TextKept, Live

\* Setting the state of an existing row.
LEMMA StateKeepsText ==
    ASSUME IInv, NEW o, NEW state \in OBJECTIVE_STATES
    PROVE  TextKept(objectives, [objectives EXCEPT ![o].state = state])
<1> DEFINE g == [objectives EXCEPT ![o].state = state]
<1>1. objectives \in Table
  BY DEF IInv, TypeOK, Table
<1>2. \A p \in Objectives :
         g[p] = IF p = o THEN [objectives[p] EXCEPT !.state = state] ELSE objectives[p]
  BY <1>1 DEF Table
<1>3. state # "none"
  BY DEF OBJECTIVE_STATES
<1>4. \A p \in Objectives : /\ objectives[p].state # "none" => g[p].state # "none"
                            /\ ~objectives[p].deleted => ~g[p].deleted
  BY <1>1, <1>2, <1>3 DEF Table, Objective
<1> HIDE DEF g
<1>5. TextKept(objectives, g)
  BY <1>4, RowsKeepText
<1> QED
  BY <1>5 DEF g

\* A new row takes the place of none that is live.
LEMMA RowKeepsText ==
    ASSUME NEW f \in Table, NEW o, NEW row, NewRow(f, o)
    PROVE  TextKept(f, [f EXCEPT ![o] = row])
<1>1. \A p \in Objectives : p # o => [f EXCEPT ![o] = row][p] = f[p]
  BY DEF Table
<1>2. o \notin Live(f)
  BY DEF NewRow, Live
<1> QED
  BY <1>1, <1>2 DEF TextKept, Live

\* Restoring the slot deletes blank drafts only.
LEMMA RefillKeepsText ==
    ASSUME NEW f \in Table, NEW g, Refilled(f, g)
    PROVE  TextKept(f, g)
<1> DEFINE drafts == In(f, {"draft"})
           future == In(f, {"future"})
<1>1. CASE g = f
  BY <1>1 DEF TextKept
<1>2. CASE future # {} /\ g # f
  <2>0. \A d \in drafts : ~f[d].text
    BY <1>2 DEF Refilled
  <2>1. PICK n \in FirstOf(f, future) :
           g = [o \in Objectives |->
                  IF o \in drafts THEN [f[o] EXCEPT !.deleted = TRUE]
                  ELSE IF o = n THEN [f[o] EXCEPT !.state = "draft"] ELSE f[o]]
    BY <1>2 DEF Refilled
  <2>2. ASSUME NEW o \in Live(f), f[o].text PROVE o \in Live(g)
    <3>1. o \in Objectives /\ o \notin drafts /\ f[o] \in Objective
      BY <2>0, <2>2 DEF Live, Table
    <3>2. g[o] = IF o = n THEN [f[o] EXCEPT !.state = "draft"] ELSE f[o]
      BY <2>1, <3>1
    <3>3. g[o].state # "none" /\ ~g[o].deleted
      BY <3>1, <3>2 DEF Live, Objective
    <3> QED
      BY <3>1, <3>3 DEF Live
  <2> QED
    BY <2>2 DEF TextKept
<1>3. CASE future = {} /\ g # f
  <2>1. PICK o \in Objectives : NewRow(f, o) /\ g = [f EXCEPT ![o] = Blank(NextPosition(f))]
    BY <1>3 DEF Refilled
  <2> QED
    BY <2>1, RowKeepsText
<1> QED
  BY <1>1, <1>2, <1>3

\* Changes that follow each other.
LEMMA ThenKeepsText ==
    ASSUME NEW f, NEW g, NEW h, TextKept(f, g), TextKept(g, h),
           \A o \in Live(f) : f[o].text => g[o].text
    PROVE  TextKept(f, h)
BY DEF TextKept

LEMMA SetThenRefill ==
    ASSUME IInv, NEW o, o \in Objectives => objectives[o].state # "none",
           NEW state \in OBJECTIVE_STATES, NEW g,
           Refilled([objectives EXCEPT ![o].state = state], g)
    PROVE  TextKept(objectives, g)
<1> DEFINE f == [objectives EXCEPT ![o].state = state]
<1>1. f \in Table /\ TextKept(objectives, f)
  BY StateKeeps, StateKeepsText
<1>2. \A p \in Live(objectives) : objectives[p].text => f[p].text
  BY DEF IInv, TypeOK, Live, Objective
<1>3. TextKept(f, g)
  BY <1>1, RefillKeepsText
<1> HIDE DEF f
<1> QED
  BY <1>1, <1>2, <1>3, ThenKeepsText

LEMMA UserKeepsText ==
    ASSUME IInv, NEW c \in Callers, UserStep(c),
           NEW q \in Live(objectives), objectives[q].text, q \notin Live(objectives')
    PROVE  DeleteObjective(c, q)
<1>1. objectives \in Table /\ Bounded(objectives) /\ Fits(objectives)
  BY Facts
<1>2. ~TextKept(objectives, objectives')
  BY DEF TextKept
<1>3. ASSUME NEW state \in CreateStates, NEW text \in BOOLEAN, NEW auto \in AutoAdvance,
             AddObjective(c, state, text, auto)
      PROVE  FALSE
  <2>1. PICK o \in Objectives :
           NewRow(objectives, o) /\ \E row : objectives' = [objectives EXCEPT ![o] = row]
    BY <1>3 DEF AddObjective
  <2>2. PICK row : objectives' = [objectives EXCEPT ![o] = row]
    BY <2>1
  <2>3. TextKept(objectives, [objectives EXCEPT ![o] = row])
    BY <1>1, <2>1, RowKeepsText
  <2> QED
    BY <1>2, <2>2, <2>3
<1>4. ASSUME NEW o \in Objectives, Launch(c, o) PROVE FALSE
  <2>1. TextKept(objectives, objectives)
    BY DEF TextKept
  <2>2. "launching" \in OBJECTIVE_STATES
    BY DEF OBJECTIVE_STATES
  <2> QED
    BY <1>2, <1>4, <2>1, <2>2, StateKeepsText DEF Launch
<1>5. ASSUME NEW o \in Objectives, NEW state \in PatchStates, PatchState(c, o, state)
      PROVE  FALSE
  <2>1. state \in OBJECTIVE_STATES
    BY MissionConstants
  <2>2. o \in Live(objectives) /\ objectives[o].state # "none"
    BY <1>5 DEF PatchState, Live
  <2>3. CASE state # "draft"
    <3> DEFINE g == [objectives EXCEPT ![o].state = state]
    <3>1. Refilled(g, objectives') \/ objectives' = g
      BY <1>5, <2>3 DEF PatchState
    <3>2. CASE Refilled(g, objectives')
      <4>1. TextKept(objectives, objectives')
        BY <2>1, <2>2, <3>2, SetThenRefill
      <4> QED
        BY <1>2, <4>1
    <3>3. CASE objectives' = g
      <4>1. TextKept(objectives, g)
        BY <2>1, StateKeepsText
      <4> QED
        BY <1>2, <3>3, <4>1
    <3> QED
      BY <3>1, <3>2, <3>3
  <2>4. CASE state = "draft"
    <3> DEFINE f == Promoted(o)
    <3>1. objectives' = [f EXCEPT ![o].state = "draft"]
      BY <1>5, <2>4 DEF PatchState
    <3>2. Shuffled(objectives, f)
      BY <1>1, <2>2, PromotionFits
    <3> HIDE DEF f
    <3>3. \A p \in Objectives :
             objectives'[p] = IF p = o THEN [f[p] EXCEPT !.state = "draft"] ELSE f[p]
      BY <3>1, <3>2 DEF Shuffled, Table
    <3>4. \A p \in Objectives :
             /\ f[p] \in Objective
             /\ objectives[p].state # "none" => f[p].state # "none"
             /\ ~objectives[p].deleted => ~f[p].deleted
      BY <3>2 DEF Shuffled, Table
    <3>5. \A p \in Objectives :
             /\ objectives[p].state # "none" => objectives'[p].state # "none"
             /\ ~objectives[p].deleted => ~objectives'[p].deleted
      <4>1. \A row \in Objective :
               /\ [row EXCEPT !.state = "draft"].state # "none"
               /\ [row EXCEPT !.state = "draft"].deleted = row.deleted
        BY DEF Objective
      <4> QED
        BY <3>3, <3>4, <4>1
    <3> QED
      BY <1>2, <3>5, RowsKeepText
  <2> QED
    BY <2>3, <2>4
<1>6. ASSUME NEW o \in Objectives, NEW text \in BOOLEAN, PatchText(c, o, text)
      PROVE  FALSE
  <2>1. \A p \in Objectives : /\ objectives'[p].state = objectives[p].state
                              /\ objectives'[p].deleted = objectives[p].deleted
    BY <1>1, <1>6 DEF PatchText, Table, Objective
  <2> QED
    BY <1>2, <2>1, RowsKeepText
<1>7. ASSUME NEW o \in Objectives, NEW auto \in AutoAdvance, PatchAutoAdvance(c, o, auto)
      PROVE  FALSE
  <2>1. \A p \in Objectives : /\ objectives'[p].state = objectives[p].state
                              /\ objectives'[p].deleted = objectives[p].deleted
    BY <1>1, <1>7 DEF PatchAutoAdvance, Table, Objective
  <2> QED
    BY <1>2, <2>1, RowsKeepText
<1>8. ASSUME NEW o \in Objectives, DeleteObjective(c, o) PROVE DeleteObjective(c, q)
  <2>1. \A p \in Objectives : p # o => objectives'[p] = objectives[p]
    BY <1>1, <1>8 DEF DeleteObjective, Table
  <2>2. q = o
    BY <2>1 DEF Live
  <2> QED
    BY <1>8, <2>2
<1>9. CASE ReorderFuture(c)
  <2>1. \E rank : objectives' = Reordered(rank)
    BY <1>9 DEF ReorderFuture
  <2>2. \A p \in Objectives : /\ objectives'[p].state = objectives[p].state
                              /\ objectives'[p].deleted = objectives[p].deleted
    BY <1>1, <2>1 DEF Reordered, Table, Objective
  <2> QED
    BY <1>2, <2>2, RowsKeepText
<1> QED
  BY <1>3, <1>4, <1>5, <1>6, <1>7, <1>8, <1>9 DEF UserStep

\* A call of an agent deletes the drafts that were blank when it read them; with
\* the slot as it was read they still are.
LEMMA CallKeepsText ==
    ASSUME IInv, SlotOK, NEW c \in Callers, Begin(c) \/ Continue(c)
    PROVE  TextKept(objectives, objectives')
<1>1. objectives \in Table
  BY Facts
<1>2. objectives' = objectives => TextKept(objectives, objectives')
  BY DEF TextKept
<1>3. \A o : \A state \in {"executing", "complete", "pending_delivery", "launching", "draft"} :
         TextKept(objectives, [objectives EXCEPT ![o].state = state])
  BY StateKeepsText DEF OBJECTIVE_STATES
<1>4. CASE Begin(c)
  BY <1>2, <1>4 DEF Begin, AttachPick, DeliverLookUp, ResumePick, FollowUpLookUp, DiscussPick
<1>5. ASSUME NEW s \in Sessions, Attach(c, s) PROVE TextKept(objectives, objectives')
  <2>1. "executing" \in OBJECTIVE_STATES
    BY DEF OBJECTIVE_STATES
  <2> QED
    BY <1>5, <2>1, Facts, SetThenRefill DEF Attach
<1>6. ASSUME NEW s \in Sessions, Resume(c, s) PROVE TextKept(objectives, objectives')
  BY <1>2, <1>3, <1>6 DEF Resume
<1>7. CASE Deliver(c) \/ RefillPromote(c) \/ AdvanceLaunch(c) \/ FollowUp(c) \/ Discuss(c)
  BY <1>3, <1>7 DEF Deliver, RefillPromote, AdvanceLaunch, FollowUp, Discuss
<1>8. CASE \/ RefillDrafts(c) \/ RefillFuture(c) \/ RefillSlot(c) \/ RefillPosition(c)
           \/ AdvanceRead(c) \/ AdvanceQueue(c) \/ AdvanceFails(c) \/ Abort(c)
  BY <1>2, <1>8 DEF RefillDrafts, RefillFuture, RefillSlot, RefillPosition, AdvanceRead,
                    AdvanceQueue, AdvanceFails, Abort
<1>9. CASE RefillDiscard(c)
  <2>1. \A d \in call[c].drafts : ~objectives[d].text
    BY <1>9 DEF SlotOK, FreeSlot, RefillDiscard
  <2>2. \A o \in Objectives : objectives[o].text => objectives'[o] = objectives[o]
    BY <1>9, <2>1 DEF RefillDiscard
  <2> QED
    BY <2>2 DEF TextKept, Live
<1>10. CASE RefillInsert(c)
  <2>1. \/ objectives' = objectives
        \/ \E o \in Objectives : /\ NewRow(objectives, o)
                                 /\ objectives' = [objectives EXCEPT ![o] =
                                      [Blank(call[c].pos) EXCEPT !.state = call[c].state]]
    BY <1>10 DEF RefillInsert
  <2> QED
    BY <1>1, <1>2, <2>1, RowKeepsText
<1> QED
  BY <1>4, <1>5, <1>6, <1>7, <1>8, <1>9, <1>10 DEF Continue

\* While calls do not overlap an objective with a text goes away only when a user
\* deletes it.
THEOREM TextSurvives == ASSUME Solo PROVE Spec => TextIsKept
<1>1. IInv /\ SlotOK /\ [Next]_vars
      => [\A o \in Live(objectives) :
             (objectives[o].text /\ o \notin Live(objectives)')
             => \E c \in Callers : DeleteObjective(c, o)]_vars
  <2> SUFFICES ASSUME IInv, SlotOK, Next, NEW o \in Live(objectives), objectives[o].text,
                      o \notin Live(objectives')
               PROVE  \E c \in Callers : DeleteObjective(c, o)
    BY DEF Live
  <2>1. ~TextKept(objectives, objectives')
    BY DEF TextKept
  <2>2. ASSUME NEW p \in Objectives, RequestSettles(p) PROVE FALSE
    BY <2>2 DEF RequestSettles
  <2> QED
    BY <2>1, <2>2, UserKeepsText, CallKeepsText DEF Next
<1>2. Solo
  OBVIOUS
<1>3. Init /\ [][Next]_vars /\ []IInv => []SlotOK
  BY <1>2, SlotInit, SlotNext, PTL
<1> QED
  BY <1>1, <1>3, Invariant, PTL DEF Spec, TextIsKept

=============================================================================

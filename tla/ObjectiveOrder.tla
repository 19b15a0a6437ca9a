---------------------------- MODULE ObjectiveOrder ----------------------------
(***************************************************************************)
(* What the positions of a mission's objectives promise: the live          *)
(* objectives are in a strict order, and an operation moves only what it   *)
(* is about.  A new objective goes last, unless calls overlap: then it may *)
(* go where the end was when its caller looked.  One that is deleted       *)
(* leaves the others as they are, one promoted out of the future group     *)
(* takes the place in front of the drafts it replaces unless it is above   *)
(* them, and a reorder of the future group changes nothing among the       *)
(* others.                                                                 *)
(***************************************************************************)
CONSTANTS Objectives,
          Overlapping  \* several calls may be in progress

VARIABLES live,    \* objectives that are not deleted
          parked,  \* the future ones among them
          before   \* the pairs <<a, b>> with a above b

vars == <<live, parked, before>>

StrictOrder(S, R) ==
    /\ R \subseteq S \X S
    /\ \A a, b \in S : a # b => (<<a, b>> \in R <=> <<b, a>> \notin R)
    /\ \A a \in S : <<a, a>> \notin R
    /\ \A a, b, c \in S : <<a, b>> \in R /\ <<b, c>> \in R => <<a, c>> \in R

Among(S) == before \cap (S \X S)

Init == live = {} /\ parked = {} /\ before = {}

\* Another state for some objectives; the order is as it was, which is as it
\* should be only if what left the future group is above what it sent there.
Restate ==
    /\ UNCHANGED <<live, before>>
    /\ (parked \ parked') \X (parked' \ parked) \subseteq before

Append(o) ==
    /\ o \notin live
    /\ live' = live \cup {o}
    /\ before' = before \cup (live \X {o})

Insert(o) ==
    /\ Overlapping
    /\ o \notin live
    /\ live' = live \cup {o}
    /\ StrictOrder(live', before')
    /\ before' \cap (live \X live) = before

Remove ==
    /\ live' \subseteq live /\ live' # live
    /\ before' = Among(live')

\* o leaves the future group and moves up, right in front of d, which it sends
\* there.
MoveInFront(o, d) ==
    /\ o \in parked \ parked'
    /\ d \in parked' \ parked
    /\ \A x \in parked' \ parked : x = d \/ <<d, x>> \in before
    /\ <<d, o>> \in before
    /\ before' = Among(live \ {o})
                   \cup {<<o, x>> : x \in {y \in live \ {o} : y = d \/ <<d, y>> \in before}}
                   \cup {<<x, o>> : x \in {y \in live \ {o} : <<y, d>> \in before}}
    /\ UNCHANGED live

Reorder ==
    /\ StrictOrder(live, before')
    /\ before' \cap ((live \ parked) \X (live \ parked)) = Among(live \ parked)
    /\ UNCHANGED <<live, parked>>

Next ==
    /\ \/ Restate \/ Remove \/ Reorder
       \/ \E o \in Objectives : Append(o) \/ Insert(o)
       \/ \E o, d \in Objectives : MoveInFront(o, d)
    /\ parked' \subseteq live'

Spec == Init /\ [][Next]_vars

===============================================================================

------------------------ MODULE WebhookOutboxProofs -------------------------
(***************************************************************************)
(* Theorems about WebhookOutbox, for every number of messages, dispatchers *)
(* and attempts, every threshold, and however users and faults interfere.  *)
(***************************************************************************)
EXTENDS WebhookOutbox, TLAPS

-----------------------------------------------------------------------------
(***************************************************************************)
(* The invariant.                                                          *)
(***************************************************************************)

\* What is known of a message that was not redelivered while in flight: one
\* dispatcher has it, and its attempts are the POSTs since it was queued.
MessageOK(m) ==
    /\ message[m].status \in {"none", "pending"} => message[m].attempts = tries[m]
    /\ message[m].status = "sent" => m \in received
    /\ message[m].status = "failed" => tries[m] >= MaxAttempts

HolderOK(d, m) ==
    Working(d, m) =>
        /\ message[m].status = "processing"
        /\ dispatcher[d].pc \in {"looking", "cancelling", "posting"} =>
               dispatcher[d].attempt = tries[m] + 1
        /\ dispatcher[d].pc \in {"reading", "logging", "marking"} =>
               /\ dispatcher[d].attempt = tries[m]
               /\ dispatcher[d].succeeded => m \in received

OneHolder(m) ==
    \A d, e \in Dispatchers : Working(d, m) /\ Working(e, m) => d = e

AccountOK(m) ==
    /\ MessageOK(m)
    /\ OneHolder(m)
    /\ \A d \in Dispatchers : HolderOK(d, m)

MessagesOK == \A m \in Messages \ overtaken : AccountOK(m)

\* Every count has been read or written before as many attempts had failed.
CountOK(d) ==
    /\ dispatcher[d].count =< failed
    /\ dispatcher[d].pc \in {"reading", "logging", "marking", "counting"} =>
           dispatcher[d].succeeded \/ dispatcher[d].count + 1 =< failed

CountsOK ==
    /\ subscription.count =< failed
    /\ DisabledAfterFailures
    /\ \A d \in Dispatchers : CountOK(d)

IInv == TypeOK /\ MessagesOK /\ StrandedOnlyByDrop /\ CountsOK

LEMMA IdleType == /\ Idle \in Dispatcher
                  /\ Idle.pc = "idle" /\ Idle.message = None /\ Idle.count = 0
BY DEF Idle, Dispatcher, Pcs

LEMMA IdleWorks == \A d \in Dispatchers : dispatcher[d] = Idle => \A m \in Messages : ~Working(d, m)
BY WebhookConstants, IdleType DEF Working

LEMMA InitInv == Init => IInv
<1> SUFFICES ASSUME Init PROVE IInv
  OBVIOUS
<1>1. TypeOK
  BY IdleType DEF Init, TypeOK, Message, Subscription
<1>2. MessagesOK
  BY IdleWorks DEF Init, MessagesOK, AccountOK, MessageOK, HolderOK, OneHolder
<1>3. StrandedOnlyByDrop
  BY DEF Init, StrandedOnlyByDrop
<1>4. CountsOK
  BY IdleType DEF Init, CountsOK, CountOK, DisabledAfterFailures
<1> QED BY <1>1, <1>2, <1>3, <1>4 DEF IInv

-----------------------------------------------------------------------------
(***************************************************************************)
(* Types.                                                                  *)
(***************************************************************************)

LEMMA DispatcherType ==
    ASSUME TypeOK, NEW d \in Dispatchers, NEW x \in Dispatcher,
           x.pc = "idle" <=> x.message = None,
           dispatcher' = [dispatcher EXCEPT ![d] = x]
    PROVE  /\ dispatcher' \in [Dispatchers -> Dispatcher]
           /\ \A e \in Dispatchers : dispatcher'[e].pc = "idle" <=> dispatcher'[e].message = None
BY DEF TypeOK

LEMMA SwitchTypes ==
    ASSUME TypeOK, (\E enabled \in BOOLEAN : Switch(enabled)) \/ Delete
    PROVE  TypeOK'
<1>1. subscription \in Subscription
  BY DEF TypeOK
<1>2. CASE \E enabled \in BOOLEAN : Switch(enabled)
  <2>1. PICK enabled \in BOOLEAN : Switch(enabled)
    BY <1>2
  <2> DEFINE S == [subscription EXCEPT
                      !.enabled = enabled,
                      !.reason = IF enabled THEN "none" ELSE "manual",
                      !.count = IF enabled THEN 0 ELSE subscription.count]
  <2>2. S \in Subscription
    BY <1>1 DEF Subscription
  <2>3. subscription' = S
    BY <1>1, <2>1 DEF Switch, Subscription
  <2> HIDE DEF S
  <2>4. subscription' \in Subscription
    BY <2>2, <2>3
  <2>5. switches' = switches + 1
    BY <2>1 DEF Switch
  <2>6. UNCHANGED <<message, dispatcher, tries, received, failed, streak,
                    overtaken, dropped, drops, redeliveries>>
    BY <2>1 DEF Switch
  <2>7. switches' \in Nat
    BY <2>5 DEF TypeOK
  <2> QED BY <2>4, <2>6, <2>7 DEF TypeOK
<1>3. CASE Delete
  <2>1. subscription' \in Subscription
    BY <1>1, <1>3 DEF Delete, Subscription
  <2> QED BY <1>3, <2>1 DEF Delete, TypeOK
<1> QED BY <1>2, <1>3

LEMMA MessageTypes ==
    ASSUME TypeOK, NEW m \in Messages, Enqueue(m) \/ Redeliver(m) \/ BecomeDue(m)
    PROVE  TypeOK'
<1>1. message[m] \in Message
  BY DEF TypeOK
<1>2. CASE Enqueue(m) \/ BecomeDue(m)
  <2>1. /\ [message[m] EXCEPT !.status = "pending", !.due = TRUE] \in Message
        /\ [message[m] EXCEPT !.due = TRUE] \in Message
    BY <1>1 DEF Message
  <2>2. message' \in [Messages -> Message]
    BY <1>2, <2>1 DEF Enqueue, BecomeDue, TypeOK
  <2> QED BY <1>2, <2>2 DEF Enqueue, BecomeDue, TypeOK, counters
<1>3. CASE Redeliver(m)
  <2>1. [status |-> "pending", attempts |-> 0, due |-> TRUE] \in Message
    BY DEF Message
  <2>2. message' \in [Messages -> Message]
    BY <1>3, <2>1 DEF Redeliver, TypeOK
  <2> QED BY <1>3, <2>2 DEF Redeliver, TypeOK
<1> QED BY <1>2, <1>3

LEMMA DispatcherTypes ==
    ASSUME TypeOK, NEW d \in Dispatchers, DispatcherStep(d) \/ ReadBody(d) \/ Drop(d)
    PROVE  TypeOK'
<1> DEFINE D == dispatcher[d]
<1>0. D \in Dispatcher /\ (D.pc # "idle" => D.message \in Messages)
  BY DEF TypeOK, Dispatcher
<1>1. CASE \E m \in Messages : Claim(d, m)
  <2>1. PICK m \in Messages : Claim(d, m)
    BY <1>1
  <2>2. message[m] \in Message
    BY DEF TypeOK
  <2>3. message[m].attempts + 1 \in Nat
    BY <2>2 DEF Message
  <2> DEFINE X == [Idle EXCEPT !.pc = "looking", !.message = m,
                               !.attempt = message[m].attempts + 1]
  <2>4. X \in Dispatcher /\ X.pc # "idle" /\ X.message # None
    BY <2>3, WebhookConstants DEF Idle, Dispatcher, Pcs
  <2>5. message' \in [Messages -> Message]
    BY <2>1, <2>2 DEF Claim, TypeOK, Message
  <2>6. dispatcher' = [dispatcher EXCEPT ![d] = X]
    BY <2>1 DEF Claim
  <2> HIDE DEF X
  <2> QED BY <2>1, <2>4, <2>5, <2>6, DispatcherType DEF Claim, TypeOK, counters
<1>2. CASE Look(d)
  <2> DEFINE X == [D EXCEPT !.pc = IF subscription.enabled /\ ~subscription.deleted
                                   THEN "posting" ELSE "cancelling",
                            !.count = subscription.count]
  <2>1. subscription.count \in Nat
    BY DEF TypeOK, Subscription
  <2>2. X \in Dispatcher /\ X.pc # "idle" /\ X.message # None
    BY <1>0, <1>2, <2>1, WebhookConstants DEF Look, Dispatcher, Pcs
  <2>3. dispatcher' = [dispatcher EXCEPT ![d] = X]
    BY <1>0, <1>2 DEF Look, TypeOK
  <2> HIDE DEF X
  <2> QED BY <1>2, <2>2, <2>3, DispatcherType DEF Look, TypeOK, counters
<1>3. CASE Cancel(d)
  <2>1. message[D.message] \in Message
    BY <1>0, <1>3 DEF Cancel, TypeOK
  <2>2. message' \in [Messages -> Message]
    BY <1>0, <1>3, <2>1 DEF Cancel, TypeOK, Message, Decided
  <2> QED BY <1>3, <2>2, IdleType, DispatcherType DEF Cancel, TypeOK, counters
<1>4. CASE \E accepted, succeeded, answered \in BOOLEAN : Post(d, accepted, succeeded, answered)
  <2>1. PICK accepted, succeeded, answered \in BOOLEAN : Post(d, accepted, succeeded, answered)
    BY <1>4
  <2> DEFINE X == [D EXCEPT !.pc = IF answered THEN "reading" ELSE "logging",
                            !.succeeded = succeeded]
  <2>2. X \in Dispatcher /\ X.pc # "idle" /\ X.message # None
    BY <1>0, <2>1, WebhookConstants DEF Post, Dispatcher, Pcs
  <2>3. dispatcher' = [dispatcher EXCEPT ![d] = X]
    BY <1>0, <2>1 DEF Post, TypeOK
  <2>4. tries' \in [Messages -> Nat] /\ received' \in SUBSET Messages
    BY <1>0, <2>1 DEF Post, TypeOK
  <2>5. failed' \in Nat /\ streak' \in Nat
    BY <2>1 DEF Post, TypeOK
  <2> HIDE DEF X
  <2> QED BY <2>1, <2>2, <2>3, <2>4, <2>5, DispatcherType DEF Post, TypeOK, counters
<1>5. CASE ReadBody(d) \/ Log(d)
  <2> DEFINE X(pc) == [D EXCEPT !.pc = pc]
  <2>1. \A pc \in {"logging", "marking"} :
            X(pc) \in Dispatcher /\ X(pc).pc # "idle" /\ X(pc).message # None
    BY <1>0, <1>5, WebhookConstants DEF ReadBody, Log, Dispatcher, Pcs
  <2>2. PICK pc \in {"logging", "marking"} : dispatcher' = [dispatcher EXCEPT ![d] = X(pc)]
    BY <1>0, <1>5 DEF ReadBody, Log, TypeOK
  <2> HIDE DEF X
  <2> QED BY <1>5, <2>1, <2>2, DispatcherType DEF ReadBody, Log, TypeOK, counters
<1>6. CASE Mark(d)
  <2> DEFINE X == [D EXCEPT !.pc = "counting"]
  <2>1. X \in Dispatcher /\ X.pc # "idle" /\ X.message # None
    BY <1>0, <1>6, WebhookConstants DEF Mark, Dispatcher, Pcs
  <2>2. dispatcher' = [dispatcher EXCEPT ![d] = X]
    BY <1>0, <1>6 DEF Mark, TypeOK
  <2>3. message[D.message] \in Message /\ D.attempt \in Nat
    BY <1>0, <1>6 DEF Mark, TypeOK, Dispatcher
  <2>4. Marked(d) \in Message
    BY <2>3 DEF Marked, Message, Decided
  <2>5. message' \in [Messages -> Message]
    BY <1>6, <2>4 DEF Mark, TypeOK
  <2> HIDE DEF X
  <2> QED BY <1>6, <2>1, <2>2, <2>5, DispatcherType DEF Mark, TypeOK, counters
<1>7. CASE Count(d)
  <2>1. NextCount(d) \in Nat /\ subscription \in Subscription
    BY <1>0 DEF NextCount, Dispatcher, TypeOK
  <2>2. subscription' \in Subscription
    BY <1>7, <2>1 DEF Count, Subscription
  <2> QED BY <1>7, <2>2, IdleType, DispatcherType DEF Count, TypeOK, counters
<1>8. CASE Drop(d)
  <2>1. dropped' \in SUBSET Messages
    BY <1>0, <1>8 DEF Drop, TypeOK
  <2> QED BY <1>8, <2>1, IdleType, DispatcherType DEF Drop, TypeOK
<1> QED BY <1>1, <1>2, <1>3, <1>4, <1>5, <1>6, <1>7, <1>8 DEF DispatcherStep

LEMMA StepTypes == TypeOK /\ [Next]_vars => TypeOK'
<1> SUFFICES ASSUME TypeOK, [Next]_vars PROVE TypeOK'
  OBVIOUS
<1>1. CASE UNCHANGED vars
  BY <1>1 DEF vars, counters, TypeOK
<1>2. CASE \E d \in Dispatchers : DispatcherStep(d) \/ ReadBody(d) \/ Drop(d)
  BY <1>2, DispatcherTypes
<1>3. CASE \E m \in Messages : Enqueue(m) \/ Redeliver(m) \/ BecomeDue(m)
  BY <1>3, MessageTypes
<1>4. CASE (\E enabled \in BOOLEAN : Switch(enabled)) \/ Delete
  BY <1>4, SwitchTypes
<1> QED BY <1>1, <1>2, <1>3, <1>4 DEF Next

\* Rows, dispatchers and histories keep their types, and a dispatcher that is
\* busy has a message.
THEOREM TypeCorrect == Spec => []TypeOK
<1>1. Init => TypeOK
  BY InitInv DEF IInv
<1> QED BY <1>1, StepTypes, PTL DEF Spec

-----------------------------------------------------------------------------
(***************************************************************************)
(* The account of a message: its attempts, its decision and its holder.    *)
(***************************************************************************)

\* A step that touches neither the message nor anyone who works on it.
LEMMA AccountFrame ==
    ASSUME NEW m \in Messages, AccountOK(m),
           message'[m] = message[m], tries'[m] = tries[m],
           m \in received => m \in received',
           \A e \in Dispatchers :
               Working(e, m)' => Working(e, m) /\ dispatcher'[e] = dispatcher[e]
    PROVE  AccountOK(m)'
<1>1. MessageOK(m)'
  BY DEF AccountOK, MessageOK
<1>2. OneHolder(m)'
  BY DEF AccountOK, OneHolder
<1>3. ASSUME NEW e \in Dispatchers PROVE HolderOK(e, m)'
  BY <1>3 DEF AccountOK, HolderOK
<1> QED BY <1>1, <1>2, <1>3 DEF AccountOK

\* Nobody works on a message that is not processing.
LEMMA NoHolder ==
    ASSUME NEW m \in Messages, AccountOK(m), message[m].status # "processing"
    PROVE  \A e \in Dispatchers : ~Working(e, m)
BY DEF AccountOK, HolderOK

LEMMA Unheld ==
    ASSUME NEW m \in Messages, MessageOK(m)', \A e \in Dispatchers : ~Working(e, m)'
    PROVE  AccountOK(m)'
BY DEF AccountOK, OneHolder, HolderOK

LEMMA UserAccounts ==
    ASSUME TypeOK, MessagesOK, NEW m \in Messages,
           Enqueue(m) \/ Redeliver(m) \/ BecomeDue(m)
    PROVE  MessagesOK'
<1> SUFFICES ASSUME NEW n \in Messages, n \notin overtaken'
             PROVE  AccountOK(n)'
  BY DEF MessagesOK
<1>1. AccountOK(n) /\ dispatcher' = dispatcher
  BY DEF Enqueue, Redeliver, BecomeDue, MessagesOK
<1>2. \A e \in Dispatchers : Working(e, n)' <=> Working(e, n)
  BY <1>1 DEF Working
<1>3. message \in [Messages -> Message] /\ tries \in [Messages -> Nat]
  BY DEF TypeOK
<1>4. CASE n # m
  <2>1. /\ message'[n] = message[n] /\ tries'[n] = tries[n]
        /\ n \in received => n \in received'
    BY <1>3, <1>4 DEF Enqueue, Redeliver, BecomeDue
  <2> QED BY <1>1, <1>2, <2>1, AccountFrame
<1>5. CASE n = m /\ (Enqueue(m) \/ BecomeDue(m))
  <2>1. message[m].status \in {"none", "pending"}
    BY <1>5 DEF Enqueue, BecomeDue
  <2>2. /\ message'[m].status = "pending" /\ message'[m].attempts = message[m].attempts
        /\ tries' = tries
    BY <1>3, <1>5 DEF Enqueue, BecomeDue, Message
  <2>3. MessageOK(n)'
    BY <1>1, <1>5, <2>1, <2>2 DEF AccountOK, MessageOK
  <2> QED BY <1>1, <1>2, <1>5, <2>1, <2>3, NoHolder, Unheld
<1>6. CASE n = m /\ Redeliver(m)
  <2>1. \A e \in Dispatchers : ~Working(e, m)
    BY <1>6 DEF Redeliver, InFlight
  <2>2. message'[m] = [status |-> "pending", attempts |-> 0, due |-> TRUE] /\ tries'[m] = 0
    BY <1>3, <1>6 DEF Redeliver
  <2>3. MessageOK(n)'
    BY <1>6, <2>2 DEF MessageOK
  <2> QED BY <1>2, <1>6, <2>1, <2>3, Unheld
<1> QED BY <1>4, <1>5, <1>6

LEMMA DispatcherAccounts ==
    ASSUME TypeOK, MessagesOK, NEW d \in Dispatchers, DispatcherStep(d) \/ ReadBody(d) \/ Drop(d)
    PROVE  MessagesOK'
<1> SUFFICES ASSUME NEW m \in Messages, m \notin overtaken'
             PROVE  AccountOK(m)'
  BY DEF MessagesOK
<1> USE DEF Dispatcher
<1>1. AccountOK(m)
  BY DEF DispatcherStep, Claim, Look, Cancel, Post, ReadBody, Log, Mark, Count, Drop, MessagesOK
<1>2. /\ message \in [Messages -> Message] /\ tries \in [Messages -> Nat]
      /\ dispatcher \in [Dispatchers -> Dispatcher]
      /\ \A e \in Dispatchers : dispatcher[e].pc # "idle" => dispatcher[e].message \in Messages
  BY DEF TypeOK
<1>3. \A e \in Dispatchers \ {d} : dispatcher'[e] = dispatcher[e]
  BY <1>2 DEF DispatcherStep, Claim, Look, Cancel, Post, ReadBody, Log, Mark, Count, Drop
<1>4. CASE \E n \in Messages : Claim(d, n)
  <2>1. PICK n \in Messages : Claim(d, n)
    BY <1>4
  <2>2. /\ dispatcher'[d].pc = "looking" /\ dispatcher'[d].message = n
        /\ dispatcher'[d].attempt = message[n].attempts + 1
    BY <1>2, <2>1 DEF Claim, Idle
  <2>3. CASE m # n
    BY <1>1, <1>2, <1>3, <2>1, <2>2, <2>3, AccountFrame DEF Claim, Working
  <2>4. CASE m = n
    <3>1. /\ \A e \in Dispatchers : ~Working(e, m)
          /\ message[m].attempts = tries[m]
      BY <1>1, <2>1, <2>4, NoHolder DEF Claim, AccountOK, MessageOK
    <3>2. /\ message'[m].status = "processing" /\ tries' = tries
      BY <1>2, <2>1, <2>4 DEF Claim, Message
    <3>3. \A e \in Dispatchers : Working(e, m)' => e = d
      BY <1>3, <3>1 DEF Working
    <3>4. \A e \in Dispatchers : HolderOK(e, m)'
      BY <2>2, <2>4, <3>1, <3>2, <3>3 DEF HolderOK
    <3> QED BY <3>2, <3>3, <3>4 DEF AccountOK, OneHolder, MessageOK
  <2> QED BY <2>3, <2>4
<1>5. CASE dispatcher[d].pc # "idle" /\ dispatcher[d].message # m /\ ~\E n \in Messages : Claim(d, n)
  <2>1. dispatcher'[d].message # m
    <3>1. CASE Cancel(d) \/ Count(d) \/ Drop(d)
      BY <1>2, <3>1, IdleType, WebhookConstants DEF Cancel, Count, Drop
    <3>2. CASE Look(d) \/ ReadBody(d) \/ Log(d) \/ Mark(d)
      BY <1>2, <1>5, <3>2 DEF Look, ReadBody, Log, Mark
    <3>3. CASE \E a, s, b \in BOOLEAN : Post(d, a, s, b)
      BY <1>2, <1>5, <3>3 DEF Post
    <3> QED BY <1>5, <3>1, <3>2, <3>3 DEF DispatcherStep
  <2>2. /\ message'[m] = message[m] /\ tries'[m] = tries[m]
        /\ m \in received => m \in received'
    BY <1>2, <1>5 DEF DispatcherStep, Look, Cancel, Post, ReadBody, Log, Mark, Count, Drop
  <2>3. \A e \in Dispatchers :
            Working(e, m)' => Working(e, m) /\ dispatcher'[e] = dispatcher[e]
    BY <1>3, <2>1 DEF Working
  <2> QED BY <1>1, <2>2, <2>3, AccountFrame
<1> DEFINE Mine == dispatcher[d].message = m
<1>6. CASE Mine /\ Look(d)
  <2>1. /\ dispatcher'[d].message = m /\ dispatcher'[d].pc \in {"cancelling", "posting"}
        /\ dispatcher'[d].attempt = dispatcher[d].attempt
        /\ message' = message /\ tries' = tries
    BY <1>2, <1>6 DEF Look
  <2>2. Working(d, m) /\ dispatcher[d].pc = "looking"
    BY <1>6 DEF Look, Working
  <2>3. \A e \in Dispatchers : Working(e, m)' => Working(e, m)
    BY <1>3, <2>2 DEF Working
  <2>4. \A e \in Dispatchers : HolderOK(e, m)'
    BY <1>1, <1>3, <2>1, <2>2, <2>3 DEF HolderOK, AccountOK, OneHolder
  <2>5. MessageOK(m)' /\ OneHolder(m)'
    BY <1>1, <1>6, <2>1, <2>3 DEF Look, MessageOK, AccountOK, OneHolder
  <2> QED BY <2>4, <2>5 DEF AccountOK
<1>7. CASE Mine /\ \E accepted, succeeded, answered \in BOOLEAN :
                    Post(d, accepted, succeeded, answered)
  <2>1. PICK accepted, succeeded, answered \in BOOLEAN : Post(d, accepted, succeeded, answered)
    BY <1>7
  <2>2. /\ dispatcher'[d].message = m /\ dispatcher'[d].pc \in {"reading", "logging"}
        /\ dispatcher'[d].attempt = dispatcher[d].attempt
        /\ dispatcher'[d].succeeded = succeeded
    BY <1>2, <1>7, <2>1 DEF Post
  <2>3. /\ message' = message /\ tries'[m] = tries[m] + 1 /\ (succeeded => m \in received')
    BY <1>2, <1>7, <2>1 DEF Post
  <2>4. Working(d, m) /\ dispatcher[d].pc = "posting"
    BY <1>7, <2>1 DEF Post, Working
  <2>5. \A e \in Dispatchers : Working(e, m)' => e = d
    BY <1>1, <1>3, <2>4 DEF Working, AccountOK, OneHolder
  <2>6. message[m].status = "processing" /\ dispatcher[d].attempt = tries[m] + 1
    BY <1>1, <2>4 DEF AccountOK, HolderOK
  <2>7. \A e \in Dispatchers : HolderOK(e, m)'
    BY <2>2, <2>3, <2>5, <2>6 DEF HolderOK
  <2>8. MessageOK(m)' /\ OneHolder(m)'
    BY <2>3, <2>5, <2>6 DEF MessageOK, OneHolder
  <2> QED BY <2>7, <2>8 DEF AccountOK
<1>8. CASE Mine /\ (ReadBody(d) \/ Log(d))
  <2>1. /\ dispatcher'[d].message = m /\ dispatcher'[d].pc \in {"logging", "marking"}
        /\ dispatcher'[d].attempt = dispatcher[d].attempt
        /\ dispatcher'[d].succeeded = dispatcher[d].succeeded
        /\ message' = message /\ tries' = tries /\ received' = received
    BY <1>2, <1>8 DEF ReadBody, Log
  <2>2. Working(d, m) /\ dispatcher[d].pc \in {"reading", "logging"}
    BY <1>8 DEF ReadBody, Log, Working
  <2>3. \A e \in Dispatchers : Working(e, m)' => Working(e, m)
    BY <1>3, <2>2 DEF Working
  <2>4. \A e \in Dispatchers : HolderOK(e, m)'
    BY <1>1, <1>3, <2>1, <2>2, <2>3 DEF HolderOK, AccountOK, OneHolder
  <2>5. MessageOK(m)' /\ OneHolder(m)'
    BY <1>1, <2>1, <2>3 DEF MessageOK, AccountOK, OneHolder
  <2> QED BY <2>4, <2>5 DEF AccountOK
<1>9. CASE Mine /\ (Cancel(d) \/ Mark(d) \/ Count(d) \/ Drop(d))
  <2>1. ~Working(d, m)'
    BY <1>2, <1>9, IdleType, WebhookConstants DEF Working, Cancel, Mark, Count, Drop
  <2>2. \A e \in Dispatchers :
            Working(e, m)' => Working(e, m) /\ dispatcher'[e] = dispatcher[e]
    BY <1>3, <2>1 DEF Working
  <2>3. CASE Count(d) \/ Drop(d)
    BY <1>1, <2>2, <2>3, AccountFrame DEF Count, Drop
  <2>4. CASE Cancel(d) \/ Mark(d)
    <3>1. Working(d, m)
      BY <1>9, <2>4 DEF Cancel, Mark, Working
    <3>2. \A e \in Dispatchers : ~Working(e, m)'
      BY <1>1, <2>1, <2>2, <3>1 DEF AccountOK, OneHolder
    <3>3. CASE Cancel(d)
      <4>1. message'[m].status = "cancelled"
        BY <1>2, <1>9, <3>3 DEF Cancel, Message
      <4> QED BY <3>2, <4>1, Unheld DEF MessageOK
    <3>4. CASE Mark(d)
      <4>1. /\ dispatcher[d].attempt = tries[m]
            /\ dispatcher[d].succeeded => m \in received
        BY <1>1, <3>1, <3>4 DEF AccountOK, HolderOK, Mark
      <4>2. message'[m] = Marked(d) /\ tries' = tries /\ received' = received
        BY <1>2, <1>9, <3>4 DEF Mark
      <4>3. MessageOK(m)'
        BY <1>2, <1>9, <4>1, <4>2 DEF Marked, AttemptsUsedUp, MessageOK, Message
      <4> QED BY <3>2, <4>3, Unheld
    <3> QED BY <2>4, <3>3, <3>4
  <2> QED BY <1>9, <2>3, <2>4
<1> QED
  BY <1>4, <1>5, <1>6, <1>7, <1>8, <1>9
     DEF DispatcherStep, Look, Cancel, Post, ReadBody, Log, Mark, Count, Drop

LEMMA StepAccounts == IInv /\ [Next]_vars => MessagesOK'
<1> SUFFICES ASSUME IInv, [Next]_vars PROVE MessagesOK'
  OBVIOUS
<1> USE DEF IInv
<1>1. CASE UNCHANGED vars
  BY <1>1 DEF vars, MessagesOK, AccountOK, MessageOK, OneHolder, HolderOK, Working
<1>2. CASE \E d \in Dispatchers : DispatcherStep(d) \/ ReadBody(d) \/ Drop(d)
  BY <1>2, DispatcherAccounts
<1>3. CASE \E m \in Messages : Enqueue(m) \/ Redeliver(m) \/ BecomeDue(m)
  BY <1>3, UserAccounts
<1>4. CASE (\E enabled \in BOOLEAN : Switch(enabled)) \/ Delete
  <2>1. UNCHANGED <<message, dispatcher, tries, received, overtaken>>
    BY <1>4 DEF Switch, Delete
  <2> QED BY <2>1 DEF MessagesOK, AccountOK, MessageOK, OneHolder, HolderOK, Working
<1> QED BY <1>1, <1>2, <1>3, <1>4 DEF Next

-----------------------------------------------------------------------------
(***************************************************************************)
(* A message that is processing has a dispatcher, or was let fall.         *)
(***************************************************************************)

LEMMA StepStranded == IInv /\ [Next]_vars => StrandedOnlyByDrop'
<1> SUFFICES ASSUME IInv, [Next]_vars,
                    NEW m \in Messages, message'[m].status = "processing"
             PROVE  (\E e \in Dispatchers : Working(e, m)') \/ m \in dropped'
  BY DEF StrandedOnlyByDrop, InFlight
<1>1. /\ message \in [Messages -> Message] /\ dispatcher \in [Dispatchers -> Dispatcher]
      /\ \A e \in Dispatchers : dispatcher[e].pc # "idle" => dispatcher[e].message \in Messages
  BY DEF IInv, TypeOK, Dispatcher
<1>2. message[m].status = "processing" =>
          (\E e \in Dispatchers : Working(e, m)) \/ m \in dropped
  BY DEF IInv, StrandedOnlyByDrop, InFlight
<1>3. CASE UNCHANGED vars
  BY <1>2, <1>3 DEF vars, Working
<1>4. CASE (\E enabled \in BOOLEAN : Switch(enabled)) \/ Delete
  <2>1. UNCHANGED <<message, dispatcher, dropped>>
    BY <1>4 DEF Switch, Delete
  <2> QED BY <1>2, <2>1 DEF Working
<1>5. CASE \E n \in Messages : Enqueue(n) \/ Redeliver(n) \/ BecomeDue(n)
  <2>1. PICK n \in Messages : Enqueue(n) \/ Redeliver(n) \/ BecomeDue(n)
    BY <1>5
  <2>2. message'[n].status = "pending"
    BY <1>1, <2>1 DEF Enqueue, Redeliver, BecomeDue, Message
  <2>3. /\ m # n /\ message'[m] = message[m] /\ dispatcher' = dispatcher
        /\ m \in dropped => m \in dropped'
    BY <1>1, <2>1, <2>2 DEF Enqueue, Redeliver, BecomeDue
  <2> QED BY <1>2, <2>3 DEF Working
<1>6. CASE \E d \in Dispatchers : DispatcherStep(d) \/ ReadBody(d) \/ Drop(d)
  <2>1. PICK d \in Dispatchers : DispatcherStep(d) \/ ReadBody(d) \/ Drop(d)
    BY <1>6
  <2>2. /\ \A e \in Dispatchers \ {d} : dispatcher'[e] = dispatcher[e]
        /\ m \in dropped => m \in dropped'
    BY <1>1, <2>1 DEF DispatcherStep, Claim, Look, Cancel, Post, ReadBody, Log, Mark, Count, Drop
  <2>3. CASE Claim(d, m)
    <3>1. Working(d, m)'
      BY <1>1, <2>3 DEF Claim, Working, Idle
    <3> QED BY <3>1
  <2>4. CASE ~Claim(d, m)
    <3>1. CASE Working(d, m) /\ Drop(d)
      BY <3>1 DEF Working, Drop
    <3>2. CASE Working(d, m) /\ (Cancel(d) \/ Mark(d))
      <4>1. message'[m] = Marked(d) \/ message'[m].status = "cancelled"
        BY <1>1, <3>2 DEF Working, Cancel, Mark, Message
      <4>2. Marked(d).status # "processing"
        BY <1>1, <3>2 DEF Marked, Working, Message
      <4> QED BY <4>1, <4>2
    <3>3. CASE Working(d, m) /\ ~(Drop(d) \/ Cancel(d) \/ Mark(d))
      <4>1. Look(d) \/ ReadBody(d) \/ Log(d) \/ (\E a, s, b \in BOOLEAN : Post(d, a, s, b))
        BY <2>1, <3>3, WebhookConstants DEF DispatcherStep, Claim, Count, Working, IInv, TypeOK
      <4>2. Working(d, m)'
        <5>1. ASSUME NEW a \in BOOLEAN, NEW s \in BOOLEAN, NEW b \in BOOLEAN, Post(d, a, s, b)
              PROVE  Working(d, m)'
          BY <1>1, <3>3, <5>1 DEF Post, Working
        <5>2. ASSUME Look(d) \/ ReadBody(d) \/ Log(d) PROVE Working(d, m)'
          <6>1. dispatcher'[d].message = dispatcher[d].message
            BY <1>1, <5>2 DEF Look, ReadBody, Log, Dispatcher
          <6>2. dispatcher'[d].pc \in {"posting", "cancelling", "logging", "marking"}
            BY <1>1, <5>2 DEF Look, ReadBody, Log, Dispatcher
          <6> QED BY <3>3, <6>1, <6>2 DEF Working
        <5> QED BY <4>1, <5>1, <5>2
      <4> QED BY <2>2, <4>2
    <3>4. CASE ~Working(d, m)
      <4>1. message[m].status = "processing"
        BY <1>1, <2>1, <2>4, <3>4
           DEF DispatcherStep, Claim, Look, Cancel, Post, ReadBody, Log, Mark, Count, Drop, Working
      <4> QED BY <1>2, <2>2, <3>4, <4>1 DEF Working
    <3> QED BY <3>1, <3>2, <3>3, <3>4
  <2> QED BY <2>3, <2>4
<1> QED BY <1>3, <1>4, <1>5, <1>6 DEF Next

-----------------------------------------------------------------------------
(***************************************************************************)
(* No count is ahead of the attempts that failed.                          *)
(***************************************************************************)

LEMMA StepCounts == IInv /\ [Next]_vars => CountsOK'
<1> SUFFICES ASSUME IInv, [Next]_vars PROVE CountsOK'
  OBVIOUS
<1>1. /\ subscription \in Subscription /\ subscription.count \in Nat
      /\ failed \in Nat /\ subscription.count =< failed
      /\ subscription.reason = "failures" => failed >= Threshold
      /\ \A e \in Dispatchers : CountOK(e)
  BY DEF IInv, TypeOK, CountsOK, DisabledAfterFailures, Subscription
<1>2. /\ dispatcher \in [Dispatchers -> Dispatcher]
      /\ \A e \in Dispatchers : dispatcher[e] \in Dispatcher /\ dispatcher[e].count \in Nat
  BY DEF IInv, TypeOK, Dispatcher
<1>3. CASE /\ UNCHANGED <<failed, dispatcher>>
           /\ subscription'.count \in {0, subscription.count}
           /\ subscription'.reason \in {subscription.reason, "none", "manual"}
  <2>1. \A e \in Dispatchers : CountOK(e)'
    BY <1>1, <1>3 DEF CountOK
  <2>2. subscription'.count =< failed' /\ DisabledAfterFailures'
    BY <1>1, <1>3 DEF DisabledAfterFailures
  <2> QED BY <2>1, <2>2 DEF CountsOK
<1>4. CASE \E d \in Dispatchers : DispatcherStep(d) \/ ReadBody(d) \/ Drop(d)
  <2>1. PICK d \in Dispatchers : DispatcherStep(d) \/ ReadBody(d) \/ Drop(d)
    BY <1>4
  <2>2. failed' \in Nat /\ failed' >= failed
    <3>1. failed' = failed \/ failed' = failed + 1
      BY <2>1 DEF DispatcherStep, Claim, Look, Cancel, Post, ReadBody, Log, Mark, Count, Drop
    <3> QED BY <1>1, <3>1
  <2>3. \A e \in Dispatchers \ {d} : dispatcher'[e] = dispatcher[e]
    BY <1>2, <2>1 DEF DispatcherStep, Claim, Look, Cancel, Post, ReadBody, Log, Mark, Count, Drop
  <2>4. \A e \in Dispatchers \ {d} : CountOK(e)'
    BY <1>1, <1>2, <2>2, <2>3 DEF CountOK
  <2>5. ASSUME (\E n \in Messages : Claim(d, n)) \/ Cancel(d) \/ Count(d) \/ Drop(d)
        PROVE  CountOK(d)'
    <3>1. dispatcher'[d].pc \in {"idle", "looking"} /\ dispatcher'[d].count = 0
      <4>1. ASSUME NEW n \in Messages, Claim(d, n)
            PROVE  dispatcher'[d].pc = "looking" /\ dispatcher'[d].count = 0
        BY <1>2, <4>1 DEF Claim, Idle
      <4>2. ASSUME Cancel(d) \/ Count(d) \/ Drop(d) PROVE dispatcher'[d] = Idle
        BY <1>2, <4>2 DEF Cancel, Count, Drop
      <4> QED BY <2>5, <4>1, <4>2, IdleType
    <3> QED BY <2>2, <3>1 DEF CountOK
  <2>6. ASSUME Look(d) PROVE CountOK(d)'
    <3>1. dispatcher'[d].pc \in {"posting", "cancelling"} /\ dispatcher'[d].count = subscription.count
      BY <1>2, <2>6 DEF Look, Dispatcher
    <3> QED BY <1>1, <2>6, <3>1 DEF Look, CountOK
  <2>7. ASSUME NEW a \in BOOLEAN, NEW s \in BOOLEAN, NEW b \in BOOLEAN, Post(d, a, s, b)
        PROVE  CountOK(d)'
    <3>1. /\ dispatcher'[d].count = dispatcher[d].count /\ dispatcher'[d].succeeded = s
          /\ s \/ failed' = failed + 1
      BY <1>2, <2>7 DEF Post, Dispatcher
    <3>2. dispatcher[d].count =< failed
      BY <1>1 DEF CountOK
    <3>3. dispatcher'[d].count =< failed' /\ (s \/ dispatcher'[d].count + 1 =< failed')
      BY <1>1, <1>2, <2>2, <3>1, <3>2
    <3> QED BY <3>1, <3>3 DEF CountOK
  <2>8. ASSUME ReadBody(d) \/ Log(d) \/ Mark(d) PROVE CountOK(d)'
    <3>1. /\ dispatcher'[d].count = dispatcher[d].count
          /\ dispatcher'[d].succeeded = dispatcher[d].succeeded
          /\ dispatcher[d].pc \in {"reading", "logging", "marking"} /\ failed' = failed
      BY <1>2, <2>8 DEF ReadBody, Log, Mark, Dispatcher
    <3> QED BY <1>1, <3>1 DEF CountOK
  <2>9. CountOK(d)'
    BY <2>1, <2>5, <2>6, <2>7, <2>8 DEF DispatcherStep
  <2>10. CASE ~Count(d)
    <3>1. subscription' = subscription
      BY <2>1, <2>10 DEF DispatcherStep, Claim, Look, Cancel, Post, ReadBody, Log, Mark, Drop
    <3>2. subscription'.count =< failed' /\ DisabledAfterFailures'
      BY <1>1, <2>2, <3>1, WebhookConstants DEF DisabledAfterFailures
    <3> QED BY <2>4, <2>9, <3>2 DEF CountsOK
  <2>11. CASE Count(d)
    <3>1. failed' = failed /\ (dispatcher[d].succeeded \/ NextCount(d) =< failed) /\ NextCount(d) \in Nat
      BY <1>1, <1>2, <2>11 DEF Count, CountOK, NextCount
    <3>2. CASE dispatcher[d].succeeded
      BY <1>1, <2>4, <2>9, <2>11, <3>1, <3>2 DEF Count, CountsOK, DisabledAfterFailures, Subscription
    <3>3. CASE ~dispatcher[d].succeeded
      <4>1. /\ subscription'.count = NextCount(d)
            /\ NextCount(d) >= Threshold \/ subscription'.reason = subscription.reason
        BY <1>1, <2>11, <3>3 DEF Count, Subscription
      <4>2. failed >= Threshold \/ subscription'.reason = subscription.reason
        BY <1>1, <3>1, <3>3, <4>1, WebhookConstants
      <4> QED BY <1>1, <2>4, <2>9, <3>1, <3>3, <4>1, <4>2 DEF CountsOK, DisabledAfterFailures
    <3> QED BY <3>2, <3>3
  <2> QED BY <2>10, <2>11
<1>5. CASE UNCHANGED vars
  BY <1>3, <1>5 DEF vars
<1>6. CASE \E m \in Messages : Enqueue(m) \/ Redeliver(m) \/ BecomeDue(m)
  BY <1>3, <1>6 DEF Enqueue, Redeliver, BecomeDue
<1>7. CASE Delete
  BY <1>1, <1>3, <1>7 DEF Delete, Subscription
<1>8. CASE \E enabled \in BOOLEAN : Switch(enabled)
  BY <1>1, <1>3, <1>8 DEF Switch, Subscription
<1> QED BY <1>4, <1>5, <1>6, <1>7, <1>8 DEF Next

-----------------------------------------------------------------------------
(***************************************************************************)
(* The theorems.                                                           *)
(***************************************************************************)

LEMMA Invariance == Spec => []IInv
<1>1. IInv /\ [Next]_vars => IInv'
  BY StepTypes, StepAccounts, StepStranded, StepCounts DEF IInv
<1> QED BY <1>1, InitInv, PTL DEF Spec

\* A message that was not redelivered in flight is called sent only when it was
\* received, and failed only when its attempts are used up.
THEOREM DecisionsEarned == Spec => []DecisionIsEarned
<1>1. IInv => DecisionIsEarned
  BY DEF IInv, MessagesOK, AccountOK, MessageOK, DecisionIsEarned
<1> QED BY <1>1, Invariance, PTL

\* Only a crash or a refused statement leaves a message processing for ever.
THEOREM StrandedByDrop == Spec => []StrandedOnlyByDrop
<1>1. IInv => StrandedOnlyByDrop
  BY DEF IInv
<1> QED BY <1>1, Invariance, PTL

\* No stale count disables a subscription before its threshold of failures.
THEOREM FailuresCounted == Spec => []DisabledAfterFailures
<1>1. IInv => DisabledAfterFailures
  BY DEF IInv, CountsOK
<1> QED BY <1>1, Invariance, PTL

=============================================================================

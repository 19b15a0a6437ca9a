--------------------------- MODULE WebhookOutbox ----------------------------
(***************************************************************************)
(* The outbox of webhook messages of one subscription: enqueued in the     *)
(* transaction of the event (packages/core/service/webhook-events.ts),     *)
(* posted by the dispatcher of each backend process                        *)
(* (backend/webhook-dispatcher.ts), switched, deleted and redelivered by   *)
(* users (backend/webhooks.ts).                                            *)
(*                                                                         *)
(* The claim is one transaction over a locked row, and one step.  Then the *)
(* dispatcher reads the subscription, posts, and makes three writes of one *)
(* statement each, none of them guarded: the attempt's log, the message's  *)
(* status and the subscription's failure count, which is the count that it *)
(* read before the POST plus one.  There is no lease: a dispatcher that    *)
(* stops, or one of whose statements is refused, leaves the message        *)
(* processing (Drop).                                                      *)
(***************************************************************************)
EXTENDS Naturals

CONSTANTS Messages,        \* messages of the subscription
          Dispatchers,     \* backend processes, one dispatcher in each
          None,            \* no message
          MaxAttempts,     \* RETRY_BACKOFF_MS.length
          Threshold,       \* AUTO_DISABLE_FAILURE_THRESHOLD
          MaxDrops,        \* bound on crashes and refused statements
          MaxRedeliveries, \* bound on redeliveries
          MaxSwitches      \* bound on changes of the subscription by users

VARIABLES message,      \* outbox_messages
          subscription, \* the row of webhook_subscriptions
          dispatcher,   \* what each dispatcher is doing
          tries,        \* history: POSTs since the message was (re)queued
          received,     \* history: messages accepted since they were (re)queued
          failed,       \* history: attempts that failed
          streak,       \* history: attempts that failed since one succeeded
          overtaken,    \* history: messages redelivered while one was in flight
          dropped,      \* history: messages whose dispatcher let them fall
          drops, redeliveries, switches  \* counters of the bounds

counters == <<drops, redeliveries, switches>>
vars == <<message, subscription, dispatcher, tries, received, failed, streak,
          overtaken, dropped, counters>>

ASSUME WebhookConstants ==
    /\ MaxAttempts \in Nat \ {0}
    /\ Threshold \in Nat \ {0}
    /\ MaxDrops \in Nat
    /\ MaxRedeliveries \in Nat
    /\ MaxSwitches \in Nat
    /\ None \notin Messages

-----------------------------------------------------------------------------
Decided == {"sent", "failed", "cancelled"}

Message == [status   : {"none", "pending", "processing"} \cup Decided,
            attempts : Nat,      \* attempt_count
            due      : BOOLEAN]  \* available_at has passed

Subscription == [enabled : BOOLEAN,
                 reason  : {"none", "manual", "failures"},
                 count   : Nat,      \* consecutive_failures
                 deleted : BOOLEAN]

Pcs == {"idle", "looking", "cancelling", "posting", "reading", "logging", "marking",
        "counting"}

\* attempt, count and succeeded are local variables of deliver().
Dispatcher == [pc        : Pcs,
               message   : Messages \cup {None},
               attempt   : Nat,
               count     : Nat,
               succeeded : BOOLEAN]

Idle == [pc |-> "idle", message |-> None, attempt |-> 0, count |-> 0,
         succeeded |-> FALSE]

TypeOK ==
    /\ message \in [Messages -> Message]
    /\ subscription \in Subscription
    /\ dispatcher \in [Dispatchers -> Dispatcher]
    /\ \A d \in Dispatchers : dispatcher[d].pc = "idle" <=> dispatcher[d].message = None
    /\ tries \in [Messages -> Nat]
    /\ received \in SUBSET Messages
    /\ failed \in Nat
    /\ streak \in Nat
    /\ overtaken \in SUBSET Messages
    /\ dropped \in SUBSET Messages
    /\ drops \in Nat
    /\ redeliveries \in Nat
    /\ switches \in Nat

Init ==
    /\ message = [m \in Messages |-> [status |-> "none", attempts |-> 0, due |-> FALSE]]
    /\ subscription = [enabled |-> TRUE, reason |-> "none", count |-> 0, deleted |-> FALSE]
    /\ dispatcher = [d \in Dispatchers |-> Idle]
    /\ tries = [m \in Messages |-> 0]
    /\ received = {}
    /\ failed = 0
    /\ streak = 0
    /\ overtaken = {}
    /\ dropped = {}
    /\ drops = 0
    /\ redeliveries = 0
    /\ switches = 0

\* The dispatcher has still to write the message's status.
Working(d, m) == dispatcher[d].message = m /\ dispatcher[d].pc # "counting"

InFlight(m) == \E d \in Dispatchers : Working(d, m)

-----------------------------------------------------------------------------
(* Events, users and time.                                                 *)

\* enqueueWebhookEvent: only an enabled subscription is matched.
Enqueue(m) ==
    /\ message[m].status = "none"
    /\ subscription.enabled
    /\ ~subscription.deleted
    /\ message' = [message EXCEPT ![m].status = "pending", ![m].due = TRUE]
    /\ UNCHANGED <<subscription, dispatcher, tries, received, failed, streak,
                   overtaken, dropped, counters>>

\* redeliverWebhookDelivery: whatever the status of the message is.
Redeliver(m) ==
    /\ redeliveries < MaxRedeliveries
    /\ message[m].status # "none"
    /\ ~subscription.deleted
    /\ message' = [message EXCEPT ![m] = [status |-> "pending", attempts |-> 0, due |-> TRUE]]
    /\ tries' = [tries EXCEPT ![m] = 0]
    /\ received' = received \ {m}
    /\ overtaken' = IF InFlight(m) THEN overtaken \cup {m} ELSE overtaken
    /\ dropped' = dropped \ {m}
    /\ redeliveries' = redeliveries + 1
    /\ UNCHANGED <<subscription, dispatcher, failed, streak, drops, switches>>

\* updateWebhookSubscription with enabled: enabling starts a new count.
Switch(enabled) ==
    /\ switches < MaxSwitches
    /\ ~subscription.deleted
    /\ subscription' = [subscription EXCEPT
           !.enabled = enabled,
           !.reason = IF enabled THEN "none" ELSE "manual",
           !.count = IF enabled THEN 0 ELSE @]
    /\ switches' = switches + 1
    /\ UNCHANGED <<message, dispatcher, tries, received, failed, streak,
                   overtaken, dropped, drops, redeliveries>>

\* deleteWebhookSubscription
Delete ==
    /\ switches < MaxSwitches
    /\ ~subscription.deleted
    /\ subscription' = [subscription EXCEPT !.deleted = TRUE]
    /\ switches' = switches + 1
    /\ UNCHANGED <<message, dispatcher, tries, received, failed, streak,
                   overtaken, dropped, drops, redeliveries>>

BecomeDue(m) ==
    /\ message[m].status = "pending"
    /\ ~message[m].due
    /\ message' = [message EXCEPT ![m].due = TRUE]
    /\ UNCHANGED <<subscription, dispatcher, tries, received, failed, streak,
                   overtaken, dropped, counters>>

-----------------------------------------------------------------------------
(* The dispatcher.                                                         *)

\* claimNextOutboxMessage.  The oldest due message is taken; here any.
Claim(d, m) ==
    /\ dispatcher[d].pc = "idle"
    /\ message[m].status = "pending"
    /\ message[m].due
    /\ message' = [message EXCEPT ![m].status = "processing"]
    /\ dispatcher' = [dispatcher EXCEPT ![d] =
           [Idle EXCEPT !.pc = "looking", !.message = m,
                        !.attempt = message[m].attempts + 1]]
    /\ UNCHANGED <<subscription, tries, received, failed, streak,
                   overtaken, dropped, counters>>

\* deliver() reads the subscription, and keeps its failure count.  (The payload is
\* one that enqueueWebhookEvent has written, so it is never malformed.)
Look(d) ==
    /\ dispatcher[d].pc = "looking"
    /\ dispatcher' = [dispatcher EXCEPT
           ![d].pc = IF subscription.enabled /\ ~subscription.deleted
                     THEN "posting" ELSE "cancelling",
           ![d].count = subscription.count]
    /\ UNCHANGED <<message, subscription, tries, received, failed, streak,
                   overtaken, dropped, counters>>

\* Mutation: a status that the column does not have.
CancelMisspelt(d) ==
    /\ dispatcher[d].pc = "cancelling"
    /\ message' = [message EXCEPT ![dispatcher[d].message].status = "canceled"]
    /\ dispatcher' = [dispatcher EXCEPT ![d] = Idle]
    /\ UNCHANGED <<subscription, tries, received, failed, streak,
                   overtaken, dropped, counters>>

\* markOutboxTerminal(cancelled), by id.
Cancel(d) ==
    /\ dispatcher[d].pc = "cancelling"
    /\ message' = [message EXCEPT ![dispatcher[d].message].status = "cancelled"]
    /\ dispatcher' = [dispatcher EXCEPT ![d] = Idle]
    /\ UNCHANGED <<subscription, tries, received, failed, streak,
                   overtaken, dropped, counters>>

\* The envelope is built and posted: within ten seconds the headers of an answer
\* are there, which says that the endpoint accepts the message or refuses it, or
\* the attempt has failed; it may have been accepted all the same.
Post(d, accepted, succeeded, answered) ==
    /\ dispatcher[d].pc = "posting"
    /\ succeeded => accepted /\ answered
    /\ LET m == dispatcher[d].message IN
       /\ tries' = [tries EXCEPT ![m] = @ + 1]
       /\ received' = IF accepted THEN received \cup {m} ELSE received
    /\ failed' = IF succeeded THEN failed ELSE failed + 1
    /\ streak' = IF succeeded THEN 0 ELSE streak + 1
    /\ dispatcher' = [dispatcher EXCEPT ![d].pc = IF answered THEN "reading" ELSE "logging",
                                        ![d].succeeded = succeeded]
    /\ UNCHANGED <<message, subscription, overtaken, dropped, counters>>

\* The body of the answer ends, or breaks off; the timer of the ten seconds was
\* stopped by the headers, and the endpoint may take as long as it likes.
ReadBody(d) ==
    /\ dispatcher[d].pc = "reading"
    /\ dispatcher' = [dispatcher EXCEPT ![d].pc = "logging"]
    /\ UNCHANGED <<message, subscription, tries, received, failed, streak,
                   overtaken, dropped, counters>>

\* recordDeliveryAttempt
Log(d) ==
    /\ dispatcher[d].pc = "logging"
    /\ dispatcher' = [dispatcher EXCEPT ![d].pc = "marking"]
    /\ UNCHANGED <<message, subscription, tries, received, failed, streak,
                   overtaken, dropped, counters>>

\* Mutation: one attempt is forgotten.
AttemptsUsedUpEarly(d) == dispatcher[d].attempt + 1 >= MaxAttempts

AttemptsUsedUp(d) == dispatcher[d].attempt >= MaxAttempts

\* Mutation: a message that is to be tried again stays processing.
MarkedInPlace(d) ==
    LET m == dispatcher[d].message IN
    IF dispatcher[d].succeeded THEN [message[m] EXCEPT !.status = "sent"]
    ELSE IF AttemptsUsedUp(d) THEN [message[m] EXCEPT !.status = "failed"]
    ELSE [message[m] EXCEPT !.attempts = dispatcher[d].attempt, !.due = FALSE]

\* The row of the message after the attempt: sent, failed, or pending again.
Marked(d) ==
    LET m == dispatcher[d].message IN
    IF dispatcher[d].succeeded THEN [message[m] EXCEPT !.status = "sent"]
    ELSE IF AttemptsUsedUp(d) THEN [message[m] EXCEPT !.status = "failed"]
    ELSE [status |-> "pending", attempts |-> dispatcher[d].attempt, due |-> FALSE]

\* markOutboxTerminal or rescheduleOutbox, by id.
Mark(d) ==
    /\ dispatcher[d].pc = "marking"
    /\ message' = [message EXCEPT ![dispatcher[d].message] = Marked(d)]
    /\ dispatcher' = [dispatcher EXCEPT ![d].pc = "counting"]
    /\ UNCHANGED <<subscription, tries, received, failed, streak,
                   overtaken, dropped, counters>>

\* Mutation: a failure counts twice.
NextCountDouble(d) == dispatcher[d].count + 2

NextCount(d) == dispatcher[d].count + 1

\* recordSubscriptionSuccess or recordSubscriptionFailure, by id: the latter
\* writes the count of before the POST plus one, and disables at the threshold.
Count(d) ==
    /\ dispatcher[d].pc = "counting"
    /\ subscription' =
           IF dispatcher[d].succeeded THEN [subscription EXCEPT !.count = 0]
           ELSE IF NextCount(d) >= Threshold
                THEN [subscription EXCEPT !.count = NextCount(d),
                          !.enabled = FALSE, !.reason = "failures"]
                ELSE [subscription EXCEPT !.count = NextCount(d)]
    /\ dispatcher' = [dispatcher EXCEPT ![d] = Idle]
    /\ UNCHANGED <<message, tries, received, failed, streak, overtaken, dropped, counters>>

\* A statement of deliver() is refused, or the process stops and starts again:
\* nothing takes the message out of processing.
Drop(d) ==
    /\ dispatcher[d].pc # "idle"
    /\ drops < MaxDrops
    /\ drops' = drops + 1
    /\ dropped' = IF dispatcher[d].pc = "counting" THEN dropped
                  ELSE dropped \cup {dispatcher[d].message}
    /\ dispatcher' = [dispatcher EXCEPT ![d] = Idle]
    /\ UNCHANGED <<message, subscription, tries, received, failed, streak,
                   overtaken, redeliveries, switches>>

-----------------------------------------------------------------------------
DispatcherStep(d) ==
    \/ \E m \in Messages : Claim(d, m)
    \/ Look(d)
    \/ Cancel(d)
    \/ \E accepted, succeeded, answered \in BOOLEAN : Post(d, accepted, succeeded, answered)
    \/ Log(d)
    \/ Mark(d)
    \/ Count(d)

Next ==
    \/ \E m \in Messages : Enqueue(m) \/ Redeliver(m) \/ BecomeDue(m)
    \/ \E enabled \in BOOLEAN : Switch(enabled)
    \/ Delete
    \/ \E d \in Dispatchers : DispatcherStep(d) \/ ReadBody(d) \/ Drop(d)

Spec == Init /\ [][Next]_vars

\* A poll every second, headers that are there after ten or given up, and time
\* passes.  That the body of an answer ends is not assumed.
Fairness ==
    /\ \A d \in Dispatchers : WF_vars(DispatcherStep(d))
    /\ \A m \in Messages : WF_vars(BecomeDue(m))

FairSpec == Spec /\ Fairness

-----------------------------------------------------------------------------
(* Properties.                                                             *)

\* A message is called sent only if the endpoint has accepted it since it was
\* enqueued or redelivered, and failed only after all its attempts; except one
\* that was redelivered while in flight, whose unguarded late mark undoes the
\* redelivery.
DecisionIsEarned ==
    \A m \in Messages \ overtaken :
        /\ message[m].status = "sent" => m \in received
        /\ message[m].status = "failed" => tries[m] >= MaxAttempts

\* A message that is processing is in the hands of a dispatcher, unless one
\* let it fall: only a crash or a refused statement strands a message.
StrandedOnlyByDrop ==
    \A m \in Messages :
        message[m].status = "processing" => InFlight(m) \/ m \in dropped

\* However stale the counts that dispatchers write, a subscription is not
\* disabled before as many attempts as the threshold have failed.
DisabledAfterFailures ==
    subscription.reason = "failures" => failed >= Threshold

\* What the documentation says: they have failed one after the other.
DisabledAfterConsecutiveFailures ==
    subscription.reason = "failures" => streak >= Threshold

\* What the documentation says: an attempt is over after ten seconds.
AttemptsEnd ==
    \A d \in Dispatchers :
        dispatcher[d].pc = "posting" ~> dispatcher[d].pc \notin {"posting", "reading"}

\* The dispatcher waits for the rest of an answer.
Reads(d) == dispatcher[d].pc = "reading"

\* Every message is decided, again and again as it is redelivered, unless a
\* dispatcher let it fall, or has it and waits for ever for the rest of an answer,
\* or every dispatcher waits so.  One endless answer stops one dispatcher only.
EveryMessageIsDecided ==
    \A m \in Messages :
        \/ []<>(message[m].status \in {"none"} \cup Decided \/ m \in dropped)
        \/ <>[](\E d \in Dispatchers : Working(d, m) /\ Reads(d))
        \/ \A d \in Dispatchers : <>[]Reads(d)

=============================================================================

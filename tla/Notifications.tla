---------------------------- MODULE Notifications ----------------------------
(***************************************************************************)
(* NotificationDelivery rows, the notifications.send task and the beat     *)
(* task notifications.dispatch_due that keeps the rows moving.             *)
(*                                                                         *)
(* A send message is acked when it is taken: if its worker dies it is      *)
(* gone.  The row is the durable queue: every tick of the dispatcher       *)
(* recovers rows left in sending, queues what is due, and publishes a      *)
(* message for every queued row once more.  A worker makes the call to the *)
(* provider between two transactions, mark_sending and mark_sent.  A Web   *)
(* Push delivery goes to every device of the user in turn: one refusal     *)
(* fails it for all, and a retry sends it again to those that had it.      *)
(***************************************************************************)
EXTENDS Naturals, FiniteSets

CONSTANTS
    Delivery,
    WebPush,            \* deliveries to several devices
    MaxRetries,         \* NOTIFICATION_MAX_RETRIES
    MaxMishaps,         \* bound: processes that die, provider answers lost,
                        \* countdowns that overtake retry_delivery
    MaxMessages         \* bound: messages in the queue for one delivery

ASSUME NotificationAssumption ==
    /\ WebPush \subseteq Delivery
    /\ MaxRetries \in Nat
    /\ MaxMishaps \in Nat
    /\ MaxMessages \in Nat \ {0}

VARIABLES
    status,             \* NotificationDelivery.status
    attempts,           \* NotificationDelivery.attempt_count
    retryable,          \* FAILED with next_retry_at set
    backoff,            \* the countdown of the last failure is still running
    messages,           \* send messages waiting in the queue
    delayed,            \* send messages published with a countdown
    publishing,         \* rows a committed dispatcher has still to publish
    sender,             \* how far the worker sending a row has come
    requeueing,         \* workers between mark_failed and retry_delivery
    copies,             \* attempts of which a provider has accepted a copy
    partial,            \* attempts refused by one device, accepted by another
    mishaps

vars == <<status, attempts, retryable, backoff, messages, delayed, publishing,
          sender, requeueing, copies, partial, mishaps>>

Status == {"absent", "pending", "queued", "sending", "sent", "failed", "cancelled"}
Sender == {"idle", "calling", "accepted", "transient", "permanent"}

TypeOK ==
    /\ status \in [Delivery -> Status]
    /\ attempts \in [Delivery -> Nat]
    /\ retryable \subseteq Delivery
    /\ backoff \subseteq Delivery
    /\ messages \in [Delivery -> 0..MaxMessages]
    /\ delayed \subseteq Delivery
    /\ publishing \subseteq Delivery
    /\ sender \in [Delivery -> Sender]
    /\ requeueing \in [Delivery -> Nat]
    /\ copies \in [Delivery -> Nat]
    /\ partial \in [Delivery -> Nat]
    /\ \A d \in Delivery \ WebPush : partial[d] = 0
    /\ mishaps \in 0..MaxMishaps

Init ==
    /\ status = [d \in Delivery |-> "absent"]
    /\ attempts = [d \in Delivery |-> 0]
    /\ retryable = {}
    /\ backoff = {}
    /\ messages = [d \in Delivery |-> 0]
    /\ delayed = {}
    /\ publishing = {}
    /\ sender = [d \in Delivery |-> "idle"]
    /\ requeueing = [d \in Delivery |-> 0]
    /\ copies = [d \in Delivery |-> 0]
    /\ partial = [d \in Delivery |-> 0]
    /\ mishaps = 0

Become(d, from, to) ==
    /\ status[d] \in from
    /\ status' = [status EXCEPT ![d] = to]

Step(d, from, to) ==
    /\ sender[d] = from
    /\ sender' = [sender EXCEPT ![d] = to]

Mishap ==
    /\ mishaps < MaxMishaps
    /\ mishaps' = mishaps + 1

-----------------------------------------------------------------------------
(* The rows *)

\* create_delivery, deduplicated by key: a row is made once, for later ...
Create(d) ==
    /\ Become(d, {"absent"}, "pending")
    /\ UNCHANGED <<attempts, retryable, backoff, messages, delayed, publishing,
                   sender, requeueing, copies, partial, mishaps>>

\* ... or for now: create_reminder_deliveries and create_briefing_deliveries
\* queue it at once and publish after the commit.
CreateQueued(d) ==
    /\ Become(d, {"absent"}, "queued")
    /\ publishing' = publishing \union {d}
    /\ UNCHANGED <<attempts, retryable, backoff, messages, delayed, sender,
                   requeueing, copies, partial, mishaps>>

\* cancel_source_deliveries also cancelling what is being sent.
CancelSending(d) ==
    /\ Become(d, {"pending", "queued", "sending", "failed"}, "cancelled")
    /\ UNCHANGED <<attempts, retryable, backoff, messages, delayed, publishing,
                   sender, requeueing, copies, partial, mishaps>>

\* cancel_delivery and cancel_source_deliveries.
Cancel(d) ==
    /\ Become(d, {"pending", "queued", "failed"}, "cancelled")
    /\ UNCHANGED <<attempts, retryable, backoff, messages, delayed, publishing,
                   sender, requeueing, copies, partial, mishaps>>

-----------------------------------------------------------------------------
(* The dispatcher: one transaction over all rows, then one message each. *)

\* SENDING for NOTIFICATION_SENDING_STALE_SECONDS: ten times the task's time
\* limit, so that its worker is gone.
Stale == {d \in Delivery : status[d] = "sending" /\ sender[d] = "idle"}
RetryDue == {d \in Delivery : status[d] = "failed" /\ d \in retryable \ backoff}

\* The transitions of a tick without its first part.
QueueableNotStale ==
    RetryDue \union {d \in Delivery : status[d] \in {"pending", "queued"}}

Queueable ==
    Stale \union RetryDue \union {d \in Delivery : status[d] \in {"pending", "queued"}}

DispatchDue ==
    /\ Queueable # {}
    /\ status' = [d \in Delivery |-> IF d \in Queueable THEN "queued" ELSE status[d]]
    /\ retryable' = retryable \ Queueable
    /\ publishing' = publishing \union Queueable
    /\ UNCHANGED <<attempts, backoff, messages, delayed, sender, requeueing,
                   copies, partial, mishaps>>

\* A full queue stands for messages that have not been taken for long.
PublishOne(d) ==
    /\ d \in publishing
    /\ publishing' = publishing \ {d}
    /\ messages' = [messages EXCEPT ![d] = IF @ < MaxMessages THEN @ + 1 ELSE @]
    /\ UNCHANGED <<status, attempts, retryable, backoff, delayed, sender,
                   requeueing, copies, partial, mishaps>>

\* A process dies after its commit or the broker refuses a message: what it had
\* not published stays queued.
PublisherCrash ==
    /\ Mishap
    /\ \E S \in (SUBSET publishing) \ {{}} : publishing' = publishing \ S
    /\ UNCHANGED <<status, attempts, retryable, backoff, messages, delayed,
                   sender, requeueing, copies, partial>>

-----------------------------------------------------------------------------
(* The send task *)

Consume(d) ==
    /\ messages[d] > 0
    /\ messages' = [messages EXCEPT ![d] = @ - 1]

\* mark_sending letting a second message into a row being sent.
TakeAnyway(d) ==
    /\ Consume(d)
    /\ sender[d] = "idle" \/ sender[d] = "accepted"
    /\ Become(d, {"queued", "sending"}, "sending")
    /\ sender' = [sender EXCEPT ![d] = "calling"]
    /\ attempts' = [attempts EXCEPT ![d] = @ + 1]
    /\ UNCHANGED <<retryable, backoff, delayed, publishing, requeueing, copies,
                   partial, mishaps>>

\* mark_sending claims a queued row.
Take(d) ==
    /\ Consume(d)
    /\ Become(d, {"queued"}, "sending")
    /\ Step(d, "idle", "calling")
    /\ attempts' = [attempts EXCEPT ![d] = @ + 1]
    /\ UNCHANGED <<retryable, backoff, delayed, publishing, requeueing, copies,
                   partial, mishaps>>

\* mark_sending finds any other status: the task ends.
Drop(d) ==
    /\ Consume(d)
    /\ status[d] # "queued"
    /\ UNCHANGED <<status, attempts, retryable, backoff, delayed, publishing,
                   sender, requeueing, copies, partial, mishaps>>

ProviderAccepts(d) ==
    /\ Step(d, "calling", "accepted")
    /\ copies' = [copies EXCEPT ![d] = @ + 1]
    /\ UNCHANGED <<status, attempts, retryable, backoff, messages, delayed,
                   publishing, requeueing, partial, mishaps>>

\* TransientNotificationError, or PermanentNotificationError or any other
\* exception (the soft time limit among them).  Of several devices some may have
\* been sent their copy before the one that refuses.
ProviderRefuses(d) ==
    /\ \E kind \in {"transient", "permanent"} : Step(d, "calling", kind)
    /\ \E some \in 0..(IF d \in WebPush THEN 1 ELSE 0) :
          /\ copies' = [copies EXCEPT ![d] = @ + some]
          /\ partial' = [partial EXCEPT ![d] = @ + some]
    /\ UNCHANGED <<status, attempts, retryable, backoff, messages, delayed,
                   publishing, requeueing, mishaps>>

\* The connection breaks after the provider has accepted: a transient error.
AnswerLost(d) ==
    /\ Step(d, "calling", "transient")
    /\ Mishap
    /\ copies' = [copies EXCEPT ![d] = @ + 1]
    /\ UNCHANGED <<status, attempts, retryable, backoff, messages, delayed,
                   publishing, requeueing, partial>>

MarkSent(d) ==
    /\ Step(d, "accepted", "idle")
    /\ Become(d, {"sending"}, "sent")
    /\ UNCHANGED <<attempts, retryable, backoff, messages, delayed, publishing,
                   requeueing, copies, partial, mishaps>>

CanRetry(d) == sender[d] = "transient" /\ attempts[d] <= MaxRetries

MarkFailed(d) ==
    /\ sender[d] \in {"transient", "permanent"}
    /\ Become(d, {"sending"}, "failed")
    /\ sender' = [sender EXCEPT ![d] = "idle"]
    /\ IF CanRetry(d)
       THEN /\ retryable' = retryable \union {d}
            /\ backoff' = backoff \union {d}
            /\ requeueing' = [requeueing EXCEPT ![d] = @ + 1]
       ELSE /\ retryable' = retryable \ {d}
            /\ UNCHANGED <<backoff, requeueing>>
    /\ UNCHANGED <<attempts, messages, delayed, publishing, copies, partial, mishaps>>

EndRequeue(d) ==
    /\ requeueing[d] > 0
    /\ requeueing' = [requeueing EXCEPT ![d] = @ - 1]

\* retry_delivery queues the row at once and clears next_retry_at, whoever
\* failed it last and also when that was for good; a row that is queued already
\* it returns.  Then self.retry publishes a message with the countdown, or
\* gives up.
Requeue(d) ==
    /\ EndRequeue(d)
    /\ Become(d, {"failed", "queued"}, "queued")
    /\ retryable' = retryable \ {d}
    /\ delayed' \in {delayed, delayed \union {d}}
    /\ UNCHANGED <<attempts, backoff, messages, publishing, sender, copies,
                   partial, mishaps>>

\* retry_delivery raises: the row was cancelled meanwhile, or another worker
\* took it.
RequeueRefused(d) ==
    /\ EndRequeue(d)
    /\ status[d] \in {"cancelled", "sending", "sent"}
    /\ UNCHANGED <<status, attempts, retryable, backoff, messages, delayed,
                   publishing, sender, copies, partial, mishaps>>

\* The worker dies, or its transaction fails and the task with it.
WorkerCrash(d) ==
    /\ Mishap
    /\ \/ sender[d] # "idle" /\ sender' = [sender EXCEPT ![d] = "idle"]
          /\ UNCHANGED requeueing
       \/ EndRequeue(d) /\ UNCHANGED sender
    /\ UNCHANGED <<status, attempts, retryable, backoff, messages, delayed,
                   publishing, copies, partial>>

\* next_retry_at has passed.  It is counted from before the call to the
\* provider, so it may have passed even before retry_delivery queues the row:
\* the dispatcher is then free to take the row up under that worker.
CountdownOver(d) ==
    /\ d \in backoff
    /\ backoff' = backoff \ {d}
    /\ IF requeueing[d] > 0 THEN Mishap ELSE UNCHANGED mishaps
    /\ UNCHANGED <<status, attempts, retryable, messages, delayed, publishing,
                   sender, requeueing, copies, partial>>

\* The message self.retry published with a countdown arrives.
DelayedArrives(d) ==
    /\ d \in delayed
    /\ delayed' = delayed \ {d}
    /\ messages' = [messages EXCEPT ![d] = IF @ < MaxMessages THEN @ + 1 ELSE @]
    /\ UNCHANGED <<status, attempts, retryable, backoff, publishing, sender,
                   requeueing, copies, partial, mishaps>>

-----------------------------------------------------------------------------
SendStep(d) ==
    \/ Take(d) \/ Drop(d) \/ ProviderAccepts(d) \/ ProviderRefuses(d)
    \/ MarkSent(d) \/ MarkFailed(d)

RequeueStep(d) == Requeue(d) \/ RequeueRefused(d)

DeliveryStep(d) ==
    \/ Create(d) \/ CreateQueued(d) \/ Cancel(d) \/ PublishOne(d)
    \/ SendStep(d) \/ RequeueStep(d) \/ AnswerLost(d) \/ WorkerCrash(d)
    \/ CountdownOver(d) \/ DelayedArrives(d)

Next == (\E d \in Delivery : DeliveryStep(d)) \/ DispatchDue \/ PublisherCrash

\* Beat ticks, workers consume, countdowns end.
Fairness ==
    /\ \A d \in Delivery :
          /\ WF_vars(SendStep(d)) /\ WF_vars(RequeueStep(d)) /\ WF_vars(PublishOne(d))
          /\ WF_vars(CountdownOver(d)) /\ WF_vars(DelayedArrives(d))
    /\ WF_vars(DispatchDue)

Spec == Init /\ [][Next]_vars
FairSpec == Spec /\ Fairness

-----------------------------------------------------------------------------
(* Properties *)

\* One copy reaches the user, and one more at most for each process that died,
\* each answer that was lost and each attempt that some of several devices had
\* taken when another refused, whatever duplicate messages the dispatcher, the
\* retries and the recovery of stale rows publish.
OneCopyButForMishaps ==
    \A d \in Delivery :
        /\ copies[d] <= 1 + partial[d] + mishaps
        /\ d \notin WebPush => copies[d] <= 1 + mishaps

\* Transient errors end: the limit on attempts holds, one more for each mishap
\* (a worker whose row the dispatcher takes up under it queues the row again,
\* even after the last attempt).
AttemptsAreBounded == \A d \in Delivery : attempts[d] <= MaxRetries + 1 + mishaps

\* The row of a worker at work is sending until the worker has recorded the
\* answer, so that nobody else sends or cancels it.
SendersHoldTheirRow ==
    \A d \in Delivery : sender[d] # "idle" => status[d] = "sending"

\* A row that can be taken again has had no copy accepted but by mishap or by
\* some of its devices, and has an attempt left for itself and for each worker
\* that is still to queue it.
Delivered(d) == sender[d] = "accepted" \/ status[d] = "sent"
Takable(d) ==
    \/ status[d] \in {"absent", "pending", "queued"}
    \/ status[d] = "sending" /\ sender[d] = "idle"

OthersHaveASpare ==
    \A d \in Delivery :
        /\ ~Delivered(d) => copies[d] <= partial[d] + mishaps
        /\ attempts[d] + requeueing[d] <= MaxRetries + 1 + mishaps
        /\ Takable(d) => attempts[d] + requeueing[d] <= MaxRetries + mishaps

\* Workers that are still to queue the row: but for the one that failed it last
\* and whose countdown runs, each was overtaken by its countdown.
LateRequeuesAreMishaps ==
    \A d \in Delivery :
        /\ requeueing[d] <= 1 + mishaps
        /\ status[d] \notin {"failed", "cancelled"} => requeueing[d] <= mishaps
        /\ status[d] = "failed" /\ d \in retryable =>
              attempts[d] <= MaxRetries /\ (d \in backoff \/ requeueing[d] <= mishaps)

\* However often a delivery is published and taken, the copies and the attempts
\* stay within one, or the limit, and what went wrong on the way (mark_sending,
\* mark_failed, retry_delivery and queue_due_deliveries against each other).
DeliveryInv ==
    /\ TypeOK
    /\ SendersHoldTheirRow
    /\ OthersHaveASpare
    /\ LateRequeuesAreMishaps
    /\ OneCopyButForMishaps
    /\ AttemptsAreBounded

\* Nothing is sent once a delivery is cancelled, whatever is still queued.
NothingAfterCancel ==
    [][\A d \in Delivery : status[d] = "cancelled" =>
          status'[d] = "cancelled" /\ copies'[d] = copies[d]]_vars

\* Every delivery ends sent, cancelled or failed for good, although messages
\* are lost with their workers and with the dispatcher.
Settled(d) ==
    \/ status[d] \in {"sent", "cancelled"}
    \/ status[d] = "failed" /\ d \notin retryable
DeliveriesSettle == \A d \in Delivery : status[d] = "queued" ~> Settled(d)

\* A failed attempt is repeated when its backoff is over, not before.
BackoffIsRespected ==
    [][\A d \in Delivery : attempts'[d] # attempts[d] => d \notin backoff]_vars
=============================================================================

------------------------- MODULE Delivery_proofs -------------------------
(***************************************************************************)
(* What the two halves of a notification's way promise, for any number of  *)
(* reminders, channels, deliveries, retries and crashes: a reminder hands  *)
(* over each occurrence whole, once and in time (Reminders), and a         *)
(* delivery is sent once but for the mishaps (Notifications).              *)
(***************************************************************************)
EXTENDS Notifications, Reminders, TLAPS

-----------------------------------------------------------------------------
(* Reminders *)

\* ReminderInv is inductive as it stands.  An occurrence is a reminder and a
\* trigger time: the trigger of a reminder that is sent does not move any more,
\* and a delivery of the same occurrence stands in the way of another.

LEMMA RemindersInitially == InitReminders => ReminderInv
BY ReminderAssumption
   DEF InitReminders, ReminderInv, TypeOKReminders, ReminderStatus, Time, Row,
       SentOnEveryChannel, OccurrenceDeliveredOnce, NeverTooLate

\* A reminder is moved to an instant the clock reaches.
LEMMA MovedAhead ==
    ASSUME TypeOKReminders, NEW s \in Time \union {NoStart}, NEW r \in Reminder, Moves(s, r)
    PROVE  s - r \in Time
<1>1. s # NoStart /\ r \in Offset /\ s > now + r
  BY DEF Moves, Desired
<1>2. s \in 0..MaxTime /\ r \in Nat /\ now \in 0..MaxTime /\ MaxTime \in Nat
  BY <1>1, ReminderAssumption DEF TypeOKReminders, Time
<1> QED BY <1>1, <1>2 DEF Time

LEMMA ReminderTyping ==
    ASSUME TypeOKReminders, [NextReminders]_reminderVars
    PROVE  TypeOKReminders'
<1> USE ReminderAssumption
<1>1. CASE UNCHANGED reminderVars
  BY <1>1 DEF reminderVars, TypeOKReminders
<1>2. CASE Tick
  BY <1>2 DEF Tick, TypeOKReminders, Time
<1>3. ASSUME NEW s \in Time \union {NoStart}, Reschedule(s) PROVE TypeOKReminders'
  <2>1. state' \in [Reminder -> ReminderStatus]
    BY <1>3 DEF Reschedule, TypeOKReminders, ReminderStatus
  <2>2. trigger' \in [Reminder -> Time]
    BY <1>3, MovedAhead DEF Reschedule, TypeOKReminders
  <2> QED BY <1>3, <2>1, <2>2 DEF Reschedule, TypeOKReminders
<1>4. ASSUME NEW r \in Reminder, NEW at \in Time,
             CreateReminder(r, at) \/ UpdateReminder(r, at)
      PROVE  TypeOKReminders'
  BY <1>4 DEF CreateReminder, UpdateReminder, TypeOKReminders, ReminderStatus
<1>5. ASSUME NEW S \in SUBSET Reminder, Dispatch(S) PROVE TypeOKReminders'
  BY <1>5 DEF Dispatch, TypeOKReminders, ReminderStatus
<1>6. ASSUME NEW r \in Reminder, CancelReminder(r) \/ Publish(r) \/ SendLost(r)
      PROVE  TypeOKReminders'
  BY <1>6 DEF CancelReminder, Publish, SendLost, EndTask, TypeOKReminders, ReminderStatus
<1>7. CASE DispatcherCrash
  BY <1>7 DEF DispatcherCrash, TypeOKReminders
<1>8. ASSUME NEW r \in Reminder, SendIgnored(r) \/ SendTooLate(r) PROVE TypeOKReminders'
  BY <1>8 DEF SendIgnored, SendTooLate, EndTask, TypeOKReminders, ReminderStatus
<1>9. ASSUME NEW r \in Reminder, NEW S \in SUBSET Channel, TypeOKReminders
      PROVE  Rows(r, S) \subseteq Row
  BY <1>9 DEF Rows, Row, TypeOKReminders
<1>10. ASSUME NEW r \in Reminder, SendDone(r) PROVE TypeOKReminders'
  <2>1. deliveries' \subseteq Row
    BY <1>9, <1>10 DEF SendDone, TypeOKReminders
  <2> QED BY <1>10, <2>1 DEF SendDone, EndTask, TypeOKReminders, ReminderStatus
<1>11. ASSUME NEW r \in Reminder, SendFails(r) PROVE TypeOKReminders'
  <2>1. deliveries' \subseteq Row
    BY <1>9, <1>11 DEF SendFails, TypeOKReminders
  <2>2. task' \in [Reminder -> 0..MaxTries \union {NoTask}]
    BY <1>11 DEF SendFails, Sendable, TypeOKReminders
  <2> QED BY <1>11, <2>1, <2>2 DEF SendFails, TypeOKReminders, ReminderStatus
<1> QED BY <1>1, <1>2, <1>3, <1>4, <1>5, <1>6, <1>7, <1>8, <1>10, <1>11
        DEF NextReminders, Send, Reminder

\* What an attempt adds while it is not too late, and only where nothing of the
\* occurrence is handed over yet, is handed over once and in time.
LEMMA HandedOver ==
    ASSUME TypeOKReminders, OccurrenceDeliveredOnce, NeverTooLate,
           NEW r \in Reminder, NEW S \in SUBSET Channel,
           ~Late(r), Conflict(r) => S = {},
           deliveries' = deliveries \union Rows(r, S)
    PROVE  OccurrenceDeliveredOnce' /\ NeverTooLate'
<1>1. \A d \in deliveries' \ deliveries :
          d.reminder = r /\ d.occurrence = trigger[r] /\ d.at = now /\ ~Conflict(r)
  BY DEF Rows
<1>2. NeverTooLate'
  BY <1>1, ReminderAssumption DEF NeverTooLate, Late, TypeOKReminders, Time
<1>3. ASSUME NEW d \in deliveries', NEW e \in deliveries',
             d.reminder = e.reminder, d.occurrence = e.occurrence, d.channel = e.channel
      PROVE  d = e
  <2>1. CASE d \in deliveries /\ e \in deliveries
    BY <1>3, <2>1 DEF OccurrenceDeliveredOnce
  <2>2. CASE d \notin deliveries /\ e \notin deliveries
    BY <1>3, <2>2 DEF Rows
  <2>3. CASE (d \in deliveries) # (e \in deliveries)
    BY <1>1, <1>3, <2>3 DEF Conflict
  <2> QED BY <2>1, <2>2, <2>3
<1> QED BY <1>2, <1>3 DEF OccurrenceDeliveredOnce

\* A step that hands nothing over, makes no reminder sent and moves none that
\* is: all of them but those of a send task whose attempt goes ahead.
LEMMA NothingHandedOver ==
    ASSUME ReminderInv, TypeOKReminders', deliveries' = deliveries,
           \A r \in Reminder : state'[r] = "sent" =>
               state[r] = "sent" /\ trigger'[r] = trigger[r]
    PROVE  ReminderInv'
BY DEF ReminderInv, SentOnEveryChannel, OccurrenceDeliveredOnce, NeverTooLate

LEMMA RemindersInductive == ReminderInv /\ [NextReminders]_reminderVars => ReminderInv'
<1> SUFFICES ASSUME ReminderInv, [NextReminders]_reminderVars PROVE ReminderInv'
  OBVIOUS
<1>1. TypeOKReminders /\ TypeOKReminders'
  BY ReminderTyping DEF ReminderInv
<1>2. CASE UNCHANGED reminderVars
  BY <1>1, <1>2, NothingHandedOver DEF reminderVars
<1>3. CASE Tick \/ DispatcherCrash
  BY <1>1, <1>3, NothingHandedOver DEF Tick, DispatcherCrash
<1>4. ASSUME NEW s \in Time \union {NoStart}, Reschedule(s) PROVE ReminderInv'
  BY <1>1, <1>4, NothingHandedOver DEF Reschedule, TypeOKReminders, Moves, Active
<1>5. ASSUME NEW r \in Reminder, NEW at \in Time,
             CreateReminder(r, at) \/ UpdateReminder(r, at)
      PROVE  ReminderInv'
  BY <1>1, <1>5, NothingHandedOver
     DEF CreateReminder, UpdateReminder, TypeOKReminders
<1>6. ASSUME NEW S \in SUBSET Reminder, Dispatch(S) PROVE ReminderInv'
  BY <1>1, <1>6, NothingHandedOver DEF Dispatch, TypeOKReminders
<1>7. ASSUME NEW r \in Reminder,
             \/ CancelReminder(r) \/ Publish(r) \/ SendLost(r)
             \/ SendIgnored(r) \/ SendTooLate(r)
      PROVE  ReminderInv'
  BY <1>1, <1>7, NothingHandedOver
     DEF CancelReminder, Publish, SendLost, SendIgnored, SendTooLate, TypeOKReminders
<1>8. ASSUME NEW r \in Reminder, SendDone(r) PROVE ReminderInv'
  <2>1. OccurrenceDeliveredOnce' /\ NeverTooLate'
    BY <1>1, <1>8, HandedOver DEF SendDone, TooLate, ReminderInv
  <2>2. ASSUME NEW q \in Reminder, state'[q] = "sent", NEW c \in Channel
        PROVE  \E d \in deliveries' :
                   d.reminder = q /\ d.occurrence = trigger'[q] /\ d.channel = c
    <3>1. CASE q = r
      <4> DEFINE d == [reminder |-> r, occurrence |-> trigger[r], channel |-> c, at |-> now]
      <4>1. d \in Rows(r, Channel)
        BY DEF Rows
      <4> QED BY <1>8, <3>1, <4>1 DEF SendDone
    <3>2. CASE q # r
      BY <1>1, <1>8, <2>2, <3>2
         DEF SendDone, TypeOKReminders, ReminderInv, SentOnEveryChannel
    <3> QED BY <3>1, <3>2
  <2> QED BY <1>1, <2>1, <2>2 DEF ReminderInv, SentOnEveryChannel
<1>9. ASSUME NEW r \in Reminder, SendFails(r) PROVE ReminderInv'
  <2>1. OccurrenceDeliveredOnce' /\ NeverTooLate'
    BY <1>1, <1>9, HandedOver DEF SendFails, TooLate, ReminderInv
  <2>2. SentOnEveryChannel'
    BY <1>1, <1>9 DEF SendFails, TypeOKReminders, ReminderInv, SentOnEveryChannel
  <2> QED BY <1>1, <2>1, <2>2 DEF ReminderInv
<1> QED BY <1>2, <1>3, <1>4, <1>5, <1>6, <1>7, <1>8, <1>9
        DEF NextReminders, Send, Reminder

\* However dispatchers, send tasks, edits of the target and failed attempts
\* interleave, no channel gets an occurrence twice or too late, and a reminder
\* that is sent has been handed over to every channel.
THEOREM EachOccurrenceOnce == SpecReminders => []ReminderInv
BY RemindersInitially, RemindersInductive, PTL DEF SpecReminders

\* A cancelled, sent or missed reminder stays so and hands nothing over,
\* whatever send task of it is still queued.
THEOREM EndedStaysSilent == SpecReminders => NothingAfterTheEnd
<1>1. ReminderInv /\ [NextReminders]_reminderVars =>
          [\A r \in Reminder : state[r] \in {"cancelled", "sent", "missed"} =>
              /\ state'[r] = state[r]
              /\ \A d \in deliveries' \ deliveries : d.reminder # r]_reminderVars
  <2> SUFFICES ASSUME TypeOKReminders, NextReminders, NEW e \in Reminder,
                      state[e] \in {"cancelled", "sent", "missed"}
               PROVE  /\ state'[e] = state[e]
                      /\ \A d \in deliveries' \ deliveries : d.reminder # e
    BY DEF ReminderInv
  <2>1. CASE Tick \/ DispatcherCrash
    BY <2>1 DEF Tick, DispatcherCrash
  <2>2. ASSUME NEW s \in Time \union {NoStart}, Reschedule(s)
        PROVE  state'[e] = state[e] /\ deliveries' = deliveries
    BY <2>2 DEF Reschedule, TypeOKReminders, Moves, Active
  <2>3. ASSUME NEW r \in Reminder, NEW at \in Time,
               CreateReminder(r, at) \/ UpdateReminder(r, at)
        PROVE  state'[e] = state[e] /\ deliveries' = deliveries
    BY <2>3 DEF CreateReminder, UpdateReminder, TypeOKReminders
  <2>4. ASSUME NEW S \in SUBSET Reminder, Dispatch(S)
        PROVE  state'[e] = state[e] /\ deliveries' = deliveries
    BY <2>4 DEF Dispatch, TypeOKReminders, Due
  <2>5. ASSUME NEW r \in Reminder,
               \/ CancelReminder(r) \/ Publish(r) \/ SendLost(r)
             \/ SendIgnored(r) \/ SendTooLate(r)
        PROVE  state'[e] = state[e] /\ deliveries' = deliveries
    BY <2>5 DEF CancelReminder, Publish, SendLost, SendIgnored, SendTooLate, Sendable,
               TypeOKReminders, Active
  <2>6. ASSUME NEW r \in Reminder, SendDone(r) \/ SendFails(r)
        PROVE  /\ state'[e] = state[e]
               /\ \A d \in deliveries' \ deliveries : d.reminder # e
    <3>1. r # e
      BY <2>6 DEF SendDone, SendFails, Sendable
    <3>2. \A d \in deliveries' \ deliveries : d.reminder = r
      BY <2>6 DEF SendDone, SendFails, Rows
    <3> QED BY <2>6, <3>1, <3>2 DEF SendDone, SendFails, TypeOKReminders
  <2> QED BY <2>1, <2>2, <2>3, <2>4, <2>5, <2>6 DEF NextReminders, Send, Reminder
<1> QED BY <1>1, EachOccurrenceOnce, PTL DEF SpecReminders, NothingAfterTheEnd

-----------------------------------------------------------------------------
(* Notifications *)

\* DeliveryInv is inductive.  Each limit holds because what may happen again has
\* one to spare: a row that can be taken again was not delivered but by a mishap
\* or to some of its devices, which the bound counts, and the attempts left are
\* enough for each worker that is still to queue the row, because all of these
\* but one have been overtaken, which the bound counts as well.

LEMMA Initially == Init => DeliveryInv
BY NotificationAssumption
   DEF Init, DeliveryInv, TypeOK, Status, Sender, SendersHoldTheirRow, OthersHaveASpare,
       LateRequeuesAreMishaps, Delivered, Takable, OneCopyButForMishaps, AttemptsAreBounded

LEMMA Typing ==
    ASSUME TypeOK, [Next]_vars
    PROVE  TypeOK'
<1> USE NotificationAssumption DEF TypeOK, Status, Sender, Mishap
<1>1. CASE UNCHANGED vars
  BY <1>1 DEF vars
<1>2. ASSUME NEW d \in Delivery,
             \/ Create(d) \/ CreateQueued(d) \/ Cancel(d) \/ PublishOne(d)
             \/ CountdownOver(d) \/ DelayedArrives(d)
      PROVE  TypeOK'
  BY <1>2 DEF Create, CreateQueued, Cancel, PublishOne, CountdownOver, DelayedArrives, Become
<1>3. ASSUME NEW d \in Delivery, Take(d) \/ Drop(d) PROVE TypeOK'
  BY <1>3 DEF Take, Drop, Consume, Become, Step
<1>4. ASSUME NEW d \in Delivery, ProviderAccepts(d) \/ AnswerLost(d) PROVE TypeOK'
  BY <1>4 DEF ProviderAccepts, AnswerLost, Step
<1>5. ASSUME NEW d \in Delivery, ProviderRefuses(d) PROVE TypeOK'
  BY <1>5 DEF ProviderRefuses, Step
<1>6. ASSUME NEW d \in Delivery, MarkSent(d) \/ MarkFailed(d) PROVE TypeOK'
  BY <1>6 DEF MarkSent, MarkFailed, Become, Step
<1>7. ASSUME NEW d \in Delivery, RequeueStep(d) \/ WorkerCrash(d) PROVE TypeOK'
  BY <1>7 DEF RequeueStep, Requeue, RequeueRefused, EndRequeue, WorkerCrash, Become
<1>8. CASE DispatchDue
  BY <1>8 DEF DispatchDue, Queueable, Stale, RetryDue
<1>9. CASE PublisherCrash
  BY <1>9 DEF PublisherCrash
<1> QED BY <1>1, <1>2, <1>3, <1>4, <1>5, <1>6, <1>7, <1>8, <1>9
        DEF Next, DeliveryStep, SendStep

-----------------------------------------------------------------------------
\* What DeliveryInv says of one delivery beyond its types.
Sound(d) ==
    /\ sender[d] # "idle" => status[d] = "sending"
    /\ ~Delivered(d) => copies[d] <= partial[d] + mishaps
    /\ attempts[d] + requeueing[d] <= MaxRetries + 1 + mishaps
    /\ Takable(d) => attempts[d] + requeueing[d] <= MaxRetries + mishaps
    /\ requeueing[d] <= 1 + mishaps
    /\ status[d] \notin {"failed", "cancelled"} => requeueing[d] <= mishaps
    /\ status[d] = "failed" /\ d \in retryable =>
          attempts[d] <= MaxRetries /\ (d \in backoff \/ requeueing[d] <= mishaps)
    /\ copies[d] <= 1 + partial[d] + mishaps

AllSound == \A d \in Delivery : Sound(d)

LEMMA ByDelivery == DeliveryInv <=> TypeOK /\ AllSound
<1> USE DEF AllSound
<1>1. ASSUME DeliveryInv PROVE \A d \in Delivery : Sound(d)
  BY <1>1 DEF DeliveryInv, SendersHoldTheirRow, OthersHaveASpare, LateRequeuesAreMishaps,
              OneCopyButForMishaps, Sound
<1>2. ASSUME TypeOK, \A d \in Delivery : Sound(d) PROVE DeliveryInv
  <2> USE DEF Sound
  <2>1. SendersHoldTheirRow /\ OthersHaveASpare /\ LateRequeuesAreMishaps
    BY <1>2 DEF SendersHoldTheirRow, OthersHaveASpare, LateRequeuesAreMishaps
  <2>2. OneCopyButForMishaps
    BY <1>2 DEF OneCopyButForMishaps, TypeOK
  <2>3. AttemptsAreBounded
    <3> SUFFICES ASSUME NEW d \in Delivery PROVE attempts[d] <= MaxRetries + 1 + mishaps
      BY DEF AttemptsAreBounded
    <3>1. attempts[d] \in Nat /\ requeueing[d] \in Nat /\ mishaps \in Nat /\ MaxRetries \in Nat
      BY <1>2, NotificationAssumption DEF TypeOK
    <3>2. attempts[d] + requeueing[d] <= MaxRetries + 1 + mishaps
      BY <1>2
    <3> QED BY <3>1, <3>2
  <2> QED BY <1>2, <2>1, <2>2, <2>3 DEF DeliveryInv
<1> QED BY <1>1, <1>2 DEF DeliveryInv

\* A step that leaves the row of a delivery and its workers alone, and undoes no
\* mishap, leaves it sound.
LEMMA Untouched ==
    ASSUME TypeOK, TypeOK', NEW d \in Delivery, Sound(d),
           status'[d] = status[d], sender'[d] = sender[d], requeueing'[d] = requeueing[d],
           attempts'[d] = attempts[d], copies'[d] = copies[d], partial'[d] = partial[d],
           d \in backoff => d \in backoff', d \in retryable' => d \in retryable,
           mishaps <= mishaps'
    PROVE  Sound(d)'
BY NotificationAssumption DEF Sound, TypeOK, Delivered, Takable

LEMMA StepKeepsSound ==
    ASSUME TypeOK, TypeOK', NEW d \in Delivery, Sound(d), NEW e \in Delivery, Sound(e),
           DeliveryStep(d)
    PROVE  Sound(e)'
<1> USE NotificationAssumption
<1>0. MaxRetries \in Nat /\ mishaps \in Nat /\ mishaps' \in Nat
  BY DEF TypeOK
<1>1. CASE e # d
  <2>1. /\ status'[e] = status[e] /\ sender'[e] = sender[e] /\ requeueing'[e] = requeueing[e]
        /\ attempts'[e] = attempts[e] /\ copies'[e] = copies[e] /\ partial'[e] = partial[e]
        /\ e \in backoff => e \in backoff'
        /\ e \in retryable' => e \in retryable
        /\ mishaps <= mishaps'
    <3> USE DEF TypeOK, Become, Step, Mishap
    <3>1. CASE Create(d) \/ CreateQueued(d) \/ Cancel(d) \/ PublishOne(d) \/ DelayedArrives(d)
      BY <1>1, <3>1 DEF Create, CreateQueued, Cancel, PublishOne, DelayedArrives
    <3>2. CASE SendStep(d) \/ AnswerLost(d)
      BY <1>1, <3>2 DEF SendStep, Take, Drop, Consume, ProviderAccepts, ProviderRefuses,
                        AnswerLost, MarkSent, MarkFailed
    <3>3. CASE RequeueStep(d) \/ WorkerCrash(d) \/ CountdownOver(d)
      BY <1>1, <3>3 DEF RequeueStep, Requeue, RequeueRefused, EndRequeue, WorkerCrash,
                        CountdownOver
    <3> QED BY <3>1, <3>2, <3>3 DEF DeliveryStep
  <2> QED BY <2>1, Untouched
<1>2. CASE e = d
  <2>0. /\ attempts[d] \in Nat /\ requeueing[d] \in Nat /\ copies[d] \in Nat /\ partial[d] \in Nat
        /\ status \in [Delivery -> Status] /\ sender \in [Delivery -> Sender]
        /\ attempts \in [Delivery -> Nat] /\ requeueing \in [Delivery -> Nat]
        /\ copies \in [Delivery -> Nat] /\ partial \in [Delivery -> Nat]
    BY DEF TypeOK
  <2> USE <1>0, <2>0 DEF Sound, Delivered, Takable, Become, Step, Mishap
  <2>1. CASE Create(d) \/ CreateQueued(d) \/ Cancel(d) \/ PublishOne(d) \/ DelayedArrives(d)
    BY <1>2, <2>1 DEF Create, CreateQueued, Cancel, PublishOne, DelayedArrives
  <2>2. CASE Take(d)
    BY <1>2, <2>2 DEF Take, Consume
  <2>3. CASE Drop(d)
    BY <1>2, <2>3 DEF Drop, Consume
  <2>4. CASE ProviderAccepts(d)
    BY <1>2, <2>4 DEF ProviderAccepts
  <2>5. CASE ProviderRefuses(d)
    <3>0. 0..(IF d \in WebPush THEN 1 ELSE 0) \subseteq 0..1
      OBVIOUS
    <3>1. PICK some \in 0..1 :
             /\ copies' = [copies EXCEPT ![d] = @ + some]
             /\ partial' = [partial EXCEPT ![d] = @ + some]
      BY <2>5, <3>0 DEF ProviderRefuses
    <3>2. copies'[d] = copies[d] + some /\ partial'[d] = partial[d] + some
      BY <3>1
    <3> QED BY <1>2, <2>5, <3>2 DEF ProviderRefuses
  <2>6. CASE AnswerLost(d)
    BY <1>2, <2>6 DEF AnswerLost
  <2>7. CASE MarkSent(d)
    BY <1>2, <2>7 DEF MarkSent
  <2>8. CASE MarkFailed(d)
    BY <1>2, <2>8 DEF MarkFailed, CanRetry
  <2>9. CASE Requeue(d) \/ RequeueRefused(d)
    BY <1>2, <2>9 DEF Requeue, RequeueRefused, EndRequeue
  <2>10. CASE WorkerCrash(d)
    BY <1>2, <2>10 DEF WorkerCrash, EndRequeue
  <2>11. CASE CountdownOver(d)
    BY <1>2, <2>11 DEF CountdownOver
  <2> QED BY <2>1, <2>2, <2>3, <2>4, <2>5, <2>6, <2>7, <2>8, <2>9, <2>10, <2>11
          DEF DeliveryStep, SendStep, RequeueStep
<1> QED BY <1>1, <1>2

\* The dispatcher takes up rows that can be taken again and that nobody is
\* sending.
LEMMA DispatchKeepsSound ==
    ASSUME TypeOK, TypeOK', DispatchDue, NEW e \in Delivery, Sound(e)
    PROVE  Sound(e)'
<1> USE NotificationAssumption
<1>1. CASE e \in Queueable
  BY <1>1 DEF TypeOK, DispatchDue, Queueable, Stale, RetryDue, Sound, Delivered, Takable
<1>2. CASE e \notin Queueable
  BY <1>2, Untouched DEF TypeOK, DispatchDue
<1> QED BY <1>1, <1>2

LEMMA Inductive == DeliveryInv /\ [Next]_vars => DeliveryInv'
<1> SUFFICES ASSUME DeliveryInv, [Next]_vars PROVE DeliveryInv'
  OBVIOUS
<1>1. TypeOK'
  BY Typing DEF DeliveryInv
<1>2. ASSUME NEW e \in Delivery PROVE Sound(e)'
  <2> USE <1>1, ByDelivery DEF AllSound
  <2>1. CASE UNCHANGED vars
    BY <2>1 DEF vars, Sound, Delivered, Takable
  <2>2. ASSUME NEW d \in Delivery, DeliveryStep(d) PROVE Sound(e)'
    BY <2>2, StepKeepsSound
  <2>3. CASE DispatchDue
    BY <2>3, DispatchKeepsSound
  <2>4. CASE PublisherCrash
    BY <2>4, Untouched DEF PublisherCrash, Mishap, TypeOK
  <2> QED BY <2>1, <2>2, <2>3, <2>4 DEF Next
<1>3. AllSound'
  BY <1>2 DEF AllSound
<1> QED BY <1>1, <1>3, ByDelivery, PTL

\* Duplicate messages, retries, recovered rows, dead workers and workers that
\* are overtaken never make more copies than one and one for each mishap and
\* each attempt that only some of the devices refused, nor more attempts than
\* the limit and one for each mishap.
THEOREM OneCopy == Spec => []DeliveryInv
BY Initially, Inductive, PTL DEF Spec

\* Nothing is sent after cancel_delivery: no worker has a cancelled row in hand,
\* and one that is still to queue it is refused.
THEOREM CancelledStaysSilent == Spec => NothingAfterCancel
<1>1. DeliveryInv /\ [Next]_vars =>
          [\A d \in Delivery : status[d] = "cancelled" =>
              status'[d] = "cancelled" /\ copies'[d] = copies[d]]_vars
  <2> SUFFICES ASSUME DeliveryInv, Next, NEW e \in Delivery, status[e] = "cancelled"
               PROVE  status'[e] = "cancelled" /\ copies'[e] = copies[e]
    OBVIOUS
  <2>1. sender[e] = "idle"
    BY DEF DeliveryInv, TypeOK, Sender, SendersHoldTheirRow
  <2>2. ASSUME NEW d \in Delivery, DeliveryStep(d)
        PROVE  status'[e] = "cancelled" /\ copies'[e] = copies[e]
    BY <2>1, <2>2
       DEF DeliveryInv, TypeOK, DeliveryStep, Create, CreateQueued, Cancel, PublishOne,
           SendStep, Take, Drop, Consume, ProviderAccepts, ProviderRefuses, AnswerLost,
           MarkSent, MarkFailed, RequeueStep, Requeue, RequeueRefused, EndRequeue, Mishap,
           WorkerCrash, CountdownOver, DelayedArrives, Become, Step
  <2>3. CASE DispatchDue
    BY <2>3 DEF DeliveryInv, TypeOK, DispatchDue, Queueable, Stale, RetryDue
  <2>4. CASE PublisherCrash
    BY <2>4 DEF PublisherCrash
  <2> QED BY <2>2, <2>3, <2>4 DEF Next
<1> QED BY <1>1, OneCopy, PTL DEF Spec, NothingAfterCancel
=============================================================================

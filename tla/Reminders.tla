------------------------------ MODULE Reminders ------------------------------
(***************************************************************************)
(* Reminder rows: the reminders a user makes, the ones a planned task or   *)
(* an event keeps at fixed offsets before its start, and the dispatcher    *)
(* and send tasks that hand a due reminder to NotificationDelivery.        *)
(*                                                                         *)
(* The dispatcher commits the change to queued and publishes the send      *)
(* tasks afterwards.  A send task creates one delivery per channel, with a *)
(* deduplication key made of reminder, trigger time and channel, in the    *)
(* transaction that marks the reminder sent; when that fails part of the   *)
(* way the deliveries made so far stay, and Celery retries the task.       *)
(***************************************************************************)
EXTENDS Naturals, FiniteSets

CONSTANTS
    Offset,             \* how long before the start the target reminds
    Custom,             \* reminders users make themselves
    Channel,
    NoStart,            \* the target is cancelled, done or unplanned
    NoTask,             \* no send task for this reminder
    MaxTime,            \* bound: the last instant
    MaxLateness,        \* REMINDER_MAX_LATENESS_SECONDS
    MaxTries,           \* retries of reminders.send
    Batch,              \* reminders one tick of the dispatcher takes
    MaxCrashes          \* bound: dispatchers and workers that die

Time == 0..MaxTime
Reminder == Offset \union Custom

ASSUME ReminderAssumption ==
    /\ Offset \subseteq Nat /\ Offset \intersect Custom = {}
    /\ NoStart \notin Nat /\ NoTask \notin Nat
    /\ MaxTime \in Nat /\ MaxLateness \in Nat /\ MaxTries \in Nat
    /\ Batch \in Nat \ {0} /\ MaxCrashes \in Nat

VARIABLES
    now,
    start,              \* planned_start_at or start_at of the target
    state,              \* Reminder.status
    trigger,            \* Reminder.trigger_at
    unpublished,        \* queued by a committed tick, not yet published
    task,               \* the send task of a reminder: retries so far
    deliveries,         \* NotificationDelivery rows, by their key and time
    crashes

reminderVars == <<now, start, state, trigger, unpublished, task, deliveries, crashes>>

ReminderStatus == {"absent", "pending", "queued", "sent", "failed", "cancelled", "missed"}
Active == {"pending", "queued", "failed"}
Row == [reminder : Reminder, occurrence : Time, channel : Channel, at : Time]

TypeOKReminders ==
    /\ now \in Time
    /\ start \in Time \union {NoStart}
    /\ state \in [Reminder -> ReminderStatus]
    /\ trigger \in [Reminder -> Time]
    /\ unpublished \subseteq Reminder
    /\ task \in [Reminder -> 0..MaxTries \union {NoTask}]
    /\ deliveries \subseteq Row
    /\ crashes \in 0..MaxCrashes

InitReminders ==
    /\ now = 0
    /\ start = NoStart
    /\ state = [r \in Reminder |-> "absent"]
    /\ trigger = [r \in Reminder |-> 0]
    /\ unpublished = {}
    /\ task = [r \in Reminder |-> NoTask]
    /\ deliveries = {}
    /\ crashes = 0

Tick ==
    /\ now < MaxTime
    /\ now' = now + 1
    /\ UNCHANGED <<start, state, trigger, unpublished, task, deliveries, crashes>>

-----------------------------------------------------------------------------
(* The target moves: sync_task_reminders and sync_event_reminders *)

\* Offsets whose reminder would still lie ahead.
Desired(s) == IF s = NoStart THEN {} ELSE {o \in Offset : s > now + o}

Moves(s, r) == r \in Desired(s) /\ state[r] \in Active \union {"absent"}

\* _sync (and _cancel, when there is no start): make what is missing, move
\* what is active, cancel what is active and no longer ahead.  Every edit of
\* the task or event does it, of whatever field, and so does every calendar
\* sync: s may be the start the target has already.
Reschedule(s) ==
    /\ start' = s
    /\ state' = [r \in Reminder |->
            IF Moves(s, r) /\ state[r] = "absent" THEN "pending"
            ELSE IF r \in Offset \ Desired(s) /\ state[r] \in Active
            THEN "cancelled" ELSE state[r]]
    /\ trigger' = [r \in Reminder |->
            IF Moves(s, r) THEN s - r ELSE trigger[r]]
    /\ UNCHANGED <<now, unpublished, task, deliveries, crashes>>

-----------------------------------------------------------------------------
(* Users *)

\* create_reminder, idempotent by its key.
CreateReminder(r, at) ==
    /\ state[r] = "absent" /\ at > now
    /\ state' = [state EXCEPT ![r] = "pending"]
    /\ trigger' = [trigger EXCEPT ![r] = at]
    /\ UNCHANGED <<now, start, unpublished, task, deliveries, crashes>>

\* update_reminder for pending and failed reminders.
UpdateReminder(r, at) ==
    /\ state[r] \in {"pending", "failed"} /\ at > now
    /\ trigger' = [trigger EXCEPT ![r] = at]
    /\ UNCHANGED <<now, start, state, unpublished, task, deliveries, crashes>>

\* cancel_reminder.
CancelReminder(r) ==
    /\ state[r] \in Active
    /\ state' = [state EXCEPT ![r] = "cancelled"]
    /\ UNCHANGED <<now, start, trigger, unpublished, task, deliveries, crashes>>

-----------------------------------------------------------------------------
(* dispatch_due_reminders *)

\* The filter asking for equality of the times.
DueExactly == {r \in Reminder : state[r] = "pending" /\ trigger[r] = now}

Due == {r \in Reminder : state[r] = "pending" /\ trigger[r] <= now}
Late(r) == now > trigger[r] + MaxLateness

\* At most Batch due reminders, in one transaction; as skip_locked passes over
\* rows another transaction holds, they need not be the oldest.
Dispatch(S) ==
    /\ S # {} /\ S \subseteq Due /\ Cardinality(S) <= Batch
    /\ state' = [r \in Reminder |->
            IF r \notin S THEN state[r] ELSE IF Late(r) THEN "missed" ELSE "queued"]
    /\ unpublished' = unpublished \union {r \in S : ~Late(r)}
    /\ UNCHANGED <<now, start, trigger, task, deliveries, crashes>>

Publish(r) ==
    /\ r \in unpublished
    /\ unpublished' = unpublished \ {r}
    /\ task' = [task EXCEPT ![r] = 0]
    /\ UNCHANGED <<now, start, state, trigger, deliveries, crashes>>

\* A dispatcher dies after its commit, or the broker refuses a message: what
\* it had not published stays queued.
DispatcherCrash ==
    /\ crashes < MaxCrashes
    /\ crashes' = crashes + 1
    /\ \E S \in (SUBSET unpublished) \ {{}} : unpublished' = unpublished \ S
    /\ UNCHANGED <<now, start, state, trigger, task, deliveries>>

-----------------------------------------------------------------------------
(* send_reminder: one transaction, deliveries included *)

Rows(r, S) == [reminder : {r}, occurrence : {trigger[r]}, channel : S, at : {now}]

\* Keys that do not tell an occurrence apart from its retry.
ConflictNever(r) == FALSE

\* A delivery with this key exists, made at another time: create_delivery
\* refuses the different scheduled_at.
Conflict(r) == \E d \in deliveries : d.reminder = r /\ d.occurrence = trigger[r]

\* send_reminder without a second look at the status.
SendableUnchecked(r) == task[r] # NoTask

Sendable(r) == task[r] # NoTask /\ state[r] \in {"queued", "failed"}

EndTask(r) == task' = [task EXCEPT ![r] = NoTask]

SendIgnored(r) ==
    /\ task[r] # NoTask /\ ~Sendable(r)
    /\ EndTask(r)
    /\ UNCHANGED <<now, start, state, trigger, unpublished, deliveries, crashes>>

TooLate(r) == Late(r)

SendTooLate(r) ==
    /\ Sendable(r) /\ TooLate(r)
    /\ state' = [state EXCEPT ![r] = "missed"]
    /\ EndTask(r)
    /\ UNCHANGED <<now, start, trigger, unpublished, deliveries, crashes>>

SendDone(r) ==
    /\ Sendable(r) /\ ~TooLate(r) /\ ~Conflict(r)
    /\ state' = [state EXCEPT ![r] = "sent"]
    /\ deliveries' = deliveries \union Rows(r, Channel)
    /\ EndTask(r)
    /\ UNCHANGED <<now, start, trigger, unpublished, crashes>>

\* ReminderDeliveryError: the failure is committed with the deliveries made
\* before it; autoretry_for publishes the task again, max_retries times.
SendFails(r) ==
    /\ Sendable(r) /\ ~TooLate(r)
    /\ state' = [state EXCEPT ![r] = "failed"]
    /\ \E S \in SUBSET Channel :
          /\ S # Channel
          /\ Conflict(r) => S = {}
          /\ deliveries' = deliveries \union Rows(r, S)
    /\ task' = [task EXCEPT ![r] = IF @ < MaxTries THEN @ + 1 ELSE NoTask]
    /\ UNCHANGED <<now, start, trigger, unpublished, crashes>>

\* The message is acked before the task runs: a worker that dies takes it along.
SendLost(r) ==
    /\ task[r] # NoTask
    /\ crashes < MaxCrashes
    /\ crashes' = crashes + 1
    /\ EndTask(r)
    /\ UNCHANGED <<now, start, state, trigger, unpublished, deliveries>>

-----------------------------------------------------------------------------
Send(r) == SendIgnored(r) \/ SendTooLate(r) \/ SendDone(r) \/ SendFails(r)

NextReminders ==
    \/ Tick
    \/ \E s \in Time \union {NoStart} : Reschedule(s)
    \/ \E r \in Custom, at \in Time : CreateReminder(r, at)
    \/ \E r \in Reminder, at \in Time : UpdateReminder(r, at)
    \/ \E S \in SUBSET Reminder : Dispatch(S)
    \/ DispatcherCrash
    \/ \E r \in Reminder : CancelReminder(r) \/ Publish(r) \/ Send(r) \/ SendLost(r)

\* Time passes, beat ticks, workers consume; a task whose attempt can succeed
\* does not fail for ever, as its retries are limited.
FairnessReminders ==
    /\ WF_reminderVars(Tick)
    /\ WF_reminderVars(\E S \in SUBSET Reminder : Dispatch(S))
    /\ \A r \in Reminder : WF_reminderVars(Publish(r)) /\ WF_reminderVars(Send(r))

SpecReminders == InitReminders /\ [][NextReminders]_reminderVars
FairSpecReminders == SpecReminders /\ FairnessReminders

-----------------------------------------------------------------------------
(* Properties *)

\* A reminder that is sent has a delivery for every channel of the occurrence
\* it was sent for, whatever attempts and edits came before.
SentOnEveryChannel ==
    \A r \in Reminder : state[r] = "sent" =>
        \A c \in Channel : \E d \in deliveries :
            d.reminder = r /\ d.occurrence = trigger[r] /\ d.channel = c

\* No channel gets the same occurrence twice, retries included.
OccurrenceDeliveredOnce ==
    \A d, e \in deliveries :
        /\ d.reminder = e.reminder /\ d.occurrence = e.occurrence
        /\ d.channel = e.channel
        => d = e

\* No reminder is handed over later than max_lateness after its time.
NeverTooLate == \A d \in deliveries : d.at <= d.occurrence + MaxLateness

\* Each occurrence is handed over whole, once and in time.
ReminderInv == TypeOKReminders /\ SentOnEveryChannel /\ OccurrenceDeliveredOnce /\ NeverTooLate

\* A cancelled, sent or missed reminder hands nothing over any more, although
\* its send task may still be queued.
NothingAfterTheEnd ==
    [][\A r \in Reminder : state[r] \in {"cancelled", "sent", "missed"} =>
          /\ state'[r] = state[r]
          /\ \A d \in deliveries' \ deliveries : d.reminder # r]_reminderVars

\* A reminder whose time has come does not stay pending: some tick takes it,
\* however late, whoever else holds its row and whatever process dies.
DueReminderIsTaken ==
    \A r \in Reminder :
        state[r] = "pending" /\ trigger[r] <= now ~> state[r] # "pending"

\* A reminder whose time has come ends sent, missed, cancelled or failed.
DueReminderSettles ==
    \A r \in Reminder :
        (r \in Due \/ state[r] = "queued")
            ~> state[r] \notin {"pending", "queued"}

\* No reminder is handed over before its time.
NeverEarly == \A d \in deliveries : d.at >= d.occurrence

\* When the target moves, it keeps its reminders for every offset that still
\* lies ahead of its new start.
TargetKeepsItsReminders ==
    [][start' # start =>
          \A o \in Desired(start') :
              state[o] # "cancelled" =>
                  state'[o] \in Active /\ trigger'[o] = start' - o]_reminderVars

\* A sync that leaves the start where it is takes no due reminder away.
EditKeepsDueReminders ==
    [][\A r \in Due : \A s \in Time :
          Reschedule(s) /\ s = start => state'[r] # "cancelled"]_reminderVars

\* A failed attempt does not keep the retries from succeeding.
RetryCanSucceed ==
    \A r \in Reminder :
        state[r] = "failed" /\ task[r] # NoTask => ~Conflict(r)
=============================================================================

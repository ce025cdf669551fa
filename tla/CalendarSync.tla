---------------------------- MODULE CalendarSync ----------------------------
(***************************************************************************)
(* One Google calendar and its mirror among the user's CalendarEvent rows  *)
(* (integrations.calendar): polling, incremental sync with a cursor that   *)
(* Google may refuse (HTTP 410), the credential and its refresh,           *)
(* disconnecting and connecting again, and the user who edits events that  *)
(* the sync writes too.                                                    *)
(*                                                                         *)
(* Google stamps each change; the stamp of an event stands for its         *)
(* content.  All of Google's events lie in the window of a sync; the user  *)
(* may move a row out of it.                                               *)
(***************************************************************************)
EXTENDS Naturals, FiniteSets

CONSTANTS
    Event,
    Worker,
    NoOne,
    MaxRemote,          \* bound: changes at Google
    MaxWrites,          \* bound: what the user does
    MaxMishaps,         \* bound: failures
    MaxPolls            \* bound: further messages change nothing

ASSUME SyncAssumption ==
    /\ NoOne \notin Worker
    /\ MaxRemote \in Nat \ {0} /\ MaxPolls \in Nat \ {0}
    /\ MaxWrites \in Nat /\ MaxMishaps \in Nat

VARIABLES
    remote,             \* Google's events
    clock,              \* Google's last stamp, the newest cursor
    oldest,             \* cursors before it have expired
    local,              \* CalendarEvent rows
    seen,               \* the rows as the user's client last loaded them
    cursor,             \* CalendarSyncConnection.sync_cursor, 0 for none
    enabled, status,    \* of the connection
    row,                \* who holds the connection's row
    credential,         \* whether there is a CalendarOAuthCredential
    polls,              \* messages on their way
    job,                \* what each worker is doing
    writes, mishaps,
    reconnected         \* history: the calendar has been disconnected

google == <<remote, clock, oldest>>
connection == <<cursor, enabled, status>>
vars == <<google, local, seen, connection, row, credential, polls, job,
          writes, mishaps, reconnected>>

NoEvent == [state |-> "none", stamp |-> 0, by |-> "google", place |-> "inside", version |-> 0]
NoPage == [live |-> {}, gone |-> {}, stamps |-> [e \in Event |-> 0],
           next |-> 0, reset |-> FALSE]
Idle == [at |-> "rest", page |-> NoPage]

Stamp == 0..MaxRemote
\* Of a row that the user wrote, the stamp is the cursor at that time.
Row == [state : {"none", "live", "cancelled"}, stamp : Stamp,
        by : {"google", "user"}, place : {"inside", "outside"}, version : Nat]
Page == [live : SUBSET Event, gone : SUBSET Event, stamps : [Event -> Stamp],
         next : Stamp, reset : BOOLEAN]

TypeOK ==
    /\ remote \in [Event -> [state : {"none", "live", "gone", "forgotten"}, stamp : Stamp]]
    /\ clock \in Stamp \ {0} /\ oldest \in 0..clock /\ cursor \in 0..clock
    /\ local \in [Event -> Row] /\ seen \in [Event -> Row]
    /\ enabled \in BOOLEAN /\ credential \in BOOLEAN /\ reconnected \in BOOLEAN
    /\ status \in {"ready", "error", "disabled"}
    /\ row \in Worker \union {NoOne}
    /\ polls \in 0..MaxPolls
    /\ job \in [Worker -> [at : {"rest", "refresh", "fetch", "apply", "record", "connect"},
                           page : Page]]
    /\ \A w \in Worker : row = w <=> job[w].at = "apply"
    /\ writes \in 0..MaxWrites /\ mishaps \in 0..MaxMishaps

Init ==
    /\ remote = [e \in Event |-> [state |-> "none", stamp |-> 0]]
    /\ clock = 1 /\ oldest = 1
    /\ local = [e \in Event |-> NoEvent]
    /\ seen = local
    /\ cursor = 0 /\ enabled = TRUE /\ status = "ready"
    /\ row = NoOne
    /\ credential = TRUE
    /\ polls = 0
    /\ job = [w \in Worker |-> Idle]
    /\ writes = 0 /\ mishaps = 0
    /\ reconnected = FALSE

Write == writes < MaxWrites /\ writes' = writes + 1
Mishap == mishaps < MaxMishaps /\ mishaps' = mishaps + 1
Step(w, at) == job' = [job EXCEPT ![w] = [Idle EXCEPT !.at = at]]
Send == polls' = IF polls < MaxPolls THEN polls + 1 ELSE polls

-----------------------------------------------------------------------------
(* Google *)

\* An event is made, changed or deleted.
ChangeRemote(e, state) ==
    /\ clock < MaxRemote
    /\ state = "gone" => remote[e].state = "live"
    /\ clock' = clock + 1
    /\ remote' = [remote EXCEPT ![e] = [state |-> state, stamp |-> clock + 1]]
    /\ UNCHANGED <<oldest, local, seen, connection, row, credential, polls, job, writes,
                   mishaps, reconnected>>

\* Google forgets what was deleted, and the cursors that would need it.
ForgetDeleted ==
    /\ oldest < clock
    /\ oldest' = clock
    /\ remote' = [e \in Event |-> IF remote[e].state = "gone"
                                  THEN [remote[e] EXCEPT !.state = "forgotten"]
                                  ELSE remote[e]]
    /\ UNCHANGED <<clock, local, seen, connection, row, credential, polls, job, writes,
                   mishaps, reconnected>>

Changed(state, since) == {e \in Event : remote[e].state = state /\ remote[e].stamp > since}

Stamps == [e \in Event |-> remote[e].stamp]

\* list_events that takes an expired cursor for one with no news.
PageUnlessExpired(since) ==
    IF since # 0 /\ since < oldest THEN [NoPage EXCEPT !.next = since]
    ELSE [live |-> Changed("live", since), gone |-> Changed("gone", since),
          stamps |-> Stamps, next |-> clock, reset |-> FALSE]

\* GoogleCalendarProvider.list_events: what changed since the cursor, or, when
\* that has expired, everything.
PageSince(since) ==
    LET expired == since # 0 /\ since < oldest
        from == IF expired THEN 0 ELSE since
    IN [live |-> Changed("live", from), gone |-> Changed("gone", from),
        stamps |-> Stamps, next |-> clock, reset |-> expired]

-----------------------------------------------------------------------------
(* Polling, and the credential *)

\* dispatch_calendar_polls and CalendarSyncRunView; nothing is claimed.
Poll ==
    /\ enabled
    /\ Send
    /\ UNCHANGED <<google, local, seen, connection, row, credential, job, writes, mishaps,
                   reconnected>>

\* access_token_for_connection, before the connection's row is locked: the
\* token is good, or has to be refreshed.
Start(w) ==
    /\ job[w].at = "rest" /\ polls > 0
    /\ polls' = polls - 1
    /\ IF credential THEN Step(w, "fetch") \/ Step(w, "refresh") ELSE job' = job
    /\ UNCHANGED <<google, local, seen, connection, row, credential, writes, mishaps,
                   reconnected>>

\* save_google_tokens: without a credential there is one again if Google sent
\* a refresh token along, and an authentication error if not.
Refresh(w) ==
    /\ job[w].at = "refresh"
    /\ \/ credential' = TRUE /\ Step(w, "fetch")
       \/ ~credential /\ credential' = credential /\ Step(w, "rest")
    /\ UNCHANGED <<google, local, seen, connection, row, polls, writes, mishaps, reconnected>>

-----------------------------------------------------------------------------
(* CalendarSyncService.sync *)

\* Fetching with whatever connection was read before.
FetchDisabled(w) ==
    /\ job[w].at = "fetch" /\ row = NoOne
    /\ row' = w
    /\ job' = [job EXCEPT ![w] = [at |-> "apply", page |-> PageSince(cursor)]]
    /\ UNCHANGED <<google, local, seen, connection, credential, polls, writes, mishaps,
                   reconnected>>

\* The connection's row is locked before the page is asked for, with its cursor.
Fetch(w) ==
    /\ job[w].at = "fetch" /\ row = NoOne
    /\ IF enabled
       THEN /\ row' = w
            /\ job' = [job EXCEPT ![w] = [at |-> "apply", page |-> PageSince(cursor)]]
       ELSE row' = row /\ Step(w, "rest")
    /\ UNCHANGED <<google, local, seen, connection, credential, polls, writes, mishaps,
                   reconnected>>

\* What a reset page does not list is cancelled, unless the row is out of the window.
Missing(page) ==
    IF page.reset
    THEN {e \in Event : local[e].state = "live" /\ local[e].place = "inside"} \ page.live
    ELSE {}

\* _upsert_event and _cancel_tombstone: no version is looked at, and what the
\* user made of an event is gone.
Applied(page) ==
    [e \in Event |->
        IF e \in page.live
        THEN [state |-> "live", stamp |-> page.stamps[e], by |-> "google",
              place |-> "inside", version |-> local[e].version + 1]
        ELSE IF e \in page.gone \union Missing(page) /\ local[e].state = "live"
        THEN [local[e] EXCEPT !.state = "cancelled", !.by = "google", !.version = @ + 1]
        ELSE local[e]]

\* Events, cursor and status are committed together.
Apply(w) ==
    /\ job[w].at = "apply"
    /\ local' = Applied(job[w].page)
    /\ cursor' = job[w].page.next /\ status' = "ready"
    /\ row' = NoOne
    /\ Step(w, "rest")
    /\ UNCHANGED <<google, seen, enabled, credential, polls, writes, mishaps, reconnected>>

\* A failure that finds the new cursor saved.
FailLate(w) ==
    /\ job[w].at \in {"refresh", "fetch", "apply"}
    /\ Mishap
    /\ row' = IF row = w THEN NoOne ELSE row
    /\ cursor' = IF job[w].at = "apply" THEN job[w].page.next ELSE cursor
    /\ Step(w, "record")
    /\ UNCHANGED <<google, local, seen, enabled, status, credential, polls, writes,
                   reconnected>>

\* Google fails, between two pages too, or the transaction does: nothing of it
\* is saved.
Fail(w) ==
    /\ job[w].at \in {"refresh", "fetch", "apply"}
    /\ Mishap
    /\ row' = IF row = w THEN NoOne ELSE row
    /\ Step(w, "record")
    /\ UNCHANGED <<google, local, seen, connection, credential, polls, writes, reconnected>>

\* The status is written by itself, whatever became of the connection, and a
\* temporary failure is retried.
Record(w) ==
    /\ job[w].at = "record" /\ row = NoOne
    /\ status' = "error"
    /\ Send \/ polls' = polls
    /\ Step(w, "rest")
    /\ UNCHANGED <<google, local, seen, cursor, enabled, row, credential, writes, mishaps,
                   reconnected>>

\* The worker dies.
Crash(w) ==
    /\ job[w].at # "rest"
    /\ Mishap
    /\ row' = IF row = w THEN NoOne ELSE row
    /\ Step(w, "rest")
    /\ UNCHANGED <<google, local, seen, connection, credential, polls, writes, reconnected>>

-----------------------------------------------------------------------------
(* The user *)

\* disconnect_google_connection
Disconnect ==
    /\ Write
    /\ enabled /\ row = NoOne
    /\ credential' = FALSE
    /\ enabled' = FALSE /\ status' = "disabled" /\ cursor' = 0
    /\ reconnected' = TRUE
    /\ UNCHANGED <<google, local, seen, row, polls, job, mishaps>>

\* complete_google: the OAuth state is consumed, the code is exchanged, and then
\* _persist_google_connection.
BeginConnect(w) ==
    /\ Write
    /\ job[w].at = "rest"
    /\ Step(w, "connect")
    /\ UNCHANGED <<google, local, seen, connection, row, credential, polls, mishaps,
                   reconnected>>

EndConnect(w) ==
    /\ job[w].at = "connect" /\ row = NoOne
    /\ credential' = TRUE
    /\ enabled' = TRUE /\ status' = "ready"
    /\ Step(w, "rest")
    /\ UNCHANGED <<google, local, seen, cursor, row, polls, writes, mishaps, reconnected>>

Look ==
    /\ seen # local
    /\ seen' = local
    /\ UNCHANGED <<google, local, connection, row, credential, polls, job, writes, mishaps,
                   reconnected>>

\* update_event and cancel_event, with the version the client has seen.  An
\* update may bring a cancelled event back.
Edit(e, state, place) ==
    /\ Write
    /\ local[e].state # "none" /\ local[e].version = seen[e].version
    /\ local' = [local EXCEPT ![e] = [state |-> state, stamp |-> cursor, by |-> "user",
                                      place |-> place, version |-> @.version + 1]]
    /\ UNCHANGED <<google, seen, connection, row, credential, polls, job, mishaps, reconnected>>

-----------------------------------------------------------------------------
Work(w) ==
    Start(w) \/ Refresh(w) \/ Fetch(w) \/ Apply(w) \/ Record(w) \/ EndConnect(w)

Next ==
    \/ \E e \in Event, state \in {"live", "gone"} : ChangeRemote(e, state)
    \/ ForgetDeleted
    \/ Poll
    \/ \E w \in Worker : Work(w) \/ Fail(w) \/ Crash(w) \/ BeginConnect(w)
    \/ Disconnect \/ Look
    \/ \E e \in Event, state \in {"live", "cancelled"}, place \in {"inside", "outside"} :
          Edit(e, state, place)

Spec == Init /\ [][Next]_vars

\* Beat polls every connection that is due, Celery delivers, and a worker that
\* has not died goes on; the row is free again and again.
FairSpec == Spec /\ WF_vars(Poll) /\ \A w \in Worker : SF_vars(Work(w))

-----------------------------------------------------------------------------
(* Properties *)

\* The user has made the row so when Google's change was in the calendar already.
MadeSince(e, r) == r.by = "user" /\ remote[e].stamp <= r.stamp

\* A row of the calendar is as Google has it, or as the user has made it since.
\* A deletion that Google has forgotten stays unknown of a row the user has moved
\* out of the window, and after the calendar has been disconnected.
MirrorsAs(e, r) ==
    \/ MadeSince(e, r)
    \/ remote[e].state = "live" /\ r.state = "live" /\ r.stamp = remote[e].stamp
    \/ remote[e].state # "live" /\ r.state # "live"
    \/ remote[e].state = "forgotten" /\ (r.place = "outside" \/ reconnected)

Mirrors(e) == MirrorsAs(e, local[e])

\* The last change of the event is one that a cursor stands for.
ChangedBefore(e, c) ==
    remote[e].stamp <= c /\ (remote[e].state = "forgotten" => oldest <= c)

\* The cursor never runs ahead of the events: what Google had changed by then is
\* in the calendar, through failed pages, dead workers, overlapping polls and
\* expired cursors.
NothingMissedBeforeCursor == \A e \in Event : ChangedBefore(e, cursor) => Mirrors(e)

\* Google's stamps, as tokens are made of them.
StampsAreInOrder ==
    \A e \in Event : /\ remote[e].stamp \in 0..clock
                     /\ remote[e].state = "none" <=> remote[e].stamp = 0
                     /\ remote[e].state = "forgotten" => remote[e].stamp <= oldest

\* A calendar that was never synchronised is empty.
FirstSyncFindsNothing ==
    cursor = 0 /\ ~reconnected => \A e \in Event : local[e].state = "none"

\* What Google had changed by the page's token is in the page, or older than the
\* cursor, or was forgotten by then.
Accounts(page, e) ==
    \/ e \in page.live /\ remote[e].state = "live" /\ remote[e].stamp = page.stamps[e]
    \/ e \in page.gone \ page.live /\ remote[e].state # "live"
    \/ /\ e \notin page.live \union page.gone
       /\ \/ remote[e].stamp <= cursor /\ (page.reset => remote[e].state # "live")
          \/ remote[e].state = "forgotten" /\ (page.reset \/ cursor = 0)

\* A page that waits to be applied is of the connection as it is, and would
\* bring the calendar to its token, whatever the user does meanwhile.
PagesAreGood ==
    \A w \in Worker : job[w].at = "apply" =>
        /\ enabled
        /\ job[w].page.next \in cursor..clock /\ job[w].page.next # 0
        /\ \A e \in Event :
              ChangedBefore(e, job[w].page.next) =>
                  Accounts(job[w].page, e) /\ MirrorsAs(e, Applied(job[w].page)[e])

\* A row changes with its version.
VersionsTell ==
    \A e \in Event : /\ seen[e].version <= local[e].version
                     /\ seen[e].version = local[e].version => seen[e] = local[e]

\* Overlapping polls never take the calendar back to an older page.
CursorMovesForward == [][cursor' >= cursor \/ ~enabled']_vars

\* Nothing of Google's is written once the user has disconnected, whatever was
\* on its way and whatever became of the credential.
NoSyncAfterDisconnect ==
    [][~enabled => \A e \in Event : local'[e] # local[e] => local'[e].by = "user"]_vars

\* The sync looks at no version, but the user's edit does: an edit never takes
\* back a change of Google's that the user has not seen.
EditsWhatWasSeen ==
    [][\A e \in Event : local'[e] # local[e] /\ local'[e].by = "user" => local[e] = seen[e]]_vars

\* The cursor stands for what has been applied, and what is about to be applied
\* for the token it brings.
CalendarInv ==
    /\ TypeOK
    /\ StampsAreInOrder /\ FirstSyncFindsNothing /\ VersionsTell
    /\ PagesAreGood /\ NothingMissedBeforeCursor

\* Who acts on what was read earlier, a page, a connection or an event, is
\* refused when it has changed.
OldReadsAreRefused == CursorMovesForward /\ NoSyncAfterDisconnect /\ EditsWhatWasSeen

\* As long as the calendar is connected it comes to be as Google has it.
CalendarCatchesUp == <>[](enabled => \A e \in Event : Mirrors(e))
=============================================================================

------------------------- MODULE CalendarSync_proofs -------------------------
(***************************************************************************)
(* The cursor of a calendar passes no change that is not applied, for any  *)
(* events, workers and numbers of changes, writes and mishaps.             *)
(*                                                                         *)
(* The property of the cursor says nothing of pages that were fetched and  *)
(* not yet applied.  CalendarInv adds that such a page would bring the     *)
(* calendar to its token, and that it accounts for every change up to that *)
(* token (PagesAreGood).  When the page is made this follows from the      *)
(* cursor it was asked for, which no other worker can move while the row   *)
(* is held.  What Google changes later has a newer stamp.  What the user   *)
(* changes meanwhile the page either overwrites, or it is made on top of   *)
(* the change, which the cursor stands for.                                *)
(***************************************************************************)
EXTENDS CalendarSync, TLAPS

-----------------------------------------------------------------------------
\* The bounds are kept.
LEMMA Budgets ==
    ASSUME TypeOK
    PROVE  /\ Write => writes' \in 0..MaxWrites
           /\ Mishap => mishaps' \in 0..MaxMishaps
           /\ Send => polls' \in 0..MaxPolls
<1>1. Write => writes' \in 0..MaxWrites
  BY SyncAssumption DEF TypeOK, Write
<1>2. Mishap => mishaps' \in 0..MaxMishaps
  BY SyncAssumption DEF TypeOK, Mishap
<1>3. Send => polls' \in 0..MaxPolls
  BY SyncAssumption DEF TypeOK, Send
<1> QED BY <1>1, <1>2, <1>3

Places == {"rest", "refresh", "fetch", "apply", "record", "connect"}
Jobs == [Worker -> [at : Places, page : Page]]

\* A worker goes on without a page.
LEMMA Stepping ==
    ASSUME TypeOK, NEW w \in Worker, NEW at \in Places, Step(w, at)
    PROVE  /\ job' \in Jobs
           /\ job'[w].at = at
           /\ \A v \in Worker \ {w} : job'[v] = job[v]
<1> DEFINE j == [Idle EXCEPT !.at = at]
<1>1. NoPage \in Page
  <2>1. 0 \in Stamp
    BY SyncAssumption DEF Stamp
  <2> QED BY <2>1 DEF NoPage, Page
<1>2. j \in [at : Places, page : Page] /\ j.at = at
  BY <1>1 DEF Idle
<1>3. job' = [job EXCEPT ![w] = j]
  BY DEF Step
<1> HIDE DEF j
<1>4. job \in Jobs
  BY DEF TypeOK, Jobs, Places
<1> QED BY <1>2, <1>3, <1>4 DEF Jobs

\* What changes neither Google's events nor the calendar keeps what is known of
\* them, as long as pages are left alone or dropped.
LEMMA Elsewhere ==
    ASSUME CalendarInv, TypeOK',
           UNCHANGED <<google, local, seen, cursor, reconnected>>,
           enabled => enabled',
           \A w \in Worker : job'[w].at = "apply" => job'[w] = job[w]
    PROVE  CalendarInv'
<1>1. UNCHANGED <<remote, clock, oldest>>
  BY DEF google
<1>2. StampsAreInOrder'
  BY <1>1 DEF CalendarInv, StampsAreInOrder
<1>3. FirstSyncFindsNothing'
  BY DEF CalendarInv, FirstSyncFindsNothing
<1>4. VersionsTell'
  BY DEF CalendarInv, VersionsTell
<1>5. PagesAreGood'
  BY <1>1 DEF CalendarInv, PagesAreGood, ChangedBefore, MirrorsAs, MadeSince, Accounts,
              Applied, Missing
<1>6. NothingMissedBeforeCursor'
  BY <1>1 DEF CalendarInv, NothingMissedBeforeCursor, ChangedBefore, Mirrors, MirrorsAs, MadeSince
<1> QED BY <1>2, <1>3, <1>4, <1>5, <1>6 DEF CalendarInv

-----------------------------------------------------------------------------
(* Steps that touch neither events nor cursor *)

LEMMA PollKeeps ==
    ASSUME CalendarInv, Poll
    PROVE  CalendarInv'
<1> USE SyncAssumption DEF CalendarInv
<1>1. TypeOK'
  BY Budgets DEF TypeOK, connection, google, Jobs, Places, Poll
<1>2. /\ UNCHANGED <<google, local, seen, cursor, reconnected>> /\ (enabled => enabled')
      /\ \A v \in Worker : job'[v].at = "apply" => job'[v] = job[v]
  BY Budgets DEF TypeOK, connection, Jobs, Places, Poll
<1> QED BY <1>1, <1>2, Elsewhere

LEMMA StartKeeps ==
    ASSUME CalendarInv, NEW w \in Worker, Start(w)
    PROVE  CalendarInv'
<1> USE SyncAssumption DEF CalendarInv
<1>1. TypeOK'
  BY Budgets, Stepping DEF TypeOK, connection, google, Jobs, Places, Start
<1>2. /\ UNCHANGED <<google, local, seen, cursor, reconnected>> /\ (enabled => enabled')
      /\ \A v \in Worker : job'[v].at = "apply" => job'[v] = job[v]
  BY Budgets, Stepping DEF TypeOK, connection, Jobs, Places, Start
<1> QED BY <1>1, <1>2, Elsewhere

LEMMA RefreshKeeps ==
    ASSUME CalendarInv, NEW w \in Worker, Refresh(w)
    PROVE  CalendarInv'
<1> USE SyncAssumption DEF CalendarInv
<1>1. TypeOK'
  BY Budgets, Stepping DEF TypeOK, connection, google, Jobs, Places, Refresh
<1>2. /\ UNCHANGED <<google, local, seen, cursor, reconnected>> /\ (enabled => enabled')
      /\ \A v \in Worker : job'[v].at = "apply" => job'[v] = job[v]
  BY Budgets, Stepping DEF TypeOK, connection, Jobs, Places, Refresh
<1> QED BY <1>1, <1>2, Elsewhere

LEMMA FailKeeps ==
    ASSUME CalendarInv, NEW w \in Worker, Fail(w)
    PROVE  CalendarInv'
<1> USE SyncAssumption DEF CalendarInv
<1>1. TypeOK'
  BY Budgets, Stepping DEF TypeOK, connection, google, Jobs, Places, Fail
<1>2. /\ UNCHANGED <<google, local, seen, cursor, reconnected>> /\ (enabled => enabled')
      /\ \A v \in Worker : job'[v].at = "apply" => job'[v] = job[v]
  BY Budgets, Stepping DEF TypeOK, connection, Jobs, Places, Fail
<1> QED BY <1>1, <1>2, Elsewhere

LEMMA RecordKeeps ==
    ASSUME CalendarInv, NEW w \in Worker, Record(w)
    PROVE  CalendarInv'
<1> USE SyncAssumption DEF CalendarInv
<1>1. TypeOK'
  BY Budgets, Stepping DEF TypeOK, connection, google, Jobs, Places, Record
<1>2. /\ UNCHANGED <<google, local, seen, cursor, reconnected>> /\ (enabled => enabled')
      /\ \A v \in Worker : job'[v].at = "apply" => job'[v] = job[v]
  BY Budgets, Stepping DEF TypeOK, connection, Jobs, Places, Record
<1> QED BY <1>1, <1>2, Elsewhere

LEMMA CrashKeeps ==
    ASSUME CalendarInv, NEW w \in Worker, Crash(w)
    PROVE  CalendarInv'
<1> USE SyncAssumption DEF CalendarInv
<1>1. TypeOK'
  BY Budgets, Stepping DEF TypeOK, connection, google, Jobs, Places, Crash
<1>2. /\ UNCHANGED <<google, local, seen, cursor, reconnected>> /\ (enabled => enabled')
      /\ \A v \in Worker : job'[v].at = "apply" => job'[v] = job[v]
  BY Budgets, Stepping DEF TypeOK, connection, Jobs, Places, Crash
<1> QED BY <1>1, <1>2, Elsewhere

LEMMA BeginConnectKeeps ==
    ASSUME CalendarInv, NEW w \in Worker, BeginConnect(w)
    PROVE  CalendarInv'
<1> USE SyncAssumption DEF CalendarInv
<1>1. TypeOK'
  BY Budgets, Stepping DEF TypeOK, connection, google, Jobs, Places, BeginConnect
<1>2. /\ UNCHANGED <<google, local, seen, cursor, reconnected>> /\ (enabled => enabled')
      /\ \A v \in Worker : job'[v].at = "apply" => job'[v] = job[v]
  BY Budgets, Stepping DEF TypeOK, connection, Jobs, Places, BeginConnect
<1> QED BY <1>1, <1>2, Elsewhere

LEMMA EndConnectKeeps ==
    ASSUME CalendarInv, NEW w \in Worker, EndConnect(w)
    PROVE  CalendarInv'
<1> USE SyncAssumption DEF CalendarInv
<1>1. TypeOK'
  BY Budgets, Stepping DEF TypeOK, connection, google, Jobs, Places, EndConnect
<1>2. /\ UNCHANGED <<google, local, seen, cursor, reconnected>> /\ (enabled => enabled')
      /\ \A v \in Worker : job'[v].at = "apply" => job'[v] = job[v]
  BY Budgets, Stepping DEF TypeOK, connection, Jobs, Places, EndConnect
<1> QED BY <1>1, <1>2, Elsewhere

-----------------------------------------------------------------------------
(* Google *)

LEMMA ChangeRemoteKeeps ==
    ASSUME CalendarInv, NEW e \in Event, NEW state \in {"live", "gone"},
           ChangeRemote(e, state)
    PROVE  CalendarInv'
<1> USE SyncAssumption DEF CalendarInv
<1> DEFINE new == [state |-> state, stamp |-> clock + 1]
<1>1. /\ remote' = [remote EXCEPT ![e] = new] /\ clock' = clock + 1 /\ clock < MaxRemote
      /\ UNCHANGED <<oldest, local, seen, cursor, enabled, status, row, credential, polls,
                     job, writes, mishaps, reconnected>>
  BY DEF ChangeRemote, connection
<1>2. new \in [state : {"none", "live", "gone", "forgotten"}, stamp : Stamp]
  BY <1>1 DEF TypeOK, Stamp
<1>3. new.state \in {"live", "gone"} /\ new.stamp = clock + 1
  OBVIOUS
<1> HIDE DEF new
<1>4. TypeOK'
  BY <1>1, <1>2 DEF TypeOK, Stamp
<1>5. /\ remote'[e] = new
      /\ \A f \in Event \ {e} : remote'[f] = remote[f]
  BY <1>1 DEF TypeOK
<1>6. clock \in Nat /\ oldest \in 0..clock /\ cursor \in 0..clock
  BY DEF TypeOK, Stamp
<1>7. StampsAreInOrder'
  BY <1>1, <1>3, <1>5, <1>6 DEF StampsAreInOrder
<1>8. FirstSyncFindsNothing' /\ VersionsTell'
  BY <1>1 DEF FirstSyncFindsNothing, VersionsTell
<1>9. PagesAreGood'
  BY <1>1, <1>3, <1>5, <1>6
     DEF PagesAreGood, ChangedBefore, MirrorsAs, MadeSince, Accounts, Applied, Missing
<1>10. NothingMissedBeforeCursor'
  BY <1>1, <1>3, <1>5, <1>6
     DEF NothingMissedBeforeCursor, ChangedBefore, Mirrors, MirrorsAs, MadeSince
<1> QED BY <1>4, <1>7, <1>8, <1>9, <1>10

\* A cursor that stands for a forgotten deletion stood for it before.
LEMMA ForgetDeletedKeeps ==
    ASSUME CalendarInv, ForgetDeleted
    PROVE  CalendarInv'
<1> USE SyncAssumption DEF CalendarInv
<1>1. /\ oldest' = clock
      /\ UNCHANGED <<clock, local, seen, cursor, enabled, status, row, credential, polls,
                     job, writes, mishaps, reconnected>>
  BY DEF ForgetDeleted, connection
<1>2. TypeOK'
  <2>1. remote' \in [Event -> [state : {"none", "live", "gone", "forgotten"}, stamp : Stamp]]
    BY DEF TypeOK, ForgetDeleted
  <2> QED BY <1>1, <2>1 DEF TypeOK, Stamp
<1>3. \A e \in Event : /\ remote'[e].stamp = remote[e].stamp
                       /\ remote'[e].state = IF remote[e].state = "gone" THEN "forgotten"
                                             ELSE remote[e].state
  BY DEF TypeOK, ForgetDeleted
<1>4. clock \in Nat /\ oldest \in 0..clock /\ cursor \in 0..clock
  BY DEF TypeOK, Stamp
<1>5. StampsAreInOrder'
  BY <1>1, <1>3, <1>4 DEF StampsAreInOrder
<1>6. FirstSyncFindsNothing' /\ VersionsTell'
  BY <1>1 DEF FirstSyncFindsNothing, VersionsTell
<1>7. \A e \in Event : \A c \in 0..clock : ChangedBefore(e, c)' => ChangedBefore(e, c)
  BY <1>1, <1>3, <1>4 DEF ChangedBefore
<1>8. PagesAreGood'
  <2>1. SUFFICES ASSUME NEW w \in Worker, job[w].at = "apply", NEW e \in Event,
                        ChangedBefore(e, job[w].page.next)'
                 PROVE  (Accounts(job[w].page, e) /\ MirrorsAs(e, Applied(job[w].page)[e]))'
    BY <1>1 DEF PagesAreGood
  <2>2. Accounts(job[w].page, e) /\ MirrorsAs(e, Applied(job[w].page)[e])
    BY <1>1, <1>4, <1>7, <2>1 DEF PagesAreGood
  <2>3. Applied(job[w].page)'[e] = Applied(job[w].page)[e]
    BY <1>1 DEF Applied, Missing
  <2>4. MirrorsAs(e, Applied(job[w].page)[e])'
    BY <1>1, <1>3, <2>2, <2>3 DEF MirrorsAs, MadeSince
  <2>5. Accounts(job[w].page, e)'
    BY <1>1, <1>3, <2>2 DEF Accounts
  <2> QED BY <2>4, <2>5
<1>9. NothingMissedBeforeCursor'
  BY <1>1, <1>3, <1>4, <1>7 DEF NothingMissedBeforeCursor, Mirrors, MirrorsAs, MadeSince
<1> QED BY <1>2, <1>5, <1>6, <1>8, <1>9

-----------------------------------------------------------------------------
(* The page *)

\* A page that is asked for now brings the calendar to its token.
LEMMA PageIsGood ==
    ASSUME CalendarInv
    PROVE  /\ PageSince(cursor) \in Page
           /\ PageSince(cursor).next = clock
           /\ \A e \in Event : ChangedBefore(e, clock)
                               => /\ Accounts(PageSince(cursor), e)
                                  /\ MirrorsAs(e, Applied(PageSince(cursor))[e])
<1> USE SyncAssumption DEF CalendarInv
<1> DEFINE expired == cursor # 0 /\ cursor < oldest
           from == IF expired THEN 0 ELSE cursor
           page == PageSince(cursor)
<1>1. /\ page.live = Changed("live", from) /\ page.gone = Changed("gone", from)
      /\ page.stamps = Stamps /\ page.next = clock /\ page.reset = expired
  BY DEF PageSince
<1>2. page \in Page
  <2>1. Changed("live", from) \subseteq Event /\ Changed("gone", from) \subseteq Event
    BY DEF Changed
  <2>2. Stamps \in [Event -> Stamp] /\ clock \in Stamp /\ expired \in BOOLEAN
    BY DEF Stamps, TypeOK
  <2> QED BY <2>1, <2>2 DEF PageSince, Page
<1>3. clock \in Nat /\ oldest \in 0..clock /\ cursor \in 0..clock /\ from \in {0, cursor}
  BY DEF TypeOK, Stamp
<1> HIDE DEF page
<1>4. ASSUME NEW e \in Event, ChangedBefore(e, clock)
      PROVE  Accounts(page, e) /\ MirrorsAs(e, Applied(page)[e])
  <2>1. /\ remote[e].stamp \in 0..clock
        /\ remote[e].state = "none" <=> remote[e].stamp = 0
        /\ remote[e].state \in {"none", "live", "gone", "forgotten"}
        /\ local[e].state \in {"none", "live", "cancelled"}
    BY DEF StampsAreInOrder, TypeOK, Row
  <2>2. ASSUME remote[e].state = "live"
        PROVE  MirrorsAs(e, Applied(page)[e])
    <3>1. CASE e \in page.live
      <4>1. Applied(page)[e] = [state |-> "live", stamp |-> remote[e].stamp,
                                by |-> "google", place |-> "inside",
                                version |-> local[e].version + 1]
        BY <1>1, <3>1 DEF Applied, Stamps
      <4> QED BY <2>2, <4>1 DEF MirrorsAs
    <3>2. CASE e \notin page.live
      <4>1. ~expired /\ remote[e].stamp <= cursor
        BY <1>1, <1>3, <2>1, <2>2, <3>2 DEF Changed
      <4>2. Applied(page)[e] = local[e]
        BY <1>1, <2>2, <3>2, <4>1 DEF Applied, Missing, Changed
      <4>3. ChangedBefore(e, cursor)
        BY <2>2, <4>1 DEF ChangedBefore
      <4> QED BY <4>2, <4>3 DEF NothingMissedBeforeCursor, Mirrors
    <3> QED BY <3>1, <3>2
  <2>3. ASSUME remote[e].state # "live"
        PROVE  MirrorsAs(e, Applied(page)[e])
    <3>1. e \notin page.live
      BY <1>1, <2>3 DEF Changed
    <3>2. SUFFICES ASSUME Applied(page)[e].state = "live"
                   PROVE  MirrorsAs(e, Applied(page)[e])
      BY <2>3 DEF MirrorsAs
    <3>3. Applied(page)[e] = local[e] /\ local[e].state = "live"
          /\ e \notin page.gone \union Missing(page)
      <4>1. CASE e \in page.gone \union Missing(page) /\ local[e].state = "live"
        <5>1. Applied(page)[e] = [local[e] EXCEPT !.state = "cancelled", !.by = "google",
                                                  !.version = @ + 1]
          BY <3>1, <4>1 DEF Applied
        <5>2. local[e] \in Row
          BY DEF TypeOK
        <5>3. Applied(page)[e].state = "cancelled"
          BY <5>1, <5>2 DEF Row
        <5> QED BY <3>2, <5>3
      <4>2. CASE ~(e \in page.gone \union Missing(page) /\ local[e].state = "live")
        BY <3>1, <3>2, <4>2 DEF Applied
      <4> QED BY <4>1, <4>2
    <3>4. CASE remote[e].state = "forgotten" /\ local[e].place = "outside"
      BY <3>3, <3>4 DEF MirrorsAs
    <3>5. CASE remote[e].state = "forgotten" /\ ~expired /\ cursor = 0
      BY <3>3, <3>5 DEF FirstSyncFindsNothing, MirrorsAs
    <3>6. CASE remote[e].state = "forgotten" /\ ~expired /\ cursor # 0
      <4>1. ChangedBefore(e, cursor)
        BY <1>3, <2>1, <3>6 DEF ChangedBefore, StampsAreInOrder
      <4> QED BY <3>3, <4>1 DEF NothingMissedBeforeCursor, Mirrors
    <3>7. CASE remote[e].state = "forgotten" /\ expired /\ local[e].place # "outside"
      <4>1. local[e].place = "inside"
        BY <3>7 DEF TypeOK, Row
      <4> QED BY <1>1, <3>1, <3>3, <3>7, <4>1 DEF Missing
    <3>8. CASE remote[e].state \in {"none", "gone"}
      <4>1. remote[e].stamp <= from
        BY <1>1, <1>3, <2>1, <3>3, <3>8 DEF Changed
      <4>2. ChangedBefore(e, cursor)
        BY <1>3, <2>1, <3>8, <4>1 DEF ChangedBefore
      <4> QED BY <3>3, <4>2 DEF NothingMissedBeforeCursor, Mirrors
    <3> QED BY <2>1, <2>3, <3>4, <3>5, <3>6, <3>7, <3>8
  <2>4. Accounts(page, e)
    <3>1. CASE e \in page.live
      BY <1>1, <3>1 DEF Accounts, Changed, Stamps
    <3>2. CASE e \in page.gone \ page.live
      BY <1>1, <3>2 DEF Accounts, Changed
    <3>3. CASE e \notin page.live \union page.gone /\ remote[e].state # "forgotten"
      <4>1. remote[e].stamp <= from
        BY <1>1, <1>3, <2>1, <3>3 DEF Changed
      <4>2. remote[e].stamp <= cursor
        BY <1>3, <2>1, <4>1
      <4>3. expired => remote[e].state # "live"
        BY <2>1, <4>1
      <4> QED BY <1>1, <3>3, <4>2, <4>3 DEF Accounts
    <3>4. CASE e \notin page.live \union page.gone /\ remote[e].state = "forgotten"
      <4>1. expired \/ cursor = 0 \/ remote[e].stamp <= cursor
        BY <1>3, <2>1, <3>4 DEF StampsAreInOrder
      <4> QED BY <1>1, <3>4, <4>1 DEF Accounts
    <3> QED BY <3>1, <3>2, <3>3, <3>4
  <2> QED BY <2>2, <2>3, <2>4
<1> QED BY <1>1, <1>2, <1>4 DEF page

LEMMA FetchKeeps ==
    ASSUME CalendarInv, NEW w \in Worker, Fetch(w)
    PROVE  CalendarInv'
<1> USE SyncAssumption DEF CalendarInv
<1>1. UNCHANGED <<remote, clock, oldest, local, seen, cursor, enabled, status, credential,
                  polls, writes, mishaps, reconnected>>
  BY DEF Fetch, google, connection
<1>2. CASE ~enabled
  <2>1. Step(w, "rest") /\ row' = row /\ job[w].at = "fetch" /\ row = NoOne
    BY <1>2 DEF Fetch
  <2>2. TypeOK'
    BY <1>1, <2>1, Stepping DEF TypeOK, Jobs, Places
  <2>3. \A v \in Worker : job'[v].at = "apply" => job'[v] = job[v]
    BY <2>1, Stepping DEF Places
  <2> QED BY <1>1, <2>2, <2>3, Elsewhere DEF google
<1>3. CASE enabled
  <2> DEFINE j == [at |-> "apply", page |-> PageSince(cursor)]
  <2>1. row = NoOne /\ row' = w /\ job' = [job EXCEPT ![w] = j]
    BY <1>3 DEF Fetch
  <2>2. j \in [at : Places, page : Page] /\ j.at = "apply" /\ j.page = PageSince(cursor)
    BY PageIsGood DEF Places
  <2> HIDE DEF j
  <2>3. TypeOK'
    BY <1>1, <2>1, <2>2 DEF TypeOK, Places
  <2>4. \A v \in Worker : job'[v].at = "apply" => v = w /\ job'[v].page = PageSince(cursor)
    BY <2>1, <2>2 DEF TypeOK
  <2>5. PagesAreGood'
    BY <1>1, <1>3, <2>4, PageIsGood
       DEF PagesAreGood, ChangedBefore, MirrorsAs, MadeSince, Accounts, Applied, Missing,
           TypeOK, Stamp
  <2>6. NothingMissedBeforeCursor'
    BY <1>1 DEF NothingMissedBeforeCursor, ChangedBefore, Mirrors, MirrorsAs, MadeSince
  <2> QED BY <1>1, <2>3, <2>5, <2>6 DEF StampsAreInOrder, FirstSyncFindsNothing, VersionsTell
<1> QED BY <1>2, <1>3

\* What a page makes of a row is a row of a later version, or the row as it is.
LEMMA ApplyingRows ==
    ASSUME TypeOK, NEW p \in Page, NEW e \in Event
    PROVE  /\ Applied(p)[e] \in Row
           /\ \/ Applied(p)[e] = local[e]
              \/ /\ Applied(p)[e].version = local[e].version + 1
                 /\ Applied(p)[e].by = "google"
<1>1. local[e] \in Row /\ p.stamps[e] \in Stamp
  BY DEF TypeOK, Page
<1>2. CASE e \in p.live
  <2>1. Applied(p)[e] = [state |-> "live", stamp |-> p.stamps[e], by |-> "google",
                         place |-> "inside", version |-> local[e].version + 1]
    BY <1>2 DEF Applied
  <2> QED BY <1>1, <2>1 DEF Row
<1>3. CASE e \notin p.live /\ e \in p.gone \union Missing(p) /\ local[e].state = "live"
  <2>1. Applied(p)[e] = [local[e] EXCEPT !.state = "cancelled", !.by = "google",
                                         !.version = @ + 1]
    BY <1>3 DEF Applied
  <2>2. Applied(p)[e] = [state |-> "cancelled", stamp |-> local[e].stamp,
                         by |-> "google", place |-> local[e].place,
                         version |-> local[e].version + 1]
    BY <1>1, <2>1 DEF Row
  <2>3. /\ local[e].version + 1 \in Nat /\ local[e].stamp \in Stamp
        /\ local[e].place \in {"inside", "outside"}
    BY <1>1 DEF Row
  <2> QED BY <2>2, <2>3 DEF Row
<1>4. CASE e \notin p.live /\ ~(e \in p.gone \union Missing(p) /\ local[e].state = "live")
  BY <1>1, <1>4 DEF Applied
<1> QED BY <1>2, <1>3, <1>4

LEMMA ApplyKeeps ==
    ASSUME CalendarInv, NEW w \in Worker, Apply(w)
    PROVE  CalendarInv'
<1> USE SyncAssumption DEF CalendarInv
<1> DEFINE p == job[w].page
<1>1. /\ local' = Applied(p) /\ cursor' = p.next /\ status' = "ready" /\ row' = NoOne
      /\ Step(w, "rest") /\ job[w].at = "apply"
      /\ UNCHANGED <<remote, clock, oldest, seen, enabled, credential, polls, writes, mishaps,
                     reconnected>>
  BY DEF Apply, google
<1>2. p \in Page /\ p.next \in cursor..clock /\ p.next # 0
  BY <1>1 DEF TypeOK, PagesAreGood
<1>3. clock \in Nat /\ cursor \in 0..clock
  BY DEF TypeOK, Stamp
<1>4. \A e \in Event : ChangedBefore(e, p.next) => MirrorsAs(e, Applied(p)[e])
  BY <1>1 DEF PagesAreGood
<1> HIDE DEF p
<1>5. local' \in [Event -> Row]
  <2>1. \A e \in Event : Applied(p)[e] \in Row
    BY <1>2, ApplyingRows
  <2> QED BY <1>1, <2>1 DEF Applied
<1>6. TypeOK'
  <2>1. job' \in Jobs /\ \A v \in Worker : job'[v].at # "apply"
    BY <1>1, Stepping DEF TypeOK, Places
  <2> QED BY <1>1, <1>2, <1>3, <1>5, <2>1 DEF TypeOK, Jobs, Places
<1>7. StampsAreInOrder' /\ FirstSyncFindsNothing'
  BY <1>1, <1>2 DEF StampsAreInOrder, FirstSyncFindsNothing
<1>8. VersionsTell'
  <2>1. \A e \in Event : local[e].version \in Nat /\ seen[e].version \in Nat
    BY DEF TypeOK, Row
  <2> QED BY <1>1, <1>2, <2>1, ApplyingRows DEF VersionsTell
<1>9. PagesAreGood'
  <2>1. \A v \in Worker : job'[v].at # "apply"
    BY <1>1, Stepping DEF TypeOK, Places
  <2> QED BY <2>1 DEF PagesAreGood
<1>10. NothingMissedBeforeCursor'
  BY <1>1, <1>4 DEF NothingMissedBeforeCursor, ChangedBefore, Mirrors, MirrorsAs, MadeSince
<1> QED BY <1>6, <1>7, <1>8, <1>9, <1>10

-----------------------------------------------------------------------------
(* The user *)

LEMMA DisconnectKeeps ==
    ASSUME CalendarInv, Disconnect
    PROVE  CalendarInv'
<1> USE SyncAssumption DEF CalendarInv
<1>1. TypeOK'
  <2>1. /\ cursor' = 0 /\ status' = "disabled" /\ reconnected' = TRUE
        /\ enabled' = FALSE /\ credential' = FALSE /\ Write
        /\ UNCHANGED <<remote, clock, oldest, local, seen, row, polls, job, mishaps>>
    BY DEF Disconnect, google
  <2>2. cursor' \in 0..clock' /\ writes' \in 0..MaxWrites
    BY <2>1, Budgets DEF TypeOK, Stamp
  <2> QED BY <2>1, <2>2 DEF TypeOK
<1>2. StampsAreInOrder' /\ FirstSyncFindsNothing' /\ VersionsTell'
  BY DEF StampsAreInOrder, FirstSyncFindsNothing, VersionsTell, Disconnect, google
<1>3. PagesAreGood'
  BY DEF TypeOK, PagesAreGood, Disconnect, google
<1>4. NothingMissedBeforeCursor'
  BY DEF TypeOK, Stamp, StampsAreInOrder, NothingMissedBeforeCursor, ChangedBefore, Mirrors,
         MirrorsAs, MadeSince, Disconnect, google
<1> QED BY <1>1, <1>2, <1>3, <1>4

LEMMA LookKeeps ==
    ASSUME CalendarInv, Look
    PROVE  CalendarInv'
<1> USE SyncAssumption DEF CalendarInv
<1>1. TypeOK'
  BY DEF TypeOK, Look, google, connection
<1>2. StampsAreInOrder' /\ FirstSyncFindsNothing'
  BY DEF StampsAreInOrder, FirstSyncFindsNothing, Look, google, connection
<1>3. VersionsTell'
  BY DEF TypeOK, Row, VersionsTell, Look, google, connection
<1>4. PagesAreGood'
  BY DEF PagesAreGood, ChangedBefore, MirrorsAs, MadeSince, Accounts, Applied, Missing, Look,
         google, connection
<1>5. NothingMissedBeforeCursor'
  BY DEF NothingMissedBeforeCursor, ChangedBefore, Mirrors, MirrorsAs, MadeSince, Look, google,
         connection
<1> QED BY <1>1, <1>2, <1>3, <1>4, <1>5

\* What the user makes of an event is the user's, made with the cursor as it is,
\* and no page that is on its way is worse for it.
LEMMA EditKeeps ==
    ASSUME CalendarInv, NEW e \in Event, NEW state \in {"live", "cancelled"},
           NEW place \in {"inside", "outside"}, Edit(e, state, place)
    PROVE  CalendarInv'
<1> USE SyncAssumption DEF CalendarInv
<1> DEFINE new == [state |-> state, stamp |-> cursor, by |-> "user", place |-> place,
                   version |-> local[e].version + 1]
<1>1. /\ local' = [local EXCEPT ![e] = new]
      /\ local[e].state # "none" /\ Write
      /\ UNCHANGED <<remote, clock, oldest, seen, cursor, enabled, status, row, credential,
                     polls, job, mishaps, reconnected>>
  BY DEF TypeOK, Edit, google, connection
<1>2. /\ clock \in Stamp /\ clock \in Nat /\ oldest \in 0..clock
      /\ cursor \in 0..clock /\ cursor \in Stamp
  BY DEF TypeOK, Stamp
<1>3. new \in Row /\ new.by = "user" /\ new.version = local[e].version + 1
      /\ new.state \in {"live", "cancelled"} /\ new.stamp = cursor
  BY <1>2 DEF TypeOK, Row
<1> HIDE DEF new
<1>4. TypeOK'
  BY <1>1, <1>3, Budgets DEF TypeOK
<1>5. local'[e] = new /\ \A f \in Event \ {e} : local'[f] = local[f]
  BY <1>1 DEF TypeOK
<1>6. StampsAreInOrder' /\ FirstSyncFindsNothing'
  BY <1>1, <1>5 DEF StampsAreInOrder, FirstSyncFindsNothing
<1>7. VersionsTell'
  <2>1. \A f \in Event : local[f].version \in Nat /\ seen[f].version \in Nat
    BY DEF TypeOK, Row
  <2> QED BY <1>1, <1>3, <1>5, <2>1 DEF VersionsTell
<1>8. ASSUME ChangedBefore(e, cursor)
      PROVE  MirrorsAs(e, new)
  BY <1>3, <1>8 DEF ChangedBefore, MirrorsAs, MadeSince
<1>9. NothingMissedBeforeCursor'
  <2>1. \A f \in Event : ChangedBefore(f, cursor) => MirrorsAs(f, local'[f])
    BY <1>5, <1>8 DEF NothingMissedBeforeCursor, Mirrors
  <2> QED BY <1>1, <2>1
          DEF NothingMissedBeforeCursor, ChangedBefore, Mirrors, MirrorsAs, MadeSince
<1>10. PagesAreGood'
  <2>1. SUFFICES ASSUME NEW w \in Worker, job[w].at = "apply", NEW f \in Event,
                        ChangedBefore(f, job[w].page.next)
                 PROVE  (Accounts(job[w].page, f) /\ MirrorsAs(f, Applied(job[w].page)[f]))'
    BY <1>1 DEF PagesAreGood, ChangedBefore
  <2>2. PICK p \in Page : p = job[w].page
    BY DEF TypeOK
  <2>3. Accounts(p, f) /\ MirrorsAs(f, Applied(p)[f])
    BY <2>1, <2>2 DEF PagesAreGood
  <2>4. MirrorsAs(f, Applied(p)[f])'
    <3>1. CASE f # e
      <4>1. local'[f] = local[f] /\ (f \in Missing(p)' <=> f \in Missing(p))
        BY <1>5, <3>1 DEF Missing
      <4>2. Applied(p)'[f] = Applied(p)[f]
        BY <4>1 DEF Applied
      <4> QED BY <1>1, <2>3, <4>2 DEF MirrorsAs, MadeSince
    <3>2. CASE f = e /\ f \in p.live
      <4>1. /\ Applied(p)'[f].state = "live" /\ Applied(p)[f].state = "live"
            /\ Applied(p)'[f].stamp = p.stamps[f] /\ Applied(p)[f].stamp = p.stamps[f]
            /\ Applied(p)'[f].by = "google" /\ Applied(p)[f].by = "google"
            /\ Applied(p)'[f].place = "inside" /\ Applied(p)[f].place = "inside"
        BY <3>2 DEF Applied
      <4> QED BY <1>1, <2>3, <4>1 DEF MirrorsAs, MadeSince
    <3>3. CASE f = e /\ f \notin p.live /\ Applied(p)'[f] # new
      <4>1. new.state = "live" /\ f \in (p.gone \union Missing(p))'
        BY <1>5, <3>3 DEF Applied
      <4>2. Applied(p)'[f] = [new EXCEPT !.state = "cancelled", !.by = "google",
                                         !.version = @ + 1]
        BY <1>5, <3>3, <4>1 DEF Applied
      <4>3. Applied(p)'[f].state = "cancelled"
        BY <1>3, <4>2 DEF Row
      <4>4. f \in p.gone \/ p.reset
        BY <4>1 DEF Missing
      <4>5. remote[f].state # "live"
        BY <2>3, <3>3, <4>4 DEF Accounts
      <4> QED BY <1>1, <4>3, <4>5 DEF MirrorsAs
    <3>4. CASE f = e /\ f \notin p.live /\ Applied(p)'[f] = new
      <4>1. ASSUME new.state = "live"
            PROVE  f \notin p.gone /\ (p.reset => new.place = "outside")
        <5>1. ASSUME f \in (p.gone \union Missing(p))'
              PROVE  FALSE
          <6>1. Applied(p)'[f] = [new EXCEPT !.state = "cancelled", !.by = "google",
                                             !.version = @ + 1]
            BY <1>5, <3>4, <4>1, <5>1 DEF Applied
          <6>2. Applied(p)'[f].state = "cancelled"
            BY <1>3, <6>1 DEF Row
          <6> QED BY <3>4, <4>1, <6>2
        <5>2. new.place \in {"inside", "outside"}
          BY <1>3 DEF Row
        <5> QED BY <1>5, <3>4, <4>1, <5>1, <5>2 DEF Missing
      <4>2. CASE remote[f].stamp <= cursor
        BY <1>1, <1>3, <3>4, <4>2 DEF MirrorsAs, MadeSince
      <4>3. CASE remote[f].state # "live" /\ new.state # "live"
        BY <1>1, <3>4, <4>3 DEF MirrorsAs
      <4>4. CASE remote[f].state = "forgotten" /\ (p.reset \/ cursor = 0)
                 /\ new.state = "live"
        <5>1. cursor = 0 => reconnected
          BY <1>1, <3>4 DEF FirstSyncFindsNothing
        <5> QED BY <1>1, <3>4, <4>1, <4>4, <5>1 DEF MirrorsAs
      <4> QED BY <1>3, <2>3, <3>4, <4>1, <4>2, <4>3, <4>4 DEF Accounts
    <3> QED BY <3>1, <3>2, <3>3, <3>4
  <2>5. Accounts(p, f)'
    BY <1>1, <2>3 DEF Accounts
  <2> QED BY <1>1, <2>2, <2>4, <2>5
<1> QED BY <1>4, <1>6, <1>7, <1>9, <1>10

-----------------------------------------------------------------------------
LEMMA Invariance ==
    CalendarInv /\ [Next]_vars => CalendarInv'
<1> SUFFICES ASSUME CalendarInv, [Next]_vars PROVE CalendarInv'
  OBVIOUS
<1>1. CASE UNCHANGED vars
  <2>1. TypeOK'
    BY <1>1 DEF CalendarInv, TypeOK, vars, google, connection
  <2> QED BY <1>1, <2>1, Elsewhere DEF vars, connection
<1>2. CASE Next
  BY <1>2, ChangeRemoteKeeps, ForgetDeletedKeeps, PollKeeps, StartKeeps, RefreshKeeps,
     FetchKeeps, ApplyKeeps, RecordKeeps, EndConnectKeeps, FailKeeps, CrashKeeps,
     BeginConnectKeeps, DisconnectKeeps, LookKeeps, EditKeeps DEF Next, Work
<1> QED BY <1>1, <1>2

\* The cursor never runs ahead of what is in the calendar, and a page that waits
\* to be applied keeps it so.
THEOREM CalendarIsMirrored == Spec => []CalendarInv
<1>1. Init => CalendarInv
  <2> SUFFICES ASSUME Init PROVE CalendarInv
    OBVIOUS
  <2>1. 0 \in Stamp /\ 1 \in Stamp \ {0}
    BY SyncAssumption DEF Stamp
  <2>2. NoEvent \in Row /\ NoEvent.state = "none" /\ NoEvent.version = 0 /\ NoPage \in Page
    BY <2>1 DEF NoEvent, Row, NoPage, Page
  <2>3. Idle \in [at : Places, page : Page] /\ Idle.at = "rest"
    BY <2>2 DEF Idle, Places
  <2>4. TypeOK
    <3>1. remote \in [Event -> [state : {"none", "live", "gone", "forgotten"}, stamp : Stamp]]
      BY <2>1 DEF Init
    <3>2. local \in [Event -> Row] /\ seen \in [Event -> Row]
      BY <2>2 DEF Init
    <3>3. job \in [Worker -> [at : Places, page : Page]]
      BY <2>3 DEF Init
    <3>4. \A w \in Worker : row # w /\ job[w].at # "apply"
      BY SyncAssumption, <2>3 DEF Init
    <3>5. /\ clock \in Stamp \ {0} /\ oldest \in 0..clock /\ cursor \in 0..clock
          /\ polls \in 0..MaxPolls /\ writes \in 0..MaxWrites /\ mishaps \in 0..MaxMishaps
      BY SyncAssumption, <2>1 DEF Init
    <3> QED BY <3>1, <3>2, <3>3, <3>4, <3>5 DEF Init, TypeOK, Places
  <2>5. PagesAreGood
    BY <2>3 DEF Init, PagesAreGood
  <2>6. StampsAreInOrder /\ FirstSyncFindsNothing /\ VersionsTell
    BY <2>2 DEF Init, StampsAreInOrder, FirstSyncFindsNothing, VersionsTell
  <2>7. NothingMissedBeforeCursor
    BY <2>2 DEF Init, NothingMissedBeforeCursor, ChangedBefore, Mirrors, MirrorsAs, MadeSince
  <2> QED BY <2>4, <2>5, <2>6, <2>7 DEF CalendarInv
<1> QED BY <1>1, Invariance, PTL DEF Spec

-----------------------------------------------------------------------------
(* Steps *)

\* A page is of the connection as it is, and its token not older than the cursor.
LEMMA CursorStep ==
    ASSUME CalendarInv, Next
    PROVE  cursor' >= cursor \/ ~enabled'
<1>1. cursor \in Nat
  BY DEF CalendarInv, TypeOK, Stamp
<1>2. ASSUME NEW w \in Worker, Apply(w)
      PROVE  cursor' >= cursor
  BY <1>1, <1>2 DEF CalendarInv, TypeOK, Stamp, PagesAreGood, Apply
<1>3. CASE UNCHANGED cursor
  BY <1>1, <1>3
<1>4. CASE Disconnect
  BY <1>4 DEF Disconnect
<1> QED
  BY <1>2, <1>3, <1>4
     DEF Next, Work, ChangeRemote, ForgetDeleted, Poll, Start, Refresh, Fetch, Record,
         EndConnect, Fail, Crash, BeginConnect, Look, Edit, connection

\* Only a page and the user's edit change a row: the one while the calendar is
\* connected, the other as the client has seen it.
LEMMA RowStep ==
    ASSUME CalendarInv, Next, NEW e \in Event, local'[e] # local[e]
    PROVE  /\ ~enabled => local'[e].by = "user"
           /\ local'[e].by = "user" => local[e] = seen[e]
<1>1. ASSUME NEW w \in Worker, Apply(w)
      PROVE  enabled /\ local'[e].by = "google"
  <2>1. job[w].at = "apply" /\ local' = Applied(job[w].page)
    BY <1>1 DEF Apply
  <2>2. job[w].page \in Page /\ enabled
    BY <2>1 DEF CalendarInv, TypeOK, PagesAreGood
  <2> QED BY <2>1, <2>2, ApplyingRows DEF CalendarInv
<1>2. ASSUME NEW f \in Event, NEW state \in {"live", "cancelled"},
             NEW place \in {"inside", "outside"}, Edit(f, state, place)
      PROVE  local'[e].by = "user" /\ local[e] = seen[e]
  <2>1. e = f /\ local[f].version = seen[f].version
    BY <1>2 DEF CalendarInv, TypeOK, Edit
  <2>2. local'[f].by = "user"
    BY <1>2 DEF CalendarInv, TypeOK, Edit
  <2> QED BY <2>1, <2>2 DEF CalendarInv, VersionsTell
<1>3. \/ \E w \in Worker : Apply(w)
      \/ \E f \in Event, state \in {"live", "cancelled"}, place \in {"inside", "outside"} :
            Edit(f, state, place)
  BY DEF Next, Work, ChangeRemote, ForgetDeleted, Poll, Start, Refresh, Fetch, Record,
         EndConnect, Fail, Crash, BeginConnect, Look, Disconnect, connection
<1> QED BY <1>1, <1>2, <1>3

\* Overlapping polls never take the calendar back, nothing of Google's is written
\* once it is disconnected, and an edit takes back nothing the user has not seen.
THEOREM OldReadsStayRefused == Spec => OldReadsAreRefused
<1>1. CalendarInv /\ [Next]_vars => [cursor' >= cursor \/ ~enabled']_vars
  BY CursorStep
<1>2. CalendarInv /\ [Next]_vars =>
         [~enabled => \A e \in Event : local'[e] # local[e] => local'[e].by = "user"]_vars
  BY RowStep
<1>3. CalendarInv /\ [Next]_vars =>
         [\A e \in Event : local'[e] # local[e] /\ local'[e].by = "user"
                           => local[e] = seen[e]]_vars
  BY RowStep
<1> QED
  BY <1>1, <1>2, <1>3, CalendarIsMirrored, PTL
     DEF Spec, OldReadsAreRefused, CursorMovesForward, NoSyncAfterDisconnect,
         EditsWhatWasSeen
==============================================================================

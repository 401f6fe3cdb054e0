---------------------------- MODULE TrafficView ----------------------------
(***************************************************************************)
(* The traffic log page of the window (App.tsx) over the log table and the *)
(* event channel.  A page is asked for by a call that cannot be taken      *)
(* back, answers come in any order, and an event asks for the first page   *)
(* again, at most once in 750 ms and not while the window is hidden.       *)
(***************************************************************************)
EXTENDS Naturals, FiniteSets, Sequences, Functions

CONSTANTS
  LogRows,   \* ids of log rows, in the order they are written
  Naming,    \* those whose node's name contains what is searched for
  PageSize,  \* trafficLogs.pageSize
  Channel,   \* capacity of the event channel
  MaxAsks,   \* bound: pages asked for
  MaxCalls,  \* bound: calls without an answer
  MaxOthers, \* bound: events of other kinds
  MaxMoves   \* bound: times the section is changed or the window hidden

ASSUME ViewAssumption ==
  /\ IsFiniteSet(LogRows) /\ LogRows = 1..Cardinality(LogRows)
  /\ Naming \subseteq LogRows
  /\ PageSize \in Nat \ {0} /\ Channel \in Nat \ {0}

Searches == {"all", "named"}
Nothing == 0

\* Beyond every row: a snapshot or a last row that a call does not name.
Unbounded == Cardinality(LogRows) + 1

VARIABLES
  rows,      \* request_logs
  lastRow,   \* the last id given to a row
  unread,    \* the channel: the newest row an event announces, Nothing for others
  view,      \* trafficViewRef: what was asked for last
  ticket,    \* of trafficRequestGuard
  asked,     \* calls without an answer, by ticket
  logs,      \* trafficSnapshotRef and the page on screen
  failed,    \* the call asked last has failed
  timer,     \* runtimeRefreshTimerRef: "none", "set", or its callback is running
  refreshPending, refreshNeedsLogs, \* runtimeRefreshPendingRef, runtimeRefreshNeedsLogsRef
  section, visible,
  others, moves, \* bounds
  announcedRow, \* history: the newest row announced by an event not overwritten
  seen       \* history: the pages shown since the snapshot was taken

logVars == << rows, lastRow, unread, announcedRow, others >>
screenVars == << logs, failed, seen >>
timerVars == << timer, refreshPending, refreshNeedsLogs >>
callVars == << view, ticket, asked >>
placeVars == << section, visible, moves >>
viewVars == << logVars, callVars, screenVars, timerVars, placeVars >>

\* f with the value v at k.
With(f, k, v) == [x \in DOMAIN f \union {k} |-> IF x = k THEN v ELSE f[x]]

\* A call and its answer.
Call(page, search, snapshot, before) ==
  [page |-> page, search |-> search, snapshot |-> snapshot, before |-> before,
   answer |-> << >>]

EmptyPage == [page |-> 1, search |-> "all", items |-> << >>, pages |-> 1,
              snapshot |-> Unbounded]

\* The page of the start has been asked for.
ViewInit ==
  /\ rows = {} /\ lastRow = 0 /\ unread = << >>
  /\ view = [page |-> 1, search |-> "all"]
  /\ ticket = 1
  /\ asked = [t \in {1} |-> Call(1, "all", Unbounded, Unbounded)]
  /\ logs = EmptyPage
  /\ failed = FALSE
  /\ timer = "none" /\ refreshPending = FALSE /\ refreshNeedsLogs = FALSE
  /\ section = "proxies" /\ visible = TRUE
  /\ others = 0 /\ moves = 0
  /\ announcedRow = Nothing
  /\ seen = << >>

-----------------------------------------------------------------------------
(* The table and the events. *)

Found(search) == {r \in rows : search = "all" \/ r \in Naming}

Newest(ids) == IF ids = {} THEN Nothing ELSE CHOOSE r \in ids : \A q \in ids : q <= r

\* ORDER BY id DESC
NewestFirst(ids) ==
  [i \in 1..Cardinality(ids) |->
     CHOOSE r \in ids : Cardinality({q \in ids : q > r}) = i - 1]

\* Of rows in that order.
Oldest(items) == items[Len(items)]

\* A subscriber that lags loses the oldest event.
Overwriting(events) ==
  IF Len(events) > Channel THEN Tail(events) ELSE events

Overwritten(events) == Len(events) > Channel /\ Head(events) = announcedRow

\* The worker writes a row and says so, unless it did 250 ms ago.
WriteRow(says) ==
  /\ lastRow + 1 \in LogRows
  /\ lastRow' = lastRow + 1
  /\ rows' = rows \union {lastRow'}
  /\ unread' = IF says THEN Overwriting(Append(unread, lastRow')) ELSE unread
  /\ announcedRow' = IF says THEN lastRow' ELSE announcedRow
  /\ UNCHANGED << others, callVars, screenVars, timerVars, placeVars >>

\* A probe's event, say.
OtherEvent ==
  /\ others < MaxOthers
  /\ others' = others + 1
  /\ unread' = Overwriting(Append(unread, Nothing))
  /\ announcedRow' = IF Overwritten(Append(unread, Nothing)) THEN Nothing ELSE announcedRow
  /\ UNCHANGED << rows, lastRow, callVars, screenVars, timerVars, placeVars >>

\* prune_request_logs and clear_traffic_logs: the oldest rows go, or all.
Delete ==
  /\ \E r \in rows : rows' = {q \in rows : q > r}
  /\ UNCHANGED << lastRow, unread, announcedRow, others, callVars, screenVars,
                  timerVars, placeVars >>

-----------------------------------------------------------------------------
(* Pages. *)

\* Mutant: every page is that of the table as it is now.
NotCarried(page, search) == [snapshot |-> Unbounded, before |-> Unbounded]

\* A later page of what is on screen is one of the same snapshot; the one
\* that follows it begins behind its last row.
Carried(page, search) ==
  IF page > 1 /\ search = logs.search
  THEN [snapshot |-> logs.snapshot,
        before |-> IF page = logs.page + 1 /\ logs.items # << >>
                   THEN Oldest(logs.items) ELSE Unbounded]
  ELSE [snapshot |-> Unbounded, before |-> Unbounded]

\* loadTrafficLogs up to its call.
Load(page, search) ==
  /\ ticket < MaxAsks /\ Cardinality(DOMAIN asked) < MaxCalls
  /\ ticket' = ticket + 1
  /\ view' = [page |-> page, search |-> search]
  /\ LET from == Carried(page, search)
     IN  asked' = With(asked, ticket', Call(page, search, from.snapshot, from.before))

\* A page of the same search, another search, or the page on screen again.
Ask ==
  /\ section = "status"
  /\ \/ \E page \in 1..logs.pages : Load(page, view.search)
     \/ \E search \in Searches : Load(1, search)
  /\ UNCHANGED << logVars, screenVars, timerVars, placeVars >>

\* handleRefresh, from any section.
ReloadPage ==
  /\ Load(logs.page, view.search)
  /\ UNCHANGED << logVars, screenVars, timerVars, placeVars >>

\* traffic_logs_snapshot: rows of the snapshot, newest first.
ServePage(t) ==
  /\ asked[t].answer = << >>
  /\ LET call == asked[t]
         latest == Newest(rows)
         snapshot == IF call.snapshot > latest THEN latest ELSE call.snapshot
         all == {r \in Found(call.search) : r <= snapshot}
         behind == {r \in all : r < call.before}
         sorted == NewestFirst(behind)
         offset == IF call.before # Unbounded THEN 0 ELSE (call.page - 1) * PageSize
         pages == (Cardinality(all) + PageSize - 1) \div PageSize
     IN  asked' = [asked EXCEPT ![t].answer =
           << [page |-> call.page, search |-> call.search, snapshot |-> snapshot,
               pages |-> IF pages = 0 THEN 1 ELSE pages,
               items |-> SubSeq(sorted, offset + 1,
                           IF offset + PageSize < Len(sorted)
                           THEN offset + PageSize ELSE Len(sorted))] >>]
  /\ UNCHANGED << logVars, view, ticket, screenVars, timerVars, placeVars >>

WithoutCall(t) == [u \in DOMAIN asked \ {t} |-> asked[u]]

\* Mutant: whatever arrives is shown.
AsItComes(t) == TRUE

\* The guard's isCurrent.
IsCurrent(t) == t = ticket

\* History: a page of another snapshot begins the pages anew.
SeenWith(page) ==
  IF page.page > 1 /\ page.search = logs.search
  THEN With(seen, page.page, page.items)
  ELSE [p \in {page.page} |-> page.items]

Arrive(t) ==
  /\ asked[t].answer # << >>
  /\ asked' = WithoutCall(t)
  /\ IF IsCurrent(t)
     THEN /\ logs' = Head(asked[t].answer)
          /\ seen' = SeenWith(logs')
          /\ failed' = FALSE
     ELSE UNCHANGED screenVars
  /\ UNCHANGED << logVars, view, ticket, timerVars, placeVars >>

\* The call fails: only the one asked last is reported.
FailPage(t) ==
  /\ asked' = WithoutCall(t)
  /\ failed' = (failed \/ IsCurrent(t))
  /\ UNCHANGED << logVars, view, ticket, logs, seen, timerVars, placeVars >>

-----------------------------------------------------------------------------
(* Events ask for a refresh. *)

\* scheduleRuntimeRefresh
Schedule(includeLogs) ==
  /\ refreshPending' = TRUE
  /\ refreshNeedsLogs' = (refreshNeedsLogs \/ includeLogs)
  /\ timer' = IF visible' /\ timer = "none" THEN "set" ELSE timer

HearEvent ==
  /\ unread # << >>
  /\ unread' = Tail(unread)
  /\ UNCHANGED placeVars
  /\ Schedule(Head(unread) # Nothing)
  /\ UNCHANGED << rows, lastRow, announcedRow, others, callVars, screenVars >>

\* The timer's callback as far as its calls.
Fire ==
  /\ timer = "set"
  /\ timer' = "running"
  /\ refreshPending' = FALSE /\ refreshNeedsLogs' = FALSE
  /\ IF refreshNeedsLogs /\ section = "status" /\ view.page = 1
     THEN Load(view.page, view.search)
     ELSE UNCHANGED callVars
  /\ UNCHANGED << logVars, screenVars, placeVars >>

\* Mutant: events that came while the callback ran are forgotten.
Forgetting == FALSE

\* What came since the callback's calls asks for another.
Rescheduled == refreshPending /\ visible

\* The callback ends when its calls have, or when one of them fails.
EndFire ==
  /\ timer = "running"
  /\ timer' = IF Rescheduled THEN "set" ELSE "none"
  /\ UNCHANGED << refreshPending, refreshNeedsLogs, logVars, callVars, screenVars, placeVars >>

\* handleSectionChange
ChangeSection ==
  /\ moves < MaxMoves
  /\ moves' = moves + 1
  /\ IF section = "status"
     THEN section' = "proxies" /\ UNCHANGED callVars
     ELSE section' = "status" /\ Load(view.page, view.search)
  /\ UNCHANGED << visible, logVars, screenVars, timerVars >>

Hide ==
  /\ visible /\ moves < MaxMoves
  /\ visible' = FALSE
  /\ moves' = moves + 1
  /\ UNCHANGED << section, logVars, callVars, screenVars, timerVars >>

\* visibilitychange
Show ==
  /\ ~visible
  /\ visible' = TRUE
  /\ Schedule(TRUE)
  /\ UNCHANGED << section, moves, logVars, callVars, screenVars >>

ViewNext ==
  \/ \E says \in BOOLEAN : WriteRow(says)
  \/ OtherEvent \/ Delete
  \/ Ask \/ ReloadPage
  \/ \E t \in DOMAIN asked : ServePage(t) \/ Arrive(t) \/ FailPage(t)
  \/ HearEvent \/ Fire \/ EndFire
  \/ ChangeSection \/ Hide \/ Show

ViewSpec == ViewInit /\ [][ViewNext]_viewVars

-----------------------------------------------------------------------------
ViewTypeOK ==
  /\ rows \subseteq 1..lastRow /\ lastRow \in {0} \union LogRows
  /\ unread \in Seq(LogRows \union {Nothing}) /\ Len(unread) <= Channel
  /\ view.page \in Nat \ {0} /\ view.search \in Searches
  /\ DOMAIN asked \subseteq 1..ticket
  /\ timer \in {"none", "set", "running"}
  /\ section \in {"proxies", "status"}

NoCalls == asked = << >>

(* Answers come in any order, and some come to a page nobody looks at any  *)
(* more: when none is outstanding the screen shows the page and the search *)
(* asked for last, whoever asked, unless that call failed.                 *)
ViewMatches ==
  NoCalls /\ ~failed => logs.page = view.page /\ logs.search = view.search

\* No row of those shown comes twice, and none is left out, from page p to q.
Follow(p, q) ==
  /\ \A i \in DOMAIN seen[p], j \in DOMAIN seen[q] : seen[q][j] < seen[p][i]
  /\ q = p + 1 =>
       \A r \in Found(logs.search), i \in DOMAIN seen[p], j \in DOMAIN seen[q] :
         r < seen[p][i] /\ r > seen[q][j] => r \in Range(seen[p]) \union Range(seen[q])

(* Rows are written, pruned and cleared while a reader turns the pages:    *)
(* the pages of one snapshot never show a row twice, and two that follow   *)
(* each other leave no row out that is still there.                        *)
PagesJoin == \A p, q \in DOMAIN seen : p < q => Follow(p, q)

(* The screen is what was asked for, and pages turned are pages of one log.*)
PagesInv == ViewMatches /\ PagesJoin

AtRest == NoCalls /\ ~failed /\ timer = "none" /\ unread = << >>

(* Whatever calls, events, hidden spells and changes of section came       *)
(* before: with nothing under way a reader of the first page sees every    *)
(* row that an event announced and that is still there, unless the page is *)
(* full of newer ones; an event that the channel overwrote excepted.       *)
LogsCatchUp ==
  AtRest /\ visible /\ section = "status" /\ logs.page = 1 =>
    \A r \in Found(logs.search) :
      r <= announcedRow =>
        \/ r \in Range(logs.items)
        \/ Len(logs.items) = PageSize /\ r < Oldest(logs.items)
=============================================================================

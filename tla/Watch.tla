-------------------------------- MODULE Watch --------------------------------
(* ResourceLogsPage and ResourceMonitoringPage: a query that is polled.  The *)
(* request carries no token (fetchLogs, fetchMetrics), so that the server's  *)
(* middleware refuses it; the error they throw hides the status, so that it  *)
(* is retried; and what the pages can do is say so.  A chart stands for all  *)
(* that are shown.  A query that is no longer shown is forgotten: coming     *)
(* back to it begins with a request of its own.                              *)
EXTENDS Integers

CONSTANTS
  Queries,     \* filters, ranges and metrics to choose from
  NoQuery,     \* a custom metric without text: nothing is shown
  MaxRetries   \* main.tsx: retries after the first failure

ASSUME WatchBounds == MaxRetries \in Nat /\ NoQuery \notin Queries

VARIABLES
  board,       \* "away", "logs", "charts" or "summary"
  query,       \* what is shown
  live,        \* isRealtime
  attempt,     \* "none", "asked" or, before a retry, "waiting"
  failures,    \* failed requests of this fetch
  errorShown   \* the query's error is set

watchVars == <<board, query, live, attempt, failures, errorShown>>
-----------------------------------------------------------------------------
WatchInit ==
  /\ board = "away" /\ query = NoQuery /\ live = TRUE
  /\ attempt = "none" /\ failures = 0 /\ errorShown = FALSE

\* A fetch with no data yet clears the error; there are never data.
Fetch == attempt' = "asked" /\ failures' = 0 /\ errorShown' = FALSE
Rest  == attempt' = "none" /\ failures' = 0 /\ errorShown' = FALSE

\* useLogs and useMetrics: what is shown is fetched, if there is anything.
ObserveQuery(q) == query' = q /\ IF q = NoQuery THEN Rest ELSE Fetch

OpenLogs ==
  /\ board = "away" /\ board' = "logs" /\ live' = TRUE
  /\ \E q \in Queries : ObserveQuery(q)

OpenMonitoring ==
  /\ board = "away" /\ board' = "charts" /\ live' = TRUE
  /\ \E q \in Queries : ObserveQuery(q)

LeaveBoard == board # "away" /\ board' = "away" /\ query' = NoQuery /\ live' = TRUE /\ Rest

\* Another search, level, limit or range of dates; the query is another one.
ChangeLogs(q) == board = "logs" /\ q # query /\ ObserveQuery(q) /\ UNCHANGED <<board, live>>

\* Another range or metric, which fixes the window; a custom one without text.
ChangeMetrics(q) ==
  /\ board \in {"charts", "summary"} /\ q # query
  /\ ObserveQuery(q) /\ UNCHANGED <<board, live>>

\* Pause and Live.  Without an interval useRealtimeLogs and useRealtimeMetrics
\* take their defaults, so that the polling goes on.
ToggleLive ==
  /\ board # "away" /\ live' = ~live
  /\ UNCHANGED <<board, query, attempt, failures, errorShown>>

RefetchLogs == board = "logs" /\ attempt = "none" /\ Fetch /\ UNCHANGED <<board, query, live>>

\* Charts or summary: the other's query is the same one; it joins a fetch under
\* way and begins one after an error.
SwitchBoard ==
  /\ board \in {"charts", "summary"}
  /\ board' = IF board = "charts" THEN "summary" ELSE "charts"
  /\ IF attempt = "none" /\ query # NoQuery THEN Fetch ELSE UNCHANGED <<attempt, failures, errorShown>>
  /\ UNCHANGED <<query, live>>

\* Mutant: a poll takes the place of a fetch under way and its retries.
PollAfresh ==
  /\ board # "away" /\ query # NoQuery /\ Fetch /\ UNCHANGED <<board, query, live>>

\* The interval, whether or not the page is live; it joins a fetch under way.
Poll ==
  /\ board # "away" /\ query # NoQuery /\ attempt = "none"
  /\ Fetch /\ UNCHANGED <<board, query, live>>

\* Mutant: one retry more.
RefusedOnceMore ==
  /\ attempt = "asked"
  /\ IF failures <= MaxRetries
     THEN attempt' = "waiting" /\ failures' = failures + 1 /\ UNCHANGED errorShown
     ELSE attempt' = "none" /\ errorShown' = TRUE /\ UNCHANGED failures
  /\ UNCHANGED <<board, query, live>>

\* 401, or no answer.
Refused ==
  /\ attempt = "asked"
  /\ IF failures < MaxRetries
     THEN attempt' = "waiting" /\ failures' = failures + 1 /\ UNCHANGED errorShown
     ELSE attempt' = "none" /\ errorShown' = TRUE /\ UNCHANGED failures
  /\ UNCHANGED <<board, query, live>>

Retry ==
  /\ attempt = "waiting" /\ attempt' = "asked"
  /\ UNCHANGED <<board, query, live, failures, errorShown>>

\* What the pages show of a query: while it is fetched its skeleton, then its
\* error, which the summary's cards never read.
LogsShow     == IF errorShown THEN "error and no logs" ELSE "no data"
ChartsShow   == IF errorShown THEN "error and no data" ELSE "no data"
SummaryShows == "no data"

BoardShows ==
  CASE board = "away" \/ query = NoQuery -> "nothing"
    [] attempt # "none"                  -> "skeleton"
    [] OTHER -> [logs |-> LogsShow, charts |-> ChartsShow, summary |-> SummaryShows][board]

WatchNext ==
  \/ OpenLogs \/ OpenMonitoring \/ LeaveBoard
  \/ \E q \in Queries : ChangeLogs(q)
  \/ \E q \in Queries \cup {NoQuery} : ChangeMetrics(q)
  \/ ToggleLive \/ RefetchLogs \/ SwitchBoard \/ Poll \/ Refused \/ Retry

\* Requests are answered or time out, and the timer of a retry fires while the
\* window is in front.
WatchFairness == WF_watchVars(Refused) /\ WF_watchVars(Retry)
WatchSpec == WatchInit /\ [][WatchNext]_watchVars /\ WatchFairness
-----------------------------------------------------------------------------
(* Properties.                                                               *)

\* Types; a page that fetches nothing shows nothing, and a fetch is not both
\* under way and over.
WatchTypeOK ==
  /\ board \in {"away", "logs", "charts", "summary"} /\ query \in Queries \cup {NoQuery}
  /\ live \in BOOLEAN /\ attempt \in {"none", "asked", "waiting"}
  /\ failures \in 0..MaxRetries /\ errorShown \in BOOLEAN
  /\ query = NoQuery => attempt = "none" /\ ~errorShown
  /\ attempt # "none" => ~errorShown

\* A user who waits is told: however polls and retries interleave, each page
\* that fetches comes to its error, unless the user asks for something else
\* (the queries' retry, main.tsx; the polls of useRealtimeLogs and
\* useRealtimeMetrics).
FailureTold ==
  \A q \in Queries :
    (board \in {"logs", "charts"} /\ query = q)
      ~> (BoardShows \in {"error and no logs", "error and no data"}
            \/ query # q \/ board \in {"away", "summary"})
=============================================================================

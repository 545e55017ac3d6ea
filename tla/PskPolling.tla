------------------------------ MODULE PskPolling ------------------------------
(***************************************************************************)
(* The polling of PSK Reporter: the timer that asks, the worker thread     *)
(* that fetches and ranks, and the result that becomes the focus of the    *)
(* band search, against Start, Stop and changes of target and area         *)
(* (dashboard.py).  BandRanking has the ranking itself, BandSearch what a  *)
(* focus does to the search.                                               *)
(*                                                                         *)
(* LISTENING stands for the three states in which the timer asks.  Time is *)
(* counted in ticks, of which Interval make PSK_REPORTER_POLL_SECONDS.     *)
(***************************************************************************)
EXTENDS Integers, Sequences

CONSTANTS Targets, Areas,   \* callsigns; locators with a distance
          Interval,         \* ticks from one request to the next
          Nothing           \* no request, no focus

ASSUME PollAssumption ==
  /\ Interval \in Nat \ {0}
  /\ Nothing \notin [target : Targets, area : Areas]

Queries == [target : Targets, area : Areas]
Results == [query : Queries, priorities : {"some", "none", "error"}]

VARIABLES
  machine,       \* machine.current
  query,         \* the target and the search area now
  in_progress,   \* pskr_poll_in_progress
  wait,          \* pskr_next_poll, from now; 0 when it has passed
  worker,        \* the query of the worker thread
  results,       \* pskr_result messages in the events queue
  focus,         \* the query whose result pskr_priority_bands holds, if it holds any
  since,         \* history: ticks since the last request, at most Interval
  undisturbed    \* history: no Stop and no change of the query since then

settings == <<machine, query>>
request  == <<in_progress, worker, results>>
history  == <<since, undisturbed>>
vars == <<settings, request, wait, focus, history>>

TypeOK ==
  /\ machine \in {"STOPPED", "STARTING", "LISTENING", "ERROR"}
  /\ query \in Queries
  /\ in_progress \in BOOLEAN
  /\ wait \in 0 .. Interval /\ since \in 0 .. Interval
  /\ worker \in Queries \cup {Nothing}
  /\ results \in Seq(Results)
  /\ focus \in Queries \cup {Nothing}
  /\ undisturbed \in BOOLEAN

Init ==
  /\ machine = "STOPPED"
  /\ query \in Queries
  /\ in_progress = FALSE /\ worker = Nothing /\ results = <<>>
  /\ wait = 0 /\ focus = Nothing
  /\ since = Interval /\ undisturbed = FALSE

-----------------------------------------------------------------------------
(* Buttons.                                                                *)

\* What Stop, a new target and a new area have in common.
AskAfresh ==
  /\ wait' = 0 /\ focus' = Nothing
  /\ undisturbed' = FALSE

Start ==
  /\ machine \in {"STOPPED", "ERROR"} /\ machine' = "STARTING"
  /\ UNCHANGED <<query, request, wait, focus, history>>

Stop ==
  /\ machine # "STOPPED" /\ machine' = "STOPPED"
  /\ AskAfresh
  /\ UNCHANGED <<query, request, since>>

ChangeTarget ==
  /\ machine = "STOPPED"
  /\ \E target \in Targets : query' = [query EXCEPT !.target = target]
  /\ AskAfresh
  /\ UNCHANGED <<machine, request, since>>

ApplyPskSearchArea ==
  /\ \E area \in Areas : query' = [query EXCEPT !.area = area]
  /\ AskAfresh
  /\ UNCHANGED <<machine, request, since>>

\* What the listener reports.
ListenerEvent ==
  /\ \/ machine = "STARTING" /\ machine' \in {"LISTENING", "ERROR"}
     \/ machine = "LISTENING" /\ machine' = "ERROR"
  /\ UNCHANGED <<query, request, wait, focus, history>>

-----------------------------------------------------------------------------
(* The timer and the worker.                                               *)

Tick ==
  /\ wait'  = IF wait = 0 THEN 0 ELSE wait - 1
  /\ since' = IF since = Interval THEN Interval ELSE since + 1
  /\ UNCHANGED <<settings, request, focus, undisturbed>>

DueWhileBusy == machine = "LISTENING" /\ wait = 0                  \* mutant
Due == machine = "LISTENING" /\ ~in_progress /\ wait = 0

\* _pskr_tick: the time of the next request is set before this one begins.
PskrTick ==
  /\ Due
  /\ in_progress' = TRUE /\ worker' = query
  /\ wait' = Interval
  /\ since' = 0 /\ undisturbed' = TRUE
  /\ UNCHANGED <<settings, results, focus>>

WorkerReturnsOrDies ==                                            \* mutant
  /\ worker # Nothing
  /\ \/ UNCHANGED results
     \/ \E priorities \in {"some", "none"} :
          results' = Append(results, [query |-> worker, priorities |-> priorities])
  /\ worker' = Nothing
  /\ UNCHANGED <<settings, in_progress, wait, focus, history>>

\* The worker puts one result, whatever becomes of the request.
WorkerReturns ==
  /\ worker # Nothing
  /\ \E priorities \in {"some", "none", "error"} :
       results' = Append(results, [query |-> worker, priorities |-> priorities])
  /\ worker' = Nothing
  /\ UNCHANGED <<settings, in_progress, wait, focus, history>>

\* mutant: a failed request is repeated at once
HandleAndRetry ==
  /\ results # <<>>
  /\ results' = Tail(results) /\ in_progress' = FALSE
  /\ wait' = IF Head(results).priorities = "error" THEN 0 ELSE wait
  /\ UNCHANGED <<settings, worker, focus, history>>

AcceptTarget(result) ==                                           \* mutant
  result.query.target = query.target /\ machine # "STOPPED"
Accept(result) == result.query = query /\ machine # "STOPPED"

\* _handle_pskr_result
HandlePskrResult ==
  /\ results # <<>>
  /\ LET result == Head(results)
     IN  focus' = IF ~Accept(result) THEN focus
                  ELSE IF result.priorities = "some" THEN result.query ELSE Nothing
  /\ results' = Tail(results) /\ in_progress' = FALSE
  /\ UNCHANGED <<settings, worker, wait, history>>

-----------------------------------------------------------------------------
Next ==
  \/ Start \/ Stop \/ ChangeTarget \/ ApplyPskSearchArea \/ ListenerEvent
  \/ Tick \/ PskrTick \/ WorkerReturns \/ HandlePskrResult

Spec == Init /\ [][Next]_vars

\* The timer and the poll of the queue rearm themselves whatever happens in them
\* (dashboard.py:1226, 1277); a request ends by its timeouts (pskreporter.py:175).
FairSpec ==
  /\ Spec
  /\ WF_vars(Tick) /\ WF_vars(PskrTick)
  /\ WF_vars(WorkerReturns) /\ WF_vars(HandlePskrResult)

-----------------------------------------------------------------------------
\* At most one request is on its way, over every Stop, Start and change of query,
\* and the flag says whether there is one (dashboard.py:1236, 1244, 1282).
OneRequest ==
  /\ in_progress <=> worker # Nothing \/ results # <<>>
  /\ worker # Nothing => results = <<>>
  /\ Len(results) <= 1

\* The bands in focus were ranked for the present target and area, and there are
\* none while stopped: a late answer to an earlier question is not taken for one to
\* the present question (dashboard.py:1283-1289).
FocusIsCurrent == focus # Nothing => focus = query /\ machine # "STOPPED"

\* Only Stop, a new target and a new area bring the next request forward: no failure,
\* late answer, listener error or new Start makes the program ask before the interval is
\* over (dashboard.py:1236-1247).  What these three do is QueriedNoMoreOften.
OnlyTheOperatorHurries ==
  [][worker = Nothing /\ worker' # Nothing /\ undisturbed => since = Interval]_vars

\* Once the operator leaves the question alone, it is asked again and again
\* (dashboard.py:1232-1247).
PollsGoOn ==
  \A q \in Queries :
    <>[](machine = "LISTENING" /\ query = q) => []<>(worker = q)

-----------------------------------------------------------------------------
(* What the documents say and the code does not do.                        *)

\* "The public service is never queried more frequently than its requested five-minute
\* interval." (source/README.md:147-148; RELEASE_NOTES.md:271): no request begins before
\* the interval since the one before it is over.
QueriedNoMoreOften ==
  [][worker = Nothing /\ worker' # Nothing => since = Interval]_vars
=============================================================================

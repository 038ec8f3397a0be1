----------------------------- MODULE Dashboard -----------------------------
(***************************************************************************)
(* The page in a browser, next to the process it watches: it polls         *)
(* /api/status every second without waiting for the last answer, and loads *)
(* the contention view and the token and candle views when it thinks the   *)
(* stored data has changed. Requests are answered from what is committed   *)
(* at that moment, and answers may come back in any order.                 *)
(*                                                                         *)
(* A view is the set of slots its figures come from. Every done slot is    *)
(* taken to hold a priced token.                                           *)
(***************************************************************************)
EXTENDS Pipeline, SequencesExt

CONSTANT MaxAsks        \* bound: requests under way when the page polls or loads

VARIABLES
  requests,   \* under way, oldest first
  wasRunning, \* ingestWasRunning
  saysDone,   \* the status line reads "ingest complete"
  refreshed,  \* history: the page has reloaded its views by itself
  view        \* what the two views show

pageVars == <<requests, wasRunning, saysDone, refreshed, view>>

-----------------------------------------------------------------------------
Request(what) == [what |-> what, answered |-> FALSE, yes |-> FALSE, slots |-> {}]
Answered(what, yes, slots) ==
  [what |-> what, answered |-> TRUE, yes |-> yes, slots |-> slots]

\* Serving starts before ingestion and ends with the process.
ServerUp == main # "down"

\* The page is loaded (from an earlier process, if this one is still to start):
\* nothing is drawn, the first poll and the contention view are on their way.
OpenPage == /\ requests = <<Request("status"), Request("contention")>>
            /\ wasRunning = FALSE /\ saysDone = FALSE /\ refreshed = FALSE
            /\ view = [contention |-> {}, candles |-> {}]

DashboardInit == Init /\ OpenPage

Ask(what) == /\ Len(requests) < MaxAsks
             /\ requests' = Append(requests, Request(what))
             /\ UNCHANGED <<wasRunning, saysDone, refreshed, view>>

\* The timer, the reload button, and the tab of the candles.
Poll     == Ask("status")
Reload   == Ask("contention")
OpenTab  == Ask("tokens")

\* The server reads what is committed and its counters as they are.
Reply(what) ==
  CASE what = "status"     -> Answered(what, m.ingestDone, {})
    [] what = "contention" -> Answered(what, TRUE, DoneSlots)
    [] what = "tokens"     -> Answered(what, DoneSlots # {}, {})
    [] what = "candles"    -> Answered(what, TRUE, candles)

Serve(i) ==
  /\ ServerUp /\ ~requests[i].answered
  /\ requests' = [requests EXCEPT ![i] = Reply(@.what)]
  /\ UNCHANGED <<wasRunning, saysDone, refreshed, view>>

Arrived(i, what) == requests[i].what = what /\ requests[i].answered

\* pollStatus: a change from running to done reloads both views, once.
StatusArrives(i) ==
  /\ Arrived(i, "status")
  /\ LET done == requests[i].yes
         turn == wasRunning /\ done
     IN  /\ requests' = RemoveAt(requests, i)
                          \o (IF turn THEN <<Request("contention"), Request("tokens")>> ELSE <<>>)
         /\ refreshed' = (refreshed \/ turn)
         /\ saysDone' = done
         /\ wasRunning' = ~done
  /\ UNCHANGED view

ContentionArrives(i) ==
  /\ Arrived(i, "contention")
  /\ requests' = RemoveAt(requests, i)
  /\ view' = [view EXCEPT !.contention = requests[i].slots]
  /\ UNCHANGED <<wasRunning, saysDone, refreshed>>

\* Without a token there is no chart; otherwise the selected one's is loaded.
TokensArrive(i) ==
  /\ Arrived(i, "tokens")
  /\ IF requests[i].yes
     THEN /\ requests' = Append(RemoveAt(requests, i), Request("candles"))
          /\ UNCHANGED view
     ELSE /\ requests' = RemoveAt(requests, i)
          /\ view' = [view EXCEPT !.candles = {}]
  /\ UNCHANGED <<wasRunning, saysDone, refreshed>>

CandlesArrive(i) ==
  /\ Arrived(i, "candles")
  /\ requests' = RemoveAt(requests, i)
  /\ view' = [view EXCEPT !.candles = requests[i].slots]
  /\ UNCHANGED <<wasRunning, saysDone, refreshed>>

\* The process is gone before it answered: the status line says so, the chart
\* is emptied if it was its request, and the rest stays as it is.
RequestFails(i) ==
  /\ ~ServerUp /\ ~requests[i].answered
  /\ requests' = RemoveAt(requests, i)
  /\ saysDone' = (saysDone /\ requests[i].what \notin {"status", "contention"})
  /\ view' = [view EXCEPT !.candles = IF requests[i].what = "candles" THEN {} ELSE @]
  /\ UNCHANGED <<wasRunning, refreshed>>

PageStep ==
  \/ Poll \/ Reload \/ OpenTab
  \/ \E i \in DOMAIN requests :
       Serve(i) \/ StatusArrives(i) \/ ContentionArrives(i) \/ TokensArrive(i)
         \/ CandlesArrive(i) \/ RequestFails(i)

DashboardNext ==
  \/ Next /\ UNCHANGED pageVars
  \/ PageStep /\ UNCHANGED vars

DashboardSpec == DashboardInit /\ [][DashboardNext]_<<vars, pageVars>>
-----------------------------------------------------------------------------
(* Properties                                                              *)

Loading == \E i \in DOMAIN requests : requests[i].what # "status"

\* "Refresh the data views once ingestion finishes.": when the run is over, the
\* candles are rebuilt, and the page says the ingestion is complete, has refreshed
\* itself and loads nothing more, it shows what is stored.
RefreshedOnceIngested ==
  main = "serve" /\ saysDone /\ refreshed /\ ~Loading
    => view = [contention |-> DoneSlots, candles |-> candles]
=============================================================================

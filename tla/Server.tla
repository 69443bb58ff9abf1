------------------------------- MODULE Server -------------------------------
(***************************************************************************)
(* The API process from its start to its exit: the worker loop, requests   *)
(* that enqueue, and the pool all of them borrow.  A signal stops the      *)
(* worker, closes the app and ends the pool, each awaited before the next; *)
(* a second signal runs the same handler beside the first.                 *)
(***************************************************************************)
EXTENDS Worker

CONSTANT Signal \* the signals the process may get

VARIABLES shut,      \* shut[s]: the await the shutdown of s is at
          listening, \* whether requests are accepted
          requests,  \* the jobs whose requests are being handled
          pool,      \* "open", or "ending" after pool.end()
          code       \* exit status, NoCode while the process lives

server == <<vars, shut, listening, requests, pool, code>>
outer == <<shut, listening, requests, pool, code>>

NoCode == -1

\* What the routes enqueue goes through a queue object of their own.
Requested == Job \ Own

ServerTypeOK ==
  /\ TypeOK
  /\ shut \in [Signal -> {"none", "stopping", "closing", "ending"}]
  /\ listening \in BOOLEAN
  /\ requests \subseteq Requested
  /\ pool \in {"open", "ending"}
  /\ code \in {NoCode, 0, 1}

ServerInit ==
  /\ Init
  /\ shut = [s \in Signal |-> "none"]
  /\ listening = TRUE
  /\ requests = {}
  /\ pool = "open"
  /\ code = NoCode

Up == code = NoCode

-----------------------------------------------------------------------------
(* Requests, and the work of the process itself *)

Arrive(j) ==
  /\ Up /\ listening
  /\ j \in Requested /\ jst[j] = "absent"
  /\ requests' = requests \cup {j}
  /\ UNCHANGED <<vars, shut, listening, pool, code>>

\* The seeding at boot, which nothing awaits, and the enqueues of handlers;
\* once the pool is ending they are refused a connection.
EnqueueOwn(j) ==
  /\ Up
  /\ j \in Own /\ pool = "open"
  /\ Insert(j)
  /\ UNCHANGED outer

EnqueueRequested(j) ==
  /\ Up
  /\ j \in requests
  /\ Insert(j)
  /\ UNCHANGED outer

\* Slip: a request that is never answered.
Unanswered(j) == requests

Answered(j) == requests \ {j}

RequestFails(j) ==
  /\ Up
  /\ Errors
  /\ j \in requests /\ jst[j] = "absent"
  /\ requests' = Answered(j)
  /\ UNCHANGED <<vars, shut, listening, pool, code>>

\* The insert is answered: the listeners are called, then the request answered.
Answer(j) ==
  /\ Up
  /\ Notify(j)
  /\ requests' = Answered(j)
  /\ UNCHANGED <<shut, listening, pool, code>>

TakeJob(j) == Up /\ Take(j) /\ UNCHANGED outer

Poll == Up /\ FindNothing /\ UNCHANGED outer

LoopGoesOn == Up /\ Loop /\ UNCHANGED outer

StatementFails == Up /\ (PollFails \/ OutcomeFails \/ AskFails) /\ UNCHANGED outer

TimePasses == Up /\ Tick /\ UNCHANGED outer

-----------------------------------------------------------------------------
(* shutdown *)

\* await worker?.stop()
OnSignal(s) ==
  /\ Up
  /\ shut[s] = "none"
  /\ shut' = [shut EXCEPT ![s] = "stopping"]
  /\ CutShort
  /\ UNCHANGED <<queue, lpc, notified, sleep, listening, requests, pool, code>>

\* Slip: stop() does not await the loop.
Unawaited == TRUE

LoopIsOver == lpc = "stopped"

\* await app.close(), which waits for the requests under way.
CloseApp(s) ==
  /\ Up
  /\ shut[s] = "stopping" /\ LoopIsOver
  /\ shut' = [shut EXCEPT ![s] = "closing"]
  /\ listening' = FALSE
  /\ UNCHANGED <<vars, requests, pool, code>>

\* await database.close(): a pool that is ending refuses to be ended again.
EndPool(s) ==
  /\ Up
  /\ shut[s] = "closing" /\ requests = {}
  /\ shut' = [shut EXCEPT ![s] = "ending"]
  /\ pool' = "ending"
  /\ code' = IF pool = "open" THEN NoCode ELSE 1
  /\ UNCHANGED <<vars, listening, requests>>

Borrowed == lpc \in {"polling", "working", "asking"} \/ requests # {}

\* The pool has ended once every connection has come back.
Exit(s) ==
  /\ Up
  /\ shut[s] = "ending" /\ ~Borrowed
  /\ code' = 0
  /\ UNCHANGED <<vars, shut, listening, requests, pool>>

-----------------------------------------------------------------------------
ServerNext ==
  \/ \E j \in Job :
       Arrive(j) \/ EnqueueOwn(j) \/ EnqueueRequested(j) \/ RequestFails(j)
         \/ Answer(j) \/ TakeJob(j)
  \/ Poll \/ LoopGoesOn \/ StatementFails \/ TimePasses
  \/ \E s \in Signal : OnSignal(s) \/ CloseApp(s) \/ EndPool(s) \/ Exit(s)

ServerSpec == ServerInit /\ [][ServerNext]_server

\* Statements answer and callbacks are called; a poll that fails now and then
\* succeeds in the end, and takes the jobs in the order of run_at, so that the
\* turn of a due job comes; time passes; a request that was accepted is
\* handled, and a shutdown runs on.
ServerFairness ==
  /\ WF_server(LoopGoesOn) /\ SF_server(Poll) /\ WF_server(TimePasses)
  /\ \A j \in Job :
       /\ SF_server(TakeJob(j)) /\ WF_server(Answer(j))
       /\ WF_server(EnqueueRequested(j) \/ RequestFails(j))
  /\ \A s \in Signal : WF_server(CloseApp(s)) /\ WF_server(EndPool(s)) /\ WF_server(Exit(s))

FairServer == ServerSpec /\ ServerFairness

-----------------------------------------------------------------------------
(***************************************************************************)
(* "The worker may be mid-query, so it stops before the pool it borrows    *)
(* goes away": when the pool is ended, whichever signal ends it, the loop  *)
(* is over, no job is in its hands and no request is being handled.        *)
(***************************************************************************)
NothingCutOff ==
  pool # "open" =>
    lpc = "stopped" /\ requests = {} /\ \A j \in Job : jst[j] # "running"

(***************************************************************************)
(* A signal ends the process: whatever the loop is awaiting, whichever     *)
(* statements fail, and however many requests are under way.               *)
(***************************************************************************)
SignalEnds == (\E s \in Signal : shut[s] # "none") ~> code # NoCode
=============================================================================

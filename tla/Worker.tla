------------------------------- MODULE Worker -------------------------------
(***************************************************************************)
(* The worker loop of one API process: when it polls the jobs table, how   *)
(* long it sleeps, what wakes it, and how it stops.                        *)
(*                                                                         *)
(* The loop and the listener share the variables running, wake and         *)
(* notified of one JavaScript thread.  Code between two awaits is atomic;  *)
(* at every await an enqueue, its notice, the clock or stop() may come in. *)
(***************************************************************************)
EXTENDS Integers

CONSTANTS Job,      \* jobs that may be enqueued
          Own,      \* those enqueued through the queue the worker listens to
          Delays,   \* the delays an enqueue may ask for
          Idle,     \* idleMs, in ticks
          Lease,    \* LEASE_MS, in ticks
          Errors    \* whether statements may fail

ASSUME WorkerAssumption ==
  /\ Own \subseteq Job
  /\ Delays \subseteq Nat
  /\ Idle \in Nat \ {0}
  /\ Lease \in Nat \ {0}
  /\ Errors \in BOOLEAN

VARIABLES jst,      \* jst[j]: "absent", "waiting", "running" or "done"
          dueIn,    \* dueIn[j]: until a waiting job may be claimed, that is
                    \* until its run_at, or the end of a claim left behind
          untold,   \* jobs inserted whose listeners have not been called yet
          lpc,      \* where the loop stands
          running, notified, \* the loop's variables
          woken,    \* wake() has been called on the current sleep
          left,     \* what is left of the sleep
          blind     \* whether the last question for the next due time failed

queue == <<jst, dueIn, untold>>
flags == <<running, notified, woken>>
sleep == <<left, blind>>
vars == <<queue, lpc, flags, sleep>>

LoopSteps == {"polling",   \* runOne's claim is under way
              "working",   \* runOne's handler is
              "empty",     \* runOne has found nothing, or failed
              "asking",    \* nextDueAt is under way
              "asked",     \* and has answered
              "sleeping", "stopped"}

TypeOK ==
  /\ jst \in [Job -> {"absent", "waiting", "running", "done"}]
  /\ dueIn \in [Job -> Nat]
  /\ untold \subseteq Job
  /\ lpc \in LoopSteps
  /\ running \in BOOLEAN /\ notified \in BOOLEAN /\ woken \in BOOLEAN
  /\ left \in 0 .. Idle
  /\ blind \in BOOLEAN

Init ==
  /\ jst = [j \in Job |-> "absent"]
  /\ dueIn = [j \in Job |-> 0]
  /\ untold = {}
  /\ lpc = "polling"
  /\ running = TRUE
  /\ notified = FALSE
  /\ woken = FALSE
  /\ left = 0
  /\ blind = FALSE

-----------------------------------------------------------------------------
(* enqueue: the insert, and after its answer the listeners *)

Insert(j) ==
  /\ jst[j] = "absent"
  /\ jst' = [jst EXCEPT ![j] = "waiting"]
  /\ \E d \in Delays : dueIn' = [dueIn EXCEPT ![j] = d]
  /\ untold' = untold \cup {j}
  /\ UNCHANGED <<lpc, flags, sleep>>

\* Slip: a sleeping loop is woken, a busy one is not told.
WakeOnly == UNCHANGED notified

Remember == notified' = TRUE

\* The listener of the loop, which has unsubscribed once it has stopped.
Listener ==
  /\ Remember
  /\ woken' = (woken \/ lpc = "sleeping")

Notify(j) ==
  /\ j \in untold
  /\ untold' = untold \ {j}
  /\ IF j \in Own /\ lpc # "stopped" THEN Listener ELSE UNCHANGED <<notified, woken>>
  /\ UNCHANGED <<jst, dueIn, lpc, running, sleep>>

-----------------------------------------------------------------------------
(* The loop *)

Due == {j \in Job : jst[j] = "waiting" /\ dueIn[j] = 0}

\* runOne's claim takes a job, or finds none.
Take(j) ==
  /\ lpc = "polling"
  /\ j \in Due
  /\ jst' = [jst EXCEPT ![j] = "running"]
  /\ lpc' = "working"
  /\ UNCHANGED <<dueIn, untold, flags, sleep>>

FindNothing ==
  /\ lpc = "polling"
  /\ Due = {}
  /\ lpc' = "empty"
  /\ UNCHANGED <<queue, flags, sleep>>

\* Slip: the exception ends the loop.
LoopDies == "stopped"

AfterError == "empty"

\* The row stays running: the job may be claimed again when the lease is over.
LeftBehind(j) == dueIn' = [dueIn EXCEPT ![j] = Lease]

\* The claim fails, or commits and its answer is lost.
PollFails ==
  /\ Errors
  /\ lpc = "polling"
  /\ lpc' = AfterError
  /\ \/ UNCHANGED dueIn
     \/ \E j \in Due : LeftBehind(j)
  /\ UNCHANGED <<jst, untold, flags, sleep>>

NextRound == lpc' = IF running THEN "polling" ELSE "stopped"

\* The handler ends: the job is done, or waits again for its backoff.
Work ==
  /\ lpc = "working"
  /\ \E j \in Job :
       /\ jst[j] = "running"
       /\ \/ jst' = [jst EXCEPT ![j] = "done"] /\ UNCHANGED dueIn
          \/ jst' = [jst EXCEPT ![j] = "waiting"] /\ dueIn' = [dueIn EXCEPT ![j] = 1]
  /\ NextRound
  /\ UNCHANGED <<untold, flags, sleep>>

\* The handler is over, but writing its outcome fails.
OutcomeFails ==
  /\ Errors
  /\ lpc = "working"
  /\ lpc' = AfterError
  /\ \E j \in Job :
       /\ jst[j] = "running"
       /\ jst' = [jst EXCEPT ![j] = "waiting"]
       /\ LeftBehind(j)
  /\ UNCHANGED <<untold, flags, sleep>>

AfterEmpty ==
  /\ lpc = "empty"
  /\ lpc' = IF ~running THEN "stopped" ELSE IF notified THEN "polling" ELSE "asking"
  /\ notified' = (notified /\ ~running)
  /\ UNCHANGED <<queue, running, woken, sleep>>

NextDue == {dueIn[j] : j \in {i \in Job : jst[i] = "waiting"}}

\* nextSleepMs: until the next job is due, at most idleMs.
Earliest(n, times) == n \in times /\ \A m \in times : n <= m

AskDue ==
  /\ lpc = "asking"
  /\ \E n \in NextDue \cup {Idle} : Earliest(n, NextDue \cup {Idle}) /\ left' = n
  /\ blind' = FALSE
  /\ lpc' = "asked"
  /\ UNCHANGED <<queue, flags>>

AskFails ==
  /\ Errors
  /\ lpc = "asking"
  /\ left' = Idle
  /\ blind' = TRUE
  /\ lpc' = "asked"
  /\ UNCHANGED <<queue, flags>>

\* Slip: the loop falls asleep without a second look at running.
SleepUnlessTold == IF notified THEN "polling" ELSE "sleeping"

AfterAsking == IF ~running THEN "stopped" ELSE IF notified THEN "polling" ELSE "sleeping"

FallAsleep ==
  /\ lpc = "asked"
  /\ lpc' = AfterAsking
  /\ notified' = (notified /\ ~running)
  /\ UNCHANGED <<queue, running, woken, sleep>>

WakeUp ==
  /\ lpc = "sleeping"
  /\ left = 0 \/ woken
  /\ woken' = FALSE
  /\ notified' = FALSE
  /\ NextRound
  /\ UNCHANGED <<queue, running, sleep>>

\* stop(), up to its await.
CutShort == running' = FALSE /\ woken' = (woken \/ lpc = "sleeping")

Stop ==
  /\ running
  /\ CutShort
  /\ UNCHANGED <<queue, lpc, notified, sleep>>

\* A timer that has run out fires, and an answer that is there is read,
\* before the next tick.
Tick ==
  /\ lpc \notin {"empty", "asked", "stopped"}
  /\ lpc = "sleeping" => left > 0 /\ ~woken
  /\ lpc = "sleeping" \/ \E j \in Job : dueIn[j] > 0
  /\ dueIn' = [j \in Job |-> IF dueIn[j] > 0 THEN dueIn[j] - 1 ELSE 0]
  /\ left' = IF lpc = "sleeping" THEN left - 1 ELSE left
  /\ UNCHANGED <<jst, untold, lpc, flags, blind>>

-----------------------------------------------------------------------------
Loop == Work \/ AfterEmpty \/ AskDue \/ FallAsleep \/ WakeUp

Next ==
  \/ \E j \in Job : Insert(j) \/ Notify(j) \/ Take(j)
  \/ FindNothing \/ PollFails \/ OutcomeFails \/ AskFails \/ Loop
  \/ Stop \/ Tick

Spec == Init /\ [][Next]_vars

-----------------------------------------------------------------------------
(* Safety *)

OnTime(j) == jst[j] = "waiting" /\ j \notin untold => left <= dueIn[j]

Asleep == lpc = "sleeping" /\ ~woken

(***************************************************************************)
(* No lost wake-up: whenever an enqueue lands, between the empty poll and  *)
(* the question for the next due time, or between that and the sleep, the  *)
(* worker never sleeps past the moment its job is due, unless the question *)
(* failed, after which it sleeps for idleMs at most.                       *)
(***************************************************************************)
NoOversleep == Asleep /\ ~blind => \A j \in Own : OnTime(j)

(***************************************************************************)
(* "stop() resolves promptly even from an idle sleep", wherever in the     *)
(* loop it lands: after it, no sleep is left to run to its end.            *)
(***************************************************************************)
StopIsPrompt == ~running => ~Asleep

(***************************************************************************)
(* "An enqueue made in this process wakes it at once": the same for every  *)
(* job the process enqueues, through whichever queue object.               *)
(***************************************************************************)
EveryEnqueueWakes == Asleep => \A j \in Job : OnTime(j)

-----------------------------------------------------------------------------
(* Liveness *)

(***************************************************************************)
(* "The loop must survive anything": as long as it is not stopped, every   *)
(* job is taken up in the end, also after failed polls and failed          *)
(* questions, and also if it came in without a notice.                     *)
(***************************************************************************)
EveryJobTaken == \A j \in Job : jst[j] = "waiting" ~> jst[j] # "waiting" \/ ~running
=============================================================================

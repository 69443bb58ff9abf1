---------------------------- MODULE Server_proofs ----------------------------
(***************************************************************************)
(* Proofs about Server, for any jobs, delays and number of signals.        *)
(*                                                                         *)
(* Two arguments that do not meet: what the loop knows when it falls       *)
(* asleep (Informed), and what a shutdown knows when it ends the pool      *)
(* (Orderly).                                                              *)
(***************************************************************************)
EXTENDS Server, TLAPS

Types ==
  /\ jst \in [Job -> {"absent", "waiting", "running", "done"}]
  /\ dueIn \in [Job -> Nat]
  /\ untold \subseteq Job
  /\ lpc \in LoopSteps
  /\ running \in BOOLEAN /\ notified \in BOOLEAN /\ woken \in BOOLEAN
  /\ left \in Nat
  /\ blind \in BOOLEAN

\* A loop that has asked for the next due time, or sleeps, oversleeps no job
\* unless it has been told of it, or its question failed.
Informed ==
  /\ lpc = "asked" /\ ~notified /\ ~blind => \A j \in Own : OnTime(j)
  /\ NoOversleep

\* The job being worked on is the only one in the loop's hands.
InHand ==
  \A i, j \in Job : jst[i] = "running" /\ jst[j] = "running" => i = j /\ lpc = "working"

Orderly ==
  /\ shut \in [Signal -> {"none", "stopping", "closing", "ending"}]
  /\ pool # "open" => \E s \in Signal : shut[s] = "ending"
  /\ \A s \in Signal : shut[s] \in {"closing", "ending"} => lpc = "stopped" /\ ~listening
  /\ \A s \in Signal : shut[s] = "ending" => requests = {}

ServerInductive == Types /\ Informed /\ StopIsPrompt /\ InHand /\ Orderly

LEMMA InitServer == ServerInit => ServerInductive
<1> SUFFICES ASSUME ServerInit PROVE ServerInductive
  OBVIOUS
<1> USE DEF ServerInit, Init
<1>1. Types
  BY DEF Types, LoopSteps
<1>2. Informed /\ StopIsPrompt
  BY DEF Informed, NoOversleep, StopIsPrompt, Asleep
<1>3. InHand
  BY DEF InHand
<1>4. Orderly
  BY DEF Orderly
<1>5. QED
  BY <1>1, <1>2, <1>3, <1>4 DEF ServerInductive

-----------------------------------------------------------------------------
(* Steps of the worker and of enqueues: the shutdown stands still *)

WorkerMoves ==
  \/ \E j \in Job : Insert(j) \/ Notify(j) \/ Take(j)
  \/ FindNothing \/ PollFails \/ OutcomeFails \/ AskFails \/ Loop \/ Tick

LEMMA DueTimes == Types => NextDue \subseteq Nat
BY DEF Types, NextDue

LEMMA TypesStep ==
  ASSUME Types,
         WorkerMoves
  PROVE  Types'
<1> USE WorkerAssumption DEF Types, LoopSteps
<1>1. ASSUME NEW j \in Job, Insert(j) PROVE Types'
  BY <1>1 DEF Insert, flags, sleep
<1>2. ASSUME NEW j \in Job, Notify(j) PROVE Types'
  BY <1>2 DEF Notify, Listener, Remember, sleep
<1>3. ASSUME NEW j \in Job, Take(j) PROVE Types'
  BY <1>3 DEF Take, flags, sleep
<1>4. CASE FindNothing
  BY <1>4 DEF FindNothing, queue, flags, sleep
<1>5. CASE PollFails
  BY <1>5 DEF PollFails, AfterError, LeftBehind, Due, flags, sleep
<1>6. CASE OutcomeFails
  BY <1>6 DEF OutcomeFails, AfterError, LeftBehind, flags, sleep
<1>7. CASE AskFails
  BY <1>7 DEF AskFails, queue, flags
<1>8. CASE Work
  BY <1>8 DEF Work, NextRound, flags, sleep
<1>9. CASE AfterEmpty
  BY <1>9 DEF AfterEmpty, queue, sleep
<1>10. CASE AskDue
  BY <1>10, DueTimes DEF AskDue, Earliest, queue, flags
<1>11. CASE FallAsleep
  BY <1>11 DEF FallAsleep, AfterAsking, queue, sleep
<1>12. CASE WakeUp
  BY <1>12 DEF WakeUp, NextRound, queue, sleep
<1>13. CASE Tick
  <2>1. left' \in Nat /\ dueIn' \in [Job -> Nat]
    BY <1>13 DEF Tick
  <2>2. QED
    BY <1>13, <2>1 DEF Tick, flags
<1>14. QED
  BY <1>1, <1>2, <1>3, <1>4, <1>5, <1>6, <1>7, <1>8, <1>9, <1>10, <1>11, <1>12, <1>13 DEF WorkerMoves, Loop

\* The question is answered with a time no later than that of any waiting job.
LEMMA AskedInTime == Types /\ AskDue => \A j \in Job : OnTime(j)'
<1> SUFFICES ASSUME Types, AskDue, NEW j \in Job, jst[j] = "waiting" PROVE left' <= dueIn[j]
  BY DEF OnTime, AskDue, queue
<1>1. dueIn[j] \in NextDue
  BY DEF NextDue
<1>2. QED
  BY <1>1 DEF AskDue, Earliest

LEMMA InformedStep ==
  ASSUME Types, Informed,
         WorkerMoves
  PROVE  Informed'
<1> USE WorkerAssumption DEF Types, LoopSteps, Informed, NoOversleep, Asleep
<1>1. ASSUME NEW j \in Job, Insert(j) PROVE Informed'
  BY <1>1 DEF Insert, OnTime, flags, sleep
<1>2. ASSUME NEW j \in Job, Notify(j) PROVE Informed'
  <2>1. CASE j \in Own /\ lpc # "stopped"
    BY <1>2, <2>1 DEF Notify, Listener, Remember, OnTime, sleep
  <2>2. CASE j \notin Own
    BY <1>2, <2>2 DEF Notify, OnTime, sleep
  <2>3. CASE lpc = "stopped"
    BY <1>2, <2>3 DEF Notify, Listener, Remember
  <2>4. QED
    BY <2>1, <2>2, <2>3
<1>3. ASSUME NEW j \in Job, Take(j) PROVE Informed'
  BY <1>3 DEF Take
<1>4. CASE FindNothing \/ PollFails \/ OutcomeFails
  BY <1>4 DEF FindNothing, PollFails, OutcomeFails, AfterError
<1>5. CASE AskFails
  BY <1>5 DEF AskFails
<1>6. CASE Work \/ AfterEmpty \/ WakeUp
  BY <1>6 DEF Work, AfterEmpty, WakeUp, NextRound
<1>7. CASE AskDue
  <2>1. \A j \in Own : OnTime(j)'
    BY <1>7, AskedInTime
  <2>2. QED
    BY <1>7, <2>1 DEF AskDue
<1>8. CASE FallAsleep
  BY <1>8 DEF FallAsleep, AfterAsking, OnTime, queue, sleep
<1>9. CASE Tick
  <2>1. lpc # "asked" /\ UNCHANGED <<jst, untold, lpc, notified, woken, blind>>
    BY <1>9 DEF Tick, flags
  <2> SUFFICES ASSUME Asleep, ~blind, NEW j \in Own, jst[j] = "waiting", j \notin untold
               PROVE  left' <= dueIn'[j]
    BY <2>1 DEF OnTime
  <2>2. left <= dueIn[j] /\ left > 0
    BY <1>9 DEF OnTime, Tick
  <2>3. left' = left - 1 /\ dueIn'[j] = dueIn[j] - 1
    BY <1>9, <2>2 DEF Tick
  <2>4. QED
    BY <2>2, <2>3
<1>10. QED
  BY <1>1, <1>2, <1>3, <1>4, <1>5, <1>6, <1>7, <1>8, <1>9 DEF WorkerMoves, Loop

LEMMA StopStep ==
  ASSUME Types, StopIsPrompt,
         WorkerMoves
  PROVE  StopIsPrompt'
<1> USE DEF Types, StopIsPrompt, Asleep, queue, flags, sleep
<1>1. ASSUME NEW j \in Job, Insert(j) \/ Notify(j) \/ Take(j) PROVE StopIsPrompt'
  BY <1>1 DEF Insert, Notify, Take, Listener, Remember
<1>2. CASE FindNothing \/ PollFails \/ OutcomeFails \/ AskFails \/ Tick
  BY <1>2 DEF FindNothing, PollFails, OutcomeFails, AskFails, AfterError, Tick
<1>3. CASE Work \/ AfterEmpty \/ AskDue \/ WakeUp
  BY <1>3 DEF Work, AfterEmpty, AskDue, WakeUp, NextRound
<1>4. CASE FallAsleep
  BY <1>4 DEF FallAsleep, AfterAsking
<1>5. QED
  BY <1>1, <1>2, <1>3, <1>4 DEF WorkerMoves, Loop

LEMMA InHandStep ==
  ASSUME Types, InHand,
         WorkerMoves
  PROVE  InHand'
<1> USE DEF Types, InHand
<1>1. ASSUME NEW j \in Job, Insert(j) PROVE InHand'
  BY <1>1 DEF Insert
<1>2. ASSUME NEW j \in Job, Notify(j) PROVE InHand'
  BY <1>2 DEF Notify
<1>3. ASSUME NEW j \in Job, Take(j) PROVE InHand'
  BY <1>3 DEF Take, Due
<1>4. CASE Work
  <2>1. PICK j \in Job :
          jst[j] = "running" /\ \E v \in {"done", "waiting"} : jst' = [jst EXCEPT ![j] = v]
    BY <1>4 DEF Work
  <2>2. \A i \in Job : jst'[i] # "running"
    BY <2>1
  <2>3. QED
    BY <2>2
<1>5. CASE OutcomeFails
  <2>1. PICK j \in Job : jst[j] = "running" /\ jst' = [jst EXCEPT ![j] = "waiting"]
    BY <1>5 DEF OutcomeFails
  <2>2. \A i \in Job : jst'[i] # "running"
    BY <2>1
  <2>3. QED
    BY <2>2
<1>6. CASE FindNothing \/ PollFails \/ AskFails \/ AfterEmpty \/ AskDue \/ FallAsleep \/ WakeUp \/ Tick
  BY <1>6
  DEF FindNothing, PollFails, AskFails, AfterEmpty, AskDue, FallAsleep, WakeUp, Tick, queue
<1>7. QED
  BY <1>1, <1>2, <1>3, <1>4, <1>5, <1>6 DEF WorkerMoves, Loop

\* A loop that has stopped has stopped for good.
LEMMA StaysStopped ==
  ASSUME lpc = "stopped",
         WorkerMoves
  PROVE  lpc' = "stopped"
BY DEF WorkerMoves, Insert, Notify, Take, FindNothing, PollFails, OutcomeFails, AskFails,
   Loop, Work, AfterEmpty, AskDue, FallAsleep, WakeUp, Tick

-----------------------------------------------------------------------------
LEMMA ServerStep == ServerInductive /\ [ServerNext]_server => ServerInductive'
<1> SUFFICES ASSUME ServerInductive, [ServerNext]_server PROVE ServerInductive'
  OBVIOUS
<1>1. ASSUME WorkerMoves, UNCHANGED <<shut, listening, pool>>,
             requests' \subseteq requests
      PROVE  ServerInductive'
  <2>1. Types' /\ Informed' /\ StopIsPrompt' /\ InHand'
    BY <1>1, TypesStep, InformedStep, StopStep, InHandStep DEF ServerInductive
  <2>2. lpc = "stopped" => lpc' = "stopped"
    BY <1>1, StaysStopped
  <2>3. Orderly'
    BY <1>1, <2>2 DEF ServerInductive, Orderly
  <2>4. QED
    BY <2>1, <2>3 DEF ServerInductive
<1>2. ASSUME NEW j \in Job, Arrive(j) \/ RequestFails(j) PROVE ServerInductive'
  BY <1>2
  DEF Arrive, RequestFails, Answered, vars, queue, flags, sleep, ServerInductive, Types,
      Informed, NoOversleep, Asleep, OnTime, StopIsPrompt, InHand, Orderly
<1>3. ASSUME NEW j \in Job,
             EnqueueOwn(j) \/ EnqueueRequested(j) \/ Answer(j) \/ TakeJob(j)
      PROVE  ServerInductive'
  BY <1>3, <1>1 DEF EnqueueOwn, EnqueueRequested, Answer, Answered, TakeJob, outer, WorkerMoves
<1>4. CASE Poll \/ LoopGoesOn \/ StatementFails \/ TimePasses
  BY <1>4, <1>1 DEF Poll, LoopGoesOn, StatementFails, TimePasses, outer, WorkerMoves
<1>5. ASSUME NEW s \in Signal, OnSignal(s) PROVE ServerInductive'
  BY <1>5
  DEF OnSignal, CutShort, queue, sleep, ServerInductive, Types,
      Informed, NoOversleep, Asleep, OnTime, StopIsPrompt, InHand, Orderly
<1>6. ASSUME NEW s \in Signal, CloseApp(s) \/ EndPool(s) \/ Exit(s) PROVE ServerInductive'
  <2>1. Types' /\ Informed' /\ StopIsPrompt' /\ InHand'
    BY <1>6
    DEF CloseApp, EndPool, Exit, vars, queue, flags, sleep, ServerInductive, Types,
        Informed, NoOversleep, Asleep, OnTime, StopIsPrompt, InHand
  <2>2. Orderly'
    BY <1>6 DEF CloseApp, LoopIsOver, EndPool, Exit, vars, ServerInductive, Orderly
  <2>3. QED
    BY <2>1, <2>2 DEF ServerInductive
<1>7. CASE UNCHANGED server
  BY <1>7
  DEF server, vars, queue, flags, sleep, ServerInductive, Types,
      Informed, NoOversleep, Asleep, OnTime, StopIsPrompt, InHand, Orderly
<1>8. QED
  BY <1>2, <1>3, <1>4, <1>5, <1>6, <1>7 DEF ServerNext

LEMMA ServerInductiveHolds == ServerSpec => []ServerInductive
BY InitServer, ServerStep, PTL DEF ServerSpec

(***************************************************************************)
(* No lost wake-up: wherever an enqueue of the process lands in the loop,  *)
(* the worker does not sleep past the moment the job is due, unless its    *)
(* question for that moment failed.                                        *)
(***************************************************************************)
THEOREM NoOversleepHolds == ServerSpec => []NoOversleep
<1>1. ServerInductive => NoOversleep
  BY DEF ServerInductive, Informed
<1>2. QED
  BY <1>1, ServerInductiveHolds, PTL

(***************************************************************************)
(* After stop() no sleep is left to run to its end, wherever in the loop   *)
(* it lands and however often it is called.                                *)
(***************************************************************************)
THEOREM StopIsPromptHolds == ServerSpec => []StopIsPrompt
<1>1. ServerInductive => StopIsPrompt
  BY DEF ServerInductive
<1>2. QED
  BY <1>1, ServerInductiveHolds, PTL

(***************************************************************************)
(* The pool is ended only when the loop is over, no job is in its hands    *)
(* and no request is being handled, however many signals arrive.           *)
(***************************************************************************)
THEOREM NothingCutOffHolds == ServerSpec => []NothingCutOff
<1>1. ServerInductive => NothingCutOff
  BY DEF ServerInductive, Orderly, InHand, NothingCutOff
<1>2. QED
  BY <1>1, ServerInductiveHolds, PTL
=============================================================================

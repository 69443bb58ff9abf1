--------------------------- MODULE JobQueue_proofs ---------------------------
(***************************************************************************)
(* Proofs about JobQueue, for every set of jobs and workers, every lease   *)
(* and every number of faults.                                             *)
(*                                                                         *)
(* The rows do not know which worker still believes in its claim: the      *)
(* outcome of a job is written WHERE id = $1.  That two live workers never *)
(* meet on a prompt job therefore rests on time alone, and Claims says     *)
(* how: a worker at work on one has either a claim whose lease has not run *)
(* out, or, when the answer to its succeed() got lost, a job that nobody   *)
(* can claim.                                                              *)
(*                                                                         *)
(* What is said of outcomes and attempts rests on a second invariant,      *)
(* Accounted.  The delay is in neither: the arguments do not need it, and  *)
(* 2 ^ n is unknown to the provers.                                        *)
(***************************************************************************)
EXTENDS JobQueue, TLAPS

Types ==
  /\ jstat \in [Job -> JobStatuses]
  /\ age \in [Job -> 0 .. Lease + 1]
  /\ holder \in [Job -> Worker \cup {NoOne}]
  /\ wpc \in [Worker -> WorkerSteps]
  /\ wjob \in [Worker -> Job]

Claims ==
  \A w \in Worker : Busy(w) /\ wjob[w] \in Prompt =>
     \/ /\ jstat[wjob[w]] = "running"
        /\ holder[wjob[w]] = w
        /\ age[wjob[w]] <= Lease
     \/ /\ wpc[w] = "failing"
        /\ jstat[wjob[w]] = "succeeded"

Inductive == Types /\ Claims /\ OneRunner /\ RunningHoldsLease

LEMMA InitInductive == Init => Inductive
BY QueueAssumption
DEF Init, Inductive, Types, Claims, OneRunner, RunningHoldsLease, Busy, JobStatuses, WorkerSteps

-----------------------------------------------------------------------------
(* Steps of one worker *)

\* If the job a claim takes is prompt, no live worker is at work on it.
LEMMA TakenIsFree ==
  ASSUME Inductive, NEW w \in Worker, NEW j \in Job, TakeRow(w, j)
  PROVE  \A v \in Worker : Busy(v) /\ wjob[v] \in Prompt => wjob[v] # j
<1>1. jstat[j] \in {"pending", "running"} /\ (jstat[j] = "running" => age[j] > Lease)
  BY DEF TakeRow, Due, Lapsed
<1>2. QED
  BY <1>1, QueueAssumption DEF Inductive, Types, Claims

\* A claim, whether its worker goes to work or never hears of it.
LEMMA ClaimStep ==
  ASSUME Inductive, NEW w \in Worker, NEW j \in Job, TakeRow(w, j),
         NEW step \in {"idle", "handling", "failing"}, Goto(w, step),
         wjob' \in {wjob, [wjob EXCEPT ![w] = j]},
         step # "idle" => wjob'[w] = j
  PROVE  Inductive'
<1> USE QueueAssumption DEF Inductive, Types, Claims, OneRunner, RunningHoldsLease, Busy
<1>1. /\ jstat' = [jstat EXCEPT ![j] = "running"]
      /\ age' = [age EXCEPT ![j] = 0]
      /\ holder' = [holder EXCEPT ![j] = w]
      /\ wpc' = [wpc EXCEPT ![w] = step]
  BY DEF TakeRow, Goto
<1>2. \A v \in Worker : Busy(v) /\ wjob[v] \in Prompt => wjob[v] # j
  BY TakenIsFree
<1>3. \A v \in Worker \ {w} : wjob'[v] = wjob[v] /\ wpc'[v] = wpc[v]
  BY <1>1
<1>4. Types'
  BY <1>1 DEF JobStatuses, WorkerSteps
<1>5. Claims'
  BY <1>1, <1>2, <1>3
<1>6. OneRunner'
  BY <1>1, <1>2, <1>3
<1>7. RunningHoldsLease'
  BY <1>1
<1>8. QED
  BY <1>4, <1>5, <1>6, <1>7

\* A worker that writes the outcome of a prompt job is alone at it, and leaves it.
LEMMA OutcomeStep ==
  ASSUME Inductive, NEW w \in Worker, Busy(w),
         NEW step \in {"idle", "failing"}, NEW s \in {"pending", "succeeded", "dead"},
         step = "failing" => s = "succeeded",
         jstat' = [jstat EXCEPT ![wjob[w]] = s],
         Release(wjob[w]), Goto(w, step), UNCHANGED wjob
  PROVE  Inductive'
<1> USE QueueAssumption DEF Inductive, Types, Claims, OneRunner, RunningHoldsLease, Busy, Goto, Release
<1>1. PICK j \in Job : j = wjob[w]
  OBVIOUS
<1>2. \A v \in Worker \ {w} : Busy(v) /\ wjob[v] \in Prompt => wjob[v] # j
  BY <1>1
<1>3. Types'
  BY <1>1 DEF JobStatuses, WorkerSteps
<1>4. Claims'
  BY <1>1, <1>2
<1>5. OneRunner'
  BY <1>1, <1>2
<1>6. RunningHoldsLease'
  BY <1>1
<1>7. QED
  BY <1>3, <1>4, <1>5, <1>6

\* A worker that goes on, or is gone, without touching the row.
LEMMA StepWithoutRow ==
  ASSUME Inductive, NEW w \in Worker, Busy(w),
         NEW step \in {"idle", "succeeding", "failing"},
         wpc[w] = "failing" => step = "idle",
         Goto(w, step), UNCHANGED <<jstat, age, holder, wjob>>
  PROVE  Inductive'
BY QueueAssumption
DEF Inductive, Types, Claims, OneRunner, RunningHoldsLease, Busy, Goto, WorkerSteps

-----------------------------------------------------------------------------
(* Time *)

\* No lease runs out under a worker at work on a prompt job.
LEMMA TickStep ==
  ASSUME Inductive, Tick
  PROVE  Inductive'
<1> USE QueueAssumption DEF Inductive, Types, Claims, OneRunner, RunningHoldsLease, Busy
<1>1. /\ \A w \in Worker : Busy(w) /\ wjob[w] \in Prompt => age[wjob[w]] < Lease
      /\ age' = [j \in Job |-> IF jstat[j] = "running" /\ age[j] <= Lease
                               THEN age[j] + 1 ELSE age[j]]
      /\ UNCHANGED <<jstat, holder, wpc, wjob>>
  BY DEF Tick, InTime, workers
<1>2. Types'
  BY <1>1
<1>3. Claims'
  BY <1>1
<1>4. OneRunner' /\ RunningHoldsLease'
  BY <1>1
<1>5. QED
  BY <1>2, <1>3, <1>4

-----------------------------------------------------------------------------
LEMMA InductiveStep == Inductive /\ [Next]_vars => Inductive'
<1> SUFFICES ASSUME Inductive, [Next]_vars PROVE Inductive'
  OBVIOUS
<1>1. ASSUME NEW j \in Job, NEW d \in Delays, Enqueue(j, d) PROVE Inductive'
  BY <1>1, QueueAssumption
  DEF Enqueue, Inductive, Types, Claims, OneRunner, RunningHoldsLease, Busy, JobStatuses, workers
<1>2. ASSUME NEW w \in Worker, NEW j \in Job, Claim(w, j) \/ ClaimLost(w, j) PROVE Inductive'
  <2>1. CASE Claim(w, j)
    <3>1. PICK step \in {"handling", "failing"} : Goto(w, step)
      BY <2>1 DEF Claim
    <3>2. QED
      BY <2>1, <3>1, ClaimStep DEF Claim, Inductive, Types
  <2>2. CASE ClaimLost(w, j)
    <3>1. Goto(w, "idle") /\ wjob' = wjob
      BY <2>2 DEF ClaimLost, TakeRow, Goto, workers, Inductive, Types
    <3>2. QED
      BY <2>2, <3>1, ClaimStep DEF ClaimLost
  <2>3. QED
    BY <1>2, <2>1, <2>2
<1>3. ASSUME NEW w \in Worker, Run(w) PROVE Inductive'
  <2>1. CASE HandlerReturns(w) \/ HandlerThrows(w)
    BY <2>1, StepWithoutRow DEF HandlerReturns, HandlerThrows, AfterThrow, Busy, rows
  <2>2. CASE Succeed(w)
    BY <2>2, OutcomeStep DEF Succeed, SetSucceeded, Busy
  <2>3. CASE Fail(w)
    <3>1. PICK s \in {"pending", "dead"} : jstat' = [jstat EXCEPT ![wjob[w]] = s]
      BY <2>3 DEF Fail, SetFailed, LaidOut
    <3>2. QED
      BY <2>3, <3>1, OutcomeStep DEF Fail, SetFailed, Busy
  <2>4. QED
    BY <1>3, <2>1, <2>2, <2>3 DEF Run
<1>4. ASSUME NEW w \in Worker, Crash(w) \/ SucceedRejects(w) \/ FailRejects(w) PROVE Inductive'
  <2>1. CASE Crash(w) \/ FailRejects(w)
    BY <2>1, StepWithoutRow DEF Crash, FailRejects, Busy, rows
  <2>2. CASE SucceedRejects(w) /\ UNCHANGED rows
    BY <2>2, StepWithoutRow DEF SucceedRejects, Busy, rows
  <2>3. CASE SucceedRejects(w) /\ SetSucceeded(wjob[w])
    BY <2>3, OutcomeStep DEF SucceedRejects, SetSucceeded, Busy
  <2>4. QED
    BY <1>4, <2>1, <2>2, <2>3 DEF SucceedRejects
<1>5. CASE Tick
  BY <1>5, TickStep
<1>6. CASE EnqueueRejects \/ UNCHANGED vars
  BY <1>6
  DEF EnqueueRejects, vars, rows, workers, Inductive, Types, Claims, OneRunner,
      RunningHoldsLease, Busy
<1>7. QED
  BY <1>1, <1>2, <1>3, <1>4, <1>5, <1>6 DEF Next

(***************************************************************************)
(* The inductive invariant.                                                *)
(***************************************************************************)
THEOREM InductiveHolds == Spec => []Inductive
BY InitInductive, InductiveStep, PTL DEF Spec

(***************************************************************************)
(* No two live workers are ever at work on one job whose handler keeps     *)
(* within the lease, whatever crashes, whatever answers get lost, and      *)
(* however slow the other jobs are.                                        *)
(***************************************************************************)
THEOREM OneRunnerHolds == Spec => []OneRunner
<1>1. Inductive => OneRunner
  BY DEF Inductive
<1>2. QED
  BY <1>1, InductiveHolds, PTL

(***************************************************************************)
(* The rows always satisfy jobs_running_holds_lease, however slow the      *)
(* handlers are.                                                           *)
(***************************************************************************)
THEOREM RunningHoldsLeaseHolds == Spec => []RunningHoldsLease
<1>1. Inductive => RunningHoldsLease
  BY DEF Inductive
<1>2. QED
  BY <1>1, InductiveHolds, PTL

-----------------------------------------------------------------------------
(* A live lease *)

\* The conclusion of LeaseHonoured, for one worker.
Kept(w) ==
  LET j == wjob[w]
  IN /\ j \in Prompt /\ Busy(w) /\ jstat[j] = "running" /\ holder[j] = w /\ age[j] <= Lease
     /\ UNCHANGED wpc[w]
     => jstat'[j] = "running" /\ holder'[j] = w

\* Whatever another worker does, it does to another job.
LEMMA KeptByOthers ==
  ASSUME Inductive, NEW w \in Worker, NEW v \in Worker, v # w,
         wjob[w] \in Prompt, Busy(w),
         Run(v) \/ Crash(v) \/ SucceedRejects(v) \/ FailRejects(v)
  PROVE  /\ jstat'[wjob[w]] = jstat[wjob[w]]
         /\ holder'[wjob[w]] = holder[wjob[w]]
<1> USE DEF Inductive, Types
<1>1. Busy(v) /\ wjob[v] # wjob[w]
  BY DEF OneRunner, Busy, Run, HandlerReturns, HandlerThrows, Succeed, Fail, Crash,
     SucceedRejects, FailRejects
<1>2. CASE Succeed(v) \/ (SucceedRejects(v) /\ SetSucceeded(wjob[v]))
  BY <1>1, <1>2 DEF Succeed, SetSucceeded, Release
<1>3. CASE Fail(v)
  BY <1>1, <1>3 DEF Fail, SetFailed, Release
<1>4. CASE UNCHANGED rows
  BY <1>4 DEF rows
<1>5. QED
  BY <1>2, <1>3, <1>4
  DEF Run, HandlerReturns, HandlerThrows, Crash, SucceedRejects, FailRejects

LEMMA KeptStep ==
  ASSUME Inductive, [Next]_vars, NEW w \in Worker
  PROVE  Kept(w)
<1> SUFFICES ASSUME wjob[w] \in Prompt, Busy(w), jstat[wjob[w]] = "running", holder[wjob[w]] = w,
                    age[wjob[w]] <= Lease, wpc'[w] = wpc[w]
             PROVE  jstat'[wjob[w]] = "running" /\ holder'[wjob[w]] = w
  BY DEF Kept
<1> USE DEF Inductive, Types
<1>1. ASSUME NEW j \in Job, NEW d \in Delays, Enqueue(j, d)
      PROVE  jstat'[wjob[w]] = "running" /\ holder'[wjob[w]] = w
  BY <1>1 DEF Enqueue
<1>2. ASSUME NEW v \in Worker, NEW j \in Job, Claim(v, j) \/ ClaimLost(v, j)
      PROVE  jstat'[wjob[w]] = "running" /\ holder'[wjob[w]] = w
  <2>1. TakeRow(v, j)
    BY <1>2 DEF Claim, ClaimLost
  <2>2. QED
    BY <2>1, TakenIsFree DEF TakeRow
<1>3. ASSUME NEW v \in Worker, Run(v) \/ Crash(v) \/ SucceedRejects(v) \/ FailRejects(v)
      PROVE  jstat'[wjob[w]] = "running" /\ holder'[wjob[w]] = w
  <2>1. v # w
    BY <1>3 DEF Run, HandlerReturns, HandlerThrows, Succeed, Fail, Crash, SucceedRejects,
       FailRejects, Goto, Busy, AfterThrow
  <2>2. QED
    BY <1>3, <2>1, KeptByOthers
<1>4. CASE Tick
  BY <1>4 DEF Tick
<1>5. CASE EnqueueRejects \/ UNCHANGED vars
  BY <1>5 DEF EnqueueRejects, vars, rows
<1>6. QED
  BY <1>1, <1>2, <1>3, <1>4, <1>5 DEF Next

(***************************************************************************)
(* While a worker is at work on a prompt job under a live lease, nobody    *)
(* else takes, releases or closes it.                                      *)
(***************************************************************************)
THEOREM LeaseHonouredHolds == Spec => LeaseHonoured
<1>1. Inductive /\ [Next]_vars => [\A w \in Worker : Kept(w)]_vars
  BY KeptStep
<1>2. Spec => [][\A w \in Worker : Kept(w)]_vars
  BY <1>1, InductiveHolds, PTL DEF Spec
<1>3. QED
  BY <1>2 DEF LeaseHonoured, Kept

-----------------------------------------------------------------------------
(* Outcomes and attempts *)

Counters ==
  /\ attempts \in [Job -> Nat]
  /\ done \in [Job -> BOOLEAN]
  /\ faults \in Nat

\* What is about to be written as succeeded has been done.
Earned ==
  /\ SucceededWasDone
  /\ \A w \in Worker : wpc[w] = "succeeding" => done[wjob[w]]

DeadIsExhausted == \A j \in Job : jstat[j] = "dead" => Exhausted(j)

Attended(j) == \E w \in Worker : Busy(w) /\ wjob[w] = j

\* A prompt job that waits has attempts left; one that runs with nobody at
\* work on it has met with a fault that no attempt made up for yet.
Spent ==
  \A j \in Prompt :
    /\ attempts[j] <= MaxAttempts + faults
    /\ jstat[j] \in {"absent", "pending"} => attempts[j] < MaxAttempts
    /\ jstat[j] = "running" /\ ~Attended(j) => attempts[j] < MaxAttempts + faults

Accounted == Counters /\ Earned /\ DeadIsExhausted /\ Spent

LEMMA InitAccounted == Init => Accounted
BY QueueAssumption
DEF Init, Accounted, Counters, Earned, SucceededWasDone, DeadIsExhausted, Spent

\* A claim, and whether it was lost.
LEMMA ClaimAccounted ==
  ASSUME Inductive, Accounted, NEW w \in Worker, NEW j \in Job, TakeRow(w, j),
         NEW step \in {"idle", "handling", "failing"}, Goto(w, step),
         wjob' \in {wjob, [wjob EXCEPT ![w] = j]},
         faults' \in {faults, faults + 1},
         IF step = "idle" THEN faults' = faults + 1 ELSE wjob'[w] = j
  PROVE  Accounted'
<1> USE QueueAssumption DEF Inductive, Types, Accounted
<1>1. /\ jstat' = [jstat EXCEPT ![j] = "running"]
      /\ attempts' = [attempts EXCEPT ![j] = @ + 1]
      /\ wpc' = [wpc EXCEPT ![w] = step]
      /\ done' = done
      /\ wpc[w] = "idle"
  BY DEF TakeRow, Goto
<1>2. \A v \in Worker \ {w} : wjob'[v] = wjob[v] /\ wpc'[v] = wpc[v]
  BY <1>1
<1>3. Counters'
  BY <1>1 DEF Counters
<1>4. Earned'
  BY <1>1, <1>2 DEF Earned, SucceededWasDone
<1>5. DeadIsExhausted'
  BY <1>1 DEF DeadIsExhausted, Exhausted, Counters
<1>6. Spent'
  <2> SUFFICES ASSUME NEW k \in Prompt
               PROVE  /\ attempts'[k] <= MaxAttempts + faults'
                      /\ jstat'[k] \in {"absent", "pending"} => attempts'[k] < MaxAttempts
                      /\ jstat'[k] = "running" /\ ~Attended(k)'
                           => attempts'[k] < MaxAttempts + faults'
    BY DEF Spent
  <2>1. CASE k = j
    <3>1. jstat[j] \in {"pending", "running"}
      BY DEF TakeRow, Due, Lapsed
    <3>2. ~Attended(j)
      BY <2>1, TakenIsFree DEF Attended
    <3>3. attempts[j] < MaxAttempts + faults /\ attempts[j] \in Nat /\ faults \in Nat
      BY <2>1, <3>1, <3>2 DEF Spent, Counters
    <3>4. Attended(j)' \/ faults' = faults + 1
      BY <1>1 DEF Attended, Busy
    <3>5. attempts'[j] = attempts[j] + 1 /\ jstat'[j] = "running"
      BY <1>1 DEF Counters
    <3>6. QED
      BY <2>1, <3>3, <3>4, <3>5
  <2>2. CASE k # j
    <3>1. jstat'[k] = jstat[k] /\ attempts'[k] = attempts[k] /\ attempts[k] \in Nat
      BY <2>2, <1>1 DEF Counters
    <3>2. Attended(k) => Attended(k)'
      BY <1>1, <1>2 DEF Attended, Busy
    <3>3. QED
      BY <3>1, <3>2 DEF Spent, Counters
  <2>3. QED
    BY <2>1, <2>2
<1>7. QED
  BY <1>3, <1>4, <1>5, <1>6

\* An outcome, written over whatever the row holds.
LEMMA OutcomeAccounted ==
  ASSUME Inductive, Accounted, NEW w \in Worker, Busy(w),
         NEW step \in {"idle", "failing"}, Goto(w, step),
         SetFailed(wjob[w]) \/ (SetSucceeded(wjob[w]) /\ done[wjob[w]]),
         faults' \in {faults, faults + 1}, UNCHANGED <<wjob, done>>
  PROVE  Accounted'
<1> USE QueueAssumption DEF Inductive, Types, Accounted
<1>1. PICK j \in Job : j = wjob[w]
  OBVIOUS
<1>2. PICK s \in {"pending", "dead", "succeeded"} :
        /\ jstat' = [jstat EXCEPT ![j] = s]
        /\ s = "pending" => ~Exhausted(j)
        /\ s = "dead" => Exhausted(j)
        /\ s = "succeeded" => done[j]
  BY <1>1 DEF SetFailed, SetSucceeded, LaidOut
<1>3. attempts' = attempts /\ wpc' = [wpc EXCEPT ![w] = step]
  BY DEF SetFailed, SetSucceeded, Goto
<1>4. Counters'
  BY <1>3 DEF Counters
<1>5. Earned'
  BY <1>2, <1>3 DEF Earned, SucceededWasDone
<1>6. DeadIsExhausted'
  BY <1>2, <1>3 DEF DeadIsExhausted, Exhausted
<1>7. Spent'
  <2> SUFFICES ASSUME NEW k \in Prompt
               PROVE  /\ attempts'[k] <= MaxAttempts + faults'
                      /\ jstat'[k] \in {"absent", "pending"} => attempts'[k] < MaxAttempts
                      /\ jstat'[k] = "running" /\ ~Attended(k)'
                           => attempts'[k] < MaxAttempts + faults'
    BY DEF Spent
  <2>1. attempts'[k] = attempts[k] /\ attempts[k] \in Nat /\ faults \in Nat
    BY <1>3 DEF Counters
  <2>2. CASE k = j
    BY <2>1, <2>2, <1>2 DEF Spent, Exhausted
  <2>3. CASE k # j
    <3>1. Attended(k) => Attended(k)'
      BY <2>3, <1>1, <1>3 DEF Attended, Busy
    <3>2. QED
      BY <2>1, <2>3, <3>1, <1>2 DEF Spent
  <2>4. QED
    BY <2>2, <2>3
<1>8. QED
  BY <1>4, <1>5, <1>6, <1>7

\* A worker that goes on leaves the row attended; one that is gone is a fault.
LEMMA NoRowAccounted ==
  ASSUME Inductive, Accounted, NEW w \in Worker, Busy(w),
         NEW step \in {"idle", "succeeding", "failing"}, Goto(w, step),
         faults' \in {faults, faults + 1}, step = "idle" => faults' = faults + 1,
         done' \in {done, [done EXCEPT ![wjob[w]] = TRUE]},
         step = "succeeding" => done'[wjob[w]],
         UNCHANGED <<jstat, attempts, wjob>>
  PROVE  Accounted'
<1> USE QueueAssumption DEF Inductive, Types, Accounted
<1>1. wpc' = [wpc EXCEPT ![w] = step]
  BY DEF Goto
<1>2. Counters'
  <2>1. attempts' \in [Job -> Nat] /\ faults' \in Nat
    BY DEF Counters
  <2>2. done \in [Job -> BOOLEAN]
    BY DEF Counters
  <2>3. done' \in [Job -> BOOLEAN]
    BY <2>2, Zenon
  <2>4. QED
    BY <2>1, <2>3 DEF Counters
<1>3. \A j \in Job : done[j] => done'[j]
  <2>1. done \in [Job -> BOOLEAN]
    BY DEF Counters
  <2>2. CASE done' = done
    BY <2>2
  <2>3. CASE done' = [done EXCEPT ![wjob[w]] = TRUE]
    BY <2>1, <2>3, Zenon
  <2>4. QED
    BY <2>2, <2>3
<1>4. Earned'
  BY <1>1, <1>3 DEF Earned, SucceededWasDone
<1>5. DeadIsExhausted'
  BY DEF DeadIsExhausted, Exhausted
<1>6. \A j \in Job : Attended(j) => Attended(j)' \/ faults' = faults + 1
  BY <1>1 DEF Attended, Busy
<1>7. Spent'
  <2> SUFFICES ASSUME NEW k \in Prompt
               PROVE  /\ attempts[k] <= MaxAttempts + faults'
                      /\ jstat[k] \in {"absent", "pending"} => attempts[k] < MaxAttempts
                      /\ jstat[k] = "running" /\ ~Attended(k)'
                           => attempts[k] < MaxAttempts + faults'
    BY DEF Spent
  <2>1. attempts[k] \in Nat /\ faults \in Nat /\ k \in Job
    BY DEF Counters
  <2>2. QED
    BY <2>1, <1>6 DEF Spent
<1>8. QED
  BY <1>2, <1>4, <1>5, <1>7

LEMMA AccountedStep == Inductive /\ Accounted /\ [Next]_vars => Accounted'
<1> SUFFICES ASSUME Inductive, Accounted, [Next]_vars PROVE Accounted'
  OBVIOUS
<1> USE QueueAssumption DEF Inductive, Types
<1>1. ASSUME NEW j \in Job, NEW d \in Delays, Enqueue(j, d) PROVE Accounted'
  BY <1>1
  DEF Enqueue, workers, Accounted, Counters, Earned, SucceededWasDone, DeadIsExhausted,
      Exhausted, Spent, Attended, Busy
<1>2. ASSUME NEW w \in Worker, NEW j \in Job, Claim(w, j) PROVE Accounted'
  <2>1. PICK step \in {"handling", "failing"} : Goto(w, step)
    BY <1>2 DEF Claim
  <2>2. QED
    BY <2>1, <1>2, ClaimAccounted DEF Claim
<1>3. ASSUME NEW w \in Worker, NEW j \in Job, ClaimLost(w, j) PROVE Accounted'
  <2>1. Goto(w, "idle") /\ wjob' = wjob /\ faults' = faults + 1
    BY <1>3 DEF ClaimLost, TakeRow, Goto, workers, Fault
  <2>2. QED
    BY <2>1, <1>3, ClaimAccounted DEF ClaimLost
<1>4. ASSUME NEW w \in Worker, HandlerReturns(w) \/ HandlerThrows(w) \/ Crash(w) \/ FailRejects(w)
      PROVE  Accounted'
  <2>1. CASE HandlerReturns(w)
    BY <2>1, NoRowAccounted DEF HandlerReturns, Busy, rows, Accounted, Counters
  <2>2. CASE HandlerThrows(w)
    BY <2>2, NoRowAccounted DEF HandlerThrows, AfterThrow, Busy, rows
  <2>3. CASE Crash(w) \/ FailRejects(w)
    BY <2>3, NoRowAccounted DEF Crash, FailRejects, Fault, Busy, rows
  <2>4. QED
    BY <1>4, <2>1, <2>2, <2>3
<1>5. ASSUME NEW w \in Worker, Succeed(w) \/ Fail(w) PROVE Accounted'
  BY <1>5, OutcomeAccounted DEF Succeed, Fail, Busy, Accounted, Earned
<1>6. ASSUME NEW w \in Worker, SucceedRejects(w) PROVE Accounted'
  <2>1. CASE UNCHANGED rows
    BY <1>6, <2>1, NoRowAccounted DEF SucceedRejects, Fault, Busy, rows
  <2>2. CASE SetSucceeded(wjob[w])
    BY <1>6, <2>2, OutcomeAccounted DEF SucceedRejects, Fault, Busy, Accounted, Earned
  <2>3. QED
    BY <1>6, <2>1, <2>2 DEF SucceedRejects
<1>7. CASE EnqueueRejects \/ Tick \/ UNCHANGED vars
  <2>1. UNCHANGED <<jstat, attempts, wpc, wjob, done>> /\ faults' \in {faults, faults + 1}
    BY <1>7 DEF EnqueueRejects, Tick, Fault, vars, rows, workers
  <2>2. QED
    BY <2>1
    DEF Accounted, Counters, Earned, SucceededWasDone, DeadIsExhausted, Exhausted, Spent,
        Attended, Busy
<1>8. QED
  BY <1>1, <1>2, <1>3, <1>4, <1>5, <1>6, <1>7 DEF Next, Run

LEMMA AccountedHolds == Spec => []Accounted
BY InitAccounted, AccountedStep, InductiveHolds, PTL DEF Spec

(***************************************************************************)
(* A job counts as succeeded only after a handler has run on it to the     *)
(* end, however slow the handlers are and whatever answers get lost.       *)
(***************************************************************************)
THEOREM SucceededWasDoneHolds == Spec => []SucceededWasDone
<1>1. Accounted => SucceededWasDone
  BY DEF Accounted, Earned
<1>2. QED
  BY <1>1, AccountedHolds, PTL

(***************************************************************************)
(* A job whose handler keeps within the lease is claimed no more often     *)
(* than max_attempts and the crashes and failed statements together.       *)
(***************************************************************************)
THEOREM AttemptsWithinFaultsHolds == Spec => []AttemptsWithinFaults
<1>1. Accounted => AttemptsWithinFaults
  BY DEF Accounted, Spent, AttemptsWithinFaults
<1>2. QED
  BY <1>1, AccountedHolds, PTL

\* The conclusion of DeadNeverRetried.
StaysDead == \A j \in Job : jstat[j] = "dead" => jstat'[j] \notin {"pending", "running"}

LEMMA DeadStep == Inductive /\ Accounted /\ [Next]_vars => StaysDead
<1> SUFFICES ASSUME Inductive, Accounted, [Next]_vars, NEW j \in Job, jstat[j] = "dead"
             PROVE  jstat'[j] \notin {"pending", "running"}
  BY DEF StaysDead
<1> USE DEF Inductive, Types
<1>1. Exhausted(j)
  BY DEF Accounted, DeadIsExhausted
<1>2. ASSUME NEW w \in Worker, SetFailed(wjob[w]) PROVE jstat'[j] \notin {"pending", "running"}
  BY <1>1, <1>2 DEF SetFailed, LaidOut
<1>3. ASSUME NEW w \in Worker, SetSucceeded(wjob[w])
      PROVE  jstat'[j] \notin {"pending", "running"}
  BY <1>3 DEF SetSucceeded
<1>4. ASSUME NEW w \in Worker, NEW k \in Job, TakeRow(w, k)
      PROVE  jstat'[j] \notin {"pending", "running"}
  BY <1>4 DEF TakeRow, Due, Lapsed
<1>5. CASE UNCHANGED jstat
  BY <1>5
<1>6. ASSUME NEW k \in Job, NEW d \in Delays, Enqueue(k, d)
      PROVE  jstat'[j] \notin {"pending", "running"}
  BY <1>6 DEF Enqueue
<1>7. QED
  BY <1>2, <1>3, <1>4, <1>5, <1>6
  DEF Next, Run, Claim, ClaimLost, HandlerReturns, HandlerThrows, Succeed, Fail, Crash,
      SucceedRejects, FailRejects, EnqueueRejects, Tick, vars, rows

(***************************************************************************)
(* A dead job is never retried, not even when a worker that outlived its   *)
(* lease writes its own outcome over it.                                   *)
(***************************************************************************)
THEOREM DeadNeverRetriedHolds == Spec => DeadNeverRetried
<1>1. Inductive /\ Accounted /\ [Next]_vars => [StaysDead]_vars
  BY DeadStep
<1>2. Spec => [][StaysDead]_vars
  BY <1>1, InductiveHolds, AccountedHolds, PTL DEF Spec
<1>3. QED
  BY <1>2 DEF DeadNeverRetried, StaysDead
=============================================================================

------------------------------ MODULE JobQueue ------------------------------
(***************************************************************************)
(* The durable job queue: the jobs table, and workers that claim a row,    *)
(* run its handler, and write the outcome.  Each of the three is awaited   *)
(* on its own, so another worker, the clock, a crash, or a failing         *)
(* statement may come between any two of them.                             *)
(*                                                                         *)
(* Time passes in ticks.  What the WHERE clauses compare with NOW() is     *)
(* kept relative to it: how long until a pending job is due, and how long  *)
(* ago a running one was claimed.                                          *)
(***************************************************************************)
EXTENDS Integers, FiniteSets

CONSTANTS Job,         \* jobs that may be enqueued
          Worker,      \* worker processes
          Handles,     \* Handles[w]: the jobs of a kind w has a handler for
          MaxAttempts, \* max_attempts of every job
          Lease,       \* LEASE_MS, in ticks
          Delays,      \* the delays an enqueue may ask for
          Cap,         \* the ceiling of the backoff, in ticks
          Prompt,      \* the jobs whose handler always ends within the lease
          Lossy,       \* whether a statement may commit and its answer get lost
          MaxFaults,   \* how many crashes and failing statements there are
          NoOne        \* NULL in claimed_by

ASSUME QueueAssumption ==
  /\ Handles \in [Worker -> SUBSET Job]
  /\ MaxAttempts \in Nat \ {0}
  /\ Lease \in Nat \ {0}
  /\ Delays \subseteq Nat
  /\ Cap \in Nat \ {0}
  /\ Prompt \subseteq Job
  /\ Lossy \in BOOLEAN
  /\ MaxFaults \in Nat
  /\ NoOne \notin Worker

VARIABLES jstat,    \* jstat[j]: jobs.status, "absent" before the insert
          delay,    \* delay[j]: run_at - NOW(), 0 once due
          age,      \* age[j]: NOW() - claimed_at, up to Lease + 1
          holder,   \* holder[j]: claimed_by
          attempts, \* attempts[j]
          wpc,      \* wpc[w]: where w's runOne stands
          wjob,     \* wjob[w]: the job it is about
          done,     \* done[j]: whether a handler has run to its end on j
          faults    \* crashes and failed statements so far

rows == <<jstat, delay, age, holder, attempts>>
workers == <<wpc, wjob>>
vars == <<rows, workers, done, faults>>

JobStatuses == {"absent", "pending", "running", "succeeded", "dead"}
WorkerSteps == {"idle", "handling", "succeeding", "failing"}

TypeOK ==
  /\ jstat \in [Job -> JobStatuses]
  /\ delay \in [Job -> Nat]
  /\ age \in [Job -> 0 .. Lease + 1]
  /\ holder \in [Job -> Worker \cup {NoOne}]
  /\ attempts \in [Job -> Nat]
  /\ wpc \in [Worker -> WorkerSteps]
  /\ wjob \in [Worker -> Job]
  /\ done \in [Job -> BOOLEAN]
  /\ faults \in 0 .. MaxFaults

Init ==
  /\ jstat = [j \in Job |-> "absent"]
  /\ delay = [j \in Job |-> 0]
  /\ age = [j \in Job |-> 0]
  /\ holder = [j \in Job |-> NoOne]
  /\ attempts = [j \in Job |-> 0]
  /\ wpc = [w \in Worker |-> "idle"]
  /\ wjob \in [Worker -> Job]
  /\ \A v, w \in Worker : wjob[v] = wjob[w]
  /\ done = [j \in Job |-> FALSE]
  /\ faults = 0

-----------------------------------------------------------------------------
(* enqueue *)

Enqueue(j, d) ==
  /\ jstat[j] = "absent"
  /\ jstat' = [jstat EXCEPT ![j] = "pending"]
  /\ delay' = [delay EXCEPT ![j] = d]
  /\ UNCHANGED <<age, holder, attempts, workers, done, faults>>

-----------------------------------------------------------------------------
(* claim *)

Goto(w, step) == wpc' = [wpc EXCEPT ![w] = step]

\* Slip: the status is not looked at.
DueWhateverStatus(j) == jstat[j] # "absent" /\ delay[j] = 0

Due(j) == jstat[j] = "pending" /\ delay[j] = 0

\* Slips: the lease is over one tick early; an abandoned job stays running.
LapsedEarly(j) == jstat[j] = "running" /\ age[j] >= Lease
NeverLapsed(j) == FALSE

Lapsed(j) == jstat[j] = "running" /\ age[j] > Lease

\* A worker claims only the kinds it handles.
CanRun(w, j) == j \in Handles[w]

\* Rows are tried in the order of run_at, but SKIP LOCKED passes over those
\* another claim is looking at: any claimable row may be the one.
TakeRow(w, j) ==
  /\ wpc[w] = "idle"
  /\ CanRun(w, j)
  /\ Due(j) \/ Lapsed(j)
  /\ jstat' = [jstat EXCEPT ![j] = "running"]
  /\ age' = [age EXCEPT ![j] = 0]
  /\ holder' = [holder EXCEPT ![j] = w]
  /\ attempts' = [attempts EXCEPT ![j] = @ + 1]
  /\ UNCHANGED <<delay, done>>

\* The handler starts at once; a job without one is failed instead.
Claim(w, j) ==
  /\ TakeRow(w, j)
  /\ wjob' = [wjob EXCEPT ![w] = j]
  /\ Goto(w, IF j \in Handles[w] THEN "handling" ELSE "failing")
  /\ UNCHANGED faults

-----------------------------------------------------------------------------
(* runOne, after the claim *)

HandlerReturns(w) ==
  /\ wpc[w] = "handling"
  /\ Goto(w, "succeeding")
  /\ done' = [done EXCEPT ![wjob[w]] = TRUE]
  /\ UNCHANGED <<rows, wjob, faults>>

\* Slip: the exception is swallowed.
Swallowed == "succeeding"

AfterThrow == "failing"

HandlerThrows(w) ==
  /\ wpc[w] = "handling"
  /\ Goto(w, AfterThrow)
  /\ UNCHANGED <<rows, wjob, done, faults>>

Release(j) ==
  /\ holder' = [holder EXCEPT ![j] = NoOne]
  /\ age' = [age EXCEPT ![j] = 0]

\* The update of succeed: WHERE id = $1, whoever holds the job by now.
SetSucceeded(j) ==
  /\ jstat' = [jstat EXCEPT ![j] = "succeeded"]
  /\ Release(j)
  /\ UNCHANGED <<delay, attempts>>

\* 1s, 2s, 4s, ... with a ceiling; the base is one tick.
Backoff(n) == LET raw == 2 ^ (n - 1) IN IF raw < Cap THEN raw ELSE Cap

LaidOut == "dead"

\* Slip: one attempt too many.
ExhaustedLate(j) == attempts[j] > MaxAttempts

Exhausted(j) == attempts[j] >= MaxAttempts

\* The update of fail: WHERE id = $1 as well.
SetFailed(j) ==
  /\ \/ /\ Exhausted(j)
        /\ jstat' = [jstat EXCEPT ![j] = LaidOut]
        /\ UNCHANGED delay
     \/ /\ ~Exhausted(j)
        /\ jstat' = [jstat EXCEPT ![j] = "pending"]
        /\ delay' = [delay EXCEPT ![j] = Backoff(attempts[j])]
  /\ Release(j)
  /\ UNCHANGED attempts

Succeed(w) ==
  /\ wpc[w] = "succeeding"
  /\ SetSucceeded(wjob[w])
  /\ Goto(w, "idle")
  /\ UNCHANGED <<wjob, done, faults>>

Fail(w) ==
  /\ wpc[w] = "failing"
  /\ SetFailed(wjob[w])
  /\ Goto(w, "idle")
  /\ UNCHANGED <<wjob, done, faults>>

-----------------------------------------------------------------------------
(* What goes wrong *)

Fault == faults < MaxFaults /\ faults' = faults + 1

\* enqueue() rejects; that the row got in all the same is Enqueue.
EnqueueRejects == Fault /\ UNCHANGED <<rows, workers, done>>

\* The claim commits, and the process dies, or is cut off, before it knows.
ClaimLost(w, j) ==
  /\ TakeRow(w, j)
  /\ Fault
  /\ UNCHANGED workers

\* The process dies and starts again with nothing in memory.
Crash(w) ==
  /\ wpc[w] # "idle"
  /\ Fault
  /\ Goto(w, "idle")
  /\ UNCHANGED <<rows, wjob, done>>

\* succeed() rejects, so the catch calls fail(), also when it had committed.
SucceedRejects(w) ==
  /\ wpc[w] = "succeeding"
  /\ Fault
  /\ Goto(w, "failing")
  /\ \/ UNCHANGED rows
     \/ Lossy /\ SetSucceeded(wjob[w])
  /\ UNCHANGED <<wjob, done>>

\* fail() rejects: runOne rejects with it, and the loop goes on.
FailRejects(w) ==
  /\ wpc[w] = "failing"
  /\ Fault
  /\ Goto(w, "idle")
  /\ UNCHANGED <<rows, wjob, done>>

-----------------------------------------------------------------------------
(* Time *)

InTime ==
  \A w \in Worker : wpc[w] # "idle" /\ wjob[w] \in Prompt => age[wjob[w]] < Lease

Waiting == \E j \in Job : delay[j] > 0 \/ (jstat[j] = "running" /\ age[j] <= Lease)

Tick ==
  /\ InTime
  /\ Waiting
  /\ delay' = [j \in Job |-> IF delay[j] > 0 THEN delay[j] - 1 ELSE 0]
  /\ age' = [j \in Job |-> IF jstat[j] = "running" /\ age[j] <= Lease
                           THEN age[j] + 1 ELSE age[j]]
  /\ UNCHANGED <<jstat, holder, attempts, workers, done, faults>>

-----------------------------------------------------------------------------
Run(w) == HandlerReturns(w) \/ HandlerThrows(w) \/ Succeed(w) \/ Fail(w)

Next ==
  \/ \E j \in Job, d \in Delays : Enqueue(j, d)
  \/ \E w \in Worker, j \in Job : Claim(w, j) \/ ClaimLost(w, j)
  \/ \E w \in Worker : Run(w) \/ Crash(w) \/ SucceedRejects(w) \/ FailRejects(w)
  \/ EnqueueRejects
  \/ Tick

Spec == Init /\ [][Next]_vars

\* Workers poll while there is something to claim, every handler and every
\* statement ends, and time passes.
Fairness ==
  /\ \A w \in Worker : WF_vars(\E j \in Job : Claim(w, j)) /\ WF_vars(Run(w))
  /\ WF_vars(Tick)

FairSpec == Spec /\ Fairness

-----------------------------------------------------------------------------
(* Safety *)

Busy(w) == wpc[w] # "idle"

(***************************************************************************)
(* "Two workers racing for one job: exactly one wins", also when a lease   *)
(* is reclaimed or an answer got lost: no two live workers are ever at     *)
(* work on the same job, if its handler keeps within the lease.            *)
(***************************************************************************)
OneRunner ==
  \A v, w \in Worker :
    Busy(v) /\ Busy(w) /\ wjob[v] = wjob[w] /\ wjob[v] \in Prompt => v = w

(***************************************************************************)
(* The CHECK jobs_running_holds_lease: exactly the running jobs are held.  *)
(***************************************************************************)
RunningHoldsLease == \A j \in Job : jstat[j] = "running" <=> holder[j] # NoOne

(***************************************************************************)
(* At least once: a job counts as succeeded only after a handler has run   *)
(* on it to the end.                                                       *)
(***************************************************************************)
SucceededWasDone == \A j \in Job : jstat[j] = "succeeded" => done[j]

(***************************************************************************)
(* "A job that exhausts max_attempts becomes dead": it is claimed more     *)
(* often than that only after crashes and failed statements, which leave   *)
(* its lease to run out, and no more often than there were of these, if    *)
(* its handler keeps within the lease.                                     *)
(***************************************************************************)
AttemptsWithinFaults == \A j \in Prompt : attempts[j] <= MaxAttempts + faults

-----------------------------------------------------------------------------
(* What a step may never do *)

(***************************************************************************)
(* "A lease that has NOT expired is left alone": while a worker is at work *)
(* under a live lease, nobody else takes, releases or closes its job, if   *)
(* its handler keeps within the lease.                                     *)
(***************************************************************************)
LeaseHonoured ==
  [][\A w \in Worker :
       LET j == wjob[w]
       IN /\ j \in Prompt /\ Busy(w) /\ jstat[j] = "running" /\ holder[j] = w /\ age[j] <= Lease
          /\ UNCHANGED wpc[w]
          => jstat'[j] = "running" /\ holder'[j] = w]_vars

(***************************************************************************)
(* "At or past max_attempts it becomes dead: never retried", not even when *)
(* a worker that outlived its lease writes its own outcome over it.        *)
(***************************************************************************)
DeadNeverRetried ==
  [][\A j \in Job : jstat[j] = "dead" => jstat'[j] \notin {"pending", "running"}]_vars

-----------------------------------------------------------------------------
(* Liveness *)

(***************************************************************************)
(* "Survives a restart": whatever crashes, every enqueued job that some    *)
(* worker handles succeeds or is laid out dead.                            *)
(***************************************************************************)
EveryJobEnds ==
  \A j \in Job : (\E w \in Worker : j \in Handles[w]) =>
    (jstat[j] = "pending" ~> jstat[j] \in {"succeeded", "dead"})
=============================================================================

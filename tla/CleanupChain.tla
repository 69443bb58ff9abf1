---------------------------- MODULE CleanupChain ----------------------------
(***************************************************************************)
(* The recurring session cleanup on top of the job queue.  There is no     *)
(* cron: each run enqueues the next one, under a key that names the UTC    *)
(* day it belongs to, and every boot enqueues the first one the same way.  *)
(* The jobs 1, 2, ... are the rows with the keys of those days; jobs of    *)
(* other kinds are left out.                                               *)
(*                                                                         *)
(* The key and the delay are computed from the clock of the host, the row  *)
(* becomes due by the clock of the database, and another host may run it:  *)
(* the three clocks need not agree, and "00:00:30, clear of the boundary"  *)
(* is there for that.                                                      *)
(***************************************************************************)
EXTENDS JobQueue

CONSTANTS Horizon,   \* the last day of the model
          DayLength, \* in ticks
          Margin,    \* from midnight to the run, in ticks
          Skew       \* Skew[w]: how far w's clock is ahead of the database's

Day == 1 .. Horizon

ASSUME ChainAssumption ==
  /\ Horizon \in Nat \ {0}
  /\ DayLength \in Nat \ {0}
  /\ Margin \in 0 .. DayLength - 1
  /\ Skew \in [Worker -> 0 .. DayLength - 1]
  /\ \A v, w \in Worker : Skew[v] <= Skew[w] + Margin
  /\ Job = Day

VARIABLES now,  \* the clock of the database
          boot, \* boot[w]: the enqueue of w's start-up that is under way
          next  \* next[w]: how far the cleanup handler of w has come

chain == <<vars, now, boot, next>>

NoPlan == [day |-> 0, wait |-> 0]

-----------------------------------------------------------------------------
(* nextDay, dayBucket *)

HostClock(w) == now + Skew[w]

\* Slip: at midnight itself.
AtMidnight(d) == d * DayLength

RunAt(d) == d * DayLength + Margin

AtLeastZero(n) == IF n > 0 THEN n ELSE 0

NextDay(w) ==
  LET d == HostClock(w) \div DayLength + 1
  IN [day |-> d, wait |-> AtLeastZero(RunAt(d) - HostClock(w))]

\* One host boots while the others are up, their own enqueue having failed.
ChainInit ==
  /\ Init
  /\ now = 0
  /\ \E v \in Worker : boot = [w \in Worker |-> IF w = v THEN NextDay(w) ELSE NoPlan]
  /\ next = [w \in Worker |-> NoPlan]

\* enqueue under the key of a day: a no-op when the day has its row.
Schedule(plan) ==
  \/ plan.day \in Day /\ Enqueue(plan.day, plan.wait)
  \/ (plan.day \in Day => jstat[plan.day] # "absent") /\ UNCHANGED vars

-----------------------------------------------------------------------------
(* Boot *)

\* scheduleSessionCleanup at start-up; when it fails that is only logged.
Seed(w) ==
  /\ boot[w] # NoPlan
  /\ Schedule(boot[w])
  /\ boot' = [boot EXCEPT ![w] = NoPlan]
  /\ UNCHANGED <<now, next>>

SeedFails(w) ==
  /\ boot[w] # NoPlan
  /\ EnqueueRejects
  /\ boot' = [boot EXCEPT ![w] = NoPlan]
  /\ UNCHANGED <<now, next>>

\* The process dies and starts again.
Restart(w) ==
  /\ Crash(w)
  /\ boot' = [boot EXCEPT ![w] = NextDay(w)]
  /\ next' = [next EXCEPT ![w] = NoPlan]
  /\ UNCHANGED now

-----------------------------------------------------------------------------
(* The handler *)

Scheduled == [day |-> 0, wait |-> 1]

Cleaning(w) == wpc[w] = "handling"

\* The DELETE has been answered: the clock is read and the INSERT sent.
DeleteSessions(w) ==
  /\ Cleaning(w)
  /\ next[w] = NoPlan
  /\ next' = [next EXCEPT ![w] = NextDay(w)]
  /\ UNCHANGED <<vars, now, boot>>

ScheduleNext(w) ==
  /\ Cleaning(w)
  /\ next[w] \notin {NoPlan, Scheduled}
  /\ Schedule(next[w])
  /\ next' = [next EXCEPT ![w] = Scheduled]
  /\ UNCHANGED <<now, boot>>

\* Every other step of a worker; a cleanup returns once it has scheduled.
ReadyToReturn(w) == next[w] = Scheduled

WorkerStep(w) ==
  /\ \/ \E j \in Job : Claim(w, j) \/ ClaimLost(w, j)
     \/ HandlerReturns(w) /\ ReadyToReturn(w)
     \/ HandlerThrows(w) \/ Succeed(w) \/ Fail(w)
     \/ SucceedRejects(w) \/ FailRejects(w)
  /\ next' = [next EXCEPT ![w] = NoPlan]
  /\ UNCHANGED <<now, boot>>

-----------------------------------------------------------------------------
(* Time.  The last day of the model has no end: now stops before the       *)
(* fastest host comes to Horizon.                                          *)

Later == now + 1

PassTime ==
  /\ InTime
  /\ \/ Tick
     \/ ~Waiting /\ UNCHANGED vars
  /\ now' = IF \A w \in Worker : Later + Skew[w] < Horizon * DayLength THEN Later ELSE now
  /\ UNCHANGED <<boot, next>>

-----------------------------------------------------------------------------
ChainNext ==
  \/ \E w \in Worker :
       \/ Seed(w) \/ SeedFails(w) \/ Restart(w)
       \/ DeleteSessions(w) \/ ScheduleNext(w) \/ WorkerStep(w)
  \/ PassTime

ChainSpec == ChainInit /\ [][ChainNext]_chain

ChainFairness ==
  /\ \A w \in Worker :
       /\ WF_chain(\E j \in Job : Claim(w, j) /\ WorkerStep(w))
       /\ WF_chain(DeleteSessions(w))
       /\ WF_chain(ScheduleNext(w))
       /\ WF_chain(Run(w) /\ WorkerStep(w))
  /\ WF_chain(PassTime)

FairChain == ChainSpec /\ ChainFairness

-----------------------------------------------------------------------------
(* Safety *)

(***************************************************************************)
(* "The chain cannot be dropped without the job itself being marked dead": *)
(* once some day has its row, there is a row still to run, or a dead one,  *)
(* whatever crashes, fails, or runs twice, and whichever host runs it.     *)
(* (The row of the last day of the model is a row still to run.)           *)
(***************************************************************************)
ChainUnbroken ==
  (\E d \in Day : jstat[d] # "absent") =>
    \/ \E d \in Day : jstat[d] \in {"pending", "running", "dead"}
    \/ jstat[Horizon] # "absent"

=============================================================================

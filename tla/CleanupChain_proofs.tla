------------------------ MODULE CleanupChain_proofs ------------------------
(***************************************************************************)
(* Proofs about CleanupChain, for any number of days and hosts, and clocks *)
(* that differ by no more than the margin.                                 *)
(*                                                                         *)
(* The chain rests on one fact about clocks: a host that runs the cleanup  *)
(* of a day has, by its own clock, come to that day (Begun), so the run it *)
(* schedules belongs to a later one.  Whoever scheduled the run may have   *)
(* been ahead; the margin after midnight makes up for that.                *)
(***************************************************************************)
EXTENDS CleanupChain, TLAPS

Plan == [day : Nat, wait : Nat]

Types ==
  /\ now \in Nat
  /\ jstat \in [Job -> JobStatuses]
  /\ DOMAIN delay = Job
  /\ attempts \in [Job -> Nat]
  /\ wpc \in [Worker -> WorkerSteps]
  /\ wjob \in [Worker -> Job]
  /\ boot \in [Worker -> Plan]
  /\ next \in [Worker -> Plan]

\* The model's time ends before the clock of any host has come to Horizon.
Clocks == \A w \in Worker : now + Skew[w] < Horizon * DayLength

\* In n ticks every host has come to day d.
BegunIn(d, n) == \A w \in Worker : now + n + Skew[w] >= d * DayLength

GoodPlan(p) == p.day \in Day /\ BegunIn(p.day, p.wait)

Plans ==
  /\ \A w \in Worker : boot[w] # NoPlan => GoodPlan(boot[w])
  /\ \A w \in Worker : next[w] \notin {NoPlan, Scheduled} => GoodPlan(next[w])

\* Every host has come to the day of a run that was ever claimed, and will
\* have come to the day of a run that waits.
Begun ==
  \A d \in Day : d < Horizon /\ jstat[d] # "absent" =>
    IF attempts[d] = 0 THEN delay[d] \in Nat /\ BegunIn(d, delay[d]) ELSE BegunIn(d, 0)

Claimed ==
  /\ \A d \in Day : jstat[d] = "absent" => attempts[d] = 0
  /\ \A d \in Day : jstat[d] = "running" => attempts[d] # 0
  /\ \A w \in Worker : Busy(w) => jstat[wjob[w]] # "absent" /\ attempts[wjob[w]] # 0

\* Some later day has its row.
Followed(d) == d < Horizon => \E e \in Day : e > d /\ jstat[e] # "absent"

Recurrence ==
  /\ \A w \in Worker :
       /\ Cleaning(w) /\ next[w] \notin {NoPlan, Scheduled} /\ wjob[w] < Horizon
            => next[w].day > wjob[w]
       /\ Cleaning(w) /\ next[w] = Scheduled => Followed(wjob[w])
       /\ wpc[w] = "succeeding" => Followed(wjob[w])
  /\ \A d \in Day : jstat[d] = "succeeded" => Followed(d)

\* If any day has its row, there is a last one that has.
LastRow ==
  (\E d \in Day : jstat[d] # "absent") =>
    \E d \in Day : jstat[d] # "absent" /\ \A e \in Day : jstat[e] # "absent" => e <= d

ChainInductive == Types /\ Clocks /\ Plans /\ Begun /\ Claimed /\ Recurrence /\ LastRow

----------------------------------------------------------------------------
(* Days *)

LEMMA DayOfClock ==
  ASSUME NEW c \in Nat, NEW n \in Nat \ {0}, NEW h \in Nat, c < h * n
  PROVE  /\ c \div n \in Nat
         /\ c \div n < h
         /\ c < (c \div n + 1) * n
OBVIOUS

LEMMA DayHasCome ==
  ASSUME NEW c \in Nat, NEW n \in Nat \ {0}, NEW d \in Nat, c >= d * n
  PROVE  c \div n >= d
OBVIOUS

LEMMA EarlierDay ==
  ASSUME NEW n \in Nat \ {0}, NEW h \in Nat, NEW d \in Nat, d < h
  PROVE  d * n \in Nat /\ d * n <= h * n - n
OBVIOUS

LEMMA Constants ==
  /\ Horizon \in Nat \ {0}
  /\ DayLength \in Nat \ {0}
  /\ Margin \in Nat /\ Margin < DayLength
  /\ Job = Day
  /\ \A w \in Worker : Skew[w] \in Nat /\ Skew[w] < DayLength
  /\ \A v, w \in Worker : Skew[v] <= Skew[w] + Margin
BY ChainAssumption

LEMMA PlanTypes == NoPlan \in Plan /\ Scheduled \in Plan /\ NoPlan # Scheduled
BY DEF NoPlan, Scheduled, Plan

\* What nextDay computes is a day of the model, and when its run is due every
\* host has come to that day.
LEMMA NextDayIsGood ==
  ASSUME now \in Nat, Clocks, NEW w \in Worker
  PROVE  NextDay(w) \in Plan /\ GoodPlan(NextDay(w))
<1> DEFINE c == HostClock(w)
           d == c \div DayLength + 1
<1>1. c \in Nat /\ c < Horizon * DayLength
  BY Constants DEF Clocks, HostClock
<1>2. c \div DayLength \in Nat /\ c \div DayLength < Horizon /\ c < d * DayLength
  BY <1>1, DayOfClock, Constants
<1>3. d \in Day /\ d \in Nat
  BY <1>2, Constants DEF Day
<1>4. d * DayLength \in Nat
  BY <1>3, Constants
<1>5. AtLeastZero(RunAt(d) - c) = d * DayLength + Margin - c
      /\ d * DayLength + Margin - c \in Nat
  <2> HIDE DEF d, c
  <2>1. c < d * DayLength
    BY <1>2
  <2>2. QED
    BY <2>1, <1>1, <1>4, Constants DEF AtLeastZero, RunAt
<1>6. NextDay(w) = [day |-> d, wait |-> d * DayLength + Margin - c]
  BY <1>5 DEF NextDay
<1>7. BegunIn(d, d * DayLength + Margin - c)
  <2> SUFFICES ASSUME NEW v \in Worker
               PROVE  now + (d * DayLength + Margin - c) + Skew[v] >= d * DayLength
    BY DEF BegunIn
  <2> DEFINE x == d * DayLength
  <2>1. x \in Nat /\ now \in Nat /\ Skew[v] \in Nat /\ Skew[w] \in Nat
        /\ Margin \in Nat /\ Skew[w] <= Skew[v] + Margin /\ c = now + Skew[w]
    BY <1>4, Constants DEF HostClock
  <2> HIDE DEF x, d, c
  <2>2. now + (x + Margin - c) + Skew[v] >= x
    BY <2>1
  <2>3. QED
    BY <2>2 DEF x
<1>8. QED
  BY <1>3, <1>5, <1>6, <1>7 DEF GoodPlan, Plan

\* A host that has come to a day schedules a later one.
LEMMA NextDayIsLater ==
  ASSUME Types, Clocks, NEW w \in Worker, NEW d \in Day, BegunIn(d, 0)
  PROVE  NextDay(w).day > d
<1> DEFINE c == HostClock(w)
<1>1. c \in Nat /\ d \in Nat /\ c >= d * DayLength
  BY Constants DEF Types, HostClock, BegunIn, Day
<1>2. c \div DayLength >= d /\ c \div DayLength \in Nat
  BY <1>1, DayHasCome, DayOfClock, Constants DEF Clocks
<1>3. NextDay(w).day = c \div DayLength + 1
  BY DEF NextDay
<1>4. QED
  BY <1>1, <1>2, <1>3

\* When the model's time is at its end, every host has come to every day but
\* the last.
LEMMA TimeIsOver ==
  ASSUME Types, Clocks, NEW u \in Worker, ~(Later + Skew[u] < Horizon * DayLength),
         NEW d \in Day, d < Horizon
  PROVE  BegunIn(d, 0)
<1> SUFFICES ASSUME NEW w \in Worker PROVE now + 0 + Skew[w] >= d * DayLength
  BY DEF BegunIn
<1> DEFINE x == d * DayLength
           y == Horizon * DayLength
<1>1. x \in Nat /\ y \in Nat /\ x <= y - DayLength
  BY EarlierDay, Constants DEF Day
<1>2. now + 1 + Skew[u] >= y
  BY <1>1, Constants DEF Later, Types
<1>3. now \in Nat /\ Skew[u] \in Nat /\ Skew[w] \in Nat /\ Margin \in Nat /\ DayLength \in Nat
      /\ Margin < DayLength /\ Skew[u] <= Skew[w] + Margin
  BY Constants DEF Types
<1> HIDE DEF x, y
<1>4. now + 0 + Skew[w] >= x
  BY <1>1, <1>2, <1>3
<1>5. QED
  BY <1>4 DEF x
----------------------------------------------------------------------------
(* The steps *)

LEMMA InitChain == ChainInit => ChainInductive
<1> SUFFICES ASSUME ChainInit PROVE ChainInductive
  OBVIOUS
<1>1. now \in Nat
  BY DEF ChainInit
<1>2. Clocks
  <2>1. 0 * DayLength <= Horizon * DayLength - DayLength
    BY Constants, EarlierDay
  <2>2. Horizon * DayLength \in Nat /\ 0 * DayLength = 0
    BY Constants
  <2>3. DayLength <= Horizon * DayLength
    BY <2>1, <2>2, Constants
  <2>4. QED
    BY <2>2, <2>3, Constants DEF Clocks, ChainInit
<1>3. \A w \in Worker : NextDay(w) \in Plan /\ GoodPlan(NextDay(w))
  BY <1>1, <1>2, NextDayIsGood
<1>4. PICK v \in Worker : boot = [w \in Worker |-> IF w = v THEN NextDay(w) ELSE NoPlan]
  BY DEF ChainInit
<1>5. Types
  BY <1>1, <1>3, <1>4, PlanTypes DEF Types, ChainInit, Init, JobStatuses, WorkerSteps
<1>6. Plans
  BY <1>3, <1>4 DEF Plans, ChainInit
<1>7. Begun /\ Claimed /\ Recurrence /\ LastRow
  BY <1>5, Constants
  DEF Begun, Claimed, Recurrence, LastRow, ChainInit, Init, Types, Cleaning, Busy
<1>8. QED
  BY <1>1, <1>2, <1>5, <1>6, <1>7 DEF ChainInductive

\* An enqueue under the key of a good plan.
LEMMA ScheduleStep ==
  ASSUME ChainInductive, NEW p \in Plan, GoodPlan(p), Schedule(p), UNCHANGED now
  PROVE  /\ jstat' \in [Job -> JobStatuses] /\ DOMAIN delay' = Job
         /\ UNCHANGED <<attempts, wpc, wjob>>
         /\ Begun' /\ Claimed' /\ LastRow'
         /\ \A d \in Day : jstat[d] # "absent" => jstat'[d] = jstat[d]
         /\ \A d \in Day : jstat[d] = "absent" => jstat'[d] \in {"absent", "pending"}
         /\ jstat'[p.day] # "absent"
<1> USE Constants DEF ChainInductive, Types
<1>1. p.day \in Day /\ p.wait \in Nat /\ BegunIn(p.day, p.wait)
  BY DEF GoodPlan, Plan
<1>2. CASE UNCHANGED vars /\ jstat[p.day] # "absent"
  BY <1>2, <1>1 DEF vars, rows, workers, Begun, BegunIn, Claimed, LastRow, Busy
<1>3. CASE Enqueue(p.day, p.wait)
  <2>1. /\ jstat' = [jstat EXCEPT ![p.day] = "pending"]
        /\ delay' = [delay EXCEPT ![p.day] = p.wait]
        /\ UNCHANGED <<attempts, wpc, wjob>>
        /\ jstat[p.day] = "absent"
    BY <1>3 DEF Enqueue, workers
  <2>2. Begun'
    <3> SUFFICES ASSUME NEW d \in Day, d < Horizon, jstat'[d] # "absent"
                 PROVE  IF attempts[d] = 0 THEN delay'[d] \in Nat /\ BegunIn(d, delay'[d])
                        ELSE BegunIn(d, 0)
      BY <2>1 DEF Begun, BegunIn
    <3>1. CASE d = p.day
      BY <3>1, <2>1, <1>1 DEF Claimed
    <3>2. CASE d # p.day
      BY <3>2, <2>1 DEF Begun
    <3>3. QED
      BY <3>1, <3>2
  <2>3. Claimed'
    BY <2>1, <1>1 DEF Claimed, Busy
  <2>4. LastRow'
    <3>1. CASE \A e \in Day : jstat[e] = "absent"
      BY <3>1, <2>1, <1>1 DEF LastRow, Day
    <3>2. CASE \E e \in Day : jstat[e] # "absent"
      <4>1. PICK d \in Day : jstat[d] # "absent" /\ \A e \in Day : jstat[e] # "absent" => e <= d
        BY <3>2 DEF LastRow
      <4>2. PICK m \in {d, p.day} : d <= m /\ p.day <= m
        BY <1>1 DEF Day
      <4>3. m \in Day /\ jstat'[m] # "absent"
        BY <4>1, <4>2, <2>1, <1>1
      <4>4. ASSUME NEW e \in Day, jstat'[e] # "absent" PROVE e <= m
        <5>1. CASE e = p.day
          BY <5>1, <4>2
        <5>2. CASE e # p.day
          <6>1. e <= d
            BY <5>2, <4>4, <4>1, <2>1
          <6>2. QED
            BY <6>1, <4>2, <4>3 DEF Day
        <5>3. QED
          BY <5>1, <5>2
      <4>5. QED
        BY <4>3, <4>4 DEF LastRow
    <3>3. QED
      BY <3>1, <3>2
  <2>5. QED
    BY <2>1, <2>2, <2>3, <2>4, <1>1 DEF JobStatuses
<1>4. QED
  BY <1>1, <1>2, <1>3 DEF Schedule

\* A step of one host that leaves the rows alone.
LEMMA StepWithoutRow ==
  ASSUME ChainInductive, NEW w \in Worker,
         UNCHANGED <<now, jstat, delay, attempts, wjob>>,
         NEW step \in WorkerSteps, Goto(w, step), step # "idle" => Busy(w),
         NEW p \in Plan, next' = [next EXCEPT ![w] = p],
         boot' \in [Worker -> Plan],
         \A v \in Worker : boot'[v] # NoPlan => GoodPlan(boot'[v]),
         p \notin {NoPlan, Scheduled} => GoodPlan(p),
         step = "handling" /\ p \notin {NoPlan, Scheduled} /\ wjob[w] < Horizon
           => p.day > wjob[w],
         step = "handling" /\ p = Scheduled => Followed(wjob[w]),
         step = "succeeding" => Followed(wjob[w])
  PROVE  ChainInductive'
<1> USE DEF ChainInductive, Types
<1>1. wpc' = [wpc EXCEPT ![w] = step]
  BY DEF Goto
<1>2. Types' /\ Clocks'
  BY <1>1 DEF Clocks
<1>3. Plans'
  BY DEF Plans, GoodPlan, BegunIn
<1>4. Begun' /\ LastRow'
  BY DEF Begun, BegunIn, LastRow
<1>5. Claimed'
  BY <1>1 DEF Claimed, Busy
<1>6. Recurrence'
  BY <1>1 DEF Recurrence, Followed, Cleaning
<1>7. QED
  BY <1>2, <1>3, <1>4, <1>5, <1>6

\* A claim: whoever can claim the run of a day has come to that day.
LEMMA TakenHasBegun ==
  ASSUME ChainInductive, NEW w \in Worker, NEW j \in Job, TakeRow(w, j), j < Horizon
  PROVE  BegunIn(j, 0)
<1>1. jstat[j] \in {"pending", "running"} /\ (delay[j] = 0 \/ jstat[j] = "running")
  BY DEF TakeRow, Due, Lapsed
<1>2. QED
  BY <1>1, Constants DEF ChainInductive, Begun, Claimed

LEMMA ChainClaim ==
  ASSUME ChainInductive, NEW w \in Worker, NEW j \in Job, TakeRow(w, j),
         NEW step \in {"idle", "handling", "failing"}, Goto(w, step),
         wjob' \in {wjob, [wjob EXCEPT ![w] = j]},
         step # "idle" => wjob'[w] = j,
         next' = [next EXCEPT ![w] = NoPlan], UNCHANGED <<now, boot>>
  PROVE  ChainInductive'
<1> USE Constants, PlanTypes DEF ChainInductive, Types
<1>1. /\ jstat' = [jstat EXCEPT ![j] = "running"]
      /\ attempts' = [attempts EXCEPT ![j] = @ + 1]
      /\ wpc' = [wpc EXCEPT ![w] = step]
      /\ delay' = delay
      /\ jstat[j] # "absent"
  BY DEF TakeRow, Goto, Due, Lapsed
<1>2. \A v \in Worker \ {w} : wjob'[v] = wjob[v] /\ wpc'[v] = wpc[v]
  BY <1>1
<1>3. Types' /\ Clocks'
  BY <1>1 DEF Clocks, JobStatuses, WorkerSteps
<1>4. Plans'
  BY DEF Plans, GoodPlan, BegunIn
<1>5. Begun'
  <2> SUFFICES ASSUME NEW d \in Day, d < Horizon, jstat'[d] # "absent"
               PROVE  IF attempts'[d] = 0 THEN delay[d] \in Nat /\ BegunIn(d, delay[d])
                      ELSE BegunIn(d, 0)
    BY <1>1 DEF Begun, BegunIn
  <2>1. CASE d = j
    BY <2>1, <1>1, TakenHasBegun
  <2>2. CASE d # j
    BY <2>2, <1>1 DEF Begun
  <2>3. QED
    BY <2>1, <2>2
<1>6. Claimed'
  BY <1>1, <1>2 DEF Claimed, Busy
<1>7. \A d \in Day : Followed(d) => Followed(d)'
  BY <1>1 DEF Followed
<1>8. Recurrence'
  BY <1>1, <1>2, <1>7 DEF Recurrence, Cleaning
<1>9. LastRow'
  BY <1>1 DEF LastRow
<1>10. QED
  BY <1>3, <1>4, <1>5, <1>6, <1>8, <1>9

\* The outcome of a run is written.
LEMMA ChainOutcome ==
  ASSUME ChainInductive, NEW w \in Worker, Busy(w),
         NEW s \in {"pending", "succeeded", "dead"},
         s = "succeeded" => Followed(wjob[w]),
         NEW step \in {"idle", "failing"}, Goto(w, step),
         jstat' = [jstat EXCEPT ![wjob[w]] = s],
         DOMAIN delay' = Job,
         \A d \in Day : d # wjob[w] => delay'[d] = delay[d],
         next' = [next EXCEPT ![w] = NoPlan], UNCHANGED <<now, boot, attempts, wjob>>
  PROVE  ChainInductive'
<1> USE Constants, PlanTypes DEF ChainInductive, Types
<1>1. PICK j \in Day : j = wjob[w]
  OBVIOUS
<1>2. wpc' = [wpc EXCEPT ![w] = step] /\ jstat[j] # "absent" /\ attempts[j] # 0
  BY <1>1 DEF Goto, Claimed
<1>3. Types' /\ Clocks'
  BY <1>2 DEF Clocks, JobStatuses, WorkerSteps
<1>4. Plans'
  BY DEF Plans, GoodPlan, BegunIn
<1>5. Begun'
  BY <1>1, <1>2 DEF Begun, BegunIn
<1>6. Claimed'
  BY <1>1, <1>2 DEF Claimed, Busy
<1>7. \A d \in Day : Followed(d) => Followed(d)'
  BY <1>1, <1>2 DEF Followed
<1>8. Recurrence'
  BY <1>1, <1>2, <1>7 DEF Recurrence, Cleaning
<1>9. LastRow'
  BY <1>1, <1>2 DEF LastRow
<1>10. QED
  BY <1>3, <1>4, <1>5, <1>6, <1>8, <1>9

\* A plan is carried out, by a boot or by a run.
LEMMA SeedStep ==
  ASSUME ChainInductive, NEW w \in Worker, Seed(w)
  PROVE  ChainInductive'
<1> USE PlanTypes, Constants DEF ChainInductive, Types
<1>1. boot[w] \in Plan /\ GoodPlan(boot[w]) /\ Schedule(boot[w])
      /\ boot' = [boot EXCEPT ![w] = NoPlan] /\ UNCHANGED <<now, next>>
  BY DEF Seed, Plans
<1>2. /\ jstat' \in [Job -> JobStatuses] /\ DOMAIN delay' = Job
      /\ UNCHANGED <<attempts, wpc, wjob>>
      /\ Begun' /\ Claimed' /\ LastRow'
      /\ \A d \in Day : jstat[d] # "absent" => jstat'[d] = jstat[d]
      /\ \A d \in Day : jstat[d] = "absent" => jstat'[d] \in {"absent", "pending"}
  BY <1>1, ScheduleStep
<1>3. Types' /\ Clocks'
  BY <1>1, <1>2 DEF Clocks
<1>4. Plans'
  BY <1>1 DEF Plans, GoodPlan, BegunIn
<1>5. \A d \in Day : Followed(d) => Followed(d)'
  BY <1>2 DEF Followed
<1>6. Recurrence'
  BY <1>1, <1>2, <1>5 DEF Recurrence, Cleaning
<1>7. QED
  BY <1>2, <1>3, <1>4, <1>6

LEMMA ScheduleNextStep ==
  ASSUME ChainInductive, NEW w \in Worker, ScheduleNext(w)
  PROVE  ChainInductive'
<1> USE PlanTypes, Constants DEF ChainInductive, Types
<1>1. /\ next[w] \in Plan /\ GoodPlan(next[w]) /\ Schedule(next[w]) /\ Cleaning(w)
      /\ next' = [next EXCEPT ![w] = Scheduled] /\ UNCHANGED <<now, boot>>
      /\ wjob[w] < Horizon => next[w].day > wjob[w]
  BY DEF ScheduleNext, Plans, Recurrence
<1>2. /\ jstat' \in [Job -> JobStatuses] /\ DOMAIN delay' = Job
      /\ UNCHANGED <<attempts, wpc, wjob>>
      /\ Begun' /\ Claimed' /\ LastRow'
      /\ \A d \in Day : jstat[d] # "absent" => jstat'[d] = jstat[d]
      /\ \A d \in Day : jstat[d] = "absent" => jstat'[d] \in {"absent", "pending"}
      /\ jstat'[next[w].day] # "absent"
  BY <1>1, ScheduleStep
<1>3. Types' /\ Clocks'
  BY <1>1, <1>2 DEF Clocks
<1>4. Plans'
  BY <1>1 DEF Plans, GoodPlan, BegunIn
<1>5. \A d \in Day : Followed(d) => Followed(d)'
  BY <1>2 DEF Followed
<1>6. Followed(wjob[w])'
  BY <1>1, <1>2 DEF Followed, GoodPlan
<1>7. Recurrence'
  BY <1>1, <1>2, <1>5, <1>6 DEF Recurrence, Cleaning
<1>8. QED
  BY <1>2, <1>3, <1>4, <1>7

\* Time: while it passes in the model a delay shrinks by what the clocks gain,
\* and when it is over every host has come to every day but the last.
LEMMA PassTimeStep ==
  ASSUME ChainInductive, PassTime
  PROVE  ChainInductive'
<1> USE Constants DEF ChainInductive, Types
<1>1. /\ UNCHANGED <<jstat, attempts, wpc, wjob, boot, next>>
      /\ \/ delay' = delay
         \/ delay' = [j \in Job |-> IF delay[j] > 0 THEN delay[j] - 1 ELSE 0]
      /\ now' = IF \A w \in Worker : Later + Skew[w] < Horizon * DayLength THEN Later ELSE now
  BY DEF PassTime, Tick, vars, rows, workers
<1>2. now' \in Nat /\ now' >= now
  BY <1>1 DEF Later
<1>3. Types'
  BY <1>1, <1>2
<1>4. Clocks'
  BY <1>1 DEF Clocks
<1>5. ASSUME NEW d \in Nat, NEW n \in Nat, BegunIn(d, n) PROVE BegunIn(d, n)'
  <2> SUFFICES ASSUME NEW w \in Worker PROVE now' + n + Skew[w] >= d * DayLength
    BY DEF BegunIn
  <2> DEFINE x == d * DayLength
  <2>1. now + n + Skew[w] >= x /\ x \in Nat
    BY <1>5 DEF BegunIn
  <2> HIDE DEF x
  <2>2. now' + n + Skew[w] >= x
    BY <2>1, <1>2
  <2>3. QED
    BY <2>2 DEF x
<1>6. Plans'
  <2>1. ASSUME NEW p \in Plan, GoodPlan(p) PROVE GoodPlan(p)'
    BY <2>1, <1>5 DEF GoodPlan, Plan, Day
  <2>2. QED
    BY <1>1, <2>1 DEF Plans
<1>7. Begun'
  <2> SUFFICES ASSUME NEW d \in Day, d < Horizon, jstat[d] # "absent"
               PROVE  IF attempts[d] = 0
                      THEN /\ delay'[d] \in Nat
                           /\ \A w \in Worker : now' + delay'[d] + Skew[w] >= d * DayLength
                      ELSE BegunIn(d, 0)'
    BY <1>1 DEF Begun, BegunIn
  <2>1. CASE attempts[d] # 0
    BY <2>1, <1>5 DEF Begun, Day
  <2>2. CASE attempts[d] = 0
    <3>1. delay[d] \in Nat /\ BegunIn(d, delay[d])
      BY <2>2 DEF Begun
    <3>2. CASE delay' = delay
      <4>1. delay'[d] = delay[d]
        BY <3>2
      <4>2. \A w \in Worker : now' + delay[d] + Skew[w] >= d * DayLength
        <5> DEFINE n == delay[d]
        <5>1. n \in Nat /\ d \in Nat /\ \A w \in Worker : now + n + Skew[w] >= d * DayLength
          BY <3>1 DEF BegunIn, Day
        <5>2. TAKE w \in Worker
        <5> DEFINE x == d * DayLength
        <5>3. x \in Nat
          BY <5>1
        <5>4. now + n + Skew[w] >= x
          BY <5>1
        <5> HIDE DEF x, n
        <5>5. now' + n + Skew[w] >= x
          BY <5>1, <5>3, <5>4, <1>2
        <5>6. QED
          BY <5>5 DEF x, n
      <4>3. QED
        BY <2>2, <3>1, <4>1, <4>2
    <3>3. CASE delay' = [j \in Job |-> IF delay[j] > 0 THEN delay[j] - 1 ELSE 0]
      <4>1. delay'[d] \in Nat /\ delay'[d] + 1 >= delay[d]
        BY <3>1, <3>3
      <4>2. CASE now' = Later
        <5> SUFFICES ASSUME NEW w \in Worker PROVE now' + delay'[d] + Skew[w] >= d * DayLength
          BY <2>2, <4>1
        <5> DEFINE x == d * DayLength
        <5>1. now + delay[d] + Skew[w] >= x /\ x \in Nat /\ now' = now + 1
          BY <3>1, <4>2 DEF BegunIn, Later, Day
        <5> HIDE DEF x
        <5>2. now' + delay'[d] + Skew[w] >= x
          BY <5>1, <4>1, <3>1
        <5>3. QED
          BY <5>2 DEF x
      <4>3. CASE now' # Later
        <5>1. PICK u \in Worker : ~(Later + Skew[u] < Horizon * DayLength)
          BY <1>1, <4>3
        <5>2. BegunIn(d, 0)
          BY <5>1, TimeIsOver
        <5>3. BegunIn(d, 0)'
          BY <5>2, <1>5 DEF Day
        <5>4. QED
          <6> SUFFICES ASSUME NEW w \in Worker
                       PROVE  now' + delay'[d] + Skew[w] >= d * DayLength
            BY <2>2, <4>1
          <6> DEFINE x == d * DayLength
          <6>1. now' + 0 + Skew[w] >= x /\ x \in Nat
            BY <5>3 DEF BegunIn, Day
          <6> HIDE DEF x
          <6>2. now' + delay'[d] + Skew[w] >= x
            BY <6>1, <4>1, <1>2
          <6>3. QED
            BY <6>2 DEF x
      <4>4. QED
        BY <4>2, <4>3
    <3>4. QED
      BY <3>2, <3>3, <1>1
  <2>3. QED
    BY <2>1, <2>2
<1>8. Claimed' /\ Recurrence' /\ LastRow'
  BY <1>1 DEF Claimed, Busy, Recurrence, Followed, Cleaning, LastRow
<1>9. QED
  BY <1>3, <1>4, <1>6, <1>7, <1>8

----------------------------------------------------------------------------
LEMMA WorkerStepKeeps ==
  ASSUME ChainInductive, NEW w \in Worker, WorkerStep(w)
  PROVE  ChainInductive'
<1> USE PlanTypes, Constants DEF ChainInductive, Types
<1>1. next' = [next EXCEPT ![w] = NoPlan] /\ UNCHANGED <<now, boot>>
  BY DEF WorkerStep
<1>2. \A v \in Worker : boot'[v] # NoPlan => GoodPlan(boot'[v])
  BY <1>1 DEF Plans
<1>3. ASSUME NEW j \in Job, Claim(w, j) \/ ClaimLost(w, j) PROVE ChainInductive'
  <2>1. CASE Claim(w, j)
    <3>1. PICK step \in {"handling", "failing"} : Goto(w, step)
      BY <2>1 DEF Claim
    <3>2. QED
      BY <2>1, <3>1, <1>1, ChainClaim DEF Claim
  <2>2. CASE ClaimLost(w, j)
    <3>1. Goto(w, "idle") /\ wjob' = wjob
      BY <2>2 DEF ClaimLost, TakeRow, Goto, workers
    <3>2. QED
      BY <2>2, <3>1, <1>1, ChainClaim DEF ClaimLost
  <2>3. QED
    BY <1>3, <2>1, <2>2
<1>4. CASE HandlerReturns(w) /\ ReadyToReturn(w)
  <2>1. Goto(w, "succeeding") /\ Busy(w) /\ Followed(wjob[w])
        /\ UNCHANGED <<jstat, delay, attempts, wjob>>
    BY <1>4 DEF HandlerReturns, ReadyToReturn, Recurrence, Cleaning, Busy, rows
  <2>2. QED
    BY <2>1, <1>1, <1>2, StepWithoutRow DEF WorkerSteps
<1>5. CASE HandlerThrows(w) \/ FailRejects(w) \/ (SucceedRejects(w) /\ UNCHANGED rows)
  <2>1. PICK step \in {"idle", "failing"} : Goto(w, step)
    BY <1>5 DEF HandlerThrows, FailRejects, SucceedRejects, AfterThrow
  <2>2. Busy(w) /\ UNCHANGED <<jstat, delay, attempts, wjob>>
    BY <1>5 DEF HandlerThrows, FailRejects, SucceedRejects, Busy, rows
  <2>3. QED
    BY <2>1, <2>2, <1>1, <1>2, StepWithoutRow DEF WorkerSteps
<1>6. CASE Succeed(w) \/ (SucceedRejects(w) /\ SetSucceeded(wjob[w]))
  <2>1. PICK step \in {"idle", "failing"} : Goto(w, step)
    BY <1>6 DEF Succeed, SucceedRejects
  <2>2. Busy(w) /\ Followed(wjob[w]) /\ SetSucceeded(wjob[w]) /\ wjob' = wjob
    BY <1>6 DEF Succeed, SucceedRejects, Busy, Recurrence
  <2>3. QED
    BY <2>1, <2>2, <1>1, ChainOutcome DEF SetSucceeded
<1>7. CASE Fail(w)
  <2>1. Goto(w, "idle") /\ Busy(w) /\ SetFailed(wjob[w]) /\ wjob' = wjob
    BY <1>7 DEF Fail, Busy
  <2>2. /\ DOMAIN delay' = Job
        /\ \A d \in Day : d # wjob[w] => delay'[d] = delay[d]
        /\ attempts' = attempts
    BY <2>1 DEF SetFailed
  <2>3. PICK s \in {"pending", "dead"} : jstat' = [jstat EXCEPT ![wjob[w]] = s]
    BY <2>1 DEF SetFailed, LaidOut
  <2>4. QED
    BY <2>1, <2>2, <2>3, <1>1, ChainOutcome
<1>8. QED
  BY <1>3, <1>4, <1>5, <1>6, <1>7 DEF WorkerStep, SucceedRejects

LEMMA ChainStep == ChainInductive /\ [ChainNext]_chain => ChainInductive'
<1> SUFFICES ASSUME ChainInductive, [ChainNext]_chain PROVE ChainInductive'
  OBVIOUS
<1> USE PlanTypes, Constants DEF ChainInductive, Types
<1>1. ASSUME NEW w \in Worker, SeedFails(w) PROVE ChainInductive'
  <2>1. /\ UNCHANGED <<now, jstat, delay, attempts, wjob>>
        /\ Goto(w, wpc[w]) /\ wpc[w] \in WorkerSteps
        /\ next' = [next EXCEPT ![w] = next[w]]
        /\ boot' = [boot EXCEPT ![w] = NoPlan]
    BY <1>1 DEF SeedFails, EnqueueRejects, rows, workers, Goto
  <2>2. boot' \in [Worker -> Plan] /\ \A v \in Worker : boot'[v] # NoPlan => GoodPlan(boot'[v])
    BY <2>1 DEF Plans
  <2>3. QED
    BY <2>1, <2>2, StepWithoutRow DEF Plans, Recurrence, Cleaning, Busy
<1>2. ASSUME NEW w \in Worker, Restart(w) PROVE ChainInductive'
  <2>1. /\ UNCHANGED <<now, jstat, delay, attempts, wjob>>
        /\ Goto(w, "idle")
        /\ next' = [next EXCEPT ![w] = NoPlan]
        /\ boot' = [boot EXCEPT ![w] = NextDay(w)]
    BY <1>2 DEF Restart, Crash, rows
  <2>2. boot' \in [Worker -> Plan] /\ \A v \in Worker : boot'[v] # NoPlan => GoodPlan(boot'[v])
    BY <2>1, NextDayIsGood DEF Plans
  <2>3. QED
    BY <2>1, <2>2, StepWithoutRow DEF WorkerSteps
<1>3. ASSUME NEW w \in Worker, DeleteSessions(w) PROVE ChainInductive'
  <2>1. /\ UNCHANGED <<now, jstat, delay, attempts, wjob, boot>>
        /\ Goto(w, "handling") /\ Busy(w)
        /\ next' = [next EXCEPT ![w] = NextDay(w)]
    BY <1>3 DEF DeleteSessions, Cleaning, vars, rows, workers, Goto, Busy
  <2>2. NextDay(w) \in Plan /\ GoodPlan(NextDay(w)) /\ NextDay(w) # Scheduled
    BY NextDayIsGood, PlanTypes DEF GoodPlan, Scheduled, Day
  <2>3. wjob[w] < Horizon => NextDay(w).day > wjob[w]
    BY <2>1, NextDayIsLater DEF Claimed, Begun
  <2>4. QED
    BY <2>1, <2>2, <2>3, StepWithoutRow DEF Plans, WorkerSteps
<1>4. CASE UNCHANGED chain
  BY <1>4
  DEF chain, vars, rows, workers, Clocks, Plans, GoodPlan, BegunIn, Begun, Claimed, Busy,
      Recurrence, Cleaning, Followed, LastRow
<1>5. QED
  BY <1>1, <1>2, <1>3, <1>4, SeedStep, ScheduleNextStep, WorkerStepKeeps, PassTimeStep
  DEF ChainNext

LEMMA ChainInductiveHolds == ChainSpec => []ChainInductive
BY InitChain, ChainStep, PTL DEF ChainSpec

(***************************************************************************)
(* Once some day has its row, one is still to run, or is laid out dead:    *)
(* whatever crashes, fails or runs twice, on however many hosts, if their  *)
(* clocks differ by no more than the margin after midnight.                *)
(***************************************************************************)
THEOREM ChainUnbrokenHolds == ChainSpec => []ChainUnbroken
<1>1. ChainInductive => ChainUnbroken
  <2> SUFFICES ASSUME ChainInductive, \E d \in Day : jstat[d] # "absent" PROVE ChainUnbroken
    BY DEF ChainUnbroken
  <2>1. PICK d \in Day : jstat[d] # "absent" /\ \A e \in Day : jstat[e] # "absent" => e <= d
    BY DEF ChainInductive, LastRow
  <2>2. CASE d = Horizon
    BY <2>1, <2>2 DEF ChainUnbroken
  <2>3. CASE d # Horizon
    <3>1. ~Followed(d)
      BY <2>1, <2>3, Constants DEF Followed, Day
    <3>2. jstat[d] \in {"pending", "running", "dead"}
      BY <2>1, <3>1, Constants DEF ChainInductive, Types, Recurrence, JobStatuses
    <3>3. QED
      BY <3>2 DEF ChainUnbroken
  <2>4. QED
    BY <2>2, <2>3
<1>2. QED
  BY <1>1, ChainInductiveHolds, PTL

(***************************************************************************)
(* The chain of cleanups is a behaviour of the job queue, of which all     *)
(* that is proved in JobQueue_proofs therefore holds of the cleanups.      *)
(***************************************************************************)
THEOREM ChainIsQueue == ASSUME Delays = Nat PROVE ChainSpec => Spec
<1>1. ChainInit => Init
  BY DEF ChainInit
<1>2. ChainInductive /\ [ChainNext]_chain => [Next]_vars
  <2> SUFFICES ASSUME ChainInductive, ChainNext PROVE [Next]_vars
    BY DEF chain
  <2>1. ASSUME NEW p \in Plan, Schedule(p) PROVE [Next]_vars
    BY <2>1, Constants DEF Schedule, Next, Plan
  <2>2. ASSUME NEW w \in Worker, Seed(w) \/ ScheduleNext(w) PROVE [Next]_vars
    BY <2>1, <2>2 DEF Seed, ScheduleNext, ChainInductive, Types
  <2>3. ASSUME NEW w \in Worker, SeedFails(w) \/ Restart(w) \/ DeleteSessions(w)
        PROVE  [Next]_vars
    BY <2>3 DEF SeedFails, Restart, DeleteSessions, Next
  <2>4. ASSUME NEW w \in Worker, WorkerStep(w) PROVE [Next]_vars
    BY <2>4 DEF WorkerStep, Next, Run
  <2>5. CASE PassTime
    BY <2>5 DEF PassTime, Next
  <2>6. QED
    BY <2>2, <2>3, <2>4, <2>5 DEF ChainNext
<1>3. QED
  BY <1>1, <1>2, ChainInductiveHolds, PTL DEF ChainSpec, Spec
=============================================================================

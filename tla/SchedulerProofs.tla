--------------------------- MODULE SchedulerProofs ---------------------------
(***************************************************************************)
(* Theorems about Scheduler, for every set of tasks, clock width, tick and *)
(* set of durations, and about Interrupts, which implements it, for every  *)
(* set of devices and drivers.                                             *)
(***************************************************************************)
EXTENDS Interrupts, SequenceTheorems, TLAPS

-----------------------------------------------------------------------------
(* Inserting into a sequence *)

\* The elements of p, then e, then those of q.
LEMMA AroundElement ==
    ASSUME NEW S, NEW p \in Seq(S), NEW q \in Seq(S), NEW e \in S
    PROVE  /\ p \o <<e>> \o q \in Seq(S)
           /\ Len(p \o <<e>> \o q) = Len(p) + 1 + Len(q)
           /\ \A j \in 1..(Len(p) + 1 + Len(q)) :
                 (p \o <<e>> \o q)[j] =
                     IF j <= Len(p) THEN p[j]
                     ELSE IF j = Len(p) + 1 THEN e ELSE q[j - Len(p) - 1]
OBVIOUS

\* What InsertAt builds: the elements before position i, e, and the rest
\* moved up by one.
LEMMA InsertAtProperties ==
    ASSUME NEW s \in Seq(SleepRecord), NEW i \in 1..(Len(s) + 1),
           NEW e \in SleepRecord
    PROVE  /\ InsertAt(s, i, e) \in Seq(SleepRecord)
           /\ Len(InsertAt(s, i, e)) = Len(s) + 1
           /\ \A j \in 1..(Len(s) + 1) :
                 InsertAt(s, i, e)[j] =
                     IF j < i THEN s[j] ELSE IF j = i THEN e ELSE s[j - 1]
<1>1. Len(s) \in Nat /\ \A j \in 1..Len(s) : s[j] \in SleepRecord
  OBVIOUS
<1>2. /\ SubSeq(s, 1, i - 1) \in Seq(SleepRecord)
      /\ Len(SubSeq(s, 1, i - 1)) = i - 1
      /\ \A j \in 1..(i - 1) : SubSeq(s, 1, i - 1)[j] = s[j]
  OBVIOUS
<1>3. /\ SubSeq(s, i, Len(s)) \in Seq(SleepRecord)
      /\ Len(SubSeq(s, i, Len(s))) = Len(s) - i + 1
      /\ \A j \in 1..(Len(s) - i + 1) :
            SubSeq(s, i, Len(s))[j] = s[i + j - 1]
  OBVIOUS
<1>4. PICK p \in Seq(SleepRecord) : p = SubSeq(s, 1, i - 1)
  BY <1>2
<1>5. PICK q \in Seq(SleepRecord) : q = SubSeq(s, i, Len(s))
  BY <1>3
<1>6. InsertAt(s, i, e) = p \o <<e>> \o q
  BY <1>4, <1>5 DEF InsertAt
<1>7. Len(p) = i - 1 /\ \A j \in 1..(i - 1) : p[j] = s[j]
  BY <1>2, <1>4
<1>8. /\ Len(q) = Len(s) - i + 1
      /\ \A j \in 1..(Len(s) - i + 1) : q[j] = s[i + j - 1]
  BY <1>3, <1>5
<1>9. Len(p) + 1 + Len(q) = Len(s) + 1
  BY <1>1, <1>7, <1>8
<1>10. ASSUME NEW j \in 1..(Len(s) + 1)
       PROVE  (p \o <<e>> \o q)[j] =
                 IF j < i THEN s[j] ELSE IF j = i THEN e ELSE s[j - 1]
  <2>1. (p \o <<e>> \o q)[j] =
           IF j <= Len(p) THEN p[j]
           ELSE IF j = Len(p) + 1 THEN e ELSE q[j - Len(p) - 1]
    BY <1>9, AroundElement
  <2>2. CASE j <= i
    BY <1>1, <1>7, <2>1, <2>2
  <2>3. CASE j > i
    <3>1. ~(j <= Len(p)) /\ j # Len(p) + 1 /\ j - Len(p) - 1 = j - i
      BY <1>1, <1>7, <2>3
    <3>2. j - i \in 1..(Len(s) - i + 1) /\ i + (j - i) - 1 = j - 1
      BY <1>1, <2>3
    <3>3. q[j - i] = s[j - 1]
      BY <1>8, <3>2
    <3>4. (p \o <<e>> \o q)[j] = q[j - i]
      BY <2>1, <3>1, Zenon
    <3>5. ~(j < i) /\ j # i
      BY <1>1, <2>3
    <3> QED
      BY <3>3, <3>4, <3>5
  <2>4. j <= i \/ j > i
    BY <1>1
  <2> QED
    BY <2>2, <2>3, <2>4
<1>11. /\ p \o <<e>> \o q \in Seq(SleepRecord)
       /\ Len(p \o <<e>> \o q) = Len(s) + 1
  BY <1>9, AroundElement
<1> QED
  BY <1>6, <1>10, <1>11

-----------------------------------------------------------------------------
(* Types *)

\* The variables schedule() assigns keep their types, whatever well-typed
\* list and states its caller leaves behind.
LEMMA IdleOrSwitchType ==
    ASSUME TypeOK,
           NEW ready \in Seq(Tasks), NEW st \in [Tasks -> TaskStates],
           IdleOrSwitch(ready, st)
    PROVE  /\ ready_tasks' \in Seq(Tasks)
           /\ state' \in [Tasks -> TaskStates]
           /\ current_task' \in Tasks
           /\ postponed' \in BOOLEAN
           /\ interrupts' \in BOOLEAN
           /\ cpu' \in CpuStates
<1>1. CASE ready = <<>>
  BY <1>1 DEF IdleOrSwitch, TypeOK, CpuStates
<1>2. CASE ready # <<>>
  <2>1. Head(ready) \in Tasks /\ Tail(ready) \in Seq(Tasks)
    BY <1>2
  <2> QED
    BY <1>2, <2>1 DEF IdleOrSwitch, TypeOK, CpuStates, TaskStates
<1> QED
  BY <1>1, <1>2

\* The same for schedule() with its early return.
LEMMA ScheduleType ==
    ASSUME TypeOK,
           NEW ready \in Seq(Tasks), NEW st \in [Tasks -> TaskStates],
           NEW return \in CpuStates,
           Schedule(ready, st, return)
    PROVE  /\ ready_tasks' \in Seq(Tasks)
           /\ state' \in [Tasks -> TaskStates]
           /\ current_task' \in Tasks
           /\ postponed' \in BOOLEAN
           /\ interrupts' \in BOOLEAN
           /\ cpu' \in CpuStates
<1>1. CASE postponed
  BY <1>1 DEF Schedule, TypeOK
<1>2. CASE ~postponed
  <2>1. IdleOrSwitch(ready, st)
    BY <1>2 DEF Schedule
  <2> QED
    BY <2>1, IdleOrSwitchType
<1> QED
  BY <1>1, <1>2

\* What the timer handler makes of ready_tasks.
LEMMA AwakenedType ==
    ASSUME TypeOK, NEW n \in 0..Len(sleep_tasks)
    PROVE  /\ Awakened(n) \in Seq(Tasks)
           /\ Len(Awakened(n)) = n
           /\ Reverse(Awakened(n)) \in Seq(Tasks)
           /\ Len(Reverse(Awakened(n))) = n
           /\ \A i \in 1..n :
                 Reverse(Awakened(n))[i] = sleep_tasks[n - i + 1].task
<1>1. Len(sleep_tasks) \in Nat
  BY DEF TypeOK
<1>2. \A i \in 1..n : sleep_tasks[i] \in SleepRecord
  BY <1>1 DEF TypeOK
<1>3. \A i \in 1..n : sleep_tasks[i].task \in Tasks
  BY <1>2 DEF SleepRecord
<1>4. Awakened(n) \in Seq(Tasks) /\ Len(Awakened(n)) = n
  BY <1>1, <1>3 DEF Awakened
<1>5. \A i \in 1..n : (n - i) + 1 \in 1..n
  BY <1>1
<1>6. Reverse(Awakened(n)) = [i \in 1..n |-> Awakened(n)[(n - i) + 1]]
  BY <1>4 DEF Reverse
<1>7. \A i \in 1..n : Awakened(n)[(n - i) + 1] = sleep_tasks[(n - i) + 1].task
  BY <1>5 DEF Awakened
<1>8. Reverse(Awakened(n)) = [i \in 1..n |-> sleep_tasks[(n - i) + 1].task]
  BY <1>6, <1>7
<1>9. \A i \in 1..n : sleep_tasks[(n - i) + 1].task \in Tasks
  BY <1>3, <1>5
<1>10. /\ Reverse(Awakened(n)) \in Seq(Tasks)
       /\ Len(Reverse(Awakened(n))) = n
  BY <1>1, <1>8, <1>9
<1> QED
  BY <1>4, <1>8, <1>10

\* Every variable keeps its type: in particular a deadline is a uint32_t (the
\* sum in sleep() wraps) and only tasks are ever linked into a list.
LEMMA TypeStep == TypeOK /\ [Next]_vars => TypeOK'
<1> SUFFICES ASSUME TypeOK, [Next]_vars PROVE TypeOK'
  OBVIOUS
<1> USE SchedulerAssumption
<1>1. CASE InitMultitasking
  <2>1. now' \in Time
    BY <1>1 DEF InitMultitasking, Time
  <2>2. UNCHANGED <<sleep_tasks, terminated_tasks>>
    BY <1>1 DEF InitMultitasking
  <2>3. ASSUME NEW t \in Tasks \ {First},
               IdleOrSwitch(<<t>>, [state EXCEPT ![First] = "READY",
                                                 ![t] = "READY"])
        PROVE  TypeOK'
    <3>1. [state EXCEPT ![First] = "READY", ![t] = "READY"]
             \in [Tasks -> TaskStates]
      BY DEF TypeOK, TaskStates
    <3>2. <<t>> \in Seq(Tasks)
      OBVIOUS
    <3> QED
      BY <2>1, <2>2, <2>3, <3>1, <3>2, IdleOrSwitchType DEF TypeOK
  <2>4. ASSUME IdleOrSwitch(<<>>, [state EXCEPT ![First] = "READY"])
        PROVE  TypeOK'
    <3>1. [state EXCEPT ![First] = "READY"] \in [Tasks -> TaskStates]
      BY DEF TypeOK, TaskStates
    <3>2. <<>> \in Seq(Tasks)
      BY EmptySeq
    <3> QED
      BY <2>1, <2>2, <2>4, <3>1, <3>2, IdleOrSwitchType DEF TypeOK
  <2> QED
    BY <1>1, <2>3, <2>4 DEF InitMultitasking
<1>2. CASE Awake
  BY <1>2, IdleOrSwitchType DEF Awake, TypeOK
<1>3. CASE Yield
  <2>1. /\ Append(ready_tasks, current_task) \in Seq(Tasks)
        /\ [state EXCEPT ![current_task] = "READY"] \in [Tasks -> TaskStates]
        /\ "run" \in CpuStates
    BY DEF TypeOK, TaskStates, CpuStates
  <2> QED
    BY <1>3, <2>1, ScheduleType DEF Yield, TypeOK
<1>4. CASE BlockTask("WAITING")
  <2>1. /\ [state EXCEPT ![current_task] = "WAITING"] \in [Tasks -> TaskStates]
        /\ "run" \in CpuStates
    BY DEF TypeOK, TaskStates, CpuStates
  <2> QED
    BY <1>4, <2>1, ScheduleType DEF BlockTask, TypeOK
<1>5. ASSUME NEW d \in Durations, FallAsleep((now + d) % TimeMod)
      PROVE  TypeOK'
  <2> DEFINE record == [awake |-> (now + d) % TimeMod, task |-> current_task]
  <2>1. (now + d) % TimeMod \in Time
    BY DEF Time, TypeOK
  <2>2. record \in SleepRecord
    BY <2>1 DEF SleepRecord, TypeOK
  <2>3. PICK i \in 1..(Len(sleep_tasks) + 1) :
           sleep_tasks' = InsertAt(sleep_tasks, i, record)
    BY <1>5 DEF FallAsleep
  <2> HIDE DEF record
  <2>4. sleep_tasks' \in Seq(SleepRecord)
    BY <2>2, <2>3, InsertAtProperties DEF TypeOK
  <2>5. /\ [state EXCEPT ![current_task] = "SLEEP"] \in [Tasks -> TaskStates]
        /\ "run" \in CpuStates
    BY DEF TypeOK, TaskStates, CpuStates
  <2>6. /\ Schedule(ready_tasks, [state EXCEPT ![current_task] = "SLEEP"],
                    "run")
        /\ UNCHANGED <<terminated_tasks, now>>
    BY <1>5 DEF FallAsleep
  <2> QED
    BY <2>4, <2>5, <2>6, ScheduleType DEF TypeOK
<1>6. ASSUME NEW t \in Tasks, CreateTask(t)
      PROVE  TypeOK'
  BY <1>6 DEF CreateTask, TypeOK, TaskStates
<1>7. ASSUME NEW t \in Tasks, TerminateTask(t)
      PROVE  TypeOK'
  <2>1. /\ [state EXCEPT ![t] = "TERMINATED"] \in [Tasks -> TaskStates]
        /\ Append(terminated_tasks, t) \in Seq(Tasks)
        /\ "run" \in CpuStates
    BY DEF TypeOK, TaskStates, CpuStates
  <2> QED
    BY <1>7, <2>1, ScheduleType DEF TerminateTask, TypeOK
<1>8. ASSUME NEW t \in Tasks, NEW return \in CpuStates, UnblockTask(t, return)
      PROVE  TypeOK'
  <2>1. /\ Append(ready_tasks, t) \in Seq(Tasks)
        /\ [state EXCEPT ![t] = "READY"] \in [Tasks -> TaskStates]
    BY DEF TypeOK, TaskStates
  <2> QED
    BY <1>8, <2>1, ScheduleType DEF UnblockTask, TypeOK
<1>9. Resumed \in CpuStates /\ "run" \in CpuStates
  BY DEF Resumed, CpuStates, TypeOK
<1>10. CASE TimerInterrupt
  <2>1. PICK n \in 0..Len(sleep_tasks) :
           /\ sleep_tasks' = SubSeq(sleep_tasks, n + 1, Len(sleep_tasks))
           /\ Schedule(Reverse(Awakened(n)) \o ready_tasks,
                       [t \in Tasks |->
                          IF \E i \in 1..n : sleep_tasks[i].task = t
                          THEN "READY" ELSE state[t]],
                       Resumed)
    BY <1>10 DEF TimerInterrupt
  <2>2. sleep_tasks' \in Seq(SleepRecord)
    BY <2>1 DEF TypeOK
  <2>3. now' \in Time
    BY <1>10 DEF TimerInterrupt, TypeOK, Time
  <2>4. Reverse(Awakened(n)) \o ready_tasks \in Seq(Tasks)
    BY AwakenedType DEF TypeOK
  <2>5. [t \in Tasks |-> IF \E i \in 1..n : sleep_tasks[i].task = t
                         THEN "READY" ELSE state[t]] \in [Tasks -> TaskStates]
    BY DEF TypeOK, TaskStates
  <2>6. UNCHANGED terminated_tasks
    BY <1>10 DEF TimerInterrupt
  <2> QED
    BY <1>9, <2>1, <2>2, <2>3, <2>4, <2>5, <2>6, ScheduleType DEF TypeOK
<1>11. CASE OtherInterrupt
  BY <1>11 DEF OtherInterrupt, TypeOK, CpuStates
<1>12. CASE UNCHANGED vars
  BY <1>12 DEF vars, TypeOK
<1>13. ASSUME NEW t \in Tasks, UnblockFromTask(t) \/ DeviceInterrupt(t)
       PROVE  TypeOK'
  BY <1>8, <1>9, <1>13 DEF UnblockFromTask, DeviceInterrupt
<1> QED
  BY <1>1, <1>2, <1>3, <1>4, <1>5, <1>6, <1>7, <1>10, <1>11, <1>12, <1>13
     DEF Next, TaskStep, InterruptStep, Sleep, NanosleepUntil, ReturnAtOnce

\* The kernel boots with well-typed variables.
LEMMA InitTypeOK == Init => TypeOK
<1>1. <<>> \in Seq(Tasks) /\ <<>> \in Seq(SleepRecord)
  BY EmptySeq
<1>2. Init => state \in [Tasks -> TaskStates] /\ current_task \in Tasks
  BY SchedulerAssumption DEF Init, TaskStates
<1>3. Init => now \in Time /\ cpu \in CpuStates
  BY SchedulerAssumption DEF Init, Time, CpuStates
<1> QED
  BY <1>1, <1>2, <1>3 DEF Init, TypeOK

\* Every variable of the scheduler keeps its type in every reachable state.
THEOREM TypeCorrect == Spec => []TypeOK
  BY InitTypeOK, TypeStep, PTL DEF Spec

-----------------------------------------------------------------------------
(* Interrupts *)

\* Both ways out of the loop of schedule() agree with the property.
LEMMA IdleOrSwitchIdle ==
    ASSUME NEW ready, NEW st, IdleOrSwitch(ready, st)
    PROVE  InterruptsOnlyWhenIdle' /\ cpu' # "boot"
<1>1. CASE ready = <<>>
  BY <1>1 DEF IdleOrSwitch, InterruptsOnlyWhenIdle, Idle
<1>2. CASE ready # <<>>
  BY <1>2 DEF IdleOrSwitch, InterruptsOnlyWhenIdle, Idle
<1> QED
  BY <1>1, <1>2

\* A call of the running task never finds a switch postponed; the schedule()
\* of an interrupt handler always does.
LEMMA ScheduleIdle ==
    ASSUME InterruptsOnlyWhenIdle, NEW ready, NEW st, NEW return,
           Schedule(ready, st, return)
    PROVE  /\ cpu = "run" => IdleOrSwitch(ready, st)
           /\ interrupts =>
                 /\ ready_tasks' = ready
                 /\ state' = st
                 /\ cpu' = return
                 /\ UNCHANGED <<current_task, postponed, interrupts>>
<1>1. cpu = "run" => ~postponed
  BY DEF InterruptsOnlyWhenIdle, Idle
<1>2. interrupts => postponed
  BY DEF InterruptsOnlyWhenIdle
<1> QED
  BY <1>1, <1>2 DEF Schedule

\* A handler resumes at the cli behind the hlt it interrupted.
LEMMA ResumedAwake ==
    InterruptsOnlyWhenIdle /\ interrupts => Resumed = "awake"
  BY DEF InterruptsOnlyWhenIdle, Idle, Resumed

\* Every step keeps interrupts to the idle loop.
LEMMA InterruptsStep ==
    InterruptsOnlyWhenIdle /\ [Next]_vars => InterruptsOnlyWhenIdle'
<1> SUFFICES ASSUME InterruptsOnlyWhenIdle, [Next]_vars
             PROVE  InterruptsOnlyWhenIdle'
  OBVIOUS
<1>1. CASE InitMultitasking
  BY <1>1, IdleOrSwitchIdle DEF InitMultitasking
<1>2. CASE Awake
  BY <1>2, IdleOrSwitchIdle DEF Awake
<1>3. CASE Yield
  BY <1>3, ScheduleIdle, IdleOrSwitchIdle DEF Yield
<1>4. CASE BlockTask("WAITING")
  BY <1>4, ScheduleIdle, IdleOrSwitchIdle DEF BlockTask
<1>5. ASSUME NEW d \in Durations, FallAsleep((now + d) % TimeMod)
      PROVE  InterruptsOnlyWhenIdle'
  BY <1>5, ScheduleIdle, IdleOrSwitchIdle DEF FallAsleep
<1>6. ASSUME NEW t \in Tasks, CreateTask(t)
      PROVE  InterruptsOnlyWhenIdle'
  BY <1>6 DEF CreateTask, InterruptsOnlyWhenIdle, Idle
<1>7. ASSUME NEW t \in Tasks, TerminateTask(t)
      PROVE  InterruptsOnlyWhenIdle'
  BY <1>7, ScheduleIdle, IdleOrSwitchIdle DEF TerminateTask
<1>8. ASSUME NEW t \in Tasks, UnblockFromTask(t)
      PROVE  InterruptsOnlyWhenIdle'
  BY <1>8, ScheduleIdle, IdleOrSwitchIdle DEF UnblockFromTask, UnblockTask
<1>9. ASSUME interrupts, cpu' = Resumed,
             UNCHANGED <<current_task, postponed, interrupts>>
      PROVE  InterruptsOnlyWhenIdle'
  <2>1. cpu' = "awake"
    BY <1>9, ResumedAwake
  <2> QED
    BY <1>9, <2>1 DEF InterruptsOnlyWhenIdle, Idle
<1>10. CASE TimerInterrupt
  BY <1>9, <1>10, ScheduleIdle DEF TimerInterrupt
<1>11. CASE OtherInterrupt
  BY <1>9, <1>11 DEF OtherInterrupt, Resumed
<1>12. ASSUME NEW t \in Tasks, DeviceInterrupt(t)
       PROVE  InterruptsOnlyWhenIdle'
  BY <1>9, <1>12, ScheduleIdle DEF DeviceInterrupt, UnblockTask
<1>13. CASE UNCHANGED vars
  BY <1>13 DEF vars, InterruptsOnlyWhenIdle, Idle
<1> QED
  BY <1>1, <1>2, <1>3, <1>4, <1>5, <1>6, <1>7, <1>8, <1>10, <1>11, <1>12,
     <1>13
     DEF Next, TaskStep, InterruptStep, Sleep, NanosleepUntil, ReturnAtOnce

\* The unlocked lists are safe from interrupt handlers, and no handler
\* switches tasks: interrupts are enabled only while schedule() idles.
THEOREM NoPreemption == Spec => []InterruptsOnlyWhenIdle
<1>1. Init => InterruptsOnlyWhenIdle
  BY DEF Init, InterruptsOnlyWhenIdle, Idle
<1> QED
  BY <1>1, InterruptsStep, PTL DEF Spec

\* The kernel boots once.
LEMMA BootOnce ==
    ASSUME InterruptsOnlyWhenIdle, Next
    PROVE  cpu' # "boot"
<1>1. CASE InitMultitasking \/ Awake
  BY <1>1, IdleOrSwitchIdle DEF InitMultitasking, Awake
<1>2. CASE Yield \/ BlockTask("WAITING")
  BY <1>2, ScheduleIdle, IdleOrSwitchIdle DEF Yield, BlockTask
<1>3. ASSUME NEW d \in Durations, FallAsleep((now + d) % TimeMod)
      PROVE  cpu' # "boot"
  BY <1>3, ScheduleIdle, IdleOrSwitchIdle DEF FallAsleep
<1>4. ASSUME NEW t \in Tasks, CreateTask(t)
      PROVE  cpu' # "boot"
  BY <1>4 DEF CreateTask
<1>5. ASSUME NEW t \in Tasks, TerminateTask(t) \/ UnblockFromTask(t)
      PROVE  cpu' # "boot"
  BY <1>5, ScheduleIdle, IdleOrSwitchIdle
     DEF TerminateTask, UnblockFromTask, UnblockTask
<1>6. CASE TimerInterrupt
  BY <1>6, ScheduleIdle, ResumedAwake DEF TimerInterrupt
<1>7. CASE OtherInterrupt
  BY <1>7 DEF OtherInterrupt
<1>8. ASSUME NEW t \in Tasks, DeviceInterrupt(t)
      PROVE  cpu' # "boot"
  BY <1>8, ScheduleIdle, ResumedAwake DEF DeviceInterrupt, UnblockTask
<1>9. ASSUME NEW time, ReturnAtOnce(time)
      PROVE  cpu' # "boot"
  BY <1>9 DEF ReturnAtOnce, vars
<1> QED
  BY <1>1, <1>2, <1>3, <1>4, <1>5, <1>6, <1>7, <1>8, <1>9
     DEF Next, TaskStep, InterruptStep, Sleep, NanosleepUntil

-----------------------------------------------------------------------------
(* The sleep list *)

\* Every deadline in the list is ahead of the clock as it stands in its round.
AheadOfClock ==
    \A i \in 1..Len(sleep_tasks) : sleep_tasks[i].awake > now

\* Nobody sleeps before init_multitasking resets the clock.
SleepInv ==
    /\ SleepersSorted
    /\ AheadOfClock
    /\ cpu = "boot" => sleep_tasks = <<>>

\* What insert_with_compare leaves in sleep_tasks: the record at its position,
\* the others around it in their order.
LEMMA InsertRecord ==
    ASSUME TypeOK, NEW record \in SleepRecord,
           NEW i \in 1..(Len(sleep_tasks) + 1),
           sleep_tasks' = InsertAt(sleep_tasks, i, record)
    PROVE  /\ Len(sleep_tasks') = Len(sleep_tasks) + 1
           /\ \A j \in 1..(Len(sleep_tasks) + 1) :
                 sleep_tasks'[j] =
                    IF j < i THEN sleep_tasks[j]
                    ELSE IF j = i THEN record ELSE sleep_tasks[j - 1]
<1>1. PICK s \in Seq(SleepRecord) : s = sleep_tasks
  BY DEF TypeOK
<1>2. /\ Len(InsertAt(s, i, record)) = Len(s) + 1
      /\ \A j \in 1..(Len(s) + 1) :
            InsertAt(s, i, record)[j] =
               IF j < i THEN s[j] ELSE IF j = i THEN record ELSE s[j - 1]
  <2>1. i \in 1..(Len(s) + 1)
    BY <1>1
  <2>2. \A q \in Seq(SleepRecord) : \A k \in 1..(Len(q) + 1) : \A e \in SleepRecord :
           /\ Len(InsertAt(q, k, e)) = Len(q) + 1
           /\ \A j \in 1..(Len(q) + 1) :
                 InsertAt(q, k, e)[j] =
                    IF j < k THEN q[j] ELSE IF j = k THEN e ELSE q[j - 1]
    <3> TAKE q \in Seq(SleepRecord)
    <3> TAKE k \in 1..(Len(q) + 1)
    <3> TAKE e \in SleepRecord
    <3> QED
      BY InsertAtProperties
  <2> QED
    BY <2>1, <2>2
<1> QED
  BY <1>1, <1>2

\* sleep() puts the record behind every earlier deadline and in front of the
\* others, and only if it is ahead of the clock.
LEMMA SleepKeepsOrder ==
    ASSUME TypeOK, SleepInv, NEW d \in Durations, FallAsleep((now + d) % TimeMod)
    PROVE  SleepersSorted' /\ AheadOfClock'
<1> DEFINE record == [awake |-> (now + d) % TimeMod, task |-> current_task]
<1>1. /\ record.awake > now
      /\ now' = now
      /\ \E i \in 1..(Len(sleep_tasks) + 1) :
            /\ SleepPosition(record, i)
            /\ sleep_tasks' = InsertAt(sleep_tasks, i, record)
  BY DEF FallAsleep
<1>2. PICK i \in 1..(Len(sleep_tasks) + 1) :
         /\ SleepPosition(record, i)
         /\ sleep_tasks' = InsertAt(sleep_tasks, i, record)
  BY <1>1
<1>3. record \in SleepRecord /\ record.awake \in Nat /\ now \in Nat
  BY SchedulerAssumption DEF TypeOK, SleepRecord, Time
<1> HIDE DEF record
<1>4. Len(sleep_tasks) \in Nat
  BY DEF TypeOK
<1>5. \A j \in 1..Len(sleep_tasks) : sleep_tasks[j].awake \in Nat
  <2>1. \A j \in 1..Len(sleep_tasks) : sleep_tasks[j] \in SleepRecord
    BY DEF TypeOK
  <2> QED
    BY <2>1, SchedulerAssumption DEF SleepRecord, Time
<1>6. /\ Len(sleep_tasks') = Len(sleep_tasks) + 1
      /\ \A j \in 1..(Len(sleep_tasks) + 1) :
            sleep_tasks'[j] = IF j < i THEN sleep_tasks[j]
                              ELSE IF j = i THEN record ELSE sleep_tasks[j - 1]
  BY <1>3, <1>2, InsertRecord
<1>7. /\ \A j \in 1..(i - 1) : sleep_tasks[j].awake < record.awake
      /\ i <= Len(sleep_tasks) => record.awake <= sleep_tasks[i].awake
  BY <1>2, <1>3, <1>4, <1>5 DEF SleepPosition, AddComparator
<1>8. \A j \in i..Len(sleep_tasks) : record.awake <= sleep_tasks[j].awake
  <2> SUFFICES ASSUME NEW j \in i..Len(sleep_tasks)
               PROVE  record.awake <= sleep_tasks[j].awake
    OBVIOUS
  <2>1. /\ i \in 1..Len(sleep_tasks)
        /\ j \in 1..Len(sleep_tasks)
        /\ i < j \/ i = j
    BY <1>4
  <2>2. sleep_tasks[i].awake <= sleep_tasks[j].awake
    BY <1>5, <2>1 DEF SleepInv, SleepersSorted
  <2> QED
    BY <1>3, <1>5, <1>7, <2>1, <2>2
<1>9. AheadOfClock'
  <2> SUFFICES ASSUME NEW j \in 1..(Len(sleep_tasks) + 1)
               PROVE  sleep_tasks'[j].awake > now
    BY <1>1, <1>6 DEF AheadOfClock
  <2>1. \A k \in 1..Len(sleep_tasks) : sleep_tasks[k].awake > now
    BY DEF SleepInv, AheadOfClock
  <2>2. CASE j < i
    BY <1>4, <1>6, <2>1, <2>2
  <2>3. CASE j = i
    BY <1>1, <1>4, <1>6, <2>3
  <2>4. CASE j > i
    BY <1>4, <1>6, <2>1, <2>4
  <2>5. j < i \/ j = i \/ j > i
    BY <1>4
  <2> QED
    BY <2>2, <2>3, <2>4, <2>5
<1>10. SleepersSorted'
  <2> SUFFICES ASSUME NEW j \in 1..(Len(sleep_tasks) + 1),
                      NEW k \in 1..(Len(sleep_tasks) + 1), j < k
               PROVE  sleep_tasks'[j].awake <= sleep_tasks'[k].awake
    BY <1>6 DEF SleepersSorted
  <2>1. \A x, y \in 1..Len(sleep_tasks) :
           x < y => sleep_tasks[x].awake <= sleep_tasks[y].awake
    BY DEF SleepInv, SleepersSorted
  <2>2. CASE k < i
    BY <1>4, <1>6, <2>1, <2>2
  <2>3. CASE k = i
    BY <1>3, <1>4, <1>5, <1>6, <1>7, <2>3
  <2>4. CASE j = i
    <3>1. sleep_tasks'[j] = record /\ sleep_tasks'[k] = sleep_tasks[k - 1]
      BY <1>4, <1>6, <2>4
    <3>2. k - 1 \in i..Len(sleep_tasks)
      BY <1>4, <2>4
    <3> QED
      BY <1>8, <3>1, <3>2
  <2>5. CASE j < i /\ i < k
    <3>1. sleep_tasks'[j] = sleep_tasks[j] /\ sleep_tasks'[k] = sleep_tasks[k - 1]
      BY <1>4, <1>6, <2>5
    <3>2. j \in 1..(i - 1) /\ k - 1 \in i..Len(sleep_tasks)
      BY <1>4, <2>5
    <3> QED
      BY <1>3, <1>4, <1>5, <1>7, <1>8, <3>1, <3>2
  <2>6. CASE i < j
    <3>1. sleep_tasks'[j] = sleep_tasks[j - 1]
          /\ sleep_tasks'[k] = sleep_tasks[k - 1]
      BY <1>4, <1>6, <2>6
    <3>2. j - 1 \in 1..Len(sleep_tasks) /\ k - 1 \in 1..Len(sleep_tasks)
          /\ j - 1 < k - 1
      BY <1>4, <2>6
    <3> QED
      BY <2>1, <3>1, <3>2
  <2>7. k < i \/ k = i \/ j = i \/ (j < i /\ i < k) \/ i < j
    BY <1>4
  <2> QED
    BY <2>2, <2>3, <2>4, <2>5, <2>6, <2>7
<1> QED
  BY <1>9, <1>10

\* One timer interrupt wakes every sleeper that is due: the list is sorted,
\* so none is due behind the first one that is not.
LEMMA TimerKeepsOrder ==
    ASSUME TypeOK, SleepInv, TimerInterrupt
    PROVE  SleepersSorted' /\ AheadOfClock'
<1>1. PICK n \in 0..Len(sleep_tasks) :
         /\ WakeSleepers(n, now')
         /\ sleep_tasks' = SubSeq(sleep_tasks, n + 1, Len(sleep_tasks))
  BY DEF TimerInterrupt
<1>2. Len(sleep_tasks) \in Nat /\ now' \in Nat
  BY SchedulerAssumption DEF TypeOK, Time, TimerInterrupt
<1>3. \A j \in 1..Len(sleep_tasks) : sleep_tasks[j].awake \in Nat
  <2>1. \A j \in 1..Len(sleep_tasks) : sleep_tasks[j] \in SleepRecord
    BY DEF TypeOK
  <2> QED
    BY <2>1, SchedulerAssumption DEF SleepRecord, Time
<1>4. /\ Len(sleep_tasks') = Len(sleep_tasks) - n
      /\ \A j \in 1..(Len(sleep_tasks) - n) :
            sleep_tasks'[j] = sleep_tasks[n + j]
  BY <1>1, <1>2 DEF TypeOK
<1>5. \A j \in 1..(Len(sleep_tasks) - n) : n + j \in 1..Len(sleep_tasks)
  BY <1>2
<1>6. \A x, y \in 1..Len(sleep_tasks) :
         x < y => sleep_tasks[x].awake <= sleep_tasks[y].awake
  BY DEF SleepInv, SleepersSorted
<1>7. SleepersSorted'
  <2> SUFFICES ASSUME NEW j \in 1..(Len(sleep_tasks) - n),
                      NEW k \in 1..(Len(sleep_tasks) - n), j < k
               PROVE  sleep_tasks'[j].awake <= sleep_tasks'[k].awake
    BY <1>4 DEF SleepersSorted
  <2>1. n + j < n + k
    BY <1>2
  <2> QED
    BY <1>4, <1>5, <1>6, <2>1
<1>8. AheadOfClock'
  <2> SUFFICES ASSUME NEW j \in 1..(Len(sleep_tasks) - n)
               PROVE  sleep_tasks[n + j].awake > now'
    BY <1>4 DEF AheadOfClock
  <2>1. n < Len(sleep_tasks) /\ n + 1 \in 1..Len(sleep_tasks)
    BY <1>2
  <2>2. sleep_tasks[n + 1].awake > now'
    BY <1>1, <1>2, <1>3, <2>1 DEF WakeSleepers, Due
  <2>3. n + 1 = n + j \/ n + 1 < n + j
    BY <1>2
  <2>4. sleep_tasks[n + 1].awake <= sleep_tasks[n + j].awake
    BY <1>3, <1>5, <1>6, <2>1, <2>3
  <2> QED
    BY <1>2, <1>3, <1>5, <2>1, <2>2, <2>4
<1> QED
  BY <1>7, <1>8

\* Every step keeps sleep_tasks sorted and its deadlines ahead of the clock.
LEMMA SleepStep ==
    TypeOK /\ InterruptsOnlyWhenIdle /\ SleepInv /\ [Next]_vars => SleepInv'
<1> SUFFICES ASSUME TypeOK, InterruptsOnlyWhenIdle, SleepInv, [Next]_vars
             PROVE  SleepInv'
  OBVIOUS
<1>1. CASE UNCHANGED vars
  BY <1>1 DEF vars, SleepInv, SleepersSorted, AheadOfClock
<1>2. CASE Next
  <2>1. cpu' # "boot"
    BY <1>2, BootOnce
  <2> SUFFICES SleepersSorted' /\ AheadOfClock'
    BY <2>1 DEF SleepInv
  <2>2. CASE UNCHANGED <<sleep_tasks, now>>
    BY <2>2 DEF SleepInv, SleepersSorted, AheadOfClock
  <2>3. CASE InitMultitasking
    <3>1. sleep_tasks' = <<>>
      BY <2>3 DEF InitMultitasking, SleepInv
    <3> QED
      BY <3>1 DEF SleepersSorted, AheadOfClock
  <2>4. CASE TaskStep
    <3>1. CASE UNCHANGED <<sleep_tasks, now>>
      BY <2>2, <3>1
    <3>2. CASE \E d \in Durations : FallAsleep((now + d) % TimeMod)
      BY <3>2, SleepKeepsOrder
    <3> QED
      BY <2>4, <3>1, <3>2
         DEF TaskStep, Yield, BlockTask, CreateTask, TerminateTask,
             UnblockFromTask, UnblockTask, Sleep, NanosleepUntil,
             ReturnAtOnce, vars
  <2>5. CASE Awake
    BY <2>2, <2>5 DEF Awake
  <2>6. CASE TimerInterrupt
    BY <2>6, TimerKeepsOrder
  <2>7. CASE OtherInterrupt \/ \E t \in Tasks : DeviceInterrupt(t)
    BY <2>2, <2>7 DEF OtherInterrupt, DeviceInterrupt, UnblockTask
  <2> QED
    BY <1>2, <2>3, <2>4, <2>5, <2>6, <2>7 DEF Next, InterruptStep
<1> QED
  BY <1>1, <1>2

\* The invariant of the sleep list holds throughout.
LEMMA SleepInvAlways == Spec => []SleepInv
<1>1. Init => SleepInv
  BY DEF Init, SleepInv, SleepersSorted, AheadOfClock
<1>2. Init => TypeOK /\ InterruptsOnlyWhenIdle
  BY InitTypeOK DEF Init, InterruptsOnlyWhenIdle, Idle
<1> QED
  BY <1>1, <1>2, TypeStep, InterruptsStep, SleepStep, PTL DEF Spec

\* sleep_tasks stays ordered, for any tasks making any calls from any context.
THEOREM SleepListCorrect == Spec => []SleepersSorted
<1>1. SleepInv => SleepersSorted
  BY DEF SleepInv
<1> QED
  BY <1>1, SleepInvAlways, PTL

\* The records that the timer leaves in the list are those behind the first
\* one that is not due.
LEMMA TimerWakesDue ==
    ASSUME TypeOK, SleepInv, TimerInterrupt, NEW r \in Sleepers
    PROVE  r \in Sleepers' <=> r.awake > now'
<1>1. PICK n \in 0..Len(sleep_tasks) :
         /\ WakeSleepers(n, now')
         /\ sleep_tasks' = SubSeq(sleep_tasks, n + 1, Len(sleep_tasks))
  BY DEF TimerInterrupt
<1>2. Len(sleep_tasks) \in Nat /\ now' \in Nat
  BY SchedulerAssumption DEF TypeOK, Time, TimerInterrupt
<1>3. \A j \in 1..Len(sleep_tasks) : sleep_tasks[j].awake \in Nat
  <2>1. \A j \in 1..Len(sleep_tasks) : sleep_tasks[j] \in SleepRecord
    BY DEF TypeOK
  <2> QED
    BY <2>1, SchedulerAssumption DEF SleepRecord, Time
<1>4. /\ Len(sleep_tasks') = Len(sleep_tasks) - n
      /\ \A j \in 1..(Len(sleep_tasks) - n) :
            sleep_tasks'[j] = sleep_tasks[n + j]
  BY <1>1, <1>2 DEF TypeOK
<1>5. PICK k \in 1..Len(sleep_tasks) : r = sleep_tasks[k]
  BY DEF Sleepers
<1>6. CASE r.awake > now'
  <2>1. ~(k \in 1..n)
    BY <1>1, <1>2, <1>3, <1>5, <1>6 DEF WakeSleepers, Due
  <2>2. k - n \in 1..(Len(sleep_tasks) - n) /\ n + (k - n) = k
    BY <1>2, <2>1
  <2>3. sleep_tasks'[k - n] = r
    BY <1>4, <1>5, <2>2
  <2> QED
    BY <1>4, <1>6, <2>2, <2>3 DEF Sleepers
<1>7. CASE ~(r.awake > now')
  <2>1. ASSUME r \in Sleepers'
        PROVE  FALSE
    <3>1. PICK j \in 1..(Len(sleep_tasks) - n) : r = sleep_tasks'[j]
      BY <1>4, <2>1 DEF Sleepers
    <3>2. AheadOfClock'
      BY TimerKeepsOrder
    <3> QED
      BY <1>4, <1>7, <3>1, <3>2 DEF AheadOfClock
  <2> QED
    BY <1>7, <2>1
<1> QED
  BY <1>6, <1>7

\* Where the clock is after a tick: Tick further, or, when it wraps, not ahead
\* of where it was.
LEMMA TickOfClock ==
    ASSUME NEW t \in Time
    PROVE  IF t + Tick < TimeMod THEN (t + Tick) % TimeMod = t + Tick
           ELSE (t + Tick) % TimeMod <= t
<1>1. /\ t \in Nat /\ t < TimeMod /\ TimeMod \in Nat /\ Tick \in Nat
      /\ 0 < TimeMod /\ Tick <= TimeMod
  BY SchedulerAssumption DEF Time
<1>2. CASE t + Tick < TimeMod
  BY <1>1, <1>2
<1>3. CASE ~(t + Tick < TimeMod)
  <2>1. (t + Tick) % TimeMod = t + Tick - TimeMod
    BY <1>1, <1>3
  <2> QED
    BY <1>1, <1>3, <2>1
<1> QED
  BY <1>2, <1>3

\* The handler, which looks at the head of the list only, wakes all whose
\* deadline its tick has reached and nobody else, for any tasks, clock and
\* tick; when the clock wraps it wakes nobody.
THEOREM SleepersWakeInTime == Spec => WokenByItsTick
<1> DEFINE Woken ==
       now' # now =>
          \A r \in Sleepers :
             r \in Sleepers' <=> r.awake > now + Tick \/ now + Tick >= TimeMod
<1>1. TypeOK /\ SleepInv /\ [Next]_vars => [Woken]_vars
  <2> SUFFICES ASSUME TypeOK, SleepInv, Next, now' # now,
                      NEW r \in Sleepers
               PROVE  r \in Sleepers'
                         <=> r.awake > now + Tick \/ now + Tick >= TimeMod
    OBVIOUS
  <2>1. PICK k \in 1..Len(sleep_tasks) : r = sleep_tasks[k]
    BY DEF Sleepers
  <2>2. TimerInterrupt
    <3>1. ~InitMultitasking
      BY <2>1 DEF InitMultitasking, SleepInv
    <3>2. ~TaskStep
      BY DEF TaskStep, Yield, BlockTask, Sleep, NanosleepUntil, ReturnAtOnce,
             FallAsleep, CreateTask, TerminateTask, UnblockFromTask,
             UnblockTask, vars
    <3>3. ~Awake
      BY DEF Awake
    <3>4. ~OtherInterrupt /\ ~(\E t \in Tasks : DeviceInterrupt(t))
      BY DEF OtherInterrupt, DeviceInterrupt, UnblockTask
    <3> QED
      BY <3>1, <3>2, <3>3, <3>4 DEF Next, InterruptStep
  <2>3. /\ now' = (now + Tick) % TimeMod
        /\ now \in Time /\ r.awake \in Nat /\ r.awake > now
    <3>1. r \in SleepRecord
      BY <2>1 DEF TypeOK
    <3> QED
      BY <2>1, <2>2, <3>1, SchedulerAssumption
         DEF TimerInterrupt, TypeOK, SleepRecord, Time, SleepInv, AheadOfClock
  <2>4. r \in Sleepers' <=> r.awake > now'
    BY <2>2, TimerWakesDue
  <2>5. /\ now \in Nat /\ Tick \in Nat /\ TimeMod \in Nat
    BY <2>3, SchedulerAssumption DEF Time
  <2>6. CASE now + Tick < TimeMod
    BY <2>3, <2>4, <2>5, <2>6, TickOfClock
  <2>7. CASE ~(now + Tick < TimeMod)
    <3>1. now' <= now /\ now' \in Nat
      BY <2>3, <2>5, <2>7, TickOfClock, SchedulerAssumption
    <3> QED
      BY <2>3, <2>4, <2>5, <2>7, <3>1
  <2> QED
    BY <2>6, <2>7
<1> QED
  BY <1>1, TypeCorrect, SleepInvAlways, PTL DEF Spec, WokenByItsTick

-----------------------------------------------------------------------------
(* Every task in its place *)

\* push_back adds one task to those of a list.
LEMMA AppendList ==
    ASSUME NEW s \in Seq(Tasks), NEW e \in Tasks
    PROVE  /\ \A t : InList(t, Append(s, e)) <=> InList(t, s) \/ t = e
           /\ Distinct(s) /\ ~InList(e, s) => Distinct(Append(s, e))
<1>1. /\ Len(s) \in Nat
      /\ Len(Append(s, e)) = Len(s) + 1
      /\ \A i \in 1..Len(s) : Append(s, e)[i] = s[i]
      /\ Append(s, e)[Len(s) + 1] = e
  OBVIOUS
<1>2. \A i \in 1..(Len(s) + 1) : i \in 1..Len(s) \/ i = Len(s) + 1
  BY <1>1
<1>3. \A i \in 1..Len(s) : i \in 1..(Len(s) + 1)
  BY <1>1
<1>4. Len(s) + 1 \in 1..(Len(s) + 1)
  BY <1>1
<1>5. ASSUME NEW t PROVE InList(t, Append(s, e)) <=> InList(t, s) \/ t = e
  BY <1>1, <1>2, <1>3, <1>4 DEF InList
<1>6. ASSUME Distinct(s), ~InList(e, s) PROVE Distinct(Append(s, e))
  BY <1>1, <1>2, <1>6 DEF InList, Distinct
<1> QED
  BY <1>5, <1>6

\* pop_front takes one task from those of a list.
LEMMA TailList ==
    ASSUME NEW s \in Seq(Tasks), s # <<>>, Distinct(s)
    PROVE  /\ InList(Head(s), s)
           /\ \A t : InList(t, Tail(s)) <=> InList(t, s) /\ t # Head(s)
           /\ Distinct(Tail(s))
<1>1. /\ Len(s) \in Nat \ {0}
      /\ Len(Tail(s)) = Len(s) - 1
      /\ \A i \in 1..(Len(s) - 1) : Tail(s)[i] = s[i + 1]
      /\ Head(s) = s[1]
  BY EmptySeq, HeadTailProperties
<1>2. \A i \in 1..(Len(s) - 1) : i + 1 \in 1..Len(s) /\ i + 1 # 1
  BY <1>1
<1>3. 1 \in 1..Len(s)
  BY <1>1
<1>4. \A i \in 1..Len(s) : i = 1 \/ (i - 1 \in 1..(Len(s) - 1) /\ (i - 1) + 1 = i)
  BY <1>1
<1>5. ASSUME NEW t PROVE InList(t, Tail(s)) => InList(t, s) /\ t # Head(s)
  BY <1>1, <1>2, <1>3 DEF InList, Distinct
<1>6. ASSUME NEW t, InList(t, s), t # Head(s) PROVE InList(t, Tail(s))
  <2>1. PICK i \in 1..Len(s) : s[i] = t
    BY <1>6 DEF InList
  <2>2. i - 1 \in 1..(Len(s) - 1) /\ (i - 1) + 1 = i
    BY <1>1, <1>4, <1>6, <2>1
  <2>3. Tail(s)[i - 1] = t
    BY <1>1, <2>1, <2>2
  <2> QED
    BY <1>1, <2>2, <2>3 DEF InList
<1>7. Distinct(Tail(s))
  <2> SUFFICES ASSUME NEW i \in 1..(Len(s) - 1), NEW j \in 1..(Len(s) - 1),
                      s[i + 1] = s[j + 1]
               PROVE  i = j
    BY <1>1 DEF Distinct
  <2>1. i + 1 = j + 1
    BY <1>2 DEF Distinct
  <2> QED
    BY <1>1, <2>1
<1> QED
  BY <1>1, <1>3, <1>5, <1>6, <1>7 DEF InList

\* ready_tasks and the READY tasks; the boot task may be READY in no list.
ReadyPlace(ready, st) ==
    /\ Distinct(ready)
    /\ \A t \in Tasks :
          /\ InList(t, ready) => st[t] = "READY"
          /\ st[t] = "READY" /\ t # First => InList(t, ready)

\* Until schedule() picks the next task, its caller has left none WORKING.
NoneWorking(st) == \A t \in Tasks : st[t] # "WORKING"

OneWorking ==
    \A t \in Tasks : state[t] = "WORKING" <=> t = current_task /\ ~Idle

\* What the loop of schedule() and the switch behind it do to ready_tasks.
LEMMA IdleOrSwitchPlace ==
    ASSUME NEW ready \in Seq(Tasks), NEW st \in [Tasks -> TaskStates],
           ReadyPlace(ready, st), NoneWorking(st), IdleOrSwitch(ready, st)
    PROVE  /\ ReadyPlace(ready_tasks', state')
           /\ OneWorking'
           /\ \A t \in Tasks, x \in {"SLEEP", "TERMINATED"} :
                 state'[t] = x <=> st[t] = x
<1>1. CASE ready = <<>>
  <2>1. ready_tasks' = ready /\ state' = st /\ cpu' = "halt"
    BY <1>1 DEF IdleOrSwitch
  <2> QED
    BY <2>1 DEF NoneWorking, OneWorking, Idle
<1>2. CASE ready # <<>>
  <2>1. /\ ready_tasks' = Tail(ready)
        /\ state' = [st EXCEPT ![Head(ready)] = "WORKING"]
        /\ current_task' = Head(ready)
        /\ cpu' = "run"
    BY <1>2 DEF IdleOrSwitch
  <2>2. Head(ready) \in Tasks
    BY <1>2
  <2>3. /\ InList(Head(ready), ready)
        /\ \A t : InList(t, Tail(ready)) <=> InList(t, ready) /\ t # Head(ready)
        /\ Distinct(Tail(ready))
    BY <1>2, TailList DEF ReadyPlace
  <2>4. st[Head(ready)] = "READY"
    BY <2>2, <2>3 DEF ReadyPlace
  <2>5. \A t \in Tasks : state'[t] = IF t = Head(ready) THEN "WORKING" ELSE st[t]
    BY <2>1
  <2>6. ReadyPlace(ready_tasks', state')
    BY <2>1, <2>3, <2>5 DEF ReadyPlace
  <2>7. OneWorking'
    BY <2>1, <2>5 DEF OneWorking, NoneWorking, Idle
  <2>8. \A t \in Tasks, x \in {"SLEEP", "TERMINATED"} :
           state'[t] = x <=> st[t] = x
    BY <2>4, <2>5
  <2> QED
    BY <2>6, <2>7, <2>8
<1> QED
  BY <1>1, <1>2

SleepPlace(sleepers, st) ==
    /\ \A i, j \in 1..Len(sleepers) : sleepers[i].task = sleepers[j].task => i = j
    /\ \A t \in Tasks :
          (\E i \in 1..Len(sleepers) : sleepers[i].task = t) <=> st[t] = "SLEEP"

TerminatedPlace(terminated, st) ==
    /\ Distinct(terminated)
    /\ \A t \in Tasks : InList(t, terminated) <=> st[t] = "TERMINATED"

\* EveryTaskInItsPlace, in parts.
LEMMA PlaceParts ==
    EveryTaskInItsPlace <=>
        /\ ReadyPlace(ready_tasks, state)
        /\ SleepPlace(sleep_tasks, state)
        /\ TerminatedPlace(terminated_tasks, state)
        /\ OneWorking
  BY DEF EveryTaskInItsPlace, ReadyPlace, SleepPlace, TerminatedPlace,
         OneWorking, Sleeping

\* A way into the loop of schedule() is correct if its caller has put every
\* task but the one on the CPU in its place.
LEMMA IdleOrSwitchKeepsPlaces ==
    ASSUME NEW ready \in Seq(Tasks), NEW st \in [Tasks -> TaskStates],
           ReadyPlace(ready, st), NoneWorking(st),
           SleepPlace(sleep_tasks', st), TerminatedPlace(terminated_tasks', st),
           IdleOrSwitch(ready, st)
    PROVE  EveryTaskInItsPlace'
<1>1. /\ ReadyPlace(ready_tasks', state')
      /\ OneWorking'
      /\ \A t \in Tasks, x \in {"SLEEP", "TERMINATED"} :
            state'[t] = x <=> st[t] = x
  BY IdleOrSwitchPlace
<1>2. \A t \in Tasks : /\ state'[t] = "SLEEP" <=> st[t] = "SLEEP"
                       /\ state'[t] = "TERMINATED" <=> st[t] = "TERMINATED"
  BY <1>1
<1>3. SleepPlace(sleep_tasks', state')
  BY <1>2 DEF SleepPlace
<1>4. TerminatedPlace(terminated_tasks', state')
  BY <1>2 DEF TerminatedPlace
<1> QED
  BY <1>1, <1>3, <1>4
     DEF EveryTaskInItsPlace, ReadyPlace, SleepPlace, TerminatedPlace,
         OneWorking, Sleeping

\* sleep() moves the running task to sleep_tasks, and no other task.
LEMMA SleepKeepsPlaces ==
    ASSUME TypeOK, InterruptsOnlyWhenIdle, EveryTaskInItsPlace,
           NEW d \in Durations, FallAsleep((now + d) % TimeMod)
    PROVE  EveryTaskInItsPlace'
<1> DEFINE record == [awake |-> (now + d) % TimeMod, task |-> current_task]
           st == [state EXCEPT ![current_task] = "SLEEP"]
<1>1. PICK i \in 1..(Len(sleep_tasks) + 1) :
         sleep_tasks' = InsertAt(sleep_tasks, i, record)
  BY DEF FallAsleep
<1>2. record \in SleepRecord /\ record.task = current_task
  BY SchedulerAssumption DEF TypeOK, SleepRecord, Time
<1> HIDE DEF record
<1>3. Len(sleep_tasks) \in Nat
  BY DEF TypeOK
<1>4. /\ Len(sleep_tasks') = Len(sleep_tasks) + 1
      /\ \A j \in 1..(Len(sleep_tasks) + 1) :
            sleep_tasks'[j] = IF j < i THEN sleep_tasks[j]
                              ELSE IF j = i THEN record ELSE sleep_tasks[j - 1]
  BY <1>2, <1>1, InsertRecord
<1>5. /\ state[current_task] = "WORKING"
      /\ current_task \in Tasks
      /\ cpu = "run"
      /\ \A t \in Tasks : st[t] = IF t = current_task THEN "SLEEP" ELSE state[t]
  BY PlaceParts DEF OneWorking, Idle, FallAsleep, TypeOK
<1>6. st \in [Tasks -> TaskStates]
  BY DEF TypeOK, TaskStates
<1>7. /\ ReadyPlace(ready_tasks, state)
      /\ SleepPlace(sleep_tasks, state)
      /\ TerminatedPlace(terminated_tasks, state)
      /\ OneWorking
  BY PlaceParts
<1>8. IdleOrSwitch(ready_tasks, st) /\ terminated_tasks' = terminated_tasks
  BY <1>5, ScheduleIdle DEF FallAsleep
<1> HIDE DEF st
<1>9. \A j \in 1..Len(sleep_tasks) : sleep_tasks[j].task # current_task
  <2>1. ASSUME NEW j \in 1..Len(sleep_tasks), sleep_tasks[j].task = current_task
        PROVE  FALSE
    BY <1>5, <1>7, <2>1 DEF SleepPlace
  <2> QED
    BY <2>1
<1>10. ASSUME NEW j \in 1..(Len(sleep_tasks) + 1), j # i
       PROVE  \E k \in 1..Len(sleep_tasks) :
                 /\ sleep_tasks'[j] = sleep_tasks[k]
                 /\ (j < i /\ k = j) \/ (j > i /\ k = j - 1)
  <2>1. CASE j < i
    BY <1>3, <1>4, <2>1
  <2>2. CASE j > i
    BY <1>3, <1>4, <2>2
  <2>3. j < i \/ j > i
    BY <1>3, <1>10
  <2> QED
    BY <2>1, <2>2, <2>3
<1>11. sleep_tasks'[i] = record
  BY <1>3, <1>4
<1>12. SleepPlace(sleep_tasks', st)
  <2>1. ASSUME NEW j \in 1..(Len(sleep_tasks) + 1),
               NEW k \in 1..(Len(sleep_tasks) + 1),
               sleep_tasks'[j].task = sleep_tasks'[k].task
        PROVE  j = k
    <3>1. CASE j = i \/ k = i
      BY <1>2, <1>9, <1>10, <1>11, <2>1, <3>1
    <3>2. CASE j # i /\ k # i
      <4>1. PICK x \in 1..Len(sleep_tasks) :
               /\ sleep_tasks'[j] = sleep_tasks[x]
               /\ (j < i /\ x = j) \/ (j > i /\ x = j - 1)
        BY <1>10, <3>2
      <4>2. PICK y \in 1..Len(sleep_tasks) :
               /\ sleep_tasks'[k] = sleep_tasks[y]
               /\ (k < i /\ y = k) \/ (k > i /\ y = k - 1)
        BY <1>10, <3>2
      <4>3. x = y
        BY <1>7, <2>1, <4>1, <4>2 DEF SleepPlace
      <4> QED
        BY <1>3, <4>1, <4>2, <4>3
    <3> QED
      BY <3>1, <3>2
  <2>2. ASSUME NEW t \in Tasks, NEW j \in 1..(Len(sleep_tasks) + 1),
               sleep_tasks'[j].task = t
        PROVE  st[t] = "SLEEP"
    BY <1>2, <1>5, <1>7, <1>10, <1>11, <2>2 DEF SleepPlace
  <2>3. ASSUME NEW t \in Tasks, st[t] = "SLEEP"
        PROVE  \E j \in 1..(Len(sleep_tasks) + 1) : sleep_tasks'[j].task = t
    <3>1. CASE t = current_task
      BY <1>2, <1>11, <3>1
    <3>2. CASE t # current_task
      <4>1. PICK k \in 1..Len(sleep_tasks) : sleep_tasks[k].task = t
        BY <1>5, <1>7, <2>3, <3>2 DEF SleepPlace
      <4>2. CASE k < i
        BY <1>3, <1>4, <4>1, <4>2
      <4>3. CASE ~(k < i)
        <5>1. /\ k + 1 \in 1..(Len(sleep_tasks) + 1)
              /\ ~(k + 1 < i) /\ k + 1 # i /\ (k + 1) - 1 = k
          BY <1>3, <4>3
        <5>2. sleep_tasks'[k + 1] = sleep_tasks[k]
          BY <1>4, <5>1
        <5> QED
          BY <4>1, <5>1, <5>2
      <4> QED
        BY <4>2, <4>3
    <3> QED
      BY <3>1, <3>2
  <2> QED
    BY <1>4, <2>1, <2>2, <2>3 DEF SleepPlace
<1>13. ReadyPlace(ready_tasks, st) /\ TerminatedPlace(terminated_tasks', st)
  BY <1>5, <1>7, <1>8 DEF ReadyPlace, TerminatedPlace
<1>14. NoneWorking(st)
  BY <1>5, <1>7 DEF NoneWorking, OneWorking
<1>15. ready_tasks \in Seq(Tasks)
  BY DEF TypeOK
<1> QED
  BY <1>6, <1>8, <1>12, <1>13, <1>14, <1>15, IdleOrSwitchKeepsPlaces

\* The woken sleepers enter ready_tasks, each once: a sleeping task is in
\* sleep_tasks once and in no other list.
LEMMA TimerKeepsPlaces ==
    ASSUME TypeOK, InterruptsOnlyWhenIdle, EveryTaskInItsPlace, TimerInterrupt
    PROVE  EveryTaskInItsPlace'
<1>1. PICK n \in 0..Len(sleep_tasks) :
         /\ sleep_tasks' = SubSeq(sleep_tasks, n + 1, Len(sleep_tasks))
         /\ Schedule(Reverse(Awakened(n)) \o ready_tasks,
                     [t \in Tasks |->
                        IF \E i \in 1..n : sleep_tasks[i].task = t
                        THEN "READY" ELSE state[t]],
                     Resumed)
  BY DEF TimerInterrupt
<1> DEFINE woken == Reverse(Awakened(n))
           Woken(t) == \E i \in 1..n : sleep_tasks[i].task = t
<1>2. interrupts /\ terminated_tasks' = terminated_tasks
  BY DEF TimerInterrupt
<1>3. /\ ready_tasks' = woken \o ready_tasks
      /\ state' = [t \in Tasks |-> IF Woken(t) THEN "READY" ELSE state[t]]
      /\ cpu' = "awake"
      /\ current_task' = current_task
  BY <1>1, <1>2, ScheduleIdle, ResumedAwake
<1>4. /\ ReadyPlace(ready_tasks, state)
      /\ SleepPlace(sleep_tasks, state)
      /\ TerminatedPlace(terminated_tasks, state)
      /\ OneWorking
      /\ Idle
  BY <1>2, PlaceParts DEF InterruptsOnlyWhenIdle
<1>5. /\ Len(sleep_tasks) \in Nat
      /\ Len(ready_tasks) \in Nat
      /\ n \in Nat /\ n <= Len(sleep_tasks)
  BY DEF TypeOK
<1>6. /\ woken \in Seq(Tasks)
      /\ Len(woken) = n
      /\ \A i \in 1..n : woken[i] = sleep_tasks[n - i + 1].task
  BY AwakenedType
<1> HIDE DEF woken
<1>7. /\ Len(ready_tasks') = n + Len(ready_tasks)
      /\ \A i \in 1..(n + Len(ready_tasks)) :
            ready_tasks'[i] = IF i <= n THEN woken[i] ELSE ready_tasks[i - n]
  BY <1>3, <1>6, ConcatProperties DEF TypeOK
<1>8. \A t \in Tasks : state'[t] = IF Woken(t) THEN "READY" ELSE state[t]
  BY <1>3
<1>9. \A i \in 1..n : n - i + 1 \in 1..n /\ n - (n - i + 1) + 1 = i
  BY <1>5
<1>10. \A i \in 1..n : i \in 1..Len(sleep_tasks)
  BY <1>5
<1>11. \A t \in Tasks : Woken(t) => state[t] = "SLEEP" /\ ~InList(t, ready_tasks)
  BY <1>4, <1>10 DEF SleepPlace, ReadyPlace
<1>12. \A t \in Tasks : Woken(t) <=> \E i \in 1..n : woken[i] = t
  BY <1>6, <1>9
<1>13. \A i \in 1..(n + Len(ready_tasks)) :
          \/ i \in 1..n
          \/ ~(i <= n) /\ i - n \in 1..Len(ready_tasks)
  BY <1>5
<1>14. \A i \in 1..Len(ready_tasks) :
          /\ n + i \in 1..(n + Len(ready_tasks))
          /\ ~(n + i <= n) /\ (n + i) - n = i
  BY <1>5
<1>15. \A i \in 1..n : i \in 1..(n + Len(ready_tasks)) /\ i <= n
  BY <1>5
<1>16. \A i \in 1..n : ready_tasks'[i] = woken[i]
  BY <1>7, <1>15
<1>17. \A i \in 1..Len(ready_tasks) : ready_tasks'[n + i] = ready_tasks[i]
  BY <1>7, <1>14
<1>18. ASSUME NEW t \in Tasks
       PROVE  InList(t, ready_tasks') <=> Woken(t) \/ InList(t, ready_tasks)
  <2>1. ASSUME InList(t, ready_tasks')
        PROVE  Woken(t) \/ InList(t, ready_tasks)
    <3>1. PICK i \in 1..(n + Len(ready_tasks)) : ready_tasks'[i] = t
      BY <1>7, <2>1 DEF InList
    <3>2. CASE i \in 1..n
      BY <1>12, <1>16, <3>1, <3>2
    <3>3. CASE ~(i <= n) /\ i - n \in 1..Len(ready_tasks)
      BY <1>7, <3>1, <3>3 DEF InList
    <3> QED
      BY <1>13, <3>2, <3>3
  <2>2. Woken(t) => InList(t, ready_tasks')
    BY <1>7, <1>12, <1>15, <1>16 DEF InList
  <2>3. InList(t, ready_tasks) => InList(t, ready_tasks')
    BY <1>7, <1>14, <1>17 DEF InList
  <2> QED
    BY <2>1, <2>2, <2>3
<1>19. Distinct(ready_tasks')
  <2> SUFFICES ASSUME NEW i \in 1..(n + Len(ready_tasks)),
                      NEW j \in 1..(n + Len(ready_tasks)),
                      ready_tasks'[i] = ready_tasks'[j]
               PROVE  i = j
    BY <1>7 DEF Distinct
  <2>1. ASSUME NEW x \in 1..n, NEW y \in 1..Len(ready_tasks),
               woken[x] = ready_tasks[y]
        PROVE  FALSE
    <3>1. woken[x] \in Tasks
      BY <1>6
    <3>2. Woken(woken[x])
      BY <1>12, <3>1
    <3> QED
      BY <1>11, <2>1, <3>1, <3>2 DEF InList
  <2>2. CASE i \in 1..n /\ j \in 1..n
    <3>1. sleep_tasks[n - i + 1].task = sleep_tasks[n - j + 1].task
      BY <1>6, <1>16, <2>2
    <3>2. n - i + 1 \in 1..Len(sleep_tasks) /\ n - j + 1 \in 1..Len(sleep_tasks)
      BY <1>9, <1>10, <2>2
    <3>3. n - i + 1 = n - j + 1
      BY <1>4, <3>1, <3>2 DEF SleepPlace
    <3> QED
      BY <1>5, <3>3
  <2>3. CASE i - n \in 1..Len(ready_tasks) /\ j - n \in 1..Len(ready_tasks)
    <3>1. ready_tasks[i - n] = ready_tasks[j - n]
      BY <1>5, <1>7, <2>3
    <3>2. i - n = j - n
      BY <1>4, <2>3, <3>1 DEF ReadyPlace, Distinct
    <3> QED
      BY <1>5, <3>2
  <2>4. CASE i \in 1..n /\ ~(j <= n) /\ j - n \in 1..Len(ready_tasks)
    BY <1>7, <1>16, <2>1, <2>4
  <2>5. CASE j \in 1..n /\ ~(i <= n) /\ i - n \in 1..Len(ready_tasks)
    BY <1>7, <1>16, <2>1, <2>5
  <2> QED
    BY <1>13, <2>2, <2>3, <2>4, <2>5
<1>20. ReadyPlace(ready_tasks', state')
  BY <1>4, <1>8, <1>11, <1>18, <1>19 DEF ReadyPlace
<1>21. SleepPlace(sleep_tasks', state')
  <2>1. /\ Len(sleep_tasks') = Len(sleep_tasks) - n
        /\ \A j \in 1..(Len(sleep_tasks) - n) :
              sleep_tasks'[j] = sleep_tasks[n + j]
    BY <1>1, <1>5 DEF TypeOK
  <2>2. \A j \in 1..(Len(sleep_tasks) - n) :
           n + j \in 1..Len(sleep_tasks) /\ n + j \notin 1..n
    BY <1>5
  <2>3. ASSUME NEW i \in 1..(Len(sleep_tasks) - n),
               NEW j \in 1..(Len(sleep_tasks) - n),
               sleep_tasks'[i].task = sleep_tasks'[j].task
        PROVE  i = j
    <3>1. n + i = n + j
      BY <1>4, <2>1, <2>2, <2>3 DEF SleepPlace
    <3> QED
      BY <1>5, <3>1
  <2>4. ASSUME NEW t \in Tasks, NEW i \in 1..(Len(sleep_tasks) - n),
               sleep_tasks'[i].task = t
        PROVE  state'[t] = "SLEEP"
    <3>1. sleep_tasks[n + i].task = t
      BY <2>1, <2>4
    <3>2. state[t] = "SLEEP"
      BY <1>4, <2>2, <3>1 DEF SleepPlace
    <3>3. ~Woken(t)
      BY <1>4, <1>10, <2>2, <3>1 DEF SleepPlace
    <3> QED
      BY <1>8, <3>2, <3>3
  <2>5. ASSUME NEW t \in Tasks, state'[t] = "SLEEP"
        PROVE  \E i \in 1..(Len(sleep_tasks) - n) : sleep_tasks'[i].task = t
    <3>1. state[t] = "SLEEP" /\ ~Woken(t)
      BY <1>8, <2>5
    <3>2. PICK k \in 1..Len(sleep_tasks) : sleep_tasks[k].task = t
      BY <1>4, <3>1 DEF SleepPlace
    <3>3. k \notin 1..n
      BY <3>1, <3>2
    <3>4. k - n \in 1..(Len(sleep_tasks) - n) /\ n + (k - n) = k
      BY <1>5, <3>3
    <3> QED
      BY <2>1, <3>2, <3>4
  <2> QED
    BY <2>1, <2>3, <2>4, <2>5 DEF SleepPlace
<1>22. TerminatedPlace(terminated_tasks', state')
  <2>1. \A t \in Tasks : state'[t] = "TERMINATED" <=> state[t] = "TERMINATED"
    BY <1>8, <1>11
  <2> QED
    BY <1>2, <1>4, <2>1 DEF TerminatedPlace
<1>23. OneWorking'
  BY <1>3, <1>4, <1>8, <1>11 DEF OneWorking, Idle
<1> QED
  BY <1>20, <1>21, <1>22, <1>23
     DEF EveryTaskInItsPlace, ReadyPlace, SleepPlace, TerminatedPlace,
         OneWorking, Sleeping

\* Before init_multitasking only kmain runs.
PlaceInv ==
    /\ EveryTaskInItsPlace
    /\ cpu = "boot" =>
          /\ sleep_tasks = <<>>
          /\ terminated_tasks = <<>>
          /\ state = [t \in Tasks |-> IF t = First THEN "WORKING" ELSE "UNUSED"]

\* init_multitasking puts the first created task in its place.
LEMMA BootKeepsPlaces ==
    ASSUME TypeOK, PlaceInv, InitMultitasking
    PROVE  EveryTaskInItsPlace'
<1>1. /\ sleep_tasks' = <<>>
      /\ terminated_tasks' = <<>>
      /\ state = [t \in Tasks |-> IF t = First THEN "WORKING" ELSE "UNUSED"]
      /\ First \in Tasks
  BY SchedulerAssumption DEF InitMultitasking, PlaceInv
<1>2. ASSUME NEW st \in [Tasks -> TaskStates],
             \A t \in Tasks : st[t] \in {"READY", "UNUSED"}
      PROVE  /\ NoneWorking(st)
             /\ SleepPlace(sleep_tasks', st)
             /\ TerminatedPlace(terminated_tasks', st)
  <2>1. \A t \in Tasks : /\ st[t] # "WORKING"
                         /\ st[t] # "SLEEP"
                         /\ st[t] # "TERMINATED"
    BY <1>2
  <2> QED
    BY <1>1, <2>1
       DEF NoneWorking, SleepPlace, TerminatedPlace, Distinct, InList
<1>3. ASSUME NEW t \in Tasks \ {First},
             IdleOrSwitch(<<t>>, [state EXCEPT ![First] = "READY",
                                               ![t] = "READY"])
      PROVE  EveryTaskInItsPlace'
  <2> DEFINE st == [state EXCEPT ![First] = "READY", ![t] = "READY"]
  <2>1. st \in [Tasks -> TaskStates]
    BY <1>1 DEF TaskStates
  <2>2. \A u \in Tasks : st[u] = IF u = First \/ u = t THEN "READY" ELSE "UNUSED"
    BY <1>1
  <2>3. <<t>> \in Seq(Tasks) /\ Len(<<t>>) = 1 /\ <<t>>[1] = t
    OBVIOUS
  <2> HIDE DEF st
  <2>4. ReadyPlace(<<t>>, st)
    BY <2>2, <2>3 DEF ReadyPlace, Distinct, InList
  <2>5. \A u \in Tasks : st[u] \in {"READY", "UNUSED"}
    BY <2>2
  <2>6. IdleOrSwitch(<<t>>, st)
    BY <1>3 DEF st
  <2> QED
    BY <1>2, <2>1, <2>3, <2>4, <2>5, <2>6, IdleOrSwitchKeepsPlaces
<1>4. ASSUME IdleOrSwitch(<<>>, [state EXCEPT ![First] = "READY"])
      PROVE  EveryTaskInItsPlace'
  <2> DEFINE st == [state EXCEPT ![First] = "READY"]
  <2>1. st \in [Tasks -> TaskStates]
    BY <1>1 DEF TaskStates
  <2>2. \A u \in Tasks : st[u] = IF u = First THEN "READY" ELSE "UNUSED"
    BY <1>1
  <2>3. <<>> \in Seq(Tasks) /\ Len(<<>>) = 0
    BY EmptySeq
  <2> HIDE DEF st
  <2>4. ReadyPlace(<<>>, st)
    BY <2>2, <2>3 DEF ReadyPlace, Distinct, InList
  <2>5. \A u \in Tasks : st[u] \in {"READY", "UNUSED"}
    BY <2>2
  <2>6. IdleOrSwitch(<<>>, st)
    BY <1>4 DEF st
  <2> QED
    BY <1>2, <2>1, <2>3, <2>4, <2>5, <2>6, IdleOrSwitchKeepsPlaces
<1> QED
  BY <1>3, <1>4 DEF InitMultitasking

\* Every step of cooperating tasks keeps every task in its place.
LEMMA PlaceStep ==
    ASSUME ~AnyCaller
    PROVE  /\ TypeOK /\ InterruptsOnlyWhenIdle /\ PlaceInv
           /\ [Next]_vars
           => PlaceInv'
<1> SUFFICES ASSUME TypeOK, InterruptsOnlyWhenIdle, PlaceInv, [Next]_vars
             PROVE  PlaceInv'
  OBVIOUS
<1>1. /\ EveryTaskInItsPlace
      /\ ReadyPlace(ready_tasks, state)
      /\ SleepPlace(sleep_tasks, state)
      /\ TerminatedPlace(terminated_tasks, state)
      /\ OneWorking
  BY PlaceParts DEF PlaceInv
<1>2. CASE UNCHANGED vars
  BY <1>2 DEF vars, PlaceInv, EveryTaskInItsPlace, Distinct, InList, Sleeping,
              Idle
<1>3. CASE Next
  <2>1. cpu' # "boot"
    BY <1>3, BootOnce
  <2> SUFFICES EveryTaskInItsPlace'
    BY <2>1 DEF PlaceInv
  <2>2. /\ current_task \in Tasks
        /\ ready_tasks \in Seq(Tasks)
        /\ terminated_tasks \in Seq(Tasks)
        /\ state \in [Tasks -> TaskStates]
    BY DEF TypeOK
  <2>3. cpu = "run" => /\ state[current_task] = "WORKING"
                       /\ \A t \in Tasks : t # current_task => state[t] # "WORKING"
    BY <1>1, <2>2 DEF OneWorking, Idle
  <2>4. CASE InitMultitasking
    BY <2>4, BootKeepsPlaces
  <2>5. CASE Awake
    <3>1. NoneWorking(state)
      BY <1>1, <2>5 DEF Awake, OneWorking, NoneWorking, Idle
    <3>2. /\ IdleOrSwitch(ready_tasks, state)
          /\ sleep_tasks' = sleep_tasks
          /\ terminated_tasks' = terminated_tasks
      BY <2>5 DEF Awake
    <3> QED
      BY <1>1, <2>2, <3>1, <3>2, IdleOrSwitchKeepsPlaces
  <2>6. CASE Yield
    <3> DEFINE st == [state EXCEPT ![current_task] = "READY"]
               ready == Append(ready_tasks, current_task)
    <3>1. /\ IdleOrSwitch(ready, st)
          /\ sleep_tasks' = sleep_tasks
          /\ terminated_tasks' = terminated_tasks
          /\ cpu = "run"
      BY <2>6, ScheduleIdle DEF Yield
    <3>2. st \in [Tasks -> TaskStates] /\ ready \in Seq(Tasks)
      BY <2>2 DEF TaskStates
    <3>3. \A t \in Tasks : st[t] = IF t = current_task THEN "READY" ELSE state[t]
      BY <2>2
    <3>4. ~InList(current_task, ready_tasks)
      BY <1>1, <2>2, <2>3, <3>1 DEF ReadyPlace
    <3>5. /\ \A t : InList(t, ready) <=> InList(t, ready_tasks) \/ t = current_task
          /\ Distinct(ready)
      BY <1>1, <2>2, <3>4, AppendList DEF ReadyPlace
    <3> HIDE DEF st, ready
    <3>6. ReadyPlace(ready, st)
      BY <1>1, <3>3, <3>5 DEF ReadyPlace
    <3>7. /\ NoneWorking(st)
          /\ SleepPlace(sleep_tasks', st)
          /\ TerminatedPlace(terminated_tasks', st)
      BY <1>1, <2>3, <3>1, <3>3 DEF NoneWorking, SleepPlace, TerminatedPlace
    <3> QED
      BY <3>1, <3>2, <3>6, <3>7, IdleOrSwitchKeepsPlaces
  <2>7. CASE BlockTask("WAITING")
    <3> DEFINE st == [state EXCEPT ![current_task] = "WAITING"]
    <3>1. /\ IdleOrSwitch(ready_tasks, st)
          /\ sleep_tasks' = sleep_tasks
          /\ terminated_tasks' = terminated_tasks
          /\ cpu = "run"
      BY <2>7, ScheduleIdle DEF BlockTask
    <3>2. st \in [Tasks -> TaskStates]
      BY <2>2 DEF TaskStates
    <3>3. \A t \in Tasks :
             st[t] = IF t = current_task THEN "WAITING" ELSE state[t]
      BY <2>2
    <3> HIDE DEF st
    <3>4. /\ ReadyPlace(ready_tasks, st)
          /\ NoneWorking(st)
          /\ SleepPlace(sleep_tasks', st)
          /\ TerminatedPlace(terminated_tasks', st)
      BY <1>1, <2>3, <3>1, <3>3
         DEF ReadyPlace, NoneWorking, SleepPlace, TerminatedPlace
    <3> QED
      BY <2>2, <3>1, <3>2, <3>4, IdleOrSwitchKeepsPlaces
  <2>8. ASSUME NEW d \in Durations, FallAsleep((now + d) % TimeMod)
        PROVE  EveryTaskInItsPlace'
    BY <1>1, <2>8, SleepKeepsPlaces
  <2>9. ASSUME NEW t \in Tasks, CreateTask(t)
        PROVE  EveryTaskInItsPlace'
    <3>1. /\ state[t] = "UNUSED"
          /\ \A u \in Tasks : state'[u] = IF u = t THEN "READY" ELSE state[u]
          /\ ready_tasks' = Append(ready_tasks, t)
          /\ UNCHANGED <<sleep_tasks, terminated_tasks, current_task, cpu>>
      BY <2>2, <2>9 DEF CreateTask
    <3>2. ~InList(t, ready_tasks)
      BY <1>1, <3>1 DEF ReadyPlace
    <3>3. /\ \A u : InList(u, ready_tasks') <=> InList(u, ready_tasks) \/ u = t
          /\ Distinct(ready_tasks')
      BY <1>1, <2>2, <3>1, <3>2, AppendList DEF ReadyPlace
    <3>4. ReadyPlace(ready_tasks', state')
      BY <1>1, <3>1, <3>3 DEF ReadyPlace
    <3>5. SleepPlace(sleep_tasks', state')
      BY <1>1, <3>1 DEF SleepPlace
    <3>6. TerminatedPlace(terminated_tasks', state')
      BY <1>1, <3>1 DEF TerminatedPlace
    <3>7. OneWorking'
      BY <1>1, <3>1 DEF OneWorking, Idle
    <3> QED
      BY <3>4, <3>5, <3>6, <3>7
         DEF EveryTaskInItsPlace, ReadyPlace, SleepPlace, TerminatedPlace,
             OneWorking, Sleeping
  <2>10. ASSUME NEW t \in Tasks, TerminateTask(t)
         PROVE  EveryTaskInItsPlace'
    <3> DEFINE st == [state EXCEPT ![t] = "TERMINATED"]
    <3>1. /\ t = current_task
          /\ cpu = "run"
          /\ terminated_tasks' = Append(terminated_tasks, t)
          /\ sleep_tasks' = sleep_tasks
          /\ IdleOrSwitch(ready_tasks, st)
      BY <2>10, ScheduleIdle DEF TerminateTask
    <3>2. st \in [Tasks -> TaskStates]
      BY <2>2 DEF TaskStates
    <3>3. \A u \in Tasks : st[u] = IF u = t THEN "TERMINATED" ELSE state[u]
      BY <2>2
    <3>4. ~InList(t, terminated_tasks)
      BY <1>1, <2>3, <3>1 DEF TerminatedPlace
    <3>5. /\ \A u : InList(u, terminated_tasks') <=>
                       InList(u, terminated_tasks) \/ u = t
          /\ Distinct(terminated_tasks')
      BY <1>1, <2>2, <3>1, <3>4, AppendList DEF TerminatedPlace
    <3> HIDE DEF st
    <3>6. TerminatedPlace(terminated_tasks', st)
      BY <1>1, <3>3, <3>5 DEF TerminatedPlace
    <3>7. /\ ReadyPlace(ready_tasks, st)
          /\ NoneWorking(st)
          /\ SleepPlace(sleep_tasks', st)
      BY <1>1, <2>3, <3>1, <3>3 DEF ReadyPlace, NoneWorking, SleepPlace
    <3> QED
      BY <2>2, <3>1, <3>2, <3>6, <3>7, IdleOrSwitchKeepsPlaces
  <2>11. CASE TimerInterrupt
    BY <1>1, <2>11, TimerKeepsPlaces
  <2>12. CASE OtherInterrupt
    <3>1. /\ UNCHANGED <<ready_tasks, sleep_tasks, terminated_tasks, state,
                         current_task>>
          /\ Idle /\ Idle'
      BY <2>12 DEF OtherInterrupt, Idle
    <3> QED
      BY <1>1, <3>1 DEF EveryTaskInItsPlace, Distinct, InList, Sleeping
  <2>13. ASSUME NEW t \in Tasks, DeviceInterrupt(t)
         PROVE  EveryTaskInItsPlace'
    <3>1. /\ interrupts
          /\ state[t] = "WAITING"
          /\ Schedule(Append(ready_tasks, t), [state EXCEPT ![t] = "READY"],
                      Resumed)
          /\ UNCHANGED <<sleep_tasks, terminated_tasks>>
      BY <2>13 DEF DeviceInterrupt, UnblockTask
    <3>2. /\ ready_tasks' = Append(ready_tasks, t)
          /\ state' = [state EXCEPT ![t] = "READY"]
          /\ cpu' = "awake"
          /\ current_task' = current_task
          /\ Idle
      BY <3>1, ScheduleIdle, ResumedAwake DEF InterruptsOnlyWhenIdle
    <3>3. \A u \in Tasks : state'[u] = IF u = t THEN "READY" ELSE state[u]
      BY <2>2, <3>2
    <3>4. ~InList(t, ready_tasks)
      BY <1>1, <3>1 DEF ReadyPlace
    <3>5. /\ \A u : InList(u, ready_tasks') <=> InList(u, ready_tasks) \/ u = t
          /\ Distinct(ready_tasks')
      BY <1>1, <2>2, <3>2, <3>4, AppendList DEF ReadyPlace
    <3>6. ReadyPlace(ready_tasks', state')
      BY <1>1, <3>3, <3>5 DEF ReadyPlace
    <3>7. SleepPlace(sleep_tasks', state')
      BY <1>1, <3>1, <3>3 DEF SleepPlace
    <3>8. TerminatedPlace(terminated_tasks', state')
      BY <1>1, <3>1, <3>3 DEF TerminatedPlace
    <3>9. OneWorking'
      BY <1>1, <3>2, <3>3 DEF OneWorking, Idle
    <3> QED
      BY <3>6, <3>7, <3>8, <3>9
         DEF EveryTaskInItsPlace, ReadyPlace, SleepPlace, TerminatedPlace,
             OneWorking, Sleeping
  <2>14. ASSUME NEW time, ReturnAtOnce(time)
         PROVE  EveryTaskInItsPlace'
    BY <1>2, <2>14 DEF ReturnAtOnce, PlaceInv
  <2>15. ASSUME NEW d \in Durations, Sleep(d)
         PROVE  EveryTaskInItsPlace'
    BY <2>8, <2>14, <2>15 DEF Sleep, NanosleepUntil
  <2> QED
    BY <1>3, <2>4, <2>5, <2>6, <2>7, <2>9, <2>10, <2>11, <2>12, <2>13, <2>15
       DEF Next, TaskStep, InterruptStep, UnblockFromTask
<1> QED
  BY <1>2, <1>3

\* When tasks neither call unblock_task themselves nor terminate each other,
\* every task but the boot task is where its state says, exactly once: no
\* task is lost, linked twice or run while it waits.
THEOREM TasksInPlace ==
    ASSUME ~AnyCaller
    PROVE  Spec => []EveryTaskInItsPlace
<1>1. Init => PlaceInv
  <2>1. Init => /\ Len(ready_tasks) = 0
                /\ Len(sleep_tasks) = 0
                /\ Len(terminated_tasks) = 0
    BY EmptySeq DEF Init
  <2>2. Init => \A t \in Tasks :
                   state[t] = IF t = First THEN "WORKING" ELSE "UNUSED"
    BY DEF Init
  <2>3. Init => EveryTaskInItsPlace
    BY <2>1, <2>2
       DEF Init, EveryTaskInItsPlace, Distinct, InList, Sleeping, Idle
  <2> QED
    BY <2>3 DEF Init, PlaceInv
<1>2. Init => TypeOK /\ InterruptsOnlyWhenIdle
  BY InitTypeOK DEF Init, InterruptsOnlyWhenIdle, Idle
<1>3. PlaceInv => EveryTaskInItsPlace
  BY DEF PlaceInv
<1>4. TypeOK /\ InterruptsOnlyWhenIdle /\ PlaceInv /\ [Next]_vars => PlaceInv'
  BY PlaceStep
<1> QED
  BY <1>1, <1>2, <1>3, <1>4, TypeStep, InterruptsStep, PTL DEF Spec

-----------------------------------------------------------------------------
(* Interrupts from the two controllers *)

\* The levels and lines in service, and whose handler answers which line.
\* Line 0 is never left in service: no request comes before its handler is
\* installed, because interrupts stay off until schedule() first idles.
PicInv ==
    /\ irr \subseteq Lines
    /\ misr \subseteq 1..7
    /\ sisr \subseteq 8..15
    /\ DOMAIN call_table = 0..15
    /\ \A l \in Lines : call_table[l] = "timer" => l = 0
    /\ \A l \in Lines : call_table[l] = "rtc" => l = 7
    /\ cpu # "boot" => call_table[0] = "timer"

\* A line that nothing in service has the priority of is the one that a
\* non-specific EOI ends.
LEMMA EndsOwn ==
    ASSUME NEW serving \in SUBSET Int, NEW l \in Int,
           \A m \in serving : l < m
    PROVE  EndHighest(serving \cup {l}) = serving
<1> DEFINE all == serving \cup {l}
<1>1. \A x \in all : (\A y \in all : x <= y) <=> x = l
  OBVIOUS
<1>2. Min(all) = l
  <2>1. Min(all) = CHOOSE x \in all : \A y \in all : x <= y
    BY DEF Min
  <2>2. (CHOOSE x \in all : \A y \in all : x <= y) = l
    <3>1. /\ l \in all
          /\ \A y \in all : l <= y
      OBVIOUS
    <3>2. \A x \in all : (\A y \in all : x <= y) => x = l
      BY <1>1
    <3> HIDE DEF all
    <3> QED
      BY <3>1, <3>2
  <2> QED
    BY <2>1, <2>2
<1> QED
  BY <1>2 DEF EndHighest

\* An EOI ends the service of nothing that was not in service.
LEMMA EndHighestSubset ==
    ASSUME NEW serving
    PROVE  EndHighest(serving) \subseteq serving
  BY DEF EndHighest

\* The lines' levels.
LEMMA LevelType ==
    ASSUME NEW l \in Lines
    PROVE  /\ l \in 0..15
           /\ Level(l) \in 0..7
           /\ Level(l) = 0 <=> l = 0
  BY InterruptsAssumption DEF Level

\* Every handler runs behind an interrupt gate that was open, does to the
\* scheduler what one of its interrupts does, or nothing, and leaves no more in
\* service than the acknowledge put there; all but reserved_interrupt send
\* the EOI.
LEMMA HandlerStep ==
    ASSUME NEW l, NEW master, NEW slave, IntCommonHandler(l, master, slave)
    PROVE  /\ interrupts
           /\ [InterruptStep]_vars
           /\ misr' \subseteq master
           /\ sisr' \subseteq slave
           /\ call_table[l] = "timer" => PicEoi(0, master, slave)
           /\ call_table[l] = "rtc" /\ master # {} => PicEoi(7, master, slave)
           /\ call_table[l] = "driver" => PicEoi(l, master, slave)
           /\ call_table[l] \in {"timer", "rtc", "driver", "reserved"}
<1>1. Returns => interrupts /\ [InterruptStep]_vars
  BY DEF Returns, OtherInterrupt, InterruptStep
<1>2. \A k : PicEoi(k, master, slave) => misr' \subseteq master /\ sisr' \subseteq slave
  BY EndHighestSubset DEF PicEoi
<1>3. CASE call_table[l] = "timer" /\ TimerHandler(master, slave)
  BY <1>2, <1>3 DEF TimerHandler, TimerInterrupt, InterruptStep
<1>4. CASE call_table[l] = "rtc" /\ RtcHandler(master, slave)
  BY <1>1, <1>2, <1>4 DEF RtcHandler
<1>5. CASE call_table[l] = "reserved" /\ ReservedInterrupt(master, slave)
  BY <1>1, <1>5 DEF ReservedInterrupt
<1>6. CASE call_table[l] = "driver" /\ DriverHandler(l, master, slave)
  <2>1. interrupts /\ [InterruptStep]_vars
    BY <1>1, <1>6 DEF DriverHandler, DeviceInterrupt, InterruptStep
  <2> QED
    BY <1>2, <1>6, <2>1 DEF DriverHandler
<1> QED
  BY <1>3, <1>4, <1>5, <1>6 DEF IntCommonHandler

\* A handled interrupt leaves what was in service before it.
LEMMA Released ==
    ASSUME PicInv, NEW l \in Lines, Interrupt(l), call_table[l] # "reserved"
    PROVE  UNCHANGED <<misr, sisr>>
<1> DEFINE master == misr \cup {Level(l)}
           slave == IF l > 7 THEN sisr \cup {l} ELSE sisr
<1>1. IntCommonHandler(l, master, slave) /\ Unblocked(l)
  BY DEF Interrupt, Requesting
<1>2. /\ call_table[l] = "timer" => PicEoi(0, master, slave)
      /\ call_table[l] = "rtc" => PicEoi(7, master, slave)
      /\ call_table[l] = "driver" => PicEoi(l, master, slave)
      /\ call_table[l] \in {"timer", "rtc", "driver", "reserved"}
  <2>1. master # {}
    OBVIOUS
  <2> HIDE DEF master, slave
  <2> QED
    BY <1>1, <2>1, HandlerStep
<1>3. PicEoi(l, master, slave)
  BY <1>2 DEF PicInv
<1>4. EndHighest(master) = misr
  <2>1. /\ misr \in SUBSET Int /\ Level(l) \in Int
        /\ \A m \in misr : Level(l) < m
    BY <1>1, LevelType DEF PicInv, Unblocked
  <2> QED
    BY <2>1, EndsOwn
<1>5. l > 7 => EndHighest(slave) = sisr
  <2>1. l > 7 => /\ sisr \in SUBSET Int /\ l \in Int
                 /\ \A s \in sisr : l < s
    BY <1>1, LevelType DEF PicInv, Unblocked
  <2> QED
    BY <2>1, EndsOwn
<1> QED
  BY <1>3, <1>4, <1>5 DEF PicEoi

\* Every step keeps the invariant and is, to the scheduler, one of its own.
LEMMA PicStep ==
    ASSUME PicInv, InterruptsOnlyWhenIdle, [PicNext]_allVars
    PROVE  PicInv' /\ [Next]_vars
<1>0. interrupts => call_table[0] = "timer"
  BY DEF PicInv, InterruptsOnlyWhenIdle, Idle
<1>1. ASSUME NEW l \in Lines, Raise(l)
      PROVE  PicInv' /\ [Next]_vars
  BY <1>1 DEF Raise, PicInv, vars
<1>2. CASE InitInterrupts
  BY <1>2, InterruptsAssumption DEF InitInterrupts, InitExceptions, PicInv, vars
<1>3. CASE InitTimer
  <2>1. Next
    BY <1>3 DEF InitTimer, Next
  <2>2. /\ call_table' = [call_table EXCEPT ![0] = "timer", ![7] = "rtc"]
        /\ UNCHANGED <<irr, misr, sisr>>
    BY <1>3 DEF InitTimer
  <2>3. /\ DOMAIN call_table' = 0..15
        /\ call_table'[0] = "timer"
        /\ \A l \in 0..15 : l # 0 /\ l # 7 => call_table'[l] = call_table[l]
        /\ call_table'[7] = "rtc"
    BY <2>2 DEF PicInv
  <2> QED
    BY <2>1, <2>2, <2>3, LevelType DEF PicInv
<1>4. ASSUME NEW l \in DriverLines, SetIntHandler(l)
      PROVE  PicInv' /\ [Next]_vars
  BY <1>4, InterruptsAssumption DEF SetIntHandler, PicInv, vars
\* After boot the rest of the invariant is about what handlers and tasks leave
\* alone.
<1>5. ASSUME UNCHANGED call_table, cpu # "boot", irr' \subseteq Lines,
             misr' \subseteq 1..7, sisr' \subseteq 8..15
      PROVE  PicInv'
  BY <1>5 DEF PicInv
<1>6. interrupts => cpu # "boot"
  BY DEF InterruptsOnlyWhenIdle, Idle
<1>7. ASSUME NEW l \in Lines, Interrupt(l)
      PROVE  PicInv' /\ [Next]_vars
  <2> DEFINE master == misr \cup {Level(l)}
             slave == IF l > 7 THEN sisr \cup {l} ELSE sisr
  <2>1. IntCommonHandler(l, master, slave)
    BY <1>7 DEF Interrupt
  <2>2. /\ interrupts /\ [InterruptStep]_vars
        /\ misr' \subseteq master /\ sisr' \subseteq slave
    <3> HIDE DEF master, slave
    <3> QED
      BY <2>1, HandlerStep
  <2>3. UNCHANGED call_table /\ irr' \subseteq Lines
    BY <1>7 DEF Interrupt, PicInv
  <2>4. misr' \subseteq 1..7
    <3>1. CASE l = 0
      BY <1>0, <1>7, <2>2, <3>1, Released DEF PicInv
    <3>2. CASE l # 0
      BY <2>2, <3>2, LevelType DEF PicInv
    <3> QED
      BY <3>1, <3>2
  <2>5. sisr' \subseteq 8..15
    BY <2>2, LevelType DEF PicInv
  <2> QED
    BY <1>5, <1>6, <2>2, <2>3, <2>4, <2>5 DEF Next
<1>8. ASSUME NEW l \in Lines, Spurious(l)
      PROVE  PicInv' /\ [Next]_vars
  <2>1. PICK k, master : /\ IntCommonHandler(k, master, sisr)
                         /\ master \subseteq misr \cup {2}
    BY <1>8 DEF Spurious
  <2>2. /\ interrupts /\ [InterruptStep]_vars
        /\ misr' \subseteq master /\ sisr' \subseteq sisr
    BY <2>1, HandlerStep
  <2>3. UNCHANGED call_table /\ irr' \subseteq Lines
    BY <1>8 DEF Spurious, PicInv
  <2>4. misr' \subseteq 1..7 /\ sisr' \subseteq 8..15
    BY <2>1, <2>2 DEF PicInv
  <2> QED
    BY <1>5, <1>6, <2>2, <2>3, <2>4 DEF Next
<1>9. CASE (TaskStep \/ Awake) /\ UNCHANGED picVars
  <2>1. cpu # "boot"
    BY <1>9 DEF TaskStep, Awake, Yield, BlockTask, Sleep, NanosleepUntil,
                ReturnAtOnce, FallAsleep, CreateTask, TerminateTask, UnblockFromTask
  <2>2. UNCHANGED <<irr, misr, sisr, call_table>>
    BY <1>9 DEF picVars
  <2>3. PicInv'
    BY <1>5, <2>1, <2>2 DEF PicInv
  <2> QED
    BY <1>9, <2>3 DEF Next
<1>10. CASE UNCHANGED allVars
  BY <1>10 DEF allVars, picVars, vars, PicInv
<1> QED
  BY <1>1, <1>2, <1>3, <1>4, <1>7, <1>8, <1>9, <1>10 DEF PicNext

\* The invariant of the controllers and the scheduler's first one hold.
LEMMA PicAlways == PicSpec => [](PicInv /\ InterruptsOnlyWhenIdle)
<1>1. PicInit => PicInv /\ InterruptsOnlyWhenIdle
  BY LevelType DEF PicInit, Init, PicInv, InterruptsOnlyWhenIdle, Idle
<1>2. PicInv /\ InterruptsOnlyWhenIdle /\ [PicNext]_allVars
         => (PicInv /\ InterruptsOnlyWhenIdle)'
  BY PicStep, InterruptsStep
<1> QED
  BY <1>1, <1>2, PTL DEF PicSpec

\* Whatever the devices and the handlers do, the scheduler is driven as
\* Scheduler says: its theorems hold behind the controllers.
THEOREM PicImplementsScheduler == PicSpec => Spec
<1>1. PicInit => Init
  BY DEF PicInit
<1>2. PicInv /\ InterruptsOnlyWhenIdle /\ [PicNext]_allVars => [Next]_vars
  BY PicStep
<1> QED
  BY <1>1, <1>2, PicAlways, PTL DEF PicSpec, Spec

\* A handler that sends PIC_EOI ends its own line's service and no other, in
\* nested mode, with any lines that reserved_interrupt left in service.
THEOREM HandlersReleaseOwnLine == PicSpec => HandledLinesReleased
<1>1. PicInv /\ [PicNext]_allVars
         => [\A l \in Lines :
                Interrupt(l) /\ call_table[l] # "reserved"
                   => UNCHANGED <<misr, sisr>>]_allVars
  BY Released
<1> QED
  BY <1>1, PicAlways, PTL DEF PicSpec, HandledLinesReleased

\* The timer's request is never blocked: between two steps line 0 is not in
\* service, and nothing else has its priority.  The scheduler's clock cannot
\* be stopped by a handler that forgets, or sends, an EOI.
THEOREM TimerNeverBlocked == PicSpec => []Unblocked(0)
<1>1. PicInv => Unblocked(0)
  BY DEF PicInv, Unblocked, Level
<1> QED
  BY <1>1, PicAlways, PTL

=============================================================================

------------------------------ MODULE Scheduler ------------------------------
(***************************************************************************)
(* The kernel threads of kernel/modules/multitasking: the ready, sleep and *)
(* terminated lists, the cooperative calls of multitasking.h, the timer    *)
(* interrupt, and the idle loop inside schedule().                         *)
(*                                                                         *)
(* There is one CPU.  The bootloader enters the kernel with interrupts     *)
(* disabled (fat12boot.asm, `cli`) and the only `sti` of the kernel is the *)
(* one in schedule(), so a call made by a task runs without interruption   *)
(* up to the point where it halts the CPU or switches to another task: it  *)
(* is one action here.  An interrupt handler runs behind an interrupt gate *)
(* (interrupts disabled) and is one action too.                            *)
(*                                                                         *)
(* Lists are sequences of the objects they link (LinkedList.tla is about   *)
(* the links).  Memory for list nodes and sleep records is assumed to be   *)
(* available; kheap.c is modelled in SlabHeap.tla.                         *)
(***************************************************************************)
EXTENDS Integers, Sequences, SequencesExt

CONSTANTS
    Tasks,          \* every task_t that ever exists
    First,          \* the task kmain becomes in init_multitasking
    TimeMod,        \* 2^32 for the code's uint32_t clock
    Tick,           \* 1000000 / TICK_HZ, the clock's step per interrupt
    Durations,      \* what tasks pass to sleep() and nanosleep()
    AnyCaller,      \* TRUE: tasks also call unblock_task and terminate others
    MaxTerminated   \* bound on the length of terminated_tasks

ASSUME SchedulerAssumption ==
    /\ First \in Tasks
    /\ TimeMod \in Nat \ {0}
    /\ Tick \in 1..TimeMod
    /\ Durations \subseteq 0..(TimeMod - 1)
    /\ AnyCaller \in BOOLEAN
    /\ MaxTerminated \in Nat

VARIABLES
    ready_tasks,        \* list_t *ready_tasks
    sleep_tasks,        \* list_t *sleep_tasks, of sleep_task_t
    terminated_tasks,   \* list_t *terminated_tasks
    state,              \* task_t.state; "UNUSED" before create_task
    current_task,       \* task_t *current_task
    postponed,          \* postponed_task_switch
    interrupts,         \* the CPU's interrupt flag
    now,                \* nanoseconds_since_boot
    cpu                 \* where the CPU is, see CpuStates

vars == <<ready_tasks, sleep_tasks, terminated_tasks, state, current_task,
          postponed, interrupts, now, cpu>>

Time == 0..(TimeMod - 1)

TaskStates == {"UNUSED", "WORKING", "READY", "SLEEP", "WAITING", "TERMINATED"}

\* sleep_task_t
SleepRecord == [awake : Time, task : Tasks]

\* "boot": kmain, before init_multitasking.  "run": the code of current_task.
\* "halt": in the loop of schedule(), stopped at hlt with interrupts enabled.
\* "awake": an interrupt has ended that hlt and the cli behind it is next.
CpuStates == {"boot", "run", "halt", "awake"}

\* The lists link tasks only, and the clock and every deadline stay within
\* uint32_t although sleep() adds to them (multitasking.h:43).
TypeOK ==
    /\ ready_tasks \in Seq(Tasks)
    /\ sleep_tasks \in Seq(SleepRecord)
    /\ terminated_tasks \in Seq(Tasks)
    /\ state \in [Tasks -> TaskStates]
    /\ current_task \in Tasks
    /\ postponed \in BOOLEAN
    /\ interrupts \in BOOLEAN
    /\ now \in Time
    /\ cpu \in CpuStates

-----------------------------------------------------------------------------
(* schedule() *)

\* Mutant: the cli behind hlt is missing.
MutIdleOrSwitch(ready, st) ==
    \/ /\ ready = <<>>
       /\ postponed' = TRUE
       /\ interrupts' = TRUE
       /\ cpu' = "halt"
       /\ ready_tasks' = ready
       /\ state' = st
       /\ UNCHANGED current_task
    \/ /\ ready # <<>>
       /\ postponed' = FALSE
       /\ cpu' = "run"
       /\ ready_tasks' = Tail(ready)
       /\ state' = [st EXCEPT ![Head(ready)] = "WORKING"]
       /\ current_task' = Head(ready)
       /\ UNCHANGED interrupts

\* The loop of schedule() and what follows it, entered with interrupts off:
\* with no ready task the CPU halts with interrupts enabled, otherwise the
\* head of ready_tasks becomes the working task and switch_task loads it.
IdleOrSwitch(ready, st) ==
    \/ /\ ready = <<>>
       /\ postponed' = TRUE
       /\ interrupts' = TRUE
       /\ cpu' = "halt"
       /\ ready_tasks' = ready
       /\ state' = st
       /\ UNCHANGED current_task
    \/ /\ ready # <<>>
       /\ postponed' = FALSE
       /\ interrupts' = FALSE
       /\ cpu' = "run"
       /\ ready_tasks' = Tail(ready)
       /\ state' = [st EXCEPT ![Head(ready)] = "WORKING"]
       /\ current_task' = Head(ready)

\* schedule() called with the given ready list and task states; `return` is
\* where the CPU goes on if a task switch is postponed already.
Schedule(ready, st, return) ==
    \/ /\ postponed
       /\ ready_tasks' = ready
       /\ state' = st
       /\ cpu' = return
       /\ UNCHANGED <<current_task, postponed, interrupts>>
    \/ /\ ~postponed
       /\ IdleOrSwitch(ready, st)

\* Mutant: the loop tests a copy of ready_tasks read before the hlt.
MutAwake ==
    /\ cpu = "awake"
    /\ cpu' = "halt"
    /\ interrupts' = TRUE
    /\ UNCHANGED <<ready_tasks, sleep_tasks, terminated_tasks, state,
                   current_task, postponed, now>>

\* The rest of the loop's body: the cli behind hlt, then the test of
\* ready_tasks again.
Awake ==
    /\ cpu = "awake"
    /\ IdleOrSwitch(ready_tasks, state)
    /\ UNCHANGED <<sleep_tasks, terminated_tasks, now>>

-----------------------------------------------------------------------------
(* Calls of the running task *)

\* Mutant: yield() forgets its push_back.
MutYieldLost ==
    /\ cpu = "run"
    /\ Schedule(ready_tasks, [state EXCEPT ![current_task] = "READY"], "run")
    /\ UNCHANGED <<sleep_tasks, terminated_tasks, now>>

Yield ==
    /\ cpu = "run"
    /\ Schedule(Append(ready_tasks, current_task),
                [state EXCEPT ![current_task] = "READY"], "run")
    /\ UNCHANGED <<sleep_tasks, terminated_tasks, now>>

BlockTask(reason) ==
    /\ cpu = "run"
    /\ Schedule(ready_tasks, [state EXCEPT ![current_task] = reason], "run")
    /\ UNCHANGED <<sleep_tasks, terminated_tasks, now>>

\* Mutant: the comparison the other way round.
MutAddComparator(add, next) == add.awake >= next.awake

\* add_comparator: the new record goes in front of one that is due no sooner.
AddComparator(add, next) == add.awake <= next.awake

\* insert_with_compare puts the record in front of the first one that the
\* comparator accepts, or at the end.
SleepPosition(record, i) ==
    /\ i \in 1..(Len(sleep_tasks) + 1)
    /\ \A j \in 1..(i - 1) : ~AddComparator(record, sleep_tasks[j])
    /\ i <= Len(sleep_tasks) => AddComparator(record, sleep_tasks[i])

\* A deadline that is not ahead of the clock, as one whose sum has wrapped:
\* the call returns at once and the task keeps the CPU.
ReturnAtOnce(time) ==
    /\ cpu = "run"
    /\ time <= now
    /\ UNCHANGED vars

FallAsleep(time) ==
    /\ cpu = "run"
    /\ time > now
    /\ LET record == [awake |-> time, task |-> current_task]
       IN  \E i \in 1..(Len(sleep_tasks) + 1) :
              /\ SleepPosition(record, i)
              /\ sleep_tasks' = InsertAt(sleep_tasks, i, record)
    /\ Schedule(ready_tasks, [state EXCEPT ![current_task] = "SLEEP"], "run")
    /\ UNCHANGED <<terminated_tasks, now>>

NanosleepUntil(time) == ReturnAtOnce(time) \/ FallAsleep(time)

\* Mutant: the sum in more than 32 bits.
MutSleep(duration) == NanosleepUntil(now + duration)

\* sleep() and nanosleep(): the deadline is a uint32_t sum.
Sleep(duration) == NanosleepUntil((now + duration) % TimeMod)

\* A failed allocation makes create_task return NULL with no list changed.
CreateTask(t) ==
    /\ cpu = "run"
    /\ state[t] = "UNUSED"
    /\ state' = [state EXCEPT ![t] = "READY"]
    /\ ready_tasks' = Append(ready_tasks, t)
    /\ UNCHANGED <<sleep_tasks, terminated_tasks, current_task, postponed,
                   interrupts, now, cpu>>

TerminateTask(t) ==
    /\ cpu = "run"
    /\ t = current_task \/ AnyCaller
    /\ state[t] \notin {"UNUSED", "TERMINATED"}
    /\ Len(terminated_tasks) < MaxTerminated
    /\ terminated_tasks' = Append(terminated_tasks, t)
    /\ Schedule(ready_tasks, [state EXCEPT ![t] = "TERMINATED"], "run")
    /\ UNCHANGED <<sleep_tasks, now>>

\* unblock_task(t), from a task or from an interrupt handler.
UnblockTask(t, return) ==
    /\ state[t] = "WAITING"
    /\ Schedule(Append(ready_tasks, t), [state EXCEPT ![t] = "READY"], return)
    /\ UNCHANGED <<sleep_tasks, terminated_tasks, now>>

UnblockFromTask(t) ==
    /\ cpu = "run"
    /\ AnyCaller
    /\ UnblockTask(t, "run")

-----------------------------------------------------------------------------
(* Interrupts *)

\* What the iret of a handler resumes: the hlt it ended, or the same code.
Resumed == IF cpu = "halt" THEN "awake" ELSE cpu

\* Mutant: a sleeper whose deadline is exactly now sleeps on.
MutDue(record, time) == record.awake < time

\* get_awaked_task: the first sleeper is woken if its time has come.
Due(record, time) == record.awake <= time

\* The timer handler wakes the first n sleepers, as long as the head is due,
\* pushing each one to the front of ready_tasks.
WakeSleepers(n, time) ==
    /\ n \in 0..Len(sleep_tasks)
    /\ \A i \in 1..n : Due(sleep_tasks[i], time)
    /\ n < Len(sleep_tasks) => ~Due(sleep_tasks[n + 1], time)

Awakened(n) == [i \in 1..n |-> sleep_tasks[i].task]

TimerInterrupt ==
    /\ interrupts
    /\ now' = (now + Tick) % TimeMod
    /\ \E n \in 0..Len(sleep_tasks) :
          /\ WakeSleepers(n, now')
          /\ sleep_tasks' = SubSeq(sleep_tasks, n + 1, Len(sleep_tasks))
          /\ Schedule(Reverse(Awakened(n)) \o ready_tasks,
                      [t \in Tasks |->
                         IF \E i \in 1..n : sleep_tasks[i].task = t
                         THEN "READY" ELSE state[t]],
                      Resumed)
    /\ UNCHANGED terminated_tasks

\* A handler that only prints (RTC_handler, reserved_interrupt) still ends
\* the hlt.
OtherInterrupt ==
    /\ interrupts
    /\ cpu = "halt"
    /\ cpu' = "awake"
    /\ UNCHANGED <<ready_tasks, sleep_tasks, terminated_tasks, state,
                   current_task, postponed, interrupts, now>>

\* A device's handler, installed with set_int_handler, that unblocks the task
\* waiting for the device.
DeviceInterrupt(t) ==
    /\ interrupts
    /\ UnblockTask(t, Resumed)

-----------------------------------------------------------------------------
(* Boot *)

\* create_task(test_sleep), when it succeeds, leaves one ready task behind;
\* block_task(READY) then marks kmain's own task READY and schedules.
InitMultitasking ==
    /\ cpu = "boot"
    /\ now' = 0
    /\ \/ \E t \in Tasks \ {First} :
             IdleOrSwitch(<<t>>, [state EXCEPT ![First] = "READY",
                                               ![t] = "READY"])
       \/ IdleOrSwitch(<<>>, [state EXCEPT ![First] = "READY"])
    /\ UNCHANGED <<sleep_tasks, terminated_tasks>>

Init ==
    /\ ready_tasks = <<>>
    /\ sleep_tasks = <<>>
    /\ terminated_tasks = <<>>
    /\ state = [t \in Tasks |-> IF t = First THEN "WORKING" ELSE "UNUSED"]
    /\ current_task = First
    /\ postponed = FALSE
    /\ interrupts = FALSE
    /\ now = 0
    /\ cpu = "boot"

TaskStep ==
    \/ Yield
    \/ BlockTask("WAITING")
    \/ \E d \in Durations : Sleep(d)
    \/ \E t \in Tasks : CreateTask(t)
    \/ \E t \in Tasks : TerminateTask(t)
    \/ \E t \in Tasks : UnblockFromTask(t)

InterruptStep ==
    \/ TimerInterrupt
    \/ OtherInterrupt
    \/ \E t \in Tasks : DeviceInterrupt(t)

Next == InitMultitasking \/ TaskStep \/ Awake \/ InterruptStep

Spec == Init /\ [][Next]_vars

\* The scheduler's own code executes on.  Nothing is assumed of the tasks:
\* multitasking is cooperative, and one that never calls the scheduler, halts
\* with interrupts off (test_sleep) or repeats a sleep that returns at once
\* keeps the CPU.  The PIT keeps ticking and the PIC holds its request, IRQ 0
\* with the highest priority, while interrupts are off: the timer cannot be
\* passed over for ever by other interrupts that end the hlt first, hence
\* strong fairness.
FairSpec ==
    /\ Spec
    /\ WF_vars(InitMultitasking)
    /\ WF_vars(Awake)
    /\ SF_vars(TimerInterrupt)

-----------------------------------------------------------------------------
(* Properties *)

Idle == cpu \in {"halt", "awake"}

\* Interrupts are enabled only inside the idle loop of schedule(), with the
\* switch marked postponed: no handler ever interrupts a task's use of the
\* unlocked lists, and the schedule() a handler calls always returns at once
\* (sheduler.c:48) instead of switching away from an interrupted task.
InterruptsOnlyWhenIdle ==
    /\ interrupts => Idle
    /\ postponed <=> Idle

\* sleep_tasks is ordered by deadline, whatever the order of the sleep calls
\* and of the clock's wrap-around: get_awaked_task looks at its head only.
SleepersSorted ==
    \A i, j \in 1..Len(sleep_tasks) :
        i < j => sleep_tasks[i].awake <= sleep_tasks[j].awake

Sleepers == {sleep_tasks[i] : i \in 1..Len(sleep_tasks)}

\* A tick of the clock wakes exactly those whose deadline it has reached or
\* passed, all of them in the one interrupt and nobody early.  The exception
\* is the tick in which the clock wraps, which wakes nobody: a deadline that
\* lies behind the last tick before the wrap is jumped over, and its sleeper
\* stays in the list for another round of the clock.
WokenByItsTick ==
    [][now' # now =>
          \A r \in Sleepers :
             r \in Sleepers' <=> r.awake > now + Tick \/ now + Tick >= TimeMod
      ]_vars

Distinct(s) == \A i, j \in 1..Len(s) : s[i] = s[j] => i = j

Sleeping(t) == \E i \in 1..Len(sleep_tasks) : sleep_tasks[i].task = t

InList(t, s) == \E i \in 1..Len(s) : s[i] = t

\* Each task other than the boot task is where its state says, once: a READY
\* task is in ready_tasks, a SLEEP task in sleep_tasks, a TERMINATED task in
\* terminated_tasks, and the WORKING task is the one on the CPU.  None is
\* linked twice, in two lists, or lost to the scheduler.
EveryTaskInItsPlace ==
    /\ Distinct(ready_tasks)
    /\ \A i, j \in 1..Len(sleep_tasks) :
          sleep_tasks[i].task = sleep_tasks[j].task => i = j
    /\ Distinct(terminated_tasks)
    /\ \A t \in Tasks :
          /\ InList(t, ready_tasks) => state[t] = "READY"
          /\ state[t] = "READY" /\ t # First => InList(t, ready_tasks)
          /\ Sleeping(t) <=> state[t] = "SLEEP"
          /\ InList(t, terminated_tasks) <=> state[t] = "TERMINATED"
          /\ state[t] = "WORKING" <=> t = current_task /\ ~Idle

\* sheduler.c:53, in the idle loop of schedule(): "All task are blocked so just
\* postpone task switch".  While the CPU is halted no task is able to run.
AllBlockedWhenHalted ==
    cpu = "halt" => \A t \in Tasks : state[t] # "READY"

Running(t) == cpu = "run" /\ current_task = t

\* A task in ready_tasks gets the CPU, whatever interrupts come and whoever
\* else yields, sleeps, wakes or is created, provided that no task keeps the
\* CPU for ever.  The premise is needed: nothing preempts a task, and one that
\* calls sleep() in a loop (kernel.c:60) while its deadline wraps keeps the
\* CPU, because the clock stands as long as it runs.
ReadyTaskRuns ==
    (\A t \in Tasks : []<>~Running(t))
       => \A t \in Tasks : InList(t, ready_tasks) ~> Running(t)


=============================================================================

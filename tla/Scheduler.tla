----------------------------- MODULE Scheduler -----------------------------
(***************************************************************************)
(* The task scheduler of kernel/sched/task.rs, the timer interrupt that    *)
(* preempts user code (arch/.../irq.rs), the int 0x80 entry path           *)
(* (arch/.../syscall_entry.rs) and the process system calls that drive it  *)
(* (kernel/syscall/proc.rs, kernel/exec/exec_impl.rs).                     *)
(*                                                                         *)
(* One CPU executes the task `current`.  Every action below is a stretch   *)
(* of code that no timer tick can split with a visible effect: it either   *)
(* runs with interrupts disabled, or a tick inside it only performs the    *)
(* on_tick half, which commutes with it.                                   *)
(*                                                                         *)
(* Abstractions.  wake[t] is wake_jiffies - JIFFIES, the ticks t still has *)
(* to sleep.  An address space is named by the pid it belongs to, 0 being  *)
(* the kernel's own.  A saved context is abstracted to home[t], the save   *)
(* area that holds where t really stopped: "ctx" when switch_context saved *)
(* it, "tf" when its user registers are in the trap frame.                 *)
(***************************************************************************)
EXTENDS Integers, Sequences, FiniteSets

CONSTANTS
  Task,          \* the tasks that may ever exist, the idle task excluded
  Idle,          \* the idle task of boot.rs
  NoTask,        \* the null task pointer
  InitTask,      \* the task spawn_init creates
  DEFAULT_SLICE, \* ticks a task may run before a reschedule is requested
  MaxSleep,      \* bound: longest sleep, in ticks, a program asks for
  MaxPid,        \* bound: number of pids handed out
  Calls          \* the system calls the programs issue

ASSUME SchedulerAssumption ==
  /\ InitTask \in Task
  /\ Idle \notin Task /\ NoTask \notin Task /\ Idle # NoTask
  /\ DEFAULT_SLICE \in Nat \ {0}
  /\ MaxSleep \in Nat
  /\ MaxPid \in Nat \ {0}

VARIABLES
  state,       \* Task.state
  runq,        \* RUNQ
  current,     \* CURRENT
  slice,       \* Task.timeslice
  wake,        \* Task.wake_jiffies - JIFFIES
  needResched, \* NEED_RESCHED
  inSyscall,   \* IN_SYSCALL, one flag for the whole machine
  pc,          \* where the task is, or where it will continue
  home,        \* the save area that holds a task that is not running
  pidOf,       \* the pid in Task.kind, 0 for TaskKind::KThread
  waitFor,     \* the pid a task is waiting for in sys_proc_wait
  procTask,    \* Process.main_task
  procState,   \* Process.state, "None" for a pid without a PROCS entry
  nextPid,     \* NEXT_PID
  cr3,         \* the active address space
  halted       \* an exception handler has stopped the machine

taskVars == <<state, runq, current, slice, wake, needResched, inSyscall, pc, home>>
procVars == <<pidOf, waitFor, procTask, procState, nextPid>>
vars == <<taskVars, procVars, cr3, halted>>

AllTasks == Task \cup {Idle}

TaskState == {"New", "Runnable", "Running", "Sleeping", "Zombie"}

Pids == 1 .. MaxPid

\* kstart: a kernel thread that has not entered user mode; sys: dispatch has
\* been called; sleep: queued as a sleeper, interrupts still on; wait and exit:
\* the loops around yield_now; sysret: dispatch has returned; sysout: IN_SYSCALL
\* is cleared, cli not yet executed; stuck: halted in a loop of run_user_elf.
Pc == {"kstart", "user", "sys", "exec", "sleep", "wait", "exit", "sysret",
       "sysout", "stuck", "idle"}

\* The pcs at which the code runs inside dispatch on behalf of a system call.
SyscallPc == {"sys", "exec", "sleep", "wait", "exit", "sysret"}

Init ==
  /\ state = [t \in AllTasks |-> IF t \in {InitTask, Idle} THEN "Runnable" ELSE "New"]
  /\ runq = <<InitTask>>
  /\ current = NoTask
  /\ slice = [t \in Task |-> DEFAULT_SLICE]
  /\ wake = [t \in Task |-> 0]
  /\ needResched = FALSE
  /\ inSyscall = FALSE
  /\ pc = [t \in AllTasks |-> IF t = Idle THEN "idle"
                              ELSE IF t = InitTask THEN "kstart" ELSE "user"]
  /\ home = [t \in AllTasks |-> IF t \in {InitTask, Idle} THEN "ctx" ELSE "tf"]
  /\ pidOf = [t \in Task |-> 0]
  /\ waitFor = [t \in Task |-> 0]
  /\ procTask = [p \in Pids |-> NoTask]
  /\ procState = [p \in Pids |-> "None"]
  /\ nextPid = 1
  /\ cr3 = 0
  /\ halted = FALSE

-----------------------------------------------------------------------------
(* Picking the next task, shared by schedule and preempt_from_timer.       *)

InQueue(q, t) == \E i \in 1 .. Len(q) : q[i] = t

\* Mutant of FirstRunnable: only sleepers are passed over.
MutPickAwake(q, st, k) ==
  IF k = 0 THEN \A j \in 1 .. Len(q) : st[q[j]] = "Sleeping"
           ELSE /\ st[q[k]] # "Sleeping"
                /\ \A j \in 1 .. (k - 1) : st[q[j]] = "Sleeping"

\* Mutant of FirstRunnable: the queue is served from the back.
MutPickLast(q, st, k) ==
  IF k = 0 THEN \A j \in 1 .. Len(q) : st[q[j]] # "Runnable"
           ELSE /\ st[q[k]] = "Runnable"
                /\ \A j \in (k + 1) .. Len(q) : st[q[j]] # "Runnable"

\* The loop over the queue stops at the k-th entry, the first Runnable one;
\* k = 0 when every entry has been rotated to the back and none is Runnable.
FirstRunnable(q, st, k) ==
  IF k = 0 THEN \A j \in 1 .. Len(q) : st[q[j]] # "Runnable"
           ELSE /\ st[q[k]] = "Runnable"
                /\ \A j \in 1 .. (k - 1) : st[q[j]] # "Runnable"

Picked(q, k) == IF k = 0 THEN Idle ELSE q[k]

\* Mutant of AfterPick: the entries the loop has not reached are lost.
MutDropRest(q, k) == IF k = 0 THEN q ELSE SubSeq(q, 1, k - 1)

\* The entries before the picked one were popped and pushed to the back.
AfterPick(q, k) ==
  IF k = 0 THEN q ELSE SubSeq(q, k + 1, Len(q)) \o SubSeq(q, 1, k - 1)

\* A task that is switched away from while Running becomes Runnable and goes
\* to the back of the queue; in any other state it is left as it is.
PutBack(st, t) == IF st[t] = "Running" THEN [st EXCEPT ![t] = "Runnable"] ELSE st

QueueBack(q, st, t) == IF st[t] = "Running" THEN Append(q, t) ELSE q

\* Mutant of Prepared: the address space is not switched.
MutKeepSpace(t) == cr3

\* prepare_next_task_machine_state: the address space of a user task is
\* activated when its process is found; a kernel thread keeps the current one.
Prepared(t) ==
  IF t \in Task /\ pidOf[t] \in Pids /\ procState[pidOf[t]] # "None" THEN pidOf[t] ELSE cr3

\* schedule, called by the running task t, which continues at `cont`.  st and q
\* are the task states and the queue its caller leaves.
Schedule(t, st, q, cont) ==
  \E k \in 0 .. Len(q) :
    /\ FirstRunnable(q, st, k)
    /\ LET next == Picked(q, k)
       IN /\ needResched' = FALSE
          /\ pc' = [pc EXCEPT ![t] = cont]
          /\ \/ /\ next = t
                /\ runq' = AfterPick(q, k)
                /\ state' = st
                /\ UNCHANGED <<current, slice, home, cr3, halted>>
             \/ /\ next # t
                /\ runq' = QueueBack(AfterPick(q, k), st, t)
                /\ state' = [PutBack(st, t) EXCEPT ![next] = "Running"]
                /\ slice' = [u \in Task |-> IF u = next /\ slice[u] = 0
                                            THEN DEFAULT_SLICE ELSE slice[u]]
                /\ current' = next
                /\ cr3' = Prepared(next)
                /\ home' = [home EXCEPT ![t] = "ctx"]
                \* switch_context jumps through next.ctx.  When next stopped
                \* elsewhere that is rip 0, or a frame long overwritten.
                /\ halted' = (home[next] # "ctx")

-----------------------------------------------------------------------------
(* Boot and the entry into user mode.                                      *)

\* The boot thread calls schedule with CURRENT still null (first_handoff).
BootHandoff ==
  /\ current = NoTask
  /\ \E k \in 0 .. Len(runq) :
       /\ FirstRunnable(runq, state, k)
       /\ LET next == Picked(runq, k)
          IN /\ state' = [state EXCEPT ![next] = "Running"]
             /\ slice' = [u \in Task |-> IF u = next /\ slice[u] = 0
                                         THEN DEFAULT_SLICE ELSE slice[u]]
             /\ current' = next
             /\ cr3' = Prepared(next)
             /\ runq' = AfterPick(runq, k)
  /\ needResched' = FALSE
  /\ UNCHANGED <<wake, inSyscall, pc, home, halted, procVars>>

\* run_user_elf, from init_main or from sys_exec: a new pid is made for the
\* running task and enter_user drops to ring 3 without passing syscall_exit.
RunUserElf(t) ==
  /\ current = t /\ pc[t] \in {"kstart", "exec"}
  /\ nextPid \in Pids
  /\ nextPid' = nextPid + 1
  /\ procTask' = [procTask EXCEPT ![nextPid] = t]
  /\ procState' = [procState EXCEPT ![nextPid] = "Running"]
  /\ pidOf' = [pidOf EXCEPT ![t] = nextPid]
  /\ cr3' = nextPid
  /\ pc' = [pc EXCEPT ![t] = "user"]
  /\ UNCHANGED <<state, runq, current, slice, wake, needResched, inSyscall, home,
                 waitFor, halted>>

\* The image cannot be loaded: run_user_elf never returns, it halts in a loop.
RunUserElfFails(t) ==
  /\ current = t /\ pc[t] \in {"kstart", "exec"}
  /\ nextPid \in Pids
  /\ nextPid' = nextPid + 1
  /\ pc' = [pc EXCEPT ![t] = "stuck"]
  /\ UNCHANGED <<state, runq, current, slice, wake, needResched, inSyscall, home,
                 pidOf, waitFor, procTask, procState, cr3, halted>>

-----------------------------------------------------------------------------
(* System calls of the running task.                                       *)

\* Mutant of SyscallEnter: IN_SYSCALL is not set.
MutEnterUnflagged(t) ==
  /\ current = t /\ pc[t] = "user"
  /\ pc' = [pc EXCEPT ![t] = "sys"]
  /\ UNCHANGED <<state, runq, current, slice, wake, needResched, inSyscall, home, procVars,
                 cr3, halted>>

\* syscall_entry: int 0x80 enters with interrupts off and sets IN_SYSCALL.
SyscallEnter(t) ==
  /\ current = t /\ pc[t] = "user"
  /\ inSyscall' = TRUE
  /\ pc' = [pc EXCEPT ![t] = "sys"]
  /\ UNCHANGED <<state, runq, current, slice, wake, needResched, home, procVars, cr3, halted>>

\* dispatch has returned: syscall_exit clears the flag, interrupts still on.
SyscallExit(t) ==
  /\ current = t /\ pc[t] = "sysret"
  /\ inSyscall' = FALSE
  /\ pc' = [pc EXCEPT ![t] = "sysout"]
  /\ UNCHANGED <<state, runq, current, slice, wake, needResched, home, procVars, cr3, halted>>

\* cli; iretq.
SyscallReturn(t) ==
  /\ current = t /\ pc[t] = "sysout"
  /\ pc' = [pc EXCEPT ![t] = "user"]
  /\ UNCHANGED <<state, runq, current, slice, wake, needResched, inSyscall, home,
                 procVars, cr3, halted>>

\* What dispatch may be asked by t.
InDispatch(t, call) == current = t /\ pc[t] = "sys" /\ call \in Calls

\* sys_yield only asks for a reschedule; the next tick in user mode obeys.
SysYield(t) ==
  /\ InDispatch(t, "yield")
  /\ needResched' = TRUE
  /\ pc' = [pc EXCEPT ![t] = "sysret"]
  /\ UNCHANGED <<state, runq, current, slice, wake, inSyscall, home, procVars, cr3, halted>>

\* sys_getpid, sys_proc_list, sys_proc_info and every call of another
\* component: nothing here changes.
SysOther(t) ==
  /\ InDispatch(t, "other")
  /\ pc' = [pc EXCEPT ![t] = "sysret"]
  /\ UNCHANGED <<state, runq, current, slice, wake, needResched, inSyscall, home,
                 procVars, cr3, halted>>

\* sleep_ms up to its call of schedule, which a tick may precede.
SysSleep(t, ticks) ==
  /\ InDispatch(t, "sleep")
  /\ state' = [state EXCEPT ![t] = "Sleeping"]
  /\ wake' = [wake EXCEPT ![t] = ticks]
  /\ runq' = Append(runq, t)
  /\ needResched' = TRUE
  /\ pc' = [pc EXCEPT ![t] = "sleep"]
  /\ UNCHANGED <<current, slice, inSyscall, home, procVars, cr3, halted>>

SleepSchedule(t) ==
  /\ current = t /\ pc[t] = "sleep"
  /\ Schedule(t, state, runq, "sysret")
  /\ UNCHANGED <<wake, inSyscall, procVars>>

\* sys_exit marks the task and its current process, then yields for ever.
SysExit(t) ==
  /\ InDispatch(t, "exit")
  /\ state' = [state EXCEPT ![t] = "Zombie"]
  /\ procState' = [procState EXCEPT ![pidOf[t]] = "Zombie"]
  /\ pc' = [pc EXCEPT ![t] = "exit"]
  /\ UNCHANGED <<runq, current, slice, wake, needResched, inSyscall, home,
                 pidOf, waitFor, procTask, nextPid, cr3, halted>>

ExitYield(t) ==
  /\ current = t /\ pc[t] = "exit"
  /\ Schedule(t, state, runq, "exit")
  /\ UNCHANGED <<wake, inSyscall, procVars>>

SysProcWait(t, p) ==
  /\ InDispatch(t, "wait")
  /\ waitFor' = [waitFor EXCEPT ![t] = p]
  /\ pc' = [pc EXCEPT ![t] = "wait"]
  /\ UNCHANGED <<state, runq, current, slice, wake, needResched, inSyscall, home,
                 pidOf, procTask, procState, nextPid, cr3, halted>>

\* One turn of the loop of sys_proc_wait: ESRCH, the zombie, or yield_now.
WaitTurn(t) ==
  /\ current = t /\ pc[t] = "wait"
  /\ \/ /\ procState[waitFor[t]] \in {"None", "Zombie"}
        /\ pc' = [pc EXCEPT ![t] = "sysret"]
        /\ waitFor' = [waitFor EXCEPT ![t] = 0]
        /\ UNCHANGED <<state, runq, current, slice, needResched, home, cr3, halted>>
     \/ /\ procState[waitFor[t]] = "Running"
        /\ Schedule(t, state, runq, "wait")
        /\ UNCHANGED waitFor
  /\ UNCHANGED <<wake, inSyscall, pidOf, procTask, procState, nextPid>>

\* sys_proc_kill: the victim is only marked; it stays in the queue, and when
\* it is the caller it goes on running.
SysProcKill(t, p) ==
  /\ InDispatch(t, "kill")
  /\ \/ /\ procState[p] # "None"
        /\ procState' = [procState EXCEPT ![p] = "Zombie"]
        /\ state' = [state EXCEPT ![procTask[p]] = "Zombie"]
     \/ /\ procState[p] = "None"
        /\ UNCHANGED <<procState, state>>
  /\ pc' = [pc EXCEPT ![t] = "sysret"]
  /\ UNCHANGED <<runq, current, slice, wake, needResched, inSyscall, home,
                 pidOf, waitFor, procTask, nextPid, cr3, halted>>

\* sys_proc_spawn; the kernel address space it works in is left again.
SysProcSpawn(t, child) ==
  /\ InDispatch(t, "spawn")
  /\ state[child] = "New" /\ nextPid \in Pids
  /\ nextPid' = nextPid + 1
  /\ state' = [state EXCEPT ![child] = "Runnable"]
  /\ runq' = Append(runq, child)
  /\ pidOf' = [pidOf EXCEPT ![child] = nextPid]
  /\ procTask' = [procTask EXCEPT ![nextPid] = child]
  /\ procState' = [procState EXCEPT ![nextPid] = "Running"]
  /\ pc' = [pc EXCEPT ![t] = "sysret"]
  /\ UNCHANGED <<current, slice, wake, needResched, inSyscall, home, waitFor, cr3, halted>>

\* sys_proc_spawn when load_user_elf_into fails: the pid is spent.
SysProcSpawnFails(t) ==
  /\ InDispatch(t, "spawn")
  /\ nextPid \in Pids
  /\ nextPid' = nextPid + 1
  /\ pc' = [pc EXCEPT ![t] = "sysret"]
  /\ UNCHANGED <<state, runq, current, slice, wake, needResched, inSyscall, home,
                 pidOf, waitFor, procTask, procState, cr3, halted>>

SysExec(t) ==
  /\ InDispatch(t, "exec")
  /\ nextPid \in Pids
  /\ pc' = [pc EXCEPT ![t] = "exec"]
  /\ UNCHANGED <<state, runq, current, slice, wake, needResched, inSyscall, home,
                 procVars, cr3, halted>>

-----------------------------------------------------------------------------
(* The timer interrupt.                                                    *)

\* on_tick scans the queue for sleepers whose time has come.
Woken == {t \in Task : InQueue(runq, t) /\ state[t] = "Sleeping" /\ wake[t] <= 1}

CurrentRuns == current \in Task /\ state[current] = "Running"

TickState == [t \in AllTasks |-> IF t \in Woken THEN "Runnable" ELSE state[t]]

TickSlice ==
  [t \in Task |-> IF t \in Woken THEN DEFAULT_SLICE
                  ELSE IF t = current /\ CurrentRuns /\ slice[t] > 0 THEN slice[t] - 1
                  ELSE slice[t]]

TickResched ==
  \/ needResched
  \/ Woken # {}
  \/ CurrentRuns /\ slice[current] <= 1

\* (tf.cs & 3) = 3: the interrupted code is user code.
InUserMode == current \in Task /\ pc[current] = "user"

\* tf_valid: false until a kernel thread has been through enter_user.
TfValid(t) == t \in Task /\ pc[t] # "kstart"

\* The tick only counts: IN_SYSCALL holds preempt_from_timer back, or there is
\* no reschedule to obey, or kernel code was interrupted and the request is
\* dropped.
TickCounts ==
  /\ \/ inSyscall /\ needResched' = TickResched
     \/ ~inSyscall /\ ~(TickResched /\ InUserMode) /\ needResched' = FALSE
  /\ state' = TickState
  /\ UNCHANGED <<runq, current, pc, home, cr3>>

\* preempt_from_timer on user code of the running task.
TickPreempts ==
  /\ ~inSyscall /\ TickResched /\ InUserMode
  /\ LET q  == QueueBack(runq, TickState, current)
         st == PutBack(TickState, current)
     IN \E k \in 0 .. Len(q) :
          /\ FirstRunnable(q, st, k)
          /\ runq' = AfterPick(q, k)
          /\ LET next == Picked(q, k)
             IN \/ /\ next = current \/ ~TfValid(next)
                   /\ state' = [st EXCEPT ![current] = "Running"]
                   /\ UNCHANGED <<current, pc, home, cr3>>
                \/ /\ next # current /\ TfValid(next)
                   /\ state' = [st EXCEPT ![next] = "Running"]
                   /\ current' = next
                   /\ cr3' = Prepared(next)
                   /\ home' = [home EXCEPT ![current] = "tf"]
                   /\ pc' = [pc EXCEPT ![next] = "user"]
  /\ needResched' = FALSE

\* timer_entry: on_tick, then at most one switch.
Tick ==
  /\ slice' = TickSlice
  /\ wake' = [t \in Task |-> IF wake[t] > 0 THEN wake[t] - 1 ELSE 0]
  /\ TickCounts \/ TickPreempts
  /\ UNCHANGED <<inSyscall, halted, procVars>>

\* halt_forever, in the handler of the fault a wild jump raises.
HaltForever == halted /\ UNCHANGED vars

-----------------------------------------------------------------------------

\* The kernel code t executes when the CPU is its own.
KernelStep(t) ==
  \/ RunUserElf(t) \/ RunUserElfFails(t)
  \/ SyscallExit(t) \/ SyscallReturn(t)
  \/ SysYield(t) \/ SysOther(t) \/ SysExit(t) \/ SysExec(t)
  \/ \E ticks \in 0 .. MaxSleep : SysSleep(t, ticks)
  \/ SleepSchedule(t) \/ ExitYield(t) \/ WaitTurn(t)
  \/ \E p \in Pids : SysProcWait(t, p) \/ SysProcKill(t, p)
  \/ \E child \in Task : SysProcSpawn(t, child)
  \/ SysProcSpawnFails(t)

Running ==
  \/ BootHandoff
  \/ Tick
  \/ \E t \in Task : SyscallEnter(t) \/ KernelStep(t)

Next == (~halted /\ Running) \/ HaltForever

Spec == Init /\ [][Next]_vars

\* The CPU goes on executing kernel code, the timer goes on firing, and its
\* ticks are not in lockstep with the program: a program that keeps coming back
\* to user mode is now and then interrupted there.  Nothing is assumed of what
\* user code does.
UserTick == InUserMode /\ Tick

Fairness ==
  /\ WF_vars(~halted /\ BootHandoff)
  /\ \A t \in Task : WF_vars(~halted /\ KernelStep(t))
  /\ WF_vars(~halted /\ Tick)
  /\ SF_vars(~halted /\ UserTick)

FairSpec == Spec /\ Fairness

-----------------------------------------------------------------------------
(* What should be true of it.                                              *)

NoRepeats(q) == \A i, j \in 1 .. Len(q) : q[i] = q[j] => i = j

\* Type invariant of the scheduler state of task.rs and proc.rs.
TypeOK ==
  /\ state \in [AllTasks -> TaskState]
  /\ runq \in Seq(Task)
  /\ current \in AllTasks \cup {NoTask}
  /\ slice \in [Task -> 0 .. DEFAULT_SLICE]
  /\ wake \in [Task -> 0 .. MaxSleep]
  /\ needResched \in BOOLEAN /\ inSyscall \in BOOLEAN /\ halted \in BOOLEAN
  /\ pc \in [AllTasks -> Pc]
  /\ home \in [AllTasks -> {"ctx", "tf"}]
  /\ pidOf \in [Task -> 0 .. MaxPid]
  /\ waitFor \in [Task -> 0 .. MaxPid]
  /\ procTask \in [Pids -> Task \cup {NoTask}]
  /\ procState \in [Pids -> {"None", "Running", "Zombie"}]
  /\ nextPid \in 1 .. (MaxPid + 1)
  /\ cr3 \in 0 .. MaxPid

\* At most one task is in state Running, and it is the one CURRENT points to:
\* every path of schedule and preempt_from_timer takes the old one out of
\* Running before or instead of marking the new one.
OnlyCurrentRuns ==
  \A t \in AllTasks : state[t] = "Running" => current = t

\* No task is in RUNQ twice, and the running task is not in it at all except
\* between the push of sleep_ms and the schedule that follows: a second entry
\* would let one task be picked while it is running.
QueuedOnce ==
  /\ NoRepeats(runq)
  /\ \A t \in Task : InQueue(runq, t) /\ current = t => pc[t] = "sleep"

\* Whoever sleeps is in RUNQ, the only place where on_tick looks for sleepers:
\* no rotation, preemption or exit of another task loses a sleeper.
SleepersQueued ==
  \A t \in Task : state[t] = "Sleeping" => InQueue(runq, t)

\* The tasks and RUNQ together: one task is marked Running and has the CPU, no
\* task is queued twice or while it runs, and every sleeper is queued, whatever
\* schedule, preempt_from_timer, sleep_ms, kill and exit did in whatever order.
TasksSound == TypeOK /\ OnlyCurrentRuns /\ QueuedOnce /\ SleepersQueued

\* User code executes in the address space of its own process, whichever of
\* the four paths (enter_user, return from a system call, timer switch,
\* no switch) took it there.
UserInOwnSpace ==
  InUserMode => pidOf[current] \in Pids /\ cr3 = pidOf[current]

\* While kernel code runs for a system call the machine-wide IN_SYSCALL is set,
\* although any task's return clears it: no tick preempts inside dispatch.
SyscallFlagCovers ==
  current \in Task /\ pc[current] \in SyscallPc => inSyscall

\* A task killed or exited while another one runs stays a zombie for ever: its
\* entry in RUNQ is rotated, never picked.
DeadStayDead ==
  [][\A t \in Task : state[t] = "Zombie" /\ current # t => state'[t] = "Zombie"]_vars

\* The conditions under which no tick preempts and nobody else gives the CPU
\* away: the machine has halted, run_user_elf sits in its loop, the idle task
\* has the CPU, the current task is not in state Running so that its time slice
\* does not run out, or exec has entered user mode with IN_SYSCALL set.
Starving ==
  \/ halted \/ \E u \in Task : pc[u] = "stuck"
  \/ current = Idle
  \/ current \in Task /\ state[current] # "Running"
  \/ current \in Task /\ inSyscall /\ pc[current] \in {"user", "sys", "exec"}

\* Preemption: a Runnable task of RUNQ gets the CPU, however long the running
\* user code computes and whatever the programs call, unless it is killed first
\* or the machine stays for ever in one of the conditions above.
RunnableRuns ==
  \A t \in Task : state[t] = "Runnable" /\ InQueue(runq, t) ~>
     (current = t \/ state[t] = "Zombie" \/ []Starving)

-----------------------------------------------------------------------------
(* What the repository says of it and the code does not do.                *)

\* sleep_ms suspends its caller for a time: a sleeping task runs again.
SleepEnds ==
  \A t \in Task : state[t] = "Sleeping" ~> (current = t /\ state[t] # "Sleeping")

=============================================================================

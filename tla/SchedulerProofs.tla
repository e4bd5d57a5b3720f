-------------------------- MODULE SchedulerProofs --------------------------
(***************************************************************************)
(* The safety properties of Scheduler hold for every set of tasks, every   *)
(* choice of system calls and all bounds.                                  *)
(***************************************************************************)
EXTENDS Scheduler, SequenceTheorems, TLAPS

-----------------------------------------------------------------------------
(* The run queue.                                                          *)

\* Rotating the queue up to its k-th entry and popping that entry keeps every
\* other entry exactly once.
LEMMA AfterPickEntries ==
  ASSUME NEW q \in Seq(Task), NEW k \in 1 .. Len(q)
  PROVE  /\ AfterPick(q, k) \in Seq(Task)
         /\ Len(AfterPick(q, k)) = Len(q) - 1
         /\ \A i \in 1 .. (Len(q) - 1) :
              AfterPick(q, k)[i] = IF i <= Len(q) - k THEN q[k + i] ELSE q[i - (Len(q) - k)]
<1> DEFINE a == SubSeq(q, k + 1, Len(q))
           b == SubSeq(q, 1, k - 1)
<1>0. Len(q) \in Nat /\ k \in Nat /\ k # 0 /\ k <= Len(q)
  BY LenProperties
<1>1. a \in Seq(Task) /\ Len(a) = Len(q) - k /\ \A i \in 1 .. (Len(q) - k) : a[i] = q[k + i]
  BY <1>0, SubSeqProperties
<1>2. b \in Seq(Task) /\ Len(b) = k - 1 /\ \A i \in 1 .. (k - 1) : b[i] = q[i]
  BY <1>0, SubSeqProperties
<1>3. AfterPick(q, k) = a \o b
  BY <1>0, Zenon DEF AfterPick
<1> HIDE DEF a, b
<1>4. /\ a \o b \in Seq(Task)
      /\ Len(a \o b) = Len(a) + Len(b)
      /\ \A i \in 1 .. Len(a) + Len(b) : (a \o b)[i] = IF i <= Len(a) THEN a[i] ELSE b[i - Len(a)]
  BY <1>1, <1>2, ConcatProperties, Zenon
<1>5. ASSUME NEW i \in 1 .. (Len(q) - 1)
      PROVE  (a \o b)[i] = IF i <= Len(q) - k THEN q[k + i] ELSE q[i - (Len(q) - k)]
  <2>1. i \in 1 .. Len(a) + Len(b)
    BY <1>0, <1>1, <1>2
  <2>2. CASE i <= Len(q) - k
    BY <1>0, <1>1, <1>4, <2>1, <2>2
  <2>3. CASE ~(i <= Len(q) - k)
    <3>1. i - (Len(q) - k) \in 1 .. (k - 1)
      BY <1>0, <2>3
    <3>2. QED
      BY <1>0, <1>1, <1>2, <1>4, <2>1, <2>3, <3>1, SMTT(30)
  <2>4. QED
    BY <2>2, <2>3, Zenon
<1>6. Len(a \o b) = Len(q) - 1
  BY <1>0, <1>1, <1>2, <1>4
<1>7. QED
  BY <1>3, <1>4, <1>5, <1>6

\* What AfterPick leaves in the queue: everything but the picked task.
LEMMA AfterPickQueue ==
  ASSUME NEW q \in Seq(Task), NEW k \in 0 .. Len(q), NoRepeats(q)
  PROVE  /\ AfterPick(q, k) \in Seq(Task)
         /\ NoRepeats(AfterPick(q, k))
         /\ \A x \in Task : InQueue(AfterPick(q, k), x) <=>
              InQueue(q, x) /\ (k # 0 => x # q[k])
<1>1. CASE k = 0
  BY <1>1 DEF AfterPick
<1>2. CASE k # 0
  <2> DEFINE r == AfterPick(q, k)
  <2>1. /\ r \in Seq(Task)
        /\ Len(r) = Len(q) - 1
        /\ \A i \in 1 .. (Len(q) - 1) :
              r[i] = IF i <= Len(q) - k THEN q[k + i] ELSE q[i - (Len(q) - k)]
    <3>1. k \in 1 .. Len(q)
      BY <1>2, LenProperties
    <3>2. QED
      BY <3>1, AfterPickEntries, Zenon
  <2> HIDE DEF r
  <2> DEFINE pos(i) == IF i <= Len(q) - k THEN k + i ELSE i - (Len(q) - k)
  <2>a. Len(q) \in Nat /\ k \in 1 .. Len(q)
    BY <1>2, LenProperties
  <2>b. \A i \in 1 .. Len(r) : pos(i) \in 1 .. Len(q) /\ pos(i) # k /\ r[i] = q[pos(i)]
    BY <2>a, <2>1
  <2>c. \A i, j \in 1 .. Len(r) : pos(i) = pos(j) => i = j
    BY <2>a, <2>1
  <2> HIDE DEF pos
  <2>2. NoRepeats(r)
    BY <2>b, <2>c DEF NoRepeats
  <2>3. ASSUME NEW x \in Task, InQueue(r, x)
        PROVE  InQueue(q, x) /\ x # q[k]
    <3>1. PICK i \in 1 .. Len(r) : r[i] = x
      BY <2>3 DEF InQueue
    <3>2. QED
      BY <2>a, <2>b, <3>1 DEF InQueue, NoRepeats
  <2>4. ASSUME NEW x \in Task, InQueue(q, x), x # q[k]
        PROVE  InQueue(r, x)
    <3>1. PICK i \in 1 .. Len(q) : q[i] = x
      BY <2>4 DEF InQueue
    <3>2. CASE i > k
      <4>1. i - k \in 1 .. (Len(q) - 1) /\ i - k <= Len(q) - k /\ k + (i - k) = i
        BY <1>2, <3>2
      <4>2. QED
        BY <4>1, <2>1, <3>1, Zenon DEF InQueue
    <3>3. CASE i < k
      <4>1. i + (Len(q) - k) \in 1 .. (Len(q) - 1) /\ ~(i + (Len(q) - k) <= Len(q) - k)
            /\ (i + (Len(q) - k)) - (Len(q) - k) = i
        BY <1>2, <3>3
      <4>2. QED
        BY <4>1, <2>1, <3>1, Zenon DEF InQueue
    <3>4. QED
      BY <2>4, <3>1, <3>2, <3>3
  <2>5. QED
    BY <1>2, <2>1, <2>2, <2>3, <2>4 DEF r
<1>3. QED
  BY <1>1, <1>2

\* Pushing a task that is not queued.
LEMMA AppendQueue ==
  ASSUME NEW q \in Seq(Task), NEW t \in Task
  PROVE  /\ Append(q, t) \in Seq(Task)
         /\ \A x \in Task : InQueue(Append(q, t), x) <=> InQueue(q, x) \/ x = t
         /\ NoRepeats(q) /\ ~InQueue(q, t) => NoRepeats(Append(q, t))
<1>1. /\ Append(q, t) \in Seq(Task)
      /\ Len(Append(q, t)) = Len(q) + 1
      /\ \A i \in 1 .. Len(q) : Append(q, t)[i] = q[i]
      /\ Append(q, t)[Len(q) + 1] = t
  OBVIOUS
<1>2. QED
  BY <1>1 DEF InQueue, NoRepeats

-----------------------------------------------------------------------------
(* The inductive invariant.                                                *)

\* Until the boot thread hands over, the init task is the only one there is.
BootInv ==
  current = NoTask =>
    /\ runq = <<InitTask>> /\ state[InitTask] = "Runnable" /\ pc[InitTask] = "kstart"
    /\ ~inSyscall

\* The places a task can only be at while it has the CPU.
PcInv ==
  /\ pc[Idle] = "idle"
  /\ \A t \in Task : /\ pc[t] # "idle"
                     /\ pc[t] \in {"sleep", "stuck"} => current = t
                     /\ pc[t] = "kstart" => t = InitTask /\ current \in {t, NoTask}
                     /\ pc[t] = "sleep" => state[t] \in {"Sleeping", "Runnable"}

\* A task that has not been spawned is nowhere to be found.
NewInv ==
  \A t \in Task : state[t] = "New" => current # t /\ ~InQueue(runq, t)

\* A process has a main task, and a task that has been in user mode a process.
ProcInv ==
  /\ \A p \in Pids : procState[p] # "None" => /\ procTask[p] \in Task
                                              /\ state[procTask[p]] # "New"
  /\ \A t \in Task : state[t] # "New" /\ pc[t] \notin {"kstart", "stuck"} =>
                        pidOf[t] \in Pids /\ procState[pidOf[t]] # "None"

\* The address space is right before user mode is reached.
SpaceInv ==
  current \in Task /\ pc[current] \notin {"kstart", "stuck"} => cr3 = pidOf[current]

QueueInv == QueuedOnce /\ SleepersQueued

IInv ==
  /\ TypeOK /\ OnlyCurrentRuns /\ QueueInv /\ SyscallFlagCovers
  /\ BootInv /\ PcInv /\ NewInv /\ ProcInv /\ SpaceInv

\* The initial states satisfy it.
LEMMA InitIInv == Init => IInv
<1> SUFFICES ASSUME Init PROVE IInv
  OBVIOUS
<1> USE SchedulerAssumption DEF Init
<1>1. TypeOK
  <2>1. runq \in Seq(Task)
    OBVIOUS
  <2>2. 1 \in 1 .. (MaxPid + 1) /\ 0 \in 0 .. MaxPid /\ 0 \in 0 .. MaxSleep
        /\ DEFAULT_SLICE \in 0 .. DEFAULT_SLICE
    OBVIOUS
  <2>3. QED
    BY <2>1, <2>2, Zenon DEF TypeOK, AllTasks, TaskState, Pc
<1>2. OnlyCurrentRuns /\ SyscallFlagCovers /\ SpaceInv
  BY DEF OnlyCurrentRuns, SyscallFlagCovers, SpaceInv, AllTasks, SyscallPc
<1>3. QueueInv
  BY DEF QueueInv, QueuedOnce, SleepersQueued, NoRepeats, InQueue, AllTasks
<1>4. BootInv /\ PcInv
  BY DEF BootInv, PcInv, AllTasks
<1>5. NewInv /\ ProcInv
  BY DEF NewInv, ProcInv, AllTasks, InQueue
<1>6. QED
  BY <1>1, <1>2, <1>3, <1>4, <1>5 DEF IInv

\* The pid the next process gets, and the counter after it.
LEMMA NextPidTypes ==
  ASSUME nextPid \in Pids
  PROVE  nextPid \in 0 .. MaxPid /\ nextPid + 1 \in 1 .. (MaxPid + 1)
BY SchedulerAssumption DEF Pids

\* Steps that leave the queue and the task states alone.
LEMMA QuietStep ==
  ASSUME IInv, NEW t \in Task,
         \/ SyscallEnter(t) \/ SyscallExit(t) \/ SyscallReturn(t)
         \/ SysYield(t) \/ SysOther(t) \/ SysExec(t) \/ SysProcSpawnFails(t)
         \/ RunUserElf(t) \/ RunUserElfFails(t)
         \/ \E p \in Pids : SysProcWait(t, p)
  PROVE  IInv'
<1> USE SchedulerAssumption DEF IInv
<1>1. CASE SyscallEnter(t)
  BY <1>1, Zenon DEF SyscallEnter, InDispatch, procVars, TypeOK, OnlyCurrentRuns, QueueInv,
       QueuedOnce, SleepersQueued, SyscallFlagCovers, BootInv, PcInv, NewInv, ProcInv,
       SpaceInv, AllTasks, Pc, SyscallPc
<1>2. CASE SyscallExit(t)
  BY <1>2, Zenon DEF SyscallExit, InDispatch, procVars, TypeOK, OnlyCurrentRuns, QueueInv,
       QueuedOnce, SleepersQueued, SyscallFlagCovers, BootInv, PcInv, NewInv, ProcInv,
       SpaceInv, AllTasks, Pc, SyscallPc
<1>3. CASE SyscallReturn(t)
  BY <1>3, ZenonT(30) DEF SyscallReturn, InDispatch, procVars, TypeOK, OnlyCurrentRuns, QueueInv,
       QueuedOnce, SleepersQueued, SyscallFlagCovers, BootInv, PcInv, NewInv, ProcInv,
       SpaceInv, AllTasks, Pc, SyscallPc
<1>4. CASE SysYield(t)
  BY <1>4, Zenon DEF SysYield, InDispatch, procVars, TypeOK, OnlyCurrentRuns, QueueInv,
       QueuedOnce, SleepersQueued, SyscallFlagCovers, BootInv, PcInv, NewInv, ProcInv,
       SpaceInv, AllTasks, Pc, SyscallPc
<1>5. CASE SysOther(t)
  BY <1>5, Zenon DEF SysOther, InDispatch, procVars, TypeOK, OnlyCurrentRuns, QueueInv,
       QueuedOnce, SleepersQueued, SyscallFlagCovers, BootInv, PcInv, NewInv, ProcInv,
       SpaceInv, AllTasks, Pc, SyscallPc
<1>6. CASE SysExec(t)
  BY <1>6, Zenon DEF SysExec, InDispatch, procVars, TypeOK, OnlyCurrentRuns, QueueInv,
       QueuedOnce, SleepersQueued, SyscallFlagCovers, BootInv, PcInv, NewInv, ProcInv,
       SpaceInv, AllTasks, Pc, SyscallPc
<1>7. CASE SysProcSpawnFails(t)
  <2>1. TypeOK'
    <3>1. pc' \in [AllTasks -> Pc]
      BY <1>7, Zenon DEF SysProcSpawnFails, TypeOK, Pc
    <3>a. nextPid' \in 1 .. (MaxPid + 1)
      BY <1>7, NextPidTypes DEF SysProcSpawnFails, TypeOK
    <3>2. QED
      BY <1>7, <3>1, <3>a, Zenon DEF SysProcSpawnFails, procVars, TypeOK
  <2>2. OnlyCurrentRuns' /\ PcInv' /\ BootInv' /\ SyscallFlagCovers'
    BY <1>7 DEF SysProcSpawnFails, InDispatch, procVars, TypeOK, OnlyCurrentRuns, PcInv, BootInv, SyscallFlagCovers, SyscallPc, AllTasks
  <2>3. QueueInv' /\ NewInv'
    BY <1>7 DEF SysProcSpawnFails, InDispatch, procVars, TypeOK, QueueInv, QueuedOnce, SleepersQueued, NewInv, PcInv, AllTasks
  <2>4. ProcInv' /\ SpaceInv'
    BY <1>7, SMTT(30) DEF SysProcSpawnFails, InDispatch, procVars, TypeOK, ProcInv, SpaceInv, PcInv, NewInv, AllTasks, Pids
  <2>5. QED
    BY <2>1, <2>2, <2>3, <2>4
<1>8. CASE RunUserElf(t)
  <2>1. TypeOK'
    <3>1. pc' \in [AllTasks -> Pc]
      BY <1>8, SMTT(30) DEF RunUserElf, TypeOK, Pc
    <3>a. nextPid' \in 1 .. (MaxPid + 1) /\ cr3' \in 0 .. MaxPid
      BY <1>8, NextPidTypes DEF RunUserElf
    <3>2. /\ pidOf' \in [Task -> 0 .. MaxPid]
          /\ procTask' \in [Pids -> Task \cup {NoTask}]
          /\ procState' \in [Pids -> {"None", "Running", "Zombie"}]
      BY <1>8, NextPidTypes DEF RunUserElf, TypeOK
    <3>3. QED
      BY <1>8, <3>1, <3>a, <3>2, Zenon DEF RunUserElf, TypeOK
  <2>2. OnlyCurrentRuns' /\ PcInv' /\ BootInv' /\ SyscallFlagCovers'
    BY <1>8 DEF RunUserElf, InDispatch, procVars, TypeOK, OnlyCurrentRuns, PcInv, BootInv, SyscallFlagCovers, SyscallPc, AllTasks
  <2>3. QueueInv' /\ NewInv'
    BY <1>8 DEF RunUserElf, InDispatch, procVars, TypeOK, QueueInv, QueuedOnce, SleepersQueued, NewInv, PcInv, AllTasks
  <2>4. ProcInv' /\ SpaceInv'
    BY <1>8, SMTT(30) DEF RunUserElf, InDispatch, procVars, TypeOK, ProcInv, SpaceInv, PcInv, NewInv, AllTasks, Pids
  <2>5. QED
    BY <2>1, <2>2, <2>3, <2>4
<1>9. CASE RunUserElfFails(t)
  <2>1. TypeOK'
    <3>1. pc' \in [AllTasks -> Pc]
      BY <1>9 DEF RunUserElfFails, TypeOK, Pc
    <3>a. nextPid' \in 1 .. (MaxPid + 1)
      BY <1>9, NextPidTypes DEF RunUserElfFails
    <3>2. QED
      BY <1>9, <3>1, <3>a, Zenon DEF RunUserElfFails, TypeOK
  <2>2. OnlyCurrentRuns' /\ PcInv' /\ BootInv' /\ SyscallFlagCovers'
    BY <1>9 DEF RunUserElfFails, InDispatch, procVars, TypeOK, OnlyCurrentRuns, PcInv, BootInv, SyscallFlagCovers, SyscallPc, AllTasks
  <2>3. QueueInv' /\ NewInv'
    BY <1>9, SMTT(30) DEF RunUserElfFails, InDispatch, procVars, TypeOK, QueueInv, QueuedOnce, SleepersQueued, NewInv, PcInv, AllTasks
  <2>4. ProcInv' /\ SpaceInv'
    BY <1>9 DEF RunUserElfFails, InDispatch, procVars, TypeOK, ProcInv, SpaceInv, PcInv, NewInv, AllTasks, Pids
  <2>5. QED
    BY <2>1, <2>2, <2>3, <2>4
<1>10. CASE \E p \in Pids : SysProcWait(t, p)
  <2>1. TypeOK'
    BY <1>10, SMTT(30) DEF SysProcWait, InDispatch, procVars, TypeOK, AllTasks, Pc, TaskState, Pids
  <2>2. OnlyCurrentRuns' /\ PcInv' /\ BootInv' /\ SyscallFlagCovers'
    BY <1>10 DEF SysProcWait, InDispatch, procVars, TypeOK, OnlyCurrentRuns, PcInv, BootInv, SyscallFlagCovers, SyscallPc, AllTasks
  <2>3. QueueInv' /\ NewInv'
    BY <1>10 DEF SysProcWait, InDispatch, procVars, TypeOK, QueueInv, QueuedOnce, SleepersQueued, NewInv, PcInv, AllTasks
  <2>4. ProcInv' /\ SpaceInv'
    BY <1>10, Zenon DEF SysProcWait, InDispatch, procVars, TypeOK, ProcInv, SpaceInv, PcInv, NewInv, AllTasks, Pids
  <2>5. QED
    BY <2>1, <2>2, <2>3, <2>4
<1>11. QED
  BY <1>1, <1>2, <1>3, <1>4, <1>5, <1>6, <1>7, <1>8, <1>9, <1>10, Zenon

\* The calls that mark a task a zombie.
LEMMA ZombieStep ==
  ASSUME IInv, NEW t \in Task,
         SysExit(t) \/ \E p \in Pids : SysProcKill(t, p)
  PROVE  IInv'
<1> USE SchedulerAssumption DEF IInv
<1>1. CASE SysExit(t)
  <2>1. TypeOK'
    BY <1>1, Zenon DEF SysExit, InDispatch, procVars, TypeOK, AllTasks, Pc, TaskState, Pids
  <2>2. OnlyCurrentRuns' /\ PcInv' /\ BootInv' /\ SyscallFlagCovers'
    BY <1>1 DEF SysExit, InDispatch, procVars, TypeOK, OnlyCurrentRuns, PcInv, BootInv, SyscallFlagCovers, SyscallPc, AllTasks
  <2>3. QueueInv' /\ NewInv'
    BY <1>1 DEF SysExit, InDispatch, procVars, TypeOK, QueueInv, QueuedOnce, SleepersQueued, NewInv, PcInv, AllTasks
  <2>4. ProcInv' /\ SpaceInv'
    BY <1>1, Zenon DEF SysExit, InDispatch, procVars, TypeOK, ProcInv, SpaceInv, PcInv, NewInv, AllTasks, Pids
  <2>5. QED
    BY <2>1, <2>2, <2>3, <2>4
<1>2. ASSUME NEW p \in Pids, SysProcKill(t, p)
      PROVE  IInv'
  <2>a. procState[p] # "None" => procTask[p] \in Task /\ state[procTask[p]] # "New"
    BY DEF ProcInv
  <2>1. TypeOK'
    <3>1. state' \in [AllTasks -> TaskState] /\ procState' \in [Pids -> {"None", "Running", "Zombie"}]
      BY <1>2, <2>a, ZenonT(30) DEF SysProcKill, TypeOK, AllTasks, TaskState
    <3>2. pc' \in [AllTasks -> Pc]
      BY <1>2 DEF SysProcKill, InDispatch, TypeOK, Pc
    <3>3. QED
      BY <1>2, <3>1, <3>2, Zenon DEF SysProcKill, InDispatch, procVars, TypeOK
  <2>2. OnlyCurrentRuns' /\ PcInv' /\ BootInv' /\ SyscallFlagCovers'
    BY <1>2, <2>a, SMTT(30) DEF SysProcKill, InDispatch, procVars, TypeOK, OnlyCurrentRuns, PcInv, BootInv, SyscallFlagCovers, SyscallPc, AllTasks
  <2>3. QueueInv' /\ NewInv'
    BY <1>2, <2>a, SMTT(30) DEF SysProcKill, InDispatch, procVars, TypeOK, QueueInv, QueuedOnce, SleepersQueued, NewInv, PcInv, AllTasks
  <2>4. ProcInv' /\ SpaceInv'
    <3>1. SpaceInv'
      BY <1>2 DEF SysProcKill, InDispatch, TypeOK, SpaceInv, AllTasks
    <3>2. CASE procState[p] = "None"
      <4>1. /\ UNCHANGED <<state, pidOf, procTask, procState>>
            /\ pc' = [pc EXCEPT ![t] = "sysret"] /\ pc[t] = "sys"
        BY <1>2, <3>2 DEF SysProcKill, InDispatch
      <4>2. QED
        BY <3>1, <4>1, Zenon DEF ProcInv, TypeOK, AllTasks
    <3>3. CASE procState[p] # "None"
      <4>1. /\ state' = [state EXCEPT ![procTask[p]] = "Zombie"]
            /\ procState' = [procState EXCEPT ![p] = "Zombie"]
            /\ pc' = [pc EXCEPT ![t] = "sysret"] /\ pc[t] = "sys"
            /\ UNCHANGED <<pidOf, procTask>>
        BY <1>2, <3>3 DEF SysProcKill, InDispatch
      <4>2. \A x \in Task : state'[x] = "New" <=> state[x] = "New"
        BY <2>a, <3>3, <4>1 DEF TypeOK, AllTasks
      <4>3. \A r \in Pids : procState'[r] = "None" <=> procState[r] = "None"
        BY <3>3, <4>1 DEF TypeOK
      <4>5. ASSUME NEW x \in Task, pc[x] \in {"kstart", "stuck"}
            PROVE  pc'[x] \in {"kstart", "stuck"}
        BY <4>1, <4>5, SMTT(30) DEF TypeOK, AllTasks
      <4>6. ASSUME NEW r \in Pids, procState'[r] # "None"
            PROVE  procTask'[r] \in Task /\ state'[procTask'[r]] # "New"
        BY <4>1, <4>2, <4>3, <4>6 DEF ProcInv
      <4>7. ASSUME NEW x \in Task, state'[x] # "New", pc'[x] \notin {"kstart", "stuck"}
            PROVE  pidOf'[x] \in Pids /\ procState'[pidOf'[x]] # "None"
        BY <4>1, <4>2, <4>3, <4>5, <4>7 DEF ProcInv
      <4>8. QED
        BY <3>1, <4>6, <4>7, SMTT(30) DEF ProcInv
    <3>4. QED
      BY <3>1, <3>2, <3>3
  <2>5. QED
    BY <2>1, <2>2, <2>3, <2>4
<1>3. QED
  BY <1>1, <1>2

\* The calls that push a task.
LEMMA PushStep ==
  ASSUME IInv, NEW t \in Task,
         \/ \E ticks \in 0 .. MaxSleep : SysSleep(t, ticks)
         \/ \E child \in Task : SysProcSpawn(t, child)
  PROVE  IInv'
<1> USE SchedulerAssumption DEF IInv
<1>1. ASSUME NEW ticks \in 0 .. MaxSleep, SysSleep(t, ticks)
      PROVE  IInv'
  <2>a. runq \in Seq(Task) /\ runq' = Append(runq, t) /\ ~InQueue(runq, t) /\ NoRepeats(runq)
    BY <1>1, SMTT(30) DEF SysSleep, InDispatch, TypeOK, QueueInv, QueuedOnce
  <2>b. /\ runq' \in Seq(Task) /\ NoRepeats(runq')
        /\ \A x \in Task : InQueue(runq', x) <=> InQueue(runq, x) \/ x = t
    BY <2>a, AppendQueue
  <2>1. TypeOK'
    BY <1>1, <2>b, Zenon DEF SysSleep, InDispatch, procVars, TypeOK, AllTasks, Pc, TaskState, Pids
  <2>2. OnlyCurrentRuns' /\ PcInv' /\ BootInv' /\ SyscallFlagCovers'
    BY <1>1, <2>b DEF SysSleep, InDispatch, procVars, TypeOK, OnlyCurrentRuns, PcInv, BootInv, SyscallFlagCovers, SyscallPc, AllTasks
  <2>3. QueueInv' /\ NewInv'
    BY <1>1, <2>b, Zenon DEF SysSleep, InDispatch, procVars, TypeOK, QueueInv, QueuedOnce, SleepersQueued, NewInv, PcInv, AllTasks
  <2>4. ProcInv' /\ SpaceInv'
    BY <1>1, <2>b, Zenon DEF SysSleep, InDispatch, procVars, TypeOK, ProcInv, SpaceInv, PcInv, NewInv, AllTasks, Pids
  <2>5. QED
    BY <2>1, <2>2, <2>3, <2>4
<1>2. ASSUME NEW child \in Task, SysProcSpawn(t, child)
      PROVE  IInv'
  <2>a. runq \in Seq(Task) /\ runq' = Append(runq, child) /\ ~InQueue(runq, child) /\ NoRepeats(runq)
    BY <1>2, Zenon DEF SysProcSpawn, InDispatch, TypeOK, QueueInv, QueuedOnce, NewInv
  <2>b. /\ runq' \in Seq(Task) /\ NoRepeats(runq')
        /\ \A x \in Task : InQueue(runq', x) <=> InQueue(runq, x) \/ x = child
    BY <2>a, AppendQueue
  <2>1. TypeOK'
    <3>1. state' \in [AllTasks -> TaskState] /\ pc' \in [AllTasks -> Pc]
      BY <1>2, Zenon DEF SysProcSpawn, TypeOK, TaskState, Pc
    <3>a. nextPid' \in 1 .. (MaxPid + 1)
      BY <1>2, NextPidTypes DEF SysProcSpawn
    <3>2. /\ pidOf' \in [Task -> 0 .. MaxPid]
          /\ procTask' \in [Pids -> Task \cup {NoTask}]
          /\ procState' \in [Pids -> {"None", "Running", "Zombie"}]
      BY <1>2, NextPidTypes, Zenon DEF SysProcSpawn, TypeOK
    <3>3. QED
      BY <1>2, <2>b, <3>1, <3>a, <3>2, Zenon DEF SysProcSpawn, TypeOK
  <2>2. OnlyCurrentRuns' /\ PcInv' /\ BootInv' /\ SyscallFlagCovers'
    BY <1>2, <2>b, Zenon DEF SysProcSpawn, InDispatch, procVars, TypeOK, OnlyCurrentRuns, PcInv, BootInv, SyscallFlagCovers, SyscallPc, AllTasks
  <2>3. QueueInv' /\ NewInv'
    BY <1>2, <2>b, SMTT(30) DEF SysProcSpawn, InDispatch, procVars, TypeOK, QueueInv, QueuedOnce, SleepersQueued, NewInv, PcInv, AllTasks
  <2>4. ProcInv' /\ SpaceInv'
    <3>1. child # t /\ current' = t /\ nextPid \in Pids
      BY <1>2 DEF SysProcSpawn, InDispatch, NewInv
    <3>2. SpaceInv'
      BY <1>2, <3>1 DEF SysProcSpawn, InDispatch, TypeOK, SpaceInv, AllTasks
    <3>3. ASSUME NEW r \in Pids, procState'[r] # "None"
          PROVE  procTask'[r] \in Task /\ state'[procTask'[r]] # "New"
      <4>1. /\ state' = [state EXCEPT ![child] = "Runnable"]
            /\ procTask' = [procTask EXCEPT ![nextPid] = child]
            /\ procState' = [procState EXCEPT ![nextPid] = "Running"]
        BY <1>2 DEF SysProcSpawn
      <4>2. CASE r = nextPid
        BY <3>1, <4>1, <4>2 DEF TypeOK, AllTasks
      <4>3. CASE r # nextPid
        <5>1. procTask[r] \in Task /\ state[procTask[r]] # "New"
          BY <3>3, <4>1, <4>3, SMTT(30) DEF TypeOK, ProcInv
        <5>2. QED
          BY <4>1, <4>3, <5>1 DEF TypeOK, AllTasks
      <4>4. QED
        BY <4>2, <4>3
    <3>4. ASSUME NEW x \in Task, state'[x] # "New", pc'[x] \notin {"kstart", "stuck"}
          PROVE  pidOf'[x] \in Pids /\ procState'[pidOf'[x]] # "None"
      <4>1. CASE x = child
        BY <1>2, <3>1, <4>1 DEF SysProcSpawn, TypeOK
      <4>2. CASE x # child
        <5>1. state[x] # "New" /\ pc[x] \notin {"kstart", "stuck"}
          BY <1>2, <3>4, <4>2, SMTT(30) DEF SysProcSpawn, InDispatch, TypeOK, AllTasks
        <5>2. pidOf[x] \in Pids /\ procState[pidOf[x]] # "None"
          BY <5>1, Zenon DEF ProcInv
        <5>3. /\ pidOf' = [pidOf EXCEPT ![child] = nextPid]
              /\ procState' = [procState EXCEPT ![nextPid] = "Running"]
          BY <1>2 DEF SysProcSpawn
        <5>4. QED
          BY <3>1, <4>2, <5>2, <5>3, SMTT(30) DEF TypeOK
      <4>3. QED
        BY <4>1, <4>2, Zenon
    <3>5. QED
      BY <3>2, <3>3, <3>4, Zenon DEF ProcInv
  <2>5. QED
    BY <2>1, <2>2, <2>3, <2>4
<1>3. QED
  BY <1>1, <1>2

\* A picked task was Runnable and queued, is not the one that runs, and has a
\* process of its own unless it is the idle task.
LEMMA PickedTask ==
  ASSUME IInv, current \in Task, NEW q \in Seq(Task), NEW st \in [AllTasks -> TaskState],
         NEW k \in 0 .. Len(q), FirstRunnable(q, st, k),
         \A x \in Task : st[x] = "New" <=> state[x] = "New"
  PROVE  /\ Picked(q, k) \in AllTasks
         /\ Picked(q, k) \in Task <=> k # 0
         /\ k # 0 => Picked(q, k) = q[k] /\ st[q[k]] = "Runnable"
         /\ Picked(q, k) \in Task \ {current} =>
              /\ pc[Picked(q, k)] \notin {"kstart", "stuck", "sleep"}
              /\ Prepared(Picked(q, k)) = pidOf[Picked(q, k)]
         /\ Prepared(Picked(q, k)) \in 0 .. MaxPid
<1> USE SchedulerAssumption DEF IInv
<1>1. k # 0 => q[k] \in Task /\ st[q[k]] = "Runnable"
  BY LenProperties DEF FirstRunnable
<1>2. /\ Picked(q, k) \in AllTasks
      /\ Picked(q, k) \in Task <=> k # 0
      /\ k # 0 => Picked(q, k) = q[k] /\ st[q[k]] = "Runnable"
  BY <1>1, SMTT(30) DEF Picked, AllTasks
<1>3. ASSUME Picked(q, k) \in Task \ {current}
      PROVE  /\ pc[Picked(q, k)] \notin {"kstart", "stuck", "sleep"}
             /\ Prepared(Picked(q, k)) = pidOf[Picked(q, k)]
  <2> DEFINE n == Picked(q, k)
  <2>1. n \in Task /\ n # current /\ state[n] # "New"
    BY <1>2, <1>3
  <2> HIDE DEF n
  <2>2. pc[n] \notin {"kstart", "stuck", "sleep"}
    BY <2>1 DEF PcInv
  <2>3. pidOf[n] \in Pids /\ procState[pidOf[n]] # "None"
    BY <2>1, <2>2 DEF ProcInv
  <2>4. QED
    BY <2>1, <2>2, <2>3 DEF n, Prepared
<1>4. Prepared(Picked(q, k)) \in 0 .. MaxPid
  BY DEF Prepared, TypeOK
<1>5. QED
  BY <1>2, <1>3, <1>4, SMTT(30)

\* schedule keeps the invariant, whatever part of a system call calls it.
LEMMA ScheduleStep ==
  ASSUME IInv, NEW t \in Task, NEW cont \in {"sysret", "exit", "wait"},
         current = t, pc[t] \in {"sleep", "exit", "wait"},
         Schedule(t, state, runq, cont), UNCHANGED <<wake, inSyscall, procVars>>
  PROVE  IInv'
<1> USE SchedulerAssumption DEF IInv
<1>1. PICK k \in 0 .. Len(runq) :
        /\ FirstRunnable(runq, state, k)
        /\ needResched' = FALSE
        /\ pc' = [pc EXCEPT ![t] = cont]
        /\ \/ /\ Picked(runq, k) = t
              /\ runq' = AfterPick(runq, k)
              /\ state' = state
              /\ UNCHANGED <<current, slice, home, cr3, halted>>
           \/ /\ Picked(runq, k) # t
              /\ runq' = QueueBack(AfterPick(runq, k), state, t)
              /\ state' = [PutBack(state, t) EXCEPT ![Picked(runq, k)] = "Running"]
              /\ slice' = [u \in Task |-> IF u = Picked(runq, k) /\ slice[u] = 0
                                          THEN DEFAULT_SLICE ELSE slice[u]]
              /\ current' = Picked(runq, k)
              /\ cr3' = Prepared(Picked(runq, k))
              /\ home' = [home EXCEPT ![t] = "ctx"]
              /\ halted' = (home[Picked(runq, k)] # "ctx")
  BY DEF Schedule
<1> DEFINE next == Picked(runq, k)
           q == AfterPick(runq, k)
<1>2. runq \in Seq(Task) /\ NoRepeats(runq) /\ inSyscall /\ state \in [AllTasks -> TaskState]
  BY SMTT(30) DEF TypeOK, QueueInv, QueuedOnce, SyscallFlagCovers, SyscallPc
<1>3. /\ q \in Seq(Task) /\ NoRepeats(q)
      /\ \A x \in Task : InQueue(q, x) <=> InQueue(runq, x) /\ (k # 0 => x # runq[k])
  BY <1>2, AfterPickQueue, Zenon
<1>4. /\ next \in AllTasks
      /\ next \in Task <=> k # 0
      /\ k # 0 => next = runq[k] /\ state[runq[k]] = "Runnable"
      /\ next \in Task \ {t} => pc[next] \notin {"kstart", "stuck", "sleep"}
                              /\ Prepared(next) = pidOf[next]
      /\ Prepared(next) \in 0 .. MaxPid
  <2>1. FirstRunnable(runq, state, k)
    BY <1>1
  <2>2. QED
    BY SMTT(40), <1>2, <2>1, PickedTask
<1>5. inSyscall' /\ UNCHANGED <<wake, inSyscall, pidOf, waitFor, procTask, procState, nextPid>>
  BY <1>2 DEF procVars
<1> HIDE DEF next, q
<1>6. CASE next = t
  <2>1. /\ needResched' = FALSE /\ pc' = [pc EXCEPT ![t] = cont] /\ runq' = q
        /\ UNCHANGED <<state, current, slice, home, cr3, halted>>
    BY <1>1, <1>6, SMTT(30) DEF next, q
  <2>2. ~InQueue(q, t) /\ state[t] = "Runnable"
    BY <1>3, <1>4, <1>6, ZenonT(30)
  <2>3. TypeOK'
    BY <1>3, <1>5, <2>1, Zenon DEF TypeOK, Pc, AllTasks
  <2>4. OnlyCurrentRuns' /\ PcInv' /\ BootInv' /\ SyscallFlagCovers'
    BY <1>5, <2>1, Zenon DEF TypeOK, OnlyCurrentRuns, PcInv, BootInv, SyscallFlagCovers, AllTasks
  <2>5. QueueInv' /\ NewInv'
    BY <1>3, <1>4, <1>6, <2>1, <2>2, Zenon DEF QueueInv, QueuedOnce, SleepersQueued, NewInv, PcInv,
                                      TypeOK, AllTasks
  <2>6. ProcInv' /\ SpaceInv'
    BY <1>5, <2>1, SMTT(30) DEF TypeOK, ProcInv, SpaceInv, AllTasks
  <2>7. QED
    BY <2>3, <2>4, <2>5, <2>6, SMTT(30)
<1>7. CASE next # t
  <2>1. /\ needResched' = FALSE /\ pc' = [pc EXCEPT ![t] = cont]
        /\ runq' = QueueBack(q, state, t)
        /\ state' = [PutBack(state, t) EXCEPT ![next] = "Running"]
        /\ slice' = [u \in Task |-> IF u = next /\ slice[u] = 0 THEN DEFAULT_SLICE ELSE slice[u]]
        /\ current' = next /\ cr3' = Prepared(next)
        /\ home' = [home EXCEPT ![t] = "ctx"] /\ halted' = (home[next] # "ctx")
    BY <1>1, <1>7 DEF next, q
  <2>2. /\ runq' \in Seq(Task) /\ NoRepeats(runq')
        /\ \A x \in Task : InQueue(runq', x) <=>
             \/ InQueue(runq, x) /\ x # next
             \/ x = t /\ state[t] = "Running"
    <3>1. state[t] = "Running" => ~InQueue(q, t)
      BY <1>3, Zenon DEF QueueInv, QueuedOnce, PcInv
    <3>2. \A x \in Task : InQueue(q, x) <=> InQueue(runq, x) /\ x # next
      BY <1>3, <1>4, Zenon
    <3>3. QED
      BY <1>3, <2>1, <3>1, <3>2, AppendQueue, ZenonT(30) DEF QueueBack
  <2>3. \A x \in AllTasks : state'[x] = IF x = next THEN "Running"
                                        ELSE IF x = t /\ state[t] = "Running" THEN "Runnable"
                                        ELSE state[x]
    BY <1>2, <2>1, Zenon DEF PutBack, AllTasks
  <2>4. TypeOK'
    <3>1. slice' \in [Task -> 0 .. DEFAULT_SLICE]
      BY <2>1, SMTT(30) DEF TypeOK
    <3>2. state' \in [AllTasks -> TaskState]
      BY <1>2, <1>4, <2>1, Zenon DEF PutBack, TaskState
    <3>3. QED
      BY <1>4, <1>5, <2>1, <2>2, <3>1, <3>2, Zenon DEF TypeOK, Pc, AllTasks
  <2>5. /\ pc'[Idle] = "idle" /\ pc'[t] = cont
        /\ \A x \in Task : /\ pc'[x] \notin {"kstart", "stuck", "sleep", "idle"}
                           /\ x # t => pc[x] \notin {"kstart", "stuck", "sleep", "idle"}
    BY <2>1, ZenonT(30) DEF TypeOK, PcInv, AllTasks
  <2>6. PcInv' /\ BootInv' /\ SyscallFlagCovers'
    BY <1>4, <1>5, <2>1, <2>5, Zenon DEF PcInv, BootInv, SyscallFlagCovers, AllTasks
  <2>7. OnlyCurrentRuns'
    BY SMTT(40), <1>4, <1>7, <2>1, <2>3 DEF OnlyCurrentRuns, AllTasks
  <2>8. QueuedOnce'
    BY <2>1, <2>2, <1>7, Zenon DEF QueuedOnce
  <2>9. SleepersQueued'
    BY <2>2, <2>3, Zenon DEF QueueInv, SleepersQueued, AllTasks
  <2>10. \A x \in Task : state'[x] = "New" <=> state[x] = "New"
    BY <1>4, <2>3, SMTT(30) DEF AllTasks
  <2>11. NewInv'
    BY <1>4, <2>1, <2>2, <2>3, <2>10, ZenonT(30) DEF NewInv, AllTasks
  <2>12. SpaceInv'
    BY <1>4, <1>5, <1>7, <2>1, ZenonT(30) DEF TypeOK, SpaceInv, AllTasks
  <2>13. ProcInv'
    <3>1. pc[t] \notin {"kstart", "stuck"}
      OBVIOUS
    <3>2. QED
      BY <1>5, <2>5, <2>10, <3>1, Zenon DEF ProcInv
  <2>14. QED
    BY <2>4, <2>6, <2>7, <2>8, <2>9, <2>11, <2>12, <2>13 DEF QueueInv
<1>8. QED
  BY <1>6, <1>7, SMTT(30)

\* The first handoff of the boot thread goes to the init task.
LEMMA BootStep ==
  ASSUME IInv, BootHandoff
  PROVE  IInv'
<1> USE SchedulerAssumption DEF IInv
<1>1. /\ current = NoTask /\ runq = <<InitTask>> /\ state[InitTask] = "Runnable"
      /\ pc[InitTask] = "kstart" /\ ~inSyscall
  BY SMTT(30) DEF BootHandoff, BootInv
<1>2. /\ state' = [state EXCEPT ![InitTask] = "Running"]
      /\ slice' = [u \in Task |-> IF u = InitTask /\ slice[u] = 0
                                  THEN DEFAULT_SLICE ELSE slice[u]]
      /\ current' = InitTask /\ cr3' = Prepared(InitTask)
      /\ runq' = AfterPick(runq, 1)
  <2>1. PICK k \in 0 .. Len(runq) :
          /\ FirstRunnable(runq, state, k)
          /\ state' = [state EXCEPT ![Picked(runq, k)] = "Running"]
          /\ slice' = [u \in Task |-> IF u = Picked(runq, k) /\ slice[u] = 0
                                      THEN DEFAULT_SLICE ELSE slice[u]]
          /\ current' = Picked(runq, k)
          /\ cr3' = Prepared(Picked(runq, k))
          /\ runq' = AfterPick(runq, k)
    BY Zenon DEF BootHandoff
  <2>2. Len(runq) = 1 /\ runq[1] = InitTask
    BY <1>1
  <2>3. k = 1
    BY SMTT(40), <1>1, <2>1, <2>2 DEF FirstRunnable
  <2>4. Picked(runq, k) = InitTask
    BY <2>2, <2>3 DEF Picked
  <2>5. QED
    BY <2>1, <2>3, <2>4, Zenon
<1>3. runq' = << >> /\ \A x \in Task : ~InQueue(runq', x)
  BY <1>1, <1>2, SMTT(30) DEF AfterPick, InQueue
<1>4. /\ needResched' = FALSE /\ ~inSyscall'
      /\ UNCHANGED <<wake, inSyscall, pc, home, halted, pidOf, waitFor, procTask, procState, nextPid>>
  BY <1>1, Zenon DEF BootHandoff, procVars
<1>5. TypeOK'
  <2>1. Prepared(InitTask) \in 0 .. MaxPid
    BY DEF Prepared, TypeOK
  <2>2. slice' \in [Task -> 0 .. DEFAULT_SLICE]
    BY <1>2 DEF TypeOK
  <2>3. QED
    <3>0. << >> \in Seq(Task)
      OBVIOUS
    <3>1. runq' \in Seq(Task) /\ state' \in [AllTasks -> TaskState]
      BY <1>2, <1>3, <3>0, Zenon DEF TypeOK, TaskState, AllTasks
    <3>2. QED
      BY <1>2, <1>4, <2>1, <2>2, <3>1, Zenon DEF TypeOK, AllTasks
<1>6. OnlyCurrentRuns' /\ PcInv' /\ BootInv' /\ SyscallFlagCovers'
  <2>1. \A x \in AllTasks : state'[x] = IF x = InitTask THEN "Running" ELSE state[x]
    BY <1>2, SMTT(30) DEF TypeOK, AllTasks
  <2>2. OnlyCurrentRuns'
    BY <1>1, <1>2, <2>1, ZenonT(30) DEF OnlyCurrentRuns, AllTasks
  <2>3. PcInv'
    BY <1>1, <1>2, <1>4, <2>1, Zenon DEF PcInv, AllTasks
  <2>4. BootInv' /\ SyscallFlagCovers'
    BY <1>1, <1>2, <1>4, Zenon DEF BootInv, SyscallFlagCovers, SyscallPc
  <2>5. QED
    BY <2>2, <2>3, <2>4
<1>7. QueueInv' /\ NewInv'
  <2>1. \A x \in Task : ~InQueue(runq, x) => state[x] # "Sleeping"
    BY DEF QueueInv, SleepersQueued
  <2>2. \A x \in Task : InQueue(runq, x) => x = InitTask
    <3>1. runq = <<InitTask>>
      BY <1>1, Zenon
    <3>2. 1 .. Len(runq) = {1} /\ runq[1] = InitTask
      BY <3>1
    <3>3. QED
      BY <3>2, Zenon DEF InQueue
  <2>3. QED
    <3>1. NoRepeats(runq')
      BY <1>3 DEF NoRepeats
    <3>2. \A x \in AllTasks : state'[x] = IF x = InitTask THEN "Running" ELSE state[x]
      BY <1>2 DEF TypeOK, AllTasks
    <3>3. QED
      BY SMTT(40), <1>1, <1>2, <1>3, <2>1, <2>2, <3>1, <3>2
         DEF QueueInv, QueuedOnce, SleepersQueued, NewInv, AllTasks
<1>8. ProcInv' /\ SpaceInv'
  BY <1>1, <1>2, <1>4, Zenon DEF TypeOK, ProcInv, SpaceInv, AllTasks
<1>9. QED
  BY <1>5, <1>6, <1>7, <1>8, SMTT(30)

\* What on_tick does to the task states: sleepers may become Runnable.
LEMMA TickStateFacts ==
  ASSUME IInv
  PROVE  /\ TickState \in [AllTasks -> TaskState]
         /\ \A x \in AllTasks :
              \/ TickState[x] = state[x]
              \/ /\ x \in Task /\ InQueue(runq, x)
                 /\ state[x] = "Sleeping" /\ TickState[x] = "Runnable"
BY SchedulerAssumption, SMTT(30) DEF IInv, TypeOK, TickState, Woken, TaskState, AllTasks

\* The parts of a tick that do not depend on what it decides.
LEMMA TickTypes ==
  ASSUME IInv, Tick
  PROVE  /\ slice' \in [Task -> 0 .. DEFAULT_SLICE]
         /\ wake' \in [Task -> 0 .. MaxSleep]
         /\ UNCHANGED <<inSyscall, halted, pidOf, waitFor, procTask, procState, nextPid>>
<1>1. slice' \in [Task -> 0 .. DEFAULT_SLICE]
  BY SchedulerAssumption DEF IInv, TypeOK, Tick, TickSlice
<1>2. wake' \in [Task -> 0 .. MaxSleep]
  BY SchedulerAssumption, SMTT(30) DEF IInv, TypeOK, Tick
<1>3. QED
  BY <1>1, <1>2 DEF Tick, procVars

\* A tick that only counts.
LEMMA TickCountsStep ==
  ASSUME IInv, Tick, TickCounts
  PROVE  IInv'
<1> USE SchedulerAssumption DEF IInv
<1>1. /\ state' = TickState /\ needResched' \in BOOLEAN
      /\ UNCHANGED <<runq, current, pc, home, cr3>>
  BY Zenon DEF TickCounts, TickResched, TypeOK
<1>2. \A x \in AllTasks :
         \/ state'[x] = state[x]
         \/ /\ x \in Task /\ InQueue(runq, x) /\ state[x] = "Sleeping" /\ state'[x] = "Runnable"
  BY <1>1, TickStateFacts
<1>3. TypeOK'
  BY <1>1, TickTypes, TickStateFacts, Zenon DEF TypeOK
<1>a. UNCHANGED <<inSyscall, halted, pidOf, waitFor, procTask, procState, nextPid>>
  BY TickTypes, SMTT(30)
<1>b. /\ \A x \in Task : state'[x] = "New" <=> state[x] = "New"
      /\ \A x \in AllTasks : state'[x] = "Running" <=> state[x] = "Running"
  BY <1>2, SMTT(30) DEF AllTasks
<1>4. OnlyCurrentRuns' /\ QueueInv' /\ SyscallFlagCovers'
  BY <1>1, <1>2, <1>a, Zenon
     DEF OnlyCurrentRuns, QueueInv, QueuedOnce, SleepersQueued, SyscallFlagCovers, AllTasks
<1>5. BootInv' /\ PcInv'
  BY <1>1, <1>2, <1>a, Zenon DEF BootInv, PcInv, AllTasks
<1>6. NewInv'
  BY <1>1, <1>a, <1>b, Zenon DEF NewInv
<1>7. ProcInv'
  BY <1>1, <1>a, <1>b, Zenon DEF ProcInv
<1>8. SpaceInv'
  BY <1>1, <1>a DEF SpaceInv
<1>9. QED
  BY <1>3, <1>4, <1>5, <1>6, <1>7, <1>8

\* A tick that preempts user code.
LEMMA TickPreemptsStep ==
  ASSUME IInv, Tick, TickPreempts
  PROVE  IInv'
<1> USE SchedulerAssumption DEF IInv
<1> DEFINE c == current
           q == QueueBack(runq, TickState, current)
           st == PutBack(TickState, current)
<1>1. PICK k \in 0 .. Len(q) :
        /\ FirstRunnable(q, st, k)
        /\ runq' = AfterPick(q, k)
        /\ \/ /\ Picked(q, k) = c \/ ~TfValid(Picked(q, k))
              /\ state' = [st EXCEPT ![c] = "Running"]
              /\ UNCHANGED <<current, pc, home, cr3>>
           \/ /\ Picked(q, k) # c /\ TfValid(Picked(q, k))
              /\ state' = [st EXCEPT ![Picked(q, k)] = "Running"]
              /\ current' = Picked(q, k)
              /\ cr3' = Prepared(Picked(q, k))
              /\ home' = [home EXCEPT ![c] = "tf"]
              /\ pc' = [pc EXCEPT ![Picked(q, k)] = "user"]
  BY Zenon DEF TickPreempts
<1>2. /\ c \in Task /\ pc[c] = "user" /\ ~InQueue(runq, c)
      /\ TickState[c] = state[c] /\ state[c] # "Sleeping"
  <2>1. c \in Task /\ pc[c] = "user"
    BY DEF TickPreempts, InUserMode
  <2>2. ~InQueue(runq, c)
    BY <2>1, SMTT(30) DEF QueueInv, QueuedOnce
  <2>3. QED
    BY <2>1, <2>2, TickStateFacts, Zenon DEF QueueInv, SleepersQueued, AllTasks
<1>3. /\ q \in Seq(Task) /\ NoRepeats(q)
      /\ \A x \in Task : InQueue(q, x) <=> InQueue(runq, x) \/ (x = c /\ state[c] = "Running")
  <2>1. runq \in Seq(Task) /\ NoRepeats(runq)
    BY SMTT(30) DEF TypeOK, QueueInv, QueuedOnce
  <2>2. QED
    BY <1>2, <2>1, AppendQueue, Zenon DEF QueueBack
<1>4. /\ st \in [AllTasks -> TaskState]
      /\ \A x \in AllTasks : st[x] # "Running"
      /\ \A x \in Task : st[x] = "New" <=> state[x] = "New"
      /\ \A x \in Task : st[x] = "Sleeping" => state[x] = "Sleeping"
      /\ state[c] = "Running" => st[c] = "Runnable"
  <2>1. st \in [AllTasks -> TaskState]
    BY <1>2, TickStateFacts, Zenon DEF PutBack, TaskState
  <2>2. \A x \in AllTasks : st[x] = IF x = c /\ state[c] = "Running" THEN "Runnable"
                                     ELSE TickState[x]
    BY <1>2, TickStateFacts, Zenon DEF PutBack, AllTasks
  <2>3. QED
    BY <1>2, <2>1, <2>2, TickStateFacts, Zenon DEF OnlyCurrentRuns, AllTasks
<1> DEFINE next == Picked(q, k)
<1> HIDE DEF q, st
<1>5. /\ next \in AllTasks
      /\ next \in Task <=> k # 0
      /\ k # 0 => next = q[k] /\ st[q[k]] = "Runnable"
      /\ next \in Task \ {c} => pc[next] \notin {"kstart", "stuck", "sleep"}
                              /\ Prepared(next) = pidOf[next]
      /\ Prepared(next) \in 0 .. MaxPid
  BY <1>1, <1>2, <1>3, <1>4, PickedTask, ZenonT(30)
<1>6. /\ runq' \in Seq(Task) /\ NoRepeats(runq')
      /\ \A x \in Task : InQueue(runq', x) <=> InQueue(q, x) /\ x # next
  <2>1. /\ AfterPick(q, k) \in Seq(Task) /\ NoRepeats(AfterPick(q, k))
        /\ \A x \in Task : InQueue(AfterPick(q, k), x) <=> InQueue(q, x) /\ (k # 0 => x # q[k])
    BY <1>3, AfterPickQueue, Zenon
  <2>2. QED
    BY <1>1, <1>5, <2>1, ZenonT(30)
<1>7. needResched' = FALSE /\ ~inSyscall' /\ ~inSyscall
  <2>1. inSyscall' = inSyscall
    BY TickTypes, SMTT(30)
  <2>2. QED
    BY <2>1, Zenon DEF TickPreempts
<1> HIDE DEF next
<1>8. \A x \in Task \ {c} : pc[x] \notin {"kstart", "stuck", "sleep", "idle"}
  BY <1>2, Zenon DEF PcInv
<1>9. CASE next = c \/ ~TfValid(next)
  <2>1. /\ state' = [st EXCEPT ![c] = "Running"]
        /\ UNCHANGED <<current, pc, home, cr3>>
    BY <1>1, <1>9 DEF next
  <2>2. ~InQueue(runq', c)
    <3>1. CASE next = c
      BY <1>2, <1>6, <3>1, SMTT(30)
    <3>2. CASE next # c
      <4>1. k = 0
        BY <1>5, <1>9, <3>2, SMTT(30) DEF TfValid
      <4>2. \A j \in 1 .. Len(q) : st[q[j]] # "Runnable"
        BY <1>1, <4>1, SMTT(30) DEF FirstRunnable
      <4>3. ~InQueue(q, c)
        BY <1>2, <1>3, <1>4, <4>2, SMTT(30) DEF InQueue
      <4>4. QED
        BY <1>2, <1>6, <4>3
    <3>3. QED
      BY <3>1, <3>2, SMTT(30)
  <2>3. \A x \in AllTasks : state'[x] = IF x = c THEN "Running" ELSE st[x]
    BY <1>4, <2>1, Zenon
  <2>4. TypeOK'
    <3>1. state' \in [AllTasks -> TaskState]
      BY <1>2, <1>4, <2>1, Zenon DEF TaskState
    <3>2. QED
      BY <1>6, <1>7, <2>1, <3>1, TickTypes, Zenon DEF TypeOK
  <2>5. OnlyCurrentRuns' /\ SyscallFlagCovers' /\ BootInv'
    BY <1>2, <1>4, <1>7, <2>1, <2>3, Zenon DEF OnlyCurrentRuns, SyscallFlagCovers, SyscallPc, BootInv
  <2>6. PcInv'
    BY <1>2, <1>8, <2>1, ZenonT(30) DEF PcInv
  <2>7. QueueInv' /\ NewInv'
    <3>1. \A x \in Task : state'[x] = "Sleeping" => InQueue(runq', x)
      <4>1. ASSUME NEW x \in Task, state'[x] = "Sleeping"
            PROVE  InQueue(runq', x)
        <5>1. x # c /\ st[x] = "Sleeping"
          BY <2>3, <4>1 DEF AllTasks
        <5>2. InQueue(q, x)
          BY <1>3, <1>4, <5>1, SMTT(30) DEF QueueInv, SleepersQueued
        <5>3. x # next
          BY <1>5, <5>1, Zenon
        <5>4. QED
          BY <1>6, <5>2, <5>3
      <4>2. QED
        BY <4>1
    <3>2. ASSUME NEW x \in Task, state'[x] = "New"
          PROVE  current' # x /\ ~InQueue(runq', x)
      <4>1. x # c /\ state[x] = "New"
        BY <1>4, <2>3, <3>2, SMTT(30) DEF AllTasks
      <4>2. QED
        BY <1>3, <1>6, <2>1, <4>1 DEF NewInv
    <3>3. QED
      BY <1>6, <2>1, <2>2, <3>1, <3>2, Zenon DEF QueueInv, QueuedOnce, SleepersQueued, NewInv
  <2>8. \A x \in Task : state'[x] = "New" <=> state[x] = "New"
    BY <1>2, <1>4, <2>3, Zenon DEF NewInv, AllTasks
  <2>9. ProcInv' /\ SpaceInv'
    BY <2>1, <2>8, TickTypes, Zenon DEF ProcInv, SpaceInv
  <2>10. QED
    BY <2>4, <2>5, <2>6, <2>7, <2>9, SMTT(30)
<1>10. CASE next # c /\ TfValid(next)
  <2>1. /\ state' = [st EXCEPT ![next] = "Running"]
        /\ current' = next /\ cr3' = Prepared(next)
        /\ home' = [home EXCEPT ![c] = "tf"] /\ pc' = [pc EXCEPT ![next] = "user"]
    BY <1>1, <1>10, Zenon DEF next
  <2>2. /\ next \in Task /\ k # 0 /\ st[next] = "Runnable"
        /\ pc[next] \notin {"kstart", "stuck", "sleep"} /\ Prepared(next) = pidOf[next]
    BY <1>5, <1>10, SMTT(30) DEF TfValid
  <2>a. \A x \in AllTasks : state'[x] = IF x = next THEN "Running" ELSE st[x]
    BY <1>4, <2>1, SMTT(30)
  <2>b. \A x \in AllTasks : pc'[x] = IF x = next THEN "user" ELSE pc[x]
    BY <2>1, Zenon DEF TypeOK
  <2>3. /\ \A x \in Task : state'[x] = IF x = next THEN "Running" ELSE st[x]
        /\ \A x \in Task : pc'[x] = IF x = next THEN "user" ELSE pc[x]
        /\ pc'[Idle] = pc[Idle] /\ state'[Idle] = st[Idle]
    BY <2>a, <2>b, <2>2, Zenon DEF AllTasks
  <2>4. TypeOK'
    <3>1. state' \in [AllTasks -> TaskState] /\ pc' \in [AllTasks -> Pc]
      BY <1>4, <1>5, <2>1, Zenon DEF TaskState, TypeOK, Pc
    <3>2. QED
      BY <1>5, <1>6, <1>7, <2>1, <2>2, <3>1, TickTypes, ZenonT(30) DEF TypeOK
  <2>5. OnlyCurrentRuns' /\ SyscallFlagCovers' /\ BootInv'
    BY SMTT(40), <1>4, <2>1, <2>2, <2>3
       DEF OnlyCurrentRuns, SyscallFlagCovers, SyscallPc, BootInv, AllTasks
  <2>6. PcInv'
    BY <1>2, <1>8, <2>2, <2>3, Zenon DEF PcInv, AllTasks
  <2>7. \A x \in Task : state'[x] = "New" <=> state[x] = "New"
    BY <1>4, <2>2, <2>3, Zenon DEF AllTasks
  <2>8. QueueInv' /\ NewInv'
    <3>1. ASSUME NEW x \in Task, state'[x] = "Sleeping"
          PROVE  InQueue(runq', x)
      <4>1. x # next /\ st[x] = "Sleeping"
        BY <2>3, <3>1, Zenon DEF AllTasks
      <4>2. QED
        BY <1>3, <1>4, <1>6, <4>1, SMTT(30) DEF QueueInv, SleepersQueued
    <3>2. ASSUME NEW x \in Task, state'[x] = "New"
          PROVE  current' # x /\ ~InQueue(runq', x)
      <4>1. x # next /\ x # c /\ state[x] = "New"
        BY <1>2, <2>3, <2>7, <3>2, Zenon DEF AllTasks, NewInv
      <4>2. QED
        BY <1>3, <1>6, <2>1, <4>1, SMTT(30) DEF NewInv
    <3>3. QED
      BY <1>6, <2>1, <3>1, <3>2, Zenon DEF QueueInv, QueuedOnce, SleepersQueued, NewInv
  <2>9. ProcInv' /\ SpaceInv'
    <3>1. SpaceInv'
      BY <2>1, <2>2, TickTypes, SMTT(30) DEF SpaceInv
    <3>2. \A x \in Task : pc'[x] \notin {"kstart", "stuck"} => pc[x] \notin {"kstart", "stuck"}
      BY <2>2, <2>3, Zenon DEF AllTasks
    <3>3. QED
      BY <2>7, <3>1, <3>2, TickTypes, Zenon DEF ProcInv
  <2>10. QED
    BY <2>4, <2>5, <2>6, <2>8, <2>9
<1>11. QED
  BY <1>9, <1>10, SMTT(30)

-----------------------------------------------------------------------------
(* The theorems.                                                           *)

\* Every step of the scheduler keeps the invariant.
LEMMA NextIInv == IInv /\ [Next]_vars => IInv'
<1> SUFFICES ASSUME IInv, [Next]_vars PROVE IInv'
  OBVIOUS
<1>1. CASE BootHandoff
  BY <1>1, BootStep
<1>2. CASE Tick
  BY <1>2, TickCountsStep, TickPreemptsStep, SMTT(30) DEF Tick
<1>3. ASSUME NEW t \in Task, SyscallEnter(t) \/ KernelStep(t)
      PROVE  IInv'
  <2>1. CASE SleepSchedule(t)
    BY <2>1, ScheduleStep DEF SleepSchedule
  <2>2. CASE ExitYield(t)
    BY <2>2, ScheduleStep, SMTT(30) DEF ExitYield
  <2>3. CASE WaitTurn(t)
    <3>1. CASE Schedule(t, state, runq, "wait") /\ UNCHANGED waitFor
      BY <2>3, <3>1, ScheduleStep DEF WaitTurn, procVars
    <3>2. CASE /\ pc' = [pc EXCEPT ![t] = "sysret"]
               /\ waitFor' = [waitFor EXCEPT ![t] = 0]
               /\ UNCHANGED <<state, runq, current, slice, needResched, home, cr3, halted>>
      <4> USE SchedulerAssumption DEF IInv, WaitTurn
      <4>1. TypeOK'
        BY SMTT(40), <2>3, <3>2 DEF TypeOK, AllTasks, Pc
      <4>2. OnlyCurrentRuns' /\ PcInv' /\ BootInv' /\ SyscallFlagCovers'
        BY <2>3, <3>2, Zenon DEF TypeOK, OnlyCurrentRuns, PcInv, BootInv, SyscallFlagCovers,
                          SyscallPc, AllTasks
      <4>3. QueueInv' /\ NewInv'
        BY <2>3, <3>2, Zenon DEF TypeOK, QueueInv, QueuedOnce, SleepersQueued, NewInv, AllTasks
      <4>4. ProcInv' /\ SpaceInv'
        BY <2>3, <3>2, Zenon DEF TypeOK, ProcInv, SpaceInv, AllTasks
      <4>5. QED
        BY <4>1, <4>2, <4>3, <4>4, SMTT(30)
    <3>3. QED
      BY <2>3, <3>1, <3>2, SMTT(30) DEF WaitTurn
  <2>4. QED
    BY <1>3, <2>1, <2>2, <2>3, QuietStep, ZombieStep, PushStep, Zenon DEF KernelStep
<1>4. CASE UNCHANGED vars
  BY <1>4, Zenon DEF IInv, vars, taskVars, procVars, TypeOK, OnlyCurrentRuns, QueueInv, QueuedOnce,
      SleepersQueued, SyscallFlagCovers, BootInv, PcInv, NewInv, ProcInv, SpaceInv
<1>5. QED
  BY <1>1, <1>2, <1>3, <1>4 DEF Next, Running, HaltForever

\* The inductive invariant holds throughout.
LEMMA Invariance == Spec => []IInv
<1>1. QED
  BY InitIInv, NextIInv, PTL DEF Spec

\* Every variable of the scheduler keeps its type: the time slice never leaves
\* 0..DEFAULT_SLICE and RUNQ holds tasks only.
THEOREM TypeCorrect == Spec => []TypeOK
<1>1. IInv => TypeOK
  BY DEF IInv
<1>2. QED
  BY <1>1, Invariance, PTL

\* schedule and preempt_from_timer never leave two tasks marked Running.
THEOREM MutualExclusion == Spec => []OnlyCurrentRuns
<1>1. IInv => OnlyCurrentRuns
  BY DEF IInv
<1>2. QED
  BY <1>1, Invariance, PTL

\* No task is in RUNQ twice, and the running one only inside sleep_ms.
THEOREM QueueCorrect == Spec => []QueuedOnce
<1>1. IInv => QueuedOnce
  BY DEF IInv, QueueInv
<1>2. QED
  BY <1>1, Invariance, PTL

\* A sleeper is always where on_tick looks for it.
THEOREM SleepersFound == Spec => []SleepersQueued
<1>1. IInv => SleepersQueued
  BY DEF IInv, QueueInv
<1>2. QED
  BY <1>1, Invariance, PTL

\* One task runs, none is queued twice, and every sleeper is queued.
THEOREM TasksCorrect == Spec => []TasksSound
<1>1. TypeOK /\ OnlyCurrentRuns /\ QueuedOnce /\ SleepersQueued => TasksSound
  BY SMTT(30) DEF TasksSound
<1>2. QED
  BY <1>1, TypeCorrect, MutualExclusion, QueueCorrect, SleepersFound, PTL

\* User code only ever executes in the address space of its own process.
THEOREM AddressSpaces == Spec => []UserInOwnSpace
<1>1. IInv => UserInOwnSpace
  <2> SUFFICES ASSUME IInv, current \in Task, pc[current] = "user"
               PROVE  pidOf[current] \in Pids /\ cr3 = pidOf[current]
    BY Zenon DEF UserInOwnSpace, InUserMode
  <2>1. state[current] # "New"
    BY DEF IInv, NewInv
  <2>2. QED
    BY <2>1, SMTT(30) DEF IInv, ProcInv, SpaceInv
<1>2. QED
  BY <1>1, Invariance, PTL

\* IN_SYSCALL is set whenever kernel code runs for a system call.
THEOREM SyscallFlag == Spec => []SyscallFlagCovers
<1>1. IInv => SyscallFlagCovers
  BY SMTT(30) DEF IInv
<1>2. QED
  BY <1>1, Invariance, PTL

\* The entry of a dead task is rotated and never picked.
LEMMA DeadStep ==
  ASSUME IInv, [Next]_vars, NEW d \in Task, state[d] = "Zombie", current # d
  PROVE  state'[d] = "Zombie"
<1> USE SchedulerAssumption
<1>0. /\ state \in [AllTasks -> TaskState] /\ runq \in Seq(Task) /\ d \in AllTasks
      /\ procTask \in [Pids -> Task \cup {NoTask}]
  BY Zenon DEF IInv, TypeOK, AllTasks
<1>1. CASE BootHandoff
  <2>1. PICK k \in 0 .. Len(runq) : /\ FirstRunnable(runq, state, k)
                                    /\ state' = [state EXCEPT ![Picked(runq, k)] = "Running"]
    BY <1>1, ZenonT(30) DEF BootHandoff
  <2>2. Picked(runq, k) # d
    BY <2>1, Zenon DEF FirstRunnable, Picked
  <2>3. QED
    BY <1>0, <2>1, <2>2
<1>2. CASE Tick
  <2>1. TickState[d] = "Zombie" /\ TickState \in [AllTasks -> TaskState]
    BY <1>0, TickStateFacts
  <2>2. CASE TickCounts
    BY <2>1, <2>2 DEF TickCounts
  <2>3. CASE TickPreempts
    <3> DEFINE q == QueueBack(runq, TickState, current)
               st == PutBack(TickState, current)
    <3>1. PICK k \in 0 .. Len(q) :
            /\ FirstRunnable(q, st, k)
            /\ \/ state' = [st EXCEPT ![current] = "Running"]
               \/ state' = [st EXCEPT ![Picked(q, k)] = "Running"]
      BY <2>3, Zenon DEF TickPreempts
    <3>2. st[d] = "Zombie" /\ d \in DOMAIN st
      BY <1>0, <2>1 DEF PutBack
    <3> HIDE DEF q, st
    <3>3. Picked(q, k) # d
      BY <3>1, <3>2, SMTT(30) DEF FirstRunnable, Picked
    <3>4. QED
      BY <3>1, <3>2, <3>3, SMTT(30)
  <2>4. QED
    BY <1>2, <2>2, <2>3 DEF Tick
<1>3. ASSUME NEW t \in Task, SyscallEnter(t) \/ KernelStep(t)
      PROVE  state'[d] = "Zombie"
  <2>1. ASSUME NEW cont, Schedule(t, state, runq, cont), current = t
        PROVE  state'[d] = "Zombie"
    <3>1. PICK k \in 0 .. Len(runq) :
            /\ FirstRunnable(runq, state, k)
            /\ \/ state' = state
               \/ state' = [PutBack(state, t) EXCEPT ![Picked(runq, k)] = "Running"]
      BY <2>1, Zenon DEF Schedule
    <3>2. Picked(runq, k) # d
      BY <3>1, SMTT(30) DEF FirstRunnable, Picked
    <3>3. QED
      BY <1>0, <2>1, <3>1, <3>2, SMTT(30) DEF PutBack
  <2>2. CASE SleepSchedule(t) \/ ExitYield(t) \/ WaitTurn(t)
    BY <2>1, <2>2, ZenonT(30) DEF SleepSchedule, ExitYield, WaitTurn
  <2>3. CASE SysExit(t) \/ \E p \in Pids : SysProcKill(t, p)
    BY <1>0, <2>3, Zenon DEF SysExit, SysProcKill
  <2>4. CASE \/ \E ticks \in 0 .. MaxSleep : SysSleep(t, ticks)
             \/ \E child \in Task : SysProcSpawn(t, child)
    BY SMTT(40), <1>0, <2>4 DEF SysSleep, SysProcSpawn, InDispatch
  <2>5. CASE state' = state
    BY <2>5
  <2>6. QED
    BY <1>3, <2>2, <2>3, <2>4, <2>5
      , Zenon DEF KernelStep, SyscallEnter, SyscallExit, SyscallReturn, SysYield, SysOther, SysExec,
           SysProcSpawnFails, RunUserElf, RunUserElfFails, SysProcWait
<1>4. CASE UNCHANGED vars
  BY <1>4 DEF vars, taskVars
<1>5. QED
  BY <1>1, <1>2, <1>3, <1>4, Zenon DEF Next, Running, HaltForever

\* A task that is killed or has exited is never scheduled again.
THEOREM NoResurrection == Spec => DeadStayDead
<1>1. IInv /\ [Next]_vars =>
        [\A t \in Task : state[t] = "Zombie" /\ current # t => state'[t] = "Zombie"]_vars
  BY DeadStep
<1>2. QED
  BY <1>1, Invariance, PTL DEF Spec, DeadStayDead

=============================================================================

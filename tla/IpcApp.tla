------------------------------- MODULE IpcApp -------------------------------
(***************************************************************************)
(* The two demonstration programs of user/apps: ipc_srv creates a channel  *)
(* and a shared memory object, leaves the channel's id in /tmp/ipc_chan,   *)
(* starts ipc_cli and sends it ticks; ipc_cli finds the channel through    *)
(* the file and the memory through the first message.  Both run against    *)
(* the channels of Channel, the shared memory of syscall/shm.rs and a file *)
(* that outlives a reboot.                                                 *)
(*                                                                         *)
(* A step is one system call and the user code that goes with it: between  *)
(* two of them the timer may switch to any other program.  What is written *)
(* to the shared memory is read by no other program before the next call.  *)
(***************************************************************************)
EXTENDS Channel, FiniteSets

CONSTANTS
  Srv,      \* the copies of ipc_srv that are started, each with its ipc_cli
  Others,   \* numbers of channels other programs create at a time
  MaxTick,  \* bound: ticks a server sends
  MaxShm,   \* bound: shared memory objects created
  MaxBoots, \* bound: times the machine is started
  MSG_SIZE, \* size_of::<Msg>()
  BUF_SIZE  \* the client's receive buffer

\* Msg, whose magic is the same in all of them; field a is the shared memory
\* object of an INIT and the counter of a TICK.
Msg == [kind : {"INIT"}, a : 1 .. MaxShm] \cup [kind : {"TICK"}, a : 1 .. MaxTick]

ASSUME IpcAssumption ==
  /\ IsFiniteSet(Srv) /\ Cardinality(Srv) \in 0 .. MaxChan /\ Cardinality(Srv) <= MaxShm
  /\ Others \subseteq Nat
  /\ {MaxShm, MaxTick, MaxBoots} \subseteq Nat \ {0}
  /\ MSG_SIZE \in 1 .. MAX_MSG /\ MSG_SIZE <= BUF_SIZE
  /\ {MSG_SIZE, BUF_SIZE} \subseteq Lens /\ Msg \subseteq Data

\* The channels that are created have numbers of nine digits at most: the kernel
\* has no memory for more of them.
ASSUME DigitsAssumption == MaxChan < 1000000000

VARIABLES
  file,     \* /tmp/ipc_chan: the numbers written to it one after the other
  spc,      \* where each server is
  sChan,    \* its chan_id
  sShm,     \* its shm_id
  counter,  \* its tick counter
  cpc,      \* where each client is
  cChan,    \* the client's chan_id
  cShm,     \* the client's shm_id
  seenOk,   \* what the client's pattern check found
  lastTick, \* the last tick a client received, 0 before the first
  nextShm,  \* NEXT_SHM_ID
  pattern,  \* the shared memory objects that hold the pattern
  boots     \* times the machine was started

srvVars == <<spc, sChan, sShm, counter>>
cliVars == <<cpc, cChan, cShm, seenOk, lastTick>>
shmVars == <<nextShm, pattern>>
vars == <<chanVars, srvVars, cliVars, shmVars, file, boots>>

NoFile == << >>

SrvPc == {"off", "create", "write", "shm", "map", "init", "spawn", "loop", "stuck"}

\* "stuck" after a call that failed, "lost" after an error of chan::recv.
CliPc == {"off", "open", "init", "map", "loop", "stuck", "lost"}

\* Everything the kernel and the programs hold in memory.
MemoryInit ==
  /\ ChanInit
  /\ spc = [s \in Srv |-> "off"]
  /\ sChan = [s \in Srv |-> 0]
  /\ sShm = [s \in Srv |-> 0]
  /\ counter = [s \in Srv |-> 1]
  /\ cpc = [s \in Srv |-> "off"]
  /\ cChan = [s \in Srv |-> 0]
  /\ cShm = [s \in Srv |-> 0]
  /\ seenOk = [s \in Srv |-> TRUE]
  /\ lastTick = [s \in Srv |-> 0]
  /\ nextShm = 1
  /\ pattern = {}

Init == MemoryInit /\ file = NoFile /\ boots = 1

-----------------------------------------------------------------------------
(* ipc_srv                                                                 *)

Start(s) ==
  /\ spc[s] = "off"
  /\ spc' = [spc EXCEPT ![s] = "create"]
  /\ UNCHANGED <<chanVars, sChan, sShm, counter, cliVars, shmVars, file, boots>>

SrvCreate(s) ==
  /\ spc[s] = "create"
  /\ SysChanCreate
  /\ sChan' = [sChan EXCEPT ![s] = nextChanId]
  /\ spc' = [spc EXCEPT ![s] = "write"]
  /\ UNCHANGED <<sShm, counter, cliVars, shmVars, file, boots>>

\* sys_vfs_write has no way to ask for truncation: an existing file is extended.
VfsWrite(old, id) == Append(old, id)

SrvWriteId(s) ==
  /\ spc[s] = "write"
  /\ file' = VfsWrite(file, sChan[s])
  /\ spc' = [spc EXCEPT ![s] = "shm"]
  /\ UNCHANGED <<chanVars, sChan, sShm, counter, cliVars, shmVars, boots>>

SrvShmCreate(s) ==
  /\ spc[s] = "shm" /\ nextShm <= MaxShm
  /\ nextShm' = nextShm + 1
  /\ sShm' = [sShm EXCEPT ![s] = nextShm]
  /\ spc' = [spc EXCEPT ![s] = "map"]
  /\ UNCHANGED <<chanVars, sChan, counter, cliVars, pattern, file, boots>>

\* The loop that writes the pattern after shm::map.
SrvFill(s) == pattern \cup {sShm[s]}

SrvShmMap(s) ==
  /\ spc[s] = "map"
  /\ pattern' = SrvFill(s)
  /\ spc' = [spc EXCEPT ![s] = "init"]
  /\ UNCHANGED <<chanVars, sChan, sShm, counter, cliVars, nextShm, file, boots>>

\* vfs::write, shm::create or shm::map fails, for want of space or of frames: the
\* server yields for ever.  chan::create has no way to fail here.
SrvFails(s) ==
  /\ spc[s] \in {"write", "shm", "map"}
  /\ spc' = [spc EXCEPT ![s] = "stuck"]
  /\ UNCHANGED <<chanVars, sChan, sShm, counter, cliVars, shmVars, file, boots>>

SendMsg(s, kind, a) ==
  SysChanSend(sChan[s], FALSE, TRUE, MSG_SIZE, [kind |-> kind, a |-> a])

SrvSendInit(s) ==
  /\ spc[s] = "init"
  /\ SendMsg(s, "INIT", sShm[s])
  /\ spc' = [spc EXCEPT ![s] = "spawn"]
  /\ UNCHANGED <<sChan, sShm, counter, cliVars, shmVars, file, boots>>

\* proc::spawn, which may fail without the server stopping.
SrvSpawn(s) ==
  /\ spc[s] = "spawn"
  /\ spc' = [spc EXCEPT ![s] = "loop"]
  /\ \/ cpc' = [cpc EXCEPT ![s] = "open"]
     \/ UNCHANGED cpc
  /\ UNCHANGED <<chanVars, sChan, sShm, counter, cChan, cShm, seenOk, lastTick,
                 shmVars, file, boots>>

\* Mutant of NextCount: the counter is too narrow and starts again at 1.
MutNarrowCounter(n) == (n % 3) + 1

NextCount(n) == n + 1

\* One turn of the loop; the result of send is ignored.
SrvTick(s) ==
  /\ spc[s] = "loop" /\ counter[s] < MaxTick
  /\ counter' = [counter EXCEPT ![s] = NextCount(@)]
  /\ SendMsg(s, "TICK", counter'[s])
  /\ UNCHANGED <<spc, sChan, sShm, cliVars, shmVars, file, boots>>

-----------------------------------------------------------------------------
(* ipc_cli                                                                 *)

\* The power of ten that u64_to_dec(n) has room for all its digits below.
Tens == {10, 100, 1000, 10000, 100000, 1000000, 10000000, 100000000, 1000000000}

Shift(n) == CHOOSE p \in Tens : n < p /\ p <= 10 * n

\* Mutant of Parse: the value is replaced by each number.
MutParseLast(f) == f[Len(f)]

\* parse_u64_ascii of the file's contents, the decimal numbers written to it with
\* nothing between them.  The code reads the first 64 digits and saturates at
\* u64::MAX: no channel has either number.
Parse(f) ==
  LET v[i \in 0 .. Len(f)] == IF i = 0 THEN 0 ELSE v[i - 1] * Shift(f[i]) + f[i]
  IN  v[Len(f)]

\* vfs::read: ENOENT and EAGAIN are retried, another error is not.
CliOpen(s) ==
  /\ cpc[s] = "open"
  /\ \/ /\ file # NoFile
        /\ cChan' = [cChan EXCEPT ![s] = Parse(file)]
        /\ cpc' = [cpc EXCEPT ![s] = "init"]
     \/ /\ cpc' = [cpc EXCEPT ![s] = "stuck"]
        /\ UNCHANGED cChan
  /\ UNCHANGED <<chanVars, srvVars, cShm, seenOk, lastTick, shmVars, file, boots>>

Recv(s) == SysChanRecv(cChan[s], FALSE, TRUE, BUF_SIZE)

RecvResult(s) == RecvRet(cChan[s], FALSE, BUF_SIZE)

Received(s) == Head(q[cChan[s]]).data

\* Mutant of TakesAsInit: the wrong field of the message is compared.
MutTakesZero(m) == m.kind = "INIT" /\ m.a = 0

TakesAsInit(m) == m.kind = "INIT"

Failed(s) == RecvResult(s) \notin {"ok", "EAGAIN"}

\* The loop that waits for INIT: other messages are dropped, EAGAIN is retried.
CliWaitInit(s) ==
  LET gotInit == RecvResult(s) = "ok" /\ TakesAsInit(Received(s))
  IN  /\ cpc[s] = "init"
      /\ Recv(s)
      /\ cShm' = IF gotInit THEN [cShm EXCEPT ![s] = Received(s).a] ELSE cShm
      /\ cpc' = [cpc EXCEPT ![s] = IF gotInit THEN "map" ELSE IF Failed(s) THEN "lost" ELSE @]
      /\ UNCHANGED <<srvVars, cChan, seenOk, lastTick, shmVars, file, boots>>

\* sys_shm_map (ESRCH for an unknown id, EIO when a page is already mapped),
\* then the check of the pattern.
CliShmMap(s) ==
  /\ cpc[s] = "map"
  /\ \/ /\ cShm[s] < nextShm
        /\ seenOk' = [seenOk EXCEPT ![s] = cShm[s] \in pattern]
        /\ cpc' = [cpc EXCEPT ![s] = "loop"]
     \/ /\ cpc' = [cpc EXCEPT ![s] = "stuck"]
        /\ UNCHANGED seenOk
  /\ UNCHANGED <<chanVars, srvVars, cChan, cShm, lastTick, shmVars, file, boots>>

\* The loop that waits for ticks.
CliTick(s) ==
  LET gotTick == RecvResult(s) = "ok" /\ Received(s).kind = "TICK"
  IN  /\ cpc[s] = "loop"
      /\ Recv(s)
      /\ lastTick' = IF gotTick THEN [lastTick EXCEPT ![s] = Received(s).a] ELSE lastTick
      /\ cpc' = [cpc EXCEPT ![s] = IF Failed(s) THEN "lost" ELSE @]
      /\ UNCHANGED <<srvVars, cChan, cShm, seenOk, shmVars, file, boots>>

-----------------------------------------------------------------------------

\* Other programs create n channels.  No message with the magic of Msg ever is in
\* one of them.  Enough numbers are left for the servers within the bound.
OthersCreate(n) ==
  /\ nextChanId + n + Cardinality(Srv) <= MaxChan + 1
  /\ nextChanId' = nextChanId + n
  /\ ret' = "ok"
  /\ UNCHANGED <<q, sent, popped, srvVars, cliVars, shmVars, file, boots>>

\* The machine is switched off and on: only the file system remains.
Reboot ==
  /\ boots < MaxBoots
  /\ boots' = boots + 1
  /\ nextChanId' = 1 /\ ret' = "ok"
  /\ q' = [c \in ChanId |-> << >>]
  /\ sent' = [c \in ChanId |-> << >>]
  /\ popped' = [c \in ChanId |-> << >>]
  /\ spc' = [s \in Srv |-> "off"] /\ sChan' = [s \in Srv |-> 0]
  /\ sShm' = [s \in Srv |-> 0] /\ counter' = [s \in Srv |-> 1]
  /\ cpc' = [s \in Srv |-> "off"] /\ cChan' = [s \in Srv |-> 0]
  /\ cShm' = [s \in Srv |-> 0] /\ seenOk' = [s \in Srv |-> TRUE]
  /\ lastTick' = [s \in Srv |-> 0]
  /\ nextShm' = 1 /\ pattern' = {}
  /\ UNCHANGED file

SrvStep(s) ==
  \/ SrvCreate(s) \/ SrvWriteId(s) \/ SrvShmCreate(s) \/ SrvShmMap(s) \/ SrvFails(s)
  \/ SrvSendInit(s) \/ SrvSpawn(s) \/ SrvTick(s)

CliStep(s) == CliOpen(s) \/ CliWaitInit(s) \/ CliShmMap(s) \/ CliTick(s)

Next ==
  \/ \E s \in Srv : Start(s) \/ SrvStep(s) \/ CliStep(s)
  \/ \E n \in Others : OthersCreate(n)
  \/ Reboot

Spec == Init /\ [][Next]_vars

\* Programs that are not blocked get the CPU.
FairSpec == Spec /\ \A s \in Srv : WF_vars(SrvStep(s)) /\ WF_vars(CliStep(s))

-----------------------------------------------------------------------------

\* Type invariant of the programs' variables.
IpcTypeOK ==
  /\ ChanTypeOK
  /\ file \in Seq(ChanId)
  /\ spc \in [Srv -> SrvPc] /\ cpc \in [Srv -> CliPc]
  /\ sChan \in [Srv -> 0 .. MaxChan] /\ cChan \in [Srv -> Nat]
  /\ sShm \in [Srv -> Nat] /\ cShm \in [Srv -> Nat]
  /\ counter \in [Srv -> 0 .. MaxTick] /\ lastTick \in [Srv -> 0 .. MaxTick]
  /\ seenOk \in [Srv -> BOOLEAN] /\ boots \in 1 .. MaxBoots

\* A client that has mapped the shared memory found the server's pattern in it:
\* the channel orders the server's writes before the client's reads.
PatternSeen == \A s \in Srv : seenOk[s]

\* A client that gets through is served by one server, the channel and the memory
\* being both of that one.  It is the server that started the client, unless two
\* numbers or more in the file made up the number of another server's channel,
\* 11 at least.
OwnServer ==
  \A s \in Srv : cpc[s] = "loop" =>
    \E t \in Srv :
      /\ cChan[s] = sChan[t] /\ cShm[s] = sShm[t]
      /\ t = s \/ (Len(file) > 1 /\ cChan[s] > 10)

\* What a client has and has seen is one server's, the pattern included, and its
\* own server's as long as there are few channels, although all servers write to
\* one file and the file outlives a restart.
ClientsSound == IpcTypeOK /\ PatternSeen /\ OwnServer

\* Ticks reach a client in increasing order, whatever send refused and whichever
\* other client took some in between, and never before the server whose channel it
\* has found has counted them.
TicksInOrder ==
  [][\A s \in Srv : lastTick'[s] # lastTick[s] =>
       \/ boots' # boots
       \/ /\ lastTick'[s] > lastTick[s]
          /\ \E t \in Srv : cChan[s] = sChan[t] /\ lastTick'[s] <= counter[t]]_vars

\* The first server to write to the file reaches its client: a tick arrives,
\* unless vfs, shm or spawn refuses a call of either program, a second server
\* writes to the file, or the machine is restarted.
FirstTick ==
  \A s \in Srv : (spc[s] = "create") ~>
    \/ lastTick[s] > 0
    \/ spc[s] = "stuck" \/ cpc[s] = "stuck"
    \/ spc[s] = "loop" /\ cpc[s] = "off"
    \/ Len(file) > 1 \/ spc[s] = "off"

=============================================================================

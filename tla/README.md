# A verification development for the DE10-Standard bitcoin miner

The repository holds a miner in two halves. An FPGA design (`src/design`)
computes SHA-256 digests; a program on the board's processor (`src/src/COM`)
gets work from a mining pool over the Stratum protocol and is meant to feed it
to the FPGA. Beside them stand a production test, which makes blocks of the
standard's test vectors, and `tools/scripts/miner.py`, a miner in Python for a
board on a serial line. This directory models all four in TLA+, model-checks
them with TLC and proves the main results about the fabric, its data path, the
miner program and the Python miner with TLAPS.

## 1. The system

### 1.1 Components

| Component | Source | State it keeps | Operations |
|---|---|---|---|
| Manager | `design/ip/bitcoin/manager.vhd` | a queue of 4 packets of 128 bits and a counter per core, the state PREPARING or DISPATCHING, the streaming output | take an Avalon write, hand a full queue over, offer it, release it, reset |
| Cores (8) | `design/ip/bitcoin/core.vhd` | IDLING, CALCULATING or PUBLISHING, round counter, working variables, digest | accept an offer, load the block, 64 rounds, publish for one clock, reset |
| Core interface | `design/ip/bitcoin/core_interface.vhd` | the answer to the manager, one output register | merge the cores' answers, forward a digest, take an acknowledgement, reset |
| Register map | `design/ip/bitcoin/register_map.vhd` | 8 registers of 256 bits, a write and a read state machine | store a digest and acknowledge it, serve a read, reset |
| Wiring | `design/fabric_design.qsys` | none | one clock and one reset for all of them |
| Stratum client | `src/COM/STRATUM.c` | connection state, socket, receive buffer, `stCurrentWork`, `bWorkReady` | a thread: Connect, Authenticate, listen, Publish; and the polling `STRATUM_Ptcl_Bkgnd` of the main thread |
| JSON messages | `src/COM/JSON_ser.c` | none of its own | write the pool's answers into `stCurrentWork` |
| Scheduler | `src/COM/SCHEDULER.c` | the work queue, its counter, READY, RECALIBRATION or COMPUTING | `SCHEDULER_PushWork`, `SCHEDULER_Bkgnd` |
| Main loop | `src/COM/main.c`, `COM_mgr.c` | none | for ever: poll the protocol, then run the scheduler |
| FPGA driver | `src/drv/FPGA/FPGA_Drv.c` | a memory mapping | `FPGA_Drv_StageWork` (a stub), `FPGA_Drv_GetStatus` (a constant), print digests |
| Production test | `production_test/test_vectors.c` | a table of 512 vectors with their strings, one working block | read the vectors of two files, pad the messages in place |
| Hexadecimal utilities | `common/utils/hex.c` | none | string to bytes, swap words |
| Python miner | `tools/scripts/miner.py` | per pool a bounded queue of jobs and a flag; the current job; the lock of the board | threads: fetch jobs, wait for long polls, mine, watch |
| Others | LCD, seven-segment and button drivers, `SEG7.vhd`, `UI_mgr.c`, demonstrations, vendored code | | see section 8 |

(Paths in this file are relative to `src/`.)

### 1.2 How they interact

```
 processor --write--> Manager ==block, channel==> Cores ==digest==> Core interface --> Register map --read--> processor
                         ^------- taken -------- Core interface <-- ready               ack back
```

In the fabric everything happens at the rising edge of one clock: all registers
move at once from the values before the edge. Manager and cores shake hands in
four phases (offer, answer, withdraw the offer, withdraw the answer). A digest
is a pulse of one clock from core to core interface, and a valid/acknowledge
pair from there to the register map.

The program has two threads. The *connection thread* talks to the pool and
writes what it learns into `stCurrentWork`, member by member; when a job is
complete it sets `bWorkReady`. The *main thread* sees the flag, copies
`stCurrentWork` into the scheduler's queue with `memcpy`, clears the flag and
runs the scheduler. No lock is used. The pool can close or lose the connection,
and TCP delivers lines bunched or cut.

The Python miner has two threads for each pool: one fetches jobs into the pool's
bounded queue, the other waits for the answer to a long poll, which means that
all earlier jobs are worth nothing: it raises a flag, drains the queue, and puts
the new job in, or writes it straight to the board. A *worker* takes jobs from the
queues, writes them to the board, waits for the acknowledgement and reads
results; the *main thread* looks once a second whether the worker has given up.
Writing to the board is done under `fpgalock`; the other attributes are shared
without a lock.

The production test is sequential, but everything in it is static and written
in place: the table, the strings of its entries, and the working block a message
is padded in.

### 1.3 What is hard

* **Fabric.** Eight cores share one output register; nothing arbitrates. That
  no digest is lost rests on timing alone: on how far apart the handshake keeps
  two blocks. A core reads its block one clock *after* it took the offer. The
  dispatch loop would discard queues if two were full. A reset may come at any
  clock, and it does not clear all of the state.
* **Data path.** The rounds are pipelined: sums computed a clock ahead into two
  alternating slots, message words two clocks ahead into sixteen registers.
* **Reading.** The processor reads a digest byte by byte while the cores go on.
* **Program.** The unlocked hand-over; reconnecting while a work is being
  copied; a scheduler whose counter of works is raised before the work is
  there; a `recv` that returns -1 into a 16-bit unsigned sum of lengths, or 0 for ever;
  a loop over addresses that does not stop at the first success; lines that
  arrive in the same `recv` or apart.
* **Python miner.** A flag that is raised, looked at and cleared by two threads;
  a drain while another thread fills the queue; acknowledgements on a line two
  threads write to; the current job replaced under a worker that is about to
  send a result for it; a thread that dies with the lock; an exception swallowed with
  the lock held.
* **Production test.** A vector is stored before it is known whether it is kept;
  nothing is cleared between vectors.

What makes each component correct:

* Manager: a block offered is the block written; none is discarded; every wait
  request ends.
* Cores and interface: one digest per block, in order, on the right channel;
  digests neither collide nor overrun the register map.
* Fabric as a whole: the abstract engine of `HashEngine`.
* Data path: the digest is that of FIPS 180-4, whenever a block is loaded and
  whatever a reset interrupted.
* Register map: a read returns one value the register held during the transfer.
* Client: only subscribed connections are listened to; a published work is all
  of one session; a lost connection is replaced.
* Scheduler: the queue keeps what is pushed; only complete works are staged.
* Python miner: the worker gives up on a dead board only; a drain leaves next to
  nothing of the old block; results go to the pool the job came from; the board's
  lock comes back.
* Production test: the table holds the vectors that fit, in order; a prepared
  block is its message with the standard's padding.

`PROJECT.json` lists the hazards line by line with the property aimed at each.

## 2. Modules

### 2.1 The hashing fabric

| Module | Models | Correspondence |
|---|---|---|
| `FabricBus` | constants and bus values | `NUM_CORES`, `NUM_PACKETS`, `LAST_ROUND` (64, the value of `CalcCounter` at which the digest is out); blocks, commands |
| `Manager` | `manager.vhd` | `Prepare` is the PREPARING arm; `Offer` and `Release` are the two branches of DISPATCHING; `MgrReset` the reset that ends the process |
| `Core` | `core.vhd` | `core[c]` is the record of core c's registers; `Accept`, `Load`, `Round`, `FillHash`, `Publish` are the arms of its state machine |
| `CoreInterface` | `core_interface.vhd` | `ReadyAfter` is the input part; `Forward`, `Hold`, `Acknowledge` are the output part |
| `RegisterMap` | `register_map.vhd` | `Store`, `EndStore`, `NoStore` are the write side; `StartRead`, `EndRead`, `IdleRead` the read side |
| `Fabric` | the wiring; all properties | `Edge` conjoins the components: one step is one clock edge; `ResetEdge` is an edge with reset asserted |
| `FabricMaster` | the fabric with a master that keeps Avalon's rule on wait requests | `Drive` holds a write while the wait request is up |
| `FabricReader` | the fabric with resets and a master that reads | the byte reads of `FPGA_Drv_Bkgnd`, one transfer each; `held` remembers what the register has held during the transfer |
| `HashEngine` | the abstract specification | per core: packets gathered, digests owed (oldest first), result register |
| `Sha256Words` | the functions and tables of `core.vhd` on 32-bit words | a word is a pair of 16-bit halves |
| `CoreDatapath` | the data registers of `core.vhd` | `LoadPath`, `RoundPath`, `FillPath` are the three parts of CALCULATING |
| `NaturalFacts`, `FabricProofs`, `EngineProofs`, `ResetProofs`, `DatapathProofs` | theorems | section 6 |
| `MCFabric`, `MCFabricMaster`, `MCFabricReader`, `MCDatapath` | TLC instances | |

VHDL signals take their new value at the end of the process, and the last
assignment wins. Every operator therefore reads unprimed variables only, and an
assignment that overrides another appears as the later case (`Acknowledge` over
`Forward`, the reset over everything).

In `Core` the registers of the data path are represented by the block they were
loaded from, and the digest is the constant operator `Digest`, of which nothing
is assumed; in `MCFabric` it is injective, so that a digest tells which block it
came from. `CoreDatapath` has those registers, word by word, beside the ones of
`Core`, and shows that what stands in `hash` is `Digest(block)` with `Digest` the
standard's: the message schedule and working variables are constants that satisfy
the recurrences of FIPS 180-4 (`DatapathAssumption`), in `MCDatapath` those very
recurrences computed.

The reset is modelled as the code has it: a register with no reset value keeps
what the body of the process just assigned to it. This matters for `core.vhd`.

### 2.2 The miner program

| Module | Models | Correspondence |
|---|---|---|
| `MiningWork` | `stSCHEDULER_Work_t` | a work is three groups of members: extranonce, difficulty, job |
| `StratumPool` | the pool and the TCP connection (external) | what may be in flight; closing, breaking |
| `StratumClient` | the connection thread, `STRATUM.c` with `JSON_ser.c` | one action per access to shared memory or call on the socket |
| `Scheduler` | `SCHEDULER.c` | `Reserve`, `CopyField`, `MarkTaken` are the parts of `SCHEDULER_PushWork`; `Select`, `Stage`, `Wait` the arms of `SCHEDULER_Bkgnd` |
| `Miner` | the two threads together; all properties | `Client`, `Main`, `Pool` |
| `MinerProofs` | theorems | section 6 |

Decisions of the model:

* **Atomicity.** The shared memory is `stCurrentWork` and `bWorkReady`. Each
  access to a group of members is a step of its own, on both sides; the
  `memcpy` copies the groups in any order. Steps of a thread on data of its own
  are merged with an adjacent shared step (`SCHEDULER_Bkgnd` with the poll or
  with the clearing of the flag).
* **The wire.** A `recv` returns any number of whole lines (`RxLines`), perhaps with
  the first part of another, or a part of a line alone (`RxPart`). `RxPool` then
  receives the rest over that part, because it always receives to the start of its
  buffer: what is left is a `Fragment`, which is no JSON; json-c's array accessors
  then dereference NULL, and the process ends (`Die`). Between the two `recv` calls
  the pool and the other thread go on. `partial` says that a part is all the current
  call of `RxPool` has received: its sum of lengths is not 0.
* **A break.** The link is "reset" until a call is told of it, by `recv` with -1, and
  "down" from then on: `recv` returns 0. -1 makes the 16-bit sum 65535, which ends the
  loop of `RxPool`, unless a part was received: then the sum is one less than the
  length of that part, and the loop goes on (`RxError`).
* **The pool.** It answers what it is asked, announces a difficulty before the
  first job as Stratum pools do, and may close or lose the connection at any
  time (it has closed when the end can be received, behind all its lines). It is under
  no fairness: it may fall silent. It does not refuse a subscription; of an
  authorisation the client does not look at the answer.
* **`connected`** is a history variable: which addresses one call of `Connect`
  has connected to.
* **`spin`** is the place of a thread in a loop that it never leaves: the
  sending loops after a failing `send`, and `RxPool` on a connection that was closed,
  or that broke with a part of a line received.

### 2.3 The Python miner

| Module | Models | Correspondence |
|---|---|---|
| `SerialFpga` | the board at the other end of the line (external) | takes jobs, acknowledges each, finds, exhausts, fails |
| `GetworkMiner` | `miner.py`; all properties | `GetterStep(p)` is `getwork`, `PollerStep(p)` is `longpollingworker`, `WorkerStep` is `worker` with `mine` and `writejob`, `Watch` the main loop |
| `GetworkProofs` | theorems | section 6 |
| `MCGetworkMiner` | TLC instance | |

A step is what a thread does up to its next access to something another thread
writes; what is done under `fpgalock` and seen by nobody else is one step. What
a server sends is a job nobody holds; its name is used again when the last holder
is gone. `injected` and `outdated` are history variables: which jobs reached the
board by a long poll or were accepted at the acknowledgement of one that did, and
which waiting jobs are older than the last one.

An access to the board may raise an exception (`LineError`). A long poll's write
(`InjectFails`) is under the bare `except` of `longpollingworker`, which goes back to
polling with `fpgalock` held; `fpgalock` is an `RLock`, so the same thread acquires it
again, and a later release of that thread does not free it. Nothing catches an
exception of the worker (`MineFails`, `ReadFails`): its thread ends, with the lock
unless it was mining, and no exit code is set. `leaked` says that the lock was left so.
What a write that fails has put on the line is lost.

### 2.4 The production test

| Module | Models | Correspondence |
|---|---|---|
| `Hex` | `hex.c` | a digit is a pair of its message and its place; a byte is two nibbles |
| `TestVectors` | `test_vectors.c`; all properties | `ReadVector`, `EndOfFile` are `TEST_VECTORS_Init` with `GetData`; `Prepare` is a turn of the loop of `PrepareVectors` |
| `VectorProofs` | theorems | section 6 |
| `MCTestVectors` | TLC instance | |

The table has one entry more than it has, and the working block one byte, so
that what the code writes behind them is somewhere. The conversion of characters
is modelled as it is done in place: converting the NUL behind a string, or what
a longer string left there, is part of it.

### 2.5 Variants

Most modules also hold, next to some definitions, a faulty variant (a guard
dropped, an off-by-one, a reset left out), marked as a mutant or a plausible
slip. The specifications do not use them. Put in the place of the definition they
precede, each makes TLC report the property `PROJECT.json` pairs it with: evidence
that the property can fail.

## 3. Runs

| Run | Configuration | Question | Answer |
|---|---|---|---|
| `fabric` | `MCFabric.cfg`, 2 cores, 2 packet values, 6 rounds | Do digests ever meet or overrun, does a queue get lost, is the block stable until it is read? Does the fabric implement `HashEngine`, do wait requests end and digests arrive, and after how many clocks? | holds (about 193,000 states) |
| `reset` | `MCFabricReset.cfg`, the same with resets and reads | Are digests of data written after a reset safe, whatever it interrupted? Are reads atomic? | holds (about 234,000 states) |
| `sha` | `MCDatapath.cfg`, one core, 64 rounds, 3 blocks | Do the pipelined registers compute the standard's compression? | holds (about 3,800 states) |
| `master` | `MCFabricMaster.cfg` | Is every write that completed stored? | violated |
| `miner` | `Miner.cfg`, 3 sessions, 2 addresses, queue of 2 | What does the unlocked hand-over guarantee? From which breaks does the thread recover? | holds (about 497,000 states) |
| `coherent` | `MinerCoherent.cfg` | Is a queued work of one session? | violated |
| `difficulty` | `MinerDifficulty.cfg` | Is the announced difficulty kept? | violated |
| `address` | `MinerAddress.cfg` | Does `Connect` stay with the first address that accepts? | violated |
| `close` | `MinerClose.cfg` | Does the client reconnect when the pool closes? | violated |
| `getwork` | `MCGetworkMiner.cfg`, 1 pool, queue of 2, 3 jobs | What do flag, drain, lock and acknowledgements of the Python miner guarantee, and when is the lock not given back? | holds (about 585,000 states) |
| `vectors` | `MCTestVectors.cfg`, 2 files of up to 2 and 3 vectors, table of 3 | Which vectors are kept, and what of one shows in the block of another? | holds (about 37,000 states) |
| `padding` | `MCTestPadding.cfg`, files in the standard's order | Is a prepared block padded as the standard has it? | violated |

### 3.1 What holds

*Fabric.* `NoCollision`, `NoOverrun` and `NoQueueDiscarded` say that the three
places where the VHDL lets one value override another are never reached with
two values. `StableCapture` says that reading the
block one clock late is safe.
`EngineRefinement` is the end-to-end statement: with `owed` mapped to what is in
the queue, on the bus, in the core and at the register map's port, every clock
edge is a step of `HashEngine` or a stutter. `DispatchEnds` and
`DigestsDelivered` are the liveness counterparts, and `Deadlines`, `DispatchOnTime` and
`DigestsOnTime` say to the clock when a wait request ends and a digest is stored, and
how long that is at most (62 and 132 clocks with the code's constants): neither the
other cores nor reads delay either. `GenuineDigestsSafe` is what
remains of the safety properties when resets occur: a core that goes on after a
reset publishes a digest of the cleared bus, but never disturbs a real one.
`ReadsAtomic` says that what the processor samples is one value the register held
during the two clocks of the transfer, a reset or a new digest in between or not.
A digest read in 32 bytes may still be mixed of two, the older one in front.

*Data path.* `PipelineInv` says at which clock which register holds which word of
the schedule, which working variable and which sum; `DigestRegisters` that the
digest published is that of the block loaded, also after a reset that caught
the core in the middle of another one. `KnownAnswer` is the standard's own example:
it checks the tables and functions, which the other two take as they are.

*Program.* The main thread may copy a work while the connection thread changes
it, and yet: the queue is always a prefix of complete works plus the one being
copied (`QueuePrefix`), works queued are never changed (`TakenSlotsKept`), the
slot staged is always one that holds a job (`StagedIsQueued`), although the
scheduler ignores the result of `SelectWork`. While the thread is in PUBLISHING
the work on offer is of one session (`ReadyWorkCoherent`); it is the
reconnection after that which can tear it. A connection listened to has been
sent both requests and is the only one of its call of `Connect`
(`ListeningSubscribed`): with a second address connected the thread waits for
ever for an answer to a subscription it did not send. Once a work was published the
FPGA gets one, through flag, queue and scheduler, though no second may ever come
(`WorkReachesFabric`); it may be another than the one published, since a job written
between copy and clearing of the flag is lost. A
connection that breaks is replaced (`ResetReconnects`): the unsigned length that
makes the test for -1 dead code is large enough to end the loop. The exception is a
break when a part of a line is all that was received: the sum of the lengths hides
the -1, and the thread is in `RxPool` for good (`MidLineBreakHangs`). `DeathCauses`
lists what the process can die of: a line that came cut, a connection lost before
the reply, and while it listens a difficulty or the answer to the authorisation
received before a job. The last takes no fault of the pool: any reception counts as
the answer to the authorisation, so a pool in perfect order that sends its answer
after its first difficulty, or the two apart, ends the process. But no subscription
reply is ever taken for a job, nor another line for the reply, however the lines arrive.

*Python miner.* The worker reads the first acknowledgement it finds, and a long
poll leaves one of its own on the line: the worker still gives up only when the board
has failed (`DiesOnlyOfFpga`). A drain ends although the queue is being filled
(`DrainEnds`), and leaves at most one outdated job while the flag is up
(`AtMostOneOutdated`). A result is credited to the wrong job only if a long poll has
put a job on the board behind the worker's back, or the worker took the
acknowledgement of such a job for that of its own (`MiscreditNeedsInjection`); that
it is then is a hazard of the code, which its comments do not deny. The lock is
returned, or the script ends, or an exception has left it with a thread for good
(`LockReleased`): the script then goes on, but its worker never gets another job on
the board.

*Production test.* The table holds the first vectors that are short enough, in
order, though each is stored before it is looked at (`KeptInOrder`); a prepared
block begins with its own message and the mark (`PreparedMessage`); and if the byte file
is in ascending order and no bit vector is too long, nothing of an earlier vector is left between mark and length
(`CleanFill`): that order is what saves the working block from being cleared.

### 3.2 What does not hold

Six statements in comments of the code are contradicted by what it does. Each
has a run with the one property, and an entry under "findings":

1. `master`: a write to a full queue in the clock in which it is handed over
   completes and is dropped (`manager.vhd:98`). A master that sends the four
   packets of a block and then waits for the digest never does this; one that
   sends the next block to the same core back to back does.
2. `coherent`: a queued work can pair a job with the extranonce of the next
   session (`STRATUM.c:342`).
3. `difficulty`: a difficulty received in a `recv` of its own is dropped, and
   the work is queued with difficulty 0 (`JSON_ser.c:182`).
4. `address`: `Connect` goes on to the next address after a success
   (`STRATUM.c:504`).
5. `close`: the thread spins when the pool ends the connection (`STRATUM.c:712`); so
   it does after a break in the middle of a line (`MidLineBreakHangs`).
6. `padding`: the length is stored lowest byte first at byte 56, and digits of a
   rejected longer vector stand behind the mark of a shorter one
   (`test_vectors.c:449`).

## 4. Bounds, and why they are enough

* **Cores.** With 2 cores every interleaving of two blocks occurs. The proofs cover
  any number.
* **Packets.** 2 packets make a block, so that a queue can be empty, half full and full.
* **Rounds.** `LAST_ROUND = 6` (7 in the runs with resets) is longer than one handshake, so a second block is
  taken while the first is computed; with the spacing of five edges, both cores
  work at once.
* **Writes.** Every packet value to every core, a write to an address without a
  core, a write with some byte disabled, and no write. `reset` has one packet and
  leaves out the write with a disabled byte, which acts like none.
* **Reads** (`reset`). A register, an address without one, and none. In the other runs
  of the fabric nobody reads: the read side has no effect on the rest.
* **Data path.** One core, since a core's registers depend on its own block only;
  the blocks "abc", zeroes, and one with a bit in most places; offered at any
  distance, with resets at any clock.
* **Sessions (3), addresses (2), jobs (1 per session), wire (2 lines), queue (2).**
  The queue fills and a third work is dropped; a session is lost and replaced
  twice; both lines of interest fit on the wire together or apart. `MaxSessions`
  is a bound of the pool (it accepts no more connections), not of the client.
* `iteration` is `dwWorkIterationCounter`, a 16-bit counter, and is never
  more than 1 because the scheduler never leaves COMPUTING.
* **Python miner.** One pool with a queue of 2 and 3 jobs: the queue fills, a drain
  meets a full queue, a job in hand and an injected one. (An instance with two
  pools, queues of one and three jobs, of 3.75 million states, was checked once
  for the same invariants; the proofs cover any number of pools, jobs and places.)
  `MaxOut = 2` bounds the results of the board nobody has read; with 1 a share could
  not be found behind an exhausted job whose acknowledgement is still unread, and
  the worker never takes one acknowledgement after another for the wrong one. A long poll is answered
  only when the line to the board is empty, a job is exhausted only then, and the
  job interval ends only when all answers have been read: it is half a second or
  more, the line takes a thousandth of that. The two clocks are looked at in one place
  each (`mine`, `group`), and strike when a thread is there.
* **Failures** (`getwork`). `BothFail = FALSE`: either the board fails or an access to it
  raises an exception; the theorems are for both together as well.
* **Test vectors.** A table of 3 instead of 512, so that either file fills it; the
  lengths at which something changes (empty, one byte, around 256 and 448 bits, 512).

The configurations of the Stratum miner have `CHECK_DEADLOCK FALSE`: the process can die,
and then nothing moves.

## 5. Fairness

* **Fabric**: weak fairness of `Tick`. It says that the clock runs. Which
  commands the masters issue is left open, so the properties hold for a master
  that falls silent too.
* **Miner**: weak fairness of `Client` and of `Main`. Each is the next step of a
  POSIX thread that is never blocked by the other (there is no lock), and the
  operating system runs every runnable thread. A thread inside `recv` with
  nothing to receive has no step enabled, so nothing is asked of the pool.
* **Python miner**: weak fairness of the steps of the long poll that wait for nobody
  outside (draining, writing its job), of the worker, of the main thread's look at the
  exit code, and of the board taking what it is sent. Python runs every thread, so more
  could be assumed: that the fetching thread goes on and that the clocks of job interval
  and grace time do not stop. Neither property needs it: a drain ends and the lock
  comes back even then. A fetch and a long poll may never be
  answered; the board need not find anything; an access need not raise an exception. The main thread can always look, so
  TLC's deadlock check says little here; threads that wait for each other would
  violate `LockReleased` or `DrainEnds`.

## 6. Proofs

### 6.1 The fabric without resets

`FabricProofs` proves, for every number of cores and of packets per block, for
every `LAST_ROUND >= 4` and every set of write and read commands
(`FabricAssumption`, `CommandAssumption`):

| Theorem | Statement |
|---|---|
| `FabricInvariant` | `Spec => []FabricInv` |
| `TypeCorrect` | `Spec => []TypeOK` |
| `DigestsNeverCollide` | `Spec => []NoCollision` |
| `DigestsNeverOverrun` | `Spec => []NoOverrun` |
| `QueuesNeverDiscarded` | `Spec => []NoQueueDiscarded` |
| `BlocksReadStable` | `Spec => []StableCapture` |

None of these is inductive by itself: that two cores do not publish together
says nothing about two cores in mid-calculation. `FabricInv` counts clock edges.
`Age(c)` is the number of edges since core c accepted its block:

* `CoreFlags`: the flags of a core are functions of state and age;
* `Handshake`: where the four phases of the handshake can be;
* `Phases`: how old every busy core must at least be in each phase;
* `Spacing`: two busy cores are at least five edges apart;
* `ResultPath`: while a digest is on its way to the register map (three edges),
  every busy core is further than that from its own digest;
* `BusInv`: the bus carries the block of the queue on offer, hence `StableCapture`;
* `ChannelInv`: a digest travels on the channel of its core;
* `QueueInv`: only queues with a core fill, and only one is full at a time,
  because the manager accepts one write per clock and none while it dispatches.

The handshake needs five edges from one acceptance to the next, so `Phases`
gives `Spacing` for a new block; all ages grow by one per edge, so `Spacing` is
kept; a digest needs only three edges, so `Spacing` gives `ResultPath`, and with it
`NoCollision` and `NoOverrun`. There is one lemma per conjunct, resting on
`CoreArms` (the next registers of a core, by cases) and `AgeStep` (how ages move).

The assumption `LAST_ROUND >= 4` is as weak as the argument allows: a core must be
busy for as long as the handshake that gave it its block. The code has 64.

`FabricInv` has one more conjunct, `PaceInv`, for what section 6.3 says of deadlines. The
counts of `Phases` are lower bounds on ages and know nothing of packets; how long a
master waits depends on how early a core's next block can be complete, which is a
packet per clock after the last one was handed over.

### 6.2 The fabric implements the engine

`EngineProofs` proves `FabricImplementsEngine == Spec => EngineRefinement`, under the
same assumptions. A digest is owed in one of four places: the port of the register
map, the core, the bus, the queue. Under `FabricInv` every clock edge moves it from
one to the next or leaves it, and there is a lemma for each component saying so
(`CoreMoves`, `PortMoves`, `ManagerMoves`, `PrepareMoves`). `Owed` is the concatenation of the
four, so what moves from the end of one to the front of the next leaves it alone,
and each edge is a step of `HashEngine` or a stutter.

### 6.3 Deadlines

`WaitLeft` is the number of clock edges until the wait request ends, and `DigestLeft(c)`
until the oldest digest of core c is in its register. Both are read off the state
(phase of the handshake, age of the core in the way). `EngineProofs` proves, under
the same assumptions:

| Theorem | Statement |
|---|---|
| `DispatchIsOnTime` | `Spec => DispatchOnTime`: each edge brings the end of a wait nearer by one |
| `DigestsAreOnTime` | `Spec => DigestsOnTime`: each edge brings a digest nearer by one; at the last one the register takes that digest, and before it the register does not change |
| `DeadlinesHold` | `Spec => []Deadlines`: `WaitLeft` is at most `LAST_ROUND + 2 - NUM_PACKETS` and `DigestLeft` at most `2 * LAST_ROUND + 8 - NUM_PACKETS` (or 4 and `LAST_ROUND + 10`, if that is more); no core owes more than two digests |

With 64 rounds and four packets that is 62 and 132 clocks. The bounds are attained: in
the instance of the `fabric` run TLC finds states with 6 and 18, and with two
digests owed. What `DispatchEnds` and `DigestsDelivered` add is only that the clock runs.

### 6.4 The fabric with resets

`ResetProofs` proves `ResetSpec => []ResetInv` and from it `[]GenuineDigestsSafe`; and
`ReaderSpec => []ReadsAtomic`, with `ReaderSpec => ResetSpec` so that all of it holds
where TLC checks it.

`FabricInv` does not survive a reset: `core.vhd` clears the round counter and not the
state, so several cores start over at once, publish at once, and collide.
`ResetInv` follows the *genuine* blocks instead, those offered since the reset. After
a reset the manager needs a clock to see a full queue again, one to offer it and one
for a core to take it, so the cores that were caught are three rounds ahead at
least (`ResetPhases`) and four edges away from every genuine block
(`GenuineSpacing`); the cores caught together may meet, but no genuine digest meets
anything (`GenuinePath`). `ResetFlags` says that a core that starts over answers no
offer and finds the bus cleared.

### 6.5 The data path

`DatapathProofs` proves `PipelineInv` and `DigestRegisters` for every number of cores,
any blocks and any timing of offers and resets. `DatapathAssumption` fixes the width of
a block and the 64 rounds, and says that `Schedule` and `Working` satisfy the
standard's recurrences. The invariant is that the window, the slots and the sums are
those of the round the counter is at. That the functions and tables themselves are
the standard's is not proved: `KnownAnswer` checks it.

### 6.6 The miner program

`MinerProofs` proves `Spec => []MinerInv` and from it `TypeOK`, `QueuePrefix`, `StagedIsQueued`,
`ReadyWorkCoherent`, `ListeningSubscribed`, `DeathCauses` and the action property
`TakenSlotsKept`, for any number of sessions, jobs, addresses, slots of the queue and
lines on the wire (`WorkAssumption`, `NoJobAssumption`, `WireAssumption`, `AddressAssumption`,
`QueueAssumption`). `MinerInv` says what a place of the connection thread implies:
which session the lines on the wire and in the buffer are of, who may know of a part
of a line or of a break (`PartialInv`), what `Connect` and
`Authenticate` have found when they go on, what `stCurrentWork` then holds, and which
replies can still be on the way (`ReplyInv`, behind `DeathCauses`); and of the main
thread, which slots hold a job (`QueueInv`).

Worth a theorem of their own are:

* `HangsOnlyDisconnected == Spec => []SpinInv`. The unsigned length makes the checks for -1
  in `Send` and `Recv` dead code, so a failed call is repeated. The thread hangs in
  such a loop only when the connection is gone, and while it listens only when the
  pool ended it in order or it broke between the parts of a line: no failure on a
  live connection is repeated for ever.
* `MidLineBreakIsFinal == Spec => MidLineBreakHangs`. In the last of these cases no step
  of a thread or of the pool leads out again.
* `TornOnlyByReconnection == Spec => [](sessions <= 1 => QueuedWorkCoherent)`. What run `coherent`
  refutes is true until the pool accepts a second connection. `SessionInv` is what
  carries it: whatever the client has kept is of a session that has begun.

The safety part of the two liveness properties is proved with a count of the steps
left: `TakeLeft` (5 at most) and `StageLeft` (11) for `WorkReachesFabric`, until the work
is taken and from there until one is staged, and `ReconnectLeft` (5) for
`ResetReconnects`. The theorems `WorkTakenOnTime`, `FirstWorkStagedOnTime` and
`BrokenReplacedOnTime` say that every step of the thread in question lessens its count
and that no step of the other thread, nor of the pool, increases it. `StageLeft` is 0
exactly when the work is staged, and `ReconnectLeft` exactly when the connection is
not a broken one, or broke with a part of a line as all that was received.

### 6.7 The Python miner

`GetworkProofs` proves `Spec => []ThreadsInv`, and from it `TypeOK`, `DiesOnlyOfFpga`,
`AtMostOneOutdated` and `MiscreditNeedsInjection`, for any number of pools, jobs and places of a queue
(`PoolAssumption`, `SerialAssumption`). Its parts: which thread holds a job where
(`PlacesInv`), of its own pool (`OwnerInv`); an acknowledgement is on its way to a worker
that waits for one (`AckComing`); what a drain leaves, and that the fetching thread
then has nothing more of the old block in hand (`DrainInv`).

That a result is credited to the job it was found for is a property of the whole
line, of which the worker sees one answer at a time. The parts behind it:

* `BoardInv`: the job the board is at, and the one of every share on the line, is
  that of the last acknowledgement before it, or the current one if that
  acknowledgement has been read;
* `LineInv`: only a long poll leaves an acknowledgement on the line, except the one
  the worker has the lock for, which is the last;
* `LockInv`: who waits for an acknowledgement or has just injected a job holds the
  lock, so that nobody else writes meanwhile;
* `CreditInv`: what was read at `mine` stays right until the credit is given.

Three more theorems, the first two from `HolderInv`, who holds the lock at which place:

* `LockHolderRuns`: unless an exception has left it the lock, nobody who holds it waits
  for it, for a queue or for a server. A long poll
  has only its assignments left; the worker has an answer to read or to pass on, or
  the board one to send, or the line is silent and it gives up. So the threads never
  wait for each other in a circle.
* `LeakEndsMining`: once an exception has left the lock to a thread, it keeps it for good;
  the worker writes no job any more, nor does the long poll of another pool.
* `DrainEndsOnTime`: a drain ends after `2 * Buffer + 5` steps of its own thread at most,
  however the fetching thread fills the queue meanwhile. `DrainLeft` counts what is in
  the queue and the job the fetching thread is about to put, while the flag is up:
  what it fetches then it drops. Once the flag is cleared two steps are left at most.

The proof did not go through at first. A worker that reads the acknowledgement of an
injected job while it waits for its own is one acknowledgement behind from then on,
and two jobs later a share of one is credited to the other, neither of them
injected. The instance with `MaxOut = 1` is too small to show it; with 2 TLC finds it.
The property means such a job as well, so `injected` now records it.

### 6.8 The production test

`VectorProofs` proves `Spec => []VectorsInv`, and from it `KeptInOrder`, `PreparedMessage`
and `CleanFill`, for a table of any length and any two files (`TableAssumption`,
`FileAssumption`: messages of up to 512 bits). `Rank(n)` counts the short ones of
the first n vectors; a vector is written at the rank of those before it, so what is
kept stays and what is overwritten was too long. `PreparedMessage` needs that every
digit of an entry is one (`DigitsInv`): only then does the conversion in place set both
halves of a byte. `CleanFill` needs the most:

* `ClearInv`: entries not reached, and the working block while files are read, are
  clear; the lengths of byte entries come from the file;
* `StringsInv`: an entry that is not clear when it is written holds a vector that was
  too long, and in ascending order none that is kept comes after it; so the strings
  of kept entries are clear behind their digits, and entries of bytes ascend;
* `WorkingInv`: the working block is clear behind the message of every entry still to
  be prepared, because those are not shorter than the ones prepared.

## 7. What is only model-checked

All liveness (TLAPS does not reason about ENABLED, hence not about fairness). Of
wait requests, digests, works on their way to the fabric, broken connections and
drains it is proved in how many steps each comes to its end, so that what is left to
TLC there is that the clock or the thread takes these steps (section 5). Of the
lock it is proved that whoever holds it can go on, or that it is lost for good.
The step counts of the two miners are stated in the proof modules and checked by no
run: their theorems stand alone. Also only model-checked is
that the tables and functions of `core.vhd` are the standard's (`KnownAnswer`): the
digest of a message is the result of a recursion of 64 rounds over 32-bit words,
which TLC evaluates and the provers cannot. The statements the code contradicts
have counterexamples.

## 8. What is not modelled

* The text of the JSON messages, the number of merkle branches, nonces, coinbase and
  target of a work.
* A name resolution that fails (Connect returns and is called again), the
  configuration files and the SIGINT handler, which ends the process.
* FPGA driver: memory mapping and printing.
* Production test: finding the names of the two files (`TEST_VECTORS_Setup`) and the
  display. Its background task is empty in the code.
* Python miner: the upload of a result with its retries, the list of servers of a
  pool, the statistics and the display. Of exceptions, those of accesses to the board
  are modelled; one of the display, of a malformed answer of a server after its
  header, or of a nonce cut by a silent board is not.
* `SEG7.vhd`, the LCD, seven-segment and button drivers (register writes and drawing;
  the latter two drivers are copies of the first) and `UI_mgr.c` (its calls are commented
  out): no part in mining.
* Demonstrations, test benches, json-c, U-Boot, vendor headers and generated blocks:
  nearly all of the repository's lines, and none of the program's own logic.

## 9. Plan

Done, in the order of what the miner is worth nothing without: the fabric, its data
path, the hand-over of works, the Python miner, the production test. What is left:

1. The JSON messages in more detail: the number of merkle branches at its limit,
   where the code writes one too many.
2. The upload thread of `miner.py` and the list of a pool's servers.
3. `SEG7.vhd`, whose loop reads a signal it has just assigned, and Bresenham's line of
   the LCD graphics.

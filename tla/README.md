# Verification of the NDAS driver for Mac OS X

TLA+ models of the program, the TLC configurations that check them and TLAPS
proofs. The repository holds several copies of it. The transport (`netlpx`) is
modelled from `src/branches/1.8.4/Sources`, its newest copy, and paths of
`netlpx` are relative to that. Disk arrays are modelled from
`src/trunk/Sources`: in 1.8.3 and 1.8.4 the calls that create an array are
commented out, in trunk they are not. Paths of `NDASFamily` in sections 2 to 6
are relative to that.

NDAS attaches disks to an Ethernet segment. The program is a kernel extension
that speaks LPX, the disks' own transport protocol (`netlpx`), a family of
I/O Kit drivers that turns the disks into SCSI devices and disk arrays
(`NDASFamily`), a user-space daemon that keeps the registrations
(`NDASService`), and its front ends.

## 1. Inventory

| part | state | operations | interacts with |
|---|---|---|---|
| LPX stream (`lpx_stream.c`, `lpx_stream_timer.c`) | `stream_pcb`: state, five sequence pointers, four timers, reorder queue, flags; the socket's two buffers | socket calls (`connect`, `send`, `shutdown`, `close` ...), `lpx_stream_input`, `lpx_stream_slowtimo` twice a second | the kernel's sockets (upcalls, reference counts, domain mutex), the interface below |
| LPX control blocks (`lpx_pcb.c`) | list of `lpxpcb`, next free port | alloc, bind, connect, detach, dispense, lookup | streams, datagrams |
| LPX datagrams (`lpx_datagram.c`) | fragments waiting to be completed | send, input, expiry | daemon's heartbeats |
| LPX interface (`lpx_base.c`, `lpx_if.c`) | attached interfaces | framing, demultiplexing, input thread | streams, datagrams |
| LanScsi library (`lspx/lsp.c`, `lsp_wrapper.c`) | session: login phase, tags, request in progress | login, negotiation, SCSI and ATA requests | a stream socket |
| NDAS device (`NDASDevice.cpp`, `NDASDeviceController.cpp`) | status, sessions, command in progress, reconnect time | plug and play packets, management commands, requests and retries | LanScsi library, unit devices, bus enumerator |
| unit devices (`NDASUnitDevice.cpp`, `NDASPhysicalUnitDevice.cpp`) | configuration, status, DIB and RMD read from the disk | notifications, requests | NDAS device, RAID or logical device |
| RAID unit (`NDASRAIDUnitDevice*.cpp`) | status of the array and of each member, written history, dirty bitmap, recovery position | reads, mirror writes, completion, status update, recovery, spare | two or more unit devices |
| logical device, disk array controller, SCSI transport | mount configuration, queue of tasks | mount, unmount, tasks | unit device below, Apple's SCSI family above |
| bus enumerator (`NDASBusEnumerator*.cpp`) | registry of NDAS, unit and logical devices | register, enable, bind, notifications | all devices, daemon |
| daemon (`NDASService`) | registrations kept in preferences | heartbeats, user requests | bus enumerator |
| `ndastool`, NDAS Utility, Uninstaller | none of their own | front ends | daemon |

What is hard in it:

- **Concurrency.** Network input, timers and socket calls meet in one control
  block under the domain mutex, which three places release half-way
  (`sock_inject_data_in`, `sock_retain`, `sock_release`). Every driver above
  has a worker thread with a command queue.
- **The network.** Packets are lost, repeated and reordered; sequence numbers
  have 16 bits and wrap.
- **Lifetimes.** The block and its socket die separately, the block in
  `lpx_stream_slowtimo` up to half a second after it was given up.
- **Time.** Retransmission, keep-alive and 2MSL end things that nobody else
  would end.
- **Failure of one of several disks**, with a bitmap of what it missed.

What makes each part correct:

- stream, data phase: an ordered, reliable stream in spite of the network;
  either the record arrives or the connection is dropped, at both ends;
- stream, connection: every socket call ends; the block is freed, once, after
  the socket can no longer reach it; references are given back;
- RAID unit: a read returns the last completed write; a member is declared
  good only when it holds everything; recovery ends;
- devices: a request is completed exactly once, also across a reconnection;
- bus enumerator: what it publishes corresponds to a device that exists.

`PROJECT.json` lists the components and, under `hazards`, what is hard to
test, line by line.

## 2. Modules

| module | what it is |
|---|---|
| `LpxSeq` | 16-bit sequence numbers: `SSEQ_LT`, and comparisons the code writes out |
| `ReliableStream` | abstract: an ordered stream with a bounded lead, that may be dropped |
| `LpxStream` | the data phase, both ends and the network |
| `LpxStreamProofs` | its inductive invariant, safety theorems and refinement |
| `MCLpxStream` | instances of `LpxStream`, and the start close to the wrap |
| `LpxConnection` | life of a control block: connect, close, timers, freeing |
| `LpxConnectionProofs` | its inductive invariant and safety theorems |
| `MCLpxConnection` | the timer values of `lpx_stream_timer.h` |
| `AtomicDisk` | abstract: one disk, one request at a time |
| `NDASUnit` | one disk of an array and the thread that serves it, as functions |
| `RaidMirror` | a mirror of two such disks, its worker, the bus enumerator, the host |
| `RaidMirrorProofs` | its inductive invariant, type correctness, expected answers |
| `RaidMirrorPhaseProofs` | the phases a mirror goes through, and what each handler does in them |
| `RaidMirrorCountProofs` | every step keeps the phases; the counter of commands is exact |
| `RaidMirrorDataProofs` | where the disks may differ in each phase; a recovery ends with them equal |
| `RaidMirrorDiskProofs` | every step of the mirror is one of `AtomicDisk`, or one the host does not see |
| `MCRaidMirror` | `RaidMirror` for TLC |

### LpxStream

One direction of an established connection: `snd` is the end whose user
writes, `rcv` the end whose user reads. Records are numbered with naturals;
every comparison goes through `LpxSeq`, which sees 16 bits of them only.

| state | code |
|---|---|
| `snd_head .. s_seq-1` | records in `so_snd` |
| `s_snxt`, `s_rack`, `s_smax`, `s_ack` | the fields of that name |
| `s_rexmt`, `s_rxtshift`, `s_idle` | `s_timer[SMPT_REXMT]` set or not, `s_rxtshift`, `s_idle` |
| `s_q` | reorder queue |
| `injecting`, `inputCont` | where `lpx_stream_reass` is while the mutex is free |
| `so_rcv` | what the reader's user was given |
| `toRcv`, `toSnd` | packets in the network; a set that keeps what was received, so that a packet may come again and in any order |

| action | code |
|---|---|
| `UserSend` | `lpx_stream_user_send` and the output it calls |
| `SndInput`, `RcvInput`, `InjectDone` | `lpx_stream_input`, `lpx_stream_reass` and the output that follows, cut where the mutex is released |
| `RexmtTimeout`, `SndKeepTick`, `RcvKeepTick` | `lpx_stream_timers` in `lpx_stream_slowtimo` |
| `LoseToRcv`, `LoseToSnd` | the network forgets a packet |

The retransmission timer may go off at any moment at which it runs (its value
is not counted), which includes every timing of the code. `Lifetime` states
the assumption under which 16 bits are enough: a packet is gone from the
network before the writer has used up that many more numbers, fewer than half
of the cycle less the send queue. Without it, an old packet is taken for
a new one whatever the code does. The fast timer (`lpx_stream_fasttimo`) looks
for `SF_DELACK`, which nothing sets, so it never acts.

### LpxConnection

One block as its owner sees it who opens it with `connect`
(`NDASFamily/LanScsiSocket.c`: `xi_lpx_connect`, `xi_lpx_disconnect`). `b` is
the block together with the parts of its socket that the protocol reads and
writes; the handlers are functions from block to block, in the order of the
code, so that a drop inside a timer is seen by the timers after it.
`unlocked` and `releasing` say that a handler is inside `sock_retain` or
`sock_release` with the mutex free. The peer is arbitrary, except that it does
not acknowledge a disconnect request that was never sent. Only whether a
record is unacknowledged is kept of the data phase.

What the code does with slips of its own is modelled as it is: the index one
past the end of `s_timer` (`StartClose` overwrites `s_rxtshift`), the missing
`break` in `FIN_WAIT_2` (`Transition`), the `|` that accepts every packet as
an answer to connect (`Established`), the disconnect that sends nothing until
a timer does, the null socket in `lpx_stream_input` after 2MSL
(`UsesSocket`, which sets `panic` and stops the system).

### NDASUnit and RaidMirror

A mirror of two disks (`NMT_RAID1R3`). Five threads meet in it: the worker of
the array (`NDASRAIDUnitDeviceController.cpp`), one controller thread for each
disk (`NDASDeviceController.cpp`), the bus enumerator's
(`NDASBusEnumerator.cpp`), and the host's, which has one command in progress.
They talk through command queues, but the status of the array is recomputed
(`updateRAIDStatus`) on two of them. Everything an array or a disk decides is
a function of the pair `[unit, raid]`, in the order of the code, so that a
handler that recomputes the status in its middle is one expression.

| state | code |
|---|---|
| `unit[u].status`, `.sess`, `.pend` | `Status()`, `fConnected` and whether the session still works, `fTargetPendingCommand` |
| `unit[u].queue`, `inbox` | the command queues of the disk's thread and of the worker |
| `unit[u].mem`, `.rmd`, `.map` | `fRMD`; the metadata and the bitmap on the disk |
| `unit[u].data`, `.recent` | the blocks of the disk, and which of them are in its volatile cache only, over what |
| `unit[u].fails` | the kinds of I/O of which the disk refuses the next one |
| `raid.rs`, `.status`, `.sub` | `fRAIDStatus`, `Status()`, `fSubUnitStatus` |
| `raid.dirty`, `.map`, `.history` | `fDirty`, `fDirtyBitmap`, `fWrittenLocationsList` |
| `raid.inRecovery`, `.sector` | `fInRecoveryProcess`, `fSectorOfRecovery` |
| `cmd`, `res`, `count`, `idle` | `NDASCommand()`, its `CmdData`, `fNumberOfNewBuildCommands`, `bIdle` |

| action | code |
|---|---|
| `Issue` | `processSRBCommand` of the array, below the transport |
| `WorkerSrb`, `WorkerCompleted` | `processSrbCommand`, `processSrbCompletedCommand` and what `workerThread` does after each |
| `WorkerPnp`, `WorkerNoPnp` | `processSettingCommand` and the broadcasts passed on to the array |
| `TimedOut`, `Recover` | the timed wait of the worker runs out; `recovery` |
| `UnitSrb`, `UnitPnp`, `UnitGone` | a disk's thread: `processSrbCommand`, a broadcast, no broadcast for too long |
| `BusRemoves`, `Appear` | `deleteUnitDevice`; `createUnitDevice` and `createRAIDDevice` |
| `SwitchOff`, `SwitchOn` | the disk loses power, and with it any part of its cache, and comes back |
| `Falter` | the disk is to refuse an I/O of one kind, its session kept: a medium error, or any other error of `lsp` but -3 |

What is one step: a handler of the worker with the reads and writes of sectors
it waits for (managing I/O), and a step of the bus enumerator's thread. Managing
I/O goes through the queue of the disk's thread, which may act before it gets
there. Where that was found to matter, between the look at the status in
`recovery()` and its own I/O, it is in the model: `Meanwhile` lets each disk's
thread find its disk gone, or connect it again, in between (`processNoPnPMessageFromNDAS`,
`NDASDeviceController.cpp:864`), so that a session seen up is cleared, and the
read that follows logs in, fails, and claims success over a buffer nothing was
read into. The other handlers with managing I/O (the metadata written when a
disk is lost, bits set for a degraded write) are still one step each.
`Recover` starts only when the disks have taken the commands that were queued
before it, as their queues are in order.

`AtomicDisk` is what the host may expect: a write answered in full is what
later reads return; one that failed may or may not be there, and so may
one that a disk refused, however it was answered (`spoilt`).

**I/O that a disk refuses.** An `lsp` error other than -3 fails a command with
CHECK_CONDITION and keeps the session and the status (`NDASDevice.cpp:1464`,
`1709`; `2238` for managing I/O). `fails`, `Falter` and the constants `Refusable`
and `MaxRefusals` put this into the model: `ProcessRead` and `ProcessWrite` then
answer `Failed`, `ManagingIsSuccess` is false. What the code does then:

- A write that one disk refuses leaves that disk `Good`. Nothing marks the
  block: it is in the history, and forgotten with it. If the other disk answers
  last the host is told that all of it was written, and the disk that refused
  it goes on serving the old block to reads. The properties exempt exactly this:
  `Doubtful(b)` says that a disk refused a write of one of the values block `b`
  may hold, and ends when the block is written again without one; `spoilt` of
  `AtomicDisk` is the same towards the host. A recovery does not repair such a
  block either. No text of the repository promises otherwise, so it is not a
  finding of section 5.
- A refused write takes a place in the history and none in the cache of the
  disk, which then reaches further back than the history: switched off later, the
  disk loses a write that nothing records. `Known`, a condition of `Careful` in
  `SwitchOff`, leaves that out once a write was refused.
- A read of which one half is refused is sent again, to both disks, as both are
  still `Good`. A sector that stays unreadable keeps this up for ever: the
  command is not answered. A refusal of the model is over once it happened, and
  `CommandCompletes` holds for this reason.
- In the same way the recovery tries an unreadable block of the good disk
  again for ever; a block the other disk does not take puts the blocks its cache
  may have lost back into the bitmap (`Rollback`). `MirrorRestored` again is
  about refusals that end.
- A bitmap that cannot be read when a recovery starts is taken to be empty.
  While the host runs this does no harm: the bitmap is still in memory, or the
  recovery starts once more right after its end (the numbers of the metadata
  differ by one until the next broadcast) and nothing is left to copy. After a
  restart of the host, which is not modelled, it would.
- A refused write of the metadata, or a refused read of them, is in the model
  and in the theorems of `RaidMirrorProofs`, but in no run and no other theorem (`Refusable` without `"readRMD"`, `"writeRMD"`):
  `InitAndSetBitmap` then leaves the loss of a disk unmarked, or marked on the disk
  and not in the copy in memory, so that the disk is taken for good when it is back
  and what it missed is never copied (`Recorded` and `DiskSpec` fail). The same
  at the end of a recovery leaves the position behind the last block, where no
  turn does anything any more.

**The windows kept out.** The mirror keeps its promise only as long as certain
things do not happen at certain times. With `Careful` they do not; each of its
five parts was found necessary by TLC, which breaks a property of
`raid_safety` without it:

- `Kept`: no command between the return of a disk and the start of its
  recovery (`ReadyToRecovery`). A write there is recorded nowhere and goes to
  the connected disk only: the run `raid_recovery`.
- `Quiet`: the bus enumerator removes or adds a disk while no command is in
  progress. Otherwise `completeCommand` finds no upper device, the answer is
  lost and the command never ends; or the status is recomputed on that thread
  before the worker sees it.
- `SwitchOff` only while the array is `Good`: a second loss during a recovery
  leaves `fInRecoveryProcess`, bitmap and position as they were, and the next
  recovery goes on in the middle. And only blocks of the write history are
  lost: those a recovery has just copied are in the disk's cache and not in
  the history. After a refused write the history counts as one shorter
  (`Known`, above).
- `SwitchOn` only after the array has marked the disk, and when the disk's
  thread has taken what was queued for it: after a shorter blip a
  half of a read that fails ends the command while the other half is
  outstanding, and its answer is counted for the next command; and a read still
  queued from before is executed on a disk that has come back without the writes
  it missed.
- `UnitPnp` without `late`: a disk that broadcasts connects in time.

In all these modules a definition that stands right above another one of the same
parameters, and that no action uses, is a slip the code could have in its
place (`AckedInclusive` above `Acked`). For each property one of them shows that
the property would notice.

## 3. Runs

| run | instance | shows |
|---|---|---|
| `stream_safety` | cycle of 10 numbers, queue of 2, 2 records, delayed acknowledgements | types, the retransmission timer runs exactly while it must, refinement of `ReliableStream` |
| `stream_wrap` | the same from two numbers before the wrap, 4 records | order, nothing forgotten early, reorder queue, pointers, across the wrap |
| `stream_live` | cycle of 6, queue of 1, 2 records, fairness | a record is read or the connection dropped; a half-open connection is detected |
| `conn` | the code's timer values with one tick a second (1, 1, 5, 4 and 4 ticks, 6 and 2 retries), one tick inside `sock_retain`, fairness | references, detachment before freeing, a timer always left; closed blocks are freed, dead peers noticed, connects end |
| `raid_safety` | 2 blocks, a cache of 1, 2 commands, 2 outages, 1 refusal (read, write, copy or bitmap), `Careful` | the mirror is one disk to the host, differences are recorded, answers are counted, recoveries end in sync |
| `raid_live` | the same with 1 outage, 1 refusal (read or copy), fairness | every command is answered, the mirror is restored |
| `raid_recovery` | 1 command, 1 outage, no refusal, not `Careful` | a write the recovery misses: see section 5 |
| `stream_rexmt_wrap`, `stream_stale_ack`, `conn_discon`, `conn_late`, `conn_pointer` | as above | what the code does against its comments: see section 5 |

Why the bounds are enough. Two records and a queue of two are what a stale
acknowledgement, a reordered pair and a full queue need; a third or fourth is
needed only for the wrap, which `stream_wrap` starts next to, in a state the
protocol reaches from `Init` when nothing is lost. A cycle of 10 satisfies
`Lifetime + SndLimit < Half` and is short enough to wrap. What the
proofs cover does not depend on these numbers. `conn` has no bound of
its own except `Overlap`: its timers are the code's, with the
frequency of the slow timer halved (`PR_SLOWHZ` 1 for 2), which keeps the ratios
between them.

`raid_safety` has 698,442 states, `raid_live` 79,877. Two blocks are what a read split over both
disks needs (`half > 0`), and a recovery that passes one clean and one dirty
block; a cache of 1 makes a history that forgets; two commands make a write
and the read after it, or two writes of which the first leaves the cache; two
outages let each disk be lost, or one of them again after it was restored; one
refusal meets each kind of I/O in each phase of the array. A
write is of one block. The safety properties were also checked with three
commands and one outage (1,067,070 states). `raid_live` leaves the refused write
and the refused bitmap out to stay within minutes; with only the one or only the
other it holds as well (73,331 and 92,210 states).

Deadlock is not checked: a stream whose writer has reached `MaxRecords`, or
whose two ends are closed, and a block that was freed have nothing more to do.
A mirror always has: its disks broadcast for ever.

Fairness. The kernel calls `lpx_stream_slowtimo` for ever, so timers that run
go off; a thread inside `sock_inject_data_in`, `sock_retain` or
`sock_release` gets the mutex back; a packet does not stay in the network for
ever. Nothing is assumed of what the network delivers, nor that users or peers
do anything: `ClosedIsFreed` and `DeadPeerNoticed` are about a peer that falls
silent, for one that keeps sending keeps the connection alive. For the mirror:
the worker and the disks' threads run, its timed wait runs out when no command
comes, the bus enumerator notices what has gone and come, disks that are on
broadcast every few seconds. The host and the power switch do what they like:
`MirrorRestored` is about disks that stay on, and refuse nothing more, in the end.

## 4. Proofs

`LpxStreamProofs` proves, for every size of the cycle, of the queue, of the
window and of the timers, that

- `IInv` is inductive (`StepIInv`) and so invariant (`IInvAlways`);
- the invariants `TypeOK`, `InOrder`, `AckedWasTaken`, `ReorderQueueAhead`,
  `SenderPointers` and `RexmtCoversOutstanding` hold;
- every step is one of `ReliableStream` or leaves it alone (`StepRefines`),
  so that `Spec => ImplementsReliableStream` (`Implements`);
- the retransmission timer runs over an empty queue only when `s_smax` has the
  last 16-bit number (`TimerStops`), so that `RexmtOnlyWhileUnacked` holds as
  long as the numbers have not reached the wrap (`TimerOnlyWhileUnacked`). This
  shows that the slip of `lpx_stream.c:2013` (section 5) is the only way in
  which the timer is left running: an acknowledgement that empties `so_snd` is
  exactly `s_smax + 1`, and the comparison misses that number only at the wrap
  (`MissedSuccessor`).

They rest on `HalfAssumption` and `StreamAssumption` (positive sizes and
`Lifetime + SndLimit < Half`).

Why the properties are not inductive by themselves, and what `IInv` adds: that
the reader presents the right record depends on the number in a packet meaning
what it says, so `PacketInv` says that a packet in the network is younger than
`Lifetime`, and `WindowInv` that the reader is never outside the writer's
queue; the two bring every pair of numbers the code compares to less than half
a cycle, where `ShortDifference` makes the 16-bit comparison that of the
naturals. `ReaderInv` ties the receive buffer to `s_ack` on both sides of the
released mutex. `SenderInv` bounds how far back a stale acknowledgement can
take `s_rack`: not in front of the queue's head, not more than
`Lifetime` behind it. `TLC` checked `IInv` on the instances of section 3 before it was proved.

`LpxConnectionProofs` proves, for all periods of the timers, retry limits and
numbers of ticks inside `sock_retain`, the four invariants of `conn`.
Its inductive invariant says three things of a block. `SocketInv`: one that
`so_pcb` reaches is neither marked nor closing down by 2MSL, and one that
remembers a reference still has its socket; this is what `MarkedIsDetached`
needs, for a handler marks a block it found through the socket. `TimerInv`:
a used block has a timer or a mark, whoever owns it, because a block that loses
its keep-alive timer before its owner closes it could not get one back.
`CountInv`: `retaincnt` is what `SF_NEEDRELEASE` says, shifted by one while a
handler is inside `sock_retain` or `sock_release`. The handlers are functions
from block to block, so each has a lemma that it keeps `Held` (and `Timed`),
and the proof of an action composes them in the order of the code
(`TickKeeps`: the four timers, then the freeing). It rests on
`ConnectionAssumption`: positive periods, and a connect that is given up no
later than a transfer.

`RaidMirrorProofs` proves two things of the mirror for every size of the array
and of the caches, any number of commands, outages and refusals of every kind,
and with or without the windows that `Careful` closes:

- `MirrorTypeCorrect`: `TypeOK`. It bounds the history, the bitmap and the
  position of the recovery, and the counter of commands from below. It does not say that a block never holds `Garbage`,
  what a buffer held by chance: a session cleared between the look of
  `recovery()` at the status and its read, whose login then fails, puts it there.
  (With `Careful` and `Willing` no block that counts does, which follows from
  `MirrorRecoversInSync` and `MirrorIsOneDisk`.)
- `MirrorExpectsAnswers`: `fNumberOfNewBuildCommands` is at least the commands
  in the disks' queues, waiting for a session, and answered but not yet taken
  back. It is unsigned and decremented for every answer
  (`NDASRAIDUnitDeviceController.cpp:940`), so this says that it does not wrap.
  `CountMatches`, the equality, needs `Careful` (an answer of a disk that was
  let go is lost), see below.

Every operation has a lemma that it keeps the types and leaves the queues of
the disks to their threads (`Handled`); a disk's thread has one that it answers
a command once (`ProcessSrbAnswers`, `BroadcastTyped`, `GoneAnswers`), and
`SettleTyped` one that a handler counts the commands it sends. They rest on
`CacheAssumption` and `MirrorAssumption`. TLC checked the parts of the
invariant it can evaluate, with `Careful` FALSE, before they were proved.

The rest assumes two things, stated in each theorem. `Careful`: outages and
commands keep out of the windows of section 2. `Willing`: `Refusable` is at most
`{"write", "copy"}`, so the disks may refuse, any number of times, the host's
writes and the recovery's reads and writes of blocks. Refused reads and bitmaps
are left to the run `raid_safety`; refused metadata break the properties (section 2).

`RaidMirrorPhaseProofs` and `RaidMirrorCountProofs` prove, for every size of
the array and of the caches and any number of commands, outages and refusals:

- `MirrorPhases`: one of the disks serves at all times, and the array is
  `Mirrored`, `Unmarked` (a loss is seen but not in the metadata), `Degraded` or
  `Returned` (the disk is back, and recovers). So it is never `Broken` or
  `NotReady`, two outages never make it trust the wrong disk, and a recovery
  ends with the two disks in step.
- `MirrorCounts`: `CountMatches`. The counter is exact although a disk may be
  lost with a command, give it up, or be let go.

The inductive invariant is `CInv`, with five parts that need each other.
`CountMatches` is lost when an answer is (a disk the array has let go), or when
a command is answered to the host with a part still out (a read of which one
half fails and that is not sent again, or a write). To exclude the first, one
has to know that a disk that is let go has nothing queued, which `Tidy` says in
`PhaseInv`; to exclude the second, that after a failure there is a disk to send
the read to, and that the array is not `Broken`: `Phase`, through the status
that `updateRAIDStatus` computes from the metadata (`Labelled`). `Phase` in turn
depends on when a handler runs: that the loss of a disk is noted before the
next command is `InboxInv`, that no command is under way in the short time in
which the array is ready to recover is `CommandInv`, and that a failed answer is
one to the command in progress, of its kind, is `PartsInv`. `StatusUpdated` says
what `updateRAIDStatus` does in a phase; the handlers are compositions of it, and
the recovery has a lemma for its start, its turns and its end
(`RecoveryStarted`, `BlockCopied`, `RecoveryFinished`). These proofs use of
`MirrorAssumption` also that `NULL` is no bitmap and no command or answer.
TLC checked the five parts on the instance of `raid_safety` first.

`RaidMirrorDataProofs` adds, under the same conditions, what the disks hold:

- `MirrorRecords`: `Recorded`. A block in which the disks differ is being
  written, or the history or the bitmap knows it, or it is `Doubtful`: a disk
  refused a write of it.
- `MirrorRecoversInSync`: `RecoveryDoneInSync`. A step that ends the state of
  being dirty leaves two disks with the same data, but in blocks that are
  `Doubtful`.

The inductive invariant is `DataInv`: a phase and, for the write `W` that is
under way, `Data`. Each phase has its own place where a difference is known:
the write under way while both disks serve (`InMirrored`), the history as long
as the loss is not noted (`InUnmarked`), the bitmap while degraded
(`InDegraded`), and the part of the bitmap that the recovery has yet to pass,
for blocks that are not in the history (`InReturned`). What makes the history
long enough is `Ages`: a write in the cache of a disk that changed a block is
no older in the history of the array than in the cache, counting one more write
that the disk has yet to take; with one place more than the cache has, the
history still knows whatever a disk may lose (`LostIsKnown`, `Safe`). It is here
that `RememberOneLess` would fail. A block that is written while the recovery
copies it is either in both queues or still to be copied (`Has`, `clean`); the
worker copies only between commands (`RecoverIsIdle`). Each action has a lemma
that it keeps `DataInv` and that dirty ends only in `ReadyToRecovery`
(`StaysDirty`), where no command is under way, so that nothing excuses a
difference. A refused write is a difference of its own kind: `Differ` are the
differences that remain when those are taken out in which both disks hold a value
the host must be ready for (`want`, `refused`), and `Ages` is claimed only until
a disk refuses a write, for the history has an entry then that the cache has not
(`Aged`); after that `Known` in `SwitchOff` does its work. TLC checked `DataInv` on
the instance of `raid_safety`, and with caches of 0 and 2, first.

`RaidMirrorDiskProofs` proves the refinement, again with `Careful`:

- `MirrorIsOneDisk`: `Spec => DiskSpec`. A write answered in full is what later
  reads return; a read answered in full returns for each block a value that was
  last written, or of a write that failed; whatever order the disks answer in,
  and though one is lost, found again and copied to in between.

The invariant it adds is `DiskInv`. `ServedInv`: a disk that is read from holds
a wanted value for each block, the old one where it refused a write. `ReadInv`: so do the result of the read in
progress and the answers on their way, and the read is `Covered`. The host is
told success when `res.xfer` counts as many blocks as were asked for
(`processSrbCompletedCommand`), so a count must be shown to mean that each of
them was read. Either the parts are still exactly those of `planRead`: no block
is asked of two disks and none was counted twice (`Exact`, `CoverFull`). Or one
answer to all of the command is in the result, on its way, or asked of the only
disk that is good (`Sure`): that is the case after a half has failed and the
whole read is sent again, when late answers may be counted besides. For the
second case no read may wait at a disk that has come back and does not hold the
data yet, the last conjunct of `ReadInv` (`ReturnedIsIdle`).

`Steady` is what every handler does to the disk that serves: it goes on, and
its data change to wanted values only; from it follow `ServedKept` and
`ReadKept` once for all actions. Each action then has a lemma that it keeps
`DiskInv` and changes nothing the host sees, but two: `Issue` (`IssueKeepsDisk`)
and the answer to the host in `WorkerCompleted` (`AnswerIsDisks`). That a write
answered in full is on every disk that is read from (`WrittenIsServed`) uses
`Has` of `DataInv`. TLC checked `DiskInv` on the instance of `raid_safety`
first.

Only model-checked: liveness (the three properties of the connection, two of the
stream, two of the mirror), which TLAPS cannot prove.

## 5. What the code does against its comments

- `lpx_stream.c:2013`: the comparison that stops the retransmission timer is
  done in `int` and fails for `s_smax` 65535. The timer stays armed with an
  empty queue (`stream_rexmt_wrap`).
- `lpx_stream.c:2049`: a stale acknowledgement moves `s_rack` back, and the
  timer then retransmits nothing (`stream_stale_ack`). The next acknowledgement
  or the user's next record repairs it, or the connection is dropped:
  `WrittenIsReadOrClosed` holds all the same.
- `lpx_stream.c:1236`: the disconnect timer is stored past the end of
  `s_timer`, so it never runs (`conn_discon`), and the first retransmission
  after a close gives up at once.
- `lpx_stream.c:521`: a packet after the drop of an unanswered connect
  connects the dropped socket (`conn_late`).
- `NDASRAIDUnitDeviceController.cpp:1645`: a write processed while the array is
  ready to recover is noted neither in the history nor in the bitmap, and a
  disk that is not connected yet misses it. "Recovery is done"
  (`NDASRAIDUnitDevice.cpp:2134`) with two disks that differ (`raid_recovery`).
- `lpx_pcb.c:386`: `lpxp_socket` keeps pointing to a socket that was given up
  (`conn_pointer`).

`ReferenceReturned` holds only while `lpx_stream_slowtimo` does not run inside
`sock_retain`. If it does, and the keep-alive timer is due, the drop arms the
2MSL timer, which fires in the same call and releases the reference that was
not taken yet.

## 6. Not modelled

- Passive side of the stream (`LISTEN`, `SYN_RECEIVED`, accept). Nothing in the
  repository listens on a stream, and the code could not serve it: an accepted
  block answers with port 0 (`s_dport` is set in `SYN_SENT` only,
  `lpx_stream.c:527`), and its own port is stored through `ntohs`
  (`lpx_stream.c:401`), so that on a little-endian host no later packet finds
  it.
- The list of control blocks and the search for a free port (`lpx_pcb.c`).
- Errors of the disks: a sector that stays unreadable or unwritable (a refusal
  of the model is over once it happened; what a lasting one does is said in
  section 2), a read or write that is refused half-way (writes are of one block,
  and the array does not look at the part of a read that was transferred), and
  lasting errors of the metadata. For refused metadata see section 2.
- What the disks' threads may do between two managing I/Os of one handler,
  except in the recovery (`Meanwhile`): the metadata and the bitmap written when
  a disk is lost, the bit set before a degraded write, `checkRMD` inside
  `updateRAIDStatus`, are read and written in one step with the handler.
- Of arrays: aggregated and striped ones, spares, migration, read-only mounts,
  several disks in one device, bitmaps of more than a sector, a restart or
  crash of the host, and commands to an array that is broken or not mounted,
  which are answered at once.
- Exhausted memory, and so `ENOBUFS` half-way through `lpx_stream_output`.
- Urgent data, the persist timer, congestion window and round-trip estimate:
  the code keeps the fields of its BSD ancestor but does not use them.
- Contents of records; checksums and framing.
- The other components (datagrams, framing, LanScsi library, logical device and
  task queue, daemon), see `PROJECT.json` for the reason of each. Tools, user
  interface, cryptographic helpers and on-disk layouts have no state worth
  a model; `netlpx_legacy` and the older branches are copies.

## 7. Plan

In order of importance:

1. The windows listed in section 2, each with what the code would need to close it:
   a phase of the array that notes writes in `ReadyToRecovery` first.
2. A restart of the host between the steps of `InitAndSetBitmap` and of the end
   of a recovery.
3. `NdasDevice`: the controller's queue, sessions, retries and reconnection for
   several disks, against "each request is completed once".
4. `LpxDatagram` and `LpxPcb`: reassembly and expiry; ports.

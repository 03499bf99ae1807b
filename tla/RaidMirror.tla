----------------------------- MODULE RaidMirror -----------------------------
(***************************************************************************)
(* A mirror of two disks (NMT_RAID1R3) as trunk/Sources/NDASFamily runs    *)
(* it: the worker thread of NDASRAIDUnitDeviceController, the status and   *)
(* the recovery of NDASRAIDUnitDevice, the controller threads of the two   *)
(* disks (NDASUnit), the bus enumerator's thread where it calls the array, *)
(* a host that has one command at a time in progress, and disks that       *)
(* refuse an I/O, or are switched off, losing what their caches held, and  *)
(* come back.                                                              *)
(*                                                                         *)
(* A call that reads or writes sectors of a disk and waits (managing I/O)  *)
(* is one step of the worker with the handler that makes it.  The copying  *)
(* of data waits until the disks have taken the commands queued before it. *)
(*                                                                         *)
(* A definition right above another one of the same parameters is a slip   *)
(* the code could have in its place; no action uses it.                    *)
(***************************************************************************)
EXTENDS NDASUnit, FiniteSets

CONSTANTS
  Capacity,   \* blocks of the array
  MaxCmds,    \* bound: commands of the host
  MaxOutages, \* bound: times a disk is switched off
  MaxRefusals, \* bound: I/O that a disk refuses, of the kinds of Refusable
  Careful     \* TRUE: outages and commands keep out of the windows in which
              \* the array loses track of a write (Kept, Quiet, SwitchOff,
              \* SwitchOn, UnitPnp)

ASSUME MirrorAssumption ==
  /\ {Capacity, MaxCmds, MaxOutages, MaxRefusals} \subseteq Nat
  /\ Careful \in BOOLEAN
  /\ NULL \notin [op : {"read", "write"}, lo : Int, hi : Int, val : Int]
  /\ \A m \in SUBSET (0..Capacity) :
       /\ NULL # m
       /\ NULL \notin [op : {"read", "write"}, lo : Int, hi : Int, val : Int,
                       ok : BOOLEAN, xfer : Int, vals : [m -> Int]]

Unit == {0, 1}
Other(u) == 1 - u
Block == 0..(Capacity - 1)
Garbage == -1   \* what a buffer holds that nothing was read into

VARIABLES
  unit,    \* the two disks
  raid,    \* the RAID unit device, see Init
  cmd,     \* the command in progress, NDASCommand()
  res,     \* what its CmdData holds
  count,   \* fNumberOfNewBuildCommands
  inbox,   \* the command queue of the worker
  idle,    \* bIdle
  issued, outages, refusals,   \* history: how many so far
  want,    \* history: the values each block may hold for the host
  reply,   \* history: the answer to the last command
  refused  \* history: the values of which a disk refused the write

command == <<cmd, res, count>>
history == <<want, reply>>
faults == <<refusals, refused>>
vars == <<unit, raid, cmd, res, count, inbox, idle, issued, outages, refusals, want, reply, refused>>

(* The operators below work on w = [unit |-> unit, raid |-> raid].           *)
World == [unit |-> unit, raid |-> raid]

(****************************** the status *********************************)

Good(w, u) == w.raid.sub[u] = "Good"
SubUnits(w, s) == {u \in Unit : w.raid.sub[u] = s}
RaidRunning(w) == w.raid.status \in {"ConnectedRW", "ReconnectRW"}
Usable(w, u) == Running(w.unit[u]) /\ Connected(w.unit[u])

\* The status of a sub unit by the status of its unit alone.
SubOfStatus(s) ==
  CASE s = "NotPresent" -> "NotPresent"
    [] s = "ReconnectRW" -> "Failure"
    [] OTHER -> "Good"

IsWorkable(w) ==
  IF RaidRunning(w) THEN \E u \in Unit : w.unit[u].member ELSE \A u \in Unit : w.unit[u].member

\* The status of the sub units by their metadata, when both seem good.
SubOfMetadata(w) ==
  LET m(u) == w.unit[u].mem
      behind == IF w.raid.inRecovery THEN "Recovering" ELSE "NeedRecovery"
      notSynced == m(0).notSynced \cup m(1).notSynced
  IN IF m(0).degraded /\ m(1).degraded THEN [u \in Unit |-> "Failure"]
     ELSE [u \in Unit |->
             IF \/ m(0).usn = m(1).usn /\ u \in notSynced
                \/ m(u).usn < m(Other(u)).usn
             THEN behind ELSE "Good"]

\* The sub unit that the other one's metadata says is not synced.
SubOfDegraded(w) ==
  LET alone(u) == /\ w.raid.sub[u] = "Good" /\ w.unit[u].mem.degraded
                  /\ Other(u) \in w.unit[u].mem.notSynced
  IN [u \in Unit |-> IF alone(Other(u)) THEN "Failure" ELSE w.raid.sub[u]]

StatusOfArray(w) ==
  LET S(s) == SubUnits(w, s) # {}
  IN CASE SubUnits(w, "Good") = Unit -> "Good"
       [] S("Good") /\ S("Recovering") -> "Recovering"
       [] S("Good") /\ S("NeedRecovery") -> "ReadyToRecovery"
       [] S("Good") /\ (S("Failure") \/ S("NotPresent")) ->
            IF w.raid.dirty THEN "BrokenButWorkable" ELSE "GoodButPartiallyFailed"
       [] SubUnits(w, "NotPresent") = Unit -> "NotReady"
       [] OTHER -> "Broken"

SubsByStatus(w) == [u \in Unit |-> SubOfStatus(w.unit[u].status)]

\* Two disks that seem good, but whose metadata differ, are asked again.
ReadMetadata(w) ==
  LET differ == /\ \A u \in Unit : SubsByStatus(w)[u] = "Good"
                /\ w.raid.rs # "Recovering" /\ w.unit[0].mem.usn # w.unit[1].mem.usn
      read == [u \in Unit |-> IF ManagingLands(w.unit[u], "readRMD") THEN "Good" ELSE "Failure"]
  IN IF differ THEN [unit |-> [u \in Unit |-> CheckRMD(w.unit[u])], raid |-> [w.raid EXCEPT !.sub = read]]
     ELSE [w EXCEPT !.raid.sub = SubsByStatus(w)]

Judge(w) ==
  [w EXCEPT !.raid.sub = IF SubUnits(w, "Good") = Unit THEN SubOfMetadata(w) ELSE SubOfDegraded(w)]

Rank(w) == [w EXCEPT !.raid.rs = StatusOfArray(w)]

UpdateRAIDStatus(world0) ==
  Only({IF IsWorkable(w) THEN Only({Rank(x) : x \in {Judge(y) : y \in {ReadMetadata(w)}}})
        ELSE [w EXCEPT !.raid.sub = SubsByStatus(w), !.raid.rs = "NotReady"] : w \in {world0}})

\* postProcessingforConnectRW: a new sequence number for every disk
PostProcess(w) ==
  IF \E u \in Unit : Usable(w, u) /\ Good(w, u)
  THEN [w EXCEPT !.unit = [u \in Unit |->
          LET x == w.unit[u]
          IN IF x.status = "NotPresent" THEN x
             ELSE WriteAndCheckRMD(x, [x.mem EXCEPT !.usn = @ + 1])]]
  ELSE w

\* The status of the array as a unit device: that of one of its disks.
OwnStatus(w) ==
  LET settled == {"Disconnected", "ConnectedRW"}
      s(u) == w.unit[u].status
  IN CASE w.raid.rs = "NotReady" -> "NotPresent"
       [] w.raid.rs = "Good" -> IF s(0) \in settled THEN s(1) ELSE s(0)
       [] w.raid.rs = "Broken" -> "Failure"
       [] OTHER -> IF Good(w, 0) THEN s(0) ELSE s(1)

UpdateRaidStatusAndOwn(w) ==
  LET mounts(x) == w.raid.status \in {"TryConnectRW", "Disconnected"} /\ x.raid.status = "ConnectedRW"
  IN Only({IF mounts(x) THEN PostProcess(x) ELSE x :
             x \in {[y EXCEPT !.raid.status = OwnStatus(y)] : y \in {UpdateRAIDStatus(w)}}})

(************************ the bitmap and the history ***********************)

Blocks(h) == {h[k] : k \in DOMAIN h}

\* The first good sub unit, which holds the bitmap.
Keeper(w) == CHOOSE u \in SubUnits(w, "Good") : Good(w, 0) => u = 0

Least(S) == {b \in S : \A c \in S : b <= c}

\* SetBitmap: the bits of the blocks of S, each written through to the disk,
\* till one of them cannot be.  Blocks past the end are refused, except the one
\* right behind it.
SetBitmap(w, S) ==
  LET g == Keeper(w)
      inMemory == w.raid.map # NULL
      old == IF inMemory THEN w.raid.map ELSE w.unit[g].map
      reached == IF ManagingIsSuccess(w.unit[g], "map") THEN S ELSE Least(S \ old)
      w1 == [w EXCEPT !.raid.dirty = TRUE]
      isWritten == /\ w.raid.status = "ConnectedRW" /\ SubUnits(w, "Good") # {}
                   /\ S \subseteq 0..Capacity /\ ~(S \subseteq old)
  IN IF isWritten
     THEN [w1 EXCEPT !.raid.map = IF inMemory THEN old \cup reached ELSE @,
                     !.unit[g] = WriteMap(@, old \cup S)]
     ELSE w1

\* The history keeps what may be in the cache of a disk, and one write more.
RememberOneLess(h, b) ==
  LET written == Append(h, b)
  IN IF Len(written) > Cache THEN Tail(written) ELSE written

Remember(h, b) ==
  LET written == Append(h, b)
  IN IF Len(written) - 1 > Cache THEN Tail(written) ELSE written

\* InitAndSetBitmap: a disk is lost; the other one is marked, its bitmap is
\* emptied, and the writes of the history are marked in it.
InitAndSetBitmap(w) ==
  LET g == Keeper(w)
      old == w.unit[g].mem
      rmd == [old EXCEPT !.degraded = TRUE, !.usn = @ + 1,
                         !.notSynced = @ \cup {Other(g)}]
      m == IF w.raid.map = NULL THEN {} ELSE w.raid.map
      w1 == [w EXCEPT !.unit[g] = WriteMap(WriteAndCheckRMD(@, rmd), m),
                      !.raid.dirty = TRUE, !.raid.map = m, !.raid.history = <<>>]
      H == Blocks(w.raid.history)
  IN IF w.raid.dirty \/ SubUnits(w, "Good") \in {{}, Unit} THEN w
     ELSE UpdateRAIDStatus(IF H = {} THEN w1 ELSE SetBitmap(w1, H))

\* What the worker does after a command.
AfterCommand(w) ==
  IF w.raid.rs = "GoodButPartiallyFailed" THEN InitAndSetBitmap(w) ELSE w

(******************************* the recovery ******************************)

\* The metadata of disk u once block copying is over.
Synced(rmd, usn, degraded, u) ==
  [rmd EXCEPT !.usn = usn, !.degraded = degraded, !.notSynced = @ \ {u}]

\* The bad disk gets the sequence number and the flags of the good one.
StartRecovery(w) ==
  LET g == Keeper(w)
      b == Other(g)
      rmd == [w.unit[b].mem EXCEPT !.usn = w.unit[g].mem.usn,
                                   !.notSynced = w.unit[g].mem.notSynced]
      readMap == IF ManagingLands(w.unit[g], "map") THEN w.unit[g].map ELSE {}
      w1 == [w EXCEPT !.raid.sector = 0]
      w2 == IF w.raid.map # NULL THEN w1
            ELSE [w1 EXCEPT !.raid.map = readMap, !.unit[g] = ManagingAfter(@, "map")]
      w3 == [w2 EXCEPT !.unit[b] = WriteAndCheckRMD(@, rmd)]
  IN IF SubUnits(w, "Good") = {} \/ SubUnits(w, "NeedRecovery") = {} THEN w1
     ELSE IF w.unit[b].status # "ConnectedRW" THEN w1
     ELSE IF ~ManagingIsSuccess(w.unit[b], "writeRMD") THEN UpdateRAIDStatus(w3)
     ELSE UpdateRAIDStatus([UpdateRAIDStatus(w3) EXCEPT !.raid.inRecovery = TRUE])

\* The last block is passed: the metadata of both disks, the good one first.
FinishRecovery(w) ==
  LET g == Keeper(w)
      b == Other(g)
      usn == w.unit[g].mem.usn
      w1 == [w EXCEPT !.unit[g] = WriteRMD(@, Synced(@.mem, usn + 1, FALSE, b))]
      w2 == [w1 EXCEPT !.unit[b] = WriteRMD(@, Synced(@.mem, usn, FALSE, b))]
      w3 == [w2 EXCEPT !.unit = [u \in Unit |-> CheckRMD(w2.unit[u])]]
  IN IF ~ManagingIsSuccess(w.unit[g], "writeRMD") THEN w1
     ELSE IF ~ManagingIsSuccess(w.unit[b], "writeRMD") THEN w2
     ELSE [w3 EXCEPT !.raid.inRecovery = FALSE, !.raid.map = NULL, !.raid.dirty = FALSE]

\* The bits of the blocks before `sector` are cleared, each written through.
ClearOneMore(w) ==
  LET m == {x \in w.raid.map : x > w.raid.sector}
      g == Keeper(w)
      reached == IF ManagingIsSuccess(w.unit[g], "map") THEN m ELSE w.raid.map \ Least(w.raid.map)
  IN IF m = w.raid.map \/ w.raid.status # "ConnectedRW" THEN w
     ELSE [w EXCEPT !.raid.map = reached, !.unit[g] = WriteMap(@, m)]

ClearBitmap(w) ==
  LET m == {x \in w.raid.map : x >= w.raid.sector}
      g == Keeper(w)
      reached == IF ManagingIsSuccess(w.unit[g], "map") THEN m ELSE w.raid.map \ Least(w.raid.map)
  IN IF m = w.raid.map \/ w.raid.status # "ConnectedRW" THEN w
     ELSE [w EXCEPT !.raid.map = reached, !.unit[g] = WriteMap(@, m)]

IsDirtyBitSet(w) == w.raid.status = "ConnectedRW" /\ w.raid.sector \in w.raid.map

\* The part of the good disk that the cache of the bad one may have lost.
Rollback(sector) ==
  LET first == IF sector <= Cache THEN 0 ELSE sector - Cache
  IN first..(first + Cache - 1)

\* What the buffer of the recovery holds after it read block k of disk x.
ReadBlock(x, k) == IF ManagingLands(x, "copy") THEN x.data[k] ELSE Garbage

\* One turn of the recovery: a dirty block is copied, a clean one passed.
CopyBlock(w) ==
  LET g == Keeper(w)
      b == Other(g)
      k == w.raid.sector
      read == ReadBlock(w.unit[g], k)
      unread == [w EXCEPT !.unit[g] = ManagingAfter(@, "copy")]
      written == [unread EXCEPT !.unit[b] = IF ManagingLands(@, "copy") THEN Store(@, k, read)
                                                                        ELSE ManagingAfter(@, "copy")]
      pass(x) == [x EXCEPT !.raid.sector = k + 1]
      next(x) == IF k + 1 >= Capacity THEN FinishRecovery(x) ELSE x
  IN UpdateRAIDStatus(
       IF ~IsDirtyBitSet(w) THEN next(pass(w))
       ELSE IF ~ManagingIsSuccess(w.unit[g], "copy") THEN unread
       ELSE IF ~ManagingIsSuccess(w.unit[b], "copy") THEN SetBitmap(written, Rollback(k))
       ELSE Only({next(x) : x \in {ClearBitmap(pass(y)) : y \in {written}}}))

RecoveryTurn(w) ==
  IF ~w.raid.inRecovery THEN StartRecovery(w)
  ELSE IF w.raid.rs # "Recovering" THEN UpdateRAIDStatus(w)
  ELSE IF w.raid.sector >= Capacity THEN w
  ELSE CopyBlock(w)

(* The recovery waits for the threads of the disks, which may find, between  *)
(* its look at the status and its I/O, that a disk is gone, or connect it    *)
(* again.  (A disk with a command that waits is failed: there is no I/O.)    *)
Between(x) ==
  {x} \cup (IF x.status = "NotPresent" \/ x.pend # NULL THEN {}
           ELSE IF ~x.link THEN {Gone(x)[1]}
           ELSE IF x.sess = "broken" THEN {Broadcast(x, FALSE, TRUE, TRUE)[1]} ELSE {})

Meanwhile(w) ==
  {[w EXCEPT !.unit = f] : f \in {g \in [Unit -> Between(w.unit[0]) \cup Between(w.unit[1])] :
                                   \A u \in Unit : g[u] \in Between(w.unit[u])}}

\* A recovery under way goes on only while the disks' metadata agree.
Recovery(w) ==
  LET same(x) == x.unit[0].mem.usn = x.unit[1].mem.usn
  IN IF ~RaidRunning(w) THEN {UpdateRAIDStatus([w EXCEPT !.raid.inRecovery = FALSE])}
     ELSE {RecoveryTurn(x) : x \in UNION {Meanwhile([y EXCEPT !.raid.inRecovery = @ /\ same(y)]) :
                                           y \in {UpdateRAIDStatus(w)}}}

(************************ the commands of the host *************************)

ToNone == [u \in Unit |-> NULL]

\* READ_10: halves to the two good units, or all of it to the first of them.
PlanReadAny(w) ==
  LET usable == {u \in Unit : Usable(w, u)}
      first == CHOOSE u \in usable : 0 \in usable => u = 0
  IN [u \in Unit |-> IF usable # {} /\ u = first THEN Command("read", cmd.lo, cmd.hi, 0) ELSE NULL]

PlanRead(w) ==
  LET part(lo, hi) == Command("read", lo, hi, 0)
      usable == {u \in Unit : Usable(w, u) /\ Good(w, u)}
      first == CHOOSE u \in usable : 0 \in usable => u = 0
      half == (cmd.hi - cmd.lo + 1) \div 2
  IN IF usable = Unit /\ half > 0
     THEN [u \in Unit |-> IF u = 0 THEN part(cmd.lo, cmd.lo + half - 1)
                                   ELSE part(cmd.lo + half, cmd.hi)]
     ELSE [u \in Unit |-> IF usable # {} /\ u = first THEN part(cmd.lo, cmd.hi) ELSE NULL]

\* WRITE_10: what is noted of it, and the units it is sent to.
NoteWrite(w) ==
  CASE w.raid.rs \in {"Good", "Recovering"} ->
         [w EXCEPT !.raid.history = Remember(@, cmd.lo)]
    [] w.raid.rs \in {"GoodButPartiallyFailed", "BrokenButWorkable"} -> SetBitmap(w, {cmd.lo})
    [] OTHER -> w

PlanWrite(w) ==
  [u \in Unit |-> IF Usable(w, u) /\ w.raid.sub[u] \in {"Good", "NeedRecovery", "Recovering"}
                  THEN Command("write", cmd.lo, cmd.hi, cmd.val) ELSE NULL]

\* The result of a command as the transport builds it.
Fresh == [ok |-> TRUE, xfer |-> 0, vals |-> <<>>]

(* What a handler leaves: the world, the result of the command, whether the  *)
(* command is answered, and the commands sent to the units.                  *)
Outcome(w, r, fin, to) == [w |-> w, res |-> r, fin |-> fin, to |-> to]

ProcessSrbCommand(w, r) ==
  LET failed == Outcome(w, [r EXCEPT !.ok = FALSE], TRUE, ToNone)
      sent(to) == IF to = ToNone THEN failed ELSE Outcome(w, r, FALSE, to)
  IN IF cmd = NULL THEN Outcome(w, r, FALSE, ToNone)
     ELSE IF ~RaidRunning(w) THEN failed
     ELSE IF cmd.op = "read" THEN Only({sent(to) : to \in {PlanRead(w)}})
     ELSE Only({Outcome(x, r, FALSE, PlanWrite(x)) : x \in {NoteWrite(w)}})

\* Command c of a unit is answered; n more are not.
ReadCompleted(w, c, n) ==
  LET failed == [res EXCEPT !.ok = FALSE]
      more == [ok |-> TRUE, xfer |-> res.xfer + c.xfer,
               vals |-> [b \in DOMAIN res.vals \cup DOMAIN c.vals |->
                           IF b \in DOMAIN c.vals THEN c.vals[b] ELSE res.vals[b]]]
      again(x) == IF \E u \in Unit : Usable(x, u) THEN ProcessSrbCommand(x, failed)
                                                 ELSE Outcome(x, failed, TRUE, ToNone)
  IN IF c.ok THEN Outcome(w, more, n = 0, ToNone)
             ELSE Only({again(x) : x \in {UpdateRAIDStatus(w)}})

WriteCompleted(w, c, n) ==
  LET failed == IF n = 0 /\ res.xfer # c.xfer THEN [res EXCEPT !.ok = FALSE] ELSE res
  IN IF c.ok THEN Outcome(w, [res EXCEPT !.ok = TRUE, !.xfer = c.xfer], n = 0, ToNone)
     ELSE Outcome(UpdateRAIDStatus(w), failed, n = 0, ToNone)

ProcessSrbCompleted(w, c, n) ==
  LET o == IF c.op = "read" THEN ReadCompleted(w, c, n) ELSE WriteCompleted(w, c, n)
  IN IF cmd = NULL THEN Outcome(w, res, FALSE, ToNone)
     ELSE [o EXCEPT !.w = UpdateRAIDStatus(@)]

(***************************** initial states ******************************)

Synchronized == [usn |-> 1, degraded |-> FALSE, notSynced |-> {}]

\* A mounted mirror whose disks hold the same.
Init ==
  /\ unit = [u \in Unit |->
       [status |-> "ConnectedRW", link |-> TRUE, sess |-> "up", member |-> TRUE,
        queue |-> <<>>, pend |-> NULL, mem |-> Synchronized, rmd |-> Synchronized,
        map |-> {}, data |-> [b \in Block |-> 0], recent |-> <<>>, fails |-> {}]]
  /\ raid = [rs |-> "Good", status |-> "ConnectedRW", sub |-> [u \in Unit |-> "Good"],
             dirty |-> FALSE, inRecovery |-> FALSE, sector |-> 0, map |-> NULL,
             history |-> <<>>]
  /\ cmd = NULL /\ res = Fresh /\ count = 0
  /\ inbox = <<>> /\ idle = FALSE
  /\ issued = 0 /\ outages = 0 /\ refusals = 0
  /\ want = [b \in Block |-> {0}] /\ reply = NULL /\ refused = {}

(******************************** the host *********************************)

\* The host's command is answered.  A full write is what its block holds then,
\* unless a disk refused it.
Answered(r, c) ==
  LET n == c.hi - c.lo + 1
      full == r.ok /\ r.xfer >= n
  IN /\ cmd' = NULL
     /\ reply' = [full |-> full, vals |-> IF full THEN r.vals ELSE <<>>]
     /\ want' = IF full /\ c.op = "write" /\ c.val \notin refused
                THEN [want EXCEPT ![c.lo] = {c.val}] ELSE want

\* No command between the return of a disk and the start of its recovery.
Kept == Careful => /\ raid.rs # "ReadyToRecovery"
                   /\ \A u \in Unit : Running(unit[u]) \/ unit[u].status = "NotPresent"

(* processSRBCommand of the array.  The result the array starts from is the  *)
(* one the transport built: GOOD, nothing transferred.                       *)
Issue(op, lo, hi) ==
  LET c == [op |-> op, lo |-> lo, hi |-> hi, val |-> IF op = "write" THEN issued + 1 ELSE 0]
  IN /\ cmd = NULL /\ issued < MaxCmds /\ Kept
     /\ raid.rs \notin {"Broken", "NotReady"}
     /\ cmd' = c /\ res' = Fresh /\ reply' = NULL
     /\ issued' = issued + 1
     /\ want' = IF op = "write" THEN [want EXCEPT ![lo] = @ \cup {c.val}] ELSE want
     /\ inbox' = Append(inbox, [k |-> "srb"])
     /\ UNCHANGED <<unit, raid, count, idle, outages, faults>>

(******************************* the worker ********************************)

\* The worker answers the command if its handler says so, and, whatever it did,
\* if the array is broken.
AnsweredIf(fin, rs, r) ==
  IF cmd # NULL /\ (fin \/ rs = "Broken") THEN Answered(r, cmd)
                                          ELSE UNCHANGED <<cmd, reply, want>>

\* What a handler left takes effect: o of it, n commands still to come.
\* (A value is bound with \E x \in {e} where TLC would evaluate e again at
\* each use of a LET.)
Settle(o, n) ==
  \E w \in {AfterCommand(o.w)} :
    LET sent == {u \in Unit : o.to[u] # NULL}
    IN /\ unit' = [u \in Unit |-> IF u \in sent THEN [w.unit[u] EXCEPT !.queue = Append(@, o.to[u])]
                                               ELSE w.unit[u]]
       /\ raid' = w.raid
       /\ res' = o.res
       /\ count' = n + Cardinality(sent)
       /\ AnsweredIf(o.fin, w.raid.rs, o.res)

WorkerTakes(k) == inbox # <<>> /\ Head(inbox).k = k /\ inbox' = Tail(inbox)

WorkerSrb ==
  /\ WorkerTakes("srb")
  /\ UNCHANGED <<issued, outages, faults>>
  /\ idle' = FALSE
  /\ \E o \in {ProcessSrbCommand(World, res)} : Settle(o, count)

WorkerCompleted ==
  /\ WorkerTakes("done")
  /\ UNCHANGED <<idle, issued, outages, faults>>
  /\ \E o \in {ProcessSrbCompleted(World, Head(inbox).c, count - 1)} : Settle(o, count - 1)

\* processSettingCommand, for a disk that is gone
WorkerNoPnp ==
  /\ WorkerTakes("noPnp")
  /\ UNCHANGED <<idle, issued, outages, faults>>
  /\ \E w \in {UpdateRaidStatusAndOwn(World)} : Settle(Outcome(w, res, FALSE, ToNone), count)

\* processSettingCommand, for a broadcast of a disk of the array
PnpHandled(w) ==
  IF IsWorkable(w) /\ w.raid.rs = "ReadyToRecovery" /\ RaidRunning(w) THEN Recovery(w) ELSE {w}

WorkerPnp ==
  /\ \E u \in Unit : unit[u].member
  /\ UNCHANGED <<inbox, idle, issued, outages, faults>>
  /\ \E w \in {UpdateRaidStatusAndOwn(World)} :
       \E x \in PnpHandled(w) : Settle(Outcome(x, res, FALSE, ToNone), count)

\* semaphore_timedwait ran out: the array is idle.
TimedOutStaysBusy ==
  /\ inbox = <<>> /\ ~idle
  /\ UNCHANGED vars

TimedOut ==
  /\ inbox = <<>> /\ (~idle \/ (cmd # NULL /\ raid.rs = "Broken"))
  /\ UNCHANGED <<unit, raid, res, count, inbox, issued, outages, faults>>
  /\ idle' = TRUE
  /\ AnsweredIf(FALSE, raid.rs, res)

Recover ==
  /\ raid.rs = "Recovering" /\ inbox = <<>> /\ idle
  /\ UNCHANGED <<command, inbox, idle, issued, outages, history, faults>>
  /\ \A u \in Unit : unit[u].queue = <<>>
  /\ \E w \in Recovery(World) : unit' = w.unit /\ raid' = w.raid

(************************ the threads of the disks *************************)

\* P = {<<the unit, a command it answers or NULL>>}; an answer of a disk that
\* the array has let go is lost.
UnitStep(u, P) ==
  /\ UNCHANGED <<raid, command, idle, issued, outages, refusals, history>>
  /\ \E p \in P :
       /\ unit' = [unit EXCEPT ![u] = p[1]]
       /\ inbox' = IF p[2] # NULL /\ unit[u].member
                   THEN Append(inbox, [k |-> "done", c |-> p[2]]) ELSE inbox

\* The values of the writes that disk u refuses now, though it is connected.
Refusals(u) ==
  LET c == Head(unit[u].queue)
  IN IF Running(unit[u]) /\ unit[u].sess = "up" /\ c.op = "write" /\ "write" \in unit[u].fails
     THEN {c.val} ELSE {}

UnitSrb(u) ==
  /\ unit[u].queue # <<>>
  /\ refused' = refused \cup Refusals(u)
  /\ UnitStep(u, {ProcessSrb(unit[u], landed) : landed \in BOOLEAN})

\* late: the time to connect is over; asked: the array wants the disk mounted
UnitPnp(u, late, asked) ==
  /\ unit[u].link /\ unit[u].status # "NotPresent"
  /\ Careful => ~late
  /\ UNCHANGED refused
  /\ UnitStep(u, {Broadcast(unit[u], late, asked, asked)})

UnitGone(u) ==
  /\ ~unit[u].link /\ unit[u].status # "NotPresent"
  /\ UNCHANGED refused
  /\ UnitStep(u, {Gone(unit[u])})

(************************ the bus enumerator's thread **********************)

ByBus(u, x) ==
  LET w == UpdateRAIDStatus([World EXCEPT !.unit[u] = x])
  IN /\ unit' = w.unit /\ raid' = w.raid
     /\ UNCHANGED <<command, idle, issued, outages, history, faults>>

\* While no command is in progress: see the README.
Quiet == Careful => cmd = NULL

BusRemoves(u) ==
  /\ unit[u].status = "NotPresent" /\ unit[u].member /\ Quiet
  /\ inbox' = Append(inbox, [k |-> "noPnp"])
  /\ ByBus(u, [unit[u] EXCEPT !.member = FALSE])

\* createUnitDevice of a disk found again, createRAIDDevice for it
Appear(u) ==
  /\ unit[u].link /\ unit[u].status = "NotPresent" /\ ~unit[u].member /\ Quiet
  /\ UNCHANGED inbox
  /\ ByBus(u, [Found(unit[u]) EXCEPT !.member = TRUE])

(**************************** the environment ******************************)

\* What the history still knows when disk u has failed the next write: one write
\* more is noted till then, if u has none to fail.
Known(u) ==
  LET h == raid.history
      more == IF unit[u].queue # <<>> /\ Head(unit[u].queue).op = "write" THEN 0 ELSE 1
  IN {h[k] : k \in {j \in DOMAIN h : Len(h) - j + more <= Cache}}

\* A disk is switched off while the other one serves.  If Careful, the history
\* knows what it loses; a write that a disk refused took a place in the history
\* and none in the cache, which is then the longer of the two.
SwitchOff(u) ==
  /\ unit[u].link /\ outages < MaxOutages
  /\ UNCHANGED <<raid, command, inbox, idle, issued, history, faults>>
  /\ \A v \in Unit : Running(unit[v]) /\ unit[v].sess = "up"
  /\ Careful => raid.rs = "Good"
  /\ \E lost \in SUBSET Cached(unit[u]) :
       /\ Careful => lost \subseteq IF refused = {} THEN Blocks(raid.history) ELSE Known(u)
       /\ unit' = [unit EXCEPT ![u] = Lose(unit[u], lost)]
  /\ outages' = outages + 1

\* It is switched on again: if Careful, not before the array has marked it and
\* its thread has taken the commands that were sent to it before.
SwitchOn(u) ==
  /\ ~unit[u].link
  /\ UNCHANGED <<raid, command, inbox, idle, issued, outages, history, faults>>
  /\ Careful => raid.rs = "BrokenButWorkable" /\ unit[u].queue = <<>>
  /\ unit' = [unit EXCEPT ![u].link = TRUE]

\* Disk u is to refuse its next I/O of kind k.
Falter(u, k) ==
  /\ refusals < MaxRefusals /\ k \in Refusable \ unit[u].fails
  /\ Running(unit[u]) /\ unit[u].sess = "up"
  /\ k \in {"read", "write"} => unit[u].queue # <<>> /\ Head(unit[u].queue).op = k
  /\ k = "copy" => raid.rs = "Recovering"
  /\ unit' = [unit EXCEPT ![u].fails = @ \cup {k}]
  /\ refusals' = refusals + 1
  /\ UNCHANGED <<raid, command, inbox, idle, issued, outages, history, refused>>

Environment ==
  \/ \E op \in {"read", "write"}, lo, hi \in Block :
       /\ op = "write" => lo = hi
       /\ lo = hi \/ (lo = 0 /\ hi = Capacity - 1)
       /\ Issue(op, lo, hi)
  \/ \E u \in Unit : SwitchOff(u) \/ SwitchOn(u)
  \/ \E u \in Unit, k \in Kind : Falter(u, k)

Next ==
  \/ Environment
  \/ WorkerSrb \/ WorkerCompleted \/ WorkerNoPnp \/ WorkerPnp \/ TimedOut \/ Recover
  \/ \E u \in Unit : UnitSrb(u) \/ UnitGone(u) \/ BusRemoves(u) \/ Appear(u)
  \/ \E u \in Unit, late, asked \in BOOLEAN : UnitPnp(u, late, asked)

Spec == Init /\ [][Next]_vars

(******************************* properties ********************************)

\* A write that one disk refused, and the other answered last, is answered in
\* full: block b may hold its value or not till it is written again.
Doubtful(b) == want[b] \cap refused # {}

Copies == \A b \in Block : unit[0].data[b] = unit[1].data[b] \/ Doubtful(b)

\* The values the model's variables have, and the bounds of the history, of the
\* bitmap, of the sector of the recovery (NDASRAIDUnitDevice.cpp) and of the
\* unsigned fNumberOfNewBuildCommands, which is decreased for every answer.
TypeOK ==
  /\ \A u \in Unit :
       /\ unit[u].status \in {"Disconnected", "TryConnectRW", "ConnectedRW", "ReconnectRW",
                              "TryDisconnectRW", "NotPresent"}
       /\ unit[u].sess \in {"up", "broken", "none"}
       /\ unit[u].data \in [Block -> Garbage..MaxCmds]
       /\ unit[u].map \subseteq 0..Capacity
       /\ Len(unit[u].recent) <= Cache
       /\ unit[u].fails \subseteq Refusable
       /\ unit[u].mem.notSynced \cup unit[u].rmd.notSynced \subseteq Unit
  /\ raid.rs \in {"NotReady", "Good", "ReadyToRecovery", "Recovering",
                  "GoodButPartiallyFailed", "BrokenButWorkable", "Broken"}
  /\ raid.sub \in [Unit -> {"Good", "Recovering", "NeedRecovery", "NotPresent", "Failure"}]
  /\ raid.map \in {NULL} \cup SUBSET (0..Capacity)
  /\ raid.sector \in 0..Capacity
  /\ Len(raid.history) <= Cache + 1
  /\ idle \in BOOLEAN /\ count \in Nat
  /\ want \in [Block -> SUBSET (0..MaxCmds)]
  /\ refused \subseteq 0..MaxCmds

\* The commands sent to disk u and not yet answered by it.
Unanswered(u) == Len(unit[u].queue) + (IF unit[u].pend = NULL THEN 0 ELSE 1)
Answers == Cardinality({i \in DOMAIN inbox : inbox[i].k = "done"})

\* fNumberOfNewBuildCommands is the number of commands of the disks that the
\* worker has still to take back, whatever disk fails or is let go meanwhile,
\* and none is left when the host is answered: no late answer is taken for
\* one to the next command.
CountMatches ==
  /\ count = Unanswered(0) + Unanswered(1) + Answers
  /\ cmd = NULL => count = 0

\* Block b is marked to be copied, or is to be marked if a disk is lost now.
Marked(b) ==
  LET m == IF raid.map # NULL THEN raid.map
           ELSE UNION {unit[u].map : u \in SubUnits(World, "Good")}
  IN IF raid.dirty THEN b \in m /\ (raid.rs = "Recovering" => raid.sector <= b)
                   ELSE b \in Blocks(raid.history)

\* A block in which the disks differ is being written by the command in
\* progress, or the bitmap or the history of writes knows it, or a disk refused
\* a write of it: whatever a disk lost with its cache, the recovery will copy it.
Recorded ==
  \A b \in Block : \/ unit[0].data[b] = unit[1].data[b]
                  \/ (cmd # NULL /\ cmd.op = "write" /\ cmd.lo = b)
                  \/ Marked(b)
                  \/ Doubtful(b)

\* When the array is no longer dirty, at the end of a recovery, its disks hold
\* the same: "Recovery is done" (NDASRAIDUnitDevice.cpp, recovery).  They may
\* differ only where a disk refused a write that the host has not repeated.
RecoveryDoneInSync == [][raid.dirty /\ ~raid'.dirty => Copies']_vars

\* The array is one disk to the host: whichever disks a command was sent to,
\* and in whatever order they answer, a read that is answered in full returns
\* what was last written (processSrbCompletedCommand); but a write that a disk
\* refused may be there or not, even if it is answered in full.
Disk == INSTANCE AtomicDisk WITH Value <- 0..MaxCmds, NoReq <- NULL, Blank <- 0,
                                 content <- want, req <- cmd, spoilt <- refused
DiskSpec == Disk!Spec

\* The threads run, disks that are on broadcast, the host does what it likes.
Fairness ==
  /\ WF_vars(WorkerSrb \/ WorkerCompleted \/ WorkerNoPnp)
  /\ WF_vars(WorkerPnp) /\ WF_vars(TimedOut) /\ WF_vars(Recover)
  /\ \A u \in Unit :
       /\ WF_vars(UnitSrb(u)) /\ WF_vars(UnitPnp(u, FALSE, TRUE)) /\ WF_vars(UnitGone(u))
       /\ WF_vars(BusRemoves(u) \/ Appear(u))

FairSpec == Spec /\ Fairness

\* Every command is answered once the disks refuse nothing more, though a disk
\* may be lost with a command that waits for its reconnection
\* (setPendingCommand, processNoPnPMessageFromNDAS).
CommandCompletes == cmd # NULL ~> cmd = NULL

\* Once the disks stay on and refuse nothing more, the array recovers, though it
\* is interrupted by commands and by I/O refused before, and is mirrored again.
MirrorRestored ==
  <>[](\A u \in Unit : unit[u].link) => <>[](raid.rs = "Good" /\ Copies)
=============================================================================

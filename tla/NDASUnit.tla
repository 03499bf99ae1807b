------------------------------ MODULE NDASUnit ------------------------------
(***************************************************************************)
(* One disk of an array: the physical unit device and the controller       *)
(* thread that serves it (trunk NDASPhysicalUnitDevice.cpp,                *)
(* NDASDeviceController.cpp, NDASDevice.cpp), as functions of the unit.    *)
(*                                                                         *)
(* A unit u is a record:                                                   *)
(*   status   Status() of the unit device, "NotPresent" once it is deleted *)
(*   link     the disk answers on the network                              *)
(*   sess     the data session: "up", "broken" while fConnected is still   *)
(*            set but the session is lost, "none"                          *)
(*   queue    the SCSI commands the controller thread has not yet taken    *)
(*   pend     fTargetPendingCommand                                        *)
(*   member   UnitDeviceAtIndex of the array is this unit device           *)
(*   mem      the copy of the RAID metadata in memory, fRMD                *)
(*   rmd, map, data    on the disk: metadata, dirty bitmap, user blocks    *)
(*   recent   on the disk: the last writes, still in its volatile cache,   *)
(*            with what they replaced                                      *)
(*   fails    the kinds of I/O of which the disk refuses the next one:     *)
(*            any lsp error but -3, a medium error for one; the session,   *)
(*            the status and what the disk holds are kept                  *)
(***************************************************************************)
EXTENDS Integers, Sequences

CONSTANTS
  Cache,   \* DISK_CACHE_SIZE_BY_BLOCK_SIZE: blocks the cache of a disk holds
  NULL,    \* no command
  Refusable \* the kinds of I/O that a disk may refuse

ASSUME CacheAssumption == Cache \in Nat

\* SCSI commands, and managing I/O: the copying of blocks, the RAID metadata,
\* the dirty bitmap.
Kind == {"read", "write", "copy", "readRMD", "writeRMD", "map"}

ASSUME RefusableAssumption == Refusable \subseteq Kind

\* Only({F(x) : x \in {e}}) is F(e): TLC evaluates e once, where it may
\* evaluate it again at each use of a LET.
Only(S) == CHOOSE x \in S : TRUE

Running(u) == u.status \in {"ConnectedRW", "ReconnectRW"}
Connected(u) == u.sess # "none"

\* A command for blocks lo..hi, and its answer: whether the task status is
\* GOOD (as it is in a command just built), the blocks transferred, the data.
Command(op, lo, hi, val) ==
  [op |-> op, lo |-> lo, hi |-> hi, val |-> val, ok |-> TRUE, xfer |-> 0, vals |-> <<>>]

(*********************** the session and the status ************************)

CheckDataConnection(u) == IF u.sess = "broken" THEN [u EXCEPT !.sess = "none"] ELSE u

\* late: the time to connect or reconnect is over; configured: the array has
\* asked for the unit to be mounted.
UpdateStatus(u, late, configured) ==
  LET s == u.status
      connected == u.sess = "up"
      next == CASE s = "Disconnected" /\ configured -> "TryConnectRW"
                [] s \in {"TryConnectRW", "ReconnectRW"} /\ connected -> "ConnectedRW"
                [] s \in {"TryConnectRW", "ReconnectRW"} /\ ~connected /\ late -> "TryDisconnectRW"
                [] s = "ConnectedRW" /\ ~connected -> "ReconnectRW"
                [] s = "TryDisconnectRW" /\ ~connected -> "Disconnected"
                [] OTHER -> s
  IN [CheckDataConnection(u) EXCEPT !.status = next]

\* A pending command is answered, and is not pending any more.
AnswerPendingAgain(u) == <<u, u.pend>>

AnswerPending(u) == <<[u EXCEPT !.pend = NULL], u.pend>>

(* updateUnitDevice, for a broadcast of the disk: connect, or let go.  The   *)
(* second value is the pending command it answers, if it answers one.        *)
Broadcast(u, late, configured, mounted) ==
  LET connect(x) ==
        CASE x.status \in {"TryConnectRW", "ReconnectRW"} /\ mounted -> [x EXCEPT !.sess = "up"]
          [] x.status = "TryDisconnectRW" -> [x EXCEPT !.sess = "none"]
          [] OTHER -> x
      answer(x) == IF x.status \in {"ConnectedRW", "Disconnected"}
                   THEN AnswerPending(x) ELSE <<x, NULL>>
      updated == {UpdateStatus(y, FALSE, FALSE) :
                    y \in {connect(x) : x \in {UpdateStatus(u, late, configured)}}}
  IN Only({answer(z) : z \in updated})

\* No broadcast for too long, and no session: the unit device is deleted.
GoneSilently(u) ==
  <<[CheckDataConnection(u) EXCEPT !.status = "NotPresent", !.pend = NULL], NULL>>

Gone(u) ==
  <<[CheckDataConnection(u) EXCEPT !.status = "NotPresent", !.pend = NULL], u.pend>>

\* The disk is found again: a unit device is created and reads the metadata.
Found(u) == [u EXCEPT !.status = "Disconnected", !.mem = u.rmd]

(****************************** SCSI commands ******************************)

Store(u, b, v) ==
  LET written == Append(u.recent, [b |-> b, old |-> u.data[b]])
  IN [u EXCEPT !.data[b] = v,
               !.recent = SubSeq(written, 1 + (IF Len(written) > Cache THEN 1 ELSE 0), Len(written))]

Failed(c) == [c EXCEPT !.ok = FALSE]

\* setPendingCommand: a read of an array does not wait, it is answered as it is.
SetPendingToo(u, c) ==
  IF c.op = "read" THEN <<u, c>> ELSE <<[u EXCEPT !.pend = c], c>>

SetPending(u, c) ==
  IF c.op = "read" THEN <<u, c>> ELSE <<[u EXCEPT !.pend = c], NULL>>

Refused(u, k) == [u EXCEPT !.fails = @ \ {k}]

\* A read that the disk refuses half-way is answered with the blocks read till
\* then; the array does not look at them.
ProcessRead(u, c) ==
  IF "read" \in u.fails THEN <<Refused(u, "read"), Failed(c)>>
  ELSE <<u, [c EXCEPT !.xfer = c.hi - c.lo + 1, !.vals = [b \in c.lo..c.hi |-> u.data[b]]]>>

\* A write is of one block.
ProcessWrite(u, c) ==
  IF "write" \in u.fails THEN <<Refused(u, "write"), Failed(c)>>
  ELSE <<Store(u, c.lo, c.val), [c EXCEPT !.xfer = 1]>>

Execute(u, c) == IF c.op = "read" THEN ProcessRead(u, c) ELSE ProcessWrite(u, c)

(* processSrbCommand for the first command of the queue: the unit, and the   *)
(* command if it is answered.  A write on a lost session may have landed.    *)
ProcessSrb(u, landed) ==
  LET c == Head(u.queue)
      x == [u EXCEPT !.queue = Tail(@)]
      hit == IF landed /\ c.op = "write" THEN Store(x, c.lo, c.val) ELSE x
  IN CASE ~Running(u) -> <<x, Failed(c)>>
       [] Running(u) /\ u.sess = "none" -> SetPending(x, c)
       [] Running(u) /\ u.sess = "up" -> Execute(x, c)
       [] Running(u) /\ u.sess = "broken" -> SetPending(UpdateStatus(hit, FALSE, FALSE), Failed(c))

(******** managing I/O: the array reads and writes sectors and waits *******)

(* processManagingIOCommand logs in for itself when there is no session.  If *)
(* that login fails the result is still true: nothing is read or written,    *)
(* and only the check of the metadata's signature notices it.  An I/O of     *)
(* kind k that the disk refuses has the result false.                        *)
Reached(u) == u.sess = "up" \/ (u.sess = "none" /\ u.link)
ManagingLands(u, k) == Reached(u) /\ k \notin u.fails
ManagingIsSuccess(u, k) == u.sess # "broken" /\ (Reached(u) => k \notin u.fails)
ManagingAfter(u, k) == UpdateStatus(IF Reached(u) THEN Refused(u, k) ELSE u, FALSE, FALSE)

CheckRMD(u) ==
  IF ManagingLands(u, "readRMD") THEN [u EXCEPT !.mem = u.rmd] ELSE ManagingAfter(u, "readRMD")

\* writeSectorsOnce of the metadata, and checkRMD when it claims success
WriteRMD(u, r) ==
  IF ManagingLands(u, "writeRMD") THEN [u EXCEPT !.rmd = r] ELSE ManagingAfter(u, "writeRMD")
WriteAndCheckRMD(u, r) ==
  IF ManagingIsSuccess(u, "writeRMD") THEN CheckRMD(WriteRMD(u, r)) ELSE WriteRMD(u, r)

WriteMap(u, m) ==
  IF ManagingLands(u, "map") THEN [u EXCEPT !.map = m] ELSE ManagingAfter(u, "map")

(******************************** outages **********************************)

\* The disk is off: the session is lost, and the cached writes of `lost`.
Lose(u, lost) ==
  LET old(b) == LET S == {k \in DOMAIN u.recent : u.recent[k].b = b}
                IN u.recent[CHOOSE k \in S : \A j \in S : k <= j].old
  IN [u EXCEPT !.link = FALSE,
               !.sess = IF @ = "up" THEN "broken" ELSE @,
               !.data = [b \in DOMAIN u.data |-> IF b \in lost THEN old(b) ELSE u.data[b]],
               !.recent = <<>>]

Cached(u) == {u.recent[k].b : k \in DOMAIN u.recent}
=============================================================================

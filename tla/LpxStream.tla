----------------------------- MODULE LpxStream ------------------------------
(***************************************************************************)
(* The data phase of netlpx/lpx_stream.c: one direction of an established  *)
(* LPX stream connection.  "snd" is the end whose user writes, "rcv" the   *)
(* end whose user reads; both run lpx_stream_input, lpx_stream_reass,      *)
(* lpx_stream_output and lpx_stream_timers.  The reverse direction is the  *)
(* same code with the ends exchanged and shares nothing with this one but  *)
(* the control block's flags.                                              *)
(*                                                                         *)
(* Record n is the n-th record the user writes.  so_snd holds the records  *)
(* snd_head .. s_seq-1: sbappendrecord adds s_seq at the tail and          *)
(* sbdroprecord removes the head, so the numbers are always contiguous.    *)
(*                                                                         *)
(* Handlers run under the domain mutex and are atomic here, except that    *)
(* lpx_stream_reass releases the mutex around sock_inject_data_in: the     *)
(* record being handed over is in "injecting" meanwhile and the timers of  *)
(* that end may run.  One input thread serves an interface, so the next    *)
(* packet is taken only when the handler of the last one has returned.     *)
(*                                                                         *)
(* A definition right above another one of the same parameters is a slip   *)
(* the code could have in its place (a missing count, a plain comparison   *)
(* of 16-bit numbers, an off-by-one); no action uses it.                   *)
(***************************************************************************)
EXTENDS LpxSeq, Sequences, FiniteSets

CONSTANTS
  SndLimit,             \* records so_snd has room for (so_snd.sb_hiwat)
  Lifetime,             \* records written while a packet is in the network
  Continued,            \* records of exactly one mtu: PACKETS_CONTINUE is set
  SmallLengthDelayedAck,\* option of the connection: bSmallLengthDelayedAck
  DefaultWindowSize,    \* DEFAULT_WINDOW_SIZE
  MaxRxtShift,          \* SMP_MAXRXTSHIFT
  KeepTicks,            \* SMPTV_KEEP
  MaxIdle,              \* SMPTV_MAXIDLE
  MaxRecords            \* bound: records the user writes

(***************************************************************************)
(* A packet is lost or received before the writer has used up so many      *)
(* sequence numbers that its own could be taken for another's: on one      *)
(* Ethernet segment, 2^15 records outlive any packet.                      *)
(***************************************************************************)
ASSUME StreamAssumption ==
  /\ SndLimit \in Nat \ {0}
  /\ Lifetime \in Nat
  /\ SndLimit <= Lifetime
  /\ Lifetime + SndLimit < Half
  /\ SmallLengthDelayedAck \in BOOLEAN
  /\ DefaultWindowSize \in Nat
  /\ MaxRxtShift \in Nat
  /\ KeepTicks \in Nat \ {0}
  /\ MaxIdle \in Nat
  /\ MaxRecords \in Nat

VARIABLES
  s_state,    \* [End -> {"ESTABLISHED", "CLOSED"}]
  s_idle,     \* [End -> ticks since the last packet arrived]
  s_seq,      \* snd: number the next record will get
  snd_head,   \* snd: number of the first record in so_snd
  s_snxt,     \* snd: number of the next record to transmit
  s_rack,     \* snd: acknowledgement last received
  s_smax,     \* snd: highest number transmitted
  s_rexmt,    \* snd: s_timer[SMPT_REXMT] # 0
  s_rxtshift, \* snd: expirations since a record was acknowledged
  s_ack,      \* rcv: number of the record expected next
  s_q,        \* rcv: records received ahead of s_ack
  s_acknow,   \* rcv: SF_ACKNOW
  delayedAckCount, \* rcv
  injecting,  \* rcv: records at sock_inject_data_in, mutex released
  inputCont,  \* rcv: PACKETS_CONTINUE bit of the packet being processed
  so_rcv,     \* rcv: records in the receive buffer, in order
  toRcv,      \* packets in the network for rcv
  toSnd       \* packets in the network for snd

sndVars == <<s_seq, snd_head, s_snxt, s_rack, s_smax, s_rexmt, s_rxtshift>>
rcvVars == <<s_ack, s_q, s_acknow, delayedAckCount, injecting, inputCont,
             so_rcv>>
vars == <<s_state, s_idle, sndVars, rcvVars, toRcv, toSnd>>

End == {"snd", "rcv"}

(* Packets for rcv carry a record or only control bits; the fields rcv     *)
(* does not read are 0.  Packets for snd carry the acknowledgement.        *)
DataPacket(n)      == [lsctl |-> "DATA", num |-> n]
ControlPacket(c)   == [lsctl |-> c, num |-> 0]
AckPacket(c, a)    == [lsctl |-> c, num |-> a]

RcvPacket == [lsctl : {"DATA"}, num : Nat] \cup
             [lsctl : {"ACK", "ACKREQ"}, num : {0}]
SndPacket == [lsctl : {"ACK", "ACKREQ"}, num : Nat]

SoSnd == snd_head .. s_seq - 1

Init ==
  /\ s_state = [e \in End |-> "ESTABLISHED"]
  /\ s_idle = [e \in End |-> 0]
  /\ s_seq = 1 /\ snd_head = 1 /\ s_snxt = 1 /\ s_rack = 1 /\ s_smax = 0
  /\ s_rexmt = FALSE
  /\ s_rxtshift = 0
  /\ s_ack = 1
  /\ s_q = {}
  /\ s_acknow = FALSE
  /\ delayedAckCount = DefaultWindowSize
  /\ injecting = {}
  /\ inputCont = FALSE
  /\ so_rcv = <<>>
  /\ toRcv = {}
  /\ toSnd = {}

-----------------------------------------------------------------------------
(***************************************************************************)
(* lpx_stream_output                                                       *)
(***************************************************************************)

(* The search at "send:": the first record of q not before snxt, if its    *)
(* number is snxt; otherwise smps_sndvoid is counted and nothing is found. *)
Requested(q, snxt) ==
  LET notBefore == {n \in q : SSEQ_LEQ(snxt, n)}
  IN  {n \in notBefore : SSEQ_EQ(n, snxt) /\ \A m \in notBefore : n <= m}

(* The loop "again:" ... "goto again" transmits from the requested record  *)
(* to the end of so_snd.                                                   *)
Burst(q, snxt) == {n \in q : \E m \in Requested(q, snxt) : m <= n}

(***************************************************************************)
(* The writer's lpx_stream_output with the send queue q, s_snxt = snxt,    *)
(* s_rack = rack and the timer armed or not.  ctl is the packet due when   *)
(* no record is requested: s_force or SF_ACKNOW is set iff ctl # {}.       *)
(***************************************************************************)
SndOutput(q, next, snxt, rack, armed, ctl) ==
  LET burst == Burst(q, snxt)
  IN  /\ toRcv' = toRcv \cup
                  (IF burst = {} THEN ctl ELSE {DataPacket(n) : n \in burst})
      /\ s_snxt' = IF burst = {} THEN snxt ELSE next
      /\ s_smax' = IF burst # {} /\ SSEQ_LT(s_smax, next - 1)
                     THEN next - 1 ELSE s_smax
      /\ s_rexmt' = (armed \/ \E n \in burst : ~SSEQ_EQ(n + 1, rack))

(* The reader has no record to send: its lpx_stream_output only sends the  *)
(* control packet that is due, and clears SF_ACKNOW when it does.          *)
RcvOutput(ctl, ack) == toSnd' = toSnd \cup {AckPacket(c, ack) : c \in ctl}

-----------------------------------------------------------------------------
(***************************************************************************)
(* lpx_stream_user_send: the record is appended and the queue transmitted  *)
(* from s_snxt on.  A write longer than the mtu is several of these.  The  *)
(* last conjunct is the lifetime assumption: every packet in the network   *)
(* is younger than Lifetime records.                                       *)
(***************************************************************************)
UserSend ==
  /\ s_state["snd"] = "ESTABLISHED"
  /\ s_seq - snd_head < SndLimit
  /\ s_seq <= MaxRecords
  /\ \A p \in toSnd : s_seq + 1 <= p.num + Lifetime
  /\ \A p \in toRcv : p.lsctl = "DATA" => s_seq + 1 <= p.num + Lifetime
  /\ s_seq' = s_seq + 1
  /\ SndOutput(snd_head .. s_seq, s_seq + 1, s_snxt, s_rack, s_rexmt, {})
  /\ UNCHANGED <<s_state, s_idle, snd_head, s_rack, s_rxtshift, rcvVars, toSnd>>

(* The trimming loop's test of the record n against the acknowledgement a. *)
AckedInclusive(n, a) == SSEQ_LEQ(n, a) /\ U16(a) - U16(n) < Int16Max
Acked(n, a) == SSEQ_LT(n, a) /\ U16(a) - U16(n) < Int16Max

(* The test that stops the retransmission timer.                           *)
AllAckedOffByOne(a) == U16(a) = U16(s_smax)
AllAckedOfNext(a) == IsSuccessor(a, s_snxt)
AllAcked(a) == IsSuccessor(a, s_smax)

(* s_snxt after the acknowledgement a: it never falls behind s_rack.       *)
SnxtAfterPlain(a) == IF U16(s_snxt) < U16(a) THEN a ELSE s_snxt
SnxtAfter(a) == IF SSEQ_LT(s_snxt, a) THEN a ELSE s_snxt

(* s_rxtshift when the head of so_snd has moved to h.                      *)
RxtshiftCleared(h) == 0
RxtshiftAfter(h) == IF h # snd_head THEN 0 ELSE s_rxtshift

(***************************************************************************)
(* lpx_stream_input at the writer, of a packet with acknowledgement a:     *)
(* lpx_stream_reass stops the timer if a acknowledges all that was sent,   *)
(* trims so_snd, and takes a as s_rack whatever it is.                     *)
(***************************************************************************)
SndInput(p) ==
  /\ p \in toSnd
  /\ LET a   == p.num
         all == AllAcked(a)
         req == p.lsctl = "ACKREQ" /\ s_state["snd"] = "ESTABLISHED"
         ctl == IF req THEN {ControlPacket("ACK")} ELSE {}
     IN \E h \in snd_head .. s_seq :
          /\ \A n \in snd_head .. h - 1 : Acked(n, a)
          /\ h = s_seq \/ ~Acked(h, a)
          /\ snd_head' = h
          /\ s_rxtshift' = RxtshiftAfter(h)
          /\ s_rack' = a
          /\ IF all \/ req
             THEN SndOutput(h .. s_seq - 1, s_seq, SnxtAfter(a), a,
                            s_rexmt /\ ~all, ctl)
             ELSE /\ s_snxt' = SnxtAfter(a)
                  /\ UNCHANGED <<toRcv, s_smax, s_rexmt>>
  /\ s_idle' = [s_idle EXCEPT !["snd"] = 0]
  /\ UNCHANGED <<s_state, s_seq, rcvVars, toSnd>>

-----------------------------------------------------------------------------
(***************************************************************************)
(* lpx_stream_timers at the writer.  lpx_stream_drop closes the block and  *)
(* calls lpx_stream_output once more, with s_force still set by the timer; *)
(* a block that is not established arms the timer for a control packet     *)
(* too.                                                                    *)
(***************************************************************************)
SndDrop ==
  /\ s_state' = [s_state EXCEPT !["snd"] = "CLOSED"]
  /\ SndOutput(SoSnd, s_seq, s_snxt, s_rack, TRUE, {ControlPacket("ACK")})

RexmtTimeout ==
  /\ s_state["snd"] = "ESTABLISHED"
  /\ s_rexmt
  /\ IF s_rxtshift = MaxRxtShift
     THEN /\ SndDrop
          /\ UNCHANGED s_rxtshift
     ELSE /\ s_rxtshift' = s_rxtshift + 1
          /\ SndOutput(SoSnd, s_seq, s_rack, s_rack, TRUE,
                       {ControlPacket("ACK")})
          /\ UNCHANGED s_state
  /\ UNCHANGED <<s_idle, s_seq, snd_head, s_rack, rcvVars, toSnd>>

(***************************************************************************)
(* lpx_stream_slowtimo, the keep-alive timer and s_idle.  Every packet     *)
(* resets both, and the timer is reloaded when it fires, so it fires on    *)
(* every KeepTicks-th tick without a packet.                               *)
(***************************************************************************)
KeepFires(e) == (s_idle[e] + 1) % KeepTicks = 0

ProbeClearsIdle(e) ==
  [s_idle EXCEPT ![e] = IF KeepFires(e) THEN 0 ELSE @ + 1]
IdleTick(e) == [s_idle EXCEPT ![e] = @ + 1]

SndKeepTick ==
  /\ s_state["snd"] = "ESTABLISHED"
  /\ s_idle' = IdleTick("snd")
  /\ IF ~KeepFires("snd")
     THEN UNCHANGED <<s_state, s_snxt, s_smax, s_rexmt, toRcv>>
     ELSE IF s_idle["snd"] >= MaxIdle
          THEN SndDrop
          ELSE /\ SndOutput(SoSnd, s_seq, s_snxt, s_rack, s_rexmt,
                            {ControlPacket("ACKREQ")})
               /\ UNCHANGED s_state
  /\ UNCHANGED <<s_seq, snd_head, s_rack, s_rxtshift, rcvVars, toSnd>>

RcvKeepTick ==
  /\ s_state["rcv"] = "ESTABLISHED"
  /\ s_idle' = IdleTick("rcv")
  /\ IF ~KeepFires("rcv")
     THEN UNCHANGED <<s_state, s_acknow, toSnd>>
     ELSE /\ s_acknow' = FALSE
          /\ IF s_idle["rcv"] >= MaxIdle
             THEN /\ s_state' = [s_state EXCEPT !["rcv"] = "CLOSED"]
                  /\ RcvOutput({"ACK"}, s_ack)
             ELSE /\ RcvOutput({"ACKREQ"}, s_ack)
                  /\ UNCHANGED s_state
  /\ UNCHANGED <<sndVars, s_ack, s_q, delayedAckCount, injecting, inputCont,
                 so_rcv, toRcv>>

-----------------------------------------------------------------------------
(***************************************************************************)
(* lpx_stream_input at the reader                                          *)
(***************************************************************************)

(* The packets-continue bit may hold an acknowledgement back,              *)
(* DefaultWindowSize times in a row.                                       *)
HoldsAckUncounted(cont) == cont /\ SmallLengthDelayedAck
HoldsAck(cont) == cont /\ SmallLengthDelayedAck /\ delayedAckCount > 0

(* The end of lpx_stream_input, after lpx_stream_reass: unless it is held  *)
(* back, SF_ACKNOW makes lpx_stream_output send an acknowledgement.        *)
FinishInput(acknow, cont, ack) ==
  LET hold == acknow /\ HoldsAck(cont)
  IN  /\ delayedAckCount' =
           IF ~acknow \/ ~SmallLengthDelayedAck THEN delayedAckCount
           ELSE IF hold THEN delayedAckCount - 1 ELSE DefaultWindowSize
      /\ RcvOutput(IF acknow /\ ~hold THEN {"ACK"} ELSE {}, ack)
      /\ s_acknow' = FALSE

(* The record the loop "present:" takes out of the queue q.                *)
HeadOf(q) == {n \in q : \A m \in q : n <= m}
Due(q) == {n \in q : SSEQ_EQ(n, s_ack)}

(* One turn of the loop "present:" of lpx_stream_reass over the queue q.   *)
(* The record expected next leaves q and is handed to sock_inject_data_in  *)
(* with the mutex released; without one the handler runs to its end.       *)
Present(q, acknow, cont) ==
  LET next == Due(q)
  IN  /\ injecting' = next
      /\ s_q' = q \ next
      /\ inputCont' = (cont /\ next # {})
      /\ IF next # {}
         THEN /\ s_ack' = s_ack + 1
              /\ s_acknow' = acknow
              /\ UNCHANGED <<delayedAckCount, toSnd>>
         ELSE /\ FinishInput(acknow, cont, s_ack)
              /\ UNCHANGED s_ack

(* Record num was received before: presented, or in the reorder queue.     *)
SeenPlain(num) == U16(num) < U16(s_ack) \/ \E n \in s_q : SSEQ_EQ(num, n)
Seen(num) == SSEQ_LT(num, s_ack) \/ \E n \in s_q : SSEQ_EQ(num, n)

RcvInput(p) ==
  /\ p \in toRcv
  /\ injecting = {}
  /\ s_idle' = [s_idle EXCEPT !["rcv"] = 0]
  /\ \/ /\ p.lsctl # "DATA"
        /\ FinishInput(s_acknow \/ (p.lsctl = "ACKREQ"
                                      /\ s_state["rcv"] = "ESTABLISHED"),
                       FALSE, s_ack)
        /\ UNCHANGED <<s_ack, s_q, injecting, inputCont>>
     \/ /\ p.lsctl = "DATA"
        /\ Seen(p.num)
        /\ FinishInput(TRUE, p.num \in Continued, s_ack)
        /\ UNCHANGED <<s_ack, s_q, injecting, inputCont>>
     \/ /\ p.lsctl = "DATA"
        /\ ~Seen(p.num)
        /\ Present(s_q \cup {p.num}, TRUE, p.num \in Continued)
  /\ UNCHANGED <<s_state, sndVars, so_rcv, toRcv>>

(* sock_inject_data_in has appended the record and the mutex is held again *)
InjectDone ==
  /\ injecting # {}
  /\ \E n \in injecting : so_rcv' = Append(so_rcv, n)
  /\ Present(s_q, s_acknow, inputCont)
  /\ UNCHANGED <<s_state, s_idle, sndVars, toRcv>>

-----------------------------------------------------------------------------
(* The network delivers a packet any number of times, in any order, until  *)
(* it loses it.                                                            *)
LoseToRcv(p) ==
  /\ p \in toRcv
  /\ toRcv' = toRcv \ {p}
  /\ UNCHANGED <<s_state, s_idle, sndVars, rcvVars, toSnd>>

LoseToSnd(p) ==
  /\ p \in toSnd
  /\ toSnd' = toSnd \ {p}
  /\ UNCHANGED <<s_state, s_idle, sndVars, rcvVars, toRcv>>

Next ==
  \/ UserSend
  \/ RexmtTimeout
  \/ SndKeepTick
  \/ RcvKeepTick
  \/ InjectDone
  \/ \E p \in toSnd : SndInput(p) \/ LoseToSnd(p)
  \/ \E p \in toRcv : RcvInput(p) \/ LoseToRcv(p)

Spec == Init /\ [][Next]_vars

(***************************************************************************)
(* The kernel calls lpx_stream_slowtimo twice a second for ever, a call of *)
(* sock_inject_data_in returns, and a packet does not stay in the network  *)
(* for ever.  Nothing is assumed of what the network delivers.             *)
(***************************************************************************)
Fairness ==
  /\ WF_vars(RexmtTimeout)
  /\ WF_vars(SndKeepTick)
  /\ WF_vars(RcvKeepTick)
  /\ WF_vars(InjectDone)
  /\ \A n \in 1 .. MaxRecords : WF_vars(LoseToRcv(DataPacket(n)))
  /\ WF_vars(\E c \in {"ACK", "ACKREQ"} : LoseToRcv(ControlPacket(c)))
  /\ \A n \in 1 .. MaxRecords + 1 :
        WF_vars(\E c \in {"ACK", "ACKREQ"} : LoseToSnd(AckPacket(c, n)))

FairSpec == Spec /\ Fairness

-----------------------------------------------------------------------------
(***************************************************************************)
(* Properties                                                              *)
(***************************************************************************)
TypeOK ==
  /\ s_state \in [End -> {"ESTABLISHED", "CLOSED"}]
  /\ s_idle \in [End -> Nat]
  /\ s_seq \in Nat /\ snd_head \in Nat /\ s_snxt \in Nat
  /\ s_rack \in Nat /\ s_smax \in Nat
  /\ s_rexmt \in BOOLEAN
  /\ s_rxtshift \in 0 .. MaxRxtShift
  /\ s_ack \in Nat
  /\ s_q \in SUBSET Nat
  /\ s_acknow \in BOOLEAN
  /\ delayedAckCount \in 0 .. DefaultWindowSize
  /\ injecting \in SUBSET Nat
  /\ inputCont \in BOOLEAN
  /\ so_rcv \in Seq(Nat)
  /\ toRcv \in SUBSET RcvPacket
  /\ toSnd \in SUBSET SndPacket

(* The reader gets the records in the order they were written, each once   *)
(* and none missing, over lost, repeated and reordered packets and the     *)
(* wrap of the 16-bit numbers (lpx_stream_reass).                          *)
InOrder == \A i \in 1 .. Len(so_rcv) : so_rcv[i] = i

(* The writer forgets a record (sbdroprecord in lpx_stream_reass) only     *)
(* when the reader's user has it, or is being given it: a stale            *)
(* acknowledgement never trims a record still to be retransmitted.         *)
AckedWasTaken ==
  \A n \in 1 .. snd_head - 1 : n <= Len(so_rcv) \/ n \in injecting

(* The reorder queue holds only records that are still expected.  One that *)
(* was presented already would stay in s_q and be presented again when     *)
(* s_ack comes round to its number.                                        *)
ReorderQueueAhead == \A n \in s_q : s_ack <= n /\ n < s_seq

(* However old the acknowledgements that s_rack was set from, the next     *)
(* record to transmit lies between s_rack and the end of the queue, and    *)
(* everything the reader took was counted in s_smax as transmitted.        *)
SenderPointers ==
  /\ s_rack <= s_snxt /\ s_snxt <= s_seq
  /\ s_rack <= s_ack /\ s_ack <= s_smax + 1 /\ s_smax < s_seq

(* While a record was transmitted and not acknowledged, the retransmission *)
(* timer runs: clearing it in lpx_stream_reass and arming it in            *)
(* lpx_stream_output leave no such record without it.                      *)
RexmtCoversOutstanding ==
  (s_state["snd"] = "ESTABLISHED" /\ \E n \in SoSnd : n <= s_smax) => s_rexmt

(* The retransmission timer runs only while a record is unacknowledged, so *)
(* an idle connection is never dropped for want of an acknowledgement: "If *)
(* all outstanding data is acked, stop retransmit timer".                  *)
RexmtOnlyWhileUnacked ==
  (s_state["snd"] = "ESTABLISHED" /\ s_rexmt) => SoSnd # {}

(* When the retransmission timer fires there is a record for it to         *)
(* transmit: "Whenever the retransmit timer goes off, we retransmit one    *)
(* unacknowledged segment".                                                *)
RexmtFindsRecord ==
  (s_state["snd"] = "ESTABLISHED" /\ s_rexmt) => Requested(SoSnd, s_rack) # {}

(* The connection is a reliable stream: see ReliableStream.                *)
Reliable == INSTANCE ReliableStream WITH
              Capacity <- SndLimit + 1,
              written <- s_seq - 1,
              read <- so_rcv,
              closed <- s_state["snd"] = "CLOSED"

(* Every step of the protocol is a step of the reliable stream or leaves   *)
(* it alone.                                                               *)
ImplementsReliableStream == Reliable!Spec

(* A written record is read in the end, or the writer's connection is      *)
(* dropped: neither a loss, however long, nor a stale s_rack leaves both   *)
(* ends waiting for each other.                                            *)
WrittenIsReadOrClosed ==
  \A n \in 1 .. MaxRecords :
    n < s_seq ~> (n <= Len(so_rcv) \/ s_state["snd"] = "CLOSED")

(* When one end has dropped the connection, its peer finds out by its own  *)
(* keep-alive timer (lpx_stream_timers, SMPT_KEEP) and drops it too: no    *)
(* end stays established for ever on the strength of packets still about.  *)
HalfOpenDetected ==
  \A e \in End : s_state[e] = "CLOSED" ~> \A f \in End : s_state[f] = "CLOSED"

=============================================================================

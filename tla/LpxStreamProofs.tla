-------------------------- MODULE LpxStreamProofs ---------------------------
(***************************************************************************)
(* Proofs about LpxStream, for every modulus, window, lifetime and number  *)
(* of records that StreamAssumption allows.                                *)
(***************************************************************************)
EXTENDS LpxStream, TLAPS

-----------------------------------------------------------------------------
(* The inductive invariant.                                                *)

(* so_snd never holds more than SndLimit records, the reader expects one   *)
(* of them or the next one to be written.                                  *)
WindowInv ==
  /\ 1 <= snd_head /\ snd_head <= s_ack /\ s_ack <= s_seq
  /\ s_seq <= snd_head + SndLimit

(* Packets in the network are young and were sent by the code.             *)
PacketInv ==
  /\ \A p \in toSnd : 1 <= p.num /\ p.num <= s_ack /\ s_seq <= p.num + Lifetime
  /\ \A p \in toRcv : p.lsctl = "DATA" =>
       1 <= p.num /\ p.num < s_seq /\ s_seq <= p.num + Lifetime

(* What the reader presented is what was counted by s_ack, the record at   *)
(* sock_inject_data_in being the last one counted.                         *)
ReaderInv ==
  /\ ReorderQueueAhead
  /\ \/ injecting = {} /\ Len(so_rcv) = s_ack - 1
     \/ injecting = {s_ack - 1} /\ Len(so_rcv) = s_ack - 2
  /\ InOrder

(* The last acknowledgement is at most the head of so_snd, for it trimmed  *)
(* so_snd at least that far, and not older than Lifetime; what the reader  *)
(* has and what is in the network was counted in s_smax.                   *)
SenderInv ==
  /\ 1 <= s_rack /\ s_rack <= snd_head /\ snd_head <= s_rack + Lifetime
  /\ SenderPointers
  /\ \A p \in toRcv : p.lsctl = "DATA" => p.num <= s_smax
  /\ \A n \in s_q : n <= s_smax
  /\ RexmtCoversOutstanding

IInv == TypeOK /\ WindowInv /\ PacketInv /\ ReaderInv /\ SenderInv

-----------------------------------------------------------------------------
(* Comparison of 16-bit numbers less than half a cycle apart.              *)

(* The signed 16-bit difference of two numbers less than half a cycle      *)
(* apart is their difference.                                              *)
LEMMA ShortDifference ==
  ASSUME NEW d \in Int, -Half < d, d < Half
  PROVE  Short(d) = d
<1>1. Half \in Nat \ {0} /\ SeqMod \in Nat \ {0}
  BY HalfAssumption DEF SeqMod
<1>2. CASE 0 <= d
  <2>1. U16(d) = d
    BY <1>1, <1>2 DEF U16, SeqMod
  <2> QED BY <2>1, <1>1 DEF Short
<1>3. CASE d < 0
  <2>1. U16(d) = d + SeqMod
    BY <1>1, <1>3 DEF U16, SeqMod
  <2> QED BY <2>1, <1>1, <1>3 DEF Short, SeqMod
<1> QED BY <1>2, <1>3

(* SSEQ_LT and SSEQ_LEQ order two numbers less than half a cycle apart.    *)
LEMMA SeqOrder ==
  ASSUME NEW a \in Nat, NEW b \in Nat, a < b + Half, b < a + Half
  PROVE  /\ SSEQ_LT(a, b) <=> a < b
         /\ SSEQ_LEQ(a, b) <=> a <= b
<1>1. Half \in Nat
  BY HalfAssumption
<1>2. Short(a - b) = a - b
  BY ShortDifference, <1>1
<1> QED BY <1>2 DEF SSEQ_LT, SSEQ_LEQ

(* Two numbers less than half a cycle apart have the same 16 bits only if  *)
(* they are the same.                                                      *)
LEMMA SeqEqual ==
  ASSUME NEW a \in Nat, NEW b \in Nat, a < b + Half, b < a + Half
  PROVE  SSEQ_EQ(a, b) <=> a = b
<1>1. Half \in Nat \ {0} /\ SeqMod \in Nat \ {0}
  BY HalfAssumption DEF SeqMod
<1>2. CASE b <= a
  <2>1. U16(a - b) = a - b
    BY <1>1, <1>2 DEF U16, SeqMod
  <2> QED BY <2>1 DEF SSEQ_EQ
<1>3. CASE a < b
  <2>1. U16(a - b) = a - b + SeqMod
    BY <1>1, <1>3 DEF U16, SeqMod
  <2> QED BY <2>1, <1>1, <1>3 DEF SSEQ_EQ, SeqMod
<1> QED BY <1>2, <1>3

(* A number is a multiple of SeqMod and its 16 bits.                       *)
LEMMA Sixteen ==
  ASSUME NEW n \in Nat
  PROVE  /\ U16(n) \in 0 .. SeqMod - 1
         /\ n \div SeqMod \in Int
         /\ n = SeqMod * (n \div SeqMod) + U16(n)
<1>1. SeqMod \in Nat \ {0}
  BY HalfAssumption DEF SeqMod
<1> QED BY <1>1 DEF U16

(* When the acknowledgement a is within half a cycle of b + 1, it is the   *)
(* successor of b in the code's sense only if it is b + 1.                 *)
LEMMA SuccessorIsNext ==
  ASSUME NEW a \in Nat, NEW b \in Nat, a < b + Half, b < a + Half,
         IsSuccessor(a, b)
  PROVE  a = b + 1
<1>1. Half \in Nat \ {0} /\ SeqMod \in Nat \ {0} /\ SeqMod = 2 * Half
  BY HalfAssumption DEF SeqMod
<1>2. PICK i \in Int : a = SeqMod * i + U16(a)
  BY Sixteen
<1>3. PICK j \in Int : b = SeqMod * j + U16(b)
  BY Sixteen
<1>4. U16(a) \in Int /\ U16(b) \in Int
  BY <1>1, Sixteen
<1>5. a - b = SeqMod * (i - j) + 1
  BY <1>1, <1>2, <1>3, <1>4 DEF IsSuccessor
<1>6. i - j = 0
  <2>1. CASE i - j >= 1
    <3>1. SeqMod * (i - j) >= SeqMod
      BY <2>1, <1>1
    <3> QED BY <3>1, <1>1, <1>5
  <2>2. CASE i - j <= -1
    <3>1. SeqMod * (i - j) <= -SeqMod
      BY <2>2, <1>1
    <3> QED BY <3>1, <1>1, <1>5
  <2> QED BY <2>1, <2>2
<1> QED BY <1>1, <1>5, <1>6

(* The second test of the trimming loop never holds a record back: between *)
(* a record of so_snd and an acknowledgement there are less than INT16_MAX *)
(* records.                                                                *)
LEMMA AckedMeansBefore ==
  ASSUME NEW n \in Nat, NEW a \in Nat, n < a + Half, a <= n + SndLimit
  PROVE  Acked(n, a) <=> n < a
<1>1. /\ Half \in Nat \ {0} /\ SeqMod \in Nat \ {0} /\ SeqMod = 2 * Half
      /\ SndLimit \in Nat /\ SndLimit < Half - 1
  BY HalfAssumption, StreamAssumption DEF SeqMod
<1>2. SSEQ_LT(n, a) <=> n < a
  BY <1>1, SeqOrder
<1>3. ASSUME n < a PROVE U16(a) - U16(n) < Int16Max
  <2>1. PICK i \in Int : a = SeqMod * i + U16(a)
    BY Sixteen
  <2>2. PICK j \in Int : n = SeqMod * j + U16(n)
    BY Sixteen
  <2>3. U16(a) \in 0 .. SeqMod - 1 /\ U16(n) \in 0 .. SeqMod - 1
    BY Sixteen
  <2>4. U16(a) - U16(n) = (a - n) - SeqMod * (i - j)
    BY <1>1, <2>1, <2>2, <2>3
  <2>5. i - j >= 0
    <3>1. SUFFICES ASSUME i - j <= -1 PROVE FALSE
      OBVIOUS
    <3>2. SeqMod * (i - j) <= -SeqMod
      BY <3>1, <1>1
    <3> QED BY <3>2, <2>3, <2>4, <1>3, <1>1
  <2>6. SeqMod * (i - j) >= 0
    BY <2>5, <1>1
  <2> QED BY <2>4, <2>6, <2>3, <1>1 DEF Int16Max
<1> QED BY <1>2, <1>3 DEF Acked

-----------------------------------------------------------------------------
(* What the handlers' common parts keep.                                   *)

(* lpx_stream_output only transmits records of the queue and the control   *)
(* packet that is due, keeps the pointers ordered, and arms the timer      *)
(* whenever it transmits a record.                                         *)
LEMMA OutputKeeps ==
  ASSUME TypeOK,
         NEW q \in SUBSET Nat, NEW next \in Nat, NEW snxt \in Nat,
         NEW rack \in Nat, NEW armed \in BOOLEAN,
         NEW ctl \in SUBSET [lsctl : {"ACK", "ACKREQ"}, num : {0}],
         \A n \in q : n < next /\ rack <= n /\ n + 1 < rack + Half,
         s_smax < next, next <= s_smax + Half, rack <= snxt, snxt <= next,
         SndOutput(q, next, snxt, rack, armed, ctl)
  PROVE  /\ toRcv' \in SUBSET RcvPacket
         /\ s_snxt' \in Nat /\ s_smax' \in Nat /\ s_rexmt' \in BOOLEAN
         /\ rack <= s_snxt' /\ s_snxt' <= next
         /\ s_smax <= s_smax' /\ s_smax' < next
         /\ \A p \in toRcv' : p.lsctl = "DATA" =>
               p \in toRcv \/ (p.num \in q /\ p.num <= s_smax')
         /\ armed => s_rexmt'
         /\ s_rexmt' \/ s_smax' = s_smax
<1> DEFINE burst == Burst(q, snxt)
<1>1. burst \subseteq q /\ \A n \in burst : n \in Nat
  BY DEF Burst
<1>2. /\ Half \in Nat \ {0} /\ next \in Nat \ {0}
      /\ s_smax \in Nat /\ toRcv \in SUBSET RcvPacket
  BY HalfAssumption DEF TypeOK
<1>3. SSEQ_LT(s_smax, next - 1) <=> s_smax < next - 1
  BY <1>2, SeqOrder
<1>4. ASSUME burst = {} 
      PROVE  toRcv' = toRcv \cup ctl /\ s_snxt' = snxt /\ s_smax' = s_smax
  BY <1>4 DEF SndOutput
<1>5. ASSUME burst # {}
      PROVE  /\ toRcv' = toRcv \cup {DataPacket(n) : n \in burst}
             /\ s_snxt' = next /\ s_smax' = next - 1
  BY <1>5, <1>2, <1>3 DEF SndOutput
<1>6. s_rexmt' = (armed \/ \E n \in burst : ~SSEQ_EQ(n + 1, rack))
  BY DEF SndOutput
<1>7. \A n \in burst : ~SSEQ_EQ(n + 1, rack)
  <2> TAKE n \in burst
  <2>1. n \in Nat /\ n + 1 < rack + Half /\ rack < n + 1 /\ n + 1 \in Nat
    BY <1>1, <1>2
  <2> QED BY <2>1, <1>2, SeqEqual
<1>8. \A p \in ctl : p \in RcvPacket /\ p.lsctl # "DATA"
  BY DEF RcvPacket
<1>9. \A n \in burst : /\ DataPacket(n) \in RcvPacket
                       /\ DataPacket(n).num = n /\ n <= next - 1
  BY <1>1, <1>2 DEF DataPacket, RcvPacket
<1>10. s_rexmt' \in BOOLEAN /\ (armed => s_rexmt')
  BY <1>6, Zenon
<1>11. s_rexmt' \/ burst = {}
  BY <1>6, <1>7, Zenon
<1>12. CASE burst = {}
  BY <1>12, <1>4, <1>8, <1>10, <1>2
<1>13. CASE burst # {}
  BY <1>13, <1>5, <1>9, <1>1, <1>2, <1>10, <1>11
<1> QED BY <1>12, <1>13

(* The end of the reader's lpx_stream_input sends at most the current      *)
(* acknowledgement, and the count of acknowledgements held back stays      *)
(* within DEFAULT_WINDOW_SIZE.                                             *)
LEMMA FinishKeeps ==
  ASSUME TypeOK, NEW acknow \in BOOLEAN, NEW cont \in BOOLEAN,
         FinishInput(acknow, cont, s_ack)
  PROVE  /\ delayedAckCount' \in 0 .. DefaultWindowSize
         /\ s_acknow' \in BOOLEAN
         /\ toSnd' \in SUBSET SndPacket
         /\ \A p \in toSnd' : p \in toSnd \/ p.num = s_ack
<1>1. /\ DefaultWindowSize \in Nat /\ s_ack \in Nat
      /\ delayedAckCount \in 0 .. DefaultWindowSize
      /\ toSnd \in SUBSET SndPacket
  BY StreamAssumption DEF TypeOK
<1>2. \/ delayedAckCount' = delayedAckCount
      \/ delayedAckCount > 0 /\ delayedAckCount' = delayedAckCount - 1
      \/ delayedAckCount' = DefaultWindowSize
  BY Zenon DEF FinishInput, HoldsAck
<1>3. delayedAckCount' \in 0 .. DefaultWindowSize
  BY <1>1, <1>2
<1>4. PICK ctl \in {{"ACK"}, {}} : RcvOutput(ctl, s_ack)
  BY DEF FinishInput
<1>5. toSnd' = toSnd \cup {AckPacket(c, s_ack) : c \in ctl}
  BY <1>4 DEF RcvOutput
<1>6. \A c \in ctl : /\ AckPacket(c, s_ack) \in SndPacket
                     /\ AckPacket(c, s_ack).num = s_ack
  BY <1>1 DEF AckPacket, SndPacket
<1>7. s_acknow' \in BOOLEAN
  BY DEF FinishInput
<1> QED BY <1>1, <1>3, <1>5, <1>6, <1>7

(* The loop "present:" hands over the record s_ack, or none and ends.      *)
LEMMA PresentKeeps ==
  ASSUME IInv, NEW q \in SUBSET Nat, NEW acknow \in BOOLEAN,
         NEW cont \in BOOLEAN,
         \A n \in q : s_ack <= n /\ n < s_seq,
         Present(q, acknow, cont)
  PROVE  /\ s_ack' \in Nat
         /\ \/ s_ack' = s_ack /\ injecting' = {}
            \/ s_ack' = s_ack + 1 /\ injecting' = {s_ack} /\ s_ack \in q
         /\ s_q' \subseteq q /\ \A n \in s_q' : s_ack' <= n
         /\ s_acknow' \in BOOLEAN /\ inputCont' \in BOOLEAN
         /\ delayedAckCount' \in 0 .. DefaultWindowSize
         /\ toSnd' \in SUBSET SndPacket
         /\ \A p \in toSnd' : p \in toSnd \/ p.num = s_ack
<1> DEFINE next == Due(q)
<1>1. /\ TypeOK /\ s_ack \in Nat /\ s_seq \in Nat /\ snd_head \in Nat
      /\ snd_head <= s_ack /\ s_seq <= snd_head + SndLimit
  BY DEF IInv, TypeOK, WindowInv
<1>2. /\ Half \in Nat \ {0} /\ SndLimit \in Nat /\ SndLimit < Half
  BY HalfAssumption, StreamAssumption
<1>3. \A n \in q : SSEQ_EQ(n, s_ack) <=> n = s_ack
  <2> TAKE n \in q
  <2>1. n \in Nat /\ s_ack <= n /\ n < s_seq
    OBVIOUS
  <2>2. n < s_ack + Half /\ s_ack < n + Half
    BY <1>1, <1>2, <2>1
  <2> QED BY <1>1, <2>1, <2>2, SeqEqual
<1>4. injecting' = next /\ s_q' = q \ next
  BY DEF Present
<1>5. inputCont' \in BOOLEAN
  BY DEF Present
<1>6. CASE s_ack \in q
  <2>1. next = {s_ack}
    BY <1>3, <1>6 DEF Due
  <2>2. /\ s_ack' = s_ack + 1 /\ s_acknow' = acknow
        /\ delayedAckCount' = delayedAckCount /\ toSnd' = toSnd
    BY <2>1 DEF Present
  <2>3. \A n \in s_q' : s_ack + 1 <= n
    BY <1>4, <2>1, <1>1
  <2> QED BY <1>1, <1>4, <1>5, <1>6, <2>1, <2>2, <2>3 DEF TypeOK
<1>7. CASE s_ack \notin q
  <2>1. next = {}
    BY <1>3, <1>7 DEF Due
  <2>2. FinishInput(acknow, cont, s_ack) /\ s_ack' = s_ack
    BY <2>1 DEF Present
  <2> QED BY <1>1, <1>4, <1>5, <2>1, <2>2, FinishKeeps
<1> QED BY <1>6, <1>7

-----------------------------------------------------------------------------
(* IInv is inductive.                                                      *)

(* The constants and variables as numbers, and the distances IInv bounds.  *)
LEMMA Numbers ==
  ASSUME IInv
  PROVE  /\ Half \in Nat /\ SndLimit \in Nat \ {0} /\ Lifetime \in Nat
         /\ Lifetime + SndLimit < Half /\ SndLimit <= Lifetime
         /\ s_seq \in Nat /\ snd_head \in Nat /\ s_snxt \in Nat
         /\ s_rack \in Nat /\ s_smax \in Nat /\ s_ack \in Nat
         /\ s_seq <= snd_head + SndLimit /\ s_seq < s_rack + Half
         /\ s_smax < s_seq /\ s_seq <= s_smax + 1 + SndLimit
         /\ 1 <= s_rack /\ s_rack <= snd_head /\ snd_head <= s_ack
         /\ s_ack <= s_seq /\ s_rack <= s_snxt /\ s_snxt <= s_seq
         /\ 1 <= s_ack /\ s_seq <= s_ack + Lifetime
<1> QED BY HalfAssumption, StreamAssumption
        DEF IInv, TypeOK, WindowInv, SenderInv, SenderPointers

(* The initial state satisfies IInv.                                       *)
LEMMA InitIInv == Init => IInv
<1> SUFFICES ASSUME Init PROVE IInv
  OBVIOUS
<1>1. /\ Half \in Nat \ {0} /\ SndLimit \in Nat \ {0} /\ Lifetime \in Nat
      /\ DefaultWindowSize \in Nat /\ MaxRxtShift \in Nat
  BY HalfAssumption, StreamAssumption
<1>2. TypeOK
  <2>1. /\ s_state \in [End -> {"ESTABLISHED", "CLOSED"}]
        /\ s_idle \in [End -> Nat]
    BY DEF Init
  <2>2. /\ s_seq \in Nat /\ snd_head \in Nat /\ s_snxt \in Nat
        /\ s_rack \in Nat /\ s_smax \in Nat /\ s_ack \in Nat
        /\ s_rxtshift \in 0 .. MaxRxtShift
        /\ delayedAckCount \in 0 .. DefaultWindowSize
        /\ so_rcv \in Seq(Nat)
    BY <1>1 DEF Init
  <2>3. /\ s_rexmt \in BOOLEAN /\ s_acknow \in BOOLEAN /\ inputCont \in BOOLEAN
        /\ s_q \in SUBSET Nat /\ injecting \in SUBSET Nat
        /\ toRcv \in SUBSET RcvPacket /\ toSnd \in SUBSET SndPacket
    BY Zenon DEF Init
  <2> QED BY <2>1, <2>2, <2>3, Zenon DEF TypeOK
<1>3. WindowInv /\ PacketInv /\ ReaderInv
  BY <1>1 DEF Init, WindowInv, PacketInv, ReaderInv, ReorderQueueAhead, InOrder
<1>4. SenderInv
  BY <1>1 DEF Init, SenderInv, SenderPointers, RexmtCoversOutstanding, SoSnd
<1> QED BY <1>2, <1>3, <1>4 DEF IInv

(* lpx_stream_output on so_snd itself, without a new record or an          *)
(* acknowledgement: from s_snxt, or from s_rack when the timer went off.   *)
LEMMA ResendKeeps ==
  ASSUME IInv, NEW snxt \in {s_snxt, s_rack}, NEW armed \in BOOLEAN,
         s_rexmt => armed, NEW c \in {"ACK", "ACKREQ"},
         SndOutput(SoSnd, s_seq, snxt, s_rack, armed, {ControlPacket(c)}),
         UNCHANGED <<s_seq, snd_head, s_rack>>,
         s_state'["snd"] = "ESTABLISHED" => s_state["snd"] = "ESTABLISHED"
  PROVE  /\ toRcv' \in SUBSET RcvPacket
         /\ s_snxt' \in Nat /\ s_smax' \in Nat /\ s_rexmt' \in BOOLEAN
         /\ s_rack <= s_snxt' /\ s_snxt' <= s_seq
         /\ s_smax <= s_smax' /\ s_smax' < s_seq
         /\ \A p \in toRcv' : p.lsctl = "DATA" =>
               \/ p \in toRcv
               \/ p.num \in snd_head .. s_seq - 1 /\ p.num <= s_smax'
         /\ RexmtCoversOutstanding'
<1>1. TypeOK /\ SenderInv
  BY DEF IInv
<1>2. SoSnd = snd_head .. s_seq - 1
  BY DEF SoSnd
<1>3. /\ SoSnd \in SUBSET Nat
      /\ \A n \in SoSnd : n < s_seq /\ s_rack <= n /\ n + 1 < s_rack + Half
  <2>1. ASSUME NEW n \in snd_head .. s_seq - 1
        PROVE  n \in Nat /\ n < s_seq /\ s_rack <= n /\ n + 1 < s_rack + Half
    BY Numbers
  <2> QED BY <2>1, <1>2
<1>4. /\ {ControlPacket(c)} \in SUBSET [lsctl : {"ACK", "ACKREQ"}, num : {0}]
      /\ snxt \in Nat /\ s_rack <= snxt /\ snxt <= s_seq
      /\ s_seq \in Nat /\ s_rack \in Nat
      /\ s_smax < s_seq /\ s_seq <= s_smax + Half
  BY Numbers DEF ControlPacket
<1>5. /\ toRcv' \in SUBSET RcvPacket
      /\ s_snxt' \in Nat /\ s_smax' \in Nat /\ s_rexmt' \in BOOLEAN
      /\ s_rack <= s_snxt' /\ s_snxt' <= s_seq
      /\ s_smax <= s_smax' /\ s_smax' < s_seq
      /\ \A p \in toRcv' : p.lsctl = "DATA" =>
            p \in toRcv \/ (p.num \in SoSnd /\ p.num <= s_smax')
      /\ armed => s_rexmt'
      /\ s_rexmt' \/ s_smax' = s_smax
  BY <1>1, <1>3, <1>4, OutputKeeps, Zenon
<1>6. RexmtCoversOutstanding'
  <2>1. SoSnd' = SoSnd
    BY DEF SoSnd
  <2>2. SUFFICES ASSUME s_state["snd"] = "ESTABLISHED", s_smax' = s_smax,
                        NEW n \in SoSnd, n <= s_smax
                 PROVE  s_rexmt'
    BY <1>5, <2>1, Zenon DEF RexmtCoversOutstanding
  <2>3. s_rexmt
    BY <2>2, <1>1, Zenon DEF SenderInv, RexmtCoversOutstanding
  <2> QED BY <2>3, <1>5
<1> QED BY <1>2, <1>5, <1>6

(* What a step of the writer has to show: the reader is left alone, so_snd *)
(* moves forward, and every packet in the network is young enough.         *)
LEMMA WriterStep ==
  ASSUME IInv, UNCHANGED <<rcvVars, toSnd>>,
         s_state' \in [End -> {"ESTABLISHED", "CLOSED"}],
         s_idle' \in [End -> Nat], s_rxtshift' \in 0 .. MaxRxtShift,
         s_seq' \in {s_seq, s_seq + 1},
         snd_head' \in Nat, snd_head <= snd_head', snd_head' <= s_ack,
         s_seq' <= snd_head' + SndLimit,
         s_rack' \in Nat, 1 <= s_rack', s_rack' <= snd_head',
         snd_head' <= s_rack' + Lifetime,
         s_snxt' \in Nat, s_rack' <= s_snxt', s_snxt' <= s_seq',
         s_smax' \in Nat, s_smax <= s_smax', s_smax' < s_seq',
         s_rexmt' \in BOOLEAN, toRcv' \in SUBSET RcvPacket,
         \A p \in toSnd : s_seq' <= p.num + Lifetime,
         \A p \in toRcv' : p.lsctl = "DATA" =>
            \/ p \in toRcv /\ s_seq' <= p.num + Lifetime
            \/ p.num \in snd_head' .. s_seq' - 1 /\ p.num <= s_smax',
         RexmtCoversOutstanding'
  PROVE  IInv'
<1>1. TypeOK /\ WindowInv /\ PacketInv /\ ReaderInv /\ SenderInv
  BY DEF IInv
<1>2. /\ s_ack' = s_ack /\ s_q' = s_q /\ s_acknow' = s_acknow
      /\ delayedAckCount' = delayedAckCount /\ injecting' = injecting
      /\ inputCont' = inputCont /\ so_rcv' = so_rcv /\ toSnd' = toSnd
  BY DEF rcvVars
<1>3. s_seq' \in Nat /\ s_seq <= s_seq'
  BY Numbers
<1>4. TypeOK'
  BY <1>1, <1>2, <1>3, Zenon DEF TypeOK
<1>5. WindowInv'
  BY <1>1, <1>2, <1>3, Numbers DEF WindowInv
<1>6. \A p \in toRcv' : p.lsctl = "DATA" =>
        /\ p.num \in Nat /\ 1 <= p.num /\ p.num < s_seq'
        /\ s_seq' <= p.num + Lifetime /\ p.num <= s_smax'
  <2> SUFFICES ASSUME NEW p \in toRcv', p.lsctl = "DATA"
               PROVE  /\ p.num \in Nat /\ 1 <= p.num /\ p.num < s_seq'
                      /\ s_seq' <= p.num + Lifetime /\ p.num <= s_smax'
    OBVIOUS
  <2>1. p.num \in Nat
    BY DEF RcvPacket
  <2>2. CASE p \in toRcv /\ s_seq' <= p.num + Lifetime
    BY <2>1, <2>2, <1>1, <1>3, Numbers DEF PacketInv, SenderInv
  <2>3. CASE p.num \in snd_head' .. s_seq' - 1 /\ p.num <= s_smax'
    BY <2>1, <2>3, <1>1, <1>3, Numbers DEF WindowInv
  <2> QED BY <2>2, <2>3
<1>7. PacketInv'
  BY <1>1, <1>2, <1>6 DEF PacketInv
<1>8. \A n \in s_q : n \in Nat /\ s_ack <= n /\ n < s_seq' /\ n <= s_smax'
  <2> TAKE n \in s_q
  <2>1. n \in Nat
    BY <1>1 DEF TypeOK
  <2>2. s_ack <= n /\ n < s_seq /\ n <= s_smax
    BY <1>1 DEF ReaderInv, ReorderQueueAhead, SenderInv
  <2> QED BY <2>1, <2>2, <1>3, Numbers
<1>9. ReaderInv'
  BY <1>1, <1>2, <1>8 DEF ReaderInv, ReorderQueueAhead, InOrder
<1>10. SenderPointers'
  BY <1>1, <1>2, <1>3, Numbers DEF SenderPointers, SenderInv
<1>11. SenderInv'
  BY <1>2, <1>6, <1>8, <1>10 DEF SenderInv
<1> QED BY <1>4, <1>5, <1>7, <1>9, <1>11 DEF IInv

(* lpx_stream_user_send keeps IInv: the lifetime bound is its guard.       *)
LEMMA UserSendKeeps == IInv /\ UserSend => IInv'
<1> SUFFICES ASSUME IInv, UserSend PROVE IInv'
  OBVIOUS
<1>1. TypeOK /\ WindowInv /\ SenderInv
  BY DEF IInv
<1>2. /\ s_seq' = s_seq + 1 /\ s_seq < snd_head + SndLimit
      /\ snd_head' = snd_head /\ s_rack' = s_rack /\ s_state' = s_state
      /\ s_idle' = s_idle /\ s_rxtshift' = s_rxtshift
      /\ UNCHANGED <<rcvVars, toSnd>>
  BY Numbers DEF UserSend
<1>3. SndOutput(snd_head .. s_seq, s_seq + 1, s_snxt, s_rack, s_rexmt, {})
  BY DEF UserSend
<1>4. /\ snd_head .. s_seq \in SUBSET Nat /\ s_seq + 1 \in Nat
      /\ {} \in SUBSET [lsctl : {"ACK", "ACKREQ"}, num : {0}]
      /\ s_smax < s_seq + 1 /\ s_seq + 1 <= s_smax + Half
      /\ s_snxt <= s_seq + 1 /\ s_rack <= s_snxt
      /\ s_snxt \in Nat /\ s_rack \in Nat
  BY Numbers
<1>5. s_rexmt \in BOOLEAN
  BY <1>1 DEF TypeOK
<1>6. \A n \in snd_head .. s_seq :
        n < s_seq + 1 /\ s_rack <= n /\ n + 1 < s_rack + Half
  BY <1>1, <1>2, Numbers DEF SenderInv
<1>7. /\ toRcv' \in SUBSET RcvPacket
      /\ s_snxt' \in Nat /\ s_smax' \in Nat /\ s_rexmt' \in BOOLEAN
      /\ s_rack <= s_snxt' /\ s_snxt' <= s_seq + 1
      /\ s_smax <= s_smax' /\ s_smax' < s_seq + 1
      /\ \A p \in toRcv' : p.lsctl = "DATA" =>
            p \in toRcv \/ (p.num \in snd_head .. s_seq /\ p.num <= s_smax')
      /\ s_rexmt => s_rexmt'
      /\ s_rexmt' \/ s_smax' = s_smax
  BY <1>1, <1>3, <1>4, <1>5, <1>6, OutputKeeps, Zenon
<1>8. /\ \A p \in toSnd : s_seq' <= p.num + Lifetime
      /\ \A p \in toRcv : p.lsctl = "DATA" => s_seq' <= p.num + Lifetime
  BY <1>2 DEF UserSend
<1>9. RexmtCoversOutstanding'
  <2>1. SUFFICES ASSUME s_state["snd"] = "ESTABLISHED", s_smax' = s_smax,
                        NEW n \in SoSnd', n <= s_smax
                 PROVE  s_rexmt'
    BY <1>2, <1>7, Zenon DEF RexmtCoversOutstanding
  <2>2. n \in SoSnd
    BY <2>1, <1>2, Numbers DEF SoSnd
  <2>3. s_rexmt
    BY <2>1, <2>2, <1>1, Zenon DEF SenderInv, RexmtCoversOutstanding
  <2> QED BY <2>3, <1>7
<1>10. /\ s_state \in [End -> {"ESTABLISHED", "CLOSED"}]
       /\ s_idle \in [End -> Nat] /\ s_rxtshift \in 0 .. MaxRxtShift
  BY <1>1 DEF TypeOK
<1>11. /\ s_seq' <= snd_head' + SndLimit /\ s_rack' <= snd_head'
       /\ snd_head' <= s_rack' + Lifetime /\ s_seq' - 1 = s_seq
  BY <1>1, <1>2, Numbers DEF SenderInv
<1> QED BY <1>2, <1>7, <1>8, <1>9, <1>10, <1>11, Numbers, WriterStep

(* The retransmission timer keeps IInv.                                    *)
LEMMA RexmtTimeoutKeeps == IInv /\ RexmtTimeout => IInv'
<1> SUFFICES ASSUME IInv, RexmtTimeout PROVE IInv'
  OBVIOUS
<1>1. TypeOK /\ WindowInv /\ PacketInv /\ SenderInv /\ MaxRxtShift \in Nat
  BY StreamAssumption DEF IInv
<1>2. /\ s_seq' = s_seq /\ snd_head' = snd_head /\ s_rack' = s_rack
      /\ s_idle' = s_idle /\ UNCHANGED <<rcvVars, toSnd>>
  BY DEF RexmtTimeout
<1>3. /\ s_state' \in [End -> {"ESTABLISHED", "CLOSED"}]
      /\ s_state'["snd"] = "ESTABLISHED" => s_state["snd"] = "ESTABLISHED"
      /\ s_rxtshift' \in 0 .. MaxRxtShift
  <2>1. /\ s_state \in [End -> {"ESTABLISHED", "CLOSED"}]
        /\ s_rxtshift \in 0 .. MaxRxtShift
    BY <1>1 DEF TypeOK
  <2>2. CASE s_rxtshift = MaxRxtShift
    BY <2>1, <2>2 DEF RexmtTimeout, SndDrop, End
  <2>3. CASE s_rxtshift # MaxRxtShift
    BY <1>1, <2>1, <2>3 DEF RexmtTimeout
  <2> QED BY <2>2, <2>3
<1>4. \E snxt \in {s_snxt, s_rack} :
        SndOutput(SoSnd, s_seq, snxt, s_rack, TRUE, {ControlPacket("ACK")})
  BY DEF RexmtTimeout, SndDrop
<1>5. /\ toRcv' \in SUBSET RcvPacket
      /\ s_snxt' \in Nat /\ s_smax' \in Nat /\ s_rexmt' \in BOOLEAN
      /\ s_rack <= s_snxt' /\ s_snxt' <= s_seq
      /\ s_smax <= s_smax' /\ s_smax' < s_seq
      /\ \A p \in toRcv' : p.lsctl = "DATA" =>
            \/ p \in toRcv
            \/ p.num \in snd_head .. s_seq - 1 /\ p.num <= s_smax'
      /\ RexmtCoversOutstanding'
  BY <1>2, <1>3, <1>4, ResendKeeps
<1>6. /\ s_idle \in [End -> Nat] /\ snd_head <= s_rack + Lifetime
      /\ \A p \in toSnd : s_seq <= p.num + Lifetime
      /\ \A p \in toRcv : p.lsctl = "DATA" => s_seq <= p.num + Lifetime
  BY <1>1 DEF TypeOK, PacketInv, SenderInv
<1> QED BY <1>2, <1>3, <1>5, <1>6, Numbers, WriterStep

(* The writer's keep-alive timer and its s_idle keep IInv.                 *)
LEMMA SndKeepTickKeeps == IInv /\ SndKeepTick => IInv'
<1> SUFFICES ASSUME IInv, SndKeepTick PROVE IInv'
  OBVIOUS
<1>1. TypeOK /\ PacketInv /\ SenderInv
  BY DEF IInv
<1>2. /\ s_seq' = s_seq /\ snd_head' = snd_head /\ s_rack' = s_rack
      /\ s_rxtshift' = s_rxtshift /\ UNCHANGED <<rcvVars, toSnd>>
  BY DEF SndKeepTick
<1>3. /\ s_idle' \in [End -> Nat] /\ snd_head <= s_rack + Lifetime
      /\ s_rxtshift \in 0 .. MaxRxtShift
      /\ \A p \in toSnd : s_seq <= p.num + Lifetime
      /\ \A p \in toRcv : p.lsctl = "DATA" => s_seq <= p.num + Lifetime
  BY <1>1 DEF TypeOK, PacketInv, SenderInv, SndKeepTick, IdleTick, End
<1>4. /\ s_state' \in [End -> {"ESTABLISHED", "CLOSED"}]
      /\ s_state'["snd"] = "ESTABLISHED" => s_state["snd"] = "ESTABLISHED"
  BY <1>1 DEF SndKeepTick, SndDrop, TypeOK, End
<1>5. /\ toRcv' \in SUBSET RcvPacket
      /\ s_snxt' \in Nat /\ s_smax' \in Nat /\ s_rexmt' \in BOOLEAN
      /\ s_rack <= s_snxt' /\ s_snxt' <= s_seq
      /\ s_smax <= s_smax' /\ s_smax' < s_seq
      /\ \A p \in toRcv' : p.lsctl = "DATA" =>
            \/ p \in toRcv
            \/ p.num \in snd_head .. s_seq - 1 /\ p.num <= s_smax'
      /\ RexmtCoversOutstanding'
  <2>1. CASE ~KeepFires("snd")
    <3>1. /\ s_state' = s_state /\ s_snxt' = s_snxt /\ s_smax' = s_smax
          /\ s_rexmt' = s_rexmt /\ toRcv' = toRcv
      BY <2>1 DEF SndKeepTick
    <3>2. RexmtCoversOutstanding'
      BY <1>1, <1>2, <3>1, Zenon DEF RexmtCoversOutstanding, SoSnd, SenderInv
    <3>3. s_rexmt \in BOOLEAN /\ toRcv \in SUBSET RcvPacket
      BY <1>1 DEF TypeOK
    <3> QED BY <3>1, <3>2, <3>3, Numbers
  <2>2. CASE KeepFires("snd") /\ s_idle["snd"] >= MaxIdle
    <3>1. SndOutput(SoSnd, s_seq, s_snxt, s_rack, TRUE, {ControlPacket("ACK")})
      BY <2>2 DEF SndKeepTick, SndDrop
    <3> QED BY <3>1, <1>2, <1>4, ResendKeeps
  <2>3. CASE KeepFires("snd") /\ ~(s_idle["snd"] >= MaxIdle)
    <3>1. SndOutput(SoSnd, s_seq, s_snxt, s_rack, s_rexmt,
                    {ControlPacket("ACKREQ")})
      BY <2>3 DEF SndKeepTick
    <3>2. s_rexmt \in BOOLEAN
      BY <1>1 DEF TypeOK
    <3> QED BY <3>1, <3>2, <1>2, <1>4, ResendKeeps
  <2> QED BY <2>1, <2>2, <2>3
<1> QED BY <1>2, <1>3, <1>4, <1>5, Numbers, WriterStep

(* Trimming so_snd by the acknowledgement a of a packet in the network     *)
(* moves the head to a, if it is not beyond it already.                    *)
LEMMA TrimmedTo ==
  ASSUME IInv, NEW p \in toSnd, NEW h \in snd_head .. s_seq,
         \A n \in snd_head .. h - 1 : Acked(n, p.num),
         h = s_seq \/ ~Acked(h, p.num)
  PROVE  /\ p.num \in Nat /\ 1 <= p.num /\ p.num <= s_ack
         /\ s_seq <= p.num + Lifetime /\ p.num <= h /\ h <= s_ack
<1>1. /\ p.num \in Nat /\ 1 <= p.num /\ p.num <= s_ack
      /\ s_seq <= p.num + Lifetime
  BY DEF IInv, PacketInv, TypeOK, SndPacket
<1>2. \A n \in snd_head .. s_seq : Acked(n, p.num) <=> n < p.num
  <2> TAKE n \in snd_head .. s_seq
  <2>1. n \in Nat /\ n < p.num + Half /\ p.num <= n + SndLimit
    BY <1>1, Numbers
  <2> QED BY <2>1, <1>1, AckedMeansBefore
<1>3. p.num <= h
  <2>1. CASE h = s_seq
    BY <1>1, <2>1, Numbers
  <2>2. CASE ~Acked(h, p.num)
    BY <1>1, <1>2, <2>2, Numbers
  <2> QED BY <2>1, <2>2
<1>4. h <= s_ack
  <2>1. CASE h = snd_head
    BY <2>1, Numbers
  <2>2. CASE h # snd_head
    <3>1. h - 1 \in snd_head .. h - 1 /\ h - 1 \in snd_head .. s_seq
      BY <2>2, Numbers
    <3>2. h - 1 < p.num
      BY <3>1, <1>2
    <3> QED BY <3>2, <1>1, Numbers
  <2> QED BY <2>1, <2>2
<1> QED BY <1>1, <1>3, <1>4

(* An acknowledgement at the writer keeps IInv, however old it is.         *)
LEMMA SndInputKeeps ==
  ASSUME IInv, NEW p \in toSnd, SndInput(p)
  PROVE  IInv'
<1> DEFINE a == p.num
           all == AllAcked(a)
           req == p.lsctl = "ACKREQ" /\ s_state["snd"] = "ESTABLISHED"
           nxt == SnxtAfter(a)
           ctl == IF req THEN {ControlPacket("ACK")} ELSE {}
           armed == s_rexmt /\ ~all
<1>1. TypeOK /\ PacketInv /\ SenderInv /\ MaxRxtShift \in Nat
  BY StreamAssumption DEF IInv
<1>2. /\ s_state' = s_state /\ s_seq' = s_seq /\ s_rack' = a
      /\ s_idle' \in [End -> Nat] /\ UNCHANGED <<rcvVars, toSnd>>
  BY <1>1 DEF SndInput, TypeOK, End
<1>3. PICK h \in snd_head .. s_seq :
        /\ \A n \in snd_head .. h - 1 : Acked(n, a)
        /\ h = s_seq \/ ~Acked(h, a)
        /\ snd_head' = h
        /\ s_rxtshift' = RxtshiftAfter(h)
        /\ IF all \/ req
           THEN SndOutput(h .. s_seq - 1, s_seq, nxt, a, armed, ctl)
           ELSE s_snxt' = nxt /\ UNCHANGED <<toRcv, s_smax, s_rexmt>>
  BY Zenon DEF SndInput
<1>4. /\ a \in Nat /\ 1 <= a /\ a <= s_ack /\ s_seq <= a + Lifetime
      /\ a <= h /\ h <= s_ack /\ h \in Nat /\ snd_head <= h /\ h <= s_seq
  <2>1. /\ a \in Nat /\ 1 <= a /\ a <= s_ack /\ s_seq <= a + Lifetime
        /\ a <= h /\ h <= s_ack
    BY <1>3, TrimmedTo
  <2> QED BY <2>1, Numbers
<1>5. nxt \in Nat /\ a <= nxt /\ nxt <= s_seq
  <2>1. s_snxt < a + Half /\ a < s_snxt + Half
    BY <1>4, Numbers
  <2>2. SSEQ_LT(s_snxt, a) <=> s_snxt < a
    BY <2>1, <1>4, Numbers, SeqOrder
  <2> QED BY <2>2, <1>4, Numbers DEF SnxtAfter
<1>6. all => a = s_smax + 1
  <2>1. a < s_smax + Half /\ s_smax < a + Half
    BY <1>4, Numbers
  <2> QED BY <2>1, <1>4, Numbers, SuccessorIsNext DEF AllAcked
<1>7. armed \in BOOLEAN
  OBVIOUS
<1>8. ASSUME s_state["snd"] = "ESTABLISHED", NEW n \in h .. s_seq - 1,
             n <= s_smax
      PROVE  armed
  <2>1. n \in SoSnd /\ n \in Nat /\ h <= n
    BY <1>4, Numbers DEF SoSnd
  <2>2. s_rexmt
    BY <1>1, <1>8, <2>1, Zenon DEF SenderInv, RexmtCoversOutstanding
  <2>3. ~all
    BY <1>4, <1>6, <1>8, <2>1, Numbers
  <2> QED BY <2>2, <2>3
<1>9. /\ toRcv' \in SUBSET RcvPacket
      /\ s_snxt' \in Nat /\ s_smax' \in Nat /\ s_rexmt' \in BOOLEAN
      /\ a <= s_snxt' /\ s_snxt' <= s_seq
      /\ s_smax <= s_smax' /\ s_smax' < s_seq
      /\ \A m \in toRcv' : m.lsctl = "DATA" =>
            \/ m \in toRcv
            \/ m.num \in h .. s_seq - 1 /\ m.num <= s_smax'
      /\ s_smax' = s_smax => (armed => s_rexmt')
      /\ s_rexmt' \/ s_smax' = s_smax
  <2>1. CASE all \/ req
    <3>1. SndOutput(h .. s_seq - 1, s_seq, nxt, a, armed, ctl)
      BY <1>3, <2>1
    <3>2. /\ h .. s_seq - 1 \in SUBSET Nat
          /\ ctl \in SUBSET [lsctl : {"ACK", "ACKREQ"}, num : {0}]
          /\ s_seq \in Nat /\ s_smax < s_seq /\ s_seq <= s_smax + Half
      BY <1>4, Numbers DEF ControlPacket
    <3>3. \A n \in h .. s_seq - 1 : n < s_seq /\ a <= n /\ n + 1 < a + Half
      BY <1>4, Numbers
    <3> HIDE DEF a, all, req, nxt, ctl, armed
    <3>4. a \in Nat /\ TypeOK
      BY <1>1, <1>4
    <3>5. /\ toRcv' \in SUBSET RcvPacket
          /\ s_snxt' \in Nat /\ s_smax' \in Nat /\ s_rexmt' \in BOOLEAN
          /\ a <= s_snxt' /\ s_snxt' <= s_seq
          /\ s_smax <= s_smax' /\ s_smax' < s_seq
          /\ \A m \in toRcv' : m.lsctl = "DATA" =>
                m \in toRcv \/ (m.num \in h .. s_seq - 1 /\ m.num <= s_smax')
          /\ armed => s_rexmt'
          /\ s_rexmt' \/ s_smax' = s_smax
      BY <3>1, <3>2, <3>3, <3>4, <1>5, <1>7, OutputKeeps, Zenon
    <3> QED BY <3>5, Zenon
  <2>2. CASE ~(all \/ req)
    <3>1. /\ s_snxt' = nxt /\ toRcv' = toRcv /\ s_smax' = s_smax
          /\ s_rexmt' = s_rexmt
      BY <1>3, <2>2
    <3>2. toRcv \in SUBSET RcvPacket /\ s_rexmt \in BOOLEAN
      BY <1>1 DEF TypeOK
    <3>3. armed => s_rexmt'
      BY <3>1, Zenon
    <3> HIDE DEF a, all, req, nxt, ctl, armed
    <3> QED BY <3>1, <3>2, <3>3, <1>5, Numbers
  <2> QED BY <2>1, <2>2
<1>10. RexmtCoversOutstanding'
  <2>1. SoSnd' = h .. s_seq - 1
    BY <1>2, <1>3 DEF SoSnd
  <2>2. SUFFICES ASSUME s_state["snd"] = "ESTABLISHED", s_smax' = s_smax,
                        NEW n \in h .. s_seq - 1, n <= s_smax
                 PROVE  s_rexmt'
    BY <1>2, <1>9, <2>1, Zenon DEF RexmtCoversOutstanding
  <2>3. armed
    BY <1>8, <2>2
  <2> HIDE DEF armed
  <2> QED BY <2>2, <2>3, <1>9, Zenon
<1>11. /\ s_state \in [End -> {"ESTABLISHED", "CLOSED"}]
       /\ s_rxtshift' \in 0 .. MaxRxtShift
       /\ \A m \in toSnd : s_seq <= m.num + Lifetime
       /\ \A m \in toRcv : m.lsctl = "DATA" => s_seq <= m.num + Lifetime
  BY <1>1, <1>3 DEF TypeOK, PacketInv, RxtshiftAfter
<1>12. h <= a + Lifetime /\ s_seq <= h + SndLimit
  BY <1>4, Numbers
<1> HIDE DEF a, all, req, nxt, ctl, armed
<1> QED BY <1>2, <1>3, <1>4, <1>9, <1>10, <1>11, <1>12, Numbers, WriterStep

(* What a step of the reader has to show: the writer is left alone and     *)
(* what was added to the network is the acknowledgement s_ack.             *)
LEMMA ReaderStep ==
  ASSUME IInv, UNCHANGED <<sndVars, toRcv>>,
         s_state' \in [End -> {"ESTABLISHED", "CLOSED"}],
         s_state'["snd"] = s_state["snd"], s_idle' \in [End -> Nat],
         s_ack' \in Nat, s_ack <= s_ack', s_ack' <= s_seq,
         s_ack' <= s_smax + 1,
         s_q' \in SUBSET Nat, \A n \in s_q' : n <= s_smax,
         s_acknow' \in BOOLEAN, inputCont' \in BOOLEAN,
         delayedAckCount' \in 0 .. DefaultWindowSize,
         injecting' \in SUBSET Nat, so_rcv' \in Seq(Nat), ReaderInv',
         toSnd' \in SUBSET SndPacket,
         \A p \in toSnd' : p \in toSnd \/ p.num = s_ack
  PROVE  IInv'
<1>1. TypeOK /\ WindowInv /\ PacketInv /\ ReaderInv /\ SenderInv
  BY DEF IInv
<1>2. /\ s_seq' = s_seq /\ snd_head' = snd_head /\ s_snxt' = s_snxt
      /\ s_rack' = s_rack /\ s_smax' = s_smax /\ s_rexmt' = s_rexmt
      /\ s_rxtshift' = s_rxtshift /\ toRcv' = toRcv
  BY DEF sndVars
<1>3. TypeOK'
  BY <1>1, <1>2, Zenon DEF TypeOK
<1>4. WindowInv'
  BY <1>1, <1>2, Numbers DEF WindowInv
<1>10. /\ s_ack \in Nat /\ s_seq \in Nat /\ Lifetime \in Nat
       /\ 1 <= s_ack /\ s_seq <= s_ack + Lifetime
  BY Numbers
<1>5. PacketInv'
  <2>1. ASSUME NEW p \in toSnd'
        PROVE  1 <= p.num /\ p.num <= s_ack' /\ s_seq <= p.num + Lifetime
    <3>1. CASE p \in toSnd
      <4>1. p.num \in Nat
        BY <1>1, <3>1 DEF TypeOK, SndPacket
      <4>2. 1 <= p.num /\ p.num <= s_ack /\ s_seq <= p.num + Lifetime
        BY <3>1, <1>1 DEF PacketInv
      <4> QED BY <4>1, <4>2, <1>10
    <3>2. CASE p.num = s_ack
      BY <1>10, <3>2
    <3> QED BY <3>1, <3>2
  <2> QED BY <2>1, <1>1, <1>2 DEF PacketInv
<1>7. RexmtCoversOutstanding'
  BY <1>1, <1>2, Zenon DEF SenderInv, RexmtCoversOutstanding, SoSnd
<1>8. SenderPointers'
  BY <1>1, <1>2, Numbers DEF SenderPointers
<1>9. SenderInv'
  BY <1>1, <1>2, <1>7, <1>8 DEF SenderInv
<1> QED BY <1>3, <1>4, <1>5, <1>9 DEF IInv

(* The reader's keep-alive timer and its s_idle keep IInv.                 *)
LEMMA RcvKeepTickKeeps == IInv /\ RcvKeepTick => IInv'
<1> SUFFICES ASSUME IInv, RcvKeepTick PROVE IInv'
  OBVIOUS
<1>1. TypeOK /\ ReaderInv /\ SenderInv
  BY DEF IInv
<1>2. /\ s_ack' = s_ack /\ s_q' = s_q /\ delayedAckCount' = delayedAckCount
      /\ injecting' = injecting /\ inputCont' = inputCont /\ so_rcv' = so_rcv
      /\ UNCHANGED <<sndVars, toRcv>>
  BY DEF RcvKeepTick
<1>3. /\ s_state' \in [End -> {"ESTABLISHED", "CLOSED"}]
      /\ s_state'["snd"] = s_state["snd"] /\ s_idle' \in [End -> Nat]
  BY <1>1 DEF RcvKeepTick, IdleTick, TypeOK, End
<1>4. s_acknow' \in BOOLEAN
  BY <1>1 DEF RcvKeepTick, TypeOK
<1>5. \A p \in toSnd' : p \in toSnd \/ \E c \in {"ACK", "ACKREQ"} :
                                          p = AckPacket(c, s_ack)
  <2>1. CASE ~KeepFires("rcv")
    BY <2>1 DEF RcvKeepTick
  <2>2. CASE KeepFires("rcv")
    <3>1. RcvOutput({"ACK"}, s_ack) \/ RcvOutput({"ACKREQ"}, s_ack)
      BY <2>2 DEF RcvKeepTick
    <3> QED BY <3>1 DEF RcvOutput
  <2> QED BY <2>1, <2>2
<1>6. \A c \in {"ACK", "ACKREQ"} : /\ AckPacket(c, s_ack) \in SndPacket
                                  /\ AckPacket(c, s_ack).num = s_ack
  BY Numbers DEF AckPacket, SndPacket
<1>7. /\ toSnd' \in SUBSET SndPacket
      /\ \A p \in toSnd' : p \in toSnd \/ p.num = s_ack
  BY <1>1, <1>5, <1>6 DEF TypeOK
<1>8. ReaderInv'
  BY <1>1, <1>2 DEF ReaderInv, InOrder, ReorderQueueAhead, sndVars
<1>9. /\ s_q' \in SUBSET Nat /\ inputCont' \in BOOLEAN
      /\ delayedAckCount' \in 0 .. DefaultWindowSize
      /\ injecting' \in SUBSET Nat /\ so_rcv' \in Seq(Nat)
      /\ \A n \in s_q' : n <= s_smax
  BY <1>1, <1>2, Zenon DEF TypeOK, SenderInv
<1>10. /\ s_ack' \in Nat /\ s_ack <= s_ack' /\ s_ack' <= s_seq
       /\ s_ack' <= s_smax + 1
  BY <1>1, <1>2, Numbers DEF SenderInv, SenderPointers
<1> QED BY <1>2, <1>3, <1>4, <1>7, <1>8, <1>9, <1>10, ReaderStep, Zenon

(* A turn of the loop "present:" keeps IInv when so_rcv holds every record *)
(* before s_ack.                                                           *)
LEMMA PresentStep ==
  ASSUME IInv, NEW q \in SUBSET Nat, NEW acknow \in BOOLEAN,
         NEW cont \in BOOLEAN,
         \A n \in q : s_ack <= n /\ n < s_seq /\ n <= s_smax,
         Present(q, acknow, cont), UNCHANGED <<s_state, sndVars, toRcv>>,
         s_idle' \in [End -> Nat], so_rcv' \in Seq(Nat),
         Len(so_rcv') = s_ack - 1, InOrder'
  PROVE  IInv'
<1>1. TypeOK /\ SenderInv
  BY DEF IInv
<1>2. /\ s_ack' \in Nat
      /\ \/ s_ack' = s_ack /\ injecting' = {}
         \/ s_ack' = s_ack + 1 /\ injecting' = {s_ack} /\ s_ack \in q
      /\ s_q' \subseteq q /\ \A n \in s_q' : s_ack' <= n
      /\ s_acknow' \in BOOLEAN /\ inputCont' \in BOOLEAN
      /\ delayedAckCount' \in 0 .. DefaultWindowSize
      /\ toSnd' \in SUBSET SndPacket
      /\ \A p \in toSnd' : p \in toSnd \/ p.num = s_ack
  BY PresentKeeps, Zenon
<1>3. /\ s_ack <= s_ack' /\ s_ack' <= s_seq /\ s_ack' <= s_smax + 1
      /\ injecting' \in SUBSET Nat
  <2>1. CASE s_ack' = s_ack /\ injecting' = {}
    BY <2>1, <1>1, Numbers DEF SenderInv, SenderPointers
  <2>2. CASE s_ack' = s_ack + 1 /\ injecting' = {s_ack} /\ s_ack \in q
    <3>1. s_ack < s_seq /\ s_ack <= s_smax /\ s_ack' = s_ack + 1
      BY <2>2
    <3>2. s_ack <= s_ack' /\ s_ack' <= s_seq /\ s_ack' <= s_smax + 1
      BY SMTT(60), <3>1, Numbers
    <3>3. injecting' \in SUBSET Nat
      BY <2>2, Numbers
    <3> QED BY <3>2, <3>3
  <2> QED BY <1>2, <2>1, <2>2
<1>4. s_seq' = s_seq
  BY DEF sndVars
<1>5. ReaderInv'
  <2>1. ReorderQueueAhead'
    BY <1>2, <1>4 DEF ReorderQueueAhead
  <2>2. \/ injecting' = {} /\ Len(so_rcv') = s_ack' - 1
        \/ injecting' = {s_ack' - 1} /\ Len(so_rcv') = s_ack' - 2
    <3>1. s_ack' = s_ack + 1 => s_ack' - 1 = s_ack /\ s_ack' - 2 = s_ack - 1
      BY SMTT(60), Numbers
    <3> QED BY <3>1, <1>2, Zenon
  <2> QED BY <2>1, <2>2 DEF ReaderInv
<1>6. /\ s_q' \in SUBSET Nat /\ \A n \in s_q' : n <= s_smax
      /\ s_state' \in [End -> {"ESTABLISHED", "CLOSED"}]
      /\ s_state'["snd"] = s_state["snd"] /\ UNCHANGED <<sndVars, toRcv>>
  BY <1>1, <1>2 DEF TypeOK
<1> QED BY <1>2, <1>3, <1>5, <1>6, ReaderStep, Zenon

(* The end of sock_inject_data_in keeps IInv.                              *)
LEMMA InjectDoneKeeps == IInv /\ InjectDone => IInv'
<1> SUFFICES ASSUME IInv, InjectDone PROVE IInv'
  OBVIOUS
<1>1. TypeOK /\ ReaderInv /\ SenderInv
  BY DEF IInv
<1>2. injecting = {s_ack - 1} /\ Len(so_rcv) = s_ack - 2
  BY <1>1 DEF ReaderInv, InjectDone
<1>3. so_rcv' = Append(so_rcv, s_ack - 1)
  BY <1>2 DEF InjectDone
<1>4. so_rcv \in Seq(Nat) /\ s_ack - 1 \in Nat /\ s_ack \in Nat
  BY <1>1, Numbers DEF TypeOK
<1>5. so_rcv' \in Seq(Nat) /\ Len(so_rcv') = s_ack - 1
  BY <1>2, <1>3, <1>4
<1>6. InOrder'
  <2>1. ASSUME NEW i \in 1 .. Len(so_rcv') PROVE so_rcv'[i] = i
    <3>1. CASE i = s_ack - 1
      BY <3>1, <1>2, <1>3, <1>4
    <3>2. CASE i # s_ack - 1
      <4>1. i \in 1 .. Len(so_rcv)
        BY <3>2, <1>2, <1>4, <1>5
      <4>2. so_rcv[i] = i
        BY <4>1, <1>1 DEF ReaderInv, InOrder
      <4> QED BY <4>1, <4>2, <1>3, <1>4
    <3> QED BY <3>1, <3>2
  <2> QED BY <2>1 DEF InOrder
<1>7. /\ s_q \in SUBSET Nat /\ s_acknow \in BOOLEAN /\ inputCont \in BOOLEAN
      /\ s_idle' \in [End -> Nat]
      /\ \A n \in s_q : s_ack <= n /\ n < s_seq /\ n <= s_smax
  BY <1>1 DEF TypeOK, ReaderInv, ReorderQueueAhead, SenderInv, InjectDone
<1>8. /\ Present(s_q, s_acknow, inputCont)
      /\ UNCHANGED <<s_state, sndVars, toRcv>>
  BY DEF InjectDone
<1> QED BY <1>5, <1>6, <1>7, <1>8, PresentStep, Zenon

(* A packet at the reader keeps IInv: SSEQ_LT and SSEQ_EQ see its number   *)
(* for what it is, because it is young.                                    *)
LEMMA RcvInputKeeps ==
  ASSUME IInv, NEW p \in toRcv, RcvInput(p)
  PROVE  IInv'
<1>1. TypeOK /\ PacketInv /\ ReaderInv /\ SenderInv
  BY DEF IInv
<1>2. /\ injecting = {} /\ so_rcv' = so_rcv
      /\ s_idle' \in [End -> Nat] /\ UNCHANGED <<s_state, sndVars, toRcv>>
  BY <1>1 DEF RcvInput, TypeOK, End
<1>3. CASE /\ UNCHANGED <<s_ack, s_q, injecting, inputCont>>
           /\ \E acknow, cont \in BOOLEAN : FinishInput(acknow, cont, s_ack)
  <2>1. /\ delayedAckCount' \in 0 .. DefaultWindowSize
        /\ s_acknow' \in BOOLEAN /\ toSnd' \in SUBSET SndPacket
        /\ \A m \in toSnd' : m \in toSnd \/ m.num = s_ack
    BY <1>1, <1>3, FinishKeeps
  <2>2. /\ s_state' \in [End -> {"ESTABLISHED", "CLOSED"}]
        /\ s_state'["snd"] = s_state["snd"]
        /\ s_q' \in SUBSET Nat /\ inputCont' \in BOOLEAN
        /\ injecting' \in SUBSET Nat /\ so_rcv' \in Seq(Nat)
        /\ \A n \in s_q' : n <= s_smax
    BY <1>1, <1>2, <1>3, Zenon DEF TypeOK, SenderInv
  <2>3. /\ s_ack' \in Nat /\ s_ack <= s_ack' /\ s_ack' <= s_seq
        /\ s_ack' <= s_smax + 1
    BY <1>1, <1>3, Numbers DEF SenderInv, SenderPointers
  <2>4. ReaderInv'
    BY <1>1, <1>2, <1>3 DEF ReaderInv, InOrder, ReorderQueueAhead, sndVars
  <2> QED BY <1>2, <2>1, <2>2, <2>3, <2>4, ReaderStep, Zenon
<1>4. CASE /\ p.lsctl = "DATA" /\ ~Seen(p.num)
           /\ Present(s_q \cup {p.num}, TRUE, p.num \in Continued)
  <2>1. /\ p.num \in Nat /\ p.num < s_seq /\ s_seq <= p.num + Lifetime
        /\ p.num <= s_smax
    BY <1>1, <1>4 DEF TypeOK, PacketInv, SenderInv, RcvPacket
  <2>2. s_ack <= p.num
    <3>1. p.num < s_ack + Half /\ s_ack < p.num + Half
      BY <2>1, Numbers
    <3>2. SSEQ_LT(p.num, s_ack) <=> p.num < s_ack
      BY <2>1, <3>1, Numbers, SeqOrder
    <3> QED BY <3>2, <1>4, <2>1, Numbers DEF Seen
  <2>3. \A n \in s_q : n \in Nat /\ s_ack <= n /\ n < s_seq /\ n <= s_smax
    BY <1>1 DEF TypeOK, ReaderInv, ReorderQueueAhead, SenderInv
  <2>4. /\ s_q \cup {p.num} \in SUBSET Nat
        /\ \A n \in s_q \cup {p.num} : s_ack <= n /\ n < s_seq /\ n <= s_smax
    BY <2>1, <2>2, <2>3
  <2>5. so_rcv' \in Seq(Nat) /\ Len(so_rcv') = s_ack - 1 /\ InOrder'
    <3>1. injecting # {s_ack - 1}
      BY <1>2
    <3> QED BY <1>1, <1>2, <3>1 DEF TypeOK, ReaderInv, InOrder
  <2>6. TRUE \in BOOLEAN /\ (p.num \in Continued) \in BOOLEAN
    OBVIOUS
  <2> QED BY <1>2, <1>4, <2>4, <2>5, <2>6, PresentStep, Zenon
<1>5. CASE /\ p.lsctl # "DATA"
           /\ FinishInput(s_acknow \/ (p.lsctl = "ACKREQ"
                                         /\ s_state["rcv"] = "ESTABLISHED"),
                          FALSE, s_ack)
           /\ UNCHANGED <<s_ack, s_q, injecting, inputCont>>
  <2>1. (s_acknow \/ (p.lsctl = "ACKREQ" /\ s_state["rcv"] = "ESTABLISHED"))
          \in BOOLEAN
    OBVIOUS
  <2> QED BY <1>3, <1>5, <2>1, Zenon
<1>6. CASE /\ FinishInput(TRUE, p.num \in Continued, s_ack)
           /\ UNCHANGED <<s_ack, s_q, injecting, inputCont>>
  <2>1. TRUE \in BOOLEAN /\ (p.num \in Continued) \in BOOLEAN
    OBVIOUS
  <2> QED BY <1>3, <1>6, <2>1, Zenon
<1> QED BY <1>4, <1>5, <1>6, Zenon DEF RcvInput

(* Losing a packet keeps IInv.                                             *)
LEMMA LoseKeeps ==
  ASSUME IInv, UNCHANGED <<s_state, s_idle, sndVars, rcvVars>>,
         toRcv' \subseteq toRcv, toSnd' \subseteq toSnd
  PROVE  IInv'
<1>1. TypeOK /\ WindowInv /\ PacketInv /\ ReaderInv /\ SenderInv
  BY DEF IInv
<1>2. /\ s_state' = s_state /\ s_idle' = s_idle /\ s_seq' = s_seq
      /\ snd_head' = snd_head /\ s_snxt' = s_snxt /\ s_rack' = s_rack
      /\ s_smax' = s_smax /\ s_rexmt' = s_rexmt /\ s_rxtshift' = s_rxtshift
      /\ s_ack' = s_ack /\ s_q' = s_q /\ s_acknow' = s_acknow
      /\ delayedAckCount' = delayedAckCount /\ injecting' = injecting
      /\ inputCont' = inputCont /\ so_rcv' = so_rcv
  BY DEF sndVars, rcvVars
<1>3. TypeOK'
  <2>1. toRcv' \in SUBSET RcvPacket /\ toSnd' \in SUBSET SndPacket
    BY <1>1 DEF TypeOK
  <2> QED BY <1>1, <1>2, <2>1, Zenon DEF TypeOK
<1>4. WindowInv'
  BY <1>1, <1>2 DEF WindowInv
<1>5. PacketInv'
  BY <1>1, <1>2 DEF PacketInv
<1>6. ReaderInv'
  BY <1>1, <1>2 DEF ReaderInv, ReorderQueueAhead, InOrder
<1>7. SenderInv'
  <2>1. RexmtCoversOutstanding'
    BY <1>1, <1>2, Zenon DEF SenderInv, RexmtCoversOutstanding, SoSnd
  <2>2. SenderPointers'
    BY <1>1, <1>2 DEF SenderInv, SenderPointers
  <2> QED BY <1>1, <1>2, <2>1, <2>2 DEF SenderInv
<1> QED BY <1>3, <1>4, <1>5, <1>6, <1>7 DEF IInv

(* Every step keeps IInv.                                                  *)
THEOREM StepIInv == IInv /\ [Next]_vars => IInv'
<1> SUFFICES ASSUME IInv, [Next]_vars PROVE IInv'
  OBVIOUS
<1>1. CASE UserSend
  BY <1>1, UserSendKeeps
<1>2. CASE RexmtTimeout
  BY <1>2, RexmtTimeoutKeeps
<1>3. CASE SndKeepTick
  BY <1>3, SndKeepTickKeeps
<1>4. CASE RcvKeepTick
  BY <1>4, RcvKeepTickKeeps
<1>5. CASE InjectDone
  BY <1>5, InjectDoneKeeps
<1>6. ASSUME NEW p \in toSnd, SndInput(p) PROVE IInv'
  BY <1>6, SndInputKeeps
<1>7. ASSUME NEW p \in toSnd, LoseToSnd(p) PROVE IInv'
  BY <1>7, LoseKeeps DEF LoseToSnd
<1>8. ASSUME NEW p \in toRcv, RcvInput(p) PROVE IInv'
  BY <1>8, RcvInputKeeps
<1>9. ASSUME NEW p \in toRcv, LoseToRcv(p) PROVE IInv'
  BY <1>9, LoseKeeps DEF LoseToRcv
<1>10. CASE UNCHANGED vars
  BY <1>10, LoseKeeps DEF vars
<1> QED BY <1>1, <1>2, <1>3, <1>4, <1>5, <1>6, <1>7, <1>8, <1>9, <1>10 DEF Next

(* IInv is an invariant of the protocol.                                   *)
THEOREM IInvAlways == Spec => []IInv
<1> QED BY InitIInv, StepIInv, PTL DEF Spec

-----------------------------------------------------------------------------
(* What IInv gives.                                                        *)

(* The control blocks stay within their types; above all                   *)
(* delayedAckCount, which is decremented for every acknowledgement held    *)
(* back, never passes 0, and s_rxtshift never passes SMP_MAXRXTSHIFT.      *)
THEOREM TypeCorrect == Spec => []TypeOK
<1>1. IInv => TypeOK
  BY DEF IInv
<1> QED BY <1>1, IInvAlways, PTL

(* The reader's user gets the records in order, each once, none missing,   *)
(* with any loss, duplication and reordering, for every window and modulus *)
(* that keep 2^15 records between a packet's writing and its end.          *)
THEOREM Ordered == Spec => []InOrder
<1>1. IInv => InOrder
  BY DEF IInv, ReaderInv
<1> QED BY <1>1, IInvAlways, PTL

(* A record the writer forgot is a record the reader took.                 *)
THEOREM ForgottenWasTaken == Spec => []AckedWasTaken
<1>1. IInv => AckedWasTaken
  <2> SUFFICES ASSUME IInv, NEW n \in 1 .. snd_head - 1
               PROVE  n <= Len(so_rcv) \/ n \in injecting
    BY DEF AckedWasTaken
  <2>1. \/ injecting = {} /\ Len(so_rcv) = s_ack - 1
        \/ injecting = {s_ack - 1} /\ Len(so_rcv) = s_ack - 2
    BY DEF IInv, ReaderInv
  <2>2. n \in Nat /\ n <= s_ack - 1 /\ s_ack \in Nat
    BY Numbers
  <2> QED BY <2>1, <2>2
<1> QED BY <1>1, IInvAlways, PTL

(* The reorder queue never holds a record that was presented.              *)
THEOREM QueueAhead == Spec => []ReorderQueueAhead
<1>1. IInv => ReorderQueueAhead
  BY DEF IInv, ReaderInv
<1> QED BY <1>1, IInvAlways, PTL

(* The writer's pointers keep their order under stale acknowledgements.    *)
THEOREM PointersOrdered == Spec => []SenderPointers
<1>1. IInv => SenderPointers
  BY DEF IInv, SenderInv
<1> QED BY <1>1, IInvAlways, PTL

(* No transmitted and unacknowledged record is without a running timer.    *)
THEOREM TimerCovers == Spec => []RexmtCoversOutstanding
<1>1. IInv => RexmtCoversOutstanding
  BY DEF IInv, SenderInv
<1> QED BY <1>1, IInvAlways, PTL

-----------------------------------------------------------------------------
(* Where the retransmission timer of an empty queue can still run.         *)

(* It runs over an empty so_snd only when the last record transmitted has  *)
(* the last 16-bit number: ackseq == cb->s_smax + 1 is then compared after *)
(* promotion to int and does not see that everything was acknowledged.     *)
TimerInv == RexmtOnlyWhileUnacked \/ U16(s_smax) = SeqMod - 1

(* Without a record in the queue lpx_stream_output transmits none: it      *)
(* moves no pointer and leaves the timer as it is told to.                 *)
LEMMA OutputOfEmpty ==
  ASSUME NEW next, NEW snxt, NEW rack, NEW armed \in BOOLEAN, NEW ctl,
         SndOutput({}, next, snxt, rack, armed, ctl)
  PROVE  s_smax' = s_smax /\ s_rexmt' = armed
<1>1. Burst({}, snxt) = {}
  BY DEF Burst
<1> QED BY <1>1 DEF SndOutput

(* A number that the code does not take for its predecessor's successor    *)
(* follows the last number of a cycle.                                     *)
LEMMA MissedSuccessor ==
  ASSUME NEW n \in Nat, ~IsSuccessor(n + 1, n)
  PROVE  U16(n) = SeqMod - 1
<1>1. SeqMod \in Nat \ {0}
  BY HalfAssumption DEF SeqMod
<1>2. PICK i \in Int : n = SeqMod * i + U16(n)
  BY Sixteen
<1>3. U16(n) \in 0 .. SeqMod - 1
  BY Sixteen
<1>4. PICK j \in Int : n + 1 = SeqMod * j + U16(n + 1)
  BY Sixteen
<1>5. U16(n + 1) \in 0 .. SeqMod - 1
  BY Sixteen
<1>6. U16(n + 1) = U16(n) + 1 + SeqMod * (i - j)
  BY <1>1, <1>2, <1>3, <1>4, <1>5
<1>7. U16(n + 1) # U16(n) + 1
  BY DEF IsSuccessor
<1>8. i - j # 0
  BY <1>1, <1>3, <1>6, <1>7
<1>9. ~(i - j >= 1)
  <2>1. SUFFICES ASSUME i - j >= 1 PROVE FALSE
    OBVIOUS
  <2>2. SeqMod * (i - j) >= SeqMod
    BY <1>1, <2>1
  <2> QED BY <2>2, <1>1, <1>3, <1>5, <1>6
<1>10. SeqMod * (i - j) <= -SeqMod
  <2>1. i - j <= -1
    BY <1>8, <1>9
  <2> QED BY <2>1, <1>1
<1> QED BY <1>1, <1>3, <1>5, <1>6, <1>10

(* Initially the timer is off.                                             *)
LEMMA InitTimerInv == Init => TimerInv
<1> QED BY DEF Init, TimerInv, RexmtOnlyWhileUnacked

(* A step that empties so_snd, or finds it empty, and leaves s_smax and    *)
(* the timer, keeps TimerInv if it was empty or its timer was off.         *)
LEMMA TimerUntouched ==
  ASSUME TimerInv, UNCHANGED <<s_smax, s_rexmt, SoSnd>>, s_state'["snd"] = s_state["snd"]
  PROVE  TimerInv'
<1> QED BY DEF TimerInv, RexmtOnlyWhileUnacked, U16, SeqMod

(* An acknowledgement empties so_snd only if it acknowledges all that was  *)
(* sent, and that stops the timer, but for the last number of a cycle.     *)
LEMMA AckStopsTimer ==
  ASSUME IInv, TimerInv, NEW p \in toSnd, SndInput(p)
  PROVE  TimerInv'
<1> DEFINE a == p.num
           all == AllAcked(a)
           req == p.lsctl = "ACKREQ" /\ s_state["snd"] = "ESTABLISHED"
           ctl == IF req THEN {ControlPacket("ACK")} ELSE {}
           armed == s_rexmt /\ ~all
<1>1. s_state' = s_state /\ s_seq' = s_seq
  BY DEF SndInput
<1>2. PICK h \in snd_head .. s_seq :
        /\ \A n \in snd_head .. h - 1 : Acked(n, a)
        /\ h = s_seq \/ ~Acked(h, a)
        /\ snd_head' = h
        /\ IF all \/ req
           THEN SndOutput(h .. s_seq - 1, s_seq, SnxtAfter(a), a, armed, ctl)
           ELSE UNCHANGED <<toRcv, s_smax, s_rexmt>>
  BY Zenon DEF SndInput
<1>3. /\ a \in Nat /\ a <= s_ack /\ a <= h /\ h \in Nat /\ snd_head <= h /\ h <= s_seq
      /\ s_ack <= s_smax + 1
  <2>1. a \in Nat /\ a <= s_ack /\ a <= h
    BY <1>2, TrimmedTo
  <2> QED BY <2>1, Numbers DEF IInv, SenderInv, SenderPointers
<1>4. SoSnd' = h .. s_seq - 1
  BY <1>1, <1>2 DEF SoSnd
<1>5. SUFFICES ASSUME s_state["snd"] = "ESTABLISHED", s_rexmt', SoSnd' = {}
               PROVE  U16(s_smax') = SeqMod - 1
  <2>1. U16(s_smax)' = U16(s_smax') /\ SeqMod' = SeqMod
    BY DEF U16, SeqMod
  <2> QED BY <1>1, <2>1 DEF TimerInv, RexmtOnlyWhileUnacked
<1>6. h = s_seq
  BY <1>3, <1>4, <1>5, Numbers
<1>7. s_smax' = s_smax /\ s_rexmt /\ ~all
  <2>1. CASE all \/ req
    <3>1. SndOutput({}, s_seq, SnxtAfter(a), a, armed, ctl)
      BY <1>2, <1>4, <1>5, <2>1
    <3>2. armed \in BOOLEAN
      OBVIOUS
    <3> HIDE DEF armed, ctl
    <3>3. s_smax' = s_smax /\ s_rexmt' = armed
      BY <3>1, <3>2, OutputOfEmpty
    <3> USE DEF armed
    <3> QED BY <3>3, <1>5
  <2>2. CASE ~(all \/ req)
    BY <1>2, <1>5, <2>2
  <2> QED BY <2>1, <2>2
<1>8. CASE snd_head = s_seq
  <2>1. SoSnd = {}
    BY <1>8, Numbers DEF SoSnd
  <2> QED BY <1>5, <1>7, <2>1 DEF TimerInv, RexmtOnlyWhileUnacked
<1>9. CASE snd_head # s_seq
  <2>1. s_seq - 1 \in snd_head .. h - 1 /\ s_seq - 1 \in Nat
    BY <1>6, <1>9, Numbers
  <2>2. Acked(s_seq - 1, a)
    BY <1>2, <2>1
  <2>3. s_seq - 1 < a + Half /\ a <= (s_seq - 1) + SndLimit
    BY <1>3, Numbers DEF IInv, PacketInv
  <2>4. s_seq - 1 < a
    BY <1>3, <2>1, <2>2, <2>3, AckedMeansBefore
  <2>5. a = s_smax + 1
    BY <1>3, <2>4, Numbers
  <2> QED BY <1>7, <2>5, Numbers, MissedSuccessor DEF AllAcked
<1> QED BY <1>8, <1>9

(* Every step keeps TimerInv.                                              *)
THEOREM StepTimerInv == IInv /\ TimerInv /\ [Next]_vars => TimerInv'
<1> SUFFICES ASSUME IInv, TimerInv, [Next]_vars PROVE TimerInv'
  OBVIOUS
<1>1. ASSUME UNCHANGED sndVars, s_state'["snd"] = s_state["snd"] PROVE TimerInv'
  BY <1>1, TimerUntouched DEF sndVars, SoSnd
<1>2. ASSUME SndOutput(SoSnd, s_seq, s_snxt, s_rack, s_rexmt, {ControlPacket("ACKREQ")})
             \/ \E snxt \in {s_snxt, s_rack}, c \in {"ACK", "ACKREQ"} :
                  s_rexmt /\ SndOutput(SoSnd, s_seq, snxt, s_rack, TRUE, {ControlPacket(c)}),
             UNCHANGED <<s_seq, snd_head, s_state>>
      PROVE  TimerInv'
  <2>1. SoSnd' = SoSnd
    BY <1>2 DEF SoSnd
  <2>2. s_rexmt \in BOOLEAN
    BY DEF IInv, TypeOK
  <2>3. CASE SoSnd # {}
    BY <2>1, <2>3 DEF TimerInv, RexmtOnlyWhileUnacked
  <2>4. CASE SoSnd = {}
    <3>1. s_smax' = s_smax /\ s_rexmt' = s_rexmt
      BY <1>2, <2>2, <2>4, OutputOfEmpty
    <3> QED BY <1>2, <2>1, <3>1, TimerUntouched
  <2> QED BY <2>3, <2>4
<1>3. ASSUME s_state'["snd"] = "CLOSED" PROVE TimerInv'
  BY <1>3 DEF TimerInv, RexmtOnlyWhileUnacked
<1>4. CASE UserSend
  <2>1. s_seq' = s_seq + 1 /\ snd_head' = snd_head
    BY <1>4 DEF UserSend
  <2>2. s_seq \in Nat /\ snd_head \in Nat /\ snd_head <= s_seq
    <3>1. s_seq \in Nat /\ snd_head \in Nat /\ s_ack \in Nat
          /\ snd_head <= s_ack /\ s_ack <= s_seq
      BY Numbers
    <3> QED BY <3>1
  <2>3. s_seq \in SoSnd'
    BY <2>1, <2>2 DEF SoSnd
  <2> QED BY <2>3 DEF TimerInv, RexmtOnlyWhileUnacked
<1>5. CASE RexmtTimeout
  <2>1. CASE s_rxtshift = MaxRxtShift
    BY <1>3, <1>5, <2>1 DEF RexmtTimeout, SndDrop, IInv, TypeOK, End
  <2>2. CASE s_rxtshift # MaxRxtShift
    BY <1>2, <1>5, <2>2 DEF RexmtTimeout
  <2> QED BY <2>1, <2>2
<1>6. CASE SndKeepTick
  <2>1. CASE ~KeepFires("snd")
    BY <1>6, <2>1, TimerUntouched DEF SndKeepTick, SoSnd
  <2>2. CASE KeepFires("snd") /\ s_idle["snd"] >= MaxIdle
    BY <1>3, <1>6, <2>2 DEF SndKeepTick, SndDrop, IInv, TypeOK, End
  <2>3. CASE KeepFires("snd") /\ ~(s_idle["snd"] >= MaxIdle)
    BY <1>2, <1>6, <2>3 DEF SndKeepTick
  <2> QED BY <2>1, <2>2, <2>3
<1>7. CASE RcvKeepTick
  <2>1. s_state'["snd"] = s_state["snd"]
    BY <1>7 DEF RcvKeepTick, IInv, TypeOK, End
  <2> QED BY <1>1, <1>7, <2>1 DEF RcvKeepTick
<1>8. CASE InjectDone
  BY <1>1, <1>8 DEF InjectDone
<1>9. ASSUME NEW p \in toSnd, SndInput(p) PROVE TimerInv'
  BY <1>9, AckStopsTimer
<1>10. ASSUME NEW p \in toSnd, LoseToSnd(p) PROVE TimerInv'
  BY <1>1, <1>10 DEF LoseToSnd
<1>11. ASSUME NEW p \in toRcv, RcvInput(p) PROVE TimerInv'
  BY <1>1, <1>11 DEF RcvInput
<1>12. ASSUME NEW p \in toRcv, LoseToRcv(p) PROVE TimerInv'
  BY <1>1, <1>12 DEF LoseToRcv
<1>13. CASE UNCHANGED vars
  BY <1>1, <1>13 DEF vars
<1> QED BY <1>4, <1>5, <1>6, <1>7, <1>8, <1>9, <1>10, <1>11, <1>12, <1>13 DEF Next

(* The timer of an idle connection is off whenever the last record         *)
(* transmitted does not have the last 16-bit number.                       *)
THEOREM TimerStops == Spec => []TimerInv
<1> QED BY IInvAlways, InitTimerInv, StepTimerInv, PTL DEF Spec

(* Until the numbers wrap for the first time the timer runs only while a   *)
(* record is unacknowledged: an idle connection is not dropped for want of *)
(* an acknowledgement that nobody owes.                                    *)
THEOREM TimerOnlyWhileUnacked ==
  ASSUME MaxRecords < SeqMod - 1
  PROVE  Spec => []RexmtOnlyWhileUnacked
<1> DEFINE Bounded == s_seq <= MaxRecords + 1
<1>1. Init => Bounded
  BY StreamAssumption DEF Init
<1>2. IInv /\ Bounded /\ [Next]_vars => Bounded'
  <2> SUFFICES ASSUME IInv, Bounded, [Next]_vars PROVE Bounded'
    OBVIOUS
  <2>1. CASE UserSend
    BY <2>1, Numbers, StreamAssumption DEF UserSend
  <2>2. CASE ~UserSend
    <3>1. s_seq' = s_seq
      BY <2>2 DEF Next, vars, sndVars, RexmtTimeout, SndKeepTick, RcvKeepTick, InjectDone,
                  SndInput, LoseToSnd, RcvInput, LoseToRcv
    <3> QED BY <3>1
  <2> QED BY <2>1, <2>2
<1>3. IInv /\ TimerInv /\ Bounded => RexmtOnlyWhileUnacked
  <2> SUFFICES ASSUME IInv, TimerInv, Bounded PROVE RexmtOnlyWhileUnacked
    OBVIOUS
  <2>1. s_smax \in Nat /\ s_smax < SeqMod - 1 /\ SeqMod \in Nat \ {0}
    BY Numbers, StreamAssumption, HalfAssumption DEF SeqMod
  <2>2. U16(s_smax) = s_smax
    BY <2>1 DEF U16
  <2> QED BY <2>1, <2>2 DEF TimerInv
<1> HIDE DEF Bounded
<1> QED BY <1>1, <1>2, <1>3, IInvAlways, TimerStops, PTL DEF Spec

-----------------------------------------------------------------------------
(* LpxStream implements ReliableStream.                                    *)

(* A step that neither numbers a record, nor fills so_rcv, nor changes the *)
(* writer's state is a stuttering step of the reliable stream.             *)
LEMMA Stutter ==
  ASSUME s_seq' = s_seq, so_rcv' = so_rcv, s_state'["snd"] = s_state["snd"]
  PROVE  UNCHANGED Reliable!vars
<1> QED BY DEF Reliable!vars

(* The writer's timers leave the stream alone or drop the connection.      *)
LEMMA TimerRefines ==
  ASSUME IInv, RexmtTimeout \/ SndKeepTick
  PROVE  [Reliable!Next]_Reliable!vars
<1>1. /\ s_seq' = s_seq /\ so_rcv' = so_rcv
      /\ s_state["snd"] = "ESTABLISHED"
  BY DEF RexmtTimeout, SndKeepTick, rcvVars
<1>2. s_state \in [End -> {"ESTABLISHED", "CLOSED"}]
  BY DEF IInv, TypeOK
<1>3. \/ s_state' = s_state
      \/ s_state' = [s_state EXCEPT !["snd"] = "CLOSED"]
  BY DEF RexmtTimeout, SndKeepTick, SndDrop
<1>4. CASE s_state' = s_state
  BY <1>1, <1>4, Stutter
<1>5. CASE s_state' = [s_state EXCEPT !["snd"] = "CLOSED"]
  <2>1. s_state'["snd"] = "CLOSED"
    BY <1>2, <1>5 DEF End
  <2> QED BY <1>1, <2>1 DEF Reliable!Next, Reliable!Drop
<1> QED BY <1>3, <1>4, <1>5

(* Every step of the protocol is a step of the reliable stream: a user's   *)
(* write is Write, the end of sock_inject_data_in is Read and              *)
(* lpx_stream_drop is Drop.                                                *)
THEOREM StepRefines == IInv /\ [Next]_vars => [Reliable!Next]_Reliable!vars
<1> SUFFICES ASSUME IInv, [Next]_vars PROVE [Reliable!Next]_Reliable!vars
  OBVIOUS
<1>1. /\ ReaderInv /\ s_ack \in Nat /\ s_seq \in Nat /\ s_ack <= s_seq
      /\ snd_head \in Nat /\ snd_head <= s_ack /\ SndLimit \in Nat
  BY Numbers DEF IInv
<1>2. \/ injecting = {} /\ Len(so_rcv) = s_ack - 1
      \/ injecting = {s_ack - 1} /\ Len(so_rcv) = s_ack - 2
  BY <1>1 DEF ReaderInv
<1>3. CASE UserSend
  <2>1. /\ s_seq' = s_seq + 1 /\ so_rcv' = so_rcv /\ s_state' = s_state
        /\ s_state["snd"] = "ESTABLISHED" /\ s_seq - snd_head < SndLimit
    BY <1>3 DEF UserSend, rcvVars
  <2>2. s_seq - 1 < Len(so_rcv) + (SndLimit + 1) /\ s_seq' - 1 = (s_seq - 1) + 1
    BY <1>1, <1>2, <2>1
  <2> QED BY <2>1, <2>2 DEF Reliable!Next, Reliable!Write
<1>4. CASE InjectDone
  <2>1. injecting = {s_ack - 1} /\ Len(so_rcv) = s_ack - 2
    BY <1>2, <1>4 DEF InjectDone
  <2>2. /\ so_rcv' = Append(so_rcv, s_ack - 1) /\ s_state' = s_state
        /\ s_seq' = s_seq
    BY <1>4, <2>1 DEF InjectDone, sndVars
  <2>3. Len(so_rcv) < s_seq - 1 /\ s_ack - 1 = Len(so_rcv) + 1
    BY <1>1, <2>1
  <2> QED BY <2>2, <2>3 DEF Reliable!Next, Reliable!Read
<1>5. CASE RexmtTimeout \/ SndKeepTick
  BY <1>5, TimerRefines
<1>6. CASE RcvKeepTick
  <2>1. s_state'["snd"] = s_state["snd"]
    BY <1>6 DEF RcvKeepTick, IInv, TypeOK, End
  <2> QED BY <1>6, <2>1, Stutter DEF RcvKeepTick, sndVars
<1>7. ASSUME NEW p \in toSnd, SndInput(p) \/ LoseToSnd(p)
      PROVE  UNCHANGED Reliable!vars
  BY <1>7, Stutter DEF SndInput, LoseToSnd, sndVars, rcvVars
<1>8. ASSUME NEW p \in toRcv, RcvInput(p) \/ LoseToRcv(p)
      PROVE  UNCHANGED Reliable!vars
  BY <1>8, Stutter DEF RcvInput, LoseToRcv, sndVars, rcvVars
<1>9. CASE UNCHANGED vars
  BY <1>9, Stutter DEF vars, sndVars, rcvVars
<1> QED BY <1>3, <1>4, <1>5, <1>6, <1>7, <1>8, <1>9 DEF Next

(* The protocol of lpx_stream.c is a reliable stream.                      *)
THEOREM Implements == Spec => ImplementsReliableStream
<1>1. Init => Reliable!Init
  BY DEF Init, Reliable!Init, End
<1> QED BY <1>1, IInvAlways, StepRefines, PTL
        DEF Spec, ImplementsReliableStream, Reliable!Spec

=============================================================================

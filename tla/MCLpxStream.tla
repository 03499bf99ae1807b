---------------------------- MODULE MCLpxStream -----------------------------
(***************************************************************************)
(* LpxStream on small instances, and its start close to the wrap of the    *)
(* 16-bit sequence numbers.                                                *)
(***************************************************************************)
EXTENDS LpxStream

(* Every third record fills an mtu exactly.                                *)
EveryThird == {n \in 1 .. MaxRecords : n % 3 = 1}

(* The quiescent state after all but the last two numbers of a cycle were  *)
(* written, read and acknowledged: LpxStream reaches it from Init when no  *)
(* packet is lost.  The next three records are numbered SeqMod - 2,        *)
(* SeqMod - 1 and, after the wrap, 0.                                      *)
NearWrapInit ==
  LET first == SeqMod - 2
  IN  /\ s_state = [e \in End |-> "ESTABLISHED"]
      /\ s_idle = [e \in End |-> 0]
      /\ s_seq = first /\ snd_head = first /\ s_snxt = first
      /\ s_rack = first /\ s_smax = first - 1
      /\ s_rexmt = FALSE
      /\ s_rxtshift = 0
      /\ s_ack = first
      /\ s_q = {}
      /\ s_acknow = FALSE
      /\ delayedAckCount = DefaultWindowSize
      /\ injecting = {}
      /\ inputCont = FALSE
      /\ so_rcv = [i \in 1 .. first - 1 |-> i]
      /\ toRcv = {}
      /\ toSnd = {}

NearWrapSpec == NearWrapInit /\ [][Next]_vars

=============================================================================

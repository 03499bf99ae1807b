----------------------- MODULE LpxConnectionProofs ------------------------
(***************************************************************************)
(* Proofs about LpxConnection, for all timer values and retry limits that  *)
(* ConnectionAssumption allows.                                            *)
(***************************************************************************)
EXTENDS LpxConnection, TLAPS

-----------------------------------------------------------------------------
(* The inductive invariant.                                                *)

ClosingStates == {"FIN_WAIT_1", "FIN_WAIT_2", "CLOSING"}

(* A block that its socket still reaches has nothing behind it: not        *)
(* closed, not marked, no 2MSL timer.  A reference is remembered by a      *)
(* block that is not marked and, if reached, is on its way out.  A socket  *)
(* that was never connected has a block that was never used.               *)
Held(c) ==
  /\ c.pcb => c.socket /\ ~c.socketfreed /\ ~c.needfree /\ c.msl = 0
  /\ c.needrelease => /\ c.socket /\ ~c.needfree
                      /\ c.pcb => c.state \in ClosingStates
  /\ c.so = "none" => c.state = "CLOSED" /\ ~c.needrelease

Timed(c) == c.needfree \/ c.keep > 0 \/ c.msl > 0

SocketInv ==
  /\ Held(b)
  /\ releasing => ~b.socket
  /\ ~b.socket => releasing \/ b.needfree
  /\ dispensed => b.needfree /\ ~releasing

(* A block never used, which its owner will mark when he closes it.        *)
Fresh(c) == c.pcb /\ c.state = "CLOSED"

(* A block that is not fresh has a timer or a mark, unless sock_release,   *)
(* after which it is marked, is under way.                                 *)
TimerInv ==
  releasing \/ Timed(b) \/ (Fresh(b) /\ user # "closed" /\ unlocked = "none")

(* What the block remembers is what so_retaincnt counts.                   *)
CountInv ==
  overlap = 0 =>
    IF unlocked # "none" THEN retaincnt = 0 /\ b.needrelease
    ELSE retaincnt = IF b.needrelease \/ releasing THEN 1 ELSE 0

IInv == TypeOK /\ SocketInv /\ TimerInv /\ CountInv

-----------------------------------------------------------------------------
(* The functions from block to block.                                      *)

(* Two blocks that agree on what the invariant is about, except so_pcb.    *)
Agree(c, d) ==
  /\ d.state = c.state /\ d.socket = c.socket
  /\ d.needfree = c.needfree /\ d.needrelease = c.needrelease
  /\ d.keep = c.keep /\ d.msl = c.msl

LEMMA Numbers ==
  /\ RxtCur \in Nat \ {0} /\ Keep \in Nat \ {0} /\ Msl \in Nat \ {0}
  /\ MaxIdle \in Nat /\ Discon \in Nat /\ Overlap \in Nat
  /\ MaxRxtShift \in Nat /\ MaxRxtShiftConnect \in Nat
  /\ MaxRxtShiftConnect <= MaxRxtShift
BY ConnectionAssumption

(* The values the timers are set to are in their ranges.                   *)
LEMMA Ranges ==
  /\ 1 \in 0 .. Msl /\ Msl \in 0 .. Msl /\ RxtCur \in 0 .. RxtCur
  /\ 0 \in 0 .. 10 * Keep /\ Keep \in 0 .. 10 * Keep
  /\ 10 * Keep \in 0 .. 10 * Keep /\ Msl > 0 /\ Keep > 0 /\ 10 * Keep > 0
BY Numbers

(* A control packet changes only the timer and what was sent.              *)
LEMMA ControlKeeps ==
  ASSUME NEW c \in Block, NEW quiet \in BOOLEAN
  PROVE  /\ Control(c, quiet) \in Block
         /\ Agree(c, Control(c, quiet))
         /\ Control(c, quiet).pcb = c.pcb
         /\ Control(c, quiet).socketfreed = c.socketfreed
         /\ Control(c, quiet).so = c.so
<1> DEFINE fin == c.fin \/ SendsFin(c.state)
           rexmt == IF c.rexmt = 0 /\ c.state \in Unestablished
                      THEN RxtCur ELSE c.rexmt
<1>1. fin \in BOOLEAN
  OBVIOUS
<1>2. rexmt \in 0 .. RxtCur
  BY Numbers DEF Block
<1>3. Control(c, quiet) = c
        \/ Control(c, quiet) = [c EXCEPT !.fin = fin, !.rexmt = rexmt]
  BY DEF Control
<1> HIDE DEF fin, rexmt
<1> QED BY <1>1, <1>2, <1>3 DEF Block, Agree

(* soisdisconnected and lpx_stream_close together detach the block.        *)
LEMMA EndDetaches ==
  ASSUME NEW c \in Block, c.pcb => c.socket /\ ~c.socketfreed
  PROVE  /\ Close(Disconnected(c)) \in Block
         /\ Agree(c, Close(Disconnected(c)))
         /\ ~Close(Disconnected(c)).pcb
         /\ Close(Disconnected(c)).so = "disconnected"
BY DEF Close, Disconnected, Block, Agree


(* What is known of a block that lost its socket's reach.                  *)
Gone(c, d) ==
  /\ d \in Block /\ Held(d)
  /\ d.socket = c.socket /\ d.needrelease = c.needrelease
  /\ c.needfree => d.needfree
  /\ ~d.pcb

(* lpx_stream_drop leaves a block that is marked or about to be, unless a  *)
(* reference has to be given back first.                                   *)
LEMMA DropKeeps ==
  ASSUME NEW c \in Block, Held(c), c.socket
  PROVE  Gone(c, Drop(c)) /\ Timed(Drop(c))
<1> DEFINE fresh == c.state = "SYN_SENT" \/ c.state = "CLOSED"
           shut == Control([c EXCEPT !.state = "CLOSED"], FALSE)
           closed == IF fresh THEN c ELSE shut
           done == Close(Disconnected(closed))
<1>1. [c EXCEPT !.state = "CLOSED"] \in Block
  BY DEF Block, State, Unestablished
<1>2. /\ shut \in Block
      /\ shut.socket = c.socket /\ shut.pcb = c.pcb
      /\ shut.socketfreed = c.socketfreed
      /\ shut.needfree = c.needfree /\ shut.needrelease = c.needrelease
  BY <1>1, ControlKeeps DEF Agree, Block
<1>3. /\ closed \in Block
      /\ closed.socket = c.socket /\ closed.pcb = c.pcb
      /\ closed.socketfreed = c.socketfreed
      /\ closed.needfree = c.needfree /\ closed.needrelease = c.needrelease
  BY <1>2
<1> HIDE DEF closed
<1>4. closed.pcb => closed.socket /\ ~closed.socketfreed
  BY <1>3 DEF Held
<1>5. /\ done \in Block /\ ~done.pcb /\ done.so = "disconnected"
      /\ done.socket = c.socket
      /\ done.needfree = c.needfree /\ done.needrelease = c.needrelease
  BY <1>3, <1>4, EndDetaches DEF Agree
<1> HIDE DEF done
<1>6. Drop(c) = ScheduleFree(done)
  BY DEF Drop, done, closed
<1>7. CASE c.needrelease
  <2>1. Drop(c) = [done EXCEPT !.msl = 1]
    BY <1>5, <1>6, <1>7 DEF ScheduleFree
  <2>2. ~c.needfree
    BY <1>7 DEF Held
  <2>3. Drop(c) \in Block
    BY <1>5, <2>1, Ranges DEF Block
  <2>4. Drop(c).msl = 1 /\ Drop(c).socket = done.socket
        /\ Drop(c).pcb = done.pcb /\ Drop(c).needfree = done.needfree
        /\ Drop(c).needrelease = done.needrelease
        /\ Drop(c).so = done.so
    BY <1>5, <2>1 DEF Block
  <2> QED BY <1>5, <2>2, <2>3, <2>4 DEF Gone, Held, Timed
<1>8. CASE ~c.needrelease
  <2>1. Drop(c) = [done EXCEPT !.needfree = TRUE]
    BY <1>5, <1>6, <1>8 DEF ScheduleFree
  <2> QED BY <1>5, <1>8, <2>1 DEF Gone, Held, Timed, Block
<1> QED BY <1>7, <1>8

(* The end of the handshake leaves the 2MSL timer running.                 *)
LEMMA TimeWaitKeeps ==
  ASSUME NEW c \in Block, c.pcb => c.socket /\ ~c.socketfreed,
         c.needrelease => c.socket /\ ~c.needfree
  PROVE  Gone(c, TimeWait(c)) /\ Timed(TimeWait(c))
<1> DEFINE w == [c EXCEPT !.state = "TIME_WAIT"]
           d == Close(Disconnected(w))
<1>1. /\ w \in Block /\ w.socket = c.socket /\ w.pcb = c.pcb
      /\ w.socketfreed = c.socketfreed
      /\ w.needfree = c.needfree /\ w.needrelease = c.needrelease
  BY DEF Block, State, FinDone
<1> HIDE DEF w
<1>2. d \in Block /\ Agree(w, d) /\ ~d.pcb /\ d.so = "disconnected"
  BY <1>1, EndDetaches
<1>3. TimeWait(c) = [d EXCEPT !.msl = Msl, !.keepalive = FALSE, !.keep = 0]
  BY DEF TimeWait, w
<1> HIDE DEF d
<1>4. TimeWait(c) \in Block
  BY <1>2, <1>3, Ranges DEF Block
<1>5. TimeWait(c).msl = Msl /\ TimeWait(c).socket = d.socket
      /\ TimeWait(c).pcb = d.pcb /\ TimeWait(c).needfree = d.needfree
      /\ TimeWait(c).needrelease = d.needrelease
      /\ TimeWait(c).so = d.so
  BY <1>2, <1>3 DEF Block
<1> QED BY <1>1, <1>2, <1>4, <1>5, Ranges DEF Gone, Held, Timed, Agree

(* lpx_stream_usrclosed after its unlocking.                               *)
LEMMA FinishCloseKeeps ==
  ASSUME NEW c \in Block, Held(c)
  PROVE  LET d == FinishClose(c)
         IN  /\ d \in Block /\ Held(d)
             /\ d.socket = c.socket /\ d.state = c.state
             /\ d.needfree = c.needfree /\ d.needrelease = c.needrelease
             /\ Timed(c) => Timed(d)
             /\ c.state \in FinDone => ~d.pcb
<1>1. CASE c.state \notin FinDone
  BY <1>1 DEF FinishClose
<1>2. CASE c.state \in FinDone
  <2> DEFINE d == Close(Disconnected(c))
  <2>1. d \in Block /\ Agree(c, d) /\ ~d.pcb /\ d.so = "disconnected"
    BY EndDetaches DEF Held
  <2>2. FinishClose(c) =
          IF c.state = "FIN_WAIT_2" THEN [d EXCEPT !.msl = Msl] ELSE d
    BY <1>2 DEF FinishClose
  <2> HIDE DEF d
  <2> QED BY <1>2, <2>1, <2>2, Ranges DEF Held, Timed, Agree, Block
<1> QED BY <1>1, <1>2

LEMMA UsrclosedKeeps ==
  ASSUME NEW c \in Block, Held(c)
  PROVE  LET d == Usrclosed(c)
         IN  /\ d \in Block /\ Held(d)
             /\ d.socket = c.socket
             /\ d.needfree = c.needfree /\ d.needrelease = c.needrelease
             /\ Timed(c) => Timed(d)
             /\ d.state = "CLOSED" => c.state = "CLOSED"
<1> DEFINE w == IF c.state = "CLOSE_WAIT" THEN [c EXCEPT !.state = "LAST_ACK"]
                ELSE c
<1>1. /\ w \in Block /\ Held(w) /\ w.socket = c.socket
      /\ w.needfree = c.needfree /\ w.needrelease = c.needrelease
      /\ Timed(c) => Timed(w)
      /\ w.state = "CLOSED" => c.state = "CLOSED"
  BY DEF Held, ClosingStates, Timed, Block, State, AwaitingFinAck
<1> HIDE DEF w
<1>2. Usrclosed(c) = FinishClose(w)
  BY DEF Usrclosed, w
<1> QED BY <1>1, <1>2, FinishCloseKeeps

(* lpx_stream_disconnect marks a block it does not close by handshake.     *)
LEMMA DisconnectKeeps ==
  ASSUME NEW c \in Block, Held(c)
  PROVE  LET d == Disconnect(c)
         IN  /\ d \in Block /\ Held(d)
             /\ d.socket = c.socket /\ d.needrelease = c.needrelease
             /\ Timed(c) => Timed(d)
             /\ c.needfree => d.needfree
             /\ Fresh(c) => Timed(d)
<1>1. CASE ~c.pcb
  BY <1>1 DEF Disconnect, Fresh
<1>2. CASE c.pcb /\ c.state \in Unestablished
  <2> DEFINE e == Close(Disconnected(c))
  <2>1. e \in Block /\ Agree(c, e) /\ ~e.pcb /\ e.so = "disconnected"
    BY EndDetaches DEF Held
  <2>2. Disconnect(c) = [e EXCEPT !.needfree = TRUE]
    BY <1>2 DEF Disconnect
  <2>3. ~c.needrelease
    BY <1>2 DEF Held, ClosingStates, Unestablished
  <2> HIDE DEF e
  <2> QED BY <2>1, <2>2, <2>3 DEF Held, Timed, Agree, Block
<1>3. CASE c.pcb /\ c.state \notin Unestablished
  <2> DEFINE e == [c EXCEPT !.so = "disconnecting"]
  <2>1. e \in Block /\ Held(e) /\ Agree(c, e) /\ e.pcb = c.pcb
    BY DEF Held, Agree, Block
  <2>2. Disconnect(c) = Usrclosed(e)
    BY <1>3 DEF Disconnect
  <2>3. Timed(c) => Timed(e)
    BY <2>1 DEF Timed, Agree
  <2> HIDE DEF e
  <2>4. c.state # "CLOSED"
    BY <1>3 DEF Unestablished
  <2> QED BY <2>1, <2>2, <2>3, <2>4, UsrclosedKeeps DEF Agree, Fresh
<1> QED BY <1>1, <1>2, <1>3


(* The retransmission timer changes a block's timers only if it drops it.  *)
LEMMA RexmtKeeps ==
  ASSUME NEW c \in Block, Held(c), NEW quiet \in BOOLEAN
  PROVE  LET d == Rexmt(c, quiet)
         IN  /\ d \in Block /\ Held(d)
             /\ d.socket = c.socket /\ d.needrelease = c.needrelease
             /\ Timed(c) => Timed(d)
             /\ Fresh(c) => Fresh(d) \/ Timed(d)
<1> DEFINE d == [c EXCEPT !.rexmt = Down(@)]
           dropped == [d EXCEPT !.rxtshift = ShiftAtDrop(c)]
           resent == [d EXCEPT !.rxtshift = @ + 1, !.rexmt = RxtCur]
<1>1. Down(c.rexmt) \in 0 .. RxtCur
  BY Numbers DEF Down, Block
<1>2. MaxShift(c) \in 0 .. MaxRxtShift /\ MaxShift(c) \in Nat
  BY Numbers DEF MaxShift
<1>3. c.rxtshift \in Nat
  BY Numbers DEF Block
<1>4. d \in Block /\ Held(d) /\ Agree(c, d) /\ d.pcb = c.pcb
  BY <1>1 DEF Block, Held, Agree
<1>5. CASE ~Fires(c.rexmt)
  <2>1. Rexmt(c, quiet) = d
    BY <1>5 DEF Rexmt
  <2> HIDE DEF d
  <2> QED BY <1>4, <2>1 DEF Timed, Fresh, Agree
<1>6. CASE Fires(c.rexmt) /\ c.rxtshift + 1 > MaxShift(c)
  <2>1. Rexmt(c, quiet) = Drop(dropped)
    BY <1>6 DEF Rexmt
  <2>2. /\ dropped \in Block /\ Held(dropped)
        /\ Agree(c, dropped) /\ dropped.pcb = c.pcb
    BY <1>2, <1>4 DEF Block, Held, Agree, ShiftAtDrop
  <2> HIDE DEF dropped
  <2>3. CASE dropped.socket
    BY <2>1, <2>2, <2>3, DropKeeps DEF Gone, Agree
  <2>4. CASE ~dropped.socket
    BY <2>1, <2>2, <2>4 DEF Drop, Timed, Fresh, Agree
  <2> QED BY <2>3, <2>4
<1>7. CASE Fires(c.rexmt) /\ ~(c.rxtshift + 1 > MaxShift(c))
  <2>1. Rexmt(c, quiet) = Control(resent, quiet)
    BY <1>7 DEF Rexmt
  <2>2. c.rxtshift + 1 \in 0 .. MaxRxtShift
    BY <1>2, <1>3, <1>7, Numbers
  <2>3. /\ resent \in Block /\ Held(resent) /\ Agree(c, resent)
        /\ resent.pcb = c.pcb /\ resent.socketfreed = c.socketfreed
    BY <1>4, <2>2, Ranges DEF Block, Held, Agree
  <2> HIDE DEF resent
  <2> QED BY <2>1, <2>3, ControlKeeps DEF Held, Timed, Fresh, Agree
<1> QED BY <1>5, <1>6, <1>7

(* The keep-alive timer runs on or drops the block.                        *)
LEMMA KeepAliveKeeps ==
  ASSUME NEW c \in Block, Held(c), NEW quiet \in BOOLEAN
  PROVE  LET d == KeepAlive(c, quiet)
         IN  /\ d \in Block /\ Held(d)
             /\ d.socket = c.socket /\ d.needrelease = c.needrelease
             /\ c.socket /\ Timed(c) => Timed(d)
             /\ Fresh(c) => Fresh(d) \/ Timed(d)
<1> DEFINE d == [c EXCEPT !.keep = Down(@)]
           restarted == [d EXCEPT !.idle = 0, !.keep = Keep]
           probed == [Control(d, quiet) EXCEPT !.keep = Keep,
                                               !.idle = IdleKept(c)]
<1>1. Down(c.keep) \in 0 .. 10 * Keep /\ (c.keep > 1 => Down(c.keep) > 0)
  BY Numbers DEF Down, Block
<1>2. /\ d \in Block /\ Held(d) /\ d.pcb = c.pcb /\ d.state = c.state
      /\ d.socket = c.socket /\ d.needrelease = c.needrelease
      /\ d.msl = c.msl /\ d.needfree = c.needfree
      /\ d.socketfreed = c.socketfreed /\ d.so = c.so
      /\ ~Fires(c.keep) /\ c.keep > 0 => d.keep > 0
  BY <1>1, Numbers DEF Block, Held, Fires
<1>3. CASE ~Fires(c.keep)
  <2>1. KeepAlive(c, quiet) = d
    BY <1>3 DEF KeepAlive
  <2> HIDE DEF d
  <2> QED BY <1>2, <1>3, <2>1 DEF Timed, Fresh
<1>4. CASE KeepAlive(c, quiet) = Drop(d)
  <2> HIDE DEF d
  <2>1. CASE d.socket
    BY <1>2, <1>4, <2>1, DropKeeps DEF Gone
  <2>2. CASE ~d.socket
    BY <1>2, <1>4, <2>2 DEF Drop, Fresh
  <2> QED BY <2>1, <2>2
<1>5. CASE KeepAlive(c, quiet) = restarted
  <2> HIDE DEF d
  <2>0. 0 \in 0 .. MaxIdle
    BY Numbers
  <2>1. /\ restarted \in Block /\ restarted.keep = Keep
        /\ restarted.pcb = d.pcb /\ restarted.state = d.state
        /\ restarted.socket = d.socket /\ restarted.msl = d.msl
        /\ restarted.needrelease = d.needrelease
        /\ restarted.needfree = d.needfree
        /\ restarted.socketfreed = d.socketfreed
        /\ restarted.so = d.so
    BY <1>2, <2>0, Ranges DEF Block
  <2> HIDE DEF restarted
  <2> QED BY <1>2, <1>5, <2>1, Ranges DEF Held, Timed, Fresh
<1>6. CASE KeepAlive(c, quiet) = probed
  <2>1. /\ Control(d, quiet) \in Block /\ Agree(d, Control(d, quiet))
        /\ Control(d, quiet).pcb = d.pcb
        /\ Control(d, quiet).socketfreed = d.socketfreed
        /\ Control(d, quiet).so = d.so
    BY <1>2, ControlKeeps
  <2> DEFINE e == Control(d, quiet)
  <2> HIDE DEF d, e
  <2>2. c.idle \in 0 .. MaxIdle
    BY DEF Block
  <2>3. /\ probed \in Block /\ probed.keep = Keep
        /\ probed.pcb = e.pcb /\ probed.state = e.state
        /\ probed.socket = e.socket /\ probed.msl = e.msl
        /\ probed.needrelease = e.needrelease
        /\ probed.needfree = e.needfree
        /\ probed.socketfreed = e.socketfreed
        /\ probed.so = e.so
    BY <2>1, <2>2, Ranges DEF Block, IdleKept, e
  <2> HIDE DEF probed
  <2> QED BY <1>2, <1>6, <2>1, <2>3, Ranges DEF Held, Timed, Fresh, Agree, e
<1> QED BY <1>3, <1>4, <1>5, <1>6 DEF KeepAlive

(* The 2MSL timer releases the socket or marks the block.                  *)
LEMMA TwoMslKeeps ==
  ASSUME NEW c \in Block, Held(c)
  PROVE  LET d == TwoMsl(c)
         IN  /\ d \in Block /\ Held(d)
             /\ Releases(c) => ~d.socket /\ ~d.needrelease
             /\ ~Releases(c) => /\ d.socket = c.socket
                                /\ d.needrelease = c.needrelease
             /\ c.socket /\ Timed(c) => Releases(c) \/ Timed(d)
             /\ Fresh(c) => Fresh(d)
<1> DEFINE d == [c EXCEPT !.msl = Down(@)]
           released == [d EXCEPT !.needrelease = FALSE, !.socket = FALSE]
           marked == [d EXCEPT !.msl = 1, !.needfree = TRUE]
<1>1. /\ Down(c.msl) \in 0 .. Msl
      /\ c.msl > 1 => Down(c.msl) > 0
      /\ c.msl = 0 => Down(c.msl) = 0
  BY Numbers DEF Down, Block
<1>2. /\ d \in Block /\ d.msl = Down(c.msl) /\ d.pcb = c.pcb
      /\ d.state = c.state /\ d.socket = c.socket /\ d.keep = c.keep
      /\ d.needrelease = c.needrelease /\ d.needfree = c.needfree
      /\ d.socketfreed = c.socketfreed /\ d.so = c.so
  BY <1>1 DEF Block
<1> HIDE DEF d
<1>3. CASE Releases(c)
  <2>1. TwoMsl(c) = released
    BY <1>3 DEF TwoMsl, d
  <2>2. ~c.pcb
    BY <1>3 DEF Releases, Fires, Held
  <2>3. /\ released \in Block /\ released.pcb = d.pcb
        /\ released.needrelease = FALSE /\ released.socket = FALSE
        /\ released.so = d.so /\ released.state = d.state
    BY <1>2 DEF Block
  <2> HIDE DEF released
  <2> QED BY <1>2, <1>3, <2>1, <2>2, <2>3 DEF Held, Fresh
<1>4. CASE ~Releases(c) /\ Fires(c.msl) /\ c.socket
  <2>1. TwoMsl(c) = marked
    BY <1>4 DEF TwoMsl, d
  <2>2. ~c.pcb /\ ~c.needrelease
    BY <1>4 DEF Releases, Fires, Held
  <2>3. /\ marked \in Block /\ marked.pcb = d.pcb
        /\ marked.needrelease = d.needrelease /\ marked.socket = d.socket
        /\ marked.needfree = TRUE
        /\ marked.so = d.so /\ marked.state = d.state
    BY <1>2, Ranges DEF Block
  <2> HIDE DEF marked
  <2> QED BY <1>2, <1>4, <2>1, <2>2, <2>3 DEF Held, Fresh, Timed
<1>5. CASE ~Releases(c) /\ ~(Fires(c.msl) /\ c.socket)
  <2>1. TwoMsl(c) = d
    BY <1>5 DEF TwoMsl, d
  <2>2. c.msl \in Nat
    BY Numbers DEF Block
  <2>3. c.socket /\ c.msl > 0 => d.msl > 0
    BY <1>1, <1>2, <1>5, <2>2 DEF Fires
  <2>4. c.pcb => d.msl = 0
    BY <1>1, <1>2 DEF Held
  <2> QED BY <1>2, <1>5, <2>1, <2>3, <2>4 DEF Held, Fresh, Timed
<1> QED BY <1>3, <1>4, <1>5


-----------------------------------------------------------------------------
(* lpx_stream_input.                                                       *)

Heard(c, d) ==
  /\ d \in Block /\ Held(d) /\ Timed(d)
  /\ d.socket = c.socket /\ d.needrelease = c.needrelease
  /\ c.needfree => d.needfree

(* A transition ends the handshake, or changes s_state within the bounds   *)
(* of Held.                                                                *)
LEMMA TransitionKeeps ==
  ASSUME NEW c \in Block, Held(c), NEW p \in Packet, c.keep > 0
  PROVE  Heard(c, Transition(c, p))
<1> DEFINE moved(s) == [c EXCEPT !.state = s]
           closing == moved("CLOSING")
<1>1. ASSUME NEW s \in State, c.state \in ClosingStates => s \in ClosingStates,
             c.state # "CLOSED", s \in ClosingStates \/ ~c.needrelease \/ ~c.pcb
      PROVE  Heard(c, moved(s))
  <2>1. /\ moved(s) \in Block /\ moved(s).state = s
        /\ moved(s).pcb = c.pcb /\ moved(s).socket = c.socket
        /\ moved(s).socketfreed = c.socketfreed
        /\ moved(s).needfree = c.needfree
        /\ moved(s).needrelease = c.needrelease
        /\ moved(s).msl = c.msl /\ moved(s).keep = c.keep
        /\ moved(s).so = c.so
    BY DEF Block
  <2> HIDE DEF moved
  <2> QED BY <1>1, <2>1 DEF Heard, Held, Timed
<1>2. Heard(c, TimeWait(c)) /\ Heard(c, TimeWait(closing))
  <2>1. /\ closing \in Block /\ closing.socket = c.socket
        /\ closing.needrelease = c.needrelease /\ closing.pcb = c.pcb
        /\ closing.socketfreed = c.socketfreed
        /\ closing.needfree = c.needfree
    BY DEF Block, State, AwaitingFinAck
  <2> HIDE DEF closing
  <2> QED BY <2>1, TimeWaitKeeps DEF Gone, Heard, Held
<1>3. Heard(c, c)
  BY DEF Heard, Timed
<1>4. CASE c.state = "SYN_SENT" /\ c.socket
  <2> DEFINE e == Established(c)
  <2>1. Transition(c, p) = e
    BY <1>4 DEF Transition
  <2>2. e \in Block
    <3>1. "ESTABLISHED" \in State /\ 0 \in 0 .. RxtCur
      BY Numbers DEF State
    <3> QED BY <3>1 DEF Established, Block
  <2>3. /\ e.pcb = c.pcb /\ e.socket = c.socket
        /\ e.socketfreed = c.socketfreed /\ e.needfree = c.needfree
        /\ e.needrelease = c.needrelease
        /\ e.msl = c.msl /\ e.keep = c.keep /\ e.so = "connected"
    BY DEF Established, Block
  <2>4. c.needrelease => ~c.pcb
    BY <1>4 DEF Held, ClosingStates
  <2> HIDE DEF e
  <2> QED BY <2>1, <2>2, <2>3, <2>4 DEF Heard, Held, Timed
<1>5. CASE c.state = "ESTABLISHED"
  <2>1. Transition(c, p) \in {c, moved("CLOSE_WAIT")}
    BY <1>5 DEF Transition
  <2>2. "CLOSE_WAIT" \in State /\ c.state \notin ClosingStates
    BY <1>5 DEF State, ClosingStates
  <2>3. c.needrelease => ~c.pcb
    BY <2>2 DEF Held
  <2> HIDE DEF moved
  <2>4. Heard(c, moved("CLOSE_WAIT"))
    BY <1>5, <2>2, <2>3, <1>1
  <2> QED BY <2>1, <2>4, <1>3
<1>6. CASE c.state = "FIN_WAIT_1"
  <2>1. Transition(c, p) \in {c, moved("FIN_WAIT_2"), closing,
                              TimeWait(closing)}
    BY <1>6 DEF Transition, FinAcked
  <2>2. /\ {"FIN_WAIT_2", "CLOSING"} \subseteq State
        /\ {"FIN_WAIT_2", "CLOSING"} \subseteq ClosingStates
    BY DEF State, AwaitingFinAck, FinDone, ClosingStates
  <2> HIDE DEF moved
  <2>3. Heard(c, moved("FIN_WAIT_2")) /\ Heard(c, moved("CLOSING"))
    BY <1>6, <2>2, <1>1
  <2> QED BY <2>1, <2>3, <1>2, <1>3
<1>7. CASE c.state \in {"LAST_ACK", "FIN_WAIT_2", "CLOSING"}
  <2>1. Transition(c, p) \in {c, TimeWait(c)}
    BY <1>7 DEF Transition, FinAcked
  <2> QED BY <2>1, <1>2, <1>3
<1>8. CASE /\ ~(c.state = "SYN_SENT" /\ c.socket)
           /\ c.state \notin {"ESTABLISHED", "LAST_ACK", "FIN_WAIT_1",
                              "FIN_WAIT_2", "CLOSING"}
  <2>1. Transition(c, p) = c
    BY <1>8 DEF Transition
  <2> QED BY <2>1, <1>3
<1> QED BY <1>4, <1>5, <1>6, <1>7, <1>8

(* What lpx_stream_reass does to so_snd and its timer.                     *)
LEMMA ReassKeeps ==
  ASSUME NEW c \in Block, Held(c), NEW p \in Packet, NEW trims \in BOOLEAN
  PROVE  LET d == Reass(c, p, trims)
         IN  /\ d \in Block /\ Held(d) /\ Agree(c, d) /\ d.pcb = c.pcb
<1> DEFINE rexmt == IF p.ack = "all" THEN 0 ELSE c.rexmt
           unacked == c.unacked /\ p.ack = "none"
           rxtshift == IF c.unacked /\ (p.ack # "none" \/ trims)
                         THEN 0 ELSE c.rxtshift
           d == [c EXCEPT !.rexmt = rexmt, !.unacked = unacked,
                          !.rxtshift = rxtshift]
<1>1. rexmt \in 0 .. RxtCur /\ rxtshift \in 0 .. MaxRxtShift \cup {Discon}
  BY Numbers DEF Block
<1>2. unacked \in BOOLEAN
  OBVIOUS
<1>3. Reass(c, p, trims) \in {c, d}
  BY DEF Reass
<1> HIDE DEF rexmt, unacked, rxtshift
<1>4. /\ d \in Block /\ Agree(c, d) /\ d.pcb = c.pcb
      /\ d.socketfreed = c.socketfreed /\ d.so = c.so
  BY <1>1, <1>2 DEF Block, Agree
<1> HIDE DEF d
<1> QED BY <1>3, <1>4 DEF Held, Agree

(* An input leaves the block with a timer.                                 *)
LEMMA InputBlock ==
  ASSUME NEW p \in Packet, b \in Block, Held(b), Input(p)
  PROVE  b' = b \/ Heard(b, b')
<1> DEFINE heard == [b EXCEPT !.idle = 0, !.keep = Keep]
           t == Transition(heard, p)
<1>1. /\ heard \in Block /\ Held(heard) /\ heard.keep > 0
      /\ heard.socket = b.socket /\ heard.needrelease = b.needrelease
      /\ heard.needfree = b.needfree
  <2>1. 0 \in 0 .. MaxIdle
    BY Numbers
  <2>2. /\ heard \in Block /\ heard.keep = Keep
        /\ heard.pcb = b.pcb /\ heard.state = b.state
        /\ heard.socket = b.socket /\ heard.msl = b.msl
        /\ heard.needrelease = b.needrelease
        /\ heard.needfree = b.needfree /\ heard.socketfreed = b.socketfreed
        /\ heard.so = b.so
    BY <2>1, Ranges DEF Block
  <2> HIDE DEF heard
  <2> QED BY <2>2, Ranges DEF Held
<1> HIDE DEF heard
<1>2. Heard(heard, t)
  BY <1>1, TransitionKeeps
<1> HIDE DEF t
<1>3. ASSUME NEW trims \in BOOLEAN, NEW quiet \in BOOLEAN,
             b' = Control(Reass(t, p, trims), quiet)
      PROVE  Heard(b, b')
  <2> DEFINE r == Reass(t, p, trims)
  <2>1. r \in Block /\ Held(r) /\ Agree(t, r)
    BY <1>2, ReassKeeps DEF Heard
  <2> HIDE DEF r
  <2>2. /\ b' \in Block /\ Agree(r, b') /\ b'.pcb = r.pcb
        /\ b'.socketfreed = r.socketfreed /\ b'.so = r.so
    BY <1>3, <2>1, ControlKeeps DEF r
  <2> QED BY <1>1, <1>2, <2>1, <2>2 DEF Heard, Held, Timed, Agree
<1>4. CASE b' = b
  BY <1>4
<1>5. CASE \E trims \in BOOLEAN,
              quiet \in {FALSE, b.unacked \/ p.lsctl = "DATA"} :
              b' = Control(Reass(t, p, trims), quiet \/ ~Answers(b, p))
  <2>1. PICK trims \in BOOLEAN,
             quiet \in {FALSE, b.unacked \/ p.lsctl = "DATA"} :
               b' = Control(Reass(t, p, trims), quiet \/ ~Answers(b, p))
    BY <1>5
  <2> DEFINE q == quiet \/ ~Answers(b, p)
  <2>2. q \in BOOLEAN
    OBVIOUS
  <2>3. b' = Control(Reass(t, p, trims), q)
    BY <2>1
  <2> HIDE DEF q
  <2> QED BY <1>3, <2>2, <2>3
<1> QED BY <1>4, <1>5 DEF Input, heard, t


-----------------------------------------------------------------------------
(* The steps.                                                              *)

LEMMA InitIInv == Init => IInv
<1> SUFFICES ASSUME Init PROVE IInv
  OBVIOUS
<1>1. /\ 0 \in 0 .. RxtCur /\ 0 \in 0 .. 10 * Keep /\ 0 \in 0 .. Msl
      /\ 0 \in 0 .. MaxRxtShift /\ 0 \in 0 .. MaxIdle
      /\ 0 \in 0 .. Overlap /\ 0 \in 0 .. Discon
  BY Numbers
<1>2. b \in Block
  BY <1>1 DEF Init, Block, State, Unestablished
<1>3. {releasing, dispensed, panic} \subseteq BOOLEAN
  BY Zenon DEF Init
<1>4. TypeOK
  BY <1>1, <1>2, <1>3 DEF Init, TypeOK
<1>5. Held(b) /\ Fresh(b) /\ ~b.needrelease /\ b.socket
  BY DEF Init, Held, Fresh
<1> QED BY <1>4, <1>5 DEF Init, IInv, SocketInv, TimerInv, CountInv

(* sock_release returned.                                                  *)
LEMMA ReleaseDoneKeeps == IInv /\ ReleaseDone => IInv'
<1> SUFFICES ASSUME IInv, ReleaseDone PROVE IInv'
  OBVIOUS
<1>1. /\ b' \in Block /\ b'.socket = b.socket /\ b'.pcb = b.pcb
      /\ b'.so = b.so /\ b'.state = b.state
      /\ b'.needrelease = b.needrelease /\ b'.needfree = TRUE
  BY DEF IInv, TypeOK, ReleaseDone, Block
<1>2. ~b.socket /\ ~b.pcb /\ ~b.needrelease
  BY DEF IInv, SocketInv, Held, ReleaseDone
<1>3. TypeOK'
  <2>1. {releasing', dispensed', panic'} \subseteq BOOLEAN
    BY Zenon DEF IInv, TypeOK, ReleaseDone
  <2> QED BY <1>1, <2>1 DEF IInv, TypeOK, ReleaseDone
<1>4. SocketInv'
  BY <1>1, <1>2 DEF IInv, SocketInv, Held, ReleaseDone
<1>5. TimerInv'
  BY <1>1 DEF TimerInv, Timed
<1>6. CountInv'
  BY <1>1, <1>2 DEF IInv, CountInv, ReleaseDone, TypeOK
<1> QED BY <1>3, <1>4, <1>5, <1>6 DEF IInv

LEMMA ConnectKeeps == IInv /\ Connect => IInv'
<1> SUFFICES ASSUME IInv, Connect PROVE IInv'
  OBVIOUS
<1> DEFINE c == [b EXCEPT !.so = "connecting", !.state = "SYN_SENT",
                          !.keep = 10 * Keep]
<1>1. b \in Block /\ "SYN_SENT" \in State
  BY DEF IInv, TypeOK, State, Unestablished
<1>2. /\ c \in Block /\ c.pcb = b.pcb /\ c.socketfreed = b.socketfreed
      /\ c.socket = b.socket /\ c.needfree = b.needfree
      /\ c.needrelease = b.needrelease /\ c.msl = b.msl
      /\ c.state = "SYN_SENT" /\ c.keep = 10 * Keep
      /\ c.so = "connecting" /\ b.so = "none"
  BY <1>1, Ranges DEF Block, Connect
<1> HIDE DEF c
<1>3. /\ b' \in Block /\ Agree(c, b') /\ b'.pcb = c.pcb
      /\ b'.socketfreed = c.socketfreed /\ b'.so = c.so
  BY <1>2, ControlKeeps DEF Connect, c
<1>4. TypeOK'
  BY <1>3 DEF IInv, TypeOK, Connect
<1>5. SocketInv'
  BY <1>2, <1>3 DEF IInv, SocketInv, Held, Agree, Connect
<1>6. TimerInv'
  BY <1>2, <1>3, Ranges DEF TimerInv, Timed, Agree
<1>7. CountInv'
  BY <1>2, <1>3 DEF IInv, CountInv, Agree, Connect
<1> QED BY <1>4, <1>5, <1>6, <1>7 DEF IInv

LEMMA SendKeeps == IInv /\ Send => IInv'
<1> SUFFICES ASSUME IInv, Send PROVE IInv'
  OBVIOUS
<1>1. b \in Block
  BY DEF IInv, TypeOK
<1>2. /\ b' \in Block /\ Agree(b, b') /\ b'.pcb = b.pcb
      /\ b'.socketfreed = b.socketfreed /\ b'.so = b.so
  BY <1>1, Ranges DEF Send, Block, Agree
<1>3. TypeOK'
  BY <1>2 DEF IInv, TypeOK, Send
<1>4. SocketInv'
  BY <1>2 DEF IInv, SocketInv, Held, Agree, Send
<1>5. TimerInv'
  BY <1>2 DEF IInv, TimerInv, Timed, Fresh, Agree, Send
<1>6. CountInv'
  BY <1>2 DEF IInv, CountInv, Agree, Send
<1> QED BY <1>3, <1>4, <1>5, <1>6 DEF IInv

(* lpx_stream_usrclosed of an established block, up to sock_retain.        *)
LEMMA RetainKeeps ==
  ASSUME IInv, unlocked = "none",
         NEW call \in {"shutdown", "close"},
         NEW so \in {b.so, "disconnecting"}, Retain(call, so),
         b.pcb, b.state = "ESTABLISHED",
         UNCHANGED <<overlap, releasing, retaincnt, dispensed, panic, waited>>
  PROVE  IInv'
<1>1. b \in Block /\ "FIN_WAIT_1" \in State
  BY DEF IInv, TypeOK, State, AwaitingFinAck
<1>2. /\ b' \in Block /\ b'.state = "FIN_WAIT_1" /\ b'.needrelease = TRUE
      /\ b'.pcb = b.pcb /\ b'.socketfreed = b.socketfreed
      /\ b'.socket = b.socket /\ b'.needfree = b.needfree
      /\ b'.msl = b.msl /\ b'.keep = b.keep /\ b'.so = so
  BY <1>1, Numbers DEF Retain, StartClose, Block
<1>3. /\ b.socket /\ ~b.needfree /\ ~b.needrelease /\ ~releasing
      /\ b.so # "none"
  BY DEF IInv, SocketInv, Held, ClosingStates
<1>4. TypeOK'
  BY <1>2 DEF IInv, TypeOK, Retain
<1>5. SocketInv'
  BY <1>2, <1>3 DEF IInv, SocketInv, Held, ClosingStates
<1>6. TimerInv'
  BY <1>2, <1>3 DEF IInv, TimerInv, Timed, Fresh
<1>7. CountInv'
  BY <1>2, <1>3 DEF IInv, CountInv, Retain
<1> QED BY <1>4, <1>5, <1>6, <1>7 DEF IInv

LEMMA ShutdownKeeps == IInv /\ Shutdown => IInv'
<1> SUFFICES ASSUME IInv, Shutdown PROVE IInv'
  OBVIOUS
<1>1. CASE b.pcb /\ b.state = "ESTABLISHED"
  BY <1>1, RetainKeeps DEF Shutdown
<1>2. CASE ~(b.pcb /\ b.state = "ESTABLISHED")
  <2>1. b \in Block /\ Held(b)
    BY DEF IInv, TypeOK, SocketInv
  <2>2. b' = IF b.pcb THEN Usrclosed(b) ELSE b
    BY <1>2 DEF Shutdown
  <2>3. /\ b' \in Block /\ Held(b') /\ b'.socket = b.socket
        /\ b'.needfree = b.needfree /\ b'.needrelease = b.needrelease
        /\ Timed(b) => Timed(b')
        /\ Fresh(b) => Fresh(b')
    <3>1. Fresh(b) => Usrclosed(b) = b
      BY DEF Fresh, Usrclosed, FinishClose, FinDone
    <3> QED BY <2>1, <2>2, <3>1, UsrclosedKeeps
  <2>4. /\ user' = "shut"
        /\ UNCHANGED <<unlocked, overlap, releasing, retaincnt, dispensed,
                       panic, waited>>
    BY <1>2 DEF Shutdown
  <2>5. TypeOK'
    BY <2>3, <2>4 DEF IInv, TypeOK
  <2>6. SocketInv'
    BY <2>3, <2>4 DEF IInv, SocketInv
  <2>7. TimerInv'
    BY <2>3, <2>4 DEF IInv, TimerInv
  <2>8. CountInv'
    BY <2>3, <2>4 DEF IInv, CountInv
  <2> QED BY <2>5, <2>6, <2>7, <2>8 DEF IInv
<1> QED BY <1>1, <1>2

LEMMA SockCloseKeeps == IInv /\ SockClose => IInv'
<1> SUFFICES ASSUME IInv, SockClose PROVE IInv'
  OBVIOUS
<1>1. CASE b.pcb /\ b.state = "ESTABLISHED"
  BY <1>1, RetainKeeps DEF SockClose
<1>2. CASE ~(b.pcb /\ b.state = "ESTABLISHED")
  <2> DEFINE c == Disconnect(b)
  <2>1. b \in Block /\ Held(b)
    BY DEF IInv, TypeOK, SocketInv
  <2>2. b' = Disconnect(c)
    BY <1>2 DEF SockClose
  <2>3. /\ c \in Block /\ Held(c) /\ c.socket = b.socket
        /\ c.needrelease = b.needrelease /\ (b.needfree => c.needfree)
        /\ Timed(b) \/ Fresh(b) => Timed(c)
    BY <2>1, DisconnectKeeps
  <2> HIDE DEF c
  <2>4. /\ b' \in Block /\ Held(b') /\ b'.socket = b.socket
        /\ b'.needrelease = b.needrelease /\ (b.needfree => b'.needfree)
        /\ Timed(b) \/ Fresh(b) => Timed(b')
    BY <2>2, <2>3, DisconnectKeeps
  <2>5. /\ user' = "closed"
        /\ UNCHANGED <<unlocked, overlap, releasing, retaincnt, dispensed,
                       panic, waited>>
    BY <1>2 DEF SockClose
  <2>6. TypeOK'
    BY <2>4, <2>5 DEF IInv, TypeOK
  <2>7. SocketInv'
    BY <2>4, <2>5 DEF IInv, SocketInv
  <2>8. TimerInv'
    BY <2>4, <2>5 DEF IInv, TimerInv
  <2>9. CountInv'
    BY <2>4, <2>5 DEF IInv, CountInv
  <2> QED BY <2>6, <2>7, <2>8, <2>9 DEF IInv
<1> QED BY <1>1, <1>2

(* sock_retain got the mutex.                                              *)
LEMMA RetainDoneKeeps == IInv /\ RetainDone => IInv'
<1> SUFFICES ASSUME IInv, RetainDone PROVE IInv'
  OBVIOUS
<1> DEFINE c == FinishClose(b)
<1>1. b \in Block /\ Held(b)
  BY DEF IInv, TypeOK, SocketInv
<1>2. /\ c \in Block /\ Held(c) /\ c.socket = b.socket
      /\ c.needrelease = b.needrelease /\ c.needfree = b.needfree
      /\ Timed(b) => Timed(c)
  BY <1>1, FinishCloseKeeps
<1> HIDE DEF c
<1>3. b' = c \/ b' = Disconnect(c)
  BY DEF RetainDone, c
<1>4. /\ b' \in Block /\ Held(b') /\ b'.socket = b.socket
      /\ b'.needrelease = b.needrelease /\ (b.needfree => b'.needfree)
      /\ Timed(b) => Timed(b')
  BY <1>2, <1>3, DisconnectKeeps
<1>5. /\ unlocked # "none" /\ unlocked' = "none"
      /\ user' \in {"shut", "closed"} /\ retaincnt' = retaincnt + 1
      /\ UNCHANGED <<overlap, releasing, dispensed, panic, waited>>
  BY DEF RetainDone
<1>6. TypeOK'
  BY <1>4, <1>5 DEF IInv, TypeOK
<1>7. SocketInv'
  BY <1>4, <1>5 DEF IInv, SocketInv
<1>8. TimerInv'
  BY <1>4, <1>5 DEF IInv, TimerInv
<1>9. CountInv'
  BY <1>4, <1>5 DEF IInv, CountInv
<1> QED BY <1>6, <1>7, <1>8, <1>9 DEF IInv

LEMMA InputKeeps == ASSUME NEW p \in Packet PROVE IInv /\ Input(p) => IInv'
<1> SUFFICES ASSUME IInv, Input(p) PROVE IInv'
  OBVIOUS
<1>1. b \in Block /\ Held(b)
  BY DEF IInv, TypeOK, SocketInv
<1>2. /\ b' \in Block /\ Held(b')
      /\ b'.socket = b.socket /\ b'.needrelease = b.needrelease
      /\ b' = b \/ Timed(b')
      /\ b.needfree => b'.needfree
  BY <1>1, InputBlock DEF Heard
<1>3. /\ panic' \in BOOLEAN /\ ~dispensed
      /\ UNCHANGED <<user, unlocked, overlap, releasing, retaincnt, dispensed,
                     waited>>
  BY DEF Input, IInv, TypeOK
<1>4. ~b.socket => releasing \/ b'.needfree
  BY <1>2 DEF IInv, SocketInv
<1>5. TypeOK'
  BY <1>2, <1>3 DEF IInv, TypeOK
<1>6. SocketInv'
  BY <1>2, <1>3, <1>4 DEF IInv, SocketInv
<1>7. TimerInv'
  BY <1>2, <1>3 DEF IInv, TimerInv
<1>8. CountInv'
  BY <1>2, <1>3 DEF IInv, CountInv
<1> QED BY <1>5, <1>6, <1>7, <1>8 DEF IInv


(* lpx_stream_slowtimo.                                                    *)
LEMMA TickKeeps == IInv /\ Tick => IInv'
<1> SUFFICES ASSUME IInv, Tick PROVE IInv'
  OBVIOUS
<1>1. /\ b \in Block /\ Held(b) /\ ~dispensed /\ releasing = FALSE
      /\ overlap \in 0 .. Overlap
  BY DEF IInv, TypeOK, SocketInv, Tick
<1>2. /\ overlap' \in 0 .. Overlap
      /\ overlap' = 0 => overlap = 0 /\ unlocked = "none"
      /\ UNCHANGED <<user, unlocked, retaincnt, panic>>
  BY <1>1, Numbers DEF Tick
<1>3. waited' \in 0 .. Discon
  BY Numbers DEF Tick, IInv, TypeOK
<1>4. CASE b.needfree
  <2>1. dispensed' = TRUE /\ b' = b /\ releasing' = FALSE
    BY <1>1, <1>4 DEF Tick
  <2>2. {releasing', dispensed', panic'} \subseteq BOOLEAN
    BY <1>2, <2>1, Zenon DEF IInv, TypeOK
  <2>3. TypeOK'
    BY <1>1, <1>2, <1>3, <2>1, <2>2 DEF IInv, TypeOK
  <2>4. SocketInv'
    BY <1>1, <1>4, <2>1 DEF IInv, SocketInv
  <2>5. TimerInv'
    BY <1>4, <2>1 DEF TimerInv, Timed
  <2>6. CountInv'
    BY <1>1, <1>2, <2>1 DEF IInv, CountInv
  <2> QED BY <2>3, <2>4, <2>5, <2>6 DEF IInv
<1>5. CASE ~b.needfree
  <2>1. PICK quiet \in {FALSE, b.unacked} :
          LET c == KeepAlive(Rexmt(b, quiet), quiet)
          IN  /\ b' = [TwoMsl(c) EXCEPT
                         !.idle = IF @ < MaxIdle THEN @ + 1 ELSE @]
              /\ releasing' = Releases(c)
              /\ UNCHANGED dispensed
    BY <1>5 DEF Tick
  <2> DEFINE r == Rexmt(b, quiet)
             c == KeepAlive(r, quiet)
             d == TwoMsl(c)
  <2>2. quiet \in BOOLEAN
    BY <1>1 DEF Block
  <2>3. b.socket
    BY <1>1, <1>5 DEF IInv, SocketInv
  <2>4. /\ r \in Block /\ Held(r) /\ r.socket /\ r.needrelease = b.needrelease
        /\ Timed(b) => Timed(r)
        /\ Fresh(b) => Fresh(r) \/ Timed(r)
    BY <1>1, <2>2, <2>3, RexmtKeeps
  <2> HIDE DEF r
  <2>5. /\ c \in Block /\ Held(c) /\ c.socket /\ c.needrelease = b.needrelease
        /\ Timed(r) => Timed(c)
        /\ Fresh(r) => Fresh(c) \/ Timed(c)
    BY <2>2, <2>4, KeepAliveKeeps
  <2> HIDE DEF c
  <2>6. /\ d \in Block /\ Held(d)
        /\ Releases(c) => ~d.socket /\ ~d.needrelease
        /\ ~Releases(c) => d.socket /\ d.needrelease = b.needrelease
        /\ Timed(c) => Releases(c) \/ Timed(d)
        /\ Fresh(c) => Fresh(d)
    BY <2>5, TwoMslKeeps
  <2> HIDE DEF d
  <2>7. b' = [d EXCEPT !.idle = IF @ < MaxIdle THEN @ + 1 ELSE @]
    BY <2>1 DEF r, c, d
  <2>8. (IF d.idle < MaxIdle THEN d.idle + 1 ELSE d.idle) \in 0 .. MaxIdle
    BY <2>6, Numbers DEF Block
  <2>9. /\ b' \in Block /\ Agree(d, b') /\ b'.pcb = d.pcb
        /\ b'.socketfreed = d.socketfreed /\ b'.so = d.so
    BY <2>6, <2>7, <2>8 DEF Block, Agree
  <2>10. releasing' = Releases(c) /\ dispensed' = FALSE
    <3>1. dispensed = FALSE
      BY <1>1, Zenon DEF IInv, TypeOK
    <3> QED BY <2>1, <3>1 DEF r, c
  <2>11. {releasing', dispensed', panic'} \subseteq BOOLEAN
    <3>1. Releases(c) \in BOOLEAN
      BY DEF Releases, Fires
    <3> QED BY <1>2, <2>10, <3>1, Zenon DEF IInv, TypeOK
  <2>12. TypeOK'
    BY <1>2, <1>3, <2>9, <2>11 DEF IInv, TypeOK
  <2>13. SocketInv'
    BY <2>6, <2>9, <2>10 DEF SocketInv, Held, Agree
  <2>14. TimerInv'
    <3>1. Timed(b) \/ (Fresh(b) /\ user # "closed" /\ unlocked = "none")
      BY <1>1 DEF IInv, TimerInv
    <3>2. CASE Releases(c)
      BY <2>10, <3>2 DEF TimerInv
    <3>3. CASE Timed(d)
      BY <2>9, <3>3 DEF TimerInv, Timed, Agree
    <3>4. CASE Fresh(d) /\ user # "closed" /\ unlocked = "none"
      BY <1>2, <2>9, <3>4 DEF TimerInv, Fresh, Agree
    <3> QED BY <2>4, <2>5, <2>6, <3>1, <3>2, <3>3, <3>4
  <2>15. CountInv'
    <3>1. Releases(c) => b.needrelease
      BY <2>5 DEF Releases
    <3> QED BY <1>1, <1>2, <2>6, <2>9, <2>10, <3>1
            DEF IInv, CountInv, Agree
  <2> QED BY <2>12, <2>13, <2>14, <2>15 DEF IInv
<1> QED BY <1>4, <1>5

-----------------------------------------------------------------------------
(* The theorems.                                                           *)

(* Every step of the owner, the timers and the peer preserves what ties    *)
(* the block, its socket and the count of references together.             *)
THEOREM StepIInv == IInv /\ [Next]_vars => IInv'
<1> SUFFICES ASSUME IInv, [Next]_vars PROVE IInv'
  OBVIOUS
<1>1. CASE Tick
  BY <1>1, TickKeeps
<1>2. CASE ReleaseDone
  BY <1>2, ReleaseDoneKeeps
<1>3. CASE Connect
  BY <1>3, ConnectKeeps
<1>4. CASE Send
  BY <1>4, SendKeeps
<1>5. CASE Shutdown
  BY <1>5, ShutdownKeeps
<1>6. CASE SockClose
  BY <1>6, SockCloseKeeps
<1>7. CASE RetainDone
  BY <1>7, RetainDoneKeeps
<1>8. CASE Packets
  BY <1>8, InputKeeps DEF Packets
<1>9. CASE UNCHANGED vars
  BY <1>9 DEF vars, IInv, TypeOK, SocketInv, TimerInv, CountInv
<1> QED BY <1>1, <1>2, <1>3, <1>4, <1>5, <1>6, <1>7, <1>8, <1>9 DEF Next

(* The invariant holds in every reachable state.                           *)
THEOREM IInvAlways == Spec => []IInv
BY InitIInv, StepIInv, PTL DEF Spec

(* The block keeps its type: in particular s_rxtshift, which the disconnect*)
(* timer overwrites, stays a legal index of the backoff table or Discon.   *)
THEOREM TypeCorrect == Spec => []TypeOK
<1>1. IInv => TypeOK
  BY DEF IInv
<1> QED BY <1>1, IInvAlways, PTL

(* so_retaincnt is 0 or 1, and 0 when the block is freed, as long as no    *)
(* tick falls into sock_retain: CountInv, and a block that remembers a     *)
(* reference is not marked.                                                *)
THEOREM ReferenceCounted == Spec => []ReferenceReturned
<1>1. IInv => ReferenceReturned
  BY DEF IInv, SocketInv, Held, CountInv, ReferenceReturned
<1> QED BY <1>1, IInvAlways, PTL

(* A block marked, without socket or freed is one so_pcb no longer names:  *)
(* Held, for freed and socketless blocks are marked or being released.     *)
THEOREM MarkedDetached == Spec => []MarkedIsDetached
<1>1. IInv => MarkedIsDetached
  BY DEF IInv, SocketInv, Held, MarkedIsDetached
<1> QED BY <1>1, IInvAlways, PTL

(* A closed block has a timer, a mark or a release under way: TimerInv.    *)
THEOREM ClosedHasTimer == Spec => []TimerLeft
<1>1. IInv => TimerLeft
  <2> SUFFICES ASSUME IInv, user = "closed" PROVE
        b.needfree \/ releasing \/ b.keep > 0 \/ b.msl > 0
    BY DEF TimerLeft
  <2> QED BY DEF IInv, TimerInv, Timed
<1> QED BY <1>1, IInvAlways, PTL

=============================================================================

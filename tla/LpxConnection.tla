--------------------------- MODULE LpxConnection ----------------------------
(***************************************************************************)
(* The life of one LPX stream control block (netlpx/lpx_stream.c,          *)
(* lpx_stream_timer.c, lpx_pcb.c) that its owner opened with connect, as   *)
(* xi_lpx_connect does: connecting, the data phase (LpxStream; here only   *)
(* whether a record is unacknowledged), the disconnect handshake, the      *)
(* timers that end it, and the freeing of the block by                     *)
(* lpx_stream_slowtimo, against a socket the kernel frees on its own.      *)
(*                                                                         *)
(* The peer is arbitrary: it sends any packet at any time, but it does not *)
(* acknowledge a disconnect request that was not sent to it.               *)
(*                                                                         *)
(* Handlers run under the domain mutex and are functions from block to     *)
(* block here.  Two release it, around calls that take it themselves:      *)
(* lpx_stream_usrclosed at sock_retain and the 2MSL timer at sock_release. *)
(*                                                                         *)
(* A definition right above another one of the same parameters is a slip   *)
(* the code could have in its place; no action uses it.                    *)
(***************************************************************************)
EXTENDS Integers

CONSTANTS
  RxtCur,             \* s_rxtcur: SMPTV_MIN
  Keep,               \* SMPTV_KEEP
  MaxIdle,            \* SMPTV_MAXIDLE
  Msl,                \* SMPTV_MSL
  Discon,             \* SMPTV_DISCON
  MaxRxtShift,        \* SMP_MAXRXTSHIFT
  MaxRxtShiftConnect, \* SMP_MAXRXTSHIFTOFCONNECT
  Overlap             \* bound: ticks while usrclosed waits for the mutex

ASSUME ConnectionAssumption ==
  /\ {RxtCur, Keep, Msl} \subseteq Nat \ {0}
  /\ {MaxIdle, Discon, MaxRxtShift, MaxRxtShiftConnect, Overlap} \subseteq Nat
  /\ MaxRxtShiftConnect <= MaxRxtShift

VARIABLES
  b,         \* the block and what it knows of its socket
  user,      \* the socket's owner
  unlocked,  \* the call of the owner that is inside sock_retain, or "none"
  overlap,   \* history: ticks while the owner was inside it
  releasing, \* lpx_stream_slowtimo is inside sock_release
  retaincnt, \* so_retaincnt
  dispensed, \* Lpx_PCB_dispense freed the block
  panic,     \* the kernel dereferenced a null socket
  waited     \* history: ticks in FIN_WAIT_1, at most Discon

vars == <<b, user, unlocked, overlap, releasing, retaincnt, dispensed, panic,
          waited>>

(* The order of the states is that of their numbers in lpx_stream_var.h.   *)
Unestablished == {"CLOSED", "SYN_SENT"}
AwaitingFinAck == {"FIN_WAIT_1", "CLOSING", "LAST_ACK"}
SendsFin(s) == s \in AwaitingFinAck
FinDone == {"FIN_WAIT_2", "TIME_WAIT"}
State == Unestablished \cup {"ESTABLISHED", "CLOSE_WAIT"} \cup AwaitingFinAck
           \cup FinDone

Block == [state : State,
          rexmt : 0 .. RxtCur,           \* s_timer[SMPT_REXMT]
          keep : 0 .. 10 * Keep,         \* s_timer[SMPT_KEEP]
          msl : 0 .. Msl,                \* s_timer[SMPT_2MSL]
          rxtshift : 0 .. MaxRxtShift \cup {Discon},
          idle : 0 .. MaxIdle,           \* s_idle; compared with MaxIdle only
          unacked : BOOLEAN,             \* so_snd holds a transmitted record
          fin : BOOLEAN,                 \* a DISCONNREQ was sent
          needfree : BOOLEAN,            \* SF_NEEDFREE
          needrelease : BOOLEAN,         \* SF_NEEDRELEASE
          socketfreed : BOOLEAN,         \* SF_SOCKETFREED
          socket : BOOLEAN,              \* lpxp_socket # NULL
          pcb : BOOLEAN,                 \* so_pcb # 0, SOF_PCBCLEARING clear
          keepalive : BOOLEAN,           \* SO_KEEPALIVE
          so : {"none", "connecting", "connected", "disconnecting",
                "disconnected"}]         \* so_state

(* A packet of the peer.  all: its ackseq is s_smax + 1; fin: s_fseq + 1.  *)
Packet == [lsctl : {"ACK", "DATA", "ACKREQ", "CONNREQ", "DISCONNREQ",
                    "DISCONNREQ|ACK"},
           ack : {"none", "all", "fin"}]

(* A socket just attached and bound.                                       *)
Init ==
  /\ b = [state |-> "CLOSED", rexmt |-> 0, keep |-> 0, msl |-> 0,
          rxtshift |-> 0, idle |-> 0, unacked |-> FALSE, fin |-> FALSE,
          needfree |-> FALSE, needrelease |-> FALSE, socketfreed |-> FALSE,
          socket |-> TRUE, pcb |-> TRUE, keepalive |-> FALSE, so |-> "none"]
  /\ user = "open"
  /\ unlocked = "none"
  /\ overlap = 0
  /\ releasing = FALSE
  /\ retaincnt = 0
  /\ dispensed = FALSE
  /\ panic = FALSE
  /\ waited = 0

-----------------------------------------------------------------------------
(***************************************************************************)
(* Functions from block to block                                           *)
(***************************************************************************)

(* lpx_stream_output with s_force or SF_ACKNOW set, which sends a control  *)
(* packet unless quiet: a record is requested instead, or the packets-     *)
(* continue bit holds the acknowledgement back.                            *)
Control(c, quiet) ==
  IF ~c.socket \/ quiet THEN c
  ELSE [c EXCEPT !.fin = @ \/ SendsFin(c.state),
                 !.rexmt = IF @ = 0 /\ c.state \in Unestablished
                             THEN RxtCur ELSE @]

(* soisdisconnected, and Lpx_PCB_detach as lpx_stream_close calls it.      *)
Disconnected(c) == [c EXCEPT !.so = "disconnected"]

Close(c) ==
  IF ~c.socket \/ c.socketfreed THEN c
  ELSE [c EXCEPT !.socketfreed = TRUE,
                 !.pcb = IF c.so = "disconnected" THEN FALSE ELSE @]

(* lpx_stream_drop.                                                        *)
ScheduleFreeAtOnce(c) == [c EXCEPT !.needfree = TRUE]
ScheduleFree(c) ==
  IF c.needrelease THEN [c EXCEPT !.msl = 1] ELSE [c EXCEPT !.needfree = TRUE]

DropSilently(c) ==
  IF ~c.socket THEN c
  ELSE IF c.state = "SYN_SENT" THEN ScheduleFree(c)
  ELSE ScheduleFree(Close(Disconnected(Control([c EXCEPT !.state = "CLOSED"],
                                               FALSE))))
Drop(c) ==
  IF ~c.socket THEN c
  ELSE LET closed == IF c.state = "SYN_SENT" \/ c.state = "CLOSED" THEN c
                     ELSE Control([c EXCEPT !.state = "CLOSED"], FALSE)
       IN  ScheduleFree(Close(Disconnected(closed)))

(* The end of the handshake: soisdisconnected, lpx_stream_close, the 2MSL  *)
(* timer, and no more probes.                                              *)
TimeWaitForGood(c) ==
  [Close(Disconnected([c EXCEPT !.state = "TIME_WAIT"]))
     EXCEPT !.keepalive = FALSE, !.keep = 0]
TimeWaitClosingFirst(c) ==
  [Disconnected(Close([c EXCEPT !.state = "TIME_WAIT"]))
     EXCEPT !.msl = Msl, !.keepalive = FALSE, !.keep = 0]
TimeWait(c) ==
  [Close(Disconnected([c EXCEPT !.state = "TIME_WAIT"]))
     EXCEPT !.msl = Msl, !.keepalive = FALSE, !.keep = 0]

(* lpx_stream_usrclosed up to its unlocking.  s_timer[SMPT_DISCON] is one  *)
(* past the end of s_timer: the store hits the next member, s_rxtshift.    *)
StartClose(c) ==
  [c EXCEPT !.state = "FIN_WAIT_1", !.needrelease = TRUE, !.rxtshift = Discon]

(* lpx_stream_usrclosed after it.                                          *)
FinishClose(c) ==
  IF c.state \notin FinDone THEN c
  ELSE LET d == Close(Disconnected(c))
       IN  IF c.state = "FIN_WAIT_2" THEN [d EXCEPT !.msl = Msl] ELSE d

(* lpx_stream_usrclosed of a block that is not established.                *)
Usrclosed(c) ==
  FinishClose(IF c.state = "CLOSE_WAIT" THEN [c EXCEPT !.state = "LAST_ACK"]
              ELSE c)

(* lpx_stream_disconnect of a block that is not established; without s_pcb *)
(* the socket's calls do not reach it.                                     *)
Disconnect(c) ==
  IF ~c.pcb THEN c
  ELSE IF c.state \in Unestablished
  THEN [Close(Disconnected(c)) EXCEPT !.needfree = TRUE]
  ELSE Usrclosed([c EXCEPT !.so = "disconnecting"])

-----------------------------------------------------------------------------
(***************************************************************************)
(* lpx_stream_timers and lpx_stream_slowtimo.  Each takes the block as the *)
(* timers of lower number left it.                                         *)
(***************************************************************************)
Fires(t) == t = 1
Down(t) == IF t = 0 THEN 0 ELSE t - 1

MaxShift(c) ==
  IF c.state = "SYN_SENT" THEN MaxRxtShiftConnect ELSE MaxRxtShift

ShiftUnclamped(c) == c.rxtshift + 1
ShiftAtDrop(c) == MaxShift(c)

Rexmt(c, quiet) ==
  LET d == [c EXCEPT !.rexmt = Down(@)]
  IN  IF ~Fires(c.rexmt) THEN d
      ELSE IF c.rxtshift + 1 > MaxShift(c)
           THEN Drop([d EXCEPT !.rxtshift = ShiftAtDrop(c)])
           ELSE LET e == [d EXCEPT !.rxtshift = @ + 1, !.rexmt = RxtCur]
                IN  Control(e, quiet)

IdleAfterProbe(c) == 0
IdleKept(c) == c.idle

KeepAlive(c, quiet) ==
  LET d == [c EXCEPT !.keep = Down(@)]
  IN  IF ~Fires(c.keep) THEN d
      ELSE IF c.state \in Unestablished THEN Drop(d)
      ELSE IF ~c.socket \/ ~c.keepalive
           THEN [d EXCEPT !.idle = 0, !.keep = Keep]
      ELSE IF c.idle >= MaxIdle THEN Drop(d)
      ELSE [Control(d, quiet) EXCEPT !.keep = Keep, !.idle = IdleKept(c)]

(* The 2MSL timer, up to its unlocking.  Without a socket it does nothing. *)
Releases(c) == Fires(c.msl) /\ c.socket /\ c.needrelease
TwoMslReleasing(c) ==
  LET d == [c EXCEPT !.msl = Down(@)]
  IN  IF Releases(c) THEN [d EXCEPT !.needrelease = FALSE, !.socket = FALSE]
      ELSE IF Fires(c.msl) /\ c.socket THEN [d EXCEPT !.msl = 1] ELSE d
TwoMsl(c) ==
  LET d == [c EXCEPT !.msl = Down(@)]
  IN  IF Releases(c) THEN [d EXCEPT !.needrelease = FALSE, !.socket = FALSE]
      ELSE IF Fires(c.msl) /\ c.socket
           THEN [d EXCEPT !.msl = 1, !.needfree = TRUE]
           ELSE d

(* lpx_stream_slowtimo frees the block if it is marked, and otherwise runs *)
(* its timers.                                                             *)
Tick ==
  /\ ~dispensed /\ ~releasing
  /\ unlocked # "none" => overlap < Overlap
  /\ overlap' = IF unlocked = "none" THEN overlap ELSE overlap + 1
  /\ waited' = IF b.state # "FIN_WAIT_1" THEN 0
               ELSE IF waited = Discon THEN Discon ELSE waited + 1
  /\ IF b.needfree
     THEN /\ dispensed' = TRUE
          /\ UNCHANGED <<b, releasing>>
     ELSE \E quiet \in {FALSE, b.unacked} :
            LET c == KeepAlive(Rexmt(b, quiet), quiet)
            IN  /\ b' = [TwoMsl(c) EXCEPT !.idle = IF @ < MaxIdle THEN @ + 1 ELSE @]
                /\ releasing' = Releases(c)
                /\ UNCHANGED dispensed
  /\ UNCHANGED <<user, unlocked, retaincnt, panic>>

(* sock_release returned.                                                  *)
ReleaseDone ==
  /\ releasing
  /\ releasing' = FALSE
  /\ retaincnt' = retaincnt - 1
  /\ b' = [b EXCEPT !.needfree = TRUE]
  /\ UNCHANGED <<user, unlocked, overlap, dispensed, panic, waited>>

-----------------------------------------------------------------------------
(***************************************************************************)
(* The owner of the socket                                                 *)
(***************************************************************************)
Connect ==
  /\ user = "open"
  /\ b.so = "none"
  /\ b' = Control([b EXCEPT !.so = "connecting", !.state = "SYN_SENT",
                            !.keep = 10 * Keep], FALSE)
  /\ UNCHANGED <<user, unlocked, overlap, releasing, retaincnt, dispensed,
                 panic, waited>>

(* lpx_stream_user_send transmits the record at once.                      *)
Send ==
  /\ user = "open"
  /\ unlocked = "none"
  /\ b.so = "connected" /\ b.pcb
  /\ b' = [b EXCEPT !.unacked = TRUE,
                    !.rexmt = IF @ = 0 THEN RxtCur ELSE @]
  /\ UNCHANGED <<user, unlocked, overlap, releasing, retaincnt, dispensed,
                 panic, waited>>

(* lpx_stream_usrclosed of an established block unlocks at sock_retain.    *)
Retain(call, so) ==
  /\ b' = StartClose([b EXCEPT !.so = so])
  /\ unlocked' = call
  /\ UNCHANGED user

(* sock_shutdown; the kernel refuses a socket that is not connected.       *)
Shutdown ==
  /\ user = "open" /\ unlocked = "none"
  /\ b.so \in {"connecting", "connected", "disconnecting"}
  /\ IF b.pcb /\ b.state = "ESTABLISHED"
     THEN Retain("shutdown", b.so)
     ELSE /\ user' = "shut"
          /\ b' = IF b.pcb THEN Usrclosed(b) ELSE b
          /\ UNCHANGED unlocked
  /\ UNCHANGED <<overlap, releasing, retaincnt, dispensed, panic, waited>>

(* sock_close: pru_disconnect if connected, then pru_detach, both          *)
(* lpx_stream_disconnect.                                                  *)
SockClose ==
  /\ user \in {"open", "shut"} /\ unlocked = "none"
  /\ IF b.pcb /\ b.state = "ESTABLISHED"
     THEN Retain("close", "disconnecting")
     ELSE /\ user' = "closed"
          /\ b' = Disconnect(Disconnect(b))
          /\ UNCHANGED unlocked
  /\ UNCHANGED <<overlap, releasing, retaincnt, dispensed, panic, waited>>

RetainDone ==
  /\ unlocked # "none"
  /\ retaincnt' = retaincnt + 1
  /\ unlocked' = "none"
  /\ IF unlocked = "shutdown"
     THEN /\ user' = "shut"
          /\ b' = FinishClose(b)
     ELSE /\ user' = "closed"
          /\ b' = Disconnect(FinishClose(b))
  /\ UNCHANGED <<overlap, releasing, dispensed, panic, waited>>

-----------------------------------------------------------------------------
(***************************************************************************)
(* lpx_stream_input                                                        *)
(***************************************************************************)

(* The switch on s_state.  In FIN_WAIT_2 a missing break lets every packet *)
(* fall into the case of CLOSING.                                          *)
FinAcked(c, p) == IF p.ack = "fin" THEN TimeWait(c) ELSE c

Established(c) ==
  [c EXCEPT !.state = "ESTABLISHED", !.so = "connected", !.keepalive = TRUE,
            !.rexmt = 0]

Transition(c, p) ==
  CASE c.state = "SYN_SENT" /\ c.socket -> Established(c)
    [] c.state = "ESTABLISHED" /\ p.lsctl \in {"DISCONNREQ", "DISCONNREQ|ACK"}
         -> [c EXCEPT !.state = "CLOSE_WAIT"]
    [] c.state = "LAST_ACK" /\ p.lsctl = "ACK" -> TimeWait(c)
    [] c.state = "FIN_WAIT_1" /\ p.lsctl \in {"ACK", "DATA"} /\ p.ack = "fin"
         -> [c EXCEPT !.state = "FIN_WAIT_2"]
    [] c.state = "FIN_WAIT_1" /\ p.lsctl = "DISCONNREQ"
         -> [c EXCEPT !.state = "CLOSING"]
    [] c.state = "FIN_WAIT_1" /\ p.lsctl = "DISCONNREQ|ACK"
         -> FinAcked([c EXCEPT !.state = "CLOSING"], p)
    [] c.state = "FIN_WAIT_2" /\ p.lsctl = "DISCONNREQ|ACK" -> TimeWait(c)
    [] c.state = "FIN_WAIT_2" /\ p.lsctl # "DISCONNREQ|ACK" -> FinAcked(c, p)
    [] c.state = "CLOSING" -> FinAcked(c, p)
    [] OTHER -> c

(* The switch uses the socket without looking whether there is one.        *)
UsesSocket(c, p) ==
  \/ c.state = "FIN_WAIT_2" /\ (p.lsctl = "DISCONNREQ|ACK" \/ p.ack = "fin")
  \/ c.state = "FIN_WAIT_1" /\ p.lsctl = "DISCONNREQ|ACK" /\ p.ack = "fin"
  \/ c.state = "CLOSING" /\ p.ack = "fin"
  \/ c.state = "LAST_ACK" /\ p.lsctl = "ACK"

(* lpx_stream_reass, of which so_snd and the timer matter: the answer to   *)
(* the disconnect request acknowledges every record, but does not stop the *)
(* timer, and any packet may trim some records.                            *)
Reass(c, p, trims) ==
  IF ~c.socket THEN c
  ELSE [c EXCEPT !.rexmt = IF p.ack = "all" THEN 0 ELSE @,
                 !.unacked = @ /\ p.ack = "none",
                 !.rxtshift = IF c.unacked /\ (p.ack # "none" \/ trims)
                                THEN 0 ELSE @]

(* SF_ACKNOW is set, so that lpx_stream_output answers.                    *)
Answers(c, p) ==
  \/ c.state = "SYN_SENT"
  \/ p.lsctl = "DATA"
  \/ c.state \in {"ESTABLISHED", "FIN_WAIT_1", "FIN_WAIT_2"}
       /\ p.lsctl \in {"DISCONNREQ", "DISCONNREQ|ACK"}
  \/ c.state = "ESTABLISHED" /\ p.lsctl = "ACKREQ"

Input(p) ==
  /\ ~dispensed
  /\ p.ack = "fin" => b.fin
  /\ LET heard == [b EXCEPT !.idle = 0, !.keep = Keep]
     IN  IF ~b.socket /\ UsesSocket(b, p)
         THEN /\ panic' = TRUE
              /\ UNCHANGED b
         ELSE /\ \E trims \in BOOLEAN,
                   quiet \in {FALSE, b.unacked \/ p.lsctl = "DATA"} :
                   LET c == Reass(Transition(heard, p), p, trims)
                   IN  b' = Control(c, quiet \/ ~Answers(b, p))
              /\ UNCHANGED panic
  /\ UNCHANGED <<user, unlocked, overlap, releasing, retaincnt, dispensed,
                 waited>>

Packets == \E p \in Packet : Input(p)

Next ==
  /\ ~panic
  /\ \/ Tick \/ ReleaseDone
     \/ Connect \/ Send \/ Shutdown \/ SockClose \/ RetainDone
     \/ Packets

Spec == Init /\ [][Next]_vars

(* The kernel calls lpx_stream_slowtimo twice a second for ever, and a     *)
(* thread that waits for the mutex gets it.                                *)
FairSpec == Spec /\ WF_vars(~panic /\ Tick) /\ WF_vars(~panic /\ RetainDone)
                 /\ WF_vars(~panic /\ ReleaseDone)

-----------------------------------------------------------------------------
(***************************************************************************)
(* Properties                                                              *)
(***************************************************************************)
TypeOK ==
  /\ b \in Block
  /\ user \in {"open", "shut", "closed"}
  /\ unlocked \in {"none", "shutdown", "close"}
  /\ overlap \in 0 .. Overlap
  /\ retaincnt \in Int
  /\ {releasing, dispensed, panic} \subseteq BOOLEAN
  /\ waited \in 0 .. Discon

(* The reference that lpx_stream_usrclosed takes is held once at most, and *)
(* given back before the block that remembers it is freed.  This needs     *)
(* sock_retain to get the mutex before lpx_stream_slowtimo does: otherwise *)
(* a keep-alive timer just due drops the connection, the 2MSL timer fires  *)
(* in the same call, and sock_release comes first.                         *)
ReferenceReturned ==
  overlap = 0 =>
    /\ retaincnt \in {0, 1}
    /\ dispensed => retaincnt = 0 /\ unlocked = "none"

(* A block marked to be freed, one that gave up its socket and one that is *)
(* freed are out of reach of the socket's calls: so_pcb is clear, so no    *)
(* call uses a freed block, and the last sock_release finds no block left. *)
MarkedIsDetached == (b.needfree \/ ~b.socket \/ dispensed) => ~b.pcb

(* Whatever the peer sent and whichever timers were cleared on the way, a  *)
(* block whose owner has closed it has a timer left that will end it.      *)
TimerLeft ==
  (user = "closed" /\ ~dispensed) =>
    b.needfree \/ releasing \/ b.keep > 0 \/ b.msl > 0

SilentPeer == <>[][~Packets]_vars

(* When the peer falls silent, a block its owner has closed is freed in    *)
(* the end (lpx_stream_slowtimo), unless the kernel panicked before.       *)
ClosedIsFreed == SilentPeer => (user = "closed" ~> (dispensed \/ panic))

(* When the peer falls silent, the owner of a connected socket learns of   *)
(* it (the keep-alive timer), in whatever state the peer left the block:   *)
(* the socket is disconnected and detached.                                *)
DeadPeerNoticed ==
  SilentPeer => (b.so = "connected" /\ b.pcb ~> (~b.pcb \/ panic))

(* A connect ends, answered or not: the owner does not wait for ever.      *)
ConnectEnds == b.so = "connecting" ~> b.so # "connecting"

(* A disconnect request the peer does not react to is given up after the   *)
(* disconnect timeout: SMPTV_DISCON, "Disconnect timeout".                 *)
DisconTimeout == ~(b.state = "FIN_WAIT_1" /\ waited = Discon)

(* A connection that lpx_stream_drop counts among the "embryonic           *)
(* connections dropped" stays dropped: its owner, told that the connect    *)
(* failed, does not hold a connected socket later.                         *)
DroppedStaysDropped ==
  [][(user = "open" /\ b.so = "disconnected") => b.so' # "connected"]_vars

(* The socket's memory is freed when its owner has closed it, the protocol *)
(* has detached and nobody retains it.                                     *)
SocketFreed == user = "closed" /\ ~b.pcb /\ retaincnt = 0

(* While a packet can find the block, lpxp_socket is the "back pointer to  *)
(* socket" or null, never to a socket that was freed.                      *)
BackPointerLive == (~dispensed /\ b.socket) => ~SocketFreed

=============================================================================

------------------------------- MODULE LpxSeq -------------------------------
(***************************************************************************)
(* Sequence numbers of the LPX stream protocol.  The code keeps them in    *)
(* u_short and compares them with the SSEQ_ macros, through the sign of a  *)
(* 16-bit difference.  Half stands for 2^15, so SeqMod stands for 2^16.    *)
(*                                                                         *)
(* The modules that use these operators number records with Nat and never  *)
(* compare two numbers except through an operator of this module, which    *)
(* only sees what the 16 bits show.                                        *)
(***************************************************************************)
EXTENDS Integers

CONSTANT Half

ASSUME HalfAssumption == Half \in Nat \ {0}

SeqMod == 2 * Half

(* The u_short that holds the number n.                                    *)
U16(n) == n % SeqMod

(* (short)(a - b): the bit pattern of the difference, read as signed.      *)
Short(d) == IF U16(d) >= Half THEN U16(d) - SeqMod ELSE U16(d)

SSEQ_LT(a, b)  == Short(a - b) < 0
SSEQ_LEQ(a, b) == Short(a - b) <= 0
SSEQ_EQ(a, b)  == U16(a - b) = 0

(* INT16_MAX                                                               *)
Int16Max == Half - 1

(* ackseq == cb->s_smax + 1: both sides are promoted to int, so the        *)
(* successor of the last u_short is SeqMod, which no packet carries.       *)
IsSuccessor(a, b) == U16(a) = U16(b) + 1

=============================================================================

--------------------------- MODULE ReliableStream ---------------------------
(***************************************************************************)
(* What an LPX stream connection promises the users at its two ends        *)
(* (SOCK_STREAM over lpx_stream.c): record n is the n-th record written;   *)
(* the reader gets them in order, each once; the writer is never more than *)
(* Capacity records ahead; and the connection may be dropped at any time.  *)
(***************************************************************************)
EXTENDS Integers, Sequences

CONSTANT Capacity

VARIABLES
  written,  \* number of records written
  read,     \* the records the reader was given
  closed    \* the writer's end was dropped

vars == <<written, read, closed>>

Init ==
  /\ written = 0
  /\ read = <<>>
  /\ closed = FALSE

Write ==
  /\ ~closed
  /\ written < Len(read) + Capacity
  /\ written' = written + 1
  /\ UNCHANGED <<read, closed>>

Read ==
  /\ Len(read) < written
  /\ read' = Append(read, Len(read) + 1)
  /\ UNCHANGED <<written, closed>>

Drop ==
  /\ ~closed
  /\ closed' = TRUE
  /\ UNCHANGED <<written, read>>

Next == Write \/ Read \/ Drop

Spec == Init /\ [][Next]_vars

=============================================================================

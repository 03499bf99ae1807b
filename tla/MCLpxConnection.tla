-------------------------- MODULE MCLpxConnection ---------------------------
(***************************************************************************)
(* LpxConnection with the timer values of lpx_stream_timer.h.              *)
(***************************************************************************)
EXTENDS LpxConnection

PrSlowHz == 2

MCRxtCur == PrSlowHz
MCKeep == PrSlowHz
MCMaxIdle == 5 * MCKeep
MCMsl == 4 * PrSlowHz
MCDiscon == 4 * PrSlowHz

=============================================================================

------------------------------- MODULE MCFifo -------------------------------
(***************************************************************************)
(* An instance of Fifo for TLC: two senders, a receiver and two slots, and *)
(* enough values for the offsets to wrap at 2 * Slots.                     *)
(***************************************************************************)
EXTENDS Fifo
=============================================================================

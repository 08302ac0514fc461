------------------------------- MODULE MCSio -------------------------------
(* Two cards with two pages of two bytes, and two transfers.               *)
EXTENDS Sio
=============================================================================

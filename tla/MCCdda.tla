------------------------------- MODULE MCCdda -------------------------------
(* Three starts, from two places of an image whose last sector is the      *)
(* third, with and without interleaved subchannel data.                    *)
EXTENDS Cdda
=============================================================================

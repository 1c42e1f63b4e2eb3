------------------------------ MODULE MCUartTx ------------------------------
(* Two calling threads (BT RX and the system work queue), a two-deep queue   *)
(* and more frames than it holds, so that full, empty and back-to-back       *)
(* transfers all occur.                                                      *)
EXTENDS UartTx
=============================================================================

------------------------------ MODULE MCUartRx ------------------------------
(* Payloads of every length, magic bytes inside them, a length byte that is   *)
(* itself noise, and a ring smaller than a frame.                             *)
EXTENDS UartRx

MCPayloads == {<<1>>, <<148, 195>>}
MCNoise == {148, 2}
=============================================================================

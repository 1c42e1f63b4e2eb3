------------------------------ MODULE MCServe ------------------------------
(* A five-byte arena and a four-frame index : both overflow tests are met,  *)
(* by frames that fit exactly and by frames one byte too long.              *)
EXTENDS Serve
=============================================================================

---------------------------- MODULE ProtoHandler ----------------------------
(***************************************************************************)
(* The messages on the two links and what proto_handler.c extracts from    *)
(* and synthesizes in them.  A message is a record of what the proxy ever  *)
(* looks at; wire encoding belongs to nanopb.  The static scratch structs  *)
(* of the decoders carry nothing from one call to the next.                *)
(*                                                                         *)
(* The encoders cannot fail here: each message is at most 8 bytes, and     *)
(* every buffer has at least 16.                                           *)
(***************************************************************************)
EXTENDS Integers, Sequences

\* A FromRadio.  data is the nonce of a config_complete, the mesh packet of a
\* packet, the position of a config frame, and for a queueStatus whether it
\* answers the proxy's own heartbeat.  "garbled" stands for undecodable bytes.
FromRadio(v, d) == [variant |-> v, data |-> d, len |-> 1]

\* The payload variant of a mesh packet ("decoded" or "encrypted") and its Data.
MeshPacket(tag, portnum, payload) ==
  [tag |-> tag, portnum |-> portnum, payload |-> payload]

\* A ToRadio: its variant, its nonce (0 where it has none), who made it.
ToRadio(t, n, from) == [t |-> t, n |-> n, from |-> from]

EINVAL == -22

\* struct fromradio_info after the memset.
ZeroInfo == [which_variant |-> "none", is_decoded |-> FALSE, portnum |-> 0,
             payload_bytes |-> <<>>]

\* The return code, and the info it fills in: routing fields only for a mesh
\* packet, portnum and payload only for one the node has decrypted.
proto_decode_fromradio(f) ==
  CASE f.variant = "garbled" -> <<EINVAL, ZeroInfo>>
    [] f.variant \notin {"garbled", "packet"} ->
         <<0, [ZeroInfo EXCEPT !.which_variant = f.variant]>>
    [] f.variant = "packet" /\ f.data.tag # "decoded" ->
         <<0, [ZeroInfo EXCEPT !.which_variant = "packet"]>>
    [] OTHER ->
         <<0, [which_variant |-> "packet", is_decoded |-> TRUE,
               portnum |-> f.data.portnum, payload_bytes |-> f.data.payload]>>

\* Mutant: the disconnect variant has no case of its own.
proto_decode_toradio_no_disconnect(m) ==
  IF m.t = "malformed"
  THEN <<EINVAL, [has_want_config |-> FALSE, want_config_id |-> 0,
                  has_disconnect |-> FALSE, has_heartbeat |-> FALSE]>>
  ELSE <<0, [has_want_config |-> m.t = "want_config",
             want_config_id |-> IF m.t = "want_config" THEN m.n ELSE 0,
             has_disconnect |-> FALSE, has_heartbeat |-> m.t = "heartbeat"]>>

\* The three control variants are told apart; a packet, and whatever else a
\* phone may send, leaves every flag down.
proto_decode_toradio(m) ==
  IF m.t = "malformed"
  THEN <<EINVAL, [has_want_config |-> FALSE, want_config_id |-> 0,
                  has_disconnect |-> FALSE, has_heartbeat |-> FALSE]>>
  ELSE <<0, [has_want_config |-> m.t = "want_config",
             want_config_id |-> IF m.t = "want_config" THEN m.n ELSE 0,
             has_disconnect |-> m.t = "disconnect",
             has_heartbeat |-> m.t = "heartbeat"]>>

proto_encode_config_complete(nonce) == FromRadio("config_complete", nonce)

proto_encode_heartbeat(nonce) == ToRadio("heartbeat", nonce, "proxy")

\* The synthesized answer to a phone's heartbeat.
proto_encode_queue_status == FromRadio("queueStatus", 0)
=============================================================================

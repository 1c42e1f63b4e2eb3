----------------------------- MODULE MCBleGatt -----------------------------
(* Instances of BleGatt for TLC.                                              *)
EXTENDS BleGatt

\* One frame of every kind a segment tells apart.
MCBurst == << [variant |-> "node_info", data |-> 1, len |-> 1],
              [variant |-> "node_info", data |-> 2, len |-> 1],
              [variant |-> "config_complete", data |-> 3, len |-> 1],
              [variant |-> "config", data |-> 4, len |-> 1] >>
MCCache == cache_mark_ready(FoldLeft(cache_add_frame, EmptyCache, MCBurst))
MCNoCache == cache_mark_ready(EmptyCache)

Packet(tag, portnum, payload) == FromRadio("packet", MeshPacket(tag, portnum, payload))
Built(p, id) == proxy_header_build(IdOf(p), id, <<>>, PROXY_PRACTICAL_MAX)

\* An ordinary text message.
MCText == {[msg |-> Packet("decoded", 1, <<>>), for |-> NoPhone]}

\* Every path through the router: a message from each phone to each phone, one
\* to nobody, a short and a foreign header, another port, an encrypted packet,
\* another variant, and a frame that does not decode.
MCFrames ==
  MCText
  \cup {[msg |-> Packet("decoded", PROXY_PORTNUM, Built(p, IdOf(q))), for |-> q] :
          p \in Phone, q \in Phone}
  \cup {[msg |-> m, for |-> NoPhone] : m \in
          {Packet("decoded", PROXY_PORTNUM, Built(p, ZeroId)) : p \in Phone}
          \cup {Packet("decoded", PROXY_PORTNUM, Tail(Built(p, IdOf(p)))) : p \in Phone}
          \cup {Packet("decoded", PROXY_PORTNUM, <<2>> \o Tail(Built(p, IdOf(p)))) : p \in Phone}
          \cup {Packet("encrypted", 0, <<>>), FromRadio("node_info", 1), FromRadio("garbled", 0)}}

Symm == Permutations(Phone)
=============================================================================

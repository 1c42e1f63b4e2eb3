--------------------------- MODULE ProxyProtocol ---------------------------
(***************************************************************************)
(* The application header that addresses a phone behind a proxy            *)
(* (proxy_protocol.c): [version][src id][dst id][content], carried in the  *)
(* payload of a mesh packet on PROXY_PORTNUM.  A payload is a sequence, so *)
(* payload[1] is the code's payload[0].                                    *)
(*                                                                         *)
(* Left out: the renderings of ids and headers as text, which no other     *)
(* part of the firmware calls.                                             *)
(***************************************************************************)
EXTENDS Integers, Sequences

CONSTANTS PROXY_ID_SIZE,       \* 4 in the build
          PROXY_PRACTICAL_MAX  \* 200 in the build

ASSUME ProtocolAssumption ==
  /\ PROXY_ID_SIZE \in Nat \ {0}
  /\ PROXY_PRACTICAL_MAX \in Nat /\ PROXY_PRACTICAL_MAX >= 1 + 2 * PROXY_ID_SIZE

PROXY_PORTNUM == 256
PROXY_VERSION == 1

PROXY_HEADER_SIZE == 1 + 2 * PROXY_ID_SIZE
PROXY_CONTENT_MAX == PROXY_PRACTICAL_MAX - PROXY_HEADER_SIZE
PROXY_OFF_SRC     == 1
PROXY_OFF_DST     == PROXY_OFF_SRC + PROXY_ID_SIZE
PROXY_OFF_CONTENT == PROXY_HEADER_SIZE

\* The PROXY_ID_SIZE bytes of the payload from an offset on.
IdAt(payload, off) == [i \in 1 .. PROXY_ID_SIZE |-> payload[off + i]]

ZeroId == [i \in 1 .. PROXY_ID_SIZE |-> 0]

proxy_id_equal(a, b) == \A i \in 1 .. PROXY_ID_SIZE : a[i] = b[i]

proxy_id_is_zero(id) == \A i \in 1 .. PROXY_ID_SIZE : id[i] = 0

\* What a failed parse leaves behind: the caller looks at ok only.
NoHeader == [ok |-> FALSE, src |-> ZeroId, dst |-> ZeroId, content |-> <<>>]

\* Mutant: the two ids are read from each other's offset.
proxy_header_parse_swapped(payload) ==
  IF Len(payload) < PROXY_HEADER_SIZE \/ payload[1] # PROXY_VERSION THEN NoHeader
  ELSE [ok |-> TRUE,
        src |-> IdAt(payload, PROXY_OFF_DST), dst |-> IdAt(payload, PROXY_OFF_SRC),
        content |-> SubSeq(payload, PROXY_OFF_CONTENT + 1, Len(payload))]

\* Too short, or another version: no header.
proxy_header_parse(payload) ==
  IF Len(payload) < PROXY_HEADER_SIZE \/ payload[1] # PROXY_VERSION THEN NoHeader
  ELSE [ok |-> TRUE,
        src |-> IdAt(payload, PROXY_OFF_SRC), dst |-> IdAt(payload, PROXY_OFF_DST),
        content |-> SubSeq(payload, PROXY_OFF_CONTENT + 1, Len(payload))]

\* The bytes written to a buffer of that size; none when the content is too
\* long or the buffer too small.
proxy_header_build(src, dst, content, dst_buf_size) ==
  IF \/ Len(content) > PROXY_CONTENT_MAX
     \/ PROXY_HEADER_SIZE + Len(content) > dst_buf_size
  THEN <<>>
  ELSE <<PROXY_VERSION>> \o src \o dst \o content
=============================================================================

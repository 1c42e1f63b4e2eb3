---------------------------- MODULE ProxyProofs ----------------------------
(***************************************************************************)
(* Proofs about the upstream session and its line to the node, for every   *)
(* nonce range, queue depth, burst length and cache size: the inductive    *)
(* invariant CoreInv, the safety invariants that follow from it, two       *)
(* action properties, and that the session drives the cache the way        *)
(* CacheStore allows.                                                      *)
(***************************************************************************)
EXTENDS Proxy, SequenceTheorems, TLAPS

\* want_config and heartbeat are the proxy's own, the rest is the phones'.
UpMsg == [t : {"want_config", "heartbeat"}, n : Nonce, from : {"proxy"}]
           \cup [t : {"packet", "malformed"}, n : Nonce, from : {"phone"}]

\* What the node puts on the line: frames the session may cache, a mesh packet, and
\* bytes that do not decode.
CachedVariant == {"config", "config_complete", "queueStatus", "rebooted"}
BurstFrame == [variant : CachedVariant, data : 0 .. BurstLen + NonceMax, len : {1}]
PacketFrame == FromRadio("packet", MeshPacket("decoded", 1, <<>>))
GarbledFrame == FromRadio("garbled", 0)
DownFrame == BurstFrame \cup {PacketFrame, GarbledFrame}

\* The variables of upstream_session.c and its two delayed works.
SessionType ==
  /\ s_state \in UpstreamState /\ s_nonce \in Nonce
  /\ s_keepalive_armed \in BOOLEAN /\ s_keepalive_pending \in BOOLEAN
  /\ s_keepalive_nonce \in Nonce
  /\ fetch_retry \in BOOLEAN /\ liveness \in BOOLEAN

\* Both directions of the line, main and the node at the other end.
LineType ==
  /\ txq \in Seq(UpMsg) /\ Len(txq) <= TxDepth
  /\ down \in Seq(DownFrame) /\ Len(down) <= DownCap
  /\ main \in {"boot", "starting", "arming", "idle"}
  /\ node \in {"closed", "burst", "open"} /\ node_nonce \in Nonce
  /\ node_pos \in 1 .. BurstLen + 1
  /\ closes \in Nat /\ losses \in Nat /\ stray \in BOOLEAN

\* The session is in BOOT exactly until upstream_session_start has said FETCHING.
BootIsMain == main \in {"boot", "starting"} <=> s_state = "BOOT"

\* Nonces 0 and 1 are on no wire, and are not about to be.
NonceInv ==
  /\ NoncesLegal
  /\ main # "boot" => s_nonce \notin {0, 1}
  /\ s_keepalive_nonce \notin {0, 1}

\* The cache with frames of one byte: every reference lies below the cursor
\* and finds the first byte of its frame.
OneByte == {NoByte} \cup ((0 .. BurstLen + NonceMax) \X {0})
OneRef  == [offset : 0 .. ArenaBytes, len : {1}, variant : CachedVariant]

\* The config cache as the session fills it.
CacheRecord ==
  [arena : [0 .. ArenaBytes - 1 -> OneByte], index : Seq(OneRef),
   used : 0 .. ArenaBytes, ready : BOOLEAN,
   queuestatus_idx : Int, own_nodeinfo_idx : Int]

\* Every reference of the index leads to a stored frame below the cursor.
CacheInv ==
  /\ cache \in CacheRecord
  /\ Len(cache.index) <= MaxFrames
  /\ \A i \in 1 .. Len(cache.index) :
       /\ cache.index[i].offset < cache.used
       /\ cache.arena[cache.index[i].offset] \in (0 .. BurstLen + NonceMax) \X {0}

\* The inductive invariant of the session.
CoreInv ==
  /\ SessionType /\ LineType
  /\ WatchdogCoversFetch /\ LiveHasCache /\ BootIsMain /\ NonceInv
  /\ CacheInv

\* The numbers behind the assumptions on the constants.
LEMMA Constants ==
  /\ NonceMax \in Nat /\ NonceMax >= 2 /\ TxDepth \in Nat /\ TxDepth >= 1
  /\ ArenaBytes \in Nat /\ MaxFrames \in Nat
  /\ BurstLen \in Nat /\ DownCap \in Nat
  BY SessionAssumption, CacheAssumption, ProxyAssumption

\* The nonce that a fetch or a keepalive ends up with is never 0 or 1.
LEMMA LegalNonceLegal ==
  ASSUME NEW r \in Nonce
  PROVE  LegalNonce(r) \in Nonce /\ LegalNonce(r) \notin {0, 1}
  BY Constants DEF LegalNonce, Nonce

\* Where a frame of the line goes, in terms of its variant only.
LEMMA RouteOf ==
  ASSUME NEW f \in DownFrame
  PROVE  route(f) = IF f.variant = "garbled" THEN "raw"
                    ELSE IF Fetching /\ f.variant # "packet" THEN "consumed"
                    ELSE IF f.variant = "rebooted" THEN "absorbed"
                    ELSE IF f.variant = "queueStatus" /\ s_keepalive_pending THEN "swallowed"
                    ELSE "phones"
<1>1. CASE f = GarbledFrame
  BY <1>1 DEF GarbledFrame, FromRadio, route, proto_decode_fromradio, EINVAL
<1>2. CASE f = PacketFrame
  BY <1>2 DEF PacketFrame, FromRadio, MeshPacket, route, proto_decode_fromradio
<1>3. CASE f \in BurstFrame
  <2>1. f.variant \in CachedVariant
    BY <1>3 DEF BurstFrame
  <2>2. proto_decode_fromradio(f) = <<0, [ZeroInfo EXCEPT !.which_variant = f.variant]>>
    BY <2>1 DEF CachedVariant, proto_decode_fromradio
  <2>3. /\ proto_decode_fromradio(f)[1] = 0
        /\ proto_decode_fromradio(f)[2].which_variant = f.variant
    BY <2>2 DEF ZeroInfo
  <2>4. QED
    BY <2>1, <2>3 DEF CachedVariant, route
<1>4. QED
  BY <1>1, <1>2, <1>3 DEF DownFrame

\* What a phone writes reaches the UART only as a packet or as undecodable.
LEMMA ForwardsOf ==
  ASSUME NEW t \in PhoneWrites
  PROVE  forwards(ToRadio(t, 0, "phone")) <=> t \in {"packet", "malformed"}
  BY ProxyAssumption DEF forwards, ToRadio, proto_decode_toradio, EINVAL

\* uart_meshtastic_tx keeps the queue a bounded queue of messages.
LEMMA TxStep ==
  ASSUME LineType, NEW m \in UpMsg, uart_meshtastic_tx(m)
  PROVE  /\ txq' \in Seq(UpMsg) /\ Len(txq') <= TxDepth
         /\ txq' = txq \/ (/\ txq' = Append(txq, m) /\ Len(txq') = Len(txq) + 1
                           /\ \A i \in 1 .. Len(txq) : txq'[i] = txq[i]
                           /\ txq'[Len(txq) + 1] = m)
<1>1. txq \in Seq(UpMsg) /\ Len(txq) \in Nat /\ Len(txq) <= TxDepth
  BY DEF LineType
<1>2. CASE TxFull
  BY <1>1, <1>2 DEF uart_meshtastic_tx
<1>3. CASE ~ TxFull
  <2>1. txq' = Append(txq, m)
    BY <1>3 DEF uart_meshtastic_tx
  <2>2. Len(txq) < TxDepth
    BY <1>1, <1>3, Constants DEF TxFull
  <2>3. QED
    BY <1>1, <2>1, <2>2, AppendProperties, Constants
<1>4. QED
  BY <1>2, <1>3

----------------------------------------------------------------------------
(* The cache, as the session drives it *)

\* cache_begin, field by field.
LEMMA BeginFields ==
  ASSUME NEW c \in CacheRecord, NEW d, d = cache_begin(c)
  PROVE  d = [arena |-> c.arena, index |-> <<>>, used |-> 0, ready |-> FALSE,
              queuestatus_idx |-> -1, own_nodeinfo_idx |-> -1]
  BY DEF CacheRecord, cache_begin

\* cache_mark_ready, field by field.
LEMMA MarkReadyFields ==
  ASSUME NEW c \in CacheRecord, NEW d, d = cache_mark_ready(c)
  PROVE  d = [arena |-> c.arena, index |-> c.index, used |-> c.used, ready |-> TRUE,
              queuestatus_idx |-> c.queuestatus_idx, own_nodeinfo_idx |-> c.own_nodeinfo_idx]
  BY DEF CacheRecord, cache_mark_ready

\* The reference that cache_add_frame appends for f.
NewRef(c, f) == [offset |-> c.used, len |-> f.len, variant |-> f.variant]

\* cache_add_frame on a cache with room, field by field.
LEMMA AddFields ==
  ASSUME NEW c \in CacheRecord, NEW f \in BurstFrame, cache_fits(c, f)
  PROVE  LET d == cache_add_frame(c, f) IN
         /\ d.arena = ArenaWrite(c, f) /\ d.index = Append(c.index, NewRef(c, f))
         /\ d.used = c.used + 1 /\ d.ready = c.ready
         /\ d.queuestatus_idx \in Int /\ d.own_nodeinfo_idx \in Int
         /\ d = [arena |-> d.arena, index |-> d.index, used |-> d.used, ready |-> d.ready,
                 queuestatus_idx |-> d.queuestatus_idx, own_nodeinfo_idx |-> d.own_nodeinfo_idx]
<1>1. f.len = 1
  BY DEF BurstFrame
<1>2. Len(c.index) \in Int
  BY DEF CacheRecord
<1>3. QED
  BY <1>1, <1>2 DEF CacheRecord, cache_add_frame, NewRef, cache_frame_count

\* An accepted frame is stored behind all others.
LEMMA AddCache ==
  ASSUME CacheInv, NEW f \in BurstFrame, cache_fits(cache, f),
         cache' = cache_add_frame(cache, f)
  PROVE  /\ CacheInv' /\ cache'.ready = cache.ready
         /\ Len(cache'.index) = Len(cache.index) + 1
         /\ cache'.index[Len(cache.index) + 1] = NewRef(cache, f)
         /\ cache'.arena[cache.used] = <<f.data, 0>>
         /\ \A i \in 1 .. Len(cache.index) :
              /\ cache'.index[i] = cache.index[i]
              /\ cache'.arena[cache.index[i].offset] = cache.arena[cache.index[i].offset]
<1> DEFINE n == Len(cache.index)
           u == cache.used
           D == 0 .. BurstLen + NonceMax
<1>1. /\ cache \in CacheRecord /\ n \in Nat /\ u \in 0 .. ArenaBytes /\ n <= MaxFrames
      /\ cache.index \in Seq(OneRef) /\ cache.arena \in [0 .. ArenaBytes - 1 -> OneByte]
      /\ cache.ready \in BOOLEAN
  BY DEF CacheInv, CacheRecord
<1>2. f.len = 1 /\ f.variant \in CachedVariant /\ f.data \in D
  BY DEF BurstFrame
<1>3. n < MaxFrames /\ u + 1 <= ArenaBytes
  BY <1>2 DEF cache_fits, cache_frame_count
<1>4. /\ cache'.arena = ArenaWrite(cache, f) /\ cache'.index = Append(cache.index, NewRef(cache, f))
      /\ cache'.used = u + 1 /\ cache'.ready = cache.ready
      /\ cache'.queuestatus_idx \in Int /\ cache'.own_nodeinfo_idx \in Int
      /\ cache' = [arena |-> cache'.arena, index |-> cache'.index, used |-> cache'.used,
                   ready |-> cache'.ready, queuestatus_idx |-> cache'.queuestatus_idx,
                   own_nodeinfo_idx |-> cache'.own_nodeinfo_idx]
  BY <1>1, AddFields
<1>5. NewRef(cache, f) \in OneRef
  BY <1>1, <1>2 DEF NewRef, OneRef
<1>6. /\ cache'.index \in Seq(OneRef) /\ Len(cache'.index) = n + 1
      /\ \A i \in 1 .. n : cache'.index[i] = cache.index[i]
      /\ cache'.index[n + 1] = NewRef(cache, f)
  BY <1>1, <1>4, <1>5, AppendProperties
<1>7. \A b \in 0 .. ArenaBytes - 1 :
        ArenaWrite(cache, f)[b] = IF b = u THEN <<f.data, 0>> ELSE cache.arena[b]
  <2> SUFFICES ASSUME NEW b \in 0 .. ArenaBytes - 1
               PROVE  ArenaWrite(cache, f)[b] = IF b = u THEN <<f.data, 0>> ELSE cache.arena[b]
    OBVIOUS
  <2>1. u .. u + f.len - 1 = {u}
    BY <1>1, <1>2, Constants
  <2>2. b = u => b - u = 0
    BY <1>1
  <2>3. QED
    BY <2>1, <2>2 DEF ArenaWrite
<1>8. ArenaWrite(cache, f) \in [0 .. ArenaBytes - 1 -> OneByte]
  <2>1. <<f.data, 0>> \in OneByte
    BY <1>2 DEF OneByte
  <2>2. ArenaWrite(cache, f) = [b \in 0 .. ArenaBytes - 1 |-> ArenaWrite(cache, f)[b]]
    BY DEF ArenaWrite
  <2>3. QED
    BY <1>1, <1>7, <2>1, <2>2
<1>9. u \in 0 .. ArenaBytes - 1 /\ u + 1 \in 0 .. ArenaBytes
  BY <1>1, <1>3, Constants
<1>10. cache'.arena[u] = <<f.data, 0>>
  BY <1>4, <1>7, <1>9
<1>11. ASSUME NEW i \in 1 .. n
       PROVE  /\ cache'.arena[cache.index[i].offset] = cache.arena[cache.index[i].offset]
              /\ cache.index[i].offset < u + 1
              /\ cache.arena[cache.index[i].offset] \in D \X {0}
  <2> DEFINE at == cache.index[i].offset
  <2>1. at < u /\ cache.arena[at] \in D \X {0}
    BY DEF CacheInv
  <2>a. cache.index[i] \in OneRef
    BY <1>1
  <2>2. at \in 0 .. ArenaBytes
    BY <2>a DEF OneRef
  <2> HIDE DEF at, u, D
  <2>3. at \in 0 .. ArenaBytes - 1 /\ at # u /\ at < u + 1
    BY <1>1, <2>1, <2>2, Constants
  <2>4. cache'.arena[at] = cache.arena[at]
    BY <1>4, <1>7, <2>3
  <2>5. QED
    BY <2>1, <2>3, <2>4 DEF at
<1>12. cache' \in CacheRecord
  BY <1>1, <1>4, <1>6, <1>8, <1>9 DEF CacheRecord
<1>13. ASSUME NEW i \in 1 .. n + 1
       PROVE  /\ cache'.index[i].offset < cache'.used
              /\ cache'.arena[cache'.index[i].offset] \in D \X {0}
  <2>1. CASE i \in 1 .. n
    BY <1>4, <1>6, <1>11, <2>1
  <2>2. CASE i = n + 1
    <3>1. cache'.index[i].offset = u
      BY <1>6, <2>2 DEF NewRef
    <3>2. u < u + 1 /\ <<f.data, 0>> \in D \X {0}
      BY <1>1, <1>2
    <3>3. QED
      BY <1>4, <1>10, <3>1, <3>2
  <2>3. QED
    BY <1>1, <2>1, <2>2
<1>14. n + 1 <= MaxFrames
  BY <1>1, <1>3, Constants
<1>15. CacheInv'
  BY <1>6, <1>12, <1>13, <1>14 DEF CacheInv
<1>16. QED
  BY <1>4, <1>6, <1>10, <1>11, <1>15

\* The index is empty again; the arena's bytes stay.
LEMMA BeginCache ==
  ASSUME CacheInv, cache' = cache_begin(cache)
  PROVE  CacheInv' /\ cache'.ready = FALSE /\ cache'.index = <<>>
<1>1. cache' = [arena |-> cache.arena, index |-> <<>>, used |-> 0, ready |-> FALSE,
                queuestatus_idx |-> -1, own_nodeinfo_idx |-> -1]
  BY BeginFields DEF CacheInv
<1>2. cache.arena \in [0 .. ArenaBytes - 1 -> OneByte]
  BY DEF CacheInv, CacheRecord
<1>3. <<>> \in Seq(OneRef) /\ Len(<<>>) = 0 /\ 0 \in 0 .. ArenaBytes
  BY Constants
<1>4. cache' \in CacheRecord
  BY <1>1, <1>2, <1>3 DEF CacheRecord
<1>5. QED
  BY <1>1, <1>3, <1>4, Constants DEF CacheInv

\* Only the flag changes.
LEMMA MarkReadyCache ==
  ASSUME CacheInv, cache' = cache_mark_ready(cache)
  PROVE  /\ CacheInv' /\ cache'.ready = TRUE
         /\ cache'.index = cache.index /\ cache'.arena = cache.arena /\ cache'.used = cache.used
<1>1. cache' = [arena |-> cache.arena, index |-> cache.index, used |-> cache.used, ready |-> TRUE,
                queuestatus_idx |-> cache.queuestatus_idx,
                own_nodeinfo_idx |-> cache.own_nodeinfo_idx]
  BY MarkReadyFields DEF CacheInv
<1>2. cache' \in CacheRecord
  BY <1>1 DEF CacheInv, CacheRecord
<1>3. /\ cache'.index = cache.index /\ cache'.arena = cache.arena /\ cache'.used = cache.used
      /\ cache'.ready = TRUE
  BY <1>1
<1>4. QED
  BY <1>2, <1>3 DEF CacheInv

\* Whatever a consumed frame does to the cache, accepted or refused.
LEMMA AddOrRefuse ==
  ASSUME CacheInv, NEW f \in BurstFrame, cache' = cache_add_frame(cache, f)
  PROVE  CacheInv' /\ cache'.ready = cache.ready
<1>1. CASE cache_fits(cache, f)
  BY <1>1, AddCache
<1>2. CASE ~ cache_fits(cache, f)
  BY <1>2 DEF cache_add_frame, CacheInv
<1>3. QED
  BY <1>1, <1>2

----------------------------------------------------------------------------
(* The core invariant *)

\* What the proxy hands to the UART driver keeps the nonces on the wire legal.
LEMMA TxLegal ==
  ASSUME LineType, NoncesLegal, NEW m \in UpMsg, m.from = "proxy" => m.n \notin {0, 1},
         uart_meshtastic_tx(m)
  PROVE  txq' \in Seq(UpMsg) /\ Len(txq') <= TxDepth /\ NoncesLegal'
<1>1. CASE txq' = txq
  BY <1>1, TxStep DEF NoncesLegal
<1>2. CASE txq' # txq
  <2>1. /\ txq' \in Seq(UpMsg) /\ Len(txq') = Len(txq) + 1
        /\ \A i \in 1 .. Len(txq) : txq'[i] = txq[i]
        /\ txq'[Len(txq) + 1] = m /\ Len(txq) \in Nat /\ txq \in Seq(UpMsg)
    BY <1>2, TxStep DEF LineType
  <2>2. ASSUME NEW i \in 1 .. Len(txq) + 1, txq'[i].from = "proxy"
        PROVE  txq'[i].n \notin {0, 1}
    BY <2>1, <2>2 DEF NoncesLegal
  <2>3. QED
    BY <2>1, <2>2, TxStep DEF NoncesLegal
<1>3. QED
  BY <1>1, <1>2

\* A message leaves the queue at its head.
LEMMA TxTail ==
  ASSUME LineType, txq # <<>>, txq' = Tail(txq)
  PROVE  /\ Head(txq) \in UpMsg /\ Head(txq) = txq[1] /\ Len(txq) >= 1
         /\ txq' \in Seq(UpMsg) /\ Len(txq') <= TxDepth /\ Len(txq') = Len(txq) - 1
         /\ \A i \in 1 .. Len(txq') : txq'[i] = txq[i + 1]
         /\ NoncesLegal => NoncesLegal'
<1>1. /\ txq \in Seq(UpMsg) /\ Len(txq) \in Nat /\ Len(txq) <= TxDepth /\ Len(txq) >= 1
      /\ Head(txq) = txq[1]
  BY DEF LineType
<1>2. /\ Head(txq) \in UpMsg /\ txq' \in Seq(UpMsg) /\ Len(txq') = Len(txq) - 1
      /\ \A i \in 1 .. Len(txq') : txq'[i] = txq[i + 1]
  BY <1>1, HeadTailProperties
<1>3. Len(txq') <= TxDepth
  BY <1>1, <1>2, Constants
<1>4. ASSUME NoncesLegal PROVE NoncesLegal'
  BY <1>1, <1>2, <1>4 DEF NoncesLegal
<1>5. QED
  BY <1>1, <1>2, <1>3, <1>4

\* A frame leaves the line at its head.
LEMMA DownTail ==
  ASSUME LineType, down # <<>>, down' = Tail(down)
  PROVE  /\ Head(down) \in DownFrame /\ Head(down) = down[1] /\ Len(down) >= 1
         /\ down' \in Seq(DownFrame) /\ Len(down') <= DownCap /\ Len(down') = Len(down) - 1
         /\ \A i \in 1 .. Len(down') : down'[i] = down[i + 1]
<1>1. /\ down \in Seq(DownFrame) /\ Len(down) \in Nat /\ Len(down) <= DownCap /\ Len(down) >= 1
      /\ Head(down) = down[1]
  BY DEF LineType
<1>2. /\ Head(down) \in DownFrame /\ down' \in Seq(DownFrame) /\ Len(down') = Len(down) - 1
      /\ \A i \in 1 .. Len(down') : down'[i] = down[i + 1]
  BY <1>1, HeadTailProperties
<1>3. QED
  BY <1>1, <1>2, Constants

\* A frame joins the line at its end.
LEMMA DownAppend ==
  ASSUME LineType, Len(down) < DownCap, NEW f \in DownFrame, down' = Append(down, f)
  PROVE  /\ down' \in Seq(DownFrame) /\ Len(down') <= DownCap /\ Len(down') = Len(down) + 1
         /\ \A i \in 1 .. Len(down) : down'[i] = down[i]
         /\ down'[Len(down) + 1] = f
<1>1. down \in Seq(DownFrame) /\ Len(down) \in Nat
  BY DEF LineType
<1>2. QED
  BY <1>1, AppendProperties, Constants

\* What the node puts on the line when it receives a message.
LEMMA ReplyOf ==
  ASSUME LineType, NodeReceive
  PROVE  \/ Head(txq).t = "heartbeat" /\ down' = Append(down, FromRadio("queueStatus", 1))
         \/ /\ Head(txq).t = "packet" /\ node = "open"
            /\ down' = Append(down, FromRadio("queueStatus", 0))
         \/ Head(txq).t # "heartbeat" /\ down' = down
<1> DEFINE m == Head(txq)
<1>1. down' = down \o NodeReply(m) /\ down \in Seq(DownFrame)
  BY DEF NodeReceive, LineType
<1>2. down \o <<>> = down
  BY <1>1, ConcatEmptySeq
<1>3. ASSUME NEW d \in {0, 1}
      PROVE  down \o <<FromRadio("queueStatus", d)>> = Append(down, FromRadio("queueStatus", d))
  <2>1. FromRadio("queueStatus", d) \in DownFrame
    BY Constants DEF FromRadio, DownFrame, BurstFrame, CachedVariant
  <2>2. QED
    BY <1>1, <2>1, AppendIsConcat
<1>4. \/ m.t = "heartbeat" /\ NodeReply(m) = <<FromRadio("queueStatus", 1)>>
      \/ m.t = "packet" /\ node = "open" /\ NodeReply(m) = <<FromRadio("queueStatus", 0)>>
      \/ m.t # "heartbeat" /\ NodeReply(m) = <<>>
  BY DEF NodeReply
<1>5. QED
  BY <1>1, <1>2, <1>3, <1>4

\* The last frame of the line is lost, or replaced by one that does not decode.
LEMMA DownLose ==
  ASSUME LineType, down # <<>>,
         down' \in {SubSeq(down, 1, Len(down) - 1),
                    Append(SubSeq(down, 1, Len(down) - 1), FromRadio("garbled", 0))}
  PROVE  /\ down' \in Seq(DownFrame) /\ Len(down') <= DownCap /\ Len(down) >= 1
         /\ Len(down') \in {Len(down) - 1, Len(down)}
         /\ \A i \in 1 .. Len(down) - 1 : down'[i] = down[i]
         /\ Len(down') = Len(down) => down'[Len(down)] = GarbledFrame
<1> DEFINE n == Len(down)
           rest == SubSeq(down, 1, n - 1)
<1>1. /\ down \in Seq(DownFrame) /\ n \in Nat /\ n <= DownCap /\ n >= 1
  BY DEF LineType
<1>2. \A i \in 1 .. n - 1 : down[i] \in DownFrame
  BY <1>1
<1>3. /\ rest \in Seq(DownFrame) /\ Len(rest) = n - 1
      /\ \A i \in 1 .. n - 1 : rest[i] = down[i]
  <2>1. /\ rest \in Seq(DownFrame) /\ Len(rest) = IF 1 <= n - 1 THEN (n - 1) - 1 + 1 ELSE 0
        /\ \A i \in 1 .. (n - 1) - 1 + 1 : rest[i] = down[1 + i - 1]
    BY <1>1, <1>2, SubSeqProperties
  <2> HIDE DEF n, rest
  <2>2. /\ (n - 1) - 1 + 1 = n - 1 /\ (IF 1 <= n - 1 THEN n - 1 ELSE 0) = n - 1
        /\ \A i \in 1 .. n - 1 : 1 + i - 1 = i
    BY <1>1
  <2>3. QED
    BY <2>1, <2>2
<1>4. FromRadio("garbled", 0) \in DownFrame
  BY DEF DownFrame, GarbledFrame
<1>5. CASE down' = rest
  BY <1>1, <1>3, <1>5, Constants
<1>6. CASE down' = Append(rest, FromRadio("garbled", 0))
  <2>1. /\ down' \in Seq(DownFrame) /\ Len(down') = (n - 1) + 1
        /\ \A i \in 1 .. n - 1 : down'[i] = rest[i]
        /\ down'[(n - 1) + 1] = FromRadio("garbled", 0)
    BY <1>3, <1>4, <1>6, AppendProperties
  <2>2. QED
    BY <1>1, <1>3, <2>1, Constants DEF GarbledFrame
<1>7. QED
  BY <1>5, <1>6

\* Static storage and a node that is doing anything NodeAtBoot allows.
LEMMA InitCore == Init => CoreInv
<1> SUFFICES ASSUME Init PROVE CoreInv
  OBVIOUS
<1> USE DEF Init, SessionInit
<1>a. 0 \in Nonce /\ 2 \in Nonce /\ 1 \in 1 .. BurstLen + 1 /\ 0 \in Nat
  BY Constants DEF Nonce
<1>b. <<>> \in Seq(UpMsg) /\ <<>> \in Seq(DownFrame) /\ Len(<<>>) = 0
  OBVIOUS
<1>1. SessionType
  BY <1>a DEF SessionType, UpstreamState
<1>2. LineType
  <2>1. txq \in Seq(UpMsg) /\ Len(txq) <= TxDepth /\ down \in Seq(DownFrame) /\ Len(down) <= DownCap
    BY <1>b, Constants
  <2>2. node \in {"closed", "burst", "open"}
    BY ProxyAssumption
  <2>3. QED
    BY <1>a, <2>1, <2>2 DEF LineType
<1>3. cache = EmptyCache /\ EmptyCache.ready = FALSE /\ EmptyCache.index = <<>>
  BY DEF EmptyCache
<1>4. CacheInv
  <2>1. [b \in 0 .. ArenaBytes - 1 |-> NoByte] \in [0 .. ArenaBytes - 1 -> OneByte]
    BY DEF OneByte
  <2>2. EmptyCache \in CacheRecord
    BY <2>1, Constants DEF EmptyCache, CacheRecord
  <2>3. QED
    BY <1>3, <2>2, Constants DEF CacheInv
<1>5. WatchdogCoversFetch /\ LiveHasCache /\ BootIsMain
  BY <1>3 DEF WatchdogCoversFetch, LiveHasCache, BootIsMain, Fetching
<1>6. NonceInv
  BY Constants DEF NonceInv, NoncesLegal
<1>7. QED
  BY <1>1, <1>2, <1>4, <1>5, <1>6 DEF CoreInv

\* The parts of CoreInv about the session.
SessionInv ==
  /\ SessionType /\ txq \in Seq(UpMsg) /\ Len(txq) <= TxDepth
  /\ WatchdogCoversFetch /\ LiveHasCache /\ NonceInv /\ CacheInv

\* upstream_refetch: out of LIVE only, and only when the transmit succeeds.
LEMMA RefetchKeeps ==
  ASSUME CoreInv, upstream_refetch, UNCHANGED main, liveness' \in BOOLEAN
  PROVE  /\ SessionInv'
         /\ s_state' = s_state \/ (s_state = "LIVE" /\ s_state' = "REFETCHING")
<1> USE DEF CoreInv
<1>1. CacheInv' /\ cache'.ready = cache.ready /\ cache' = cache
  BY DEF upstream_refetch, CacheInv
<1>2. CASE s_state # "LIVE"
  <2>1. UNCHANGED <<s_state, s_nonce, fetch_retry, txq, s_keepalive_armed, s_keepalive_nonce,
                    s_keepalive_pending>>
    BY <1>2 DEF upstream_refetch
  <2>2. QED
    BY <1>1, <2>1 DEF SessionInv, SessionType, LineType, WatchdogCoversFetch, Fetching,
                      LiveHasCache, NonceInv, NoncesLegal
<1>3. CASE s_state = "LIVE"
  <2>1. PICK r \in 0 .. NonceMax :
            /\ s_nonce' = LegalNonce(r)
            /\ send_want_config(LegalNonce(r))
            /\ s_state' = IF TxFull THEN s_state ELSE "REFETCHING"
            /\ fetch_retry' = (fetch_retry \/ ~ TxFull)
    BY <1>3 DEF upstream_refetch
  <2>2. s_nonce' \in Nonce /\ s_nonce' \notin {0, 1}
    BY <2>1, LegalNonceLegal DEF Nonce
  <2>3. ToRadio("want_config", s_nonce', "proxy") \in UpMsg
    BY <2>2 DEF ToRadio, UpMsg
  <2>4. txq' \in Seq(UpMsg) /\ Len(txq') <= TxDepth /\ NoncesLegal'
    BY <2>1, <2>2, <2>3, TxLegal DEF send_want_config, ToRadio, NonceInv
  <2>5. UNCHANGED <<s_keepalive_armed, s_keepalive_nonce, s_keepalive_pending>>
    BY DEF upstream_refetch
  <2>6. s_state' \in UpstreamState /\ fetch_retry' \in BOOLEAN /\ (Fetching' => fetch_retry')
        /\ (s_state' = s_state \/ s_state' = "REFETCHING")
    BY <1>3, <2>1 DEF SessionType, UpstreamState, WatchdogCoversFetch, Fetching
  <2>7. SessionType'
    BY <2>2, <2>5, <2>6 DEF SessionType
  <2>8. WatchdogCoversFetch' /\ LiveHasCache'
    BY <1>1, <1>3, <2>6 DEF WatchdogCoversFetch, LiveHasCache
  <2>9. NonceInv'
    BY <2>2, <2>4, <2>5 DEF NonceInv
  <2>10. QED
    BY <1>1, <1>3, <2>4, <2>6, <2>7, <2>8, <2>9 DEF SessionInv
<1>4. QED
  BY <1>2, <1>3

\* main(): the fetch begins one step before its watchdog is armed.
LEMMA MainCore ==
  ASSUME CoreInv, (\E r \in 0 .. NonceMax : MainStart(r)) \/ MainFetching \/ MainStarted
  PROVE  CoreInv'
<1> USE DEF CoreInv
<1>1. ASSUME NEW r \in 0 .. NonceMax, MainStart(r) PROVE CoreInv'
  <2> USE DEF MainStart, upstream_session_start_send
  <2>1. CacheInv' /\ cache'.ready = FALSE
    BY <1>1, BeginCache
  <2>2. s_nonce' \in Nonce /\ s_nonce' \notin {0, 1}
    BY <1>1, LegalNonceLegal DEF Nonce
  <2>3. ToRadio("want_config", s_nonce', "proxy") \in UpMsg
    BY <2>2 DEF ToRadio, UpMsg
  <2>4. txq' \in Seq(UpMsg) /\ Len(txq') <= TxDepth /\ NoncesLegal'
    BY <1>1, <2>2, <2>3, TxLegal DEF send_want_config, ToRadio, NonceInv
  <2>5. s_state = "BOOT" /\ s_state' = "BOOT" /\ main' = "starting"
    BY <1>1 DEF BootIsMain
  <2>6. SessionType' /\ LineType' /\ NonceInv'
    BY <1>1, <2>2, <2>4, <2>5 DEF SessionType, LineType, NonceInv
  <2>7. WatchdogCoversFetch' /\ LiveHasCache' /\ BootIsMain'
    BY <1>1, <2>1, <2>5 DEF WatchdogCoversFetch, Fetching, LiveHasCache, BootIsMain
  <2>8. QED
    BY <2>1, <2>6, <2>7
<1>2. CASE MainFetching
  <2> USE DEF MainFetching, upstream_session_start_fetching
  <2>1. CacheInv' /\ cache' = cache
    BY <1>2 DEF CacheInv
  <2>2. s_state = "BOOT" /\ s_state' = "FETCHING" /\ main' = "arming"
    BY <1>2 DEF BootIsMain
  <2>3. SessionType' /\ LineType' /\ NonceInv'
    BY <1>2, <2>2 DEF SessionType, LineType, NonceInv, UpstreamState, NoncesLegal
  <2>4. WatchdogCoversFetch' /\ LiveHasCache' /\ BootIsMain'
    BY <1>2, <2>1, <2>2 DEF WatchdogCoversFetch, LiveHasCache, BootIsMain
  <2>5. QED
    BY <2>1, <2>3, <2>4
<1>3. CASE MainStarted
  <2> USE DEF MainStarted, upstream_session_start_arm
  <2>1. CacheInv' /\ cache' = cache
    BY <1>3 DEF CacheInv
  <2>2. s_state' = s_state /\ main = "arming" /\ main' = "idle" /\ fetch_retry' = TRUE
    BY <1>3
  <2>3. SessionType' /\ LineType' /\ NonceInv'
    BY <1>3, <2>2 DEF SessionType, LineType, NonceInv, NoncesLegal
  <2>4. WatchdogCoversFetch' /\ LiveHasCache' /\ BootIsMain'
    BY <1>3, <2>1, <2>2 DEF WatchdogCoversFetch, LiveHasCache, BootIsMain
  <2>5. QED
    BY <2>1, <2>3, <2>4
<1>4. QED
  BY <1>1, <1>2, <1>3

\* The three timers.
LEMMA TimerCore ==
  ASSUME CoreInv, Keepalive \/ FetchRetry \/ Liveness
  PROVE  CoreInv'
<1> USE DEF CoreInv
<1>1. CASE Keepalive
  <2> USE DEF Keepalive, keepalive_work_handler
  <2>1. CacheInv' /\ cache' = cache
    BY <1>1 DEF CacheInv
  <2>2. s_keepalive_nonce \in Nonce /\ s_keepalive_nonce \notin {0, 1}
    BY DEF SessionType, NonceInv
  <2>3. (s_keepalive_nonce + 1) % (NonceMax + 1) \in Nonce
    BY <2>2, Constants DEF Nonce
  <2>4. s_keepalive_nonce' \in Nonce /\ s_keepalive_nonce' \notin {0, 1}
    BY <1>1, <2>3, LegalNonceLegal
  <2>5. proto_encode_heartbeat(s_keepalive_nonce) \in UpMsg
    BY <2>2 DEF proto_encode_heartbeat, ToRadio, UpMsg
  <2>6. txq' \in Seq(UpMsg) /\ Len(txq') <= TxDepth /\ NoncesLegal'
    BY <1>1, <2>2, <2>5, TxLegal DEF proto_encode_heartbeat, ToRadio, NonceInv
  <2>7. SessionType' /\ LineType' /\ NonceInv'
    BY <1>1, <2>4, <2>6 DEF SessionType, LineType, NonceInv
  <2>8. WatchdogCoversFetch' /\ LiveHasCache' /\ BootIsMain'
    BY <1>1, <2>1 DEF WatchdogCoversFetch, Fetching, LiveHasCache, BootIsMain
  <2>9. QED
    BY <2>1, <2>7, <2>8
<1>2. CASE FetchRetry
  <2> USE DEF FetchRetry, fetch_retry_handler, environment
  <2>1. main' = main /\ s_state' = s_state /\ (fetch_retry' <=> Fetching)
    BY <1>2
  <2>2. CacheInv' /\ cache'.ready = cache.ready
    <3>1. CASE s_state = "FETCHING"
      BY <1>2, <3>1, BeginCache DEF LiveHasCache, CacheInv, CacheRecord
    <3>2. CASE s_state # "FETCHING"
      BY <1>2, <3>2 DEF CacheInv
    <3>3. QED
      BY <3>1, <3>2
  <2>3. txq' \in Seq(UpMsg) /\ Len(txq') <= TxDepth /\ NoncesLegal'
    <3>1. CASE Fetching
      <4>1. s_nonce \in Nonce /\ s_nonce \notin {0, 1}
        BY <3>1 DEF SessionType, NonceInv, BootIsMain, Fetching
      <4>2. ToRadio("want_config", s_nonce, "proxy") \in UpMsg
        BY <4>1 DEF ToRadio, UpMsg
      <4>3. QED
        BY <1>2, <3>1, <4>1, <4>2, TxLegal DEF send_want_config, ToRadio, NonceInv
    <3>2. CASE ~ Fetching
      BY <1>2, <3>2 DEF LineType, NonceInv, NoncesLegal
    <3>3. QED
      BY <3>1, <3>2
  <2>4. SessionType' /\ LineType' /\ NonceInv'
    BY <1>2, <2>1, <2>3 DEF SessionType, LineType, NonceInv, Fetching
  <2>5. WatchdogCoversFetch' /\ LiveHasCache' /\ BootIsMain'
    BY <1>2, <2>1, <2>2 DEF WatchdogCoversFetch, Fetching, LiveHasCache, BootIsMain
  <2>6. QED
    BY <2>2, <2>4, <2>5
<1>3. CASE Liveness
  <2>1. /\ upstream_refetch /\ liveness' = FALSE /\ UNCHANGED environment
    BY <1>3 DEF Liveness, liveness_handler
  <2>2. UNCHANGED <<main, node, node_nonce, node_pos, down, closes, losses, stray>>
    BY <2>1 DEF environment
  <2>3. SessionInv' /\ (s_state' = s_state \/ (s_state = "LIVE" /\ s_state' = "REFETCHING"))
    BY <2>1, <2>2, RefetchKeeps
  <2>4. LineType' /\ BootIsMain'
    BY <2>2, <2>3 DEF SessionInv, LineType, BootIsMain
  <2>5. QED
    BY <2>3, <2>4 DEF SessionInv
<1>4. QED
  BY <1>1, <1>2, <1>3

\* The work queue handles the oldest frame of the line.
LEMMA DispatchCore == CoreInv /\ Dispatch => CoreInv'
<1> SUFFICES ASSUME CoreInv, Dispatch PROVE CoreInv'
  OBVIOUS
<1> USE DEF CoreInv
<1> DEFINE f == Head(down)
<1>1. /\ down # <<>> /\ router_dispatch(f) /\ down' = Tail(down)
      /\ UNCHANGED <<main, node, node_nonce, node_pos, closes, losses>>
  BY DEF Dispatch, MayDispatch
<1>2. /\ f \in DownFrame /\ down' \in Seq(DownFrame) /\ Len(down') <= DownCap
  BY <1>1, DownTail
<1>3. stray' \in BOOLEAN
  BY DEF Dispatch, Strays, LineType
<1>4. SessionInv' /\ ((s_state = "BOOT") <=> (s_state' = "BOOT"))
  <2>1. CASE UNCHANGED session
    BY <1>1, <2>1 DEF session, SessionInv, SessionType, LineType, WatchdogCoversFetch, Fetching,
                 LiveHasCache, NonceInv, NoncesLegal, CacheInv
  <2>2. CASE route(f) = "consumed" /\ upstream_on_fromradio(f)
    <3> USE DEF upstream_on_fromradio
    <3>1. Fetching /\ f.variant \notin {"packet", "garbled"}
      BY <1>2, <2>2, RouteOf
    <3>2. f \in BurstFrame
      BY <1>2, <3>1 DEF DownFrame, PacketFrame, GarbledFrame, FromRadio
    <3>3. NonceInv' /\ txq' \in Seq(UpMsg) /\ Len(txq') <= TxDepth
      BY <1>1, <2>2 DEF NonceInv, NoncesLegal, LineType
    <3>4. CASE CloseBurst
      <4>1. CacheInv' /\ cache'.ready = TRUE
        BY <3>1, <3>4, MarkReadyCache DEF CloseBurst, CacheInv, LiveHasCache, Fetching, CacheRecord
      <4>2. s_state' = "LIVE" /\ liveness' = TRUE /\ fetch_retry' = FALSE
        BY <3>4 DEF CloseBurst
      <4>3. SessionType'
        BY <2>2, <4>2 DEF SessionType, UpstreamState
      <4>4. QED
        BY <1>1, <3>1, <3>3, <4>1, <4>2, <4>3 DEF SessionInv, WatchdogCoversFetch, LiveHasCache,
                                                  Fetching
    <3>5. CASE ConsumeFrame(f)
      <4>1. CacheInv' /\ cache'.ready = cache.ready
        BY <3>2, <3>5, AddOrRefuse DEF ConsumeFrame, CacheInv
      <4>2. s_state' = s_state /\ liveness' = liveness /\ fetch_retry' = TRUE
        BY <3>5 DEF ConsumeFrame
      <4>3. SessionType'
        BY <2>2, <4>2 DEF SessionType, UpstreamState
      <4>4. QED
        BY <1>1, <3>1, <3>3, <4>1, <4>2, <4>3 DEF SessionInv, WatchdogCoversFetch, LiveHasCache,
                                                  Fetching
    <3>6. QED
      BY <2>2, <3>4, <3>5
  <2>3. CASE upstream_refetch /\ UNCHANGED liveness
    <3>1. liveness' \in BOOLEAN
      BY <2>3 DEF SessionType
    <3>2. QED
      BY <1>1, <2>3, <3>1, RefetchKeeps
  <2>4. CASE Swallow
    BY <1>1, <2>4 DEF Swallow, SessionInv, SessionType, LineType, WatchdogCoversFetch, Fetching,
                 LiveHasCache, NonceInv, NoncesLegal, CacheInv
  <2>5. CASE ToPhones
    <3>1. liveness' \in BOOLEAN
      BY <2>5 DEF ToPhones, upstream_liveness_kick, SessionType
    <3>2. QED
      BY <1>1, <2>5, <3>1 DEF ToPhones, SessionInv, SessionType, LineType, WatchdogCoversFetch,
                     Fetching, LiveHasCache, NonceInv, NoncesLegal, CacheInv
  <2>6. QED
    BY <1>1, <2>1, <2>2, <2>3, <2>4, <2>5 DEF router_dispatch
<1>5. LineType' /\ BootIsMain'
  BY <1>1, <1>2, <1>3, <1>4 DEF SessionInv, LineType, BootIsMain
<1>6. QED
  BY <1>4, <1>5 DEF SessionInv

\* A phone's write, and what the node and the line do.
LEMMA LineCore ==
  ASSUME CoreInv,
         \/ \E t \in PhoneWrites : on_toradio_ble(t)
         \/ NodeReceive \/ NodeBurst \/ NodePacket \/ NodeReboot \/ NodeTimeout
         \/ LoseUp \/ LoseDown
  PROVE  CoreInv'
<1> USE DEF CoreInv
<1>1. UNCHANGED <<s_state, s_nonce, s_keepalive_armed, s_keepalive_nonce,
                  s_keepalive_pending, fetch_retry, liveness, cache, main>>
  BY DEF on_toradio_ble, environment, NodeReceive, NodeBurst, NodePacket, NodeReboot,
         NodeTimeout, LoseUp, LoseDown, session
<1>2. /\ SessionType' /\ WatchdogCoversFetch' /\ LiveHasCache' /\ BootIsMain' /\ CacheInv'
      /\ NoncesLegal' => NonceInv'
  BY <1>1 DEF SessionType, WatchdogCoversFetch, Fetching, LiveHasCache, BootIsMain, CacheInv,
              NonceInv
<1>3. NoncesLegal /\ (txq' = txq => NoncesLegal')
  BY DEF NonceInv, NoncesLegal
<1> SUFFICES LineType' /\ NoncesLegal'
  BY <1>2
<1>4. ASSUME NEW t \in PhoneWrites, on_toradio_ble(t) PROVE LineType' /\ NoncesLegal'
  <2> DEFINE m == ToRadio(t, 0, "phone")
  <2>1. UNCHANGED environment /\ (IF forwards(m) THEN uart_meshtastic_tx(m) ELSE UNCHANGED txq)
    BY <1>4 DEF on_toradio_ble
  <2>2. txq' \in Seq(UpMsg) /\ Len(txq') <= TxDepth /\ NoncesLegal'
    <3>1. CASE forwards(m)
      <4>1. m \in UpMsg /\ m.from = "phone"
        BY <3>1, ForwardsOf, Constants DEF ToRadio, UpMsg, Nonce
      <4>2. QED
        BY <1>3, <2>1, <3>1, <4>1, TxLegal
    <3>2. CASE ~ forwards(m)
      BY <1>3, <2>1, <3>2 DEF LineType
    <3>3. QED
      BY <3>1, <3>2
  <2>3. QED
    BY <2>1, <2>2 DEF environment, LineType
<1>5. CASE NodeReceive
  <2> DEFINE m == Head(txq)
  <2>1. /\ m \in UpMsg /\ txq' \in Seq(UpMsg) /\ Len(txq') <= TxDepth /\ NoncesLegal'
    BY <1>3, <1>5, TxTail DEF NodeReceive
  <2>2. down' \in Seq(DownFrame) /\ Len(down') <= DownCap
    <3>1. CASE down' = down
      BY <3>1 DEF LineType
    <3>2. ASSUME NEW d \in {0, 1}, down' = Append(down, FromRadio("queueStatus", d))
          PROVE  down' \in Seq(DownFrame) /\ Len(down') <= DownCap
      <4>1. FromRadio("queueStatus", d) \in DownFrame
        BY Constants DEF FromRadio, DownFrame, BurstFrame, CachedVariant
      <4>2. QED
        BY <1>5, <3>2, <4>1, DownAppend DEF NodeReceive
    <3>3. QED
      BY <1>5, <3>1, <3>2, ReplyOf
  <2>3. node' \in {"closed", "burst", "open"} /\ node_nonce' \in Nonce /\ node_pos' \in 1 .. BurstLen + 1
    BY <1>5, <2>1, Constants DEF NodeReceive, LineType, UpMsg
  <2>4. UNCHANGED <<main, closes, losses, stray>>
    BY <1>5 DEF NodeReceive
  <2>5. QED
    BY <2>1, <2>2, <2>3, <2>4 DEF LineType
<1>6. CASE NodeBurst
  <2>1. txq' = txq /\ UNCHANGED <<main, node_nonce, closes, losses, stray>>
    BY <1>6 DEF NodeBurst, session
  <2>2. node_pos \in 1 .. BurstLen + 1 /\ node_nonce \in Nonce
    BY DEF LineType
  <2>3. CASE node_pos <= BurstLen
    <3>1. /\ down' = Append(down, FromRadio("config", node_pos)) /\ node_pos' = node_pos + 1
          /\ node' = node /\ Len(down) < DownCap
      BY <1>6, <2>3 DEF NodeBurst
    <3>2. FromRadio("config", node_pos) \in DownFrame
      <4>1. node_pos \in 0 .. BurstLen + NonceMax
        BY <2>2, <2>3, Constants
      <4>2. QED
        BY <4>1 DEF FromRadio, DownFrame, BurstFrame, CachedVariant
    <3>3. down' \in Seq(DownFrame) /\ Len(down') <= DownCap
      BY <3>1, <3>2, DownAppend
    <3>4. node_pos' \in 1 .. BurstLen + 1
      BY <2>2, <2>3, <3>1, Constants
    <3>5. QED
      BY <1>3, <2>1, <3>1, <3>3, <3>4 DEF LineType
  <2>4. CASE ~ (node_pos <= BurstLen)
    <3>1. /\ down' = Append(down, FromRadio("config_complete", node_nonce)) /\ node_pos' = 1
          /\ node' = "open" /\ Len(down) < DownCap
      BY <1>6, <2>4 DEF NodeBurst
    <3>2. FromRadio("config_complete", node_nonce) \in DownFrame
      <4>1. node_nonce \in 0 .. BurstLen + NonceMax
        BY <2>2, Constants DEF Nonce
      <4>2. QED
        BY <4>1 DEF FromRadio, DownFrame, BurstFrame, CachedVariant
    <3>3. down' \in Seq(DownFrame) /\ Len(down') <= DownCap
      BY <3>1, <3>2, DownAppend
    <3>4. QED
      BY <1>3, <2>1, <3>1, <3>3, Constants DEF LineType
  <2>5. QED
    BY <2>3, <2>4
<1>7. CASE NodePacket
  <2>1. PacketFrame \in DownFrame /\ txq' = txq
    BY <1>7 DEF DownFrame, NodePacket, session
  <2>2. down' \in Seq(DownFrame) /\ Len(down') <= DownCap
    BY <1>7, <2>1, DownAppend DEF NodePacket, PacketFrame
  <2>3. QED
    BY <1>3, <1>7, <2>1, <2>2 DEF NodePacket, LineType
<1>8. CASE NodeReboot
  <2>1. FromRadio("rebooted", 0) \in DownFrame /\ txq' = txq
    BY <1>8, Constants DEF FromRadio, DownFrame, BurstFrame, CachedVariant, NodeReboot, session
  <2>2. down' \in Seq(DownFrame) /\ Len(down') <= DownCap
    BY <1>8, <2>1, DownAppend DEF NodeReboot
  <2>3. 1 \in 1 .. BurstLen + 1 /\ closes + 1 \in Nat
    BY Constants DEF LineType
  <2>4. QED
    BY <1>3, <1>8, <2>1, <2>2, <2>3 DEF NodeReboot, LineType
<1>9. CASE NodeTimeout
  <2>1. closes + 1 \in Nat
    BY DEF LineType
  <2>2. QED
    BY <1>3, <1>9, <2>1 DEF NodeTimeout, LineType, session
<1>10. CASE LoseUp
  <2>1. txq' \in Seq(UpMsg) /\ Len(txq') <= TxDepth /\ NoncesLegal'
    BY <1>3, <1>10, TxTail DEF LoseUp
  <2>2. losses' \in Nat /\ stray' \in BOOLEAN
    BY <1>10 DEF LoseUp, Strays, LineType
  <2>3. QED
    BY <1>10, <2>1, <2>2 DEF LoseUp, LineType
<1>11. CASE LoseDown
  <2>1. down' \in Seq(DownFrame) /\ Len(down') <= DownCap
    BY <1>11, DownLose DEF LoseDown
  <2>2. losses' \in Nat /\ stray' \in BOOLEAN /\ txq' = txq
    BY <1>11 DEF LoseDown, Strays, LineType, session
  <2>3. QED
    BY <1>3, <1>11, <2>1, <2>2 DEF LoseDown, LineType
<1>12. QED
  BY <1>4, <1>5, <1>6, <1>7, <1>8, <1>9, <1>10, <1>11

\* Every step keeps the core invariant.
LEMMA NextCore == CoreInv /\ [Next]_vars => CoreInv'
<1> SUFFICES ASSUME CoreInv, [Next]_vars PROVE CoreInv'
  OBVIOUS
<1>1. CASE UNCHANGED vars
  BY <1>1 DEF vars, CoreInv, SessionType, LineType, WatchdogCoversFetch, Fetching, LiveHasCache,
              BootIsMain, NonceInv, NoncesLegal, CacheInv
<1>2. CASE Next
  BY <1>2, MainCore, TimerCore, DispatchCore, LineCore DEF Next
<1>3. QED
  BY <1>1, <1>2

\* The core invariant holds in every reachable state.
THEOREM CoreInvariant == Spec => []CoreInv
  BY InitCore, NextCore, PTL DEF Spec

\* Types of the session's state, of both directions of the line and of the node.
THEOREM ProxyTypes == Spec => []ProxyTypeOK
<1>1. ASSUME CoreInv PROVE ProxyTypeOK
  <2>1. /\ SessionType /\ LineType /\ cache \in CacheRecord /\ Len(cache.index) <= MaxFrames
    BY <1>1 DEF CoreInv, CacheInv
  <2>2. cache.ready \in BOOLEAN
    BY <2>1 DEF CacheRecord
  <2>a. \A i \in DOMAIN txq : txq[i] \in UpMsg
    BY <2>1 DEF LineType
  <2>3. \A i \in DOMAIN txq : txq[i].t \in {"want_config", "heartbeat", "packet", "malformed"}
    BY <2>a DEF UpMsg
  <2>4. QED
    BY <2>1, <2>2, <2>3 DEF ProxyTypeOK, SessionType, LineType
<1>2. CoreInv => ProxyTypeOK
  BY <1>1
<1>3. QED
  BY <1>2, CoreInvariant, PTL

\* A fetch under way is watched, however the work queue and the boot thread
\* interleave; only the boot thread, between its last two statements, is ahead
\* of the watchdog.
THEOREM FetchIsWatched == Spec => []WatchdogCoversFetch
<1>1. CoreInv => WatchdogCoversFetch
  BY DEF CoreInv
<1>2. QED
  BY <1>1, CoreInvariant, PTL

\* The cache is published exactly from the end of the boot fetch on.
THEOREM LiveIsPublished == Spec => []LiveHasCache
<1>1. CoreInv => LiveHasCache
  BY DEF CoreInv
<1>2. QED
  BY <1>1, CoreInvariant, PTL

\* Nonces 0 and 1 are never sent, whatever is drawn and however the counter wraps.
THEOREM SentNoncesLegal == Spec => []NoncesLegal
<1>1. CoreInv => NoncesLegal
  BY DEF CoreInv, NonceInv
<1>2. QED
  BY <1>1, CoreInvariant, PTL

----------------------------------------------------------------------------
(* Action properties *)

\* A step outside LIVE, after the first want_config, leaves the nonce alone.
THEOREM NonceOfFetchKept == Spec => FetchNonceKept
<1>1. ASSUME CoreInv, [Next]_vars
      PROVE  [main # "boot" /\ s_state # "LIVE" => s_nonce' = s_nonce]_vars
  <2> SUFFICES ASSUME Next, main # "boot", s_state # "LIVE" PROVE s_nonce' = s_nonce
    BY <1>1 DEF vars
  <2>1. CASE \E r \in 0 .. NonceMax : MainStart(r)
    BY <2>1 DEF MainStart
  <2>2. CASE MainFetching \/ MainStarted \/ Keepalive \/ FetchRetry
    BY <2>2 DEF MainFetching, upstream_session_start_fetching, MainStarted,
                upstream_session_start_arm, Keepalive, keepalive_work_handler,
                FetchRetry, fetch_retry_handler
  <2>3. CASE Liveness
    BY <2>3 DEF Liveness, liveness_handler, upstream_refetch
  <2>4. CASE Dispatch
    BY <2>4 DEF Dispatch, router_dispatch, upstream_on_fromradio, upstream_refetch, Swallow,
                ToPhones, session
  <2>5. CASE \E t \in PhoneWrites : on_toradio_ble(t)
    BY <2>5 DEF on_toradio_ble
  <2>6. CASE NodeReceive \/ NodeBurst \/ NodePacket \/ NodeReboot \/ NodeTimeout \/ LoseUp \/ LoseDown
    BY <2>6 DEF NodeReceive, NodeBurst, NodePacket, NodeReboot, NodeTimeout, LoseUp, LoseDown, session
  <2>7. QED
    BY <2>1, <2>2, <2>3, <2>4, <2>5, <2>6 DEF Next
<1>2. QED
  BY <1>1, CoreInvariant, PTL DEF Spec, FetchNonceKept

\* What a step does to the queue and the node's session at the same time.
THEOREM PhonesCannotDisturb == Spec => NodeSessionUndisturbed
<1> DEFINE A == node = "open" /\ node' # "open" /\ txq' # txq
                  => Head(txq).t = "want_config" /\ Head(txq).from = "proxy"
<1>1. ASSUME CoreInv, [Next]_vars PROVE [A]_vars
  <2> SUFFICES ASSUME Next, node = "open", node' # "open", txq' # txq
               PROVE  Head(txq).t = "want_config" /\ Head(txq).from = "proxy"
    BY <1>1 DEF vars
  <2>1. NodeReceive
    BY DEF Next, MainStart, MainFetching, MainStarted, Keepalive, FetchRetry, Liveness, Dispatch,
           on_toradio_ble, environment, NodeBurst, NodePacket, NodeReboot, NodeTimeout,
           LoseUp, LoseDown, session
  <2>2. Head(txq) \in UpMsg
    BY <1>1, <2>1, HeadTailProperties DEF CoreInv, LineType, NodeReceive
  <2>3. Head(txq).t \in {"want_config", "disconnect"}
    BY <2>1 DEF NodeReceive
  <2>4. QED
    BY <2>2, <2>3 DEF UpMsg
<1>2. QED
  BY <1>1, CoreInvariant, PTL DEF Spec, NodeSessionUndisturbed

----------------------------------------------------------------------------
(* The session drives the cache as CacheStore allows *)

\* The frames of the index, as a sequence.
StoredIs ==
  /\ StoredFrames \in Seq(BurstFrame) /\ Len(StoredFrames) = Len(cache.index)
  /\ \A i \in 1 .. Len(cache.index) :
       StoredFrames[i] = [variant |-> cache.index[i].variant,
                          data |-> cache.arena[cache.index[i].offset][1],
                          len |-> cache.index[i].len]

\* The stored burst is a sequence of the frames that the index refers to.
LEMMA StoredType == CacheInv => StoredIs
<1> SUFFICES ASSUME CacheInv PROVE StoredIs
  OBVIOUS
<1> DEFINE n == Len(cache.index)
           frame(i) == [variant |-> cache.index[i].variant,
                        data |-> cache.arena[cache.index[i].offset][1],
                        len |-> cache.index[i].len]
<1>1. cache.index \in Seq(OneRef) /\ n \in Nat /\ DOMAIN cache.index = 1 .. n
  BY DEF CacheInv, CacheRecord
<1>2. StoredFrames = [i \in 1 .. n |-> frame(i)]
  BY <1>1 DEF StoredFrames
<1>3. ASSUME NEW i \in 1 .. n PROVE frame(i) \in BurstFrame
  <2>1. cache.index[i] \in OneRef
    BY <1>1
  <2>2. cache.arena[cache.index[i].offset] \in (0 .. BurstLen + NonceMax) \X {0}
    BY DEF CacheInv
  <2>3. QED
    BY <2>1, <2>2 DEF OneRef, BurstFrame
<1> HIDE DEF frame, n
<1>4. StoredFrames \in Seq(BurstFrame) /\ Len(StoredFrames) = n /\ \A i \in 1 .. n : StoredFrames[i] = frame(i)
  BY <1>1, <1>2, <1>3
<1>5. QED
  BY <1>4 DEF StoredIs, frame, n

\* The same after a step.
LEMMA StoredTypeNext == CacheInv' => StoredIs'
  BY StoredType, PTL

\* cache_begin empties the burst.
LEMMA StoredBegin ==
  ASSUME CacheInv, cache' = cache_begin(cache)
  PROVE  StoredFrames' = <<>>
<1>1. CacheInv' /\ cache'.index = <<>>
  BY BeginCache
<1>2. StoredFrames' \in Seq(BurstFrame) /\ Len(StoredFrames') = 0
  BY <1>1, StoredTypeNext DEF StoredIs
<1>3. QED
  BY <1>2, EmptySeq

\* cache_mark_ready leaves it alone.
LEMMA StoredMark ==
  ASSUME CacheInv, cache' = cache_mark_ready(cache)
  PROVE  StoredFrames' = StoredFrames
<1>1. cache'.index = cache.index /\ cache'.arena = cache.arena
  BY MarkReadyCache
<1>2. QED
  BY <1>1 DEF StoredFrames

\* An accepted frame is the new last one.
LEMMA StoredAdd ==
  ASSUME CacheInv, NEW f \in BurstFrame, cache_fits(cache, f),
         cache' = cache_add_frame(cache, f)
  PROVE  StoredFrames' = Append(StoredFrames, f)
<1> DEFINE n == Len(cache.index)
<1>1. /\ CacheInv' /\ Len(cache'.index) = n + 1
      /\ cache'.index[n + 1] = NewRef(cache, f)
      /\ cache'.arena[cache.used] = <<f.data, 0>>
      /\ \A i \in 1 .. n :
              /\ cache'.index[i] = cache.index[i]
              /\ cache'.arena[cache.index[i].offset] = cache.arena[cache.index[i].offset]
  BY AddCache
<1>2. /\ n \in Nat /\ StoredIs /\ StoredIs'
  <2>1. cache \in CacheRecord
    BY DEF CacheInv
  <2>2. cache.index \in Seq(OneRef)
    BY <2>1 DEF CacheRecord
  <2>3. n \in Nat
    BY <2>2
  <2>4. StoredIs
    BY StoredType
  <2>5. StoredIs'
    BY <1>1, StoredTypeNext
  <2>6. QED
    BY <2>3, <2>4, <2>5
<1>3. /\ Append(StoredFrames, f) \in Seq(BurstFrame) /\ Len(Append(StoredFrames, f)) = n + 1
      /\ \A i \in 1 .. n : Append(StoredFrames, f)[i] = StoredFrames[i]
      /\ Append(StoredFrames, f)[n + 1] = f
  <2> DEFINE s == StoredFrames
  <2>1. s \in Seq(BurstFrame) /\ Len(s) = n
    BY <1>2 DEF StoredIs
  <2> HIDE DEF s
  <2>2. /\ Append(s, f) \in Seq(BurstFrame) /\ Len(Append(s, f)) = Len(s) + 1
        /\ \A i \in 1 .. Len(s) : Append(s, f)[i] = s[i]
        /\ Append(s, f)[Len(s) + 1] = f
    BY <2>1
  <2>3. /\ Append(s, f) \in Seq(BurstFrame) /\ Len(Append(s, f)) = n + 1
        /\ \A i \in 1 .. n : Append(s, f)[i] = s[i]
        /\ Append(s, f)[n + 1] = f
    BY <2>1, <2>2, Zenon
  <2>4. QED
    BY <2>3 DEF s
<1>4. StoredFrames' \in Seq(BurstFrame) /\ Len(StoredFrames') = n + 1
  BY <1>1, <1>2 DEF StoredIs
<1>a. \A i \in 1 .. n + 1 :
        StoredFrames'[i] = [variant |-> cache'.index[i].variant,
                            data |-> cache'.arena[cache'.index[i].offset][1],
                            len |-> cache'.index[i].len]
  BY <1>1, <1>2 DEF StoredIs
<1>5. ASSUME NEW i \in 1 .. n PROVE StoredFrames'[i] = StoredFrames[i]
  <2>1. StoredFrames[i] = [variant |-> cache.index[i].variant,
                           data |-> cache.arena[cache.index[i].offset][1],
                           len |-> cache.index[i].len]
    BY <1>2 DEF StoredIs
  <2>2. i \in 1 .. n + 1
    BY <1>2
  <2>3. StoredFrames'[i] = [variant |-> cache'.index[i].variant,
                            data |-> cache'.arena[cache'.index[i].offset][1],
                            len |-> cache'.index[i].len]
    BY <1>a, <2>2
  <2>4. /\ cache'.index[i] = cache.index[i]
        /\ cache'.arena[cache.index[i].offset] = cache.arena[cache.index[i].offset]
    BY <1>1
  <2>5. QED
    BY <2>1, <2>3, <2>4
<1>6. StoredFrames'[n + 1] = f
  <2>a. n + 1 \in 1 .. n + 1
    BY <1>2
  <2>b. NewRef(cache, f).offset = cache.used /\ NewRef(cache, f).len = f.len
        /\ NewRef(cache, f).variant = f.variant /\ <<f.data, 0>>[1] = f.data
    BY DEF NewRef
  <2>c. StoredFrames'[n + 1] = [variant |-> cache'.index[n + 1].variant,
                                data |-> cache'.arena[cache'.index[n + 1].offset][1],
                                len |-> cache'.index[n + 1].len]
    BY <1>a, <2>a
  <2>d. cache'.index[n + 1] = NewRef(cache, f) /\ cache'.arena[cache.used] = <<f.data, 0>>
    BY <1>1
  <2>1. StoredFrames'[n + 1] = [variant |-> f.variant, data |-> f.data, len |-> f.len]
    BY <2>b, <2>c, <2>d
  <2>2. QED
    BY <2>1 DEF BurstFrame
<1> HIDE DEF n
<1>7. \A i \in 1 .. n + 1 : StoredFrames'[i] = Append(StoredFrames, f)[i]
  BY <1>2, <1>3, <1>5, <1>6
<1>8. QED
  BY <1>3, <1>4, <1>7, SeqEqual

\* The store's operations are the cache's.
LEMMA StoreOps ==
  /\ Store!EmptyCache = EmptyCache
  /\ Store!cache_begin(cache) = cache_begin(cache)
  /\ Store!cache_mark_ready(cache) = cache_mark_ready(cache)
  /\ \A f \in BurstFrame : /\ Store!cache_add_frame(cache, f) = cache_add_frame(cache, f)
                           /\ Store!cache_fits(cache, f) = cache_fits(cache, f)
  /\ Store!Frame = BurstFrame
<1>1. 1 .. 1 = {1}
  OBVIOUS
<1>2. Store!Frame = BurstFrame
  BY <1>1 DEF Store!Frame, BurstFrame, CachedVariant
<1>3. QED
  BY <1>2 DEF Store!EmptyCache, EmptyCache, Store!NoByte, NoByte, Store!cache_begin, cache_begin,
         Store!cache_mark_ready, cache_mark_ready, Store!cache_add_frame, cache_add_frame,
         Store!cache_fits, cache_fits, Store!cache_frame_count, cache_frame_count,
         Store!ArenaWrite, ArenaWrite

\* Every step that changes the cache is a step of CacheStore.
LEMMA CacheStep ==
  ASSUME CoreInv, Next, cache' # cache
  PROVE  Store!Next
<1> USE DEF CoreInv
<1>1. ASSUME ~ cache.ready, cache' = cache_begin(cache) PROVE Store!Next
  BY <1>1, StoreOps, StoredBegin DEF Store!Next, Store!Begin
<1>2. ASSUME ~ cache.ready, cache' = cache_mark_ready(cache) PROVE Store!Next
  BY <1>2, StoreOps, StoredMark DEF Store!Next, Store!MarkReady
<1>3. ASSUME NEW f \in BurstFrame, cache.ready => f.variant = "config_complete",
             cache' = cache_add_frame(cache, f)
      PROVE  Store!Next
  <2>1. cache_fits(cache, f)
    BY <1>3 DEF cache_add_frame
  <2>2. Store!Add(f)
    BY <1>3, <2>1, StoreOps, StoredAdd DEF Store!Add
  <2>3. QED
    BY <2>2, StoreOps DEF Store!Next
<1>4. CASE \E r \in 0 .. NonceMax : MainStart(r)
  BY <1>1, <1>4 DEF MainStart, upstream_session_start_send, BootIsMain, LiveHasCache
<1>5. CASE FetchRetry
  BY <1>1, <1>5 DEF FetchRetry, fetch_retry_handler, LiveHasCache
<1>6. CASE Dispatch
  <2> DEFINE f == Head(down)
  <2>1. f \in DownFrame /\ router_dispatch(f)
    BY <1>6, DownTail DEF Dispatch, MayDispatch
  <2>2. route(f) = "consumed" /\ upstream_on_fromradio(f)
    BY <2>1 DEF router_dispatch, upstream_refetch, Swallow, ToPhones, session
  <2>3. Fetching /\ f.variant \notin {"packet", "garbled"}
    BY <2>1, <2>2, RouteOf
  <2>4. f \in BurstFrame
    BY <2>1, <2>3 DEF DownFrame, PacketFrame, GarbledFrame, FromRadio
  <2>5. CASE CloseBurst
    BY <1>2, <2>5 DEF CloseBurst, LiveHasCache
  <2>6. CASE ConsumeFrame(f)
    BY <1>3, <2>4, <2>6 DEF ConsumeFrame, LiveHasCache
  <2>7. QED
    BY <2>2, <2>5, <2>6 DEF upstream_on_fromradio
<1>7. CASE MainFetching \/ MainStarted \/ Keepalive \/ Liveness
  BY <1>7 DEF MainFetching, upstream_session_start_fetching, MainStarted,
              upstream_session_start_arm, Keepalive, keepalive_work_handler,
              Liveness, liveness_handler, upstream_refetch
<1>8. CASE \E t \in PhoneWrites : on_toradio_ble(t)
  BY <1>8 DEF on_toradio_ble
<1>9. CASE NodeReceive \/ NodeBurst \/ NodePacket \/ NodeReboot \/ NodeTimeout \/ LoseUp \/ LoseDown
  BY <1>9 DEF NodeReceive, NodeBurst, NodePacket, NodeReboot, NodeTimeout, LoseUp, LoseDown, session
<1>10. QED
  BY <1>4, <1>5, <1>6, <1>7, <1>8, <1>9 DEF Next

\* The session's cache implements the abstract store.
THEOREM SessionImplementsStore == Spec => CacheImplementsStore
<1>1. Init => Store!Init
  <2> SUFFICES ASSUME Init PROVE Store!Init
    OBVIOUS
  <2>1. cache = EmptyCache /\ cache.index = <<>>
    BY DEF Init, SessionInit, EmptyCache
  <2>2. StoredFrames = <<>>
    <3>1. StoredFrames \in Seq(BurstFrame) /\ Len(StoredFrames) = 0
      BY <2>1, InitCore, StoredType DEF CoreInv, StoredIs
    <3>2. QED
      BY <3>1, EmptySeq
  <2>3. QED
    BY <2>1, <2>2, StoreOps DEF Store!Init
<1>2. CoreInv /\ [Next]_vars => [cache' # cache => Store!Next]_cache
  BY CacheStep DEF vars
<1>3. QED
  BY <1>1, <1>2, CoreInvariant, PTL DEF Spec, CacheImplementsStore
=============================================================================

-------------------------- MODULE ProxyLineProofs --------------------------
(***************************************************************************)
(* Proofs about what is on its way between the proxy and the node. Each    *)
(* rests on an inductive invariant over every message in txq and every     *)
(* frame in down, and on the timing assumptions that its property needs:   *)
(* KeepaliveInv for the heartbeats and their replies, BurstInv for config  *)
(* bursts outside a fetch, WholeInv for the contents of the published      *)
(* cache.                                                                  *)
(***************************************************************************)
EXTENDS ProxyProofs

----------------------------------------------------------------------------
(* How a step changes the two directions of the line *)

\* A message joins the transmit queue, or its head leaves it.
TxAdd(m) == /\ Len(txq') = Len(txq) + 1
            /\ \A i \in 1 .. Len(txq) : txq'[i] = txq[i]
            /\ txq'[Len(txq) + 1] = m

TxGone == /\ Len(txq) >= 1 /\ Len(txq') = Len(txq) - 1
          /\ \A i \in 1 .. Len(txq) - 1 : txq'[i] = txq[i + 1]

\* A frame joins the line, or its head is dispatched.
DownAdd(f) == /\ Len(down') = Len(down) + 1
              /\ \A i \in 1 .. Len(down) : down'[i] = down[i]
              /\ down'[Len(down) + 1] = f

DownGone == /\ Len(down) >= 1 /\ Len(down') = Len(down) - 1
            /\ \A i \in 1 .. Len(down) - 1 : down'[i] = down[i + 1]

\* The newest frame is lost, or garbled in place.
DownLost == /\ Len(down) >= 1 /\ Len(down') \in {Len(down) - 1, Len(down)}
            /\ \A i \in 1 .. Len(down) - 1 : down'[i] = down[i]
            /\ Len(down') = Len(down) => down'[Len(down)] = GarbledFrame

\* Lengths are numbers.
LEMMA Lengths == CoreInv => Len(txq) \in Nat /\ Len(down) \in Nat
  BY DEF CoreInv, LineType

\* uart_meshtastic_tx: a message is queued, or refused by a full queue.
LEMMA SendEffect ==
  ASSUME CoreInv, NEW m \in UpMsg, uart_meshtastic_tx(m)
  PROVE  IF TxFull THEN txq' = txq ELSE TxAdd(m)
<1>1. CASE TxFull
  BY <1>1 DEF uart_meshtastic_tx
<1>2. CASE ~ TxFull
  BY <1>2, AppendProperties DEF uart_meshtastic_tx, CoreInv, LineType, TxAdd
<1>3. QED
  BY <1>1, <1>2

\* The same for a want_config.
LEMMA AskEffect ==
  ASSUME CoreInv, NEW n \in Nonce, send_want_config(n)
  PROVE  /\ txq' = txq \/ TxAdd(ToRadio("want_config", n, "proxy"))
         /\ TxFull => txq' = txq
<1>1. ToRadio("want_config", n, "proxy") \in UpMsg
  BY DEF ToRadio, UpMsg
<1>2. QED
  BY <1>1, SendEffect DEF send_want_config

\* A refetch asks for the config out of LIVE, and leaves LIVE only if it could.
LEMMA RefetchEffect ==
  ASSUME CoreInv, upstream_refetch
  PROVE  \/ txq' = txq /\ s_state' = s_state
         \/ /\ s_state = "LIVE" /\ s_state' = "REFETCHING"
            /\ \E n \in Nonce : TxAdd(ToRadio("want_config", n, "proxy"))
<1>1. CASE s_state # "LIVE"
  BY <1>1 DEF upstream_refetch
<1>2. CASE s_state = "LIVE"
  <2>1. PICK r \in 0 .. NonceMax : /\ send_want_config(LegalNonce(r))
                                   /\ s_state' = IF TxFull THEN s_state ELSE "REFETCHING"
    BY <1>2 DEF upstream_refetch
  <2>2. LegalNonce(r) \in Nonce
    BY LegalNonceLegal DEF Nonce
  <2>3. ToRadio("want_config", LegalNonce(r), "proxy") \in UpMsg
    BY <2>2 DEF ToRadio, UpMsg
  <2>4. IF TxFull THEN txq' = txq ELSE TxAdd(ToRadio("want_config", LegalNonce(r), "proxy"))
    BY <2>1, <2>3, SendEffect DEF send_want_config
  <2>5. QED
    BY <1>2, <2>1, <2>2, <2>4
<1>3. QED
  BY <1>1, <1>2

\* A phone's write adds nothing that is the proxy's own.
LEMMA PhoneEffect ==
  ASSUME CoreInv, NEW t \in PhoneWrites, on_toradio_ble(t)
  PROVE  txq' = txq \/ \E m \in UpMsg : m.t \in {"packet", "malformed"} /\ TxAdd(m)
<1> DEFINE m == ToRadio(t, 0, "phone")
<1>1. CASE forwards(m)
  <2>1. m \in UpMsg /\ m.t \in {"packet", "malformed"}
    BY <1>1, ForwardsOf, Constants DEF ToRadio, UpMsg, Nonce
  <2>2. uart_meshtastic_tx(m)
    BY <1>1 DEF on_toradio_ble
  <2>3. QED
    BY <2>1, <2>2, SendEffect
<1>2. CASE ~ forwards(m)
  BY <1>2 DEF on_toradio_ble
<1>3. QED
  BY <1>1, <1>2

\* The oldest message leaves the queue.
LEMMA TxGoneEffect ==
  ASSUME CoreInv, txq # <<>>, txq' = Tail(txq)
  PROVE  TxGone /\ Head(txq) = txq[1] /\ Head(txq) \in UpMsg
<1>1. /\ Head(txq) = txq[1] /\ Len(txq) >= 1 /\ Len(txq') = Len(txq) - 1 /\ Head(txq) \in UpMsg
      /\ \A i \in 1 .. Len(txq') : txq'[i] = txq[i + 1]
  BY TxTail DEF CoreInv
<1>2. QED
  BY <1>1 DEF TxGone

\* rx_work takes the oldest frame of the line through the router.
LEMMA DispatchEffect ==
  ASSUME CoreInv, Dispatch
  PROVE  /\ DownGone /\ Head(down) = down[1] /\ Head(down) \in DownFrame
         /\ router_dispatch(Head(down)) /\ MayDispatch
<1>1. down # <<>> /\ down' = Tail(down) /\ router_dispatch(Head(down)) /\ MayDispatch
  BY DEF Dispatch, MayDispatch
<1>2. /\ Head(down) = down[1] /\ Len(down) >= 1 /\ Len(down') = Len(down) - 1
      /\ Head(down) \in DownFrame
      /\ \A i \in 1 .. Len(down') : down'[i] = down[i + 1]
  BY <1>1, DownTail DEF CoreInv
<1>3. QED
  BY <1>1, <1>2 DEF DownGone

\* The node takes a message and answers it with at most one frame: a queueStatus to a
\* heartbeat, and to a packet when its session is open.
LEMMA ReceiveEffect ==
  ASSUME CoreInv, NodeReceive
  PROVE  /\ TxGone /\ Head(txq) = txq[1] /\ Head(txq) \in UpMsg
         /\ \/ Head(txq).t = "heartbeat" /\ DownAdd(FromRadio("queueStatus", 1))
            \/ /\ Head(txq).t = "packet" /\ node = "open"
               /\ DownAdd(FromRadio("queueStatus", 0))
            \/ Head(txq).t # "heartbeat" /\ down' = down
<1>1. TxGone /\ Head(txq) = txq[1] /\ Head(txq) \in UpMsg
  BY TxGoneEffect DEF NodeReceive
<1>2. ASSUME NEW d \in {0, 1}, down' = Append(down, FromRadio("queueStatus", d))
      PROVE  DownAdd(FromRadio("queueStatus", d))
  <2>1. FromRadio("queueStatus", d) \in DownFrame
    BY Constants DEF FromRadio, DownFrame, BurstFrame, CachedVariant
  <2>2. QED
    BY <1>2, <2>1, AppendProperties DEF DownAdd, CoreInv, LineType
<1>3. QED
  BY <1>1, <1>2, ReplyOf DEF CoreInv

\* A frame joins the line.
LEMMA AppendEffect ==
  ASSUME CoreInv, NEW f \in DownFrame, down' = Append(down, f)
  PROVE  DownAdd(f)
  BY AppendProperties DEF DownAdd, CoreInv, LineType

\* What the node sends by itself: the next frame of its burst, a packet, a reboot notice.
LEMMA NodeEffect ==
  ASSUME CoreInv
  PROVE  /\ NodeBurst => \/ node_pos <= BurstLen /\ DownAdd(FromRadio("config", node_pos))
                         \/ /\ node_pos = BurstLen + 1
                            /\ DownAdd(FromRadio("config_complete", node_nonce))
         /\ NodePacket => DownAdd(PacketFrame)
         /\ NodeReboot => DownAdd(FromRadio("rebooted", 0))
<1>0. node_pos \in 1 .. BurstLen + 1 /\ node_nonce \in Nonce
  BY DEF CoreInv, LineType
<1>1. ASSUME NodeBurst
      PROVE  \/ node_pos <= BurstLen /\ DownAdd(FromRadio("config", node_pos))
             \/ node_pos = BurstLen + 1 /\ DownAdd(FromRadio("config_complete", node_nonce))
  <2>1. CASE node_pos <= BurstLen
    <3>1. node_pos \in 0 .. BurstLen + NonceMax
      BY <1>0, <2>1, Constants
    <3>2. FromRadio("config", node_pos) \in DownFrame
      BY <3>1 DEF FromRadio, DownFrame, BurstFrame, CachedVariant
    <3>3. QED
      BY <1>1, <2>1, <3>2, AppendEffect DEF NodeBurst
  <2>2. CASE ~ (node_pos <= BurstLen)
    <3>1. node_nonce \in 0 .. BurstLen + NonceMax /\ node_pos = BurstLen + 1
      BY <1>0, <2>2, Constants DEF Nonce
    <3>2. FromRadio("config_complete", node_nonce) \in DownFrame
      BY <3>1 DEF FromRadio, DownFrame, BurstFrame, CachedVariant
    <3>3. QED
      BY <1>1, <2>2, <3>1, <3>2, AppendEffect DEF NodeBurst
  <2>3. QED
    BY <2>1, <2>2
<1>2. PacketFrame \in DownFrame /\ FromRadio("rebooted", 0) \in DownFrame
  BY Constants DEF FromRadio, DownFrame, BurstFrame, CachedVariant
<1>3. QED
  BY <1>1, <1>2, AppendEffect DEF NodePacket, NodeReboot, PacketFrame

\* A lost message leaves the queue, a lost frame the end of the line.
LEMMA LossEffect ==
  ASSUME CoreInv
  PROVE  /\ LoseUp => TxGone /\ Head(txq) = txq[1]
         /\ LoseDown => DownLost
  BY TxGoneEffect, DownLose DEF CoreInv, LoseUp, LoseDown, DownLost

----------------------------------------------------------------------------
(* Keepalives *)

\* A heartbeat or the node's reply to one is on its way.
Outstanding ==
  \/ \E i \in 1 .. Len(txq) : txq[i].t = "heartbeat"
  \/ \E i \in 1 .. Len(down) : IsOwnReply(down[i])

\* A heartbeat on its way is the oldest message, its reply is the first queueStatus on the
\* line, both only while a reply is to be swallowed, and a reply to be swallowed is on its way
\* unless it was lost.
KeepaliveInv ==
  /\ \A i \in 1 .. Len(txq) : txq[i].t = "heartbeat" =>
       /\ i = 1 /\ s_keepalive_pending /\ ~ stray
       /\ \A j \in 1 .. Len(down) : down[j].variant # "queueStatus"
  /\ \A i \in 1 .. Len(down) : IsOwnReply(down[i]) =>
       /\ s_keepalive_pending /\ ~ stray
       /\ \A j \in 1 .. i - 1 : down[j].variant # "queueStatus"
  /\ s_keepalive_pending /\ ~ stray => Outstanding

\* A message that is no heartbeat joins the queue, or none does.
LEMMA KeepaliveSend ==
  ASSUME CoreInv, KeepaliveInv, UNCHANGED <<down, s_keepalive_pending, stray>>,
         txq' = txq \/ \E m \in UpMsg : m.t # "heartbeat" /\ TxAdd(m)
  PROVE  KeepaliveInv'
<1>1. Len(txq) \in Nat /\ Len(down) \in Nat
  BY Lengths
<1>2. CASE txq' = txq
  BY <1>2 DEF KeepaliveInv, Outstanding, IsOwnReply
<1>3. ASSUME NEW m \in UpMsg, m.t # "heartbeat", TxAdd(m) PROVE KeepaliveInv'
  <2>1. \A i \in 1 .. Len(txq') : txq'[i].t = "heartbeat" => i \in 1 .. Len(txq) /\ txq[i].t = "heartbeat"
    BY <1>1, <1>3 DEF TxAdd
  <2>2. \A i \in 1 .. Len(txq) : txq[i].t = "heartbeat" => i \in 1 .. Len(txq') /\ txq'[i].t = "heartbeat"
    BY <1>1, <1>3 DEF TxAdd
  <2>3. QED
    BY <2>1, <2>2 DEF KeepaliveInv, Outstanding, IsOwnReply
<1>4. QED
  BY <1>2, <1>3

\* A frame that is no queueStatus joins the line.
LEMMA KeepaliveFrame ==
  ASSUME CoreInv, KeepaliveInv, UNCHANGED <<txq, s_keepalive_pending, stray>>,
         NEW f \in DownFrame, f.variant # "queueStatus", DownAdd(f)
  PROVE  KeepaliveInv'
<1>1. Len(txq) \in Nat /\ Len(down) \in Nat
  BY Lengths
<1>2. \A i \in 1 .. Len(down') : down'[i].variant = "queueStatus" => i \in 1 .. Len(down) /\ down'[i] = down[i]
  BY <1>1 DEF DownAdd
<1>3. \A i \in 1 .. Len(down) : i \in 1 .. Len(down') /\ down'[i] = down[i]
  BY <1>1 DEF DownAdd
<1>4. \A i \in 1 .. Len(down) : \A j \in 1 .. i - 1 : j \in 1 .. Len(down)
  BY <1>1
<1>5. QED
  BY <1>2, <1>3, <1>4 DEF KeepaliveInv, Outstanding, IsOwnReply

\* The keepalive fires on a silent line.
LEMMA KeepaliveFires ==
  ASSUME CoreInv, "keepalive" \in Timing, Keepalive
  PROVE  KeepaliveInv'
<1>1. txq = <<>> /\ down = <<>>
  BY DEF Keepalive, LongEnough, Settled
<1>2. Len(txq) = 0 /\ Len(down) = 0 /\ ~ TxFull
  BY <1>1, Constants DEF TxFull
<1>3. s_keepalive_nonce \in Nonce
  BY DEF CoreInv, SessionType
<1>4. proto_encode_heartbeat(s_keepalive_nonce) \in UpMsg
  BY <1>3 DEF proto_encode_heartbeat, ToRadio, UpMsg
<1>5. TxAdd(proto_encode_heartbeat(s_keepalive_nonce))
  BY <1>2, <1>4, SendEffect DEF Keepalive, keepalive_work_handler
<1>6. Len(txq') = 1 /\ txq'[1].t = "heartbeat"
  BY <1>2, <1>5 DEF TxAdd, proto_encode_heartbeat, ToRadio
<1>7. s_keepalive_pending' = TRUE /\ stray' = FALSE /\ Len(down') = 0
  BY <1>1, <1>2 DEF Keepalive, keepalive_work_handler
<1>8. QED
  BY <1>6, <1>7 DEF KeepaliveInv, Outstanding

\* The node receives: the reply to a heartbeat follows every other queueStatus.
LEMMA KeepaliveReceive ==
  ASSUME CoreInv, KeepaliveInv, NodeReceive
  PROVE  KeepaliveInv'
<1>1. /\ TxGone /\ Head(txq) = txq[1] /\ UNCHANGED <<s_keepalive_pending, stray>>
      /\ Len(txq) \in Nat /\ Len(down) \in Nat
  BY ReceiveEffect, Lengths DEF NodeReceive
<1>2. \A i \in 1 .. Len(txq') : txq'[i].t # "heartbeat"
  BY <1>1 DEF TxGone, KeepaliveInv
<1>3. CASE Head(txq).t = "heartbeat" /\ DownAdd(FromRadio("queueStatus", 1))
  <2>1. 1 \in 1 .. Len(txq) /\ txq[1].t = "heartbeat"
    BY <1>1, <1>3 DEF TxGone
  <2>2. /\ s_keepalive_pending /\ ~ stray
        /\ \A j \in 1 .. Len(down) : down[j].variant # "queueStatus"
    BY <2>1 DEF KeepaliveInv
  <2>3. /\ \A j \in 1 .. Len(down) : down'[j].variant # "queueStatus"
        /\ Len(down) + 1 \in 1 .. Len(down') /\ IsOwnReply(down'[Len(down) + 1])
    BY <1>1, <1>3, <2>2 DEF DownAdd, IsOwnReply, FromRadio
  <2>4. \A i \in 1 .. Len(down') : IsOwnReply(down'[i]) => 
           /\ i = Len(down) + 1
           /\ \A j \in 1 .. i - 1 : j \in 1 .. Len(down)
    BY <1>1, <1>3, <2>3 DEF DownAdd, IsOwnReply
  <2>5. QED
    BY <1>1, <1>2, <2>2, <2>3, <2>4 DEF KeepaliveInv, Outstanding
<1>4. CASE DownAdd(FromRadio("queueStatus", 0)) /\ Head(txq).t = "packet"
  <2>1. ~ IsOwnReply(FromRadio("queueStatus", 0))
    BY DEF IsOwnReply, FromRadio
  <2>2. \A i \in 1 .. Len(down') : IsOwnReply(down'[i]) => i \in 1 .. Len(down) /\ IsOwnReply(down[i])
    BY <1>1, <1>4, <2>1 DEF DownAdd
  <2>3. \A i \in 1 .. Len(down) : i \in 1 .. Len(down') /\ down'[i] = down[i]
    BY <1>1, <1>4 DEF DownAdd
  <2>4. \A i \in 1 .. Len(down) : \A j \in 1 .. i - 1 : j \in 1 .. Len(down)
    BY <1>1
  <2>5. \A i \in 1 .. Len(txq) : txq[i].t # "heartbeat"
    BY <1>1, <1>4 DEF KeepaliveInv
  <2>6. QED
    BY <1>1, <1>2, <2>2, <2>3, <2>4, <2>5 DEF KeepaliveInv, Outstanding
<1>5. CASE Head(txq).t # "heartbeat" /\ down' = down
  <2>1. \A i \in 1 .. Len(txq) : txq[i].t # "heartbeat"
    BY <1>1, <1>5 DEF KeepaliveInv
  <2>2. QED
    BY <1>1, <1>2, <1>5, <2>1 DEF KeepaliveInv, Outstanding
<1>6. QED
  BY <1>3, <1>4, <1>5, ReceiveEffect

\* The work queue takes the oldest frame: a reply that is swallowed or consumed
\* was the only one, and without one nothing is swallowed but in its place.
LEMMA KeepaliveDispatch ==
  ASSUME CoreInv, KeepaliveInv, "keepalive" \in Timing, Dispatch
  PROVE  KeepaliveInv'
<1> DEFINE f == Head(down)
<1>1. /\ DownGone /\ f = down[1] /\ f \in DownFrame /\ router_dispatch(f)
      /\ Len(txq) \in Nat /\ Len(down) \in Nat /\ 1 \in 1 .. Len(down)
  BY DispatchEffect, Lengths DEF DownGone
<1>2. s_keepalive_pending \in BOOLEAN /\ stray \in BOOLEAN
  BY DEF CoreInv, SessionType, LineType
<1>3. \A i \in 1 .. Len(down') : i + 1 \in 1 .. Len(down) /\ down'[i] = down[i + 1]
  BY <1>1 DEF DownGone
<1>4. \A i \in 1 .. Len(down) : i = 1 \/ (i - 1 \in 1 .. Len(down') /\ down'[i - 1] = down[i])
  <2> SUFFICES ASSUME NEW i \in 1 .. Len(down), i # 1
               PROVE  i - 1 \in 1 .. Len(down') /\ down'[i - 1] = down[i]
    OBVIOUS
  <2>1. i - 1 \in 1 .. Len(down) - 1 /\ (i - 1) + 1 = i
    BY <1>1
  <2>2. QED
    BY <1>1, <2>1 DEF DownGone
\* A later queueStatus is not the proxy's when this frame is one.
<1>5. f.variant = "queueStatus" => /\ \A i \in 1 .. Len(down') : ~ IsOwnReply(down'[i])
                                   /\ \A i \in 1 .. Len(txq) : txq[i].t # "heartbeat"
  <2> SUFFICES ASSUME f.variant = "queueStatus"
               PROVE  /\ \A i \in 1 .. Len(down') : ~ IsOwnReply(down'[i])
                      /\ \A i \in 1 .. Len(txq) : txq[i].t # "heartbeat"
    OBVIOUS
  <2>1. ASSUME NEW i \in 1 .. Len(down') PROVE ~ IsOwnReply(down'[i])
    <3>1. i + 1 \in 1 .. Len(down) /\ down'[i] = down[i + 1] /\ 1 \in 1 .. (i + 1) - 1
      BY <1>3
    <3>2. QED
      BY <1>1, <3>1 DEF KeepaliveInv
  <2>2. QED
    BY <1>1, <2>1 DEF KeepaliveInv
\* What was before a frame is still before it.
<1>6. \A i \in 1 .. Len(down') : IsOwnReply(down'[i]) =>
        /\ s_keepalive_pending /\ ~ stray
        /\ \A j \in 1 .. i - 1 : down'[j].variant # "queueStatus"
  <2> SUFFICES ASSUME NEW i \in 1 .. Len(down'), IsOwnReply(down'[i])
               PROVE  /\ s_keepalive_pending /\ ~ stray
                      /\ \A j \in 1 .. i - 1 : down'[j].variant # "queueStatus"
    OBVIOUS
  <2>1. i + 1 \in 1 .. Len(down) /\ IsOwnReply(down[i + 1])
    BY <1>3
  <2>2. \A j \in 1 .. i - 1 : j + 1 \in 1 .. (i + 1) - 1 /\ j \in 1 .. Len(down')
    BY <1>1 DEF DownGone
  <2>3. QED
    BY <1>3, <2>1, <2>2 DEF KeepaliveInv
<1>7. CASE route(f) = "swallowed"
  <2>1. f.variant = "queueStatus" /\ Swallow
    BY <1>1, <1>7, RouteOf DEF router_dispatch
  <2>2. s_keepalive_pending' = FALSE /\ txq' = txq
    BY <2>1 DEF Swallow
  <2>3. QED
    BY <1>5, <2>1, <2>2 DEF KeepaliveInv
<1>8. CASE route(f) # "swallowed"
  <2>1. /\ stray' = (stray \/ (route(f) = "consumed" /\ IsOwnReply(f)))
        /\ s_keepalive_pending' = s_keepalive_pending
    BY <1>1, <1>8 DEF Dispatch, Strays, router_dispatch, upstream_on_fromradio, upstream_refetch,
                      ToPhones, session
  <2>2. ASSUME IsOwnReply(f) PROVE route(f) = "consumed"
    <3>1. s_keepalive_pending /\ f.variant = "queueStatus"
      BY <1>1, <2>2 DEF KeepaliveInv, IsOwnReply
    <3>2. QED
      BY <1>1, <1>8, <3>1, RouteOf
  <2>3. \/ txq' = txq
        \/ \E m \in UpMsg : m.t = "want_config" /\ TxAdd(m)
    <3>1. CASE upstream_refetch
      <4>1. \A n \in Nonce : /\ ToRadio("want_config", n, "proxy") \in UpMsg
                             /\ ToRadio("want_config", n, "proxy").t = "want_config"
        BY DEF ToRadio, UpMsg
      <4>2. QED
        BY <3>1, <4>1, RefetchEffect
    <3>2. CASE ~ upstream_refetch
      BY <1>1, <3>2 DEF router_dispatch, upstream_on_fromradio, Swallow, ToPhones, session
    <3>3. QED
      BY <3>1, <3>2
  <2>4. \A i \in 1 .. Len(txq') : txq'[i].t = "heartbeat" =>
            i = 1 /\ 1 \in 1 .. Len(txq) /\ txq[1].t = "heartbeat"
    BY <1>1, <2>3 DEF TxAdd, KeepaliveInv
  <2>5. \A i \in 1 .. Len(txq) : txq[i].t = "heartbeat" =>
            i \in 1 .. Len(txq') /\ txq'[i].t = "heartbeat"
    BY <1>1, <2>3 DEF TxAdd
  <2>6. CASE IsOwnReply(f)
    <3>1. stray' = TRUE /\ f.variant = "queueStatus"
      BY <1>2, <2>1, <2>2, <2>6 DEF IsOwnReply
    <3>2. QED
      BY <1>5, <2>4, <3>1 DEF KeepaliveInv
  <2>7. CASE ~ IsOwnReply(f)
    <3>1. stray' = stray
      BY <1>2, <2>1, <2>7
    <3>2. ASSUME s_keepalive_pending, ~ stray PROVE Outstanding'
      <4>1. Outstanding
        BY <3>2 DEF KeepaliveInv
      <4>2. CASE \E i \in 1 .. Len(txq) : txq[i].t = "heartbeat"
        BY <2>5, <4>2 DEF Outstanding
      <4>3. CASE \E i \in 1 .. Len(down) : IsOwnReply(down[i])
        <5>1. PICK i \in 1 .. Len(down) : IsOwnReply(down[i])
          BY <4>3
        <5>2. i - 1 \in 1 .. Len(down') /\ down'[i - 1] = down[i]
          BY <1>1, <1>4, <2>7, <5>1
        <5>3. QED
          BY <5>1, <5>2 DEF Outstanding
      <4>4. QED
        BY <4>1, <4>2, <4>3 DEF Outstanding
    <3>3. ASSUME NEW i \in 1 .. Len(txq'), txq'[i].t = "heartbeat"
          PROVE  /\ i = 1 /\ s_keepalive_pending /\ ~ stray
                 /\ \A j \in 1 .. Len(down') : down'[j].variant # "queueStatus"
      <4>1. i = 1 /\ 1 \in 1 .. Len(txq) /\ txq[1].t = "heartbeat"
        BY <2>4, <3>3
      <4>2. QED
        BY <1>3, <4>1 DEF KeepaliveInv
    <3>4. QED
      BY <1>6, <2>1, <3>1, <3>2, <3>3 DEF KeepaliveInv
  <2>8. QED
    BY <2>6, <2>7
<1>9. QED
  BY <1>7, <1>8

\* A heartbeat lost on the way up, a reply lost on the way down.
LEMMA KeepaliveLoss ==
  ASSUME CoreInv, KeepaliveInv, "keepalive" \in Timing, LoseUp \/ LoseDown
  PROVE  KeepaliveInv'
<1>0. s_keepalive_pending \in BOOLEAN /\ stray \in BOOLEAN /\ Len(txq) \in Nat /\ Len(down) \in Nat
  BY Lengths DEF CoreInv, SessionType, LineType
<1>1. CASE LoseUp
  <2>1. /\ TxGone /\ Head(txq) = txq[1] /\ UNCHANGED <<down, s_keepalive_pending>>
        /\ stray' = (stray \/ Head(txq).t = "heartbeat")
    BY <1>1, LossEffect DEF LoseUp, Strays
  <2>2. \A i \in 1 .. Len(txq') : txq'[i].t # "heartbeat"
    BY <1>0, <2>1 DEF TxGone, KeepaliveInv
  <2>3. CASE Head(txq).t = "heartbeat"
    <3>a. 1 \in 1 .. Len(txq)
      BY <1>0, <2>1 DEF TxGone
    <3>b. stray' = TRUE
      BY <2>1, <2>3
    <3>1. 1 \in 1 .. Len(txq) /\ txq[1].t = "heartbeat" /\ stray' = TRUE
      BY <2>1, <2>3, <3>a, <3>b
    <3>2. \A j \in 1 .. Len(down') : ~ IsOwnReply(down'[j])
      BY <2>1, <3>1 DEF KeepaliveInv, IsOwnReply
    <3>3. QED
      BY <2>2, <3>1, <3>2 DEF KeepaliveInv
  <2>4. CASE Head(txq).t # "heartbeat"
    <3>1. stray' = stray /\ \A i \in 1 .. Len(txq) : txq[i].t # "heartbeat"
      BY <1>0, <2>1, <2>4 DEF KeepaliveInv
    <3>2. QED
      BY <2>1, <2>2, <3>1 DEF KeepaliveInv, Outstanding
  <2>5. QED
    BY <2>3, <2>4
<1>2. CASE LoseDown
  <2>1. /\ DownLost /\ UNCHANGED <<txq, s_keepalive_pending>>
        /\ stray' = (stray \/ IsOwnReply(down[Len(down)]))
    BY <1>2, LossEffect DEF LoseDown, Strays, session
  <2>2. GarbledFrame.variant # "queueStatus"
    BY DEF GarbledFrame, FromRadio
  <2>3. \A i \in 1 .. Len(down') : down'[i].variant = "queueStatus" =>
            i \in 1 .. Len(down) - 1 /\ i \in 1 .. Len(down) /\ down'[i] = down[i]
    BY <1>0, <2>1, <2>2 DEF DownLost
  <2>4. \A i \in 1 .. Len(down) - 1 : i \in 1 .. Len(down') /\ down'[i] = down[i]
    BY <1>0, <2>1 DEF DownLost
  <2>5. Len(down) \in 1 .. Len(down)
    BY <1>0, <2>1 DEF DownLost
  <2>6. CASE IsOwnReply(down[Len(down)])
    <3>1. stray' = TRUE
      BY <2>1, <2>6
    <3>2. \A i \in 1 .. Len(down') : down'[i].variant # "queueStatus"
      BY <2>3, <2>5, <2>6 DEF KeepaliveInv
    <3>3. \A i \in 1 .. Len(txq') : txq'[i].t # "heartbeat"
      BY <2>1, <2>5, <2>6 DEF KeepaliveInv, IsOwnReply
    <3>4. QED
      BY <3>1, <3>2, <3>3 DEF KeepaliveInv, IsOwnReply
  <2>7. CASE ~ IsOwnReply(down[Len(down)])
    <3>1. stray' = stray
      BY <1>0, <2>1, <2>7
    <3>2. \A i \in 1 .. Len(down) : IsOwnReply(down[i]) => i \in 1 .. Len(down') /\ IsOwnReply(down'[i])
      <4>1. \A i \in 1 .. Len(down) : i = Len(down) \/ i \in 1 .. Len(down) - 1
        BY <1>0
      <4>2. QED
        BY <2>4, <2>7, <4>1
    <3>3. Outstanding => Outstanding'
      BY <2>1, <3>2 DEF Outstanding
    <3>4. ASSUME NEW i \in 1 .. Len(down'), IsOwnReply(down'[i])
          PROVE  /\ s_keepalive_pending /\ ~ stray
                 /\ \A j \in 1 .. i - 1 : down'[j].variant # "queueStatus"
      <4>1. i \in 1 .. Len(down) - 1 /\ i \in 1 .. Len(down) /\ IsOwnReply(down[i])
        BY <2>3, <3>4 DEF IsOwnReply
      <4>2. \A j \in 1 .. i - 1 : j \in 1 .. Len(down) - 1
        BY <1>0, <4>1
      <4>3. QED
        BY <2>4, <4>1, <4>2 DEF KeepaliveInv
    <3>5. \A i \in 1 .. Len(txq') : txq'[i].t = "heartbeat" =>
            /\ i = 1 /\ s_keepalive_pending /\ ~ stray
            /\ \A j \in 1 .. Len(down') : down'[j].variant # "queueStatus"
      BY <2>1, <2>3 DEF KeepaliveInv
    <3>6. QED
      BY <2>1, <3>1, <3>3, <3>4, <3>5 DEF KeepaliveInv
  <2>8. QED
    BY <2>6, <2>7
<1>3. QED
  BY <1>1, <1>2

\* The keepalive invariant is inductive when a keepalive never fires into an
\* exchange.
LEMMA NextKeepalive ==
  ASSUME "keepalive" \in Timing, CoreInv, KeepaliveInv, [Next]_vars
  PROVE  KeepaliveInv'
<1> DEFINE Asks == txq' = txq \/ \E n \in Nonce : TxAdd(ToRadio("want_config", n, "proxy"))
<1>0. ASSUME Asks
      PROVE  txq' = txq \/ \E m \in UpMsg : m.t # "heartbeat" /\ TxAdd(m)
  <2>1. \A n \in Nonce : /\ ToRadio("want_config", n, "proxy") \in UpMsg
                         /\ ToRadio("want_config", n, "proxy").t # "heartbeat"
    BY DEF ToRadio, UpMsg
  <2>2. QED
    BY <1>0, <2>1
<1>1. ASSUME NEW r \in 0 .. NonceMax, MainStart(r) PROVE KeepaliveInv'
  <2>1. Asks
    BY <1>1, AskEffect, LegalNonceLegal DEF MainStart, upstream_session_start_send, Nonce
  <2>2. QED
    BY <1>0, <1>1, <2>1, KeepaliveSend DEF MainStart, upstream_session_start_send
<1>2. CASE MainFetching \/ MainStarted
  BY <1>2, KeepaliveSend DEF MainFetching, upstream_session_start_fetching, MainStarted,
                             upstream_session_start_arm
<1>3. CASE Keepalive
  BY <1>3, KeepaliveFires
<1>4. CASE FetchRetry
  <2>1. Asks
    BY <1>4, AskEffect DEF FetchRetry, fetch_retry_handler, CoreInv, SessionType
  <2>2. QED
    BY <1>0, <1>4, <2>1, KeepaliveSend DEF FetchRetry, fetch_retry_handler, environment
<1>5. CASE Liveness
  <2>1. Asks /\ s_keepalive_pending' = s_keepalive_pending
    BY <1>5, RefetchEffect DEF Liveness, liveness_handler, upstream_refetch
  <2>2. QED
    BY <1>0, <1>5, <2>1, KeepaliveSend DEF Liveness, environment
<1>6. CASE Dispatch
  BY <1>6, KeepaliveDispatch
<1>7. ASSUME NEW t \in PhoneWrites, on_toradio_ble(t) PROVE KeepaliveInv'
  <2>1. txq' = txq \/ \E m \in UpMsg : m.t # "heartbeat" /\ TxAdd(m)
    BY <1>7, PhoneEffect
  <2>2. QED
    BY <1>7, <2>1, KeepaliveSend DEF on_toradio_ble, environment
<1>8. CASE NodeReceive
  BY <1>8, KeepaliveReceive
<1>9. CASE NodeBurst \/ NodePacket \/ NodeReboot
  <2>1. \E f \in DownFrame : f.variant # "queueStatus" /\ DownAdd(f)
    <3>1. \A v \in {"config", "config_complete", "rebooted"} : \A d \in 0 .. BurstLen + NonceMax :
            FromRadio(v, d) \in DownFrame /\ FromRadio(v, d).variant # "queueStatus"
      BY DEF FromRadio, DownFrame, BurstFrame, CachedVariant
    <3>2. PacketFrame \in DownFrame /\ PacketFrame.variant # "queueStatus"
      BY DEF DownFrame, PacketFrame, FromRadio
    <3>3. /\ node_pos \in 1 .. BurstLen + 1 /\ node_nonce \in 0 .. BurstLen + NonceMax
          /\ 0 \in 0 .. BurstLen + NonceMax
      BY Constants DEF CoreInv, LineType, Nonce
    <3>4. node_pos <= BurstLen => node_pos \in 0 .. BurstLen + NonceMax
      BY <3>3, Constants
    <3>5. QED
      BY <1>9, <3>1, <3>2, <3>3, <3>4, NodeEffect
  <2>2. UNCHANGED <<txq, s_keepalive_pending, stray>>
    BY <1>9 DEF NodeBurst, NodePacket, NodeReboot, session
  <2>3. QED
    BY <2>1, <2>2, KeepaliveFrame
<1>10. CASE NodeTimeout
  BY <1>10, KeepaliveSend DEF NodeTimeout, session
<1>11. CASE LoseUp \/ LoseDown
  BY <1>11, KeepaliveLoss
<1>12. CASE UNCHANGED vars
  BY <1>12, KeepaliveSend DEF vars
<1>13. QED
  BY <1>1, <1>2, <1>3, <1>4, <1>5, <1>6, <1>7, <1>8, <1>9, <1>10, <1>11, <1>12 DEF Next

\* When keepalives are apart, at most one heartbeat or reply is on the line.
THEOREM KeepaliveInvariant ==
  ASSUME "keepalive" \in Timing
  PROVE  Spec => []KeepaliveInv
<1>1. Init => KeepaliveInv
  BY DEF Init, SessionInit, KeepaliveInv
<1>2. CoreInv /\ KeepaliveInv /\ [Next]_vars => KeepaliveInv'
  BY NextKeepalive
<1>3. QED
  BY <1>1, <1>2, CoreInvariant, PTL DEF Spec

\* The reply to the proxy's own heartbeat never reaches a phone.
THEOREM ReplyHidden ==
  ASSUME "keepalive" \in Timing
  PROVE  Spec => []KeepaliveReplyHidden
<1>1. ASSUME CoreInv, KeepaliveInv PROVE KeepaliveReplyHidden
  <2> SUFFICES ASSUME MayDispatch, IsOwnReply(Head(down)) PROVE route(Head(down)) # "phones"
    BY DEF KeepaliveReplyHidden
  <2>1. /\ down \in Seq(DownFrame) /\ Len(down) >= 1 /\ Len(down) \in Nat
        /\ Head(down) = down[1] /\ down[1] \in DownFrame
    BY <1>1 DEF CoreInv, LineType, MayDispatch
  <2>2. s_keepalive_pending /\ Head(down).variant = "queueStatus"
    BY <1>1, <2>1 DEF KeepaliveInv, IsOwnReply
  <2>3. QED
    BY <2>1, <2>2, RouteOf
<1>2. CoreInv /\ KeepaliveInv => KeepaliveReplyHidden
  BY <1>1
<1>3. QED
  BY <1>2, CoreInvariant, KeepaliveInvariant, PTL

\* No phone loses an answer but in place of a reply that went astray.
THEOREM AnswersKept ==
  ASSUME "keepalive" \in Timing
  PROVE  Spec => []PhonesKeepTheirAnswers
<1>1. ASSUME CoreInv, KeepaliveInv PROVE PhonesKeepTheirAnswers
  <2> SUFFICES ASSUME MayDispatch, route(Head(down)) = "swallowed", ~ stray
               PROVE  IsOwnReply(Head(down))
    BY DEF PhonesKeepTheirAnswers
  <2>1. /\ down \in Seq(DownFrame) /\ Len(down) >= 1 /\ Len(down) \in Nat
        /\ Head(down) = down[1] /\ down[1] \in DownFrame
    BY <1>1 DEF CoreInv, LineType, MayDispatch
  <2>2. s_keepalive_pending /\ Head(down).variant = "queueStatus" /\ 1 \in 1 .. Len(down)
    BY <2>1, RouteOf
  <2>3. Outstanding
    BY <1>1, <2>2 DEF KeepaliveInv
  <2>4. PICK i \in 1 .. Len(down) : IsOwnReply(down[i])
    BY <1>1, <2>1, <2>2, <2>3 DEF KeepaliveInv, Outstanding
  <2>5. \A j \in 1 .. i - 1 : down[j].variant # "queueStatus"
    BY <1>1, <2>4 DEF KeepaliveInv
  <2>6. i = 1
    BY <2>1, <2>2, <2>5
  <2>7. QED
    BY <2>1, <2>4, <2>6
<1>2. CoreInv /\ KeepaliveInv => PhonesKeepTheirAnswers
  BY <1>1
<1>3. QED
  BY <1>2, CoreInvariant, KeepaliveInvariant, PTL

----------------------------------------------------------------------------
(* Config bursts *)

\* The frames of a burst, and the time in which they are consumed.
IsBurst(f) == f.variant \in {"config", "config_complete"}
FetchOpen == Fetching \/ main = "starting"

\* No burst is asked for, being sent, or on the line.
NoBurst ==
  /\ \A i \in 1 .. Len(txq) : txq[i].t # "want_config"
  /\ node # "burst"
  /\ \A i \in 1 .. Len(down) : ~ IsBurst(down[i])

\* One request at a time, then one burst, then its terminator: the three never
\* overlap, and all of it belongs to a fetch.
BurstInv ==
  /\ \A i \in 1 .. Len(txq) : txq[i].t = "want_config" =>
       /\ \A j \in 1 .. Len(txq) : txq[j].t = "want_config" => j = i
       /\ node # "burst"
       /\ \A j \in 1 .. Len(down) : ~ IsBurst(down[j])
       /\ FetchOpen
  /\ node = "burst" => FetchOpen
  /\ \A i \in 1 .. Len(down) : IsBurst(down[i]) => FetchOpen
  /\ \A i \in 1 .. Len(down) : down[i].variant = "config_complete" =>
       /\ node # "burst"
       /\ \A j \in i + 1 .. Len(down) : ~ IsBurst(down[j])

\* Outside a fetch nothing is under way.
LEMMA ClosedIsQuiet == BurstInv /\ ~ FetchOpen => NoBurst
  BY DEF BurstInv, NoBurst

\* A request is sent when nothing is under way.
LEMMA BurstAsk ==
  ASSUME CoreInv, NoBurst, node' # "burst", \A i \in 1 .. Len(down') : ~ IsBurst(down'[i]),
         txq' = txq \/ (FetchOpen' /\ \E m \in UpMsg : TxAdd(m))
  PROVE  BurstInv'
<1>1. Len(txq) \in Nat
  BY Lengths
<1>2. CASE txq' = txq
  BY <1>2 DEF NoBurst, BurstInv, IsBurst
<1>3. ASSUME NEW m \in UpMsg, TxAdd(m), FetchOpen' PROVE BurstInv'
  <2>1. \A i \in 1 .. Len(txq') : txq'[i].t = "want_config" => i = Len(txq) + 1
    BY <1>1, <1>3 DEF TxAdd, NoBurst
  <2>2. QED
    BY <1>3, <2>1 DEF BurstInv, IsBurst
<1>4. QED
  BY <1>2, <1>3

\* What joins the queue is no request, or nothing joins it.
LEMMA BurstSend ==
  ASSUME CoreInv, BurstInv, UNCHANGED <<down, node>>, FetchOpen => FetchOpen',
         txq' = txq \/ \E m \in UpMsg : m.t # "want_config" /\ TxAdd(m)
  PROVE  BurstInv'
<1>1. Len(txq) \in Nat
  BY Lengths
<1>2. \A i \in 1 .. Len(txq') : txq'[i].t = "want_config" =>
        i \in 1 .. Len(txq) /\ txq[i].t = "want_config"
  <2>1. CASE txq' = txq
    BY <2>1
  <2>2. ASSUME NEW m \in UpMsg, m.t # "want_config", TxAdd(m)
        PROVE  \A i \in 1 .. Len(txq') : txq'[i].t = "want_config" =>
                 i \in 1 .. Len(txq) /\ txq[i].t = "want_config"
    BY <1>1, <2>2 DEF TxAdd
  <2>3. QED
    BY <2>1, <2>2
<1>3. QED
  BY <1>2 DEF BurstInv, IsBurst

\* The node receives a message.
LEMMA BurstReceive ==
  ASSUME CoreInv, BurstInv, NodeReceive
  PROVE  BurstInv'
<1>1. /\ TxGone /\ Head(txq) = txq[1] /\ Head(txq) \in UpMsg
      /\ Len(txq) \in Nat /\ Len(down) \in Nat
  BY ReceiveEffect, Lengths
<1>2. FetchOpen' = FetchOpen
  BY DEF NodeReceive, FetchOpen, Fetching
<1>3. 1 \in 1 .. Len(txq) /\ txq[1].t \in {"want_config", "heartbeat", "packet", "malformed"}
  BY <1>1 DEF TxGone, UpMsg
<1>4. \A i \in 1 .. Len(txq') : i + 1 \in 1 .. Len(txq) /\ i + 1 # 1 /\ txq'[i] = txq[i + 1]
  BY <1>1 DEF TxGone
<1>5. CASE txq[1].t = "want_config"
  <2>1. \A i \in 1 .. Len(txq') : txq'[i].t # "want_config"
    BY <1>3, <1>4, <1>5 DEF BurstInv
  <2>2. FetchOpen /\ \A j \in 1 .. Len(down) : ~ IsBurst(down[j])
    BY <1>3, <1>5 DEF BurstInv
  <2>3. down' = down
    BY <1>1, <1>5, ReceiveEffect
  <2>4. QED
    BY <1>2, <2>1, <2>2, <2>3 DEF BurstInv, IsBurst
<1>6. CASE txq[1].t # "want_config"
  <2>1. node' = node
    BY <1>1, <1>3, <1>6 DEF NodeReceive
  <2>2. \A i \in 1 .. Len(down') : IsBurst(down'[i]) => i \in 1 .. Len(down) /\ down'[i] = down[i]
    <3>1. \A d \in {0, 1} : ~ IsBurst(FromRadio("queueStatus", d))
      BY DEF IsBurst, FromRadio
    <3>2. CASE down' = down
      BY <3>2
    <3>3. ASSUME NEW d \in {0, 1}, DownAdd(FromRadio("queueStatus", d))
          PROVE  \A i \in 1 .. Len(down') : IsBurst(down'[i]) => i \in 1 .. Len(down) /\ down'[i] = down[i]
      BY <1>1, <3>1, <3>3 DEF DownAdd
    <3>4. QED
      BY <3>2, <3>3, ReceiveEffect
  <2>3. \A i \in 1 .. Len(txq') : txq'[i].t = "want_config" =>
          /\ \A j \in 1 .. Len(txq') : txq'[j].t = "want_config" => j = i
          /\ node # "burst" /\ FetchOpen
          /\ \A j \in 1 .. Len(down) : ~ IsBurst(down[j])
    <3> SUFFICES ASSUME NEW i \in 1 .. Len(txq'), txq'[i].t = "want_config"
                 PROVE  /\ \A j \in 1 .. Len(txq') : txq'[j].t = "want_config" => j = i
                        /\ node # "burst" /\ FetchOpen
                        /\ \A j \in 1 .. Len(down) : ~ IsBurst(down[j])
      OBVIOUS
    <3>1. i + 1 \in 1 .. Len(txq) /\ txq[i + 1].t = "want_config"
      BY <1>4
    <3>2. ASSUME NEW j \in 1 .. Len(txq'), txq'[j].t = "want_config" PROVE j = i
      <4>1. j + 1 = i + 1
        BY <1>4, <3>1, <3>2 DEF BurstInv
      <4>2. QED
        BY <4>1
    <3>3. QED
      BY <3>1, <3>2 DEF BurstInv
  <2>4. ASSUME NEW i \in 1 .. Len(down'), down'[i].variant = "config_complete"
        PROVE  node # "burst" /\ \A j \in i + 1 .. Len(down') : ~ IsBurst(down'[j])
    <3>1. i \in 1 .. Len(down) /\ down[i].variant = "config_complete"
      BY <2>2, <2>4 DEF IsBurst
    <3>2. ASSUME NEW j \in i + 1 .. Len(down'), IsBurst(down'[j]) PROVE FALSE
      <4>1. j \in 1 .. Len(down')
        BY <1>1
      <4>2. j \in 1 .. Len(down) /\ down'[j] = down[j] /\ j \in i + 1 .. Len(down)
        BY <1>1, <2>2, <3>2, <4>1
      <4>3. QED
        BY <3>1, <3>2, <4>2 DEF BurstInv
    <3>3. QED
      BY <3>1, <3>2 DEF BurstInv
  <2>5. \A i \in 1 .. Len(down') : IsBurst(down'[i]) => FetchOpen
    BY <2>2 DEF BurstInv
  <2>6. \A i \in 1 .. Len(txq') : txq'[i].t = "want_config" =>
          \A j \in 1 .. Len(down') : ~ IsBurst(down'[j])
    BY <2>2, <2>3
  <2>7. QED
    BY <1>2, <2>1, <2>3, <2>4, <2>5, <2>6 DEF BurstInv, IsBurst
<1>7. QED
  BY <1>5, <1>6

\* The node, in its burst, sends the next frame of it.
LEMMA BurstContinues ==
  ASSUME CoreInv, BurstInv, NodeBurst
  PROVE  BurstInv'
<1>1. /\ node = "burst" /\ txq' = txq /\ FetchOpen' = FetchOpen
      /\ Len(txq) \in Nat /\ Len(down) \in Nat
  BY Lengths DEF NodeBurst, FetchOpen, Fetching, session
<1>2. /\ FetchOpen /\ \A i \in 1 .. Len(txq) : txq[i].t # "want_config"
      /\ \A i \in 1 .. Len(down) : down[i].variant # "config_complete"
  BY <1>1 DEF BurstInv
<1>3. CASE node_pos <= BurstLen
  <2>1. DownAdd(FromRadio("config", node_pos)) /\ node' = node
    BY <1>3, NodeEffect, Constants DEF NodeBurst, CoreInv, LineType
  <2>2. \A i \in 1 .. Len(down') : down'[i].variant # "config_complete"
    BY <1>1, <1>2, <2>1 DEF DownAdd, FromRadio
  <2>3. QED
    BY <1>1, <1>2, <2>1, <2>2 DEF BurstInv
<1>4. CASE ~ (node_pos <= BurstLen)
  <2>1. DownAdd(FromRadio("config_complete", node_nonce)) /\ node' = "open"
    BY <1>4, NodeEffect, Constants DEF NodeBurst, CoreInv, LineType
  <2>2. \A i \in 1 .. Len(down') : down'[i].variant = "config_complete" => i = Len(down')
    BY <1>1, <1>2, <2>1 DEF DownAdd, FromRadio
  <2>3. \A j \in Len(down') + 1 .. Len(down') : ~ IsBurst(down'[j])
    BY <1>1, <2>1 DEF DownAdd
  <2>4. QED
    BY <1>1, <1>2, <2>1, <2>2, <2>3 DEF BurstInv
<1>5. QED
  BY <1>3, <1>4

\* A frame outside the burst joins the line; the node is not in a burst after it
\* unless it was before.
LEMMA BurstFrameAdded ==
  ASSUME CoreInv, BurstInv, UNCHANGED <<txq, s_state, main>>, node' = "burst" => node = "burst",
         NEW f \in DownFrame, ~ IsBurst(f), DownAdd(f)
  PROVE  BurstInv'
<1>1. Len(txq) \in Nat /\ Len(down) \in Nat /\ FetchOpen' = FetchOpen
  BY Lengths DEF FetchOpen, Fetching
<1>2. \A i \in 1 .. Len(down') : IsBurst(down'[i]) => i \in 1 .. Len(down) /\ down'[i] = down[i]
  BY <1>1 DEF DownAdd
<1>3. ASSUME NEW i \in 1 .. Len(down'), down'[i].variant = "config_complete"
      PROVE  node' # "burst" /\ \A j \in i + 1 .. Len(down') : ~ IsBurst(down'[j])
  <2>1. i \in 1 .. Len(down) /\ down[i].variant = "config_complete"
    BY <1>2, <1>3 DEF IsBurst
  <2>2. ASSUME NEW j \in i + 1 .. Len(down'), IsBurst(down'[j]) PROVE FALSE
    <3>1. j \in 1 .. Len(down')
      BY <1>1
    <3>2. j \in 1 .. Len(down) /\ down'[j] = down[j] /\ j \in i + 1 .. Len(down)
      BY <1>1, <1>2, <2>2, <3>1
    <3>3. QED
      BY <2>1, <2>2, <3>2 DEF BurstInv
  <2>3. QED
    BY <2>1, <2>2 DEF BurstInv
<1>4. \A i \in 1 .. Len(txq) : txq[i].t = "want_config" =>
        \A j \in 1 .. Len(down') : ~ IsBurst(down'[j])
  BY <1>2 DEF BurstInv
<1>5. \A i \in 1 .. Len(down') : IsBurst(down'[i]) => FetchOpen
  BY <1>2 DEF BurstInv
<1>6. QED
  BY <1>1, <1>3, <1>4, <1>5 DEF BurstInv, IsBurst

\* The oldest frame leaves the line and the session stays in its state.
LEMMA BurstShift ==
  ASSUME CoreInv, BurstInv, DownGone, UNCHANGED <<txq, node, s_state, main>>
  PROVE  BurstInv'
<1>1. Len(txq) \in Nat /\ Len(down) \in Nat /\ FetchOpen' = FetchOpen
  BY Lengths DEF FetchOpen, Fetching
<1>2. \A i \in 1 .. Len(down') : i + 1 \in 1 .. Len(down) /\ down'[i] = down[i + 1]
  BY <1>1 DEF DownGone
<1>3. ASSUME NEW i \in 1 .. Len(down'), down'[i].variant = "config_complete"
      PROVE  node # "burst" /\ \A j \in i + 1 .. Len(down') : ~ IsBurst(down'[j])
  <2>1. i + 1 \in 1 .. Len(down) /\ down[i + 1].variant = "config_complete"
    BY <1>2, <1>3
  <2>2. \A j \in i + 1 .. Len(down') : j \in 1 .. Len(down') /\ j + 1 \in (i + 1) + 1 .. Len(down)
    BY <1>1 DEF DownGone
  <2>3. QED
    BY <1>2, <2>1, <2>2 DEF BurstInv
<1>4. \A i \in 1 .. Len(txq) : txq[i].t = "want_config" =>
        \A j \in 1 .. Len(down') : ~ IsBurst(down'[j])
  BY <1>2 DEF BurstInv
<1>5. \A i \in 1 .. Len(down') : IsBurst(down'[i]) => FetchOpen
  BY <1>2 DEF BurstInv
<1>6. QED
  BY <1>1, <1>3, <1>4, <1>5 DEF BurstInv, IsBurst

\* The work queue handles a frame: the fetch ends with the last frame of the
\* burst, and a refetch starts when nothing is left of one.
LEMMA BurstDispatch ==
  ASSUME CoreInv, BurstInv, "start" \in Timing, Dispatch
  PROVE  BurstInv'
<1> DEFINE f == Head(down)
<1>1. /\ DownGone /\ f = down[1] /\ f \in DownFrame /\ router_dispatch(f) /\ MayDispatch
      /\ Len(txq) \in Nat /\ Len(down) \in Nat /\ 1 \in 1 .. Len(down)
      /\ UNCHANGED <<main, node>>
  <2>1. DownGone /\ f = down[1] /\ f \in DownFrame /\ router_dispatch(f) /\ MayDispatch
    BY DispatchEffect
  <2>2. Len(txq) \in Nat /\ Len(down) \in Nat /\ 1 \in 1 .. Len(down)
    BY <2>1, Lengths DEF DownGone
  <2>3. UNCHANGED <<main, node>>
    BY DEF Dispatch
  <2>4. QED
    BY <2>1, <2>2, <2>3
<1>2. main # "starting"
  BY <1>1 DEF MayDispatch
<1>3. \A i \in 1 .. Len(down') : i + 1 \in 1 .. Len(down) /\ down'[i] = down[i + 1]
  BY <1>1 DEF DownGone
<1>4. CASE txq' = txq /\ s_state' = s_state
  BY <1>1, <1>4, BurstShift
<1>5. CASE upstream_refetch
  <2>1. CASE s_state' # s_state
    <3>1. s_state = "LIVE" /\ s_state' = "REFETCHING" /\ \E n \in Nonce : TxAdd(ToRadio("want_config", n, "proxy"))
      BY <1>5, <2>1, RefetchEffect
    <3>2. \A n \in Nonce : ToRadio("want_config", n, "proxy") \in UpMsg
      BY DEF ToRadio, UpMsg
    <3>3. ~ FetchOpen /\ FetchOpen'
      BY <1>2, <3>1 DEF FetchOpen, Fetching
    <3>4. NoBurst
      BY <3>3, ClosedIsQuiet
    <3>5. node' # "burst" /\ \A i \in 1 .. Len(down') : ~ IsBurst(down'[i])
      BY <1>1, <1>3, <3>4 DEF NoBurst
    <3>6. QED
      BY <3>1, <3>2, <3>3, <3>4, <3>5, BurstAsk
  <2>2. CASE s_state' = s_state
    BY <1>4, <1>5, <2>2, RefetchEffect
  <2>3. QED
    BY <2>1, <2>2
<1>6. CASE route(f) = "consumed" /\ upstream_on_fromradio(f) /\ s_state' # s_state
  <2>1. f.variant = "config_complete" /\ txq' = txq
    BY <1>6 DEF upstream_on_fromradio, ConsumeFrame
  <2>2. node # "burst" /\ \A j \in 2 .. Len(down) : ~ IsBurst(down[j])
    <3>1. \A j \in 1 + 1 .. Len(down) : ~ IsBurst(down[j])
      BY <1>1, <2>1 DEF BurstInv
    <3>2. 1 + 1 = 2
      OBVIOUS
    <3>3. QED
      BY <1>1, <2>1, <3>1, <3>2 DEF BurstInv
  <2>3. \A i \in 1 .. Len(down') : ~ IsBurst(down'[i])
    <3>1. \A i \in 1 .. Len(down') : i + 1 \in 2 .. Len(down)
      BY <1>1 DEF DownGone
    <3>2. QED
      BY <1>3, <2>2, <3>1
  <2>4. \A i \in 1 .. Len(txq) : txq[i].t # "want_config"
    BY <1>1, <2>1 DEF BurstInv, IsBurst
  <2>5. QED
    BY <1>1, <2>1, <2>2, <2>3, <2>4 DEF BurstInv, IsBurst
<1>7. QED
  BY <1>1, <1>4, <1>5, <1>6 DEF router_dispatch, upstream_on_fromradio, Swallow, ToPhones, session

\* What is lost was part of it.
LEMMA BurstLoss ==
  ASSUME CoreInv, BurstInv, LoseUp \/ LoseDown
  PROVE  BurstInv'
<1>0. Len(txq) \in Nat /\ Len(down) \in Nat
  BY Lengths
<1>1. CASE LoseUp
  <2>1. TxGone /\ UNCHANGED <<down, node, s_state, main>>
    BY <1>1, LossEffect DEF LoseUp
  <2>2. \A i \in 1 .. Len(txq') : i + 1 \in 1 .. Len(txq) /\ txq'[i] = txq[i + 1]
    BY <1>0, <2>1 DEF TxGone
  <2>3. ASSUME NEW i \in 1 .. Len(txq'), txq'[i].t = "want_config"
        PROVE  /\ \A j \in 1 .. Len(txq') : txq'[j].t = "want_config" => j = i
               /\ node # "burst" /\ FetchOpen
               /\ \A j \in 1 .. Len(down) : ~ IsBurst(down[j])
    <3>1. i + 1 \in 1 .. Len(txq) /\ txq[i + 1].t = "want_config"
      BY <2>2, <2>3
    <3>2. ASSUME NEW j \in 1 .. Len(txq'), txq'[j].t = "want_config" PROVE j = i
      <4>1. j + 1 = i + 1
        BY <2>2, <3>1, <3>2 DEF BurstInv
      <4>2. QED
        BY <4>1
    <3>3. QED
      BY <3>1, <3>2 DEF BurstInv
  <2>4. FetchOpen' = FetchOpen
    BY <2>1 DEF FetchOpen, Fetching
  <2>5. QED
    BY <2>1, <2>3, <2>4 DEF BurstInv, IsBurst
<1>2. CASE LoseDown
  <2>1. DownLost /\ UNCHANGED <<txq, node, s_state, main>>
    BY <1>2, LossEffect DEF LoseDown, session
  <2>2. ~ IsBurst(GarbledFrame) /\ FetchOpen' = FetchOpen
    BY <2>1 DEF GarbledFrame, FromRadio, IsBurst, FetchOpen, Fetching
  <2>3. \A i \in 1 .. Len(down') : IsBurst(down'[i]) => i \in 1 .. Len(down) /\ down'[i] = down[i]
    BY <1>0, <2>1, <2>2 DEF DownLost
  <2>4. ASSUME NEW i \in 1 .. Len(down'), down'[i].variant = "config_complete"
        PROVE  node # "burst" /\ \A j \in i + 1 .. Len(down') : ~ IsBurst(down'[j])
    <3>1. i \in 1 .. Len(down) /\ down[i].variant = "config_complete"
      BY <2>3, <2>4 DEF IsBurst
    <3>2. ASSUME NEW j \in i + 1 .. Len(down'), IsBurst(down'[j]) PROVE FALSE
      <4>1. j \in 1 .. Len(down')
        BY <1>0, <2>1 DEF DownLost
      <4>2. j \in 1 .. Len(down) /\ down'[j] = down[j] /\ j \in i + 1 .. Len(down)
        BY <1>0, <2>3, <3>2, <4>1
      <4>3. QED
        BY <3>1, <3>2, <4>2 DEF BurstInv
    <3>3. QED
      BY <3>1, <3>2 DEF BurstInv
  <2>5. \A i \in 1 .. Len(txq) : txq[i].t = "want_config" =>
          \A j \in 1 .. Len(down') : ~ IsBurst(down'[j])
    BY <2>3 DEF BurstInv
  <2>6. \A i \in 1 .. Len(down') : IsBurst(down'[i]) => FetchOpen
    BY <2>3 DEF BurstInv
  <2>7. QED
    BY <2>1, <2>2, <2>4, <2>5, <2>6 DEF BurstInv, IsBurst
<1>3. QED
  BY <1>1, <1>2

\* BurstInv is inductive when main is not preempted for the length of an
\* exchange and the watchdog does not fire into a burst.
LEMMA NextBurst ==
  ASSUME "start" \in Timing, "retry" \in Timing, CoreInv, BurstInv, [Next]_vars
  PROVE  BurstInv'
<1>0. \A n \in Nonce : ToRadio("want_config", n, "proxy") \in UpMsg
  BY DEF ToRadio, UpMsg
<1>1. ASSUME NEW r \in 0 .. NonceMax, MainStart(r) PROVE BurstInv'
  <2>1. ~ FetchOpen /\ FetchOpen' /\ UNCHANGED <<down, node>>
    BY <1>1 DEF MainStart, upstream_session_start_send, FetchOpen, Fetching, CoreInv, BootIsMain
  <2>2. txq' = txq \/ \E m \in UpMsg : TxAdd(m)
    BY <1>0, <1>1, AskEffect, LegalNonceLegal DEF MainStart, upstream_session_start_send, Nonce
  <2>3. NoBurst
    BY <2>1, ClosedIsQuiet
  <2>4. QED
    BY <2>1, <2>2, <2>3, BurstAsk DEF NoBurst
<1>2. CASE MainFetching \/ MainStarted
  <2>1. (FetchOpen => FetchOpen') /\ UNCHANGED <<down, node, txq>>
    BY <1>2 DEF MainFetching, upstream_session_start_fetching, MainStarted,
                upstream_session_start_arm, FetchOpen, Fetching
  <2>2. QED
    BY <2>1, BurstSend
<1>3. CASE Keepalive
  <2>1. proto_encode_heartbeat(s_keepalive_nonce) \in UpMsg
        /\ proto_encode_heartbeat(s_keepalive_nonce).t # "want_config"
    BY DEF proto_encode_heartbeat, ToRadio, UpMsg, CoreInv, SessionType
  <2>2. txq' = txq \/ TxAdd(proto_encode_heartbeat(s_keepalive_nonce))
    BY <1>3, <2>1, SendEffect DEF Keepalive, keepalive_work_handler
  <2>3. UNCHANGED <<down, node>> /\ FetchOpen' = FetchOpen
    BY <1>3 DEF Keepalive, keepalive_work_handler, FetchOpen, Fetching
  <2>4. QED
    BY <2>1, <2>2, <2>3, BurstSend
<1>4. CASE FetchRetry
  <2>1. NoBurst
    <3>1. ~ BurstUnderWay
      BY <1>4 DEF FetchRetry, LongEnough
    <3>2. DOMAIN txq = 1 .. Len(txq) /\ DOMAIN down = 1 .. Len(down)
      BY DEF CoreInv, LineType
    <3>3. QED
      BY <3>1, <3>2 DEF BurstUnderWay, NoBurst, IsBurst
  <2>2. UNCHANGED <<down, node>> /\ (Fetching => FetchOpen') /\ (~ Fetching => txq' = txq)
    BY <1>4 DEF FetchRetry, fetch_retry_handler, environment, FetchOpen, Fetching
  <2>3. txq' = txq \/ \E m \in UpMsg : TxAdd(m)
    BY <1>0, <1>4, AskEffect DEF FetchRetry, fetch_retry_handler, CoreInv, SessionType
  <2>4. QED
    BY <2>1, <2>2, <2>3, BurstAsk DEF NoBurst
<1>5. CASE Liveness
  <2>1. upstream_refetch /\ UNCHANGED <<down, node, main>>
    BY <1>5 DEF Liveness, liveness_handler, environment
  <2>2. CASE txq' = txq /\ s_state' = s_state
    <3>1. FetchOpen' = FetchOpen
      BY <2>1, <2>2 DEF FetchOpen, Fetching
    <3>2. QED
      BY <2>1, <2>2, <3>1, BurstSend
  <2>3. CASE /\ s_state = "LIVE" /\ s_state' = "REFETCHING"
             /\ \E n \in Nonce : TxAdd(ToRadio("want_config", n, "proxy"))
    <3>1. ~ FetchOpen /\ FetchOpen'
      BY <2>3 DEF FetchOpen, Fetching, CoreInv, BootIsMain
    <3>2. NoBurst
      BY <3>1, ClosedIsQuiet
    <3>3. QED
      BY <1>0, <2>1, <2>3, <3>1, <3>2, BurstAsk DEF NoBurst
  <2>4. QED
    BY <2>1, <2>2, <2>3, RefetchEffect
<1>6. CASE Dispatch
  BY <1>6, BurstDispatch
<1>7. ASSUME NEW t \in PhoneWrites, on_toradio_ble(t) PROVE BurstInv'
  <2>1. txq' = txq \/ \E m \in UpMsg : m.t # "want_config" /\ TxAdd(m)
    BY <1>7, PhoneEffect
  <2>2. UNCHANGED <<down, node>> /\ FetchOpen' = FetchOpen
    BY <1>7 DEF on_toradio_ble, environment, FetchOpen, Fetching
  <2>3. QED
    BY <2>1, <2>2, BurstSend
<1>8. CASE NodeReceive
  BY <1>8, BurstReceive
<1>9. CASE NodeBurst
  BY <1>9, BurstContinues
<1>10. CASE NodePacket \/ NodeReboot
  <2>1. /\ PacketFrame \in DownFrame /\ ~ IsBurst(PacketFrame)
        /\ FromRadio("rebooted", 0) \in DownFrame /\ ~ IsBurst(FromRadio("rebooted", 0))
    BY Constants DEF FromRadio, PacketFrame, DownFrame, BurstFrame, CachedVariant, IsBurst
  <2>2. UNCHANGED <<txq, s_state, main>> /\ (node' = "burst" => node = "burst")
    BY <1>10 DEF NodePacket, NodeReboot, session
  <2>3. QED
    BY <1>10, <2>1, <2>2, NodeEffect, BurstFrameAdded
<1>11. CASE NodeTimeout
  <2>1. UNCHANGED <<txq, down, s_state, main>> /\ node = "open" /\ node' = "closed"
    BY <1>11 DEF NodeTimeout, session
  <2>2. QED
    BY <2>1 DEF BurstInv, IsBurst, FetchOpen, Fetching
<1>12. CASE LoseUp \/ LoseDown
  BY <1>12, BurstLoss
<1>13. CASE UNCHANGED vars
  BY <1>13 DEF vars, BurstInv, IsBurst, FetchOpen, Fetching
<1>14. QED
  BY <1>1, <1>2, <1>3, <1>4, <1>5, <1>6, <1>7, <1>8, <1>9, <1>10, <1>11, <1>12, <1>13 DEF Next

\* A request, its burst and its terminator never overlap with another's.
THEOREM BurstInvariant ==
  ASSUME "start" \in Timing, "retry" \in Timing, "burst" \notin NodeAtBoot
  PROVE  Spec => []BurstInv
<1>1. Init => BurstInv
  BY DEF Init, SessionInit, BurstInv
<1>2. CoreInv /\ BurstInv /\ [Next]_vars => BurstInv'
  BY NextBurst
<1>3. QED
  BY <1>1, <1>2, CoreInvariant, PTL DEF Spec

\* The proxy's own config burst never leaks to the phones.
THEOREM BurstNotBroadcast ==
  ASSUME "start" \in Timing, "retry" \in Timing, "burst" \notin NodeAtBoot
  PROVE  Spec => []BurstNeverBroadcast
<1>1. ASSUME CoreInv, BurstInv PROVE BurstNeverBroadcast
  <2> SUFFICES ASSUME MayDispatch, Head(down).variant \in {"config", "config_complete"}
               PROVE  route(Head(down)) # "phones"
    BY DEF BurstNeverBroadcast
  <2>1. /\ down \in Seq(DownFrame) /\ Len(down) >= 1 /\ Len(down) \in Nat
        /\ Head(down) = down[1] /\ down[1] \in DownFrame
    BY <1>1 DEF CoreInv, LineType, MayDispatch
  <2>2. FetchOpen /\ main # "starting"
    BY <1>1, <2>1 DEF BurstInv, IsBurst, MayDispatch
  <2>3. QED
    BY <2>1, <2>2, RouteOf DEF FetchOpen
<1>2. CoreInv /\ BurstInv => BurstNeverBroadcast
  BY <1>1
<1>3. QED
  BY <1>2, CoreInvariant, BurstInvariant, PTL

----------------------------------------------------------------------------
(* The published burst is whole *)

\* The cache takes one more frame.
Room == cache_fits(cache, FromRadio("config", 1))

\* The cache holds the config frames 1 .. k, each once and in order.
StoredUpTo(k) ==
  /\ \A i \in ConfigRefs : FirstByte(i)[1] \in 1 .. k
  /\ \A p \in 1 .. k : \E i \in ConfigRefs : FirstByte(i)[1] = p
  /\ \A i, j \in ConfigRefs : i < j => FirstByte(i)[1] < FirstByte(j)[1]

\* The line holds the config frames a .. b, each once and in order.
OnLine == {i \in 1 .. Len(down) : down[i].variant = "config"}
LineHas(a, b) ==
  /\ \A i \in OnLine : down[i].data \in a .. b
  /\ \A p \in a .. b : \E i \in OnLine : down[i].data = p
  /\ \A i, j \in OnLine : i < j => down[i].data < down[j].data

\* A request is queued; a terminator is on the line.
Asked == \E i \in 1 .. Len(txq) : txq[i].t = "want_config"
Closed == \E i \in 1 .. Len(down) : down[i].variant = "config_complete"

\* The frames of the burst that the node has sent.
Sent == IF node = "burst" THEN node_pos - 1 ELSE BurstLen

\* They are in the cache or on the line, and nothing else is.
BurstKept == \E k \in 0 .. Sent : StoredUpTo(k) /\ LineHas(k + 1, Sent)

\* While nothing was lost and the cache has room: what a burst under way has
\* sent is in the cache or on the line, the cache holds no frame of an earlier
\* burst when a new one is asked for, and a published cache is whole.
WholeInv ==
  losses = 0 /\ Room =>
    /\ cache.ready => StoredUpTo(BurstLen)
    /\ ~ cache.ready /\ (node = "burst" \/ Closed) => BurstKept
    /\ ~ cache.ready /\ Asked => StoredUpTo(0)

\* All frames are one byte long, so there is room for all or for none.
LEMMA RoomIsFits ==
  ASSUME NEW f \in BurstFrame
  PROVE  cache_fits(cache, f) <=> Room
  BY DEF BurstFrame, Room, cache_fits, FromRadio

\* The cached config frames, as positions of the index.
LEMMA RefsDomain ==
  ASSUME CacheInv
  PROVE  /\ ConfigRefs = {i \in 1 .. Len(cache.index) : cache.index[i].variant = "config"}
         /\ Len(cache.index) \in Nat
  BY DEF CacheInv, CacheRecord, ConfigRefs

\* The same after a step.
LEMMA RefsDomainNext ==
  ASSUME CacheInv'
  PROVE  /\ ConfigRefs' = {i \in 1 .. Len(cache'.index) : cache'.index[i].variant = "config"}
         /\ Len(cache'.index) \in Nat
  BY DEF CacheInv, CacheRecord, ConfigRefs

\* cache_begin leaves no config frame.
LEMMA StoreNone ==
  ASSUME CacheInv, cache' = cache_begin(cache)
  PROVE  StoredUpTo(0)'
<1>1. CacheInv' /\ cache'.index = <<>>
  BY BeginCache
<1>2. ConfigRefs' = {}
  BY <1>1, RefsDomainNext
<1>3. QED
  BY <1>2 DEF StoredUpTo

\* A config frame with the next position extends the stored prefix.
LEMMA StoreNext ==
  ASSUME CacheInv, NEW f \in BurstFrame, cache_fits(cache, f),
         cache' = cache_add_frame(cache, f),
         NEW k \in Nat, StoredUpTo(k), f.variant = "config", f.data = k + 1
  PROVE  StoredUpTo(k + 1)'
<1>0. Len(cache.index) \in Nat
  BY RefsDomain
<1> SUFFICES ASSUME NEW n \in Nat, n = Len(cache.index) PROVE StoredUpTo(k + 1)'
  BY <1>0
<1>1. /\ CacheInv' /\ Len(cache'.index) = n + 1 /\ cache'.index[n + 1] = NewRef(cache, f)
      /\ cache'.arena[cache.used] = <<f.data, 0>>
      /\ \A i \in 1 .. n :
           /\ cache'.index[i] = cache.index[i]
           /\ cache'.arena[cache.index[i].offset] = cache.arena[cache.index[i].offset]
  BY AddCache
<1>2. n \in Nat /\ ConfigRefs = {i \in 1 .. n : cache.index[i].variant = "config"}
  BY RefsDomain
<1>3. ConfigRefs' = {i \in 1 .. n + 1 : cache'.index[i].variant = "config"}
  BY <1>1, RefsDomainNext
<1>4. cache'.index[n + 1].variant = "config" /\ cache'.index[n + 1].offset = cache.used
  BY <1>1 DEF NewRef
<1>5. FirstByte(n + 1)'[1] = k + 1
  BY <1>1, <1>4 DEF FirstByte
<1>6. \A i \in ConfigRefs : i \in ConfigRefs' /\ i \in 1 .. n /\ FirstByte(i)' = FirstByte(i)
  BY <1>1, <1>2, <1>3 DEF FirstByte
<1>7. \A i \in ConfigRefs' : i \in ConfigRefs \/ i = n + 1
  BY <1>1, <1>2, <1>3
<1>8. n + 1 \in ConfigRefs'
  BY <1>2, <1>3, <1>4
<1> DEFINE at(i) == FirstByte(i)[1]
           new(i) == FirstByte(i)'[1]
           C == ConfigRefs
           D == ConfigRefs'
<1>9. /\ \A i \in C : at(i) \in 1 .. k
      /\ \A p \in 1 .. k : \E i \in C : at(i) = p
      /\ \A i, j \in C : i < j => at(i) < at(j)
      /\ \A i \in C : i \in D /\ i \in 1 .. n /\ new(i) = at(i)
      /\ \A i \in D : i \in C \/ i = n + 1
      /\ n + 1 \in D /\ new(n + 1) = k + 1
  BY <1>5, <1>6, <1>7, <1>8 DEF StoredUpTo
<1> HIDE DEF at, new, C, D
<1>10. \A i \in D : new(i) \in 1 .. k + 1
  BY <1>9
<1>11. \A p \in 1 .. k + 1 : \E i \in D : new(i) = p
  <2> SUFFICES ASSUME NEW p \in 1 .. k + 1 PROVE \E i \in D : new(i) = p
    OBVIOUS
  <2>1. CASE p = k + 1
    BY <1>9, <2>1
  <2>2. CASE p \in 1 .. k
    BY <1>9, <2>2
  <2>3. QED
    BY <2>1, <2>2
<1>12. \A i, j \in D : i < j => new(i) < new(j)
  <2> SUFFICES ASSUME NEW i \in D, NEW j \in D, i < j PROVE new(i) < new(j)
    OBVIOUS
  <2>1. CASE i \in C /\ j \in C
    BY <1>9, <2>1
  <2>2. CASE i \in C /\ j = n + 1
    <3>1. new(i) \in 1 .. k /\ new(j) = k + 1
      BY <1>9, <2>2
    <3>2. QED
      BY <3>1
  <2>3. CASE i = n + 1
    <3>1. j \in 1 .. n \/ j = n + 1
      BY <1>9
    <3>2. QED
      BY <2>3, <3>1
  <2>4. QED
    BY <1>9, <2>1, <2>2, <2>3
<1>13. QED
  BY <1>10, <1>11, <1>12 DEF StoredUpTo, new, D

\* Any other frame leaves it as it is.
LEMMA StoreOther ==
  ASSUME CacheInv, NEW f \in BurstFrame, f.variant # "config",
         cache' = cache_add_frame(cache, f), NEW k \in Nat, StoredUpTo(k)
  PROVE  StoredUpTo(k)'
<1> DEFINE n == Len(cache.index)
<1>1. CASE ~ cache_fits(cache, f)
  <2>1. cache' = cache
    BY <1>1 DEF cache_add_frame
  <2>2. QED
    BY <2>1 DEF StoredUpTo, ConfigRefs, FirstByte
<1>2. CASE cache_fits(cache, f)
  <2>1. /\ CacheInv' /\ Len(cache'.index) = n + 1 /\ cache'.index[n + 1] = NewRef(cache, f)
        /\ \A i \in 1 .. n :
             /\ cache'.index[i] = cache.index[i]
             /\ cache'.arena[cache.index[i].offset] = cache.arena[cache.index[i].offset]
    BY <1>2, AddCache
  <2>2. n \in Nat /\ ConfigRefs = {i \in 1 .. n : cache.index[i].variant = "config"}
    BY RefsDomain
  <2>3. ConfigRefs' = {i \in 1 .. n + 1 : cache'.index[i].variant = "config"}
    BY <2>1, RefsDomainNext
  <2>4. cache'.index[n + 1].variant # "config"
    BY <2>1 DEF NewRef
  <2>5. ConfigRefs' = ConfigRefs
    BY <2>1, <2>2, <2>3, <2>4
  <2>6. \A i \in ConfigRefs : FirstByte(i)' = FirstByte(i)
    BY <2>1, <2>2 DEF FirstByte
  <2>7. QED
    BY <2>5, <2>6 DEF StoredUpTo
<1>3. QED
  BY <1>1, <1>2

\* A cache with the same index and arena stores the same.
LEMMA StoreSame ==
  ASSUME cache'.index = cache.index, cache'.arena = cache.arena, NEW k \in Nat, StoredUpTo(k)
  PROVE  StoredUpTo(k)'
<1>1. ConfigRefs' = ConfigRefs /\ \A i \in ConfigRefs : FirstByte(i)' = FirstByte(i)
  BY DEF ConfigRefs, FirstByte
<1>2. QED
  BY <1>1 DEF StoredUpTo

\* A frame that is no config frame joins the line.
LEMMA LineOther ==
  ASSUME CoreInv, NEW f \in DownFrame, f.variant # "config", DownAdd(f),
         NEW a \in Int, NEW b \in Int, LineHas(a, b)
  PROVE  LineHas(a, b)'
<1>1. Len(down) \in Nat
  BY Lengths
<1>2. OnLine' = OnLine
  BY <1>1 DEF OnLine, DownAdd
<1>3. \A i \in OnLine : down'[i] = down[i]
  BY <1>1 DEF OnLine, DownAdd
<1>4. QED
  BY <1>2, <1>3 DEF LineHas

\* The next config frame joins it.
LEMMA LineNext ==
  ASSUME CoreInv, NEW a \in Int, NEW b \in Int, a <= b + 1, LineHas(a, b),
         DownAdd(FromRadio("config", b + 1))
  PROVE  LineHas(a, b + 1)'
<1>0. Len(down) \in Nat
  BY Lengths
<1> SUFFICES ASSUME NEW n \in Nat, n = Len(down) PROVE LineHas(a, b + 1)'
  BY <1>0
<1> DEFINE at(i) == down[i].data
           new(i) == down'[i].data
           C == OnLine
           D == OnLine'
<1>1. /\ \A i \in C : at(i) \in a .. b
      /\ \A p \in a .. b : \E i \in C : at(i) = p
      /\ \A i, j \in C : i < j => at(i) < at(j)
  BY DEF LineHas
<1>2. /\ n + 1 \in 1 .. Len(down') /\ down'[n + 1].variant = "config" /\ down'[n + 1].data = b + 1
  BY DEF DownAdd, FromRadio
<1>3. n + 1 \in D /\ new(n + 1) = b + 1
  BY <1>2 DEF OnLine
<1>4. \A i \in C : i \in D /\ i \in 1 .. n /\ new(i) = at(i)
  BY DEF DownAdd, OnLine
<1>5. \A i \in D : i \in C \/ i = n + 1
  BY DEF DownAdd, OnLine
<1> HIDE DEF at, new, C, D
<1>6. \A i \in D : new(i) \in a .. b + 1
  BY <1>1, <1>3, <1>4, <1>5
<1>7. \A p \in a .. b + 1 : \E i \in D : new(i) = p
  <2> SUFFICES ASSUME NEW p \in a .. b + 1 PROVE \E i \in D : new(i) = p
    OBVIOUS
  <2>1. CASE p = b + 1
    BY <1>3, <2>1
  <2>2. CASE p \in a .. b
    BY <1>1, <1>4, <2>2
  <2>3. QED
    BY <2>1, <2>2
<1>8. \A i, j \in D : i < j => new(i) < new(j)
  <2> SUFFICES ASSUME NEW i \in D, NEW j \in D, i < j PROVE new(i) < new(j)
    OBVIOUS
  <2>1. CASE i \in C /\ j \in C
    BY <1>1, <1>4, <2>1
  <2>2. CASE i \in C /\ j = n + 1
    <3>1. new(i) \in a .. b /\ new(j) = b + 1
      BY <1>1, <1>3, <1>4, <2>2
    <3>2. QED
      BY <3>1
  <2>3. CASE i = n + 1
    <3>1. j \in 1 .. n \/ j = n + 1
      BY <1>4, <1>5
    <3>2. QED
      BY <2>3, <3>1
  <2>4. QED
    BY <1>5, <2>1, <2>2, <2>3
<1>9. QED
  BY <1>6, <1>7, <1>8 DEF LineHas, new, D

\* The config frames left when the oldest frame leaves the line.
LEMMA LineShift ==
  ASSUME CoreInv, DownGone
  PROVE  /\ \A i \in OnLine' : i \in Nat /\ i + 1 \in OnLine /\ i + 1 # 1 /\ down'[i] = down[i + 1]
         /\ \A i \in OnLine : i = 1 \/ (i - 1 \in OnLine' /\ (i - 1) + 1 = i)
<1>1. Len(down) \in Nat
  BY Lengths
<1>2. ASSUME NEW i \in OnLine'
      PROVE  i \in Nat /\ i + 1 \in OnLine /\ i + 1 # 1 /\ down'[i] = down[i + 1]
  <2>1. i \in 1 .. Len(down') /\ down'[i].variant = "config"
    BY DEF OnLine
  <2>2. i \in 1 .. Len(down) - 1 /\ i + 1 \in 1 .. Len(down)
    BY <1>1, <2>1 DEF DownGone
  <2>3. QED
    BY <2>1, <2>2 DEF DownGone, OnLine
<1>3. ASSUME NEW i \in OnLine, i # 1 PROVE i - 1 \in OnLine' /\ (i - 1) + 1 = i
  <2>1. i \in 1 .. Len(down) /\ down[i].variant = "config"
    BY DEF OnLine
  <2>2. i - 1 \in 1 .. Len(down) - 1 /\ (i - 1) + 1 = i
    BY <1>1, <1>3, <2>1
  <2>3. down'[i - 1] = down[i] /\ i - 1 \in 1 .. Len(down')
    BY <2>2 DEF DownGone
  <2>4. QED
    BY <2>1, <2>2, <2>3 DEF OnLine
<1>4. QED
  BY <1>2, <1>3

\* Another frame leaves the line.
LEMMA LineGone ==
  ASSUME CoreInv, DownGone, down[1].variant # "config",
         NEW a \in Int, NEW b \in Int, LineHas(a, b)
  PROVE  LineHas(a, b)'
<1>1. /\ \A i \in OnLine' : i \in Nat /\ i + 1 \in OnLine /\ down'[i] = down[i + 1]
      /\ \A i \in OnLine : i - 1 \in OnLine' /\ (i - 1) + 1 = i
  BY LineShift DEF OnLine
<1>2. \A i \in OnLine' : down'[i].data \in a .. b
  BY <1>1 DEF LineHas
<1>3. ASSUME NEW p \in a .. b PROVE \E i \in OnLine' : down'[i].data = p
  <2>1. PICK i \in OnLine : down[i].data = p
    BY DEF LineHas
  <2>2. QED
    BY <1>1, <2>1
<1>4. ASSUME NEW i \in OnLine', NEW j \in OnLine', i < j PROVE down'[i].data < down'[j].data
  <2>1. i + 1 < j + 1
    BY <1>1, <1>4
  <2>2. QED
    BY <1>1, <2>1 DEF LineHas
<1>5. QED
  BY <1>2, <1>3, <1>4 DEF LineHas

\* The oldest config frame leaves it: it is the first of the run.
LEMMA LineFirstGone ==
  ASSUME CoreInv, DownGone, down[1].variant = "config",
         NEW a \in Int, NEW b \in Int, LineHas(a, b)
  PROVE  down[1].data = a /\ a <= b /\ LineHas(a + 1, b)'
<1>1. /\ \A i \in OnLine' : i \in Nat /\ i + 1 \in OnLine /\ i + 1 # 1 /\ down'[i] = down[i + 1]
      /\ \A i \in OnLine : i = 1 \/ (i - 1 \in OnLine' /\ (i - 1) + 1 = i)
  BY LineShift
<1>2. 1 \in OnLine /\ \A i \in OnLine : i \in Nat /\ i >= 1
  BY Lengths DEF OnLine, DownGone
<1> DEFINE at(i) == down[i].data
<1>3. /\ \A i \in OnLine : at(i) \in a .. b
      /\ \A p \in a .. b : \E i \in OnLine : at(i) = p
      /\ \A i, j \in OnLine : i < j => at(i) < at(j)
  BY DEF LineHas
<1>4. at(1) = a /\ a <= b
  <2> HIDE DEF at
  <2>1. at(1) \in a .. b /\ a \in a .. b
    BY <1>2, <1>3
  <2>2. PICK i \in OnLine : at(i) = a
    BY <1>3, <2>1
  <2>3. i = 1
    BY <1>2, <1>3, <2>1, <2>2
  <2>4. QED
    BY <2>1, <2>2, <2>3
<1>5. ASSUME NEW i \in OnLine' PROVE down'[i].data \in a + 1 .. b
  <2>1. i + 1 \in OnLine /\ 1 < i + 1 /\ down'[i].data = at(i + 1)
    BY <1>1, <1>2
  <2>2. at(1) < at(i + 1) /\ at(i + 1) \in a .. b
    BY <1>2, <1>3, <2>1
  <2> HIDE DEF at
  <2>3. at(i + 1) \in a + 1 .. b
    BY <1>4, <2>2
  <2>4. QED
    BY <2>1, <2>3
<1>6. ASSUME NEW p \in a + 1 .. b PROVE \E i \in OnLine' : down'[i].data = p
  <2>1. p \in a .. b /\ p # a
    OBVIOUS
  <2>2. PICK i \in OnLine : at(i) = p
    BY <1>3, <2>1
  <2>3. i # 1
    BY <1>4, <2>1, <2>2
  <2>4. QED
    BY <1>1, <2>2, <2>3
<1>7. ASSUME NEW i \in OnLine', NEW j \in OnLine', i < j PROVE down'[i].data < down'[j].data
  <2>1. i + 1 < j + 1
    BY <1>1, <1>7
  <2>2. QED
    BY <1>1, <1>3, <2>1
<1>8. QED
  BY <1>4, <1>5, <1>6, <1>7 DEF LineHas

\* The node has sent at most the whole burst.
LEMMA SentType == CoreInv => Sent \in 0 .. BurstLen
  BY Constants DEF CoreInv, LineType, Sent

\* BurstKept after a step, from a prefix and a run of the line.
LEMMA KeptNext ==
  ASSUME NEW b \in Int, Sent' = b, NEW k \in 0 .. b, StoredUpTo(k)', LineHas(k + 1, b)'
  PROVE  BurstKept'
  BY DEF BurstKept, LineHas

\* BurstKept before a step.
LEMMA KeptNow ==
  ASSUME CoreInv, BurstKept
  PROVE  \E b \in 0 .. BurstLen : Sent = b /\ \E k \in 0 .. b : StoredUpTo(k) /\ LineHas(k + 1, b)
<1>1. PICK k \in 0 .. Sent : StoredUpTo(k) /\ LineHas(k + 1, Sent)
  BY DEF BurstKept
<1>2. QED
  BY <1>1, SentType

\* What WholeInv says in the next state.
LEMMA WholeNext ==
  ASSUME losses' = 0 /\ Room' =>
           /\ cache'.ready => StoredUpTo(BurstLen)'
           /\ ~ cache'.ready /\ (node' = "burst" \/ Closed') => BurstKept'
           /\ ~ cache'.ready /\ Asked' => StoredUpTo(0)'
  PROVE  WholeInv'
  BY DEF WholeInv

\* A step that leaves the cache, and the burst under way, as they are.
LEMMA WholeSame ==
  ASSUME CoreInv, WholeInv, UNCHANGED <<cache, losses>>,
         ~ cache.ready /\ (node' = "burst" \/ Closed') =>
           /\ node = "burst" \/ Closed
           /\ Sent' = Sent
           /\ \A a \in Int, b \in Int : LineHas(a, b) => LineHas(a, b)',
         ~ cache.ready /\ Asked' => Asked
  PROVE  WholeInv'
<1> SUFFICES ASSUME losses' = 0, Room'
             PROVE  /\ cache'.ready => StoredUpTo(BurstLen)'
                    /\ ~ cache'.ready /\ (node' = "burst" \/ Closed') => BurstKept'
                    /\ ~ cache'.ready /\ Asked' => StoredUpTo(0)'
  BY WholeNext
<1>1. losses = 0 /\ Room
  BY DEF Room, cache_fits, cache_frame_count
<1>2. \A k \in Nat : StoredUpTo(k) => StoredUpTo(k)'
  BY StoreSame
<1>3. ASSUME cache.ready PROVE StoredUpTo(BurstLen)'
  BY <1>1, <1>2, <1>3, Constants DEF WholeInv
<1>4. ASSUME ~ cache.ready, node' = "burst" \/ Closed' PROVE BurstKept'
  <2>1. BurstKept
    BY <1>1, <1>4 DEF WholeInv
  <2>2. PICK b \in 0 .. BurstLen :
          Sent = b /\ \E k \in 0 .. b : StoredUpTo(k) /\ LineHas(k + 1, b)
    BY <2>1, KeptNow
  <2>3. PICK k \in 0 .. b : StoredUpTo(k) /\ LineHas(k + 1, b)
    BY <2>2
  <2>4. k \in Nat /\ k + 1 \in Int /\ b \in Int
    BY Constants
  <2>5. Sent' = b /\ LineHas(k + 1, b)' /\ StoredUpTo(k)'
    BY <1>2, <1>4, <2>2, <2>3, <2>4
  <2>6. QED
    BY <2>4, <2>5, KeptNext
<1>5. QED
  BY <1>1, <1>2, <1>3, <1>4 DEF WholeInv

\* A message that is no request joins the queue, or none does; the rest of the
\* line stays.
LEMMA WholeSend ==
  ASSUME CoreInv, WholeInv, UNCHANGED <<cache, losses, node, node_pos, down>>,
         txq' = txq \/ \E m \in UpMsg : m.t # "want_config" /\ TxAdd(m)
  PROVE  WholeInv'
<1>1. Asked' => Asked
  <2>1. Len(txq) \in Nat
    BY Lengths
  <2>2. CASE txq' = txq
    BY <2>2 DEF Asked
  <2>3. ASSUME NEW m \in UpMsg, m.t # "want_config", TxAdd(m), Asked' PROVE Asked
    BY <2>1, <2>3 DEF TxAdd, Asked
  <2>4. QED
    BY <2>2, <2>3
<1>2. Sent' = Sent /\ Closed' = Closed /\ \A a \in Int, b \in Int : LineHas(a, b) => LineHas(a, b)'
  BY DEF Sent, Closed, LineHas, OnLine
<1>3. QED
  BY <1>1, <1>2, WholeSame

\* A burst is asked for with an emptied cache, and nothing under way.
LEMMA WholeBegin ==
  ASSUME CoreInv, NoBurst, cache' = cache_begin(cache), UNCHANGED <<node, down>>
  PROVE  WholeInv'
<1>1. StoredUpTo(0)' /\ cache'.ready = FALSE
  BY StoreNone, BeginCache DEF CoreInv
<1>2. node' # "burst" /\ ~ Closed'
  BY DEF NoBurst, Closed, IsBurst
<1>3. QED
  BY <1>1, <1>2, WholeNext

\* The node receives: a request starts the burst at its first frame.
LEMMA WholeReceive ==
  ASSUME CoreInv, BurstInv, WholeInv, NodeReceive
  PROVE  WholeInv'
<1>1. /\ TxGone /\ Head(txq) = txq[1] /\ Head(txq) \in UpMsg
      /\ UNCHANGED <<cache, losses>> /\ Len(txq) \in Nat /\ Len(down) \in Nat
  BY ReceiveEffect, Lengths DEF NodeReceive
<1>2. 1 \in 1 .. Len(txq) /\ txq[1].t \in {"want_config", "heartbeat", "packet", "malformed"}
  BY <1>1 DEF TxGone, UpMsg
<1>3. Asked' => Asked
  BY <1>1 DEF TxGone, Asked
<1>4. CASE txq[1].t = "want_config"
  <2>1. \A j \in 1 .. Len(down) : ~ IsBurst(down[j])
    BY <1>2, <1>4 DEF BurstInv
  <2>2. down' = down /\ node' = "burst" /\ node_pos' = 1
    BY <1>1, <1>4, ReceiveEffect DEF NodeReceive
  <2>3. Asked /\ Sent' = 0
    BY <1>2, <1>4, <2>2 DEF Asked, Sent
  <2>4. LineHas(0 + 1, 0)'
    <3>1. OnLine' = {}
      BY <2>1, <2>2 DEF OnLine, IsBurst
    <3>2. QED
      BY <3>1 DEF LineHas
  <2>5. ASSUME losses' = 0, Room'
        PROVE  /\ cache'.ready => StoredUpTo(BurstLen)'
               /\ ~ cache'.ready /\ (node' = "burst" \/ Closed') => BurstKept'
               /\ ~ cache'.ready /\ Asked' => StoredUpTo(0)'
    <3>1. losses = 0 /\ Room
      BY <1>1, <2>5 DEF Room, cache_fits, cache_frame_count
    <3>2. CASE cache.ready
      BY <1>1, <3>1, <3>2, StoreSame, Constants DEF WholeInv
    <3>3. CASE ~ cache.ready
      <4>1. StoredUpTo(0)
        BY <2>3, <3>1, <3>3 DEF WholeInv
      <4>2. StoredUpTo(0)'
        BY <1>1, <4>1, StoreSame
      <4>3. BurstKept'
        BY <2>3, <2>4, <4>2, KeptNext
      <4>4. QED
        BY <1>1, <3>3, <4>2, <4>3
    <3>4. QED
      BY <3>2, <3>3
  <2>6. QED
    BY <2>5, WholeNext
<1>5. CASE txq[1].t # "want_config"
  <2>1. node' = node /\ node_pos' = node_pos
    BY <1>1, <1>2, <1>5 DEF NodeReceive
  <2>2. down' = down \/ \E d \in {0, 1} : DownAdd(FromRadio("queueStatus", d))
    BY ReceiveEffect
  <2>3. \A d \in {0, 1} : /\ FromRadio("queueStatus", d) \in DownFrame
                          /\ FromRadio("queueStatus", d).variant = "queueStatus"
    BY Constants DEF FromRadio, DownFrame, BurstFrame, CachedVariant
  <2>4. \A a \in Int, b \in Int : LineHas(a, b) => LineHas(a, b)'
    <3>1. CASE down' = down
      BY <3>1 DEF LineHas, OnLine
    <3>2. CASE down' # down
      BY <2>2, <2>3, <3>2, LineOther
    <3>3. QED
      BY <3>1, <3>2
  <2>5. Closed' => Closed
    <3>1. CASE down' = down
      BY <3>1 DEF Closed
    <3>2. ASSUME NEW d \in {0, 1}, DownAdd(FromRadio("queueStatus", d)), Closed' PROVE Closed
      BY <1>1, <2>3, <3>2 DEF Closed, DownAdd
    <3>3. QED
      BY <2>2, <3>1, <3>2
  <2>6. Sent' = Sent
    BY <2>1 DEF Sent
  <2>7. QED
    BY <1>1, <1>3, <2>1, <2>4, <2>5, <2>6, WholeSame
<1>6. QED
  BY <1>4, <1>5

\* The node sends the next frame of its burst.
LEMMA WholeContinues ==
  ASSUME CoreInv, BurstInv, WholeInv, NodeBurst
  PROVE  WholeInv'
<1>1. /\ node = "burst" /\ UNCHANGED <<txq, cache, losses>>
      /\ Len(down) \in Nat /\ node_pos \in 1 .. BurstLen + 1 /\ node_nonce \in Nonce
  BY Lengths DEF NodeBurst, session, CoreInv, LineType
<1>2. ~ Asked'
  BY <1>1 DEF BurstInv, Asked
<1> SUFFICES ASSUME losses' = 0, Room'
             PROVE  /\ cache'.ready => StoredUpTo(BurstLen)'
                    /\ ~ cache'.ready => BurstKept'
  BY <1>2, WholeNext
<1>3. losses = 0 /\ Room
  BY <1>1 DEF Room, cache_fits, cache_frame_count
<1>4. CASE cache.ready
  BY <1>1, <1>3, <1>4, StoreSame, Constants DEF WholeInv
<1>5. CASE ~ cache.ready
  <2>1. BurstKept
    BY <1>1, <1>3, <1>5 DEF WholeInv
  <2>2. PICK b \in 0 .. BurstLen :
          Sent = b /\ \E k \in 0 .. b : StoredUpTo(k) /\ LineHas(k + 1, b)
    BY <2>1, KeptNow
  <2>3. PICK k \in 0 .. b : StoredUpTo(k) /\ LineHas(k + 1, b)
    BY <2>2
  <2>4. k \in Nat /\ k + 1 \in Int /\ b \in Int /\ b + 1 \in Int /\ node_pos = b + 1
    BY <1>1, <2>2, Constants DEF Sent
  <2>5. StoredUpTo(k)'
    BY <1>1, <2>3, <2>4, StoreSame
  <2>6. CASE node_pos <= BurstLen
    <3>1. DownAdd(FromRadio("config", b + 1)) /\ node' = "burst" /\ node_pos' = (b + 1) + 1
      BY <1>1, <2>4, <2>6, NodeEffect, Constants DEF NodeBurst
    <3>2. k + 1 <= b + 1 /\ k \in 0 .. b + 1
      BY <2>4
    <3>3. LineHas(k + 1, b + 1)'
      BY <2>3, <2>4, <3>1, <3>2, LineNext
    <3>4. Sent' = b + 1
      BY <2>4, <3>1 DEF Sent
    <3>5. BurstKept'
      BY <2>4, <2>5, <3>2, <3>3, <3>4, KeptNext
    <3>6. QED
      BY <1>1, <1>5, <3>5
  <2>7. CASE ~ (node_pos <= BurstLen)
    <3>1. DownAdd(FromRadio("config_complete", node_nonce)) /\ node' = "open" /\ b = BurstLen
      BY <1>1, <2>4, <2>7, NodeEffect, Constants DEF NodeBurst
    <3>2. /\ FromRadio("config_complete", node_nonce) \in DownFrame
          /\ FromRadio("config_complete", node_nonce).variant # "config"
      <4>1. node_nonce \in 0 .. BurstLen + NonceMax
        BY <1>1, Constants DEF Nonce
      <4>2. QED
        BY <4>1 DEF FromRadio, DownFrame, BurstFrame, CachedVariant
    <3>3. LineHas(k + 1, b)'
      BY <2>3, <2>4, <3>1, <3>2, LineOther
    <3>4. Sent' = b
      BY <3>1 DEF Sent
    <3>5. BurstKept'
      BY <2>4, <2>5, <3>3, <3>4, KeptNext
    <3>6. QED
      BY <1>1, <1>5, <3>5
  <2>8. QED
    BY <2>6, <2>7
<1>6. QED
  BY <1>4, <1>5

\* Mesh packets, reboots and serial timeouts: a reboot in mid-burst leaves no
\* terminator behind.
LEMMA WholeNode ==
  ASSUME CoreInv, BurstInv, WholeInv, NodePacket \/ NodeReboot \/ NodeTimeout
  PROVE  WholeInv'
<1>1. UNCHANGED <<txq, cache, losses>> /\ Len(down) \in Nat /\ (node' = "burst" => node = "burst")
  BY Lengths DEF NodePacket, NodeReboot, NodeTimeout, session
<1>2. \/ down' = down
      \/ \E f \in DownFrame : f.variant \in {"packet", "rebooted"} /\ DownAdd(f)
  <2>1. /\ PacketFrame \in DownFrame /\ PacketFrame.variant = "packet"
        /\ FromRadio("rebooted", 0) \in DownFrame /\ FromRadio("rebooted", 0).variant = "rebooted"
    BY Constants DEF FromRadio, PacketFrame, DownFrame, BurstFrame, CachedVariant
  <2>2. QED
    BY <2>1, NodeEffect DEF NodeTimeout
<1>3. \A a \in Int, b \in Int : LineHas(a, b) => LineHas(a, b)'
  <2>1. CASE down' = down
    BY <2>1 DEF LineHas, OnLine
  <2>2. CASE down' # down
    BY <1>2, <2>2, LineOther
  <2>3. QED
    BY <2>1, <2>2
<1>4. Closed' => Closed
  <2>1. CASE down' = down
    BY <2>1 DEF Closed
  <2>2. ASSUME NEW f \in DownFrame, f.variant \in {"packet", "rebooted"}, DownAdd(f), Closed'
        PROVE  Closed
    BY <1>1, <2>2 DEF Closed, DownAdd
  <2>3. QED
    BY <1>2, <2>1, <2>2
<1>5. ASSUME node' = "burst" \/ Closed' PROVE Sent' = Sent /\ (node = "burst" \/ Closed)
  <2>1. CASE node' = "burst"
    BY <1>1, <2>1 DEF Sent, NodePacket, NodeReboot, NodeTimeout
  <2>2. CASE node' # "burst"
    <3>1. Closed /\ node # "burst"
      BY <1>4, <1>5, <2>2 DEF Closed, BurstInv
    <3>2. QED
      BY <2>2, <3>1 DEF Sent
  <2>3. QED
    BY <2>1, <2>2
<1>6. Asked' = Asked
  BY <1>1 DEF Asked
<1>7. QED
  BY <1>1, <1>3, <1>5, <1>6, WholeSame

\* A terminator on the line was there before the oldest frame left.
LEMMA ClosedShift ==
  ASSUME CoreInv, DownGone, Closed'
  PROVE  Closed
<1>1. Len(down) \in Nat
  BY Lengths
<1>2. PICK i \in 1 .. Len(down') : down'[i].variant = "config_complete"
  BY DEF Closed
<1>3. i + 1 \in 1 .. Len(down) /\ down[i + 1].variant = "config_complete"
  BY <1>1, <1>2 DEF DownGone
<1>4. QED
  BY <1>3 DEF Closed

\* The terminator comes last: with it at the head of the line the cache holds
\* the whole burst.
LEMMA WholeAtTerminator ==
  ASSUME CoreInv, BurstInv, BurstKept, Len(down) >= 1, down[1].variant = "config_complete"
  PROVE  StoredUpTo(BurstLen)
<1>1. Len(down) \in Nat /\ 1 \in 1 .. Len(down) /\ BurstLen \in Nat
  BY Lengths, Constants
<1>2. node # "burst" /\ \A j \in 1 + 1 .. Len(down) : ~ IsBurst(down[j])
  BY <1>1 DEF BurstInv
<1>3. OnLine = {}
  <2>1. ASSUME NEW i \in OnLine PROVE FALSE
    <3>1. i \in 1 .. Len(down) /\ down[i].variant = "config"
      BY <2>1 DEF OnLine
    <3>2. i # 1 /\ IsBurst(down[i])
      BY <3>1 DEF IsBurst
    <3>3. i \in 1 + 1 .. Len(down)
      BY <1>1, <3>1, <3>2
    <3>4. QED
      BY <1>2, <3>2, <3>3
  <2>2. QED
    BY <2>1
<1>4. Sent = BurstLen
  BY <1>2 DEF Sent
<1>5. PICK k \in 0 .. BurstLen : StoredUpTo(k) /\ LineHas(k + 1, BurstLen)
  BY <1>4 DEF BurstKept
<1>6. \A p \in k + 1 .. BurstLen : FALSE
  BY <1>3, <1>5 DEF LineHas
<1>7. k = BurstLen
  BY <1>1, <1>6
<1>8. QED
  BY <1>5, <1>7

\* The boot fetch takes in the oldest frame of the line.
LEMMA WholeConsume ==
  ASSUME CoreInv, BurstInv, WholeInv, DownGone, ~ cache.ready,
         NEW f \in BurstFrame, f = down[1], cache' = cache_add_frame(cache, f),
         UNCHANGED <<losses, node, node_pos, txq>>
  PROVE  WholeInv'
<1>1. /\ CacheInv /\ cache'.ready = cache.ready /\ 1 \in 1 .. Len(down)
      /\ Len(down) \in Nat /\ BurstLen \in Nat
  BY AddOrRefuse, Lengths, Constants DEF CoreInv, DownGone
<1>2. Sent' = Sent /\ Asked' = Asked
  BY DEF Sent, Asked
<1>3. ASSUME losses' = 0, Room' PROVE losses = 0 /\ cache_fits(cache, f) /\ Room
  <2>1. CASE cache_fits(cache, f)
    BY <1>3, <2>1, RoomIsFits
  <2>2. CASE ~ cache_fits(cache, f)
    <3>1. cache' = cache
      BY <2>2 DEF cache_add_frame
    <3>2. Room
      BY <1>3, <3>1 DEF Room, cache_fits, cache_frame_count
    <3>3. QED
      BY <2>2, <3>2, RoomIsFits
  <2>3. QED
    BY <2>1, <2>2
<1>4. ASSUME losses' = 0, Room', node' = "burst" \/ Closed' PROVE BurstKept'
  <2>1. losses = 0 /\ cache_fits(cache, f) /\ Room
    BY <1>3, <1>4
  <2>2. node = "burst" \/ Closed
    BY <1>4, ClosedShift
  <2>3. BurstKept
    BY <2>1, <2>2 DEF WholeInv
  <2>4. PICK b \in 0 .. BurstLen :
          Sent = b /\ \E k \in 0 .. b : StoredUpTo(k) /\ LineHas(k + 1, b)
    BY <2>3, KeptNow
  <2>5. PICK k \in 0 .. b : StoredUpTo(k) /\ LineHas(k + 1, b)
    BY <2>4
  <2>6. k \in Nat /\ k + 1 \in Int /\ b \in Int /\ Sent' = b
    BY <1>1, <1>2, <2>4
  <2>7. CASE f.variant = "config"
    <3>1. f.data = k + 1 /\ k + 1 <= b /\ LineHas((k + 1) + 1, b)'
      BY <2>5, <2>6, <2>7, LineFirstGone
    <3>2. StoredUpTo(k + 1)'
      BY <1>1, <2>1, <2>5, <2>6, <2>7, <3>1, StoreNext
    <3>3. k + 1 \in 0 .. b
      BY <2>6, <3>1
    <3>4. QED
      BY <2>6, <3>1, <3>2, <3>3, KeptNext
  <2>8. CASE f.variant # "config"
    <3>1. LineHas(k + 1, b)'
      BY <2>5, <2>6, <2>8, LineGone
    <3>2. StoredUpTo(k)'
      BY <1>1, <2>5, <2>6, <2>8, StoreOther
    <3>3. QED
      BY <2>6, <3>1, <3>2, KeptNext
  <2>9. QED
    BY <2>7, <2>8
<1>5. ASSUME losses' = 0, Room', Asked' PROVE StoredUpTo(0)'
  <2>1. losses = 0 /\ Room /\ Asked
    BY <1>2, <1>3, <1>5
  <2>2. StoredUpTo(0)
    BY <2>1 DEF WholeInv
  <2>3. f.variant # "config"
    <3>1. ~ IsBurst(down[1])
      BY <1>1, <2>1 DEF BurstInv, Asked
    <3>2. QED
      BY <3>1 DEF IsBurst
  <2>4. QED
    BY <1>1, <2>2, <2>3, StoreOther
<1>6. QED
  BY <1>1, <1>4, <1>5, WholeNext

\* The work queue handles a frame.
LEMMA WholeDispatch ==
  ASSUME CoreInv, BurstInv, WholeInv, "start" \in Timing, Dispatch
  PROVE  WholeInv'
<1> DEFINE f == Head(down)
<1>1. /\ DownGone /\ f = down[1] /\ f \in DownFrame /\ router_dispatch(f) /\ MayDispatch
      /\ UNCHANGED <<node, node_pos, losses, main>> /\ main # "starting"
  BY DispatchEffect DEF Dispatch, MayDispatch
<1>2. Len(down) \in Nat /\ Len(down) >= 1 /\ 1 \in 1 .. Len(down) /\ BurstLen \in Nat
  BY <1>1, Lengths, Constants DEF DownGone
<1>3. Sent' = Sent
  BY <1>1 DEF Sent
\* Before it is published, the cache is left alone only by frames that are not
\* part of a burst.
<1>4. CASE cache' = cache /\ route(f) # "consumed" /\ (cache.ready \/ txq' = txq)
  <2>1. ASSUME ~ cache.ready, node' = "burst" \/ Closed'
        PROVE  /\ node = "burst" \/ Closed
               /\ \A a \in Int, b \in Int : LineHas(a, b) => LineHas(a, b)'
    <3>1. node = "burst" \/ Closed
      BY <1>1, <2>1, ClosedShift
    <3>2. FetchOpen
      BY <3>1 DEF BurstInv, Closed, IsBurst
    <3>3. Fetching
      BY <1>1, <3>2 DEF FetchOpen
    <3>4. down[1].variant # "config"
      BY <1>1, <1>4, <3>3, RouteOf
    <3>5. QED
      BY <1>1, <3>1, <3>4, LineGone
  <2>2. ASSUME ~ cache.ready, Asked' PROVE Asked
    BY <1>4, <2>2 DEF Asked
  <2>3. QED
    BY <1>1, <1>3, <1>4, <2>1, <2>2, WholeSame
<1>5. CASE route(f) = "consumed" /\ upstream_on_fromradio(f)
  <2>1. Fetching /\ f \in BurstFrame /\ txq' = txq
    <3>1. Fetching /\ f.variant \notin {"packet", "garbled"}
      BY <1>1, <1>5, RouteOf
    <3>2. QED
      BY <1>1, <1>5, <3>1 DEF DownFrame, PacketFrame, GarbledFrame, FromRadio, upstream_on_fromradio
  <2>2. CASE s_state = "FETCHING"
    <3>1. ~ cache.ready
      BY <2>2 DEF CoreInv, LiveHasCache
    <3>2. CASE ConsumeFrame(f)
      <4>1. cache' = cache_add_frame(cache, f)
        BY <2>2, <3>2 DEF ConsumeFrame
      <4>2. QED
        BY <1>1, <2>1, <3>1, <4>1, WholeConsume
    <3>3. CASE CloseBurst /\ f.variant = "config_complete"
      <4>1. /\ cache'.ready = TRUE /\ cache'.index = cache.index /\ cache'.arena = cache.arena
            /\ cache'.used = cache.used
        BY <2>2, <3>3, MarkReadyCache DEF CloseBurst, CoreInv
      <4>2. ASSUME losses' = 0, Room' PROVE StoredUpTo(BurstLen)'
        <5>1. losses = 0 /\ Room
          BY <1>1, <4>1, <4>2 DEF Room, cache_fits, cache_frame_count
        <5>2. Closed
          BY <1>1, <1>2, <3>3 DEF Closed
        <5>3. BurstKept
          BY <3>1, <5>1, <5>2 DEF WholeInv
        <5>4. StoredUpTo(BurstLen)
          BY <1>1, <1>2, <3>3, <5>3, WholeAtTerminator
        <5>5. QED
          BY <1>2, <4>1, <5>4, StoreSame
      <4>3. QED
        BY <4>1, <4>2, WholeNext
    <3>4. QED
      BY <1>5, <3>2, <3>3 DEF upstream_on_fromradio
  <2>3. CASE s_state = "REFETCHING"
    <3>1. cache.ready
      BY <2>3 DEF CoreInv, LiveHasCache
    <3>2. CASE cache' = cache
      BY <1>1, <3>1, <3>2, WholeSame
    <3>3. CASE cache' = cache_add_frame(cache, f) /\ f.variant # "config" /\ cache' # cache
      <4>1. cache_fits(cache, f) /\ Room
        BY <2>1, <3>3, RoomIsFits DEF cache_add_frame
      <4>2. cache'.ready
        BY <2>1, <3>1, <3>3, AddOrRefuse DEF CoreInv
      <4>3. ASSUME losses' = 0 PROVE StoredUpTo(BurstLen)'
        <5>1. StoredUpTo(BurstLen)
          BY <1>1, <3>1, <4>1, <4>3 DEF WholeInv
        <5>2. QED
          BY <1>2, <2>1, <3>3, <5>1, StoreOther DEF CoreInv
      <4>4. QED
        BY <4>2, <4>3, WholeNext
    <3>4. QED
      BY <1>5, <2>3, <3>2, <3>3 DEF upstream_on_fromradio, ConsumeFrame, CloseBurst
  <2>4. QED
    BY <2>1, <2>2, <2>3 DEF Fetching
\* A reboot notice starts a recovery only in LIVE, where the cache is published.
<1>6. CASE route(f) = "absorbed" /\ upstream_refetch
  <2>1. cache' = cache
    BY <1>6 DEF upstream_refetch
  <2>2. cache.ready \/ txq' = txq
    BY <1>6, RefetchEffect DEF CoreInv, LiveHasCache
  <2>3. QED
    BY <1>4, <1>6, <2>1, <2>2
<1>7. CASE UNCHANGED <<cache, txq>> /\ route(f) # "consumed"
  BY <1>4, <1>7
<1>8. QED
  BY <1>1, <1>5, <1>6, <1>7 DEF router_dispatch, Swallow, ToPhones, session

\* WholeInv is inductive under the timing that keeps requests apart.
LEMMA NextWhole ==
  ASSUME "start" \in Timing, "retry" \in Timing, CoreInv, BurstInv, WholeInv, [Next]_vars
  PROVE  WholeInv'
<1>1. ASSUME NEW r \in 0 .. NonceMax, MainStart(r) PROVE WholeInv'
  <2>1. ~ FetchOpen /\ UNCHANGED <<down, node>> /\ cache' = cache_begin(cache)
    BY <1>1 DEF MainStart, upstream_session_start_send, FetchOpen, Fetching, CoreInv, BootIsMain
  <2>2. QED
    BY <2>1, ClosedIsQuiet, WholeBegin
<1>2. CASE MainFetching \/ MainStarted
  BY <1>2, WholeSend DEF MainFetching, upstream_session_start_fetching, MainStarted,
                         upstream_session_start_arm
<1>3. CASE Keepalive
  <2>1. /\ proto_encode_heartbeat(s_keepalive_nonce) \in UpMsg
        /\ proto_encode_heartbeat(s_keepalive_nonce).t # "want_config"
    BY DEF proto_encode_heartbeat, ToRadio, UpMsg, CoreInv, SessionType
  <2>2. txq' = txq \/ TxAdd(proto_encode_heartbeat(s_keepalive_nonce))
    BY <1>3, <2>1, SendEffect DEF Keepalive, keepalive_work_handler
  <2>3. UNCHANGED <<cache, losses, node, node_pos, down>>
    BY <1>3 DEF Keepalive, keepalive_work_handler
  <2>4. QED
    BY <2>1, <2>2, <2>3, WholeSend
<1>4. CASE FetchRetry
  <2>1. UNCHANGED <<down, node, node_pos, losses>>
    BY <1>4 DEF FetchRetry, environment
  <2>2. CASE s_state = "FETCHING"
    <3>1. ~ BurstUnderWay /\ cache' = cache_begin(cache)
      BY <1>4, <2>2 DEF FetchRetry, LongEnough, fetch_retry_handler
    <3>2. DOMAIN txq = 1 .. Len(txq) /\ DOMAIN down = 1 .. Len(down)
      BY DEF CoreInv, LineType
    <3>3. NoBurst
      BY <3>1, <3>2 DEF BurstUnderWay, NoBurst, IsBurst
    <3>4. QED
      BY <2>1, <3>1, <3>3, WholeBegin
  <2>3. CASE s_state = "REFETCHING"
    <3>1. cache.ready /\ cache' = cache
      BY <1>4, <2>3 DEF FetchRetry, fetch_retry_handler, CoreInv, LiveHasCache
    <3>2. QED
      BY <2>1, <3>1, WholeSame
  <2>4. CASE ~ Fetching
    <3>1. UNCHANGED <<cache, txq>>
      BY <1>4, <2>4 DEF FetchRetry, fetch_retry_handler, Fetching
    <3>2. QED
      BY <2>1, <3>1, WholeSend
  <2>5. QED
    BY <2>2, <2>3, <2>4 DEF Fetching
<1>5. CASE Liveness
  <2>1. upstream_refetch /\ UNCHANGED <<cache, down, node, node_pos, losses>>
    BY <1>5 DEF Liveness, liveness_handler, upstream_refetch, environment
  <2>2. CASE txq' = txq
    BY <2>1, <2>2, WholeSend
  <2>3. CASE s_state = "LIVE"
    <3>1. cache.ready
      BY <2>3 DEF CoreInv, LiveHasCache
    <3>2. QED
      BY <2>1, <3>1, WholeSame
  <2>4. QED
    BY <2>1, <2>2, <2>3, RefetchEffect
<1>6. CASE Dispatch
  BY <1>6, WholeDispatch
<1>7. ASSUME NEW t \in PhoneWrites, on_toradio_ble(t) PROVE WholeInv'
  <2>1. txq' = txq \/ \E m \in UpMsg : m.t # "want_config" /\ TxAdd(m)
    BY <1>7, PhoneEffect
  <2>2. UNCHANGED <<cache, losses, node, node_pos, down>>
    BY <1>7 DEF on_toradio_ble, environment
  <2>3. QED
    BY <2>1, <2>2, WholeSend
<1>8. CASE NodeReceive
  BY <1>8, WholeReceive
<1>9. CASE NodeBurst
  BY <1>9, WholeContinues
<1>10. CASE NodePacket \/ NodeReboot \/ NodeTimeout
  BY <1>10, WholeNode
<1>11. CASE LoseUp \/ LoseDown
  <2>1. losses \in Nat /\ losses' = losses + 1
    BY <1>11 DEF LoseUp, LoseDown, CoreInv, LineType
  <2>2. losses' # 0
    BY <2>1
  <2>3. QED
    BY <2>2, WholeNext
<1>12. CASE UNCHANGED vars
  <2>1. UNCHANGED <<cache, losses, node, node_pos, down, txq>>
    BY <1>12 DEF vars
  <2>2. QED
    BY <2>1, WholeSend
<1>13. QED
  BY <1>1, <1>2, <1>3, <1>4, <1>5, <1>6, <1>7, <1>8, <1>9, <1>10, <1>11, <1>12 DEF Next

\* While nothing was lost and the cache has room, every frame of a burst under
\* way is in the cache or on the line, once and in order.
THEOREM WholeInvariant ==
  ASSUME "start" \in Timing, "retry" \in Timing, "burst" \notin NodeAtBoot
  PROVE  Spec => []WholeInv
<1>1. Init => WholeInv
  <2> SUFFICES ASSUME Init PROVE WholeInv
    OBVIOUS
  <2>1. /\ cache.ready = FALSE /\ node # "burst" /\ Len(down) = 0 /\ Len(txq) = 0
    BY DEF Init, SessionInit, EmptyCache
  <2>2. QED
    BY <2>1 DEF WholeInv, Closed, Asked
<1>2. CoreInv /\ BurstInv /\ WholeInv /\ [Next]_vars => WholeInv'
  BY NextWhole
<1>3. QED
  BY <1>1, <1>2, CoreInvariant, BurstInvariant, PTL DEF Spec

\* Unless the line lost a frame or the cache is full, a published cache holds
\* the whole burst of the node, each frame once and in order, whatever reboots
\* and watchdog restarts came before.
THEOREM PublishedWhole ==
  ASSUME "start" \in Timing, "retry" \in Timing, "burst" \notin NodeAtBoot
  PROVE  Spec => []PublishedIsWholeBurst
<1>1. ASSUME CoreInv, WholeInv PROVE PublishedIsWholeBurst
  <2> SUFFICES ASSUME losses = 0, cache.ready, cache_fits(cache, FromRadio("config", 1))
               PROVE  /\ {FirstByte(i) : i \in ConfigRefs} = (1 .. BurstLen) \X {0}
                      /\ \A i, j \in ConfigRefs : i < j => FirstByte(i)[1] < FirstByte(j)[1]
    BY DEF PublishedIsWholeBurst
  <2>1. StoredUpTo(BurstLen)
    BY <1>1 DEF WholeInv, Room
  <2>2. \A i \in ConfigRefs : FirstByte(i) \in (0 .. BurstLen + NonceMax) \X {0}
    BY <1>1, RefsDomain DEF CoreInv, CacheInv, FirstByte
  <2>3. \A i \in ConfigRefs : FirstByte(i) = <<FirstByte(i)[1], 0>>
    BY <2>2
  <2>4. {FirstByte(i) : i \in ConfigRefs} \subseteq (1 .. BurstLen) \X {0}
    BY <2>1, <2>3 DEF StoredUpTo
  <2>5. ASSUME NEW x \in (1 .. BurstLen) \X {0} PROVE x \in {FirstByte(i) : i \in ConfigRefs}
    <3>1. PICK p \in 1 .. BurstLen : x = <<p, 0>>
      OBVIOUS
    <3>2. PICK i \in ConfigRefs : FirstByte(i)[1] = p
      BY <2>1 DEF StoredUpTo
    <3>3. x = FirstByte(i)
      BY <2>3, <3>1, <3>2
    <3>4. QED
      BY <3>3
  <2>6. {FirstByte(i) : i \in ConfigRefs} = (1 .. BurstLen) \X {0}
    BY <2>4, <2>5
  <2>7. QED
    BY <2>1, <2>6 DEF StoredUpTo
<1>2. CoreInv /\ WholeInv => PublishedIsWholeBurst
  BY <1>1
<1>3. QED
  BY <1>2, CoreInvariant, WholeInvariant, PTL
=============================================================================

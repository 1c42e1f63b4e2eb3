-------------------------- MODULE BleQueueProofs --------------------------
(***************************************************************************)
(* Proofs about what the phones' queues hold and what the phones read,     *)
(* when the threads are cooperative as in this build: packets for one      *)
(* phone reach no other (PrivateInv), a phone reads live frames in the     *)
(* order they came (OrderInv), and a phone with frames to read has been    *)
(* notified (BellInv).  However the threads are scheduled, a phone that    *)
(* asked for its config reads exactly that before any live frame           *)
(* (ReplayInv).                                                            *)
(***************************************************************************)
EXTENDS BleGattProofs

\* Every entry of a queue, a staged packet or what a phone read is for anybody
\* or for that phone.
Own(q, p) == \A i \in 1 .. Len(q) : q[i].to \in {NoPhone, p}

\* A slot is registered under its phone's id only, and holds its frames only.
PrivateSlot(s) ==
  /\ conns[s].proxy_id \in {ZeroId, IdOf(peer[conns[s].conn])}
  /\ Own(conns[s].queue, peer[conns[s].conn]) /\ Own(conns[s].staged, peer[conns[s].conn])

\* The thread that hands out a packet for a phone does so on that phone's connection.
PrivateSys ==
  /\ sys.pc \in {"find", "lock"} => /\ \E s \in Slot : conns[s].conn = sys.conn
                                    /\ sys.to \in {NoPhone, peer[sys.conn]}
  /\ sys.pc = "lock" => conns[sys.slot].conn = sys.conn
  /\ sys.pc = "bcast" => sys.to = NoPhone

\* The inductive invariant of private packets.
PrivateInv ==
  /\ \A s \in Held : PrivateSlot(s)
  /\ \A p \in Phone : Own(got[p], p)
  /\ PrivateSys

----------------------------------------------------------------------------
(* Sequences of entries *)

\* An empty queue holds nothing that is another's.
LEMMA OwnEmpty ==
  ASSUME NEW p
  PROVE  Own(<<>>, p)
  BY DEF Own

\* One more entry of one's own.
LEMMA OwnAppend ==
  ASSUME NEW q \in Seq(QEntry), NEW e \in QEntry, NEW p, Own(q, p), e.to \in {NoPhone, p}
  PROVE  Own(Append(q, e), p)
<1>1. Len(Append(q, e)) = Len(q) + 1 /\ Len(q) \in Nat
  OBVIOUS
<1>2. ASSUME NEW i \in 1 .. Len(q) + 1
      PROVE  Append(q, e)[i] = IF i <= Len(q) THEN q[i] ELSE e
  <2>1. CASE i <= Len(q)
    BY <1>1, <2>1
  <2>2. CASE i = Len(q) + 1
    BY <1>1, <2>2
  <2>3. QED
    BY <1>1, <2>1, <2>2
<1>3. QED
  BY <1>1, <1>2 DEF Own

\* An entry is taken from the front.
LEMMA OwnTail ==
  ASSUME NEW q \in Seq(QEntry), Len(q) >= 1, NEW p, Own(q, p)
  PROVE  Own(Tail(q), p) /\ Own(<<Head(q)>>, p)
<1>1. Len(Tail(q)) = Len(q) - 1 /\ \A i \in 1 .. Len(Tail(q)) : Tail(q)[i] = q[i + 1]
  BY HeadTailProperties
<1>2. Head(q) = q[1] /\ Len(q) \in Nat
  BY HeadTailProperties
<1>3. Own(Tail(q), p)
  <2> SUFFICES ASSUME NEW i \in 1 .. Len(Tail(q)) PROVE Tail(q)[i].to \in {NoPhone, p}
    BY DEF Own
  <2>1. i + 1 \in 1 .. Len(q)
    BY <1>1, <1>2
  <2>2. QED
    BY <1>1, <2>1 DEF Own
<1>4. Own(<<Head(q)>>, p)
  <2>1. q[1].to \in {NoPhone, p}
    BY <1>2 DEF Own
  <2>2. QED
    BY <1>2, <2>1 DEF Own
<1>5. QED
  BY <1>3, <1>4

\* What was read is added to what had been read.
LEMMA OwnConcat ==
  ASSUME NEW q \in Seq(QEntry), NEW r \in Seq(QEntry), NEW p, Own(q, p), Own(r, p)
  PROVE  Own(q \o r, p)
<1>1. Len(q \o r) = Len(q) + Len(r) /\ Len(q) \in Nat /\ Len(r) \in Nat
  BY ConcatProperties
<1>2. \A i \in 1 .. Len(q) + Len(r) : (q \o r)[i] = IF i <= Len(q) THEN q[i] ELSE r[i - Len(q)]
  BY ConcatProperties
<1>3. QED
  <2> SUFFICES ASSUME NEW i \in 1 .. Len(q) + Len(r) PROVE (q \o r)[i].to \in {NoPhone, p}
    BY <1>1 DEF Own
  <2>1. CASE i <= Len(q)
    BY <1>1, <1>2, <2>1 DEF Own
  <2>2. CASE ~ (i <= Len(q))
    <3>1. i - Len(q) \in 1 .. Len(r)
      BY <1>1, <2>2
    <3>2. QED
      BY <1>2, <2>2, <3>1 DEF Own
  <2>3. QED
    BY <2>1, <2>2

\* A read leaves a slot with entries that were there, and serves nobody else's.
LEMMA OwnReads ==
  ASSUME NEW pc \in SlotRecord, NEW out, NEW r, Reads(pc, out, r), NEW p, Own(pc.queue, p)
  PROVE  Own(r.queue, p) /\ Own(out, p)
<1>1. pc.queue \in Seq(QEntry)
  BY DEF SlotRecord
<1>2. CASE /\ r.queue = pc.queue
           /\ \A i \in 1 .. Len(out) : out[i].kind # "live" /\ out[i].to = NoPhone
  BY <1>2 DEF Own
<1>3. CASE Len(pc.queue) >= 1 /\ r.queue = Tail(pc.queue) /\ out = <<Head(pc.queue)>>
  BY <1>1, <1>3, OwnTail
<1>4. QED
  BY <1>2, <1>3 DEF Reads

----------------------------------------------------------------------------
(* Who a frame is for *)

\* A frame that goes to one phone carries a header with that id.
LEMMA AddresseeIs ==
  ASSUME NEW m, ~ proxy_id_is_zero(Addressee(proto_decode_fromradio(m)[2]))
  PROVE  /\ m.variant = "packet" /\ m.data.tag = "decoded" /\ m.data.portnum = PROXY_PORTNUM
         /\ ~ (Len(m.data.payload) < PROXY_HEADER_SIZE) /\ m.data.payload[1] = PROXY_VERSION
         /\ Addressee(proto_decode_fromradio(m)[2]) = IdAt(m.data.payload, PROXY_OFF_DST)
<1> DEFINE info == proto_decode_fromradio(m)[2]
           hdr == proxy_header_parse(info.payload_bytes)
<1>1. proxy_id_is_zero(ZeroId)
  BY DEF proxy_id_is_zero, ZeroId
<1>2. /\ info.which_variant = "packet" /\ info.is_decoded = TRUE
      /\ info.portnum = PROXY_PORTNUM /\ hdr.ok = TRUE /\ Addressee(info) = hdr.dst
  <2>0. ~ proxy_id_is_zero(Addressee(info))
    OBVIOUS
  <2>1. info.is_decoded \in BOOLEAN
    BY DEF proto_decode_fromradio, ZeroInfo
  <2>2. hdr.ok \in BOOLEAN
    BY DEF proxy_header_parse, NoHeader
  <2> HIDE DEF info
  <2>3. QED
    BY <1>1, <2>0, <2>1, <2>2 DEF Addressee
<1>3. /\ m.variant = "packet" /\ m.data.tag = "decoded" /\ m.data.portnum = info.portnum
      /\ info.payload_bytes = m.data.payload
  BY <1>2 DEF proto_decode_fromradio, ZeroInfo
<1> HIDE DEF info
<1>4. /\ ~ (Len(info.payload_bytes) < PROXY_HEADER_SIZE) /\ info.payload_bytes[1] = PROXY_VERSION
      /\ hdr.dst = IdAt(info.payload_bytes, PROXY_OFF_DST)
  BY <1>2 DEF proxy_header_parse, NoHeader
<1> HIDE DEF hdr
<1>5. QED
  BY <1>2, <1>3, <1>4 DEF info

\* A frame is unicast to the phone that its sender built the header for.
LEMMA UnicastFor ==
  ASSUME SlotInv, PrivateInv, NEW f \in Frames,
         get_conn_by_proxy_id(Addressee(proto_decode_fromradio(f.msg)[2])) # NoConn
  PROVE  LET c == get_conn_by_proxy_id(Addressee(proto_decode_fromradio(f.msg)[2])) IN
         f.for = peer[c] /\ \E s \in Slot : conns[s].conn = c
<1> DEFINE id == Addressee(proto_decode_fromradio(f.msg)[2])
           c == get_conn_by_proxy_id(id)
<1>1. PICK s \in Slot : /\ ~ proxy_id_is_zero(id)
                        /\ conns[s].conn # NoConn /\ proxy_id_equal(conns[s].proxy_id, id)
                        /\ c = conns[s].conn
  BY RegisteredConn
<1>2. s \in Held /\ BleType /\ LinkInv
  BY <1>1 DEF Held, SlotInv
<1>3. c \in Conn /\ peer[c] \in Phone
  BY <1>1, <1>2, HeldConn DEF LinkInv
<1>4. id = IdAt(f.msg.data.payload, PROXY_OFF_DST)
  BY <1>1, AddresseeIs
<1>5. AddressedTo(f, peer[c])
  <2>1. conns[s].proxy_id \in {ZeroId, IdOf(peer[c])}
    BY <1>1, <1>2 DEF PrivateInv, PrivateSlot
  <2>2. conns[s].proxy_id # ZeroId
    BY <1>1 DEF proxy_id_equal, proxy_id_is_zero, ZeroId
  <2>3. \A i \in 1 .. PROXY_ID_SIZE : IdOf(peer[c])[i] = IdAt(f.msg.data.payload, PROXY_OFF_DST)[i]
    BY <1>1, <1>4, <2>1, <2>2 DEF proxy_id_equal
  <2> HIDE DEF c
  <2>4. IdOf(peer[c]) = IdAt(f.msg.data.payload, PROXY_OFF_DST)
    BY <2>3 DEF IdOf, IdAt
  <2>5. QED
    BY <1>1, <2>4, AddresseeIs DEF AddressedTo
<1>6. QED
  BY <1>1, <1>3, <1>5, FramesAssumption

----------------------------------------------------------------------------
(* Unicast frames stay private *)

\* When threads are cooperative, BT RX runs only while the work queue is idle or
\* inside a call into the stack.
LEMMA RxAtYield ==
  ASSUME ~ Preemptive, RxRuns
  PROVE  sys.pc \in {"idle", "ring", "drop"}
  BY DEF RxRuns

\* One slot changes, and stays private.
LEMMA PrivateSlots ==
  ASSUME PrivateInv, UNCHANGED peer, NEW s \in Slot, Others(s),
         s \in Held' => PrivateSlot(s)'
  PROVE  \A t \in Held' : PrivateSlot(t)'
<1> SUFFICES ASSUME NEW t \in Held', t # s PROVE PrivateSlot(t)'
  OBVIOUS
<1>1. t \in Held /\ conns'[t] = conns[t]
  BY DEF Held, Others
<1>2. PrivateSlot(t)
  BY <1>1 DEF PrivateInv
<1>3. QED
  BY <1>1, <1>2 DEF PrivateSlot

\* Slots and phones unchanged.
LEMMA PrivateKept ==
  ASSUME PrivateInv, UNCHANGED <<conns, peer, got>>, PrivateSys'
  PROVE  PrivateInv'
<1>1. Held' = Held
  BY DEF Held
<1>2. \A s \in Held : PrivateSlot(s)' <=> PrivateSlot(s)
  BY DEF PrivateSlot
<1>3. QED
  BY <1>1, <1>2 DEF PrivateInv

\* The thread and the slots unchanged.
LEMMA PrivateSysKept ==
  ASSUME PrivateSys, UNCHANGED <<conns, peer, sys>>
  PROVE  PrivateSys'
  BY DEF PrivateSys

\* The thread is handing out nothing.
LEMMA PrivateSysQuiet ==
  ASSUME sys'.pc \notin {"bcast", "find", "lock"}
  PROVE  PrivateSys'
  BY DEF PrivateSys

\* After a recipient the next slot of a broadcast is looked at, or nothing is.
LEMMA PrivateOnward ==
  ASSUME sys \in SysRecord, sys' = Onward \/ sys' = Idle
  PROVE  PrivateSys' /\ sys'.pc \in {"idle", "bcast"}
<1>1. sys'.to = NoPhone /\ sys'.pc \in {"idle", "bcast"}
  <2>1. 0 \in Nat
    OBVIOUS
  <2>2. QED
    BY <2>1, OnwardType, IdleType
<1>2. QED
  BY <1>1 DEF PrivateSys

\* A newcomer's slot is empty and unregistered.
LEMMA PrivateConnect ==
  ASSUME ~ Preemptive, SlotInv, PrivateInv, NEW p \in Phone, NEW c \in Conn, Connect(p, c)
  PROVE  PrivateInv'
<1>0. BleType /\ LinkInv /\ CountInv
  BY DEF SlotInv
<1>1. PICK s \in Slot : /\ Others(s) /\ conns'[s].conn = c /\ conns'[s].proxy_id = ZeroId
                        /\ conns'[s].queue = <<>> /\ conns'[s].staged = <<>>
  BY <1>0, ConnectEffect
<1>2. \A t \in Slot : conns[t].conn # c
  BY <1>0, ConnectLink
<1>3. /\ peer' = [peer EXCEPT ![c] = p] /\ got' = [got EXCEPT ![p] = <<>>] /\ sys' = sys /\ RxRuns
  BY DEF Connect
<1>4. \A t \in Held' : PrivateSlot(t)'
  <2> SUFFICES ASSUME NEW t \in Held' PROVE PrivateSlot(t)'
    OBVIOUS
  <2>1. CASE t = s
    BY <1>1, <2>1, OwnEmpty DEF PrivateSlot
  <2>2. CASE t # s
    <3>1. t \in Held /\ conns'[t] = conns[t]
      BY <1>1, <2>2 DEF Held, Others
    <3>2. conns[t].conn \in Conn /\ conns[t].conn # c
      BY <1>0, <1>2, <3>1, HeldConn
    <3>3. peer'[conns[t].conn] = peer[conns[t].conn]
      BY <1>0, <1>3, <3>2 DEF BleType, LinkType
    <3>4. PrivateSlot(t)
      BY <3>1 DEF PrivateInv
    <3>5. QED
      BY <3>1, <3>3, <3>4 DEF PrivateSlot
  <2>3. QED
    BY <2>1, <2>2
<1>5. \A q \in Phone : Own(got'[q], q)
  <2> SUFFICES ASSUME NEW q \in Phone PROVE Own(got'[q], q)
    OBVIOUS
  <2>1. got'[q] = got[q] \/ got'[q] = <<>>
    BY <1>0, <1>3 DEF BleType, PhoneType
  <2>2. QED
    BY <2>1, OwnEmpty DEF PrivateInv
<1>6. PrivateSys'
  BY <1>3, RxAtYield, PrivateSysQuiet
<1>7. QED
  BY <1>4, <1>5, <1>6 DEF PrivateInv

\* A released slot is nobody's.
LEMMA PrivateDisconnect ==
  ASSUME ~ Preemptive, SlotInv, PrivateInv, NEW c \in Conn, Disconnected(c)
  PROVE  PrivateInv'
<1>0. BleType /\ LinkInv
  BY DEF SlotInv
<1>1. PICK s \in Slot : Others(s) /\ conns'[s].conn = NoConn
  BY <1>0, DisconnectEffect
<1>2. UNCHANGED <<peer, got, sys>> /\ RxRuns
  BY DEF Disconnected, phones
<1>3. \A t \in Held' : PrivateSlot(t)'
  <2>1. s \notin Held'
    BY <1>1 DEF Held
  <2>2. QED
    BY <1>1, <1>2, <2>1, PrivateSlots
<1>4. PrivateSys'
  BY <1>2, RxAtYield, PrivateSysQuiet
<1>5. QED
  BY <1>2, <1>3, <1>4 DEF PrivateInv

\* A phone writes or reads.
LEMMA PrivatePhone ==
  ASSUME ~ Preemptive, SlotInv, PrivateInv, NEW p \in Phone,
         \/ fromradio_read(p)
         \/ \E n \in Nonces : replay_cached_burst(p, n)
         \/ \E id \in RegWrites(p) : register_proxy_id(p, id)
         \/ request_teardown(p) \/ reply_queuestatus(p)
  PROVE  PrivateInv'
<1>0. BleType /\ LinkInv /\ SlotType /\ PrivateSys
  BY DEF SlotInv, BleType, PrivateInv
<1>1. UNCHANGED <<peer, sys>> /\ RxRuns /\ Connected(p)
  BY DEF fromradio_read, replay_cached_burst, register_proxy_id, request_teardown,
         reply_queuestatus, Write
<1>2. PrivateSys'
  BY <1>1, RxAtYield, PrivateSysQuiet
<1>3. /\ ConnOf(p) \in Conn /\ ConnOf(p) # NoConn /\ peer[ConnOf(p)] = p
  BY <1>1, ConnOfPhone
<1>4. ASSUME NEW s \in Slot, conns[s].conn = ConnOf(p), Others(s),
             got' = got \/ got' = [got EXCEPT ![p] = <<>>],
             conns'[s].conn = conns[s].conn,
             conns'[s].proxy_id \in {conns[s].proxy_id, IdOf(p), ZeroId},
             conns'[s].staged = conns[s].staged, Own(conns'[s].queue, p)
      PROVE  PrivateInv'
  <2>1. s \in Held
    BY <1>3, <1>4 DEF Held
  <2>2. PrivateSlot(s)
    BY <2>1 DEF PrivateInv
  <2>3. PrivateSlot(s)'
    BY <1>1, <1>3, <1>4, <2>2 DEF PrivateSlot
  <2>4. \A t \in Held' : PrivateSlot(t)'
    BY <1>1, <1>4, <2>3, PrivateSlots
  <2>5. \A q \in Phone : Own(got'[q], q)
    <3> SUFFICES ASSUME NEW q \in Phone PROVE Own(got'[q], q)
      OBVIOUS
    <3>1. got'[q] = got[q] \/ got'[q] = <<>>
      BY <1>0, <1>4 DEF BleType, PhoneType
    <3>2. QED
      BY <3>1, OwnEmpty DEF PrivateInv
  <2>6. QED
    BY <1>2, <2>4, <2>5 DEF PrivateInv
<1>5. ASSUME NEW s \in Slot, conns[s].conn = ConnOf(p)
      PROVE  Own(conns[s].queue, p) /\ conns[s] \in SlotRecord /\ conns[s].queue \in Seq(QEntry)
  <2>1. s \in Held
    BY <1>3, <1>5 DEF Held
  <2>2. PrivateSlot(s)
    BY <2>1 DEF PrivateInv
  <2>3. QED
    BY <1>0, <1>3, <1>5, <2>2 DEF PrivateSlot, SlotType, SlotRecord
<1>6. CASE fromradio_read(p)
  <2>1. PICK s \in Slot, out \in Seq(QEntry), r \in SlotRecord :
          /\ Others(s) /\ Reads(conns[s], out, r) /\ conns[s].conn = ConnOf(p)
          /\ conns'[s].conn = conns[s].conn /\ conns'[s].proxy_id = conns[s].proxy_id
          /\ conns'[s].staged = out /\ conns'[s].queue = r.queue
          /\ got' = [got EXCEPT ![p] = @ \o out]
    BY <1>0, <1>6, ReadEffect
  <2>2. Own(r.queue, p) /\ Own(out, p)
    BY <1>5, <2>1, OwnReads
  <2>3. s \in Held
    BY <1>3, <2>1 DEF Held
  <2>4. PrivateSlot(s)
    BY <2>3 DEF PrivateInv
  <2>5. PrivateSlot(s)'
    BY <1>1, <1>3, <2>1, <2>2, <2>4 DEF PrivateSlot
  <2>6. \A t \in Held' : PrivateSlot(t)'
    BY <1>1, <2>1, <2>5, PrivateSlots
  <2>7. \A q \in Phone : Own(got'[q], q)
    <3> SUFFICES ASSUME NEW q \in Phone PROVE Own(got'[q], q)
      OBVIOUS
    <3>1. got \in [Phone -> Seq(QEntry)] /\ Own(got[q], q)
      BY <1>0 DEF BleType, PhoneType, PrivateInv
    <3>2. CASE q = p
      <4>1. got'[p] = got[p] \o out /\ got[p] \in Seq(QEntry)
        BY <2>1, <3>1
      <4>2. Own(got[p] \o out, p)
        BY <2>2, <3>1, <3>2, <4>1, OwnConcat
      <4>3. QED
        BY <3>2, <4>1, <4>2
    <3>3. CASE q # p
      BY <2>1, <3>1, <3>3
    <3>4. QED
      BY <3>2, <3>3
  <2>8. QED
    BY <1>2, <2>6, <2>7 DEF PrivateInv
<1>7. ASSUME NEW n \in Nonces, replay_cached_burst(p, n) PROVE PrivateInv'
  <2>1. PICK s \in Slot :
          /\ Others(s) /\ conns[s].conn = ConnOf(p)
          /\ conns'[s].conn = conns[s].conn /\ conns'[s].proxy_id = conns[s].proxy_id
          /\ conns'[s].staged = conns[s].staged /\ conns'[s].queue = conns[s].queue
    BY <1>0, <1>7, ReplayEffect
  <2>2. got' = [got EXCEPT ![p] = <<>>]
    BY <1>7 DEF replay_cached_burst
  <2>3. QED
    BY <1>4, <1>5, <2>1, <2>2
<1>8. ASSUME NEW id \in RegWrites(p), register_proxy_id(p, id) PROVE PrivateInv'
  <2>1. PICK s \in Slot :
          /\ Others(s) /\ conns[s].conn = ConnOf(p)
          /\ conns'[s].conn = conns[s].conn
          /\ conns'[s].proxy_id \in {conns[s].proxy_id, IdOf(p), ZeroId}
          /\ conns'[s].staged = conns[s].staged /\ conns'[s].queue = conns[s].queue
    BY <1>0, <1>8, RegisterEffect
  <2>2. got' = got
    BY <1>8 DEF register_proxy_id
  <2>3. QED
    BY <1>4, <1>5, <2>1, <2>2
<1>9. CASE request_teardown(p)
  <2>1. PICK s \in Slot :
          /\ Others(s) /\ conns[s].conn = ConnOf(p)
          /\ conns'[s].conn = conns[s].conn /\ conns'[s].proxy_id = conns[s].proxy_id
          /\ conns'[s].staged = conns[s].staged /\ conns'[s].queue = conns[s].queue
    BY <1>0, <1>9, TeardownEffect
  <2>2. got' = got
    BY <1>9 DEF request_teardown
  <2>3. QED
    BY <1>4, <1>5, <2>1, <2>2
<1>10. CASE reply_queuestatus(p)
  <2> DEFINE s == find_slot(ConnOf(p))
             e == Entry(proto_encode_queue_status.variant, 0, NoPhone)
  <2>1. s \in Slot /\ conns[s].conn = ConnOf(p)
    BY <1>0, <1>1, SlotOfPhone
  <2>2. e \in QEntry /\ e.to = NoPhone
    <3>1. proto_encode_queue_status.variant = "queueStatus" /\ 0 \in Nat
      BY DEF proto_encode_queue_status, FromRadio
    <3>2. QED
      BY <3>1, EntryType DEF EntryKind
  <2>3. Push(s, e) /\ got' = got
    BY <1>10 DEF reply_queuestatus
  <2> HIDE DEF s, e
  <2>4. /\ Others(s) /\ conns'[s].conn = conns[s].conn /\ conns'[s].proxy_id = conns[s].proxy_id
        /\ conns'[s].staged = conns[s].staged
        /\ conns'[s].queue = conns[s].queue \/ conns'[s].queue = Append(conns[s].queue, e)
    BY <1>0, <2>1, <2>2, <2>3, PushEffect
  <2>5. Own(conns'[s].queue, p)
    BY <1>5, <2>1, <2>2, <2>4, OwnAppend
  <2>6. QED
    BY <1>4, <2>1, <2>3, <2>4, <2>5
<1>11. QED
  BY <1>6, <1>7, <1>8, <1>9, <1>10

\* The work queue takes a frame in and hands it out.
LEMMA PrivateSend ==
  ASSUME SlotInv, PrivateInv,
         \/ \E f \in Frames : FrameArrives(f)
         \/ Broadcast \/ EnqueueFind \/ EnqueueLocked \/ notify_fromnum
  PROVE  PrivateInv'
<1>0. /\ BleType /\ LinkInv /\ SlotType /\ SysType /\ sys \in SysRecord /\ PrivateSys
      /\ sys.pc = "bcast" => sys.i \in Nat /\ sys.i >= 1
  BY DEF SlotInv, BleType, SysType, SysRecord, PrivateInv
<1>1. ASSUME NEW f \in Frames, FrameArrives(f) PROVE PrivateInv'
  <2> DEFINE c == get_conn_by_proxy_id(Addressee(proto_decode_fromradio(f.msg)[2]))
  <2>1. /\ UNCHANGED <<conns, peer, got>>
        /\ sys' = IF c = NoConn THEN [Idle EXCEPT !.pc = "bcast", !.i = 1]
                  ELSE [Idle EXCEPT !.pc = "find", !.conn = c, !.to = f.for]
    BY <1>1 DEF FrameArrives, phones
  <2>2. c # NoConn => f.for = peer[c] /\ \E s \in Slot : conns[s].conn = c
    BY UnicastFor
  <2> HIDE DEF c
  <2>3. CASE c = NoConn
    <3>1. sys'.pc = "bcast" /\ sys'.to = NoPhone
      BY <2>1, <2>3 DEF Idle
    <3>2. PrivateSys'
      BY <3>1 DEF PrivateSys
    <3>3. QED
      BY <2>1, <3>2, PrivateKept
  <2>4. CASE c # NoConn
    <3>1. sys'.pc = "find" /\ sys'.to = f.for /\ sys'.conn = c
      BY <2>1, <2>4 DEF Idle
    <3>2. PrivateSys'
      BY <2>1, <2>2, <2>4, <3>1 DEF PrivateSys
    <3>3. QED
      BY <2>1, <3>2, PrivateKept
  <2>5. QED
    BY <2>3, <2>4
<1>2. CASE Broadcast
  <2>1. UNCHANGED <<conns, peer, got>> /\ sys.pc = "bcast" /\ sys.to = NoPhone
    BY <1>0, <1>2 DEF Broadcast, SysOnly, phones, PrivateSys
  <2>2. CASE sys' = Idle \/ sys' = Onward
    BY <1>0, <2>1, <2>2, PrivateOnward, PrivateKept
  <2>3. CASE /\ ~ (sys.i > NSlots)
             /\ sys' = [sys EXCEPT !.pc = "find", !.conn = conns[sys.i].conn]
    <3>1. sys.i \in Slot
      BY <1>0, <2>1, <2>3, BleConstants DEF Slot
    <3>2. sys'.pc = "find" /\ sys'.to = NoPhone /\ sys'.conn = conns[sys.i].conn
      BY <1>0, <2>1, <2>3 DEF SysRecord
    <3>3. PrivateSys'
      BY <2>1, <3>1, <3>2 DEF PrivateSys
    <3>4. QED
      BY <2>1, <3>3, PrivateKept
  <2>4. QED
    BY <1>0, <1>2, <2>2, <2>3, BleConstants DEF Broadcast
<1>3. CASE EnqueueFind
  <2>1. UNCHANGED <<conns, peer, got>> /\ sys.pc = "find"
    BY <1>3 DEF EnqueueFind, SysOnly, phones
  <2>2. CASE sys' = Onward
    BY <1>0, <2>1, <2>2, PrivateOnward, PrivateKept
  <2>3. CASE /\ find_slot(sys.conn) # 0
             /\ sys' = [sys EXCEPT !.pc = "lock", !.slot = find_slot(sys.conn)]
    <3>1. conns[find_slot(sys.conn)].conn = sys.conn /\ find_slot(sys.conn) \in Slot
      BY <2>3, FindSlot
    <3>2. /\ sys'.pc = "lock" /\ sys'.to = sys.to /\ sys'.conn = sys.conn
          /\ sys'.slot = find_slot(sys.conn)
      BY <1>0, <2>3 DEF SysRecord
    <3>3. PrivateSys'
      BY <1>0, <2>1, <3>1, <3>2 DEF PrivateSys
    <3>4. QED
      BY <2>1, <3>3, PrivateKept
  <2>4. QED
    BY <1>3, <2>2, <2>3 DEF EnqueueFind
<1>4. CASE EnqueueLocked
  <2> DEFINE s == sys.slot
             e == Entry("live", msgs, sys.to)
  <2>1. /\ UNCHANGED <<peer, got>> /\ sys.pc = "lock" /\ Push(s, e)
        /\ sys' = Onward \/ sys' = [sys EXCEPT !.pc = "ring"]
    BY <1>4 DEF EnqueueLocked
  <2>2. /\ s \in Slot /\ sys.conn \in Conn /\ conns[s].conn = sys.conn
        /\ sys.to \in {NoPhone, peer[sys.conn]}
    BY <1>0, <2>1 DEF SysType, PrivateSys
  <2>3. e \in QEntry /\ e.to = sys.to
    <3>1. sys.to \in Phone \cup {NoPhone} /\ msgs \in Nat
      BY <1>0 DEF SysRecord, BleType, PhoneType
    <3>2. QED
      BY <3>1, EntryType DEF EntryKind
  <2>4. PrivateSys'
    <3>1. CASE sys' = Onward
      BY <1>0, <3>1, PrivateOnward
    <3>2. CASE sys' = [sys EXCEPT !.pc = "ring"]
      <4>1. sys'.pc = "ring"
        BY <1>0, <3>2 DEF SysRecord
      <4>2. QED
        BY <4>1, PrivateSysQuiet
    <3>3. QED
      BY <2>1, <3>1, <3>2
  <2>5. s \in Held
    BY <2>2, BleConstants DEF Held, Conn, NoConn
  <2>6. PrivateSlot(s) /\ conns[s].queue \in Seq(QEntry)
    BY <1>0, <2>2, <2>5 DEF PrivateInv, SlotType, SlotRecord
  <2> SUFFICES ASSUME NEW t, t = s PROVE PrivateInv'
    OBVIOUS
  <2> HIDE DEF s, e
  <2>7. /\ Others(t) /\ conns'[t].conn = conns[t].conn /\ conns'[t].proxy_id = conns[t].proxy_id
        /\ conns'[t].staged = conns[t].staged
        /\ conns'[t].queue = conns[t].queue \/ conns'[t].queue = Append(conns[t].queue, e)
    BY <1>0, <2>1, <2>2, <2>3, PushEffect
  <2>8. Own(conns'[t].queue, peer[conns[t].conn])
    BY <2>2, <2>3, <2>6, <2>7, OwnAppend DEF PrivateSlot
  <2>9. PrivateSlot(t)'
    BY <2>1, <2>6, <2>7, <2>8 DEF PrivateSlot
  <2>10. \A u \in Held' : PrivateSlot(u)'
    BY <2>1, <2>2, <2>7, <2>9, PrivateSlots
  <2>11. QED
    BY <2>1, <2>4, <2>10 DEF PrivateInv
<1>5. CASE notify_fromnum
  <2>1. UNCHANGED <<conns, peer, got>> /\ sys' = Onward
    BY <1>5 DEF notify_fromnum
  <2>2. QED
    BY <1>0, <2>1, PrivateOnward, PrivateKept
<1>6. QED
  BY <1>1, <1>2, <1>3, <1>4, <1>5

\* Every step keeps packets private, when the threads are cooperative.
LEMMA PrivateNext ==
  ASSUME ~ Preemptive
  PROVE  SlotInv /\ PrivateInv /\ [Next]_vars => PrivateInv'
<1> SUFFICES ASSUME SlotInv, PrivateInv, [Next]_vars PROVE PrivateInv'
  OBVIOUS
<1>0. PrivateSys /\ sys \in SysRecord
  BY DEF PrivateInv, SlotInv, BleType, SysType
<1>1. ASSUME NEW p \in Phone, NEW c \in Conn, Connect(p, c) PROVE PrivateInv'
  BY <1>1, PrivateConnect
<1>2. ASSUME NEW c \in Conn, Disconnected(c) PROVE PrivateInv'
  BY <1>2, PrivateDisconnect
<1>3. ASSUME NEW p \in Phone,
             \/ fromradio_read(p)
             \/ \E n \in Nonces : replay_cached_burst(p, n)
             \/ \E id \in RegWrites(p) : register_proxy_id(p, id)
             \/ request_teardown(p) \/ reply_queuestatus(p)
      PROVE  PrivateInv'
  BY <1>3, PrivatePhone
<1>4. CASE \/ \E f \in Frames : FrameArrives(f)
           \/ Broadcast \/ EnqueueFind \/ EnqueueLocked \/ notify_fromnum
  BY <1>4, PrivateSend
<1>5. CASE \/ ConnectFails
           \/ \E c \in Conn : LinkLost(c)
           \/ \E p \in Phone : Subscribe(p) \/ StartDrain(p)
           \/ \E s \in Slot : TeardownExpires(s)
           \/ UNCHANGED vars
  <2>1. UNCHANGED <<conns, peer, got, sys>>
    BY <1>5 DEF ConnectFails, LinkLost, Subscribe, StartDrain, TeardownExpires, threads,
                phones, vars
  <2>2. QED
    BY <1>0, <2>1, PrivateSysKept, PrivateKept
<1>6. CASE (\E s \in Slot : TeardownRuns(s)) \/ TeardownLocked \/ TeardownDrop
  <2>1. UNCHANGED <<conns, peer, got>> /\ sys'.pc \in {"teardown", "drop", "idle"}
    <3>1. ASSUME NEW s \in Slot, TeardownRuns(s)
          PROVE  UNCHANGED <<conns, peer, got>> /\ sys'.pc = "teardown"
      BY <3>1 DEF TeardownRuns, phones, Idle
    <3>2. CASE TeardownLocked
      BY <1>0, <3>2 DEF TeardownLocked, SysOnly, phones, Idle, SysRecord
    <3>3. CASE TeardownDrop
      BY <3>3 DEF TeardownDrop, Idle
    <3>4. QED
      BY <1>6, <3>1, <3>2, <3>3
  <2>2. PrivateSys'
    BY <2>1, PrivateSysQuiet
  <2>3. QED
    BY <2>1, <2>2, PrivateKept
<1>7. QED
  BY <1>1, <1>2, <1>3, <1>4, <1>5, <1>6 DEF Next

\* Nothing is queued at boot.
LEMMA PrivateInit == Init => PrivateInv
<1> SUFFICES ASSUME Init PROVE PrivateInv
  OBVIOUS
<1>1. Held = {}
  BY DEF Init, Held, FreeSlot
<1>2. \A p \in Phone : Own(got[p], p)
  <2>1. \A p \in Phone : got[p] = <<>>
    BY DEF Init
  <2>2. QED
    BY <2>1, OwnEmpty
<1>3. PrivateSys
  BY DEF Init, Idle, PrivateSys
<1>4. QED
  BY <1>1, <1>2, <1>3 DEF PrivateInv

\* PrivateInv holds when threads are cooperative.
THEOREM PrivateInvariant ==
  ASSUME ~ Preemptive
  PROVE  Spec => []PrivateInv
  BY PrivateInit, PrivateNext, SlotInvariant, PTL DEF Spec

\* A frame addressed to a registered phone is queued for, staged for and read by
\* no other.
THEOREM UnicastStaysPrivate ==
  ASSUME ~ Preemptive
  PROVE  Spec => []UnicastPrivate
<1>1. SlotInv /\ PrivateInv => UnicastPrivate
  <2> SUFFICES ASSUME SlotInv, PrivateInv PROVE UnicastPrivate
    OBVIOUS
  <2>1. ASSUME NEW s \in Held
        PROVE  LET all == conns[s].queue \o conns[s].staged IN
               \A i \in DOMAIN all : all[i].to \in {NoPhone, peer[conns[s].conn]}
    <3> DEFINE q == conns[s].queue
               r == conns[s].staged
    <3>1. q \in Seq(QEntry) /\ r \in Seq(QEntry)
      BY DEF Held, SlotInv, BleType, SlotType, SlotRecord
    <3>2. Own(q, peer[conns[s].conn]) /\ Own(r, peer[conns[s].conn])
      BY DEF PrivateInv, PrivateSlot
    <3>3. Own(q \o r, peer[conns[s].conn])
      BY <3>1, <3>2, OwnConcat
    <3>4. DOMAIN (q \o r) = 1 .. Len(q \o r)
      BY <3>1
    <3>5. QED
      BY <3>3, <3>4 DEF Own
  <2>2. ASSUME NEW p \in Phone
        PROVE  \A i \in DOMAIN got[p] : got[p][i].to \in {NoPhone, p}
    <3>1. got[p] \in Seq(QEntry) /\ Own(got[p], p)
      BY DEF SlotInv, BleType, PhoneType, PrivateInv
    <3>2. DOMAIN got[p] = 1 .. Len(got[p])
      BY <3>1
    <3>3. QED
      BY <3>1, <3>2 DEF Own
  <2>3. QED
    BY <2>1, <2>2 DEF UnicastPrivate
<1>2. QED
  BY <1>1, SlotInvariant, PrivateInvariant, PTL

----------------------------------------------------------------------------
(* Live frames in order *)

\* The positions of live frames; they rise, are at most n, come before another's.
Live(q) == {i \in 1 .. Len(q) : q[i].kind = "live"}
Rising(q) == \A i, j \in Live(q) : i < j => q[i].v < q[j].v
Below(q, n) == \A i \in Live(q) : q[i].v \in 0 .. n
Before(g, q) == \A i \in Live(g), j \in Live(q) : g[i].v < q[j].v

\* The slots that the frame being handed out may still reach.
Due(s) ==
  \/ sys.pc \in {"bcast", "find", "lock"} /\ sys.i # 0 /\ s >= sys.i
  \/ sys.pc \in {"find", "lock"} /\ conns[s].conn = sys.conn
  \/ sys.pc = "ring" /\ sys.i # 0 /\ s > sys.i

\* The last frame that such a slot may have.
Newest(s) == IF Due(s) THEN msgs - 1 ELSE msgs

\* What a slot's queue holds rises, comes after what its phone has read, and is no newer
\* than what the slot was handed.
OrderSlot(s) ==
  /\ Rising(conns[s].queue) /\ Below(conns[s].queue, Newest(s))
  /\ link[conns[s].conn] = "up" => /\ Below(got[peer[conns[s].conn]], Newest(s))
                                   /\ Before(got[peer[conns[s].conn]], conns[s].queue)

\* A broadcast that has picked its slot is at that slot's connection.
OrderSys ==
  sys.pc \in {"find", "lock"} /\ sys.i # 0 => sys.i \in Slot /\ conns[sys.i].conn = sys.conn

\* The inductive invariant of the order of live frames.
OrderInv ==
  /\ \A s \in Held : OrderSlot(s)
  /\ \A p \in Phone : Rising(got[p])
  /\ OrderSys

\* No live frame in an empty queue.
LEMMA LiveEmpty ==
  /\ Rising(<<>>)
  /\ \A n : Below(<<>>, n)
  /\ \A q : Before(<<>>, q) /\ Before(q, <<>>)
<1>1. Live(<<>>) = {}
  BY DEF Live
<1>2. QED
  BY <1>1 DEF Rising, Below, Before

\* What an appended entry adds.
LEMMA LiveAppend ==
  ASSUME NEW q \in Seq(QEntry), NEW e \in QEntry, NEW i \in Live(Append(q, e))
  PROVE  /\ i \in Nat
         /\ \/ i \in Live(q) /\ i <= Len(q) /\ Append(q, e)[i] = q[i]
            \/ i = Len(q) + 1 /\ e.kind = "live" /\ Append(q, e)[i] = e
<1>1. Len(Append(q, e)) = Len(q) + 1 /\ Len(q) \in Nat
  OBVIOUS
<1>2. i \in 1 .. Len(q) + 1 /\ Append(q, e)[i].kind = "live"
  BY <1>1 DEF Live
<1>3. CASE i <= Len(q)
  <2>1. Append(q, e)[i] = q[i] /\ i \in 1 .. Len(q)
    BY <1>1, <1>2, <1>3
  <2>2. QED
    BY <1>2, <1>3, <2>1 DEF Live
<1>4. CASE i = Len(q) + 1
  <2>1. Append(q, e)[i] = e
    BY <1>1, <1>4
  <2>2. QED
    BY <1>2, <1>4, <2>1
<1>5. QED
  BY <1>1, <1>2, <1>3, <1>4

\* An entry that is not live changes nothing.
LEMMA OtherAppend ==
  ASSUME NEW q \in Seq(QEntry), NEW e \in QEntry, e.kind # "live"
  PROVE  /\ Rising(q) => Rising(Append(q, e))
         /\ \A n : Below(q, n) => Below(Append(q, e), n)
         /\ \A g : Before(g, q) => Before(g, Append(q, e))
         /\ \A g : Before(q, g) => Before(Append(q, e), g)
<1>1. \A i \in Live(Append(q, e)) : i \in Live(q) /\ Append(q, e)[i] = q[i]
  BY LiveAppend
<1>2. QED
  BY <1>1 DEF Rising, Below, Before

\* A live entry that is beyond all others.
LEMMA FrameAppend ==
  ASSUME NEW q \in Seq(QEntry), NEW e \in QEntry, NEW n \in Nat,
         e.kind = "live", e.v = n, Rising(q), Below(q, n - 1)
  PROVE  /\ Rising(Append(q, e)) /\ Below(Append(q, e), n)
         /\ \A g : Below(g, n - 1) /\ Before(g, q) => Before(g, Append(q, e))
<1> DEFINE a == Append(q, e)
<1>1. \A i \in Live(a) : /\ i \in Nat
                         /\ \/ i \in Live(q) /\ i <= Len(q) /\ a[i] = q[i]
                            \/ i = Len(q) + 1 /\ a[i] = e
  BY LiveAppend
<1>2. \A i \in Live(q) : q[i].v \in 0 .. n - 1
  BY DEF Below
<1>3. Len(q) \in Nat
  OBVIOUS
<1> HIDE DEF a
<1>4. Rising(a)
  <2> SUFFICES ASSUME NEW i \in Live(a), NEW j \in Live(a), i < j PROVE a[i].v < a[j].v
    BY DEF Rising
  <2>1. CASE j = Len(q) + 1 /\ a[j] = e
    <3>1. i \in Nat /\ i # Len(q) + 1
      <4>1. i \in Nat
        BY <1>1
      <4>2. QED
        BY <1>3, <2>1, <4>1
    <3>2. i \in Live(q) /\ a[i] = q[i]
      BY <1>1, <3>1
    <3>3. a[i].v \in 0 .. n - 1
      BY <1>2, <3>2
    <3>4. QED
      BY <2>1, <3>3
  <2>2. CASE j \in Live(q) /\ j <= Len(q) /\ a[j] = q[j]
    <3>1. i \in Nat /\ j \in Nat
      BY <1>1
    <3>2. i # Len(q) + 1
      BY <1>3, <2>2, <3>1
    <3>3. i \in Live(q) /\ a[i] = q[i]
      BY <1>1, <3>2
    <3>4. QED
      BY <2>2, <3>3 DEF Rising
  <2>3. QED
    BY <1>1, <2>1, <2>2
<1>5. Below(a, n)
  <2> SUFFICES ASSUME NEW i \in Live(a) PROVE a[i].v \in 0 .. n
    BY DEF Below
  <2>1. CASE a[i] = e
    BY <2>1
  <2>2. CASE i \in Live(q) /\ a[i] = q[i]
    <3>1. a[i].v \in 0 .. n - 1
      BY <1>2, <2>2
    <3>2. QED
      BY <3>1
  <2>3. QED
    BY <1>1, <2>1, <2>2
<1>6. ASSUME NEW g, Below(g, n - 1), Before(g, q) PROVE Before(g, a)
  <2> SUFFICES ASSUME NEW i \in Live(g), NEW j \in Live(a) PROVE g[i].v < a[j].v
    BY DEF Before
  <2>1. CASE a[j] = e
    <3>1. g[i].v \in 0 .. n - 1
      BY <1>6 DEF Below
    <3>2. QED
      BY <2>1, <3>1
  <2>2. CASE j \in Live(q) /\ a[j] = q[j]
    BY <1>6, <2>2 DEF Before
  <2>3. QED
    BY <1>1, <2>1, <2>2
<1>7. QED
  BY <1>4, <1>5, <1>6 DEF a

\* The head moves from the queue to the end of what was read.
LEMMA FrameMoves ==
  ASSUME NEW g \in Seq(QEntry), NEW q \in Seq(QEntry), Len(q) >= 1, NEW n,
         Rising(g), Rising(q), Below(g, n), Below(q, n), Before(g, q)
  PROVE  /\ Rising(Tail(q)) /\ Below(Tail(q), n)
         /\ Rising(Append(g, Head(q))) /\ Below(Append(g, Head(q)), n)
         /\ Before(Append(g, Head(q)), Tail(q))
<1> DEFINE e == Head(q)
           r == Tail(q)
           a == Append(g, e)
<1>1. /\ Len(r) = Len(q) - 1 /\ Len(q) \in Nat /\ e = q[1] /\ e \in QEntry
      /\ \A i \in 1 .. Len(r) : r[i] = q[i + 1]
  BY HeadTailProperties
<1>2. \A i \in Live(r) : i \in Nat /\ i + 1 \in Live(q) /\ r[i] = q[i + 1] /\ 1 < i + 1
  BY <1>1 DEF Live
<1>3. \A i \in Live(a) : /\ i \in Nat
                         /\ \/ i \in Live(g) /\ i <= Len(g) /\ a[i] = g[i]
                            \/ i = Len(g) + 1 /\ e.kind = "live" /\ a[i] = e
  BY <1>1, LiveAppend
<1>4. e.kind = "live" => 1 \in Live(q) /\ q[1] = e
  BY <1>1 DEF Live
<1>5. Len(g) \in Nat
  OBVIOUS
<1> HIDE DEF e, r, a
<1>6. Rising(r)
  <2> SUFFICES ASSUME NEW i \in Live(r), NEW j \in Live(r), i < j PROVE r[i].v < r[j].v
    BY DEF Rising
  <2>1. i + 1 < j + 1
    BY <1>2
  <2>2. QED
    BY <1>2, <2>1 DEF Rising
<1>7. Below(r, n)
  BY <1>2 DEF Below
<1>8. Rising(a)
  <2> SUFFICES ASSUME NEW i \in Live(a), NEW j \in Live(a), i < j PROVE a[i].v < a[j].v
    BY DEF Rising
  <2>1. i \in Live(g) /\ a[i] = g[i]
    BY <1>3, <1>5
  <2>2. CASE j \in Live(g) /\ a[j] = g[j]
    BY <2>1, <2>2 DEF Rising
  <2>3. CASE e.kind = "live" /\ a[j] = e
    BY <1>4, <2>1, <2>3 DEF Before
  <2>4. QED
    BY <1>3, <2>2, <2>3
<1>9. Below(a, n)
  BY <1>3, <1>4 DEF Below
<1>10. Before(a, r)
  <2> SUFFICES ASSUME NEW i \in Live(a), NEW j \in Live(r) PROVE a[i].v < r[j].v
    BY DEF Before
  <2>1. CASE i \in Live(g) /\ a[i] = g[i]
    BY <1>2, <2>1 DEF Before
  <2>2. CASE e.kind = "live" /\ a[i] = e
    BY <1>2, <1>4, <2>2 DEF Rising
  <2>3. QED
    BY <1>3, <2>1, <2>2
<1>11. QED
  BY <1>6, <1>7, <1>8, <1>9, <1>10 DEF e, r, a

\* A read appends at most one entry.
LEMMA ConcatOne ==
  ASSUME NEW g \in Seq(QEntry), NEW out \in Seq(QEntry), Len(out) <= 1
  PROVE  \/ g \o out = g /\ out = <<>>
         \/ Len(out) = 1 /\ out[1] \in QEntry /\ g \o out = Append(g, out[1])
<1>1. Len(out) = 0 \/ Len(out) = 1
  <2>1. Len(out) \in Nat
    OBVIOUS
  <2>2. \A k \in Nat : k <= 1 => k = 0 \/ k = 1
    OBVIOUS
  <2>3. QED
    BY <2>1, <2>2, Zenon
<1>2. CASE Len(out) = 0
  <2>1. out = <<>>
    BY <1>2
  <2>2. g \o <<>> = g
    OBVIOUS
  <2>3. QED
    BY <2>1, <2>2
<1>3. CASE Len(out) = 1
  <2>1. out[1] \in QEntry /\ out = <<out[1]>>
    BY <1>3
  <2>2. g \o <<out[1]>> = Append(g, out[1])
    BY <2>1, AppendIsConcat
  <2>3. QED
    BY <1>3, <2>1, <2>2
<1>4. QED
  BY <1>1, <1>2, <1>3

\* A larger bound.
LEMMA BelowMore ==
  ASSUME NEW q, NEW m \in Int, NEW n \in Int, m <= n, Below(q, m)
  PROVE  Below(q, n)
  BY DEF Below

\* A slot that no longer waits for the frame, or still does, may have as much.
LEMMA LastMore ==
  ASSUME msgs \in Nat, UNCHANGED msgs, NEW s, Due(s)' => Due(s)
  PROVE  Newest(s) \in Int /\ Newest(s)' \in Int /\ Newest(s) <= Newest(s)'
  BY DEF Newest

\* A slot keeps its queue, and its phone what it read, unless it starts afresh.
LEMMA OrderSlotKept ==
  ASSUME NEW s, OrderSlot(s), Newest(s) \in Int, Newest(s)' \in Int, Newest(s) <= Newest(s)',
         conns'[s].queue = conns[s].queue, conns'[s].conn = conns[s].conn,
         link'[conns[s].conn] = "up" =>
           /\ link[conns[s].conn] = "up" /\ peer'[conns[s].conn] = peer[conns[s].conn]
           /\ \/ got'[peer[conns[s].conn]] = got[peer[conns[s].conn]]
              \/ got'[peer[conns[s].conn]] = <<>>
  PROVE  OrderSlot(s)'
<1>1. Rising(conns'[s].queue) /\ Below(conns'[s].queue, Newest(s)')
  BY BelowMore DEF OrderSlot
<1>2. ASSUME link'[conns'[s].conn] = "up"
      PROVE  /\ Below(got'[peer'[conns'[s].conn]], Newest(s)')
             /\ Before(got'[peer'[conns'[s].conn]], conns'[s].queue)
  <2>1. /\ link[conns[s].conn] = "up" /\ peer'[conns[s].conn] = peer[conns[s].conn]
        /\ \/ got'[peer[conns[s].conn]] = got[peer[conns[s].conn]]
           \/ got'[peer[conns[s].conn]] = <<>>
    BY <1>2
  <2>2. Below(got[peer[conns[s].conn]], Newest(s)') /\ Before(got[peer[conns[s].conn]], conns[s].queue)
    BY <2>1, BelowMore DEF OrderSlot
  <2>3. QED
    BY <2>1, <2>2, LiveEmpty
<1>3. QED
  BY <1>1, <1>2 DEF OrderSlot

\* A slot that is handed out has nothing yet.
LEMMA OrderSlotFresh ==
  ASSUME NEW s, conns'[s].queue = <<>>, got'[peer'[conns'[s].conn]] = <<>>
  PROVE  OrderSlot(s)'
  BY LiveEmpty DEF OrderSlot

\* Queues unchanged, and no further slot is to be handed the frame.
LEMMA OrderKept ==
  ASSUME SlotInv, OrderInv, UNCHANGED <<conns, peer, got, msgs>>, OrderSys',
         \A c \in Conn : link'[c] = "up" => link[c] = "up",
         \A t \in Slot : Due(t)' => Due(t)
  PROVE  OrderInv'
<1>1. BleType /\ msgs \in Nat /\ Held' = Held
  BY DEF SlotInv, BleType, PhoneType, Held
<1>2. ASSUME NEW s \in Held PROVE OrderSlot(s)'
  <2>1. s \in Slot /\ conns[s].conn \in Conn /\ OrderSlot(s)
    BY <1>1, HeldConn DEF OrderInv
  <2>2. Newest(s) \in Int /\ Newest(s)' \in Int /\ Newest(s) <= Newest(s)'
    BY <1>1, <2>1, LastMore
  <2>3. QED
    BY <2>1, <2>2, OrderSlotKept
<1>3. QED
  BY <1>1, <1>2 DEF OrderInv

\* After a recipient, only later slots wait.
LEMMA DueOnward ==
  ASSUME sys \in SysRecord, sys.pc \in {"bcast", "find", "lock", "ring"},
         sys' = Onward \/ sys' = Idle
  PROVE  /\ \A t \in Slot : Due(t)' => Due(t) /\ t # sys.i
         /\ OrderSys'
<1>1. /\ sys'.pc \in {"idle", "bcast"} /\ sys.i \in Nat
      /\ sys'.pc = "bcast" => sys.i # 0 /\ sys'.i = sys.i + 1
  <2>1. 0 \in Nat /\ sys.i \in Nat
    BY DEF SysRecord
  <2>2. QED
    BY <2>1, OnwardType, IdleType
<1>2. ASSUME NEW t \in Slot, Due(t)' PROVE Due(t) /\ t # sys.i
  <2>1. sys'.pc = "bcast" /\ t >= sys'.i
    BY <1>1, <1>2 DEF Due
  <2>2. sys.i # 0 /\ t \in Nat /\ t >= sys.i + 1
    BY <1>1, <2>1 DEF Slot
  <2>3. t >= sys.i /\ t > sys.i /\ t # sys.i
    BY <1>1, <2>2
  <2>4. QED
    BY <2>2, <2>3 DEF Due
<1>3. QED
  BY <1>1, <1>2 DEF OrderSys

\* What BT RX does changes no slot's turn.
LEMMA DueRx ==
  ASSUME UNCHANGED sys, sys.pc \in {"idle", "ring", "drop"}
  PROVE  (\A t \in Slot : Due(t)' => Due(t)) /\ OrderSys'
  BY DEF Due, OrderSys

\* A newcomer starts with an empty queue.
LEMMA OrderConnect ==
  ASSUME ~ Preemptive, SlotInv, OrderInv, NEW p \in Phone, NEW c \in Conn, Connect(p, c)
  PROVE  OrderInv'
<1>0. BleType /\ LinkInv /\ CountInv /\ msgs \in Nat
  BY DEF SlotInv, BleType, PhoneType
<1>1. PICK s \in Slot : Others(s) /\ conns'[s].conn = c /\ conns'[s].queue = <<>>
  BY <1>0, ConnectEffect
<1>2. /\ \A t \in Slot : conns[t].conn # c
      /\ link' = [link EXCEPT ![c] = "up"]
  BY <1>0, ConnectLink
<1>3. /\ peer' = [peer EXCEPT ![c] = p] /\ got' = [got EXCEPT ![p] = <<>>]
      /\ UNCHANGED <<sys, msgs>> /\ RxRuns
  BY DEF Connect
<1>4. (\A t \in Slot : Due(t)' => Due(t)) /\ OrderSys'
  BY <1>3, RxAtYield, DueRx
<1>5. ASSUME NEW t \in Held' PROVE OrderSlot(t)'
  <2>1. CASE t = s
    <3>1. peer'[c] = p /\ got'[p] = <<>>
      BY <1>0, <1>3 DEF BleType, LinkType, PhoneType
    <3>2. QED
      BY <1>1, <2>1, <3>1, OrderSlotFresh
  <2>2. CASE t # s
    <3>1. t \in Held /\ conns'[t] = conns[t] /\ t \in Slot
      BY <1>1, <2>2 DEF Held, Others
    <3>2. conns[t].conn \in Conn /\ conns[t].conn # c
      BY <1>0, <1>2, <3>1, HeldConn
    <3>3. peer'[conns[t].conn] = peer[conns[t].conn] /\ link'[conns[t].conn] = link[conns[t].conn]
      BY <1>0, <1>2, <1>3, <3>2 DEF BleType, LinkType
    <3>4. link[conns[t].conn] = "up" => peer[conns[t].conn] \in Phone
      BY <1>0, <3>2 DEF LinkInv
    <3>5. \A q \in Phone : got'[q] = got[q] \/ got'[q] = <<>>
      BY <1>0, <1>3 DEF BleType, PhoneType
    <3>6. Newest(t) \in Int /\ Newest(t)' \in Int /\ Newest(t) <= Newest(t)'
      BY <1>0, <1>3, <1>4, <3>1, LastMore
    <3>7. OrderSlot(t)
      BY <3>1 DEF OrderInv
    <3>8. QED
      BY <3>1, <3>3, <3>4, <3>5, <3>6, <3>7, OrderSlotKept
  <2>3. QED
    BY <2>1, <2>2
<1>6. \A q \in Phone : Rising(got'[q])
  <2>1. \A q \in Phone : got'[q] = got[q] \/ got'[q] = <<>>
    BY <1>0, <1>3 DEF BleType, PhoneType
  <2>2. QED
    BY <2>1, LiveEmpty DEF OrderInv
<1>7. QED
  BY <1>4, <1>5, <1>6 DEF OrderInv

\* A released slot is not looked at.
LEMMA OrderDisconnect ==
  ASSUME ~ Preemptive, SlotInv, OrderInv, NEW c \in Conn, Disconnected(c)
  PROVE  OrderInv'
<1>0. BleType /\ LinkInv /\ msgs \in Nat
  BY DEF SlotInv, BleType, PhoneType
<1>1. PICK s \in Slot : Others(s) /\ conns'[s].conn = NoConn
  BY <1>0, DisconnectEffect
<1>2. UNCHANGED <<peer, got, sys, msgs>> /\ RxRuns /\ link' = [link EXCEPT ![c] = "free"]
  BY DEF Disconnected, phones
<1>3. (\A t \in Slot : Due(t)' => Due(t)) /\ OrderSys'
  BY <1>2, RxAtYield, DueRx
<1>4. ASSUME NEW t \in Held' PROVE OrderSlot(t)'
  <2>1. t \in Held /\ conns'[t] = conns[t] /\ t \in Slot
    BY <1>1 DEF Held, Others
  <2>2. conns[t].conn \in Conn
    BY <1>0, <2>1, HeldConn
  <2>3. link'[conns[t].conn] = "up" => link[conns[t].conn] = "up"
    BY <1>0, <1>2, <2>2 DEF BleType, LinkType
  <2>4. Newest(t) \in Int /\ Newest(t)' \in Int /\ Newest(t) <= Newest(t)'
    BY <1>0, <1>2, <1>3, <2>1, LastMore
  <2>5. OrderSlot(t)
    BY <2>1 DEF OrderInv
  <2>6. QED
    BY <1>2, <2>1, <2>3, <2>4, <2>5, OrderSlotKept
<1>5. QED
  BY <1>2, <1>3, <1>4 DEF OrderInv

\* The handlers of reads and writes move frames from a queue to its phone and add none
\* that is live.
LEMMA OrderPhone ==
  ASSUME ~ Preemptive, SlotInv, OrderInv, NEW p \in Phone,
         \/ fromradio_read(p)
         \/ \E n \in Nonces : replay_cached_burst(p, n)
         \/ \E id \in RegWrites(p) : register_proxy_id(p, id)
         \/ request_teardown(p) \/ reply_queuestatus(p)
  PROVE  OrderInv'
<1>0. BleType /\ LinkInv /\ SlotType /\ msgs \in Nat /\ got \in [Phone -> Seq(QEntry)]
  BY DEF SlotInv, BleType, PhoneType
<1>1. UNCHANGED <<peer, sys, link, msgs>> /\ RxRuns /\ Connected(p)
  BY DEF fromradio_read, replay_cached_burst, register_proxy_id, request_teardown,
         reply_queuestatus, Write
<1>2. (\A t \in Slot : Due(t)' => Due(t)) /\ OrderSys'
  BY <1>1, RxAtYield, DueRx
<1>3. /\ ConnOf(p) \in Conn /\ ConnOf(p) # NoConn /\ peer[ConnOf(p)] = p /\ link[ConnOf(p)] = "up"
  BY <1>1, ConnOfPhone
<1>4. ASSUME NEW t \in Slot PROVE Newest(t) \in Int /\ Newest(t)' \in Int /\ Newest(t) <= Newest(t)'
  BY <1>0, <1>1, <1>2, <1>4, LastMore
\* It is enough to look at the slot of the phone, and at what it read.
<1>5. ASSUME NEW s \in Slot, conns[s].conn = ConnOf(p), conns'[s].conn = conns[s].conn,
             Others(s), NEW g, got' = [got EXCEPT ![p] = g], Rising(g),
             Rising(conns'[s].queue), Below(conns'[s].queue, Newest(s)),
             Below(g, Newest(s)), Before(g, conns'[s].queue)
      PROVE  OrderInv'
  <2>0. got'[p] = g /\ \A q \in Phone : q # p => got'[q] = got[q]
    BY <1>0, <1>5
  <2>1. OrderSlot(s)'
    <3>1. Below(conns'[s].queue, Newest(s)') /\ Below(g, Newest(s)')
      BY <1>4, <1>5, BelowMore
    <3>2. got'[peer'[conns'[s].conn]] = g
      BY <1>1, <1>3, <1>5, <2>0
    <3>3. QED
      BY <1>5, <3>1, <3>2 DEF OrderSlot
  <2>2. ASSUME NEW t \in Held', t # s PROVE OrderSlot(t)'
    <3>1. t \in Held /\ conns'[t] = conns[t] /\ t \in Slot /\ s \in Held
      BY <1>3, <1>5, <2>2 DEF Held, Others
    <3>2. conns[t].conn \in Conn /\ conns[t].conn # ConnOf(p)
      BY <1>0, <1>5, <2>2, <3>1, HeldConn DEF LinkInv
    <3>3. link[conns[t].conn] = "up" => peer[conns[t].conn] \in Phone /\ peer[conns[t].conn] # p
      BY <1>0, <1>3, <3>2 DEF LinkInv
    <3>4. OrderSlot(t)
      BY <3>1 DEF OrderInv
    <3>5. QED
      BY <1>1, <1>4, <2>0, <3>1, <3>3, <3>4, OrderSlotKept
  <2>3. \A t \in Held' : OrderSlot(t)'
    BY <2>1, <2>2
  <2>4. \A q \in Phone : Rising(got'[q])
    BY <1>5, <2>0 DEF OrderInv
  <2>5. QED
    BY <1>2, <2>3, <2>4 DEF OrderInv
<1>6. ASSUME NEW s \in Slot, conns[s].conn = ConnOf(p)
      PROVE  /\ conns[s] \in SlotRecord /\ conns[s].queue \in Seq(QEntry)
             /\ Rising(conns[s].queue) /\ Below(conns[s].queue, Newest(s))
             /\ Rising(got[p]) /\ Below(got[p], Newest(s)) /\ Before(got[p], conns[s].queue)
  <2>1. s \in Held
    BY <1>3, <1>6 DEF Held
  <2>2. OrderSlot(s) /\ Rising(got[p])
    BY <2>1 DEF OrderInv
  <2>3. conns[s] \in SlotRecord /\ conns[s].queue \in Seq(QEntry)
    BY <1>0 DEF SlotType, SlotRecord
  <2>4. QED
    BY <1>3, <1>6, <2>2, <2>3 DEF OrderSlot
<1>7. got = [got EXCEPT ![p] = got[p]]
  BY <1>0
<1>8. CASE fromradio_read(p)
  <2>1. PICK s \in Slot, out \in Seq(QEntry), r \in SlotRecord :
          /\ Others(s) /\ Reads(conns[s], out, r) /\ conns[s].conn = ConnOf(p)
          /\ conns'[s].conn = conns[s].conn /\ conns'[s].queue = r.queue
          /\ got' = [got EXCEPT ![p] = @ \o out]
    <3>1. SlotType /\ LinkInv
      BY <1>0
    <3>2. QED
      BY <1>8, <3>1, ReadEffect
  <2> DEFINE g == got[p] \o out
  <2>2. got' = [got EXCEPT ![p] = g] /\ got[p] \in Seq(QEntry) /\ Len(out) <= 1
    BY <1>0, <2>1 DEF Reads
  <2>3. /\ conns[s].queue \in Seq(QEntry)
        /\ Rising(conns[s].queue) /\ Below(conns[s].queue, Newest(s))
        /\ Rising(got[p]) /\ Below(got[p], Newest(s)) /\ Before(got[p], conns[s].queue)
    BY <1>6, <2>1
  <2>4. CASE /\ r.queue = conns[s].queue
             /\ \A i \in 1 .. Len(out) : out[i].kind # "live"
    <3>1. CASE g = got[p]
      BY <1>5, <2>1, <2>2, <2>3, <2>4, <3>1
    <3>2. CASE Len(out) = 1 /\ out[1] \in QEntry /\ g = Append(got[p], out[1])
      <4>1. out[1].kind # "live"
        BY <2>4, <3>2
      <4>2. Rising(g) /\ Below(g, Newest(s)) /\ Before(g, conns[s].queue)
        BY <2>2, <2>3, <3>2, <4>1, OtherAppend
      <4> HIDE DEF g
      <4>3. QED
        BY <1>5, <2>1, <2>2, <2>3, <2>4, <4>2
    <3>3. QED
      BY <2>1, <2>2, <3>1, <3>2, ConcatOne
  <2>5. CASE /\ Len(conns[s].queue) >= 1 /\ r.queue = Tail(conns[s].queue)
             /\ out = <<Head(conns[s].queue)>>
    <3>1. Head(conns[s].queue) \in QEntry
      BY <2>3, <2>5, HeadTailProperties
    <3>2. g = Append(got[p], Head(conns[s].queue))
      BY <2>2, <2>5, <3>1, AppendIsConcat
    <3>3. /\ Rising(r.queue) /\ Below(r.queue, Newest(s))
          /\ Rising(g) /\ Below(g, Newest(s)) /\ Before(g, r.queue)
      BY <2>2, <2>3, <2>5, <3>2, FrameMoves
    <3> HIDE DEF g
    <3>4. QED
      BY <1>5, <2>1, <2>2, <3>3
  <2>6. QED
    BY <2>1, <2>4, <2>5 DEF Reads
<1>9. ASSUME NEW n \in Nonces, replay_cached_burst(p, n) PROVE OrderInv'
  <2>1. PICK s \in Slot :
          /\ Others(s) /\ conns[s].conn = ConnOf(p)
          /\ conns'[s].conn = conns[s].conn /\ conns'[s].queue = conns[s].queue
    BY <1>0, <1>9, ReplayEffect
  <2>2. got' = [got EXCEPT ![p] = <<>>]
    BY <1>9 DEF replay_cached_burst
  <2>3. /\ Rising(<<>>) /\ Below(<<>>, Newest(s)) /\ Before(<<>>, conns[s].queue)
    BY LiveEmpty
  <2>4. QED
    BY <1>5, <1>6, <2>1, <2>2, <2>3
<1>10. ASSUME NEW id \in RegWrites(p), register_proxy_id(p, id) PROVE OrderInv'
  <2>1. PICK s \in Slot :
          /\ Others(s) /\ conns[s].conn = ConnOf(p)
          /\ conns'[s].conn = conns[s].conn /\ conns'[s].queue = conns[s].queue
    BY <1>0, <1>10, RegisterEffect
  <2>2. got' = [got EXCEPT ![p] = got[p]]
    BY <1>7, <1>10 DEF register_proxy_id
  <2>3. QED
    BY <1>5, <1>6, <2>1, <2>2
<1>11. CASE request_teardown(p)
  <2>1. PICK s \in Slot :
          /\ Others(s) /\ conns[s].conn = ConnOf(p)
          /\ conns'[s].conn = conns[s].conn /\ conns'[s].queue = conns[s].queue
    BY <1>0, <1>11, TeardownEffect
  <2>2. got' = [got EXCEPT ![p] = got[p]]
    BY <1>7, <1>11 DEF request_teardown
  <2>3. QED
    BY <1>5, <1>6, <2>1, <2>2
<1>12. CASE reply_queuestatus(p)
  <2> DEFINE s == find_slot(ConnOf(p))
             e == Entry(proto_encode_queue_status.variant, 0, NoPhone)
  <2>1. s \in Slot /\ conns[s].conn = ConnOf(p)
    BY <1>0, <1>1, SlotOfPhone
  <2>2. e \in QEntry /\ e.kind # "live"
    <3>1. proto_encode_queue_status.variant = "queueStatus" /\ 0 \in Nat
      BY DEF proto_encode_queue_status, FromRadio
    <3>2. QED
      BY <3>1, EntryType DEF EntryKind
  <2>3. Push(s, e) /\ got' = got
    BY <1>12 DEF reply_queuestatus
  <2> SUFFICES ASSUME NEW t, t = s PROVE OrderInv'
    OBVIOUS
  <2> HIDE DEF s, e
  <2>4. /\ Others(t) /\ conns'[t].conn = conns[t].conn
        /\ conns'[t].queue = conns[t].queue \/ conns'[t].queue = Append(conns[t].queue, e)
    BY <1>0, <2>1, <2>2, <2>3, PushEffect
  <2>5. /\ conns[t].queue \in Seq(QEntry)
        /\ Rising(conns[t].queue) /\ Below(conns[t].queue, Newest(t))
        /\ Rising(got[p]) /\ Below(got[p], Newest(t)) /\ Before(got[p], conns[t].queue)
    BY <1>6, <2>1
  <2>6. /\ Rising(conns'[t].queue) /\ Below(conns'[t].queue, Newest(t))
        /\ Before(got[p], conns'[t].queue)
    BY <2>2, <2>4, <2>5, OtherAppend
  <2>7. QED
    BY <1>5, <1>7, <2>1, <2>3, <2>4, <2>5, <2>6
<1>13. QED
  BY <1>8, <1>9, <1>10, <1>11, <1>12

\* A new frame is newer than all that is queued or read.
LEMMA OrderArrives ==
  ASSUME SlotInv, OrderInv, NEW f \in Frames, FrameArrives(f)
  PROVE  OrderInv'
<1> DEFINE c == get_conn_by_proxy_id(Addressee(proto_decode_fromradio(f.msg)[2]))
<1>0. BleType /\ msgs \in Nat
  BY DEF SlotInv, BleType, PhoneType
<1>1. /\ UNCHANGED <<conns, peer, got, link>> /\ msgs' = msgs + 1 /\ sys.pc = "idle"
      /\ sys' = IF c = NoConn THEN [Idle EXCEPT !.pc = "bcast", !.i = 1]
                ELSE [Idle EXCEPT !.pc = "find", !.conn = c, !.to = f.for]
  BY DEF FrameArrives, phones
<1> HIDE DEF c
<1>2. OrderSys'
  <2>1. sys'.pc = "bcast" \/ sys'.i = 0
    BY <1>1 DEF Idle
  <2>2. QED
    BY <2>1 DEF OrderSys
<1>3. Held' = Held
  BY <1>1 DEF Held
<1>4. ASSUME NEW s \in Held PROVE OrderSlot(s)'
  <2>1. OrderSlot(s)
    BY DEF OrderInv
  <2>2. ~ Due(s)
    BY <1>1 DEF Due
  <2>3. Newest(s) = msgs /\ Newest(s)' \in {msgs, msgs + 1}
    BY <1>0, <1>1, <2>2 DEF Newest
  <2>4. Newest(s) \in Int /\ Newest(s)' \in Int /\ Newest(s) <= Newest(s)'
    BY <1>0, <2>3
  <2>5. QED
    BY <1>1, <2>1, <2>4, OrderSlotKept
<1>5. QED
  BY <1>1, <1>2, <1>3, <1>4 DEF OrderInv

\* Going on to the next slot, and looking up the slot of a recipient.
LEMMA OrderWalk ==
  ASSUME SlotInv, OrderInv, Broadcast \/ EnqueueFind \/ notify_fromnum
  PROVE  OrderInv'
<1>0. /\ BleType /\ LinkInv /\ SysType /\ sys \in SysRecord /\ OrderSys /\ sys.i \in Nat
      /\ sys.pc = "bcast" => sys.i >= 1
  BY DEF SlotInv, BleType, SysType, SysRecord, OrderInv
<1>1. UNCHANGED <<conns, peer, got, link, msgs>> /\ sys.pc \in {"bcast", "find", "ring"}
  BY DEF Broadcast, EnqueueFind, notify_fromnum, SysOnly, phones
<1>2. ASSUME \A t \in Slot : Due(t)' => Due(t), OrderSys' PROVE OrderInv'
  BY <1>1, <1>2, OrderKept
<1>3. CASE sys' = Onward \/ sys' = Idle
  BY <1>0, <1>1, <1>2, <1>3, DueOnward
<1>4. CASE /\ sys.pc = "bcast" /\ ~ (sys.i > NSlots) /\ conns[sys.i].conn # NoConn
           /\ sys' = [sys EXCEPT !.pc = "find", !.conn = conns[sys.i].conn]
  <2>1. sys.i \in Slot /\ sys.i # 0
    BY <1>0, <1>4, BleConstants DEF Slot
  <2>2. sys'.pc = "find" /\ sys'.i = sys.i /\ sys'.conn = conns[sys.i].conn
    BY <1>0, <1>4 DEF SysRecord
  <2>3. OrderSys'
    BY <1>1, <2>1, <2>2 DEF OrderSys
  <2>4. ASSUME NEW t \in Slot, Due(t)' PROVE Due(t)
    <3>1. t >= sys.i \/ conns[t].conn = conns[sys.i].conn
      BY <1>1, <2>2, <2>4 DEF Due
    <3>2. conns[t].conn = conns[sys.i].conn => t = sys.i
      BY <1>0, <1>4, <2>1 DEF LinkInv, Held
    <3>3. t >= sys.i
      BY <2>1, <3>1, <3>2 DEF Slot
    <3>4. QED
      BY <1>4, <2>1, <3>3 DEF Due
  <2>5. QED
    BY <1>2, <2>3, <2>4
<1>5. CASE sys.pc = "find" /\ sys' = [sys EXCEPT !.pc = "lock", !.slot = find_slot(sys.conn)]
  <2>1. sys'.pc = "lock" /\ sys'.i = sys.i /\ sys'.conn = sys.conn
    BY <1>0, <1>5 DEF SysRecord
  <2>2. OrderSys'
    BY <1>0, <1>1, <1>5, <2>1 DEF OrderSys
  <2>3. \A t \in Slot : Due(t)' => Due(t)
    BY <1>1, <1>5, <2>1 DEF Due
  <2>4. QED
    BY <1>2, <2>2, <2>3
<1>6. CASE Broadcast
  <2>1. sys.pc = "bcast" /\ \/ sys' = Onward \/ sys' = Idle
                            \/ /\ ~ (sys.i > NSlots) /\ conns[sys.i].conn # NoConn
                               /\ sys' = [sys EXCEPT !.pc = "find", !.conn = conns[sys.i].conn]
    BY <1>0, <1>6, BleConstants DEF Broadcast
  <2>2. QED
    BY <1>3, <1>4, <2>1
<1>7. CASE EnqueueFind
  <2>1. sys.pc = "find" /\ \/ sys' = Onward
                           \/ sys' = [sys EXCEPT !.pc = "lock", !.slot = find_slot(sys.conn)]
    BY <1>7 DEF EnqueueFind
  <2>2. QED
    BY <1>3, <1>5, <2>1
<1>8. CASE notify_fromnum
  BY <1>3, <1>8 DEF notify_fromnum
<1>9. QED
  BY <1>6, <1>7, <1>8

\* The frame is put at the end of one queue, and that slot does not wait for it
\* any longer.
LEMMA OrderLocked ==
  ASSUME SlotInv, PrivateInv, OrderInv, EnqueueLocked
  PROVE  OrderInv'
<1>0. /\ BleType /\ LinkInv /\ SlotType /\ SysType /\ sys \in SysRecord /\ OrderSys
      /\ PrivateSys /\ msgs \in Nat /\ sys.i \in Nat
  BY DEF SlotInv, BleType, SysType, SysRecord, PhoneType, PrivateInv, OrderInv
<1>1. /\ UNCHANGED <<peer, got, link, msgs>> /\ sys.pc = "lock"
      /\ Push(sys.slot, Entry("live", msgs, sys.to))
      /\ sys' = Onward \/ sys' = [sys EXCEPT !.pc = "ring"]
  BY DEF EnqueueLocked
<1>2. PICK s \in Slot : s = sys.slot
  BY <1>0, <1>1 DEF SysType
<1>3. sys.conn \in Conn /\ conns[s].conn = sys.conn
  BY <1>0, <1>1, <1>2 DEF SysType, PrivateSys
<1>4. s \in Held
  BY <1>3, BleConstants DEF Held, Conn, NoConn
<1>5. sys.i # 0 => sys.i = s
  <2>1. ASSUME sys.i # 0 PROVE sys.i \in Held /\ conns[sys.i].conn = conns[s].conn
    BY <1>0, <1>1, <1>3, <2>1, BleConstants DEF OrderSys, Held, Conn, NoConn
  <2>2. QED
    BY <1>0, <1>4, <2>1 DEF LinkInv
<1>6. PICK e \in QEntry : e = Entry("live", msgs, sys.to) /\ e.kind = "live" /\ e.v = msgs
  <2>1. sys.to \in Phone \cup {NoPhone}
    BY <1>0 DEF SysRecord
  <2>2. QED
    BY <1>0, <2>1, EntryType DEF EntryKind
<1>7. /\ Others(s) /\ conns'[s].conn = conns[s].conn
      /\ conns'[s].queue = conns[s].queue \/ conns'[s].queue = Append(conns[s].queue, e)
  BY <1>0, <1>1, <1>2, <1>6, PushEffect
<1>8. (\A t \in Slot : Due(t)' => Due(t) /\ t # s) /\ OrderSys'
  <2>1. CASE sys' = Onward
    <3>1. (\A t \in Slot : Due(t)' => Due(t) /\ t # sys.i) /\ OrderSys'
      BY <1>0, <1>1, <2>1, DueOnward
    <3>2. CASE sys.i # 0
      BY <1>5, <3>1, <3>2
    <3>3. CASE sys.i = 0
      <4>1. sys' = Idle
        BY <2>1, <3>3 DEF Onward
      <4>2. \A t \in Slot : ~ Due(t)'
        BY <4>1 DEF Due, Idle
      <4>3. QED
        BY <3>1, <4>2
    <3>4. QED
      BY <3>2, <3>3
  <2>2. CASE sys' = [sys EXCEPT !.pc = "ring"]
    <3>1. sys'.pc = "ring" /\ sys'.i = sys.i
      BY <1>0, <2>2 DEF SysRecord
    <3>2. ASSUME NEW t \in Slot, Due(t)' PROVE Due(t) /\ t # s
      <4>1. sys.i # 0 /\ t > sys.i
        BY <3>1, <3>2 DEF Due
      <4>2. sys.i = s /\ t >= sys.i /\ t # s
        BY <1>5, <4>1 DEF Slot
      <4>3. QED
        BY <1>1, <4>1, <4>2 DEF Due
    <3>3. QED
      BY <3>1, <3>2 DEF OrderSys
  <2>3. QED
    BY <1>1, <2>1, <2>2
<1>9. Held' = Held
  BY <1>7 DEF Held, Others
<1>10. OrderSlot(s)'
  <2>1. OrderSlot(s) /\ conns[s].queue \in Seq(QEntry)
    BY <1>0, <1>4 DEF OrderInv, SlotType, SlotRecord
  <2>2. Newest(s) = msgs - 1 /\ Newest(s)' = msgs
    <3>1. Due(s) /\ ~ Due(s)'
      BY <1>1, <1>3, <1>8 DEF Due
    <3>2. QED
      BY <1>1, <3>1 DEF Newest
  <2>3. CASE conns'[s].queue = conns[s].queue
    <3>1. Newest(s) \in Int /\ Newest(s)' \in Int /\ Newest(s) <= Newest(s)'
      BY <1>0, <2>2
    <3>2. QED
      BY <1>1, <1>7, <2>1, <2>3, <3>1, OrderSlotKept
  <2>4. CASE conns'[s].queue = Append(conns[s].queue, e)
    <3>1. Rising(conns[s].queue) /\ Below(conns[s].queue, msgs - 1)
      BY <2>1, <2>2 DEF OrderSlot
    <3>2. Rising(conns'[s].queue) /\ Below(conns'[s].queue, msgs)
      BY <1>0, <1>6, <2>1, <2>4, <3>1, FrameAppend
    <3>3. ASSUME NEW g, Below(g, msgs - 1), Before(g, conns[s].queue)
          PROVE  Before(g, conns'[s].queue) /\ Below(g, msgs)
      <4>1. Before(g, conns'[s].queue)
        BY <1>0, <1>6, <2>1, <2>4, <3>1, <3>3, FrameAppend
      <4>2. msgs - 1 \in Int /\ msgs \in Int /\ msgs - 1 <= msgs
        BY <1>0
      <4>3. QED
        BY <3>3, <4>1, <4>2, BelowMore
    <3>4. QED
      BY <1>1, <1>7, <2>1, <2>2, <3>2, <3>3 DEF OrderSlot
  <2>5. QED
    BY <1>7, <2>3, <2>4
<1>11. ASSUME NEW t \in Held, t # s PROVE OrderSlot(t)'
  <2>1. t \in Slot /\ conns'[t] = conns[t] /\ OrderSlot(t)
    BY <1>7, <1>11 DEF Held, Others, OrderInv
  <2>2. Newest(t) \in Int /\ Newest(t)' \in Int /\ Newest(t) <= Newest(t)'
    BY <1>0, <1>1, <1>8, <2>1, LastMore
  <2>3. QED
    BY <1>1, <2>1, <2>2, OrderSlotKept
<1>12. QED
  BY <1>1, <1>8, <1>9, <1>10, <1>11 DEF OrderInv

\* Every step keeps the order, when the threads are cooperative.
LEMMA OrderNext ==
  ASSUME ~ Preemptive
  PROVE  SlotInv /\ PrivateInv /\ OrderInv /\ [Next]_vars => OrderInv'
<1> SUFFICES ASSUME SlotInv, PrivateInv, OrderInv, [Next]_vars PROVE OrderInv'
  OBVIOUS
<1>0. BleType /\ sys \in SysRecord /\ OrderSys /\ link \in [Conn -> {"free", "up", "down"}]
  BY DEF OrderInv, SlotInv, BleType, SysType, LinkType
<1>1. ASSUME NEW p \in Phone, NEW c \in Conn, Connect(p, c) PROVE OrderInv'
  BY <1>1, OrderConnect
<1>2. ASSUME NEW c \in Conn, Disconnected(c) PROVE OrderInv'
  BY <1>2, OrderDisconnect
<1>3. ASSUME NEW p \in Phone,
             \/ fromradio_read(p)
             \/ \E n \in Nonces : replay_cached_burst(p, n)
             \/ \E id \in RegWrites(p) : register_proxy_id(p, id)
             \/ request_teardown(p) \/ reply_queuestatus(p)
      PROVE  OrderInv'
  BY <1>3, OrderPhone
<1>4. CASE (\E f \in Frames : FrameArrives(f)) \/ Broadcast \/ EnqueueFind \/ EnqueueLocked
           \/ notify_fromnum
  BY <1>4, OrderArrives, OrderWalk, OrderLocked
<1>5. CASE \/ ConnectFails
           \/ \E c \in Conn : LinkLost(c)
           \/ \E p \in Phone : Subscribe(p) \/ StartDrain(p)
           \/ \E s \in Slot : TeardownExpires(s)
           \/ UNCHANGED vars
  <2>1. UNCHANGED <<conns, peer, got, sys, msgs>>
    BY <1>5 DEF ConnectFails, LinkLost, Subscribe, StartDrain, TeardownExpires, threads,
                phones, vars
  <2>2. \A c \in Conn : link'[c] = "up" => link[c] = "up"
    BY <1>0, <1>5 DEF ConnectFails, LinkLost, Down, Subscribe, StartDrain, TeardownExpires,
                     threads, phones, vars
  <2>3. (\A t \in Slot : Due(t)' => Due(t)) /\ OrderSys'
    BY <1>0, <2>1 DEF Due, OrderSys
  <2>4. QED
    BY <2>1, <2>2, <2>3, OrderKept
<1>6. CASE (\E s \in Slot : TeardownRuns(s)) \/ TeardownLocked \/ TeardownDrop
  <2>1. UNCHANGED <<conns, peer, got, msgs>> /\ sys'.pc \in {"teardown", "drop", "idle"}
    <3>1. ASSUME NEW s \in Slot, TeardownRuns(s)
          PROVE  UNCHANGED <<conns, peer, got, msgs>> /\ sys'.pc = "teardown"
      BY <3>1 DEF TeardownRuns, phones, Idle
    <3>2. CASE TeardownLocked
      BY <1>0, <3>2 DEF TeardownLocked, SysOnly, phones, Idle, SysRecord
    <3>3. CASE TeardownDrop
      BY <3>3 DEF TeardownDrop, Idle
    <3>4. QED
      BY <1>6, <3>1, <3>2, <3>3
  <2>2. \A c \in Conn : link'[c] = "up" => link[c] = "up"
    BY <1>0, <1>6 DEF TeardownRuns, TeardownLocked, TeardownDrop, SysOnly, Down
  <2>3. (\A t \in Slot : Due(t)' => Due(t)) /\ OrderSys'
    BY <2>1 DEF Due, OrderSys
  <2>4. QED
    BY <2>1, <2>2, <2>3, OrderKept
<1>7. QED
  BY <1>1, <1>2, <1>3, <1>4, <1>5, <1>6 DEF Next

\* Nothing is queued at boot.
LEMMA OrderInit == Init => OrderInv
<1> SUFFICES ASSUME Init PROVE OrderInv
  OBVIOUS
<1>1. Held = {}
  BY DEF Init, Held, FreeSlot
<1>2. \A p \in Phone : Rising(got[p])
  <2>1. \A p \in Phone : got[p] = <<>>
    BY DEF Init
  <2>2. QED
    BY <2>1, LiveEmpty
<1>3. OrderSys
  BY DEF Init, Idle, OrderSys
<1>4. QED
  BY <1>1, <1>2, <1>3 DEF OrderInv

\* OrderInv holds when threads are cooperative.
THEOREM OrderInvariant ==
  ASSUME ~ Preemptive
  PROVE  Spec => []OrderInv
  BY OrderInit, OrderNext, SlotInvariant, PrivateInvariant, PTL DEF Spec

\* The node's frames reach a phone in the order the node sent them, none twice.
THEOREM FramesInOrder ==
  ASSUME ~ Preemptive
  PROVE  Spec => []LiveInOrder
<1>1. SlotInv /\ OrderInv => LiveInOrder
  <2> SUFFICES ASSUME SlotInv, OrderInv, NEW p \in Phone
               PROVE  \A i, j \in {k \in DOMAIN got[p] : got[p][k].kind = "live"} :
                        i < j => got[p][i].v < got[p][j].v
    BY DEF LiveInOrder
  <2>1. got[p] \in Seq(QEntry) /\ Rising(got[p])
    BY DEF SlotInv, BleType, PhoneType, OrderInv
  <2>2. DOMAIN got[p] = 1 .. Len(got[p])
    BY <2>1
  <2>3. QED
    BY <2>1, <2>2 DEF Rising, Live
<1>2. QED
  BY <1>1, SlotInvariant, OrderInvariant, PTL

----------------------------------------------------------------------------
(* Doorbells *)

\* A phone with frames in its queue is notified, draining, or about to be.
BellSlot(s) ==
  link[conns[s].conn] = "up" /\ owed[peer[conns[s].conn]] /\ conns[s].queue # <<>> =>
    \/ bell[peer[conns[s].conn]] # "silent" \/ reading[peer[conns[s].conn]]
    \/ sys.pc = "ring" /\ sys.conn = conns[s].conn

\* Only a subscribed phone is owed a frame, only a connected one is subscribed.
BellPhones ==
  /\ \A p \in Phone : owed[p] => subscribed[p]
  /\ \A p \in Phone : subscribed[p] => Connected(p)

\* The inductive invariant of doorbells.
BellInv ==
  /\ \A s \in Slot : conns[s].state # "REPLAYING"
  /\ \A s \in Held : BellSlot(s)
  /\ BellPhones

\* bt_gatt_notify leaves no subscribed phone at the end of c in silence, and
\* silences no other.
LEMMA BellRings ==
  ASSUME NEW c, bt_gatt_notify(c), NEW p \in Phone
  PROVE  /\ bell[p] # "silent" => bell'[p] # "silent"
         /\ Up(p, c) /\ subscribed[p] => bell'[p] # "silent"
<1>1. CASE bell' = Rung(c)
  BY <1>1 DEF Rung
<1>2. CASE bell' = Unheard(c)
  BY <1>2 DEF Unheard
<1>3. QED
  BY <1>1, <1>2 DEF bt_gatt_notify

\* Only the phone at the end of c comes to be owed a frame, when it subscribed.
LEMMA OwedOnly ==
  ASSUME NEW c, NEW p \in Phone, owed' = Owed(c), owed'[p]
  PROVE  owed[p] \/ (Up(p, c) /\ subscribed[p])
  BY DEF Owed

\* A slot keeps its queue, or has none, and its phone hears no less.
LEMMA BellSlotKept ==
  ASSUME NEW s, BellSlot(s), conns'[s].conn = conns[s].conn,
         conns'[s].queue = conns[s].queue,
         link'[conns[s].conn] = "up" =>
           /\ link[conns[s].conn] = "up" /\ peer'[conns[s].conn] = peer[conns[s].conn]
           /\ owed'[peer[conns[s].conn]] => owed[peer[conns[s].conn]]
           /\ bell[peer[conns[s].conn]] # "silent" \/ reading[peer[conns[s].conn]] =>
                bell'[peer[conns[s].conn]] # "silent" \/ reading'[peer[conns[s].conn]],
         sys' = sys \/ sys.pc # "ring"
  PROVE  BellSlot(s)'
<1> SUFFICES ASSUME link'[conns[s].conn] = "up", owed'[peer'[conns[s].conn]],
                    conns[s].queue # <<>>
             PROVE  \/ bell'[peer'[conns[s].conn]] # "silent" \/ reading'[peer'[conns[s].conn]]
                    \/ sys'.pc = "ring" /\ sys'.conn = conns[s].conn
  BY DEF BellSlot
<1>1. /\ link[conns[s].conn] = "up" /\ peer'[conns[s].conn] = peer[conns[s].conn]
      /\ owed[peer[conns[s].conn]]
      /\ bell[peer[conns[s].conn]] # "silent" \/ reading[peer[conns[s].conn]] =>
           bell'[peer[conns[s].conn]] # "silent" \/ reading'[peer[conns[s].conn]]
  OBVIOUS
<1>2. \/ bell[peer[conns[s].conn]] # "silent" \/ reading[peer[conns[s].conn]]
      \/ sys.pc = "ring" /\ sys.conn = conns[s].conn
  BY <1>1 DEF BellSlot
<1>3. QED
  BY <1>1, <1>2

\* Nothing that has to do with doorbells changes.
LEMMA BellKept ==
  ASSUME SlotInv, BellInv, UNCHANGED <<link, peer, bell, reading, subscribed, owed>>,
         \A s \in Slot : /\ conns'[s].conn = conns[s].conn /\ conns'[s].queue = conns[s].queue
                         /\ conns'[s].state = conns[s].state,
         sys' = sys \/ sys.pc # "ring"
  PROVE  BellInv'
<1>1. Held' = Held
  BY DEF Held
<1>2. ASSUME NEW s \in Held PROVE BellSlot(s)'
  <2>1. BellSlot(s) /\ s \in Slot
    BY DEF BellInv, Held
  <2>2. QED
    BY <2>1, BellSlotKept
<1>3. BellPhones'
  BY DEF BellInv, BellPhones, Connected, Up
<1>4. QED
  BY <1>1, <1>2, <1>3 DEF BellInv

\* The link of c ends, and with it all that its phone had under way.
LEMMA BellDown ==
  ASSUME SlotInv, BellInv, NEW c \in Conn, link[c] = "up", Down(c),
         UNCHANGED <<conns, peer>>, sys' = sys \/ sys.pc # "ring"
  PROVE  BellInv'
<1>0. BleType /\ LinkInv
  BY DEF SlotInv
<1>1. /\ \A d \in Conn : link'[d] = IF d = c THEN "down" ELSE link[d]
      /\ peer[c] \in Phone
  BY <1>0 DEF BleType, LinkType, LinkInv, Down
<1>2. /\ ~ subscribed'[peer[c]] /\ ~ owed'[peer[c]]
      /\ \A q \in Phone : q # peer[c] => /\ bell'[q] = bell[q] /\ reading'[q] = reading[q]
                                         /\ subscribed'[q] = subscribed[q] /\ owed'[q] = owed[q]
  BY <1>0, <1>1 DEF BleType, PhoneType, Down
<1>3. Held' = Held
  BY DEF Held
<1>4. ASSUME NEW s \in Held PROVE BellSlot(s)'
  <2>1. BellSlot(s) /\ conns[s].conn \in Conn
    BY <1>0, HeldConn DEF BellInv
  <2>2. ASSUME link'[conns[s].conn] = "up"
        PROVE  /\ link[conns[s].conn] = "up" /\ peer[conns[s].conn] \in Phone
               /\ peer[conns[s].conn] # peer[c]
    BY <1>0, <1>1, <2>1, <2>2 DEF LinkInv
  <2>3. QED
    BY <1>2, <2>1, <2>2, BellSlotKept
<1>5. BellPhones'
  <2>1. \A p \in Phone : owed'[p] => subscribed'[p]
    BY <1>2 DEF BellInv, BellPhones
  <2>2. ASSUME NEW p \in Phone, subscribed'[p] PROVE Connected(p)'
    <3>1. p # peer[c] /\ subscribed[p]
      BY <1>2, <2>2
    <3>2. PICK d \in Conn : Up(p, d)
      BY <3>1 DEF BellInv, BellPhones, Connected
    <3>3. d # c /\ link'[d] = "up" /\ peer'[d] = p /\ d # NoConn
      BY <1>1, <3>1, <3>2 DEF Up
    <3>4. QED
      BY <3>3 DEF Connected, Up
  <2>3. QED
    BY <2>1, <2>2 DEF BellPhones
<1>6. QED
  BY <1>3, <1>4, <1>5 DEF BellInv

\* A newcomer's queue is empty.
LEMMA BellConnect ==
  ASSUME SlotInv, BellInv, NEW p \in Phone, NEW c \in Conn, Connect(p, c)
  PROVE  BellInv'
<1>0. BleType /\ LinkInv /\ CountInv
  BY DEF SlotInv
<1>1. PICK s \in Slot : /\ Others(s) /\ conns'[s].conn = c /\ conns'[s].queue = <<>>
                        /\ conns'[s].state = "CONNECTED"
  BY <1>0, ConnectEffect
<1>2. /\ link[c] = "free" /\ \A t \in Slot : conns[t].conn # c
      /\ link' = [link EXCEPT ![c] = "up"]
  BY <1>0, ConnectLink
<1>3. /\ peer' = [peer EXCEPT ![c] = p]
      /\ UNCHANGED <<sys, bell, reading, subscribed, owed>>
  BY DEF Connect
<1>4. \A d \in Conn : d # c => link'[d] = link[d] /\ peer'[d] = peer[d]
  BY <1>0, <1>2, <1>3 DEF BleType, LinkType
<1>5. ASSUME NEW t \in Held' PROVE BellSlot(t)'
  <2>1. CASE t = s
    BY <1>1, <2>1 DEF BellSlot
  <2>2. CASE t # s
    <3>1. t \in Held /\ conns'[t] = conns[t] /\ t \in Slot
      BY <1>1, <2>2 DEF Held, Others
    <3>2. conns[t].conn \in Conn /\ conns[t].conn # c /\ BellSlot(t)
      BY <1>0, <1>2, <3>1, HeldConn DEF BellInv
    <3>3. QED
      BY <1>3, <1>4, <3>1, <3>2, BellSlotKept
  <2>3. QED
    BY <2>1, <2>2
<1>6. BellPhones'
  <2>1. ASSUME NEW q \in Phone, Connected(q) PROVE Connected(q)'
    <3>1. PICK d \in Conn : Up(q, d)
      BY <2>1 DEF Connected
    <3>2. d # c /\ d # NoConn /\ link'[d] = "up" /\ peer'[d] = q
      BY <1>2, <1>4, <3>1 DEF Up
    <3>3. QED
      BY <3>2 DEF Connected, Up
  <2>2. QED
    BY <1>3, <2>1 DEF BellInv, BellPhones
<1>7. \A t \in Slot : conns'[t].state # "REPLAYING"
  BY <1>1 DEF BellInv, Others
<1>8. QED
  BY <1>5, <1>6, <1>7 DEF BellInv

\* A released slot owes nothing.
LEMMA BellDisconnect ==
  ASSUME SlotInv, BellInv, NEW c \in Conn, Disconnected(c)
  PROVE  BellInv'
<1>0. BleType /\ LinkInv
  BY DEF SlotInv
<1>1. PICK s \in Slot : Others(s) /\ conns'[s].conn = NoConn /\ conns'[s].state = "CONNECTED"
  BY <1>0, DisconnectEffect
<1>2. /\ UNCHANGED <<peer, sys, bell, reading, subscribed, owed>>
      /\ link[c] = "down" /\ link' = [link EXCEPT ![c] = "free"]
  BY DEF Disconnected, phones
<1>3. \A d \in Conn : link'[d] = "up" <=> link[d] = "up"
  BY <1>0, <1>2 DEF BleType, LinkType
<1>4. ASSUME NEW t \in Held' PROVE BellSlot(t)'
  <2>1. t \in Held /\ conns'[t] = conns[t] /\ t \in Slot
    BY <1>1 DEF Held, Others
  <2>2. conns[t].conn \in Conn /\ BellSlot(t)
    BY <1>0, <2>1, HeldConn DEF BellInv
  <2>3. QED
    BY <1>2, <1>3, <2>1, <2>2, BellSlotKept
<1>5. BellPhones'
  BY <1>2, <1>3 DEF BellInv, BellPhones, Connected, Up
<1>6. \A t \in Slot : conns'[t].state # "REPLAYING"
  BY <1>1 DEF BellInv, Others
<1>7. QED
  BY <1>4, <1>5, <1>6 DEF BellInv

\* A phone reads: it stops only at an empty queue.
LEMMA BellRead ==
  ASSUME SlotInv, BellInv, NEW p \in Phone, fromradio_read(p)
  PROVE  BellInv'
<1>0. BleType /\ LinkInv /\ SlotType
  BY DEF SlotInv, BleType
<1>1. UNCHANGED <<peer, sys, link, subscribed>> /\ Connected(p)
  BY DEF fromradio_read
<1>2. /\ ConnOf(p) \in Conn /\ ConnOf(p) # NoConn /\ peer[ConnOf(p)] = p /\ link[ConnOf(p)] = "up"
  BY <1>1, ConnOfPhone
<1>3. PICK s \in Slot, out \in Seq(QEntry), r \in SlotRecord :
        /\ Others(s) /\ Reads(conns[s], out, r) /\ conns[s].conn = ConnOf(p)
        /\ conns'[s].conn = conns[s].conn /\ conns'[s].state = r.state
        /\ conns'[s].queue = r.queue
        /\ reading' = [reading EXCEPT ![p] = out # <<>>]
        /\ owed' = [owed EXCEPT ![p] = @ /\ (out # <<>> \/ r.queue # <<>>)]
        /\ bell' = IF bell[p] = "lost" /\ out = <<>> /\ r.queue = <<>>
                   THEN [bell EXCEPT ![p] = "silent"] ELSE bell
  BY <1>0, ReadEffect
<1>4. /\ reading'[p] = (out # <<>>) /\ (owed'[p] => owed[p])
      /\ \A q \in Phone : q # p => /\ reading'[q] = reading[q] /\ owed'[q] = owed[q]
                                   /\ bell'[q] = bell[q]
  <2>1. reading \in [Phone -> BOOLEAN] /\ owed \in [Phone -> BOOLEAN]
        /\ bell \in [Phone -> {"silent", "rung", "lost"}]
    BY <1>0 DEF BleType, PhoneType
  <2>2. reading'[p] = (out # <<>>) /\ \A q \in Phone : q # p => reading'[q] = reading[q]
    BY <1>3, <2>1
  <2>3. (owed'[p] => owed[p]) /\ \A q \in Phone : q # p => owed'[q] = owed[q]
    BY <1>3, <2>1
  <2>4. \A q \in Phone : q # p => bell'[q] = bell[q]
    BY <1>3, <2>1
  <2>5. QED
    BY <2>2, <2>3, <2>4
<1>5. r.state # "REPLAYING" /\ (out = <<>> => r.queue = <<>>)
  BY <1>3 DEF BellInv, Reads
<1>6. BellSlot(s)'
  <2>1. peer'[conns'[s].conn] = p /\ conns'[s].queue = r.queue
    BY <1>1, <1>2, <1>3
  <2>2. r.queue # <<>> => reading'[p]
    BY <1>4, <1>5
  <2>3. QED
    BY <2>1, <2>2 DEF BellSlot
<1>7. ASSUME NEW t \in Held', t # s PROVE BellSlot(t)'
  <2>1. t \in Held /\ conns'[t] = conns[t] /\ t \in Slot /\ s \in Held
    BY <1>2, <1>3, <1>7 DEF Held, Others
  <2>2. conns[t].conn \in Conn /\ conns[t].conn # ConnOf(p) /\ BellSlot(t)
    BY <1>0, <1>3, <1>7, <2>1, HeldConn DEF LinkInv, BellInv
  <2>3. link[conns[t].conn] = "up" => peer[conns[t].conn] \in Phone /\ peer[conns[t].conn] # p
    BY <1>0, <1>2, <2>2 DEF LinkInv
  <2>4. QED
    BY <1>1, <1>4, <2>1, <2>2, <2>3, BellSlotKept
<1>8. BellPhones'
  <2>1. \A q \in Phone : owed'[q] => owed[q]
    BY <1>4
  <2>2. QED
    BY <1>1, <2>1 DEF BellInv, BellPhones, Connected, Up
<1>9. \A t \in Slot : conns'[t].state # "REPLAYING"
  BY <1>3, <1>5 DEF BellInv, Others
<1>10. QED
  BY <1>6, <1>7, <1>8, <1>9 DEF BellInv

\* A heartbeat is answered: the answer is queued, or dropped, and announced.
LEMMA BellHeartbeat ==
  ASSUME SlotInv, BellInv, NEW p \in Phone, reply_queuestatus(p)
  PROVE  BellInv'
<1> DEFINE s == find_slot(ConnOf(p))
           e == Entry(proto_encode_queue_status.variant, 0, NoPhone)
<1>0. BleType /\ LinkInv /\ SlotType
  BY DEF SlotInv, BleType
<1>1. UNCHANGED <<peer, sys, link, reading, subscribed>> /\ Connected(p)
  BY DEF reply_queuestatus, Write
<1>2. /\ ConnOf(p) \in Conn /\ ConnOf(p) # NoConn /\ peer[ConnOf(p)] = p /\ link[ConnOf(p)] = "up"
      /\ s \in Slot /\ conns[s].conn = ConnOf(p)
  BY <1>0, <1>1, SlotOfPhone
<1>3. e \in QEntry
  <2>1. proto_encode_queue_status.variant = "queueStatus" /\ 0 \in Nat
    BY DEF proto_encode_queue_status, FromRadio
  <2>2. QED
    BY <2>1, EntryType DEF EntryKind
<1>4. /\ Push(s, e)
      /\ \/ bt_gatt_notify(ConnOf(p)) /\ owed' = Owed(ConnOf(p))
         \/ conns[s].leaving /\ UNCHANGED <<bell, owed>>
  BY DEF reply_queuestatus, Rings, Accepts
<1> SUFFICES ASSUME NEW u, u = s PROVE BellInv'
  OBVIOUS
<1> HIDE DEF s, e
<1>5. /\ Others(u) /\ conns'[u].conn = conns[u].conn /\ conns'[u].state = conns[u].state
      /\ \/ conns'[u].queue = conns[u].queue
         \/ ~ conns[u].leaving /\ conns'[u].queue = Append(conns[u].queue, e)
  BY <1>0, <1>2, <1>3, <1>4, PushEffect
<1>6. CASE conns[s].leaving /\ UNCHANGED <<bell, owed>>
  <2>1. \A t \in Slot : /\ conns'[t].conn = conns[t].conn /\ conns'[t].queue = conns[t].queue
                        /\ conns'[t].state = conns[t].state
    BY <1>5, <1>6 DEF Others
  <2>2. QED
    BY <1>1, <1>6, <2>1, BellKept
<1>7. CASE bt_gatt_notify(ConnOf(p)) /\ owed' = Owed(ConnOf(p))
  <2>1. ASSUME NEW q \in Phone, owed'[q] PROVE subscribed[q] /\ (owed[q] \/ q = p)
    <3>1. owed[q] \/ (Up(q, ConnOf(p)) /\ subscribed[q])
      BY <1>7, <2>1, OwedOnly
    <3>2. QED
      BY <1>2, <3>1 DEF Up, BellInv, BellPhones
  <2>2. BellSlot(u)'
    <3>1. peer'[conns'[u].conn] = p
      BY <1>1, <1>2, <1>5
    <3>2. owed'[p] => bell'[p] # "silent"
      <4>1. Up(p, ConnOf(p))
        BY <1>2 DEF Up
      <4>2. QED
        BY <1>7, <2>1, <4>1, BellRings
    <3>3. QED
      BY <3>1, <3>2 DEF BellSlot
  <2>3. ASSUME NEW t \in Held', t # u PROVE BellSlot(t)'
    <3>1. t \in Held /\ conns'[t] = conns[t] /\ t \in Slot /\ u \in Held
      BY <1>2, <1>5, <2>3 DEF Held, Others
    <3>2. conns[t].conn \in Conn /\ conns[t].conn # ConnOf(p) /\ BellSlot(t)
      BY <1>0, <1>2, <2>3, <3>1, HeldConn DEF LinkInv, BellInv
    <3>3. link[conns[t].conn] = "up" => peer[conns[t].conn] \in Phone /\ peer[conns[t].conn] # p
      BY <1>0, <1>2, <3>2 DEF LinkInv
    <3>4. \A q \in Phone : bell[q] # "silent" => bell'[q] # "silent"
      BY <1>7, BellRings
    <3>5. QED
      BY <1>1, <2>1, <3>1, <3>2, <3>3, <3>4, BellSlotKept
  <2>4. BellPhones'
    BY <1>1, <2>1 DEF BellInv, BellPhones, Connected, Up
  <2>5. \A t \in Slot : conns'[t].state # "REPLAYING"
    BY <1>5 DEF BellInv, Others
  <2>6. QED
    BY <2>2, <2>3, <2>4, <2>5 DEF BellInv
<1>8. QED
  BY <1>4, <1>6, <1>7

\* A frame is queued, or dropped, and is going to be announced.
LEMMA BellLocked ==
  ASSUME SlotInv, PrivateInv, BellInv, EnqueueLocked
  PROVE  BellInv'
<1>0. BleType /\ LinkInv /\ SlotType /\ SysType /\ sys \in SysRecord /\ PrivateSys /\ msgs \in Nat
  BY DEF SlotInv, BleType, SysType, PhoneType, PrivateInv
<1>1. /\ UNCHANGED <<peer, link, bell, reading, subscribed>> /\ sys.pc = "lock"
      /\ Push(sys.slot, Entry("live", msgs, sys.to))
      /\ \/ /\ sys' = [sys EXCEPT !.pc = "ring"] /\ owed' = Owed(conns[sys.slot].conn)
         \/ conns[sys.slot].leaving /\ UNCHANGED owed
  BY DEF EnqueueLocked, Rings, Accepts
<1>2. PICK s \in Slot : s = sys.slot
  BY <1>0, <1>1 DEF SysType
<1>3. sys.conn \in Conn /\ conns[s].conn = sys.conn
  BY <1>0, <1>1, <1>2 DEF SysType, PrivateSys
<1>4. s \in Held
  BY <1>3, BleConstants DEF Held, Conn, NoConn
<1>5. PICK e \in QEntry : e = Entry("live", msgs, sys.to)
  <2>1. sys.to \in Phone \cup {NoPhone}
    BY <1>0 DEF SysRecord
  <2>2. QED
    BY <1>0, <2>1, EntryType DEF EntryKind
<1>6. /\ Others(s) /\ conns'[s].conn = conns[s].conn /\ conns'[s].state = conns[s].state
      /\ \/ conns'[s].queue = conns[s].queue
         \/ ~ conns[s].leaving /\ conns'[s].queue = Append(conns[s].queue, e)
  BY <1>0, <1>1, <1>2, <1>5, PushEffect
<1>7. CASE conns[sys.slot].leaving /\ UNCHANGED owed
  <2>1. \A t \in Slot : /\ conns'[t].conn = conns[t].conn /\ conns'[t].queue = conns[t].queue
                        /\ conns'[t].state = conns[t].state
    BY <1>2, <1>6, <1>7 DEF Others
  <2>2. QED
    BY <1>1, <1>7, <2>1, BellKept
<1>8. CASE sys' = [sys EXCEPT !.pc = "ring"] /\ owed' = Owed(conns[sys.slot].conn)
  <2>0. sys'.pc = "ring" /\ sys'.conn = sys.conn /\ owed' = Owed(sys.conn)
    BY <1>0, <1>2, <1>3, <1>8 DEF SysRecord
  <2>1. ASSUME NEW q \in Phone, owed'[q] PROVE subscribed[q] /\ (owed[q] \/ Up(q, sys.conn))
    <3>1. owed[q] \/ (Up(q, sys.conn) /\ subscribed[q])
      BY <2>0, <2>1, OwedOnly
    <3>2. QED
      BY <3>1 DEF BellInv, BellPhones
  <2>2. BellSlot(s)'
    BY <1>3, <1>6, <2>0 DEF BellSlot
  <2>3. ASSUME NEW t \in Held', t # s PROVE BellSlot(t)'
    <3>1. t \in Held /\ conns'[t] = conns[t] /\ t \in Slot
      BY <1>6, <2>3 DEF Held, Others
    <3>2. conns[t].conn \in Conn /\ conns[t].conn # sys.conn /\ BellSlot(t)
      BY <1>0, <1>3, <1>4, <2>3, <3>1, HeldConn DEF LinkInv, BellInv
    <3>3. link[conns[t].conn] = "up" =>
            peer[conns[t].conn] \in Phone /\ ~ Up(peer[conns[t].conn], sys.conn)
      BY <1>0, <1>3, <3>2 DEF LinkInv, Up
    <3>4. QED
      BY <1>1, <2>1, <3>1, <3>2, <3>3, BellSlotKept
  <2>4. BellPhones'
    BY <1>1, <2>1 DEF BellInv, BellPhones, Connected, Up
  <2>5. \A t \in Slot : conns'[t].state # "REPLAYING"
    BY <1>6 DEF BellInv, Others
  <2>6. QED
    BY <2>2, <2>3, <2>4, <2>5 DEF BellInv
<1>9. QED
  BY <1>1, <1>7, <1>8

\* The announcement, heard or not.
LEMMA BellNotify ==
  ASSUME SlotInv, BellInv, notify_fromnum
  PROVE  BellInv'
<1>0. BleType /\ LinkInv
  BY DEF SlotInv
<1>1. /\ UNCHANGED <<conns, peer, link, reading, subscribed, owed>>
      /\ bt_gatt_notify(sys.conn) /\ sys.pc = "ring"
  BY DEF notify_fromnum
<1>2. Held' = Held
  BY <1>1 DEF Held
<1>3. ASSUME NEW s \in Held PROVE BellSlot(s)'
  <2> DEFINE p == peer[conns[s].conn]
  <2> SUFFICES ASSUME link[conns[s].conn] = "up", owed[p], conns[s].queue # <<>>
               PROVE  bell'[p] # "silent" \/ reading[p]
    BY <1>1 DEF BellSlot
  <2>1. conns[s].conn \in Conn /\ conns[s].conn # NoConn /\ p \in Phone /\ subscribed[p]
    <3>1. conns[s].conn \in Conn /\ conns[s].conn # NoConn
      BY <1>0, HeldConn
    <3>2. p \in Phone
      BY <1>0, <3>1 DEF LinkInv
    <3>3. QED
      BY <3>1, <3>2 DEF BellInv, BellPhones
  <2>2. bell[p] # "silent" \/ reading[p] \/ sys.conn = conns[s].conn
    BY DEF BellInv, BellSlot
  <2>3. bell[p] # "silent" => bell'[p] # "silent"
    BY <1>1, <2>1, BellRings
  <2>4. sys.conn = conns[s].conn => bell'[p] # "silent"
    <3>1. Up(p, conns[s].conn)
      BY <2>1 DEF Up
    <3> HIDE DEF p
    <3>2. QED
      BY <1>1, <2>1, <3>1, BellRings
  <2>5. QED
    BY <2>2, <2>3, <2>4
<1>4. BellPhones'
  BY <1>1 DEF BellInv, BellPhones, Connected, Up
<1>5. QED
  BY <1>1, <1>2, <1>3, <1>4 DEF BellInv

\* Every step keeps it, when the threads are cooperative and no replay is armed.
LEMMA BellNext ==
  ASSUME ~ Preemptive, "want_config" \notin PhoneOps
  PROVE  SlotInv /\ PrivateInv /\ BellInv /\ [Next]_vars => BellInv'
<1> SUFFICES ASSUME SlotInv, PrivateInv, BellInv, [Next]_vars PROVE BellInv'
  OBVIOUS
<1>0. BleType /\ LinkInv /\ SlotType /\ SysType
  BY DEF SlotInv, BleType
<1>1. ASSUME NEW p \in Phone, NEW c \in Conn, Connect(p, c) PROVE BellInv'
  BY <1>1, BellConnect
<1>2. ASSUME NEW c \in Conn, Disconnected(c) PROVE BellInv'
  BY <1>2, BellDisconnect
<1>3. ASSUME NEW c \in Conn, LinkLost(c) PROVE BellInv'
  <2>1. link[c] = "up" /\ Down(c) /\ UNCHANGED <<conns, peer, sys>>
    BY <1>3 DEF LinkLost, threads
  <2>2. QED
    BY <2>1, BellDown
<1>4. ASSUME NEW p \in Phone, fromradio_read(p) \/ reply_queuestatus(p) PROVE BellInv'
  BY <1>4, BellRead, BellHeartbeat
<1>5. ASSUME NEW p \in Phone, NEW n \in Nonces, replay_cached_burst(p, n) PROVE BellInv'
  BY <1>5 DEF replay_cached_burst, Write
<1>6. ASSUME NEW p \in Phone, NEW id \in RegWrites(p), register_proxy_id(p, id) PROVE BellInv'
  <2>1. PICK s \in Slot : /\ Others(s) /\ conns'[s].conn = conns[s].conn
                          /\ conns'[s].queue = conns[s].queue /\ conns'[s].state = conns[s].state
    BY <1>0, <1>6, RegisterEffect
  <2>2. \A t \in Slot : /\ conns'[t].conn = conns[t].conn /\ conns'[t].queue = conns[t].queue
                        /\ conns'[t].state = conns[t].state
    BY <2>1 DEF Others
  <2>3. UNCHANGED <<link, peer, bell, reading, subscribed, owed, sys>>
    BY <1>6 DEF register_proxy_id, Write
  <2>4. QED
    BY <2>2, <2>3, BellKept
<1>7. ASSUME NEW p \in Phone, request_teardown(p) PROVE BellInv'
  <2>1. PICK s \in Slot : /\ Others(s) /\ conns'[s].conn = conns[s].conn
                          /\ conns'[s].queue = conns[s].queue /\ conns'[s].state = conns[s].state
    BY <1>0, <1>7, TeardownEffect
  <2>2. \A t \in Slot : /\ conns'[t].conn = conns[t].conn /\ conns'[t].queue = conns[t].queue
                        /\ conns'[t].state = conns[t].state
    BY <2>1 DEF Others
  <2>3. UNCHANGED <<link, peer, bell, reading, subscribed, owed, sys>>
    BY <1>7 DEF request_teardown, Write
  <2>4. QED
    BY <2>2, <2>3, BellKept
<1>8. ASSUME NEW p \in Phone, Subscribe(p) \/ StartDrain(p) PROVE BellInv'
  <2>1. UNCHANGED <<conns, sys, link, peer, owed>>
    BY <1>8 DEF Subscribe, StartDrain, threads
  <2>2. \A q \in Phone : /\ bell[q] # "silent" \/ reading[q] => bell'[q] # "silent" \/ reading'[q]
                         /\ subscribed[q] => subscribed'[q]
                         /\ subscribed'[q] => subscribed[q] \/ Connected(q)
    <3>1. /\ bell \in [Phone -> {"silent", "rung", "lost"}]
          /\ reading \in [Phone -> BOOLEAN] /\ subscribed \in [Phone -> BOOLEAN]
      BY <1>0 DEF BleType, PhoneType
    <3>2. CASE Subscribe(p)
      BY <3>1, <3>2 DEF Subscribe
    <3>3. CASE StartDrain(p)
      BY <3>1, <3>3 DEF StartDrain
    <3>4. QED
      BY <1>8, <3>2, <3>3
  <2>3. ASSUME NEW s \in Held PROVE BellSlot(s)'
    <3>1. BellSlot(s) /\ conns[s].conn \in Conn
      BY <1>0, HeldConn DEF BellInv
    <3>2. link[conns[s].conn] = "up" => peer[conns[s].conn] \in Phone
      BY <1>0, <3>1 DEF LinkInv
    <3>3. QED
      BY <2>1, <2>2, <3>1, <3>2, BellSlotKept
  <2>4. Held' = Held
    BY <2>1 DEF Held
  <2>5. BellPhones'
    BY <2>1, <2>2 DEF BellInv, BellPhones, Connected, Up
  <2>6. QED
    BY <2>1, <2>3, <2>4, <2>5 DEF BellInv
<1>9. CASE \/ \E f \in Frames : FrameArrives(f)
           \/ Broadcast \/ EnqueueFind
           \/ \E s \in Slot : TeardownExpires(s) \/ TeardownRuns(s)
           \/ TeardownLocked \/ ConnectFails \/ UNCHANGED vars
  <2>1. /\ UNCHANGED <<conns, link, peer, bell, reading, subscribed, owed>>
        /\ sys' = sys \/ sys.pc # "ring"
    BY <1>9 DEF FrameArrives, Broadcast, EnqueueFind, TeardownExpires, TeardownRuns,
                TeardownLocked, ConnectFails, SysOnly, phones, vars
  <2>2. QED
    BY <2>1, BellKept
<1>10. CASE TeardownDrop
  <2>1. UNCHANGED <<conns, peer>> /\ sys.pc = "drop" /\ sys.conn \in Conn
    BY <1>0, <1>10 DEF TeardownDrop, SysType
  <2>2. CASE link[sys.conn] = "up" /\ Down(sys.conn)
    BY <2>1, <2>2, BellDown
  <2>3. CASE UNCHANGED <<link, bell, reading, subscribed, owed>>
    BY <2>1, <2>3, BellKept
  <2>4. QED
    BY <1>10, <2>2, <2>3 DEF TeardownDrop
<1>11. CASE EnqueueLocked
  BY <1>11, BellLocked
<1>12. CASE notify_fromnum
  BY <1>12, BellNotify
<1>13. QED
  BY <1>1, <1>2, <1>3, <1>4, <1>5, <1>6, <1>7, <1>8, <1>9, <1>10, <1>11, <1>12 DEF Next

\* Nothing is queued at boot.
LEMMA BellInit == Init => BellInv
<1> SUFFICES ASSUME Init PROVE BellInv
  OBVIOUS
<1>1. Held = {} /\ \A s \in Slot : conns[s].state # "REPLAYING"
  BY DEF Init, Held, FreeSlot
<1>2. BellPhones
  BY DEF Init, BellPhones
<1>3. QED
  BY <1>1, <1>2 DEF BellInv

\* BellInv holds when threads are cooperative and no phone asks for its config.
THEOREM BellInvariant ==
  ASSUME ~ Preemptive, "want_config" \notin PhoneOps
  PROVE  Spec => []BellInv
  BY BellInit, BellNext, SlotInvariant, PrivateInvariant, PTL DEF Spec

\* No stall: a phone that was sent something is notified or draining for as long
\* as it has frames to read.
THEOREM DoorbellNotLost ==
  ASSUME ~ Preemptive, "want_config" \notin PhoneOps
  PROVE  Spec => []NoLostDoorbell
<1>1. SlotInv /\ BellInv => NoLostDoorbell
  <2> SUFFICES ASSUME SlotInv, BellInv, NEW p \in Phone, owed[p], Unread(p)
               PROVE  bell[p] # "silent" \/ reading[p] \/ (sys.pc = "ring" /\ Up(p, sys.conn))
    BY DEF NoLostDoorbell
  <2> DEFINE s == find_slot(ConnOf(p))
  <2>1. Connected(p) /\ (conns[s].queue # <<>> \/ conns[s].state = "REPLAYING")
    BY DEF Unread
  <2>2. /\ s \in Slot /\ conns[s].conn = ConnOf(p) /\ ConnOf(p) # NoConn
        /\ link[ConnOf(p)] = "up" /\ peer[ConnOf(p)] = p
    BY <2>1, SlotOfPhone DEF SlotInv
  <2> HIDE DEF s
  <2>3. BellSlot(s) /\ conns[s].queue # <<>>
    BY <2>1, <2>2 DEF BellInv, Held
  <2>4. bell[p] # "silent" \/ reading[p] \/ (sys.pc = "ring" /\ sys.conn = ConnOf(p))
    BY <2>2, <2>3 DEF BellSlot
  <2>5. QED
    BY <2>2, <2>4 DEF Up
<1>2. QED
  BY <1>1, SlotInvariant, BellInvariant, PTL

----------------------------------------------------------------------------
(* Places in a set that is served in order. *)

\* A place is a natural number, and no set has more places than elements.
LEMMA RankBound ==
  ASSUME NEW S, IsFiniteSet(S), NEW i
  PROVE  /\ Cardinality(S) \in Nat /\ Rank(S, i) \in 0 .. Cardinality(S)
         /\ IsFiniteSet({j \in S : j <= i})
<1>1. IsFiniteSet({j \in S : j <= i}) /\ Cardinality({j \in S : j <= i}) <= Cardinality(S)
  BY FS_Subset
<1>2. QED
  BY <1>1, FS_CardinalityType DEF Rank

\* The next element of the set has the next place.
LEMMA RankNext ==
  ASSUME NEW S \in SUBSET Int, IsFiniteSet(S), NEW i \in S, NEW c \in Int, c < i,
         \A j \in S : ~ (c < j /\ j < i)
  PROVE  Rank(S, i) = Rank(S, c) + 1
<1> DEFINE T == {j \in S : j <= c}
<1>a. i \in Int /\ S \subseteq Int
  OBVIOUS
<1>b. ASSUME NEW j \in S PROVE j <= i <=> j <= c \/ j = i
  BY j \in Int, <1>a
<1>c. i <= i /\ ~ (i <= c)
  BY <1>a
<1>1. {j \in S : j <= i} = T \cup {i} /\ i \notin T
  BY <1>b, <1>c, Zenon
<1>2. IsFiniteSet(T)
  BY FS_Subset
<1> HIDE DEF T
<1>3. Cardinality(T \cup {i}) = Cardinality(T) + 1
  BY <1>1, <1>2, FS_AddElement
<1>4. QED
  BY <1>1, <1>3 DEF Rank, T

\* An element further on has a later place.
LEMMA RankLater ==
  ASSUME NEW S \in SUBSET Int, IsFiniteSet(S), NEW i \in S, NEW c \in Int, c < i
  PROVE  Rank(S, c) < Rank(S, i)
<1> DEFINE T == {j \in S : j <= c}
           U == {j \in S : j <= i}
<1>a. i \in Int /\ S \subseteq Int
  OBVIOUS
<1>c. ASSUME NEW j \in S, j <= c PROVE j <= i
  BY j \in Int, <1>a, <1>c
<1>d. i <= i /\ ~ (i <= c)
  BY <1>a
<1>b. T \in SUBSET U /\ i \in U /\ i \notin T
  BY <1>c, <1>d, Zenon
<1>1. IsFiniteSet(U) /\ T \in SUBSET U /\ i \in U /\ i \notin T
  BY <1>b, FS_Subset
<1> HIDE DEF T, U
<1>2. Cardinality(T) <= Cardinality(U) /\ Cardinality(U) # Cardinality(T) /\ IsFiniteSet(T)
  BY <1>1, FS_Subset
<1>3. Cardinality(T) \in Nat /\ Cardinality(U) \in Nat
  BY <1>1, <1>2, FS_CardinalityType
<1>4. QED
  BY <1>2, <1>3 DEF Rank, T, U

\* Places count from 1.
LEMMA RankPositive ==
  ASSUME NEW S \in SUBSET Int, IsFiniteSet(S), NEW i \in S
  PROVE  Rank(S, i) \in Nat /\ Rank(S, i) >= 1
<1>1. i \in Int /\ i - 1 \in Int /\ i - 1 < i
  OBVIOUS
<1>2. Rank(S, i - 1) < Rank(S, i)
  BY <1>1, RankLater
<1>3. /\ Cardinality(S) \in Nat /\ Rank(S, i - 1) \in 0 .. Cardinality(S)
      /\ Rank(S, i) \in 0 .. Cardinality(S)
  BY RankBound
<1>4. QED
  BY <1>2, <1>3

\* Going back goes to no later place.
LEMMA RankUpTo ==
  ASSUME NEW S \in SUBSET Int, IsFiniteSet(S), NEW i \in Int, NEW c \in Int, i <= c
  PROVE  Rank(S, i) <= Rank(S, c)
<1> DEFINE T == {j \in S : j <= i}
           U == {j \in S : j <= c}
<1>b. ASSUME NEW j \in S, j <= i PROVE j <= c
  BY j \in Int, <1>b
<1>a. T \in SUBSET U
  BY <1>b
<1>1. IsFiniteSet(U) /\ T \in SUBSET U
  BY <1>a, FS_Subset
<1> HIDE DEF T, U
<1>2. QED
  BY <1>1, FS_Subset DEF Rank, T, U

\* Past its last element, all places of a set are taken.
LEMMA RankAll ==
  ASSUME NEW S, NEW c, \A j \in S : j <= c
  PROVE  Rank(S, c) = Cardinality(S)
<1>1. {j \in S : j <= c} = S
  OBVIOUS
<1>2. QED
  BY <1>1 DEF Rank

----------------------------------------------------------------------------
(* What a replaying phone reads *)

\* A queue holds nothing but the node's frames and answers to heartbeats.
Quiet(q) == \A i \in 1 .. Len(q) : q[i].kind \in {"live", "queueStatus"}

\* A phone that asked with the nonce w has read g: its segment in order, its
\* terminator, then frames from its queue.
Exact(w, g) ==
  LET seg == Segment(w)
      n   == Cardinality(seg)
  IN /\ \A i \in seg : Rank(seg, i) <= Len(g) => g[Rank(seg, i)] = Entry("cached", i, NoPhone)
     /\ Len(g) > n => g[n + 1] = Entry("config_complete", w, NoPhone)
     /\ \A k \in n + 2 .. Len(g) : g[k].kind \in {"live", "queueStatus"}

\* Where its slot stands by then.  Before the terminator it has read as many
\* frames as its segment has before the cursor; the cursor passes the end of
\* the cache with the terminator, and only then does the slot go live.
Position(pc, w, g) ==
  LET seg == Segment(w)
      n   == Cardinality(seg)
  IN /\ pc.nonce = w /\ pc.cc_frame = FromRadio("config_complete", w)
     /\ \/ /\ pc.state = "REPLAYING" /\ pc.replay_cursor <= FrameCount
           /\ Len(g) = Rank(seg, pc.replay_cursor - 1)
        \/ pc.state = "REPLAYING" /\ pc.replay_cursor > FrameCount /\ Len(g) = n + 1
        \/ pc.state = "ACTIVE" /\ Len(g) > n

\* The inductive invariant of replays.
ReplayInv ==
  /\ want \in [Phone -> Nonces \cup {-1}]
  /\ \A s \in Slot : Quiet(conns[s].queue)
  /\ \A s \in Held : LET p == peer[conns[s].conn] IN
       link[conns[s].conn] = "up" /\ want[p] # -1 => Position(conns[s], want[p], got[p])
  /\ \A p \in Phone : want[p] # -1 => Exact(want[p], got[p])

\* A segment is a finite set of frames of the cache.
LEMMA SegmentFinite ==
  ASSUME NEW w
  PROVE  /\ Segment(w) \in SUBSET (0 .. FrameCount - 1) /\ Segment(w) \in SUBSET Int
         /\ IsFiniteSet(Segment(w)) /\ Cardinality(Segment(w)) \in Nat
<1>1. FrameCount \in Nat /\ Segment(w) \in SUBSET (0 .. FrameCount - 1)
  BY BleConstants DEF Segment
<1>2. IsFiniteSet(0 .. FrameCount - 1) /\ 0 .. FrameCount - 1 \subseteq Int
  BY <1>1, FS_Interval
<1>3. QED
  BY <1>1, <1>2, FS_Subset, FS_CardinalityType

\* The read that finds a frame ahead of the cursor serves the next of the segment.
LEMMA ServesFrame ==
  ASSUME NEW pc \in SlotRecord, NEW w, NEW g \in Seq(QEntry), Exact(w, g), Position(pc, w, g),
         pc.state = "REPLAYING", Ahead(cache, pc) # {}
  PROVE  LET i == Min(Ahead(cache, pc))
             e == Entry("cached", i, NoPhone)
         IN /\ Exact(w, Append(g, e))
            /\ Position([pc EXCEPT !.replay_cursor = i + 1], w, Append(g, e))
<1> DEFINE seg == Segment(w)
           n == Cardinality(seg)
           c == pc.replay_cursor
           T == Ahead(cache, pc)
           i == Min(T)
           e == Entry("cached", i, NoPhone)
           h == Append(g, e)
           r == [pc EXCEPT !.replay_cursor = i + 1]
<1>1. /\ FrameCount \in Nat /\ c \in 0 .. FrameCount + 1 /\ c \in Nat
      /\ seg \in SUBSET (0 .. FrameCount - 1) /\ seg \in SUBSET Int
      /\ IsFiniteSet(seg) /\ n \in Nat /\ Len(g) \in Nat
  BY BleConstants, SegmentFinite DEF SlotRecord
<1>2. pc.nonce = w /\ pc.cc_frame = FromRadio("config_complete", w)
  BY DEF Position
<1>3. T = {k \in seg : c <= k}
  BY <1>1, <1>2 DEF Ahead, Segment, FrameCount
<1>4. T \in SUBSET Nat /\ T # {}
  BY <1>1, <1>3
<1>5. i \in T /\ \A k \in T : i <= k
  BY <1>4, MinIsLeast
<1> HIDE DEF T, i, seg
<1>6. i \in seg /\ i \in Nat /\ i < FrameCount /\ c <= i
  BY <1>1, <1>3, <1>5
<1>7. ASSUME NEW j \in seg, c - 1 < j PROVE i <= j
  <2>1. c <= j
    BY <1>1, <1>7
  <2>2. QED
    BY <1>3, <1>5, <2>1
<1>8. Len(g) = Rank(seg, c - 1)
  <2>1. c <= FrameCount
    BY <1>1, <1>6
  <2>2. QED
    BY <1>1, <2>1 DEF Position, seg
<1>9. Rank(seg, i) = Len(g) + 1
  <2>1. c - 1 \in Int /\ c - 1 < i /\ \A j \in seg : ~ (c - 1 < j /\ j < i)
    BY <1>1, <1>6, <1>7
  <2>2. QED
    BY <1>1, <1>6, <1>8, <2>1, RankNext
<1>10. Rank(seg, i) \in 0 .. n
  BY <1>1, RankBound
<1>11. e \in QEntry
  BY <1>6, EntryType DEF EntryKind
<1> HIDE DEF e
<1>12. /\ Len(h) = Len(g) + 1 /\ h[Len(g) + 1] = e
       /\ \A k \in 1 .. Len(g) : h[k] = g[k]
  BY <1>11
<1> HIDE DEF h
<1>13. ASSUME NEW j \in seg, Rank(seg, j) <= Len(h)
       PROVE  h[Rank(seg, j)] = Entry("cached", j, NoPhone)
  <2>1. j \in Int /\ Rank(seg, j) \in Nat /\ Rank(seg, j) >= 1
    BY <1>1, RankPositive
  <2>2. CASE j <= c - 1
    <3>1. Rank(seg, j) <= Len(g)
      BY <1>1, <1>8, <2>1, <2>2, RankUpTo
    <3>2. g[Rank(seg, j)] = Entry("cached", j, NoPhone)
      BY <3>1 DEF Exact, seg
    <3>3. QED
      BY <1>1, <1>12, <2>1, <3>1, <3>2
  <2>3. CASE j = i
    BY <1>9, <1>12, <2>3 DEF e
  <2>4. CASE c - 1 < j /\ j # i
    <3>1. i < j
      BY <1>6, <1>7, <2>1, <2>4
    <3>2. Rank(seg, i) < Rank(seg, j)
      BY <1>1, <1>6, <3>1, RankLater
    <3>3. QED
      BY <1>1, <1>9, <1>12, <1>13, <2>1, <3>2
  <2>5. QED
    BY <1>1, <2>1, <2>2, <2>3, <2>4
<1>14. Len(h) <= n
  BY <1>1, <1>9, <1>10, <1>12
<1>15. Exact(w, h)
  <2>1. ~ (Len(h) > n) /\ ~ \E k \in n + 2 .. Len(h) : TRUE
    BY <1>1, <1>12, <1>14
  <2>2. QED
    BY <1>13, <2>1 DEF Exact, seg
<1>16. Position(r, w, h)
  <2>1. /\ r.nonce = pc.nonce /\ r.cc_frame = pc.cc_frame /\ r.state = pc.state
        /\ r.replay_cursor = i + 1
    BY DEF SlotRecord
  <2>2. i + 1 <= FrameCount /\ (i + 1) - 1 = i
    BY <1>1, <1>6
  <2>3. Len(h) = Rank(seg, r.replay_cursor - 1)
    BY <1>9, <1>12, <2>1, <2>2
  <2> HIDE DEF r
  <2>4. QED
    BY <1>2, <2>1, <2>2, <2>3 DEF Position, seg
<1>17. QED
  BY <1>15, <1>16 DEF T, i, e, h

\* The read that finds none serves the terminator.
LEMMA ServesTerminator ==
  ASSUME NEW pc \in SlotRecord, NEW w \in Nonces, NEW g \in Seq(QEntry), Exact(w, g),
         Position(pc, w, g), pc.state = "REPLAYING", Ahead(cache, pc) = {},
         pc.replay_cursor <= FrameCount
  PROVE  LET e == Entry("config_complete", w, NoPhone)
         IN /\ Exact(w, Append(g, e))
            /\ Position([pc EXCEPT !.replay_cursor = FrameCount + 1], w, Append(g, e))
<1> DEFINE seg == Segment(w)
           n == Cardinality(seg)
           c == pc.replay_cursor
           e == Entry("config_complete", w, NoPhone)
           h == Append(g, e)
           r == [pc EXCEPT !.replay_cursor = FrameCount + 1]
<1>1. /\ FrameCount \in Nat /\ c \in 0 .. FrameCount + 1 /\ c \in Nat
      /\ seg \in SUBSET (0 .. FrameCount - 1) /\ seg \in SUBSET Int
      /\ IsFiniteSet(seg) /\ n \in Nat /\ Len(g) \in Nat
  BY BleConstants, SegmentFinite DEF SlotRecord
<1>2. pc.nonce = w /\ pc.cc_frame = FromRadio("config_complete", w)
  BY DEF Position
<1>3. \A j \in seg : j <= c - 1
  <2>1. {k \in seg : c <= k} = {}
    BY <1>1, <1>2 DEF Ahead, Segment, FrameCount
  <2> HIDE DEF seg
  <2>2. QED
    BY <1>1, <2>1
<1>4. Len(g) = n
  <2>1. Len(g) = Rank(seg, c - 1)
    BY <1>1 DEF Position
  <2>2. Rank(seg, c - 1) = n
    BY <1>3, RankAll
  <2>3. QED
    BY <2>1, <2>2
<1>5. e \in QEntry
  BY BleConstants DEF Entry, QEntry, EntryKind
<1> HIDE DEF e
<1>6. /\ Len(h) = Len(g) + 1 /\ h[Len(g) + 1] = e
      /\ \A k \in 1 .. Len(g) : h[k] = g[k]
  BY <1>5
<1> HIDE DEF h, seg
<1>7. ASSUME NEW j \in seg PROVE h[Rank(seg, j)] = Entry("cached", j, NoPhone)
  <2>1. Rank(seg, j) \in 0 .. n /\ Rank(seg, j) >= 1
    BY <1>1, RankBound, RankPositive
  <2>2. Rank(seg, j) \in 1 .. Len(g)
    BY <1>1, <1>4, <2>1
  <2>3. g[Rank(seg, j)] = Entry("cached", j, NoPhone)
    BY <1>1, <2>2 DEF Exact, seg
  <2>4. QED
    BY <1>6, <2>2, <2>3
<1>8. Exact(w, h)
  <2>1. h[n + 1] = e /\ ~ \E k \in n + 2 .. Len(h) : TRUE
    BY <1>1, <1>4, <1>6
  <2>2. QED
    BY <1>7, <2>1 DEF Exact, seg, e
<1>9. Position(r, w, h)
  <2>1. /\ r.nonce = pc.nonce /\ r.cc_frame = pc.cc_frame /\ r.state = pc.state
        /\ r.replay_cursor = FrameCount + 1
    BY DEF SlotRecord
  <2>2. FrameCount + 1 > FrameCount /\ Len(h) = n + 1
    BY <1>1, <1>4, <1>6
  <2> HIDE DEF r
  <2>3. QED
    BY <1>2, <2>1, <2>2 DEF Position, seg
<1>10. QED
  BY <1>8, <1>9 DEF e, h

\* A live slot serves what is at the head of its queue.
LEMMA ServesQueue ==
  ASSUME NEW pc \in SlotRecord, NEW w, NEW g \in Seq(QEntry), Exact(w, g), Position(pc, w, g),
         pc.state # "REPLAYING", NEW e \in QEntry, e.kind \in {"live", "queueStatus"},
         NEW q \in Seq(QEntry)
  PROVE  Exact(w, Append(g, e)) /\ Position([pc EXCEPT !.queue = q], w, Append(g, e))
<1> DEFINE seg == Segment(w)
           n == Cardinality(seg)
           h == Append(g, e)
           r == [pc EXCEPT !.queue = q]
<1>1. /\ seg \in SUBSET Int /\ IsFiniteSet(seg) /\ n \in Nat /\ Len(g) \in Nat
  BY SegmentFinite
<1>2. /\ pc.nonce = w /\ pc.cc_frame = FromRadio("config_complete", w)
      /\ pc.state = "ACTIVE" /\ Len(g) > n
  BY DEF Position
<1>3. /\ Len(h) = Len(g) + 1 /\ h[Len(g) + 1] = e
      /\ \A k \in 1 .. Len(g) : h[k] = g[k]
  OBVIOUS
<1> HIDE DEF h, seg
<1>4. ASSUME NEW j \in seg PROVE h[Rank(seg, j)] = Entry("cached", j, NoPhone)
  <2>1. Rank(seg, j) \in 0 .. n /\ Rank(seg, j) >= 1
    BY <1>1, RankBound, RankPositive
  <2>2. Rank(seg, j) \in 1 .. Len(g)
    BY <1>1, <1>2, <2>1
  <2>3. g[Rank(seg, j)] = Entry("cached", j, NoPhone)
    BY <1>1, <2>2 DEF Exact, seg
  <2>4. QED
    BY <1>3, <2>2, <2>3
<1>5. h[n + 1] = Entry("config_complete", w, NoPhone)
  <2>1. n + 1 \in 1 .. Len(g)
    BY <1>1, <1>2
  <2>2. QED
    BY <1>2, <1>3, <2>1 DEF Exact, seg
<1>6. ASSUME NEW k \in n + 2 .. Len(h) PROVE h[k].kind \in {"live", "queueStatus"}
  <2>1. CASE k = Len(g) + 1
    BY <1>3, <2>1
  <2>2. CASE k # Len(g) + 1
    <3>1. k \in n + 2 .. Len(g) /\ k \in 1 .. Len(g)
      BY <1>1, <1>3, <2>2
    <3>2. QED
      BY <1>3, <3>1 DEF Exact, seg
  <2>3. QED
    BY <2>1, <2>2
<1>7. Exact(w, h)
  BY <1>4, <1>5, <1>6 DEF Exact, seg
<1>8. Position(r, w, h)
  <2>1. r.nonce = pc.nonce /\ r.cc_frame = pc.cc_frame /\ r.state = pc.state
    BY DEF SlotRecord
  <2>2. Len(h) > n
    BY <1>1, <1>2, <1>3
  <2> HIDE DEF r
  <2>3. QED
    BY <1>2, <2>1, <2>2 DEF Position, seg
<1>9. QED
  BY <1>7, <1>8 DEF h

\* Every read serves a phone that asked what it must read next.
LEMMA ServesNext ==
  ASSUME NEW pc \in SlotRecord, NEW w \in Nonces, NEW g \in Seq(QEntry),
         Exact(w, g), Position(pc, w, g), Quiet(pc.queue)
  PROVE  LET r == Response(pc) IN Exact(w, g \o r[1]) /\ Position(r[2], w, g \o r[1])
<1> DEFINE i == Min(Ahead(cache, pc))
           e == Entry("cached", i, NoPhone)
           t == Entry("config_complete", w, NoPhone)
<1>1. FrameCount \in Nat /\ pc.replay_cursor \in Nat
  BY BleConstants DEF SlotRecord
<1>2. CASE pc.state = "REPLAYING" /\ Ahead(cache, pc) # {}
  <2>1. Response(pc)[1] = <<e>> /\ Response(pc)[2] = [pc EXCEPT !.replay_cursor = i + 1]
    BY <1>2, ReplayServes DEF Response
  <2>2. e \in QEntry
    <3>1. i \in Nat
      BY <1>1, <1>2, AheadFirst
    <3>2. QED
      BY <3>1, EntryType DEF EntryKind
  <2>3. Exact(w, Append(g, e)) /\ Position([pc EXCEPT !.replay_cursor = i + 1], w, Append(g, e))
    BY <1>2, ServesFrame
  <2> HIDE DEF e, i
  <2>4. g \o <<e>> = Append(g, e)
    BY <2>2, AppendIsConcat
  <2>5. QED
    BY <2>1, <2>3, <2>4
<1>3. CASE pc.state = "REPLAYING" /\ Ahead(cache, pc) = {} /\ pc.replay_cursor <= FrameCount
  <2>1. pc.cc_frame.variant = "config_complete" /\ pc.cc_frame.data = w
    BY DEF Position, FromRadio
  <2>2. Response(pc)[1] = <<t>> /\ Response(pc)[2] = [pc EXCEPT !.replay_cursor = FrameCount + 1]
    BY <1>3, <2>1, ReplayServes DEF Response
  <2>3. t \in QEntry
    BY BleConstants DEF Entry, QEntry, EntryKind
  <2>4. /\ Exact(w, Append(g, t))
        /\ Position([pc EXCEPT !.replay_cursor = FrameCount + 1], w, Append(g, t))
    BY <1>3, ServesTerminator
  <2> HIDE DEF t
  <2>5. g \o <<t>> = Append(g, t)
    BY <2>3, AppendIsConcat
  <2>6. QED
    BY <2>2, <2>4, <2>5
<1>4. CASE pc.state = "REPLAYING" /\ Ahead(cache, pc) = {} /\ ~ (pc.replay_cursor <= FrameCount)
  <2> DEFINE r == [pc EXCEPT !.state = "ACTIVE"]
  <2>1. Response(pc)[1] = <<>> /\ Response(pc)[2] = r
    BY <1>4, ReplayServes DEF Response
  <2>2. g \o <<>> = g
    OBVIOUS
  <2>3. r.nonce = pc.nonce /\ r.cc_frame = pc.cc_frame /\ r.state = "ACTIVE"
    BY DEF SlotRecord
  <2>4. Len(g) > Cardinality(Segment(w))
    <3>1. Len(g) = Cardinality(Segment(w)) + 1 /\ Cardinality(Segment(w)) \in Nat
      BY <1>1, <1>4, SegmentFinite DEF Position
    <3>2. QED
      BY <3>1
  <2> HIDE DEF r
  <2>5. Position(r, w, g)
    BY <2>3, <2>4 DEF Position
  <2>6. QED
    BY <2>1, <2>2, <2>5
<1>5. CASE pc.state # "REPLAYING" /\ pc.queue = <<>>
  <2>1. Response(pc)[1] = <<>> /\ Response(pc)[2] = pc
    BY <1>5 DEF Response, Dequeued
  <2>2. g \o <<>> = g
    OBVIOUS
  <2>3. QED
    BY <2>1, <2>2
<1>6. CASE pc.state # "REPLAYING" /\ pc.queue # <<>>
  <2> DEFINE h == Head(pc.queue)
             q == Tail(pc.queue)
  <2>1. Response(pc)[1] = <<h>> /\ Response(pc)[2] = [pc EXCEPT !.queue = q]
    BY <1>6 DEF Response, Dequeued
  <2>2. h \in QEntry /\ q \in Seq(QEntry) /\ h.kind \in {"live", "queueStatus"}
    <3>1. pc.queue \in Seq(QEntry)
      BY DEF SlotRecord
    <3>2. Len(pc.queue) >= 1 /\ h = pc.queue[1] /\ h \in QEntry /\ q \in Seq(QEntry)
      BY <1>6, <3>1
    <3>3. 1 \in 1 .. Len(pc.queue)
      BY <3>1, <3>2
    <3>4. QED
      BY <3>2, <3>3 DEF Quiet
  <2> HIDE DEF h, q
  <2>3. Exact(w, Append(g, h)) /\ Position([pc EXCEPT !.queue = q], w, Append(g, h))
    BY <1>6, <2>2, ServesQueue
  <2>4. g \o <<h>> = Append(g, h)
    BY <2>2, AppendIsConcat
  <2>5. QED
    BY <2>1, <2>3, <2>4
<1>7. QED
  BY <1>2, <1>3, <1>4, <1>5, <1>6

\* A read leaves a queue as it is, or shorter.
LEMMA QuietReads ==
  ASSUME NEW pc \in SlotRecord, Quiet(pc.queue)
  PROVE  Quiet(Response(pc)[2].queue)
<1> DEFINE r == Response(pc)[2]
           out == Response(pc)[1]
<1>1. pc.queue \in Seq(QEntry)
  BY DEF SlotRecord
<1>2. Reads(pc, out, r)
  BY ReadsResponse
<1> HIDE DEF r, out
<1>3. CASE r.queue = pc.queue
  BY <1>3 DEF r
<1>4. CASE Len(pc.queue) >= 1 /\ r.queue = Tail(pc.queue)
  <2>1. /\ Len(Tail(pc.queue)) = Len(pc.queue) - 1
        /\ \A i \in 1 .. Len(pc.queue) - 1 : Tail(pc.queue)[i] = pc.queue[i + 1]
    BY <1>1, <1>4
  <2>2. \A i \in 1 .. Len(pc.queue) - 1 : i + 1 \in 1 .. Len(pc.queue)
    BY <1>1
  <2>3. Quiet(Tail(pc.queue))
    BY <2>1, <2>2 DEF Quiet
  <2>4. QED
    BY <1>4, <2>3 DEF r
<1>5. QED
  BY <1>2, <1>3, <1>4 DEF Reads

\* One more frame or answer in a queue.
LEMMA QuietAppend ==
  ASSUME NEW q \in Seq(QEntry), NEW e \in QEntry, Quiet(q), e.kind \in {"live", "queueStatus"}
  PROVE  Quiet(Append(q, e))
<1>1. /\ Len(q) \in Nat /\ Len(Append(q, e)) = Len(q) + 1 /\ Append(q, e)[Len(q) + 1] = e
      /\ \A i \in 1 .. Len(q) : Append(q, e)[i] = q[i]
  OBVIOUS
<1>2. \A i \in 1 .. Len(q) + 1 : i \in 1 .. Len(q) \/ i = Len(q) + 1
  BY <1>1
<1>3. QED
  BY <1>1, <1>2 DEF Quiet

\* What a replay depends on in a slot.
ReplayOf(pc) == <<pc.conn, pc.nonce, pc.cc_frame, pc.state, pc.replay_cursor>>

\* A slot with the same replay stands at the same place.
LEMMA SamePosition ==
  ASSUME NEW a, NEW b, ReplayOf(a) = ReplayOf(b), NEW w, NEW g, Position(a, w, g)
  PROVE  Position(b, w, g)
<1>1. /\ a.nonce = b.nonce /\ a.cc_frame = b.cc_frame /\ a.state = b.state
      /\ a.replay_cursor = b.replay_cursor
  BY DEF ReplayOf
<1>2. QED
  BY <1>1 DEF Position

\* Registration, goodbye, queue and staged packet have no part in a replay.
LEMMA SameReplay ==
  ASSUME NEW pc \in SlotRecord, NEW x
  PROVE  /\ ReplayOf([pc EXCEPT !.proxy_id = x]) = ReplayOf(pc)
         /\ ReplayOf([pc EXCEPT !.leaving = x]) = ReplayOf(pc)
         /\ ReplayOf([pc EXCEPT !.queue = x]) = ReplayOf(pc)
         /\ ReplayOf([pc EXCEPT !.staged = x]) = ReplayOf(pc)
  BY DEF SlotRecord, ReplayOf

\* No phone asks or reads, no link comes up, and every slot that is still held
\* has the replay that it had.
LEMMA ReplayKept ==
  ASSUME SlotInv, ReplayInv, UNCHANGED <<peer, want, got>>,
         \A c \in Conn : link'[c] = "up" => link[c] = "up",
         \A s \in Slot : /\ Quiet(conns'[s].queue)
                         /\ conns'[s].conn = NoConn \/ ReplayOf(conns'[s]) = ReplayOf(conns[s])
  PROVE  ReplayInv'
<1>0. BleType
  BY DEF SlotInv
<1>1. ASSUME NEW s \in Held', link'[conns'[s].conn] = "up", want'[peer'[conns'[s].conn]] # -1
      PROVE  Position(conns'[s], want'[peer'[conns'[s].conn]], got'[peer'[conns'[s].conn]])
  <2>1. s \in Slot /\ conns'[s].conn # NoConn
    BY DEF Held
  <2>2. ReplayOf(conns[s]) = ReplayOf(conns'[s]) /\ conns[s].conn = conns'[s].conn
    BY <2>1 DEF ReplayOf
  <2>3. s \in Held
    BY <2>1, <2>2 DEF Held
  <2>4. conns[s].conn \in Conn
    BY <1>0, <2>3, HeldConn
  <2>5. Position(conns[s], want[peer[conns[s].conn]], got[peer[conns[s].conn]])
    BY <1>1, <2>2, <2>3, <2>4 DEF ReplayInv
  <2>6. Position(conns'[s], want[peer[conns[s].conn]], got[peer[conns[s].conn]])
    BY <2>2, <2>5, SamePosition
  <2>7. QED
    BY <2>2, <2>6
<1>2. QED
  BY <1>1 DEF ReplayInv

\* One slot is replaced by one with the same replay.
LEMMA ReplayOneSlot ==
  ASSUME SlotInv, ReplayInv, UNCHANGED <<link, peer, want, got>>, NEW s \in Slot, NEW r,
         conns' = [conns EXCEPT ![s] = r], ReplayOf(r) = ReplayOf(conns[s]), Quiet(r.queue)
  PROVE  ReplayInv'
<1>1. conns'[s] = r /\ \A t \in Slot : t # s => conns'[t] = conns[t]
  BY DEF SlotInv, BleType, SlotType
<1>2. \A t \in Slot : Quiet(conns'[t].queue) /\ ReplayOf(conns'[t]) = ReplayOf(conns[t])
  BY <1>1 DEF ReplayInv
<1>3. QED
  BY <1>2, ReplayKept

\* A frame or an answer is queued, or not.
LEMMA ReplayPush ==
  ASSUME SlotInv, ReplayInv, UNCHANGED <<link, peer, want, got>>, NEW s \in Slot,
         NEW e \in QEntry, e.kind \in {"live", "queueStatus"}, Push(s, e)
  PROVE  ReplayInv'
<1>1. CASE conns' = conns
  <2>1. \A t \in Slot : Quiet(conns'[t].queue) /\ ReplayOf(conns'[t]) = ReplayOf(conns[t])
    BY <1>1 DEF ReplayInv
  <2>2. QED
    BY <2>1, ReplayKept
<1>2. CASE conns' = [conns EXCEPT ![s].queue = Append(@, e)]
  <2> DEFINE pc == conns[s]
             q == Append(pc.queue, e)
             r == [pc EXCEPT !.queue = q]
  <2>1. pc \in SlotRecord /\ pc.queue \in Seq(QEntry) /\ Quiet(pc.queue)
    BY DEF SlotInv, BleType, SlotType, SlotRecord, ReplayInv
  <2>2. conns' = [conns EXCEPT ![s] = r]
    BY <1>2
  <2>3. Quiet(q)
    BY <2>1, QuietAppend
  <2> HIDE DEF pc, q
  <2>4. ReplayOf(r) = ReplayOf(pc) /\ r.queue = q
    BY <2>1, SameReplay DEF SlotRecord
  <2> HIDE DEF r
  <2>5. QED
    BY <2>2, <2>3, <2>4, ReplayOneSlot DEF pc
<1>3. QED
  BY <1>1, <1>2 DEF Push

\* The end of a link, or nothing at all.
LEMMA ReplayIdle ==
  ASSUME SlotInv, ReplayInv, UNCHANGED <<conns, peer, want, got>>,
         \A c \in Conn : link'[c] = "up" => link[c] = "up"
  PROVE  ReplayInv'
<1>1. \A t \in Slot : Quiet(conns'[t].queue) /\ ReplayOf(conns'[t]) = ReplayOf(conns[t])
  BY DEF ReplayInv
<1>2. QED
  BY <1>1, ReplayKept

\* A newcomer has not asked yet, and no other phone's link or slot changes.
LEMMA ReplayConnect ==
  ASSUME SlotInv, ReplayInv, NEW p \in Phone, NEW c \in Conn, Connect(p, c)
  PROVE  ReplayInv'
<1>0. BleType /\ LinkInv /\ CountInv
  BY DEF SlotInv
<1>1. PICK s \in Slot : Others(s) /\ conns'[s].conn = c /\ conns'[s].queue = <<>>
  BY <1>0, ConnectEffect
<1>2. /\ link[c] = "free" /\ \A t \in Slot : conns[t].conn # c
      /\ link' = [link EXCEPT ![c] = "up"]
  BY <1>0, ConnectLink, Zenon
<1>3. /\ peer' = [peer EXCEPT ![c] = p] /\ ~ Connected(p)
      /\ want' = [want EXCEPT ![p] = -1] /\ got' = [got EXCEPT ![p] = <<>>]
  BY DEF Connect
<1>4. \A d \in Conn : d # c => link'[d] = link[d] /\ peer'[d] = peer[d]
  BY <1>0, <1>2, <1>3 DEF BleType, LinkType
<1>5. /\ want' \in [Phone -> Nonces \cup {-1}] /\ want'[p] = -1
      /\ \A q \in Phone : q # p => want'[q] = want[q] /\ got'[q] = got[q]
  BY <1>0, <1>3 DEF ReplayInv, BleType, PhoneType
<1>6. ASSUME NEW t \in Held', link'[conns'[t].conn] = "up", want'[peer'[conns'[t].conn]] # -1
      PROVE  Position(conns'[t], want'[peer'[conns'[t].conn]], got'[peer'[conns'[t].conn]])
  <2>1. CASE t = s
    <3>1. peer'[conns'[t].conn] = p
      BY <1>0, <1>1, <1>3, <2>1 DEF BleType, LinkType
    <3>2. QED
      BY <1>5, <1>6, <3>1
  <2>2. CASE t # s
    <3>1. t \in Held /\ conns'[t] = conns[t] /\ t \in Slot
      BY <1>1, <2>2 DEF Held, Others
    <3>2. conns[t].conn \in Conn /\ conns[t].conn # c /\ conns[t].conn # NoConn
      BY <1>0, <1>2, <3>1, HeldConn
    <3>3. link[conns[t].conn] = "up" /\ peer'[conns[t].conn] = peer[conns[t].conn]
      BY <1>4, <1>6, <3>1, <3>2
    <3>4. peer[conns[t].conn] \in Phone /\ peer[conns[t].conn] # p
      BY <1>0, <1>3, <3>2, <3>3 DEF LinkInv, Connected, Up
    <3>5. QED
      BY <1>5, <1>6, <3>1, <3>3, <3>4 DEF ReplayInv
  <2>3. QED
    BY <2>1, <2>2
<1>7. \A q \in Phone : want'[q] # -1 => Exact(want'[q], got'[q])
  BY <1>5 DEF ReplayInv
<1>8. \A t \in Slot : Quiet(conns'[t].queue)
  <2>1. Quiet(<<>>)
    BY DEF Quiet
  <2>2. QED
    BY <1>1, <2>1 DEF ReplayInv, Others
<1>9. QED
  BY <1>5, <1>6, <1>7, <1>8 DEF ReplayInv

\* A released slot serves nobody.
LEMMA ReplayDisconnect ==
  ASSUME SlotInv, ReplayInv, NEW c \in Conn, Disconnected(c)
  PROVE  ReplayInv'
<1>0. BleType /\ LinkInv
  BY DEF SlotInv
<1>1. PICK s \in Slot : Others(s) /\ conns'[s].conn = NoConn /\ conns'[s].queue = <<>>
  BY <1>0, DisconnectEffect
<1>2. UNCHANGED <<peer, want, got>> /\ link' = [link EXCEPT ![c] = "free"]
  BY DEF Disconnected, phones
<1>3. \A d \in Conn : link'[d] = "up" => link[d] = "up"
  BY <1>0, <1>2 DEF BleType, LinkType
<1>4. Quiet(<<>>)
  BY DEF Quiet
<1>5. \A t \in Slot : /\ Quiet(conns'[t].queue)
                      /\ conns'[t].conn = NoConn \/ ReplayOf(conns'[t]) = ReplayOf(conns[t])
  BY <1>1, <1>4 DEF ReplayInv, Others
<1>6. QED
  BY <1>2, <1>3, <1>5, ReplayKept

\* A phone that has just asked has read nothing, and stands before its segment.
LEMMA ArmedPosition ==
  ASSUME NEW pc \in SlotRecord, NEW n \in Nonces, n # 0
  PROVE  Exact(n, <<>>) /\ Position(arm_replay(pc, n), n, <<>>)
<1> DEFINE seg == Segment(n)
           r == arm_replay(pc, n)
<1>1. /\ seg \in SUBSET (0 .. FrameCount - 1) /\ seg \in SUBSET Int /\ FrameCount \in Nat
      /\ IsFiniteSet(seg) /\ Cardinality(seg) \in Nat /\ Len(<<>>) = 0
  BY SegmentFinite, BleConstants
<1>2. /\ r.nonce = n /\ r.cc_frame = FromRadio("config_complete", n)
      /\ r.state = "REPLAYING" /\ r.replay_cursor = 0
  BY DEF arm_replay, proto_encode_config_complete, SlotRecord
<1> HIDE DEF seg, r
<1>3. \A i \in seg : ~ (Rank(seg, i) <= 0)
  <2>1. \A i \in seg : Rank(seg, i) \in Nat /\ Rank(seg, i) >= 1
    BY <1>1, RankPositive
  <2>2. QED
    BY <2>1
<1>4. Exact(n, <<>>)
  <2>1. ~ (0 > Cardinality(seg)) /\ ~ \E k \in Cardinality(seg) + 2 .. 0 : TRUE
    BY <1>1
  <2>2. QED
    BY <1>1, <1>3, <2>1 DEF Exact, seg
<1>5. Rank(seg, 0 - 1) = 0
  <2>1. ASSUME NEW j \in seg PROVE ~ (j <= 0 - 1)
    <3>1. j \in 0 .. FrameCount - 1
      BY <1>1
    <3>2. QED
      BY <1>1, <3>1
  <2>2. {j \in seg : j <= 0 - 1} = {}
    BY <2>1, Zenon
  <2>3. QED
    BY <2>2, FS_EmptySet DEF Rank
<1>6. Position(r, n, <<>>)
  <2>1. r.replay_cursor <= FrameCount /\ Len(<<>>) = Rank(seg, r.replay_cursor - 1)
    BY <1>1, <1>2, <1>5
  <2>2. QED
    BY <1>2, <2>1 DEF Position, seg
<1>7. QED
  BY <1>4, <1>6 DEF r

\* One phone asks or reads, in its slot; the others stand where they stood.
LEMMA ReplayOnePhone ==
  ASSUME SlotInv, ReplayInv, NEW p \in Phone, NEW s \in Slot, NEW r,
         UNCHANGED <<link, peer>>, conns[s].conn \in Conn,
         link[conns[s].conn] = "up", peer[conns[s].conn] = p, r.conn = conns[s].conn,
         conns' = [conns EXCEPT ![s] = r], Quiet(r.queue),
         want' \in [Phone -> Nonces \cup {-1}],
         \A q \in Phone : q # p => want'[q] = want[q] /\ got'[q] = got[q],
         want'[p] # -1 => Exact(want'[p], got'[p]) /\ Position(r, want'[p], got'[p])
  PROVE  ReplayInv'
<1>0. BleType /\ LinkInv
  BY DEF SlotInv
<1>1. conns'[s] = r /\ \A t \in Slot : t # s => conns'[t] = conns[t]
  BY <1>0 DEF BleType, SlotType
<1>2. ASSUME NEW t \in Held', link'[conns'[t].conn] = "up", want'[peer'[conns'[t].conn]] # -1
      PROVE  Position(conns'[t], want'[peer'[conns'[t].conn]], got'[peer'[conns'[t].conn]])
  <2>1. CASE t = s
    <3>1. peer'[conns'[t].conn] = p /\ conns'[t] = r
      BY <1>1, <2>1
    <3>2. QED
      BY <1>2, <3>1
  <2>2. CASE t # s
    <3>1. t \in Held /\ conns'[t] = conns[t] /\ t \in Slot
      BY <1>1, <2>2 DEF Held
    <3>2. conns[t].conn \in Conn /\ conns[t].conn # NoConn
      BY <1>0, <3>1, HeldConn
    <3>a. s \in Held
      BY BleConstants DEF Held, Conn, NoConn
    <3>3. conns[t].conn # conns[s].conn
      BY <1>0, <2>2, <3>1, <3>a DEF LinkInv
    <3>4. peer[conns[t].conn] \in Phone /\ peer[conns[t].conn] # p
      BY <1>0, <1>2, <3>1, <3>2, <3>3 DEF LinkInv
    <3>5. QED
      BY <1>2, <3>1, <3>4 DEF ReplayInv
  <2>3. QED
    BY <2>1, <2>2
<1>3. \A q \in Phone : want'[q] # -1 => Exact(want'[q], got'[q])
  BY DEF ReplayInv
<1>4. \A t \in Slot : Quiet(conns'[t].queue)
  BY <1>1 DEF ReplayInv
<1>5. QED
  BY <1>2, <1>3, <1>4 DEF ReplayInv

\* A phone asks for its config with a nonce other than 0.
LEMMA ReplayAsked ==
  ASSUME SlotInv, ReplayInv, NEW p \in Phone, NEW n \in Nonces, n # 0, replay_cached_burst(p, n)
  PROVE  ReplayInv'
<1> DEFINE s == find_slot(ConnOf(p))
           r == arm_replay(conns[s], n)
<1>0. BleType /\ LinkInv
  BY DEF SlotInv
<1>1. /\ s \in Slot /\ conns[s].conn = ConnOf(p) /\ ConnOf(p) \in Conn
      /\ link[ConnOf(p)] = "up" /\ peer[ConnOf(p)] = p
  BY <1>0, SlotOfPhone DEF replay_cached_burst, Write
<1>2. conns[s] \in SlotRecord /\ Quiet(conns[s].queue)
  BY <1>0, <1>1 DEF BleType, SlotType, ReplayInv
<1>3. /\ conns' = [conns EXCEPT ![s] = r] /\ UNCHANGED <<link, peer>>
      /\ want' = [want EXCEPT ![p] = n] /\ got' = [got EXCEPT ![p] = <<>>]
  BY DEF replay_cached_burst, Write
<1>4. r.conn = conns[s].conn /\ r.queue = conns[s].queue
  BY <1>2, ArmReplay
<1>5. Exact(n, <<>>) /\ Position(r, n, <<>>)
  BY <1>2, ArmedPosition
<1> HIDE DEF s, r
<1>6. /\ want' \in [Phone -> Nonces \cup {-1}] /\ want'[p] = n /\ got'[p] = <<>>
      /\ \A q \in Phone : q # p => want'[q] = want[q] /\ got'[q] = got[q]
  BY <1>0, <1>3 DEF ReplayInv, BleType, PhoneType
<1>7. /\ s \in Slot /\ conns[s].conn \in Conn /\ link[conns[s].conn] = "up"
      /\ peer[conns[s].conn] = p /\ r.conn = conns[s].conn /\ Quiet(r.queue)
  BY <1>1, <1>2, <1>4
<1>8. want'[p] # -1 => Exact(want'[p], got'[p]) /\ Position(r, want'[p], got'[p])
  BY <1>5, <1>6
<1>9. \A q \in Phone : q # p => want'[q] = want[q] /\ got'[q] = got[q]
  BY <1>6
<1>10. QED
  BY <1>3, <1>6, <1>7, <1>8, <1>9, ReplayOnePhone

\* A phone reads.
LEMMA ReplayRead ==
  ASSUME SlotInv, ReplayInv, NEW p \in Phone, fromradio_read(p)
  PROVE  ReplayInv'
<1> DEFINE s == find_slot(ConnOf(p))
           pc == conns[s]
           out == Response(pc)[1]
           b == Response(pc)[2]
           r == [b EXCEPT !.staged = out]
<1>0. BleType /\ LinkInv
  BY DEF SlotInv
<1>1. /\ s \in Slot /\ pc.conn = ConnOf(p) /\ ConnOf(p) \in Conn /\ ConnOf(p) # NoConn
      /\ link[ConnOf(p)] = "up" /\ peer[ConnOf(p)] = p
  BY <1>0, SlotOfPhone DEF fromradio_read
<1>2. pc \in SlotRecord /\ Quiet(pc.queue) /\ got[p] \in Seq(QEntry)
  BY <1>0, <1>1 DEF BleType, SlotType, PhoneType, ReplayInv
<1>3. /\ conns' = [conns EXCEPT ![s] = r] /\ UNCHANGED <<link, peer, want>>
      /\ got' = [got EXCEPT ![p] = @ \o out]
  BY DEF fromradio_read
<1>4. s \in Held
  BY <1>1 DEF Held
<1>5. want[p] # -1 => Exact(want[p], got[p]) /\ Position(pc, want[p], got[p])
  BY <1>1, <1>4 DEF ReplayInv
<1> HIDE DEF s
<1>6. b \in SlotRecord /\ b.conn = pc.conn /\ Quiet(b.queue)
  <2>1. Reads(pc, out, b)
    BY <1>2, ReadsResponse
  <2>2. b \in SlotRecord /\ b.conn = pc.conn
    BY <2>1 DEF Reads
  <2>3. QED
    BY <1>2, <2>2, QuietReads
<1>7. want[p] # -1 => Exact(want[p], got[p] \o out) /\ Position(b, want[p], got[p] \o out)
  <2>1. want[p] # -1 => want[p] \in Nonces
    BY DEF ReplayInv
  <2>2. QED
    BY <1>2, <1>5, <2>1, ServesNext
<1> HIDE DEF b, pc, out
<1>8. r.conn = b.conn /\ r.queue = b.queue /\ ReplayOf(r) = ReplayOf(b)
  BY <1>6, SameReplay DEF SlotRecord
<1> HIDE DEF r
<1>9. want[p] # -1 => Position(r, want[p], got[p] \o out)
  BY <1>7, <1>8, SamePosition
<1>10. /\ want' \in [Phone -> Nonces \cup {-1}] /\ got'[p] = got[p] \o out
       /\ \A q \in Phone : q # p => got'[q] = got[q]
  BY <1>0, <1>3 DEF ReplayInv, BleType, PhoneType
<1>11. /\ s \in Slot /\ conns[s].conn \in Conn /\ link[conns[s].conn] = "up"
       /\ peer[conns[s].conn] = p /\ r.conn = conns[s].conn /\ Quiet(r.queue)
  BY <1>1, <1>6, <1>8 DEF pc
<1>12. want'[p] # -1 => Exact(want'[p], got'[p]) /\ Position(r, want'[p], got'[p])
  BY <1>3, <1>7, <1>9, <1>10
<1>13. \A q \in Phone : q # p => want'[q] = want[q] /\ got'[q] = got[q]
  BY <1>3, <1>10
<1>14. QED
  BY <1>3, <1>10, <1>11, <1>12, <1>13, ReplayOnePhone

\* Every step keeps it, when no phone asks with the nonce 0.
LEMMA ReplayNext ==
  ASSUME 0 \notin Nonces
  PROVE  SlotInv /\ ReplayInv /\ [Next]_vars => ReplayInv'
<1> SUFFICES ASSUME SlotInv, ReplayInv, [Next]_vars PROVE ReplayInv'
  OBVIOUS
<1>0. BleType /\ LinkInv /\ SlotType /\ SysType
  BY DEF SlotInv, BleType
<1>1. ASSUME NEW p \in Phone, NEW c \in Conn, Connect(p, c) PROVE ReplayInv'
  BY <1>1, ReplayConnect
<1>2. ASSUME NEW c \in Conn, Disconnected(c) PROVE ReplayInv'
  BY <1>2, ReplayDisconnect
<1>3. ASSUME NEW c \in Conn, LinkLost(c) PROVE ReplayInv'
  <2>1. link' = [link EXCEPT ![c] = "down"] /\ UNCHANGED <<conns, peer, want, got>>
    BY <1>3 DEF LinkLost, threads, Down
  <2>2. \A d \in Conn : link'[d] = "up" => link[d] = "up"
    BY <1>0, <2>1 DEF BleType, LinkType
  <2>3. QED
    BY <2>1, <2>2, ReplayIdle
<1>4. ASSUME NEW p \in Phone, fromradio_read(p) PROVE ReplayInv'
  BY <1>4, ReplayRead
<1>5. ASSUME NEW p \in Phone, NEW n \in Nonces, replay_cached_burst(p, n) PROVE ReplayInv'
  <2>1. n # 0
    OBVIOUS
  <2>2. QED
    BY <1>5, <2>1, ReplayAsked
<1>6. ASSUME NEW p \in Phone, NEW id \in RegWrites(p), register_proxy_id(p, id) PROVE ReplayInv'
  <2> DEFINE s == find_slot(ConnOf(p))
             pc == conns[s]
             r == [pc EXCEPT !.proxy_id = id]
  <2>1. s \in Slot /\ pc \in SlotRecord /\ Quiet(pc.queue)
    BY <1>0, <1>6, SlotOfPhone DEF register_proxy_id, Write, SlotType, ReplayInv
  <2>2. UNCHANGED <<link, peer, want, got>>
    BY <1>6 DEF register_proxy_id, Write
  <2>3. CASE conns' = conns
    BY <2>2, <2>3, ReplayIdle
  <2>4. CASE conns' = [conns EXCEPT ![s].proxy_id = id]
    <3>1. conns' = [conns EXCEPT ![s] = r]
      BY <2>4
    <3> HIDE DEF pc
    <3>2. ReplayOf(r) = ReplayOf(pc) /\ r.queue = pc.queue
      BY <2>1, SameReplay DEF SlotRecord
    <3> HIDE DEF s, r
    <3>3. QED
      BY <2>1, <2>2, <3>1, <3>2, ReplayOneSlot DEF pc
  <2>5. QED
    BY <1>6, <2>3, <2>4 DEF register_proxy_id
<1>7. ASSUME NEW p \in Phone, request_teardown(p) PROVE ReplayInv'
  <2> DEFINE s == find_slot(ConnOf(p))
             pc == conns[s]
             r == [pc EXCEPT !.leaving = TRUE]
  <2>1. s \in Slot /\ pc \in SlotRecord /\ Quiet(pc.queue)
    BY <1>0, <1>7, SlotOfPhone DEF request_teardown, Write, SlotType, ReplayInv
  <2>2. UNCHANGED <<link, peer, want, got>> /\ conns' = [conns EXCEPT ![s] = r]
    BY <1>7 DEF request_teardown, Write
  <2> HIDE DEF pc
  <2>3. ReplayOf(r) = ReplayOf(pc) /\ r.queue = pc.queue
    BY <2>1, SameReplay DEF SlotRecord
  <2> HIDE DEF s, r
  <2>4. QED
    BY <2>1, <2>2, <2>3, ReplayOneSlot DEF pc
<1>8. ASSUME NEW p \in Phone, reply_queuestatus(p) PROVE ReplayInv'
  <2> DEFINE s == find_slot(ConnOf(p))
             e == Entry(proto_encode_queue_status.variant, 0, NoPhone)
  <2>1. s \in Slot /\ Push(s, e) /\ UNCHANGED <<link, peer, want, got>>
    BY <1>0, <1>8, SlotOfPhone DEF reply_queuestatus, Write
  <2>2. e \in QEntry /\ e.kind = "queueStatus"
    <3>1. proto_encode_queue_status.variant = "queueStatus" /\ 0 \in Nat
      BY DEF proto_encode_queue_status, FromRadio
    <3>2. QED
      BY <3>1, EntryType DEF EntryKind
  <2> HIDE DEF s, e
  <2>3. QED
    BY <2>1, <2>2, ReplayPush
<1>9. CASE EnqueueLocked
  <2> DEFINE e == Entry("live", msgs, sys.to)
  <2>1. sys.slot \in Slot /\ Push(sys.slot, e) /\ UNCHANGED <<link, peer, want, got>>
    BY <1>0, <1>9 DEF EnqueueLocked, SysType
  <2>2. e \in QEntry /\ e.kind = "live"
    <3>1. msgs \in Nat /\ sys.to \in Phone \cup {NoPhone}
      BY <1>0 DEF BleType, PhoneType, SysType, SysRecord
    <3>2. QED
      BY <3>1, EntryType DEF EntryKind
  <2> HIDE DEF e
  <2>3. QED
    BY <2>1, <2>2, ReplayPush
<1>10. CASE TeardownDrop
  <2>1. UNCHANGED <<conns, peer, want, got>> /\ sys.pc = "drop" /\ sys.conn \in Conn
    BY <1>0, <1>10 DEF TeardownDrop, SysType
  <2>2. link' = link \/ link' = [link EXCEPT ![sys.conn] = "down"]
    BY <1>10 DEF TeardownDrop, Down
  <2>3. \A d \in Conn : link'[d] = "up" => link[d] = "up"
    BY <1>0, <2>1, <2>2 DEF BleType, LinkType
  <2>4. QED
    BY <2>1, <2>3, ReplayIdle
<1>11. CASE \/ \E p \in Phone : Subscribe(p) \/ StartDrain(p)
            \/ \E f \in Frames : FrameArrives(f)
            \/ Broadcast \/ EnqueueFind \/ notify_fromnum
            \/ \E s \in Slot : TeardownExpires(s) \/ TeardownRuns(s)
            \/ TeardownLocked \/ ConnectFails \/ UNCHANGED vars
  <2>1. ASSUME NEW p \in Phone, Subscribe(p) \/ StartDrain(p)
        PROVE  UNCHANGED <<conns, link, peer, want, got>>
    BY <2>1 DEF Subscribe, StartDrain, threads
  <2>2. ASSUME NEW f \in Frames, FrameArrives(f)
        PROVE  UNCHANGED <<conns, link, peer, want, got>>
    BY <2>2 DEF FrameArrives, phones
  <2>3. ASSUME NEW s \in Slot, TeardownExpires(s) \/ TeardownRuns(s)
        PROVE  UNCHANGED <<conns, link, peer, want, got>>
    BY <2>3 DEF TeardownExpires, TeardownRuns, phones
  <2>4. CASE Broadcast \/ EnqueueFind \/ notify_fromnum \/ TeardownLocked \/ ConnectFails
             \/ UNCHANGED vars
    <3>1. UNCHANGED <<conns, link, peer, want, got>>
      BY <2>4 DEF Broadcast, EnqueueFind, notify_fromnum, TeardownLocked, ConnectFails, SysOnly,
                  phones, vars
    <3>2. QED
      BY <3>1, ReplayIdle
  <2>5. QED
    BY <1>11, <2>1, <2>2, <2>3, <2>4, ReplayIdle
<1>12. QED
  BY <1>1, <1>2, <1>3, <1>4, <1>5, <1>6, <1>7, <1>8, <1>9, <1>10, <1>11 DEF Next

\* Nobody has asked at boot.
LEMMA ReplayInit == Init => ReplayInv
<1> SUFFICES ASSUME Init PROVE ReplayInv
  OBVIOUS
<1>1. Held = {} /\ \A s \in Slot : Quiet(conns[s].queue)
  BY DEF Init, Held, FreeSlot, Quiet
<1>2. want \in [Phone -> Nonces \cup {-1}] /\ \A p \in Phone : want[p] = -1
  BY DEF Init
<1>3. QED
  BY <1>1, <1>2 DEF ReplayInv

\* ReplayInv holds however the threads are scheduled, when no phone asks with
\* the nonce 0, which stands for the nonce of an earlier request.
THEOREM ReplayInvariant ==
  ASSUME 0 \notin Nonces
  PROVE  Spec => []ReplayInv
  BY ReplayInit, ReplayNext, SlotInvariant, PTL DEF Spec

\* A phone that asked for its config reads exactly its segment of the cache, in
\* order, then its own config_complete, and only then live frames.
THEOREM PhonesReadExactly ==
  ASSUME 0 \notin Nonces
  PROVE  Spec => []ReplayExact
<1>1. ReplayInv => ReplayExact
  BY DEF ReplayInv, ReplayExact, Exact
<1>2. QED
  BY <1>1, ReplayInvariant, PTL
=============================================================================

--------------------------- MODULE BleGattProofs ---------------------------
(***************************************************************************)
(* Proofs about the slots of ble_gatt.c, for any number of slots, phones   *)
(* and connections and for both ways of scheduling the threads: the        *)
(* inductive invariant SlotInv (types, slots against links, the connection *)
(* count, leaving marks), its consequences and two action properties.      *)
(* BleQueueProofs goes on with what is in the queues.                      *)
(***************************************************************************)
EXTENDS BleGatt, FiniteSetTheorems, SequenceTheorems, TLAPS

\* What a phone's queue holds, and the fields of a slot and of the work queue's thread.
EntryKind == {"live", "cached", "queueStatus", "none", "config_complete"}
QEntry == [kind : EntryKind, v : Nat \cup Nonces, to : Phone \cup {NoPhone}]
CcFrame == [variant : {"none", "config_complete"}, data : Nonces \cup {0}, len : {1}]
SlotRecord ==
  [conn : Conn \cup {NoConn}, proxy_id : {ZeroId} \cup {IdOf(p) : p \in Phone},
   state : {"CONNECTED", "REPLAYING", "ACTIVE"}, leaving : BOOLEAN,
   nonce : Nonces \cup {0}, replay_cursor : 0 .. FrameCount + 1,
   cc_frame : CcFrame, queue : Seq(QEntry), staged : Seq(QEntry)]
SysRecord ==
  [pc : {"idle", "bcast", "find", "lock", "ring", "teardown", "drop"}, i : Nat,
   conn : Conn \cup {NoConn}, slot : Slot \cup {0}, to : Phone \cup {NoPhone}]

\* The slots, none with more than QueueDepth frames.
SlotType ==
  /\ conns \in [Slot -> SlotRecord]
  /\ \A s \in Slot : Len(conns[s].queue) <= QueueDepth /\ Len(conns[s].staged) <= 1

\* The work queue's thread knows the connection or the slot that its step is about.
SysType ==
  /\ sys \in SysRecord
  /\ sys.pc \in {"find", "lock", "ring", "drop"} => sys.conn \in Conn
  /\ sys.pc \in {"lock", "teardown"} => sys.slot \in Slot
  /\ sys.pc = "bcast" => sys.i >= 1
  /\ armed \subseteq Slot /\ queued \subseteq Slot

\* The links, advertising and the count of connections.
LinkType ==
  /\ link \in [Conn -> {"free", "up", "down"}]
  /\ peer \in [Conn -> Phone \cup {NoPhone}]
  /\ advertising \in {"on", "off", "failed"} /\ active_conn_count \in Int

\* The phones' side.
PhoneType ==
  /\ bell \in [Phone -> {"silent", "rung", "lost"}]
  /\ reading \in [Phone -> BOOLEAN] /\ subscribed \in [Phone -> BOOLEAN]
  /\ asked \in [Phone -> {"no", "yes", "failed"}] /\ owed \in [Phone -> BOOLEAN]
  /\ got \in [Phone -> Seq(QEntry)]
  /\ msgs \in Nat

\* All types.
BleType == SlotType /\ SysType /\ LinkType /\ PhoneType

\* Every link that is not free has a phone and one slot of its own, and a phone has one
\* link that is up.
LinkInv ==
  /\ \A c \in Conn : link[c] # "free" => peer[c] \in Phone /\ \E s \in Slot : conns[s].conn = c
  /\ \A c, d \in Conn : link[c] = "up" /\ link[d] = "up" /\ peer[c] = peer[d] => c = d
  /\ \A s, t \in Held : conns[s].conn = conns[t].conn => s = t
  /\ \A s \in Held : link[conns[s].conn] # "free"

\* active_conn_count counts the held slots, and advertising is off just when all are held
\* (or failed to start).
CountInv ==
  /\ active_conn_count = Cardinality(Held)
  /\ advertising = "on" => active_conn_count < NSlots
  /\ active_conn_count < NSlots => advertising \in {"on", "failed"}

\* A slot marked leaving, and a connection about to be dropped, is of a phone that asked.
LeaveInv ==
  /\ LeavingIsTrue
  /\ sys.pc = "drop" /\ link[sys.conn] = "up" => asked[peer[sys.conn]] # "no"

\* The inductive invariant of the slots.
SlotInv == BleType /\ LinkInv /\ CountInv /\ LeaveInv


----------------------------------------------------------------------------
(* The operators on slots *)

\* The numbers behind the assumptions on the constants.
LEMMA BleConstants ==
  /\ NSlots \in Nat /\ NSlots >= 1 /\ QueueDepth \in Nat /\ QueueDepth >= 1
  /\ NoPhone \notin Phone /\ FrameCount \in Nat
  /\ PROXY_ID_SIZE \in Nat /\ PROXY_ID_SIZE >= 1
  BY BleAssumption, ProtocolAssumption DEF FrameCount, cache_frame_count

\* A non-empty set of naturals has a least element, and Min is it.
LEMMA MinIsLeast ==
  ASSUME NEW T \in SUBSET Nat, T # {}
  PROVE  Min(T) \in T /\ \A y \in T : Min(T) <= y
<1>1. PICK x \in T : \A y \in T : ~ (<<y, x>> \in OpToRel(<, Nat))
  BY NatLessThanWellFounded, WFMin
<1>2. \A y \in T : ~ (y < x)
  BY <1>1 DEF OpToRel
<1>3. \A y \in T : x <= y
  BY <1>2
<1>4. QED
  BY <1>3 DEF Min

\* Some slot of a set of slots is its first.
LEMMA SlotMin ==
  ASSUME NEW T \in SUBSET Slot, T # {}
  PROVE  Min(T) \in T
<1>1. T \in SUBSET Nat
  BY DEF Slot
<1>2. QED
  BY <1>1, MinIsLeast

\* find_slot finds a slot with that connection, and 0 only when there is none.
LEMMA FindSlot ==
  ASSUME NEW c
  PROVE  \/ find_slot(c) = 0 /\ \A s \in Slot : conns[s].conn # c
         \/ find_slot(c) \in Slot /\ conns[find_slot(c)].conn = c
<1> DEFINE hits == {s \in Slot : conns[s].conn = c}
<1>1. find_slot(c) = IF hits = {} THEN 0 ELSE Min(hits)
  BY DEF find_slot, FirstSlot
<1>2. hits # {} => Min(hits) \in hits
  BY SlotMin
<1>3. QED
  BY <1>1, <1>2

\* A connected phone has a connection that is up, and it is its own.
LEMMA ConnOfPhone ==
  ASSUME NEW p, Connected(p)
  PROVE  ConnOf(p) \in Conn /\ ConnOf(p) # NoConn /\ link[ConnOf(p)] = "up" /\ peer[ConnOf(p)] = p
<1>1. \E c \in Conn : Up(p, c)
  BY DEF Connected
<1>2. ConnOf(p) \in Conn /\ Up(p, ConnOf(p))
  BY <1>1 DEF ConnOf
<1>3. QED
  BY <1>2 DEF Up

\* The slot of a connected phone.
LEMMA SlotOfPhone ==
  ASSUME LinkInv, NEW p, Connected(p)
  PROVE  /\ find_slot(ConnOf(p)) \in Slot /\ conns[find_slot(ConnOf(p))].conn = ConnOf(p)
         /\ ConnOf(p) \in Conn /\ ConnOf(p) # NoConn
         /\ link[ConnOf(p)] = "up" /\ peer[ConnOf(p)] = p
<1>1. ConnOf(p) \in Conn /\ ConnOf(p) # NoConn /\ link[ConnOf(p)] = "up" /\ peer[ConnOf(p)] = p
  BY ConnOfPhone
<1>2. \E s \in Slot : conns[s].conn = ConnOf(p)
  BY <1>1 DEF LinkInv
<1>3. QED
  BY <1>1, <1>2, FindSlot

\* A slot record stays one when one field is replaced, and keeps the others.
LEMMA SlotFields ==
  ASSUME NEW pc \in SlotRecord
  PROVE  /\ \A id \in {ZeroId} \cup {IdOf(p) : p \in Phone} :
              LET r == [pc EXCEPT !.proxy_id = id] IN
              /\ r \in SlotRecord /\ r.proxy_id = id
              /\ r.conn = pc.conn /\ r.leaving = pc.leaving /\ r.state = pc.state
              /\ r.queue = pc.queue /\ r.staged = pc.staged
         /\ LET r == [pc EXCEPT !.leaving = TRUE] IN
              /\ r \in SlotRecord /\ r.leaving = TRUE
              /\ r.conn = pc.conn /\ r.proxy_id = pc.proxy_id /\ r.state = pc.state
              /\ r.queue = pc.queue /\ r.staged = pc.staged
         /\ \A q \in Seq(QEntry) :
              LET r == [pc EXCEPT !.queue = q] IN
              /\ r \in SlotRecord /\ r.queue = q
              /\ r.conn = pc.conn /\ r.leaving = pc.leaving /\ r.proxy_id = pc.proxy_id
              /\ r.state = pc.state /\ r.staged = pc.staged
         /\ \A q \in Seq(QEntry) :
              LET r == [pc EXCEPT !.staged = q] IN
              /\ r \in SlotRecord /\ r.staged = q
              /\ r.conn = pc.conn /\ r.leaving = pc.leaving /\ r.proxy_id = pc.proxy_id
              /\ r.state = pc.state /\ r.queue = pc.queue
         /\ \A n \in 0 .. FrameCount + 1 :
              LET r == [pc EXCEPT !.replay_cursor = n] IN
              /\ r \in SlotRecord
              /\ r.conn = pc.conn /\ r.leaving = pc.leaving /\ r.proxy_id = pc.proxy_id
              /\ r.state = pc.state /\ r.queue = pc.queue /\ r.staged = pc.staged
         /\ LET r == [pc EXCEPT !.state = "ACTIVE"] IN
              /\ r \in SlotRecord /\ r.state = "ACTIVE"
              /\ r.conn = pc.conn /\ r.leaving = pc.leaving /\ r.proxy_id = pc.proxy_id
              /\ r.queue = pc.queue /\ r.staged = pc.staged
  BY DEF SlotRecord

\* A slot as it is handed out and as it is left.
LEMMA FreshSlot ==
  ASSUME NEW pc \in SlotRecord, NEW c \in Conn
  PROVE  /\ LET r == [FreeSlot EXCEPT !.conn = c, !.cc_frame = pc.cc_frame] IN
              /\ r \in SlotRecord /\ r.conn = c /\ r.leaving = FALSE /\ r.proxy_id = ZeroId
              /\ r.state = "CONNECTED" /\ r.queue = <<>> /\ r.staged = <<>>
         /\ LET r == [FreeSlot EXCEPT !.cc_frame = pc.cc_frame] IN
              /\ r \in SlotRecord /\ r.conn = NoConn /\ r.leaving = FALSE /\ r.proxy_id = ZeroId
              /\ r.state = "CONNECTED" /\ r.queue = <<>> /\ r.staged = <<>>
<1>1. <<>> \in Seq(QEntry) /\ 0 \in 0 .. FrameCount + 1
  BY BleConstants
<1>2. pc.cc_frame \in CcFrame
  BY DEF SlotRecord
<1>3. QED
  BY <1>1, <1>2 DEF FreeSlot, SlotRecord

\* ble_gatt_replay_cached_burst on a slot.
LEMMA ArmReplay ==
  ASSUME NEW pc \in SlotRecord, NEW n \in Nonces
  PROVE  LET r == arm_replay(pc, n) IN
           /\ r \in SlotRecord /\ r.state = "REPLAYING"
           /\ r.conn = pc.conn /\ r.leaving = pc.leaving /\ r.proxy_id = pc.proxy_id
           /\ r.queue = pc.queue /\ r.staged = pc.staged
<1> DEFINE m == IF n # 0 THEN n ELSE pc.nonce
<1>1. m \in Nonces \cup {0} /\ 0 \in 0 .. FrameCount + 1
  BY BleConstants DEF SlotRecord
<1>2. proto_encode_config_complete(m) \in CcFrame
  BY <1>1 DEF proto_encode_config_complete, FromRadio, CcFrame
<1>3. arm_replay(pc, n) = [pc EXCEPT !.nonce = m, !.replay_cursor = 0, !.state = "REPLAYING",
                                     !.cc_frame = proto_encode_config_complete(m)]
  BY DEF arm_replay
<1> HIDE DEF m
<1>4. QED
  BY <1>1, <1>2, <1>3 DEF SlotRecord

\* The frames a replay has still to serve are frames of the cache.
LEMMA AheadFirst ==
  ASSUME NEW pc \in SlotRecord, Ahead(cache, pc) # {}
  PROVE  Min(Ahead(cache, pc)) \in 0 .. FrameCount - 1
<1> DEFINE T == Ahead(cache, pc)
<1>1. FrameCount \in Nat /\ pc.replay_cursor \in Nat
  BY BleConstants DEF SlotRecord
<1>2. T \subseteq 0 .. FrameCount - 1
  BY <1>1 DEF Ahead, FrameCount
<1>3. T \in SUBSET Nat
  BY <1>1, <1>2
<1>4. Min(T) \in T
  BY <1>3, MinIsLeast
<1>5. QED
  BY <1>2, <1>4

\* What a read makes of a slot: at most one entry is served, from the replay or
\* from the head of the queue, and nothing but the queue, the cursor and the
\* state change.
Reads(pc, out, r) ==
  /\ r \in SlotRecord /\ out \in Seq(QEntry) /\ Len(out) <= 1
  /\ r.conn = pc.conn /\ r.leaving = pc.leaving /\ r.proxy_id = pc.proxy_id
  /\ \/ /\ r.queue = pc.queue
        /\ \A i \in 1 .. Len(out) : out[i].kind # "live" /\ out[i].to = NoPhone
     \/ /\ Len(pc.queue) >= 1 /\ r.queue = Tail(pc.queue) /\ out = <<Head(pc.queue)>>
  /\ pc.state = "REPLAYING" \/ (r.state = pc.state /\ (out = <<>> => r.queue = <<>>))

\* A replay that serves one entry, and moves the cursor.
LEMMA ReadsEntry ==
  ASSUME NEW pc \in SlotRecord, pc.state = "REPLAYING", NEW e \in QEntry,
         e.kind # "live", e.to = NoPhone, NEW n \in 0 .. FrameCount + 1
  PROVE  Reads(pc, <<e>>, [pc EXCEPT !.replay_cursor = n])
<1> DEFINE r == [pc EXCEPT !.replay_cursor = n]
           out == <<e>>
<1>1. /\ r \in SlotRecord /\ r.conn = pc.conn /\ r.leaving = pc.leaving
      /\ r.proxy_id = pc.proxy_id /\ r.queue = pc.queue
  BY DEF SlotRecord
<1>2. /\ out \in Seq(QEntry) /\ Len(out) = 1
      /\ \A i \in 1 .. Len(out) : out[i].kind # "live" /\ out[i].to = NoPhone
  OBVIOUS
<1> HIDE DEF r, out
<1>3. Reads(pc, out, r)
  BY <1>1, <1>2 DEF Reads
<1>4. QED
  BY <1>3 DEF r, out

\* A read during a replay gives the next cached frame, the terminator or the end.
LEMMA ReplayServes ==
  ASSUME NEW pc \in SlotRecord
  PROVE  LET n == Min(Ahead(cache, pc)) IN
         /\ Ahead(cache, pc) # {} =>
              /\ ServedReplay(pc)[1] = <<Entry("cached", n, NoPhone)>>
              /\ ServedReplay(pc)[2] = [pc EXCEPT !.replay_cursor = n + 1]
         /\ Ahead(cache, pc) = {} /\ pc.replay_cursor <= FrameCount =>
              /\ ServedReplay(pc)[1] = <<Entry(pc.cc_frame.variant, pc.cc_frame.data, NoPhone)>>
              /\ ServedReplay(pc)[2] = [pc EXCEPT !.replay_cursor = FrameCount + 1]
         /\ Ahead(cache, pc) = {} /\ ~ (pc.replay_cursor <= FrameCount) =>
              /\ ServedReplay(pc)[1] = <<>>
              /\ ServedReplay(pc)[2] = [pc EXCEPT !.state = "ACTIVE"]
<1> DEFINE R == Replayed(cache, pc)
           n == Min(Ahead(cache, pc))
<1>1. ServedReplay(pc) =
        << [i \in DOMAIN R[1] |-> IF R[1][i].cached THEN Entry("cached", R[1][i].v, NoPhone)
                                  ELSE Entry(R[1][i].v.variant, R[1][i].v.data, NoPhone)], R[2] >>
  BY DEF ServedReplay
<1>2. CASE Ahead(cache, pc) # {}
  <2>1. R = << <<[cached |-> TRUE, v |-> n]>>, [pc EXCEPT !.replay_cursor = n + 1] >>
    BY <1>2 DEF Replayed
  <2> HIDE DEF R, n
  <2>2. ServedReplay(pc)[1] = <<Entry("cached", n, NoPhone)>>
    BY <1>1, <2>1
  <2>3. ServedReplay(pc)[2] = [pc EXCEPT !.replay_cursor = n + 1]
    BY <1>1, <2>1
  <2>4. QED
    BY <1>2, <2>2, <2>3 DEF n
<1>3. CASE Ahead(cache, pc) = {} /\ pc.replay_cursor <= FrameCount
  <2>1. R = << <<[cached |-> FALSE, v |-> pc.cc_frame]>>,
               [pc EXCEPT !.replay_cursor = FrameCount + 1] >>
    BY <1>3 DEF Replayed, FrameCount
  <2> HIDE DEF R
  <2>2. ServedReplay(pc)[1] = <<Entry(pc.cc_frame.variant, pc.cc_frame.data, NoPhone)>>
    BY <1>1, <2>1
  <2>3. ServedReplay(pc)[2] = [pc EXCEPT !.replay_cursor = FrameCount + 1]
    BY <1>1, <2>1
  <2>4. QED
    BY <1>3, <2>2, <2>3
<1>4. CASE Ahead(cache, pc) = {} /\ ~ (pc.replay_cursor <= FrameCount)
  <2>1. R = << <<>>, [pc EXCEPT !.state = "ACTIVE"] >>
    BY <1>4 DEF Replayed, FrameCount
  <2> HIDE DEF R
  <2>2. ServedReplay(pc)[1] = <<>>
    BY <1>1, <2>1
  <2>3. ServedReplay(pc)[2] = [pc EXCEPT !.state = "ACTIVE"]
    BY <1>1, <2>1
  <2>4. QED
    BY <1>4, <2>2, <2>3
<1>5. QED
  BY <1>2, <1>3, <1>4

\* What it makes of the slot.
LEMMA ReadsReplay ==
  ASSUME NEW pc \in SlotRecord, pc.state = "REPLAYING"
  PROVE  Reads(pc, ServedReplay(pc)[1], ServedReplay(pc)[2])
<1> DEFINE n == Min(Ahead(cache, pc))
           e == Entry("cached", n, NoPhone)
           t == Entry(pc.cc_frame.variant, pc.cc_frame.data, NoPhone)
<1>1. FrameCount \in Nat /\ pc.replay_cursor \in 0 .. FrameCount + 1 /\ pc.cc_frame \in CcFrame
  BY BleConstants DEF SlotRecord
<1>2. CASE Ahead(cache, pc) # {}
  <2>1. n \in Nat /\ n + 1 \in 0 .. FrameCount + 1
    BY <1>1, <1>2, AheadFirst
  <2>2. e \in QEntry /\ e.kind # "live" /\ e.to = NoPhone
    BY <2>1 DEF Entry, QEntry, EntryKind
  <2>3. ServedReplay(pc)[1] = <<e>> /\ ServedReplay(pc)[2] = [pc EXCEPT !.replay_cursor = n + 1]
    BY <1>2, ReplayServes
  <2> HIDE DEF e, n
  <2>4. Reads(pc, <<e>>, [pc EXCEPT !.replay_cursor = n + 1])
    BY <2>1, <2>2, ReadsEntry
  <2>5. QED
    BY <2>3, <2>4
<1>3. CASE Ahead(cache, pc) = {} /\ pc.replay_cursor <= FrameCount
  <2>1. FrameCount + 1 \in 0 .. FrameCount + 1
    BY <1>1
  <2>2. t \in QEntry /\ t.kind # "live" /\ t.to = NoPhone
    BY <1>1 DEF Entry, QEntry, EntryKind, CcFrame
  <2>3. /\ ServedReplay(pc)[1] = <<t>>
        /\ ServedReplay(pc)[2] = [pc EXCEPT !.replay_cursor = FrameCount + 1]
    BY <1>3, ReplayServes
  <2> HIDE DEF t
  <2>4. Reads(pc, <<t>>, [pc EXCEPT !.replay_cursor = FrameCount + 1])
    BY <2>1, <2>2, ReadsEntry
  <2>5. QED
    BY <2>3, <2>4
<1>4. CASE Ahead(cache, pc) = {} /\ ~ (pc.replay_cursor <= FrameCount)
  <2> DEFINE r == [pc EXCEPT !.state = "ACTIVE"]
             out == <<>>
  <2>1. ServedReplay(pc)[1] = out /\ ServedReplay(pc)[2] = r
    BY <1>4, ReplayServes
  <2>2. /\ r \in SlotRecord /\ r.conn = pc.conn /\ r.leaving = pc.leaving
        /\ r.proxy_id = pc.proxy_id /\ r.queue = pc.queue
    BY DEF SlotRecord
  <2>3. out \in Seq(QEntry) /\ Len(out) = 0
    OBVIOUS
  <2> HIDE DEF r, out
  <2>4. Reads(pc, out, r)
    BY <2>2, <2>3 DEF Reads
  <2>5. QED
    BY <2>1, <2>4
<1>5. QED
  BY <1>2, <1>3, <1>4

\* The head of the queue is served, and taken off it.
LEMMA ReadsQueue ==
  ASSUME NEW pc \in SlotRecord, pc.state # "REPLAYING"
  PROVE  Reads(pc, Dequeued(pc)[1], Dequeued(pc)[2])
<1>0. pc.queue \in Seq(QEntry)
  BY DEF SlotRecord
<1>1. CASE pc.queue = <<>>
  <2>1. Dequeued(pc)[1] = <<>> /\ Dequeued(pc)[2] = pc
    BY <1>1 DEF Dequeued
  <2>2. QED
    BY <1>1, <2>1 DEF Reads
<1>2. CASE pc.queue # <<>>
  <2>1. Dequeued(pc)[1] = <<Head(pc.queue)>> /\ Dequeued(pc)[2] = [pc EXCEPT !.queue = Tail(pc.queue)]
    BY <1>2 DEF Dequeued
  <2>2. Tail(pc.queue) \in Seq(QEntry) /\ Head(pc.queue) \in QEntry /\ Len(pc.queue) >= 1
    BY <1>0, <1>2
  <2> DEFINE r == [pc EXCEPT !.queue = Tail(pc.queue)]
             out == <<Head(pc.queue)>>
  <2>3. /\ r \in SlotRecord /\ r.conn = pc.conn /\ r.leaving = pc.leaving
        /\ r.proxy_id = pc.proxy_id /\ r.queue = Tail(pc.queue) /\ r.state = pc.state
    BY <2>2, SlotFields
  <2>4. out \in Seq(QEntry) /\ Len(out) = 1 /\ out = <<Head(pc.queue)>> /\ out # <<>>
    BY <2>2
  <2> HIDE DEF r, out
  <2>5. Reads(pc, out, r)
    BY <2>2, <2>3, <2>4 DEF Reads
  <2>6. QED
    BY <2>1, <2>5 DEF r, out
<1>3. QED
  BY <1>1, <1>2

\* A read, whatever the slot is doing.
LEMMA ReadsResponse ==
  ASSUME NEW pc \in SlotRecord
  PROVE  Reads(pc, Response(pc)[1], Response(pc)[2])
<1>1. CASE pc.state = "REPLAYING"
  BY <1>1, ReadsReplay DEF Response
<1>2. CASE pc.state # "REPLAYING"
  BY <1>2, ReadsQueue DEF Response
<1>3. QED
  BY <1>1, <1>2

----------------------------------------------------------------------------
(* What an operation makes of the slots *)

\* Every other slot is left alone.
Others(s) == \A t \in Slot : t # s => conns'[t] = conns[t]

\* One slot is replaced.
LEMMA SlotReplaced ==
  ASSUME SlotType, NEW s \in Slot, NEW r \in SlotRecord,
         Len(r.queue) <= QueueDepth, Len(r.staged) <= 1,
         conns' = [conns EXCEPT ![s] = r]
  PROVE  SlotType' /\ conns'[s] = r /\ Others(s)
<1>1. conns' \in [Slot -> SlotRecord] /\ conns'[s] = r /\ Others(s)
  BY DEF SlotType, Others
<1>2. QED
  BY <1>1 DEF SlotType, Others

\* A pushed frame is appended, or not stored when the queue is full or the phone leaves.
LEMMA PushEffect ==
  ASSUME SlotType, NEW s \in Slot, NEW e \in QEntry, Push(s, e)
  PROVE  /\ SlotType' /\ Others(s)
         /\ conns'[s].conn = conns[s].conn /\ conns'[s].leaving = conns[s].leaving
         /\ conns'[s].proxy_id = conns[s].proxy_id /\ conns'[s].state = conns[s].state
         /\ conns'[s].staged = conns[s].staged
         /\ \/ conns'[s].queue = conns[s].queue
            \/ ~ conns[s].leaving /\ conns'[s].queue = Append(conns[s].queue, e)
<1>1. CASE conns' = conns
  BY <1>1 DEF SlotType, Others
<1>2. CASE /\ ~ conns[s].leaving /\ Len(conns[s].queue) < QueueDepth
           /\ conns' = [conns EXCEPT ![s].queue = Append(@, e)]
  <2> DEFINE pc == conns[s]
             q == Append(pc.queue, e)
             r == [pc EXCEPT !.queue = q]
  <2>1. pc \in SlotRecord /\ pc.queue \in Seq(QEntry) /\ Len(pc.staged) <= 1
    BY DEF SlotType, SlotRecord
  <2>2. q \in Seq(QEntry) /\ Len(q) = Len(pc.queue) + 1 /\ Len(q) <= QueueDepth
    BY <1>2, <2>1, BleConstants
  <2>3. conns' = [conns EXCEPT ![s] = r]
    BY <1>2
  <2> HIDE DEF pc, q
  <2>4. /\ r \in SlotRecord /\ r.queue = q
        /\ r.conn = pc.conn /\ r.leaving = pc.leaving /\ r.proxy_id = pc.proxy_id
        /\ r.state = pc.state /\ r.staged = pc.staged
    BY <2>1, <2>2 DEF SlotRecord
  <2> HIDE DEF r
  <2>5. SlotType' /\ conns'[s] = r /\ Others(s)
    BY <2>1, <2>2, <2>3, <2>4, SlotReplaced
  <2>6. QED
    BY <1>2, <2>4, <2>5 DEF pc, q
<1>3. QED
  BY <1>1, <1>2 DEF Push, Accepts, HasRoom

\* want_config arms a replay in the phone's slot.
LEMMA ReplayEffect ==
  ASSUME SlotType, LinkInv, NEW p \in Phone, NEW n \in Nonces, replay_cached_burst(p, n)
  PROVE  \E s \in Slot :
           /\ SlotType' /\ Others(s)
           /\ conns[s].conn = ConnOf(p)
           /\ conns'[s].conn = conns[s].conn /\ conns'[s].leaving = conns[s].leaving
           /\ conns'[s].proxy_id = conns[s].proxy_id /\ conns'[s].state = "REPLAYING"
           /\ conns'[s].staged = conns[s].staged /\ conns'[s].queue = conns[s].queue
<1> DEFINE s == find_slot(ConnOf(p))
           r == arm_replay(conns[s], n)
<1>1. s \in Slot /\ conns[s].conn = ConnOf(p)
  BY SlotOfPhone DEF replay_cached_burst, Write
<1>2. conns[s] \in SlotRecord /\ Len(conns[s].queue) <= QueueDepth /\ Len(conns[s].staged) <= 1
  BY <1>1 DEF SlotType
<1>3. conns' = [conns EXCEPT ![s] = r]
  BY DEF replay_cached_burst
<1>4. /\ r \in SlotRecord /\ r.state = "REPLAYING"
      /\ r.conn = conns[s].conn /\ r.leaving = conns[s].leaving /\ r.proxy_id = conns[s].proxy_id
      /\ r.queue = conns[s].queue /\ r.staged = conns[s].staged
  BY <1>2, ArmReplay
<1> HIDE DEF s, r
<1>5. SlotType' /\ conns'[s] = r /\ Others(s)
  BY <1>1, <1>2, <1>3, <1>4, SlotReplaced
<1>6. QED
  BY <1>1, <1>4, <1>5

\* A registration sets the proxy id of the phone's slot, or is refused.
LEMMA RegisterEffect ==
  ASSUME SlotType, LinkInv, NEW p \in Phone, NEW id \in RegWrites(p), register_proxy_id(p, id)
  PROVE  \E s \in Slot :
           /\ SlotType' /\ Others(s)
           /\ conns[s].conn = ConnOf(p)
           /\ conns'[s].conn = conns[s].conn /\ conns'[s].leaving = conns[s].leaving
           /\ conns'[s].proxy_id \in {conns[s].proxy_id, IdOf(p), ZeroId}
           /\ conns'[s].state = conns[s].state
           /\ conns'[s].staged = conns[s].staged /\ conns'[s].queue = conns[s].queue
<1> DEFINE s == find_slot(ConnOf(p))
           pc == conns[s]
           r == [pc EXCEPT !.proxy_id = id]
<1>1. s \in Slot /\ conns[s].conn = ConnOf(p)
  BY SlotOfPhone DEF register_proxy_id, Write
<1>2. pc \in SlotRecord /\ Len(pc.queue) <= QueueDepth /\ Len(pc.staged) <= 1
  BY <1>1 DEF SlotType
<1>3. CASE conns' = conns
  <2> HIDE DEF s
  <2>1. SlotType' /\ Others(s)
    BY <1>3 DEF SlotType, Others
  <2>2. QED
    BY <1>1, <1>3, <2>1
<1>4. CASE id \in {IdOf(p), ZeroId} /\ conns' = [conns EXCEPT ![s].proxy_id = id]
  <2>1. conns' = [conns EXCEPT ![s] = r]
    BY <1>4
  <2> HIDE DEF pc
  <2>2. /\ r \in SlotRecord /\ r.proxy_id = id
        /\ r.conn = pc.conn /\ r.leaving = pc.leaving /\ r.state = pc.state
        /\ r.queue = pc.queue /\ r.staged = pc.staged
    BY <1>2, <1>4 DEF SlotRecord
  <2> HIDE DEF r, s
  <2>3. SlotType' /\ conns'[s] = r /\ Others(s)
    BY <1>1, <1>2, <2>1, <2>2, SlotReplaced
  <2>4. QED
    BY <1>1, <1>4, <2>2, <2>3 DEF pc
<1>5. Len(<<>>) # PROXY_ID_SIZE
  BY BleConstants
<1>6. QED
  BY <1>3, <1>4, <1>5 DEF register_proxy_id, RegWrites

\* A phone's disconnect marks its slot and arms the deferred teardown.
LEMMA TeardownEffect ==
  ASSUME SlotType, LinkInv, NEW p \in Phone, request_teardown(p)
  PROVE  \E s \in Slot :
           /\ SlotType' /\ Others(s)
           /\ conns[s].conn = ConnOf(p) /\ armed' = armed \cup {s}
           /\ conns'[s].conn = conns[s].conn /\ conns'[s].leaving = TRUE
           /\ conns'[s].proxy_id = conns[s].proxy_id /\ conns'[s].state = conns[s].state
           /\ conns'[s].staged = conns[s].staged /\ conns'[s].queue = conns[s].queue
<1> DEFINE s == find_slot(ConnOf(p))
           pc == conns[s]
           r == [pc EXCEPT !.leaving = TRUE]
<1>1. s \in Slot /\ conns[s].conn = ConnOf(p)
  BY SlotOfPhone DEF request_teardown, Write
<1>2. pc \in SlotRecord /\ Len(pc.queue) <= QueueDepth /\ Len(pc.staged) <= 1
  BY <1>1 DEF SlotType
<1>3. conns' = [conns EXCEPT ![s] = r] /\ armed' = armed \cup {s}
  BY DEF request_teardown
<1> HIDE DEF pc
<1>4. /\ r \in SlotRecord /\ r.leaving = TRUE
      /\ r.conn = pc.conn /\ r.proxy_id = pc.proxy_id /\ r.state = pc.state
      /\ r.queue = pc.queue /\ r.staged = pc.staged
  BY <1>2 DEF SlotRecord
<1> HIDE DEF r, s
<1>5. SlotType' /\ conns'[s] = r /\ Others(s)
  BY <1>1, <1>2, <1>3, <1>4, SlotReplaced
<1>6. QED
  BY <1>1, <1>3, <1>4, <1>5 DEF pc

\* A read at offset 0.
LEMMA ReadEffect ==
  ASSUME SlotType, LinkInv, NEW p \in Phone, fromradio_read(p)
  PROVE  \E s \in Slot, out \in Seq(QEntry), r \in SlotRecord :
           /\ SlotType' /\ Others(s) /\ Reads(conns[s], out, r)
           /\ conns[s].conn = ConnOf(p)
           /\ conns'[s].conn = conns[s].conn /\ conns'[s].leaving = conns[s].leaving
           /\ conns'[s].proxy_id = conns[s].proxy_id /\ conns'[s].state = r.state
           /\ conns'[s].staged = out /\ conns'[s].queue = r.queue
           /\ got' = [got EXCEPT ![p] = @ \o out]
           /\ reading' = [reading EXCEPT ![p] = out # <<>>]
           /\ owed' = [owed EXCEPT ![p] = @ /\ (out # <<>> \/ r.queue # <<>>)]
           /\ bell' = IF bell[p] = "lost" /\ out = <<>> /\ r.queue = <<>>
                      THEN [bell EXCEPT ![p] = "silent"] ELSE bell
<1> DEFINE s == find_slot(ConnOf(p))
           pc == conns[s]
           out == Response(pc)[1]
           r == Response(pc)[2]
           new == [r EXCEPT !.staged = out]
<1>1. s \in Slot /\ conns[s].conn = ConnOf(p)
  BY SlotOfPhone DEF fromradio_read
<1>2. pc \in SlotRecord /\ Len(pc.queue) <= QueueDepth /\ pc.queue \in Seq(QEntry)
  BY <1>1 DEF SlotType, SlotRecord
<1>3. /\ conns' = [conns EXCEPT ![s] = new]
      /\ got' = [got EXCEPT ![p] = @ \o out]
      /\ reading' = [reading EXCEPT ![p] = out # <<>>]
      /\ owed' = [owed EXCEPT ![p] = @ /\ (out # <<>> \/ r.queue # <<>>)]
      /\ bell' = IF bell[p] = "lost" /\ out = <<>> /\ r.queue = <<>>
                 THEN [bell EXCEPT ![p] = "silent"] ELSE bell
  BY DEF fromradio_read
<1> HIDE DEF pc
<1>4. Reads(pc, out, r)
  BY <1>2, ReadsResponse
<1> HIDE DEF out, r
<1>5. /\ r \in SlotRecord /\ out \in Seq(QEntry) /\ Len(out) <= 1 /\ Len(r.queue) <= QueueDepth
      /\ r.conn = pc.conn /\ r.leaving = pc.leaving /\ r.proxy_id = pc.proxy_id
  <2>1. Len(pc.queue) >= 1 => Len(Tail(pc.queue)) <= QueueDepth
    <3>1. ASSUME Len(pc.queue) >= 1 PROVE Len(Tail(pc.queue)) = Len(pc.queue) - 1
      BY <1>2, <3>1, HeadTailProperties
    <3>2. QED
      BY <1>2, <3>1, BleConstants
  <2>2. Len(r.queue) <= QueueDepth
    BY <1>2, <1>4, <2>1 DEF Reads
  <2>3. QED
    BY <1>4, <2>2 DEF Reads
<1>6. /\ new \in SlotRecord /\ new.staged = out /\ new.queue = r.queue /\ new.state = r.state
      /\ new.conn = r.conn /\ new.leaving = r.leaving /\ new.proxy_id = r.proxy_id
  BY <1>5 DEF SlotRecord
<1> HIDE DEF new, s
<1>7. SlotType' /\ conns'[s] = new /\ Others(s)
  BY <1>1, <1>3, <1>5, <1>6, SlotReplaced
<1>8. QED
  BY <1>1, <1>3, <1>4, <1>5, <1>6, <1>7 DEF pc

\* Slots are numbered, so there are NSlots of them, and finitely many are held.
LEMMA HeldFinite ==
  /\ IsFiniteSet(Slot) /\ Cardinality(Slot) = NSlots
  /\ IsFiniteSet(Held) /\ Held \subseteq Slot
<1>1. IsFiniteSet(1 .. NSlots) /\ Cardinality(1 .. NSlots) = NSlots
  <2>1. 1 \in Int /\ NSlots \in Int /\ NSlots >= 1
    BY BleConstants
  <2>2. Cardinality(1 .. NSlots) = NSlots - 1 + 1 /\ IsFiniteSet(1 .. NSlots)
    BY <2>1, FS_Interval
  <2>3. QED
    BY <2>1, <2>2
<1>2. Held \subseteq Slot
  BY DEF Held
<1>3. QED
  BY <1>1, <1>2, FS_Subset DEF Slot

\* While the counter is below the limit there is a free slot.
LEMMA FreeSlotExists ==
  ASSUME CountInv, active_conn_count < NSlots
  PROVE  \E s \in Slot : conns[s].conn = NoConn
<1>1. Held # Slot
  BY HeldFinite, BleConstants DEF CountInv
<1>2. QED
  BY <1>1 DEF Held

\* A phone connects with a connection that nobody refers to, while there is a
\* free slot: it is never rejected.
LEMMA ConnectLink ==
  ASSUME CountInv, NEW p \in Phone, NEW c \in Conn, Connect(p, c)
  PROVE  /\ link[c] = "free" /\ \A t \in Slot : conns[t].conn # c
         /\ ~ (sys.pc = "drop" /\ sys.conn = c)
         /\ \E s \in Slot :
              /\ conns[s].conn = NoConn
              /\ conns' = [conns EXCEPT ![s] = [FreeSlot EXCEPT !.conn = c,
                                                                !.cc_frame = conns[s].cc_frame]]
         /\ link' = [link EXCEPT ![c] = "up"] /\ active_conn_count' = active_conn_count + 1
         /\ active_conn_count + 1 < NSlots => advertising' \in {"on", "failed"}
         /\ ~ (active_conn_count + 1 < NSlots) => advertising' = "off"
<1> DEFINE hits == {t \in Slot : conns[t].conn = NoConn}
           s == IF hits = {} THEN 0 ELSE Min(hits)
<1>1. /\ link[c] = "free" /\ \A t \in Slot : conns[t].conn # c
      /\ ~ (sys.pc = "drop" /\ sys.conn = c)
  BY DEF Connect, Referenced
<1>2. active_conn_count < NSlots
  BY DEF Connect, CountInv
<1>3. s \in Slot /\ conns[s].conn = NoConn
  <2>1. hits # {} /\ hits \in SUBSET Slot
    BY <1>2, FreeSlotExists
  <2>2. QED
    BY <2>1, SlotMin
<1>4. s # 0
  BY <1>3, BleConstants DEF Slot
<1>5. s = FirstSlot(LAMBDA t : conns[t].conn = NoConn)
  BY DEF FirstSlot
<1> HIDE DEF s
<1>6. /\ link' = [link EXCEPT ![c] = "up"] /\ active_conn_count' = active_conn_count + 1
      /\ conns' = [conns EXCEPT ![s] = [FreeSlot EXCEPT !.conn = c, !.cc_frame = conns[s].cc_frame]]
      /\ IF active_conn_count + 1 < NSlots THEN start_advertising("off") ELSE advertising' = "off"
  BY <1>4, <1>5 DEF Connect, on_connected, alloc_slot
<1>7. /\ active_conn_count + 1 < NSlots => advertising' \in {"on", "failed"}
      /\ ~ (active_conn_count + 1 < NSlots) => advertising' = "off"
  BY <1>6 DEF start_advertising
<1>8. QED
  BY <1>1, <1>3, <1>6, <1>7

\* The slot of a phone that connected.
LEMMA ConnectSlot ==
  ASSUME SlotType, NEW c \in Conn, NEW s \in Slot,
         conns' = [conns EXCEPT ![s] = [FreeSlot EXCEPT !.conn = c, !.cc_frame = conns[s].cc_frame]]
  PROVE  /\ SlotType' /\ Others(s)
         /\ conns'[s].conn = c /\ conns'[s].leaving = FALSE /\ conns'[s].proxy_id = ZeroId
         /\ conns'[s].state = "CONNECTED"
         /\ conns'[s].queue = <<>> /\ conns'[s].staged = <<>>
<1> DEFINE r == [FreeSlot EXCEPT !.conn = c, !.cc_frame = conns[s].cc_frame]
<1>1. conns[s] \in SlotRecord
  BY DEF SlotType
<1>2. /\ r \in SlotRecord /\ r.conn = c /\ r.leaving = FALSE /\ r.proxy_id = ZeroId
      /\ r.state = "CONNECTED" /\ r.queue = <<>> /\ r.staged = <<>>
  BY <1>1, FreshSlot
<1> HIDE DEF r
<1>3. SlotType' /\ conns'[s] = r /\ Others(s)
  <2>1. Len(r.queue) = 0 /\ Len(r.staged) = 0
    BY <1>2
  <2>2. Len(r.queue) <= QueueDepth /\ Len(r.staged) <= 1 /\ conns' = [conns EXCEPT ![s] = r]
    BY <2>1, BleConstants DEF r
  <2>3. QED
    BY <1>2, <2>2, SlotReplaced
<1>4. QED
  BY <1>2, <1>3

\* A phone is given a free slot, reset.
LEMMA ConnectEffect ==
  ASSUME BleType, CountInv, NEW p \in Phone, NEW c \in Conn, Connect(p, c)
  PROVE  \E s \in Slot :
           /\ SlotType' /\ Others(s) /\ conns[s].conn = NoConn
           /\ conns'[s].conn = c /\ conns'[s].leaving = FALSE /\ conns'[s].proxy_id = ZeroId
           /\ conns'[s].state = "CONNECTED"
           /\ conns'[s].queue = <<>> /\ conns'[s].staged = <<>>
<1>1. PICK s \in Slot :
        /\ conns[s].conn = NoConn
        /\ conns' = [conns EXCEPT ![s] = [FreeSlot EXCEPT !.conn = c, !.cc_frame = conns[s].cc_frame]]
  BY ConnectLink
<1>2. QED
  BY <1>1, ConnectSlot DEF BleType

\* The slot of a link that is down is left.
LEMMA DisconnectEffect ==
  ASSUME BleType, LinkInv, NEW c \in Conn, Disconnected(c)
  PROVE  /\ link[c] = "down" /\ link' = [link EXCEPT ![c] = "free"]
         /\ active_conn_count' = active_conn_count - 1
         /\ advertising' \in {"on", "failed"} /\ (advertising = "on" => advertising' = "on")
         /\ armed' \subseteq armed /\ queued' \subseteq queued
         /\ \E s \in Slot :
              /\ SlotType' /\ Others(s) /\ conns[s].conn = c
              /\ conns'[s].conn = NoConn /\ conns'[s].leaving = FALSE
              /\ conns'[s].proxy_id = ZeroId /\ conns'[s].state = "CONNECTED"
              /\ conns'[s].queue = <<>> /\ conns'[s].staged = <<>>
<1> DEFINE s == find_slot(c)
           r == [FreeSlot EXCEPT !.cc_frame = conns[s].cc_frame]
<1>1. link[c] = "down" /\ link' = [link EXCEPT ![c] = "free"] /\ on_disconnected(c)
  BY DEF Disconnected
<1>2. \E t \in Slot : conns[t].conn = c
  BY <1>1 DEF LinkInv
<1>3. s \in Slot /\ conns[s].conn = c
  BY <1>2, FindSlot
<1>4. s # 0
  BY <1>3, BleConstants DEF Slot
<1>5. free_slot(s) /\ active_conn_count' = active_conn_count - 1 /\ start_advertising(advertising)
  BY <1>1, <1>4 DEF on_disconnected
<1>6. advertising' \in {"on", "failed"} /\ (advertising = "on" => advertising' = "on")
  BY <1>5 DEF start_advertising
<1>7. conns' = [conns EXCEPT ![s] = r] /\ armed' \subseteq armed /\ queued' \subseteq queued
  BY <1>5 DEF free_slot
<1> HIDE DEF s
<1>8. conns[s] \in SlotRecord
  BY <1>3 DEF BleType, SlotType
<1>9. /\ r \in SlotRecord /\ r.conn = NoConn /\ r.leaving = FALSE /\ r.proxy_id = ZeroId
      /\ r.state = "CONNECTED" /\ r.queue = <<>> /\ r.staged = <<>>
  BY <1>8, FreshSlot
<1> HIDE DEF r
<1>10. SlotType' /\ conns'[s] = r /\ Others(s)
  <2>1. Len(r.queue) = 0 /\ Len(r.staged) = 0
    BY <1>9
  <2>2. Len(r.queue) <= QueueDepth /\ Len(r.staged) <= 1 /\ SlotType
    BY <2>1, BleConstants DEF BleType
  <2>3. QED
    BY <1>3, <1>7, <1>9, <2>2, SlotReplaced
<1>11. QED
  BY <1>1, <1>3, <1>5, <1>6, <1>7, <1>9, <1>10

\* A unicast goes to a connection of some slot.
LEMMA RegisteredConn ==
  ASSUME NEW id
  PROVE  \/ get_conn_by_proxy_id(id) = NoConn
         \/ /\ ~ proxy_id_is_zero(id)
            /\ \E s \in Slot : /\ conns[s].conn # NoConn /\ proxy_id_equal(conns[s].proxy_id, id)
                               /\ get_conn_by_proxy_id(id) = conns[s].conn
<1> DEFINE hits == {s \in Slot : conns[s].conn # NoConn /\ proxy_id_equal(conns[s].proxy_id, id)}
           m == IF hits = {} THEN 0 ELSE Min(hits)
<1>1. get_conn_by_proxy_id(id) = IF proxy_id_is_zero(id) \/ m = 0 THEN NoConn ELSE conns[m].conn
  BY DEF get_conn_by_proxy_id, FirstSlot
<1>2. hits # {} => Min(hits) \in hits
  BY SlotMin
<1>3. QED
  BY <1>1, <1>2

----------------------------------------------------------------------------
(* Types *)

\* The work queue's context when it has nothing to do, and at a broadcast.
LEMMA IdleType ==
  ASSUME NEW n \in Nat
  PROVE  /\ Idle \in SysRecord /\ Idle.pc = "idle" /\ Idle.to = NoPhone /\ Idle.i = 0
         /\ LET y == [Idle EXCEPT !.pc = "bcast", !.i = n] IN
              y \in SysRecord /\ y.pc = "bcast" /\ y.i = n /\ y.to = NoPhone
  BY DEF Idle, SysRecord

\* After one recipient.
LEMMA OnwardType ==
  ASSUME sys \in SysRecord
  PROVE  /\ Onward \in SysRecord /\ Onward.to = NoPhone
         /\ \/ sys.i = 0 /\ Onward.pc = "idle"
            \/ sys.i # 0 /\ Onward.pc = "bcast" /\ Onward.i = sys.i + 1 /\ Onward.i >= 1
<1>1. sys.i \in Nat /\ sys.i + 1 \in Nat /\ sys.i + 1 >= 1
  BY DEF SysRecord
<1>2. CASE sys.i = 0
  BY <1>1, <1>2, IdleType DEF Onward
<1>3. CASE sys.i # 0
  <2>1. Onward = [Idle EXCEPT !.pc = "bcast", !.i = sys.i + 1]
    BY <1>3 DEF Onward
  <2>2. /\ Onward \in SysRecord /\ Onward.to = NoPhone
        /\ Onward.pc = "bcast" /\ Onward.i = sys.i + 1
    BY <1>1, <2>1, IdleType
  <2>3. QED
    BY <1>1, <1>3, <2>2
<1>4. QED
  BY <1>2, <1>3

\* The work queue's thread moves to a step that it has the connection or slot for.
LEMMA SysTypeNext ==
  ASSUME BleType,
         \/ \E f \in Frames : FrameArrives(f)
         \/ Broadcast \/ EnqueueFind \/ EnqueueLocked \/ notify_fromnum
         \/ \E s \in Slot : TeardownRuns(s)
         \/ TeardownLocked \/ TeardownDrop
  PROVE  SysType'
<1>0. /\ sys \in SysRecord /\ armed \subseteq Slot /\ queued \subseteq Slot
      /\ conns \in [Slot -> SlotRecord]
      /\ sys.pc \in {"lock", "teardown"} => sys.slot \in Slot
      /\ sys.pc \in {"find", "lock", "ring", "drop"} => sys.conn \in Conn
      /\ 1 \in Nat /\ (sys.pc = "bcast" => sys.i >= 1)
  BY DEF BleType, SysType, SlotType
<1>1. \A s \in Slot : conns[s].conn \in Conn \cup {NoConn}
  BY <1>0 DEF SlotRecord
<1> USE DEF SysType, SysRecord
<1>2. ASSUME NEW f \in Frames, FrameArrives(f) PROVE SysType'
  <2> DEFINE c == get_conn_by_proxy_id(Addressee(proto_decode_fromradio(f.msg)[2]))
  <2>1. c \in Conn \cup {NoConn}
    BY <1>1, RegisteredConn
  <2>2. f.for \in Phone \cup {NoPhone}
    BY FramesAssumption
  <2>3. /\ UNCHANGED <<armed, queued>>
        /\ sys' = IF c = NoConn THEN [Idle EXCEPT !.pc = "bcast", !.i = 1]
                  ELSE [Idle EXCEPT !.pc = "find", !.conn = c, !.to = f.for]
    BY <1>2 DEF FrameArrives
  <2> HIDE DEF c
  <2>4. CASE c = NoConn
    <3>1. sys' = [Idle EXCEPT !.pc = "bcast", !.i = 1]
      BY <2>3, <2>4
    <3>2. sys' \in SysRecord /\ sys'.pc = "bcast" /\ sys'.i = 1
      BY <1>0, <3>1, IdleType
    <3>3. QED
      BY <1>0, <2>3, <3>2
  <2>5. CASE c # NoConn
    BY <1>0, <2>1, <2>2, <2>3, <2>5 DEF Idle
  <2>6. QED
    BY <2>4, <2>5
<1>3. CASE Broadcast
  <2>1. UNCHANGED <<armed, queued>> /\ sys.pc = "bcast"
    BY <1>3 DEF Broadcast, SysOnly
  <2>2. CASE sys' = Idle
    BY <1>0, <2>1, <2>2, IdleType
  <2>3. CASE sys' = Onward
    BY <1>0, <2>1, <2>3, OnwardType
  <2>4. CASE /\ ~ (sys.i > NSlots) /\ conns[sys.i].conn # NoConn
             /\ sys' = [sys EXCEPT !.pc = "find", !.conn = conns[sys.i].conn]
    <3>1. sys.i \in Slot
      BY <1>0, <2>1, <2>4, BleConstants DEF Slot
    <3>2. QED
      BY <1>0, <1>1, <2>1, <2>4, <3>1
  <2>5. QED
    BY <1>0, <1>3, <2>2, <2>3, <2>4, BleConstants DEF Broadcast
<1>4. CASE EnqueueFind
  <2>1. UNCHANGED <<armed, queued>> /\ sys.pc = "find"
    BY <1>4 DEF EnqueueFind, SysOnly
  <2>2. CASE sys' = Onward
    BY <1>0, <2>1, <2>2, OnwardType
  <2>3. CASE find_slot(sys.conn) # 0 /\ sys' = [sys EXCEPT !.pc = "lock", !.slot = find_slot(sys.conn)]
    BY <1>0, <2>1, <2>3, FindSlot
  <2>4. QED
    BY <1>4, <2>2, <2>3 DEF EnqueueFind
<1>5. CASE EnqueueLocked
  <2>1. UNCHANGED <<armed, queued>> /\ sys.pc = "lock"
    BY <1>5 DEF EnqueueLocked
  <2>2. CASE sys' = Onward
    BY <1>0, <2>1, <2>2, OnwardType
  <2>3. CASE sys' = [sys EXCEPT !.pc = "ring"]
    BY <1>0, <2>1, <2>3
  <2>4. QED
    BY <1>5, <2>2, <2>3 DEF EnqueueLocked
<1>6. CASE notify_fromnum
  <2>1. UNCHANGED <<armed, queued>> /\ sys' = Onward
    BY <1>6 DEF notify_fromnum
  <2>2. QED
    BY <1>0, <2>1, OnwardType
<1>7. ASSUME NEW s \in Slot, TeardownRuns(s) PROVE SysType'
  BY <1>0, <1>7 DEF TeardownRuns, Idle
<1>8. CASE TeardownLocked
  <2>1. UNCHANGED <<armed, queued>> /\ sys.pc = "teardown" /\ sys.slot \in Slot
    BY <1>0, <1>8 DEF TeardownLocked, SysOnly
  <2>2. CASE sys' = Idle
    BY <1>0, <2>1, <2>2, IdleType
  <2>3. CASE TeardownTarget(sys.slot) # NoConn /\ sys' = [sys EXCEPT !.pc = "drop", !.conn = TeardownTarget(sys.slot)]
    <3>1. TeardownTarget(sys.slot) \in Conn
      BY <1>1, <2>1, <2>3 DEF TeardownTarget
    <3>2. QED
      BY <1>0, <2>1, <2>3, <3>1
  <2>4. QED
    BY <1>8, <2>2, <2>3 DEF TeardownLocked
<1>9. CASE TeardownDrop
  BY <1>0, <1>9, IdleType DEF TeardownDrop
<1>10. QED
  BY <1>2, <1>3, <1>4, <1>5, <1>6, <1>7, <1>8, <1>9

\* Ringing a doorbell, also one that is not heard, and owing a phone a frame.
LEMMA BellTypes ==
  ASSUME PhoneType, NEW c
  PROVE  /\ bt_gatt_notify(c) => bell' \in [Phone -> {"silent", "rung", "lost"}]
         /\ Owed(c) \in [Phone -> BOOLEAN]
<1>1. Rung(c) \in [Phone -> {"silent", "rung", "lost"}]
  BY DEF PhoneType, Rung
<1>2. Unheard(c) \in [Phone -> {"silent", "rung", "lost"}]
  BY DEF PhoneType, Unheard
<1>3. Owed(c) \in [Phone -> BOOLEAN]
  BY DEF PhoneType, Owed
<1>4. QED
  BY <1>1, <1>2, <1>3 DEF bt_gatt_notify

\* The end of a link.
LEMMA DownEffect ==
  ASSUME BleType, NEW c \in Conn, Down(c)
  PROVE  /\ link' = [link EXCEPT ![c] = "down"] /\ link' \in [Conn -> {"free", "up", "down"}]
         /\ bell' \in [Phone -> {"silent", "rung", "lost"}]
         /\ reading' \in [Phone -> BOOLEAN] /\ subscribed' \in [Phone -> BOOLEAN]
         /\ owed' \in [Phone -> BOOLEAN]
  BY DEF BleType, LinkType, PhoneType, Down

\* The work queue touches neither links nor phones.
LEMMA SysOnlyTypes ==
  ASSUME BleType, SysOnly
  PROVE  SlotType' /\ LinkType' /\ PhoneType'
  BY DEF BleType, SlotType, LinkType, PhoneType, SysOnly, phones

\* A queue entry that the work queue or a heartbeat makes.
LEMMA EntryType ==
  ASSUME NEW k \in EntryKind, NEW v \in Nat, NEW to \in Phone \cup {NoPhone}
  PROVE  /\ Entry(k, v, to) \in QEntry
         /\ Entry(k, v, to).kind = k /\ Entry(k, v, to).v = v /\ Entry(k, v, to).to = to
  BY DEF Entry, QEntry

\* Steps of the Bluetooth receive thread keep the types.
LEMMA TypeRx ==
  ASSUME BleType, LinkInv, CountInv, NEW p \in Phone,
         \/ \E c \in Conn : Connect(p, c)
         \/ Subscribe(p) \/ StartDrain(p) \/ fromradio_read(p)
         \/ \E n \in Nonces : replay_cached_burst(p, n)
         \/ \E id \in RegWrites(p) : register_proxy_id(p, id)
         \/ request_teardown(p) \/ reply_queuestatus(p)
  PROVE  BleType'
<1> USE DEF BleType
<1>1. ASSUME NEW c \in Conn, Connect(p, c) PROVE BleType'
  <2>1. UNCHANGED <<armed, queued, sys>>
    BY <1>1 DEF Connect
  <2>2. SysType'
    BY <2>1 DEF SysType
  <2>3. SlotType'
    BY <1>1, ConnectEffect
  <2>4. link' = [link EXCEPT ![c] = "up"] /\ active_conn_count' = active_conn_count + 1
        /\ advertising' \in {"on", "off", "failed"} /\ peer' = [peer EXCEPT ![c] = p]
    <3>1. peer' = [peer EXCEPT ![c] = p]
      BY <1>1 DEF Connect
    <3>2. QED
      BY <1>1, <3>1, ConnectLink
  <2>5. LinkType'
    BY <2>4 DEF LinkType
  <2>6. PhoneType'
    <3>1. /\ UNCHANGED <<bell, reading, subscribed, owed, msgs>>
          /\ asked' = [asked EXCEPT ![p] = "no"] /\ got' = [got EXCEPT ![p] = <<>>]
      BY <1>1 DEF Connect
    <3>2. QED
      BY <3>1 DEF PhoneType
  <2>7. QED
    BY <2>2, <2>3, <2>5, <2>6
<1>2. CASE Subscribe(p)
  <2>1. /\ UNCHANGED <<conns, active_conn_count, advertising, armed, queued, sys, link, peer>>
        /\ UNCHANGED <<bell, reading, asked, got, owed, msgs>>
        /\ subscribed' = [subscribed EXCEPT ![p] = TRUE]
    BY <1>2 DEF Subscribe, threads
  <2>2. SlotType' /\ SysType' /\ LinkType'
    BY <2>1 DEF SlotType, SysType, LinkType
  <2>3. PhoneType'
    BY <2>1 DEF PhoneType
  <2>4. QED
    BY <2>2, <2>3
<1>3. CASE StartDrain(p)
  <2>1. /\ UNCHANGED <<conns, active_conn_count, advertising, armed, queued, sys, link, peer>>
        /\ UNCHANGED <<subscribed, asked, got, owed, msgs>>
        /\ bell' = [bell EXCEPT ![p] = "silent"] /\ reading' = [reading EXCEPT ![p] = TRUE]
    BY <1>3 DEF StartDrain, threads
  <2>2. SlotType' /\ SysType' /\ LinkType'
    BY <2>1 DEF SlotType, SysType, LinkType
  <2>3. PhoneType'
    BY <2>1 DEF PhoneType
  <2>4. QED
    BY <2>2, <2>3
<1>4. CASE fromradio_read(p)
  <2>1. /\ UNCHANGED <<active_conn_count, advertising, armed, queued, sys, link, peer>>
        /\ UNCHANGED <<subscribed, asked, msgs>>
    BY <1>4 DEF fromradio_read
  <2>2. SysType' /\ LinkType'
    BY <2>1 DEF SysType, LinkType
  <2>3. PICK out \in Seq(QEntry), r \in SlotRecord :
          /\ SlotType' /\ got' = [got EXCEPT ![p] = @ \o out]
          /\ reading' = [reading EXCEPT ![p] = out # <<>>]
          /\ owed' = [owed EXCEPT ![p] = @ /\ (out # <<>> \/ r.queue # <<>>)]
          /\ bell' = IF bell[p] = "lost" /\ out = <<>> /\ r.queue = <<>>
                     THEN [bell EXCEPT ![p] = "silent"] ELSE bell
    BY <1>4, ReadEffect
  <2>4. got' \in [Phone -> Seq(QEntry)]
    <3>1. got[p] \in Seq(QEntry)
      BY DEF PhoneType
    <3>2. got[p] \o out \in Seq(QEntry)
      BY <3>1
    <3>3. QED
      BY <2>3, <3>2 DEF PhoneType
  <2>5. reading' \in [Phone -> BOOLEAN] /\ owed' \in [Phone -> BOOLEAN]
    BY <2>3 DEF PhoneType
  <2>6. bell' \in [Phone -> {"silent", "rung", "lost"}]
    BY <2>3 DEF PhoneType
  <2>7. PhoneType'
    BY <2>1, <2>4, <2>5, <2>6 DEF PhoneType
  <2>8. QED
    BY <2>2, <2>3, <2>7
<1>5. ASSUME NEW n \in Nonces, replay_cached_burst(p, n) PROVE BleType'
  <2>1. /\ UNCHANGED <<active_conn_count, advertising, armed, queued, sys, link, peer>>
        /\ UNCHANGED <<reading, subscribed, asked, msgs>>
        /\ got' = [got EXCEPT ![p] = <<>>]
        /\ bt_gatt_notify(ConnOf(p)) /\ owed' = Owed(ConnOf(p))
    BY <1>5 DEF replay_cached_burst, Write
  <2>2. SysType' /\ LinkType'
    BY <2>1 DEF SysType, LinkType
  <2>3. SlotType'
    BY <1>5, ReplayEffect
  <2>4. got' \in [Phone -> Seq(QEntry)]
    BY <2>1 DEF PhoneType
  <2>5. PhoneType'
    BY <2>1, <2>4, BellTypes DEF PhoneType
  <2>6. QED
    BY <2>2, <2>3, <2>5
<1>6. ASSUME NEW id \in RegWrites(p), register_proxy_id(p, id) PROVE BleType'
  <2>1. /\ UNCHANGED <<active_conn_count, advertising, armed, queued, sys, link, peer>>
        /\ UNCHANGED <<bell, reading, subscribed, asked, got, owed, msgs>>
    BY <1>6 DEF register_proxy_id, Write
  <2>2. SysType' /\ LinkType' /\ PhoneType'
    BY <2>1 DEF SysType, LinkType, PhoneType
  <2>3. SlotType'
    BY <1>6, RegisterEffect
  <2>4. QED
    BY <2>2, <2>3
<1>7. CASE request_teardown(p)
  <2>1. /\ UNCHANGED <<active_conn_count, advertising, queued, sys, link, peer>>
        /\ UNCHANGED <<bell, reading, subscribed, got, owed, msgs>>
        /\ asked' = [asked EXCEPT ![p] = "yes"]
    BY <1>7 DEF request_teardown, Write
  <2>2. PICK s \in Slot : SlotType' /\ armed' = armed \cup {s}
    BY <1>7, TeardownEffect
  <2>3. SysType' /\ LinkType'
    BY <2>1, <2>2 DEF SysType, LinkType
  <2>4. PhoneType'
    BY <2>1 DEF PhoneType
  <2>5. QED
    BY <2>2, <2>3, <2>4
<1>8. CASE reply_queuestatus(p)
  <2> DEFINE s == find_slot(ConnOf(p))
             e == Entry(proto_encode_queue_status.variant, 0, NoPhone)
  <2>1. /\ UNCHANGED <<active_conn_count, advertising, armed, queued, sys, link, peer>>
        /\ UNCHANGED <<reading, subscribed, asked, got, msgs>>
        /\ Push(s, e) /\ (bt_gatt_notify(ConnOf(p)) \/ UNCHANGED bell)
        /\ owed' = Owed(ConnOf(p)) \/ UNCHANGED owed
    BY <1>8 DEF reply_queuestatus, Write
  <2>2. SysType' /\ LinkType'
    BY <2>1 DEF SysType, LinkType
  <2>3. s \in Slot
    BY <1>8, SlotOfPhone DEF reply_queuestatus, Write
  <2>4. e \in QEntry
    <3>1. proto_encode_queue_status.variant = "queueStatus" /\ 0 \in Nat
      BY DEF proto_encode_queue_status, FromRadio
    <3>2. QED
      BY <3>1, EntryType DEF EntryKind
  <2> HIDE DEF s, e
  <2>5. SlotType'
    BY <2>1, <2>3, <2>4, PushEffect
  <2>6. PhoneType'
    BY <2>1, BellTypes DEF PhoneType
  <2>7. QED
    BY <2>2, <2>5, <2>6
<1>9. QED
  BY <1>1, <1>2, <1>3, <1>4, <1>5, <1>6, <1>7, <1>8

\* Steps of the links and of the work queue's thread keep the types.
LEMMA TypeSys ==
  ASSUME BleType, LinkInv,
         \/ ConnectFails
         \/ \E c \in Conn : LinkLost(c) \/ Disconnected(c)
         \/ \E f \in Frames : FrameArrives(f)
         \/ Broadcast \/ EnqueueFind \/ EnqueueLocked \/ notify_fromnum
         \/ \E s \in Slot : TeardownExpires(s) \/ TeardownRuns(s)
         \/ TeardownLocked \/ TeardownDrop
  PROVE  BleType'
<1>1. ASSUME NEW c \in Conn, LinkLost(c) PROVE BleType'
  <2>1. /\ UNCHANGED <<conns, active_conn_count, advertising, armed, queued, sys, peer>>
        /\ UNCHANGED <<asked, got, msgs>> /\ Down(c)
    BY <1>1 DEF LinkLost, threads
  <2>2. SlotType' /\ SysType'
    BY <2>1 DEF BleType, SlotType, SysType
  <2>3. LinkType' /\ PhoneType'
    BY <2>1, DownEffect DEF BleType, LinkType, PhoneType
  <2>4. QED
    BY <2>2, <2>3 DEF BleType
<1>2. ASSUME NEW c \in Conn, Disconnected(c) PROVE BleType'
  <2>1. /\ UNCHANGED <<sys, peer, msgs>>
        /\ UNCHANGED <<bell, reading, subscribed, asked, got, owed>>
    BY <1>2 DEF Disconnected, phones
  <2>2. /\ link' = [link EXCEPT ![c] = "free"] /\ active_conn_count' = active_conn_count - 1
        /\ advertising' \in {"on", "failed"} /\ SlotType'
        /\ armed' \subseteq armed /\ queued' \subseteq queued
    BY <1>2, DisconnectEffect
  <2>3. SysType'
    BY <2>1, <2>2 DEF BleType, SysType
  <2>4. LinkType'
    BY <2>1, <2>2 DEF BleType, LinkType
  <2>5. PhoneType'
    BY <2>1 DEF BleType, PhoneType
  <2>6. QED
    BY <2>2, <2>3, <2>4, <2>5 DEF BleType
<1>3. ASSUME NEW f \in Frames, FrameArrives(f) PROVE BleType'
  <2>1. /\ UNCHANGED <<conns, active_conn_count, advertising, link, peer>>
        /\ UNCHANGED <<bell, reading, subscribed, asked, got, owed>> /\ msgs' = msgs + 1
    BY <1>3 DEF FrameArrives, phones
  <2>2. SlotType' /\ LinkType'
    BY <2>1 DEF BleType, SlotType, LinkType
  <2>3. PhoneType'
    BY <2>1 DEF BleType, PhoneType
  <2>4. QED
    BY <1>3, <2>2, <2>3, SysTypeNext DEF BleType
<1>4. CASE Broadcast \/ EnqueueFind \/ TeardownLocked
  <2>1. SysOnly
    BY <1>4 DEF Broadcast, EnqueueFind, TeardownLocked
  <2>2. QED
    BY <1>4, <2>1, SysOnlyTypes, SysTypeNext DEF BleType
<1>5. CASE EnqueueLocked
  <2>1. /\ UNCHANGED <<active_conn_count, advertising, link, peer>>
        /\ UNCHANGED <<bell, reading, subscribed, asked, got, msgs>>
        /\ Push(sys.slot, Entry("live", msgs, sys.to))
        /\ owed' = Owed(conns[sys.slot].conn) \/ UNCHANGED owed
        /\ sys.pc = "lock"
    BY <1>5 DEF EnqueueLocked
  <2>2. sys.slot \in Slot /\ sys.to \in Phone \cup {NoPhone} /\ msgs \in Nat
    BY <2>1 DEF BleType, SysType, SysRecord, PhoneType
  <2>3. Entry("live", msgs, sys.to) \in QEntry
    BY <2>2, EntryType DEF EntryKind
  <2>4. SlotType'
    BY <2>1, <2>2, <2>3, PushEffect DEF BleType
  <2>5. LinkType'
    BY <2>1 DEF BleType, LinkType
  <2>6. PhoneType'
    BY <2>1, BellTypes DEF BleType, PhoneType
  <2>7. QED
    BY <1>5, <2>4, <2>5, <2>6, SysTypeNext DEF BleType
<1>6. CASE notify_fromnum
  <2>1. /\ UNCHANGED <<conns, active_conn_count, advertising, link, peer>>
        /\ UNCHANGED <<reading, subscribed, asked, got, owed, msgs>> /\ bt_gatt_notify(sys.conn)
    BY <1>6 DEF notify_fromnum
  <2>2. SlotType' /\ LinkType'
    BY <2>1 DEF BleType, SlotType, LinkType
  <2>3. PhoneType'
    BY <2>1, BellTypes DEF BleType, PhoneType
  <2>4. QED
    BY <1>6, <2>2, <2>3, SysTypeNext DEF BleType
<1>7. ASSUME NEW s \in Slot, TeardownExpires(s) \/ TeardownRuns(s) PROVE BleType'
  <2>1. /\ UNCHANGED <<conns, active_conn_count, advertising, link, peer>>
        /\ UNCHANGED <<bell, reading, subscribed, asked, got, owed, msgs>>
    BY <1>7 DEF TeardownExpires, TeardownRuns, phones
  <2>2. SlotType' /\ LinkType' /\ PhoneType'
    BY <2>1 DEF BleType, SlotType, LinkType, PhoneType
  <2>3. CASE TeardownExpires(s)
    <3>1. SysType'
      BY <2>3 DEF TeardownExpires, BleType, SysType
    <3>2. QED
      BY <2>2, <3>1 DEF BleType
  <2>4. CASE TeardownRuns(s)
    BY <2>2, <2>4, SysTypeNext DEF BleType
  <2>5. QED
    BY <1>7, <2>3, <2>4
<1>8. CASE TeardownDrop
  <2>1. /\ UNCHANGED <<conns, active_conn_count, advertising, peer, got, msgs>>
        /\ sys.pc = "drop"
    BY <1>8 DEF TeardownDrop
  <2>2. SlotType' /\ sys.conn \in Conn
    BY <2>1 DEF BleType, SlotType, SysType
  <2>3. LinkType' /\ PhoneType'
    <3>1. \/ Down(sys.conn) /\ UNCHANGED asked
          \/ UNCHANGED <<link, bell, reading, subscribed, asked, owed>>
          \/ /\ asked' = [asked EXCEPT ![peer[sys.conn]] = "failed"]
             /\ UNCHANGED <<link, bell, reading, subscribed, owed>>
      BY <1>8 DEF TeardownDrop
    <3>2. CASE Down(sys.conn) /\ UNCHANGED asked
      BY <2>1, <2>2, <3>2, DownEffect DEF BleType, LinkType, PhoneType
    <3>3. CASE UNCHANGED <<link, bell, reading, subscribed, asked, owed>>
      BY <2>1, <3>3 DEF BleType, LinkType, PhoneType
    <3>4. CASE /\ asked' = [asked EXCEPT ![peer[sys.conn]] = "failed"]
               /\ UNCHANGED <<link, bell, reading, subscribed, owed>>
      BY <2>1, <3>4 DEF BleType, LinkType, PhoneType
    <3>5. QED
      BY <3>1, <3>2, <3>3, <3>4
  <2>4. QED
    BY <1>8, <2>2, <2>3, SysTypeNext DEF BleType
<1>a. CASE ConnectFails
  <2>1. /\ UNCHANGED <<conns, active_conn_count, armed, queued, sys, link, peer, msgs>>
        /\ UNCHANGED <<bell, reading, subscribed, asked, got, owed>> /\ advertising' = "failed"
    BY <1>a DEF ConnectFails, phones
  <2>2. QED
    BY <2>1 DEF BleType, SlotType, SysType, LinkType, PhoneType
<1>9. QED
  BY <1>1, <1>2, <1>3, <1>4, <1>5, <1>6, <1>7, <1>8, <1>a

\* The types at boot.
LEMMA TypeInit == Init => BleType
<1> SUFFICES ASSUME Init PROVE BleType
  OBVIOUS
<1>1. FreeSlot \in SlotRecord /\ FreeSlot.queue = <<>> /\ FreeSlot.staged = <<>>
  <2>1. <<>> \in Seq(QEntry) /\ 0 \in 0 .. FrameCount + 1
    BY BleConstants
  <2>2. FromRadio("none", 0) \in CcFrame
    BY DEF FromRadio, CcFrame
  <2>3. QED
    BY <2>1, <2>2 DEF FreeSlot, SlotRecord
<1>2. SlotType
  <2>1. conns = [s \in Slot |-> FreeSlot]
    BY DEF Init
  <2>2. Len(FreeSlot.queue) = 0 /\ Len(FreeSlot.staged) = 0
    BY <1>1
  <2>3. QED
    BY <1>1, <2>1, <2>2, BleConstants DEF SlotType
<1>3. SysType
  <2>1. sys = Idle /\ armed = {} /\ queued = {} /\ 0 \in Nat
    BY DEF Init
  <2>2. QED
    BY <2>1, IdleType DEF SysType
<1>4. LinkType
  BY DEF Init, LinkType
<1>5. PhoneType
  <2>1. got \in [Phone -> Seq(QEntry)]
    BY DEF Init
  <2>2. QED
    BY <2>1 DEF Init, PhoneType
<1>6. QED
  BY <1>2, <1>3, <1>4, <1>5 DEF BleType

----------------------------------------------------------------------------
(* Slots, links and the counter *)

\* Connections stay where they are in the slots.
ConnsKept == \A s \in Slot : conns'[s].conn = conns[s].conn

\* A slot that keeps its connection, while the others stay as they are.
LEMMA OneSlotKept ==
  ASSUME NEW s \in Slot, Others(s), conns'[s].conn = conns[s].conn,
         conns'[s].leaving = conns[s].leaving
  PROVE  ConnsKept /\ \A t \in Slot : conns'[t].leaving = conns[t].leaving
  BY DEF Others, ConnsKept

\* Nothing that has to do with links changes.
LEMMA LinksKept ==
  ASSUME LinkInv, CountInv, ConnsKept,
         UNCHANGED <<link, peer, active_conn_count, advertising>>
  PROVE  LinkInv' /\ CountInv'
<1>1. Held' = Held
  BY DEF Held, ConnsKept
<1>2. \A s \in Held : s \in Slot
  BY DEF Held
<1>3. LinkInv'
  BY <1>1, <1>2 DEF LinkInv, ConnsKept
<1>4. CountInv'
  BY <1>1 DEF CountInv
<1>5. QED
  BY <1>3, <1>4

\* A link that is up goes down.
LEMMA LinksDown ==
  ASSUME BleType, LinkInv, CountInv, UNCHANGED <<conns, peer, active_conn_count, advertising>>,
         NEW c \in Conn, link[c] = "up", link' = [link EXCEPT ![c] = "down"]
  PROVE  LinkInv' /\ CountInv'
<1>1. Held' = Held /\ \A s \in Held : s \in Slot /\ conns[s].conn \in Conn
  BY DEF Held, BleType, SlotType, SlotRecord
<1>2. \A d \in Conn : link'[d] = IF d = c THEN "down" ELSE link[d]
  BY DEF BleType, LinkType
<1>3. LinkInv'
  BY <1>1, <1>2 DEF LinkInv
<1>4. CountInv'
  BY <1>1 DEF CountInv
<1>5. QED
  BY <1>3, <1>4

\* A phone connects.
LEMMA LinksConnect ==
  ASSUME BleType, LinkInv, CountInv, NEW p \in Phone, NEW c \in Conn, Connect(p, c)
  PROVE  LinkInv' /\ CountInv'
<1>1. PICK s \in Slot : Others(s) /\ conns[s].conn = NoConn /\ conns'[s].conn = c
  BY ConnectEffect
<1>2. /\ link[c] = "free" /\ \A t \in Slot : conns[t].conn # c
      /\ link' = [link EXCEPT ![c] = "up"] /\ active_conn_count' = active_conn_count + 1
      /\ active_conn_count + 1 < NSlots => advertising' \in {"on", "failed"}
      /\ ~ (active_conn_count + 1 < NSlots) => advertising' = "off"
  BY ConnectLink
<1>3. peer' = [peer EXCEPT ![c] = p] /\ ~ Connected(p)
  BY DEF Connect
<1>4. c # NoConn /\ \A d \in Conn : d # NoConn
  BY BleConstants DEF Conn, NoConn
<1>5. Held' = Held \cup {s} /\ s \notin Held
  BY <1>1, <1>4 DEF Held, Others
<1>6. /\ \A d \in Conn : link'[d] = IF d = c THEN "up" ELSE link[d]
      /\ \A d \in Conn : peer'[d] = IF d = c THEN p ELSE peer[d]
      /\ \A t \in Held : t \in Slot /\ conns[t].conn \in Conn /\ t # s
  BY <1>2, <1>3, <1>5 DEF Held, BleType, SlotType, SlotRecord, LinkType
<1>7. \A d \in Conn : ~ (link[d] = "up" /\ peer[d] = p)
  BY <1>3, <1>4 DEF Connected, Up
<1>8. LinkInv'
  <2>1. \A d \in Conn : link'[d] # "free" =>
          peer'[d] \in Phone /\ \E t \in Slot : conns'[t].conn = d
    <3> SUFFICES ASSUME NEW d \in Conn, link'[d] # "free"
                 PROVE  peer'[d] \in Phone /\ \E t \in Slot : conns'[t].conn = d
      OBVIOUS
    <3>1. CASE d = c
      BY <1>1, <1>6, <3>1
    <3>2. CASE d # c
      <4>1. peer[d] \in Phone /\ peer'[d] = peer[d]
        BY <1>6, <3>2 DEF LinkInv
      <4>2. PICK t \in Slot : conns[t].conn = d
        BY <1>6, <3>2 DEF LinkInv
      <4>3. t # s
        BY <1>1, <1>4, <4>2
      <4>4. conns'[t].conn = d
        BY <1>1, <4>2, <4>3 DEF Others
      <4>5. QED
        BY <4>1, <4>4
    <3>3. QED
      BY <3>1, <3>2
  <2>2. \A d, e \in Conn : link'[d] = "up" /\ link'[e] = "up" /\ peer'[d] = peer'[e] => d = e
    BY <1>6, <1>7 DEF LinkInv
  <2>3. \A t, u \in Held' : conns'[t].conn = conns'[u].conn => t = u
    BY <1>1, <1>2, <1>5, <1>6 DEF LinkInv, Others
  <2>4. \A t \in Held' : link'[conns'[t].conn] # "free"
    BY <1>1, <1>5, <1>6 DEF LinkInv, Others
  <2>5. QED
    BY <2>1, <2>2, <2>3, <2>4 DEF LinkInv
<1>9. CountInv'
  <2>1. IsFiniteSet(Held)
    BY HeldFinite
  <2>2. Cardinality(Held') = Cardinality(Held) + 1
    BY <1>5, <2>1, FS_AddElement
  <2>3. QED
    BY <1>2, <2>2 DEF CountInv
<1>10. QED
  BY <1>8, <1>9

\* A slot is left.
LEMMA LinksDisconnect ==
  ASSUME BleType, LinkInv, CountInv, NEW c \in Conn, Disconnected(c)
  PROVE  LinkInv' /\ CountInv'
<1>1. PICK s \in Slot : Others(s) /\ conns[s].conn = c /\ conns'[s].conn = NoConn
  BY DisconnectEffect
<1>2. /\ link' = [link EXCEPT ![c] = "free"] /\ active_conn_count' = active_conn_count - 1
      /\ advertising' \in {"on", "failed"}
  BY DisconnectEffect
<1>3. peer' = peer
  BY DEF Disconnected
<1>4. \A d \in Conn : d # NoConn
  BY BleConstants DEF Conn, NoConn
<1>5. Held' = Held \ {s} /\ s \in Held
  BY <1>1, <1>4 DEF Held, Others
<1>6. /\ \A d \in Conn : link'[d] = IF d = c THEN "free" ELSE link[d]
      /\ \A t \in Held : t \in Slot /\ conns[t].conn \in Conn
  BY <1>2 DEF Held, BleType, SlotType, SlotRecord, LinkType
<1>7. LinkInv'
  <2>1. \A d \in Conn : link'[d] # "free" =>
          peer'[d] \in Phone /\ \E t \in Slot : conns'[t].conn = d
    <3> SUFFICES ASSUME NEW d \in Conn, link'[d] # "free"
                 PROVE  peer'[d] \in Phone /\ \E t \in Slot : conns'[t].conn = d
      OBVIOUS
    <3>1. d # c /\ link[d] # "free"
      BY <1>6
    <3>2. peer[d] \in Phone
      BY <3>1 DEF LinkInv
    <3>3. PICK t \in Slot : conns[t].conn = d
      BY <3>1 DEF LinkInv
    <3>4. conns'[t].conn = d
      BY <1>1, <3>1, <3>3 DEF Others
    <3>5. QED
      BY <1>3, <3>2, <3>4
  <2>2. \A d, e \in Conn : link'[d] = "up" /\ link'[e] = "up" /\ peer'[d] = peer'[e] => d = e
    BY <1>3, <1>6 DEF LinkInv
  <2>3. \A t, u \in Held' : conns'[t].conn = conns'[u].conn => t = u
    BY <1>1, <1>5, <1>6 DEF LinkInv, Others
  <2>4. \A t \in Held' : link'[conns'[t].conn] # "free"
    <3> SUFFICES ASSUME NEW t \in Held' PROVE link'[conns'[t].conn] # "free"
      OBVIOUS
    <3>1. t \in Held /\ t # s /\ conns'[t] = conns[t]
      BY <1>1, <1>5, <1>6 DEF Others
    <3>2. conns[t].conn # c
      BY <1>1, <1>5, <3>1 DEF LinkInv
    <3>3. QED
      BY <1>6, <3>1, <3>2 DEF LinkInv
  <2>5. QED
    BY <2>1, <2>2, <2>3, <2>4 DEF LinkInv
<1>8. CountInv'
  <2>1. IsFiniteSet(Held) /\ Cardinality(Held) \in Nat /\ Cardinality(Held) <= NSlots
    <3>1. Cardinality(Held) <= Cardinality(Slot)
      BY HeldFinite, FS_Subset
    <3>2. QED
      BY <3>1, HeldFinite, FS_CardinalityType
  <2>2. Cardinality(Held') = Cardinality(Held) - 1
    BY <1>5, <2>1, FS_RemoveElement
  <2>3. QED
    BY <1>2, <2>1, <2>2, BleConstants DEF CountInv
<1>9. QED
  BY <1>7, <1>8

\* Marks, links and what phones asked for stay, and the work queue is not about
\* to drop a link that it was not going to drop before.
LEMMA LeaveKept ==
  ASSUME LeaveInv, ConnsKept, \A s \in Slot : conns'[s].leaving = conns[s].leaving,
         UNCHANGED <<link, peer, asked>>, sys' = sys \/ sys'.pc # "drop"
  PROVE  LeaveInv'
<1>1. Held' = Held /\ \A s \in Held : s \in Slot
  BY DEF Held, ConnsKept
<1>2. LeavingIsTrue'
  BY <1>1 DEF LeaveInv, LeavingIsTrue, ConnsKept
<1>3. sys'.pc = "drop" => sys' = sys
  OBVIOUS
<1>4. QED
  BY <1>2, <1>3 DEF LeaveInv

\* A slot's connection is one of the pool.
LEMMA HeldConn ==
  ASSUME BleType, NEW s \in Held
  PROVE  s \in Slot /\ conns[s].conn \in Conn /\ conns[s].conn # NoConn
  BY DEF Held, BleType, SlotType, SlotRecord

\* A link that breaks makes no phone a leaver.
LEMMA LeaveDown ==
  ASSUME BleType, LeaveInv, UNCHANGED <<conns, peer, asked>>,
         NEW c \in Conn, link' = [link EXCEPT ![c] = "down"],
         sys' = sys \/ sys'.pc # "drop"
  PROVE  LeaveInv'
<1>1. Held' = Held
  BY DEF Held
<1>2. \A d \in Conn : link'[d] = "up" => link[d] = "up"
  BY DEF BleType, LinkType
<1>3. LeavingIsTrue'
  <2> SUFFICES ASSUME NEW s \in Held, link'[conns[s].conn] = "up"
               PROVE  conns[s].leaving <=> asked[peer[conns[s].conn]] # "no"
    BY <1>1 DEF LeavingIsTrue
  <2>1. link[conns[s].conn] = "up"
    BY <1>2, HeldConn
  <2>2. QED
    BY <2>1 DEF LeaveInv, LeavingIsTrue
<1>4. sys'.pc = "drop" /\ link'[sys'.conn] = "up" => asked'[peer'[sys'.conn]] # "no"
  <2> SUFFICES ASSUME sys'.pc = "drop", link'[sys'.conn] = "up"
               PROVE  asked[peer[sys.conn]] # "no"
    OBVIOUS
  <2>1. sys' = sys /\ sys.conn \in Conn
    BY DEF BleType, SysType
  <2>2. link[sys.conn] = "up"
    BY <1>2, <2>1
  <2>3. QED
    BY <2>1, <2>2 DEF LeaveInv
<1>5. QED
  BY <1>3, <1>4 DEF LeaveInv

\* A newcomer's slot is not marked, and no pending drop is aimed at its connection.
LEMMA LeaveConnect ==
  ASSUME BleType, LinkInv, CountInv, LeaveInv, NEW p \in Phone, NEW c \in Conn, Connect(p, c)
  PROVE  LeaveInv'
<1>1. PICK s \in Slot : /\ Others(s) /\ conns[s].conn = NoConn /\ conns'[s].conn = c
                        /\ conns'[s].leaving = FALSE
  BY ConnectEffect
<1>2. /\ \A t \in Slot : conns[t].conn # c
      /\ ~ (sys.pc = "drop" /\ sys.conn = c)
      /\ link' = [link EXCEPT ![c] = "up"]
  BY ConnectLink
<1>3. /\ peer' = [peer EXCEPT ![c] = p] /\ asked' = [asked EXCEPT ![p] = "no"]
      /\ ~ Connected(p) /\ sys' = sys
  BY DEF Connect
<1>4. \A d \in Conn : d # NoConn
  BY BleConstants DEF Conn, NoConn
<1>5. /\ link'[c] = "up" /\ peer'[c] = p /\ asked'[p] = "no"
      /\ \A d \in Conn : d # c => link'[d] = link[d] /\ peer'[d] = peer[d]
  BY <1>2, <1>3 DEF BleType, LinkType, PhoneType
<1>6. \A d \in Conn : d # c /\ link[d] = "up" => asked'[peer[d]] = asked[peer[d]]
  <2>1. \A d \in Conn : link[d] = "up" => peer[d] # p
    BY <1>3, <1>4 DEF Connected, Up
  <2>2. \A d \in Conn : link[d] = "up" => peer[d] \in Phone
    BY DEF LinkInv
  <2>3. QED
    BY <1>3, <2>1, <2>2 DEF BleType, PhoneType
<1>7. LeavingIsTrue'
  <2> SUFFICES ASSUME NEW t \in Held', link'[conns'[t].conn] = "up"
               PROVE  conns'[t].leaving <=> asked'[peer'[conns'[t].conn]] # "no"
    BY DEF LeavingIsTrue
  <2>1. CASE t = s
    BY <1>1, <1>5, <2>1
  <2>2. CASE t # s
    <3>1. t \in Held /\ conns'[t] = conns[t]
      BY <1>1, <2>2 DEF Held, Others
    <3>2. conns[t].conn \in Conn /\ conns[t].conn # c
      BY <1>2, <3>1, HeldConn
    <3>3. link[conns[t].conn] = "up"
      BY <1>5, <3>1, <3>2
    <3>4. conns[t].leaving <=> asked[peer[conns[t].conn]] # "no"
      BY <3>1, <3>3 DEF LeaveInv, LeavingIsTrue
    <3>5. QED
      BY <1>5, <1>6, <3>1, <3>2, <3>3, <3>4
  <2>3. QED
    BY <2>1, <2>2
<1>8. sys'.pc = "drop" /\ link'[sys'.conn] = "up" => asked'[peer'[sys'.conn]] # "no"
  <2> SUFFICES ASSUME sys.pc = "drop", link'[sys.conn] = "up"
               PROVE  asked'[peer'[sys.conn]] # "no"
    BY <1>3
  <2>1. sys.conn \in Conn /\ sys.conn # c
    BY <1>2 DEF BleType, SysType
  <2>2. link[sys.conn] = "up"
    BY <1>5, <2>1
  <2>3. asked[peer[sys.conn]] # "no"
    BY <2>2 DEF LeaveInv
  <2>4. QED
    BY <1>5, <1>6, <2>1, <2>2, <2>3
<1>9. QED
  BY <1>7, <1>8 DEF LeaveInv

\* A released slot takes its mark with it.
LEMMA LeaveDisconnect ==
  ASSUME BleType, LinkInv, LeaveInv, NEW c \in Conn, Disconnected(c)
  PROVE  LeaveInv'
<1>1. PICK s \in Slot : Others(s) /\ conns[s].conn = c /\ conns'[s].conn = NoConn
  BY DisconnectEffect
<1>2. link' = [link EXCEPT ![c] = "free"]
  BY DisconnectEffect
<1>3. UNCHANGED <<peer, asked, sys>>
  BY DEF Disconnected, phones
<1>4. \A d \in Conn : link'[d] = "up" => link[d] = "up"
  BY <1>2 DEF BleType, LinkType
<1>5. LeavingIsTrue'
  <2> SUFFICES ASSUME NEW t \in Held', link'[conns'[t].conn] = "up"
               PROVE  conns'[t].leaving <=> asked[peer[conns'[t].conn]] # "no"
    BY <1>3 DEF LeavingIsTrue
  <2>1. t \in Held /\ conns'[t] = conns[t]
    BY <1>1 DEF Held, Others
  <2>2. link[conns[t].conn] = "up"
    BY <1>4, <2>1, HeldConn
  <2>3. QED
    BY <2>1, <2>2 DEF LeaveInv, LeavingIsTrue
<1>6. sys'.pc = "drop" /\ link'[sys'.conn] = "up" => asked'[peer'[sys'.conn]] # "no"
  <2> SUFFICES ASSUME sys.pc = "drop", link'[sys.conn] = "up"
               PROVE  asked[peer[sys.conn]] # "no"
    BY <1>3
  <2>1. sys.conn \in Conn
    BY DEF BleType, SysType
  <2>2. QED
    BY <1>4, <2>1 DEF LeaveInv
<1>7. QED
  BY <1>5, <1>6 DEF LeaveInv

\* A phone says goodbye: its slot is marked, and no other.
LEMMA LeaveRequest ==
  ASSUME BleType, LinkInv, LeaveInv, NEW p \in Phone, request_teardown(p)
  PROVE  LeaveInv'
<1>1. PICK s \in Slot : /\ Others(s) /\ conns[s].conn = ConnOf(p)
                        /\ conns'[s].conn = conns[s].conn /\ conns'[s].leaving = TRUE
  BY TeardownEffect DEF BleType
<1>2. UNCHANGED <<link, peer, sys>> /\ asked' = [asked EXCEPT ![p] = "yes"] /\ Connected(p)
  BY DEF request_teardown, Write
<1>3. /\ ConnOf(p) \in Conn /\ ConnOf(p) # NoConn
      /\ link[ConnOf(p)] = "up" /\ peer[ConnOf(p)] = p
  BY <1>2, ConnOfPhone
<1>4. asked'[p] = "yes" /\ \A q \in Phone : q # p => asked'[q] = asked[q]
  BY <1>2 DEF BleType, PhoneType
<1>5. Held' = Held /\ s \in Held
  BY <1>1, <1>3 DEF Held, Others
<1>6. LeavingIsTrue'
  <2> SUFFICES ASSUME NEW t \in Held, link[conns'[t].conn] = "up"
               PROVE  conns'[t].leaving <=> asked'[peer[conns'[t].conn]] # "no"
    BY <1>2, <1>5 DEF LeavingIsTrue
  <2>1. CASE t = s
    BY <1>1, <1>3, <1>4, <2>1
  <2>2. CASE t # s
    <3>1. conns'[t] = conns[t] /\ conns[t].conn \in Conn
      BY <1>1, <2>2, HeldConn DEF Others
    <3>2. conns[t].conn # ConnOf(p)
      BY <1>1, <1>5, <2>2 DEF LinkInv
    <3>3. peer[conns[t].conn] \in Phone /\ peer[conns[t].conn] # p
      BY <1>3, <3>1, <3>2 DEF LinkInv
    <3>4. QED
      BY <1>4, <3>1, <3>3 DEF LeaveInv, LeavingIsTrue
  <2>3. QED
    BY <2>1, <2>2
<1>7. sys'.pc = "drop" /\ link'[sys'.conn] = "up" => asked'[peer'[sys'.conn]] # "no"
  <2> SUFFICES ASSUME sys.pc = "drop", link[sys.conn] = "up"
               PROVE  asked'[peer[sys.conn]] # "no"
    BY <1>2
  <2>1. sys.conn \in Conn
    BY DEF BleType, SysType
  <2>2. peer[sys.conn] \in Phone /\ asked[peer[sys.conn]] # "no"
    BY <2>1 DEF LinkInv, LeaveInv
  <2>3. QED
    BY <1>4, <2>2
<1>8. QED
  BY <1>6, <1>7 DEF LeaveInv

\* The handler is about to drop a link: whoever is at its end asked for it.
LEMMA LeaveLocked ==
  ASSUME BleType, LeaveInv, TeardownLocked
  PROVE  LeaveInv'
<1>1. /\ UNCHANGED <<conns, link, peer, asked>> /\ sys.pc = "teardown" /\ sys.slot \in Slot
      /\ sys \in SysRecord
  BY DEF TeardownLocked, SysOnly, phones, BleType, SysType
<1>2. CASE sys' = Idle
  <2>1. sys'.pc # "drop"
    BY <1>2 DEF Idle
  <2>2. QED
    BY <1>1, <2>1, LeaveKept DEF ConnsKept
<1>3. CASE /\ TeardownTarget(sys.slot) # NoConn
           /\ sys' = [sys EXCEPT !.pc = "drop", !.conn = TeardownTarget(sys.slot)]
  <2>1. conns[sys.slot].leaving /\ TeardownTarget(sys.slot) = conns[sys.slot].conn /\ sys.slot \in Held
    BY <1>1, <1>3 DEF TeardownTarget, Held
  <2>2. sys'.conn = conns[sys.slot].conn
    BY <1>1, <1>3, <2>1 DEF SysRecord
  <2>3. LeavingIsTrue'
    BY <1>1 DEF LeaveInv, LeavingIsTrue, Held
  <2>4. link[conns[sys.slot].conn] = "up" => asked[peer[conns[sys.slot].conn]] # "no"
    BY <2>1 DEF LeaveInv, LeavingIsTrue
  <2>5. QED
    BY <1>1, <2>2, <2>3, <2>4 DEF LeaveInv
<1>4. QED
  BY <1>2, <1>3 DEF TeardownLocked

\* The deferred teardown has dropped the link, or failed to.
LEMMA LeaveDrop ==
  ASSUME BleType, LinkInv, LeaveInv, TeardownDrop
  PROVE  LeaveInv'
<1>1. /\ UNCHANGED <<conns, peer>> /\ sys.pc = "drop" /\ sys.conn \in Conn
      /\ sys'.pc # "drop"
  BY DEF TeardownDrop, BleType, SysType, Idle
<1>2. CASE Down(sys.conn) /\ UNCHANGED asked
  BY <1>1, <1>2, DownEffect, LeaveDown
<1>3. CASE UNCHANGED <<link, asked>>
  BY <1>1, <1>3, LeaveKept DEF ConnsKept
<1>4. CASE /\ link[sys.conn] = "up" /\ UNCHANGED link
           /\ asked' = [asked EXCEPT ![peer[sys.conn]] = "failed"]
  <2>1. asked[peer[sys.conn]] # "no" /\ peer[sys.conn] \in Phone
    BY <1>1, <1>4 DEF LeaveInv, LinkInv
  <2>2. \A q \in Phone : asked'[q] # "no" <=> asked[q] # "no"
    BY <1>4, <2>1 DEF BleType, PhoneType
  <2>3. LeavingIsTrue'
    <3> SUFFICES ASSUME NEW t \in Held, link[conns[t].conn] = "up"
                 PROVE  conns[t].leaving <=> asked'[peer[conns[t].conn]] # "no"
      BY <1>1, <1>4 DEF LeavingIsTrue, Held
    <3>1. peer[conns[t].conn] \in Phone
      BY HeldConn DEF LinkInv
    <3>2. QED
      BY <2>2, <3>1 DEF LeaveInv, LeavingIsTrue
  <2>4. QED
    BY <1>1, <2>3 DEF LeaveInv
<1>5. QED
  BY <1>2, <1>3, <1>4 DEF TeardownDrop

\* Reads, writes other than a goodbye, frames and timers leave slots where they
\* are, with the marks they have, and every link as it is.
Settled ==
  /\ ConnsKept /\ \A s \in Slot : conns'[s].leaving = conns[s].leaving
  /\ UNCHANGED <<link, peer, active_conn_count, advertising, asked>>
  /\ sys' = sys \/ sys'.pc # "drop"

\* These handlers leave leaving marks, links and pending drops alone.
LEMMA SettledPhone ==
  ASSUME BleType, LinkInv, NEW p \in Phone,
         \/ Subscribe(p) \/ StartDrain(p) \/ fromradio_read(p)
         \/ \E n \in Nonces : replay_cached_burst(p, n)
         \/ \E id \in RegWrites(p) : register_proxy_id(p, id)
         \/ reply_queuestatus(p)
  PROVE  Settled
<1>0. SlotType
  BY DEF BleType
<1>1. CASE Subscribe(p) \/ StartDrain(p)
  BY <1>1 DEF Subscribe, StartDrain, threads, Settled, ConnsKept
<1>2. CASE fromradio_read(p)
  <2>1. PICK s \in Slot : /\ Others(s) /\ conns'[s].conn = conns[s].conn
                          /\ conns'[s].leaving = conns[s].leaving
    BY <1>0, <1>2, ReadEffect
  <2>2. QED
    BY <1>2, <2>1, OneSlotKept DEF fromradio_read, Settled
<1>3. ASSUME NEW n \in Nonces, replay_cached_burst(p, n) PROVE Settled
  <2>1. PICK s \in Slot : /\ Others(s) /\ conns'[s].conn = conns[s].conn
                          /\ conns'[s].leaving = conns[s].leaving
    BY <1>0, <1>3, ReplayEffect
  <2>2. QED
    BY <1>3, <2>1, OneSlotKept DEF replay_cached_burst, Write, Settled
<1>4. ASSUME NEW id \in RegWrites(p), register_proxy_id(p, id) PROVE Settled
  <2>1. PICK s \in Slot : /\ Others(s) /\ conns'[s].conn = conns[s].conn
                          /\ conns'[s].leaving = conns[s].leaving
    BY <1>0, <1>4, RegisterEffect
  <2>2. QED
    BY <1>4, <2>1, OneSlotKept DEF register_proxy_id, Write, Settled
<1>5. CASE reply_queuestatus(p)
  <2> DEFINE s == find_slot(ConnOf(p))
             e == Entry(proto_encode_queue_status.variant, 0, NoPhone)
  <2>1. s \in Slot
    BY <1>5, SlotOfPhone DEF reply_queuestatus, Write
  <2>2. e \in QEntry
    <3>1. proto_encode_queue_status.variant = "queueStatus" /\ 0 \in Nat
      BY DEF proto_encode_queue_status, FromRadio
    <3>2. QED
      BY <3>1, EntryType DEF EntryKind
  <2>3. Push(s, e) /\ UNCHANGED <<link, peer, active_conn_count, advertising, asked, sys>>
    BY <1>5 DEF reply_queuestatus, Write
  <2> HIDE DEF s, e
  <2>4. QED
    BY <1>0, <2>1, <2>2, <2>3, PushEffect, OneSlotKept DEF Settled
<1>6. QED
  BY <1>1, <1>2, <1>3, <1>4, <1>5

\* So do these steps of the work queue's thread.
LEMMA SettledSys ==
  ASSUME BleType,
         \/ \E f \in Frames : FrameArrives(f)
         \/ Broadcast \/ EnqueueFind \/ EnqueueLocked \/ notify_fromnum
         \/ \E s \in Slot : TeardownExpires(s) \/ TeardownRuns(s)
  PROVE  Settled
<1>0. sys \in SysRecord /\ Idle.pc # "drop" /\ Onward.pc # "drop"
  <2>1. sys \in SysRecord /\ 0 \in Nat
    BY DEF BleType, SysType
  <2>2. QED
    BY <2>1, IdleType, OnwardType
<1>1. ASSUME NEW f \in Frames, FrameArrives(f) PROVE Settled
  <2>1. sys'.pc \in {"bcast", "find"}
    BY <1>1 DEF FrameArrives, Idle
  <2>2. QED
    BY <1>1, <2>1 DEF FrameArrives, phones, Settled, ConnsKept
<1>2. CASE Broadcast \/ EnqueueFind
  <2>1. SysOnly /\ sys'.pc # "drop"
    BY <1>0, <1>2 DEF Broadcast, EnqueueFind, SysRecord
  <2>2. QED
    BY <2>1 DEF SysOnly, phones, Settled, ConnsKept
<1>3. CASE EnqueueLocked
  <2>1. sys'.pc # "drop" /\ UNCHANGED <<link, peer, active_conn_count, advertising, asked>>
    BY <1>0, <1>3 DEF EnqueueLocked, SysRecord
  <2>2. sys.slot \in Slot /\ sys.to \in Phone \cup {NoPhone} /\ msgs \in Nat
    BY <1>3 DEF EnqueueLocked, BleType, SysType, SysRecord, PhoneType
  <2>3. Entry("live", msgs, sys.to) \in QEntry
    BY <2>2, EntryType DEF EntryKind
  <2>4. Push(sys.slot, Entry("live", msgs, sys.to))
    BY <1>3 DEF EnqueueLocked
  <2>5. QED
    BY <2>1, <2>2, <2>3, <2>4, PushEffect, OneSlotKept DEF Settled, BleType
<1>4. CASE notify_fromnum
  BY <1>0, <1>4 DEF notify_fromnum, Settled, ConnsKept
<1>5. ASSUME NEW s \in Slot, TeardownExpires(s) \/ TeardownRuns(s) PROVE Settled
  BY <1>5 DEF TeardownExpires, TeardownRuns, phones, Settled, ConnsKept, Idle
<1>6. QED
  BY <1>1, <1>2, <1>3, <1>4, <1>5

\* All slots are free at boot.
LEMMA SlotInit == Init => SlotInv
<1> SUFFICES ASSUME Init PROVE SlotInv
  OBVIOUS
<1>1. Held = {}
  BY DEF Init, Held, FreeSlot
<1>2. LinkInv
  BY <1>1 DEF Init, LinkInv
<1>3. CountInv
  BY <1>1, FS_EmptySet, BleConstants DEF Init, CountInv
<1>4. LeaveInv
  BY <1>1 DEF Init, LeaveInv, LeavingIsTrue, Idle
<1>5. QED
  BY <1>2, <1>3, <1>4, TypeInit DEF SlotInv

\* Every step keeps the invariant of the slots.
LEMMA SlotNext == SlotInv /\ [Next]_vars => SlotInv'
<1> SUFFICES ASSUME SlotInv, [Next]_vars PROVE SlotInv'
  OBVIOUS
<1>0. BleType /\ LinkInv /\ CountInv /\ LeaveInv
  BY DEF SlotInv
<1>1. ASSUME BleType', Settled PROVE SlotInv'
  BY <1>0, <1>1, LinksKept, LeaveKept DEF Settled, SlotInv
<1>2. ASSUME NEW p \in Phone, NEW c \in Conn, Connect(p, c) PROVE SlotInv'
  BY <1>0, <1>2, TypeRx, LinksConnect, LeaveConnect DEF SlotInv
<1>3. ASSUME NEW c \in Conn, LinkLost(c) PROVE SlotInv'
  <2>1. /\ link[c] = "up" /\ Down(c)
        /\ UNCHANGED <<conns, peer, active_conn_count, advertising, asked, sys>>
    BY <1>3 DEF LinkLost, threads
  <2>2. link' = [link EXCEPT ![c] = "down"]
    BY <1>0, <2>1, DownEffect
  <2>3. LinkInv' /\ CountInv'
    BY <1>0, <2>1, <2>2, LinksDown
  <2>4. LeaveInv'
    BY <1>0, <2>1, <2>2, LeaveDown
  <2>5. QED
    BY <1>0, <1>3, <2>3, <2>4, TypeSys DEF SlotInv
<1>4. ASSUME NEW c \in Conn, Disconnected(c) PROVE SlotInv'
  BY <1>0, <1>4, TypeSys, LinksDisconnect, LeaveDisconnect DEF SlotInv
<1>5. ASSUME NEW p \in Phone,
             \/ Subscribe(p) \/ StartDrain(p) \/ fromradio_read(p)
             \/ \E n \in Nonces : replay_cached_burst(p, n)
             \/ \E id \in RegWrites(p) : register_proxy_id(p, id)
             \/ reply_queuestatus(p)
      PROVE  SlotInv'
  BY <1>0, <1>1, <1>5, TypeRx, SettledPhone
<1>6. ASSUME NEW p \in Phone, request_teardown(p) PROVE SlotInv'
  <2>1. PICK s \in Slot : Others(s) /\ conns'[s].conn = conns[s].conn
    BY <1>0, <1>6, TeardownEffect DEF BleType
  <2>2. ConnsKept /\ UNCHANGED <<link, peer, active_conn_count, advertising>>
    BY <1>6, <2>1 DEF Others, ConnsKept, request_teardown, Write
  <2>3. QED
    BY <1>0, <1>6, <2>2, TypeRx, LinksKept, LeaveRequest DEF SlotInv
<1>7. CASE \/ \E f \in Frames : FrameArrives(f)
           \/ Broadcast \/ EnqueueFind \/ EnqueueLocked \/ notify_fromnum
           \/ \E s \in Slot : TeardownExpires(s) \/ TeardownRuns(s)
  BY <1>0, <1>1, <1>7, TypeSys, SettledSys
<1>8. CASE TeardownLocked
  <2>1. UNCHANGED <<conns, link, peer, active_conn_count, advertising>>
    BY <1>8 DEF TeardownLocked, SysOnly
  <2>2. QED
    BY <1>0, <1>8, <2>1, TypeSys, LinksKept, LeaveLocked DEF ConnsKept, SlotInv
<1>9. CASE TeardownDrop
  <2>1. UNCHANGED <<conns, peer, active_conn_count, advertising>> /\ sys.conn \in Conn
    BY <1>0, <1>9 DEF TeardownDrop, BleType, SysType
  <2>2. LinkInv' /\ CountInv'
    <3>1. CASE link[sys.conn] = "up" /\ Down(sys.conn)
      <4>1. link' = [link EXCEPT ![sys.conn] = "down"]
        BY <3>1 DEF Down
      <4>2. QED
        BY <1>0, <2>1, <3>1, <4>1, LinksDown
    <3>2. CASE UNCHANGED link
      BY <1>0, <2>1, <3>2, LinksKept DEF ConnsKept
    <3>3. QED
      BY <1>9, <3>1, <3>2 DEF TeardownDrop
  <2>3. QED
    BY <1>0, <1>9, <2>2, TypeSys, LeaveDrop DEF SlotInv
<1>a. CASE ConnectFails
  <2>1. /\ UNCHANGED <<conns, active_conn_count, sys, link, peer, asked>>
        /\ advertising = "on" /\ advertising' = "failed"
    BY <1>a DEF ConnectFails, phones
  <2>2. LinkInv' /\ CountInv'
    BY <1>0, <2>1 DEF LinkInv, CountInv, Held
  <2>3. LeaveInv'
    BY <1>0, <2>1, LeaveKept DEF ConnsKept
  <2>4. QED
    BY <1>0, <1>a, <2>2, <2>3, TypeSys DEF SlotInv
<1>10. CASE UNCHANGED vars
  <2>1. BleType'
    BY <1>0, <1>10 DEF vars, BleType, SlotType, SysType, LinkType, PhoneType
  <2>2. Settled
    BY <1>10 DEF vars, Settled, ConnsKept
  <2>3. QED
    BY <1>1, <2>1, <2>2
<1>11. QED
  BY <1>2, <1>3, <1>4, <1>5, <1>6, <1>7, <1>8, <1>9, <1>10, <1>a DEF Next

\* SlotInv holds in every reachable state, for every number of slots and phones,
\* cooperative or preemptive threads, and whatever calls into the stack fail.
THEOREM SlotInvariant == Spec => []SlotInv
  BY SlotInit, SlotNext, PTL DEF Spec

\* Types, and the bound of every per-phone queue.
THEOREM BleTypes == Spec => []BleTypeOK
<1>1. SlotInv => BleTypeOK
  <2> SUFFICES ASSUME SlotInv PROVE BleTypeOK
    OBVIOUS
  <2>1. SlotType /\ SysType /\ LinkType
    BY DEF SlotInv, BleType
  <2>2. ASSUME NEW s \in Slot
        PROVE  LET pc == conns[s] IN
               /\ pc.conn \in Conn \cup {NoConn} /\ pc.leaving \in BOOLEAN
               /\ pc.proxy_id \in {ZeroId} \cup {IdOf(p) : p \in Phone}
               /\ pc.state \in {"CONNECTED", "REPLAYING", "ACTIVE"}
               /\ pc.nonce \in Nonces \cup {0} /\ pc.cc_frame.data \in Nonces \cup {0}
               /\ pc.replay_cursor \in 0 .. FrameCount + 1
               /\ Len(pc.staged) <= 1 /\ Len(pc.queue) <= QueueDepth
    <3>1. conns[s] \in SlotRecord
      BY <2>1 DEF SlotType
    <3>2. conns[s].cc_frame.data \in Nonces \cup {0}
      BY <3>1 DEF SlotRecord, CcFrame
    <3>3. QED
      BY <2>1, <3>1, <3>2 DEF SlotRecord, SlotType
  <2>3. sys.pc \in {"idle", "bcast", "find", "lock", "ring", "teardown", "drop"}
    BY <2>1 DEF SysType, SysRecord
  <2>4. QED
    BY <2>1, <2>2, <2>3 DEF BleTypeOK, SysType, LinkType
<1>2. QED
  BY <1>1, SlotInvariant, PTL

\* Slots, links, the counter and advertising agree.
THEOREM SlotsAgree == Spec => []SlotsMatchLinks
<1>1. SlotInv => SlotsMatchLinks
  <2> SUFFICES ASSUME SlotInv PROVE SlotsMatchLinks
    OBVIOUS
  <2>1. LinkInv /\ CountInv
    BY DEF SlotInv
  <2>2. \A c \in Conn : link[c] = "up" => \E s \in Held : conns[s].conn = c
    BY <2>1, BleConstants DEF LinkInv, Held, Conn, NoConn
  <2>3. QED
    BY <2>1, <2>2 DEF LinkInv, CountInv, SlotsMatchLinks
<1>2. QED
  BY <1>1, SlotInvariant, PTL

\* The leaving mark of a live slot is true of the phone that is in it now.
THEOREM MarksAreTrue == Spec => []LeavingIsTrue
<1>1. SlotInv => LeavingIsTrue
  BY DEF SlotInv, LeaveInv
<1>2. QED
  BY <1>1, SlotInvariant, PTL

\* The deferred teardown only ever drops the link of a phone that asked for it.
THEOREM NewcomersStay == Spec => NewcomerNeverDropped
<1>1. SlotInv /\ [Next]_vars =>
        [\A c \in Conn : link[c] = "up" /\ link'[c] = "down" /\ sys' # sys
           => asked[peer[c]] # "no"]_vars
  <2> SUFFICES ASSUME SlotInv, Next, NEW c \in Conn,
                      link[c] = "up", link'[c] = "down", sys' # sys
               PROVE  asked[peer[c]] # "no"
    BY DEF vars
  <2>0. BleType /\ LinkInv /\ CountInv /\ LeaveInv
    BY DEF SlotInv
  <2>1. ASSUME Settled PROVE FALSE
    BY <2>1 DEF Settled
  <2>2. ~ \E p \in Phone, d \in Conn : Connect(p, d)
    BY DEF Connect
  <2>3. ~ ConnectFails /\ ~ \E d \in Conn : LinkLost(d) \/ Disconnected(d)
    BY DEF ConnectFails, LinkLost, Disconnected, threads
  <2>4. ~ \E p \in Phone :
            \/ Subscribe(p) \/ StartDrain(p) \/ fromradio_read(p)
            \/ \E n \in Nonces : replay_cached_burst(p, n)
            \/ \E id \in RegWrites(p) : register_proxy_id(p, id)
            \/ reply_queuestatus(p)
    BY <2>0, <2>1, SettledPhone
  <2>5. ~ \E p \in Phone : request_teardown(p)
    BY DEF request_teardown, Write
  <2>6. ~ \/ \E f \in Frames : FrameArrives(f)
          \/ Broadcast \/ EnqueueFind \/ EnqueueLocked \/ notify_fromnum
          \/ \E s \in Slot : TeardownExpires(s) \/ TeardownRuns(s)
    BY <2>0, <2>1, SettledSys
  <2>7. ~ TeardownLocked
    BY DEF TeardownLocked, SysOnly
  <2>8. TeardownDrop
    BY <2>2, <2>3, <2>4, <2>5, <2>6, <2>7 DEF Next
  <2>9. c = sys.conn /\ sys.pc = "drop"
    BY <2>0, <2>8 DEF TeardownDrop, Down, BleType, LinkType
  <2>10. QED
    BY <2>0, <2>9 DEF LeaveInv
<1>2. QED
  BY <1>1, SlotInvariant, PTL DEF Spec, NewcomerNeverDropped

\* Nothing more is queued for a phone that said goodbye.
THEOREM GoodbyeIsQuiet == Spec => LeavingIsQuiet
<1>1. SlotInv /\ [Next]_vars =>
        [\A s \in Slot : conns[s].leaving /\ conns'[s].leaving
           => Len(conns'[s].queue) <= Len(conns[s].queue)]_vars
  <2> SUFFICES ASSUME SlotInv, Next, NEW t \in Slot, conns[t].leaving, conns'[t].leaving
               PROVE  Len(conns'[t].queue) <= Len(conns[t].queue)
    BY DEF vars
  <2>0. BleType /\ LinkInv /\ CountInv /\ SlotType
    BY DEF SlotInv, BleType
  <2>a. conns[t].queue \in Seq(QEntry) /\ Len(conns[t].queue) \in Nat
    BY <2>0 DEF SlotType, SlotRecord
  <2>b. ASSUME conns'[t].queue = conns[t].queue
        PROVE  Len(conns'[t].queue) <= Len(conns[t].queue)
    BY <2>a, <2>b
  <2>c. ASSUME NEW s \in Slot, Others(s),
               \/ conns'[s].queue = conns[s].queue \/ conns'[s].leaving = FALSE
               \/ conns[s].leaving = FALSE
        PROVE  Len(conns'[t].queue) <= Len(conns[t].queue)
    BY <2>b, <2>c DEF Others
  <2>1. ASSUME NEW p \in Phone, NEW c \in Conn, Connect(p, c)
        PROVE  Len(conns'[t].queue) <= Len(conns[t].queue)
    <3>1. PICK s \in Slot : Others(s) /\ conns'[s].leaving = FALSE
      BY <2>0, <2>1, ConnectEffect
    <3>2. QED
      BY <2>c, <3>1
  <2>2. ASSUME NEW c \in Conn, Disconnected(c)
        PROVE  Len(conns'[t].queue) <= Len(conns[t].queue)
    <3>1. PICK s \in Slot : Others(s) /\ conns'[s].leaving = FALSE
      BY <2>0, <2>2, DisconnectEffect
    <3>2. QED
      BY <2>c, <3>1
  <2>3. ASSUME NEW p \in Phone, fromradio_read(p)
        PROVE  Len(conns'[t].queue) <= Len(conns[t].queue)
    <3>1. PICK s \in Slot, out \in Seq(QEntry), r \in SlotRecord :
            Others(s) /\ Reads(conns[s], out, r) /\ conns'[s].queue = r.queue
      BY <2>0, <2>3, ReadEffect
    <3>2. CASE t # s
      BY <2>b, <3>1, <3>2 DEF Others
    <3>3. CASE t = s
      <4>1. Len(conns[t].queue) >= 1 => Len(Tail(conns[t].queue)) = Len(conns[t].queue) - 1
        BY <2>a, HeadTailProperties
      <4>2. \/ conns'[t].queue = conns[t].queue
            \/ Len(conns[t].queue) >= 1 /\ conns'[t].queue = Tail(conns[t].queue)
        BY <3>1, <3>3 DEF Reads
      <4>3. CASE Len(conns[t].queue) >= 1 /\ conns'[t].queue = Tail(conns[t].queue)
        <5>1. Len(conns'[t].queue) = Len(conns[t].queue) - 1
          BY <4>1, <4>3
        <5>2. QED
          BY <2>a, <5>1
      <4>4. QED
        BY <2>b, <4>2, <4>3
    <3>4. QED
      BY <3>2, <3>3
  <2>4. ASSUME NEW p \in Phone, NEW n \in Nonces, replay_cached_burst(p, n)
        PROVE  Len(conns'[t].queue) <= Len(conns[t].queue)
    <3>1. PICK s \in Slot : Others(s) /\ conns'[s].queue = conns[s].queue
      BY <2>0, <2>4, ReplayEffect
    <3>2. QED
      BY <2>c, <3>1
  <2>5. ASSUME NEW p \in Phone, NEW id \in RegWrites(p), register_proxy_id(p, id)
        PROVE  Len(conns'[t].queue) <= Len(conns[t].queue)
    <3>1. PICK s \in Slot : Others(s) /\ conns'[s].queue = conns[s].queue
      BY <2>0, <2>5, RegisterEffect
    <3>2. QED
      BY <2>c, <3>1
  <2>6. ASSUME NEW p \in Phone, request_teardown(p)
        PROVE  Len(conns'[t].queue) <= Len(conns[t].queue)
    <3>1. PICK s \in Slot : Others(s) /\ conns'[s].queue = conns[s].queue
      BY <2>0, <2>6, TeardownEffect
    <3>2. QED
      BY <2>c, <3>1
  <2>d. ASSUME NEW s \in Slot, NEW e \in QEntry, Push(s, e)
        PROVE  Len(conns'[t].queue) <= Len(conns[t].queue)
    <3>1. /\ Others(s)
          /\ conns'[s].queue = conns[s].queue \/ ~ conns[s].leaving
      BY <2>0, <2>d, PushEffect
    <3>2. CASE t = s
      BY <2>b, <3>1, <3>2
    <3>3. CASE t # s
      BY <2>b, <3>1, <3>3 DEF Others
    <3>4. QED
      BY <3>2, <3>3
  <2>7. ASSUME NEW p \in Phone, reply_queuestatus(p)
        PROVE  Len(conns'[t].queue) <= Len(conns[t].queue)
    <3>1. PICK s \in Slot, e \in QEntry : Push(s, e)
      <4>1. find_slot(ConnOf(p)) \in Slot
        BY <2>0, <2>7, SlotOfPhone DEF reply_queuestatus, Write
      <4>2. proto_encode_queue_status.variant = "queueStatus" /\ 0 \in Nat
        BY DEF proto_encode_queue_status, FromRadio
      <4>3. Entry(proto_encode_queue_status.variant, 0, NoPhone) \in QEntry
        BY <4>2, EntryType DEF EntryKind
      <4>4. Push(find_slot(ConnOf(p)), Entry(proto_encode_queue_status.variant, 0, NoPhone))
        BY <2>7 DEF reply_queuestatus
      <4>5. QED
        BY <4>1, <4>3, <4>4
    <3>2. QED
      BY <2>d, <3>1
  <2>8. ASSUME EnqueueLocked PROVE Len(conns'[t].queue) <= Len(conns[t].queue)
    <3>1. sys.slot \in Slot /\ sys.to \in Phone \cup {NoPhone} /\ msgs \in Nat
      BY <2>0, <2>8 DEF EnqueueLocked, BleType, SysType, SysRecord, PhoneType
    <3>2. Entry("live", msgs, sys.to) \in QEntry
      BY <3>1, EntryType DEF EntryKind
    <3>3. Push(sys.slot, Entry("live", msgs, sys.to))
      BY <2>8 DEF EnqueueLocked
    <3>4. QED
      BY <2>d, <3>1, <3>2, <3>3
  <2>9. CASE \/ ConnectFails
             \/ \E c \in Conn : LinkLost(c)
             \/ \E p \in Phone : Subscribe(p) \/ StartDrain(p)
             \/ \E f \in Frames : FrameArrives(f)
             \/ Broadcast \/ EnqueueFind \/ notify_fromnum
             \/ \E s \in Slot : TeardownExpires(s) \/ TeardownRuns(s)
             \/ TeardownLocked \/ TeardownDrop
    <3>1. UNCHANGED conns
      BY <2>9 DEF ConnectFails, LinkLost, Subscribe, StartDrain, FrameArrives, Broadcast, EnqueueFind,
                  notify_fromnum, TeardownExpires, TeardownRuns, TeardownLocked,
                  TeardownDrop, SysOnly, threads
    <3>2. QED
      BY <2>b, <3>1
  <2>10. QED
    BY <2>1, <2>2, <2>3, <2>4, <2>5, <2>6, <2>7, <2>8, <2>9 DEF Next
<1>2. QED
  BY <1>1, SlotInvariant, PTL DEF Spec, LeavingIsQuiet
=============================================================================

------------------------------ MODULE BleGatt ------------------------------
(***************************************************************************)
(* The BLE side (ble_gatt.c): connection slots, the per-phone FromRadio    *)
(* queue and its FROMNUM doorbell, the replay of the config cache, and the *)
(* deferred teardown of a phone that said goodbye.                         *)
(*                                                                         *)
(* Two threads share the slots.  BT RX runs the connection and GATT        *)
(* callbacks; it has the higher priority and no yield point inside a       *)
(* callback, so each is one action.  The system work queue runs the router *)
(* (broadcast, unicast) and the teardown work; it is cut wherever BT RX    *)
(* can get in between: at the calls into the Bluetooth stack when threads  *)
(* are cooperative, as they are in this build, and also before every lock  *)
(* when Preemptive.                                                        *)
(*                                                                         *)
(* bt_conn objects come from a pool and are recycled once nobody refers to *)
(* them, so a pointer may come to mean another phone.  The stack may fail  *)
(* to notify, to advertise, to connect and to disconnect, as far as Faults *)
(* says.                                                                   *)
(*                                                                         *)
(* Left out: the value of FROMNUM (it is only ever a doorbell), LOGRADIO   *)
(* (always empty), LEDs and logs, and parking (main.c never parks a phone).*)
(***************************************************************************)
EXTENDS Replay, ProxyProtocol, SequencesExt

CONSTANTS
  Phone, NoPhone,
  NSlots,       \* MAX_BLE_CONNECTIONS = CONFIG_BT_MAX_CONN
  QueueDepth,   \* FROMRADIO_QUEUE_DEPTH
  cache,        \* the published cache, which BleGatt only reads
  Nonces,       \* the nonces phones ask for their config with
  PhoneOps,     \* what phones write in this instance
  Frames,       \* the frames the node sends; see FrameArrives
  Preemptive,   \* may BT RX run between the work queue's critical sections?
  Faults,       \* which calls into the stack may fail
  MaxMsg,       \* bound: frames the node sends
  MaxJoin,      \* bound: connections made
  MaxOps        \* bound: phone writes

ASSUME BleAssumption ==
  /\ {NSlots, QueueDepth} \subseteq Nat \ {0} /\ {MaxMsg, MaxJoin, MaxOps} \subseteq Nat
  /\ NoPhone \notin Phone /\ Preemptive \in BOOLEAN
  /\ Faults \subseteq {"notify", "advertise", "connect", "disconnect"}
  /\ PhoneOps \subseteq {"subscribe", "want_config", "heartbeat", "disconnect", "register"}
  /\ cache.index \in Seq([offset : Nat, len : Nat, variant : STRING])

Slot == 1 .. NSlots
Conn == 1 .. NSlots        \* the pool of bt_conn objects
NoConn == 0

VARIABLES
  conns,              \* the slots
  active_conn_count,
  advertising,        \* "on", "off", or "failed": off the air by a failure
                      \* that was at most logged
  armed, queued,      \* slots whose teardown_work is delayed, is in the queue
  sys,                \* what the system work queue is in the middle of
  link, peer,         \* of each bt_conn: link state and the phone at the end
  bell,               \* of each phone: "silent", "rung", or "lost": the last
                      \* notification failed and none before it is unanswered
  reading, subscribed, \* of each phone: draining, CCC set
  asked,              \* history: "yes" when the phone wrote disconnect in this
                      \* session, "failed" when bt_conn_disconnect then failed
  want, got,          \* history: nonce asked for, what it read since
  owed,               \* history: subscribed, and a frame came for it since it
                      \* last read to the end
  msgs, joins, ops    \* counters for the bounds

threads == <<conns, active_conn_count, advertising, armed, queued, sys>>
phones == <<bell, reading, subscribed, asked, want, got, owed>>
vars == <<conns, active_conn_count, advertising, armed, queued, sys, link, peer,
          bell, reading, subscribed, asked, want, got, owed, msgs, joins, ops>>

\* staged is the packet that reads at an offset go on serving, if any.
FreeSlot == [conn |-> NoConn, proxy_id |-> ZeroId, state |-> "CONNECTED",
             leaving |-> FALSE, nonce |-> 0, replay_cursor |-> 0,
             cc_frame |-> FromRadio("none", 0), queue |-> <<>>, staged |-> <<>>]

Idle == [pc |-> "idle", i |-> 0, conn |-> NoConn, slot |-> 0, to |-> NoPhone]

Init ==
  /\ conns = [s \in Slot |-> FreeSlot]
  /\ active_conn_count = 0 /\ advertising = "on"
  /\ armed = {} /\ queued = {}
  /\ sys = Idle
  /\ link = [c \in Conn |-> "free"] /\ peer = [c \in Conn |-> NoPhone]
  /\ bell = [p \in Phone |-> "silent"] /\ reading = [p \in Phone |-> FALSE]
  /\ subscribed = [p \in Phone |-> FALSE] /\ asked = [p \in Phone |-> "no"]
  /\ want = [p \in Phone |-> -1] /\ got = [p \in Phone |-> <<>>]
  /\ owed = [p \in Phone |-> FALSE]
  /\ msgs = 0 /\ joins = 0 /\ ops = 0

----------------------------------------------------------------------------
(* The Bluetooth stack, as the code uses it *)

\* References keep a bt_conn from being recycled: the stack's own until the
\* disconnected callback is over, the slot's, and the teardown handler's.
Referenced(c) ==
  \/ link[c] # "free"
  \/ \E s \in Slot : conns[s].conn = c
  \/ sys.pc = "drop" /\ sys.conn = c

Up(p, c) == c # NoConn /\ link[c] = "up" /\ peer[c] = p
Connected(p) == \E c \in Conn : Up(p, c)
ConnOf(p) == CHOOSE c \in Conn : Up(p, c)

\* BT RX gets the CPU when the work queue has nothing to do or is inside a
\* call into the stack that may block.
RxRuns == Preemptive \/ sys.pc \in {"idle", "ring", "drop"}

\* bt_gatt_notify: dropped by the stack unless the phone subscribed.  When it
\* fails the callers only log it.
Rung(c) == [p \in Phone |-> IF Up(p, c) /\ subscribed[p] THEN "rung" ELSE bell[p]]
Unheard(c) == [p \in Phone |-> IF Up(p, c) /\ subscribed[p] /\ bell[p] = "silent"
                               THEN "lost" ELSE bell[p]]
bt_gatt_notify(c) == bell' \in {Rung(c)} \cup (IF "notify" \in Faults
                                              THEN {Unheard(c)} ELSE {})

\* ble_gatt_start_advertising: success when already advertising (-EALREADY).
start_advertising(now) ==
  advertising' \in {"on"} \cup (IF now # "on" /\ "advertise" \in Faults
                               THEN {"failed"} ELSE {})

\* A frame came for the phone at the end of c, queued or not.
Owed(c) == [p \in Phone |-> owed[p] \/ (Up(p, c) /\ subscribed[p])]

----------------------------------------------------------------------------
(* Slots *)

\* The first slot that satisfies P, 0 when none does.
FirstSlot(P(_)) ==
  LET hits == {s \in Slot : P(s)} IN IF hits = {} THEN 0 ELSE Min(hits)

find_slot(c) == FirstSlot(LAMBDA s : conns[s].conn = c)

\* A slot is handed out with everything reset but cc_frame.
alloc_slot(s, c) ==
  conns' = [conns EXCEPT ![s] = [FreeSlot EXCEPT !.conn = c, !.cc_frame = conns[s].cc_frame]]

\* The cancel catches the work while delayed or queued, not once dequeued.
free_slot(s) ==
  /\ armed' = armed \ {s} /\ queued' = queued \ {s}
  /\ conns' = [conns EXCEPT ![s] = [FreeSlot EXCEPT !.cc_frame = conns[s].cc_frame]]

on_connected(c) ==
  LET s == FirstSlot(LAMBDA t : conns[t].conn = NoConn) IN
  IF s = 0
  THEN /\ link' = [link EXCEPT ![c] = "down"]    \* rejected: no slot
       /\ advertising' = "off"
       /\ UNCHANGED <<conns, active_conn_count>>
  ELSE /\ link' = [link EXCEPT ![c] = "up"]
       /\ alloc_slot(s, c)
       /\ active_conn_count' = active_conn_count + 1
       /\ IF active_conn_count + 1 < NSlots THEN start_advertising("off")
          ELSE advertising' = "off"

\* Mutant: the counter is not taken down.
on_disconnected_uncounted(c) ==
  LET s == find_slot(c) IN
  /\ IF s = 0 THEN UNCHANGED <<conns, armed, queued>> ELSE free_slot(s)
  /\ start_advertising(advertising)
  /\ UNCHANGED active_conn_count

on_disconnected(c) ==
  LET s == find_slot(c) IN
  /\ IF s = 0 THEN UNCHANGED <<conns, armed, queued, active_conn_count>>
     ELSE free_slot(s) /\ active_conn_count' = active_conn_count - 1
  /\ start_advertising(advertising)

\* A phone connects: advertising stops, the stack takes an object of its pool.
Connect(p, c) ==
  /\ RxRuns
  /\ advertising = "on" /\ joins < MaxJoin
  /\ ~ Connected(p) /\ ~ Referenced(c)
  /\ on_connected(c)
  /\ peer' = [peer EXCEPT ![c] = p]
  /\ asked' = [asked EXCEPT ![p] = "no"]
  /\ want' = [want EXCEPT ![p] = -1] /\ got' = [got EXCEPT ![p] = <<>>]
  /\ joins' = joins + 1
  /\ UNCHANGED <<armed, queued, sys, bell, reading, subscribed, owed, msgs, ops>>

\* on_connected with an error: it returns, no slot is taken, and advertising,
\* if the attempt ended it, is not started again.
ConnectFails ==
  /\ RxRuns
  /\ advertising = "on" /\ "connect" \in Faults
  /\ advertising' = "failed"
  /\ UNCHANGED <<conns, active_conn_count, armed, queued, sys, link, peer, msgs, joins, ops>>
  /\ UNCHANGED phones

\* The link ends: nothing the phone had under way survives.
Down(c) ==
  /\ link' = [link EXCEPT ![c] = "down"]
  /\ bell' = [bell EXCEPT ![peer[c]] = "silent"]
  /\ reading' = [reading EXCEPT ![peer[c]] = FALSE]
  /\ subscribed' = [subscribed EXCEPT ![peer[c]] = FALSE]
  /\ owed' = [owed EXCEPT ![peer[c]] = FALSE]

LinkLost(c) ==
  /\ link[c] = "up"
  /\ Down(c)
  /\ UNCHANGED threads /\ UNCHANGED <<peer, asked, want, got, msgs, joins, ops>>

\* The callback, and then the stack's own reference goes.
Disconnected(c) ==
  /\ RxRuns
  /\ link[c] = "down"
  /\ on_disconnected(c)
  /\ link' = [link EXCEPT ![c] = "free"]
  /\ UNCHANGED <<sys, peer, msgs, joins, ops>> /\ UNCHANGED phones

----------------------------------------------------------------------------
(* ToRadio and NODE_REG writes, on BT RX *)

Write(p, op) ==
  /\ RxRuns
  /\ op \in PhoneOps /\ ops < MaxOps
  /\ Connected(p)
  /\ ops' = ops + 1
  /\ UNCHANGED <<active_conn_count, advertising, sys, link, peer, reading,
                 subscribed, msgs, joins>>

\* The CCC of FROMNUM; the stack keeps it.
Subscribe(p) ==
  /\ "subscribe" \in PhoneOps
  /\ Connected(p) /\ ~ subscribed[p]
  /\ subscribed' = [subscribed EXCEPT ![p] = TRUE]
  /\ UNCHANGED threads
  /\ UNCHANGED <<link, peer, bell, reading, asked, want, got, owed, msgs, joins, ops>>

replay_cached_burst(p, nonce) ==
  LET c == ConnOf(p)
      s == find_slot(c)
  IN /\ Write(p, "want_config")
     /\ want' = [want EXCEPT ![p] = nonce] /\ got' = [got EXCEPT ![p] = <<>>]
     /\ conns' = [conns EXCEPT ![s] = arm_replay(@, nonce)]
     /\ bt_gatt_notify(c) /\ owed' = Owed(c)
     /\ UNCHANGED <<armed, queued, asked>>

\* The id of a phone: its number, null-padded.
IdOf(p) == [i \in 1 .. PROXY_ID_SIZE |-> IF i = 1 THEN p ELSE 0]

\* What a phone writes to NODE_REG: its id, zeros to unregister, or too little.
RegWrites(p) == {IdOf(p), ZeroId, <<>>}

\* node_reg_write: only a whole id is taken.
register_proxy_id(p, id) ==
  /\ Write(p, "register")
  /\ conns' = IF Len(id) # PROXY_ID_SIZE THEN conns
              ELSE [conns EXCEPT ![find_slot(ConnOf(p))].proxy_id = id]
  /\ UNCHANGED <<armed, queued, bell, asked, want, got, owed>>

\* Mutant: the slot is not marked when the work is scheduled.
request_teardown_unmarked(p) ==
  LET s == find_slot(ConnOf(p)) IN
  /\ Write(p, "disconnect")
  /\ armed' = armed \cup {s}
  /\ asked' = [asked EXCEPT ![p] = "yes"]
  /\ UNCHANGED <<conns, queued, bell, want, got, owed>>

\* The mark is set at once; the work is (re)armed, which does not take back
\* one that is already in the queue.
request_teardown(p) ==
  LET s == find_slot(ConnOf(p)) IN
  /\ Write(p, "disconnect")
  /\ conns' = [conns EXCEPT ![s].leaving = TRUE]
  /\ armed' = armed \cup {s}
  /\ asked' = [asked EXCEPT ![p] = "yes"]
  /\ UNCHANGED <<queued, bell, want, got, owed>>

----------------------------------------------------------------------------
(* enqueue_fromradio *)

\* A packet for a phone: "live" with the number of the node's frame, "cached"
\* with its index, or a synthesized message; and the phone a unicast frame is
\* addressed to, NoPhone for anything else.
Entry(kind, v, to) == [kind |-> kind, v |-> v, to |-> to]

\* Mutant: a slot that is being torn down is served like any other.
AcceptsAlways(s) == TRUE

\* What a slot makes of an entry: refused while leaving, dropped when full.
Accepts(s) == ~ conns[s].leaving

\* Mutant: one entry more than the queue holds.
HasRoomForOneMore(s) == Len(conns[s].queue) <= QueueDepth

HasRoom(s) == Len(conns[s].queue) < QueueDepth

Push(s, e) ==
  conns' = IF Accepts(s) /\ HasRoom(s)
           THEN [conns EXCEPT ![s].queue = Append(@, e)] ELSE conns

\* Mutant: silence when the queue is full.
RingsIfQueued(s) == Accepts(s) /\ HasRoom(s)

\* The doorbell rings for a full queue too.
Rings(s) == Accepts(s)

\* A heartbeat is answered from BT RX in one go.
reply_queuestatus(p) ==
  LET c == ConnOf(p)
      s == find_slot(c)
  IN /\ Write(p, "heartbeat")
     /\ Push(s, Entry(proto_encode_queue_status.variant, 0, NoPhone))
     /\ IF Rings(s) THEN bt_gatt_notify(c) ELSE UNCHANGED bell
     /\ owed' = IF Accepts(s) THEN Owed(c) ELSE owed
     /\ UNCHANGED <<armed, queued, asked, want, got>>

----------------------------------------------------------------------------
(* The work queue: frames from the node *)

get_conn_by_proxy_id(id) ==
  LET s == FirstSlot(LAMBDA t : /\ conns[t].conn # NoConn
                                /\ proxy_id_equal(conns[t].proxy_id, id))
  IN IF proxy_id_is_zero(id) \/ s = 0 THEN NoConn ELSE conns[s].conn

\* Tier 2 of the router: the id a frame is for.  Anything but a decrypted
\* packet on PROXY_PORTNUM with a good header is for everybody.
Addressee(info) ==
  LET hdr == proxy_header_parse(info.payload_bytes) IN
  IF /\ info.which_variant = "packet" /\ info.is_decoded
     /\ info.portnum = PROXY_PORTNUM /\ hdr.ok
  THEN hdr.dst ELSE ZeroId

\* The bytes that its sender gave the frame address it to that phone.
AddressedTo(f, p) ==
  /\ f.msg.variant = "packet" /\ f.msg.data.tag = "decoded"
  /\ f.msg.data.portnum = PROXY_PORTNUM
  /\ LET payload == f.msg.data.payload IN
       /\ ~ (Len(payload) < PROXY_HEADER_SIZE) /\ payload[1] = PROXY_VERSION
       /\ IdAt(payload, PROXY_OFF_DST) = IdOf(p)

\* f.for is the phone that the sender built the header for, if any.
ASSUME FramesAssumption ==
  \A f \in Frames : /\ f.for \in Phone \cup {NoPhone}
                    /\ \A p \in Phone : AddressedTo(f, p) => f.for = p

\* on_fromradio_uart and router_dispatch: unicast to the registered phone, else
\* broadcast; so is a frame that does not decode.
FrameArrives(f) ==
  LET c == get_conn_by_proxy_id(Addressee(proto_decode_fromradio(f.msg)[2])) IN
  /\ sys.pc = "idle" /\ msgs < MaxMsg
  /\ msgs' = msgs + 1
  /\ sys' = IF c = NoConn THEN [Idle EXCEPT !.pc = "bcast", !.i = 1]
            ELSE [Idle EXCEPT !.pc = "find", !.conn = c, !.to = f.for]
  /\ UNCHANGED <<conns, active_conn_count, advertising, armed, queued, link,
                 peer, joins, ops>>
  /\ UNCHANGED phones

\* After one recipient: the next slot of a broadcast, or done.
Onward == IF sys.i = 0 THEN Idle ELSE [Idle EXCEPT !.pc = "bcast", !.i = sys.i + 1]

SysOnly == /\ UNCHANGED <<conns, active_conn_count, advertising, armed, queued,
                          link, peer, msgs, joins, ops>>
           /\ UNCHANGED phones

Broadcast ==
  /\ sys.pc = "bcast"
  /\ sys' = CASE sys.i > NSlots              -> Idle
              [] sys.i <= NSlots /\ conns[sys.i].conn = NoConn -> Onward
              [] OTHER -> [sys EXCEPT !.pc = "find", !.conn = conns[sys.i].conn]
  /\ SysOnly

EnqueueFind ==
  /\ sys.pc = "find"
  /\ sys' = IF find_slot(sys.conn) = 0 THEN Onward
            ELSE [sys EXCEPT !.pc = "lock", !.slot = find_slot(sys.conn)]
  /\ SysOnly

\* Under the slot's lock.
EnqueueLocked ==
  /\ sys.pc = "lock"
  /\ Push(sys.slot, Entry("live", msgs, sys.to))
  /\ sys' = IF Rings(sys.slot) THEN [sys EXCEPT !.pc = "ring"] ELSE Onward
  /\ owed' = IF Accepts(sys.slot) THEN Owed(conns[sys.slot].conn) ELSE owed
  /\ UNCHANGED <<active_conn_count, advertising, armed, queued, link, peer,
                 bell, reading, subscribed, asked, want, got, msgs, joins, ops>>

notify_fromnum ==
  /\ sys.pc = "ring"
  /\ bt_gatt_notify(sys.conn)
  /\ sys' = Onward
  /\ UNCHANGED <<conns, active_conn_count, advertising, armed, queued, link,
                 peer, reading, subscribed, asked, want, got, owed, msgs, joins, ops>>

----------------------------------------------------------------------------
(* The work queue: deferred teardown *)

TeardownExpires(s) ==
  /\ s \in armed
  /\ armed' = armed \ {s} /\ queued' = queued \cup {s}
  /\ UNCHANGED <<conns, active_conn_count, advertising, sys, link, peer, msgs, joins, ops>>
  /\ UNCHANGED phones

TeardownRuns(s) ==
  /\ sys.pc = "idle" /\ s \in queued
  /\ queued' = queued \ {s}
  /\ sys' = [Idle EXCEPT !.pc = "teardown", !.slot = s]
  /\ UNCHANGED <<conns, active_conn_count, advertising, armed, link, peer, msgs, joins, ops>>
  /\ UNCHANGED phones

\* Mutant: the handler trusts the slot it was armed for.
TeardownTargetUnchecked(s) == conns[s].conn

\* Mutant: only a phone that has its config is disconnected.
TeardownTargetActive(s) ==
  IF conns[s].leaving /\ conns[s].state = "ACTIVE" THEN conns[s].conn ELSE NoConn

\* Under the lock: whom to disconnect, if anyone, with a reference of its own.
TeardownTarget(s) == IF conns[s].leaving THEN conns[s].conn ELSE NoConn

TeardownLocked ==
  /\ sys.pc = "teardown"
  /\ sys' = IF TeardownTarget(sys.slot) = NoConn THEN Idle
            ELSE [sys EXCEPT !.pc = "drop", !.conn = TeardownTarget(sys.slot)]
  /\ SysOnly

\* bt_conn_disconnect: -ENOTCONN when the link is gone already; any other
\* error is logged and the slot stays marked, without another attempt.
TeardownDrop ==
  /\ sys.pc = "drop"
  /\ sys' = Idle
  /\ \/ link[sys.conn] = "up" /\ Down(sys.conn) /\ UNCHANGED asked
     \/ link[sys.conn] # "up" /\ UNCHANGED <<link, bell, reading, subscribed, asked, owed>>
     \/ /\ link[sys.conn] = "up" /\ "disconnect" \in Faults
        /\ asked' = [asked EXCEPT ![peer[sys.conn]] = "failed"]
        /\ UNCHANGED <<link, bell, reading, subscribed, owed>>
  /\ UNCHANGED <<conns, active_conn_count, advertising, armed, queued, peer,
                 want, got, msgs, joins, ops>>

----------------------------------------------------------------------------
(* FROMRADIO reads, on BT RX *)

StartDrain(p) ==
  /\ bell[p] = "rung" /\ ~ reading[p]
  /\ bell' = [bell EXCEPT ![p] = "silent"] /\ reading' = [reading EXCEPT ![p] = TRUE]
  /\ UNCHANGED threads
  /\ UNCHANGED <<link, peer, subscribed, asked, want, got, owed, msgs, joins, ops>>

FrameCount == cache_frame_count(cache)

\* The replay serves a cached frame or the phone's terminator.
ServedReplay(pc) ==
  LET r == Replayed(cache, pc) IN
  << [i \in DOMAIN r[1] |->
        IF r[1][i].cached THEN Entry("cached", r[1][i].v, NoPhone)
        ELSE Entry(r[1][i].v.variant, r[1][i].v.data, NoPhone)], r[2] >>

\* Mutant: the newest packet is served first.
DequeuedNewest(pc) ==
  IF pc.queue = <<>> THEN << <<>>, pc >>
  ELSE << <<Last(pc.queue)>>, [pc EXCEPT !.queue = Front(@)] >>

Dequeued(pc) ==
  IF pc.queue = <<>> THEN << <<>>, pc >>
  ELSE << <<Head(pc.queue)>>, [pc EXCEPT !.queue = Tail(@)] >>

\* Mutant: live frames are served ahead of the replay.
ResponseLiveFirst(pc) ==
  IF pc.state = "REPLAYING" /\ pc.queue = <<>> THEN ServedReplay(pc) ELSE Dequeued(pc)

\* What a read at offset 0 returns (<<>> for an empty response), and what it
\* makes of the slot.
Response(pc) == IF pc.state = "REPLAYING" THEN ServedReplay(pc) ELSE Dequeued(pc)

\* A read at offset 0; one at a later offset goes on serving what is staged and
\* changes nothing.
fromradio_read(p) ==
  LET s == find_slot(ConnOf(p))
      r == Response(conns[s])
  IN /\ RxRuns
     /\ Connected(p) /\ reading[p]
     /\ conns' = [conns EXCEPT ![s] = [r[2] EXCEPT !.staged = r[1]]]
     /\ got' = [got EXCEPT ![p] = @ \o r[1]]
     /\ reading' = [reading EXCEPT ![p] = r[1] # <<>>]
     /\ owed' = [owed EXCEPT ![p] = @ /\ (r[1] # <<>> \/ r[2].queue # <<>>)]
     /\ bell' = IF bell[p] = "lost" /\ r[1] = <<>> /\ r[2].queue = <<>>
                THEN [bell EXCEPT ![p] = "silent"] ELSE bell
     /\ UNCHANGED <<active_conn_count, advertising, armed, queued, sys, link, peer,
                    subscribed, asked, want, msgs, joins, ops>>

----------------------------------------------------------------------------
Next ==
  \/ \E p \in Phone, c \in Conn : Connect(p, c)
  \/ ConnectFails
  \/ \E c \in Conn : LinkLost(c) \/ Disconnected(c)
  \/ \E p \in Phone :
       \/ Subscribe(p) \/ StartDrain(p) \/ fromradio_read(p)
       \/ \E n \in Nonces : replay_cached_burst(p, n)
       \/ \E id \in RegWrites(p) : register_proxy_id(p, id)
       \/ request_teardown(p) \/ reply_queuestatus(p)
  \/ \E f \in Frames : FrameArrives(f)
  \/ Broadcast \/ EnqueueFind \/ EnqueueLocked \/ notify_fromnum
  \/ \E s \in Slot : TeardownExpires(s) \/ TeardownRuns(s)
  \/ TeardownLocked \/ TeardownDrop

Spec == Init /\ [][Next]_vars

\* The delay runs out, the work queue works off what it has, BT RX handles the
\* stack's events; phones and the node owe nothing.
FairSpec ==
  /\ Spec
  /\ \A s \in Slot : WF_vars(TeardownExpires(s)) /\ WF_vars(TeardownRuns(s))
  /\ WF_vars(TeardownLocked \/ TeardownDrop)
  /\ WF_vars(Broadcast \/ EnqueueFind \/ EnqueueLocked \/ notify_fromnum)
  /\ \A c \in Conn : WF_vars(Disconnected(c))

----------------------------------------------------------------------------
(* Properties *)

Held == {s \in Slot : conns[s].conn # NoConn}

\* Types of slots, timers and links; no per-phone queue exceeds its depth, also
\* when a heartbeat reply and a broadcast meet at a full one (enqueue_fromradio).
BleTypeOK ==
  /\ \A s \in Slot :
       LET pc == conns[s] IN
       /\ pc.conn \in Conn \cup {NoConn} /\ pc.leaving \in BOOLEAN
       /\ pc.proxy_id \in {ZeroId} \cup {IdOf(p) : p \in Phone}
       /\ pc.state \in {"CONNECTED", "REPLAYING", "ACTIVE"}
       /\ pc.nonce \in Nonces \cup {0} /\ pc.cc_frame.data \in Nonces \cup {0}
       /\ pc.replay_cursor \in 0 .. FrameCount + 1
       /\ Len(pc.staged) <= 1 /\ Len(pc.queue) <= QueueDepth
  /\ armed \subseteq Slot /\ queued \subseteq Slot
  /\ sys.pc \in {"idle", "bcast", "find", "lock", "ring", "teardown", "drop"}
  /\ link \in [Conn -> {"free", "up", "down"}]
  /\ advertising \in {"on", "off", "failed"}

\* Slots, links and the counter agree through every race of connects, losses
\* and teardowns: each live link has exactly one slot, no slot refers to a
\* recycled object, and the proxy is discoverable exactly while a slot is free,
\* unless its last attempt to advertise failed (on_disconnected ignores that).
SlotsMatchLinks ==
  /\ \A c \in Conn : link[c] = "up" => \E s \in Held : conns[s].conn = c
  /\ \A s, t \in Held : conns[s].conn = conns[t].conn => s = t
  /\ \A s \in Held : link[conns[s].conn] # "free"
  /\ active_conn_count = Cardinality(Held)
  /\ advertising = "on" => active_conn_count < NSlots
  /\ active_conn_count < NSlots => advertising \in {"on", "failed"}

\* The leaving mark of a live slot is true of the phone that is in it now: a
\* stale one would black-hole the next phone.
LeavingIsTrue ==
  \A s \in Held : link[conns[s].conn] = "up" =>
    (conns[s].leaving <=> asked[peer[conns[s].conn]] # "no")

\* The deferred teardown only ever drops the link of a phone that asked for
\* it, though slot and bt_conn may be recycled while it waits for the lock.
NewcomerNeverDropped ==
  [][\A c \in Conn : link[c] = "up" /\ link'[c] = "down" /\ sys' # sys
       => asked[peer[c]] # "no"]_vars

\* A phone that said goodbye is released, whatever else goes on and fails; only
\* when bt_conn_disconnect itself failed is its slot kept, as teardown_work
\* does not try again.
LeavingIsReleased ==
  \A s \in Slot : conns[s].leaving ~>
    \/ ~ conns[s].leaving
    \/ asked[peer[conns[s].conn]] = "failed"

\* Nothing more is queued for a phone that said goodbye, also when the
\* disconnect failed and its slot is never released: a frame whose slot was
\* looked up before the mark was set finds it under the lock.
LeavingIsQuiet ==
  [][\A s \in Slot : conns[s].leaving /\ conns'[s].leaving
       => Len(conns'[s].queue) <= Len(conns[s].queue)]_vars

\* The cached frames that a want_config with this nonce must be answered with.
Segment(nonce) == {i \in 0 .. FrameCount - 1 : cache_frame_in_segment(cache, i, nonce)}

\* A phone that asked for its config reads exactly its segment of the cache,
\* in order, then a config_complete with its own nonce, and only then live
\* frames, however broadcasts, other phones' replays and reconnects interleave.
ReplayExact ==
  \A p \in Phone : want[p] # -1 =>
    LET seg == Segment(want[p])
        n   == Cardinality(seg)
    IN /\ \A i \in seg : Rank(seg, i) <= Len(got[p]) =>
            got[p][Rank(seg, i)] = Entry("cached", i, NoPhone)
       /\ Len(got[p]) > n => got[p][n + 1] = Entry("config_complete", want[p], NoPhone)
       /\ \A k \in n + 2 .. Len(got[p]) : got[p][k].kind \in {"live", "queueStatus"}

\* The node's frames reach a phone in the order the node sent them, none twice.
LiveInOrder ==
  \A p \in Phone :
    \A i, j \in {k \in DOMAIN got[p] : got[p][k].kind = "live"} :
      i < j => got[p][i].v < got[p][j].v

\* A frame that its sender addressed to a registered phone is queued for,
\* staged for (and so left to a later read at an offset) and read by no other,
\* also when the phone unregisters or its slot is handed on.
UnicastPrivate ==
  /\ \A s \in Held : LET all == conns[s].queue \o conns[s].staged IN
       \A i \in DOMAIN all : all[i].to \in {NoPhone, peer[conns[s].conn]}
  /\ \A p \in Phone : \A i \in DOMAIN got[p] : got[p][i].to \in {NoPhone, p}

\* Something is there for the phone to read.
Unread(p) ==
  Connected(p) /\ LET pc == conns[find_slot(ConnOf(p))] IN
                  pc.queue # <<>> \/ pc.state = "REPLAYING"

\* No stall: once a subscribed phone was sent anything, queued or dropped for a
\* full queue, it is notified or draining for as long as it has frames to read.
\* It stops reading at an empty response.  A notification that the stack failed
\* to send leaves it waiting for the next one.
NoLostDoorbell ==
  \A p \in Phone : owed[p] /\ Unread(p) =>
    bell[p] # "silent" \/ reading[p] \/ (sys.pc = "ring" /\ Up(p, sys.conn))
=============================================================================

# A TLA+ verification of meshpbx

meshpbx is nRF/Zephyr firmware that lets several phones share one Meshtastic node.
It holds a single config session with the node over UART, caches the node's config
burst, replays that cache to every phone that connects over BLE, and routes live
traffic both ways.  This directory holds TLA+ models of its core, the TLC instances
that check them and TLAPS proofs about them.  Source paths are relative to the
repository root (`src/` is its source directory, `docs/` its documentation).

Contents: 1 the system, 2 what is hard, 3 the modules, 4 the runs, 5 fairness,
6 proofs, 7 code and documentation disagreeing, 8 not modelled, 9 plan.

## 1. The system

### Execution contexts

| context | priority | runs |
|---|---|---|
| UART interrupt | ISR | `uart_cb`: RX_RDY, RX_STOPPED, RX_DISABLED, TX_DONE, TX_ABORTED |
| BT RX | cooperative, -8 | connection callbacks, GATT reads and writes, `on_toradio_ble` |
| system work queue | cooperative, -1 | `rx_work`, `tx_work`, frame dispatch (`router_dispatch`), resync, keepalive, fetch-retry, liveness and teardown work |
| main | preemptible, 0 | initialisation, `upstream_session_start`, then sleeps |

Work items on the system work queue never interrupt each other.  BT RX has the higher
priority, but both are cooperative, so it gets in only where the work queue blocks
(a call into the Bluetooth stack).  The interrupt gets in anywhere; main is preempted
by everything.

### Components

| component | state | operations | interacts with |
|---|---|---|---|
| `uart_meshtastic.c`, transmit | `tx_msgq`, `tx_frame_buf`, `tx_in_progress`, `tx_work` | `uart_meshtastic_tx`, `tx_work_handler`, TX_DONE/ABORTED | called from BT RX (phone packets), work queue (want_config, heartbeat), main (boot) |
| `uart_meshtastic.c`, receive | `rx_ring_buf`, `rx_sm`, `rx_work`, `rx_resync_dwork` | RX events, `rx_work_handler`, `rx_process_byte`, `rx_resync_handler` | hands whole payloads to `on_fromradio_uart` |
| `config_cache.c` | packed arena, frame index, `ready`, own-node index | `cache_begin`, `cache_add_frame`, `cache_mark_ready`, segment queries | filled by the session, read by the replay |
| `upstream_session.c` | `s_state`, `s_nonce`, keepalive flag and nonce, three delayable works | start, `upstream_on_fromradio`, `upstream_refetch`, watchdogs, keepalive, liveness kick, swallow | cache, UART transmit, router |
| `router.c`, `main.c` | none of their own | `router_dispatch`, `on_fromradio_uart`, `on_toradio_ble`, boot order | all of the above and BLE |
| `ble_gatt.c` | slots (`conns`), per-phone queue and replay cursor, `active_conn_count`, teardown works | connect/disconnect callbacks, reads, writes, registration, broadcast, unicast, teardown | Bluetooth stack, cache, router |
| `proxy_protocol.c` | none | parse and build of the DST/SRC header, comparison of ids | router (destination), BLE registration |
| `proto_handler.c` | scratch structs, cleared by every call | decode a FromRadio or ToRadio, encode config_complete, heartbeat, queueStatus | used by main, session, BLE |
| `pbx_stats.c`, LEDs, route trace | counters | observation only | - |
| `tools/` | - | host-side provisioning scripts | - |

### What makes each part correct

* Transmit: the static frame buffer is never rebuilt under a running transfer, no
  accepted frame is stranded, frames leave whole and in order, and only the oldest can be lost.
* Receive: no byte is stored outside the payload array whatever arrives; an undamaged
  stream is delivered exactly; after damage the parser finds a boundary again.
* Cache: what was accepted is found again byte for byte; the two handshake segments
  (config only, nodes only) cover the burst; published content is never changed.
* Session: a fetch is always watched; LIVE implies a published, complete cache;
  the nonce of a fetch in flight is kept; a dead node session is reopened; neither
  the proxy's own burst nor the answer to its own heartbeat reaches the phones.
* BLE: slots match links through recycling; the deferred teardown never hits a
  newcomer; a phone reads its own segment and terminator and then live frames in order;
  unicast stays private; a phone with something to read has been told so; a phone that
  said goodbye gets nothing more and is released.
* Replay: a phone is served its segment whole and byte for byte although the cache is
  shared, unlocked and may grow between two reads.
* Header: what one proxy builds another parses back, and no header, however short or
  foreign, makes the parser read beyond the payload.

## 2. What is hard to test here

`PROJECT.json` lists the hazards line by line.  In short: the interrupt between any
two statements of `tx_work_handler` and inside `rx_process_byte`; main preempted in
the middle of `upstream_session_start` (between its transmit, its state and its watchdog); losses, reboots and retries racing a burst
on the line; a refetch that fails after its trigger expired; flags (`s_keepalive_pending`,
`leaving`) that outlive what they were set for; calls into the drivers that fail and are
only logged; a cache that grows under a reader's cursor; `bt_conn` objects and slots recycled
under a deferred work item; the doorbell protocol at a full queue and at the end of a replay.

## 3. The modules

| module | models | state and actions |
|---|---|---|
| `UartTx` | transmit path | one variable per C variable, plus the handler's `pc` and local `entry`, the transfer `dma` and each caller's position; every action touches shared state once, so the interrupt and the callers come between any two of them |
| `TxLink` | abstract specification of the transmit path | a bounded ordered channel that may lose its oldest frame |
| `UartRx` | receive path, byte by byte | ring, `rx_sm`, `pc` holding the state the `switch` has read (the interrupt may reset `state` after that), resync work as off/armed/queued, the bytes on the line |
| `ConfigCache` | `config_cache.c` as operators on one record | arena as a function from offset to (data, byte number), index of (offset, length, variant) |
| `CacheStore` | the cache and its writer, as a state machine; also the abstract specification of how the session may drive the cache | begin, add, publish in any order, with a history of what was accepted |
| `Replay` | how `fromradio_read` and `ble_gatt_replay_cached_burst` serve the cache to one phone | operators on a slot and the cache as it is at that read |
| `Serve` | `CacheStore` composed with one reader | a phone asks and reads, one frame per read, while the session goes on filling the cache |
| `ProxyProtocol` | `proxy_protocol.c` as operators on byte sequences | parse, build, comparison, the zero id |
| `ProtoHandler` | `proto_handler.c` as operators on messages | what a decoder extracts and rejects, what an encoder synthesizes |
| `UpstreamSession` | `upstream_session.c` | one action per handler; `upstream_session_start` in three steps: want_config sent, state FETCHING, watchdog armed |
| `Proxy` | session + `router.c` + `main.c` + line + node | `txq`, `down`, the node's PhoneAPI session, losses, reboots, timeouts; `Dispatch` is `on_fromradio_uart` down to the end of `router_dispatch` |
| `BleGatt` | `ble_gatt.c` and the routing tier that calls it | slots, `bt_conn` pool with reference counting, teardown works, work-queue `sys` step, phones that subscribe, register, drain and write; `Faults` names the calls into the stack that may fail |
| `UartTxProofs`, `UartRxProofs`, `CacheStoreProofs` (also about `Serve`), `ProxyProtocolProofs` | proofs about the module of that name | section 6 |
| `ProxyProofs`, `ProxyLineProofs` | proofs about `Proxy`: the session, then what is on the line | section 6 |
| `BleGattProofs`, `BleQueueProofs` | proofs about `BleGatt`: the slots, then what is in the queues | section 6 |
| `MC*` | TLC instances | constants only |

How they fit together:

* `Proxy` and `BleGatt` meet at two places: `route(f) = "phones"` in `Proxy` is
  `FrameArrives` in `BleGatt`, and the cache that `Proxy` publishes is the constant `cache`
  of `BleGatt`.  Both use the operators of `ConfigCache` and `ProtoHandler`.
* `Proxy` implements `CacheStore` (`CacheImplementsStore`: the accepted frames are read
  back out of the arena), `CacheStore` keeps every frame intact (proved), and `Serve`
  shows what a phone is served by a cache that behaves as `CacheStore` does.  `Serve` and
  `BleGatt` use the same `Replay`.
* `UartTx` justifies the `txq` of `Proxy` (ordered, bounded, refusing when full; a lost
  head is `LoseUp`), `UartRx` its `down` (ordered; overruns are `LoseDown`).

Abstractions that matter:

* A frame is a variant, one datum (position in the burst, nonce, mesh packet, or "answers
  our heartbeat") and a length; the wire format is nanopb's and is left to it.  A frame that
  does not decode ("garbled", "malformed") takes the path the code gives it.
* A mesh packet keeps what the router looks at: decoded or encrypted, port number and the
  payload bytes.  The proxy header in them is modelled byte by byte, with ids of 2 bytes
  in the instance and of any size in the proofs.
* Driver calls that may fail: `bt_gatt_notify` (the doorbell is lost), `bt_le_adv_start`,
  a connection attempt (`on_connected` with an error: `ConnectFails`), `bt_conn_disconnect` (in `BleGatt`, as far as `Faults` says), `uart_rx_enable` after a
  stop (in `UartRx`, the receiver then stays deaf), `uart_tx` (in `UartTx`), and the
  full queue of `uart_meshtastic_tx` (everywhere).
* A read of FROMRADIO at an offset goes on serving the staged packet and changes nothing,
  so it is no action; what may be staged for whom is part of `UnicastPrivate`.
* A delayable work item is "armed"; it may fire at any moment unless `Timing` names it
  as longer than an exchange on the line.  Safety of the session is checked with
  `Timing = {}`, so no duration is relied on there.
* Nonces are `0 .. NonceMax` and wrap there, in place of 2^32.
* The node is modelled from how `router.c`, `upstream_session.c` and the docs use it:
  want_config starts a burst that ends with config_complete, heartbeats are answered
  always, packets in an open session, a reboot announces itself, the serial timeout does not.
* The phone is modelled from the FROMNUM contract in `ble_gatt.c`: on notification it
  reads FROMRADIO until the response is empty.  It registers its own id, zeros, or too
  few bytes.
* `UPSTREAM_CACHE_READY` is left before the handler that enters it returns, and is
  merged into LIVE.  The park branch of `on_toradio_ble` and `s_pending` are
  unreachable (section 7) and have no action.

## 4. The runs

Bounds are CONSTANTS named in each module.  Passing runs:

| run | instance | checks |
|---|---|---|
| `uart_tx` | 2 callers, queue of 2, an oversize frame, 4 accepted frames | `TxTypeOK`, `BufferOwned`, `NoLostWakeup`, `FlagTellsOwner`, `QueueDrains`, refinement `LinkSpec` |
| `uart_rx` | payloads up to 2 bytes, one of them made of the two magic bytes, ring of 5 (smaller than a frame), 2 frames, 1 noise byte, 1 receiver reset, whose re-enable may fail | `RxTypeOK`, `PayloadInBounds`, `StreamDelivered`, `RecoversFromLoss` |
| `serve` | arena of 5 bytes, 4 frames, lengths up to 2, requests for everything, config only and nodes only | `CacheTypeOK`, `FramesIntact`, `SegmentsCover`, `ServedExact` |
| `proxy_safety` | timers at any moment, transmit queue of 1, phones that write disconnects and undecodable bytes, 1 reboot or timeout, 1 loss | `ProxyTypeOK`, `WatchdogCoversFetch`, `LiveHasCache`, `NoncesLegal`, refinement `CacheImplementsStore`, `FetchNonceKept`, `NodeSessionUndisturbed` |
| `proxy_line` | burst of 2, 2 session deaths, 1 loss, timers longer than an exchange | `PublishedIsWholeBurst`, `BurstNeverBroadcast`, `KeepaliveReplyHidden`, `PhonesKeepTheirAnswers` |
| `proxy_live` | 2 session deaths, 2 losses, transmit queue with room for the proxy | `BootCompletes`, `SessionRecovers` |
| `ble_slots` | 2 phones, 2 slots, 2 `bt_conn` objects, 3 connections, full preemption, failing connection attempts, advertising and disconnect | `SlotsMatchLinks`, `LeavingIsTrue`, `NewcomerNeverDropped`, `LeavingIsReleased`, `LeavingIsQuiet` |
| `ble_replay` | 4-frame cache, config-only and nodes-only requests (`serve` has the whole one too), full preemption, failing disconnect and notify | `ReplayExact` |
| `ble_route` | 2 phones, registration with good, zero and short ids, heartbeats, 2 frames out of 14 (good, short and foreign headers, another port, encrypted, undecodable), queue of 2, cooperative threads, failing notify | `BleTypeOK`, `UnicastPrivate`, `LiveInOrder`, `NoLostDoorbell` |

Why the bounds are enough.  In the transmit path everything that differs happens with
two callers and a queue that is empty, partly filled and full, each of which occurs
with 4 accepted frames over a depth of 2; the theorems of section 6 remove the bound.
In the receive path a misaligned parser needs a
noise byte, an overrun or a reset, then a whole frame to resynchronise on: 2 frames
are one to damage and one to find.  In the cache, a 5-byte arena with frames of 1 and 2
bytes meets an exact fit, an overflow by one and a full index, and 4 frames leave room for a foreign
terminator behind a burst with two node_infos; `CacheStoreProofs` removes these bounds for the cache itself.  In the session a fetch can be hit once
before and once after it is restarted (2 closes, 2 losses); `proxy_safety` uses
smaller numbers because any timer may fire there at every step.
On the BLE side 3 connections over 2 slots recycle a slot and an object while the other
is in use, which is the shape of every race in the hazards.  `ble_route` needs a queue of 2: with
1, first in first out and last in first out are the same; 2 frames and a heartbeat's answer fill it
and find it full.  `ble_slots` asks nothing of the queue's order and keeps a queue of 1.

`proxy_line` and `proxy_live` assume durations, as the code does.  "start": main gets
back to `upstream_session_start` before the node's answer.  "retry": 2 s is
longer than the silence inside a burst.  "keepalive", "liveness": minutes are longer
than an exchange.  "phones" (`proxy_live` only): a packet is answered before
the next one is written; section 7 (c) says what happens otherwise.

Three more runs state what the documentation says and end in a counterexample; see section 7.

## 5. Fairness

Safety runs use `Spec`, without fairness.

* `UartTx!FairSpec`: the work queue thread runs queued work to completion, a caller past its
  put reaches its submit, and the driver ends every transfer with TX_DONE or, at the
  latest after `TX_TIMEOUT_US`, TX_ABORTED.  All weak.
* `UartRx!FairSpec`: bytes on the line arrive, queued work runs, and a line that stays
  between frames eventually has been silent for `RX_RESYNC_TIMEOUT_MS`.  All weak.
  It is assumed, and named at `Silence`, that neither a node in mid-frame nor the work
  queue pauses for that long.
* `Proxy!FairSpec`: main, dispatch and the node make progress.  The fetch-retry work is
  strongly fair because frames push it out; the model lets it fire only while no
  burst is on its way, which recurs because the line falls silent for 2 s again and again.  The liveness
  work is fair only while the session is closed: then nothing pushes it out.
  Node steps are strongly fair because `DownCap` is a bound of the model.
  Phones, packets, reboots and losses have no fairness.
* `BleGatt!FairSpec`: teardown delays run out, the work queue works, BT RX handles
  the stack's events.  Nothing is asked of phones.

## 6. Proofs

Checked with TLAPS for every value of the constants that satisfies the named assumptions.

`UartTxProofs`, from `TxAssumption` (oversize frames are frames, the depth is positive):

* `TxTypeCorrect`, `TxBufferOwned`, `TxNoLostWakeup`, `TxFlagTellsOwner`: `Spec => []` of the property.
* `TxImplementsLink`: `Spec => LinkSpec`, the transmit path implements `TxLink`, with
  `chan` = the frame in hand (UART's or handler's) followed by `tx_msgq`.

`BufferOwned` is not inductive: TX_DONE may come while the handler is on its way to
`uart_tx`, and nothing in `BufferOwned` says that `tx_in_progress` is then telling the truth.
`TxInv` adds `FlagTellsOwner` (what the flag means at each `pc`) and `EntryHeld` (the
handler holds an entry exactly while it is about to send).  Every action preserves
`TxInv`; the refinement uses it to show that `TxDone` puts the head of the channel,
and not whatever the buffer holds, on the wire.

`UartRxProofs`, from `RxAssumption` (sizes are positive, the maximum fits 16 bits, payloads are
byte sequences within it) and `LineAssumption` (so are framed payloads):

* `RxTypeCorrect`: lengths fit `uint16_t`, the ring never holds more than its size.
* `RxPayloadInBounds`: no byte is stored outside `rx_sm.payload`, for any input, any ring
  size and any moment of the interrupt's reset.

`RxInv` adds `PcFollowsState` (in mid-byte the state is the one the switch has read, or
has been reset) and `HighByteOnly` (between the length bytes only the high half is set, so
the sum cannot overflow 16 bits).  The reset leaves `expected_len` and
`received_len` alone, which is why the bound must also be stated for `pc`.

* `StreamInvariant`, `FramesDelivered`: `Spec => []StreamInv` and `Spec => []StreamDelivered`, for every set
  of payloads, ring size and cut of the stream into chunks.

`StreamDelivered` compares what was sent with what was delivered and says nothing of the bytes in between.
`StreamInv` does: while nothing is lost (`Following`), the bytes at hand, that is the handler's
local variable, the ring and the line (`Pending`), are the rest of the frames sent.  A recursive
parser would be out of the prover's reach, so `Cut` states it with the offset of each frame in
those bytes: the frame under way began `Parsed` bytes ago, each begins where the one before ends, the
last ends with the bytes, and every byte at hand is the one its frame has there.  A
byte looked at moves all offsets by one (`CutTail`), a frame sent adds one (`CutAppend`), and passing
bytes from line to ring to handler changes nothing (`Rechunked`).  `Undisturbed` says
why the watchdog does no harm: it is armed only in mid-frame, and a silence, which is what lets
it expire, finds no frame under way, because its next byte would be at hand (`SilenceFollows`).

`CacheStoreProofs`, from `CacheAssumption` and `StoreAssumption` (arena size, frame limit and
frame length are natural numbers; a frame has at least one byte):

* `CacheTypeCorrect`, `CacheFramesIntact`, `CacheSegmentsCover`: `Spec => []` of `CacheTypeOK`,
  `FramesIntact` and `SegmentsCover`.

`FramesIntact` is not inductive: a new frame is written at `used`, and nothing in it says that
the frames already stored end there.  `StoreInv` adds `Packed` (they do) and `OwnIsFirst`
(the remembered index is that of the first node_info of the current burst, -1 when there
is none), from which the segments follow.

* `PhoneServedExact`: `ServeSpec => []ServedExact`, for a phone that reads its segment while the
  session still appends to the published cache (section 7 (a)).

`ServeInv` says where such a phone stands (`Progress`): until its terminator it has read as many frames as its
segment has up to the cursor; after it the cursor is past the segment, and each further terminator
has moved the cursor by at least one, which bounds their number by the frames added since the request.

`SessionImplementsStore` below makes the theorems
speak of the cache the firmware fills.

`ProxyProtocolProofs`, from `ProtocolAssumption` (ids have at least one byte and the header fits
the payload limit), for every id size, alphabet and payload:

* `BuildFits`: a built message exceeds neither the buffer nor `PROXY_PRACTICAL_MAX`.
* `ParseInvertsBuild`: parsing what was built gives back source, destination and content.
* `ParseStaysInside`: the ids and the content of an accepted header are bytes of the payload, and the
  content is as long as what the header leaves.

`BuildLayout` says where each field of a built message lies; the first two rest on it.

`ProxyProofs`, from `SessionAssumption` (at least three nonces, a queue depth of at least 1),
`CacheAssumption` and `ProxyAssumption`; nothing is asked of `Timing`, so any timer may fire
at any moment.  Main is cut wherever another thread can tell: before its want_config is sent nothing
is on the line and the state is BOOT, so that what it does up to there (lines 351-387; the keepalive
armed at the start is minutes away) is one step, `s_state` the second and the watchdog the third:

* `ProxyTypes`, `FetchIsWatched`, `LiveIsPublished`, `SentNoncesLegal`: `Spec => []` of
  `ProxyTypeOK`, `WatchdogCoversFetch`, `LiveHasCache`, `NoncesLegal`.
* `NonceOfFetchKept`, `PhonesCannotDisturb`: `Spec =>` the action properties `FetchNonceKept` and
  `NodeSessionUndisturbed`.
* `SessionImplementsStore`: `Spec => CacheImplementsStore`.  The accepted frames of the abstract
  store are read back out of index and arena; `cache_begin`, an accepted frame and
  `cache_mark_ready` are its steps, and every other action leaves the cache alone.

`CoreInv` is the inductive invariant.  `LiveHasCache` alone is not: that a reboot notice or a config_complete
handled before main has written FETCHING does no harm needs `BootIsMain` (the
state is BOOT exactly until then).  `WatchdogCoversFetch` goes one way only, and leaves out the moment between
main's last two statements (`upstream_session.c:395` and `396`), when FETCHING is not yet watched: section 7 (h) has the other direction.  `NoncesLegal` needs `NonceInv`, which also covers the nonces
that a retry or the next keepalive will send; the refinement needs `CacheInv` (every reference lies below the cursor and finds
the first byte of a frame).

`ProxyLineProofs` is about messages and frames under way, where the code relies on durations.
The hypotheses are those of the run `proxy_line`:

* `ReplyHidden`, `AnswersKept`: if `"keepalive" \in Timing`, then `Spec => []KeepaliveReplyHidden` and
  `Spec => []PhonesKeepTheirAnswers`.  The keepalive period is minutes, an exchange on the line milliseconds.
* `BurstNotBroadcast`, `PublishedWhole`: if `"start" \in Timing`, `"retry" \in Timing` and
  `"burst" \notin NodeAtBoot`, then `Spec => []BurstNeverBroadcast` and `Spec => []PublishedIsWholeBurst`.  The
  retry delay is 2 s of silence, which every frame of a burst pushes out; main has a few
  statements left after its want_config, the node a burst to send.  A node that is in the middle of a
  burst for somebody else when the proxy powers on breaks both: with "burst" in `NodeAtBoot`, TLC
  finds a frame of that burst broadcast, and a published cache that is not the whole burst.

Each needs an invariant over positions of the two queues.  `KeepaliveInv`: a heartbeat under way is the oldest message and no
queueStatus is on the line before its reply, and a set flag has such a heartbeat or reply
unless it was lost (`stray`).  `BurstInv`: at most one of request, running burst and
terminator exists at a time, and none outside a fetch; the fetch watchdog restarts a fetch only when
none is left.  `WholeInv`, on top of it: what the running burst has sent is split
between cache and line at one point `k`, frames 1..k stored and k+1.. on the line, each once
and in order, as long as nothing was lost and the cache has room.

`BleGattProofs`, from `BleAssumption`, `ProtocolAssumption` and the assumption on the constant
`cache` (its index is a sequence of references), for any number of slots and phones, any set of
failing calls and both values of `Preemptive`:

* `BleTypes`, `SlotsAgree`, `MarksAreTrue`: `Spec => []` of `BleTypeOK`, `SlotsMatchLinks`, `LeavingIsTrue`.
* `NewcomersStay`, `GoodbyeIsQuiet`: `Spec =>` the action properties `NewcomerNeverDropped` and `LeavingIsQuiet`.

`SlotInv` joins the types with `LinkInv` (each link that is not free has a slot of its own, a phone has one link that
is up), `CountInv` (the counter is the number of held slots) and `LeaveInv`.  The last adds to
`LeavingIsTrue` that a connection the teardown work has taken a reference to and is about to
drop, if still up, is one whose phone asked: while the reference is held the object
cannot be given to a newcomer.  Recycled slots and objects, preemption and failing calls are all in the proof.

`BleQueueProofs`, from the same assumptions, `FramesAssumption` (what `f.for` says of a frame is
what its bytes say) and, where not said otherwise, `~ Preemptive`, that is, cooperative threads, as BT RX and the system work queue are
in this build (section 1); section 7 (e) says what preemption would break:

* `UnicastStaysPrivate`: `Spec => []UnicastPrivate`, by `PrivateInv`: a held slot is registered under no id
  but its phone's, its queue and staged packet hold nothing for another phone, and between lookup
  and lock the slot still has the connection that was looked up.
* `FramesInOrder`: `Spec => []LiveInOrder`, by `OrderInv`: what a phone has read is older than its queue,
  its queue rises, and both are no newer than the last frame that the slot was handed, which is
  one less while a broadcast still has the slot before it (`Due`, `Newest`).
* `PhonesReadExactly`: `Spec => []ReplayExact`, by `ReplayInv` (`ReplayInvariant`), if `0 \notin Nonces`; this one needs no
  hypothesis on `Preemptive`.  A phone that asked has read as many frames of its segment as there are
  before the slot's cursor; the cursor passes the end of the cache with the
  terminator, and only then does the slot go live; its queue holds nothing but live frames and answers to
  heartbeats.  With the nonce 0 the property is false: section 7 (d).
* `DoorbellNotLost`: `Spec => []NoLostDoorbell`, by `BellInv`, if also `"want_config" \notin PhoneOps`.
  With a replay the property is false: that is the run `doc_drained` (section 7).

The route of a frame is the model's `proxy_header_parse` on its payload, for every id size, so
`UnicastStaysPrivate` covers short, foreign and malformed headers too.

`PublishedIsWholeBurst`, `LiveInOrder`, `ServedExact` and `ReplayExact` are stated over positions rather than with a
selected subsequence (`Rank(S, i)` is the place of index `i` in the segment `S`), and the cache that phones are served from is a CONSTANT of `BleGatt`, so that
the proofs hold for every cache; TLC checks the same formulas.

Every safety invariant and every action property that a passing run checks is also a theorem; those
with hypotheses say above which, and why.  Only model-checked are the liveness properties (`QueueDrains`, `RecoversFromLoss`,
`BootCompletes`, `SessionRecovers`, `LeavingIsReleased`), because fairness is outside what the prover does.

## 7. Where code and documentation disagree

Kept as runs that end in a counterexample:

* `doc_serve_refetch`: a want_config that arrives during a recovery fetch is not answered
  (`main.c:75` returns), though `docs/upstream-session-robustness.md:50-52` says the cache
  stays servable throughout.  The early return also makes the REFETCHING test
  and the park branch below it unreachable.
* `doc_refetch_retry`: a refetch refused by a full transmit queue is never attempted
  again (`upstream_session.c:574`), though the comment there says the retry layer does.
* `doc_drained`: the read that ends a replay is empty although live frames may be queued
  (`ble_gatt.c:313`), so a phone that reads until empty stops with frames unread and no doorbell due.

Met while modelling and not kept as runs:

* (a) In REFETCHING a config_complete with a foreign nonce is added to the published cache
  (`upstream_session.c:445-451`); `upstream_session.h:32` says a recovery "does NOT touch
  the cache" and `config_cache.h:20` that the arena is immutable.  Replays skip terminators, but
  the frame moves the end of the cache: a phone that has read its config_complete and not yet the
  empty response after it is served the config_complete once more (`ble_gatt.c:308`).
  `ServedExact` allows exactly that, once per such frame.
* (b) `s_keepalive_pending` left set by a lost answer, or by one a fetch consumed, swallows the
  next genuine queueStatus (against `upstream_session.h:104`).  `PhonesKeepTheirAnswers` shows
  that nothing else does, and that it costs one answer each time.
* (c) Each queueStatus the node sends in answer to a phone's packet pushes the fetch watchdog
  out, so steady phone traffic can starve it (`docs/upstream-session-robustness.md`, 3.3, speaks of "burst
  progress").  `ProxyLive.cfg` without "phones" in `Timing`, `MaxClose = 0`,
  `MaxLoss = 1`, `NodeAtBoot = {"closed"}` shows it.
* (d) A want_config with nonce 0 is terminated with the nonce of the phone's previous
  request (`ble_gatt.c:746`; `ble_gatt.h:93` says "that phone's nonce").  `BleReplay.cfg` with
  `Nonces = {0, 7}` shows it.
* (e) `UnicastPrivate` rests on cooperative scheduling: with `Preemptive = TRUE` a
  frame can be queued for the next phone in a recycled slot, because `ble_gatt.c:637-642` looks the slot up
  before locking it.  `docs/architecture.md:475-476` says the single-writer model, "not the scheduler, is
  what guarantees correctness".
* (f) `proto_handler.c:20-23` and `proto_handler.h:74` say that all decoding runs on the system work
  queue; `proto_decode_toradio` and the encoders run on BT RX (and `proto_encode_heartbeat` on the work
  queue).  No scratch struct is shared between the two, so nothing follows from it today.
* (g) The documents still describe a goodbye without teardown: `docs/upstream-session-robustness.md:162-164`
  ("a phone that ends its API session without dropping the BLE link leaks its proxy slot", listed as
  not implemented), `docs/disconnect-flow.md:4` ("pending"), `:72-77` ("It has no other teardown
  trigger") and `:112-114` ("Today only the first is done"), and `docs/fromradio-routing.md:90`
  ("a separate open item").  The code does both: `main.c:98-112` calls `ble_gatt_request_teardown`, which marks
  the slot and drops the link 250 ms later (`ble_gatt.c:833-854`, `:425-452`).  `LeavingIsReleased`
  shows that such a slot is released, unless `bt_conn_disconnect` fails; then it is stuck as the
  documents say, but `LeavingIsQuiet` keeps its queue from overflowing.
* (h) A config_complete dispatched between `upstream_session.c:395` and `396` publishes the cache and
  cancels the fetch watchdog, which main then arms in LIVE.  It fires once, finds no fetch under way and
  returns (`upstream_session.c:319-334`), so nothing follows from it.
* (i) `on_connected` with an error returns (`ble_gatt.c:501-504`) without starting advertising again:
  if the stack ended it for the attempt, no phone finds the proxy until another one disconnects.
* A reboot notice that arrives during the boot fetch is cached and replayed;
  `docs/fromradio-routing.md`, footnote 1, calls that harmless.

## 8. Not modelled

* Statistics, LEDs, route trace and logs: they influence nothing.  `pbx_stats.c` is not
  compiled and has no caller.
* `tools/`: host-side scripts.
* The wire format (nanopb); failing encoders (each message has at most 8 bytes, each buffer
  at least 16); the config_complete branch for a frame that does not decode inside the
  session (the router has decoded it by then).
* The text renderings of ids and headers in `proxy_protocol.c`: no caller.
* Parking (`ble_gatt_park_pending`, `s_pending`, `serve_pending_phones`): unreachable,
  section 7.
* Failing initialisation in `main`: the firmware returns and does nothing more.
* The value of FROMNUM, LOGRADIO (always empty), the DMA buffer pair.
* A power cycle: nothing is persisted, so it is a new behaviour from `Init`, in which the
  node is in one of the states `NodeAtBoot`.  The runs have a closed or an open session there; a node in
  the middle of somebody else's burst ("burst") is left to the theorems of `ProxyProofs`, which hold for
  every `NodeAtBoot`.  With it TLC also passes `proxy_safety` and `proxy_live`, and `proxy_line` fails (section 6).

## 9. Plan

Done, in this order: `UartTx`/`TxLink` with proofs, `ConfigCache`/`CacheStore`,
`UpstreamSession`/`Proxy`, `BleGatt`, `UartRx` with proofs; then `ProxyProtocol` with proofs and
`ProtoHandler`, both used by the router models, the faults of the Bluetooth stack and of
`uart_rx_enable`, `Replay`/`Serve`, the refinement from `Proxy` to `CacheStore`, and the proofs of `CacheStore`.

Next, modelling:

1. A composition of `Proxy` and `BleGatt` on one phone: the state space of each is in the
   millions, so it needs a coarser `Proxy` first; `CacheStore` is that for the cache.
2. An abstract specification of one phone's session (config answer, then live frames in
   order) and `BleGatt` shown to implement it.
3. An abstract framing channel and `UartRx` shown to implement it while nothing is lost.

Proofs, done in this order: the transmit path, the receive path's bounds, the protocol header, the cache; the core
of the session and its refinement of `CacheStore`, the line; slots, queues; then the three invariants about
whole streams: `ServedExact`, `ReplayExact` and `StreamDelivered`.

Next, proofs: `NoLostDoorbell` for phones that have replayed and have since been notified again, which needs the
property restated per notification first; and the refinements of the abstract specifications 2 and 3 above, for which `ReplayInv` and
`StreamInv` already are the invariants.

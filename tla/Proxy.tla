------------------------------- MODULE Proxy -------------------------------
(***************************************************************************)
(* The proxy core: the upstream session composed with router.c and main.c, *)
(* the serial link, and the Meshtastic node at its far end.                *)
(*                                                                         *)
(* Threads: main (boot), the system work queue (frame dispatch and the     *)
(* three timers), BT RX (ToRadio writes).  The node, its config session,   *)
(* its reboots and the losses on the line are the environment, modelled    *)
(* from what router.c, upstream_session.c and the docs say of it.          *)
(*                                                                         *)
(* The BLE side is left out here: route(f) says which frames are handed to *)
(* it; how a broadcast or a replay reaches a phone is BleGatt's subject.   *)
(***************************************************************************)
EXTENDS UpstreamSession

CONSTANTS
  BurstLen,     \* config frames the node sends before its config_complete
  DownCap,      \* bound: frames on the line from the node
  PhoneWrites,  \* the ToRadio variants phones write in this instance
  PhoneRoom,    \* bound: phones write packets only while Len(txq) < PhoneRoom
  MaxClose,     \* bound: node session deaths (reboots and serial timeouts)
  MaxLoss,      \* bound: messages lost on the line, both directions together
  NodeAtBoot,   \* what the node may be doing when the proxy boots
  Timing        \* which durations are taken as long enough; see Settled

ASSUME ProxyAssumption ==
  /\ {BurstLen, DownCap, PhoneRoom, MaxClose, MaxLoss} \subseteq Nat
  /\ PhoneWrites \subseteq {"want_config", "heartbeat", "disconnect", "packet", "malformed"}
  /\ NodeAtBoot \subseteq {"closed", "burst", "open"}
  /\ Timing \subseteq {"start", "retry", "keepalive", "liveness", "phones"}

VARIABLES
  main,         \* main(): "boot" -> "starting" (want_config sent)
                \*   -> "arming" (state FETCHING) -> "idle"
  node,         \* PhoneAPI session of the node: "closed", "burst", "open"
  node_nonce,   \* nonce of the want_config it is answering
  node_pos,     \* next frame of its burst
  down,         \* FromRadio frames on the line, oldest first
  closes, losses,
  stray         \* history, kept where keepalives are apart: the reply to the
                \* last one was lost, or was consumed by a fetch

environment == <<main, node, node_nonce, node_pos, down, closes, losses, stray>>
vars == <<s_state, s_nonce, s_keepalive_armed, s_keepalive_nonce,
          s_keepalive_pending, fetch_retry, liveness, cache, txq,
          main, node, node_nonce, node_pos, down, closes, losses, stray>>

Init ==
  /\ SessionInit
  /\ main = "boot"
  /\ node \in NodeAtBoot /\ node_nonce = 0 /\ node_pos = 1
  /\ down = <<>> /\ closes = 0 /\ losses = 0 /\ stray = FALSE

\* Nothing is under way on the line and the node has nothing more to say.
Settled == txq = <<>> /\ down = <<>> /\ node # "burst"

\* A config burst was asked for and has not been received to its end.  Mesh
\* packets are not part of it: they do not push the retry watchdog out either.
BurstUnderWay ==
  \/ node = "burst"
  \/ \E i \in DOMAIN txq : txq[i].t = "want_config"
  \/ \E i \in DOMAIN down : down[i].variant \notin {"packet", "garbled"}

\* Durations.  A timer named in Timing is long compared with an exchange on
\* the serial line, so it never fires in the middle of one; with "phones", a
\* phone's packet is answered before the next is written.
LongEnough(timer) ==
  timer \in Timing => IF timer = "retry" THEN ~ BurstUnderWay ELSE Settled

----------------------------------------------------------------------------
(* main() *)

MainStart(r) ==
  /\ main = "boot"
  /\ main' = "starting"
  /\ upstream_session_start_send(r)
  /\ UNCHANGED <<node, node_nonce, node_pos, down, closes, losses, stray>>

MainFetching ==
  /\ main = "starting"
  /\ main' = "arming"
  /\ upstream_session_start_fetching
  /\ UNCHANGED <<node, node_nonce, node_pos, down, closes, losses, stray>>

MainStarted ==
  /\ main = "arming"
  /\ main' = "idle"
  /\ upstream_session_start_arm
  /\ UNCHANGED <<node, node_nonce, node_pos, down, closes, losses, stray>>

----------------------------------------------------------------------------
(* Timers, on the system work queue *)

Keepalive == /\ LongEnough("keepalive")
             /\ keepalive_work_handler
             /\ stray' = FALSE
             /\ UNCHANGED <<main, node, node_nonce, node_pos, down, closes, losses>>

FetchRetry == /\ LongEnough("retry")
              /\ fetch_retry_handler
              /\ UNCHANGED environment

Liveness == /\ LongEnough("liveness")
            /\ liveness_handler
            /\ UNCHANGED environment

----------------------------------------------------------------------------
(* on_fromradio_uart -> router_dispatch, on the system work queue *)

\* Mutant: only the boot fetch consumes frames.
route_boot_only(f) ==
  LET variant == proto_decode_fromradio(f)[2].which_variant IN
  IF proto_decode_fromradio(f)[1] # 0 THEN "raw"
  ELSE IF s_state = "FETCHING" /\ variant # "packet" THEN "consumed"
  ELSE IF variant = "rebooted" THEN "absorbed"
  ELSE IF variant = "queueStatus" /\ s_keepalive_pending THEN "swallowed"
  ELSE "phones"

\* Where a frame goes.  An undecodable frame is broadcast raw before the
\* router sees it; the fetch window consumes all but mesh packets; a reboot
\* notice is absorbed; a queueStatus is swallowed while a keepalive reply is
\* expected; the rest goes to the phones.
route(f) ==
  LET variant == proto_decode_fromradio(f)[2].which_variant IN
  IF proto_decode_fromradio(f)[1] # 0 THEN "raw"
  ELSE IF Fetching /\ variant # "packet" THEN "consumed"
  ELSE IF variant = "rebooted" THEN "absorbed"
  ELSE IF variant = "queueStatus" /\ s_keepalive_pending THEN "swallowed"
  ELSE "phones"

\* The frame handed to ble_gatt.c is proof of life; so is not the rest.
ToPhones == /\ upstream_liveness_kick
            /\ UNCHANGED <<s_state, s_nonce, s_keepalive_armed, s_keepalive_nonce,
                           s_keepalive_pending, fetch_retry, cache, txq>>

\* Mutant: the flag outlives the reply it was set for.
SwallowAgain == UNCHANGED session

\* upstream_swallow_live_queuestatus
Swallow == /\ s_keepalive_pending' = FALSE
           /\ UNCHANGED <<s_state, s_nonce, s_keepalive_armed, s_keepalive_nonce,
                          fetch_retry, liveness, cache, txq>>

router_dispatch(f) ==
  \/ route(f) = "raw" /\ UNCHANGED session
  \/ route(f) = "consumed" /\ upstream_on_fromradio(f)
  \/ route(f) = "absorbed" /\ upstream_refetch /\ UNCHANGED liveness
  \/ route(f) = "swallowed" /\ Swallow
  \/ route(f) = "phones" /\ ToPhones

\* The answer to the proxy's own heartbeat.
IsOwnReply(f) == f.variant = "queueStatus" /\ f.data = 1

\* The reply to a heartbeat will not be there to be swallowed.
Strays(b) == stray' = (stray \/ ("keepalive" \in Timing /\ b))

\* Main is preempted by the work queue only briefly: with "start" in Timing it
\* reaches the end of upstream_session_start before the node's answer does.
MayDispatch == down # <<>> /\ ("start" \in Timing => main \notin {"starting", "arming"})

Dispatch ==
  /\ MayDispatch
  /\ router_dispatch(Head(down))
  /\ down' = Tail(down)
  /\ IF route(Head(down)) = "swallowed" THEN stray' = FALSE
     ELSE Strays(route(Head(down)) = "consumed" /\ IsOwnReply(Head(down)))
  /\ UNCHANGED <<main, node, node_nonce, node_pos, closes, losses>>

----------------------------------------------------------------------------
(* toradio_write -> on_toradio_ble, on the BT RX thread *)

\* Only real packets, and writes that do not decode, go to the node: a
\* want_config, a heartbeat and a disconnect are dealt with on the BLE side.
forwards(m) ==
  LET ti == proto_decode_toradio(m) IN
  \/ ti[1] # 0
  \/ ~ (ti[2].has_want_config \/ ti[2].has_heartbeat \/ ti[2].has_disconnect)

\* A want_config is replayed in LIVE; in any other state it returns early.
want_config_answer == IF s_state = "LIVE" THEN "replay" ELSE "none"

\* A forwarded packet also pushes the keepalive out, which stays armed.
on_toradio_ble(t) ==
  /\ LongEnough("phones")
  /\ Len(txq) < PhoneRoom
  /\ LET m == ToRadio(t, 0, "phone") IN
       IF forwards(m) THEN uart_meshtastic_tx(m) ELSE UNCHANGED txq
  /\ UNCHANGED <<s_state, s_nonce, s_keepalive_armed, s_keepalive_nonce,
                 s_keepalive_pending, fetch_retry, liveness, cache>>
  /\ UNCHANGED environment

----------------------------------------------------------------------------
(* The node and the line *)

\* A heartbeat is answered in every state, a packet only in an open session;
\* want_config (re)starts the burst, disconnect closes the session.
NodeReply(m) ==
  CASE m.t = "heartbeat"                 -> <<FromRadio("queueStatus", 1)>>
    [] m.t = "packet" /\ node = "open"   -> <<FromRadio("queueStatus", 0)>>
    [] OTHER                             -> <<>>

NodeReceive ==
  /\ txq # <<>> /\ Len(down) < DownCap
  /\ LET m == Head(txq) IN
       /\ down' = down \o NodeReply(m)
       /\ node' = CASE m.t = "want_config" -> "burst"
                    [] m.t = "disconnect"  -> "closed"
                    [] OTHER               -> node
       /\ node_nonce' = IF m.t = "want_config" THEN m.n ELSE node_nonce
       /\ node_pos' = IF m.t = "want_config" THEN 1 ELSE node_pos
  /\ txq' = Tail(txq)
  /\ UNCHANGED <<s_state, s_nonce, s_keepalive_armed, s_keepalive_nonce,
                 s_keepalive_pending, fetch_retry, liveness, cache,
                 main, closes, losses, stray>>

\* The next frame of the burst; the config_complete opens the session.
NodeBurst ==
  /\ node = "burst" /\ Len(down) < DownCap
  /\ IF node_pos <= BurstLen
     THEN /\ down' = Append(down, FromRadio("config", node_pos))
          /\ node_pos' = node_pos + 1
          /\ UNCHANGED node
     ELSE /\ down' = Append(down, FromRadio("config_complete", node_nonce))
          /\ node' = "open"
          /\ node_pos' = 1
  /\ UNCHANGED session
  /\ UNCHANGED <<main, node_nonce, closes, losses, stray>>

\* Live mesh traffic.
NodePacket ==
  /\ node = "open" /\ Len(down) < DownCap
  /\ down' = Append(down, FromRadio("packet", MeshPacket("decoded", 1, <<>>)))
  /\ UNCHANGED session
  /\ UNCHANGED <<main, node, node_nonce, node_pos, closes, losses, stray>>

NodeReboot ==
  /\ closes < MaxClose /\ Len(down) < DownCap
  /\ node' = "closed" /\ node_pos' = 1
  /\ down' = Append(down, FromRadio("rebooted", 0))
  /\ closes' = closes + 1
  /\ UNCHANGED session
  /\ UNCHANGED <<main, node_nonce, losses, stray>>

\* The 15-minute serial timeout closes the session without a word.
NodeTimeout ==
  /\ closes < MaxClose /\ node = "open"
  /\ node' = "closed"
  /\ closes' = closes + 1
  /\ UNCHANGED session
  /\ UNCHANGED <<main, node_nonce, node_pos, down, losses, stray>>

\* A ToRadio reaches a node whose serial API is not up, or is garbled.
LoseUp ==
  /\ txq # <<>> /\ losses < MaxLoss
  /\ txq' = Tail(txq)
  /\ losses' = losses + 1
  /\ Strays(Head(txq).t = "heartbeat")
  /\ UNCHANGED <<s_state, s_nonce, s_keepalive_armed, s_keepalive_nonce,
                 s_keepalive_pending, fetch_retry, liveness, cache,
                 main, node, node_nonce, node_pos, down, closes>>

\* Receive overrun: the newest frame vanishes, or arrives undecodable.
LoseDown ==
  /\ down # <<>> /\ losses < MaxLoss
  /\ LET rest == SubSeq(down, 1, Len(down) - 1) IN
       down' \in {rest, Append(rest, FromRadio("garbled", 0))}
  /\ losses' = losses + 1
  /\ Strays(IsOwnReply(down[Len(down)]))
  /\ UNCHANGED session
  /\ UNCHANGED <<main, node, node_nonce, node_pos, closes>>

----------------------------------------------------------------------------
Next ==
  \/ \E r \in 0 .. NonceMax : MainStart(r)
  \/ MainFetching \/ MainStarted
  \/ Keepalive \/ FetchRetry \/ Liveness
  \/ Dispatch
  \/ \E t \in PhoneWrites : on_toradio_ble(t)
  \/ NodeReceive \/ NodeBurst \/ NodePacket \/ NodeReboot \/ NodeTimeout
  \/ LoseUp \/ LoseDown

Spec == Init /\ [][Next]_vars

\* main runs on, the work queue runs what is queued and what has expired, the
\* UART shifts frames out and the node answers; phones and faults owe nothing.
\* The retry watchdog is strongly fair: only the node's answers push it out,
\* and the line falls silent for 2 s again and again.  A dead session sends
\* nothing, so 30 minutes of silence do pass while it lasts.  The node is
\* strongly fair because DownCap bounds the model, not the line.
FairSpec ==
  /\ Spec
  /\ WF_vars(\E r \in 0 .. NonceMax : MainStart(r))
  /\ WF_vars(MainFetching) /\ WF_vars(MainStarted)
  /\ WF_vars(Dispatch)
  /\ SF_vars(FetchRetry) /\ WF_vars(node = "closed" /\ Liveness)
  /\ SF_vars(NodeReceive) /\ SF_vars(NodeBurst)

----------------------------------------------------------------------------
(* Properties *)

Nonce == 0 .. NonceMax

\* Types, and nothing on the line that is not a message of its direction.
ProxyTypeOK ==
  /\ s_state \in UpstreamState /\ s_nonce \in Nonce
  /\ s_keepalive_armed \in BOOLEAN /\ s_keepalive_pending \in BOOLEAN
  /\ s_keepalive_nonce \in Nonce
  /\ fetch_retry \in BOOLEAN /\ liveness \in BOOLEAN
  /\ cache.ready \in BOOLEAN /\ Len(cache.index) <= MaxFrames
  /\ \A i \in DOMAIN txq :
       txq[i].t \in {"want_config", "heartbeat", "packet", "malformed"}
  /\ Len(txq) <= TxDepth
  /\ main \in {"boot", "starting", "arming", "idle"}
  /\ node \in {"closed", "burst", "open"} /\ node_nonce \in Nonce
  /\ node_pos \in 1 .. BurstLen + 1
  /\ Len(down) <= DownCap

\* Whenever a fetch is under way, boot or recovery, the no-progress watchdog is
\* armed, whatever failed on the way in and wherever the work queue cut into
\* main: a lost want_config or config_complete can never strand the session.
\* The one exception is main between its last two statements (s_state, then
\* the watchdog), which it always leaves.  The converse is not claimed: a burst
\* that ends between those two leaves the watchdog armed in LIVE, once.
WatchdogCoversFetch == Fetching /\ main # "arming" => fetch_retry

\* Once the session has gone LIVE the cache is published, and it stays so
\* through every recovery: on_toradio_ble may replay it without asking.
LiveHasCache == cache.ready <=> s_state \in {"LIVE", "REFETCHING"}

\* No message the proxy makes carries nonce 0 or 1 (1 makes the node rebroadcast
\* its NodeInfo), through random draws and the keepalive counter's wrap.
NoncesLegal ==
  \A i \in DOMAIN txq : txq[i].from = "proxy" => txq[i].n \notin {0, 1}

\* What the index and the arena hold, as frames.
StoredFrames ==
  [i \in DOMAIN cache.index |->
     LET r == cache.index[i] IN
     [variant |-> r.variant, data |-> cache.arena[r.offset][1], len |-> r.len]]

Store == INSTANCE CacheStore
           WITH burst <- StoredFrames, MaxLen <- 1,
                Variant <- {"config", "config_complete", "queueStatus", "rebooted"},
                Data <- 0 .. BurstLen + NonceMax

\* Whatever the line, the node and the timers do, the session drives the cache
\* as CacheStore allows: a burst is restarted only before it is published, and
\* a published cache is never withdrawn and gains terminators only, so what a
\* phone is replayed stays as it was, byte for byte.  This is Store!Spec: a step
\* that leaves the cache alone leaves StoredFrames alone, and stutters there.
CacheImplementsStore == Store!Init /\ [][cache' # cache => Store!Next]_cache

\* From the moment a want_config is sent until the fetch ends, the nonce that
\* its config_complete must match is not changed by anything (a reboot notice
\* seen before main finished starting, a liveness timeout during recovery).
FetchNonceKept ==
  [][main # "boot" /\ s_state # "LIVE" => s_nonce' = s_nonce]_vars

\* Phones cannot disturb the node's one shared session: it leaves "open" on
\* what it receives only when the proxy itself asks for its config again.
NodeSessionUndisturbed ==
  [][node = "open" /\ node' # "open" /\ txq' # txq
       => Head(txq).t = "want_config" /\ Head(txq).from = "proxy"]_vars

\* The proxy's own config burst never leaks to the phones, across losses,
\* retries, reboots and recoveries (for timers longer than an exchange).
BurstNeverBroadcast ==
  MayDispatch => ~ /\ Head(down).variant \in {"config", "config_complete"}
                   /\ route(Head(down)) = "phones"

\* The entries of the index that are config frames, and what is found there: the
\* frame's position in the burst, and 0 for its first byte.
ConfigRefs == {i \in DOMAIN cache.index : cache.index[i].variant = "config"}
FirstByte(i) == cache.arena[cache.index[i].offset]

\* Unless the line lost a frame or the cache is full (frames are then dropped,
\* and logged), a published cache holds the whole burst, each frame once and in
\* order, even when the node rebooted or the watchdog restarted the fetch.
PublishedIsWholeBurst ==
  losses = 0 /\ cache.ready /\ cache_fits(cache, FromRadio("config", 1)) =>
    /\ {FirstByte(i) : i \in ConfigRefs} = (1 .. BurstLen) \X {0}
    /\ \A i, j \in ConfigRefs : i < j => FirstByte(i)[1] < FirstByte(j)[1]

\* The answer to the proxy's own heartbeat never reaches the phones, and so
\* never passes for proof of life of a dead session: the flag set before the
\* transmit is still up when the answer comes, whatever was lost in between.
KeepaliveReplyHidden ==
  MayDispatch /\ route(Head(down)) = "phones" => ~ IsOwnReply(Head(down))

\* The converse: s_keepalive_pending is a flag, not a match, yet the answer to a
\* phone's packet is only ever swallowed in place of a reply that was lost or
\* consumed by a fetch, one answer for each such reply.
PhonesKeepTheirAnswers ==
  MayDispatch /\ route(Head(down)) = "swallowed" =>
    IsOwnReply(Head(down)) \/ stray

\* The boot fetch completes: whatever is lost or rebooted at first, phones
\* get a published cache and live routing.
BootCompletes == <>(s_state = "LIVE" /\ cache.ready)

\* A dead node session (reboot, serial timeout, lost want_config) is always
\* reopened and the proxy is back in LIVE with it.
SessionRecovers == (node = "closed") ~> (node = "open" /\ s_state = "LIVE")

----------------------------------------------------------------------------
(* What the documentation says and the code does not do *)

\* upstream-session-robustness.md, 3.2: the cache "stays valid and servable
\* throughout", also for a phone that asks for its config in mid-refetch.
\* on_toradio_ble answers nothing then.
ServedWhilePublished == cache.ready => want_config_answer = "replay"
=============================================================================

-------------------------- MODULE UpstreamSession --------------------------
(***************************************************************************)
(* The proxy's single config session with the node (upstream_session.c).   *)
(* Every handler here runs to completion on the system work queue, so each *)
(* is one action; only upstream_session_start runs on the preemptible main *)
(* thread and is cut in three, at the two points where the work queue can  *)
(* see it half done: want_config already sent, state still BOOT; and state *)
(* FETCHING, the watchdog not yet armed.                                   *)
(*                                                                         *)
(* A delayable work item is a Boolean: "armed".  Durations are abstracted: *)
(* an armed item may fire at any moment (see Proxy for the timed runs).    *)
(* s_pending stays empty: main.c drops a want_config before it could be    *)
(* parked, so serve_pending_phones has nobody to serve.                    *)
(***************************************************************************)
EXTENDS ConfigCache, ProtoHandler

CONSTANTS NonceMax,          \* nonces are 0 .. NonceMax, and wrap there
          TxDepth            \* TX_QUEUE_DEPTH of the UART transmit queue

ASSUME SessionAssumption == /\ NonceMax \in Nat /\ NonceMax >= 2
                            /\ TxDepth \in Nat \ {0}

VARIABLES s_state, s_nonce,
          s_keepalive_armed, \* s_keepalive_work initialised and running
          s_keepalive_nonce, s_keepalive_pending,
          fetch_retry,       \* s_fetch_retry_work armed
          liveness,          \* s_liveness_work armed
          cache,             \* config_cache.c
          txq                \* ToRadio messages accepted by uart_meshtastic_tx

session == <<s_state, s_nonce, s_keepalive_armed, s_keepalive_nonce,
             s_keepalive_pending, fetch_retry, liveness, cache, txq>>

UpstreamState == {"BOOT", "FETCHING", "LIVE", "REFETCHING"}
Fetching == s_state \in {"FETCHING", "REFETCHING"}

SessionInit ==
  /\ s_state = "BOOT" /\ s_nonce = 0
  /\ s_keepalive_armed = FALSE /\ s_keepalive_nonce = 2
  /\ s_keepalive_pending = FALSE
  /\ fetch_retry = FALSE /\ liveness = FALSE
  /\ cache = EmptyCache
  /\ txq = <<>>

TxFull == Len(txq) >= TxDepth

\* uart_meshtastic_tx: -ENOMEM when the queue is full (see UartTx).
uart_meshtastic_tx(m) == txq' = IF TxFull THEN txq ELSE Append(txq, m)

\* Mutant: the nonce is used as drawn.
RawNonce(r) == r

\* sys_rand32_get(), with 0 and 1 bumped to 2.
LegalNonce(r) == IF r \in {0, 1} THEN 2 ELSE r

send_want_config(n) == uart_meshtastic_tx(ToRadio("want_config", n, "proxy"))

----------------------------------------------------------------------------
upstream_session_start_send(r) ==
  /\ s_keepalive_armed' = TRUE
  /\ s_nonce' = LegalNonce(r)
  /\ cache' = cache_begin(cache)
  /\ send_want_config(LegalNonce(r))
  /\ UNCHANGED <<s_state, s_keepalive_nonce, s_keepalive_pending, fetch_retry, liveness>>

\* The same whether the transmit succeeded or failed: the watchdog retries.
upstream_session_start_fetching ==
  /\ s_state' = "FETCHING"
  /\ UNCHANGED <<s_nonce, s_keepalive_armed, s_keepalive_nonce,
                 s_keepalive_pending, fetch_retry, liveness, cache, txq>>

\* Mutant: the boot fetch is left without its watchdog.
start_arm_forgotten == UNCHANGED session

\* The state may have moved on since: armed in LIVE, the watchdog fires once
\* and does nothing.
upstream_session_start_arm ==
  /\ fetch_retry' = TRUE
  /\ UNCHANGED <<s_state, s_nonce, s_keepalive_armed, s_keepalive_nonce,
                 s_keepalive_pending, liveness, cache, txq>>

\* Mutant: the handler does not note that a reply will come.
keepalive_unmarked ==
  /\ s_keepalive_armed
  /\ s_keepalive_nonce' = LegalNonce((s_keepalive_nonce + 1) % (NonceMax + 1))
  /\ uart_meshtastic_tx(proto_encode_heartbeat(s_keepalive_nonce))
  /\ UNCHANGED <<s_state, s_nonce, s_keepalive_armed, s_keepalive_pending,
                 fetch_retry, liveness, cache>>

\* The work re-arms itself on every path; the flag is set before the
\* transmit and taken back when the transmit fails.
keepalive_work_handler ==
  /\ s_keepalive_armed
  /\ s_keepalive_nonce' = LegalNonce((s_keepalive_nonce + 1) % (NonceMax + 1))
  /\ s_keepalive_pending' = ~ TxFull
  /\ uart_meshtastic_tx(proto_encode_heartbeat(s_keepalive_nonce))
  /\ UNCHANGED <<s_state, s_nonce, s_keepalive_armed, fetch_retry, liveness, cache>>

\* Mutant: the boot resend appends to the partial burst.
fetch_retry_appends ==
  /\ fetch_retry
  /\ fetch_retry' = Fetching
  /\ IF Fetching THEN send_want_config(s_nonce) ELSE UNCHANGED txq
  /\ UNCHANGED <<s_state, s_nonce, s_keepalive_armed, s_keepalive_nonce,
                 s_keepalive_pending, liveness, cache>>

\* Mutant: a recovery resend empties the cache too.
fetch_retry_clears ==
  /\ fetch_retry
  /\ fetch_retry' = Fetching
  /\ cache' = cache_begin(cache)
  /\ IF Fetching THEN send_want_config(s_nonce) ELSE UNCHANGED txq
  /\ UNCHANGED <<s_state, s_nonce, s_keepalive_armed, s_keepalive_nonce,
                 s_keepalive_pending, liveness>>

\* Mutant: the watchdog fires once and does not re-arm itself.
fetch_retry_once ==
  /\ fetch_retry
  /\ fetch_retry' = FALSE
  /\ cache' = IF s_state = "FETCHING" THEN cache_begin(cache) ELSE cache
  /\ IF Fetching THEN send_want_config(s_nonce) ELSE UNCHANGED txq
  /\ UNCHANGED <<s_state, s_nonce, s_keepalive_armed, s_keepalive_nonce,
                 s_keepalive_pending, liveness>>

\* Resends with the nonce of the fetch in flight, and re-arms itself.  A boot
\* resend first empties the cache.  Outside a fetch it returns, not re-armed.
fetch_retry_handler ==
  /\ fetch_retry
  /\ fetch_retry' = Fetching
  /\ cache' = IF s_state = "FETCHING" THEN cache_begin(cache) ELSE cache
  /\ IF Fetching THEN send_want_config(s_nonce) ELSE UNCHANGED txq
  /\ UNCHANGED <<s_state, s_nonce, s_keepalive_armed, s_keepalive_nonce,
                 s_keepalive_pending, liveness>>

\* Mutant: a refetch is also started while one is under way.
upstream_refetch_always ==
  /\ UNCHANGED <<s_keepalive_armed, s_keepalive_nonce, s_keepalive_pending, cache>>
  /\ \E r \in 0 .. NonceMax :
       /\ s_nonce' = LegalNonce(r)
       /\ send_want_config(LegalNonce(r))
       /\ s_state' = IF TxFull THEN s_state ELSE "REFETCHING"
       /\ fetch_retry' = (fetch_retry \/ ~ TxFull)

\* A failed transmit leaves LIVE and the timers alone, but the nonce is gone.
upstream_refetch ==
  /\ UNCHANGED <<s_keepalive_armed, s_keepalive_nonce, s_keepalive_pending, cache>>
  /\ IF s_state # "LIVE" THEN UNCHANGED <<s_state, s_nonce, fetch_retry, txq>>
     ELSE \E r \in 0 .. NonceMax :
            /\ s_nonce' = LegalNonce(r)
            /\ send_want_config(LegalNonce(r))
            /\ s_state' = IF TxFull THEN s_state ELSE "REFETCHING"
            /\ fetch_retry' = (fetch_retry \/ ~ TxFull)

\* The item has fired: it is no longer armed, whatever the refetch does.
liveness_handler ==
  /\ liveness
  /\ liveness' = FALSE
  /\ upstream_refetch

\* Mutant: a frame after the burst disarms the liveness watchdog.
liveness_disarmed == liveness' = FALSE

upstream_liveness_kick == liveness' = (liveness \/ s_state = "LIVE")

\* Mutant: LIVE is reached without publishing the cache.
CloseBurstUnpublished ==
  /\ s_state' = "LIVE"
  /\ liveness' = TRUE
  /\ fetch_retry' = FALSE
  /\ UNCHANGED cache

\* Our config_complete: publish (boot fetch) or just return to LIVE (recovery).
CloseBurst ==
  /\ cache' = IF s_state = "FETCHING" THEN cache_mark_ready(cache) ELSE cache
  /\ s_state' = "LIVE"
  /\ liveness' = TRUE
  /\ fetch_retry' = FALSE

\* A foreign config_complete is cached in both states, any other frame only
\* by the boot fetch; each is progress and pushes the watchdog out.
ConsumeFrame(f) ==
  /\ cache' = IF f.variant = "config_complete" \/ s_state = "FETCHING"
              THEN cache_add_frame(cache, f) ELSE cache
  /\ fetch_retry' = TRUE
  /\ UNCHANGED <<s_state, liveness>>

\* Called while fetching, for a frame that is not a mesh packet.
upstream_on_fromradio(f) ==
  /\ IF f.variant = "config_complete" /\ f.data = s_nonce
     THEN CloseBurst ELSE ConsumeFrame(f)
  /\ UNCHANGED <<s_nonce, s_keepalive_armed, s_keepalive_nonce, s_keepalive_pending, txq>>
=============================================================================

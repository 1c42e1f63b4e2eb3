------------------------------- MODULE Serve -------------------------------
(***************************************************************************)
(* The cache and one of its readers: the session fills and publishes the   *)
(* cache on the system work queue while a phone is replayed from it on BT  *)
(* RX, a frame per read.  Nothing locks the cache; the phone keeps a       *)
(* cursor, so what it is served depends on the cache as it is at each      *)
(* read, and a foreign config_complete may be appended between any two.    *)
(***************************************************************************)
EXTENDS CacheStore, Replay

CONSTANT Nonces    \* what the phone asks for its config with

ASSUME ServeAssumption == Nonces \subseteq Nat \ {0}

VARIABLES pc,      \* the replay fields of the phone's slot
          want,    \* history: nonce it last asked with, 0 before
          got,     \* history: what it has read since, as bytes
          since    \* history: frames cached when it asked

phone == <<pc, want, got, since>>
serveVars == <<cache, burst, pc, want, got, since>>

ServeInit ==
  /\ Init
  /\ pc = [state |-> "CONNECTED", nonce |-> 0, replay_cursor |-> 0,
           cc_frame |-> FromRadio("none", 0)]
  /\ want = 0 /\ got = <<>> /\ since = 0

\* on_toradio_ble: answered in LIVE only, when the cache is published.
WantConfig(nonce) ==
  /\ cache.ready
  /\ pc' = arm_replay(pc, nonce)
  /\ want' = nonce /\ got' = <<>> /\ since' = cache_frame_count(cache)
  /\ UNCHANGED <<cache, burst>>

\* The bytes a read stages: of the cached frame, or of the terminator.
Bytes(item) ==
  IF item.cached THEN cache_frame_bytes(cache, cache_frame_at(cache, item.v))
  ELSE [i \in 0 .. 0 |-> <<item.v.data, item.v.variant>>]

fromradio_read ==
  LET r == Replayed(cache, pc) IN
  /\ pc.state = "REPLAYING"
  /\ pc' = r[2]
  /\ got' = got \o [i \in DOMAIN r[1] |-> Bytes(r[1][i])]
  /\ UNCHANGED <<cache, burst, want, since>>

ServeNext ==
  \/ Next /\ UNCHANGED phone
  \/ \E n \in Nonces : WantConfig(n)
  \/ fromradio_read

ServeSpec == ServeInit /\ [][ServeNext]_serveVars

----------------------------------------------------------------------------
\* The segment of the accepted burst that a nonce stands for, as positions: the
\* node list, everything but the other nodes, or all of it; never a terminator.
Segment(nonce) ==
  {i \in 1 .. Len(burst) :
     CASE burst[i].variant = "config_complete" -> FALSE
       [] burst[i].variant = "node_info"       -> nonce = ONLY_CONFIG => FirstNodeInfo(i)
       [] OTHER                                -> nonce # ONLY_NODES}

Terminator(nonce) == [i \in 0 .. 0 |-> <<nonce, "config_complete">>]

\* A phone is served its segment of the published burst, whole, in order and
\* byte for byte, and then the terminator with its own nonce, whatever is
\* appended to the cache meanwhile.  A foreign config_complete cached between
\* the terminator and the read that would have come back empty moves the end of
\* the cache past the cursor, and the terminator is served again: at most once
\* for each such frame.
ServedExact ==
  want # 0 =>
    LET seg == Segment(want)
        n   == Cardinality(seg)
    IN /\ \A i \in seg : Rank(seg, i) <= Len(got) =>
            got[Rank(seg, i)] = [b \in 0 .. burst[i].len - 1 |-> <<burst[i].data, b>>]
       /\ \A k \in n + 1 .. Len(got) : got[k] = Terminator(want)
       /\ Len(got) - n <= 1 + cache_frame_count(cache) - since
=============================================================================

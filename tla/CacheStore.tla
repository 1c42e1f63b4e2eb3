----------------------------- MODULE CacheStore -----------------------------
(***************************************************************************)
(* The config cache as a component of its own, driven the way              *)
(* upstream_session.c drives it: begin (boot fetch and every boot resend), *)
(* add (burst frames, and the foreign config_complete that is added even   *)
(* after publication), mark ready.  burst remembers the frames that were   *)
(* accepted, which is what the replay must find again in the arena.        *)
(***************************************************************************)
EXTENDS ConfigCache

CONSTANTS Variant,           \* the variants of cached frames that occur
          Data,              \* identities of frame contents
          MaxLen             \* longest frame of the instance, in bytes

ASSUME StoreAssumption == MaxLen \in Nat

VARIABLES cache, burst

vars == <<cache, burst>>

Frame   == [variant : Variant, data : Data, len : 1 .. MaxLen]

Init == cache = EmptyCache /\ burst = <<>>

\* upstream_session_start and fetch_retry_handler, while the burst is open.
Begin == /\ ~ cache.ready
         /\ cache' = cache_begin(cache)
         /\ burst' = <<>>

\* upstream_on_fromradio: any frame while fetching; once the cache is
\* published only a config_complete with a foreign nonce is still added.
Add(f) == /\ cache.ready => f.variant = "config_complete"
          /\ cache' = cache_add_frame(cache, f)
          /\ burst' = IF cache_fits(cache, f) THEN Append(burst, f) ELSE burst

MarkReady == /\ ~ cache.ready
             /\ cache' = cache_mark_ready(cache)
             /\ UNCHANGED burst

Next == Begin \/ MarkReady \/ \E f \in Frame : Add(f)

Spec == Init /\ [][Next]_vars

----------------------------------------------------------------------------
Byte == {NoByte} \cup (Data \X (0 .. MaxLen))
Ref  == [offset : 0 .. ArenaBytes, len : 1 .. MaxLen, variant : Variant]

\* The index never outgrows the arrays it describes.
CacheTypeOK ==
  /\ cache \in [arena : [0 .. ArenaBytes - 1 -> Byte], index : Seq(Ref),
                used : 0 .. ArenaBytes, ready : BOOLEAN,
                queuestatus_idx : -1 .. MaxFrames, own_nodeinfo_idx : -1 .. MaxFrames]
  /\ burst \in Seq(Frame)
  /\ Len(cache.index) <= MaxFrames

\* Every reference of the index still finds, in the shared arena, exactly the
\* bytes of the frame that was accepted in that position of the burst: no
\* later memcpy, refused frame or restarted burst has overwritten a byte of it.
FramesIntact ==
  /\ Len(cache.index) = Len(burst)
  /\ \A i \in 1 .. Len(burst) :
       /\ cache.index[i].len = burst[i].len
       /\ cache.index[i].variant = burst[i].variant
       /\ \A k \in 0 .. burst[i].len - 1 :
            cache.arena[cache.index[i].offset + k] = <<burst[i].data, k>>

\* The two-phase handshake (69420, then 69421) gives a phone every cached
\* frame but the terminators, and gives it twice only the node's own
\* node_info, which is the first node_info of the current burst.
SegmentsCover ==
  \A i \in 1 .. Len(burst) :
    LET inConfig == cache_frame_in_segment(cache, i - 1, ONLY_CONFIG)
        inNodes  == cache_frame_in_segment(cache, i - 1, ONLY_NODES)
    IN /\ (inConfig \/ inNodes) <=> burst[i].variant # "config_complete"
       /\ (inConfig /\ inNodes) <=> /\ burst[i].variant = "node_info"
                                    /\ \A j \in 1 .. i - 1 : burst[j].variant # "node_info"

----------------------------------------------------------------------------
(* The inductive invariant of the cache. *)

\* Every frame ends where the arena's cursor is, or before.
Packed ==
  \A i \in 1 .. Len(burst) : cache.index[i].offset + cache.index[i].len <= cache.used

FirstNodeInfo(i) == /\ burst[i].variant = "node_info"
                    /\ \A j \in 1 .. i - 1 : burst[j].variant # "node_info"

\* The remembered index is that of the first node_info, -1 when there is none.
OwnIsFirst ==
  /\ cache.own_nodeinfo_idx < Len(burst)
  /\ cache.own_nodeinfo_idx >= 0 => FirstNodeInfo(cache.own_nodeinfo_idx + 1)
  /\ cache.own_nodeinfo_idx < 0 =>
       \A i \in 1 .. Len(burst) : burst[i].variant # "node_info"

StoreInv == CacheTypeOK /\ FramesIntact /\ Packed /\ OwnIsFirst
=============================================================================

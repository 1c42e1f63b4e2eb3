---------------------------- MODULE ConfigCache ----------------------------
(***************************************************************************)
(* The config cache (config_cache.c): one packed byte arena, an index of   *)
(* frame references into it, a ready flag, and the two remembered indices  *)
(* (the last queueStatus, the first node_info).  A cache is a record; each *)
(* function of the C module is an operator on that record, so that the     *)
(* upstream session and the BLE replay use the very same definitions.      *)
(*                                                                         *)
(* A frame is [variant, data, len]: data stands for its bytes, and every   *)
(* byte of the arena remembers whose byte it is and which one.             *)
(***************************************************************************)
EXTENDS Integers, Sequences

CONSTANTS ArenaBytes,        \* CONFIG_CACHE_ARENA_BYTES
          MaxFrames          \* CONFIG_CACHE_MAX_FRAMES

ASSUME CacheAssumption == ArenaBytes \in Nat /\ MaxFrames \in Nat

ONLY_CONFIG == 69420         \* MESH_NONCE_ONLY_CONFIG
ONLY_NODES  == 69421         \* MESH_NONCE_ONLY_NODES

NoByte == <<-1, 0>>

\* Static storage: zeroed, nothing stored, both remembered indices at -1.
EmptyCache == [arena |-> [b \in 0 .. ArenaBytes - 1 |-> NoByte],
               index |-> <<>>, used |-> 0, ready |-> FALSE,
               queuestatus_idx |-> -1, own_nodeinfo_idx |-> -1]

cache_frame_count(c) == Len(c.index)

\* Mutant: the remembered node_info of the previous burst survives.
cache_begin_keeps_own(c) ==
  [c EXCEPT !.ready = FALSE, !.used = 0, !.index = <<>>, !.queuestatus_idx = -1]

\* Everything but the arena's bytes is reset: they are only overwritten.
cache_begin(c) ==
  [c EXCEPT !.ready = FALSE, !.used = 0, !.index = <<>>,
            !.queuestatus_idx = -1, !.own_nodeinfo_idx = -1]

\* Mutant: one frame more than the index holds.
cache_fits_one_more(c, f) == /\ cache_frame_count(c) <= MaxFrames
                             /\ c.used + f.len <= ArenaBytes

\* Both overflow tests reject with -ENOMEM and leave the cache as it was.
cache_fits(c, f) == /\ cache_frame_count(c) < MaxFrames
                    /\ c.used + f.len <= ArenaBytes

\* memcpy of the frame at the arena's cursor.
ArenaWrite(c, f) ==
  [b \in 0 .. ArenaBytes - 1 |-> IF b \in c.used .. c.used + f.len - 1
                                 THEN <<f.data, b - c.used>>
                                 ELSE c.arena[b]]

\* Mutant: the arena's cursor moves one byte short.
cache_add_frame_overlapping(c, f) ==
  IF ~ cache_fits(c, f) THEN c
  ELSE [c EXCEPT
    !.arena = ArenaWrite(c, f),
    !.index = Append(@, [offset |-> c.used, len |-> f.len, variant |-> f.variant]),
    !.used = @ + f.len - 1]

cache_add_frame(c, f) ==
  IF ~ cache_fits(c, f) THEN c
  ELSE [c EXCEPT
    !.arena = ArenaWrite(c, f),
    !.index = Append(@, [offset |-> c.used, len |-> f.len, variant |-> f.variant]),
    !.queuestatus_idx = IF f.variant = "queueStatus" THEN cache_frame_count(c) ELSE @,
    !.own_nodeinfo_idx = IF f.variant = "node_info" /\ @ < 0 THEN cache_frame_count(c) ELSE @,
    !.used = @ + f.len]

cache_mark_ready(c) == [c EXCEPT !.ready = TRUE]

\* Frame references are numbered from 0 in the code; idx is that number.
cache_frame_at(c, idx) == c.index[idx + 1]

cache_frame_bytes(c, ref) == [i \in 0 .. ref.len - 1 |-> c.arena[ref.offset + i]]

\* The subset of the burst that a want_config with this nonce asks for.
cache_frame_in_segment(c, idx, nonce) ==
  LET variant == cache_frame_at(c, idx).variant IN
  /\ idx < cache_frame_count(c)
  /\ variant # "config_complete"
  /\ nonce = ONLY_NODES => variant = "node_info"
  /\ nonce = ONLY_CONFIG => (variant # "node_info" \/ idx = c.own_nodeinfo_idx)
=============================================================================

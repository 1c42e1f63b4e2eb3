------------------------------- MODULE Replay -------------------------------
(***************************************************************************)
(* How fromradio_read serves the config cache to one phone, one frame per  *)
(* read, over the cache c as it is at that read.                           *)
(***************************************************************************)
EXTENDS ConfigCache, ProtoHandler, FiniteSets, FiniteSetsExt

\* The cached frames still to serve to a replaying phone.
Ahead(c, pc) == {i \in pc.replay_cursor .. cache_frame_count(c) - 1 :
                   cache_frame_in_segment(c, i, pc.nonce)}

\* Mutant: the terminator does not move the cursor.
ReplayedForever(c, pc) ==
  CASE Ahead(c, pc) # {} ->
         << <<[cached |-> TRUE, v |-> Min(Ahead(c, pc))]>>,
            [pc EXCEPT !.replay_cursor = Min(Ahead(c, pc)) + 1] >>
    [] Ahead(c, pc) = {} /\ pc.replay_cursor <= cache_frame_count(c) ->
         << <<[cached |-> FALSE, v |-> pc.cc_frame]>>,
            [pc EXCEPT !.replay_cursor = cache_frame_count(c)] >>
    [] OTHER -> << <<>>, [pc EXCEPT !.state = "ACTIVE"] >>

\* What a read stages (<<>> for an empty response) and what it makes of the
\* slot: the next frame of the phone's segment, by its index; after the last
\* one the phone's own terminator; after that nothing, and the phone is live.
Replayed(c, pc) ==
  CASE Ahead(c, pc) # {} ->
         << <<[cached |-> TRUE, v |-> Min(Ahead(c, pc))]>>,
            [pc EXCEPT !.replay_cursor = Min(Ahead(c, pc)) + 1] >>
    [] Ahead(c, pc) = {} /\ pc.replay_cursor <= cache_frame_count(c) ->
         << <<[cached |-> FALSE, v |-> pc.cc_frame]>>,
            [pc EXCEPT !.replay_cursor = cache_frame_count(c) + 1] >>
    [] OTHER -> << <<>>, [pc EXCEPT !.state = "ACTIVE"] >>

\* ble_gatt_replay_cached_burst on the slot: the terminator is encoded, the
\* cursor armed.  Nonce 0 stands for "the stored one".
arm_replay(pc, nonce) ==
  LET n == IF nonce # 0 THEN nonce ELSE pc.nonce
  IN [pc EXCEPT !.nonce = n, !.replay_cursor = 0, !.state = "REPLAYING",
                !.cc_frame = proto_encode_config_complete(n)]

\* The place of i in S when S is served in order.
Rank(S, i) == Cardinality({j \in S : j <= i})
=============================================================================

-------------------------- MODULE CacheStoreProofs --------------------------
(***************************************************************************)
(* Proofs about the config cache, for every arena size, index size, frame  *)
(* length and content: no frame is ever overwritten, the two segments of   *)
(* the handshake cover the burst, and a phone that reads its segment while *)
(* the session still appends to the cache is served exactly that segment.  *)
(***************************************************************************)
EXTENDS Serve, SequenceTheorems, FiniteSetTheorems, NaturalsInduction, TLAPS

\* The type of struct config_cache.
CacheType ==
  [arena : [0 .. ArenaBytes - 1 -> Byte], index : Seq(Ref),
   used : 0 .. ArenaBytes, ready : BOOLEAN,
   queuestatus_idx : -1 .. MaxFrames, own_nodeinfo_idx : -1 .. MaxFrames]

\* The index entry of a frame that is appended.
NewRef(f) == [offset |-> cache.used, len |-> f.len, variant |-> f.variant]

\* What cache_add_frame does to a cache that has room, field by field.
LEMMA AddedFields ==
  ASSUME cache \in CacheType, NEW f \in Frame, cache_fits(cache, f),
         cache' = cache_add_frame(cache, f)
  PROVE  /\ cache'.arena = ArenaWrite(cache, f)
         /\ cache'.index = Append(cache.index, NewRef(f))
         /\ cache'.used = cache.used + f.len
         /\ cache'.ready = cache.ready
         /\ cache'.own_nodeinfo_idx =
              IF f.variant = "node_info" /\ cache.own_nodeinfo_idx < 0
              THEN Len(cache.index) ELSE cache.own_nodeinfo_idx
         /\ cache'.queuestatus_idx =
              IF f.variant = "queueStatus" THEN Len(cache.index) ELSE cache.queuestatus_idx
         /\ DOMAIN cache' = DOMAIN cache
  BY DEF CacheType, cache_add_frame, NewRef, cache_frame_count

\* The static storage is an empty cache.
LEMMA InitStoreInv == Init => StoreInv
<1> SUFFICES ASSUME Init PROVE StoreInv
  OBVIOUS
<1>1. cache = EmptyCache /\ burst = <<>>
  BY DEF Init
<1>2. ArenaBytes \in Nat /\ MaxFrames \in Nat
  BY CacheAssumption
<1>3. CacheTypeOK
  BY <1>1, <1>2 DEF CacheTypeOK, EmptyCache, Byte
<1>4. FramesIntact /\ Packed /\ OwnIsFirst
  BY <1>1 DEF FramesIntact, Packed, OwnIsFirst, EmptyCache
<1>5. QED
  BY <1>3, <1>4 DEF StoreInv

\* cache_begin forgets the index and the burst alike.
LEMMA BeginStep == StoreInv /\ Begin => StoreInv'
<1> SUFFICES ASSUME StoreInv, Begin PROVE StoreInv'
  OBVIOUS
<1>1. cache' = cache_begin(cache) /\ burst' = <<>>
  BY DEF Begin
<1>2. ArenaBytes \in Nat /\ MaxFrames \in Nat
  BY CacheAssumption
<1>a. cache' = [arena |-> cache.arena, index |-> <<>>, used |-> 0, ready |-> FALSE,
                queuestatus_idx |-> -1, own_nodeinfo_idx |-> -1]
  BY <1>1 DEF StoreInv, CacheTypeOK, cache_begin
<1>b. /\ <<>> \in Seq(Ref) /\ Len(<<>>) = 0 /\ <<>> \in Seq(Frame)
      /\ 0 \in 0 .. ArenaBytes /\ -1 \in -1 .. MaxFrames
  BY <1>2
<1>3. CacheTypeOK'
  BY <1>1, <1>2, <1>a, <1>b DEF StoreInv, CacheTypeOK
<1>4. cache'.index = <<>> /\ cache'.own_nodeinfo_idx = -1
  BY <1>1 DEF StoreInv, CacheTypeOK, cache_begin
<1>5. (FramesIntact /\ Packed /\ OwnIsFirst)'
  BY <1>1, <1>4 DEF FramesIntact, Packed, OwnIsFirst
<1>6. QED
  BY <1>3, <1>5 DEF StoreInv

\* cache_mark_ready sets the flag only.
LEMMA MarkReadyStep == StoreInv /\ MarkReady => StoreInv'
<1> SUFFICES ASSUME StoreInv, MarkReady PROVE StoreInv'
  OBVIOUS
<1>1. cache' = cache_mark_ready(cache) /\ burst' = burst
  BY DEF MarkReady
<1>2. CacheTypeOK'
  BY <1>1 DEF StoreInv, CacheTypeOK, cache_mark_ready
<1>3. /\ cache'.index = cache.index /\ cache'.arena = cache.arena
      /\ cache'.used = cache.used /\ cache'.own_nodeinfo_idx = cache.own_nodeinfo_idx
  BY <1>1 DEF StoreInv, CacheTypeOK, cache_mark_ready
<1>4. (FramesIntact /\ Packed /\ OwnIsFirst)'
  BY <1>1, <1>3 DEF StoreInv, FramesIntact, Packed, OwnIsFirst, FirstNodeInfo
<1>5. QED
  BY <1>2, <1>4 DEF StoreInv

\* cache_add_frame on a cache without room, or for a frame too long, is a no-op.
LEMMA RefusedStep ==
  ASSUME StoreInv, NEW f \in Frame, Add(f), ~ cache_fits(cache, f)
  PROVE  StoreInv'
<1>1. cache' = cache /\ burst' = burst
  BY DEF Add, cache_add_frame
<1>2. QED
  BY <1>1 DEF StoreInv, CacheTypeOK, FramesIntact, Packed, OwnIsFirst, FirstNodeInfo

\* An accepted frame is written behind all others.
LEMMA AddStep ==
  ASSUME StoreInv, NEW f \in Frame, Add(f), cache_fits(cache, f)
  PROVE  StoreInv'
<1> DEFINE n == Len(burst)
<1>0. ArenaBytes \in Nat /\ MaxFrames \in Nat /\ MaxLen \in Nat
  BY CacheAssumption, StoreAssumption
<1>1. /\ f.len \in 1 .. MaxLen /\ f.variant \in Variant /\ f.data \in Data
  BY DEF Frame
<1>2. /\ cache \in CacheType /\ burst \in Seq(Frame) /\ cache.index \in Seq(Ref)
      /\ cache.used \in 0 .. ArenaBytes /\ n \in Nat /\ Len(cache.index) = n
      /\ cache.own_nodeinfo_idx \in -1 .. MaxFrames
      /\ cache.queuestatus_idx \in -1 .. MaxFrames
      /\ cache.ready \in BOOLEAN /\ cache.arena \in [0 .. ArenaBytes - 1 -> Byte]
  BY DEF StoreInv, CacheTypeOK, CacheType, FramesIntact
<1>3. cache' = cache_add_frame(cache, f) /\ burst' = Append(burst, f)
  BY DEF Add
<1>4. n < MaxFrames /\ cache.used + f.len <= ArenaBytes
  BY <1>2 DEF cache_fits, cache_frame_count
<1>5. /\ cache'.arena = ArenaWrite(cache, f)
      /\ cache'.index = Append(cache.index, NewRef(f))
      /\ cache'.used = cache.used + f.len
      /\ cache'.ready = cache.ready
      /\ cache'.own_nodeinfo_idx =
           IF f.variant = "node_info" /\ cache.own_nodeinfo_idx < 0
           THEN n ELSE cache.own_nodeinfo_idx
      /\ cache'.queuestatus_idx =
           IF f.variant = "queueStatus" THEN n ELSE cache.queuestatus_idx
  BY <1>2, <1>3, AddedFields
<1>6. NewRef(f) \in Ref
  BY <1>1, <1>2 DEF NewRef, Ref
<1>7. /\ cache'.index \in Seq(Ref) /\ Len(cache'.index) = n + 1
      /\ \A i \in 1 .. n : cache'.index[i] = cache.index[i]
      /\ cache'.index[n + 1] = NewRef(f)
  BY <1>2, <1>5, <1>6, AppendProperties
<1>8. /\ burst' \in Seq(Frame) /\ Len(burst') = n + 1
      /\ \A i \in 1 .. n : burst'[i] = burst[i]
      /\ burst'[n + 1] = f
  BY <1>2, <1>3, AppendProperties
<1>9. CacheTypeOK'
  <2>1. ArenaWrite(cache, f) \in [0 .. ArenaBytes - 1 -> Byte]
    <3>1. ASSUME NEW b \in cache.used .. cache.used + f.len - 1
          PROVE  <<f.data, b - cache.used>> \in Byte
      <4>a. cache.used \in Int /\ f.len \in Int /\ MaxLen \in Int /\ f.len <= MaxLen
        BY <1>0, <1>1, <1>2
      <4>1. b - cache.used \in 0 .. MaxLen
        BY <4>a
      <4>2. QED
        BY <1>1, <4>1 DEF Byte
    <3>2. QED
      BY <1>2, <3>1 DEF ArenaWrite
  <2>2. cache' = [arena |-> cache'.arena, index |-> cache'.index, used |-> cache'.used,
                  ready |-> cache'.ready, queuestatus_idx |-> cache'.queuestatus_idx,
                  own_nodeinfo_idx |-> cache'.own_nodeinfo_idx]
    BY <1>2, <1>3 DEF CacheType, cache_add_frame
  <2>3. cache'.used \in 0 .. ArenaBytes
    BY <1>0, <1>1, <1>2, <1>4, <1>5
  <2>4. /\ cache'.own_nodeinfo_idx \in -1 .. MaxFrames
        /\ cache'.queuestatus_idx \in -1 .. MaxFrames
    BY <1>0, <1>2, <1>4, <1>5
  <2>5. Len(cache'.index) <= MaxFrames
    BY <1>0, <1>2, <1>4, <1>7
  <2>6. QED
    BY <1>2, <1>5, <1>7, <1>8, <2>1, <2>2, <2>3, <2>4, <2>5 DEF CacheTypeOK
<1>10. Packed'
  <2> SUFFICES ASSUME NEW i \in 1 .. n + 1
               PROVE  cache'.index[i].offset + cache'.index[i].len <= cache'.used
    BY <1>8 DEF Packed
  <2>1. CASE i \in 1 .. n
    <3>1. cache.index[i] \in Ref
      BY <1>2, <2>1
    <3>2. cache.index[i].offset + cache.index[i].len <= cache.used
      BY <2>1 DEF StoreInv, Packed
    <3> DEFINE at == cache.index[i].offset
               len == cache.index[i].len
               u == cache.used
               add == f.len
    <3>3. at \in 0 .. ArenaBytes /\ len \in 1 .. MaxLen
      BY <3>1 DEF Ref
    <3>a. u \in 0 .. ArenaBytes /\ at + len <= u
      BY <1>2, <3>2
    <3>b. add \in 1 .. MaxLen
      BY <1>1
    <3> HIDE DEF at, len, u, add
    <3>c. at + len <= u + add
      BY <1>0, <3>3, <3>a, <3>b
    <3>4. cache.index[i].offset + cache.index[i].len <= cache.used + f.len
      BY <3>c DEF at, len, u, add
    <3>5. cache'.index[i] = cache.index[i]
      BY <1>7, <2>1
    <3>6. QED
      BY <1>5, <3>4, <3>5
  <2>2. CASE i = n + 1
    BY <1>0, <1>1, <1>2, <1>5, <1>7, <2>2 DEF NewRef
  <2>3. QED
    BY <1>2, <2>1, <2>2
<1>11. FramesIntact'
  <2> SUFFICES ASSUME NEW i \in 1 .. n + 1
               PROVE  /\ cache'.index[i].len = burst'[i].len
                      /\ cache'.index[i].variant = burst'[i].variant
                      /\ \A k \in 0 .. burst'[i].len - 1 :
                           cache'.arena[cache'.index[i].offset + k] = <<burst'[i].data, k>>
    BY <1>7, <1>8 DEF FramesIntact
  <2>1. CASE i \in 1 .. n
    <3>1. /\ cache.index[i] \in Ref /\ burst[i] \in Frame
          /\ cache'.index[i] = cache.index[i] /\ burst'[i] = burst[i]
      BY <1>2, <1>7, <1>8, <2>1
    <3>2. /\ cache.index[i].len = burst[i].len /\ cache.index[i].variant = burst[i].variant
          /\ \A k \in 0 .. burst[i].len - 1 :
               cache.arena[cache.index[i].offset + k] = <<burst[i].data, k>>
          /\ cache.index[i].offset + cache.index[i].len <= cache.used
      BY <1>2, <2>1 DEF StoreInv, FramesIntact, Packed
    <3>3. ASSUME NEW k \in 0 .. burst[i].len - 1
          PROVE  cache'.arena[cache.index[i].offset + k] = <<burst[i].data, k>>
      <4>1. /\ cache.index[i].offset \in Nat /\ burst[i].len \in Nat
        BY <1>0, <3>1 DEF Ref, Frame
      <4> DEFINE at == cache.index[i].offset
                 len == burst[i].len
                 u == cache.used
                 add == f.len
      <4>a. /\ at \in Nat /\ len \in Nat /\ u \in 0 .. ArenaBytes /\ at + len <= u
            /\ k \in 0 .. len - 1
        BY <1>2, <3>2, <4>1
      <4> HIDE DEF at, len, u, add
      <4>b. at + k \in 0 .. ArenaBytes - 1
        BY <1>0, <4>a
      <4>c. at + k \notin u .. u + add - 1
        <5>1. at \in Int /\ k \in Int /\ u \in Int /\ at + k < u
          BY <1>0, <4>a
        <5>2. QED
          BY <5>1
      <4>2. /\ cache.index[i].offset + k \in 0 .. ArenaBytes - 1
            /\ cache.index[i].offset + k \notin cache.used .. cache.used + f.len - 1
        BY <4>b, <4>c DEF at, u, add
      <4>3. cache'.arena[cache.index[i].offset + k] = cache.arena[cache.index[i].offset + k]
        BY <1>5, <4>2 DEF ArenaWrite
      <4>4. QED
        BY <3>2, <4>3
    <3>4. QED
      BY <3>1, <3>2, <3>3
  <2>2. CASE i = n + 1
    <3>1. cache'.index[i] = NewRef(f) /\ burst'[i] = f
      BY <1>7, <1>8, <2>2
    <3>2. ASSUME NEW k \in 0 .. f.len - 1
          PROVE  cache'.arena[cache.used + k] = <<f.data, k>>
      <4>1. /\ cache.used + k \in 0 .. ArenaBytes - 1
            /\ cache.used + k \in cache.used .. cache.used + f.len - 1
            /\ (cache.used + k) - cache.used = k
        <5> DEFINE u == cache.used
                   len == f.len
        <5>1. /\ u \in Nat /\ len \in Nat /\ u + len <= ArenaBytes /\ k \in 0 .. len - 1
          BY <1>0, <1>1, <1>2, <1>4
        <5> HIDE DEF u, len
        <5>2. u + k \in 0 .. ArenaBytes - 1 /\ u + k \in u .. u + len - 1 /\ (u + k) - u = k
          BY <1>0, <5>1
        <5>3. QED
          BY <5>2 DEF u, len
      <4>2. QED
        BY <1>5, <4>1 DEF ArenaWrite
    <3>3. QED
      BY <3>1, <3>2 DEF NewRef
  <2>3. i \in 1 .. n \/ i = n + 1
    BY <1>2
  <2>4. QED
    BY <2>1, <2>2, <2>3
<1>12. OwnIsFirst'
  <2>1. /\ cache.own_nodeinfo_idx < n
        /\ cache.own_nodeinfo_idx >= 0 => FirstNodeInfo(cache.own_nodeinfo_idx + 1)
        /\ cache.own_nodeinfo_idx < 0 => \A i \in 1 .. n : burst[i].variant # "node_info"
    BY DEF StoreInv, OwnIsFirst
  <2>2. CASE cache.own_nodeinfo_idx >= 0
    <3> DEFINE o == cache.own_nodeinfo_idx
    <3>1. cache'.own_nodeinfo_idx = o /\ o \in Nat /\ o + 1 \in 1 .. n
      <4>1. o \in Int /\ n \in Nat /\ o < n /\ o >= 0
        BY <1>0, <1>2, <2>1, <2>2
      <4>2. cache'.own_nodeinfo_idx = o
        BY <1>5, <4>1
      <4> HIDE DEF o, n
      <4>3. QED
        BY <4>1, <4>2
    <3>2. \A j \in 1 .. o + 1 : burst'[j] = burst[j]
      BY <1>2, <1>8, <3>1
    <3>3. FirstNodeInfo(o + 1)
      BY <2>1, <2>2
    <3>4. /\ burst'[o + 1].variant = "node_info"
          /\ \A j \in 1 .. (o + 1) - 1 : burst'[j].variant # "node_info"
      BY <3>1, <3>2, <3>3 DEF FirstNodeInfo
    <3>5. QED
      BY <1>2, <1>8, <3>1, <3>4 DEF OwnIsFirst, FirstNodeInfo
  <2>3. CASE cache.own_nodeinfo_idx < 0 /\ f.variant = "node_info"
    <3>1. cache'.own_nodeinfo_idx = n
      BY <1>5, <2>3
    <3>2. /\ burst'[n + 1].variant = "node_info"
          /\ \A j \in 1 .. n : burst'[j].variant # "node_info"
      BY <1>8, <2>1, <2>3
    <3>3. QED
      BY <1>2, <1>8, <3>1, <3>2 DEF OwnIsFirst, FirstNodeInfo
  <2>4. CASE cache.own_nodeinfo_idx < 0 /\ f.variant # "node_info"
    <3>1. cache'.own_nodeinfo_idx = cache.own_nodeinfo_idx
      BY <1>5, <2>4
    <3>2. \A i \in 1 .. n + 1 : burst'[i].variant # "node_info"
      BY <1>2, <1>8, <2>1, <2>4
    <3>3. QED
      BY <1>2, <1>8, <2>4, <3>1, <3>2 DEF OwnIsFirst
  <2>5. QED
    BY <1>2, <2>2, <2>3, <2>4
<1>13. QED
  BY <1>9, <1>10, <1>11, <1>12 DEF StoreInv

\* Every call the session makes keeps StoreInv.
LEMMA NextStoreInv == StoreInv /\ [Next]_vars => StoreInv'
<1> SUFFICES ASSUME StoreInv, [Next]_vars PROVE StoreInv'
  OBVIOUS
<1>1. CASE Begin
  BY <1>1, BeginStep
<1>2. CASE MarkReady
  BY <1>2, MarkReadyStep
<1>3. ASSUME NEW f \in Frame, Add(f) PROVE StoreInv'
  BY <1>3, AddStep, RefusedStep
<1>4. CASE UNCHANGED vars
  BY <1>4 DEF vars, StoreInv, CacheTypeOK, FramesIntact, Packed, OwnIsFirst, FirstNodeInfo
<1>5. QED
  BY <1>1, <1>2, <1>3, <1>4 DEF Next

\* The inductive invariant of the cache holds in every reachable state.
THEOREM StoreInvariant == Spec => []StoreInv
  BY InitStoreInv, NextStoreInv, PTL DEF Spec

\* The index never outgrows the arrays it describes.
THEOREM CacheTypeCorrect == Spec => []CacheTypeOK
<1>1. StoreInv => CacheTypeOK
  BY DEF StoreInv
<1>2. QED
  BY <1>1, StoreInvariant, PTL

\* No memcpy, refused frame or restarted burst overwrites an accepted frame.
THEOREM CacheFramesIntact == Spec => []FramesIntact
<1>1. StoreInv => FramesIntact
  BY DEF StoreInv
<1>2. QED
  BY <1>1, StoreInvariant, PTL

\* The remembered index of the node's own node_info is that of the first one.
LEMMA OwnIndex ==
  ASSUME StoreInv, NEW i \in 1 .. Len(burst)
  PROVE  (i - 1 = cache.own_nodeinfo_idx) <=> FirstNodeInfo(i)
<1> DEFINE o == cache.own_nodeinfo_idx
<1>1. Len(burst) \in Nat /\ o \in Int /\ (i - 1) + 1 = i
  BY CacheAssumption DEF StoreInv, CacheTypeOK
<1>2. /\ o < Len(burst)
      /\ o >= 0 => FirstNodeInfo(o + 1)
      /\ o < 0 => \A j \in 1 .. Len(burst) : burst[j].variant # "node_info"
  BY DEF StoreInv, OwnIsFirst
<1>3. ASSUME i - 1 = o PROVE FirstNodeInfo(i)
  BY <1>1, <1>2, <1>3
<1>4. ASSUME FirstNodeInfo(i) PROVE i - 1 = o
  <2>1. o >= 0
    BY <1>1, <1>2, <1>4 DEF FirstNodeInfo
  <2>2. FirstNodeInfo(o + 1) /\ o + 1 \in 1 .. Len(burst)
    BY <1>1, <1>2, <2>1
  <2>3. ~ (i < o + 1) /\ ~ (o + 1 < i)
    BY <1>1, <1>4, <2>2 DEF FirstNodeInfo
  <2>4. QED
    BY <1>1, <2>3
<1>5. QED
  BY <1>3, <1>4

\* The two-phase handshake covers the burst and repeats the own node_info only.
THEOREM CacheSegmentsCover == Spec => []SegmentsCover
<1>1. ASSUME StoreInv PROVE SegmentsCover
  <2> SUFFICES ASSUME NEW i \in 1 .. Len(burst)
      PROVE LET inConfig == cache_frame_in_segment(cache, i - 1, ONLY_CONFIG)
                inNodes  == cache_frame_in_segment(cache, i - 1, ONLY_NODES)
            IN /\ (inConfig \/ inNodes) <=> burst[i].variant # "config_complete"
               /\ (inConfig /\ inNodes) <=> FirstNodeInfo(i)
    BY DEF SegmentsCover, FirstNodeInfo
  <2> DEFINE v == cache.index[i].variant
  <2>1. /\ Len(burst) \in Nat /\ Len(cache.index) = Len(burst) /\ v = burst[i].variant
        /\ cache.own_nodeinfo_idx \in Int /\ (i - 1) + 1 = i /\ i - 1 < Len(cache.index)
    BY <1>1, CacheAssumption DEF StoreInv, CacheTypeOK, FramesIntact
  <2>2. (i - 1 = cache.own_nodeinfo_idx) <=> FirstNodeInfo(i)
    BY <1>1, OwnIndex
  <2>3. /\ cache_frame_in_segment(cache, i - 1, ONLY_CONFIG) <=>
             v # "config_complete" /\ (v # "node_info" \/ i - 1 = cache.own_nodeinfo_idx)
        /\ cache_frame_in_segment(cache, i - 1, ONLY_NODES) <=>
             v # "config_complete" /\ v = "node_info"
    BY <2>1 DEF cache_frame_in_segment, cache_frame_at, cache_frame_count, ONLY_CONFIG, ONLY_NODES
  <2>4. FirstNodeInfo(i) => v = "node_info"
    BY <2>1 DEF FirstNodeInfo
  <2>5. QED
    BY <2>1, <2>2, <2>3, <2>4
<1>2. StoreInv => SegmentsCover
  BY <1>1
<1>3. QED
  BY <1>2, StoreInvariant, PTL

----------------------------------------------------------------------------
(* Places in a set that is served in order. *)

\* A place is a natural number, and no set has more places than elements.
LEMMA RankBound ==
  ASSUME NEW S, IsFiniteSet(S), NEW i
  PROVE  /\ Cardinality(S) \in Nat /\ Rank(S, i) \in 0 .. Cardinality(S)
         /\ IsFiniteSet({j \in S : j <= i})
<1>1. IsFiniteSet({j \in S : j <= i}) /\ Cardinality({j \in S : j <= i}) <= Cardinality(S)
  BY FS_Subset
<1>2. QED
  BY <1>1, FS_CardinalityType DEF Rank

\* The next element of the set has the next place.
LEMMA RankNext ==
  ASSUME NEW S \in SUBSET Int, IsFiniteSet(S), NEW i \in S, NEW c \in Int, c < i,
         \A j \in S : ~ (c < j /\ j < i)
  PROVE  Rank(S, i) = Rank(S, c) + 1
<1> DEFINE T == {j \in S : j <= c}
<1>a. i \in Int /\ S \subseteq Int
  OBVIOUS
<1>b. ASSUME NEW j \in S PROVE j <= i <=> j <= c \/ j = i
  BY j \in Int, <1>a
<1>c. i <= i /\ ~ (i <= c)
  BY <1>a
<1>1. {j \in S : j <= i} = T \cup {i} /\ i \notin T
  BY <1>b, <1>c, Zenon
<1>2. IsFiniteSet(T)
  BY FS_Subset
<1> HIDE DEF T
<1>3. Cardinality(T \cup {i}) = Cardinality(T) + 1
  BY <1>1, <1>2, FS_AddElement
<1>4. QED
  BY <1>1, <1>3 DEF Rank, T

\* An element further on has a later place.
LEMMA RankLater ==
  ASSUME NEW S \in SUBSET Int, IsFiniteSet(S), NEW i \in S, NEW c \in Int, c < i
  PROVE  Rank(S, c) < Rank(S, i)
<1> DEFINE T == {j \in S : j <= c}
           U == {j \in S : j <= i}
<1>a. i \in Int /\ S \subseteq Int
  OBVIOUS
<1>c. ASSUME NEW j \in S, j <= c PROVE j <= i
  BY j \in Int, <1>a, <1>c
<1>d. i <= i /\ ~ (i <= c)
  BY <1>a
<1>b. T \in SUBSET U /\ i \in U /\ i \notin T
  BY <1>c, <1>d, Zenon
<1>1. IsFiniteSet(U) /\ T \in SUBSET U /\ i \in U /\ i \notin T
  BY <1>b, FS_Subset
<1> HIDE DEF T, U
<1>2. Cardinality(T) <= Cardinality(U) /\ Cardinality(U) # Cardinality(T) /\ IsFiniteSet(T)
  BY <1>1, FS_Subset
<1>3. Cardinality(T) \in Nat /\ Cardinality(U) \in Nat
  BY <1>1, <1>2, FS_CardinalityType
<1>4. QED
  BY <1>2, <1>3 DEF Rank, T, U

\* Places count from 1.
LEMMA RankPositive ==
  ASSUME NEW S \in SUBSET Int, IsFiniteSet(S), NEW i \in S
  PROVE  Rank(S, i) \in Nat /\ Rank(S, i) >= 1
<1>1. i \in Int /\ i - 1 \in Int /\ i - 1 < i
  OBVIOUS
<1>2. Rank(S, i - 1) < Rank(S, i)
  BY <1>1, RankLater
<1>3. /\ Cardinality(S) \in Nat /\ Rank(S, i - 1) \in 0 .. Cardinality(S)
      /\ Rank(S, i) \in 0 .. Cardinality(S)
  BY RankBound
<1>4. QED
  BY <1>2, <1>3

\* Going back goes to no later place.
LEMMA RankUpTo ==
  ASSUME NEW S \in SUBSET Int, IsFiniteSet(S), NEW i \in Int, NEW c \in Int, i <= c
  PROVE  Rank(S, i) <= Rank(S, c)
<1> DEFINE T == {j \in S : j <= i}
           U == {j \in S : j <= c}
<1>b. ASSUME NEW j \in S, j <= i PROVE j <= c
  BY j \in Int, <1>b
<1>a. T \in SUBSET U
  BY <1>b
<1>1. IsFiniteSet(U) /\ T \in SUBSET U
  BY <1>a, FS_Subset
<1> HIDE DEF T, U
<1>2. QED
  BY <1>1, FS_Subset DEF Rank, T, U

\* Past its last element, all places of a set are taken.
LEMMA RankAll ==
  ASSUME NEW S, NEW c, \A j \in S : j <= c
  PROVE  Rank(S, c) = Cardinality(S)
<1>1. {j \in S : j <= c} = S
  OBVIOUS
<1>2. QED
  BY <1>1 DEF Rank

\* A non-empty set of naturals has a least element, and Min is it.
LEMMA MinIsLeast ==
  ASSUME NEW T \in SUBSET Nat, T # {}
  PROVE  Min(T) \in T /\ \A y \in T : Min(T) <= y
<1>1. PICK x \in T : \A y \in T : ~ (<<y, x>> \in OpToRel(<, Nat))
  BY NatLessThanWellFounded, WFMin
<1>2. \A y \in T : ~ (y < x)
  BY <1>1 DEF OpToRel
<1>3. \A y \in T : x <= y
  BY <1>2
<1>4. QED
  BY <1>3 DEF Min

----------------------------------------------------------------------------
(* The phone that is replayed while the cache is still being added to. *)

\* What a phone reads: bytes of the arena, or a terminator.
Text == UNION {[0 .. k - 1 -> Byte \cup (Nat \X {"config_complete"})] : k \in Nat}

\* The slot's encoded terminator; the types of the phone's state.
CcFrame == [variant : {"none", "config_complete"}, data : Nat, len : {1}]
PhoneOK ==
  /\ pc \in [state : {"CONNECTED", "REPLAYING", "ACTIVE"}, nonce : Nat,
             replay_cursor : Nat, cc_frame : CcFrame]
  /\ want \in Nat /\ since \in Nat /\ got \in Seq(Text)
  /\ want = 0 => pc.state = "CONNECTED"

\* Where a phone that has asked stands.  Before its terminator it has read as
\* many frames as its segment has up to the cursor; after it the cursor is past
\* the segment, and every further terminator has moved it on by one at least.
Progress ==
  LET seg == Segment(want)
      c   == pc.replay_cursor
  IN /\ cache.ready /\ since <= cache_frame_count(cache)
     /\ pc.nonce = want /\ pc.cc_frame = FromRadio("config_complete", want)
     /\ c <= cache_frame_count(cache) + 1
     /\ \/ Len(got) = Rank(seg, c)
        \/ /\ \A i \in seg : i <= c
           /\ Len(got) > Cardinality(seg)
           /\ Len(got) - Cardinality(seg) <= c - since

\* The inductive invariant of a phone that reads while the cache grows.
ServeInv == StoreInv /\ PhoneOK /\ (want # 0 => Progress) /\ ServedExact

\* Segment is what cache_frame_in_segment finds in the cache.
LEMMA SegmentIs ==
  ASSUME StoreInv, NEW i \in 1 .. Len(burst), NEW n
  PROVE  cache_frame_in_segment(cache, i - 1, n) <=> i \in Segment(n)
<1> DEFINE v == cache.index[i].variant
<1>1. /\ Len(burst) \in Nat /\ Len(cache.index) = Len(burst) /\ v = burst[i].variant
      /\ (i - 1) + 1 = i /\ i - 1 < Len(cache.index)
  BY DEF StoreInv, CacheTypeOK, FramesIntact
<1>2. (i - 1 = cache.own_nodeinfo_idx) <=> FirstNodeInfo(i)
  BY OwnIndex
<1>3. cache_frame_in_segment(cache, i - 1, n) <=>
        /\ v # "config_complete"
        /\ n = ONLY_NODES => v = "node_info"
        /\ n = ONLY_CONFIG => (v # "node_info" \/ FirstNodeInfo(i))
  BY <1>1, <1>2 DEF cache_frame_in_segment, cache_frame_at, cache_frame_count
<1>4. i \in Segment(n) <=>
        CASE v = "config_complete" -> FALSE
          [] v = "node_info" -> n = ONLY_CONFIG => FirstNodeInfo(i)
          [] OTHER -> n # ONLY_NODES
  BY <1>1 DEF Segment
<1>5. CASE v = "config_complete"
  BY <1>3, <1>4, <1>5
<1>6. CASE v = "node_info"
  BY <1>3, <1>4, <1>6
<1>7. CASE v # "config_complete" /\ v # "node_info"
  BY <1>3, <1>4, <1>7
<1>8. QED
  BY <1>5, <1>6, <1>7

\* A segment is a finite set of positions of the burst.
LEMMA SegmentFinite ==
  ASSUME StoreInv, NEW n
  PROVE  /\ Segment(n) \in SUBSET (1 .. Len(burst)) /\ Segment(n) \in SUBSET Int
         /\ IsFiniteSet(Segment(n)) /\ Cardinality(Segment(n)) \in Nat
<1>1. Len(burst) \in Nat /\ Segment(n) \in SUBSET (1 .. Len(burst))
  BY DEF StoreInv, CacheTypeOK, Segment
<1>2. IsFiniteSet(1 .. Len(burst)) /\ 1 .. Len(burst) \subseteq Int
  BY <1>1, FS_Interval
<1>3. QED
  BY <1>1, <1>2, FS_Subset, FS_CardinalityType

\* The bytes read through a reference are those of the frame accepted there.
LEMMA ReadsFrame ==
  ASSUME StoreInv, NEW i \in 1 .. Len(burst)
  PROVE  /\ cache_frame_bytes(cache, cache.index[i]) =
              [b \in 0 .. burst[i].len - 1 |-> <<burst[i].data, b>>]
         /\ cache_frame_bytes(cache, cache.index[i]) \in Text
<1> DEFINE f == burst[i]
<1>1. /\ cache.index[i].len = f.len
      /\ \A k \in 0 .. f.len - 1 : cache.arena[cache.index[i].offset + k] = <<f.data, k>>
  BY DEF StoreInv, FramesIntact
<1>2. f.len \in 1 .. MaxLen /\ f.data \in Data /\ MaxLen \in Nat
  <2>1. f \in Frame
    BY DEF StoreInv, CacheTypeOK
  <2>2. QED
    BY <2>1, StoreAssumption DEF Frame
<1>3. cache_frame_bytes(cache, cache.index[i]) = [b \in 0 .. f.len - 1 |-> <<f.data, b>>]
  BY <1>1 DEF cache_frame_bytes
<1> HIDE DEF f
<1>4. f.len \in Nat /\ \A b \in 0 .. f.len - 1 : <<f.data, b>> \in Byte
  BY <1>2 DEF Byte
<1>5. [b \in 0 .. f.len - 1 |-> <<f.data, b>>] \in Text
  <2> DEFINE B == Byte \cup (Nat \X {"config_complete"})
             g == [b \in 0 .. f.len - 1 |-> <<f.data, b>>]
  <2>1. g \in [0 .. f.len - 1 -> B]
    BY <1>4
  <2> HIDE DEF B, g
  <2>2. g \in UNION {[0 .. k - 1 -> B] : k \in Nat}
    BY <1>4, <2>1, Zenon
  <2>3. QED
    BY <2>2 DEF Text, B, g
<1>6. QED
  BY <1>3, <1>5 DEF f

\* Before anything is cached or asked for, nothing is promised.
LEMMA InitServeInv == ServeInit => ServeInv
<1> SUFFICES ASSUME ServeInit PROVE ServeInv
  OBVIOUS
<1>1. StoreInv
  BY InitStoreInv DEF ServeInit
<1>2. PhoneOK /\ want = 0
  BY DEF ServeInit, PhoneOK, FromRadio, CcFrame
<1>3. QED
  BY <1>1, <1>2 DEF ServeInv, ServedExact

\* A want_config forgets what was read before, and puts the cursor at 0.
LEMMA WantServeInv ==
  ASSUME ServeInv, NEW n \in Nonces, WantConfig(n)
  PROVE  ServeInv'
<1>1. /\ cache' = cache /\ burst' = burst /\ cache.ready /\ want' = n /\ got' = <<>>
      /\ since' = Len(cache.index) /\ n \in Nat /\ n # 0
  BY ServeAssumption DEF WantConfig, cache_frame_count
<1>2. StoreInv /\ PhoneOK
  BY DEF ServeInv
<1>3. /\ pc' = [pc EXCEPT !.nonce = n, !.replay_cursor = 0, !.state = "REPLAYING",
                          !.cc_frame = FromRadio("config_complete", n)]
  BY <1>1 DEF WantConfig, arm_replay, proto_encode_config_complete
<1>4. /\ pc'.nonce = n /\ pc'.replay_cursor = 0 /\ pc'.state = "REPLAYING"
      /\ pc'.cc_frame = FromRadio("config_complete", n)
  BY <1>2, <1>3 DEF PhoneOK
<1>5. Len(cache.index) \in Nat
  BY <1>2 DEF StoreInv, CacheTypeOK
<1>6. PhoneOK'
  <2> DEFINE cc == FromRadio("config_complete", n)
  <2>1. cc \in CcFrame
    BY <1>1 DEF FromRadio, CcFrame
  <2> HIDE DEF cc
  <2>2. pc' \in [state : {"CONNECTED", "REPLAYING", "ACTIVE"}, nonce : Nat,
                 replay_cursor : Nat, cc_frame : CcFrame]
    BY <1>1, <1>2, <1>3, <2>1 DEF PhoneOK, cc
  <2>3. QED
    BY <1>1, <1>5, <2>2 DEF PhoneOK
<1>7. StoreInv'
  BY <1>1, <1>2 DEF StoreInv, CacheTypeOK, FramesIntact, Packed, OwnIsFirst, FirstNodeInfo
<1> DEFINE seg == Segment(n)
<1>8. Segment(want)' = seg
  BY <1>1 DEF Segment, FirstNodeInfo
<1>9. /\ seg \in SUBSET (1 .. Len(burst)) /\ seg \in SUBSET Int
      /\ IsFiniteSet(seg) /\ Cardinality(seg) \in Nat /\ Len(burst) \in Nat
  BY <1>2, SegmentFinite DEF StoreInv, CacheTypeOK
<1> HIDE DEF seg
<1>10. Rank(seg, 0) = 0
  <2>1. ASSUME NEW j \in seg PROVE ~ (j <= 0)
    <3>1. j \in 1 .. Len(burst)
      BY <1>9
    <3>2. QED
      BY <3>1, <1>9
  <2>2. {j \in seg : j <= 0} = {}
    BY <2>1, Zenon
  <2>3. QED
    BY <2>2, FS_EmptySet DEF Rank
<1>11. \A i \in seg : Rank(seg, i) \in Nat /\ Rank(seg, i) >= 1
  BY <1>9, RankPositive
<1>12. Progress'
  BY <1>1, <1>4, <1>5, <1>8, <1>10 DEF Progress, cache_frame_count
<1>13. ServedExact'
  <2>1. \A i \in seg : ~ (Rank(seg, i) <= Len(got'))
    BY <1>1, <1>11
  <2>2. ~ \E k \in Cardinality(seg) + 1 .. Len(got') : TRUE
    BY <1>1, <1>9
  <2>3. Len(got') - Cardinality(seg) <= 1 + cache_frame_count(cache') - since'
    BY <1>1, <1>5, <1>9 DEF cache_frame_count
  <2>4. QED
    BY <1>8, <2>1, <2>2, <2>3 DEF ServedExact
<1>14. QED
  BY <1>6, <1>7, <1>12, <1>13 DEF ServeInv

\* What a phone may assume of the segment it is being served.
LEMMA AskedFacts ==
  ASSUME ServeInv, want # 0
  PROVE  /\ StoreInv /\ PhoneOK /\ Progress
         /\ Segment(want) \in SUBSET (1 .. Len(burst)) /\ Segment(want) \in SUBSET Int
         /\ IsFiniteSet(Segment(want)) /\ Cardinality(Segment(want)) \in Nat
         /\ Len(burst) \in Nat /\ cache_frame_count(cache) = Len(burst)
         /\ Len(got) \in Nat /\ since \in Nat /\ pc.replay_cursor \in Nat
<1>1. StoreInv /\ PhoneOK /\ Progress
  BY DEF ServeInv
<1>2. /\ Len(burst) \in Nat /\ cache_frame_count(cache) = Len(burst)
  BY <1>1 DEF StoreInv, CacheTypeOK, FramesIntact, cache_frame_count
<1>3. Len(got) \in Nat /\ since \in Nat /\ pc.replay_cursor \in Nat
  BY <1>1 DEF PhoneOK
<1>4. QED
  BY <1>1, <1>2, <1>3, SegmentFinite

\* A read appends one entry at the most and touches the phone only.
LEMMA ReadFrames ==
  ASSUME StoreInv, fromradio_read
  PROVE  StoreInv' /\ cache' = cache /\ burst' = burst /\ want' = want /\ since' = since
<1>1. cache' = cache /\ burst' = burst /\ want' = want /\ since' = since
  BY DEF fromradio_read
<1>2. QED
  BY <1>1 DEF StoreInv, CacheTypeOK, FramesIntact, Packed, OwnIsFirst, FirstNodeInfo

\* The read that finds a frame ahead of the cursor serves the next one of the
\* segment, and with it the next place of the segment.
LEMMA ReadServesFrame ==
  ASSUME ServeInv, fromradio_read, Ahead(cache, pc) # {}
  PROVE  ServeInv'
<1> DEFINE seg == Segment(want)
           c == pc.replay_cursor
           T == Ahead(cache, pc)
           m == Min(T)
           i == m + 1
           fr == [b \in 0 .. burst[i].len - 1 |-> <<burst[i].data, b>>]
<1>1. pc.state = "REPLAYING" /\ want # 0
  BY DEF fromradio_read, ServeInv, PhoneOK
<1>2. /\ StoreInv /\ PhoneOK /\ Progress
      /\ seg \in SUBSET (1 .. Len(burst)) /\ seg \in SUBSET Int
      /\ IsFiniteSet(seg) /\ Cardinality(seg) \in Nat
      /\ Len(burst) \in Nat /\ cache_frame_count(cache) = Len(burst)
      /\ Len(got) \in Nat /\ since \in Nat /\ c \in Nat
  BY <1>1, AskedFacts
<1>3. pc.nonce = want
  BY <1>2 DEF Progress
<1>4. T = {k \in c .. Len(burst) - 1 : cache_frame_in_segment(cache, k, want)}
  BY <1>2, <1>3 DEF Ahead
<1>5. T \in SUBSET Nat
  BY <1>2, <1>4
<1>6. m \in T /\ \A y \in T : m <= y
  BY <1>5, MinIsLeast
<1> HIDE DEF T, m, seg
<1>7. m \in c .. Len(burst) - 1 /\ cache_frame_in_segment(cache, m, want)
  BY <1>4, <1>6
<1>8. i \in 1 .. Len(burst) /\ m = i - 1 /\ c < i /\ i \in Nat
  BY <1>2, <1>7
<1>9. i \in seg
  <2>1. cache_frame_in_segment(cache, i - 1, want)
    BY <1>7, <1>8
  <2>2. QED
    BY <1>2, <1>8, <2>1, SegmentIs DEF seg
<1>10. ASSUME NEW j \in seg, c < j PROVE i <= j
  <2>1. j \in 1 .. Len(burst)
    BY <1>2
  <2>2. cache_frame_in_segment(cache, j - 1, want)
    BY <1>2, <2>1, SegmentIs DEF seg
  <2>3. j - 1 \in c .. Len(burst) - 1
    BY <1>2, <1>10, <2>1
  <2>4. j - 1 \in T
    BY <1>4, <2>2, <2>3
  <2>5. m <= j - 1
    BY <1>6, <2>4
  <2>6. QED
    BY <1>8, <2>1, <2>5
<1>11. pc' = [pc EXCEPT !.replay_cursor = i] /\ got' = got \o <<fr>> /\ fr \in Text
  <2> DEFINE item == [cached |-> TRUE, v |-> m]
             e == cache_frame_bytes(cache, cache.index[i])
  <2>1. Replayed(cache, pc) = << <<item>>, [pc EXCEPT !.replay_cursor = i] >>
    BY DEF Replayed, T, m
  <2>2. Bytes(item) = e
    BY <1>8 DEF Bytes, cache_frame_at
  <2>3. e = fr /\ e \in Text
    BY <1>2, <1>8, ReadsFrame
  <2> HIDE DEF item, e, fr
  <2>4. [x \in DOMAIN <<item>> |-> Bytes(<<item>>[x])] = <<fr>>
    BY <2>2, <2>3
  <2>5. /\ Replayed(cache, pc)[1] = <<item>>
        /\ Replayed(cache, pc)[2] = [pc EXCEPT !.replay_cursor = i]
    BY <2>1
  <2>6. QED
    BY <2>3, <2>4, <2>5 DEF fromradio_read
<1> HIDE DEF fr
<1>12. /\ got' \in Seq(Text) /\ Len(got') = Len(got) + 1 /\ got'[Len(got) + 1] = fr
       /\ \A k \in 1 .. Len(got) : got'[k] = got[k]
  BY <1>2, <1>11 DEF PhoneOK
<1>13. /\ StoreInv' /\ cache' = cache /\ burst' = burst /\ want' = want /\ since' = since
  BY <1>2, ReadFrames
<1>14. /\ pc'.replay_cursor = i /\ pc'.nonce = pc.nonce /\ pc'.cc_frame = pc.cc_frame
       /\ pc'.state = pc.state
  BY <1>2, <1>11 DEF PhoneOK
<1>15. PhoneOK'
  BY <1>1, <1>2, <1>8, <1>11, <1>12, <1>13, <1>14 DEF PhoneOK
<1>16. Segment(want)' = seg
  BY <1>13 DEF Segment, FirstNodeInfo, seg
<1>17. Len(got) = Rank(seg, c)
  <2>1. ~ \A j \in seg : j <= c
    BY <1>2, <1>8, <1>9
  <2>2. QED
    BY <1>2, <2>1 DEF Progress, seg
<1>18. Rank(seg, i) = Len(got) + 1
  <2>1. \A j \in seg : ~ (c < j /\ j < i)
    BY <1>2, <1>8, <1>10
  <2>2. QED
    BY <1>2, <1>8, <1>9, <1>17, <2>1, RankNext
<1>19. Progress'
  <2>1. i <= cache_frame_count(cache) + 1
    BY <1>2, <1>8
  <2>2. Len(got') = Rank(seg, i)
    BY <1>12, <1>18
  <2>3. QED
    BY <1>2, <1>13, <1>14, <1>16, <2>1, <2>2 DEF Progress
<1>20. ServedExact'
  <2> DEFINE n == Cardinality(seg)
  <2>0. ServedExact
    BY DEF ServeInv
  <2>a. Rank(seg, i) \in 0 .. n
    BY <1>2, RankBound
  <2>1. ASSUME NEW j \in seg, Rank(seg, j) <= Len(got')
        PROVE  got'[Rank(seg, j)] = [b \in 0 .. burst[j].len - 1 |-> <<burst[j].data, b>>]
    <3>1. j \in Int /\ Rank(seg, j) \in 0 .. n
      BY <1>2, RankBound
    <3>2. CASE j <= c
      <4>1. Rank(seg, j) <= Len(got)
        BY <1>2, <1>17, <3>1, <3>2, RankUpTo
      <4>2. got[Rank(seg, j)] = [b \in 0 .. burst[j].len - 1 |-> <<burst[j].data, b>>]
        BY <1>1, <2>0, <4>1 DEF ServedExact, seg
      <4>3. Rank(seg, j) >= 1
        BY <1>2, RankPositive
      <4>4. got'[Rank(seg, j)] = got[Rank(seg, j)]
        BY <1>2, <1>12, <3>1, <4>1, <4>3
      <4>5. QED
        BY <4>2, <4>4
    <3>3. CASE j = i
      BY <1>12, <1>18, <3>3 DEF fr
    <3>4. CASE j > c /\ j # i
      <4>1. i < j
        BY <1>8, <1>10, <3>1, <3>4
      <4>2. Rank(seg, i) < Rank(seg, j)
        BY <1>2, <1>8, <4>1, RankLater
      <4>3. QED
        BY <1>2, <1>12, <1>18, <2>1, <3>1, <4>2
    <3>5. QED
      BY <1>2, <3>1, <3>2, <3>3, <3>4
  <2>2. ~ \E k \in n + 1 .. Len(got') : TRUE
    BY <1>2, <1>12, <1>18, <2>a
  <2>3. Len(got') - n <= 1 + cache_frame_count(cache) - since
    <3>1. since <= cache_frame_count(cache)
      BY <1>2 DEF Progress
    <3>2. QED
      BY <1>2, <1>12, <1>18, <2>a, <3>1
  <2> HIDE DEF n
  <2>4. QED
    BY <1>13, <1>16, <2>1, <2>2, <2>3 DEF ServedExact, n
<1>21. QED
  BY <1>13, <1>15, <1>19, <1>20 DEF ServeInv

\* The read that finds no frame ahead serves the terminator, and moves the
\* cursor past the end of the cache: it was not past it before.
LEMMA ReadServesTerminator ==
  ASSUME ServeInv, fromradio_read, Ahead(cache, pc) = {},
         pc.replay_cursor <= cache_frame_count(cache)
  PROVE  ServeInv'
<1> DEFINE seg == Segment(want)
           c == pc.replay_cursor
           n == Cardinality(seg)
           count == cache_frame_count(cache)
           t == Terminator(want)
<1>1. pc.state = "REPLAYING" /\ want # 0
  BY DEF fromradio_read, ServeInv, PhoneOK
<1>2. /\ StoreInv /\ PhoneOK /\ Progress
      /\ seg \in SUBSET (1 .. Len(burst)) /\ seg \in SUBSET Int
      /\ IsFiniteSet(seg) /\ n \in Nat
      /\ Len(burst) \in Nat /\ count = Len(burst)
      /\ Len(got) \in Nat /\ since \in Nat /\ c \in Nat
  BY <1>1, AskedFacts
<1>3. /\ pc.nonce = want /\ pc.cc_frame = FromRadio("config_complete", want)
      /\ since <= count /\ cache.ready
  BY <1>2 DEF Progress
<1>4. ASSUME NEW j \in seg PROVE j <= c
  <2>1. j \in 1 .. Len(burst) /\ cache_frame_in_segment(cache, j - 1, want)
    BY <1>2, SegmentIs
  <2>2. j - 1 \notin c .. Len(burst) - 1
    BY <1>2, <1>3, <2>1 DEF Ahead
  <2>3. QED
    BY <1>2, <2>1, <2>2
<1>5. pc' = [pc EXCEPT !.replay_cursor = count + 1] /\ got' = got \o <<t>> /\ t \in Text
  <2> DEFINE item == [cached |-> FALSE, v |-> pc.cc_frame]
             B == Byte \cup (Nat \X {"config_complete"})
  <2>1. Replayed(cache, pc) = << <<item>>, [pc EXCEPT !.replay_cursor = count + 1] >>
    BY DEF Replayed
  <2>2. Bytes(item) = t
    BY <1>3 DEF Bytes, Terminator, FromRadio
  <2>3. t \in Text
    <3>1. want \in Nat /\ 1 \in Nat /\ 1 - 1 = 0
      BY <1>2 DEF PhoneOK
    <3>2. t \in [0 .. 1 - 1 -> B]
      BY <3>1 DEF Terminator
    <3> HIDE DEF B, t
    <3>3. t \in UNION {[0 .. k - 1 -> B] : k \in Nat}
      BY <3>1, <3>2, Zenon
    <3>4. QED
      BY <3>3 DEF Text, B
  <2> HIDE DEF item, t
  <2>4. [x \in DOMAIN <<item>> |-> Bytes(<<item>>[x])] = <<t>>
    BY <2>2
  <2>5. /\ Replayed(cache, pc)[1] = <<item>>
        /\ Replayed(cache, pc)[2] = [pc EXCEPT !.replay_cursor = count + 1]
    BY <2>1
  <2>6. QED
    BY <2>3, <2>4, <2>5 DEF fromradio_read
<1> HIDE DEF t, seg
<1>6. /\ got' \in Seq(Text) /\ Len(got') = Len(got) + 1 /\ got'[Len(got) + 1] = t
      /\ \A k \in 1 .. Len(got) : got'[k] = got[k]
  BY <1>2, <1>5 DEF PhoneOK
<1>7. /\ StoreInv' /\ cache' = cache /\ burst' = burst /\ want' = want /\ since' = since
  BY <1>2, ReadFrames
<1>8. /\ pc'.replay_cursor = count + 1 /\ pc'.nonce = pc.nonce /\ pc'.cc_frame = pc.cc_frame
      /\ pc'.state = pc.state
  BY <1>2, <1>5 DEF PhoneOK
<1>9. PhoneOK'
  <2>1. count + 1 \in Nat
    BY <1>2
  <2> HIDE DEF count
  <2>2. QED
    BY <1>1, <1>2, <1>5, <1>6, <1>7, <1>8, <2>1 DEF PhoneOK
<1>10. Segment(want)' = seg
  BY <1>7 DEF Segment, FirstNodeInfo, seg
<1>11. Rank(seg, c) = n
  BY <1>4, RankAll
<1>12. Len(got) = n \/ (Len(got) > n /\ Len(got) - n <= c - since)
  BY <1>2, <1>11 DEF Progress, seg
<1>13. Len(got') > n /\ Len(got') - n <= (count + 1) - since
  BY <1>2, <1>3, <1>6, <1>12
<1>14. Progress'
  <2>1. \A j \in seg : j <= count + 1
    BY <1>2
  <2>2. QED
    <3>1. count + 1 <= count + 1 /\ cache_frame_count(cache)' = count
      BY <1>2, <1>7 DEF cache_frame_count
    <3> HIDE DEF n, count
    <3>2. QED
      BY <1>3, <1>7, <1>8, <1>10, <1>13, <2>1, <3>1 DEF Progress, n
<1>15. ServedExact'
  <2>0. ServedExact
    BY DEF ServeInv
  <2>1. ASSUME NEW j \in seg
        PROVE  got'[Rank(seg, j)] = [b \in 0 .. burst[j].len - 1 |-> <<burst[j].data, b>>]
    <3>a. Rank(seg, j) \in 0 .. n /\ Rank(seg, j) >= 1
      BY <1>2, RankBound, RankPositive
    <3>1. Rank(seg, j) \in 1 .. n
      BY <1>2, <3>a
    <3>2. Rank(seg, j) \in 1 .. Len(got)
      BY <1>2, <1>12, <3>1
    <3>3. got[Rank(seg, j)] = [b \in 0 .. burst[j].len - 1 |-> <<burst[j].data, b>>]
      BY <1>1, <1>2, <2>0, <3>2 DEF ServedExact, seg
    <3>4. QED
      BY <1>6, <3>2, <3>3
  <2>2. ASSUME NEW k \in n + 1 .. Len(got') PROVE got'[k] = t
    <3>1. CASE k = Len(got) + 1
      BY <1>6, <3>1
    <3>2. CASE k # Len(got) + 1
      <4>1. k \in n + 1 .. Len(got) /\ k \in 1 .. Len(got)
        BY <1>2, <1>6, <3>2
      <4>2. got[k] = t
        BY <1>1, <2>0, <4>1 DEF ServedExact, seg, t
      <4>3. QED
        BY <1>6, <4>1, <4>2
    <3>3. QED
      BY <3>1, <3>2
  <2>3. Len(got') - n <= 1 + count - since
    BY <1>2, <1>13
  <2>4. Terminator(want)' = t
    BY <1>7 DEF Terminator, t
  <2> HIDE DEF n, count
  <2>5. QED
    BY <1>7, <1>10, <2>1, <2>2, <2>3, <2>4 DEF ServedExact, n, count
<1>16. QED
  BY <1>7, <1>9, <1>14, <1>15 DEF ServeInv

\* The read that finds nothing is empty: the phone goes live.
LEMMA ReadEndsReplay ==
  ASSUME ServeInv, fromradio_read, Ahead(cache, pc) = {},
         pc.replay_cursor > cache_frame_count(cache)
  PROVE  ServeInv'
<1>1. pc.state = "REPLAYING" /\ want # 0
  BY DEF fromradio_read, ServeInv, PhoneOK
<1>2. /\ StoreInv /\ PhoneOK /\ Progress
      /\ Len(burst) \in Nat /\ cache_frame_count(cache) = Len(burst) /\ pc.replay_cursor \in Nat
  BY <1>1, AskedFacts
<1>3. Replayed(cache, pc) = << <<>>, [pc EXCEPT !.state = "ACTIVE"] >>
  BY <1>2 DEF Replayed
<1>4. pc' = [pc EXCEPT !.state = "ACTIVE"] /\ got' = got \o <<>>
  <2>1. /\ Replayed(cache, pc)[1] = <<>>
        /\ Replayed(cache, pc)[2] = [pc EXCEPT !.state = "ACTIVE"]
    BY <1>3
  <2>2. [x \in DOMAIN <<>> |-> Bytes((<<>>)[x])] = <<>>
    OBVIOUS
  <2>3. QED
    BY <2>1, <2>2 DEF fromradio_read
<1>5. got' = got
  BY <1>2, <1>4 DEF PhoneOK
<1>6. /\ StoreInv' /\ cache' = cache /\ burst' = burst /\ want' = want /\ since' = since
  BY <1>2, ReadFrames
<1>7. /\ pc'.replay_cursor = pc.replay_cursor /\ pc'.nonce = pc.nonce
      /\ pc'.cc_frame = pc.cc_frame
  BY <1>2, <1>4 DEF PhoneOK
<1>8. PhoneOK'
  BY <1>1, <1>2, <1>4, <1>5, <1>6 DEF PhoneOK
<1>9. Segment(want)' = Segment(want)
  BY <1>6 DEF Segment, FirstNodeInfo
<1>10. Progress'
  BY <1>2, <1>5, <1>6, <1>7, <1>9 DEF Progress
<1>11. ServedExact'
  <2>1. Terminator(want)' = Terminator(want)
    BY <1>6 DEF Terminator
  <2>2. QED
    BY <1>5, <1>6, <1>9, <2>1 DEF ServedExact, ServeInv
<1>12. QED
  BY <1>6, <1>8, <1>10, <1>11 DEF ServeInv

\* While the cache is published only a config_complete is still added to it,
\* and that belongs to no segment.
LEMMA SegmentStable ==
  ASSUME StoreInv, cache.ready, Next, want' = want
  PROVE  /\ cache'.ready /\ Len(cache'.index) >= Len(cache.index)
         /\ Segment(want)' = Segment(want)
         /\ \A i \in 1 .. Len(burst) : burst'[i] = burst[i]
<1>0. /\ Len(burst) \in Nat /\ Len(cache.index) \in Nat /\ cache \in CacheType
      /\ burst \in Seq(Frame) /\ cache.index \in Seq(Ref)
  BY DEF StoreInv, CacheTypeOK, CacheType
<1>1. PICK f \in Frame : Add(f)
  BY DEF Next, Begin, MarkReady
<1>2. f.variant = "config_complete" /\ cache' = cache_add_frame(cache, f)
  BY <1>1 DEF Add
<1>3. CASE ~ cache_fits(cache, f)
  <2>1. cache' = cache /\ burst' = burst
    BY <1>1, <1>3 DEF Add, cache_add_frame
  <2>2. QED
    BY <1>0, <2>1 DEF Segment, FirstNodeInfo
<1>4. CASE cache_fits(cache, f)
  <2>1. burst' = Append(burst, f)
    BY <1>1, <1>4 DEF Add
  <2>2. /\ Len(burst') = Len(burst) + 1 /\ burst'[Len(burst) + 1] = f
        /\ \A i \in 1 .. Len(burst) : burst'[i] = burst[i]
    BY <1>0, <2>1, AppendProperties
  <2>3. cache'.ready = cache.ready /\ cache'.index = Append(cache.index, NewRef(f))
    BY <1>0, <1>2, <1>4, AddedFields
  <2>4. Len(cache'.index) = Len(cache.index) + 1
    BY <1>0, <2>3
  <2>5. Segment(want)' = Segment(want)
    <3>1. ASSUME NEW i \in 1 .. Len(burst) PROVE FirstNodeInfo(i)' <=> FirstNodeInfo(i)
      <4>1. \A j \in 1 .. i - 1 : j \in 1 .. Len(burst)
        BY <1>0
      <4>2. QED
        BY <2>2, <4>1 DEF FirstNodeInfo
    <3>2. ASSUME NEW i PROVE i \in Segment(want)' <=> i \in Segment(want)
      <4>1. CASE i \in 1 .. Len(burst)
        <5>1. i \in 1 .. Len(burst')
          BY <1>0, <2>2, <4>1
        <5>2. QED
          BY <2>2, <3>1, <4>1, <5>1 DEF Segment
      <4>2. CASE i = Len(burst) + 1
        <5>1. i \notin Segment(want)
          BY <1>0, <4>2 DEF Segment
        <5>2. i \notin Segment(want)'
          BY <1>2, <2>2, <4>2 DEF Segment
        <5>3. QED
          BY <5>1, <5>2
      <4>3. CASE i \notin 1 .. Len(burst) /\ i # Len(burst) + 1
        <5>1. i \notin 1 .. Len(burst')
          BY <1>0, <2>2, <4>3
        <5>2. QED
          BY <4>3, <5>1 DEF Segment
      <4>4. QED
        BY <4>1, <4>2, <4>3
    <3>3. QED
      BY <3>2, Zenon
  <2>6. QED
    BY <1>0, <2>2, <2>3, <2>4, <2>5
<1>5. QED
  BY <1>3, <1>4

\* What the session does to the cache takes nothing from a replaying phone.
LEMMA StoreServeInv ==
  ASSUME ServeInv, Next, UNCHANGED phone
  PROVE  ServeInv'
<1>1. pc' = pc /\ want' = want /\ got' = got /\ since' = since
  BY DEF phone
<1>2. StoreInv /\ PhoneOK /\ StoreInv'
  BY NextStoreInv DEF ServeInv
<1>3. PhoneOK'
  BY <1>1, <1>2 DEF PhoneOK
<1>4. CASE want = 0
  BY <1>1, <1>2, <1>3, <1>4 DEF ServeInv, ServedExact
<1>5. CASE want # 0
  <2> DEFINE seg == Segment(want)
  <2>1. /\ Progress /\ seg \in SUBSET (1 .. Len(burst)) /\ Cardinality(seg) \in Nat
        /\ Len(burst) \in Nat /\ cache_frame_count(cache) = Len(burst)
        /\ Len(got) \in Nat /\ since \in Nat /\ pc.replay_cursor \in Nat
    BY <1>5, AskedFacts
  <2>2. cache.ready
    BY <2>1 DEF Progress
  <2>3. /\ cache'.ready /\ Len(cache'.index) >= Len(cache.index)
        /\ Segment(want)' = seg
        /\ \A i \in 1 .. Len(burst) : burst'[i] = burst[i]
    BY <1>1, <1>2, <2>2, SegmentStable
  <2>4. Len(cache'.index) \in Nat
    BY <1>2 DEF StoreInv, CacheTypeOK
  <2> DEFINE count == cache_frame_count(cache)
             more == cache_frame_count(cache)'
  <2>5. more >= count /\ more \in Nat /\ count \in Nat
    BY <2>1, <2>3, <2>4 DEF cache_frame_count
  <2> HIDE DEF seg, count, more
  <2>6. Progress'
    <3>1. /\ cache.ready /\ since <= count
          /\ pc.nonce = want /\ pc.cc_frame = FromRadio("config_complete", want)
          /\ pc.replay_cursor <= count + 1
          /\ \/ Len(got) = Rank(seg, pc.replay_cursor)
             \/ /\ \A i \in seg : i <= pc.replay_cursor
                /\ Len(got) > Cardinality(seg)
                /\ Len(got) - Cardinality(seg) <= pc.replay_cursor - since
      BY <2>1 DEF Progress, seg, count
    <3>2. since <= more /\ pc.replay_cursor <= more + 1
      BY <2>1, <2>5, <3>1
    <3>3. QED
      BY <1>1, <2>3, <3>1, <3>2 DEF Progress, more
  <2>7. ServedExact'
    <3>1. /\ \A i \in seg : Rank(seg, i) <= Len(got) =>
               got[Rank(seg, i)] = [b \in 0 .. burst[i].len - 1 |-> <<burst[i].data, b>>]
          /\ \A k \in Cardinality(seg) + 1 .. Len(got) : got[k] = Terminator(want)
          /\ Len(got) - Cardinality(seg) <= 1 + count - since
      BY <1>5 DEF ServeInv, ServedExact, seg, count
    <3>2. Len(got) - Cardinality(seg) <= 1 + more - since
      BY <2>1, <2>5, <3>1
    <3>3. \A i \in seg : burst'[i] = burst[i]
      BY <2>1, <2>3
    <3>4. Terminator(want)' = Terminator(want)
      BY <1>1 DEF Terminator
    <3>5. QED
      BY <1>1, <2>3, <3>1, <3>2, <3>3, <3>4 DEF ServedExact, more
  <2>8. QED
    BY <1>2, <1>3, <2>6, <2>7 DEF ServeInv
<1>6. QED
  BY <1>4, <1>5

\* Every step of the session and of the phone keeps ServeInv.
LEMMA NextServeInv == ServeInv /\ [ServeNext]_serveVars => ServeInv'
<1> SUFFICES ASSUME ServeInv, [ServeNext]_serveVars PROVE ServeInv'
  OBVIOUS
<1>1. CASE Next /\ UNCHANGED phone
  BY <1>1, StoreServeInv
<1>2. ASSUME NEW n \in Nonces, WantConfig(n) PROVE ServeInv'
  BY <1>2, WantServeInv
<1>3. CASE fromradio_read
  <2>1. StoreInv /\ PhoneOK
    BY DEF ServeInv
  <2>2. pc.replay_cursor \in Nat /\ cache_frame_count(cache) \in Nat
    BY <2>1 DEF StoreInv, CacheTypeOK, PhoneOK, cache_frame_count
  <2>3. QED
    BY <1>3, <2>2, ReadServesFrame, ReadServesTerminator, ReadEndsReplay
<1>4. CASE UNCHANGED serveVars
  <2>1. /\ cache' = cache /\ burst' = burst /\ pc' = pc /\ want' = want
        /\ got' = got /\ since' = since
    BY <1>4 DEF serveVars
  <2>2. StoreInv' /\ PhoneOK' /\ Segment(want)' = Segment(want)
    BY <2>1, NextStoreInv DEF vars, ServeInv, PhoneOK, Segment, FirstNodeInfo
  <2>3. (want # 0 => Progress)' /\ ServedExact'
    <3>1. Terminator(want)' = Terminator(want)
      BY <2>1 DEF Terminator
    <3>2. QED
      BY <2>1, <2>2, <3>1 DEF ServeInv, Progress, ServedExact
  <2>4. QED
    BY <2>2, <2>3 DEF ServeInv
<1>5. QED
  BY <1>1, <1>2, <1>3, <1>4 DEF ServeNext

\* A phone is served its segment of the published burst, whole, in order and
\* byte for byte, and then its terminator, whatever the session appends to the
\* cache between two of its reads.
THEOREM PhoneServedExact == ServeSpec => []ServedExact
<1>1. ServeInv => ServedExact
  BY DEF ServeInv
<1>2. QED
  BY <1>1, InitServeInv, NextServeInv, PTL DEF ServeSpec
=============================================================================

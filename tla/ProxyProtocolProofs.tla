------------------------ MODULE ProxyProtocolProofs ------------------------
(***************************************************************************)
(* Proofs about the proxy header, for every id size, payload limit, buffer *)
(* and content: what one phone's proxy builds is what the other's reads.   *)
(* A byte is a member of any set that has PROXY_VERSION in it.             *)
(***************************************************************************)
EXTENDS ProxyProtocol, SequenceTheorems, TLAPS

Ids(Byte) == [1 .. PROXY_ID_SIZE -> Byte]

\* What build writes when everything fits.
Whole(src, dst, content) == <<PROXY_VERSION>> \o src \o dst \o content

\* Ids are sequences, so that build may concatenate them.
LEMMA IdIsSequence ==
  ASSUME NEW Byte, NEW id \in Ids(Byte)
  PROVE  id \in Seq(Byte) /\ Len(id) = PROXY_ID_SIZE
  BY ProtocolAssumption DEF Ids

\* Each of the four parts of a message is at its offset.
LaidOut(Byte, m, src, dst, content) ==
  /\ m \in Seq(Byte)
  /\ Len(m) = PROXY_HEADER_SIZE + Len(content)
  /\ m[1] = PROXY_VERSION
  /\ \A i \in 1 .. PROXY_ID_SIZE : m[PROXY_OFF_SRC + i] = src[i]
  /\ \A i \in 1 .. PROXY_ID_SIZE : m[PROXY_OFF_DST + i] = dst[i]
  /\ \A i \in 1 .. Len(content) : m[PROXY_OFF_CONTENT + i] = content[i]

\* What proxy_header_build writes is laid out as the offsets say.
LEMMA BuildLayout ==
  ASSUME NEW Byte, PROXY_VERSION \in Byte,
         NEW src \in Ids(Byte), NEW dst \in Ids(Byte), NEW content \in Seq(Byte)
  PROVE  LaidOut(Byte, Whole(src, dst, content), src, dst, content)
<1> DEFINE N == PROXY_ID_SIZE
           v == <<PROXY_VERSION>>
           a == v \o src
           b == a \o dst
           m == Whole(src, dst, content)
<1>0. N \in Nat /\ N > 0
  BY ProtocolAssumption
<1>1. v \in Seq(Byte) /\ Len(v) = 1 /\ v[1] = PROXY_VERSION
  OBVIOUS
<1>2. src \in Seq(Byte) /\ Len(src) = N /\ dst \in Seq(Byte) /\ Len(dst) = N
  BY IdIsSequence
<1>3. m = b \o content
  BY DEF Whole
<1> HIDE DEF v, m
<1>4. /\ a \in Seq(Byte) /\ Len(a) = 1 + N
      /\ \A i \in 1 .. 1 : a[i] = v[i]
      /\ \A i \in 1 .. N : a[1 + i] = src[i]
  <2>1. v \o src \in Seq(Byte) /\ Len(v \o src) = Len(v) + Len(src)
    BY <1>1, <1>2, ConcatProperties
  <2>2. \A i \in 1 .. Len(v) + Len(src) :
          (v \o src)[i] = IF i <= Len(v) THEN v[i] ELSE src[i - Len(v)]
    BY <1>1, <1>2, ConcatProperties, Zenon
  <2>3. ASSUME NEW i \in 1 .. N PROVE (v \o src)[1 + i] = src[i]
    <3>1. /\ 1 + i \in 1 .. Len(v) + Len(src)
          /\ ~ (1 + i <= Len(v)) /\ (1 + i) - Len(v) = i
      BY <1>0, <1>1, <1>2
    <3>2. QED
      BY <2>2, <3>1, Zenon
  <2>4. ASSUME NEW i \in 1 .. 1 PROVE (v \o src)[i] = v[i]
    <3>1. i \in 1 .. Len(v) + Len(src) /\ i <= Len(v)
      BY <1>0, <1>1, <1>2
    <3>2. QED
      BY <2>2, <3>1, Zenon
  <2>5. QED
    BY <1>0, <1>1, <1>2, <2>1, <2>3, <2>4
<1> HIDE DEF a
<1>5. /\ b \in Seq(Byte) /\ Len(b) = (1 + N) + N
      /\ \A i \in 1 .. (1 + N) : b[i] = a[i]
      /\ \A i \in 1 .. N : b[(1 + N) + i] = dst[i]
  <2>1. a \o dst \in Seq(Byte) /\ Len(a \o dst) = Len(a) + Len(dst)
    BY <1>2, <1>4, ConcatProperties
  <2>2. \A i \in 1 .. Len(a) + Len(dst) :
          (a \o dst)[i] = IF i <= Len(a) THEN a[i] ELSE dst[i - Len(a)]
    BY <1>2, <1>4, ConcatProperties, Zenon
  <2>3. ASSUME NEW i \in 1 .. N PROVE (a \o dst)[(1 + N) + i] = dst[i]
    <3>1. /\ (1 + N) + i \in 1 .. Len(a) + Len(dst)
          /\ ~ ((1 + N) + i <= Len(a)) /\ ((1 + N) + i) - Len(a) = i
      BY <1>0, <1>2, <1>4
    <3>2. QED
      BY <2>2, <3>1, Zenon
  <2>4. ASSUME NEW i \in 1 .. (1 + N) PROVE (a \o dst)[i] = a[i]
    <3>1. i \in 1 .. Len(a) + Len(dst) /\ i <= Len(a)
      BY <1>0, <1>2, <1>4
    <3>2. QED
      BY <2>2, <3>1, Zenon
  <2>5. QED
    BY <1>0, <1>2, <1>4, <2>1, <2>3, <2>4
<1> HIDE DEF b
<1>6. /\ m \in Seq(Byte) /\ Len(m) = (1 + 2 * N) + Len(content)
      /\ \A i \in 1 .. (1 + 2 * N) : m[i] = b[i]
      /\ \A i \in 1 .. Len(content) : m[(1 + 2 * N) + i] = content[i]
  <2>1. b \o content \in Seq(Byte) /\ Len(b \o content) = Len(b) + Len(content)
    BY <1>5, ConcatProperties
  <2>2. \A i \in 1 .. Len(b) + Len(content) :
          (b \o content)[i] = IF i <= Len(b) THEN b[i] ELSE content[i - Len(b)]
    BY <1>5, ConcatProperties, Zenon
  <2>3. ASSUME NEW i \in 1 .. Len(content) PROVE (b \o content)[(1 + 2 * N) + i] = content[i]
    <3>1. /\ (1 + 2 * N) + i \in 1 .. Len(b) + Len(content)
          /\ ~ ((1 + 2 * N) + i <= Len(b)) /\ ((1 + 2 * N) + i) - Len(b) = i
      BY <1>0, <1>5, <1>3
    <3>2. QED
      BY <2>2, <3>1, Zenon
  <2>4. ASSUME NEW i \in 1 .. (1 + 2 * N) PROVE (b \o content)[i] = b[i]
    <3>1. i \in 1 .. Len(b) + Len(content) /\ i <= Len(b)
      BY <1>0, <1>5, <1>3
    <3>2. QED
      BY <2>2, <3>1, Zenon
  <2>5. QED
    BY <1>0, <1>5, <1>3, <2>1, <2>3, <2>4
<1>7. m[1] = PROXY_VERSION
  BY <1>0, <1>1, <1>4, <1>5, <1>6
<1>8. ASSUME NEW i \in 1 .. N PROVE m[1 + i] = src[i]
  <2>1. 1 + i \in 1 .. 1 + N /\ 1 + i \in 1 .. 1 + 2 * N
    BY <1>0
  <2>2. QED
    BY <1>4, <1>5, <1>6, <2>1
<1>9. ASSUME NEW i \in 1 .. N PROVE m[(1 + N) + i] = dst[i]
  <2>1. (1 + N) + i \in 1 .. 1 + 2 * N
    BY <1>0
  <2>2. QED
    BY <1>5, <1>6, <2>1
<1>10. PROXY_HEADER_SIZE = 1 + 2 * N /\ PROXY_OFF_DST = 1 + N
  BY <1>0 DEF PROXY_HEADER_SIZE, PROXY_OFF_DST, PROXY_OFF_SRC
<1>11. QED
  BY <1>6, <1>7, <1>8, <1>9, <1>10 DEF LaidOut, m, PROXY_OFF_SRC, PROXY_OFF_CONTENT

\* proxy_header_build never writes past the caller's buffer, nor more than a
\* mesh packet carries.
THEOREM BuildFits ==
  ASSUME NEW Byte, PROXY_VERSION \in Byte,
         NEW src \in Ids(Byte), NEW dst \in Ids(Byte), NEW content \in Seq(Byte),
         NEW size \in Nat
  PROVE  LET m == proxy_header_build(src, dst, content, size)
         IN Len(m) <= size /\ Len(m) <= PROXY_PRACTICAL_MAX
<1> DEFINE m == Whole(src, dst, content)
<1>1. Len(m) = PROXY_HEADER_SIZE + Len(content)
  BY BuildLayout DEF LaidOut
<1>2. PROXY_HEADER_SIZE \in Nat /\ PROXY_PRACTICAL_MAX \in Nat /\ Len(content) \in Nat
  BY ProtocolAssumption DEF PROXY_HEADER_SIZE
<1> HIDE DEF m
<1>3. CASE proxy_header_build(src, dst, content, size) = <<>>
  BY <1>2, <1>3
<1>4. CASE /\ Len(content) <= PROXY_CONTENT_MAX /\ PROXY_HEADER_SIZE + Len(content) <= size
           /\ proxy_header_build(src, dst, content, size) = m
  BY <1>1, <1>2, <1>4 DEF PROXY_CONTENT_MAX
<1>5. QED
  BY <1>2, <1>3, <1>4, ProtocolAssumption DEF proxy_header_build, m, Whole, PROXY_CONTENT_MAX

\* What proxy_header_build wrote, proxy_header_parse reads back: the sender's
\* and the addressee's id each in its place, and the content whole.
THEOREM ParseInvertsBuild ==
  ASSUME NEW Byte, PROXY_VERSION \in Byte,
         NEW src \in Ids(Byte), NEW dst \in Ids(Byte), NEW content \in Seq(Byte),
         NEW size \in Nat,
         proxy_header_build(src, dst, content, size) # <<>>
  PROVE  proxy_header_parse(proxy_header_build(src, dst, content, size))
           = [ok |-> TRUE, src |-> src, dst |-> dst, content |-> content]
<1> DEFINE m == Whole(src, dst, content)
<1>1. proxy_header_build(src, dst, content, size) = m
  BY DEF proxy_header_build, Whole
<1>2. LaidOut(Byte, m, src, dst, content)
  BY BuildLayout
<1>3. PROXY_HEADER_SIZE \in Nat /\ PROXY_OFF_CONTENT = PROXY_HEADER_SIZE /\ Len(content) \in Nat
  BY ProtocolAssumption DEF PROXY_HEADER_SIZE, PROXY_OFF_CONTENT
<1> HIDE DEF m
<1>4. IdAt(m, PROXY_OFF_SRC) = src
  BY <1>2 DEF LaidOut, IdAt, Ids
<1>5. IdAt(m, PROXY_OFF_DST) = dst
  BY <1>2 DEF LaidOut, IdAt, Ids
<1>6. SubSeq(m, PROXY_OFF_CONTENT + 1, Len(m)) = content
  <2> DEFINE s == SubSeq(m, PROXY_OFF_CONTENT + 1, Len(m))
  <2>1. s \in Seq(Byte) /\ Len(s) = Len(content)
    BY <1>2, <1>3, SubSeqProperties DEF LaidOut
  <2>2. \A i \in 1 .. Len(content) : s[i] = content[i]
    BY <1>2, <1>3, SubSeqProperties DEF LaidOut
  <2> HIDE DEF s
  <2>3. s = content
    BY <2>1, <2>2, SeqEqual
  <2>4. QED
    BY <2>3 DEF s
<1>7. ~ (Len(m) < PROXY_HEADER_SIZE \/ m[1] # PROXY_VERSION)
  BY <1>2, <1>3 DEF LaidOut
<1>8. proxy_header_parse(m) = [ok |-> TRUE, src |-> src, dst |-> dst, content |-> content]
  BY <1>4, <1>5, <1>6, <1>7 DEF proxy_header_parse
<1>9. QED
  BY <1>1, <1>8

\* proxy_header_parse takes nothing but whole headers of this version, and reads
\* every id and the content from inside the payload it was given.
THEOREM ParseStaysInside ==
  ASSUME NEW Byte, NEW payload \in Seq(Byte), proxy_header_parse(payload).ok
  PROVE  /\ payload[1] = PROXY_VERSION
         /\ proxy_header_parse(payload).src \in Ids(Byte)
         /\ proxy_header_parse(payload).dst \in Ids(Byte)
         /\ proxy_header_parse(payload).content \in Seq(Byte)
         /\ Len(proxy_header_parse(payload).content) = Len(payload) - PROXY_HEADER_SIZE
<1>0. PROXY_ID_SIZE \in Nat /\ PROXY_ID_SIZE > 0
  BY ProtocolAssumption
<1>1. Len(payload) >= PROXY_HEADER_SIZE /\ payload[1] = PROXY_VERSION /\ PROXY_HEADER_SIZE \in Nat
  BY <1>0 DEF proxy_header_parse, NoHeader, PROXY_HEADER_SIZE
<1>2. proxy_header_parse(payload) =
        [ok |-> TRUE,
         src |-> IdAt(payload, PROXY_OFF_SRC), dst |-> IdAt(payload, PROXY_OFF_DST),
         content |-> SubSeq(payload, PROXY_OFF_CONTENT + 1, Len(payload))]
  BY <1>1 DEF proxy_header_parse
<1>3. \A i \in 1 .. PROXY_ID_SIZE : payload[PROXY_OFF_SRC + i] \in Byte
  BY <1>0, <1>1 DEF PROXY_HEADER_SIZE, PROXY_OFF_SRC
<1>4. \A i \in 1 .. PROXY_ID_SIZE : payload[PROXY_OFF_DST + i] \in Byte
  BY <1>0, <1>1 DEF PROXY_HEADER_SIZE, PROXY_OFF_SRC, PROXY_OFF_DST
<1>5. IdAt(payload, PROXY_OFF_SRC) \in Ids(Byte) /\ IdAt(payload, PROXY_OFF_DST) \in Ids(Byte)
  BY <1>3, <1>4 DEF IdAt, Ids
<1>6. LET s == SubSeq(payload, PROXY_OFF_CONTENT + 1, Len(payload))
      IN s \in Seq(Byte) /\ Len(s) = Len(payload) - PROXY_HEADER_SIZE
  BY <1>1, SubSeqProperties DEF PROXY_OFF_CONTENT
<1>7. QED
  BY <1>1, <1>2, <1>5, <1>6
=============================================================================

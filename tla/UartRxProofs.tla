---------------------------- MODULE UartRxProofs ----------------------------
(***************************************************************************)
(* Proofs about the receive path, for every payload size, ring size and    *)
(* input: whatever bytes arrive and whenever the interrupt resets the      *)
(* state machine, rx_process_byte never stores past the end of the payload *)
(* array; and as long as no byte is lost or added, every frame is          *)
(* delivered once, in order and byte for byte (StreamInv: the bytes at     *)
(* hand, cut into frames).                                                 *)
(***************************************************************************)
EXTENDS UartRx, SequenceTheorems, TLAPS

\* At power-on the state machine waits for a frame and the ring is empty.
LEMMA InitRxInv == Init => RxInv
<1> SUFFICES ASSUME Init PROVE RxInv
  OBVIOUS
<1>1. RxTypeOK
  BY RxAssumption DEF Init, RxTypeOK, RxState, Byte, U16
<1>2. PcFollowsState /\ HighByteOnly /\ PayloadInBounds
  BY DEF Init, PcFollowsState, HighByteOnly, PayloadInBounds, RxState
<1>3. QED
  BY <1>1, <1>2 DEF RxInv

\* The line and the interrupt touch the state machine only to reset it.
LEMMA LineStep ==
  ASSUME RxInv,
         \/ \E p \in Payloads : NodeSends(p)
         \/ \E b \in Noise : NoiseByte(b)
         \/ Silence \/ BackInStep \/ RxDisabled \/ LineUnheard
         \/ \E n \in 1 .. MaxPayload + 4 : RxReady(n)
  PROVE  RxInv'
<1> USE DEF RxInv
<1>1. ASSUME NEW p \in Payloads, NodeSends(p) PROVE RxInv'
  BY <1>1, LineAssumption DEF NodeSends, sm, RxTypeOK, PcFollowsState, HighByteOnly, PayloadInBounds
<1>2. ASSUME NEW b \in Noise, NoiseByte(b) PROVE RxInv'
  <2>1. <<b>> \in Seq(Byte)
    BY RxAssumption
  <2>2. QED
    BY <1>2, <2>1 DEF NoiseByte, sm, RxTypeOK, PcFollowsState, HighByteOnly, PayloadInBounds
<1>3. CASE Silence
  BY <1>3 DEF Silence, sm, RxTypeOK, PcFollowsState, HighByteOnly, PayloadInBounds
<1>4. CASE BackInStep
  BY <1>4 DEF BackInStep, sm, RxTypeOK, PcFollowsState, HighByteOnly, PayloadInBounds
<1>5. CASE RxDisabled
  <2>1. line' \in Seq(Byte)
    <3>1. PICK n \in 0 .. Len(line) : line' = SubSeq(line, n + 1, Len(line))
      BY <1>5 DEF RxDisabled
    <3>2. QED
      BY <3>1, SubSeqProperties DEF RxTypeOK
  <2>2. RxTypeOK'
    BY <1>5, <2>1 DEF RxDisabled, RxTypeOK, RxState
  <2>3. (PcFollowsState /\ HighByteOnly /\ PayloadInBounds)'
    BY <1>5 DEF RxDisabled, PcFollowsState, HighByteOnly, PayloadInBounds, RxState
  <2>4. QED
    BY <2>2, <2>3
<1>6. ASSUME NEW n \in 1 .. MaxPayload + 4, RxReady(n) PROVE RxInv'
  <2> DEFINE room == RingSize - Len(ring)
             put  == IF n <= room THEN n ELSE room
  <2>1. /\ n <= Len(line) /\ ring' = ring \o SubSeq(line, 1, put)
        /\ line' = SubSeq(line, n + 1, Len(line))
        /\ UNCHANGED <<state, expected_len, received_len, payload, pc, byte, resync>>
    BY <1>6 DEF RxReady, sm
  <2>2. /\ ring \in Seq(Byte) /\ line \in Seq(Byte) /\ Len(ring) \in Nat
        /\ Len(line) \in Nat /\ Len(ring) <= RingSize /\ RingSize \in Nat /\ n \in Nat
        /\ n >= 1
    BY RxAssumption DEF RxTypeOK
  <2>3. put \in 0 .. Len(line) /\ put <= room
    BY <2>1, <2>2
  <2>4. SubSeq(line, 1, put) \in Seq(Byte) /\ Len(SubSeq(line, 1, put)) = put
    BY <2>2, <2>3, SubSeqProperties
  <2>5. ring' \in Seq(Byte) /\ Len(ring') = Len(ring) + put
    BY <2>1, <2>2, <2>4, ConcatProperties
  <2>6. line' \in Seq(Byte)
    BY <2>1, <2>2, SubSeqProperties
  <2>7. RxTypeOK'
    BY <2>1, <2>2, <2>3, <2>5, <2>6 DEF RxTypeOK
  <2>8. (PcFollowsState /\ HighByteOnly /\ PayloadInBounds)'
    BY <2>1 DEF PcFollowsState, HighByteOnly, PayloadInBounds
  <2>9. QED
    BY <2>7, <2>8
<1>7. CASE LineUnheard
  BY <1>7 DEF LineUnheard, sm, RxTypeOK, PcFollowsState, HighByteOnly, PayloadInBounds
<1>8. QED
  BY <1>1, <1>2, <1>3, <1>4, <1>5, <1>6, <1>7

\* rx_work_handler: entering, reading a byte and the switch, and the end.
LEMMA HandlerStep ==
  ASSUME RxInv, HandlerEnter \/ HandlerGet \/ HandlerEnd PROVE RxInv'
<1> USE DEF RxInv
<1>1. CASE HandlerEnter
  BY <1>1 DEF HandlerEnter, sm, RxTypeOK, PcFollowsState, HighByteOnly, PayloadInBounds, RxState
<1>2. CASE HandlerGet
  <2>1. /\ ring # <<>> /\ byte' = Head(ring) /\ ring' = Tail(ring) /\ pc' = state
        /\ UNCHANGED <<state, expected_len, received_len, payload, line, resync>>
    BY <1>2 DEF HandlerGet, sm
  <2>2. byte' \in Byte /\ ring' \in Seq(Byte) /\ Len(ring') <= RingSize
    BY <2>1, HeadTailProperties, RxAssumption DEF RxTypeOK
  <2>3. RxTypeOK'
    BY <2>1, <2>2 DEF RxTypeOK
  <2>4. (PcFollowsState /\ HighByteOnly /\ PayloadInBounds)'
    BY <2>1 DEF PcFollowsState, HighByteOnly, PayloadInBounds
  <2>5. QED
    BY <2>3, <2>4
<1>3. CASE HandlerEnd
  BY <1>3 DEF HandlerEnd, Rescheduled, sm, RxTypeOK, PcFollowsState, HighByteOnly,
              PayloadInBounds, RxState
<1>4. QED
  BY <1>1, <1>2, <1>3

\* rx_process_byte in each of its states; the interrupt may have reset the
\* state since the switch read it.
LEMMA ByteStep ==
  ASSUME RxInv, WaitMagic1 \/ WaitMagic2 \/ WaitLenHi \/ WaitLenLo \/ WaitPayload
  PROVE  RxInv'
<1> USE DEF RxInv
<1>0. MaxPayload \in Nat /\ MaxPayload > 0
  BY RxAssumption
<1>a. byte \in Int /\ 0 <= byte /\ byte <= 255
  BY DEF RxTypeOK, Byte
<1>b. /\ expected_len \in Int /\ 0 <= expected_len
      /\ received_len \in Int /\ 0 <= received_len
  BY <1>0 DEF RxTypeOK, U16
<1>1. CASE WaitMagic1
  BY <1>1 DEF WaitMagic1, Branch, RxTypeOK, PcFollowsState, HighByteOnly, PayloadInBounds, RxState
<1>2. CASE WaitMagic2
  BY <1>2 DEF WaitMagic2, Branch, RxTypeOK, PcFollowsState, HighByteOnly, PayloadInBounds, RxState
<1>3. CASE WaitLenHi
  <2>1. byte * 256 \in U16 /\ byte * 256 <= 255 * 256
    BY <1>a, SMT DEF U16
  <2>2. QED
    BY <1>3, <2>1 DEF WaitLenHi, Branch, RxTypeOK, PcFollowsState, HighByteOnly, PayloadInBounds, RxState
<1>4. CASE WaitLenLo
  <2>1. expected_len + byte \in U16
    <3>1. expected_len <= 255 * 256
      BY <1>4 DEF WaitLenLo, Branch, HighByteOnly
    <3>2. QED
      BY <1>a, <1>b, <3>1, SMT DEF U16
  <2>2. CASE GoodLength(expected_len + byte)
    <3>1. expected_len + byte > 0 /\ expected_len + byte <= MaxPayload
      BY <1>a, <1>b, <2>2 DEF GoodLength
    <3>2. QED
      BY <1>0, <1>4, <2>1, <2>2, <3>1
      DEF WaitLenLo, Branch, RxTypeOK, PcFollowsState, HighByteOnly, PayloadInBounds, RxState
  <2>3. CASE ~ GoodLength(expected_len + byte)
    BY <1>4, <2>1, <2>3
    DEF WaitLenLo, Branch, RxTypeOK, PcFollowsState, HighByteOnly, PayloadInBounds, RxState
  <2>4. QED
    BY <2>2, <2>3
<1>5. CASE WaitPayload
  <2>1. /\ pc = "PAYLOAD" /\ pc' = "get" /\ state \in {"PAYLOAD", "MAGIC1"}
        /\ received_len < expected_len /\ expected_len <= MaxPayload
    BY <1>5 DEF WaitPayload, Branch, PayloadInBounds, PcFollowsState, RxState
  <2>2. received_len \in 0 .. MaxPayload - 1 /\ received_len + 1 \in 0 .. MaxPayload
    BY <1>0, <1>b, <2>1
  <2>3. payload' \in [0 .. MaxPayload - 1 -> Byte]
    BY <1>5, <2>2 DEF WaitPayload, RxTypeOK
  <2>4. RxTypeOK'
    BY <1>5, <2>2, <2>3 DEF WaitPayload, Branch, RxTypeOK, RxState
  <2>5. PayloadInBounds'
    <3>1. CASE received_len + 1 = expected_len
      BY <1>5, <2>1, <3>1 DEF WaitPayload, Branch, PayloadInBounds
    <3>2. CASE received_len + 1 # expected_len
      <4>1. /\ received_len' = received_len + 1 /\ expected_len' = expected_len
        BY <1>5 DEF WaitPayload
      <4>2. received_len' < expected_len' /\ expected_len' <= MaxPayload
        BY <1>b, <2>1, <3>2, <4>1
      <4>3. QED
        BY <4>2 DEF PayloadInBounds
    <3>3. QED
      BY <3>1, <3>2
  <2>6. (PcFollowsState /\ HighByteOnly)'
    BY <1>5, <2>1 DEF WaitPayload, Branch, PcFollowsState, HighByteOnly, RxState
  <2>7. QED
    BY <2>4, <2>5, <2>6
<1>6. QED
  BY <1>1, <1>2, <1>3, <1>4, <1>5

\* The watchdog runs only between two runs of rx_work_handler.
LEMMA ResyncStep ==
  ASSUME RxInv, ResyncExpires \/ rx_resync_handler PROVE RxInv'
<1> USE DEF RxInv
<1>1. CASE ResyncExpires
  BY <1>1 DEF ResyncExpires, sm, RxTypeOK, PcFollowsState, HighByteOnly, PayloadInBounds
<1>2. CASE rx_resync_handler
  <2>1. 0 \in U16 /\ 0 \in 0 .. MaxPayload
    BY RxAssumption DEF U16
  <2>2. RxTypeOK'
    BY <1>2, <2>1 DEF rx_resync_handler, RxTypeOK, RxState, history, counters
  <2>3. state' = "MAGIC1" /\ pc' = "idle"
    BY <1>2 DEF rx_resync_handler
  <2>4. (PcFollowsState /\ HighByteOnly /\ PayloadInBounds)'
    BY <2>3 DEF PcFollowsState, HighByteOnly, PayloadInBounds, RxState
  <2>5. QED
    BY <2>2, <2>4
<1>3. QED
  BY <1>1, <1>2

\* Every step of the line, the interrupt and the work queue keeps RxInv.
LEMMA NextRxInv == RxInv /\ [Next]_vars => RxInv'
<1> SUFFICES ASSUME RxInv, [Next]_vars PROVE RxInv'
  OBVIOUS
<1>1. CASE RxWork
  BY <1>1, HandlerStep, ByteStep DEF RxWork
<1>2. CASE ResyncExpires \/ rx_resync_handler
  BY <1>2, ResyncStep
<1>3. CASE \/ \E p \in Payloads : NodeSends(p)
           \/ \E b \in Noise : NoiseByte(b)
           \/ Silence \/ BackInStep \/ RxDisabled \/ LineUnheard
           \/ \E n \in 1 .. MaxPayload + 4 : RxReady(n)
  BY <1>3, LineStep
<1>4. CASE UNCHANGED vars
  BY <1>4 DEF vars, RxInv, RxTypeOK, PcFollowsState, HighByteOnly, PayloadInBounds
<1>5. QED
  BY <1>1, <1>2, <1>3, <1>4 DEF Next

\* The inductive invariant of the receive path holds in every reachable state.
THEOREM RxInvariant == Spec => []RxInv
  BY InitRxInv, NextRxInv, PTL DEF Spec

\* The lengths fit their types and the ring never holds more than it can.
THEOREM RxTypeCorrect == Spec => []RxTypeOK
<1>1. RxInv => RxTypeOK
  BY DEF RxInv
<1>2. QED
  BY <1>1, RxInvariant, PTL

\* rx_process_byte never stores a byte outside rx_sm.payload.
THEOREM RxPayloadInBounds == Spec => []PayloadInBounds
<1>1. RxInv => PayloadInBounds
  BY DEF RxInv
<1>2. QED
  BY <1>1, RxInvariant, PTL

----------------------------------------------------------------------------
(* What is sent is what is delivered. *)

\* The bytes of the current frame that rx_process_byte is done with.
Parsed == CASE state = "MAGIC1" -> 0 [] state = "MAGIC2" -> 1 [] state = "LEN_HI" -> 2
            [] state = "LEN_LO" -> 3 [] state = "PAYLOAD" -> 4 + received_len

\* The bytes it has not looked at: its local variable, the ring and the line.
Pending == (IF pc \in RxState THEN <<byte>> ELSE <<>>) \o (ring \o line)

\* What is left of frame in bytes, where it begins after the first at of them.
Shows(bytes, at, frame) ==
  \A j \in 1 .. Len(frame) : at + j >= 1 => /\ at + j <= Len(bytes)
                                            /\ bytes[at + j] = frame[j]

\* start cuts the bytes at hand into the frames of msgs after the first d: frame
\* k begins after start[k] of them, and done bytes of frame d + 1 are gone.
Cut(start, bytes, msgs, d, done) ==
  /\ start \in [1 .. Len(msgs) + 1 -> Int]
  /\ start[d + 1] = 0 - done /\ start[Len(msgs) + 1] = Len(bytes)
  /\ \A k \in d + 1 .. Len(msgs) :
       /\ start[k + 1] = start[k] + 4 + Len(msgs[k])
       /\ Shows(bytes, start[k], Framed(msgs[k]))

\* The fields of rx_sm agree with the frame under way.
FrameAgrees ==
  LET p == sent[Len(delivered) + 1] IN
  /\ state = "LEN_LO" => expected_len = (Len(p) \div 256) * 256
  /\ state = "PAYLOAD" => /\ expected_len = Len(p)
                          /\ \A i \in 0 .. received_len - 1 : payload[i] = p[i + 1]

\* Nothing has reset the state machine, and nothing is about to.
Undisturbed ==
  /\ pc \in RxState => state = pc
  /\ resync \notin {"queued", "both"} /\ ~ (resync = "armed" /\ quiet)
  /\ pc = "idle" /\ resync = "armed" => state # "MAGIC1"

\* What was delivered is what was sent so far.
DeliveredSoFar ==
  /\ delivered \in Seq(Payloads) /\ Len(delivered) <= Len(sent)
  /\ \A k \in 1 .. Len(delivered) : delivered[k] = sent[k]

\* The receiver follows the node: the bytes at hand are the rest of the frames
\* sent, and it is where they say.
Following ==
  /\ DeliveredSoFar /\ Undisturbed /\ FrameAgrees
  /\ \E start : Cut(start, Pending, sent, Len(delivered), Parsed)

\* The inductive invariant of the stream.  The ring is never left with bytes
\* and no rx_work, and as long as nothing is lost the receiver follows.
StreamInv ==
  /\ RxInv /\ sent \in Seq(Payloads)
  /\ ring # <<>> => rx_work \/ pc # "idle"
  /\ ~ lost => Following

\* Every payload is a sequence of bytes.
LEMMA PayloadLength ==
  ASSUME NEW p \in Payloads
  PROVE  /\ Len(p) \in 1 .. MaxPayload /\ Len(p) \in Nat /\ Len(p) >= 1
         /\ p \in Seq(Byte) /\ Framed(p) \in Seq(Byte)
<1>1. Len(p) \in 1 .. MaxPayload /\ p \in Seq(Byte) /\ Framed(p) \in Seq(Byte)
  BY RxAssumption, LineAssumption
<1>2. MaxPayload \in Nat
  BY RxAssumption
<1>3. QED
  BY <1>1, <1>2

\* The header of a frame, and the payload after it.
LEMMA FramedBytes ==
  ASSUME NEW p \in Payloads
  PROVE  /\ Len(Framed(p)) = 4 + Len(p)
         /\ Framed(p)[1] = MAGIC1 /\ Framed(p)[2] = MAGIC2
         /\ Framed(p)[3] = Len(p) \div 256 /\ Framed(p)[4] = Len(p) % 256
         /\ \A i \in 1 .. Len(p) : Framed(p)[4 + i] = p[i]
<1> DEFINE h == <<MAGIC1, MAGIC2, Len(p) \div 256, Len(p) % 256>>
<1>1. p \in Seq(Byte)
  BY PayloadLength
<1>2. Len(p) \in Nat
  BY PayloadLength
<1>3. h \in Seq(Int) /\ Len(h) = 4
  BY <1>2 DEF MAGIC1, MAGIC2
<1>4. p \in Seq(Int)
  <2>1. Byte \subseteq Int
    BY DEF Byte
  <2>2. QED
    BY <1>1, <2>1, SeqMonotonic
<1>5. Framed(p) = h \o p
  BY DEF Framed
<1> HIDE DEF h
<1>6. /\ Len(h \o p) = 4 + Len(p)
      /\ \A i \in 1 .. 4 + Len(p) : (h \o p)[i] = IF i <= 4 THEN h[i] ELSE p[i - 4]
  <2>1. /\ Len(h \o p) = Len(h) + Len(p)
        /\ \A i \in 1 .. Len(h) + Len(p) :
             (h \o p)[i] = IF i <= Len(h) THEN h[i] ELSE p[i - Len(h)]
    BY <1>3, <1>4, ConcatProperties
  <2>2. QED
    BY <1>3, <2>1
<1>7. h[1] = MAGIC1 /\ h[2] = MAGIC2 /\ h[3] = Len(p) \div 256 /\ h[4] = Len(p) % 256
  BY DEF h
<1>8. \A i \in 1 .. Len(p) : Framed(p)[4 + i] = p[i]
  <2> TAKE i \in 1 .. Len(p)
  <2>1. 4 + i \in 1 .. 4 + Len(p) /\ ~ (4 + i <= 4) /\ 4 + i - 4 = i
    BY <1>2
  <2>2. QED
    BY <1>5, <1>6, <2>1
<1>9. QED
  BY <1>1, <1>2, <1>5, <1>6, <1>7, <1>8

\* The two length bytes put together give the length back.
LEMMA LengthBytes ==
  ASSUME NEW n \in Nat PROVE (n \div 256) * 256 + (n % 256) = n
  BY SMT

\* The arithmetic of frames that move by one.
LEMMA Moved ==
  ASSUME NEW a \in Int, NEW m \in Int
  PROVE  /\ (a + 4 + m) - 1 = (a - 1) + 4 + m
         /\ a = 4 + m => (0 - a) + 4 + m = 0
         /\ 0 - (a + 1) = (0 - a) - 1
  OBVIOUS

\* The next byte of a frame that is under way.
LEMMA ShowsNext ==
  ASSUME NEW bytes \in Seq(Byte), NEW n \in Nat, NEW frame \in Seq(Byte), n < Len(frame),
         Shows(bytes, 0 - n, frame)
  PROVE  bytes # <<>> /\ Head(bytes) = frame[n + 1]
<1>1. n + 1 \in 1 .. Len(frame) /\ (0 - n) + (n + 1) = 1
  OBVIOUS
<1>2. 1 <= Len(bytes) /\ bytes[1] = frame[n + 1]
  BY <1>1 DEF Shows
<1>3. QED
  BY <1>2

\* A frame, seen after the first byte at hand is gone.
LEMMA ShowsTail ==
  ASSUME NEW bytes \in Seq(Byte), bytes # <<>>, NEW at \in Int, NEW frame \in Seq(Byte),
         Shows(bytes, at, frame)
  PROVE  Shows(Tail(bytes), at - 1, frame)
<1>1. /\ Len(bytes) \in Nat /\ Len(Tail(bytes)) = Len(bytes) - 1
      /\ \A i \in 1 .. Len(bytes) - 1 : Tail(bytes)[i] = bytes[i + 1]
  BY EmptySeq, HeadTailProperties
<1>2. ASSUME NEW j \in 1 .. Len(frame), (at - 1) + j >= 1
      PROVE  (at - 1) + j <= Len(Tail(bytes)) /\ Tail(bytes)[(at - 1) + j] = frame[j]
  <2>1. at + j >= 1 /\ ((at - 1) + j) + 1 = at + j
    BY <1>2
  <2>2. at + j <= Len(bytes) /\ bytes[at + j] = frame[j]
    BY <2>1 DEF Shows
  <2>3. (at - 1) + j \in 1 .. Len(bytes) - 1
    BY <1>1, <1>2, <2>2
  <2>4. QED
    BY <1>1, <2>1, <2>2, <2>3
<1>3. QED
  BY <1>2 DEF Shows

\* Bytes that come after do not change what is seen of a frame; a frame that
\* comes last is seen whole.
LEMMA ShowsConcat ==
  ASSUME NEW bytes \in Seq(Byte), NEW more \in Seq(Byte)
  PROVE  /\ Len(bytes \o more) = Len(bytes) + Len(more)
         /\ Shows(bytes \o more, Len(bytes), more)
         /\ \A at \in Int : \A frame \in Seq(Byte) :
              Shows(bytes, at, frame) => Shows(bytes \o more, at, frame)
<1> DEFINE all == bytes \o more
<1>1. /\ Len(bytes) \in Nat /\ Len(more) \in Nat /\ Len(all) = Len(bytes) + Len(more)
      /\ \A i \in 1 .. Len(bytes) + Len(more) :
           all[i] = IF i <= Len(bytes) THEN bytes[i] ELSE more[i - Len(bytes)]
  BY ConcatProperties
<1> HIDE DEF all
<1>2. Shows(all, Len(bytes), more)
  <2>1. ASSUME NEW j \in 1 .. Len(more)
        PROVE  Len(bytes) + j <= Len(all) /\ all[Len(bytes) + j] = more[j]
    <3>1. /\ Len(bytes) + j \in 1 .. Len(bytes) + Len(more)
          /\ ~ (Len(bytes) + j <= Len(bytes)) /\ Len(bytes) + j - Len(bytes) = j
      BY <1>1
    <3>2. QED
      BY <1>1, <3>1
  <2>2. QED
    BY <2>1 DEF Shows
<1>3. ASSUME NEW at \in Int, NEW frame \in Seq(Byte), Shows(bytes, at, frame)
      PROVE  Shows(all, at, frame)
  <2>1. ASSUME NEW j \in 1 .. Len(frame), at + j >= 1
        PROVE  at + j <= Len(all) /\ all[at + j] = frame[j]
    <3>1. at + j <= Len(bytes) /\ bytes[at + j] = frame[j]
      BY <1>3, <2>1 DEF Shows
    <3>2. at + j \in 1 .. Len(bytes) + Len(more) /\ at + j <= Len(all)
      BY <1>1, <2>1, <3>1
    <3>3. QED
      BY <1>1, <3>1, <3>2
  <2>2. QED
    BY <2>1 DEF Shows
<1>4. QED
  BY <1>1, <1>2, <1>3 DEF all

\* Each frame the receiver still has to finish.
LEMMA CutFrame ==
  ASSUME NEW start, NEW bytes \in Seq(Byte), NEW msgs \in Seq(Payloads),
         NEW d \in 0 .. Len(msgs), NEW done \in Nat, Cut(start, bytes, msgs, d, done),
         NEW k \in d + 1 .. Len(msgs)
  PROVE  /\ start[k] \in Int /\ start[k + 1] = start[k] + 4 + Len(msgs[k])
         /\ Shows(bytes, start[k], Framed(msgs[k]))
         /\ msgs[k] \in Payloads /\ Len(msgs[k]) \in Nat /\ Framed(msgs[k]) \in Seq(Byte)
         /\ k \in 1 .. Len(msgs) + 1 /\ k + 1 \in 1 .. Len(msgs) + 1
<1>1. Len(msgs) \in Nat
  OBVIOUS
<1>2. k \in 1 .. Len(msgs) /\ k \in 1 .. Len(msgs) + 1 /\ k + 1 \in 1 .. Len(msgs) + 1
  BY <1>1
<1>3. msgs[k] \in Payloads
  BY <1>2
<1>4. start[k] \in Int
  BY <1>2 DEF Cut
<1>5. start[k + 1] = start[k] + 4 + Len(msgs[k]) /\ Shows(bytes, start[k], Framed(msgs[k]))
  BY DEF Cut
<1>6. Len(msgs[k]) \in Nat /\ Framed(msgs[k]) \in Seq(Byte)
  BY <1>3, PayloadLength
<1>7. QED
  BY <1>2, <1>3, <1>4, <1>5, <1>6

\* A byte at hand belongs to a frame, and is its next one; a frame under way
\* has a byte at hand.
LEMMA CutByte ==
  ASSUME NEW start, NEW bytes \in Seq(Byte), NEW msgs \in Seq(Payloads),
         NEW d \in 0 .. Len(msgs), NEW done \in Nat, Cut(start, bytes, msgs, d, done)
  PROVE  /\ bytes # <<>> \/ done # 0 => d < Len(msgs)
         /\ d < Len(msgs) /\ done < 4 + Len(msgs[d + 1]) =>
              bytes # <<>> /\ Head(bytes) = Framed(msgs[d + 1])[done + 1]
<1>1. Len(bytes) \in Nat /\ Len(msgs) \in Nat
  OBVIOUS
<1>2. start[d + 1] = 0 - done /\ start[Len(msgs) + 1] = Len(bytes)
  BY DEF Cut
<1>3. ASSUME bytes # <<>> \/ done # 0 PROVE d < Len(msgs)
  <2>1. SUFFICES ASSUME d = Len(msgs) PROVE FALSE
    BY <1>1
  <2>2. 0 - done = Len(bytes)
    BY <1>2, <2>1
  <2>3. Len(bytes) = 0 /\ done = 0
    BY <1>1, <2>2
  <2>4. QED
    BY <1>3, <2>3, EmptySeq
<1>4. ASSUME d < Len(msgs), done < 4 + Len(msgs[d + 1])
      PROVE  bytes # <<>> /\ Head(bytes) = Framed(msgs[d + 1])[done + 1]
  <2>1. d + 1 \in d + 1 .. Len(msgs)
    BY <1>1, <1>4
  <2>2. /\ Shows(bytes, start[d + 1], Framed(msgs[d + 1]))
        /\ msgs[d + 1] \in Payloads /\ Framed(msgs[d + 1]) \in Seq(Byte)
    BY <2>1, CutFrame
  <2>3. Len(Framed(msgs[d + 1])) = 4 + Len(msgs[d + 1])
    BY <2>2, FramedBytes
  <2>4. done < Len(Framed(msgs[d + 1])) /\ Shows(bytes, 0 - done, Framed(msgs[d + 1]))
    BY <1>2, <1>4, <2>2, <2>3
  <2>5. QED
    BY <2>2, <2>4, ShowsNext
<1>5. QED
  BY <1>3, <1>4

\* Looking at a byte moves every frame one closer; after its last byte the
\* next frame is at hand.
LEMMA CutTail ==
  ASSUME NEW start, NEW bytes \in Seq(Byte), NEW msgs \in Seq(Payloads),
         NEW d \in 0 .. Len(msgs), NEW done \in Nat, Cut(start, bytes, msgs, d, done),
         bytes # <<>>, d < Len(msgs)
  PROVE  \E next : /\ Cut(next, Tail(bytes), msgs, d, done + 1)
                   /\ done + 1 = 4 + Len(msgs[d + 1]) =>
                        Cut(next, Tail(bytes), msgs, d + 1, 0)
<1> DEFINE next == [k \in 1 .. Len(msgs) + 1 |-> start[k] - 1]
<1>1. Len(bytes) \in Nat /\ Len(msgs) \in Nat /\ Len(Tail(bytes)) = Len(bytes) - 1
  BY HeadTailProperties
<1>2. /\ start \in [1 .. Len(msgs) + 1 -> Int] /\ start[Len(msgs) + 1] = Len(bytes)
      /\ start[d + 1] = 0 - done
  BY DEF Cut
<1>3. /\ next \in [1 .. Len(msgs) + 1 -> Int] /\ next[Len(msgs) + 1] = Len(Tail(bytes))
      /\ \A k \in 1 .. Len(msgs) + 1 : next[k] = start[k] - 1
  BY <1>1, <1>2
<1> HIDE DEF next
<1>4. ASSUME NEW k \in d + 1 .. Len(msgs)
      PROVE  /\ next[k + 1] = next[k] + 4 + Len(msgs[k])
             /\ Shows(Tail(bytes), next[k], Framed(msgs[k]))
  <2>1. /\ start[k] \in Int /\ start[k + 1] = start[k] + 4 + Len(msgs[k])
        /\ Shows(bytes, start[k], Framed(msgs[k]))
        /\ Len(msgs[k]) \in Int /\ Framed(msgs[k]) \in Seq(Byte)
        /\ k \in 1 .. Len(msgs) + 1 /\ k + 1 \in 1 .. Len(msgs) + 1
    BY CutFrame
  <2>2. next[k] = start[k] - 1 /\ next[k + 1] = (start[k] + 4 + Len(msgs[k])) - 1
    BY <1>3, <2>1
  <2>3. (start[k] + 4 + Len(msgs[k])) - 1 = (start[k] - 1) + 4 + Len(msgs[k])
    BY <2>1, Moved, Zenon
  <2>4. Shows(Tail(bytes), start[k] - 1, Framed(msgs[k]))
    BY <2>1, ShowsTail
  <2>5. QED
    BY <2>2, <2>3, <2>4, Zenon
<1>5. d + 1 \in d + 1 .. Len(msgs) /\ d + 1 \in 1 .. Len(msgs) + 1
  BY <1>1
<1>6. next[d + 1] = 0 - (done + 1)
  <2>1. next[d + 1] = (0 - done) - 1
    BY <1>2, <1>3, <1>5
  <2>2. done \in Int
    OBVIOUS
  <2>3. QED
    BY <2>1, <2>2, Moved, Zenon
<1>7. Cut(next, Tail(bytes), msgs, d, done + 1)
  BY <1>3, <1>4, <1>6 DEF Cut
<1>8. ASSUME done + 1 = 4 + Len(msgs[d + 1]) PROVE Cut(next, Tail(bytes), msgs, d + 1, 0)
  <2>1. next[(d + 1) + 1] = 0 - 0
    <3>1. next[(d + 1) + 1] = next[d + 1] + 4 + Len(msgs[d + 1]) /\ Len(msgs[d + 1]) \in Int
      BY <1>4, <1>5, CutFrame
    <3>2. (0 - (done + 1)) + 4 + Len(msgs[d + 1]) = 0
      <4>1. Len(msgs[d + 1]) \in Int /\ done + 1 \in Int
        BY <3>1
      <4>2. QED
        BY <1>8, <4>1, Moved, Zenon
    <3>3. 0 - 0 = 0
      OBVIOUS
    <3>4. QED
      BY <1>6, <3>1, <3>2, <3>3, Zenon
  <2>2. \A k \in (d + 1) + 1 .. Len(msgs) : k \in d + 1 .. Len(msgs)
    BY <1>1
  <2>3. QED
    BY <1>3, <1>4, <2>1, <2>2 DEF Cut
<1>9. QED
  BY <1>7, <1>8

\* A frame put on the line follows the bytes at hand.
LEMMA CutAppend ==
  ASSUME NEW start, NEW bytes \in Seq(Byte), NEW msgs \in Seq(Payloads),
         NEW d \in 0 .. Len(msgs), NEW done \in Nat, Cut(start, bytes, msgs, d, done),
         NEW p \in Payloads
  PROVE  \E next : Cut(next, bytes \o Framed(p), Append(msgs, p), d, done)
<1> DEFINE n == Len(msgs)
           more == bytes \o Framed(p)
           all == Append(msgs, p)
           next == [k \in 1 .. n + 2 |-> IF k = n + 2 THEN Len(more) ELSE start[k]]
<1>1. /\ Len(bytes) \in Nat /\ n \in Nat /\ Len(p) \in Nat /\ Framed(p) \in Seq(Byte)
  BY PayloadLength
<1>a. Len(Framed(p)) = 4 + Len(p)
  BY FramedBytes
<1>2. /\ Len(more) = Len(bytes) + Len(Framed(p)) /\ Shows(more, Len(bytes), Framed(p))
      /\ \A at \in Int : \A frame \in Seq(Byte) :
           Shows(bytes, at, frame) => Shows(more, at, frame)
  BY <1>1, ShowsConcat
<1>3. Len(all) = n + 1 /\ all[n + 1] = p /\ \A k \in 1 .. n : all[k] = msgs[k]
  BY <1>1, AppendProperties
<1>4. start \in [1 .. n + 1 -> Int] /\ start[d + 1] = 0 - done /\ start[n + 1] = Len(bytes)
  BY DEF Cut
<1> HIDE DEF more, all
<1>b. Len(more) = Len(bytes) + 4 + Len(p)
  BY <1>1, <1>a, <1>2
<1>5. /\ next \in [1 .. Len(all) + 1 -> Int] /\ next[n + 2] = Len(more)
      /\ \A k \in 1 .. n + 1 : next[k] = start[k]
  BY <1>1, <1>b, <1>3, <1>4
<1> HIDE DEF next
<1>6. next[d + 1] = 0 - done /\ next[Len(all) + 1] = Len(more) /\ next[n + 1] = Len(bytes)
  <2>1. d + 1 \in 1 .. n + 1 /\ n + 1 \in 1 .. n + 1 /\ Len(all) + 1 = n + 2
    BY <1>1, <1>3
  <2>2. QED
    BY <1>4, <1>5, <2>1, Zenon
<1>7. ASSUME NEW k \in d + 1 .. Len(all)
      PROVE  /\ next[k + 1] = next[k] + 4 + Len(all[k])
             /\ Shows(more, next[k], Framed(all[k]))
  <2>1. CASE k = n + 1
    <3>1. k + 1 = n + 2
      BY <1>1, <2>1
    <3>2. QED
      BY <1>b, <1>2, <1>3, <1>5, <1>6, <2>1, <3>1, Zenon
  <2>2. CASE k # n + 1
    <3>1. k \in d + 1 .. n /\ k \in 1 .. n /\ k \in 1 .. n + 1 /\ k + 1 \in 1 .. n + 1
      BY <1>1, <1>3, <2>2
    <3>2. /\ start[k] \in Int /\ start[k + 1] = start[k] + 4 + Len(msgs[k])
          /\ Shows(bytes, start[k], Framed(msgs[k])) /\ Framed(msgs[k]) \in Seq(Byte)
      BY <3>1, CutFrame
    <3>3. Shows(more, start[k], Framed(msgs[k]))
      BY <1>2, <3>2, Zenon
    <3>4. all[k] = msgs[k] /\ next[k] = start[k] /\ next[k + 1] = start[k + 1]
      BY <1>3, <1>5, <3>1
    <3>5. QED
      BY <3>2, <3>3, <3>4, Zenon
  <2>3. QED
    BY <2>1, <2>2
<1>8. Cut(next, more, all, d, done)
  BY <1>5, <1>6, <1>7 DEF Cut
<1>9. QED
  BY <1>8 DEF more, all

\* Handing bytes from the line to the ring, and from the ring to the handler,
\* does not change the bytes at hand.
LEMMA Rechunked ==
  ASSUME NEW b \in Byte, NEW r \in Seq(Byte), NEW l \in Seq(Byte)
  PROVE  /\ r \o l \in Seq(Byte) /\ <<>> \o (r \o l) = r \o l
         /\ <<b>> \o (r \o l) \in Seq(Byte) /\ <<b>> \o (r \o l) # <<>>
         /\ Head(<<b>> \o (r \o l)) = b /\ Tail(<<b>> \o (r \o l)) = r \o l
         /\ r # <<>> => <<Head(r)>> \o (Tail(r) \o l) = r \o l
         /\ \A n \in 0 .. Len(l) :
              (r \o SubSeq(l, 1, n)) \o SubSeq(l, n + 1, Len(l)) = r \o l
<1>1. r \o l \in Seq(Byte) /\ <<>> \o (r \o l) = r \o l
  <2>1. r \o l \in Seq(Byte)
    BY ConcatProperties
  <2>2. QED
    BY <2>1, ConcatEmptySeq
<1> DEFINE x == r \o l
<1>2. x \in Seq(Byte)
  BY <1>1
<1> HIDE DEF x
<1>3. /\ <<b>> \o x \in Seq(Byte) /\ Len(<<b>> \o x) = 1 + Len(x)
      /\ \A i \in 1 .. 1 + Len(x) : (<<b>> \o x)[i] = IF i <= 1 THEN <<b>>[i] ELSE x[i - 1]
  <2>1. <<b>> \in Seq(Byte) /\ Len(<<b>>) = 1
    OBVIOUS
  <2>2. /\ <<b>> \o x \in Seq(Byte) /\ Len(<<b>> \o x) = Len(<<b>>) + Len(x)
        /\ \A i \in 1 .. Len(<<b>>) + Len(x) :
             (<<b>> \o x)[i] = IF i <= Len(<<b>>) THEN <<b>>[i] ELSE x[i - Len(<<b>>)]
    BY <1>2, <2>1, ConcatProperties
  <2>3. QED
    BY <2>1, <2>2
<1> DEFINE bx == <<b>> \o x
<1>4. bx \in Seq(Byte) /\ bx # <<>> /\ bx[1] = b
  <2>1. Len(x) \in Nat
    BY <1>2
  <2>2. Len(bx) # 0 /\ bx[1] = <<b>>[1]
    BY <1>3, <2>1
  <2>3. QED
    BY <1>3, <2>2, EmptySeq
<1>5. Tail(bx) = x
  <2>1. Len(x) \in Nat
    BY <1>2
  <2>2. /\ Tail(bx) \in Seq(Byte) /\ Len(Tail(bx)) = Len(bx) - 1
        /\ \A i \in 1 .. Len(Tail(bx)) : Tail(bx)[i] = bx[i + 1]
    BY <1>4, HeadTailProperties
  <2>3. Len(Tail(bx)) = Len(x)
    BY <1>3, <2>1, <2>2
  <2>4. \A i \in 1 .. Len(x) : Tail(bx)[i] = x[i]
    <3> TAKE i \in 1 .. Len(x)
    <3>1. i + 1 \in 1 .. 1 + Len(x) /\ ~ (i + 1 <= 1) /\ (i + 1) - 1 = i
      BY <2>1
    <3>2. bx[i + 1] = x[i]
      BY <1>3, <3>1
    <3>3. QED
      BY <2>2, <2>3, <3>2
  <2>5. QED
    BY <1>2, <2>2, <2>3, <2>4, SeqEqual
<1>6. Head(bx) = b
  BY <1>4
<1>7. ASSUME r # <<>> PROVE <<Head(r)>> \o (Tail(r) \o l) = r \o l
  <2>1. Head(r) \in Byte /\ Tail(r) \in Seq(Byte) /\ <<Head(r)>> \in Seq(Byte)
    BY <1>7, HeadTailProperties
  <2>2. Len(r) \in Nat /\ Len(r) >= 1 /\ Head(r) = r[1]
    BY <1>7, EmptySeq
  <2>3. <<r[1]>> \o SubSeq(r, 2, Len(r)) = SubSeq(r, 1, Len(r))
    <3>1. 1 \in 1 .. Len(r) /\ Len(r) \in 1 .. Len(r) /\ 1 + 1 = 2
      BY <2>2
    <3>2. SubSeq(r, 1, Len(r)) = <<r[1]>> \o SubSeq(r, 1 + 1, Len(r))
      BY <3>1, SubSeqRecursiveFirst
    <3>3. QED
      BY <3>1, <3>2
  <2>4. <<Head(r)>> \o Tail(r) = r
    BY <1>7, <2>2, <2>3, TailIsSubSeq, SubSeqFull
  <2>5. (<<Head(r)>> \o Tail(r)) \o l = <<Head(r)>> \o (Tail(r) \o l)
    BY <2>1, ConcatAssociative
  <2>6. QED
    BY <2>4, <2>5
<1>8. ASSUME NEW n \in 0 .. Len(l)
      PROVE  (r \o SubSeq(l, 1, n)) \o SubSeq(l, n + 1, Len(l)) = r \o l
  <2>1. Len(l) \in Nat
    OBVIOUS
  <2>2. SubSeq(l, 1, n) \in Seq(Byte) /\ SubSeq(l, n + 1, Len(l)) \in Seq(Byte)
    <3>1. (\A i \in 1 .. n : l[i] \in Byte) /\ \A i \in n + 1 .. Len(l) : l[i] \in Byte
      BY <2>1
    <3>2. n \in Int /\ n + 1 \in Int /\ Len(l) \in Int
      BY <2>1
    <3>3. QED
      BY <3>1, <3>2, SubSeqProperties
  <2>3. SubSeq(l, 1, n) \o SubSeq(l, n + 1, Len(l)) = SubSeq(l, 1, Len(l))
    <3>1. 1 \in 1 .. Len(l) + 1 /\ n \in 1 - 1 .. Len(l) /\ Len(l) \in n .. Len(l)
      BY <2>1
    <3>2. QED
      BY <3>1, ConcatAdjacentSubSeq
  <2>4. SubSeq(l, 1, n) \o SubSeq(l, n + 1, Len(l)) = l
    BY <2>3, SubSeqFull
  <2> DEFINE here == SubSeq(l, 1, n)
             rest == SubSeq(l, n + 1, Len(l))
  <2>5. here \in Seq(Byte) /\ rest \in Seq(Byte)
    BY <2>2
  <2>a. here \o rest = l
    BY <2>4
  <2> HIDE DEF here, rest
  <2>6. (r \o here) \o rest = r \o (here \o rest)
    BY <2>5, ConcatAssociative
  <2>7. QED
    BY <2>6, <2>a DEF here, rest
<1>9. QED
  BY <1>1, <1>4, <1>5, <1>6, <1>7, <1>8 DEF x

\* Where the receiver is in the stream, and the byte it looks at next.
LEMMA Here ==
  ASSUME RxInv, sent \in Seq(Payloads), Following
  PROVE  /\ Pending \in Seq(Byte) /\ Parsed \in Nat
         /\ Len(delivered) \in Nat /\ Len(delivered) \in 0 .. Len(sent)
         /\ Pending # <<>> \/ Parsed # 0 => Len(delivered) < Len(sent)
         /\ Len(delivered) < Len(sent) =>
              LET p == sent[Len(delivered) + 1] IN
              /\ p \in Payloads /\ Parsed < 4 + Len(p)
              /\ Pending # <<>> /\ Head(Pending) = Framed(p)[Parsed + 1]
<1> DEFINE d == Len(delivered)
           p == sent[d + 1]
<1>1. Pending \in Seq(Byte)
  <2>1. byte \in Byte /\ ring \in Seq(Byte) /\ line \in Seq(Byte)
    BY DEF RxInv, RxTypeOK
  <2>2. <<byte>> \o (ring \o line) \in Seq(Byte) /\ <<>> \o (ring \o line) \in Seq(Byte)
    BY <2>1, Rechunked
  <2>3. QED
    BY <2>2 DEF Pending
<1>2. received_len \in Nat /\ state \in RxState
  BY RxAssumption DEF RxInv, RxTypeOK
<1>3. Parsed \in Nat
  BY <1>2 DEF Parsed, RxState
<1>4. d \in Nat /\ Len(sent) \in Nat /\ d \in 0 .. Len(sent)
  BY DEF Following, DeliveredSoFar
<1>5. PICK start : Cut(start, Pending, sent, d, Parsed)
  BY DEF Following
<1>6. /\ Pending # <<>> \/ Parsed # 0 => d < Len(sent)
      /\ d < Len(sent) /\ Parsed < 4 + Len(p) =>
           Pending # <<>> /\ Head(Pending) = Framed(p)[Parsed + 1]
  BY <1>1, <1>3, <1>4, <1>5, CutByte
<1>7. ASSUME d < Len(sent) PROVE p \in Payloads /\ Parsed < 4 + Len(p)
  <2>1. p \in Payloads
    BY <1>4, <1>7
  <2>2. Len(p) \in Nat /\ Len(p) >= 1
    BY <2>1, PayloadLength
  <2>3. CASE state = "PAYLOAD"
    <3>1. received_len < expected_len /\ expected_len = Len(p) /\ Parsed = 4 + received_len
      BY <2>3 DEF RxInv, PayloadInBounds, Following, FrameAgrees, Parsed
    <3>2. received_len < Len(p)
      BY <3>1
    <3>3. QED
      BY <1>2, <2>1, <2>2, <3>1, <3>2
  <2>4. CASE state # "PAYLOAD"
    <3>1. Parsed \in 0 .. 3
      BY <1>2, <2>4 DEF Parsed, RxState
    <3>2. QED
      BY <2>1, <2>2, <3>1
  <2>5. QED
    BY <2>3, <2>4
<1>8. QED
  BY <1>1, <1>3, <1>4, <1>6, <1>7

\* The bytes at hand do not depend on where the handler and the ring hold them.
LEMMA AtHand ==
  ASSUME RxInv
  PROVE  /\ ring \o line \in Seq(Byte) /\ Pending \in Seq(Byte)
         /\ pc \notin RxState => Pending = ring \o line
         /\ pc \in RxState => /\ Pending = <<byte>> \o (ring \o line) /\ Pending # <<>>
                              /\ Head(Pending) = byte /\ Tail(Pending) = ring \o line
<1>1. byte \in Byte /\ ring \in Seq(Byte) /\ line \in Seq(Byte)
  BY DEF RxInv, RxTypeOK
<1>2. /\ ring \o line \in Seq(Byte) /\ <<>> \o (ring \o line) = ring \o line
      /\ <<byte>> \o (ring \o line) \in Seq(Byte) /\ <<byte>> \o (ring \o line) # <<>>
      /\ Head(<<byte>> \o (ring \o line)) = byte
      /\ Tail(<<byte>> \o (ring \o line)) = ring \o line
  BY <1>1, Rechunked
<1>3. QED
  BY <1>2 DEF Pending

\* A step that leaves the state machine, the frames and the bytes at hand as
\* they are keeps the receiver following.
LEMMA FollowsStill ==
  ASSUME Following, Pending' = Pending, Undisturbed',
         UNCHANGED <<state, expected_len, received_len, payload, sent, delivered>>
  PROVE  Following'
<1>1. Parsed' = Parsed
  BY DEF Parsed
<1>2. DeliveredSoFar' /\ FrameAgrees'
  BY DEF Following, DeliveredSoFar, FrameAgrees
<1>3. PICK start : Cut(start, Pending, sent, Len(delivered), Parsed)
  BY DEF Following
<1>4. Cut(start, Pending', sent', Len(delivered'), Parsed')
  BY <1>1, <1>3
<1>5. QED
  BY <1>2, <1>4 DEF Following

\* The node puts a frame on the line.
LEMMA NodeSendsFollows ==
  ASSUME StreamInv, ~ lost, NEW p \in Payloads, NodeSends(p) PROVE Following'
<1> DEFINE d == Len(delivered)
<1>1. /\ line = <<>> /\ line' = Framed(p) /\ sent' = Append(sent, p)
      /\ UNCHANGED <<state, expected_len, received_len, payload, ring, pc, byte, resync,
                     quiet, delivered>>
  BY DEF NodeSends, sm
<1>2. RxInv /\ sent \in Seq(Payloads) /\ Following
  BY DEF StreamInv
<1>3. /\ Pending \in Seq(Byte) /\ Parsed \in Nat /\ d \in Nat /\ d \in 0 .. Len(sent)
      /\ Parsed # 0 => d < Len(sent)
  BY <1>2, Here
<1>4. Len(sent') = Len(sent) + 1 /\ Len(sent) \in Nat /\ sent' \in Seq(Payloads)
      /\ \A k \in 1 .. Len(sent) : sent'[k] = sent[k]
  BY <1>1, <1>2, AppendProperties
<1>5. Undisturbed' /\ Parsed' = Parsed
  BY <1>1, <1>2 DEF Following, Undisturbed, Parsed
<1>6. DeliveredSoFar'
  <2>1. delivered \in Seq(Payloads) /\ \A k \in 1 .. d : delivered[k] = sent[k]
    BY <1>2 DEF Following, DeliveredSoFar
  <2>2. \A k \in 1 .. d : delivered[k] = sent'[k]
    BY <1>3, <1>4, <2>1
  <2>3. d <= Len(sent')
    BY <1>3, <1>4
  <2>4. QED
    BY <1>1, <2>1, <2>2, <2>3 DEF DeliveredSoFar
<1>7. FrameAgrees'
  <2>1. CASE state = "LEN_LO" \/ state = "PAYLOAD"
    <3>1. Parsed # 0
      <4>1. received_len \in Nat
        BY <1>2, RxAssumption DEF RxInv, RxTypeOK
      <4>2. QED
        BY <2>1, <4>1 DEF Parsed
    <3>2. sent'[d + 1] = sent[d + 1]
      BY <1>3, <1>4, <3>1
    <3>3. QED
      BY <1>1, <1>2, <3>2 DEF Following, FrameAgrees
  <2>2. CASE ~ (state = "LEN_LO" \/ state = "PAYLOAD")
    BY <1>1, <2>2 DEF FrameAgrees
  <2>3. QED
    BY <2>1, <2>2
<1>8. Pending' = Pending \o Framed(p)
  <2> DEFINE held == IF pc \in RxState THEN <<byte>> ELSE <<>>
  <2>1. /\ held \in Seq(Byte) /\ ring \in Seq(Byte) /\ Framed(p) \in Seq(Byte)
    BY <1>2, PayloadLength DEF RxInv, RxTypeOK
  <2>2. Pending = held \o (ring \o <<>>) /\ Pending' = held \o (ring \o Framed(p))
    BY <1>1 DEF Pending
  <2> HIDE DEF held
  <2>3. ring \o <<>> = ring
    BY <2>1, ConcatEmptySeq
  <2>4. (held \o ring) \o Framed(p) = held \o (ring \o Framed(p))
    BY <2>1, ConcatAssociative
  <2>5. QED
    BY <2>2, <2>3, <2>4
<1>9. PICK start : Cut(start, Pending, sent, d, Parsed)
  BY <1>2 DEF Following
<1>10. PICK next : Cut(next, Pending \o Framed(p), Append(sent, p), d, Parsed)
  BY <1>2, <1>3, <1>9, CutAppend
<1>11. Cut(next, Pending', sent', Len(delivered'), Parsed')
  BY <1>1, <1>5, <1>8, <1>10
<1>12. QED
  BY <1>5, <1>6, <1>7, <1>11 DEF Following

\* A chunk that fits moves from the line to the ring.
LEMMA RxReadyFollows ==
  ASSUME StreamInv, NEW n \in 1 .. MaxPayload + 4, RxReady(n), ~ lost' PROVE Following'
<1> DEFINE room == RingSize - Len(ring)
           put  == IF n <= room THEN n ELSE room
<1>1. /\ n <= Len(line) /\ ring' = ring \o SubSeq(line, 1, put)
      /\ line' = SubSeq(line, n + 1, Len(line)) /\ lost' = (lost \/ put < n)
      /\ UNCHANGED <<state, expected_len, received_len, payload, pc, byte, resync, quiet,
                     sent, delivered>>
  BY DEF RxReady, sm
<1>2. RxInv /\ Following
  BY <1>1 DEF StreamInv
<1>3. /\ ring \in Seq(Byte) /\ line \in Seq(Byte) /\ byte \in Byte /\ Len(line) \in Nat
      /\ Len(ring) \in Nat /\ RingSize \in Nat /\ n \in Nat
  BY <1>2, RxAssumption DEF RxInv, RxTypeOK
<1>4. put = n
  <2>1. ~ (put < n)
    BY <1>1, Zenon
  <2>2. QED
    BY <1>3, <2>1
<1>5. n \in 0 .. Len(line)
  BY <1>1, <1>3
<1>6. ring' \o line' = ring \o line
  <2>1. (ring \o SubSeq(line, 1, n)) \o SubSeq(line, n + 1, Len(line)) = ring \o line
    BY <1>3, <1>5, Rechunked
  <2>2. QED
    BY <1>1, <1>4, <2>1, Zenon
<1>7. Pending' = Pending
  BY <1>1, <1>6 DEF Pending
<1>8. Undisturbed'
  BY <1>1, <1>2 DEF Following, Undisturbed
<1>9. QED
  BY <1>1, <1>2, <1>7, <1>8, FollowsStill

\* Back at a frame boundary with nothing under way, both sides start afresh.
LEMMA BackInStepFollows ==
  ASSUME StreamInv, BackInStep PROVE Following'
<1>1. /\ line' = <<>> /\ ring' = <<>> /\ pc' = "idle" /\ state' = "MAGIC1" /\ resync' = "off"
      /\ sent' = <<>> /\ delivered' = <<>>
  BY DEF BackInStep, InStep, sm
<1>2. DeliveredSoFar'
  BY <1>1 DEF DeliveredSoFar
<1>3. Undisturbed' /\ FrameAgrees' /\ Parsed' = 0
  BY <1>1 DEF Undisturbed, FrameAgrees, Parsed, RxState
<1>4. Pending' = <<>>
  BY <1>1 DEF Pending, RxState
<1>5. Cut([k \in {1} |-> 0], <<>>, <<>>, 0, 0)
  BY DEF Cut
<1>6. Cut([k \in {1} |-> 0], Pending', sent', Len(delivered'), Parsed')
  BY <1>1, <1>3, <1>4, <1>5
<1>7. QED
  BY <1>2, <1>3, <1>6 DEF Following

\* A silence finds the receiver at a frame boundary, where no watchdog runs:
\* the bytes of a frame under way would still be at hand.
LEMMA SilenceFollows ==
  ASSUME StreamInv, ~ lost, Silence PROVE Following'
<1>1. /\ line = <<>> /\ ~ rx_work /\ pc = "idle"
      /\ UNCHANGED <<state, expected_len, received_len, payload, ring, line, pc, byte,
                     resync, sent, delivered>>
  BY DEF Silence, sm, history
<1>2. RxInv /\ Following /\ ring = <<>> /\ sent \in Seq(Payloads)
  BY <1>1 DEF StreamInv
<1>3. Pending = <<>>
  BY <1>1, <1>2, EmptySeq DEF Pending, RxState
<1>4. Parsed = 0
  BY <1>2, <1>3, Here
<1>5. state = "MAGIC1"
  <2>1. received_len \in Nat /\ state \in RxState
    BY <1>2, RxAssumption DEF RxInv, RxTypeOK
  <2>2. QED
    BY <1>4, <2>1 DEF Parsed, RxState
<1>6. Undisturbed'
  BY <1>1, <1>2, <1>5 DEF Following, Undisturbed
<1>7. Pending' = Pending
  BY <1>1 DEF Pending
<1>8. QED
  BY <1>1, <1>2, <1>6, <1>7, FollowsStill

\* rx_work_handler enters, takes a byte from the ring, and ends.
LEMMA HandlerFollows ==
  ASSUME StreamInv, ~ lost, HandlerEnter \/ HandlerGet \/ HandlerEnd PROVE Following'
<1>1. RxInv /\ Following
  BY DEF StreamInv
<1>2. CASE HandlerEnter
  <2>1. /\ pc = "idle" /\ pc' = "get"
        /\ UNCHANGED <<state, expected_len, received_len, payload, ring, line, byte, resync,
                       quiet, sent, delivered>>
    BY <1>2 DEF HandlerEnter, sm, history
  <2>2. Undisturbed'
    BY <1>1, <2>1 DEF Following, Undisturbed, RxState
  <2>3. Pending' = Pending
    BY <2>1 DEF Pending, RxState
  <2>4. QED
    BY <1>1, <2>1, <2>2, <2>3, FollowsStill
<1>3. CASE HandlerGet
  <2>1. /\ pc = "get" /\ pc' = state /\ ring # <<>> /\ byte' = Head(ring) /\ ring' = Tail(ring)
        /\ UNCHANGED <<state, expected_len, received_len, payload, line, resync, quiet, sent,
                       delivered>>
    BY <1>3 DEF HandlerGet, sm, history
  <2>2. state \in RxState /\ ring \in Seq(Byte) /\ line \in Seq(Byte) /\ byte \in Byte
    BY <1>1 DEF RxInv, RxTypeOK
  <2>3. Undisturbed'
    BY <1>1, <2>1, <2>2 DEF Following, Undisturbed, RxState
  <2>4. Pending' = Pending
    <3>1. Pending = ring \o line
      BY <1>1, <2>1, AtHand DEF RxState
    <3>2. Pending' = <<Head(ring)>> \o (Tail(ring) \o line)
      BY <2>1, <2>2 DEF Pending
    <3>3. <<Head(ring)>> \o (Tail(ring) \o line) = ring \o line
      BY <2>1, <2>2, Rechunked
    <3>4. QED
      BY <3>1, <3>2, <3>3
  <2>5. QED
    BY <1>1, <2>1, <2>3, <2>4, FollowsStill
<1>4. CASE HandlerEnd
  <2>1. /\ pc = "get" /\ pc' = "idle" /\ quiet' = FALSE
        /\ resync' = IF state = "MAGIC1" THEN "off" ELSE Rescheduled
        /\ UNCHANGED <<state, expected_len, received_len, payload, ring, line, byte, sent,
                       delivered>>
    BY <1>4 DEF HandlerEnd, sm, history
  <2>2. Undisturbed'
    BY <1>1, <2>1 DEF Following, Undisturbed, Rescheduled, RxState
  <2>3. Pending' = Pending
    BY <2>1 DEF Pending, RxState
  <2>4. QED
    BY <1>1, <2>1, <2>2, <2>3, FollowsStill
<1>5. QED
  BY <1>2, <1>3, <1>4

\* What every branch of the switch finds: the next byte of the frame under way,
\* in the state that it was read for.
LEMMA ByteHere ==
  ASSUME StreamInv, ~ lost, NEW s \in RxState, Branch(s)
  PROVE  LET p == sent[Len(delivered) + 1] IN
         /\ state = s /\ p \in Payloads /\ byte = Framed(p)[Parsed + 1]
         /\ Len(delivered) < Len(sent) /\ Pending # <<>> /\ Pending' = Tail(Pending)
<1>1. /\ pc = s /\ pc' = "get" /\ UNCHANGED <<ring, line, byte, resync, quiet, sent>>
  BY DEF Branch
<1>2. RxInv /\ Following /\ sent \in Seq(Payloads)
  BY DEF StreamInv
<1>3. state = s
  BY <1>1, <1>2 DEF Following, Undisturbed
<1>4. /\ Pending # <<>> /\ Head(Pending) = byte /\ Tail(Pending) = ring \o line
      /\ ring \o line \in Seq(Byte)
  BY <1>1, <1>2, AtHand
<1>5. Pending' = Tail(Pending)
  <2>1. Pending' = <<>> \o (ring \o line)
    BY <1>1 DEF Pending, RxState
  <2>2. QED
    BY <1>4, <2>1, ConcatEmptySeq
<1>6. Len(delivered) < Len(sent)
  BY <1>2, <1>4, Here
<1>7. QED
  BY <1>2, <1>3, <1>4, <1>5, <1>6, Here

\* A byte that does not end the frame takes the receiver one byte further.
LEMMA OneFurther ==
  ASSUME StreamInv, ~ lost, NEW s \in RxState, Branch(s),
         UNCHANGED delivered, Parsed' = Parsed + 1, FrameAgrees'
  PROVE  Following'
<1> DEFINE d == Len(delivered)
<1>1. /\ pc = s /\ pc' = "get" /\ UNCHANGED <<resync, quiet, sent>>
  BY DEF Branch
<1>2. RxInv /\ Following /\ sent \in Seq(Payloads)
  BY DEF StreamInv
<1>3. d < Len(sent) /\ Pending # <<>> /\ Pending' = Tail(Pending)
  BY ByteHere
<1>4. Pending \in Seq(Byte) /\ Parsed \in Nat /\ d \in 0 .. Len(sent)
  BY <1>2, Here
<1>5. PICK start : Cut(start, Pending, sent, d, Parsed)
  BY <1>2 DEF Following
<1>6. PICK next : Cut(next, Tail(Pending), sent, d, Parsed + 1)
  BY <1>2, <1>3, <1>4, <1>5, CutTail
<1>7. Cut(next, Pending', sent', Len(delivered'), Parsed')
  BY <1>1, <1>3, <1>6
<1>8. DeliveredSoFar' /\ Undisturbed'
  BY <1>1, <1>2 DEF Following, DeliveredSoFar, Undisturbed, RxState
<1>9. QED
  BY <1>7, <1>8 DEF Following

\* The header: both magic bytes and both length bytes are the ones expected.
LEMMA HeaderFollows ==
  ASSUME StreamInv, ~ lost, WaitMagic1 \/ WaitMagic2 \/ WaitLenHi \/ WaitLenLo
  PROVE  Following'
<1> DEFINE p == sent[Len(delivered) + 1]
<1>1. CASE WaitMagic1
  <2>1. Branch("MAGIC1") /\ "MAGIC1" \in RxState /\ UNCHANGED delivered
    BY <1>1 DEF WaitMagic1, RxState
  <2>2. state = "MAGIC1" /\ p \in Payloads /\ byte = Framed(p)[Parsed + 1]
    BY <2>1, ByteHere
  <2>3. Parsed = 0
    BY <2>2 DEF Parsed
  <2>4. byte = MAGIC1
    BY <2>2, <2>3, FramedBytes
  <2>5. state' = "MAGIC2"
    BY <1>1, <2>4 DEF WaitMagic1
  <2>a. Parsed' = 1 /\ FrameAgrees'
    BY <2>5 DEF Parsed, FrameAgrees
  <2>6. Parsed' = Parsed + 1
    BY <2>3, <2>a
  <2>7. QED
    BY <2>1, <2>6, <2>a, OneFurther
<1>2. CASE WaitMagic2
  <2>1. Branch("MAGIC2") /\ "MAGIC2" \in RxState /\ UNCHANGED delivered
    BY <1>2 DEF WaitMagic2, RxState
  <2>2. state = "MAGIC2" /\ p \in Payloads /\ byte = Framed(p)[Parsed + 1]
    BY <2>1, ByteHere
  <2>3. Parsed = 1
    BY <2>2 DEF Parsed
  <2>4. byte = MAGIC2
    BY <2>2, <2>3, FramedBytes
  <2>5. state' = "LEN_HI"
    BY <1>2, <2>4 DEF WaitMagic2, MAGIC1, MAGIC2
  <2>a. Parsed' = 2 /\ FrameAgrees'
    BY <2>5 DEF Parsed, FrameAgrees
  <2>6. Parsed' = Parsed + 1
    BY <2>3, <2>a
  <2>7. QED
    BY <2>1, <2>6, <2>a, OneFurther
<1>3. CASE WaitLenHi
  <2>1. Branch("LEN_HI") /\ "LEN_HI" \in RxState /\ UNCHANGED <<delivered, sent>>
    BY <1>3 DEF WaitLenHi, Branch, RxState
  <2>2. state = "LEN_HI" /\ p \in Payloads /\ byte = Framed(p)[Parsed + 1]
    BY <2>1, ByteHere
  <2>3. Parsed = 2
    BY <2>2 DEF Parsed
  <2>4. byte = Len(p) \div 256
    <3>1. Parsed + 1 = 3
      BY <2>3
    <3>2. Framed(p)[3] = Len(p) \div 256
      BY <2>2, FramedBytes, Zenon
    <3>3. QED
      BY <2>2, <3>1, <3>2
  <2>5. state' = "LEN_LO" /\ expected_len' = byte * 256
    BY <1>3 DEF WaitLenHi
  <2>a. Parsed' = 3
    BY <2>5 DEF Parsed
  <2>6. Parsed' = Parsed + 1
    BY <2>3, <2>a
  <2>7. FrameAgrees'
    BY <2>1, <2>4, <2>5 DEF FrameAgrees
  <2>8. QED
    BY <2>1, <2>6, <2>7, OneFurther
<1>4. CASE WaitLenLo
  <2>1. Branch("LEN_LO") /\ "LEN_LO" \in RxState /\ UNCHANGED <<delivered, sent>>
    BY <1>4 DEF WaitLenLo, Branch, RxState
  <2>2. state = "LEN_LO" /\ p \in Payloads /\ byte = Framed(p)[Parsed + 1]
    BY <2>1, ByteHere
  <2>3. Parsed = 3
    BY <2>2 DEF Parsed
  <2>4. byte = Len(p) % 256
    <3>1. Parsed + 1 = 4
      BY <2>3
    <3>2. Framed(p)[4] = Len(p) % 256
      BY <2>2, FramedBytes, Zenon
    <3>3. QED
      BY <2>2, <3>1, <3>2
  <2>5. expected_len = (Len(p) \div 256) * 256
    BY <2>2 DEF StreamInv, Following, FrameAgrees
  <2>6. Len(p) \in Nat /\ Len(p) \in 1 .. MaxPayload /\ MaxPayload \in Nat
    BY <2>2, PayloadLength, RxAssumption
  <2>7. expected_len + byte = Len(p)
    BY <2>4, <2>5, <2>6, LengthBytes
  <2>8. GoodLength(expected_len + byte)
    BY <2>6, <2>7 DEF GoodLength
  <2>9. state' = "PAYLOAD" /\ received_len' = 0 /\ expected_len' = Len(p)
    BY <1>4, <2>7, <2>8 DEF WaitLenLo
  <2>a. Parsed' = 4
    BY <2>9 DEF Parsed
  <2>10. Parsed' = Parsed + 1
    BY <2>3, <2>a
  <2>11. FrameAgrees'
    BY <2>1, <2>9 DEF FrameAgrees
  <2>12. QED
    BY <2>1, <2>10, <2>11, OneFurther
<1>5. QED
  BY <1>1, <1>2, <1>3, <1>4

\* A payload byte, and the last one: the payload handed to fromradio_cb is the
\* one that was sent.
LEMMA PayloadFollows ==
  ASSUME StreamInv, ~ lost, WaitPayload PROVE Following'
<1> DEFINE d == Len(delivered)
           p == sent[d + 1]
           written == [payload EXCEPT ![received_len] = byte]
<1>1. /\ Branch("PAYLOAD") /\ "PAYLOAD" \in RxState /\ payload' = written
      /\ received_len' = received_len + 1 /\ expected_len' = expected_len
      /\ pc' = "get" /\ UNCHANGED <<resync, quiet, sent>>
  BY DEF WaitPayload, Branch, RxState
<1>2. RxInv /\ Following /\ sent \in Seq(Payloads)
  BY DEF StreamInv
<1>3. /\ state = "PAYLOAD" /\ p \in Payloads /\ byte = Framed(p)[Parsed + 1]
      /\ d < Len(sent) /\ Pending # <<>> /\ Pending' = Tail(Pending)
  BY <1>1, ByteHere
<1>4. /\ Parsed = 4 + received_len /\ expected_len = Len(p) /\ received_len < expected_len
      /\ \A i \in 0 .. received_len - 1 : payload[i] = p[i + 1]
  BY <1>2, <1>3 DEF Parsed, RxInv, PayloadInBounds, Following, FrameAgrees
<1>5. /\ received_len \in Nat /\ payload \in [0 .. MaxPayload - 1 -> Byte]
      /\ MaxPayload \in Nat
  BY <1>2, RxAssumption DEF RxInv, RxTypeOK
<1>6. Len(p) \in Nat /\ Len(p) <= MaxPayload /\ p \in Seq(Byte)
  BY <1>3, <1>5, PayloadLength
<1>7. byte = p[received_len + 1]
  <2>1. received_len + 1 \in 1 .. Len(p) /\ Parsed + 1 = 4 + (received_len + 1)
    BY <1>4, <1>5, <1>6
  <2>2. QED
    BY <1>3, <2>1, FramedBytes
<1>8. \A i \in 0 .. received_len : written[i] = p[i + 1]
  <2> TAKE i \in 0 .. received_len
  <2>1. i \in 0 .. MaxPayload - 1 /\ (i # received_len => i \in 0 .. received_len - 1)
    BY <1>4, <1>5, <1>6
  <2>2. CASE i = received_len
    BY <1>5, <1>7, <2>1, <2>2
  <2>3. CASE i # received_len
    BY <1>4, <1>5, <2>1, <2>3
  <2>4. QED
    BY <2>2, <2>3
<1>9. CASE received_len + 1 # expected_len
  <2>1. UNCHANGED <<delivered, state>>
    BY <1>9 DEF WaitPayload
  <2>2. Parsed' = Parsed + 1
    BY <1>1, <1>3, <1>4, <1>5, <2>1 DEF Parsed
  <2>3. FrameAgrees'
    <3>1. received_len' - 1 = received_len
      BY <1>1, <1>5
    <3>2. QED
      BY <1>1, <1>3, <1>4, <1>8, <2>1, <3>1 DEF FrameAgrees
  <2>4. QED
    BY <1>1, <2>1, <2>2, <2>3, OneFurther
<1>10. CASE received_len + 1 = expected_len
  <2>1. /\ delivered' = Append(delivered, [i \in 1 .. expected_len |-> written[i - 1]])
        /\ state' = "MAGIC1"
    BY <1>10 DEF WaitPayload
  <2> HIDE DEF written
  <2>2. [i \in 1 .. expected_len |-> written[i - 1]] = p
    <3>1. \A i \in 1 .. Len(p) : written[i - 1] = p[i]
      <4> TAKE i \in 1 .. Len(p)
      <4>1. i - 1 \in 0 .. received_len /\ (i - 1) + 1 = i
        BY <1>4, <1>5, <1>6, <1>10
      <4>2. QED
        BY <1>8, <4>1
    <3>2. p = [i \in 1 .. Len(p) |-> p[i]]
      BY <1>6, LenProperties
    <3>3. QED
      BY <1>4, <3>1, <3>2
  <2>3. delivered' = Append(delivered, p)
    BY <2>1, <2>2
  <2>4. /\ Pending \in Seq(Byte) /\ Parsed \in Nat /\ d \in Nat /\ d \in 0 .. Len(sent)
    BY <1>2, Here
  <2>5. /\ delivered \in Seq(Payloads) /\ \A k \in 1 .. d : delivered[k] = sent[k]
    BY <1>2 DEF Following, DeliveredSoFar
  <2>6. /\ delivered' \in Seq(Payloads) /\ Len(delivered') = d + 1
        /\ delivered'[d + 1] = p /\ \A k \in 1 .. d : delivered'[k] = delivered[k]
    BY <1>3, <2>3, <2>5, AppendProperties
  <2>7. DeliveredSoFar'
    <3>1. d + 1 <= Len(sent) /\ \A k \in 1 .. d + 1 : k = d + 1 \/ k \in 1 .. d
      BY <1>2, <1>3, <2>4
    <3>2. \A k \in 1 .. d + 1 : delivered'[k] = sent[k]
      BY <2>5, <2>6, <3>1
    <3>3. QED
      BY <1>1, <2>6, <3>1, <3>2 DEF DeliveredSoFar
  <2>8. Undisturbed'
    BY <1>1, <1>2 DEF Following, Undisturbed, RxState
  <2>9. FrameAgrees' /\ Parsed' = 0
    BY <2>1 DEF FrameAgrees, Parsed
  <2>10. PICK start : Cut(start, Pending, sent, d, Parsed)
    BY <1>2 DEF Following
  <2>11. Parsed + 1 = 4 + Len(p)
    BY <1>4, <1>5, <1>10
  <2>12. PICK next : Cut(next, Tail(Pending), sent, d + 1, 0)
    BY <1>2, <1>3, <2>4, <2>10, <2>11, CutTail
  <2>13. Cut(next, Pending', sent', Len(delivered'), Parsed')
    BY <1>1, <1>3, <2>6, <2>9, <2>12
  <2>14. QED
    BY <2>7, <2>8, <2>9, <2>13 DEF Following
<1>11. QED
  BY <1>9, <1>10

\* While nothing is lost the watchdog never runs out.
LEMMA ResyncIdle ==
  ASSUME StreamInv, ~ lost, ResyncExpires \/ rx_resync_handler PROVE FALSE
  BY DEF StreamInv, Following, Undisturbed, ResyncExpires, rx_resync_handler

\* The frames sent are payloads, and bytes in the ring always have somebody to
\* work them off.
LEMMA RingWatched ==
  ASSUME StreamInv, Next
  PROVE  sent' \in Seq(Payloads) /\ (ring' # <<>> => rx_work' \/ pc' # "idle")
<1>1. sent \in Seq(Payloads) /\ (ring # <<>> => rx_work \/ pc # "idle")
  BY DEF StreamInv
<1>2. CASE \E p \in Payloads : NodeSends(p)
  <2>1. PICK p \in Payloads : NodeSends(p)
    BY <1>2
  <2>2. Append(sent, p) \in Seq(Payloads)
    BY <1>1, AppendProperties
  <2>3. QED
    BY <1>1, <2>1, <2>2 DEF NodeSends
<1>3. CASE \E n \in 1 .. MaxPayload + 4 : RxReady(n)
  BY <1>1, <1>3 DEF RxReady
<1>4. CASE BackInStep
  BY <1>4, EmptySeq DEF BackInStep, InStep
<1>5. CASE HandlerGet
  <2>1. pc' # "idle"
    <3>1. state \in RxState /\ pc' = state
      BY <1>5 DEF HandlerGet, StreamInv, RxInv, RxTypeOK
    <3>2. QED
      BY <3>1 DEF RxState
  <2>2. QED
    BY <1>1, <1>5, <2>1 DEF HandlerGet, history
<1>6. CASE \E b \in Noise : NoiseByte(b)
  BY <1>1, <1>6 DEF NoiseByte
<1>7. CASE Silence \/ RxDisabled \/ LineUnheard \/ ResyncExpires \/ rx_resync_handler
  BY <1>1, <1>7 DEF Silence, RxDisabled, LineUnheard, ResyncExpires, rx_resync_handler, history
<1>8. CASE HandlerEnter \/ HandlerEnd
  BY <1>1, <1>8 DEF HandlerEnter, HandlerEnd, history
<1>9. CASE WaitMagic1 \/ WaitMagic2 \/ WaitLenHi \/ WaitLenLo \/ WaitPayload
  BY <1>1, <1>9 DEF WaitMagic1, WaitMagic2, WaitLenHi, WaitLenLo, WaitPayload, Branch
<1>10. QED
  BY <1>2, <1>3, <1>4, <1>5, <1>6, <1>7, <1>8, <1>9 DEF Next, RxWork

\* Every step keeps the receiver following, or loses bytes.
LEMMA NextStreamInv == StreamInv /\ [Next]_vars => StreamInv'
<1> SUFFICES ASSUME StreamInv, [Next]_vars PROVE StreamInv'
  OBVIOUS
<1>1. RxInv'
  BY NextRxInv DEF StreamInv
<1>2. CASE UNCHANGED vars
  <2>1. UNCHANGED <<state, expected_len, received_len, payload, sent, delivered, lost>>
        /\ sent' \in Seq(Payloads) /\ (ring' # <<>> => rx_work' \/ pc' # "idle")
    BY <1>2 DEF vars, StreamInv
  <2>2. ASSUME ~ lost' PROVE Following'
    <3>1. Following
      BY <2>1, <2>2 DEF StreamInv
    <3>2. Pending' = Pending /\ Undisturbed'
      BY <1>2, <3>1 DEF vars, Pending, Following, Undisturbed
    <3>3. QED
      BY <2>1, <3>1, <3>2, FollowsStill
  <2>3. QED
    BY <1>1, <2>1, <2>2 DEF StreamInv
<1>3. CASE Next
  <2>1. sent' \in Seq(Payloads) /\ (ring' # <<>> => rx_work' \/ pc' # "idle")
    BY <1>3, RingWatched
  <2>2. ASSUME ~ lost' PROVE Following'
    <3>1. CASE \E p \in Payloads : NodeSends(p)
      <4>1. ~ lost
        BY <2>2, <3>1 DEF NodeSends
      <4>2. QED
        BY <3>1, <4>1, NodeSendsFollows
    <3>2. CASE \E n \in 1 .. MaxPayload + 4 : RxReady(n)
      BY <2>2, <3>2, RxReadyFollows
    <3>3. CASE (\E b \in Noise : NoiseByte(b)) \/ RxDisabled \/ LineUnheard
      BY <2>2, <3>3 DEF NoiseByte, RxDisabled, LineUnheard
    <3>4. CASE BackInStep
      BY <3>4, BackInStepFollows
    <3>5. CASE Silence
      <4>1. ~ lost
        BY <2>2, <3>5 DEF Silence, history
      <4>2. QED
        BY <3>5, <4>1, SilenceFollows
    <3>6. CASE HandlerEnter \/ HandlerGet \/ HandlerEnd
      <4>1. ~ lost
        BY <2>2, <3>6 DEF HandlerEnter, HandlerGet, HandlerEnd, history
      <4>2. QED
        BY <3>6, <4>1, HandlerFollows
    <3>7. CASE WaitMagic1 \/ WaitMagic2 \/ WaitLenHi \/ WaitLenLo \/ WaitPayload
      <4>1. ~ lost
        BY <2>2, <3>7 DEF WaitMagic1, WaitMagic2, WaitLenHi, WaitLenLo, WaitPayload, Branch
      <4>2. QED
        BY <3>7, <4>1, HeaderFollows, PayloadFollows
    <3>8. CASE ResyncExpires \/ rx_resync_handler
      <4>1. ~ lost
        BY <2>2, <3>8 DEF ResyncExpires, rx_resync_handler, history
      <4>2. QED
        BY <3>8, <4>1, ResyncIdle
    <3>9. QED
      BY <1>3, <3>1, <3>2, <3>3, <3>4, <3>5, <3>6, <3>7, <3>8 DEF Next, RxWork
  <2>3. QED
    BY <1>1, <2>1, <2>2 DEF StreamInv
<1>4. QED
  BY <1>2, <1>3

\* At power-on nothing was sent and nothing is at hand.
LEMMA InitStreamInv == Init => StreamInv
<1> SUFFICES ASSUME Init PROVE StreamInv
  OBVIOUS
<1>1. RxInv /\ sent = <<>> /\ delivered = <<>> /\ ring = <<>>
  BY InitRxInv DEF Init
<1>2. DeliveredSoFar
  BY <1>1 DEF DeliveredSoFar
<1>3. Undisturbed /\ FrameAgrees /\ Parsed = 0
  BY DEF Init, Undisturbed, FrameAgrees, Parsed, RxState
<1>4. Pending = <<>>
  BY DEF Init, Pending, RxState
<1>5. Cut([k \in {1} |-> 0], <<>>, <<>>, 0, 0)
  BY DEF Cut
<1>6. Cut([k \in {1} |-> 0], Pending, sent, Len(delivered), Parsed)
  BY <1>1, <1>3, <1>4, <1>5
<1>7. sent \in Seq(Payloads)
  BY <1>1, EmptySeq
<1>8. QED
  BY <1>1, <1>2, <1>3, <1>6, <1>7 DEF StreamInv, Following

\* The inductive invariant of the stream holds in every reachable state.
THEOREM StreamInvariant == Spec => []StreamInv
  BY InitStreamInv, NextStreamInv, PTL DEF Spec

\* As long as no byte is lost or added, the receiver delivers what the node
\* sends: once, in order, byte for byte, with none missing once the line has
\* been worked off, however it is cut into chunks and whatever bytes it holds.
THEOREM FramesDelivered == Spec => []StreamDelivered
<1>1. StreamInv => StreamDelivered
  <2> SUFFICES ASSUME StreamInv, ~ lost
               PROVE  IsPrefix(delivered, sent) /\ (InStep => delivered = sent)
    BY DEF StreamDelivered
  <2> DEFINE d == Len(delivered)
  <2>1. RxInv /\ Following /\ sent \in Seq(Payloads)
    BY DEF StreamInv
  <2>2. /\ delivered \in Seq(Payloads) /\ d <= Len(sent)
        /\ \A k \in 1 .. d : delivered[k] = sent[k]
    BY <2>1 DEF Following, DeliveredSoFar
  <2>3. d \in Nat /\ Len(sent) \in Nat
    BY <2>1, <2>2
  <2>4. IsPrefix(delivered, sent)
    <3>1. /\ \A i \in 1 .. d : delivered[i] \in Payloads
          /\ \A i \in 1 .. d : sent[i] \in Payloads
      BY <2>1, <2>2, <2>3
    <3>2. /\ SubSeq(sent, 1, d) \in Seq(Payloads) /\ Len(SubSeq(sent, 1, d)) = d
          /\ \A i \in 1 .. d : SubSeq(sent, 1, d)[i] = sent[i]
      <4>1. /\ SubSeq(sent, 1, d) \in Seq(Payloads)
            /\ Len(SubSeq(sent, 1, d)) = IF 1 <= d THEN d - 1 + 1 ELSE 0
            /\ \A i \in 1 .. d - 1 + 1 : SubSeq(sent, 1, d)[i] = sent[1 + i - 1]
        BY <2>3, <3>1, SubSeqProperties
      <4>2. d - 1 + 1 = d /\ \A i \in 1 .. d : 1 + i - 1 = i
        BY <2>3
      <4>3. (IF 1 <= d THEN d - 1 + 1 ELSE 0) = d
        BY <2>3
      <4>4. QED
        BY <4>1, <4>2, <4>3
    <3>3. delivered = SubSeq(sent, 1, d)
      BY <2>2, <3>2, SeqEqual
    <3>4. SubSeq(delivered, 1, d) = delivered
      BY <2>2, SubSeqFull
    <3>5. QED
      BY <2>2, <3>3, <3>4 DEF IsPrefix
  <2>5. ASSUME InStep PROVE delivered = sent
    <3>1. Pending = <<>>
      BY <2>5, EmptySeq DEF InStep, Pending, RxState
    <3>2. d = Len(sent)
      BY <2>1, <2>2, <2>3, <3>1, Here
    <3>3. QED
      BY <2>1, <2>2, <3>2, SeqEqual
  <2>6. QED
    BY <2>4, <2>5
<1>2. QED
  BY <1>1, StreamInvariant, PTL
=============================================================================

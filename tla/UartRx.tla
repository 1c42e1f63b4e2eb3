------------------------------- MODULE UartRx -------------------------------
(***************************************************************************)
(* The receive path of uart_meshtastic.c: DMA interrupts fill a ring       *)
(* buffer, rx_work drains it on the system work queue through the framing  *)
(* state machine [0x94][0xC3][len_hi][len_lo][payload], and a delayable    *)
(* work item resets a frame that stalls half way.                          *)
(*                                                                         *)
(* The interrupt handler writes rx_sm.state (on UART_RX_DISABLED) while    *)
(* rx_process_byte may be in the middle of a byte, so that function is cut *)
(* in two: the switch that reads the state, and the rest.  Left out: LEDs, *)
(* the overrun counter's log, and the DMA buffers (a chunk is handed over  *)
(* whole).                                                                 *)
(***************************************************************************)
EXTENDS Integers, Sequences, SequencesExt

CONSTANTS
  MaxPayload,   \* MESHTASTIC_MAX_PAYLOAD
  RingSize,     \* RING_BUF_SIZE
  Payloads,     \* the payloads the node sends
  Noise,        \* bytes that may be on the line between frames
  EnableMayFail, \* may uart_rx_enable fail after a stop?
  MaxSent,      \* bound: frames the node sends
  MaxStops,     \* bound: UART_RX_DISABLED events
  MaxNoise      \* bound: noise bytes

Byte == 0 .. 255                 \* uint8_t
U16 == {n \in Nat : n < 65536}   \* uint16_t

ASSUME RxAssumption ==
  /\ {MaxPayload, RingSize} \subseteq Nat \ {0} /\ MaxPayload \in U16
  /\ {MaxSent, MaxStops, MaxNoise} \subseteq Nat
  /\ Noise \subseteq Byte /\ EnableMayFail \in BOOLEAN
  /\ \A p \in Payloads : p \in Seq(Byte) /\ Len(p) \in 1 .. MaxPayload

MAGIC1 == 148
MAGIC2 == 195

VARIABLES
  state, expected_len, received_len, payload,   \* rx_sm
  ring,              \* rx_ring_buf
  rx_work,           \* "rx_work is queued"
  pc,                \* rx_work_handler: "idle", "get", or the state it read
  byte,              \* its local variable
  resync,            \* rx_resync_dwork: "off", "armed", "queued", or both at once
  rx_enabled,        \* the driver receives
  quiet,             \* the line was silent and no rx_work has ended since
  line,              \* bytes of the frame the node is in the middle of sending
  sent, delivered,   \* payloads sent, handed to fromradio_cb, since in step
  lost,              \* bytes were lost or added since they were in step
  frames, stops, noises

sm == <<state, expected_len, received_len, payload>>
history == <<sent, delivered, lost>>
counters == <<frames, stops, noises>>
vars == <<state, expected_len, received_len, payload, ring, rx_work, pc, byte,
          resync, rx_enabled, quiet, line, sent, delivered, lost, frames, stops, noises>>

Init ==
  /\ state = "MAGIC1" /\ expected_len = 0 /\ received_len = 0
  /\ payload = [i \in 0 .. MaxPayload - 1 |-> 0]
  /\ ring = <<>> /\ rx_work = FALSE /\ pc = "idle" /\ byte = 0
  /\ resync = "off" /\ rx_enabled = TRUE /\ quiet = TRUE
  /\ line = <<>> /\ sent = <<>> /\ delivered = <<>> /\ lost = FALSE
  /\ frames = 0 /\ stops = 0 /\ noises = 0

----------------------------------------------------------------------------
(* The node and the line *)

Framed(p) == <<MAGIC1, MAGIC2, Len(p) \div 256, Len(p) % 256>> \o p

\* The line carries bytes: a payload's length fits in the two of its header.
ASSUME LineAssumption == \A p \in Payloads : Framed(p) \in Seq(Byte)

NodeSends(p) ==
  /\ line = <<>> /\ frames < MaxSent
  /\ line' = Framed(p)
  /\ sent' = Append(sent, p)
  /\ frames' = frames + 1
  /\ UNCHANGED sm /\ UNCHANGED <<ring, rx_work, pc, byte, resync, rx_enabled,
                                 quiet, delivered, lost, stops, noises>>

NoiseByte(b) ==
  /\ line = <<>> /\ noises < MaxNoise
  /\ line' = <<b>> /\ lost' = TRUE
  /\ noises' = noises + 1
  /\ UNCHANGED sm /\ UNCHANGED <<ring, rx_work, pc, byte, resync, rx_enabled,
                                 quiet, sent, delivered, frames, stops>>

\* The node never pauses inside a frame, and the work queue is never held up,
\* for as long as the resync timeout (RX_RESYNC_TIMEOUT_MS), so a silence that
\* long falls between frames and after rx_work has run.
Silence ==
  /\ line = <<>> /\ ~ quiet /\ ~ rx_work /\ pc = "idle"
  /\ quiet' = TRUE
  /\ UNCHANGED sm /\ UNCHANGED history /\ UNCHANGED counters
  /\ UNCHANGED <<ring, rx_work, pc, byte, resync, rx_enabled, line>>

\* The receiver is back at a frame boundary with nothing under way: from here
\* on, what is sent and what is delivered are compared afresh.
InStep ==
  /\ line = <<>> /\ ring = <<>> /\ pc = "idle" /\ ~ rx_work /\ rx_enabled
  /\ state = "MAGIC1" /\ resync = "off"

BackInStep ==
  /\ InStep /\ lost
  /\ sent' = <<>> /\ delivered' = <<>> /\ lost' = FALSE
  /\ UNCHANGED sm /\ UNCHANGED counters
  /\ UNCHANGED <<ring, rx_work, pc, byte, resync, rx_enabled, quiet, line>>

----------------------------------------------------------------------------
(* uart_cb, in interrupt context *)

\* UART_RX_RDY with n bytes: those that do not fit in the ring are dropped.
RxReady(n) ==
  LET room == RingSize - Len(ring)
      put  == IF n <= room THEN n ELSE room
  IN /\ rx_enabled /\ n <= Len(line)
     /\ ring' = ring \o SubSeq(line, 1, put)
     /\ line' = SubSeq(line, n + 1, Len(line))
     /\ lost' = (lost \/ put < n)
     /\ rx_work' = TRUE
     /\ UNCHANGED sm /\ UNCHANGED counters
     /\ UNCHANGED <<pc, byte, resync, rx_enabled, quiet, sent, delivered>>

\* UART_RX_STOPPED and then UART_RX_DISABLED: what was on the line is gone,
\* reception is re-armed and the state machine reset, from the interrupt.  When
\* re-arming fails that is logged, and nothing tries again.
RxDisabled ==
  /\ rx_enabled /\ stops < MaxStops
  /\ stops' = stops + 1
  /\ \E n \in 0 .. Len(line) : line' = SubSeq(line, n + 1, Len(line))
  /\ rx_enabled' \in {TRUE, ~ EnableMayFail}
  /\ state' = "MAGIC1"
  /\ lost' = TRUE
  /\ UNCHANGED <<expected_len, received_len, payload, ring, rx_work, pc, byte,
                 resync, quiet, sent, delivered, frames, noises>>

\* Nobody receives: what the node sends is gone.
LineUnheard ==
  /\ ~ rx_enabled /\ line # <<>>
  /\ line' = <<>> /\ lost' = TRUE
  /\ UNCHANGED sm /\ UNCHANGED counters
  /\ UNCHANGED <<ring, rx_work, pc, byte, resync, rx_enabled, quiet, sent, delivered>>

----------------------------------------------------------------------------
(* rx_work_handler and rx_process_byte, on the system work queue *)

HandlerEnter ==
  /\ pc = "idle" /\ rx_work
  /\ rx_work' = FALSE /\ pc' = "get"
  /\ UNCHANGED sm /\ UNCHANGED history /\ UNCHANGED counters
  /\ UNCHANGED <<ring, byte, resync, rx_enabled, quiet, line>>

\* The next byte, and the switch on the state.
HandlerGet ==
  /\ pc = "get" /\ ring # <<>>
  /\ byte' = Head(ring) /\ ring' = Tail(ring)
  /\ pc' = state
  /\ UNCHANGED sm /\ UNCHANGED history /\ UNCHANGED counters
  /\ UNCHANGED <<rx_work, resync, rx_enabled, quiet, line>>

\* k_work_reschedule: an item already in the queue stays there, armed again.
Rescheduled == IF resync \in {"queued", "both"} THEN "both" ELSE "armed"

\* Mutant: k_work_schedule, which leaves a running deadline where it is.
HandlerEndStale ==
  /\ pc = "get" /\ ring = <<>>
  /\ pc' = "idle"
  /\ resync' = IF state = "MAGIC1" THEN "off"
               ELSE IF resync = "off" THEN "armed" ELSE resync
  /\ UNCHANGED sm /\ UNCHANGED history /\ UNCHANGED counters
  /\ UNCHANGED <<ring, rx_work, byte, rx_enabled, line, quiet>>

\* Mutant: a stalled frame is not watched.
HandlerEndUnwatched ==
  /\ pc = "get" /\ ring = <<>>
  /\ pc' = "idle" /\ resync' = "off" /\ quiet' = FALSE
  /\ UNCHANGED sm /\ UNCHANGED history /\ UNCHANGED counters
  /\ UNCHANGED <<ring, rx_work, byte, rx_enabled, line>>

\* The ring is empty: the watchdog is pushed out mid-frame, and cancelled at
\* a boundary, also out of the work queue.
HandlerEnd ==
  /\ pc = "get" /\ ring = <<>>
  /\ pc' = "idle"
  /\ resync' = IF state = "MAGIC1" THEN "off" ELSE Rescheduled
  /\ quiet' = FALSE
  /\ UNCHANGED sm /\ UNCHANGED history /\ UNCHANGED counters
  /\ UNCHANGED <<ring, rx_work, byte, rx_enabled, line>>

\* What every branch of the switch shares.
Branch(s) ==
  /\ pc = s /\ pc' = "get"
  /\ UNCHANGED <<ring, rx_work, byte, resync, rx_enabled, quiet, line, sent, lost>>
  /\ UNCHANGED counters

WaitMagic1 ==
  /\ Branch("MAGIC1")
  /\ state' = IF byte = MAGIC1 THEN "MAGIC2" ELSE state
  /\ UNCHANGED <<expected_len, received_len, payload, delivered>>

WaitMagic2 ==
  /\ Branch("MAGIC2")
  /\ state' = CASE byte = MAGIC2 -> "LEN_HI"
                [] byte = MAGIC1 -> "MAGIC2"
                [] OTHER         -> "MAGIC1"
  /\ UNCHANGED <<expected_len, received_len, payload, delivered>>

WaitLenHi ==
  /\ Branch("LEN_HI")
  /\ expected_len' = byte * 256
  /\ state' = "LEN_LO"
  /\ UNCHANGED <<received_len, payload, delivered>>

\* Mutant: the upper bound is not checked.
NonzeroLength(n) == n # 0

\* expected_len |= byte: the low half is still zero.
GoodLength(n) == n # 0 /\ n <= MaxPayload

WaitLenLo ==
  /\ Branch("LEN_LO")
  /\ expected_len' = expected_len + byte
  /\ IF GoodLength(expected_len + byte)
     THEN state' = "PAYLOAD" /\ received_len' = 0
     ELSE state' = "MAGIC1" /\ UNCHANGED received_len
  /\ UNCHANGED <<payload, delivered>>

\* Mutant: the length is compared before the byte is counted.
WaitPayloadOneMore ==
  LET written == [payload EXCEPT ![received_len] = byte] IN
  /\ Branch("PAYLOAD")
  /\ payload' = written
  /\ received_len' = received_len + 1
  /\ IF received_len = expected_len
     THEN /\ delivered' = Append(delivered, [i \in 1 .. expected_len |-> written[i - 1]])
          /\ state' = "MAGIC1"
     ELSE UNCHANGED <<delivered, state>>
  /\ UNCHANGED expected_len

\* The last byte of a frame hands it to fromradio_cb.
WaitPayload ==
  LET written == [payload EXCEPT ![received_len] = byte] IN
  /\ Branch("PAYLOAD")
  /\ payload' = written
  /\ received_len' = received_len + 1
  /\ IF received_len + 1 = expected_len
     THEN /\ delivered' = Append(delivered, [i \in 1 .. expected_len |-> written[i - 1]])
          /\ state' = "MAGIC1"
     ELSE UNCHANGED <<delivered, state>>
  /\ UNCHANGED expected_len

RxWork == \/ HandlerEnter \/ HandlerGet \/ HandlerEnd
          \/ WaitMagic1 \/ WaitMagic2 \/ WaitLenHi \/ WaitLenLo \/ WaitPayload

----------------------------------------------------------------------------
(* The resync watchdog *)

ResyncExpires ==
  /\ resync \in {"armed", "both"} /\ quiet
  /\ resync' = "queued"
  /\ UNCHANGED sm /\ UNCHANGED history /\ UNCHANGED counters
  /\ UNCHANGED <<ring, rx_work, pc, byte, rx_enabled, quiet, line>>

rx_resync_handler ==
  /\ resync \in {"queued", "both"} /\ pc = "idle"
  /\ resync' = IF resync = "both" THEN "armed" ELSE "off"
  /\ IF state = "MAGIC1" THEN UNCHANGED <<state, expected_len, received_len>>
     ELSE state' = "MAGIC1" /\ expected_len' = 0 /\ received_len' = 0
  /\ UNCHANGED history /\ UNCHANGED counters
  /\ UNCHANGED <<payload, ring, rx_work, pc, byte, rx_enabled, quiet, line>>

----------------------------------------------------------------------------
Next ==
  \/ \E p \in Payloads : NodeSends(p)
  \/ \E b \in Noise : NoiseByte(b)
  \/ Silence \/ BackInStep
  \/ \E n \in 1 .. MaxPayload + 4 : RxReady(n)
  \/ RxDisabled \/ LineUnheard
  \/ RxWork
  \/ ResyncExpires \/ rx_resync_handler

Spec == Init /\ [][Next]_vars

\* Bytes on the line arrive, the work queue runs what is queued, an armed
\* watchdog expires once the line has been silent, and between frames it is.
FairSpec ==
  /\ Spec
  /\ WF_vars(\E n \in 1 .. MaxPayload + 4 : RxReady(n))
  /\ WF_vars(RxWork) /\ WF_vars(rx_resync_handler)
  /\ WF_vars(ResyncExpires) /\ WF_vars(Silence) /\ WF_vars(BackInStep)

----------------------------------------------------------------------------
(* Properties *)

RxState == {"MAGIC1", "MAGIC2", "LEN_HI", "LEN_LO", "PAYLOAD"}

\* Types: the lengths fit their uint16_t, the ring never holds more than it can.
RxTypeOK ==
  /\ state \in RxState /\ pc \in RxState \cup {"idle", "get"}
  /\ expected_len \in U16 /\ received_len \in 0 .. MaxPayload
  /\ payload \in [0 .. MaxPayload - 1 -> Byte] /\ byte \in Byte
  /\ ring \in Seq(Byte) /\ line \in Seq(Byte) /\ Len(ring) <= RingSize
  /\ resync \in {"off", "armed", "queued", "both"}

\* No byte is ever stored past the end of rx_sm.payload, whatever bytes come
\* in and wherever the interrupt resets the state machine under the handler:
\* a payload byte about to be stored has room in the frame, the frame in the
\* array.
PayloadInBounds ==
  (state = "PAYLOAD" \/ pc = "PAYLOAD") =>
    received_len < expected_len /\ expected_len <= MaxPayload

\* As long as no byte is lost or added, every payload is delivered once, in
\* order and byte for byte, magic bytes inside it or not, however the stream
\* is cut into chunks and whenever the watchdog expires; and none is missing
\* when the line has been worked off.
StreamDelivered ==
  ~ lost => /\ IsPrefix(delivered, sent)
            /\ InStep => delivered = sent

\* Losing or inventing bytes costs frames but never the link: the receiver
\* gets back to a frame boundary, from where StreamDelivered holds again.  Only
\* a failed uart_rx_enable ends it: the UART_RX_DISABLED handler was the last
\* chance.
RecoversFromLoss == lost ~> (~ lost \/ ~ rx_enabled)

----------------------------------------------------------------------------
(* The inductive invariant of the framing state machine. *)

\* In the middle of a byte the state is still the one the switch has read,
\* unless the interrupt has reset it.
PcFollowsState == pc \in RxState => state \in {pc, "MAGIC1"}

\* Between the two length bytes only the high half is set.
HighByteOnly == (state = "LEN_LO" \/ pc = "LEN_LO") => expected_len <= 255 * 256

RxInv == RxTypeOK /\ PcFollowsState /\ HighByteOnly /\ PayloadInBounds
=============================================================================

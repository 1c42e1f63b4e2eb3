---------------------------- MODULE UartTxProofs ----------------------------
(***************************************************************************)
(* Proofs about the transmit path, for any number of calling threads, any  *)
(* queue depth and any number of frames: the inductive invariant TxInv,    *)
(* and that UartTx implements the ordered channel TxLink.                  *)
(***************************************************************************)
EXTENDS UartTx, SequenceTheorems, TLAPS

\* At power-on the queue is empty, the UART owns nothing and no handler runs.
LEMMA InitTxInv == Init => TxInv
<1> SUFFICES ASSUME Init PROVE TxInv
  OBVIOUS
<1>1. TxTypeOK
  <2>1. /\ tx_msgq \in Seq(Frame) /\ Len(tx_msgq) <= TxQueueDepth
        /\ accepted \in 0 .. MaxAccept /\ wire \in Seq(Frame)
    BY TxAssumption DEF Init
  <2>2. /\ caller \in [Caller -> {"out", "submit"}]
        /\ ret \in [Caller -> {"none", "ok", "ENOMEM", "EMSGSIZE"}]
    BY DEF Init
  <2>3. QED
    BY <2>1, <2>2 DEF Init, TxTypeOK
<1>2. FlagTellsOwner /\ EntryHeld /\ BufferOwned /\ NoLostWakeup
  BY DEF Init, FlagTellsOwner, EntryHeld, BufferOwned, NoLostWakeup
<1>3. QED
  BY <1>1, <1>2 DEF TxInv

\* Steps of a caller leave the handler, the UART and the buffer alone.
LEMMA CallerStep ==
  ASSUME TxInv, NEW c \in Caller, NEW f \in Frame,
         TooLong(c, f) \/ QueueFull(c, f) \/ Put(c, f) \/ Submit(c)
  PROVE  TxInv'
<1> USE TxAssumption DEF TxInv, TxTypeOK
<1>1. CASE TooLong(c, f)
  BY <1>1 DEF TooLong, FlagTellsOwner, EntryHeld, BufferOwned, NoLostWakeup
<1>2. CASE QueueFull(c, f)
  BY <1>2 DEF QueueFull, FlagTellsOwner, EntryHeld, BufferOwned, NoLostWakeup
<1>3. CASE Put(c, f)
  <2>1. TxTypeOK'
    BY <1>3 DEF Put
  <2>2. caller'[c] = "submit"
    BY <1>3 DEF Put
  <2>3. QED
    BY <1>3, <2>1, <2>2 DEF Put, FlagTellsOwner, EntryHeld, BufferOwned, NoLostWakeup
<1>4. CASE Submit(c)
  <2>1. TxTypeOK'
    BY <1>4 DEF Submit
  <2>2. QED
    BY <1>4, <2>1 DEF Submit, FlagTellsOwner, EntryHeld, BufferOwned, NoLostWakeup
<1>5. QED
  BY <1>1, <1>2, <1>3, <1>4

\* The handler owns the buffer exactly from the check to uart_tx.
LEMMA HandlerStep == TxInv /\ Handler => TxInv'
<1> SUFFICES ASSUME TxInv, Handler PROVE TxInv'
  OBVIOUS
<1> USE TxAssumption DEF TxInv, TxTypeOK, FlagTellsOwner, EntryHeld, BufferOwned, NoLostWakeup
<1>1. CASE HandlerEnter
  BY <1>1 DEF HandlerEnter
<1>2. CASE HandlerCheck
  BY <1>2 DEF HandlerCheck
<1>3. CASE HandlerGet
  <2>1. CASE tx_msgq = <<>>
    BY <1>3, <2>1 DEF HandlerGet
  <2>2. CASE tx_msgq # <<>>
    <3>1. /\ Head(tx_msgq) \in Frame
          /\ Tail(tx_msgq) \in Seq(Frame)
          /\ Len(Tail(tx_msgq)) <= TxQueueDepth
      BY <2>2
    <3>2. QED
      BY <1>3, <2>2, <3>1 DEF HandlerGet
  <2>3. QED
    BY <2>1, <2>2
<1>4. CASE HandlerBuild
  BY <1>4 DEF HandlerBuild
<1>5. CASE HandlerStart
  BY <1>5 DEF HandlerStart
<1>6. CASE HandlerError
  BY <1>6 DEF HandlerError
<1>7. QED
  BY <1>1, <1>2, <1>3, <1>4, <1>5, <1>6 DEF Handler

\* An interrupt clears the flag together with the ownership it stands for.
LEMMA InterruptStep == TxInv /\ Interrupt => TxInv'
<1> SUFFICES ASSUME TxInv, Interrupt PROVE TxInv'
  OBVIOUS
<1> USE TxAssumption DEF TxInv, TxTypeOK, FlagTellsOwner, EntryHeld, BufferOwned, NoLostWakeup
<1>1. CASE TxDone
  <2>1. tx_frame_buf \in Frame
    BY <1>1 DEF TxDone
  <2>2. Append(wire, tx_frame_buf) \in Seq(Frame)
    BY <2>1
  <2>3. QED
    BY <1>1, <2>2 DEF TxDone
<1>2. CASE TxAborted
  BY <1>2 DEF TxAborted
<1>3. QED
  BY <1>1, <1>2 DEF Interrupt

\* Every step of a caller, of tx_work_handler and of uart_cb keeps TxInv.
LEMMA NextTxInv == TxInv /\ [Next]_vars => TxInv'
<1> SUFFICES ASSUME TxInv, [Next]_vars PROVE TxInv'
  OBVIOUS
<1>1. CASE \E c \in Caller, f \in Frame : TooLong(c, f) \/ QueueFull(c, f) \/ Put(c, f)
  BY <1>1, CallerStep
<1>2. CASE \E c \in Caller : Submit(c)
  <2>1. PICK c \in Caller : Submit(c)
    BY <1>2
  <2>2. TxTypeOK'
    BY <2>1 DEF Submit, TxInv, TxTypeOK
  <2>3. QED
    BY <2>1, <2>2 DEF Submit, TxInv, TxTypeOK, FlagTellsOwner, EntryHeld, BufferOwned, NoLostWakeup
<1>3. CASE Handler
  BY <1>3, HandlerStep
<1>4. CASE Interrupt
  BY <1>4, InterruptStep
<1>5. CASE UNCHANGED vars
  BY <1>5 DEF vars, TxInv, TxTypeOK, FlagTellsOwner, EntryHeld, BufferOwned, NoLostWakeup
<1>6. QED
  BY <1>1, <1>2, <1>3, <1>4, <1>5 DEF Next

\* The inductive invariant of the transmit path holds in every reachable state.
THEOREM TxInvariant == Spec => []TxInv
  BY InitTxInv, NextTxInv, PTL DEF Spec

\* tx_msgq never exceeds its depth and the handler's state is well formed.
THEOREM TxTypeCorrect == Spec => []TxTypeOK
<1>1. TxInv => TxTypeOK
  BY DEF TxInv
<1>2. QED
  BY <1>1, TxInvariant, PTL

\* tx_frame_buf is never rebuilt while the UART is still reading it.
THEOREM TxBufferOwned == Spec => []BufferOwned
<1>1. TxInv => BufferOwned
  BY DEF TxInv
<1>2. QED
  BY <1>1, TxInvariant, PTL

\* tx_in_progress tells truly, whenever tx_work_handler reads it, whether the
\* UART still owns tx_frame_buf.
THEOREM TxFlagTellsOwner == Spec => []FlagTellsOwner
<1>1. TxInv => FlagTellsOwner
  BY DEF TxInv
<1>2. QED
  BY <1>1, TxInvariant, PTL

\* A queued frame always has a future run of tx_work_handler due to it.
THEOREM TxNoLostWakeup == Spec => []NoLostWakeup
<1>1. TxInv => NoLostWakeup
  BY DEF TxInv
<1>2. QED
  BY <1>1, TxInvariant, PTL

----------------------------------------------------------------------------
(* Refinement: the transmit path implements the ordered channel. *)

\* Two sequences of equal length and equal elements are equal.
LEMMA SeqExtensional ==
  ASSUME NEW S, NEW s \in Seq(S), NEW t \in Seq(S), Len(s) = Len(t),
         \A i \in 1 .. Len(s) : s[i] = t[i]
  PROVE  s = t
  OBVIOUS

\* A one-element sequence in front: its head and its tail (the dequeued entry).
LEMMA OneInFront ==
  ASSUME NEW S, NEW x \in S, NEW s \in Seq(S)
  PROVE  /\ <<x>> \o s \in Seq(S) /\ <<x>> \o s # <<>>
         /\ Len(<<x>> \o s) = Len(s) + 1
         /\ Head(<<x>> \o s) = x
         /\ Tail(<<x>> \o s) = s
<1>1. /\ <<x>> \o s \in Seq(S)
      /\ Len(<<x>> \o s) = Len(s) + 1
      /\ \A i \in 1 .. Len(s) + 1 : (<<x>> \o s)[i] = IF i <= 1 THEN x ELSE s[i - 1]
  <2>1. <<x>> \in Seq(S) /\ Len(<<x>>) = 1 /\ <<x>>[1] = x
    OBVIOUS
  <2>2. QED
    BY <2>1, ConcatProperties
<1>2. <<x>> \o s # <<>> /\ Head(<<x>> \o s) = x
  BY <1>1
<1>3. /\ Tail(<<x>> \o s) \in Seq(S) /\ Len(Tail(<<x>> \o s)) = Len(s)
      /\ \A i \in 1 .. Len(s) : Tail(<<x>> \o s)[i] = s[i]
  BY <1>1, <1>2, HeadTailProperties
<1>4. Tail(<<x>> \o s) = s
  BY <1>3, SeqExtensional
<1>5. QED
  BY <1>1, <1>2, <1>4

\* Appending to the queue appends to everything that is pending.
LEMMA AppendBehind ==
  ASSUME NEW S, NEW h \in Seq(S), NEW s \in Seq(S), NEW x \in S
  PROVE  h \o Append(s, x) = Append(h \o s, x)
<1>1. /\ Append(s, x) = s \o <<x>> /\ Append(h \o s, x) = (h \o s) \o <<x>>
      /\ <<x>> \in Seq(S)
  BY AppendIsConcat, ConcatProperties
<1>2. QED
  BY <1>1, ConcatAssociative

\* A non-empty queue is its head in front of its tail (k_msgq_get).
LEMMA SplitFront ==
  ASSUME NEW S, NEW s \in Seq(S), s # <<>>
  PROVE  <<Head(s)>> \o Tail(s) = s
<1>1. Head(s) \in S /\ Tail(s) \in Seq(S) /\ Len(Tail(s)) = Len(s) - 1
  BY HeadTailProperties
<1>2. /\ <<Head(s)>> \o Tail(s) \in Seq(S)
      /\ Len(<<Head(s)>> \o Tail(s)) = Len(s)
      /\ \A i \in 1 .. Len(s) : (<<Head(s)>> \o Tail(s))[i] = s[i]
  <2>1. <<Head(s)>> \in Seq(S) /\ Len(<<Head(s)>>) = 1 /\ <<Head(s)>>[1] = s[1]
    BY <1>1
  <2>2. \A i \in 1 .. Len(Tail(s)) : Tail(s)[i] = s[i + 1]
    BY HeadTailProperties
  <2>3. QED
    BY <1>1, <2>1, <2>2, ConcatProperties
<1>3. QED
  BY <1>2, SeqExtensional

\* At most one frame is in hand, and it is well typed.
LEMMA InHandType ==
  TxInv => /\ InHand \in Seq(Frame) /\ tx_msgq \in Seq(Frame)
           /\ Pending \in Seq(Frame)
           /\ Len(InHand) <= 1
           /\ Len(Pending) = Len(InHand) + Len(tx_msgq)
<1> SUFFICES ASSUME TxInv
             PROVE  /\ InHand \in Seq(Frame) /\ tx_msgq \in Seq(Frame)
                    /\ Pending \in Seq(Frame)
                    /\ Len(InHand) <= 1
                    /\ Len(Pending) = Len(InHand) + Len(tx_msgq)
  OBVIOUS
<1>1. InHand \in Seq(Frame) /\ Len(InHand) <= 1 /\ tx_msgq \in Seq(Frame)
  BY DEF InHand, TxInv, TxTypeOK
<1>2. QED
  BY <1>1, ConcatProperties DEF Pending

\* Every step of the transmit path is a step of the channel or leaves it alone.
LEMMA StepImplementsLink ==
  TxInv /\ TxInv' /\ [Next]_vars => [Link!Next]_<<Pending, wire>>
<1> SUFFICES ASSUME TxInv, TxInv', [Next]_vars
             PROVE  [Link!Next]_<<Pending, wire>>
  OBVIOUS
<1>0. /\ InHand \in Seq(Frame) /\ tx_msgq \in Seq(Frame) /\ Pending \in Seq(Frame)
      /\ Len(InHand) <= 1
      /\ Len(Pending) = Len(InHand) + Len(tx_msgq)
      /\ TxQueueDepth \in Nat \ {0}
  BY InHandType, TxAssumption
<1>1. ASSUME NEW c \in Caller, NEW f \in Frame,
             TooLong(c, f) \/ QueueFull(c, f) \/ Put(c, f)
      PROVE  [Link!Next]_<<Pending, wire>>
  <2>1. CASE TooLong(c, f) \/ QueueFull(c, f)
    BY <2>1 DEF TooLong, QueueFull, Pending, InHand
  <2>2. CASE Put(c, f)
    <3>1. Pending' = Append(Pending, f)
      BY <2>2, <1>0, AppendBehind DEF Put, Pending, InHand
    <3>2. Len(Pending) < TxQueueDepth + 1
      BY <2>2, <1>0 DEF Put
    <3>3. Link!Accept(f)
      BY <2>2, <3>1, <3>2 DEF Put, Link!Accept
    <3>4. QED
      BY <3>3 DEF Link!Next
  <2>3. QED
    BY <1>1, <2>1, <2>2
<1>2. ASSUME NEW c \in Caller, Submit(c)
      PROVE  [Link!Next]_<<Pending, wire>>
  BY <1>2 DEF Submit, Pending, InHand
<1>3. CASE HandlerEnter \/ HandlerCheck \/ HandlerBuild
  BY <1>3 DEF HandlerEnter, HandlerCheck, HandlerBuild, Pending, InHand
<1>4. CASE HandlerGet
  <2>1. CASE tx_msgq = <<>>
    BY <1>4, <2>1 DEF HandlerGet, Pending, InHand
  <2>2. CASE tx_msgq # <<>>
    <3>1. InHand = <<>> /\ InHand' = <<Head(tx_msgq)>> /\ tx_msgq' = Tail(tx_msgq)
      BY <1>4, <2>2, TxAssumption
      DEF HandlerGet, InHand, TxInv, TxTypeOK, FlagTellsOwner, EntryHeld
    <3>2. Pending' = Pending
      BY <3>1, <1>0, <2>2, SplitFront, ConcatEmptySeq DEF Pending
    <3>3. QED
      BY <1>4, <3>2 DEF HandlerGet
  <2>3. QED
    BY <2>1, <2>2
<1>5. CASE HandlerStart
  <2>1. InHand' = InHand
    BY <1>5 DEF HandlerStart, InHand, TxInv, EntryHeld
  <2>2. QED
    BY <1>5, <2>1 DEF HandlerStart, Pending
<1>6. CASE HandlerError
  <2>1. InHand = <<entry>> /\ InHand' = <<>> /\ entry \in Frame
    BY <1>6 DEF HandlerError, InHand, TxInv, TxTypeOK, FlagTellsOwner, EntryHeld
  <2>2. Pending # <<>> /\ Pending' = Tail(Pending)
    BY <1>6, <2>1, <1>0, OneInFront, ConcatEmptySeq DEF HandlerError, Pending
  <2>3. Link!Lose
    BY <1>6, <2>2 DEF HandlerError, Link!Lose
  <2>4. QED
    BY <2>3 DEF Link!Next
<1>7. CASE TxDone \/ TxAborted
  <2>1. /\ InHand = <<dma>> /\ InHand' = <<>> /\ dma \in Frame
        /\ tx_msgq' = tx_msgq /\ tx_frame_buf = dma
    BY <1>7 DEF TxDone, TxAborted, InHand, TxInv, TxTypeOK, FlagTellsOwner, EntryHeld,
                BufferOwned
  <2>2. Pending # <<>> /\ Pending' = Tail(Pending) /\ Head(Pending) = dma
    BY <2>1, <1>0, OneInFront, ConcatEmptySeq DEF Pending
  <2>3. CASE TxDone
    <3>1. Link!Deliver
      BY <2>1, <2>2, <2>3 DEF TxDone, Link!Deliver
    <3>2. QED
      BY <3>1 DEF Link!Next
  <2>4. CASE TxAborted
    <3>1. Link!Lose
      BY <2>2, <2>4 DEF TxAborted, Link!Lose
    <3>2. QED
      BY <3>1 DEF Link!Next
  <2>5. QED
    BY <1>7, <2>3, <2>4
<1>8. CASE UNCHANGED vars
  BY <1>8 DEF vars, Pending, InHand
<1>9. QED
  BY <1>1, <1>2, <1>3, <1>4, <1>5, <1>6, <1>7, <1>8 DEF Next, Handler, Interrupt

\* uart_meshtastic_tx is an ordered, bounded channel to the node: frames
\* arrive whole, in order of acceptance, at most once.
THEOREM TxImplementsLink == Spec => LinkSpec
<1>1. Init => Link!Init
  BY DEF Init, Link!Init, Pending, InHand
<1>2. QED
  BY <1>1, TxInvariant, StepImplementsLink, PTL DEF Spec, LinkSpec, Link!Spec
=============================================================================

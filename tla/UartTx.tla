------------------------------- MODULE UartTx -------------------------------
(***************************************************************************)
(* The transmit side of uart_meshtastic.c.  Any thread may call            *)
(* uart_meshtastic_tx, which copies the frame into tx_msgq and submits     *)
(* tx_work; the system work queue runs tx_work_handler; the UART interrupt *)
(* ends a transfer.  Each step below touches the shared state once: the    *)
(* caller is preempted between the put and the submit, and the interrupt   *)
(* comes between any two steps of the handler.                             *)
(***************************************************************************)
EXTENDS Naturals, Sequences

CONSTANTS Caller,            \* threads that call uart_meshtastic_tx
          Frame,             \* payloads
          NoFrame,           \* "no frame here"
          Oversize,          \* payloads longer than MESHTASTIC_MAX_PAYLOAD
          TxQueueDepth,      \* TX_QUEUE_DEPTH
          MaxAccept          \* bound: frames accepted in a behaviour

ASSUME TxAssumption == /\ Oversize \subseteq Frame
                       /\ NoFrame \notin Frame
                       /\ TxQueueDepth \in Nat \ {0}
                       /\ MaxAccept \in Nat

VARIABLES tx_msgq,           \* the k_msgq, oldest first
          tx_frame_buf,      \* frame whose bytes tx_frame_buf holds
          tx_in_progress,
          tx_work,           \* "tx_work is queued on the system work queue"
          pc,                \* where tx_work_handler is
          entry,             \* the handler's local copy of the dequeued frame
          dma,               \* frame the UART was told to send, until its event
          caller,            \* per thread: between k_msgq_put and k_work_submit?
          ret,               \* per thread: what uart_meshtastic_tx returned last
          accepted,          \* frames accepted so far
          wire               \* frames that reached the node

vars == <<tx_msgq, tx_frame_buf, tx_in_progress, tx_work, pc, entry, dma,
          caller, ret, accepted, wire>>

Init == /\ tx_msgq = <<>> /\ wire = <<>> /\ accepted = 0
        /\ tx_frame_buf = NoFrame /\ entry = NoFrame /\ dma = NoFrame
        /\ tx_in_progress = FALSE /\ tx_work = FALSE
        /\ pc = "idle"
        /\ caller = [c \in Caller |-> "out"]
        /\ ret = [c \in Caller |-> "none"]

----------------------------------------------------------------------------
(* uart_meshtastic_tx *)

TooLong(c, f) ==
  /\ caller[c] = "out" /\ f \in Oversize
  /\ ret' = [ret EXCEPT ![c] = "EMSGSIZE"]
  /\ UNCHANGED <<tx_msgq, tx_frame_buf, tx_in_progress, tx_work, pc, entry,
                 dma, caller, accepted, wire>>

QueueFull(c, f) ==
  /\ caller[c] = "out" /\ f \notin Oversize
  /\ Len(tx_msgq) = TxQueueDepth
  /\ ret' = [ret EXCEPT ![c] = "ENOMEM"]
  /\ UNCHANGED <<tx_msgq, tx_frame_buf, tx_in_progress, tx_work, pc, entry,
                 dma, caller, accepted, wire>>

\* Mutant: the queue's depth is not checked.
PutUnchecked(c, f) ==
  /\ caller[c] = "out" /\ f \notin Oversize
  /\ accepted < MaxAccept
  /\ tx_msgq' = Append(tx_msgq, f)
  /\ accepted' = accepted + 1
  /\ caller' = [caller EXCEPT ![c] = "submit"]
  /\ UNCHANGED <<tx_frame_buf, tx_in_progress, tx_work, pc, entry, dma, ret, wire>>

Put(c, f) ==
  /\ caller[c] = "out" /\ f \notin Oversize
  /\ Len(tx_msgq) < TxQueueDepth
  /\ accepted < MaxAccept
  /\ tx_msgq' = Append(tx_msgq, f)
  /\ accepted' = accepted + 1
  /\ caller' = [caller EXCEPT ![c] = "submit"]
  /\ UNCHANGED <<tx_frame_buf, tx_in_progress, tx_work, pc, entry, dma, ret, wire>>

\* k_work_submit sets the queued flag; it is idempotent.
Submit(c) ==
  /\ caller[c] = "submit"
  /\ tx_work' = TRUE
  /\ caller' = [caller EXCEPT ![c] = "out"]
  /\ ret' = [ret EXCEPT ![c] = "ok"]
  /\ UNCHANGED <<tx_msgq, tx_frame_buf, tx_in_progress, pc, entry, dma, accepted, wire>>

----------------------------------------------------------------------------
(* tx_work_handler, on the system work queue *)

\* The kernel clears the queued flag, then calls the handler.
HandlerEnter ==
  /\ pc = "idle" /\ tx_work
  /\ tx_work' = FALSE
  /\ pc' = "check"
  /\ UNCHANGED <<tx_msgq, tx_frame_buf, tx_in_progress, entry, dma, caller, ret,
                 accepted, wire>>

\* Mutant: the handler does not look at tx_in_progress.
HandlerCheckBlind ==
  /\ pc = "check"
  /\ pc' = "get"
  /\ UNCHANGED <<tx_msgq, tx_frame_buf, tx_in_progress, tx_work, entry, dma,
                 caller, ret, accepted, wire>>

HandlerCheck ==
  /\ pc = "check"
  /\ pc' = IF tx_in_progress THEN "idle" ELSE "get"
  /\ UNCHANGED <<tx_msgq, tx_frame_buf, tx_in_progress, tx_work, entry, dma,
                 caller, ret, accepted, wire>>

HandlerGet ==
  /\ pc = "get"
  /\ \/ /\ tx_msgq = <<>>
        /\ pc' = "idle"
        /\ UNCHANGED <<tx_msgq, entry>>
     \/ /\ tx_msgq # <<>>
        /\ entry' = Head(tx_msgq)
        /\ tx_msgq' = Tail(tx_msgq)
        /\ pc' = "build"
  /\ UNCHANGED <<tx_frame_buf, tx_in_progress, tx_work, dma, caller, ret,
                 accepted, wire>>

\* The frame is built in the static buffer, and only then marked in progress.
HandlerBuild ==
  /\ pc = "build"
  /\ tx_frame_buf' = entry
  /\ tx_in_progress' = TRUE
  /\ pc' = "start"
  /\ UNCHANGED <<tx_msgq, tx_work, entry, dma, caller, ret, accepted, wire>>

HandlerStart ==
  /\ pc = "start"
  /\ dma = NoFrame
  /\ dma' = entry
  /\ entry' = NoFrame
  /\ pc' = "idle"
  /\ UNCHANGED <<tx_msgq, tx_frame_buf, tx_in_progress, tx_work, caller, ret,
                 accepted, wire>>

\* Mutant: the entry of a failed uart_tx is put back at the end of the queue.
HandlerErrorRequeues ==
  /\ pc = "start"
  /\ tx_in_progress' = FALSE
  /\ tx_work' = TRUE
  /\ tx_msgq' = IF Len(tx_msgq) < TxQueueDepth THEN Append(tx_msgq, entry) ELSE tx_msgq
  /\ entry' = NoFrame
  /\ pc' = "idle"
  /\ UNCHANGED <<tx_frame_buf, dma, caller, ret, accepted, wire>>

\* uart_tx fails (-EBUSY while a transfer runs, or any driver error): the
\* entry is dropped and the work resubmitted for the next one.
HandlerError ==
  /\ pc = "start"
  /\ tx_in_progress' = FALSE
  /\ tx_work' = TRUE
  /\ entry' = NoFrame
  /\ pc' = "idle"
  /\ UNCHANGED <<tx_msgq, tx_frame_buf, dma, caller, ret, accepted, wire>>

----------------------------------------------------------------------------
(* uart_cb: the transfer ended.  What went out is what the buffer held. *)

\* Mutant: the end of a transfer does not resubmit the work.
TxDoneSilent ==
  /\ dma # NoFrame
  /\ wire' = Append(wire, tx_frame_buf)
  /\ dma' = NoFrame
  /\ tx_in_progress' = FALSE
  /\ UNCHANGED <<tx_msgq, tx_frame_buf, tx_work, pc, entry, caller, ret, accepted>>

TxDone ==
  /\ dma # NoFrame
  /\ wire' = Append(wire, tx_frame_buf)
  /\ dma' = NoFrame
  /\ tx_in_progress' = FALSE
  /\ tx_work' = TRUE
  /\ UNCHANGED <<tx_msgq, tx_frame_buf, pc, entry, caller, ret, accepted>>

\* Mutant: an aborted transfer leaves tx_in_progress set.
TxAbortedStillBusy ==
  /\ dma # NoFrame
  /\ dma' = NoFrame
  /\ tx_work' = TRUE
  /\ UNCHANGED <<tx_msgq, tx_frame_buf, tx_in_progress, pc, entry, caller, ret,
                 accepted, wire>>

TxAborted ==
  /\ dma # NoFrame
  /\ dma' = NoFrame
  /\ tx_in_progress' = FALSE
  /\ tx_work' = TRUE
  /\ UNCHANGED <<tx_msgq, tx_frame_buf, pc, entry, caller, ret, accepted, wire>>

Handler == \/ HandlerEnter \/ HandlerCheck \/ HandlerGet \/ HandlerBuild
           \/ HandlerStart \/ HandlerError

Interrupt == TxDone \/ TxAborted

Next == \/ \E c \in Caller, f \in Frame : TooLong(c, f) \/ QueueFull(c, f) \/ Put(c, f)
        \/ \E c \in Caller : Submit(c)
        \/ Handler
        \/ Interrupt

Spec == Init /\ [][Next]_vars

\* The work queue thread runs queued work and runs it to completion, a caller
\* past its put reaches its submit, and the driver ends every transfer within
\* TX_TIMEOUT_US, with one event or the other.
FairSpec == /\ Spec
            /\ WF_vars(Handler)
            /\ WF_vars(Interrupt)
            /\ \A c \in Caller : WF_vars(Submit(c))

----------------------------------------------------------------------------
\* The queue holds at most its depth, and the program counters are in range.
TxTypeOK ==
  /\ tx_msgq \in Seq(Frame) /\ Len(tx_msgq) <= TxQueueDepth
  /\ {tx_frame_buf, entry, dma} \subseteq Frame \cup {NoFrame}
  /\ tx_in_progress \in BOOLEAN /\ tx_work \in BOOLEAN
  /\ pc \in {"idle", "check", "get", "build", "start"}
  /\ caller \in [Caller -> {"out", "submit"}]
  /\ ret \in [Caller -> {"none", "ok", "ENOMEM", "EMSGSIZE"}]
  /\ accepted \in 0 .. MaxAccept
  /\ wire \in Seq(Frame)

\* While the UART owns tx_frame_buf, it still holds the frame handed to
\* uart_tx: the handler never rebuilds it under a running transfer.
BufferOwned == dma # NoFrame => tx_frame_buf = dma

\* A frame waiting in tx_msgq is never stranded: something that will run the
\* handler is still due (queued work, a running handler, a caller about to
\* submit, or a transfer whose end will resubmit).
NoLostWakeup ==
  tx_msgq # <<>> => \/ tx_work \/ pc # "idle" \/ dma # NoFrame
                    \/ \E c \in Caller : caller[c] = "submit"

\* Every accepted frame leaves the queue for the UART, however callers,
\* handler errors and aborted transfers interleave.
QueueDrains == (tx_msgq # <<>>) ~> (tx_msgq = <<>>)

\* The frames between acceptance and the wire, oldest first: the one that
\* left the queue (held by the UART, or still by the handler), then the queue.
InHand == IF dma # NoFrame THEN <<dma>>
          ELSE IF entry # NoFrame THEN <<entry>> ELSE <<>>
Pending == InHand \o tx_msgq

Link == INSTANCE TxLink WITH Capacity <- TxQueueDepth + 1, chan <- Pending

\* The transmit path is an ordered channel that loses only its oldest frame.
LinkSpec == Link!Spec

----------------------------------------------------------------------------
(* The inductive invariant. *)

\* Between activations of the handler, the flag says whether the UART owns
\* the buffer; the handler holds an entry exactly while it is about to send.
FlagTellsOwner ==
  /\ pc \in {"idle", "check"} => (tx_in_progress <=> dma # NoFrame)
  /\ pc \in {"get", "build"} => ~ tx_in_progress /\ dma = NoFrame
  /\ pc = "start" => tx_in_progress /\ dma = NoFrame /\ tx_frame_buf = entry

EntryHeld == entry # NoFrame <=> pc \in {"build", "start"}

TxInv == TxTypeOK /\ FlagTellsOwner /\ EntryHeld /\ BufferOwned /\ NoLostWakeup
=============================================================================

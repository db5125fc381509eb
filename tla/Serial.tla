------------------------------- MODULE Serial -------------------------------
(***************************************************************************)
(* The 8250 serial port (serial.c), the keyboard thread that feeds it      *)
(* (keyboard_thread_func in main.c) and the guest driver that empties it.  *)
(*                                                                         *)
(* handle_serial and write_to_serial each run under rx_lock, so one guest  *)
(* access is one step and so is a write_to_serial that finds the receive   *)
(* buffer empty; pthread_cond_timedwait is what splits it.  IRQ 4 is an    *)
(* edge-triggered line: raising it when it is already high latches         *)
(* nothing.                                                                *)
(*                                                                         *)
(* The driver is external: a handler that reads IIR until it says "none",  *)
(* reads RBR while LSR says data ready, and sends or stops sending when    *)
(* the transmitter interrupts.                                             *)
(***************************************************************************)
EXTENDS Naturals, Sequences

CONSTANTS
  Keys,        \* what can be typed; includes CtrlA and CtrlC
  CtrlA, CtrlC,
  Divisor,     \* a byte the guest writes to DLL, not a key
  MaxKeys,     \* bound on keys typed
  MaxTx        \* bound on bytes the guest sends

ASSUME SerialAssumption ==
  /\ CtrlA \in Keys /\ CtrlC \in Keys /\ CtrlA # CtrlC
  /\ Divisor \notin Keys
  /\ MaxKeys \in Nat /\ MaxTx \in Nat

VARIABLES
  rbr,      \* regs[0]
  ier,      \* regs[1]: subset of {"rx", "tx"}
  iir,      \* regs[2]: "none" 0001, "rx" 0100, "tx" 0010, "other"
  dlab,     \* regs[3] & 0x80
  dr,       \* regs[5] & 0x01
  line,     \* level of IRQ 4
  edge,     \* a rising edge latched and not yet taken by the guest
  kpc,      \* keyboard thread: "poll", "write", "wait" or "killed"
  escaped,  \* its flag of the same name
  todo,     \* characters it still has to pass to write_to_serial
  gpc,      \* guest: "idle" or a place in its interrupt handler
  sent,     \* bytes the guest may have sent (bounded by MaxTx)
  keys,     \* keys read from stdin (bounded by MaxKeys)
  typed,    \* history: the keys among them other than CtrlA
  handed,   \* history: characters other than CtrlA passed to write_to_serial
  stored,   \* history: characters put into RBR while steady
  got,      \* history: bytes the guest's handler took from RBR while steady
  txOwed,   \* history: a byte was sent with the tx interrupt enabled and the
            \* guest has not seen that interrupt
  steady    \* history: the guest has not reprogrammed the port

regs == <<rbr, ier, iir, dlab, dr>>
irqVars == <<line, edge>>
kbdVars == <<kpc, escaped, todo, keys, typed, handed, stored>>
guestVars == <<gpc, sent, got, txOwed, steady>>
vars == <<regs, irqVars, kbdVars, guestVars>>

(* serial_init, and a guest that has enabled the receive interrupt *)
Init ==
  /\ rbr = Divisor /\ ier = {"rx"} /\ iir = "none" /\ dlab = FALSE
  /\ dr = FALSE /\ line = FALSE /\ edge = FALSE
  /\ kpc = "poll" /\ escaped = FALSE /\ todo = <<>>
  /\ gpc = "idle" /\ sent = 0
  /\ keys = 0 /\ typed = <<>> /\ handed = <<>> /\ stored = <<>> /\ got = <<>>
  /\ txOwed = FALSE /\ steady = TRUE

set_irq == line' = TRUE /\ edge' = IF line THEN edge ELSE TRUE
clear_irq == line' = FALSE /\ UNCHANGED edge

-----------------------------------------------------------------------------
(* keyboard_thread_func *)

(* The characters an escaped key makes the thread write. *)
EscapedDropsKey(k) == IF k = CtrlC THEN <<>> ELSE <<CtrlA>>
Escaped(k) == CASE k = CtrlC -> <<>>
                [] k = CtrlA -> <<CtrlA>>
                [] OTHER -> <<CtrlA, k>>

(* The escape key itself is not recorded. *)
Note(history, k) == IF k = CtrlA THEN history ELSE Append(history, k)

Key(k) ==
  /\ kpc = "poll" /\ keys < MaxKeys
  /\ keys' = keys + 1 /\ typed' = Note(typed, k)
  /\ escaped' = (~escaped /\ k = CtrlA)
  /\ todo' = IF escaped THEN Escaped(k)
             ELSE IF k = CtrlA THEN <<>> ELSE <<k>>
  /\ kpc' = IF escaped /\ k = CtrlC THEN "killed"
            ELSE IF todo' = <<>> THEN "poll" ELSE "write"
  /\ UNCHANGED <<regs, irqVars, guestVars, handed, stored>>

(* write_to_serial returns; the next character, or the next key *)
WriteDone ==
  /\ handed' = Note(handed, Head(todo))
  /\ todo' = Tail(todo)
  /\ kpc' = IF Len(todo) > 1 THEN "write" ELSE "poll"
  /\ UNCHANGED <<escaped, keys, typed>>

is_rx_emptyAlways == TRUE
is_rx_empty == ~dr

(* The receive interrupt, if the guest wants it. *)
RaiseRxNoLine ==
  iir' = (IF "rx" \in ier THEN "rx" ELSE iir) /\ UNCHANGED irqVars
RaiseRx ==
  IF "rx" \in ier THEN iir' = "rx" /\ set_irq ELSE UNCHANGED <<iir, irqVars>>

(* The buffer is empty: store and interrupt. *)
Store ==
  /\ kpc \in {"write", "wait"} /\ is_rx_empty
  /\ rbr' = Head(todo) /\ dr' = TRUE
  /\ stored' = IF steady THEN Append(stored, Head(todo)) ELSE stored
  /\ RaiseRx /\ WriteDone
  /\ UNCHANGED <<ier, dlab, guestVars>>

(* The buffer is full: wait, up to 3 s. *)
WaitEmpty ==
  /\ kpc = "write" /\ dr
  /\ kpc' = "wait"
  /\ UNCHANGED <<regs, irqVars, escaped, todo, keys, typed, handed, stored,
                 guestVars>>

(* ETIMEDOUT: the character is dropped, even if the buffer has been read   *)
(* by the time the thread has the lock again.                              *)
Timeout ==
  /\ kpc = "wait"
  /\ WriteDone
  /\ UNCHANGED <<regs, irqVars, stored, guestVars>>

(* timed_getchar returns without a key and the loop goes round. *)
PollTimeout == kpc = "poll" /\ UNCHANGED vars

(* Ctrl-A Ctrl-C: SIGINT, whose handler ends the process. *)
Killed == kpc = "killed" /\ UNCHANGED vars

Keyboard ==
  \/ \E k \in Keys : Key(k)
  \/ Store \/ WaitEmpty \/ Timeout \/ PollTimeout \/ Killed

-----------------------------------------------------------------------------
(* handle_serial, one operator per access of the guest *)

(* IN 2: the interrupt it reports is acknowledged; a receive interrupt     *)
(* gives way to a transmit one if that is enabled.                         *)
TxNextForgotten == FALSE
TxNext == iir = "rx" /\ "tx" \in ier
AcknowledgeKeepsLine == iir' = "none" /\ UNCHANGED irqVars
Acknowledge == iir' = "none" /\ clear_irq
ReadIIR ==
  /\ IF TxNext THEN iir' = "tx" /\ UNCHANGED irqVars ELSE Acknowledge
  /\ UNCHANGED <<rbr, ier, dlab, dr>>

(* IN 0: data ready goes, the keyboard thread is signalled. *)
ReadRBR == dr' = FALSE /\ UNCHANGED <<rbr, ier, iir, dlab, irqVars>>

(* OUT 0 with DLAB clear: the byte is printed at once. *)
WriteTHR ==
  /\ IF "tx" \in ier /\ iir # "rx"
       THEN iir' = "tx" /\ set_irq
       ELSE UNCHANGED <<iir, irqVars>>
  /\ UNCHANGED <<rbr, ier, dlab, dr>>

(* OUT 0 and OUT 1 with DLAB set store the divisor latch and then fall     *)
(* through to write_reg, into RBR and IER as well.                         *)
WriteDLL == dlab /\ rbr' = Divisor /\ UNCHANGED <<ier, iir, dlab, dr, irqVars>>
WriteDLM == dlab /\ ier' = {} /\ UNCHANGED <<rbr, iir, dlab, dr, irqVars>>

(* OUT 1: no interrupt is raised for data or room that is already there. *)
WriteIER(e) == ier' = e /\ UNCHANGED <<rbr, iir, dlab, dr, irqVars>>

(* OUT 2 is FCR but lands in regs[2]: 0x01 reads back as "none", the other *)
(* values drivers write (0x00, 0x07) as neither rx nor tx.                 *)
WriteFCR(v) == iir' = v /\ UNCHANGED <<rbr, ier, dlab, dr, irqVars>>

WriteLCR(d) == dlab' = d /\ UNCHANGED <<rbr, ier, iir, dr, irqVars>>

(* OUT 5: the line status is writable too, and with it data ready, which   *)
(* nobody is told of (the transmitter bits stay set).                      *)
WriteLSR(b) == dr' = b /\ UNCHANGED <<rbr, ier, iir, dlab, irqVars>>

-----------------------------------------------------------------------------
(* The guest driver (external) *)

GuestRuns == kpc # "killed"

GuestGoto(from, to) == GuestRuns /\ gpc = from /\ gpc' = to /\ UNCHANGED steady

IsrEnter ==
  /\ edge /\ edge' = FALSE
  /\ GuestGoto("idle", "iir")
  /\ UNCHANGED <<regs, line, kbdVars, sent, got, txOwed>>

IsrIIR ==
  /\ ReadIIR
  /\ GuestGoto("iir", IF iir = "none" THEN "idle" ELSE "lsr")
  /\ txOwed' = (txOwed /\ iir # "tx")
  /\ UNCHANGED <<kbdVars, sent, got>>

IsrLSR ==
  /\ GuestGoto("lsr", IF dr THEN "rbr" ELSE "tx")
  /\ UNCHANGED <<regs, irqVars, kbdVars, sent, got, txOwed>>

IsrRBR ==
  /\ GuestGoto("rbr", "lsr")
  /\ ReadRBR
  /\ got' = IF steady THEN Append(got, rbr) ELSE got
  /\ UNCHANGED <<kbdVars, sent, txOwed>>

Send == WriteTHR /\ sent < MaxTx /\ sent' = sent + 1 /\ txOwed' = ("tx" \in ier)

(* THRE is always set, so the handler sends whenever it wants to. *)
IsrTx ==
  /\ GuestGoto("tx", "iir")
  /\ \/ "tx" \in ier /\ Send
     \/ "tx" \in ier /\ WriteIER(ier \ {"tx"}) /\ txOwed' = FALSE /\ UNCHANGED sent
     \/ "tx" \notin ier /\ UNCHANGED <<regs, irqVars, sent, txOwed>>
  /\ UNCHANGED <<kbdVars, got>>

(* Transmission starts: enable the interrupt, then write the first byte,   *)
(* the handler kept out.                                                   *)
StartTx ==
  /\ sent < MaxTx /\ ~dlab
  /\ GuestGoto("idle", "start")
  /\ WriteIER({"rx", "tx"})
  /\ UNCHANGED <<kbdVars, sent, got, txOwed>>

FirstByte ==
  /\ GuestGoto("start", "idle")
  /\ Send
  /\ UNCHANGED <<kbdVars, got>>

(* Setting line parameters, FIFO control, interrupt enables and, although  *)
(* drivers do not, line status; startup also reads RBR and IIR to clear    *)
(* them.                                                                   *)
Reprogram ==
  /\ GuestRuns /\ gpc = "idle"
  /\ \/ WriteDLL \/ WriteDLM
     \/ \E d \in BOOLEAN : WriteLCR(d) \/ WriteLSR(d)
     \/ \E v \in {"none", "other"} : WriteFCR(v)
     \/ ~dlab /\ \E e \in SUBSET {"rx", "tx"} : WriteIER(e)
     \/ ReadIIR
     \/ ReadRBR
  /\ txOwed' = FALSE /\ steady' = FALSE
  /\ UNCHANGED <<kbdVars, gpc, sent, got>>

Isr == IsrEnter \/ IsrIIR \/ IsrLSR \/ IsrRBR \/ IsrTx

Next == Keyboard \/ Isr \/ StartTx \/ FirstByte \/ Reprogram

Spec == Init /\ [][Next]_vars

(* The keyboard thread runs or times out, the guest takes its interrupts   *)
(* and its handler goes on; keys and transmissions are not required.       *)
FairSpec ==
  /\ Spec
  /\ WF_vars(Store \/ WaitEmpty \/ Timeout)
  /\ WF_vars(Isr)
  /\ WF_vars(FirstByte)

-----------------------------------------------------------------------------
(* The guest reads exactly the characters write_to_serial stored, in       *)
(* order, each once: none overwrites one the guest has not read yet, until *)
(* the guest itself reprograms the port (the divisor latch shares regs[0], *)
(* and a write to LSR changes data ready).                                 *)
ReadInOrder == steady => stored = IF dr THEN Append(got, rbr) ELSE got

(* The interrupt for a byte sent with the tx interrupt enabled is still to *)
(* come, also when a received character has taken its place in IIR.        *)
TxNotLost == txOwed /\ steady => iir \in {"tx", "rx"}

(* The line of an edge-triggered interrupt never stays high unnoticed: the *)
(* guest is in its handler or will be, however it reprograms the port, so  *)
(* the next set_irq is not swallowed for ever.                             *)
LineNotStuck == line => edge \/ gpc \in {"iir", "lsr", "rbr", "tx"}

(* What handed will be once the at most two characters of todo are done. *)
HandedSoon == CASE Len(todo) = 0 -> handed
                [] Len(todo) = 1 -> Note(handed, todo[1])
                [] OTHER -> Note(Note(handed, todo[1]), todo[2])

(* The escape key costs no input: apart from Ctrl-A itself, every key read *)
(* from stdin is passed to write_to_serial once and in order.              *)
KeysKept == kpc # "killed" => typed = HandedSoon

(* A stored character is eventually read by the guest, unless the user     *)
(* ends the process or the guest reprograms the port first.                *)
CharsRead == dr ~> (~dr \/ kpc = "killed" \/ ~steady)
=============================================================================

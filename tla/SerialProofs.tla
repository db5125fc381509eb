---------------------------- MODULE SerialProofs ----------------------------
(***************************************************************************)
(* Safety of the serial port and of the keyboard thread, for any keyboard  *)
(* and any number of keys typed and bytes sent.                            *)
(*                                                                         *)
(* The argument.  A character may be overwritten only between the driver's *)
(* look at LSR and its read of RBR, and there data ready keeps             *)
(* write_to_serial waiting (RbrInv).  A transmit interrupt is owed only    *)
(* while it is enabled in IER, so that IIR passes from rx to tx when it is *)
(* read and never to none (TxInv).  The line of IRQ 4 is raised either     *)
(* with an edge or while the driver's handler is running, and the handler  *)
(* ends only with the read of IIR that lowers it (LineInv).                *)
(***************************************************************************)
EXTENDS Serial, SequenceTheorems, TLAPS

Handler == {"iir", "lsr", "rbr", "tx"}
Chars == Keys \cup {Divisor}

LineInv ==
  /\ line \in BOOLEAN /\ edge \in BOOLEAN
  /\ gpc \in Handler \cup {"idle", "start"}
  /\ LineNotStuck

TxInv ==
  /\ txOwed \in BOOLEAN /\ steady \in BOOLEAN
  /\ txOwed /\ steady => "tx" \in ier /\ iir \in {"tx", "rx"}

(* write_to_serial runs only with a character to write. *)
TodoInv ==
  /\ kpc \in {"poll", "write", "wait", "killed"}
  /\ todo \in Seq(Keys) /\ Len(todo) <= 2
  /\ kpc \in {"write", "wait"} <=> Len(todo) > 0

RbrInv ==
  /\ TodoInv
  /\ dr \in BOOLEAN /\ steady \in BOOLEAN
  /\ rbr \in Chars /\ got \in Seq(Chars) /\ stored \in Seq(Chars)
  /\ gpc = "rbr" => dr
  /\ ReadInOrder

KeysInv ==
  /\ TodoInv
  /\ typed \in Seq(Keys) /\ handed \in Seq(Keys)
  /\ KeysKept

-----------------------------------------------------------------------------
(* No step leaves the line of IRQ 4 high with nobody to notice: set_irq    *)
(* latches an edge unless the line is high already, and the handler ends   *)
(* by reading IIR, which lowers it.                                        *)
LEMMA LineStep ==
  ASSUME LineInv, [Next]_vars
  PROVE  LineInv'
<1> USE DEF LineInv, LineNotStuck, Handler, irqVars, regs, guestVars
<1>1. CASE Keyboard
  <2>1. UNCHANGED irqVars \/ set_irq
    BY <1>1 DEF Keyboard, Key, Store, RaiseRx, WaitEmpty, Timeout, PollTimeout,
                Killed, vars
  <2>2. UNCHANGED gpc
    BY <1>1 DEF Keyboard, Key, Store, WaitEmpty, Timeout, PollTimeout, Killed,
                vars
  <2>3. CASE UNCHANGED irqVars BY <2>2, <2>3
  <2>4. CASE set_irq BY <2>2, <2>4 DEF set_irq
  <2> QED BY <2>1, <2>3, <2>4
<1>2. CASE IsrEnter
  BY <1>2 DEF IsrEnter, GuestGoto
<1>3. CASE IsrIIR
  BY <1>3 DEF IsrIIR, GuestGoto, ReadIIR, TxNext, Acknowledge, clear_irq
<1>4. CASE IsrLSR \/ IsrRBR
  BY <1>4 DEF IsrLSR, IsrRBR, GuestGoto, ReadRBR
<1>5. CASE IsrTx \/ FirstByte
  <2>1. UNCHANGED irqVars \/ set_irq
    BY <1>5 DEF IsrTx, FirstByte, Send, WriteTHR, WriteIER
  <2>2. gpc' = "iir" \/ (gpc = "start" /\ gpc' = "idle")
    BY <1>5 DEF IsrTx, FirstByte, GuestGoto
  <2>3. CASE UNCHANGED irqVars BY <2>2, <2>3
  <2>4. CASE set_irq BY <2>2, <2>4 DEF set_irq
  <2> QED BY <2>1, <2>3, <2>4
<1>6. CASE StartTx
  BY <1>6 DEF StartTx, GuestGoto, WriteIER
<1>7. CASE Reprogram
  <2>1. UNCHANGED irqVars \/ clear_irq
    BY <1>7 DEF Reprogram, WriteDLL, WriteDLM, WriteLCR, WriteLSR, WriteFCR, WriteIER,
                ReadIIR, Acknowledge, ReadRBR
  <2>2. UNCHANGED gpc
    BY <1>7 DEF Reprogram
  <2>3. CASE UNCHANGED irqVars BY <2>2, <2>3
  <2>4. CASE clear_irq BY <2>2, <2>4 DEF clear_irq
  <2> QED BY <2>1, <2>3, <2>4
<1>8. CASE UNCHANGED vars
  BY <1>8 DEF vars
<1> QED
  BY <1>1, <1>2, <1>3, <1>4, <1>5, <1>6, <1>7, <1>8 DEF Next, Isr

(* IRQ 4 never stays high unnoticed (handle_serial, write_to_serial),      *)
(* however the guest reprograms the port.                                  *)
THEOREM LineNeverStuck == Spec => []LineNotStuck
<1>1. Init => LineInv
  BY DEF Init, LineInv, LineNotStuck
<1>2. LineInv /\ [Next]_vars => LineInv'
  BY LineStep
<1>3. LineInv => LineNotStuck
  BY DEF LineInv
<1> QED BY <1>1, <1>2, <1>3, PTL DEF Spec

-----------------------------------------------------------------------------
(* A transmit interrupt that is owed stays in IIR, or behind a receive one *)
(* that gives way to it.                                                   *)
LEMMA TxStep ==
  ASSUME TxInv, [Next]_vars
  PROVE  TxInv'
<1> USE DEF TxInv, regs, guestVars
<1>1. CASE Keyboard
  <2>1. UNCHANGED <<ier, txOwed, steady>> /\ iir' \in {iir, "rx"}
    BY <1>1 DEF Keyboard, Key, Store, RaiseRx, WaitEmpty, Timeout, PollTimeout,
                Killed, vars
  <2> QED BY <2>1
<1>2. CASE IsrEnter \/ IsrLSR \/ IsrRBR
  BY <1>2 DEF IsrEnter, IsrLSR, IsrRBR, ReadRBR, GuestGoto
<1>3. CASE IsrIIR
  BY <1>3 DEF IsrIIR, GuestGoto, ReadIIR, TxNext, Acknowledge
<1>4. CASE IsrTx
  <2>1. CASE "tx" \in ier /\ Send
    BY <1>4, <2>1 DEF IsrTx, GuestGoto, Send, WriteTHR
  <2>2. CASE txOwed' = FALSE
    BY <1>4, <2>2 DEF IsrTx, GuestGoto
  <2>3. CASE UNCHANGED <<regs, irqVars, sent, txOwed>>
    BY <1>4, <2>3 DEF IsrTx, GuestGoto
  <2> QED BY <1>4, <2>1, <2>2, <2>3 DEF IsrTx
<1>5. CASE StartTx
  BY <1>5 DEF StartTx, GuestGoto, WriteIER
<1>6. CASE FirstByte
  BY <1>6 DEF FirstByte, GuestGoto, Send, WriteTHR
<1>7. CASE Reprogram
  BY <1>7 DEF Reprogram
<1>8. CASE UNCHANGED vars
  BY <1>8 DEF vars
<1> QED
  BY <1>1, <1>2, <1>3, <1>4, <1>5, <1>6, <1>7, <1>8 DEF Next, Isr

(* The interrupt for a byte sent with the transmit interrupt enabled is    *)
(* not lost when a received character takes its place in IIR.              *)
THEOREM TxInterruptKept == Spec => []TxNotLost
<1>1. Init => TxInv
  BY DEF Init, TxInv
<1>2. TxInv /\ [Next]_vars => TxInv'
  BY TxStep
<1>3. TxInv => TxNotLost
  BY DEF TxInv, TxNotLost
<1> QED BY <1>1, <1>2, <1>3, PTL DEF Spec

-----------------------------------------------------------------------------
(* What is left of one or two characters after the first. *)
LEMMA OneOrTwo ==
  ASSUME NEW s \in Seq(Keys), Len(s) > 0, Len(s) <= 2
  PROVE  /\ Head(s) = s[1] /\ Head(s) \in Keys /\ Tail(s) \in Seq(Keys)
         /\ Len(s) = 1 \/ Len(s) = 2
         /\ Len(s) = 1 => Len(Tail(s)) = 0
         /\ Len(s) = 2 => Len(Tail(s)) = 1 /\ Tail(s)[1] = s[2]
<1>1. Len(s) \in Nat
  OBVIOUS
<1>2. \A n \in Nat : n > 0 /\ n <= 2 => n = 1 \/ n = 2
  OBVIOUS
<1>3. CASE Len(s) = 1
  BY <1>3
<1>4. CASE Len(s) = 2
  <2>1. s # <<>> /\ 1 \in 1..(Len(s) - 1)
    BY <1>4
  <2> QED BY <1>4, <2>1, HeadTailProperties
<1> QED BY <1>1, <1>2, <1>3, <1>4

(* The keyboard thread is in write_to_serial exactly while it has one or   *)
(* two characters to pass on.                                              *)
LEMMA TodoStep ==
  ASSUME TodoInv, [Next]_vars
  PROVE  TodoInv'
<1> USE SerialAssumption DEF TodoInv
<1>1. ASSUME NEW k \in Keys, Key(k) PROVE TodoInv'
  BY <1>1 DEF Key, Escaped
<1>2. CASE kpc \in {"write", "wait"} /\ WriteDone
  <2>1. todo \in Seq(Keys) /\ Len(todo) > 0 /\ Len(todo) <= 2
    BY <1>2
  <2>2. CASE Len(todo) = 1
    <3>1. todo' \in Seq(Keys) /\ Len(todo') = 0
      BY <1>2, <2>1, <2>2, OneOrTwo DEF WriteDone
    <3>2. kpc' = "poll"
      BY <1>2, <2>2 DEF WriteDone
    <3> QED BY <3>1, <3>2
  <2>3. CASE Len(todo) = 2
    <3>0. Tail(todo) \in Seq(Keys) /\ Len(Tail(todo)) = 1
      BY <2>1, <2>3, OneOrTwo
    <3>1. todo' \in Seq(Keys) /\ Len(todo') = 1
      BY <1>2, <3>0 DEF WriteDone
    <3>2. kpc' = "write"
      BY <1>2, <2>3 DEF WriteDone
    <3> QED BY <3>1, <3>2
  <2> QED BY <2>1, <2>2, <2>3, OneOrTwo
<1>3. CASE WaitEmpty
  BY <1>3 DEF WaitEmpty
<1>4. CASE UNCHANGED <<kpc, todo>>
  BY <1>4
<1>5. CASE Keyboard
  BY <1>1, <1>2, <1>3, <1>4, <1>5
     DEF Keyboard, Store, Timeout, PollTimeout, Killed, vars, kbdVars
<1>6. CASE Isr \/ StartTx \/ FirstByte \/ Reprogram \/ UNCHANGED vars
  BY <1>4, <1>6
     DEF Isr, IsrEnter, IsrIIR, IsrLSR, IsrRBR, IsrTx, StartTx, FirstByte,
         Reprogram, vars, kbdVars
<1> QED BY <1>5, <1>6 DEF Next

(* No character is overwritten in RBR, and none is read twice. *)
LEMMA RbrStep ==
  ASSUME RbrInv, [Next]_vars
  PROVE  RbrInv'
<1>0. TodoInv'
  BY TodoStep DEF RbrInv
<1> USE DEF RbrInv, ReadInOrder, Chars, regs, guestVars
<1>1. CASE Store
  <2>1. Head(todo) \in Keys
    BY <1>1 DEF Store, TodoInv
  <2> QED BY <1>0, <1>1, <2>1 DEF Store, is_rx_empty
<1>2. CASE Keyboard /\ ~Store
  BY <1>0, <1>2 DEF Keyboard, Key, WaitEmpty, Timeout, PollTimeout, Killed,
                    vars, kbdVars
<1>3. CASE IsrRBR
  <2>1. /\ dr /\ dr' = FALSE /\ gpc' = "lsr"
        /\ got' = IF steady THEN Append(got, rbr) ELSE got
    BY <1>3 DEF IsrRBR, GuestGoto, ReadRBR
  <2>2. UNCHANGED <<rbr, stored, steady>>
    BY <1>3 DEF IsrRBR, GuestGoto, ReadRBR, kbdVars
  <2>3. got' \in Seq(Chars)
    BY <2>1
  <2>4. ReadInOrder'
    BY <2>1, <2>2
  <2> QED BY <1>0, <2>1, <2>2, <2>3, <2>4
<1>4. CASE IsrLSR
  BY <1>0, <1>4 DEF IsrLSR, GuestGoto, kbdVars
<1>5. CASE IsrEnter \/ IsrIIR \/ IsrTx \/ StartTx \/ FirstByte
  BY <1>0, <1>5 DEF IsrEnter, IsrIIR, IsrTx, StartTx, FirstByte, GuestGoto,
                    ReadIIR, Send, WriteTHR, WriteIER, kbdVars
<1>6. CASE Reprogram
  BY <1>0, <1>6 DEF Reprogram, WriteDLL, WriteDLM, WriteLCR, WriteLSR, WriteFCR,
                    WriteIER, ReadIIR, ReadRBR, kbdVars
<1>7. CASE UNCHANGED vars
  BY <1>0, <1>7 DEF vars, kbdVars
<1> QED
  BY <1>1, <1>2, <1>3, <1>4, <1>5, <1>6, <1>7 DEF Next, Isr

(* The guest reads exactly what write_to_serial stored, in order and once, *)
(* until it reprograms the port.                                           *)
THEOREM CharactersInOrder == Spec => []ReadInOrder
<1>1. Init => RbrInv
  <2> HAVE Init
  <2>1. TodoInv
    BY DEF Init, TodoInv
  <2>2. rbr \in Chars /\ got \in Seq(Chars) /\ stored \in Seq(Chars)
    BY DEF Init, Chars
  <2> QED BY <2>1, <2>2 DEF Init, RbrInv, ReadInOrder
<1>2. RbrInv /\ [Next]_vars => RbrInv'
  BY RbrStep
<1>3. RbrInv => ReadInOrder
  BY DEF RbrInv
<1> QED BY <1>1, <1>2, <1>3, PTL DEF Spec

-----------------------------------------------------------------------------
(* No key is lost or repeated between stdin and write_to_serial. *)
LEMMA KeysStep ==
  ASSUME KeysInv, [Next]_vars
  PROVE  KeysInv'
<1>0. TodoInv'
  BY TodoStep DEF KeysInv
<1> USE SerialAssumption DEF KeysInv, KeysKept, HandedSoon, Note, TodoInv
<1>1. ASSUME NEW k \in Keys, Key(k) PROVE KeysInv'
  BY <1>0, <1>1 DEF Key, Escaped
<1>2. CASE kpc \in {"write", "wait"} /\ WriteDone
  <2>1. todo \in Seq(Keys) /\ Len(todo) > 0 /\ Len(todo) <= 2
    BY <1>2
  <2>2. /\ typed' = typed /\ kpc' # "killed" /\ todo' = Tail(todo)
        /\ handed' = Note(handed, todo[1]) /\ handed' \in Seq(Keys)
    BY <1>2, <2>1, OneOrTwo DEF WriteDone
  <2>3. typed = HandedSoon
    BY <1>2
  <2>4. CASE Len(todo) = 1
    <3>1. Len(todo') = 0
      BY <2>1, <2>2, <2>4, OneOrTwo
    <3>2. typed = Note(handed, todo[1])
      BY <2>3, <2>4
    <3>3. HandedSoon' = handed'
      BY <3>1
    <3> QED BY <1>0, <2>2, <3>2, <3>3
  <2>5. CASE Len(todo) = 2
    <3>0. Len(Tail(todo)) = 1 /\ Tail(todo)[1] = todo[2]
      BY <2>1, <2>5, OneOrTwo
    <3>1. Len(todo') = 1 /\ todo'[1] = todo[2]
      BY <2>2, <3>0
    <3>2. typed = Note(Note(handed, todo[1]), todo[2])
      BY <2>3, <2>5
    <3>3. HandedSoon' = Note(handed', todo'[1])
      BY <3>1
    <3>4. KeysKept'
      BY <2>2, <3>1, <3>2, <3>3
    <3> QED BY <1>0, <2>2, <3>4
  <2> QED BY <2>1, <2>4, <2>5, OneOrTwo
<1>3. CASE WaitEmpty
  BY <1>0, <1>3 DEF WaitEmpty
<1>4. CASE UNCHANGED kbdVars
  BY <1>0, <1>4 DEF kbdVars
<1>5. CASE Keyboard
  BY <1>1, <1>2, <1>3, <1>4, <1>5
     DEF Keyboard, Store, Timeout, PollTimeout, Killed, vars
<1>6. CASE Isr \/ StartTx \/ FirstByte \/ Reprogram \/ UNCHANGED vars
  BY <1>4, <1>6
     DEF Isr, IsrEnter, IsrIIR, IsrLSR, IsrRBR, IsrTx, StartTx, FirstByte,
         Reprogram, vars
<1> QED BY <1>5, <1>6 DEF Next

(* Apart from Ctrl-A itself, every key keyboard_thread_func reads is       *)
(* passed to write_to_serial once and in order.                            *)
THEOREM EscapeCostsNoInput == Spec => []KeysKept
<1>1. Init => KeysInv
  BY DEF Init, KeysInv, TodoInv, KeysKept, HandedSoon
<1>2. KeysInv /\ [Next]_vars => KeysInv'
  BY KeysStep
<1>3. KeysInv => KeysKept
  BY DEF KeysInv
<1> QED BY <1>1, <1>2, <1>3, PTL DEF Spec
=============================================================================

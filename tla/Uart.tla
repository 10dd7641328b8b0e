-------------------------------- MODULE Uart --------------------------------
(***************************************************************************)
(* Output through kernel/uart.c: writers of the console fill a ring that   *)
(* uartstart() empties, from uartputc() and from the interrupt handler,    *)
(* while printf() and echoed input write to the same device register       *)
(* without uart_tx_lock.  Each access to a device register is a step.      *)
(*                                                                         *)
(* A character is the writer it came from, or "sync".                      *)
(***************************************************************************)
EXTENDS Integers, Sequences, FiniteSets

CONSTANTS
  Writers,
  UART_TX_BUF_SIZE

IDX == 2 * UART_TX_BUF_SIZE  \* where the model's indices wrap
Actors == Writers \cup {"intr", "printf"}

VARIABLES
  buf, r, w,   \* uart_tx_buf, uart_tx_r and uart_tx_w
  txlock,      \* who holds uart_tx_lock
  at,          \* where each actor is
  c,           \* the local variable c of uartstart()
  fifo,        \* the device's transmit FIFO
  thre,        \* the device's "transmitter empty" interrupt is pending
  rx,          \* a character has been received
  echo,        \* how many characters the handler has yet to echo
  owed         \* what writers have put and the device has not sent, in order

vars == <<buf, r, w, txlock, at, c, fifo, thre, rx, echo, owed>>

Init ==
  /\ buf = [k \in 0..(UART_TX_BUF_SIZE - 1) |-> "none"]
  /\ r = 0 /\ w = 0
  /\ txlock = "none"
  /\ at = [a \in Actors |-> "idle"]
  /\ c = "none"
  /\ fifo = <<>>
  /\ thre = FALSE
  /\ rx = FALSE
  /\ echo = 0
  /\ owed = <<>>

Full_OneMore == w = (r + UART_TX_BUF_SIZE + 1) % IDX

Full == w = (r + UART_TX_BUF_SIZE) % IDX

Go(a, where) == at' = [at EXCEPT ![a] = where]

-----------------------------------------------------------------------------
(* uart.c *)

\* uartputc(a), called by consolewrite(), up to uartstart() or its sleep().
uartputc(a) ==
  /\ at[a] \in {"idle", "woken"} /\ txlock = "none"
  /\ IF Full
     THEN Go(a, "asleep") /\ UNCHANGED <<buf, w, txlock, owed>>
     ELSE /\ buf' = [buf EXCEPT ![w % UART_TX_BUF_SIZE] = a]
          /\ w' = (w + 1) % IDX
          /\ owed' = Append(owed, a)
          /\ txlock' = a
          /\ Go(a, "start")
  /\ UNCHANGED <<r, c, fifo, thre, rx, echo>>

TxIdle == fifo = <<>>

\* Reading ISR clears the transmitter's interrupt unless input comes first.
ISRRead == thre /\ rx

Woken_None(places) == places

Woken(places) == [a \in Actors |-> IF places[a] = "asleep" THEN "woken" ELSE places[a]]

\* The tests of uartstart(), which returns, or takes the next character.
uartstart(a) ==
  /\ at[a] = "start"
  /\ IF w = r \/ ~TxIdle
     THEN /\ thre' = IF w = r THEN ISRRead ELSE thre
          /\ txlock' = "none"
          /\ Go(a, "idle")
          /\ UNCHANGED <<r, c>>
     ELSE /\ c' = buf[r % UART_TX_BUF_SIZE]
          /\ r' = (r + 1) % IDX
          /\ at' = Woken([at EXCEPT ![a] = "write"])
          /\ UNCHANGED <<thre, txlock>>
  /\ UNCHANGED <<buf, w, fifo, rx, echo, owed>>

\* WriteReg(THR, c)
WriteTHR(ch) == fifo' = Append(fifo, ch) /\ thre' = FALSE

uartstart_write(a) ==
  /\ at[a] = "write"
  /\ WriteTHR(c)
  /\ c' = "none"
  /\ Go(a, "start")
  /\ UNCHANGED <<buf, r, w, txlock, rx, echo, owed>>

\* uartputc_sync(): printf() calls it, and consputc() for the handler's echo.
uartputc_sync(a) ==
  /\ \/ a = "printf" /\ at[a] = "idle"
     \/ a = "intr" /\ at[a] = "getc" /\ echo > 0
  /\ TxIdle
  /\ Go(a, "sync")
  /\ UNCHANGED <<buf, r, w, txlock, c, fifo, thre, rx, echo, owed>>

uartputc_sync_write(a) ==
  /\ at[a] = "sync"
  /\ WriteTHR("sync")
  /\ Go(a, IF a = "printf" THEN "idle" ELSE "getc")
  /\ echo' = IF a = "printf" THEN echo ELSE echo - 1
  /\ UNCHANGED <<buf, r, w, txlock, c, rx, owed>>

-----------------------------------------------------------------------------
(* uartintr(), from devintr() after plic_claim(); one claim at a time *)

plic_claim ==
  /\ at["intr"] = "idle"
  /\ rx \/ thre
  /\ Go("intr", "getc")
  /\ UNCHANGED <<buf, r, w, txlock, c, fifo, thre, rx, echo, owed>>

\* consoleintr() echoes a character stored, three for one erased, or nothing.
uartgetc ==
  /\ at["intr"] = "getc" /\ echo = 0 /\ rx
  /\ rx' = FALSE
  /\ echo' \in {0, 1, 3}
  /\ UNCHANGED <<buf, r, w, txlock, at, c, fifo, thre, owed>>

uartintr ==
  /\ at["intr"] = "getc" /\ echo = 0 /\ ~rx
  /\ txlock = "none"
  /\ txlock' = "intr"
  /\ Go("intr", "start")
  /\ UNCHANGED <<buf, r, w, c, fifo, thre, rx, echo, owed>>

-----------------------------------------------------------------------------
(* The device *)

dev_send ==
  /\ fifo # <<>>
  /\ fifo' = Tail(fifo)
  /\ thre' = (thre \/ Len(fifo) = 1)
  /\ owed' = IF Head(fifo) = "sync" THEN owed ELSE Tail(owed)
  /\ UNCHANGED <<buf, r, w, txlock, at, c, rx, echo>>

dev_receive ==
  /\ ~rx
  /\ rx' = TRUE
  /\ UNCHANGED <<buf, r, w, txlock, at, c, fifo, thre, echo, owed>>

-----------------------------------------------------------------------------

Next ==
  \/ \E a \in Writers : uartputc(a)
  \/ \E a \in Actors : uartstart(a) \/ uartstart_write(a) \/ uartputc_sync(a) \/ uartputc_sync_write(a)
  \/ plic_claim \/ uartgetc \/ uartintr
  \/ dev_send \/ dev_receive

Spec == Init /\ [][Next]_vars

-----------------------------------------------------------------------------
(* Properties *)

FromWriter(ch) == ch # "sync"
InRing == [k \in 1..((w - r) % IDX) |-> buf[(r + k - 1) % UART_TX_BUF_SIZE]]

\* What writers put is sent once and in order, whoever empties the ring and
\* whatever printf() and the echo write in between: the FIFO, the character on
\* its way to it and the ring hold exactly what is owed.
OutputInOrder ==
  owed = SelectSeq(fifo, FromWriter) \o (IF c = "none" THEN <<>> ELSE <<c>>) \o InRing

\* Output does not get stuck.  While characters wait in the ring, the device is
\* sending or has an interrupt to deliver, or somebody is on the way to
\* uartstart() or to the device: uartstart() never returns with nothing left to
\* call it again.  And nobody sleeps for room in the ring while there is some.
OutputNotStuck ==
  /\ w # r => \/ fifo # <<>> \/ thre
              \/ \E a \in Actors : at[a] \in {"start", "write", "getc", "sync"}
  /\ (\E a \in Writers : at[a] = "asleep") => Full
=============================================================================

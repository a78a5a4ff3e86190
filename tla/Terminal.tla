------------------------------ MODULE Terminal ------------------------------
(***************************************************************************)
(* kernel/console.c and kernel/uart.c: line editing in a ring buffer, a    *)
(* process that reads, a process that writes, and the uart's interrupt     *)
(* handler, which also echoes.  A step is what runs under one lock; where  *)
(* a lock is kept over a step the variables say so.                        *)
(***************************************************************************)
EXTENDS Integers, Sequences, FiniteSetsExt

CONSTANTS INPUT_BUF_SIZE, Plain,
          IWRAP       \* the 32-bit indices r, w and e wrap here

ASSUME TerminalSizes == INPUT_BUF_SIZE \in Nat \ {0} /\ IWRAP \in Nat
                        /\ IWRAP % INPUT_BUF_SIZE = 0 /\ IWRAP > INPUT_BUF_SIZE

Keys == Plain \cup {"nl", "D", "U", "H", "P"}

VARIABLES cons,       \* buf, r, w, e
          uart,       \* tx: characters still to send; irq: transmit interrupt; rx: keys
          tx_busy,
          uintr,      \* the handler: pc, the key it has read, echoes to do
          writer,     \* pc and characters left to write
          reader,     \* pc, n, how much it has, killed
          budget      \* keys that will be typed, reads and characters written

tvars == <<cons, uart, tx_busy, uintr, writer, reader, budget>>

\* An idle terminal, after start keys have been handed over and read.
TInit(keys, reads, writes, start) ==
  /\ cons = [buf |-> [i \in 0 .. INPUT_BUF_SIZE - 1 |-> "0"], r |-> start, w |-> start, e |-> start]
  /\ uart = [tx |-> 0, irq |-> FALSE, rx |-> <<>>] /\ tx_busy = FALSE
  /\ uintr = [pc |-> "off", c |-> "0", echo |-> 0]
  /\ writer = [pc |-> "idle", left |-> 0]
  /\ reader = [pc |-> "idle", n |-> 0, got |-> 0, killed |-> FALSE]
  /\ budget = [keys |-> keys, reads |-> reads, writes |-> writes]

\* Unsigned differences and the characters between two indices.
Dist(a, b) == (b - a) % IWRAP
Chars(a, b) == [k \in 1 .. Dist(a, b) |-> cons.buf[((a + k - 1) % IWRAP) % INPUT_BUF_SIZE]]
-----------------------------------------------------------------------------
(* The uart and the person at it *)

type(c) ==
  /\ budget.keys > 0 /\ Len(uart.rx) < 1
  /\ uart' = [uart EXCEPT !.rx = Append(@, c)]
  /\ budget' = [budget EXCEPT !.keys = @ - 1]
  /\ UNCHANGED <<cons, tx_busy, uintr, writer, reader>>

\* The interrupt comes when the last character has gone.
transmit ==
  /\ uart.tx > 0
  /\ uart' = [uart EXCEPT !.tx = @ - 1, !.irq = uart.tx = 1]
  /\ UNCHANGED <<cons, tx_busy, uintr, writer, reader, budget>>

\* Writing THR takes back a transmit interrupt.
THR(u) == [u EXCEPT !.tx = @ + 1, !.irq = FALSE]
-----------------------------------------------------------------------------
(* uartwrite, with consolewrite's buffer of n characters *)

\* The characters come in chunks, each through either_copyin, which may fail:
\* those before it are written.  Between two chunks tx_lock is free, as it is
\* between two steps here.
consolewrite ==
  /\ writer.pc = "idle" /\ budget.writes > 0
  /\ \E n \in 0 .. budget.writes :
       writer' = [pc |-> IF n = 0 THEN "idle" ELSE "loop", left |-> n]
  /\ budget' = [budget EXCEPT !.writes = 0]
  /\ UNCHANGED <<cons, uart, tx_busy, uintr, reader>>

\* With tx_lock: sleep while tx_busy, else the next character to THR.
uartwrite ==
  /\ writer.pc = "loop"
  /\ IF tx_busy THEN writer' = [writer EXCEPT !.pc = "sleeping"] /\ UNCHANGED uart
     ELSE writer' = [writer EXCEPT !.pc = "sent"] /\ uart' = THR(uart)
  /\ UNCHANGED <<cons, tx_busy, uintr, reader, budget>>

\* tx_busy = 1, tx_lock still held.
uartwrite2 ==
  /\ writer.pc = "sent"
  /\ tx_busy' = TRUE
  /\ writer' = [pc |-> IF writer.left = 1 THEN "idle" ELSE "loop", left |-> writer.left - 1]
  /\ UNCHANGED <<cons, uart, uintr, reader, budget>>
-----------------------------------------------------------------------------
(* uartintr and consoleintr *)

uclaim ==             \* plic_claim, and the read of ISR
  /\ uintr.pc = "off" /\ (uart.irq \/ uart.rx # <<>>)
  /\ uintr' = [uintr EXCEPT !.pc = "tx"]
  /\ uart' = [uart EXCEPT !.irq = FALSE]
  /\ UNCHANGED <<cons, tx_busy, writer, reader, budget>>

\* Mutant: uartintr does not wait for tx_lock.
TxLockedNever == FALSE
TxLocked == writer.pc = "sent"

uartintr ==
  /\ uintr.pc = "tx" /\ ~TxLocked
  /\ tx_busy' = (tx_busy /\ uart.tx > 0)
  /\ writer' = IF uart.tx = 0 /\ writer.pc = "sleeping" THEN [writer EXCEPT !.pc = "loop"] ELSE writer
  /\ uintr' = [uintr EXCEPT !.pc = "rx"]
  /\ UNCHANGED <<cons, uart, reader, budget>>

uartgetc ==           \* and plic_complete when there is nothing more
  /\ uintr.pc = "rx"
  /\ IF uart.rx = <<>> THEN uintr' = [uintr EXCEPT !.pc = "off", !.c = "0"] /\ UNCHANGED uart
     ELSE /\ uintr' = [uintr EXCEPT !.pc = "cons", !.c = Head(uart.rx)]
          /\ uart' = [uart EXCEPT !.rx = Tail(@)]
  /\ UNCHANGED <<cons, tx_busy, writer, reader, budget>>

\* Mutant: one character more than there is room for.
RoomLate == Dist(cons.r, cons.e) <= INPUT_BUF_SIZE
Room == Dist(cons.r, cons.e) < INPUT_BUF_SIZE

\* The index after a line is killed: back to w, or to behind a newline.
KilledTo ==
  LET L == Chars(cons.w, cons.e)
      N == {k \in DOMAIN L : L[k] = "nl"}
  IN IF N = {} THEN cons.w ELSE (cons.w + Max(N)) % IWRAP

\* The switch of consoleintr, with cons.lock; the echo follows, three characters
\* for each that is erased.
consoleintr ==
  LET c == uintr.c
      e1 == (cons.e + 1) % IWRAP
      Echo(n) == uintr' = [uintr EXCEPT !.pc = "echo", !.echo = n]
  IN /\ uintr.pc = "cons"
     /\ CASE c = "P" -> Echo(0) /\ UNCHANGED <<cons, reader>>
          [] c = "U" -> /\ cons' = [cons EXCEPT !.e = KilledTo]
                        /\ Echo(3 * Dist(KilledTo, cons.e)) /\ UNCHANGED reader
          [] c = "H" -> /\ cons' = IF cons.e = cons.w THEN cons ELSE [cons EXCEPT !.e = (@ - 1) % IWRAP]
                        /\ Echo(IF cons.e = cons.w THEN 0 ELSE 3) /\ UNCHANGED reader
          [] c \notin {"P", "U", "H"} /\ ~Room -> Echo(0) /\ UNCHANGED <<cons, reader>>
          [] c \notin {"P", "U", "H"} /\ Room ->
               LET full == c \in {"nl", "D"} \/ Dist(cons.r, e1) = INPUT_BUF_SIZE
               IN /\ cons' = [cons EXCEPT !.buf[cons.e % INPUT_BUF_SIZE] = c, !.e = e1,
                                          !.w = IF full THEN e1 ELSE @]
                  /\ reader' = IF full /\ reader.pc = "sleeping" THEN [reader EXCEPT !.pc = "loop"] ELSE reader
                  /\ Echo(1)
     /\ UNCHANGED <<uart, tx_busy, writer, budget>>

\* uartputc_sync spins until the uart is idle; cons.lock is released at the end.
uartputc_sync ==
  /\ uintr.pc = "echo"
  /\ IF uintr.echo = 0 THEN uintr' = [uintr EXCEPT !.pc = "rx"] /\ UNCHANGED uart
     ELSE /\ uart.tx = 0 /\ uart' = THR(uart)
          /\ uintr' = [uintr EXCEPT !.echo = @ - 1]
  /\ UNCHANGED <<cons, tx_busy, writer, reader, budget>>
-----------------------------------------------------------------------------
(* consoleread *)

read(n) ==
  /\ reader.pc = "idle" /\ budget.reads > 0
  /\ reader' = [reader EXCEPT !.pc = "loop", !.n = n, !.got = 0]
  /\ budget' = [budget EXCEPT !.reads = @ - 1]
  /\ UNCHANGED <<cons, uart, tx_busy, uintr, writer>>

Consume(k) == cons' = [cons EXCEPT !.r = (@ + k) % IWRAP]
Returned == [reader EXCEPT !.pc = "idle", !.n = 0, !.got = 0]

\* The loop, with cons.lock, until it returns or sleeps.
consoleread ==
  LET L == Chars(cons.r, cons.w)
      E == {k \in DOMAIN L : k <= reader.n /\ L[k] \in {"nl", "D"}}
      k == Min(E)
      taken == IF Len(L) < reader.n THEN Len(L) ELSE reader.n
      saved == L[k] = "D" /\ reader.got + k > 1        \* ^D is kept for the next read
  IN /\ reader.pc = "loop" /\ uintr.pc # "echo"
     /\ IF L = <<>> /\ reader.killed THEN reader' = Returned /\ UNCHANGED cons
        ELSE IF E # {} THEN Consume(IF saved THEN k - 1 ELSE k) /\ reader' = Returned
        ELSE IF taken = reader.n THEN Consume(taken) /\ reader' = Returned
        ELSE /\ Consume(taken)
             /\ reader' = IF reader.killed THEN Returned      \* the buffer is empty now
                          ELSE [reader EXCEPT !.pc = "sleeping", !.n = @ - taken, !.got = @ + taken]
     /\ UNCHANGED <<uart, tx_busy, uintr, writer, budget>>

\* either_copyout fails: the character is taken from the buffer, and the read
\* returns what it had before.
copyoutFails ==
  LET L == Chars(cons.r, cons.w)
  IN /\ reader.pc = "loop" /\ uintr.pc # "echo"
     /\ \E k \in DOMAIN L :
          /\ k <= reader.n /\ L[k] # "D"
          /\ \A j \in 1 .. k - 1 : L[j] \notin {"nl", "D"}
          /\ Consume(k)
     /\ reader' = Returned
     /\ UNCHANGED <<uart, tx_busy, uintr, writer, budget>>

kill ==
  /\ reader.pc = "sleeping" /\ ~reader.killed
  /\ reader' = [reader EXCEPT !.killed = TRUE, !.pc = "loop"]
  /\ UNCHANGED <<cons, uart, tx_busy, uintr, writer, budget>>

Uart == transmit \/ uclaim \/ uartintr \/ uartgetc \/ consoleintr \/ uartputc_sync
Write == uartwrite \/ uartwrite2
User == (\E c \in Keys : type(c)) \/ consolewrite \/ (\E n \in {1, INPUT_BUF_SIZE + 1} : read(n)) \/ kill
-----------------------------------------------------------------------------
\* The ring between r and w is what readers get, between w and e the line that
\* is still edited.
Lines == INSTANCE LineDiscipline WITH SIZE <- INPUT_BUF_SIZE,
           ready <- Chars(cons.r, cons.w), line <- Chars(cons.w, cons.e)

\* The ring buffer with its three wrapping indices implements the line
\* discipline: no key is lost, doubled, reordered or read across the end of a
\* line, and what a reader may already have seen is never edited.  Keys that a
\* read takes and does not return (it was killed, or its buffer is bad) are read.
ImplementsLineDiscipline == Lines!Spec
-----------------------------------------------------------------------------
(* The inductive invariant *)

TTypes ==
  /\ cons \in [buf : [0 .. INPUT_BUF_SIZE - 1 -> Keys \cup {"0"}],
               r : 0 .. IWRAP - 1, w : 0 .. IWRAP - 1, e : 0 .. IWRAP - 1]
  /\ uart \in [tx : Int, irq : BOOLEAN, rx : Seq(Keys)]
  /\ uintr \in [pc : {"off", "tx", "rx", "cons", "echo"}, c : Keys \cup {"0"}, echo : Int]
  /\ uintr.pc = "cons" => uintr.c \in Keys
  /\ reader \in [pc : {"idle", "loop", "sleeping"}, n : Nat, got : Int, killed : BOOLEAN]

\* The indices are in order and never more than the buffer apart, and the
\* line that is still edited has no end in it.
EditOK ==
  /\ Dist(cons.r, cons.w) + Dist(cons.w, cons.e) <= INPUT_BUF_SIZE
  /\ LET L == Chars(cons.w, cons.e) IN \A k \in DOMAIN L : L[k] \notin {"nl", "D"}

TerminalInv == TTypes /\ EditOK
=============================================================================

------------------------------ MODULE Terminal ------------------------------
(***************************************************************************)
(* Keyboard, serial port and console: the interrupt queues of intq.c, the  *)
(* input buffer (input.c) that the keyboard (kbd.c) and the serial port    *)
(* (serial.c) fill, the serial port's transmit queue, and the console lock *)
(* of console.c.                                                           *)
(*                                                                         *)
(* Code with interrupts off is one step, up to where it blocks.  The       *)
(* console writes to the display too, which nothing here depends on.       *)
(***************************************************************************)
EXTENDS Integers, Sequences, FiniteSets

CONSTANTS Thread,
          INTQ_BUFSIZE,   \* 64
          Length,         \* of what is written in a call
          Received,       \* the bytes that come in on the serial line
          Key,            \* the keys that are pressed and released, among them
          Letter, ShiftKey, CtrlKey, AltKey, CAPS_LOCK,
          NULL,
          INTR            \* the byte a handler prints

ASSUME TerminalAssumption == INTQ_BUFSIZE \in Nat \ {0, 1} /\ Length \in Nat \ {0}

VARIABLES buffer, txq,          \* struct intq: the input buffer, the transmit queue
          ier,                  \* the interrupts the serial port is to raise
          rbr, thr,             \* the port's receive and transmit registers
          held, caps_lock,      \* of the keyboard: left_shift, right_ctrl, ... as a set, Caps Lock
          console,              \* holder of console_lock
          pc, at,               \* where a thread is, and the byte it writes next
          panic,
          input, output, last   \* history: bytes accepted and not read, bytes
                                \* written and not sent, a thread's last byte

keyboard == <<held, caps_lock>>
vars == <<buffer, txq, ier, rbr, thr, keyboard, console, pc, at, panic, input, output, last>>

(* A byte of the buffer that t writes, and of the message it exits with *)
Byte(t, what, i) == [thread |-> t, what |-> what, index |-> i]

----------------------------------------------------------------------------
(* Interrupt queues *)
intq_init == [buf |-> [i \in 0..INTQ_BUFSIZE - 1 |-> NULL], head |-> 0, tail |-> 0,
              lock |-> NULL, not_full |-> NULL, not_empty |-> NULL]
next(pos) == (pos + 1) % INTQ_BUFSIZE
intq_empty(q) == q.head = q.tail
NeverFull(q) == FALSE
intq_full(q) == next(q.head) = q.tail

(* The byte and the queue after intq_getc of a queue that is not empty, and *)
(* after intq_putc to one that is not full; the waiter is woken.            *)
Front(q) == q.buf[q.tail]
Taken(q) == [q EXCEPT !.buf[q.tail] = NULL, !.tail = next(@), !.not_full = NULL]
AddedQuietly(q, byte) == [q EXCEPT !.buf[q.head] = byte, !.head = next(@)]
Added(q, byte) == [q EXCEPT !.buf[q.head] = byte, !.head = next(@), !.not_empty = NULL]

(* write_ier, for the queues as they become *)
write_ier == ier' = [xmit |-> ~intq_empty(txq'), recv |-> ~intq_full(buffer')]

Init ==
  /\ buffer = intq_init /\ txq = intq_init
  /\ ier = [xmit |-> FALSE, recv |-> TRUE] /\ rbr = NULL /\ thr = NULL
  /\ held = {} /\ caps_lock = FALSE
  /\ console = NULL
  /\ pc = [t \in Thread |-> "user"] /\ at = [t \in Thread |-> NULL]
  /\ panic = "no"
  /\ input = <<>> /\ output = <<>> /\ last = NULL

----------------------------------------------------------------------------
(* Reading: sys_read of the keyboard calls input_getc, with no lock.       *)

(* One turn of the loop of intq_getc, with the queue q: take a byte, or    *)
(* wait with the lock of the queue, or wait for the lock.                  *)
GetTurn(t, q) ==
  IF ~intq_empty(q)
  THEN /\ buffer' = Taken(q) /\ UNCHANGED txq
       /\ input' = Tail(input)
       /\ write_ier
       /\ pc' = [pc EXCEPT ![t] = "user"]
  ELSE /\ IF q.lock = NULL
          THEN buffer' = [q EXCEPT !.lock = t, !.not_empty = t] /\ pc' = [pc EXCEPT ![t] = "wait for byte"]
          ELSE buffer' = q /\ pc' = [pc EXCEPT ![t] = "lock input"]
       /\ UNCHANGED <<txq, input, ier>>

input_getc(t) ==
  /\ pc[t] = "user"
  /\ GetTurn(t, buffer)
  /\ UNCHANGED <<rbr, thr, keyboard, console, at, panic, output, last>>

(* lock_acquire returns; wait asserts that the queue is still empty. *)
GetWaits(t) ==
  /\ pc[t] = "lock input" /\ buffer.lock = NULL
  /\ IF intq_empty(buffer)
     THEN /\ buffer' = [buffer EXCEPT !.lock = t, !.not_empty = t]
          /\ pc' = [pc EXCEPT ![t] = "wait for byte"]
          /\ UNCHANGED panic
     ELSE panic' = "input" /\ UNCHANGED <<buffer, pc>>
  /\ UNCHANGED <<txq, ier, rbr, thr, keyboard, console, at, input, output, last>>

(* The waiter was woken: it releases the lock and looks again. *)
GetWoken(t) ==
  /\ pc[t] = "wait for byte" /\ buffer.not_empty # t
  /\ GetTurn(t, [buffer EXCEPT !.lock = NULL])
  /\ UNCHANGED <<rbr, thr, keyboard, console, at, panic, output, last>>

----------------------------------------------------------------------------
(* Writing: putbuf holds the console lock for the whole buffer.            *)
Unlocked(t) == TRUE
acquire_console(t) == console \in {NULL, t}

putbuf(t) ==
  /\ pc[t] = "user" /\ acquire_console(t)
  /\ console' = t
  /\ pc' = [pc EXCEPT ![t] = "write"]
  /\ at' = [at EXCEPT ![t] = Byte(t, "buffer", 1)]
  /\ UNCHANGED <<buffer, txq, ier, rbr, thr, keyboard, panic, input, output, last>>

(* release_console after the last byte.  A process that exits had the lock *)
(* twice and has it still.                                                 *)
NextByte(t) ==
  IF at[t].index < Length
  THEN at' = [at EXCEPT ![t].index = @ + 1] /\ pc' = [pc EXCEPT ![t] = "write"] /\ UNCHANGED console
  ELSE /\ at' = [at EXCEPT ![t] = NULL]
       /\ IF at[t].what = "buffer" THEN console' = NULL /\ pc' = [pc EXCEPT ![t] = "user"]
          ELSE pc' = [pc EXCEPT ![t] = "dead"] /\ UNCHANGED console

(* One turn of the loop of intq_putc in serial_putc *)
PutTurn(t, q) ==
  IF ~intq_full(q)
  THEN /\ txq' = Added(q, at[t]) /\ UNCHANGED buffer
       /\ output' = Append(output, at[t]) /\ last' = at[t]
       /\ write_ier
       /\ NextByte(t)
  ELSE /\ IF q.lock = NULL
          THEN txq' = [q EXCEPT !.lock = t, !.not_full = t] /\ pc' = [pc EXCEPT ![t] = "wait for room"]
          ELSE txq' = q /\ pc' = [pc EXCEPT ![t] = "lock output"]
       /\ UNCHANGED <<buffer, output, last, ier, at, console>>

putchar_have_lock(t) ==
  /\ pc[t] = "write"
  /\ PutTurn(t, txq)
  /\ UNCHANGED <<rbr, thr, keyboard, panic, input>>

PutWaits(t) ==
  /\ pc[t] = "lock output" /\ txq.lock = NULL
  /\ IF intq_full(txq)
     THEN /\ txq' = [txq EXCEPT !.lock = t, !.not_full = t]
          /\ pc' = [pc EXCEPT ![t] = "wait for room"]
          /\ UNCHANGED panic
     ELSE panic' = "output" /\ UNCHANGED <<txq, pc>>
  /\ UNCHANGED <<buffer, ier, rbr, thr, keyboard, console, at, input, output, last>>

PutWoken(t) ==
  /\ pc[t] = "wait for room" /\ txq.not_full # t
  /\ PutTurn(t, [txq EXCEPT !.lock = NULL])
  /\ UNCHANGED <<rbr, thr, keyboard, panic, input>>

(* The buffer is in user memory: a page fault between two bytes may end    *)
(* the process, which prints its message with the console lock it has.     *)
Fault(t) ==
  /\ pc[t] = "write" /\ at[t].what = "buffer"
  /\ at' = [at EXCEPT ![t] = Byte(t, "message", 1)]
  /\ UNCHANGED <<buffer, txq, ier, rbr, thr, keyboard, console, pc, panic, input, output, last>>

----------------------------------------------------------------------------
(* serial_interrupt: receive while there is room, transmit while the port  *)
(* takes bytes, set the interrupts.  The port has one byte each way.       *)
Receives == rbr # NULL /\ ~intq_full(buffer)
TransmitsIfIdle == thr = NULL /\ ~intq_empty(txq) /\ rbr = NULL /\ ~intq_full(buffer)
Transmits == thr = NULL /\ ~intq_empty(txq)
serial_interrupt ==
  /\ (ier.recv /\ rbr # NULL) \/ (ier.xmit /\ thr = NULL)
  /\ IF Receives THEN buffer' = Added(buffer, rbr) /\ input' = Append(input, rbr) /\ rbr' = NULL
     ELSE UNCHANGED <<buffer, input, rbr>>
  /\ IF Transmits THEN txq' = Taken(txq) /\ thr' = Front(txq) ELSE UNCHANGED <<txq, thr>>
  /\ write_ier
  /\ UNCHANGED <<keyboard, console, pc, at, panic, output, last>>

(* The port sends a byte, or receives one. *)
Send ==
  /\ thr # NULL
  /\ thr' = NULL /\ output' = Tail(output)
  /\ UNCHANGED <<buffer, txq, ier, rbr, keyboard, console, pc, at, panic, input, last>>
Receive(b) ==
  /\ rbr = NULL
  /\ rbr' = b
  /\ UNCHANGED <<buffer, txq, ier, thr, keyboard, console, pc, at, panic, input, output, last>>

(* An interrupt handler prints: it takes no lock, and when the queue is    *)
(* full serial_putc makes room by waiting for the port to send, and giving *)
(* it the first byte of the queue.                                         *)
Polled == IF intq_full(txq) THEN Taken(txq) ELSE txq
HandlerPrints ==
  /\ \A i \in DOMAIN output : output[i] # INTR
  /\ txq' = Added(Polled, INTR)
  /\ IF intq_full(txq)
     THEN /\ thr' = Front(txq)
          /\ output' = Append(IF thr = NULL THEN output ELSE Tail(output), INTR)
     ELSE output' = Append(output, INTR) /\ UNCHANGED thr
  /\ UNCHANGED buffer /\ write_ier
  /\ UNCHANGED <<rbr, keyboard, console, pc, at, panic, input, last>>

----------------------------------------------------------------------------
(* keyboard_interrupt: a scan code is a key, pressed or released.  A letter *)
(* is lower case when Shift and Caps Lock agree; Ctrl overrides Shift.  The *)
(* keys that are no letters are those that Ctrl leaves alone (not [, ], \). *)
Down(keys) == held \cap keys # {}
Modifier == ShiftKey \cup CtrlKey \cup AltKey
Form(key) ==
  IF key \in Letter /\ Down(CtrlKey) THEN "ctrl"
  ELSE IF Down(ShiftKey) = (key \in Letter /\ caps_lock) THEN "lower" ELSE "upper"
Character(key) == [key |-> key, form |-> Form(key), alt |-> Down(AltKey)]
keyboard_interrupt(key, release) ==
  /\ held' = IF key \notin Modifier THEN held ELSE IF release THEN held \ {key} ELSE held \cup {key}
  /\ caps_lock' = IF key = CAPS_LOCK /\ ~release THEN ~caps_lock ELSE caps_lock
  /\ IF key \notin Modifier \cup {CAPS_LOCK} /\ ~release /\ ~intq_full(buffer)
     THEN /\ buffer' = Added(buffer, Character(key))
          /\ input' = Append(input, Character(key))
          /\ UNCHANGED txq /\ write_ier
     ELSE UNCHANGED <<buffer, txq, input, ier>>
  /\ UNCHANGED <<rbr, thr, console, pc, at, panic, output, last>>

ThreadStep(t) ==
  \/ input_getc(t) \/ GetWaits(t) \/ GetWoken(t)
  \/ putbuf(t) \/ putchar_have_lock(t) \/ PutWaits(t) \/ PutWoken(t) \/ Fault(t)

Next ==
  /\ panic = "no"
  /\ \/ \E t \in Thread : ThreadStep(t)
     \/ serial_interrupt \/ Send \/ HandlerPrints
     \/ \E b \in Received : Receive(b)
     \/ \E key \in Key, release \in BOOLEAN : keyboard_interrupt(key, release)
Spec == Init /\ [][Next]_vars

(* A thread that is ready runs, a byte given to the port is sent, and an   *)
(* interrupt that stays raised is served.                                  *)
Runs(t) == GetWaits(t) \/ GetWoken(t) \/ putchar_have_lock(t) \/ PutWaits(t) \/ PutWoken(t)
FairSpec ==
  /\ Spec
  /\ \A t \in Thread : WF_vars(panic = "no" /\ Runs(t))
  /\ WF_vars(panic = "no" /\ serial_interrupt) /\ WF_vars(panic = "no" /\ Send)

----------------------------------------------------------------------------
Writing == {"write", "lock output", "wait for room"}
ThreadByte == [thread : Thread, what : {"buffer", "message"}, index : 1..Length] \cup {INTR}
InputByte == Received \cup [key : Key, form : {"lower", "upper", "ctrl"}, alt : BOOLEAN]
Queue(S) == [buf : [0..INTQ_BUFSIZE - 1 -> S \cup {NULL}],
             head : 0..INTQ_BUFSIZE - 1, tail : 0..INTQ_BUFSIZE - 1,
             lock : Thread \cup {NULL}, not_full : Thread \cup {NULL}, not_empty : Thread \cup {NULL}]

(* The state is as the code's types allow: the queues' positions stay in    *)
(* the buffers of intq.h.                                                   *)
TypeOK ==
  /\ buffer \in Queue(InputByte) /\ txq \in Queue(ThreadByte)
  /\ ier \in [xmit : BOOLEAN, recv : BOOLEAN]
  /\ rbr \in Received \cup {NULL} /\ thr \in ThreadByte \cup {NULL}
  /\ held \subseteq Modifier /\ caps_lock \in BOOLEAN
  /\ console \in Thread \cup {NULL}
  /\ pc \in [Thread -> Writing \cup {"user", "lock input", "wait for byte", "dead"}]
  /\ at \in [Thread -> ThreadByte \cup {NULL}]
  /\ panic \in {"no", "input", "output"}

(* The bytes in a queue, first in first *)
Bytes(q) == [i \in 1..((q.head - q.tail) % INTQ_BUFSIZE) |-> q.buf[(q.tail + i - 1) % INTQ_BUFSIZE]]

(* intq.c, input.c: what input_getc will return is what the keyboard and    *)
(* the serial port delivered, each byte once and in the order it came,      *)
(* however the queue wraps around and however many threads read.            *)
InputInOrder == Bytes(buffer) = input

(* serial.c: what was written and has not been sent is in the transmit      *)
(* register and the transmit queue, in the order it was written, whether    *)
(* interrupts or a polling handler send it.                                 *)
OutputInOrder == (IF thr = NULL THEN <<>> ELSE <<thr>>) \o Bytes(txq) = output

(* Neither stream loses, repeats or reorders a byte: both of these.         *)
BytesInOrder == TypeOK /\ InputInOrder /\ OutputInOrder

(* console.c: "prevent simultaneous printf() calls from mixing their        *)
(* output": what one call writes is never broken by what another thread     *)
(* writes; only a handler, that takes no lock, may print inside it.  And    *)
(* since only the holder of the console puts bytes, "Only one thread may    *)
(* wait at once" (intq.h:27) holds of the transmit queue.                   *)
Follows(a, b) ==
  \/ a = NULL
  \/ a # NULL /\ b.thread = a.thread /\ b.what = a.what /\ b.index = a.index + 1
  \/ b.thread = a.thread /\ b.what = "message" /\ b.index = 1
  \/ a.index = Length /\ b.index = 1
OutputWhole ==
  /\ \A t \in Thread : at[t] # NULL => Follows(last, at[t])
  /\ panic # "output"

(* intq.c signal: a thread is never left waiting for a byte in a queue that *)
(* has one, nor for room in a queue that has some.                          *)
NoLostWakeup ==
  /\ buffer.not_empty # NULL => intq_empty(buffer)
  /\ txq.not_full # NULL => intq_full(txq)

(* serial.c write_ier: the port's interrupts always agree with the queues:  *)
(* transmit is enabled exactly while there are bytes to send, receive while *)
(* there is room for one; every path that changes a queue, the keyboard's   *)
(* and a reader's too, leads through write_ier.                             *)
PortInterrupts == ier = [xmit |-> ~intq_empty(txq), recv |-> ~intq_full(buffer)]

(* No thread waits for what is there, and no byte or room goes unnoticed:   *)
(* both of these.                                                           *)
QueuesServed == NoLostWakeup /\ PortInterrupts

(* putbuf returns: when no more buffers are written, no process that exits  *)
(* keeps the console and the kernel does not panic, every writer is done.   *)
Orphaned == \E t \in Thread : pc[t] = "dead"
WritersFinish ==
  <>[][\A t \in Thread : ~putbuf(t)]_vars
    => []<>(panic # "no" \/ Orphaned \/ \A t \in Thread : pc[t] \notin Writing)
=============================================================================

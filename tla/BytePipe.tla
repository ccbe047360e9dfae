------------------------------ MODULE BytePipe ------------------------------
(***************************************************************************)
(* What AsyncCircularBufferStream is for: a FIFO of at most Capacity bytes *)
(* whose ends can be closed.  Bytes are named by their place in the stream *)
(* (modulo Modulus, so that the model is finite).                          *)
(***************************************************************************)
EXTENDS Integers, Sequences

CONSTANTS Capacity, Modulus

VARIABLES
  content,        \* the bytes sent and not yet received, oldest first
  next,           \* the place of the next byte to be sent
  writerClosed,   \* no more bytes will be asked room for
  readerClosed    \* no more bytes will be asked for

pipeVars == <<content, next, writerClosed, readerClosed>>

PipeInit ==
  /\ content = <<>>
  /\ next = 0
  /\ writerClosed = FALSE /\ readerClosed = FALSE

Send(n) ==
  /\ Len(content) + n <= Capacity
  /\ content' = content \o [i \in 1..n |-> (next + i - 1) % Modulus]
  /\ next' = (next + n) % Modulus
  /\ UNCHANGED <<writerClosed, readerClosed>>

Receive(n) ==
  /\ n <= Len(content)
  /\ content' = SubSeq(content, n + 1, Len(content))
  /\ UNCHANGED <<next, writerClosed, readerClosed>>

Close ==
  /\ writerClosed' \in {writerClosed, TRUE}
  /\ readerClosed' \in {readerClosed, TRUE}
  /\ UNCHANGED <<content, next>>

PipeNext == (\E n \in 1..Capacity : Send(n) \/ Receive(n)) \/ Close

PipeSpec == PipeInit /\ [][PipeNext]_pipeVars
===========================================================================

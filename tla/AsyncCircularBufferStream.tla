--------------------- MODULE AsyncCircularBufferStream ---------------------
(***************************************************************************)
(* hittop::io::AsyncCircularBufferStream: a bounded pipe between a writer  *)
(* (async_prepare, fill the buffers, commit) and a reader (async_fetch,    *)
(* read the buffers, consume), either of whom may close it.                *)
(*                                                                         *)
(* Every member function runs one critical section and then, with the      *)
(* mutex released, calls the handlers the critical section decided to      *)
(* complete (with_mutex_locked).  A critical section is one step here; the *)
(* calls it leaves to make are a frame, a sequence of one or two calls     *)
(* that its thread makes in order.  Frames of different threads, and the   *)
(* operations that a handler itself makes, interleave freely.              *)
(***************************************************************************)
EXTENDS CircularBuffer

CONSTANTS
  PrepareOps,   \* identities of async_prepare calls under way at one time
  FetchOps,     \* identities of async_fetch calls under way at one time
  Minimums,     \* the values of minimum_size
  EagerClient,  \* whether clients commit and consume all they were given
  None          \* an empty std::function, or no value

Ops == PrepareOps \cup FetchOps

Errors == {"invalid_argument", "shut_down", "broken_pipe", "already_started",
           "eof"}

ASSUME StreamAssumption ==
  /\ PrepareOps \cap FetchOps = {}
  /\ None \notin Ops /\ None \notin Errors /\ None \notin Minimums
  /\ Minimums \subseteq Nat
  /\ EagerClient \in BOOLEAN

VARIABLES
  write_in_progress_, read_in_progress_,
  closed_for_read_, closed_for_write_,
  minimum_to_fetch_, minimum_to_prepare_,
  fetch_handler_, prepare_handler_,
  inflight,     \* the frames: calls decided on and not yet made
  asked,        \* asked[op]: minimum_size of a call not yet answered, or None
  write_grant,  \* buffers given to the writer and not yet committed, or <<>>
  read_grant,   \* buffers given to the reader and not yet consumed, or <<>>
  filled,       \* whether the writer has written into its buffers
  sent,         \* the number, modulo Modulus, of bytes committed
  received,     \* the number, modulo Modulus, of bytes consumed
  life          \* "alive", "closing" (the destructor runs) or "dead"

handlerVars == <<minimum_to_fetch_, minimum_to_prepare_,
                 fetch_handler_, prepare_handler_>>
flagVars == <<write_in_progress_, read_in_progress_,
              closed_for_read_, closed_for_write_>>
clientVars == <<write_grant, read_grant, filled, sent, received>>

vars == <<bufferVars, flagVars, handlerVars, inflight, asked, clientVars, life>>

\* A handler call to make: an answer to op with an error code or with buffers.
Fail(op, ec) == [op |-> op, ec |-> ec, buffers |-> <<>>]
Succeed(op, buffers) == [op |-> op, ec |-> "success", buffers |-> buffers]

\* with_mutex_locked: what the critical section returns is called after it.
Then(frame) ==
  inflight' = IF frame = <<>> THEN inflight ELSE inflight \cup {frame}

(***************************************************************************)
(* The bytes are told apart by their place in the stream.  The constructor *)
(* leaves the two minima indeterminate: None, which nothing may read.      *)
(***************************************************************************)
Init ==
  /\ BufferInit(Modulus)
  /\ write_in_progress_ = FALSE /\ read_in_progress_ = FALSE
  /\ closed_for_read_ = FALSE /\ closed_for_write_ = FALSE
  /\ minimum_to_fetch_ = None /\ minimum_to_prepare_ = None
  /\ fetch_handler_ = None /\ prepare_handler_ = None
  /\ inflight = {}
  /\ asked = [op \in Ops |-> None]
  /\ write_grant = <<>> /\ read_grant = <<>>
  /\ filled = FALSE
  /\ sent = 0 /\ received = 0
  /\ life = "alive"

---------------------------------------------------------------------------
(* The writer's side.                                                       *)

\* Wrong: a second writer is let in.
PrepareUnguarded(minimum_size) ==
  IF minimum_size > Capacity THEN "invalid_argument"
  ELSE IF closed_for_write_ THEN "shut_down"
  ELSE IF closed_for_read_ THEN "broken_pipe"
  ELSE None

\* Why async_prepare is refused, or None.
PrepareRefusal(minimum_size) ==
  IF minimum_size > Capacity THEN "invalid_argument"
  ELSE IF closed_for_write_ THEN "shut_down"
  ELSE IF closed_for_read_ THEN "broken_pipe"
  ELSE IF write_in_progress_ THEN "already_started"
  ELSE None

\* A new call: op is free to stand for it, and waits for its answer.
Ask(op, minimum_size) ==
  /\ life # "dead"
  /\ asked[op] = None
  /\ asked' = [asked EXCEPT ![op] = minimum_size]

PrepareRefused(op, minimum_size) ==
  /\ PrepareRefusal(minimum_size) # None
  /\ Then(<<Fail(op, PrepareRefusal(minimum_size))>>)
  /\ UNCHANGED <<write_in_progress_, minimum_to_prepare_, prepare_handler_>>

\* Wrong: waits although there is just enough room.
PreparePendsIfFull(op, minimum_size) ==
  /\ PrepareRefusal(minimum_size) = None
  /\ space <= minimum_size
  /\ write_in_progress_' = TRUE
  /\ minimum_to_prepare_' = minimum_size
  /\ prepare_handler_' = op
  /\ UNCHANGED inflight

PreparePends(op, minimum_size) ==
  /\ PrepareRefusal(minimum_size) = None
  /\ space < minimum_size
  /\ write_in_progress_' = TRUE
  /\ minimum_to_prepare_' = minimum_size
  /\ prepare_handler_' = op
  /\ UNCHANGED inflight

PrepareGranted(op, minimum_size) ==
  /\ PrepareRefusal(minimum_size) = None
  /\ space >= minimum_size
  /\ write_in_progress_' = TRUE
  /\ Then(<<Succeed(op, prepare)>>)
  /\ UNCHANGED <<minimum_to_prepare_, prepare_handler_>>

AsyncPrepare(op, minimum_size) ==
  /\ Ask(op, minimum_size)
  /\ \/ PrepareRefused(op, minimum_size)
     \/ PreparePends(op, minimum_size)
     \/ PrepareGranted(op, minimum_size)
  /\ UNCHANGED <<bufferVars, read_in_progress_, closed_for_read_,
                 closed_for_write_, minimum_to_fetch_, fetch_handler_,
                 clientVars, life>>

\* The writer puts the next bytes into its buffers, at any time before it
\* commits.
Fill ==
  /\ write_grant # <<>> /\ ~filled
  /\ filled' = TRUE
  /\ storage_' =
       [c \in Cells |->
          IF c \in CellsOf(write_grant)
          THEN HeadAdd(sent, CHOOSE i \in 0..(Total(write_grant) - 1) :
                               CellAt(write_grant, i) = c)
          ELSE storage_[c]]
  /\ UNCHANGED <<read_head_, write_head_, flagVars, handlerVars, inflight,
                 asked, write_grant, read_grant, sent, received, life>>

\* Wrong: exactly enough does not wake the reader.
ReaderServedIfMore ==
  /\ fetch_handler_ # None
  /\ HeadSub(write_head_', read_head_) > minimum_to_fetch_

\* After a commit, a waiting reader that now has enough is answered.
ReaderServed ==
  /\ fetch_handler_ # None
  /\ HeadSub(write_head_', read_head_) >= minimum_to_fetch_

Commit(byte_count) ==
  /\ life # "dead"
  /\ write_grant # <<>>
  /\ filled
  /\ byte_count <= Total(write_grant)
  /\ EagerClient => byte_count = Total(write_grant)
  /\ write_grant' = <<>>
  /\ filled' = FALSE
  /\ sent' = HeadAdd(sent, byte_count)
  /\ commit(byte_count)
  /\ write_in_progress_' = FALSE
  /\ IF ReaderServed
     THEN /\ Then(<<Succeed(fetch_handler_,
                            GetRange(Masked(read_head_),
                                     HeadSub(write_head_', read_head_)))>>)
          /\ fetch_handler_' = None
     ELSE UNCHANGED <<inflight, fetch_handler_>>
  /\ UNCHANGED <<read_in_progress_, closed_for_read_, closed_for_write_,
                 minimum_to_fetch_, minimum_to_prepare_, prepare_handler_,
                 asked, read_grant, received, life>>

\* The calls of the handlers in slots, in this order, with these errors.
Cancel(handler, ec) ==
  IF handler = None THEN <<>> ELSE <<Fail(handler, ec)>>

\* Wrong: the flags are cleared although a grant is out.
CloseClearsFlags ==
  /\ closed_for_write_' = TRUE
  /\ IF closed_for_write_
     THEN UNCHANGED <<inflight, fetch_handler_, prepare_handler_,
                      read_in_progress_, write_in_progress_>>
     ELSE /\ Then(Cancel(prepare_handler_, "shut_down")
                    \o Cancel(fetch_handler_, "eof"))
          /\ fetch_handler_' = None
          /\ prepare_handler_' = None
          /\ read_in_progress_' = FALSE
          /\ write_in_progress_' = FALSE
  /\ UNCHANGED <<bufferVars, closed_for_read_, minimum_to_fetch_,
                 minimum_to_prepare_, asked, clientVars>>

\* Wrong: only the reader is told.
CloseTellsReaderOnly ==
  /\ closed_for_write_' = TRUE
  /\ IF closed_for_write_
     THEN UNCHANGED <<inflight, fetch_handler_, read_in_progress_>>
     ELSE /\ Then(Cancel(fetch_handler_, "eof"))
          /\ fetch_handler_' = None
          /\ read_in_progress_' = (read_in_progress_ /\ fetch_handler_ = None)
  /\ UNCHANGED <<bufferVars, closed_for_read_, minimum_to_fetch_,
                 minimum_to_prepare_, prepare_handler_, write_in_progress_,
                 asked, clientVars>>

\* close_for_write: a waiting operation is over, its side may start another.
CloseForWriteSection ==
  /\ closed_for_write_' = TRUE
  /\ IF closed_for_write_
     THEN UNCHANGED <<inflight, fetch_handler_, prepare_handler_,
                      read_in_progress_, write_in_progress_>>
     ELSE /\ Then(Cancel(prepare_handler_, "shut_down")
                    \o Cancel(fetch_handler_, "eof"))
          /\ fetch_handler_' = None
          /\ prepare_handler_' = None
          /\ read_in_progress_' = (read_in_progress_ /\ fetch_handler_ = None)
          /\ write_in_progress_' =
               (write_in_progress_ /\ prepare_handler_ = None)
  /\ UNCHANGED <<bufferVars, closed_for_read_, minimum_to_fetch_,
                 minimum_to_prepare_, asked, clientVars>>

CloseForWrite ==
  /\ life # "dead"
  /\ CloseForWriteSection
  /\ UNCHANGED life

---------------------------------------------------------------------------
(* The reader's side.                                                       *)

\* Wrong: a second reader is let in.
FetchUnguarded(minimum_size) ==
  IF minimum_size > Capacity THEN "invalid_argument"
  ELSE IF closed_for_read_ THEN "shut_down"
  ELSE IF minimum_size > size /\ closed_for_write_ THEN "eof"
  ELSE None

\* Why async_fetch is refused, or None.
FetchRefusal(minimum_size) ==
  IF minimum_size > Capacity THEN "invalid_argument"
  ELSE IF closed_for_read_ THEN "shut_down"
  ELSE IF read_in_progress_ THEN "already_started"
  ELSE IF minimum_size > size /\ closed_for_write_ THEN "eof"
  ELSE None

FetchRefused(op, minimum_size) ==
  /\ FetchRefusal(minimum_size) # None
  /\ Then(<<Fail(op, FetchRefusal(minimum_size))>>)
  /\ UNCHANGED <<read_in_progress_, minimum_to_fetch_, fetch_handler_>>

FetchPends(op, minimum_size) ==
  /\ FetchRefusal(minimum_size) = None
  /\ minimum_size > size
  /\ read_in_progress_' = TRUE
  /\ minimum_to_fetch_' = minimum_size
  /\ fetch_handler_' = op
  /\ UNCHANGED inflight

FetchGranted(op, minimum_size) ==
  /\ FetchRefusal(minimum_size) = None
  /\ minimum_size <= size
  /\ read_in_progress_' = TRUE
  /\ Then(<<Succeed(op, data)>>)
  /\ UNCHANGED <<minimum_to_fetch_, fetch_handler_>>

AsyncFetch(op, minimum_size) ==
  /\ Ask(op, minimum_size)
  /\ \/ FetchRefused(op, minimum_size)
     \/ FetchPends(op, minimum_size)
     \/ FetchGranted(op, minimum_size)
  /\ UNCHANGED <<bufferVars, write_in_progress_, closed_for_read_,
                 closed_for_write_, minimum_to_prepare_, prepare_handler_,
                 clientVars, life>>

\* Wrong: exactly enough does not wake the writer.
WriterServedIfMore ==
  /\ prepare_handler_ # None
  /\ minimum_to_prepare_ < Capacity - HeadSub(write_head_, read_head_')

\* Wrong: nobody looks at the waiting writer.
WriterForgotten == FALSE

\* After a consume, a waiting writer that now has room is answered.
WriterServed ==
  /\ prepare_handler_ # None
  /\ minimum_to_prepare_ <= Capacity - HeadSub(write_head_, read_head_')

Consume(byte_count) ==
  /\ life # "dead"
  /\ read_grant # <<>>
  /\ byte_count <= Total(read_grant)
  /\ EagerClient => byte_count = Total(read_grant)
  /\ read_grant' = <<>>
  /\ received' = HeadAdd(received, byte_count)
  /\ consume(byte_count)
  /\ read_in_progress_' = FALSE
  /\ IF WriterServed
     THEN /\ Then(<<Succeed(prepare_handler_,
                            GetRange(Masked(write_head_),
                                     Capacity
                                       - HeadSub(write_head_, read_head_')))>>)
          /\ prepare_handler_' = None
     ELSE UNCHANGED <<inflight, prepare_handler_>>
  /\ UNCHANGED <<write_in_progress_, closed_for_read_, closed_for_write_,
                 minimum_to_fetch_, minimum_to_prepare_, fetch_handler_,
                 asked, write_grant, filled, sent, life>>

\* close_for_read: unlike close_for_write it leaves the progress flags alone.
CloseForReadSection ==
  /\ closed_for_read_' = TRUE
  /\ IF closed_for_read_
     THEN UNCHANGED <<inflight, fetch_handler_, prepare_handler_>>
     ELSE /\ Then(Cancel(fetch_handler_, "shut_down")
                    \o Cancel(prepare_handler_, "broken_pipe"))
          /\ fetch_handler_' = None
          /\ prepare_handler_' = None
  /\ UNCHANGED <<bufferVars, closed_for_write_, read_in_progress_,
                 write_in_progress_, minimum_to_fetch_, minimum_to_prepare_,
                 asked, clientVars>>

CloseForRead ==
  /\ life # "dead"
  /\ CloseForReadSection
  /\ UNCHANGED life

---------------------------------------------------------------------------

(***************************************************************************)
(* The destructor closes for read, makes the calls this leaves, and closes *)
(* for write.  Its caller has no other call on the stream under way, and   *)
(* no buffers in use; the handlers it calls may still use the stream.      *)
(***************************************************************************)
DestroyBegins ==
  /\ life = "alive"
  /\ inflight = {} /\ write_grant = <<>> /\ read_grant = <<>>
  /\ life' = "closing"
  /\ CloseForReadSection

DestroyEnds ==
  /\ life = "closing"
  /\ inflight = {} /\ write_grant = <<>> /\ read_grant = <<>>
  /\ life' = "dead"
  /\ CloseForWriteSection

\* A thread makes the next call of its frame: the handler is told, and holds
\* the buffers if the answer is a success.
RunHandler(frame) ==
  LET call == frame[1] IN
  /\ inflight' = (inflight \ {frame})
                   \cup (IF Len(frame) = 1 THEN {} ELSE {Tail(frame)})
  /\ asked' = [asked EXCEPT ![call.op] = None]
  /\ write_grant' = IF call.ec = "success" /\ call.op \in PrepareOps
                    THEN call.buffers ELSE write_grant
  /\ read_grant' = IF call.ec = "success" /\ call.op \in FetchOps
                   THEN call.buffers ELSE read_grant
  /\ UNCHANGED <<bufferVars, flagVars, handlerVars, filled, sent, received,
                 life>>

WriterStep ==
  \/ \E op \in PrepareOps, m \in Minimums : AsyncPrepare(op, m)
  \/ Fill
  \/ \E n \in 0..Capacity : Commit(n)
  \/ CloseForWrite

ReaderStep ==
  \/ \E op \in FetchOps, m \in Minimums : AsyncFetch(op, m)
  \/ \E n \in 0..Capacity : Consume(n)
  \/ CloseForRead

\* The thread whose next call answers op makes it.
Answer(op) ==
  \E frame \in inflight : frame[1].op = op /\ RunHandler(frame)

Terminated == life = "dead" /\ inflight = {} /\ UNCHANGED vars

Next ==
  \/ WriterStep \/ ReaderStep \/ (\E op \in Ops : Answer(op))
  \/ DestroyBegins \/ DestroyEnds \/ Terminated

Spec == Init /\ [][Next]_vars

(***************************************************************************)
(* A thread that has left its critical section goes on to make its calls.  *)
(* Nobody is obliged to call the stream.                                   *)
(***************************************************************************)
FairSpec == Spec /\ \A op \in Ops : WF_vars(Answer(op))

(***************************************************************************)
(* Besides, clients that give back their buffers and call again; they may  *)
(* still close the stream or destroy it at any time.                       *)
(***************************************************************************)
CooperativeSpec ==
  /\ FairSpec
  /\ \A op \in PrepareOps : WF_vars(\E m \in Minimums : AsyncPrepare(op, m))
  /\ \A op \in FetchOps : WF_vars(\E m \in Minimums : AsyncFetch(op, m))
  /\ WF_vars(Fill)
  /\ WF_vars(\E n \in 0..Capacity : Commit(n))
  /\ WF_vars(\E n \in 0..Capacity : Consume(n))

---------------------------------------------------------------------------

\* Every place where a call waits to be made: its frame and its turn in it.
Turns == {turn \in inflight \X (1..2) : turn[2] <= Len(turn[1])}
CallAt(turn) == turn[1][turn[2]]
CallsToMake == {CallAt(turn) : turn \in Turns}

\* The buffers a side has been given or is about to be given.
Granted(ops, held) ==
  {call.buffers : call \in {c \in CallsToMake : c.op \in ops
                                                /\ c.ec = "success"}}
    \cup (IF held = <<>> THEN {} ELSE {held})
WriterBuffers == Granted(PrepareOps, write_grant)
ReaderBuffers == Granted(FetchOps, read_grant)

Buffer == [at : Cells, len : 0..Capacity]
Call == [op : Ops, ec : Errors \cup {"success"}, buffers : Seq(Buffer)]

TypeOK ==
  /\ read_head_ \in Heads /\ write_head_ \in Heads
  /\ storage_ \in [Cells -> Heads \cup {Modulus}]
  /\ write_in_progress_ \in BOOLEAN /\ read_in_progress_ \in BOOLEAN
  /\ closed_for_read_ \in BOOLEAN /\ closed_for_write_ \in BOOLEAN
  /\ minimum_to_fetch_ \in Minimums \cup {None}
  /\ minimum_to_prepare_ \in Minimums \cup {None}
  /\ fetch_handler_ \in FetchOps \cup {None}
  /\ prepare_handler_ \in PrepareOps \cup {None}
  /\ inflight \subseteq Seq(Call)
  /\ asked \in [Ops -> Minimums \cup {None}]
  /\ write_grant \in Seq(Buffer) /\ read_grant \in Seq(Buffer)
  /\ filled \in BOOLEAN
  /\ sent \in Heads /\ received \in Heads
  /\ life \in {"alive", "closing", "dead"}

(***************************************************************************)
(* Every async_prepare and async_fetch is answered exactly once: until its *)
(* handler is called it is in one place, in its slot or in one frame of    *)
(* one thread, whatever commit, consume and the two closes race to do with *)
(* it.                                                                     *)
(***************************************************************************)
OneOwner ==
  \A op \in Ops :
    LET turns == {turn \in Turns : CallAt(turn).op = op}
        slotted == op \in {fetch_handler_, prepare_handler_}
    IN  IF asked[op] = None
        THEN turns = {} /\ ~slotted
        ELSE IF slotted THEN turns = {} ELSE \E turn \in turns : turns = {turn}

(***************************************************************************)
(* No lost wakeup: a reader waits only while there is too little data and  *)
(* nobody has closed the stream, a writer only while there is too little   *)
(* room (commit lines 98-105, consume lines 208-215, the closes).          *)
(***************************************************************************)
NoLostWakeup ==
  /\ fetch_handler_ # None =>
       size < minimum_to_fetch_ /\ ~closed_for_read_ /\ ~closed_for_write_
  /\ prepare_handler_ # None =>
       space < minimum_to_prepare_ /\ ~closed_for_read_ /\ ~closed_for_write_

(***************************************************************************)
(* Both sides wait for each other only if together they ask for more than  *)
(* Capacity + 1 bytes: minima that fit cannot deadlock the pipe.           *)
(***************************************************************************)
MutualWaitOnlyIfOversized ==
  fetch_handler_ # None /\ prepare_handler_ # None =>
    minimum_to_fetch_ + minimum_to_prepare_ >= Capacity + 2

(***************************************************************************)
(* The assertions of commit, consume, data and prepare (lines 94-95,       *)
(* 204-205; circular_buffer.h:30, 35, 46, 51) hold for clients that give   *)
(* back what they were given, also when the other side commits, consumes   *)
(* or closes in between.                                                   *)
(***************************************************************************)
AssertionsHold ==
  /\ size <= Capacity
  /\ \A b \in WriterBuffers : write_in_progress_ /\ Total(b) <= space
  /\ \A b \in ReaderBuffers : read_in_progress_ /\ Total(b) <= size

(***************************************************************************)
(* At most one writer and at most one reader have buffers at a time.       *)
(***************************************************************************)
OneGrantPerSide ==
  \A ops \in {PrepareOps, FetchOps} :
    LET held == IF ops = PrepareOps THEN write_grant ELSE read_grant
        turns == {turn \in Turns : CallAt(turn).op \in ops
                                   /\ CallAt(turn).ec = "success"}
    IN  turns = {} \/ (held = <<>> /\ \E turn \in turns : turns = {turn})

(***************************************************************************)
(* The writer fills and the reader reads without the mutex: the cells they *)
(* have been given never overlap, when they wrap around the end included.  *)
(***************************************************************************)
NoRaceOnStorage ==
  \A w \in WriterBuffers, r \in ReaderBuffers : CellsOf(w) \cap CellsOf(r) = {}

(***************************************************************************)
(* What a reader finds in its buffers, for as long as it has them, is the  *)
(* bytes that were committed, in order, from the first one not consumed.   *)
(***************************************************************************)
ReadsInOrder ==
  \A r \in ReaderBuffers :
    \A i \in 0..(Total(r) - 1) : storage_[CellAt(r, i)] = HeadAdd(received, i)

(***************************************************************************)
(* Under cooperative clients whose minima fit into Capacity + 1, everybody *)
(* who waits is answered: the two sides wake each other for ever.          *)
(***************************************************************************)
EveryCallAnswered ==
  \A op \in Ops : asked[op] # None ~> asked[op] = None

(***************************************************************************)
(* "Not enough data and closed for write; this operation can never         *)
(* succeed" (lines 182-183): while an answer of eof is on its way, there   *)
(* are fewer bytes than were asked for.                                    *)
(***************************************************************************)
EofIsFinal ==
  \A call \in CallsToMake : call.ec = "eof" => size < asked[call.op]

(***************************************************************************)
(* The stream implements the pipe: commit sends and consume receives.      *)
(***************************************************************************)
Pipe == INSTANCE BytePipe WITH
          content <- [i \in 1..size |->
                        storage_[Masked(HeadAdd(read_head_, i - 1))]],
          next <- sent,
          writerClosed <- closed_for_write_,
          readerClosed <- closed_for_read_

ImplementsPipe == Pipe!PipeSpec

---------------------------------------------------------------------------
(* The inductive invariant behind NoLostWakeup and AssertionsHold.          *)

\* Only a refusal or a cancellation shares its frame.
FramesWellFormed ==
  \A frame \in inflight :
    \/ Len(frame) = 1
    \/ Len(frame) = 2 /\ frame[1].ec # "success" /\ frame[2].ec # "success"

\* Answers with buffers that are on their way to the callers of ops.
Grants(ops) ==
  {frame \in inflight : frame[1].ec = "success" /\ frame[1].op \in ops}

\* One side of the stream, `room' being what there is for it: it waits, or an
\* answer is on its way, or it holds buffers, or it does nothing.
SideInv(ops, held, in_progress, handler, room) ==
  /\ handler # None => in_progress /\ held = <<>> /\ Grants(ops) = {}
  /\ held # <<>> => in_progress /\ Grants(ops) = {} /\ Total(held) <= room
  /\ \A frame \in Grants(ops) :
       in_progress /\ Total(frame[1].buffers) <= room
  /\ \A frame, other \in Grants(ops) : frame = other

WriterSide ==
  SideInv(PrepareOps, write_grant, write_in_progress_, prepare_handler_, space)
ReaderSide ==
  SideInv(FetchOps, read_grant, read_in_progress_, fetch_handler_, size)

\* A minimum has been stored before it is compared.
MinimaStored ==
  /\ prepare_handler_ # None => minimum_to_prepare_ # None
  /\ fetch_handler_ # None => minimum_to_fetch_ # None

IInv ==
  /\ TypeOK
  /\ size <= Capacity
  /\ FramesWellFormed
  /\ WriterSide
  /\ ReaderSide
  /\ MinimaStored
  /\ NoLostWakeup
===========================================================================

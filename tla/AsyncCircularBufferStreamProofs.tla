------------------ MODULE AsyncCircularBufferStreamProofs ------------------
(***************************************************************************)
(* Proofs for AsyncCircularBufferStream: its invariant IInv holds for      *)
(* every capacity, every set of clients and every set of minima, and with  *)
(* it the type invariant, the absence of lost wakeups and of mutual        *)
(* waiting, the assertions in the code, and that a side is never granted   *)
(* buffers twice.  BytesInv says where the bytes are: with it the two      *)
(* sides never touch the same cell, a reader finds the bytes in order, and *)
(* the stream implements BytePipe.  OneOwner is inductive together with    *)
(* IInv: every call is answered once.                                      *)
(***************************************************************************)
EXTENDS AsyncCircularBufferStream, SequenceTheorems, TLAPS

---------------------------------------------------------------------------
(* The circular buffer: heads that wrap, and ranges of one or two segments. *)

\* Adding to a head moves the wrapped difference by as much (CircularBuffer's
\* commit, consume and size), as long as it stays within the capacity.
LEMMA HeadArithmetic ==
  ASSUME NEW r \in Heads, NEW w \in Heads, NEW n \in 0..Capacity
  PROVE  /\ HeadAdd(w, n) \in Heads
         /\ HeadSub(w, r) \in Nat
         /\ HeadSub(w, r) + n <= Capacity =>
              HeadSub(HeadAdd(w, n), r) = HeadSub(w, r) + n
         /\ n <= HeadSub(w, r) =>
              HeadSub(w, HeadAdd(r, n)) = HeadSub(w, r) - n
  BY CapacityAssumption DEF Heads, HeadAdd, HeadSub

\* A masked head is the offset of a cell.
LEMMA MaskedInCells == ASSUME NEW h \in Heads PROVE Masked(h) \in Cells
  BY CapacityAssumption DEF Heads, Cells, Masked

\* GetRange covers as many cells as it is asked for, with one segment or two.
LEMMA RangeCovers ==
  ASSUME NEW offset \in Cells, NEW count \in 0..Capacity
  PROVE  /\ GetRange(offset, count) \in Seq(Buffer)
         /\ GetRange(offset, count) # <<>>
         /\ Total(GetRange(offset, count)) = count
<1>1. CASE offset + count <= Capacity
  BY <1>1, CapacityAssumption DEF GetRange, Total, Cells, Buffer
<1>2. CASE offset + count > Capacity
  <2> DEFINE first == [at |-> offset, len |-> Capacity - offset]
             rest  == [at |-> 0, len |-> offset + count - Capacity]
  <2>1. first \in Buffer /\ rest \in Buffer
    BY <1>2, CapacityAssumption DEF Cells, Buffer
  <2>2. GetRange(offset, count) = <<first, rest>>
    BY <1>2, CapacityAssumption DEF GetRange, Cells
  <2>3. first.len + rest.len = count
    BY CapacityAssumption DEF Cells
  <2> HIDE DEF first, rest
  <2>4. QED
    BY <2>1, <2>2, <2>3 DEF Total
<1>3. QED
  BY <1>1, <1>2, CapacityAssumption DEF Cells

---------------------------------------------------------------------------
(* Calls, frames and grants.                                                *)

\* A refusal is a call, and no success.
LEMMA FailIsCall ==
  ASSUME NEW op \in Ops, NEW ec \in Errors
  PROVE  <<Fail(op, ec)>> \in Seq(Call) /\ ec # "success"
  BY DEF Fail, Call, Errors

\* An answer with buffers is a call.
LEMMA SucceedIsCall ==
  ASSUME NEW op \in Ops, NEW buffers \in Seq(Buffer)
  PROVE  <<Succeed(op, buffers)>> \in Seq(Call)
  BY DEF Succeed, Call

\* The frame that a close leaves: up to two cancellations, in this order
\* (close_for_write, close_for_read).
LEMMA CancelFrames ==
  ASSUME NEW h \in Ops \cup {None}, NEW g \in Ops \cup {None},
         NEW e \in Errors, NEW d \in Errors
  PROVE  LET frame == Cancel(h, e) \o Cancel(g, d)
         IN  /\ frame \in Seq(Call)
             /\ \/ frame = <<>>
                \/ Len(frame) = 1 /\ frame[1].ec # "success"
                \/ /\ Len(frame) = 2
                   /\ frame[1].ec # "success" /\ frame[2].ec # "success"
<1>1. CASE h = None /\ g = None
  BY <1>1 DEF Cancel
<1>2. CASE h # None /\ g = None
  <2>1. Cancel(h, e) \o Cancel(g, d) = <<Fail(h, e)>>
    BY <1>2 DEF Cancel
  <2>2. QED
    BY <1>2, <2>1, FailIsCall DEF Fail
<1>3. CASE h = None /\ g # None
  <2>1. Cancel(h, e) \o Cancel(g, d) = <<Fail(g, d)>>
    BY <1>3 DEF Cancel
  <2>2. QED
    BY <1>3, <2>1, FailIsCall DEF Fail
<1>4. CASE h # None /\ g # None
  <2>1. Cancel(h, e) = <<Fail(h, e)>> /\ Cancel(g, d) = <<Fail(g, d)>>
    BY <1>4 DEF Cancel
  <2>2. <<Fail(h, e)>> \in Seq(Call) /\ <<Fail(g, d)>> \in Seq(Call)
    BY <1>4, FailIsCall
  <2>3. LET frame == <<Fail(h, e)>> \o <<Fail(g, d)>>
        IN  /\ frame \in Seq(Call) /\ Len(frame) = 2
            /\ frame[1] = Fail(h, e) /\ frame[2] = Fail(g, d)
    BY <2>2, ConcatProperties
  <2>4. Fail(h, e).ec # "success" /\ Fail(g, d).ec # "success"
    BY DEF Fail, Errors
  <2>5. QED
    BY <2>1, <2>3, <2>4
<1>5. QED
  BY <1>1, <1>2, <1>3, <1>4

\* What is left of a frame of two calls after the first has been made.
LEMMA LastCall ==
  ASSUME NEW frame \in Seq(Call), Len(frame) = 2
  PROVE  /\ Tail(frame) \in Seq(Call) /\ Len(Tail(frame)) = 1
         /\ Tail(frame)[1] = frame[2]
  BY HeadTailProperties

\* A new refusal grants nothing.
LEMMA NewRefusal ==
  ASSUME NEW op, NEW ec \in Errors, NEW ops,
         Then(<<Fail(op, ec)>>), FramesWellFormed
  PROVE  Grants(ops)' = Grants(ops) /\ FramesWellFormed'
  BY DEF Then, Fail, Grants, FramesWellFormed, Errors

\* A new answer with buffers is one more grant of its side.
LEMMA NewGrant ==
  ASSUME NEW op, NEW buffers, NEW ops,
         Then(<<Succeed(op, buffers)>>), FramesWellFormed
  PROVE  /\ FramesWellFormed'
         /\ Grants(ops)' = IF op \in ops
                           THEN Grants(ops) \cup {<<Succeed(op, buffers)>>}
                           ELSE Grants(ops)
  BY DEF Then, Succeed, Grants, FramesWellFormed

\* A frame of cancellations grants nothing.
LEMMA NewCancellation ==
  ASSUME NEW frame, NEW ops, Then(frame), FramesWellFormed,
         \/ frame = <<>>
         \/ Len(frame) = 1 /\ frame[1].ec # "success"
         \/ /\ Len(frame) = 2
            /\ frame[1].ec # "success" /\ frame[2].ec # "success"
  PROVE  Grants(ops)' = Grants(ops) /\ FramesWellFormed'
  BY DEF Then, Grants, FramesWellFormed

\* A call that is made is no longer on its way, and uncovers no grant behind it.
LEMMA CallMade ==
  ASSUME TypeOK, FramesWellFormed, NEW frame \in inflight, NEW ops,
         RunHandler(frame)
  PROVE  Grants(ops)' = Grants(ops) \ {frame} /\ FramesWellFormed'
<1>1. CASE Len(frame) = 1
  BY <1>1 DEF RunHandler, Grants, FramesWellFormed
<1>2. CASE Len(frame) = 2
  <2>1. /\ Len(Tail(frame)) = 1 /\ Tail(frame)[1] = frame[2]
    BY <1>2, LastCall DEF TypeOK
  <2>2. frame[1].ec # "success" /\ frame[2].ec # "success"
    BY <1>2 DEF FramesWellFormed
  <2>3. inflight' = (inflight \ {frame}) \cup {Tail(frame)}
    BY <1>2 DEF RunHandler
  <2>4. QED
    BY <2>1, <2>2, <2>3 DEF Grants, FramesWellFormed
<1>3. QED
  BY <1>1, <1>2 DEF FramesWellFormed

\* The buffer's size and room add up to its capacity, and data and prepare
\* cover exactly them.
LEMMA Room ==
  ASSUME TypeOK, size <= Capacity
  PROVE  /\ size \in 0..Capacity /\ space \in 0..Capacity
         /\ space = Capacity - size
         /\ data \in Seq(Buffer) /\ data # <<>> /\ Total(data) = size
         /\ prepare \in Seq(Buffer) /\ prepare # <<>>
         /\ Total(prepare) = space
<1>1. size \in 0..Capacity /\ space \in 0..Capacity /\ space = Capacity - size
  <2>1. 0 \in 0..Capacity
    BY CapacityAssumption
  <2>2. HeadSub(write_head_, read_head_) \in Nat
    BY <2>1, HeadArithmetic DEF TypeOK
  <2>3. QED
    BY <2>2, CapacityAssumption DEF size, space
<1>2. Masked(read_head_) \in Cells /\ Masked(write_head_) \in Cells
  BY MaskedInCells DEF TypeOK
<1>3. QED
  BY <1>1, <1>2, RangeCovers DEF data, prepare

\* The size depends on the heads alone.
LEMMA BufferKept ==
  ASSUME read_head_' = read_head_, write_head_' = write_head_
  PROVE  size' = size /\ space' = space
  BY DEF size, space

\* A well-typed frame keeps inflight well-typed.
LEMMA ThenTyped ==
  ASSUME inflight \subseteq Seq(Call), NEW frame \in Seq(Call), Then(frame)
  PROVE  inflight' \subseteq Seq(Call)
  BY DEF Then

\* What async_prepare answers at once, and what it knows when it does not.
LEMMA PrepareRefusalIsError ==
  ASSUME NEW m
  PROVE  /\ PrepareRefusal(m) \in Errors \cup {None}
         /\ PrepareRefusal(m) = None =>
              ~closed_for_write_ /\ ~closed_for_read_ /\ ~write_in_progress_
  BY StreamAssumption DEF PrepareRefusal, Errors

\* The same of async_fetch.
LEMMA FetchRefusalIsError ==
  ASSUME NEW m
  PROVE  /\ FetchRefusal(m) \in Errors \cup {None}
         /\ FetchRefusal(m) = None =>
              /\ ~closed_for_read_ /\ ~read_in_progress_
              /\ m > size => ~closed_for_write_
  BY StreamAssumption DEF FetchRefusal, Errors

\* A new call keeps the record of the calls well-typed.
LEMMA AskTyped ==
  ASSUME asked \in [Ops -> Minimums \cup {None}],
         NEW op \in Ops, NEW m \in Minimums, Ask(op, m)
  PROVE  asked' \in [Ops -> Minimums \cup {None}]
  BY DEF Ask

---------------------------------------------------------------------------
(* Every action preserves the invariant.                                    *)

\* async_prepare: refused, waiting or granted.
LEMMA PrepareKeeps ==
  ASSUME IInv, NEW op \in PrepareOps, NEW m \in Minimums, AsyncPrepare(op, m)
  PROVE  IInv'
<1> USE DEF IInv
<1>1. op \in Ops /\ op \notin FetchOps /\ op # None /\ m # None /\ m \in Nat
  BY StreamAssumption DEF Ops
<1>2. /\ UNCHANGED bufferVars
      /\ UNCHANGED <<read_in_progress_, closed_for_read_, closed_for_write_,
                     minimum_to_fetch_, fetch_handler_, clientVars, life>>
  BY DEF AsyncPrepare
<1>3. size' = size /\ space' = space
  BY <1>2, BufferKept DEF bufferVars
<1>4. asked' \in [Ops -> Minimums \cup {None}]
  BY <1>1, AskTyped DEF AsyncPrepare, TypeOK
<1>5. CASE PrepareRefused(op, m)
  <2>1. PrepareRefusal(m) \in Errors
    BY <1>5, PrepareRefusalIsError DEF PrepareRefused
  <2>2. inflight' \subseteq Seq(Call)
    BY <1>1, <1>5, <2>1, FailIsCall, ThenTyped DEF PrepareRefused, TypeOK
  <2>3. /\ Grants(PrepareOps)' = Grants(PrepareOps)
        /\ Grants(FetchOps)' = Grants(FetchOps)
        /\ FramesWellFormed'
    BY <1>5, <2>1, NewRefusal DEF PrepareRefused
  <2>4. UNCHANGED <<write_in_progress_, minimum_to_prepare_, prepare_handler_>>
    BY <1>5 DEF PrepareRefused
  <2>5. TypeOK'
    BY <1>2, <1>4, <2>2, <2>4 DEF TypeOK, bufferVars, clientVars
  <2>6. WriterSide' /\ ReaderSide'
    BY <1>2, <1>3, <2>3, <2>4 DEF WriterSide, ReaderSide, SideInv, clientVars
  <2>7. MinimaStored' /\ NoLostWakeup'
    BY <1>2, <1>3, <2>4 DEF MinimaStored, NoLostWakeup
  <2>8. QED
    BY <1>3, <2>3, <2>5, <2>6, <2>7
<1>6. CASE PreparePends(op, m)
  <2>1. /\ ~closed_for_write_ /\ ~closed_for_read_ /\ ~write_in_progress_
        /\ space < m
        /\ write_in_progress_' = TRUE
        /\ minimum_to_prepare_' = m
        /\ prepare_handler_' = op
        /\ inflight' = inflight
    BY <1>6, PrepareRefusalIsError DEF PreparePends
  <2>2. /\ Grants(PrepareOps)' = Grants(PrepareOps)
        /\ Grants(FetchOps)' = Grants(FetchOps)
        /\ FramesWellFormed'
    BY <2>1 DEF Grants, FramesWellFormed
  <2>3. write_grant = <<>> /\ Grants(PrepareOps) = {}
    BY <2>1 DEF WriterSide, SideInv
  <2>4. TypeOK'
    BY <1>2, <1>4, <2>1 DEF TypeOK, bufferVars, clientVars
  <2>5. WriterSide'
    BY <1>2, <2>1, <2>2, <2>3 DEF WriterSide, SideInv, clientVars
  <2>6. ReaderSide'
    BY <1>2, <1>3, <2>2 DEF ReaderSide, SideInv, clientVars
  <2>7. MinimaStored' /\ NoLostWakeup'
    BY <1>1, <1>2, <1>3, <2>1 DEF MinimaStored, NoLostWakeup
  <2>8. QED
    BY <1>3, <2>2, <2>4, <2>5, <2>6, <2>7
<1>7. CASE PrepareGranted(op, m)
  <2>1. /\ ~write_in_progress_
        /\ write_in_progress_' = TRUE
        /\ Then(<<Succeed(op, prepare)>>)
        /\ UNCHANGED <<minimum_to_prepare_, prepare_handler_>>
    BY <1>7, PrepareRefusalIsError DEF PrepareGranted
  <2>2. inflight' \subseteq Seq(Call)
    BY <1>1, <2>1, Room, SucceedIsCall, ThenTyped DEF TypeOK
  <2>3. /\ write_grant = <<>> /\ Grants(PrepareOps) = {}
        /\ prepare_handler_ = None
    BY <2>1 DEF WriterSide, SideInv
  <2>4. /\ Grants(PrepareOps)' = {<<Succeed(op, prepare)>>}
        /\ Grants(FetchOps)' = Grants(FetchOps)
        /\ FramesWellFormed'
    BY <1>1, <2>1, <2>3, NewGrant
  <2>5. Total(<<Succeed(op, prepare)>>[1].buffers) <= space
    BY Room DEF Succeed
  <2>6. TypeOK'
    BY <1>2, <1>4, <2>1, <2>2 DEF TypeOK, bufferVars, clientVars
  <2>7. WriterSide'
    BY <1>2, <1>3, <2>1, <2>3, <2>4, <2>5 DEF WriterSide, SideInv, clientVars
  <2>8. ReaderSide'
    BY <1>2, <1>3, <2>4 DEF ReaderSide, SideInv, clientVars
  <2>9. MinimaStored' /\ NoLostWakeup'
    BY <1>2, <1>3, <2>1 DEF MinimaStored, NoLostWakeup
  <2>10. QED
    BY <1>3, <2>4, <2>6, <2>7, <2>8, <2>9
<1>8. QED
  BY <1>5, <1>6, <1>7 DEF AsyncPrepare

\* async_fetch: refused, waiting or granted.
LEMMA FetchKeeps ==
  ASSUME IInv, NEW op \in FetchOps, NEW m \in Minimums, AsyncFetch(op, m)
  PROVE  IInv'
<1> USE DEF IInv
<1>1. op \in Ops /\ op \notin PrepareOps /\ op # None /\ m # None /\ m \in Nat
  BY StreamAssumption DEF Ops
<1>2. /\ UNCHANGED bufferVars
      /\ UNCHANGED <<write_in_progress_, closed_for_read_, closed_for_write_,
                     minimum_to_prepare_, prepare_handler_, clientVars, life>>
  BY DEF AsyncFetch
<1>3. size' = size /\ space' = space
  BY <1>2, BufferKept DEF bufferVars
<1>4. asked' \in [Ops -> Minimums \cup {None}]
  BY <1>1, AskTyped DEF AsyncFetch, TypeOK
<1>5. CASE FetchRefused(op, m)
  <2>1. FetchRefusal(m) \in Errors
    BY <1>5, FetchRefusalIsError DEF FetchRefused
  <2>2. inflight' \subseteq Seq(Call)
    BY <1>1, <1>5, <2>1, FailIsCall, ThenTyped DEF FetchRefused, TypeOK
  <2>3. /\ Grants(PrepareOps)' = Grants(PrepareOps)
        /\ Grants(FetchOps)' = Grants(FetchOps)
        /\ FramesWellFormed'
    BY <1>5, <2>1, NewRefusal DEF FetchRefused
  <2>4. UNCHANGED <<read_in_progress_, minimum_to_fetch_, fetch_handler_>>
    BY <1>5 DEF FetchRefused
  <2>5. TypeOK'
    BY <1>2, <1>4, <2>2, <2>4 DEF TypeOK, bufferVars, clientVars
  <2>6. WriterSide' /\ ReaderSide'
    BY <1>2, <1>3, <2>3, <2>4 DEF WriterSide, ReaderSide, SideInv, clientVars
  <2>7. MinimaStored' /\ NoLostWakeup'
    BY <1>2, <1>3, <2>4 DEF MinimaStored, NoLostWakeup
  <2>8. QED
    BY <1>3, <2>3, <2>5, <2>6, <2>7
<1>6. CASE FetchPends(op, m)
  <2>1. m > size /\ FetchRefusal(m) = None
    BY <1>6 DEF FetchPends
  <2>2. size < m
    BY <1>1, <2>1, Room
  <2>3. /\ ~closed_for_write_ /\ ~closed_for_read_ /\ ~read_in_progress_
        /\ read_in_progress_' = TRUE
        /\ minimum_to_fetch_' = m
        /\ fetch_handler_' = op
        /\ inflight' = inflight
    BY <1>6, <2>1, FetchRefusalIsError DEF FetchPends
  <2>4. /\ Grants(PrepareOps)' = Grants(PrepareOps)
        /\ Grants(FetchOps)' = Grants(FetchOps)
        /\ FramesWellFormed'
    BY <2>3 DEF Grants, FramesWellFormed
  <2>5. read_grant = <<>> /\ Grants(FetchOps) = {}
    BY <2>3 DEF ReaderSide, SideInv
  <2>6. TypeOK'
    BY <1>2, <1>4, <2>3 DEF TypeOK, bufferVars, clientVars
  <2>7. ReaderSide'
    BY <1>2, <2>3, <2>4, <2>5 DEF ReaderSide, SideInv, clientVars
  <2>8. WriterSide'
    BY <1>2, <1>3, <2>4 DEF WriterSide, SideInv, clientVars
  <2>9. MinimaStored' /\ NoLostWakeup'
    BY <1>1, <1>2, <1>3, <2>2, <2>3 DEF MinimaStored, NoLostWakeup
  <2>10. QED
    BY <1>3, <2>4, <2>6, <2>7, <2>8, <2>9
<1>7. CASE FetchGranted(op, m)
  <2>1. /\ ~read_in_progress_
        /\ read_in_progress_' = TRUE
        /\ Then(<<Succeed(op, data)>>)
        /\ UNCHANGED <<minimum_to_fetch_, fetch_handler_>>
    BY <1>7, FetchRefusalIsError DEF FetchGranted
  <2>2. inflight' \subseteq Seq(Call)
    BY <1>1, <2>1, Room, SucceedIsCall, ThenTyped DEF TypeOK
  <2>3. /\ read_grant = <<>> /\ Grants(FetchOps) = {}
        /\ fetch_handler_ = None
    BY <2>1 DEF ReaderSide, SideInv
  <2>4. /\ Grants(FetchOps)' = {<<Succeed(op, data)>>}
        /\ Grants(PrepareOps)' = Grants(PrepareOps)
        /\ FramesWellFormed'
    BY <1>1, <2>1, <2>3, NewGrant
  <2>5. Total(<<Succeed(op, data)>>[1].buffers) <= size
    BY Room DEF Succeed
  <2>6. TypeOK'
    BY <1>2, <1>4, <2>1, <2>2 DEF TypeOK, bufferVars, clientVars
  <2>7. ReaderSide'
    BY <1>2, <1>3, <2>1, <2>3, <2>4, <2>5 DEF ReaderSide, SideInv, clientVars
  <2>8. WriterSide'
    BY <1>2, <1>3, <2>4 DEF WriterSide, SideInv, clientVars
  <2>9. MinimaStored' /\ NoLostWakeup'
    BY <1>2, <1>3, <2>1 DEF MinimaStored, NoLostWakeup
  <2>10. QED
    BY <1>3, <2>4, <2>6, <2>7, <2>8, <2>9
<1>8. QED
  BY <1>5, <1>6, <1>7 DEF AsyncFetch

\* The length of a buffer sequence is a number.
LEMMA TotalIsNat ==
  ASSUME NEW buffers \in Seq(Buffer) PROVE Total(buffers) \in Nat
<1>1. \A i \in 1..Len(buffers) : buffers[i] \in Buffer
  BY ElementOfSeq
<1>2. \A b \in Buffer : b.len \in Nat
  BY CapacityAssumption DEF Buffer
<1>3. Len(buffers) \in Nat /\ (buffers # <<>> => Len(buffers) > 0)
  BY EmptySeq, LenProperties
<1>4. buffers # <<>> => buffers[1].len \in Nat
  <2>1. buffers # <<>> => 1 \in 1..Len(buffers)
    BY <1>3
  <2>2. QED
    BY <1>1, <1>2, <2>1
<1>5. buffers # <<>> /\ Len(buffers) # 1 => buffers[2].len \in Nat
  <2>1. \A k \in Nat : k > 0 /\ k # 1 => 2 \in 1..k
    OBVIOUS
  <2>2. buffers # <<>> /\ Len(buffers) # 1 => 2 \in 1..Len(buffers)
    BY <1>3, <2>1
  <2>3. QED
    BY <1>1, <1>2, <2>2
<1>6. CASE buffers = <<>>
  BY <1>6 DEF Total
<1>7. CASE buffers # <<>> /\ Len(buffers) = 1
  BY <1>4, <1>7 DEF Total
<1>8. CASE buffers # <<>> /\ Len(buffers) # 1
  <2>1. Total(buffers) = buffers[1].len + buffers[2].len
    BY <1>8 DEF Total
  <2>2. QED
    BY <1>4, <1>5, <1>8, <2>1
<1>9. QED
  BY <1>6, <1>7, <1>8

\* A call that is on its way carries a buffer sequence.
LEMMA CallInFlight ==
  ASSUME TypeOK, FramesWellFormed, NEW frame \in inflight
  PROVE  /\ frame \in Seq(Call) /\ Len(frame) >= 1
         /\ frame[1] \in Call
         /\ frame[1].op \in Ops /\ frame[1].buffers \in Seq(Buffer)
<1>1. frame \in Seq(Call) /\ Len(frame) >= 1
  <2>1. frame \in Seq(Call)
    BY DEF TypeOK
  <2>2. Len(frame) = 1 \/ Len(frame) = 2
    BY DEF FramesWellFormed
  <2>3. QED
    BY <2>1, <2>2
<1>2. frame[1] \in Call
  <2>1. 1 \in 1..Len(frame)
    BY <1>1, LenProperties
  <2>2. QED
    BY <1>1, <2>1, ElementOfSeq
<1>3. \A call \in Call : call.op \in Ops /\ call.buffers \in Seq(Buffer)
  BY DEF Call
<1>4. QED
  BY <1>1, <1>2, <1>3

\* The writer's buffers are no larger than the room, so that what it writes
\* into them is typed.
LEMMA FillKeeps == ASSUME IInv, Fill PROVE IInv'
<1> USE DEF IInv
<1> DEFINE byte(c) == HeadAdd(sent, CHOOSE i \in 0..(Total(write_grant) - 1) :
                                      CellAt(write_grant, i) = c)
<1>1. UNCHANGED <<read_head_, write_head_, flagVars, handlerVars, inflight,
                  asked, write_grant, read_grant, sent, received, life>>
      /\ filled' = TRUE
  BY DEF Fill
<1>2. Total(write_grant) \in Nat /\ Total(write_grant) <= Capacity
  <2>1. Total(write_grant) \in Nat /\ space \in 0..Capacity
    BY TotalIsNat, Room DEF TypeOK
  <2>2. Total(write_grant) <= space
    BY DEF Fill, WriterSide, SideInv
  <2>3. QED
    BY <2>1, <2>2, CapacityAssumption
<1>3. ASSUME NEW c \in CellsOf(write_grant)
      PROVE  byte(c) \in Heads
  <2>1. \E i \in 0..(Total(write_grant) - 1) : CellAt(write_grant, i) = c
    BY DEF CellsOf
  <2>2. (CHOOSE i \in 0..(Total(write_grant) - 1) : CellAt(write_grant, i) = c)
          \in 0..(Total(write_grant) - 1)
    BY <2>1
  <2>3. ASSUME NEW i \in 0..(Total(write_grant) - 1)
        PROVE  HeadAdd(sent, i) \in Heads
    <3>1. i \in 0..Capacity
      BY <1>2, CapacityAssumption
    <3>2. sent \in Heads
      BY DEF TypeOK
    <3>3. QED
      BY <3>1, <3>2, HeadArithmetic
  <2>4. QED
    BY <2>2, <2>3
<1>4. storage_' \in [Cells -> Heads \cup {Modulus}]
  <2>1. storage_' = [c \in Cells |-> IF c \in CellsOf(write_grant) THEN byte(c)
                                     ELSE storage_[c]]
    BY DEF Fill
  <2> HIDE DEF byte
  <2>2. QED
    BY <1>3, <2>1 DEF TypeOK
<1>5. size' = size /\ space' = space
  BY <1>1, BufferKept
<1>6. /\ Grants(PrepareOps)' = Grants(PrepareOps)
      /\ Grants(FetchOps)' = Grants(FetchOps)
      /\ FramesWellFormed'
  BY <1>1 DEF Grants, FramesWellFormed
<1>7. TypeOK'
  BY <1>1, <1>4 DEF TypeOK, flagVars, handlerVars
<1>8. WriterSide' /\ ReaderSide'
  BY <1>1, <1>5, <1>6 DEF WriterSide, ReaderSide, SideInv, flagVars, handlerVars
<1>9. MinimaStored' /\ NoLostWakeup'
  BY <1>1, <1>5 DEF MinimaStored, NoLostWakeup, flagVars, handlerVars
<1>10. QED
  BY <1>5, <1>6, <1>7, <1>8, <1>9

\* commit: the bytes move from the room to the data, and a reader that now
\* has enough is answered with all of it.
LEMMA CommitKeeps ==
  ASSUME IInv, NEW n \in 0..Capacity, Commit(n)
  PROVE  IInv'
<1> USE DEF IInv
<1>1. /\ UNCHANGED <<storage_, read_head_>>
      /\ write_head_' = HeadAdd(write_head_, n)
      /\ write_grant' = <<>> /\ filled' = FALSE /\ sent' = HeadAdd(sent, n)
      /\ write_in_progress_' = FALSE
      /\ UNCHANGED <<read_in_progress_, closed_for_read_, closed_for_write_,
                     minimum_to_fetch_, minimum_to_prepare_, prepare_handler_,
                     asked, read_grant, received, life>>
  BY DEF Commit, commit
<1>2. /\ prepare_handler_ = None /\ Grants(PrepareOps) = {}
      /\ n <= Total(write_grant) /\ Total(write_grant) <= space
  BY DEF Commit, WriterSide, SideInv
<1>3. n <= space /\ Total(write_grant) \in Nat
  BY <1>2, Room, TotalIsNat, CapacityAssumption DEF TypeOK
<1>4. /\ write_head_' \in Heads /\ sent' \in Heads
      /\ size' = size + n /\ size' \in 0..Capacity
  <2>1. /\ size \in 0..Capacity /\ space = Capacity - size
        /\ read_head_ \in Heads /\ write_head_ \in Heads /\ sent \in Heads
    BY Room DEF TypeOK
  <2>2. size + n <= Capacity /\ size + n \in 0..Capacity
    BY <1>3, <2>1, CapacityAssumption
  <2>3. HeadSub(HeadAdd(write_head_, n), read_head_) = size + n
    BY <2>1, <2>2, HeadArithmetic DEF size
  <2>4. size' = size + n
    BY <1>1, <2>3 DEF size
  <2>5. HeadAdd(write_head_, n) \in Heads /\ HeadAdd(sent, n) \in Heads
    BY <2>1, HeadArithmetic
  <2>6. QED
    BY <1>1, <2>2, <2>4, <2>5
<1>5. ASSUME NEW buffers \in Seq(Buffer), Total(buffers) <= size
      PROVE  Total(buffers) <= size'
  BY <1>4, <1>5, TotalIsNat, Room, CapacityAssumption
<1>6. CASE ReaderServed
  <2> DEFINE answer == GetRange(Masked(read_head_),
                                HeadSub(write_head_', read_head_))
  <2>1. fetch_handler_ # None /\ fetch_handler_ \in FetchOps
    BY <1>6 DEF ReaderServed, TypeOK
  <2>2. /\ fetch_handler_ \in Ops /\ fetch_handler_ \notin PrepareOps
    BY <2>1, StreamAssumption DEF Ops
  <2>3. Then(<<Succeed(fetch_handler_, answer)>>) /\ fetch_handler_' = None
    BY <1>6 DEF Commit
  <2>4. /\ answer \in Seq(Buffer)
        /\ Total(answer) = size'
    <3>1. HeadSub(write_head_', read_head_) = size'
      BY <1>1 DEF size
    <3>2. Masked(read_head_) \in Cells
      BY MaskedInCells DEF TypeOK
    <3>3. QED
      BY <1>4, <3>1, <3>2, RangeCovers
  <2> HIDE DEF answer
  <2>5. inflight' \subseteq Seq(Call)
    BY <2>2, <2>3, <2>4, SucceedIsCall, ThenTyped DEF TypeOK
  <2>6. read_in_progress_ /\ read_grant = <<>> /\ Grants(FetchOps) = {}
    BY <2>1 DEF ReaderSide, SideInv
  <2>7. /\ Grants(PrepareOps)' = {}
        /\ Grants(FetchOps)' = {<<Succeed(fetch_handler_, answer)>>}
        /\ FramesWellFormed'
    BY <1>2, <2>1, <2>2, <2>3, <2>6, NewGrant
  <2>8. Total(<<Succeed(fetch_handler_, answer)>>[1].buffers) <= size'
    BY <1>4, <2>4, CapacityAssumption DEF Succeed
  <2>9. TypeOK'
    BY <1>1, <1>4, <2>3, <2>5, EmptySeq DEF TypeOK
  <2>10. WriterSide'
    BY <1>1, <1>2, <2>7 DEF WriterSide, SideInv
  <2>11. ReaderSide'
    BY <1>1, <2>3, <2>6, <2>7, <2>8 DEF ReaderSide, SideInv
  <2>12. MinimaStored' /\ NoLostWakeup'
    BY <1>1, <1>2, <2>3 DEF MinimaStored, NoLostWakeup
  <2>13. QED
    BY <1>4, <2>7, <2>9, <2>10, <2>11, <2>12, CapacityAssumption
<1>7. CASE ~ReaderServed
  <2>1. UNCHANGED <<inflight, fetch_handler_>>
    BY <1>7 DEF Commit
  <2>2. /\ Grants(PrepareOps)' = Grants(PrepareOps)
        /\ Grants(FetchOps)' = Grants(FetchOps)
        /\ FramesWellFormed'
    BY <2>1 DEF Grants, FramesWellFormed
  <2>3. TypeOK'
    BY <1>1, <1>4, <2>1, EmptySeq DEF TypeOK
  <2>4. WriterSide'
    BY <1>1, <1>2, <2>2 DEF WriterSide, SideInv
  <2>5. ASSUME NEW frame \in Grants(FetchOps)
        PROVE  Total(frame[1].buffers) <= size'
    <3>1. frame[1].buffers \in Seq(Buffer)
      BY CallInFlight DEF Grants
    <3>2. QED
      BY <1>5, <3>1 DEF ReaderSide, SideInv
  <2>6. read_grant # <<>> => Total(read_grant) <= size'
    BY <1>5 DEF ReaderSide, SideInv, TypeOK
  <2>7. ReaderSide'
    BY <1>1, <2>1, <2>2, <2>5, <2>6 DEF ReaderSide, SideInv
  <2>8. fetch_handler_ # None => size' < minimum_to_fetch_
    <3>1. HAVE fetch_handler_ # None
    <3>2. minimum_to_fetch_ \in Nat
      BY <3>1, StreamAssumption DEF MinimaStored, TypeOK
    <3>3. ~(size' >= minimum_to_fetch_)
      BY <1>1, <1>7, <3>1 DEF ReaderServed, size
    <3>4. QED
      BY <1>4, <3>2, <3>3, CapacityAssumption
  <2>9. MinimaStored' /\ NoLostWakeup'
    BY <1>1, <1>2, <2>1, <2>8 DEF MinimaStored, NoLostWakeup
  <2>10. QED
    BY <1>4, <2>2, <2>3, <2>4, <2>7, <2>9, CapacityAssumption
<1>8. QED
  BY <1>6, <1>7

\* consume: the bytes move from the data to the room, and a writer that now
\* has room enough is answered with all of it.
LEMMA ConsumeKeeps ==
  ASSUME IInv, NEW n \in 0..Capacity, Consume(n)
  PROVE  IInv'
<1> USE DEF IInv
<1>1. /\ UNCHANGED <<storage_, write_head_>>
      /\ read_head_' = HeadAdd(read_head_, n)
      /\ read_grant' = <<>> /\ received' = HeadAdd(received, n)
      /\ read_in_progress_' = FALSE
      /\ UNCHANGED <<write_in_progress_, closed_for_read_, closed_for_write_,
                     minimum_to_fetch_, minimum_to_prepare_, fetch_handler_,
                     asked, write_grant, filled, sent, life>>
  BY DEF Consume, consume
<1>2. /\ fetch_handler_ = None /\ Grants(FetchOps) = {}
      /\ n <= Total(read_grant) /\ Total(read_grant) <= size
  BY DEF Consume, ReaderSide, SideInv
<1>3. n <= size /\ Total(read_grant) \in Nat
  BY <1>2, Room, TotalIsNat, CapacityAssumption DEF TypeOK
<1>4. /\ read_head_' \in Heads /\ received' \in Heads
      /\ size' = size - n /\ size' \in 0..Capacity
      /\ space' = space + n /\ space' \in 0..Capacity
  <2>1. /\ size \in 0..Capacity /\ space = Capacity - size
        /\ read_head_ \in Heads /\ write_head_ \in Heads /\ received \in Heads
    BY Room DEF TypeOK
  <2>2. size - n \in 0..Capacity /\ Capacity - (size - n) \in 0..Capacity
        /\ Capacity - (size - n) = space + n
    BY <1>3, <2>1, CapacityAssumption
  <2>3. HeadSub(write_head_, HeadAdd(read_head_, n)) = size - n
    BY <1>3, <2>1, HeadArithmetic DEF size
  <2>4. size' = size - n
    BY <1>1, <2>3 DEF size
  <2>5. space' = Capacity - (size - n)
    BY <2>4 DEF space
  <2>6. HeadAdd(read_head_, n) \in Heads /\ HeadAdd(received, n) \in Heads
    BY <2>1, HeadArithmetic
  <2>7. QED
    BY <1>1, <2>2, <2>4, <2>5, <2>6
<1>5. ASSUME NEW buffers \in Seq(Buffer), Total(buffers) <= space
      PROVE  Total(buffers) <= space'
  BY <1>4, <1>5, TotalIsNat, Room, CapacityAssumption
<1>6. Capacity - HeadSub(write_head_, read_head_') = space'
  BY <1>1 DEF size, space
<1>7. CASE WriterServed
  <2> DEFINE answer == GetRange(Masked(write_head_),
                                Capacity - HeadSub(write_head_, read_head_'))
  <2>1. prepare_handler_ # None /\ prepare_handler_ \in PrepareOps
    BY <1>7 DEF WriterServed, TypeOK
  <2>2. /\ prepare_handler_ \in Ops /\ prepare_handler_ \notin FetchOps
    BY <2>1, StreamAssumption DEF Ops
  <2>3. Then(<<Succeed(prepare_handler_, answer)>>) /\ prepare_handler_' = None
    BY <1>7 DEF Consume
  <2>4. /\ answer \in Seq(Buffer)
        /\ Total(answer) = space'
    <3>1. Masked(write_head_) \in Cells
      BY MaskedInCells DEF TypeOK
    <3>2. QED
      BY <1>4, <1>6, <3>1, RangeCovers
  <2> HIDE DEF answer
  <2>5. inflight' \subseteq Seq(Call)
    BY <2>2, <2>3, <2>4, SucceedIsCall, ThenTyped DEF TypeOK
  <2>6. write_in_progress_ /\ write_grant = <<>> /\ Grants(PrepareOps) = {}
    BY <2>1 DEF WriterSide, SideInv
  <2>7. /\ Grants(FetchOps)' = {}
        /\ Grants(PrepareOps)' = {<<Succeed(prepare_handler_, answer)>>}
        /\ FramesWellFormed'
    BY <1>2, <2>1, <2>2, <2>3, <2>6, NewGrant
  <2>8. Total(<<Succeed(prepare_handler_, answer)>>[1].buffers) <= space'
    BY <1>4, <2>4, CapacityAssumption DEF Succeed
  <2>9. TypeOK'
    BY <1>1, <1>4, <2>3, <2>5, EmptySeq DEF TypeOK
  <2>10. WriterSide'
    BY <1>1, <2>3, <2>6, <2>7, <2>8 DEF WriterSide, SideInv
  <2>11. ReaderSide'
    BY <1>1, <1>2, <2>7 DEF ReaderSide, SideInv
  <2>12. MinimaStored' /\ NoLostWakeup'
    BY <1>1, <1>2, <2>3 DEF MinimaStored, NoLostWakeup
  <2>13. QED
    BY <1>4, <2>7, <2>9, <2>10, <2>11, <2>12, CapacityAssumption
<1>8. CASE ~WriterServed
  <2>1. UNCHANGED <<inflight, prepare_handler_>>
    BY <1>8 DEF Consume
  <2>2. /\ Grants(PrepareOps)' = Grants(PrepareOps)
        /\ Grants(FetchOps)' = Grants(FetchOps)
        /\ FramesWellFormed'
    BY <2>1 DEF Grants, FramesWellFormed
  <2>3. TypeOK'
    BY <1>1, <1>4, <2>1, EmptySeq DEF TypeOK
  <2>4. ReaderSide'
    BY <1>1, <1>2, <2>2 DEF ReaderSide, SideInv
  <2>5. ASSUME NEW frame \in Grants(PrepareOps)
        PROVE  Total(frame[1].buffers) <= space'
    <3>1. frame[1].buffers \in Seq(Buffer)
      BY CallInFlight DEF Grants
    <3>2. QED
      BY <1>5, <3>1 DEF WriterSide, SideInv
  <2>6. write_grant # <<>> => Total(write_grant) <= space'
    BY <1>5 DEF WriterSide, SideInv, TypeOK
  <2>7. WriterSide'
    BY <1>1, <2>1, <2>2, <2>5, <2>6 DEF WriterSide, SideInv
  <2>8. prepare_handler_ # None => space' < minimum_to_prepare_
    <3>1. HAVE prepare_handler_ # None
    <3>2. minimum_to_prepare_ \in Nat
      BY <3>1, StreamAssumption DEF MinimaStored, TypeOK
    <3>3. ~(minimum_to_prepare_ <= space')
      BY <1>6, <1>8, <3>1 DEF WriterServed
    <3>4. QED
      BY <1>4, <3>2, <3>3, CapacityAssumption
  <2>9. MinimaStored' /\ NoLostWakeup'
    BY <1>1, <1>2, <2>1, <2>8 DEF MinimaStored, NoLostWakeup
  <2>10. QED
    BY <1>4, <2>2, <2>3, <2>4, <2>7, <2>9, CapacityAssumption
<1>9. QED
  BY <1>7, <1>8

\* close_for_write: who waited has been given up, and its side is idle.
LEMMA CloseForWriteSectionKeeps ==
  ASSUME IInv, CloseForWriteSection, life' \in {"alive", "closing", "dead"}
  PROVE  IInv'
<1> USE DEF IInv
<1>1. /\ closed_for_write_' = TRUE
      /\ UNCHANGED <<storage_, read_head_, write_head_, closed_for_read_,
                     minimum_to_fetch_, minimum_to_prepare_, asked,
                     write_grant, read_grant, filled, sent, received>>
  BY DEF CloseForWriteSection, bufferVars, clientVars
<1>2. size' = size /\ space' = space
  BY <1>1, BufferKept
<1>3. CASE closed_for_write_
  <2>1. UNCHANGED <<inflight, fetch_handler_, prepare_handler_,
                    read_in_progress_, write_in_progress_>>
    BY <1>3 DEF CloseForWriteSection
  <2>2. /\ Grants(PrepareOps)' = Grants(PrepareOps)
        /\ Grants(FetchOps)' = Grants(FetchOps)
        /\ FramesWellFormed'
    BY <2>1 DEF Grants, FramesWellFormed
  <2>3. TypeOK'
    BY <1>1, <2>1 DEF TypeOK
  <2>4. WriterSide' /\ ReaderSide'
    BY <1>1, <1>2, <2>1, <2>2 DEF WriterSide, ReaderSide, SideInv
  <2>5. MinimaStored' /\ NoLostWakeup'
    BY <1>1, <1>2, <1>3, <2>1 DEF MinimaStored, NoLostWakeup
  <2>6. QED
    BY <1>2, <2>2, <2>3, <2>4, <2>5
<1>4. CASE ~closed_for_write_
  <2> DEFINE frame == Cancel(prepare_handler_, "shut_down")
                        \o Cancel(fetch_handler_, "eof")
  <2>1. /\ Then(frame)
        /\ fetch_handler_' = None /\ prepare_handler_' = None
        /\ read_in_progress_' = (read_in_progress_ /\ fetch_handler_ = None)
        /\ write_in_progress_' =
             (write_in_progress_ /\ prepare_handler_ = None)
    BY <1>4 DEF CloseForWriteSection
  <2>2. /\ frame \in Seq(Call)
        /\ \/ frame = <<>>
           \/ Len(frame) = 1 /\ frame[1].ec # "success"
           \/ /\ Len(frame) = 2
              /\ frame[1].ec # "success" /\ frame[2].ec # "success"
    <3>1. /\ prepare_handler_ \in Ops \cup {None}
          /\ fetch_handler_ \in Ops \cup {None}
      BY DEF TypeOK, Ops
    <3>2. "shut_down" \in Errors /\ "eof" \in Errors
      BY DEF Errors
    <3>3. QED
      BY <3>1, <3>2, CancelFrames
  <2> HIDE DEF frame
  <2>3. /\ Grants(PrepareOps)' = Grants(PrepareOps)
        /\ Grants(FetchOps)' = Grants(FetchOps)
        /\ FramesWellFormed'
    BY <2>1, <2>2, NewCancellation
  <2>4. inflight' \subseteq Seq(Call)
    BY <2>1, <2>2, ThenTyped DEF TypeOK
  <2>5. TypeOK'
    BY <1>1, <2>1, <2>4 DEF TypeOK
  <2>6. WriterSide'
    BY <1>1, <1>2, <2>1, <2>3 DEF WriterSide, SideInv
  <2>7. ReaderSide'
    BY <1>1, <1>2, <2>1, <2>3 DEF ReaderSide, SideInv
  <2>8. MinimaStored' /\ NoLostWakeup'
    BY <2>1 DEF MinimaStored, NoLostWakeup
  <2>9. QED
    BY <1>2, <2>3, <2>5, <2>6, <2>7, <2>8
<1>5. QED
  BY <1>3, <1>4

\* close_for_read: who waited has been given up, the flags stay.
LEMMA CloseForReadSectionKeeps ==
  ASSUME IInv, CloseForReadSection, life' \in {"alive", "closing", "dead"}
  PROVE  IInv'
<1> USE DEF IInv
<1>1. /\ closed_for_read_' = TRUE
      /\ UNCHANGED <<storage_, read_head_, write_head_, closed_for_write_,
                     read_in_progress_, write_in_progress_,
                     minimum_to_fetch_, minimum_to_prepare_, asked,
                     write_grant, read_grant, filled, sent, received>>
  BY DEF CloseForReadSection, bufferVars, clientVars
<1>2. size' = size /\ space' = space
  BY <1>1, BufferKept
<1>3. CASE closed_for_read_
  <2>1. UNCHANGED <<inflight, fetch_handler_, prepare_handler_>>
    BY <1>3 DEF CloseForReadSection
  <2>2. /\ Grants(PrepareOps)' = Grants(PrepareOps)
        /\ Grants(FetchOps)' = Grants(FetchOps)
        /\ FramesWellFormed'
    BY <2>1 DEF Grants, FramesWellFormed
  <2>3. TypeOK'
    BY <1>1, <2>1 DEF TypeOK
  <2>4. WriterSide' /\ ReaderSide'
    BY <1>1, <1>2, <2>1, <2>2 DEF WriterSide, ReaderSide, SideInv
  <2>5. MinimaStored' /\ NoLostWakeup'
    BY <1>1, <1>2, <1>3, <2>1 DEF MinimaStored, NoLostWakeup
  <2>6. QED
    BY <1>2, <2>2, <2>3, <2>4, <2>5
<1>4. CASE ~closed_for_read_
  <2> DEFINE frame == Cancel(fetch_handler_, "shut_down")
                        \o Cancel(prepare_handler_, "broken_pipe")
  <2>1. /\ Then(frame)
        /\ fetch_handler_' = None /\ prepare_handler_' = None
    BY <1>4 DEF CloseForReadSection
  <2>2. /\ frame \in Seq(Call)
        /\ \/ frame = <<>>
           \/ Len(frame) = 1 /\ frame[1].ec # "success"
           \/ /\ Len(frame) = 2
              /\ frame[1].ec # "success" /\ frame[2].ec # "success"
    <3>1. /\ prepare_handler_ \in Ops \cup {None}
          /\ fetch_handler_ \in Ops \cup {None}
      BY DEF TypeOK, Ops
    <3>2. "shut_down" \in Errors /\ "broken_pipe" \in Errors
      BY DEF Errors
    <3>3. QED
      BY <3>1, <3>2, CancelFrames
  <2> HIDE DEF frame
  <2>3. /\ Grants(PrepareOps)' = Grants(PrepareOps)
        /\ Grants(FetchOps)' = Grants(FetchOps)
        /\ FramesWellFormed'
    BY <2>1, <2>2, NewCancellation
  <2>4. inflight' \subseteq Seq(Call)
    BY <2>1, <2>2, ThenTyped DEF TypeOK
  <2>5. TypeOK'
    BY <1>1, <2>1, <2>4 DEF TypeOK
  <2>6. WriterSide' /\ ReaderSide'
    BY <1>1, <1>2, <2>1, <2>3 DEF WriterSide, ReaderSide, SideInv
  <2>7. MinimaStored' /\ NoLostWakeup'
    BY <2>1 DEF MinimaStored, NoLostWakeup
  <2>8. QED
    BY <1>2, <2>3, <2>5, <2>6, <2>7
<1>5. QED
  BY <1>3, <1>4

\* A handler is called: the answer with buffers becomes the buffers held.
LEMMA RunHandlerKeeps ==
  ASSUME IInv, NEW frame \in inflight, RunHandler(frame)
  PROVE  IInv'
<1> USE DEF IInv
<1> DEFINE call == frame[1]
<1>1. UNCHANGED <<bufferVars, flagVars, handlerVars, filled, sent, received,
                  life>>
  BY DEF RunHandler
<1>2. size' = size /\ space' = space
  BY <1>1, BufferKept DEF bufferVars
<1>3. /\ Grants(PrepareOps)' = Grants(PrepareOps) \ {frame}
      /\ Grants(FetchOps)' = Grants(FetchOps) \ {frame}
      /\ FramesWellFormed'
  BY CallMade
<1>4. call \in Call /\ call.op \in Ops /\ call.buffers \in Seq(Buffer)
  BY CallInFlight
<1>5. inflight' \subseteq Seq(Call)
  <2>1. CASE Len(frame) = 1
    BY <2>1 DEF RunHandler, TypeOK
  <2>2. CASE Len(frame) = 2
    <3>1. Tail(frame) \in Seq(Call)
      BY <2>2, LastCall DEF TypeOK
    <3>2. QED
      BY <3>1 DEF RunHandler, TypeOK
  <2>3. QED
    BY <2>1, <2>2 DEF FramesWellFormed
<1>6. asked' \in [Ops -> Minimums \cup {None}]
  BY <1>4 DEF RunHandler, TypeOK
<1>7. /\ write_grant' = IF call.ec = "success" /\ call.op \in PrepareOps
                        THEN call.buffers ELSE write_grant
      /\ read_grant' = IF call.ec = "success" /\ call.op \in FetchOps
                       THEN call.buffers ELSE read_grant
  BY DEF RunHandler
<1>8. /\ (call.ec = "success" /\ call.op \in PrepareOps)
           <=> frame \in Grants(PrepareOps)
      /\ (call.ec = "success" /\ call.op \in FetchOps)
           <=> frame \in Grants(FetchOps)
  BY DEF Grants
<1> HIDE DEF call
<1>9. TypeOK'
  BY <1>1, <1>4, <1>5, <1>6, <1>7 DEF TypeOK, bufferVars, flagVars, handlerVars
<1>10. WriterSide'
  <2>1. CASE frame \in Grants(PrepareOps)
    <3>1. write_grant' = call.buffers /\ prepare_handler_ = None
          /\ write_in_progress_ /\ Total(call.buffers) <= space
      BY <1>7, <1>8, <2>1 DEF WriterSide, SideInv, call
    <3>2. Grants(PrepareOps)' = {}
      BY <1>3, <2>1 DEF WriterSide, SideInv
    <3>3. QED
      BY <1>1, <1>2, <3>1, <3>2 DEF WriterSide, SideInv, flagVars, handlerVars
  <2>2. CASE frame \notin Grants(PrepareOps)
    <3>1. write_grant' = write_grant /\ Grants(PrepareOps)' = Grants(PrepareOps)
      BY <1>3, <1>7, <1>8, <2>2
    <3>2. QED
      BY <1>1, <1>2, <3>1 DEF WriterSide, SideInv, flagVars, handlerVars
  <2>3. QED
    BY <2>1, <2>2
<1>11. ReaderSide'
  <2>1. CASE frame \in Grants(FetchOps)
    <3>1. read_grant' = call.buffers /\ fetch_handler_ = None
          /\ read_in_progress_ /\ Total(call.buffers) <= size
      BY <1>7, <1>8, <2>1 DEF ReaderSide, SideInv, call
    <3>2. Grants(FetchOps)' = {}
      BY <1>3, <2>1 DEF ReaderSide, SideInv
    <3>3. QED
      BY <1>1, <1>2, <3>1, <3>2 DEF ReaderSide, SideInv, flagVars, handlerVars
  <2>2. CASE frame \notin Grants(FetchOps)
    <3>1. read_grant' = read_grant /\ Grants(FetchOps)' = Grants(FetchOps)
      BY <1>3, <1>7, <1>8, <2>2
    <3>2. QED
      BY <1>1, <1>2, <3>1 DEF ReaderSide, SideInv, flagVars, handlerVars
  <2>3. QED
    BY <2>1, <2>2
<1>12. MinimaStored' /\ NoLostWakeup'
  BY <1>1, <1>2 DEF MinimaStored, NoLostWakeup, flagVars, handlerVars
<1>13. QED
  BY <1>2, <1>3, <1>9, <1>10, <1>11, <1>12

\* A stuttering step.
LEMMA StutterKeeps == ASSUME IInv, UNCHANGED vars PROVE IInv'
<1> USE DEF IInv
<1>1. /\ UNCHANGED <<storage_, read_head_, write_head_, flagVars, handlerVars,
                     inflight, asked, clientVars, life>>
  BY DEF vars, bufferVars
<1>2. size' = size /\ space' = space
  BY <1>1, BufferKept
<1>3. /\ Grants(PrepareOps)' = Grants(PrepareOps)
      /\ Grants(FetchOps)' = Grants(FetchOps)
      /\ FramesWellFormed'
  BY <1>1 DEF Grants, FramesWellFormed
<1>4. TypeOK'
  BY <1>1 DEF TypeOK, flagVars, handlerVars, clientVars
<1>5. WriterSide' /\ ReaderSide'
  BY <1>1, <1>2, <1>3
     DEF WriterSide, ReaderSide, SideInv, flagVars, handlerVars, clientVars
<1>6. MinimaStored' /\ NoLostWakeup'
  BY <1>1, <1>2 DEF MinimaStored, NoLostWakeup, flagVars, handlerVars
<1>7. QED
  BY <1>2, <1>3, <1>4, <1>5, <1>6

---------------------------------------------------------------------------
(* The invariant, and what it implies.                                      *)

\* A stream that has been constructed and not yet used.
LEMMA InitInv == ASSUME Init PROVE IInv
<1>1. size = 0 /\ space = Capacity
  BY CapacityAssumption DEF Init, BufferInit, size, space, HeadSub
<1>2. TypeOK
  <2>1. 0 \in Heads
    BY CapacityAssumption DEF Heads
  <2>2. storage_ \in [Cells -> Heads \cup {Modulus}]
    BY DEF Init, BufferInit
  <2>3. asked \in [Ops -> Minimums \cup {None}]
    BY DEF Init
  <2>4. write_grant \in Seq(Buffer) /\ read_grant \in Seq(Buffer)
    BY EmptySeq DEF Init
  <2>5. QED
    BY <2>1, <2>2, <2>3, <2>4 DEF Init, BufferInit, TypeOK
<1>3. FramesWellFormed /\ WriterSide /\ ReaderSide
  BY DEF Init, FramesWellFormed, WriterSide, ReaderSide, SideInv, Grants
<1>4. MinimaStored /\ NoLostWakeup
  BY DEF Init, MinimaStored, NoLostWakeup
<1>5. QED
  BY <1>1, <1>2, <1>3, <1>4, CapacityAssumption DEF IInv

\* Every step of the stream and its clients.
LEMMA StepInv == ASSUME IInv, [Next]_vars PROVE IInv'
<1>1. life \in {"alive", "closing", "dead"}
  BY DEF IInv, TypeOK
<1>2. CASE WriterStep
  <2>1. CASE \E op \in PrepareOps, m \in Minimums : AsyncPrepare(op, m)
    BY <2>1, PrepareKeeps
  <2>2. CASE Fill
    BY <2>2, FillKeeps
  <2>3. CASE \E n \in 0..Capacity : Commit(n)
    BY <2>3, CommitKeeps
  <2>4. CASE CloseForWrite
    BY <1>1, <2>4, CloseForWriteSectionKeeps DEF CloseForWrite
  <2>5. QED
    BY <1>2, <2>1, <2>2, <2>3, <2>4 DEF WriterStep
<1>3. CASE ReaderStep
  <2>1. CASE \E op \in FetchOps, m \in Minimums : AsyncFetch(op, m)
    BY <2>1, FetchKeeps
  <2>2. CASE \E n \in 0..Capacity : Consume(n)
    BY <2>2, ConsumeKeeps
  <2>3. CASE CloseForRead
    BY <1>1, <2>3, CloseForReadSectionKeeps DEF CloseForRead
  <2>4. QED
    BY <1>3, <2>1, <2>2, <2>3 DEF ReaderStep
<1>4. CASE \E op \in Ops : Answer(op)
  BY <1>4, RunHandlerKeeps DEF Answer
<1>5. CASE DestroyBegins
  BY <1>5, CloseForReadSectionKeeps DEF DestroyBegins
<1>6. CASE DestroyEnds
  BY <1>6, CloseForWriteSectionKeeps DEF DestroyEnds
<1>7. CASE Terminated \/ UNCHANGED vars
  BY <1>7, StutterKeeps DEF Terminated
<1>8. QED
  BY <1>2, <1>3, <1>4, <1>5, <1>6, <1>7 DEF Next

\* The invariant holds in every reachable state of every stream.
THEOREM Invariance == Spec => []IInv
<1>1. Init => IInv
  BY InitInv
<1>2. IInv /\ [Next]_vars => IInv'
  BY StepInv
<1>3. QED
  BY <1>1, <1>2, PTL DEF Spec

\* The stream's state is well-typed, its heads and its queue of calls included.
THEOREM TypeCorrect == Spec => []TypeOK
<1>1. IInv => TypeOK
  BY DEF IInv
<1>2. QED
  BY <1>1, Invariance, PTL

\* Nobody waits for what is already there (commit lines 98-105, consume lines
\* 208-215), nor on a closed stream.
THEOREM WakeupsAreNotLost == Spec => []NoLostWakeup
<1>1. IInv => NoLostWakeup
  BY DEF IInv
<1>2. QED
  BY <1>1, Invariance, PTL

\* Reader and writer wait for each other only if they ask for more than
\* Capacity + 1 bytes between them.
THEOREM NoMutualWait == Spec => []MutualWaitOnlyIfOversized
<1>1. ASSUME IInv, fetch_handler_ # None, prepare_handler_ # None
      PROVE  minimum_to_fetch_ + minimum_to_prepare_ >= Capacity + 2
  <2>1. minimum_to_fetch_ \in Nat /\ minimum_to_prepare_ \in Nat
    BY <1>1, StreamAssumption DEF IInv, MinimaStored, TypeOK
  <2>2. size < minimum_to_fetch_ /\ space < minimum_to_prepare_
    BY <1>1 DEF IInv, NoLostWakeup
  <2>3. size \in 0..Capacity /\ space = Capacity - size
    BY <1>1, Room DEF IInv
  <2>4. QED
    BY <2>1, <2>2, <2>3, CapacityAssumption
<1>2. IInv => MutualWaitOnlyIfOversized
  BY <1>1 DEF MutualWaitOnlyIfOversized
<1>3. QED
  BY <1>2, Invariance, PTL

\* A call that is to be made with buffers is the first of its frame.
LEMMA SuccessComesFirst ==
  ASSUME FramesWellFormed, NEW turn \in Turns, CallAt(turn).ec = "success"
  PROVE  turn[2] = 1 /\ turn[1] \in inflight /\ CallAt(turn) = turn[1][1]
         /\ turn = <<turn[1], 1>>
  BY DEF FramesWellFormed, Turns, CallAt

\* The buffers a side has or is about to have are those of the invariant.
LEMMA GrantedIsCovered ==
  ASSUME FramesWellFormed, NEW ops, NEW held,
         NEW in_progress, NEW handler, NEW room,
         SideInv(ops, held, in_progress, handler, room)
  PROVE  \A b \in Granted(ops, held) : in_progress /\ Total(b) <= room
<1> SUFFICES ASSUME NEW b \in Granted(ops, held)
             PROVE  in_progress /\ Total(b) <= room
  OBVIOUS
<1>1. CASE held # <<>> /\ b = held
  BY <1>1 DEF SideInv
<1>2. CASE \E call \in CallsToMake :
             call.op \in ops /\ call.ec = "success" /\ b = call.buffers
  <2>1. PICK turn \in Turns : /\ CallAt(turn).op \in ops
                              /\ CallAt(turn).ec = "success"
                              /\ b = CallAt(turn).buffers
    BY <1>2 DEF CallsToMake
  <2>2. turn[1] \in Grants(ops) /\ b = turn[1][1].buffers
    BY <2>1, SuccessComesFirst DEF Grants
  <2>3. QED
    BY <2>2 DEF SideInv
<1>3. QED
  BY <1>1, <1>2 DEF Granted

\* The assertions of commit, consume, data and prepare hold (lines 94-95,
\* 204-205; circular_buffer.h:30, 35, 46, 51).
THEOREM NoAssertionFails == Spec => []AssertionsHold
<1>1. ASSUME IInv PROVE AssertionsHold
  <2>1. \A b \in WriterBuffers : write_in_progress_ /\ Total(b) <= space
    BY <1>1, GrantedIsCovered DEF IInv, WriterSide, WriterBuffers
  <2>2. \A b \in ReaderBuffers : read_in_progress_ /\ Total(b) <= size
    BY <1>1, GrantedIsCovered DEF IInv, ReaderSide, ReaderBuffers
  <2>3. QED
    BY <1>1, <2>1, <2>2 DEF IInv, AssertionsHold
<1>2. QED
  BY <1>1, Invariance, PTL

\* What SideInv says of one side is that it has one grant at most.
LEMMA OneGrantOfASide ==
  ASSUME FramesWellFormed, NEW ops, NEW held,
         NEW in_progress, NEW handler, NEW room,
         SideInv(ops, held, in_progress, handler, room)
  PROVE  LET turns == {turn \in Turns : CallAt(turn).op \in ops
                                        /\ CallAt(turn).ec = "success"}
         IN  turns = {} \/ (held = <<>> /\ \E turn \in turns : turns = {turn})
<1> DEFINE turns == {turn \in Turns : CallAt(turn).op \in ops
                                      /\ CallAt(turn).ec = "success"}
<1>1. ASSUME NEW turn \in turns
      PROVE  turn[1] \in Grants(ops) /\ turn = <<turn[1], 1>>
  BY SuccessComesFirst DEF Grants
<1>2. ASSUME NEW turn \in turns
      PROVE  held = <<>> /\ turns = {turn}
  <2>1. held = <<>>
    BY <1>1 DEF SideInv
  <2>2. ASSUME NEW other \in turns PROVE other = turn
    <3>1. other[1] = turn[1]
      BY <1>1 DEF SideInv
    <3>2. QED
      BY <1>1, <3>1
  <2>3. QED
    BY <2>1, <2>2
<1> HIDE DEF turns
<1>3. turns = {} \/ (held = <<>> /\ \E turn \in turns : turns = {turn})
  BY <1>2
<1>4. QED
  BY <1>3 DEF turns

\* At most one writer and at most one reader have buffers at a time.
THEOREM SidesAreExclusive == Spec => []OneGrantPerSide
<1>1. ASSUME IInv PROVE OneGrantPerSide
  <2> SUFFICES
        ASSUME NEW ops \in {PrepareOps, FetchOps}
        PROVE  LET held == IF ops = PrepareOps
                           THEN write_grant ELSE read_grant
                   turns == {turn \in Turns : CallAt(turn).op \in ops
                                              /\ CallAt(turn).ec = "success"}
               IN  \/ turns = {}
                   \/ held = <<>> /\ \E turn \in turns : turns = {turn}
    BY DEF OneGrantPerSide
  <2>1. CASE ops = PrepareOps
    BY <1>1, <2>1, OneGrantOfASide DEF IInv, WriterSide
  <2>2. CASE ops # PrepareOps
    BY <1>1, <2>2, OneGrantOfASide DEF IInv, ReaderSide
  <2>3. QED
    BY <2>1, <2>2
<1>2. QED
  BY <1>1, Invariance, PTL

---------------------------------------------------------------------------
(* Where the bytes are: cells by their distance from a head.                *)

\* A number has one remainder.
LEMMA ModUnique ==
  ASSUME NEW C \in Nat \ {0}, NEW q \in Int, NEW r \in 0..(C - 1)
  PROVE  (q * C + r) % C = r
<1> DEFINE a == q * C + r
           p == a \div C
           s == a % C
<1>1. a = C * p + s /\ s \in 0..(C - 1) /\ p \in Int
  OBVIOUS
<1> HIDE DEF p, s
<1>2. q = p
  <2>1. CASE q > p
    <3>1. (q - p) * C >= C
      BY <1>1, <2>1
    <3>2. QED
      BY <1>1, <3>1
  <2>2. CASE q < p
    <3>1. (p - q) * C >= C
      BY <1>1, <2>2
    <3>2. QED
      BY <1>1, <3>1
  <2>3. QED
    BY <1>1, <2>1, <2>2
<1>3. QED
  BY <1>1, <1>2 DEF s

\* Cell by cell a head goes through the storage and round its end, also when
\* the head itself wraps, because the capacity divides the modulus.
LEMMA NextCells ==
  ASSUME NEW h \in Heads, NEW i \in 0..Capacity
  PROVE  Masked(HeadAdd(h, i)) = IF Masked(h) + i < Capacity
                                 THEN Masked(h) + i
                                 ELSE Masked(h) + i - Capacity
<1> DEFINE C == Capacity
           o == h % C
           q == h \div C
           k == Modulus \div C
<1>1. C \in Nat \ {0} /\ h \in Nat /\ i \in 0..C /\ Modulus \in Nat
  BY CapacityAssumption DEF Heads
<1>2. h = q * C + o /\ o \in 0..(C - 1) /\ q \in Int
  BY <1>1
<1>3. Modulus = k * C /\ k \in Int
  BY <1>1, MaskAssumption
<1> HIDE DEF C, o, q, k
<1>4. \E p \in Int : HeadAdd(h, i) = p * C + (o + i)
  <2>1. CASE h + i < Modulus
    BY <1>1, <1>2, <2>1 DEF HeadAdd
  <2>2. CASE h + i >= Modulus
    <3>1. HeadAdd(h, i) = (q - k) * C + (o + i)
      BY <1>1, <1>2, <1>3, <2>2 DEF HeadAdd
    <3>2. QED
      BY <1>2, <1>3, <3>1
  <2>3. QED
    BY <1>1, <2>1, <2>2
<1>5. PICK p \in Int : HeadAdd(h, i) = p * C + (o + i)
  BY <1>4
<1>6. CASE o + i < C
  <2>1. o + i \in 0..(C - 1)
    BY <1>1, <1>2, <1>6
  <2>2. (p * C + (o + i)) % C = o + i
    BY <1>1, <2>1, ModUnique
  <2>3. QED
    BY <1>5, <1>6, <2>2 DEF Masked, C, o
<1>7. CASE o + i >= C
  <2> DEFINE next == p + 1
             rest == o + i - C
  <2>1. HeadAdd(h, i) = next * C + rest /\ next \in Int /\ rest \in 0..(C - 1)
    BY <1>1, <1>2, <1>5, <1>7
  <2> HIDE DEF next
  <2>2. (next * C + rest) % C = rest
    <3> HIDE DEF rest
    <3>1. QED
      BY <1>1, <2>1, ModUnique
  <2>3. HeadAdd(h, i) % C = rest /\ ~(o + i < C)
    BY <1>1, <1>2, <1>7, <2>1, <2>2
  <2>4. QED
    BY <2>3 DEF Masked, C, o
<1>8. QED
  BY <1>1, <1>2, <1>6, <1>7

\* Heads add up, and within the capacity no cell comes twice.
LEMMA HeadSteps ==
  ASSUME NEW h \in Heads, NEW i \in 0..Capacity, NEW j \in 0..Capacity
  PROVE  /\ HeadAdd(h, i) \in Heads
         /\ i + j <= Capacity => HeadAdd(HeadAdd(h, i), j) = HeadAdd(h, i + j)
         /\ i < Capacity /\ j < Capacity
              /\ Masked(HeadAdd(h, i)) = Masked(HeadAdd(h, j)) => i = j
<1>1. HeadAdd(h, i) \in Heads
  BY CapacityAssumption DEF Heads, HeadAdd
<1>2. i + j <= Capacity => HeadAdd(HeadAdd(h, i), j) = HeadAdd(h, i + j)
  BY CapacityAssumption DEF Heads, HeadAdd
<1>3. i < Capacity /\ j < Capacity
        /\ Masked(HeadAdd(h, i)) = Masked(HeadAdd(h, j)) => i = j
  BY NextCells, MaskedInCells, CapacityAssumption DEF Cells
<1>4. QED
  BY <1>1, <1>2, <1>3

\* The buffers begin at a head.
At(buffers, head) ==
  \A i \in 0..(Total(buffers) - 1) :
    CellAt(buffers, i) = Masked(HeadAdd(head, i))

\* GetRange goes on from the head it is given.
LEMMA RangeAt ==
  ASSUME NEW h \in Heads, NEW n \in 0..Capacity
  PROVE  At(GetRange(Masked(h), n), h)
<1> DEFINE o == Masked(h)
<1>1. o \in Cells /\ Total(GetRange(o, n)) = n
  BY MaskedInCells, RangeCovers
<1>2. SUFFICES ASSUME NEW i \in 0..(n - 1)
               PROVE  CellAt(GetRange(o, n), i) = Masked(HeadAdd(h, i))
  BY <1>1 DEF At
<1>3. i \in 0..Capacity /\ Capacity \in Nat
  BY CapacityAssumption
<1>4. Masked(HeadAdd(h, i)) =
        IF o + i < Capacity THEN o + i ELSE o + i - Capacity
  BY <1>3, NextCells
<1> HIDE DEF o
<1>5. CASE o + n <= Capacity
  BY <1>1, <1>3, <1>4, <1>5 DEF GetRange, CellAt, Cells
<1>6. CASE o + n > Capacity
  BY <1>1, <1>3, <1>4, <1>6 DEF GetRange, CellAt, Cells
<1>7. QED
  BY <1>1, <1>5, <1>6, <1>3 DEF Cells

\* The write head is as far from the read head as there is data, and a byte
\* that comes after the data is not among it.
LEMMA AfterTheData ==
  ASSUME TypeOK, size <= Capacity, NEW i \in 0..space
  PROVE  /\ size \in 0..Capacity
         /\ size + i \in 0..Capacity
         /\ HeadAdd(write_head_, i) = HeadAdd(read_head_, size + i)
         /\ i < space =>
              \A j \in 0..(size - 1) : Masked(HeadAdd(write_head_, i))
                                         # Masked(HeadAdd(read_head_, j))
<1>1. /\ size \in 0..Capacity /\ space = Capacity - size
      /\ size + i \in 0..Capacity /\ i \in 0..Capacity /\ Capacity \in Nat
  BY Room, CapacityAssumption
<1>2. read_head_ \in Heads /\ write_head_ \in Heads
  BY DEF TypeOK
<1>3. write_head_ = HeadAdd(read_head_, size)
  BY <1>1, <1>2, CapacityAssumption DEF Heads, HeadAdd, HeadSub, size
<1>4. HeadAdd(write_head_, i) = HeadAdd(read_head_, size + i)
  BY <1>1, <1>2, <1>3, HeadSteps
<1>5. ASSUME i < space, NEW j \in 0..(size - 1)
      PROVE  Masked(HeadAdd(write_head_, i)) # Masked(HeadAdd(read_head_, j))
  <2>1. j \in 0..Capacity /\ j < Capacity /\ size + i < Capacity /\ size + i # j
    BY <1>1, <1>5
  <2>2. QED
    BY <1>1, <1>2, <1>4, <2>1, HeadSteps
<1>6. QED
  BY <1>1, <1>4, <1>5

---------------------------------------------------------------------------
(* What is in the cells, and where the buffers are that the sides hold.     *)

\* The buffers that a side has been given, or is about to be, begin at its head.
Placed(ops, held, head) ==
  /\ At(held, head)
  /\ \A frame \in Grants(ops) : At(frame[1].buffers, head)

\* n bytes from the head on are those that belong there.
Stored(head, n) ==
  \A i \in 0..(n - 1) : storage_[Masked(HeadAdd(head, i))] = HeadAdd(head, i)

\* The heads count the bytes; the data, and what the writer has filled in, is
\* in its place.
BytesInv ==
  /\ read_head_ = received /\ write_head_ = sent
  /\ Stored(read_head_, size)
  /\ filled => write_grant # <<>> /\ Stored(write_head_, Total(write_grant))
  /\ Placed(PrepareOps, write_grant, write_head_)
  /\ Placed(FetchOps, read_grant, read_head_)

\* A buffer sequence covers a number of bytes.
LEMMA TotalTyped == ASSUME NEW b \in Seq(Buffer) PROVE Total(b) \in Nat
<1>1. Len(b) \in Nat /\ \A i \in 1..Len(b) : b[i] \in Buffer
  BY ElementOfSeq, LenProperties
<1>2. \A i \in 1..Len(b) : b[i].len \in Nat
  BY <1>1, CapacityAssumption DEF Buffer
<1>3. CASE b = <<>>
  BY <1>3 DEF Total
<1>4. CASE Len(b) = 1
  BY <1>2, <1>4 DEF Total
<1>5. CASE b # <<>> /\ Len(b) # 1
  <2>1. Len(b) >= 2
    BY <1>1, <1>5, EmptySeq
  <2>2. QED
    BY <1>2, <1>5, <2>1 DEF Total
<1>6. QED
  BY <1>3, <1>4, <1>5

\* A step that grants nothing and moves no head leaves the bytes alone.
LEMMA BytesKept ==
  ASSUME BytesInv, UNCHANGED <<bufferVars, clientVars>>,
         Grants(PrepareOps)' \subseteq Grants(PrepareOps),
         Grants(FetchOps)' \subseteq Grants(FetchOps)
  PROVE  BytesInv'
<1>1. size' = size
  BY BufferKept DEF bufferVars
<1>2. QED
  BY <1>1 DEF BytesInv, Stored, Placed, bufferVars, clientVars

\* What async_prepare and async_fetch do to the frames.
LEMMA PrepareFrames ==
  ASSUME IInv, NEW op \in PrepareOps, NEW m \in Minimums, AsyncPrepare(op, m)
  PROVE  /\ UNCHANGED <<bufferVars, clientVars>>
         /\ Grants(FetchOps)' = Grants(FetchOps)
         /\ Grants(PrepareOps)' \subseteq Grants(PrepareOps)
              \cup {<<Succeed(op, prepare)>>}
<1>1. op \notin FetchOps
  BY StreamAssumption DEF Ops
<1>2. CASE PrepareRefused(op, m)
  <2>1. PrepareRefusal(m) \in Errors
    BY <1>2, PrepareRefusalIsError DEF PrepareRefused
  <2>2. QED
    BY <1>2, <2>1, NewRefusal DEF PrepareRefused, AsyncPrepare, IInv
<1>3. CASE PreparePends(op, m)
  BY <1>3 DEF PreparePends, AsyncPrepare, Grants
<1>4. CASE PrepareGranted(op, m)
  BY <1>1, <1>4, NewGrant DEF PrepareGranted, AsyncPrepare, IInv
<1>5. QED
  BY <1>2, <1>3, <1>4 DEF AsyncPrepare

\* The same of async_fetch.
LEMMA FetchFrames ==
  ASSUME IInv, NEW op \in FetchOps, NEW m \in Minimums, AsyncFetch(op, m)
  PROVE  /\ UNCHANGED <<bufferVars, clientVars>>
         /\ Grants(PrepareOps)' = Grants(PrepareOps)
         /\ Grants(FetchOps)' \subseteq Grants(FetchOps)
              \cup {<<Succeed(op, data)>>}
<1>1. op \notin PrepareOps
  BY StreamAssumption DEF Ops
<1>2. CASE FetchRefused(op, m)
  <2>1. FetchRefusal(m) \in Errors
    BY <1>2, FetchRefusalIsError DEF FetchRefused
  <2>2. QED
    BY <1>2, <2>1, NewRefusal DEF FetchRefused, AsyncFetch, IInv
<1>3. CASE FetchPends(op, m)
  BY <1>3 DEF FetchPends, AsyncFetch, Grants
<1>4. CASE FetchGranted(op, m)
  BY <1>1, <1>4, NewGrant DEF FetchGranted, AsyncFetch, IInv
<1>5. QED
  BY <1>2, <1>3, <1>4 DEF AsyncFetch

\* async_prepare gives out the room after the write head.
LEMMA PrepareKeepsBytes ==
  ASSUME IInv, BytesInv, NEW op \in PrepareOps, NEW m \in Minimums,
         AsyncPrepare(op, m)
  PROVE  BytesInv'
<1>1. At(prepare, write_head_)
  BY Room, RangeAt DEF IInv, TypeOK, prepare
<1>2. size' = size
  BY PrepareFrames, BufferKept DEF bufferVars
<1>3. Placed(PrepareOps, write_grant, write_head_)'
  BY <1>1, PrepareFrames DEF BytesInv, Placed, Succeed, bufferVars, clientVars
<1>4. QED
  BY <1>2, <1>3, PrepareFrames
     DEF BytesInv, Stored, Placed, bufferVars, clientVars

\* async_fetch gives out the data after the read head.
LEMMA FetchKeepsBytes ==
  ASSUME IInv, BytesInv, NEW op \in FetchOps, NEW m \in Minimums,
         AsyncFetch(op, m)
  PROVE  BytesInv'
<1>1. At(data, read_head_)
  BY Room, RangeAt DEF IInv, TypeOK, data
<1>2. size' = size
  BY FetchFrames, BufferKept DEF bufferVars
<1>3. Placed(FetchOps, read_grant, read_head_)'
  BY <1>1, FetchFrames DEF BytesInv, Placed, Succeed, bufferVars, clientVars
<1>4. QED
  BY <1>2, <1>3, FetchFrames
     DEF BytesInv, Stored, Placed, bufferVars, clientVars

\* The writer fills its buffers, which hold no data.
LEMMA FillKeepsBytes == ASSUME IInv, BytesInv, Fill PROVE BytesInv'
<1> DEFINE n == Total(write_grant)
<1>1. /\ write_grant # <<>> /\ filled' = TRUE
      /\ UNCHANGED <<read_head_, write_head_, inflight, write_grant, read_grant,
                   sent, received>>
  BY DEF Fill
<1>2. size' = size /\ Grants(PrepareOps)' = Grants(PrepareOps)
      /\ Grants(FetchOps)' = Grants(FetchOps)
  BY <1>1, BufferKept DEF Grants
<1>3. n \in Nat /\ n <= space /\ space \in 0..Capacity /\ size <= Capacity
        /\ Capacity \in Nat
  BY <1>1, TotalTyped, Room, CapacityAssumption
     DEF IInv, TypeOK, WriterSide, SideInv
<1>4. write_head_ \in Heads /\ read_head_ \in Heads
  BY DEF IInv, TypeOK
<1>5. \A i \in 0..(n - 1) :
        CellAt(write_grant, i) = Masked(HeadAdd(write_head_, i))
  BY DEF BytesInv, Placed, At
<1>6. \A i \in 0..(n - 1) : i \in 0..space /\ i \in 0..Capacity /\ i < space
        /\ i < Capacity
  BY <1>3
<1>7. \A i, j \in 0..(n - 1) :
        CellAt(write_grant, i) = CellAt(write_grant, j) => i = j
  BY <1>4, <1>5, <1>6, HeadSteps
<1>8. \A i \in 0..(n - 1) : Masked(HeadAdd(write_head_, i)) \in Cells
  BY <1>4, <1>6, HeadSteps, MaskedInCells
<1>9. ASSUME NEW i \in 0..(n - 1)
      PROVE  storage_'[Masked(HeadAdd(write_head_, i))] =
               HeadAdd(write_head_, i)
  <2> DEFINE c == CellAt(write_grant, i)
             k == CHOOSE k \in 0..(n - 1) : CellAt(write_grant, k) = c
  <2>1. k = i
    BY <1>7
  <2>2. c \in Cells /\ c \in CellsOf(write_grant)
    BY <1>5, <1>8 DEF CellsOf
  <2>3. storage_'[c] = HeadAdd(sent, k)
    BY <2>2 DEF Fill
  <2>4. QED
    BY <1>5, <2>1, <2>3 DEF BytesInv
<1>10. ASSUME NEW j \in 0..(size - 1)
       PROVE  storage_'[Masked(HeadAdd(read_head_, j))] =
                storage_[Masked(HeadAdd(read_head_, j))]
  <2> DEFINE c == Masked(HeadAdd(read_head_, j))
  <2>1. size \in 0..Capacity /\ j \in 0..Capacity
    BY Room, <1>3 DEF IInv
  <2>2. c \in Cells
    BY <1>4, <2>1, HeadSteps, MaskedInCells
  <2>3. c \notin CellsOf(write_grant)
    <3>1. ASSUME NEW i \in 0..(n - 1), c = CellAt(write_grant, i) PROVE FALSE
      BY <1>5, <1>6, <3>1, AfterTheData DEF IInv
    <3>2. QED
      BY <3>1 DEF CellsOf
  <2>4. QED
    BY <2>2, <2>3 DEF Fill
<1>11. Stored(read_head_, size)'
  BY <1>1, <1>2, <1>10 DEF BytesInv, Stored
<1>12. Stored(write_head_, Total(write_grant))'
  BY <1>1, <1>9 DEF Stored
<1>13. QED
  BY <1>1, <1>2, <1>11, <1>12 DEF BytesInv, Placed

\* A commit makes data of what the writer has filled, from the front.
LEMMA CommitKeepsBytes ==
  ASSUME IInv, BytesInv, NEW n \in 0..Capacity, Commit(n)
  PROVE  BytesInv'
<1>1. /\ write_grant # <<>> /\ filled /\ n <= Total(write_grant)
      /\ write_grant' = <<>> /\ filled' = FALSE
      /\ write_head_' = HeadAdd(write_head_, n) /\ sent' = HeadAdd(sent, n)
      /\ UNCHANGED <<storage_, read_head_, read_grant, received>>
  BY DEF Commit, commit
<1>2. /\ Grants(PrepareOps) = {} /\ Total(write_grant) \in Nat
           /\ Total(write_grant) <= space
      /\ size \in 0..Capacity /\ space = Capacity - size /\ n \in 0..space
           /\ Capacity \in Nat
  BY <1>1, TotalTyped, Room, CapacityAssumption
     DEF IInv, TypeOK, WriterSide, SideInv
<1>3. read_head_ \in Heads /\ write_head_ \in Heads /\ write_head_' \in Heads
  BY <1>1, HeadArithmetic DEF IInv, TypeOK
<1>4. size' = size + n
  BY <1>1, <1>2, <1>3, HeadArithmetic DEF size
<1>5. Stored(read_head_, size)'
  <2>1. ASSUME NEW i \in 0..(size + n - 1)
        PROVE  storage_[Masked(HeadAdd(read_head_, i))] = HeadAdd(read_head_, i)
    <3>1. CASE i < size
      BY <1>2, <3>1 DEF BytesInv, Stored
    <3>2. CASE i >= size
      <4> DEFINE j == i - size
      <4>1. j \in 0..(Total(write_grant) - 1) /\ j \in 0..space /\ i = size + j
        BY <1>1, <1>2, <3>2
      <4>2. HeadAdd(write_head_, j) = HeadAdd(read_head_, i)
        BY <4>1, AfterTheData DEF IInv
      <4>3. storage_[Masked(HeadAdd(write_head_, j))] = HeadAdd(write_head_, j)
        BY <1>1, <4>1 DEF BytesInv, Stored
      <4>4. QED
        BY <4>2, <4>3
    <3>3. QED
      BY <1>2, <3>1, <3>2
  <2>2. QED
    BY <1>1, <1>2, <1>4, <2>1 DEF Stored
<1>6. /\ Grants(PrepareOps)' = {}
      /\ \A frame \in Grants(FetchOps)' : At(frame[1].buffers, read_head_)
  <2>1. CASE ReaderServed
    <3> DEFINE b == GetRange(Masked(read_head_),
                           HeadSub(write_head_', read_head_))
    <3>1. fetch_handler_ \in FetchOps /\ fetch_handler_ \notin PrepareOps
      BY <2>1, StreamAssumption DEF ReaderServed, IInv, TypeOK
    <3>2. Then(<<Succeed(fetch_handler_, b)>>)
      BY <2>1 DEF Commit
    <3>3. At(b, read_head_)
      BY <1>1, <1>2, <1>3, <1>4, RangeAt DEF size
    <3> HIDE DEF b
    <3>4. /\ Grants(PrepareOps)' = Grants(PrepareOps)
          /\ Grants(FetchOps)' = Grants(FetchOps)
               \cup {<<Succeed(fetch_handler_, b)>>}
      BY <3>1, <3>2, NewGrant DEF IInv
    <3>5. QED
      BY <1>2, <3>3, <3>4 DEF BytesInv, Placed, Succeed
  <2>2. CASE ~ReaderServed
    BY <1>2, <2>2 DEF Commit, Grants, BytesInv, Placed
  <2>3. QED
    BY <2>1, <2>2
<1>7. At(write_grant, write_head_)'
  BY <1>1 DEF At, Total
<1>8. QED
  BY <1>1, <1>5, <1>6, <1>7 DEF BytesInv, Placed

\* A consume leaves the data after the bytes it takes where it is.
LEMMA ConsumeKeepsBytes ==
  ASSUME IInv, BytesInv, NEW n \in 0..Capacity, Consume(n)
  PROVE  BytesInv'
<1>1. /\ read_grant # <<>> /\ n <= Total(read_grant) /\ read_grant' = <<>>
      /\ read_head_' = HeadAdd(read_head_, n)
           /\ received' = HeadAdd(received, n)
      /\ UNCHANGED <<storage_, write_head_, write_grant, filled, sent>>
  BY DEF Consume, consume
<1>2. /\ Grants(FetchOps) = {} /\ Total(read_grant) \in Nat
           /\ Total(read_grant) <= size
      /\ size \in 0..Capacity /\ n \in 0..size /\ Capacity \in Nat
  BY <1>1, TotalTyped, Room, CapacityAssumption
     DEF IInv, TypeOK, ReaderSide, SideInv
<1>3. read_head_ \in Heads /\ write_head_ \in Heads
  BY DEF IInv, TypeOK
<1>4. size' = size - n
  BY <1>1, <1>2, <1>3, HeadArithmetic DEF size
<1>5. Stored(read_head_, size)'
  <2>1. ASSUME NEW i \in 0..(size - n - 1)
        PROVE  storage_[Masked(HeadAdd(read_head_', i))] =
                 HeadAdd(read_head_', i)
    <3>1. n + i \in 0..(size - 1) /\ i \in 0..Capacity /\ n + i <= Capacity
      BY <1>2
    <3>2. HeadAdd(read_head_', i) = HeadAdd(read_head_, n + i)
      BY <1>1, <1>3, <3>1, HeadSteps
    <3>3. QED
      BY <3>1, <3>2 DEF BytesInv, Stored
  <2>2. QED
    BY <1>1, <1>4, <2>1 DEF Stored
<1>6. /\ Grants(FetchOps)' = {}
      /\ \A frame \in Grants(PrepareOps)' : At(frame[1].buffers, write_head_)
  <2>1. CASE WriterServed
    <3> DEFINE b == GetRange(Masked(write_head_),
                 Capacity - HeadSub(write_head_, read_head_'))
    <3>1. prepare_handler_ \in PrepareOps /\ prepare_handler_ \notin FetchOps
      BY <2>1, StreamAssumption DEF WriterServed, IInv, TypeOK
    <3>2. Then(<<Succeed(prepare_handler_, b)>>)
      BY <2>1 DEF Consume
    <3>3. Capacity - HeadSub(write_head_, read_head_') \in 0..Capacity
      BY <1>1, <1>2, <1>4 DEF size
    <3>4. At(b, write_head_)
      BY <1>3, <3>3, RangeAt
    <3> HIDE DEF b
    <3>5. /\ Grants(FetchOps)' = Grants(FetchOps)
          /\ Grants(PrepareOps)' = Grants(PrepareOps)
               \cup {<<Succeed(prepare_handler_, b)>>}
      BY <3>1, <3>2, NewGrant DEF IInv
    <3>6. QED
      BY <1>2, <3>4, <3>5 DEF BytesInv, Placed, Succeed
  <2>2. CASE ~WriterServed
    BY <1>2, <2>2 DEF Consume, Grants, BytesInv, Placed
  <2>3. QED
    BY <2>1, <2>2
<1>7. At(read_grant, read_head_)'
  BY <1>1 DEF At, Total
<1>8. QED
  BY <1>1, <1>5, <1>6, <1>7 DEF BytesInv, Placed, Stored

\* The closes cancel, and grant nothing.
LEMMA CloseFrames ==
  ASSUME IInv, CloseForWriteSection \/ CloseForReadSection
  PROVE  /\ UNCHANGED <<bufferVars, clientVars>>
         /\ Grants(PrepareOps)' = Grants(PrepareOps)
         /\ Grants(FetchOps)' = Grants(FetchOps)
<1>1. /\ prepare_handler_ \in Ops \cup {None}
           /\ fetch_handler_ \in Ops \cup {None}
      /\ {"shut_down", "eof", "broken_pipe"} \subseteq Errors
  BY DEF IInv, TypeOK, Ops, Errors
<1>2. UNCHANGED <<bufferVars, clientVars>>
  BY DEF CloseForWriteSection, CloseForReadSection
<1>3. CASE inflight' = inflight
  BY <1>2, <1>3 DEF Grants
<1>4. CASE Then(Cancel(prepare_handler_, "shut_down")
                  \o Cancel(fetch_handler_, "eof"))
  <2> DEFINE frame == Cancel(prepare_handler_, "shut_down")
               \o Cancel(fetch_handler_, "eof")
  <2>1. \/ frame = <<>>
        \/ Len(frame) = 1 /\ frame[1].ec # "success"
        \/ Len(frame) = 2 /\ frame[1].ec # "success" /\ frame[2].ec # "success"
    BY <1>1, CancelFrames
  <2> HIDE DEF frame
  <2>2. Then(frame)
    BY <1>4 DEF frame
  <2>3. QED
    BY <1>2, <2>1, <2>2, NewCancellation DEF IInv
<1>5. CASE Then(Cancel(fetch_handler_, "shut_down")
                  \o Cancel(prepare_handler_, "broken_pipe"))
  <2> DEFINE frame == Cancel(fetch_handler_, "shut_down")
               \o Cancel(prepare_handler_, "broken_pipe")
  <2>1. \/ frame = <<>>
        \/ Len(frame) = 1 /\ frame[1].ec # "success"
        \/ Len(frame) = 2 /\ frame[1].ec # "success" /\ frame[2].ec # "success"
    BY <1>1, CancelFrames
  <2> HIDE DEF frame
  <2>2. Then(frame)
    BY <1>5 DEF frame
  <2>3. QED
    BY <1>2, <2>1, <2>2, NewCancellation DEF IInv
<1>6. QED
  BY <1>3, <1>4, <1>5 DEF CloseForWriteSection, CloseForReadSection

\* A handler holds the buffers that were on their way to it.
LEMMA RunHandlerKeepsBytes ==
  ASSUME IInv, BytesInv, NEW frame \in inflight, RunHandler(frame)
  PROVE  BytesInv'
<1>1. UNCHANGED <<storage_, read_head_, write_head_, filled, sent, received>>
  BY DEF RunHandler, bufferVars
<1>2. size' = size
  BY <1>1, BufferKept
<1>3. /\ Grants(PrepareOps)' \subseteq Grants(PrepareOps)
      /\ Grants(FetchOps)' \subseteq Grants(FetchOps)
  BY CallMade DEF IInv
<1>4. write_grant' = write_grant
        \/ (frame \in Grants(PrepareOps) /\ write_grant' = frame[1].buffers)
  BY DEF RunHandler, Grants
<1>5. read_grant' = read_grant
        \/ (frame \in Grants(FetchOps) /\ read_grant' = frame[1].buffers)
  BY DEF RunHandler, Grants
<1>6. filled => write_grant' = write_grant
  BY <1>4 DEF BytesInv, IInv, WriterSide, SideInv
<1>7. At(write_grant, write_head_)' /\ At(read_grant, read_head_)'
  BY <1>1, <1>4, <1>5 DEF BytesInv, Placed
<1>8. QED
  BY <1>1, <1>2, <1>3, <1>6, <1>7 DEF BytesInv, Placed, Stored

\* The stream begins empty, with both heads and both counts at 0.
LEMMA InitBytes == ASSUME Init PROVE BytesInv
<1>1. size = 0
  BY CapacityAssumption DEF Init, BufferInit, size, HeadSub
<1>2. QED
  BY <1>1 DEF Init, BufferInit, BytesInv, Stored, Placed, At, Total, Grants

\* Every action preserves the places of the bytes.
LEMMA StepBytes == ASSUME IInv, BytesInv, [Next]_vars PROVE BytesInv'
<1>1. CASE WriterStep
  <2>1. CASE \E op \in PrepareOps, m \in Minimums : AsyncPrepare(op, m)
    BY <2>1, PrepareKeepsBytes
  <2>2. CASE Fill
    BY <2>2, FillKeepsBytes
  <2>3. CASE \E n \in 0..Capacity : Commit(n)
    BY <2>3, CommitKeepsBytes
  <2>4. CASE CloseForWrite
    BY <2>4, CloseFrames, BytesKept DEF CloseForWrite
  <2>5. QED
    BY <1>1, <2>1, <2>2, <2>3, <2>4 DEF WriterStep
<1>2. CASE ReaderStep
  <2>1. CASE \E op \in FetchOps, m \in Minimums : AsyncFetch(op, m)
    BY <2>1, FetchKeepsBytes
  <2>2. CASE \E n \in 0..Capacity : Consume(n)
    BY <2>2, ConsumeKeepsBytes
  <2>3. CASE CloseForRead
    BY <2>3, CloseFrames, BytesKept DEF CloseForRead
  <2>4. QED
    BY <1>2, <2>1, <2>2, <2>3 DEF ReaderStep
<1>3. CASE \E op \in Ops : Answer(op)
  BY <1>3, RunHandlerKeepsBytes DEF Answer
<1>4. CASE DestroyBegins \/ DestroyEnds
  BY <1>4, CloseFrames, BytesKept DEF DestroyBegins, DestroyEnds
<1>5. CASE Terminated \/ UNCHANGED vars
  BY <1>5, BytesKept DEF Terminated, vars, Grants
<1>6. QED
  BY <1>1, <1>2, <1>3, <1>4, <1>5 DEF Next

\* The bytes are where they belong in every reachable state.
THEOREM BytesInvariance == Spec => []BytesInv
<1>1. Init => BytesInv
  BY InitBytes
<1>2. IInv /\ BytesInv /\ [Next]_vars => BytesInv'
  BY StepBytes
<1>3. QED
  BY <1>1, <1>2, Invariance, PTL DEF Spec

\* The buffers a side has or is about to have begin at its head and stay
\* within what there is for it.
LEMMA GrantedIsPlaced ==
  ASSUME IInv, NEW ops, NEW held \in Seq(Buffer), NEW head,
         NEW in_progress, NEW handler, NEW room,
         SideInv(ops, held, in_progress, handler, room), Placed(ops, held, head)
  PROVE  \A b \in Granted(ops, held) : Total(b) \in Nat /\ Total(b) <= room
           /\ At(b, head)
<1> SUFFICES ASSUME NEW b \in Granted(ops, held)
             PROVE  Total(b) \in Nat /\ Total(b) <= room /\ At(b, head)
  OBVIOUS
<1>1. Total(b) <= room
  BY GrantedIsCovered DEF IInv
<1>2. CASE held # <<>> /\ b = held
  BY <1>1, <1>2, TotalTyped DEF Placed
<1>3. CASE \E call \in CallsToMake :
             call.op \in ops /\ call.ec = "success" /\ b = call.buffers
  <2>1. PICK turn \in Turns : /\ CallAt(turn).op \in ops
                              /\ CallAt(turn).ec = "success"
                              /\ b = CallAt(turn).buffers
    BY <1>3 DEF CallsToMake
  <2>2. turn[1] \in Grants(ops) /\ b = turn[1][1].buffers
    BY <2>1, SuccessComesFirst DEF Grants, IInv
  <2>3. b \in Seq(Buffer)
    BY <2>2, CallInFlight DEF Grants, IInv
  <2>4. QED
    BY <1>1, <2>2, <2>3, TotalTyped DEF Placed
<1>4. QED
  BY <1>2, <1>3 DEF Granted

\* What the invariants say of the buffers that are out.
LEMMA BuffersOut ==
  ASSUME IInv, BytesInv
  PROVE  /\ \A w \in WriterBuffers :
              Total(w) \in Nat /\ Total(w) <= space /\ At(w, write_head_)
         /\ \A r \in ReaderBuffers :
              Total(r) \in Nat /\ Total(r) <= size /\ At(r, read_head_)
<1>1. write_grant \in Seq(Buffer) /\ read_grant \in Seq(Buffer)
  BY DEF IInv, TypeOK
<1>2. \A w \in WriterBuffers : Total(w) \in Nat /\ Total(w) <= space
        /\ At(w, write_head_)
  BY <1>1, GrantedIsPlaced DEF IInv, WriterSide, BytesInv, WriterBuffers
<1>3. \A r \in ReaderBuffers : Total(r) \in Nat /\ Total(r) <= size
        /\ At(r, read_head_)
  BY <1>1, GrantedIsPlaced DEF IInv, ReaderSide, BytesInv, ReaderBuffers
<1>4. QED
  BY <1>2, <1>3

\* The cells that the writer fills and the reader reads, both without the
\* mutex, are never the same.
THEOREM StorageIsNotRaced == Spec => []NoRaceOnStorage
<1>1. ASSUME IInv, BytesInv, NEW w \in WriterBuffers, NEW r \in ReaderBuffers
      PROVE  CellsOf(w) \cap CellsOf(r) = {}
  <2> SUFFICES ASSUME NEW i \in 0..(Total(w) - 1), NEW j \in 0..(Total(r) - 1)
               PROVE  CellAt(w, i) # CellAt(r, j)
    BY DEF CellsOf
  <2>1. i \in 0..space /\ i < space /\ j \in 0..(size - 1)
    BY <1>1, BuffersOut, Room DEF IInv
  <2>2. /\ CellAt(w, i) = Masked(HeadAdd(write_head_, i))
        /\ CellAt(r, j) = Masked(HeadAdd(read_head_, j))
    BY <1>1, BuffersOut DEF At
  <2>3. QED
    BY <1>1, <2>1, <2>2, AfterTheData DEF IInv
<1>2. IInv /\ BytesInv => NoRaceOnStorage
  BY <1>1 DEF NoRaceOnStorage
<1>3. QED
  BY <1>2, Invariance, BytesInvariance, PTL

\* A reader finds the bytes that were committed, in order, from the first that
\* has not been consumed.
THEOREM BytesAreReadInOrder == Spec => []ReadsInOrder
<1>1. ASSUME IInv, BytesInv, NEW r \in ReaderBuffers,
             NEW i \in 0..(Total(r) - 1)
      PROVE  storage_[CellAt(r, i)] = HeadAdd(received, i)
  <2>1. CellAt(r, i) = Masked(HeadAdd(read_head_, i)) /\ i \in 0..(size - 1)
    BY <1>1, BuffersOut, Room DEF At, IInv
  <2>2. QED
    BY <1>1, <2>1 DEF BytesInv, Stored
<1>2. IInv /\ BytesInv => ReadsInOrder
  BY <1>1 DEF ReadsInOrder
<1>3. QED
  BY <1>2, Invariance, BytesInvariance, PTL

---------------------------------------------------------------------------
(* The stream is a pipe.                                                    *)

\* The places of k bytes from a head on.
From(h, k) == [i \in 1..k |-> HeadAdd(h, i - 1)]

\* A function on 1..n is a sequence of that length.
LEMMA FunctionIsSeq ==
  ASSUME NEW S, NEW n \in Nat, NEW f \in [1..n -> S]
  PROVE  f \in Seq(S) /\ Len(f) = n
<1>1. f \in Seq(S)
  BY SeqDef
<1>2. QED
  BY <1>1, LenProperties

\* The places from a head on are heads.
LEMMA FromIsSeq ==
  ASSUME NEW h \in Heads, NEW k \in 0..Capacity
  PROVE  From(h, k) \in Seq(Heads) /\ Len(From(h, k)) = k
<1>1. \A i \in 1..k : HeadAdd(h, i - 1) \in Heads
  BY HeadSteps, CapacityAssumption
<1>2. From(h, k) \in [1..k -> Heads]
  BY <1>1 DEF From
<1>3. QED
  BY <1>2, FunctionIsSeq, CapacityAssumption

\* More bytes at the end.
LEMMA FromGrows ==
  ASSUME NEW h \in Heads, NEW k \in 0..Capacity, NEW n \in 0..Capacity,
         k + n <= Capacity
  PROVE  From(h, k) \o From(HeadAdd(h, k), n) = From(h, k + n)
<1> DEFINE s == From(h, k)
           t == From(HeadAdd(h, k), n)
           u == From(h, k + n)
<1>1. HeadAdd(h, k) \in Heads /\ k + n \in 0..Capacity
  BY HeadSteps, CapacityAssumption
<1>2. /\ s \in Seq(Heads) /\ Len(s) = k /\ t \in Seq(Heads) /\ Len(t) = n
      /\ u \in Seq(Heads) /\ Len(u) = k + n
  BY <1>1, FromIsSeq
<1>3. /\ s \o t \in Seq(Heads) /\ Len(s \o t) = k + n
      /\ \A i \in 1..(k + n) : (s \o t)[i] = IF i <= k THEN s[i] ELSE t[i - k]
  <2> HIDE DEF s, t, u
  <2>1. QED
    BY <1>2, ConcatProperties
<1>4. ASSUME NEW i \in 1..(k + n)
      PROVE  (s \o t)[i] = u[i]
  <2>1. CASE i <= k
    BY <1>3, <2>1 DEF From
  <2>2. CASE i > k
    <3>1. i - k - 1 \in 0..Capacity /\ k + (i - k - 1) <= Capacity
            /\ k + (i - k - 1) = i - 1
      BY <2>2, CapacityAssumption
    <3>2. HeadAdd(HeadAdd(h, k), i - k - 1) = HeadAdd(h, i - 1)
      BY <3>1, HeadSteps
    <3>3. t[i - k] = HeadAdd(HeadAdd(h, k), i - k - 1)
            /\ u[i] = HeadAdd(h, i - 1)
      BY <2>2 DEF From
    <3>4. QED
      BY <1>3, <2>2, <3>2, <3>3
  <2>3. i <= k \/ i > k
    <3>1. i \in Int /\ k \in Int
      BY CapacityAssumption
    <3>2. QED
      BY <3>1
  <2> HIDE DEF s, t, u
  <2>4. QED
    BY <2>1, <2>2, <2>3
<1>5. QED
  <2> HIDE DEF s, t, u
  <2>1. s \o t = u
    BY <1>2, <1>3, <1>4, SeqEqual
  <2>2. QED
    BY <2>1 DEF s, t, u

\* Fewer bytes at the front.
LEMMA FromShrinks ==
  ASSUME NEW h \in Heads, NEW k \in 0..Capacity, NEW n \in 0..k
  PROVE  SubSeq(From(h, k), n + 1, k) = From(HeadAdd(h, n), k - n)
<1> DEFINE s == From(h, k)
           u == From(HeadAdd(h, n), k - n)
<1>1. n \in 0..Capacity /\ k - n \in 0..Capacity /\ HeadAdd(h, n) \in Heads
  BY HeadSteps, CapacityAssumption
<1>2. /\ s \in Seq(Heads) /\ Len(s) = k
      /\ u \in Seq(Heads) /\ Len(u) = k - n
  BY <1>1, FromIsSeq
<1>3. /\ SubSeq(s, n + 1, k) \in Seq(Heads) /\ Len(SubSeq(s, n + 1, k)) = k - n
      /\ \A i \in 1..(k - n) : SubSeq(s, n + 1, k)[i] = s[n + i]
  <2> HIDE DEF s, u
  <2>1. \A i \in (n + 1)..k : s[i] \in Heads
    BY <1>2, ElementOfSeq
  <2>2. n + 1 \in Int /\ k \in Int
    OBVIOUS
  <2>3. /\ SubSeq(s, n + 1, k) \in Seq(Heads)
        /\ Len(SubSeq(s, n + 1, k)) = IF n + 1 <= k THEN k - (n + 1) + 1 ELSE 0
        /\ \A i \in 1..(k - (n + 1) + 1) : SubSeq(s, n + 1, k)[i] =
             s[(n + 1) + i - 1]
    BY <2>1, <2>2, SubSeqProperties
  <2>4. QED
    BY <2>3
<1>4. ASSUME NEW i \in 1..(k - n)
      PROVE  s[n + i] = u[i]
  <2>1. i - 1 \in 0..Capacity /\ n + (i - 1) <= Capacity
          /\ n + (i - 1) = n + i - 1
    BY CapacityAssumption
  <2>2. HeadAdd(HeadAdd(h, n), i - 1) = HeadAdd(h, n + i - 1)
    BY <1>1, <2>1, HeadSteps
  <2>3. QED
    BY <2>2 DEF From
<1>5. QED
  <2> HIDE DEF s, u
  <2>1. SubSeq(s, n + 1, k) = u
    BY <1>2, <1>3, <1>4, SeqEqual
  <2>2. QED
    BY <2>1 DEF s, u

\* Unsigned addition is addition modulo the width.
LEMMA HeadAddIsModulo ==
  ASSUME NEW h \in Heads, NEW n \in 0..Capacity
  PROVE  (h + n) % Modulus = HeadAdd(h, n)
<1>1. Modulus \in Nat \ {0}
  BY CapacityAssumption
<1>2. CASE h + n < Modulus
  <2>1. h + n \in 0..(Modulus - 1)
    BY <1>2, CapacityAssumption DEF Heads
  <2>2. (0 * Modulus + (h + n)) % Modulus = h + n
    BY <1>1, <2>1, ModUnique
  <2>3. QED
    BY <1>1, <1>2, <2>2, CapacityAssumption DEF HeadAdd, Heads
<1>3. CASE h + n >= Modulus
  <2> DEFINE rest == h + n - Modulus
  <2>1. rest \in 0..(Modulus - 1) /\ h + n = 1 * Modulus + rest
    BY <1>3, CapacityAssumption DEF Heads
  <2>2. (1 * Modulus + rest) % Modulus = rest
    <3> HIDE DEF rest
    <3>1. QED
      BY <1>1, <2>1, ModUnique
  <2>3. QED
    BY <1>3, <2>1, <2>2, CapacityAssumption DEF HeadAdd, Heads
<1>4. QED
  BY <1>2, <1>3, CapacityAssumption DEF Heads

\* What the pipe holds.
Content == [i \in 1..size |-> storage_[Masked(HeadAdd(read_head_, i - 1))]]

\* The bytes in the stream are the places from the read head on.
LEMMA ContentIsFrom == IInv /\ BytesInv => Content = From(read_head_, size)
<1> SUFFICES ASSUME IInv, BytesInv PROVE Content = From(read_head_, size)
  OBVIOUS
<1>1. \A i \in 1..size : storage_[Masked(HeadAdd(read_head_, i - 1))] =
        HeadAdd(read_head_, i - 1)
  BY Room DEF IInv, BytesInv, Stored
<1>2. QED
  BY <1>1 DEF Content, From

\* A commit of some bytes sends them.
LEMMA CommitSends ==
  ASSUME IInv, BytesInv, IInv', BytesInv', NEW n \in 1..Capacity, Commit(n)
  PROVE  Pipe!Send(n)
<1>1. /\ write_head_' = HeadAdd(write_head_, n) /\ read_head_' = read_head_
      /\ n <= Total(write_grant) /\ write_grant # <<>>
      /\ UNCHANGED <<closed_for_write_, closed_for_read_>>
  BY DEF Commit, commit
<1>2. /\ Total(write_grant) \in Nat /\ Total(write_grant) <= space
      /\ size \in 0..Capacity /\ space = Capacity - size /\ Capacity \in Nat
      /\ n \in 0..Capacity /\ size + n <= Capacity
  BY <1>1, TotalTyped, Room, CapacityAssumption
     DEF IInv, TypeOK, WriterSide, SideInv
<1>3. read_head_ \in Heads /\ write_head_ \in Heads
  BY DEF IInv, TypeOK
<1>4. size' = size + n
  BY <1>1, <1>2, <1>3, HeadArithmetic DEF size
<1>5. write_head_ = HeadAdd(read_head_, size)
  BY <1>2, <1>3, CapacityAssumption DEF Heads, HeadAdd, HeadSub, size
<1>6. [i \in 1..n |-> (sent + i - 1) % Modulus] = From(write_head_, n)
  <2>1. ASSUME NEW i \in 1..n
               PROVE (sent + i - 1) % Modulus = HeadAdd(write_head_, i - 1)
    <3>1. i - 1 \in 0..Capacity /\ sent = write_head_
            /\ sent + i - 1 = write_head_ + (i - 1)
      BY <1>2, <1>3 DEF BytesInv, Heads
    <3>2. QED
      BY <1>3, <3>1, HeadAddIsModulo
  <2>2. QED
    BY <2>1 DEF From
<1>7. Content' = Content \o From(write_head_, n)
  <2>1. Content = From(read_head_, size)
    BY ContentIsFrom
  <2>2. Content' = From(read_head_, size + n)
    <3>1. (IInv /\ BytesInv => Content = From(read_head_, size))'
      BY ContentIsFrom, PTL
    <3>2. QED
      BY <1>1, <1>4, <3>1 DEF From
  <2>3. QED
    BY <1>2, <1>3, <1>5, <2>1, <2>2, FromGrows
<1>8. Len(Content) = size
  BY <1>2, <1>3, ContentIsFrom, FromIsSeq
<1>9. sent' = (sent + n) % Modulus
  BY <1>1, <1>2, <1>3, HeadAddIsModulo DEF BytesInv
<1>10. QED
  BY <1>1, <1>2, <1>6, <1>7, <1>8, <1>9 DEF Pipe!Send, Content

\* A consume of some bytes receives them.
LEMMA ConsumeReceives ==
  ASSUME IInv, BytesInv, IInv', BytesInv', NEW n \in 1..Capacity, Consume(n)
  PROVE  Pipe!Receive(n)
<1>1. /\ read_head_' = HeadAdd(read_head_, n) /\ write_head_' = write_head_
      /\ n <= Total(read_grant) /\ read_grant # <<>>
      /\ UNCHANGED <<closed_for_write_, closed_for_read_, sent>>
  BY DEF Consume, consume
<1>2. /\ Total(read_grant) \in Nat /\ Total(read_grant) <= size
      /\ size \in 0..Capacity /\ Capacity \in Nat
      /\ n \in 0..Capacity /\ n \in 0..size
  BY <1>1, TotalTyped, Room, CapacityAssumption
     DEF IInv, TypeOK, ReaderSide, SideInv
<1>3. read_head_ \in Heads /\ write_head_ \in Heads
  BY DEF IInv, TypeOK
<1>4. size' = size - n
  BY <1>1, <1>2, <1>3, HeadArithmetic DEF size
<1>5. Content = From(read_head_, size) /\ Len(Content) = size
  BY <1>2, <1>3, ContentIsFrom, FromIsSeq
<1>6. Content' = From(HeadAdd(read_head_, n), size - n)
  <2>1. (IInv /\ BytesInv => Content = From(read_head_, size))'
    BY ContentIsFrom, PTL
  <2>2. QED
    BY <1>1, <1>4, <2>1 DEF From
<1>7. Content' = SubSeq(Content, n + 1, Len(Content))
  BY <1>2, <1>3, <1>5, <1>6, FromShrinks
<1>8. n <= Len(Content)
  BY <1>2, <1>5
<1>9. QED
  BY <1>1, <1>7, <1>8 DEF Pipe!Receive, Content

\* Every other step leaves the bytes alone, and may close an end.
LEMMA OthersStutter ==
  ASSUME IInv, BytesInv, IInv', BytesInv', UNCHANGED <<read_head_, write_head_>>
  PROVE  Content' = Content /\ sent' = sent
<1>1. (IInv /\ BytesInv => Content = From(read_head_, size))'
  BY ContentIsFrom, PTL
<1>2. size' = size
  BY BufferKept
<1>3. Content' = Content
  BY <1>1, <1>2, ContentIsFrom DEF From
<1>4. QED
  BY <1>3 DEF BytesInv

\* Every step sends, receives, closes an end, or leaves the pipe alone.
LEMMA StepOfPipe ==
  ASSUME IInv, BytesInv, IInv', BytesInv', [Next]_vars
  PROVE  [Pipe!PipeNext]_(Pipe!pipeVars)
<1> DEFINE Still == /\ UNCHANGED <<read_head_, write_head_>>
                    /\ closed_for_write_' \in {closed_for_write_, TRUE}
                    /\ closed_for_read_' \in {closed_for_read_, TRUE}
<1>1. CASE Still
  BY <1>1, OthersStutter DEF Pipe!PipeNext, Pipe!Close, Pipe!pipeVars, Content
<1>2. CASE \E n \in 0..Capacity : Commit(n)
  <2>1. PICK n \in 0..Capacity : Commit(n)
    BY <1>2
  <2>2. CASE n = 0
    <3>1. Still
      BY <2>1, <2>2, CapacityAssumption
         DEF Commit, commit, HeadAdd, IInv, TypeOK, Heads
    <3>2. QED
      BY <3>1, <1>1
  <2>3. CASE n # 0
    <3>1. n \in 1..Capacity
      BY <2>3, CapacityAssumption
    <3>2. QED
      BY <2>1, <3>1, CommitSends DEF Pipe!PipeNext
  <2>4. QED
    BY <2>2, <2>3
<1>3. CASE \E n \in 0..Capacity : Consume(n)
  <2>1. PICK n \in 0..Capacity : Consume(n)
    BY <1>3
  <2>2. CASE n = 0
    <3>1. Still
      BY <2>1, <2>2, CapacityAssumption
         DEF Consume, consume, HeadAdd, IInv, TypeOK, Heads
    <3>2. QED
      BY <3>1, <1>1
  <2>3. CASE n # 0
    <3>1. n \in 1..Capacity
      BY <2>3, CapacityAssumption
    <3>2. QED
      BY <2>1, <3>1, ConsumeReceives DEF Pipe!PipeNext
  <2>4. QED
    BY <2>2, <2>3
<1>4. CASE \/ \E op \in PrepareOps, m \in Minimums : AsyncPrepare(op, m)
           \/ \E op \in FetchOps, m \in Minimums : AsyncFetch(op, m)
           \/ Fill
  BY <1>4, <1>1 DEF AsyncPrepare, AsyncFetch, Fill, bufferVars, flagVars
<1>5. CASE CloseForWrite \/ CloseForRead \/ DestroyBegins \/ DestroyEnds
  BY <1>5, <1>1 DEF CloseForWrite, CloseForRead, DestroyBegins, DestroyEnds,
     CloseForWriteSection, CloseForReadSection, bufferVars
<1>6. CASE \E op \in Ops : Answer(op)
  BY <1>6, <1>1 DEF Answer, RunHandler, bufferVars, flagVars
<1>7. CASE Terminated \/ UNCHANGED vars
  BY <1>7, <1>1 DEF Terminated, vars, bufferVars, flagVars
<1>8. QED
  BY <1>2, <1>3, <1>4, <1>5, <1>6, <1>7 DEF Next, WriterStep, ReaderStep

\* The stream is a FIFO of bytes whose ends can be closed, whatever its
\* capacity, its clients and their minima.
THEOREM IsAPipe == Spec => ImplementsPipe
<1>1. Init => Pipe!PipeInit
  <2>1. ASSUME Init PROVE Pipe!PipeInit
    <3>1. size = 0
      BY <2>1, CapacityAssumption DEF Init, BufferInit, size, HeadSub
    <3>2. Content = <<>>
      BY <3>1 DEF Content
    <3>3. QED
      BY <2>1, <3>2 DEF Init, Pipe!PipeInit, Content
  <2>2. QED
    BY <2>1
<1>2. IInv /\ BytesInv /\ IInv' /\ BytesInv' /\ [Next]_vars =>
        [Pipe!PipeNext]_(Pipe!pipeVars)
  BY StepOfPipe
<1>3. QED
  BY <1>1, <1>2, Invariance, BytesInvariance, PTL
     DEF Spec, ImplementsPipe, Pipe!PipeSpec

---------------------------------------------------------------------------
(* Every call is in one place.                                              *)

TurnsOf(op) == {turn \in Turns : CallAt(turn).op = op}
Slotted(op) == op \in {fetch_handler_, prepare_handler_}

\* Where op is, given whether it has been answered.
Owned(op) ==
  /\ asked[op] = None => TurnsOf(op) = {} /\ ~Slotted(op)
  /\ asked[op] # None /\ Slotted(op) => TurnsOf(op) = {}
  /\ asked[op] # None /\ ~Slotted(op) =>
       \E turn \in TurnsOf(op) : TurnsOf(op) = {turn}

AllOwned == \A op \in Ops : Owned(op)

\* The property, said in these words.
LEMMA OwnedOps == OneOwner <=> AllOwned
BY DEF OneOwner, AllOwned, Owned, TurnsOf, Slotted

\* A new frame of one call adds the turn of that call.
LEMMA NewTurn ==
  ASSUME NEW call, Then(<<call>>), NEW op
  PROVE  TurnsOf(op)' = IF call.op = op
                        THEN TurnsOf(op) \cup {<< <<call>>, 1 >>}
                        ELSE TurnsOf(op)
<1>1. inflight' = inflight \cup {<<call>>}
  BY DEF Then
<1>2. \A turn : turn \in Turns' <=> turn \in Turns \/ turn = << <<call>>, 1 >>
  BY <1>1 DEF Turns
<1>3. \A turn : turn \in TurnsOf(op)' <=>
        turn \in Turns' /\ CallAt(turn).op = op
  BY DEF TurnsOf, CallAt
<1>4. CallAt(<< <<call>>, 1 >>) = call
  BY DEF CallAt
<1>5. QED
  BY <1>2, <1>3, <1>4 DEF TurnsOf

\* A new frame of two calls adds both turns (the closes).
LEMMA NewTurns ==
  ASSUME NEW first, NEW second, Then(<<first, second>>), NEW op
  PROVE  TurnsOf(op)' = TurnsOf(op)
                          \cup (IF first.op = op
                                THEN {<< <<first, second>>, 1 >>} ELSE {})
                          \cup (IF second.op = op
                                THEN {<< <<first, second>>, 2 >>} ELSE {})
<1> DEFINE frame == <<first, second>>
<1>1. inflight' = inflight \cup {frame}
  BY DEF Then
<1>2. \A turn : turn \in Turns' <=>
        turn \in Turns \/ turn = <<frame, 1>> \/ turn = <<frame, 2>>
  BY <1>1 DEF Turns
<1>3. \A turn : turn \in TurnsOf(op)' <=>
        turn \in Turns' /\ CallAt(turn).op = op
  BY DEF TurnsOf, CallAt
<1>4. CallAt(<<frame, 1>>) = first /\ CallAt(<<frame, 2>>) = second
  BY DEF CallAt
<1> HIDE DEF frame
<1>5. TurnsOf(op)' = TurnsOf(op)
                       \cup (IF first.op = op THEN {<<frame, 1>>} ELSE {})
                       \cup (IF second.op = op THEN {<<frame, 2>>} ELSE {})
  BY <1>2, <1>3, <1>4 DEF TurnsOf
<1>6. QED
  BY <1>5 DEF frame

\* A call that is made takes its turn away; what is left of its frame has a
\* turn of its own.
LEMMA TurnMade ==
  ASSUME TypeOK, FramesWellFormed, NEW frame \in inflight, RunHandler(frame),
         NEW op
  PROVE  TurnsOf(op)' = (TurnsOf(op) \ {<<frame, 1>>, <<frame, 2>>})
                          \cup (IF Len(frame) = 2 /\ frame[2].op = op
                                THEN {<<Tail(frame), 1>>} ELSE {})
<1>1. \A turn : turn \in TurnsOf(op)' <=>
        turn \in Turns' /\ CallAt(turn).op = op
  BY DEF TurnsOf, CallAt
<1>2. CASE Len(frame) = 1
  <2>1. inflight' = inflight \ {frame}
    BY <1>2 DEF RunHandler
  <2>2. \A turn : turn \in Turns' <=>
          turn \in Turns /\ turn \notin {<<frame, 1>>, <<frame, 2>>}
    BY <2>1 DEF Turns
  <2>3. QED
    BY <1>1, <1>2, <2>2 DEF TurnsOf
<1>3. CASE Len(frame) = 2
  <2>1. inflight' = (inflight \ {frame}) \cup {Tail(frame)}
    BY <1>3 DEF RunHandler
  <2> DEFINE rest == Tail(frame)
  <2>2. Len(rest) = 1 /\ rest[1] = frame[2]
    BY <1>3, LastCall DEF TypeOK
  <2> HIDE DEF rest
  <2>3. \A turn : turn \in Turns' <=>
          \/ turn \in Turns /\ turn \notin {<<frame, 1>>, <<frame, 2>>}
          \/ turn = <<rest, 1>>
    BY <1>3, <2>1, <2>2 DEF Turns, rest
  <2>4. CallAt(<<rest, 1>>) = frame[2]
    BY <2>2 DEF CallAt
  <2>5. TurnsOf(op)' = (TurnsOf(op) \ {<<frame, 1>>, <<frame, 2>>})
                          \cup (IF frame[2].op = op THEN {<<rest, 1>>} ELSE {})
    BY <1>1, <2>3, <2>4 DEF TurnsOf
  <2>6. QED
    BY <1>3, <2>5 DEF rest
<1>4. QED
  BY <1>2, <1>3 DEF FramesWellFormed

\* What a step leaves alone leaves the turns alone.
LEMMA TurnsKept ==
  ASSUME inflight' = inflight, NEW op
  PROVE  TurnsOf(op)' = TurnsOf(op)
BY DEF TurnsOf, Turns, CallAt


\* Three ways for a call to stay in one place.  It is left alone.
LEMMA StaysOwned ==
  ASSUME NEW op, Owned(op), asked'[op] = asked[op], TurnsOf(op)' = TurnsOf(op),
         Slotted(op)' <=> Slotted(op)
  PROVE  Owned(op)'
BY DEF Owned

\* It goes into a frame, and has no other place.
LEMMA SentIsOwned ==
  ASSUME NEW op, NEW turn, TurnsOf(op) = {}, asked'[op] # None, ~Slotted(op)',
         TurnsOf(op)' = TurnsOf(op) \cup {turn}
  PROVE  Owned(op)'
<1>1. TurnsOf(op)' = {turn}
  OBVIOUS
<1>2. QED
  BY <1>1 DEF Owned

\* It goes into its slot, and has no turn.
LEMMA WaitingIsOwned ==
  ASSUME NEW op, TurnsOf(op) = {}, asked'[op] # None, Slotted(op)',
         TurnsOf(op)' = TurnsOf(op)
  PROVE  Owned(op)'
BY DEF Owned

\* A call in its slot has no turn, and has not been answered.
LEMMA SlottedIsFree ==
  ASSUME NEW op, Owned(op), Slotted(op)
  PROVE  TurnsOf(op) = {} /\ asked[op] # None
BY DEF Owned

\* The slots hold calls of their own side.
LEMMA SlotsApart ==
  ASSUME IInv, NEW op \in Ops
  PROVE  /\ op = fetch_handler_ => op # prepare_handler_
         /\ op # None
         /\ (Slotted(op) <=> op = fetch_handler_ \/ op = prepare_handler_)
BY StreamAssumption DEF IInv, TypeOK, Slotted, Ops

\* async_prepare and async_fetch put a new call into a frame ...
LEMMA AskSends ==
  ASSUME IInv, OneOwner, NEW op \in Ops, NEW m \in Minimums, Ask(op, m),
         NEW call, call.op = op, Then(<<call>>),
         UNCHANGED <<fetch_handler_, prepare_handler_>>
  PROVE  OneOwner'
<1>1. m # None /\ asked[op] = None /\ asked' = [asked EXCEPT ![op] = m]
  BY StreamAssumption DEF Ask
<1>2. asked'[op] # None /\ \A o \in Ops : o # op => asked'[o] = asked[o]
  BY <1>1 DEF IInv, TypeOK
<1>3. TurnsOf(op) = {} /\ ~Slotted(op) /\ \A o \in Ops : Owned(o)
  BY <1>1, OwnedOps DEF AllOwned, Owned
<1>4. ASSUME NEW o \in Ops PROVE Owned(o)'
  <2>1. Slotted(o)' <=> Slotted(o)
    BY DEF Slotted
  <2>2. CASE o = op
    <3>1. TurnsOf(o)' = TurnsOf(o) \cup {<< <<call>>, 1 >>}
      BY <2>2, NewTurn
    <3>2. QED
      BY <1>2, <1>3, <2>1, <2>2, <3>1, SentIsOwned
  <2>3. CASE o # op
    <3>1. TurnsOf(o)' = TurnsOf(o)
      BY <2>3, NewTurn
    <3>2. QED
      BY <1>2, <1>3, <2>1, <2>3, <3>1, StaysOwned
  <2>4. QED
    BY <2>2, <2>3
<1>5. (OneOwner <=> AllOwned)'
  BY OwnedOps, PTL
<1>6. QED
  BY <1>4, <1>5 DEF AllOwned

\* ... or into its slot, which was empty.
LEMMA AskWaits ==
  ASSUME IInv, OneOwner, NEW op \in Ops, NEW m \in Minimums, Ask(op, m),
         UNCHANGED inflight,
         \A o \in Ops : Slotted(o)' <=> Slotted(o) \/ o = op
  PROVE  OneOwner'
<1>1. m # None /\ asked[op] = None /\ asked' = [asked EXCEPT ![op] = m]
  BY StreamAssumption DEF Ask
<1>2. asked'[op] # None /\ \A o \in Ops : o # op => asked'[o] = asked[o]
  BY <1>1 DEF IInv, TypeOK
<1>3. TurnsOf(op) = {} /\ ~Slotted(op) /\ \A o \in Ops : Owned(o)
  BY <1>1, OwnedOps DEF AllOwned, Owned
<1>4. ASSUME NEW o \in Ops PROVE Owned(o)'
  <2>1. TurnsOf(o)' = TurnsOf(o)
    BY TurnsKept
  <2>2. CASE o = op
    BY <1>2, <1>3, <2>1, <2>2, WaitingIsOwned
  <2>3. CASE o # op
    BY <1>2, <1>3, <2>1, <2>3, StaysOwned
  <2>4. QED
    BY <2>2, <2>3
<1>5. (OneOwner <=> AllOwned)'
  BY OwnedOps, PTL
<1>6. QED
  BY <1>4, <1>5 DEF AllOwned

\* async_prepare gives its call one place.
LEMMA PrepareOwned ==
  ASSUME IInv, OneOwner, NEW op \in PrepareOps, NEW m \in Minimums,
         AsyncPrepare(op, m)
  PROVE  OneOwner'
<1>1. op \in Ops /\ Ask(op, m) /\ UNCHANGED fetch_handler_
  BY DEF AsyncPrepare, Ops
<1>2. CASE PrepareRefused(op, m)
  <2> DEFINE call == Fail(op, PrepareRefusal(m))
  <2>1. call.op = op /\ Then(<<call>>) /\ UNCHANGED prepare_handler_
    BY <1>2 DEF PrepareRefused, Fail
  <2> HIDE DEF call
  <2>2. QED
    BY <1>1, <2>1, AskSends
<1>3. CASE PreparePends(op, m)
  <2>1. prepare_handler_' = op /\ UNCHANGED inflight /\ prepare_handler_ = None
    BY <1>3, PrepareRefusalIsError DEF PreparePends, IInv, WriterSide, SideInv
  <2>2. ASSUME NEW o \in Ops PROVE Slotted(o)' <=> Slotted(o) \/ o = op
    BY <1>1, <2>1, SlotsApart DEF Slotted
  <2>3. QED
    BY <1>1, <2>1, <2>2, AskWaits
<1>4. CASE PrepareGranted(op, m)
  <2> DEFINE call == Succeed(op, prepare)
  <2>1. call.op = op /\ Then(<<call>>) /\ UNCHANGED prepare_handler_
    BY <1>4 DEF PrepareGranted, Succeed
  <2> HIDE DEF call
  <2>2. QED
    BY <1>1, <2>1, AskSends
<1>5. QED
  BY <1>2, <1>3, <1>4 DEF AsyncPrepare

\* async_fetch gives its call one place.
LEMMA FetchOwned ==
  ASSUME IInv, OneOwner, NEW op \in FetchOps, NEW m \in Minimums,
         AsyncFetch(op, m)
  PROVE  OneOwner'
<1>1. op \in Ops /\ Ask(op, m) /\ UNCHANGED prepare_handler_
  BY DEF AsyncFetch, Ops
<1>2. CASE FetchRefused(op, m)
  <2> DEFINE call == Fail(op, FetchRefusal(m))
  <2>1. call.op = op /\ Then(<<call>>) /\ UNCHANGED fetch_handler_
    BY <1>2 DEF FetchRefused, Fail
  <2> HIDE DEF call
  <2>2. QED
    BY <1>1, <2>1, AskSends
<1>3. CASE FetchPends(op, m)
  <2>1. fetch_handler_' = op /\ UNCHANGED inflight /\ fetch_handler_ = None
    BY <1>3, FetchRefusalIsError DEF FetchPends, IInv, ReaderSide, SideInv
  <2>2. ASSUME NEW o \in Ops PROVE Slotted(o)' <=> Slotted(o) \/ o = op
    BY <1>1, <2>1, SlotsApart DEF Slotted
  <2>3. QED
    BY <1>1, <2>1, <2>2, AskWaits
<1>4. CASE FetchGranted(op, m)
  <2> DEFINE call == Succeed(op, data)
  <2>1. call.op = op /\ Then(<<call>>) /\ UNCHANGED fetch_handler_
    BY <1>4 DEF FetchGranted, Succeed
  <2> HIDE DEF call
  <2>2. QED
    BY <1>1, <2>1, AskSends
<1>5. QED
  BY <1>2, <1>3, <1>4 DEF AsyncFetch

\* A commit or a consume moves the other side's call from its slot to a frame.
LEMMA WakeOwned ==
  ASSUME IInv, OneOwner, UNCHANGED asked, NEW call,
         Slotted(call.op), call.op \in Ops, Then(<<call>>),
         \A o \in Ops : Slotted(o)' <=> Slotted(o) /\ o # call.op
  PROVE  OneOwner'
<1>1. \A o \in Ops : Owned(o)
  BY OwnedOps DEF AllOwned
<1>2. ASSUME NEW o \in Ops PROVE Owned(o)'
  <2>1. CASE o = call.op
    <3>1. TurnsOf(o)' = TurnsOf(o) \cup {<< <<call>>, 1 >>}
      BY <2>1, NewTurn
    <3>2. QED
      BY <1>1, <2>1, <3>1, SlottedIsFree, SentIsOwned
  <2>2. CASE o # call.op
    <3>1. TurnsOf(o)' = TurnsOf(o)
      BY <2>2, NewTurn
    <3>2. QED
      BY <1>1, <2>2, <3>1, StaysOwned
  <2>3. QED
    BY <2>1, <2>2
<1>3. (OneOwner <=> AllOwned)'
  BY OwnedOps, PTL
<1>4. QED
  BY <1>2, <1>3 DEF AllOwned

\* What touches neither slots nor frames nor calls changes no owner.
LEMMA KeptOwned ==
  ASSUME OneOwner, UNCHANGED <<inflight, asked>>,
         UNCHANGED <<fetch_handler_, prepare_handler_>>
  PROVE  OneOwner'
BY DEF OneOwner, Turns, CallAt

\* commit wakes the reader, or leaves every call where it is.
LEMMA CommitOwned ==
  ASSUME IInv, OneOwner, NEW n, Commit(n)
  PROVE  OneOwner'
<1>1. UNCHANGED <<asked, prepare_handler_>>
  BY DEF Commit
<1>2. CASE ReaderServed
  <2> DEFINE call ==
        Succeed(fetch_handler_, GetRange(Masked(read_head_),
                                         HeadSub(write_head_', read_head_)))
  <2>1. Then(<<call>>) /\ fetch_handler_' = None /\ fetch_handler_ # None
    BY <1>2 DEF Commit, ReaderServed
  <2>2. call.op = fetch_handler_
    BY DEF Succeed
  <2> HIDE DEF call
  <2>3. call.op \in Ops /\ Slotted(call.op)
    BY <2>1, <2>2 DEF IInv, TypeOK, Ops, Slotted
  <2>4. ASSUME NEW o \in Ops PROVE Slotted(o)' <=> Slotted(o) /\ o # call.op
    BY <1>1, <2>1, <2>2, SlotsApart DEF Slotted
  <2>5. QED
    BY <1>1, <2>1, <2>3, <2>4, WakeOwned
<1>3. CASE ~ReaderServed
  BY <1>1, <1>3, KeptOwned DEF Commit
<1>4. QED
  BY <1>2, <1>3 DEF AllOwned

\* consume wakes the writer, or leaves every call where it is.
LEMMA ConsumeOwned ==
  ASSUME IInv, OneOwner, NEW n, Consume(n)
  PROVE  OneOwner'
<1>1. UNCHANGED <<asked, fetch_handler_>>
  BY DEF Consume
<1>2. CASE WriterServed
  <2> DEFINE call ==
        Succeed(prepare_handler_,
                GetRange(Masked(write_head_),
                         Capacity - HeadSub(write_head_, read_head_')))
  <2>1. Then(<<call>>) /\ prepare_handler_' = None /\ prepare_handler_ # None
    BY <1>2 DEF Consume, WriterServed
  <2>2. call.op = prepare_handler_
    BY DEF Succeed
  <2> HIDE DEF call
  <2>3. call.op \in Ops /\ Slotted(call.op)
    BY <2>1, <2>2 DEF IInv, TypeOK, Ops, Slotted
  <2>4. ASSUME NEW o \in Ops PROVE Slotted(o)' <=> Slotted(o) /\ o # call.op
    BY <1>1, <2>1, <2>2, SlotsApart DEF Slotted
  <2>5. QED
    BY <1>1, <2>1, <2>3, <2>4, WakeOwned
<1>3. CASE ~WriterServed
  BY <1>1, <1>3, KeptOwned DEF Consume
<1>4. QED
  BY <1>2, <1>3 DEF AllOwned

\* Two frames of one call, one after the other.
LEMMA TwoCalls ==
  ASSUME NEW first, NEW second
  PROVE  <<first>> \o <<second>> = <<first, second>>
<1> DEFINE S == {first, second}
           a == <<first>>
           b == <<second>>
           c == <<first, second>>
<1>1. /\ a \in Seq(S) /\ Len(a) = 1 /\ a[1] = first
      /\ b \in Seq(S) /\ Len(b) = 1 /\ b[1] = second
      /\ c \in Seq(S) /\ Len(c) = 2 /\ c[1] = first /\ c[2] = second
  OBVIOUS
<1> HIDE DEF S, a, b, c
<1>2. /\ a \o b \in Seq(S) /\ Len(a \o b) = 2
      /\ \A i \in 1..2 : (a \o b)[i] = IF i <= 1 THEN a[i] ELSE b[i - 1]
  BY <1>1, ConcatProperties
<1>3. \A i \in 1..2 : (a \o b)[i] = c[i]
  BY <1>1, <1>2
<1>4. a \o b = c
  BY <1>1, <1>2, <1>3, SeqEqual
<1>5. QED
  BY <1>4 DEF a, b, c

\* A close moves what waits in both slots to one frame.
LEMMA CancelOwned ==
  ASSUME IInv, OneOwner, UNCHANGED asked, NEW h, NEW e, NEW g, NEW d,
         {h, g} = {fetch_handler_, prepare_handler_}, h = g => h = None,
         Then(Cancel(h, e) \o Cancel(g, d)),
         fetch_handler_' = None, prepare_handler_' = None
  PROVE  OneOwner'
<1>1. (\A o \in Ops : Owned(o)) /\ \A o \in Ops : ~Slotted(o)'
  BY OwnedOps, SlotsApart DEF AllOwned, Slotted
<1>2. ASSUME NEW o \in Ops PROVE Owned(o)'
  <2>1. o # None /\ (Slotted(o) <=> o \in {h, g}) /\ (h = g => h = None)
    BY SlotsApart DEF Slotted
  <2>2. CASE h = None /\ g = None
    <3>1. inflight' = inflight
      BY <2>2 DEF Then, Cancel
    <3>2. QED
      BY <1>1, <2>1, <2>2, <3>1, TurnsKept, StaysOwned
  <2>3. CASE h # None /\ g = None
    <3> DEFINE call == Fail(h, e)
    <3>1. Then(<<call>>)
      BY <2>3 DEF Cancel
    <3>2. call.op = h
      BY DEF Fail
    <3> HIDE DEF call
    <3>3. TurnsOf(o)' = IF h = o
                         THEN TurnsOf(o) \cup {<< <<call>>, 1 >>}
                         ELSE TurnsOf(o)
      BY <3>1, <3>2, NewTurn
    <3>4. QED
      BY <1>1, <2>1, <2>3, <3>3, SlottedIsFree, SentIsOwned, StaysOwned
  <2>4. CASE h = None /\ g # None
    <3> DEFINE call == Fail(g, d)
    <3>1. Then(<<call>>)
      BY <2>4 DEF Cancel
    <3>2. call.op = g
      BY DEF Fail
    <3> HIDE DEF call
    <3>3. TurnsOf(o)' = IF g = o
                         THEN TurnsOf(o) \cup {<< <<call>>, 1 >>}
                         ELSE TurnsOf(o)
      BY <3>1, <3>2, NewTurn
    <3>4. QED
      BY <1>1, <2>1, <2>4, <3>3, SlottedIsFree, SentIsOwned, StaysOwned
  <2>5. CASE h # None /\ g # None
    <3> DEFINE first == Fail(h, e)
               second == Fail(g, d)
               frame == <<first, second>>
    <3>1. Cancel(h, e) = <<first>> /\ Cancel(g, d) = <<second>>
      BY <2>5 DEF Cancel
    <3>2. first.op = h /\ second.op = g
      BY DEF Fail
    <3> HIDE DEF first, second
    <3>0. Then(<<first, second>>)
      BY <3>1, TwoCalls
    <3>3. TurnsOf(o)' = TurnsOf(o) \cup (IF h = o THEN {<<frame, 1>>} ELSE {})
                                   \cup (IF g = o THEN {<<frame, 2>>} ELSE {})
      BY <3>0, <3>2, NewTurns
    <3> HIDE DEF frame
    <3>4. CASE o = h
      <4>1. TurnsOf(o)' = TurnsOf(o) \cup {<<frame, 1>>}
        BY <2>1, <2>5, <3>3, <3>4
      <4>2. QED
        BY <1>1, <2>1, <3>4, <4>1, SlottedIsFree, SentIsOwned
    <3>5. CASE o = g
      <4>1. TurnsOf(o)' = TurnsOf(o) \cup {<<frame, 2>>}
        BY <2>1, <2>5, <3>3, <3>5
      <4>2. QED
        BY <1>1, <2>1, <3>5, <4>1, SlottedIsFree, SentIsOwned
    <3>6. CASE o # h /\ o # g
      <4>1. TurnsOf(o)' = TurnsOf(o)
        BY <3>3, <3>6
      <4>2. QED
        BY <1>1, <2>1, <3>6, <4>1, StaysOwned
    <3>7. QED
      BY <3>4, <3>5, <3>6
  <2>6. QED
    BY <2>2, <2>3, <2>4, <2>5
<1>3. (OneOwner <=> AllOwned)'
  BY OwnedOps, PTL
<1>4. QED
  BY <1>2, <1>3 DEF AllOwned

\* Either close cancels what waits, or leaves every call where it is.
LEMMA CloseOwned ==
  ASSUME IInv, OneOwner, CloseForWriteSection \/ CloseForReadSection
  PROVE  OneOwner'
<1>1. UNCHANGED asked
  BY DEF CloseForWriteSection, CloseForReadSection
<1>2. fetch_handler_ = prepare_handler_ => fetch_handler_ = None
  BY StreamAssumption DEF IInv, TypeOK
<1>3. CASE UNCHANGED <<inflight, fetch_handler_, prepare_handler_>>
  BY <1>1, <1>3, KeptOwned
<1>4. CASE /\ Then(Cancel(prepare_handler_, "shut_down")
                     \o Cancel(fetch_handler_, "eof"))
           /\ fetch_handler_' = None /\ prepare_handler_' = None
  BY <1>1, <1>2, <1>4, CancelOwned
<1>5. CASE /\ Then(Cancel(fetch_handler_, "shut_down")
                     \o Cancel(prepare_handler_, "broken_pipe"))
           /\ fetch_handler_' = None /\ prepare_handler_' = None
  BY <1>1, <1>2, <1>5, CancelOwned
<1>6. QED
  BY <1>3, <1>4, <1>5 DEF CloseForWriteSection, CloseForReadSection

\* The handler whose turn it is is called, and its call is over.
LEMMA RunHandlerOwned ==
  ASSUME IInv, OneOwner, NEW frame \in inflight, RunHandler(frame)
  PROVE  OneOwner'
<1> DEFINE op == frame[1].op
<1>1. op \in Ops /\ frame \in Seq(Call) /\ (Len(frame) = 1 \/ Len(frame) = 2)
  BY CallInFlight DEF IInv, FramesWellFormed
<1>2. /\ asked'[op] = None
      /\ \A o \in Ops : o # op => asked'[o] = asked[o]
  BY <1>1 DEF RunHandler, IInv, TypeOK
<1>3. \A o \in Ops : Slotted(o)' <=> Slotted(o)
  BY DEF RunHandler, handlerVars, Slotted
<1>4. \A o \in Ops : Owned(o)
  BY OwnedOps DEF AllOwned
<1>5. <<frame, 1>> \in TurnsOf(op)
  BY <1>1 DEF TurnsOf, Turns, CallAt
<1>6. Len(frame) = 2 => <<frame, 2>> \in TurnsOf(frame[2].op)
  BY <1>1 DEF TurnsOf, Turns, CallAt
<1>7. <<frame, 1>> # <<frame, 2>>
  OBVIOUS
<1> HIDE DEF op
<1>8. TurnsOf(op) = {<<frame, 1>>} /\ ~Slotted(op)
  BY <1>1, <1>4, <1>5 DEF Owned
<1>9. ASSUME NEW o \in Ops PROVE Owned(o)'
  <2> DEFINE a == <<frame, 1>>
             b == <<frame, 2>>
             c == <<Tail(frame), 1>>
  <2>1. TurnsOf(o)' = (TurnsOf(o) \ {a, b})
                         \cup (IF Len(frame) = 2 /\ frame[2].op = o THEN {c} ELSE {})
    BY TurnMade DEF IInv
  <2> HIDE DEF a, b, c
  <2>2. CASE o = op
    <3>1. ~(Len(frame) = 2 /\ frame[2].op = o)
      BY <1>6, <1>7, <1>8, <2>2
    <3>2. TurnsOf(o)' = {}
      BY <1>8, <2>1, <2>2, <3>1 DEF a
    <3>3. QED
      BY <1>2, <1>3, <1>8, <2>2, <3>2 DEF Owned
  <2>3. CASE o # op /\ Len(frame) = 2 /\ frame[2].op = o
    <3>1. b \in TurnsOf(o)
      BY <1>6, <2>3 DEF b
    <3>2. asked[o] # None /\ ~Slotted(o) /\ TurnsOf(o) = {b}
      BY <1>4, <3>1 DEF Owned
    <3>3. TurnsOf(o)' = {c}
      BY <2>1, <2>3, <3>2
    <3>4. asked'[o] # None /\ ~Slotted(o)'
      BY <1>2, <1>3, <2>3, <3>2
    <3>5. QED
      BY <3>3, <3>4 DEF Owned
  <2>4. CASE o # op /\ ~(Len(frame) = 2 /\ frame[2].op = o)
    <3>1. a \notin TurnsOf(o) /\ b \notin TurnsOf(o)
      BY <1>1, <2>4 DEF a, b, TurnsOf, Turns, CallAt, op
    <3>2. TurnsOf(o)' = TurnsOf(o)
      BY <2>1, <2>4, <3>1
    <3>3. QED
      BY <1>2, <1>3, <1>4, <2>4, <3>2, StaysOwned
  <2>5. QED
    BY <2>2, <2>3, <2>4
<1>10. (OneOwner <=> AllOwned)'
  BY OwnedOps, PTL
<1>11. QED
  BY <1>9, <1>10 DEF AllOwned

\* Every action leaves every call in one place.
LEMMA StepOwned == ASSUME IInv, OneOwner, [Next]_vars PROVE OneOwner'
<1>1. CASE WriterStep
  <2>1. CASE Fill
    BY <2>1, KeptOwned DEF Fill, handlerVars
  <2>2. CASE CloseForWrite
    BY <2>2, CloseOwned DEF CloseForWrite
  <2>3. QED
    BY <1>1, <2>1, <2>2, PrepareOwned, CommitOwned DEF WriterStep
<1>2. CASE ReaderStep
  <2>1. CASE CloseForRead
    BY <2>1, CloseOwned DEF CloseForRead
  <2>2. QED
    BY <1>2, <2>1, FetchOwned, ConsumeOwned DEF ReaderStep
<1>3. CASE \E op \in Ops : Answer(op)
  BY <1>3, RunHandlerOwned DEF Answer
<1>4. CASE DestroyBegins \/ DestroyEnds
  BY <1>4, CloseOwned DEF DestroyBegins, DestroyEnds
<1>5. CASE Terminated \/ UNCHANGED vars
  BY <1>5, KeptOwned DEF Terminated, vars, handlerVars
<1>6. QED
  BY <1>1, <1>2, <1>3, <1>4, <1>5 DEF Next

\* Every async_prepare and async_fetch has one owner until its handler is
\* called, which happens once.
THEOREM CallsHaveOneOwner == Spec => []OneOwner
<1>1. Init => OneOwner
  <2>1. ASSUME Init, NEW op \in Ops PROVE Owned(op)
    <3>1. TurnsOf(op) = {} /\ asked[op] = None
      BY <2>1 DEF Init, TurnsOf, Turns
    <3>2. ~Slotted(op)
      BY <2>1, StreamAssumption DEF Init, Slotted
    <3>3. QED
      BY <3>1, <3>2 DEF Owned
  <2>2. QED
    BY <2>1, OwnedOps DEF AllOwned
<1>2. IInv /\ OneOwner /\ [Next]_vars => OneOwner'
  BY StepOwned
<1>3. QED
  BY <1>1, <1>2, Invariance, PTL DEF Spec
===========================================================================

----------------------------- MODULE StreamTests -----------------------------
(***************************************************************************)
(* io/async_circular_buffer_stream-test.cc: the stream used by one thread, *)
(* with LatchingSignals as handlers.  Each test is the sequence of calls   *)
(* and expectations that its body makes, run against the model of the      *)
(* stream; afterwards the stream is destroyed with whatever is pending.    *)
(***************************************************************************)
EXTENDS AsyncCircularBufferStream

\* The signals of the fixture, and the handle_error of a test's own.
Writer == "handle_prepare_"
Reader == "handle_fetch_"
OtherWriter == "handle_error (prepare)"
OtherReader == "handle_error (fetch)"

ASSUME StreamTestsAssumption ==
    /\ PrepareOps = {Writer, OtherWriter} /\ FetchOps = {Reader, OtherReader}
    /\ Capacity = 8 /\ ~EagerClient

VARIABLES test,  \* the test that runs
          pc,    \* the next of its steps
          signal \* signal[op]: the call that latched the signal, or None

testVars == <<vars, test, pc, signal>>

Do(what, op, n) == <<[do |-> what, op |-> op, n |-> n, answers |-> {}]>>
Expect(op, answers) == <<[do |-> "expect", op |-> op, n |-> 0, answers |-> answers]>>

Prepare(minimum) == Do("prepare", Writer, minimum)
Fetch(minimum)   == Do("fetch", Reader, minimum)
WriteAndCommit(count) ==
    Do("fill", Writer, count) \o Do("commit", Writer, count) \o Do("reset", Writer, 0)
ConsumeAndReset(count) == Do("consume", Reader, count) \o Do("reset", Reader, 0)
close_for_read   == Do("close for read", Reader, 0)
close_for_write  == Do("close for write", Writer, 0)

\* What EXPECT_TRUE and EXPECT_EQ ask of a signal.
NotComplete(op)  == Expect(op, {None})
Complete(op)     == Expect(op, (Errors \cup {"success"}) \X (0..Capacity))
Error(op, ec)    == Expect(op, {<<ec, 0>>})
Size(op, n)      == Expect(op, {<<"success", n>>})

WriteCommitRead == Prepare(1) \o Size(Writer, 8) \o WriteAndCommit(6) \o Fetch(1) \o Size(Reader, 6)
WriteReadCommit ==
    Prepare(1) \o Fetch(1) \o Size(Writer, 8) \o NotComplete(Reader)
        \o WriteAndCommit(6) \o Size(Reader, 6)
ReadWrite ==
    Fetch(1) \o Prepare(1) \o Size(Writer, 8) \o NotComplete(Reader)
        \o WriteAndCommit(6) \o Size(Reader, 6)
WriteReadDelayedWriterUnblocks ==
    Prepare(1) \o WriteAndCommit(1) \o Fetch(2) \o NotComplete(Reader)
        \o Prepare(1) \o WriteAndCommit(2) \o Size(Reader, 3)
WriteReadWriteDelayedReaderUnblocks ==
    Prepare(8) \o WriteAndCommit(8) \o Fetch(4) \o Complete(Reader)
        \o Prepare(3) \o NotComplete(Writer) \o ConsumeAndReset(1) \o NotComplete(Writer)
        \o Fetch(1) \o ConsumeAndReset(2) \o Complete(Writer)
ReadWriteReadDelayedWriterUnblocks ==
    Fetch(2) \o Prepare(1) \o WriteAndCommit(1) \o NotComplete(Reader)
        \o Prepare(1) \o WriteAndCommit(2) \o Size(Reader, 3)
ReadWriteWriteDelayedReaderUnblocks ==
    Fetch(4) \o Prepare(8) \o WriteAndCommit(8) \o Complete(Reader)
        \o Prepare(3) \o NotComplete(Writer) \o ConsumeAndReset(1) \o NotComplete(Writer)
        \o Fetch(1) \o ConsumeAndReset(2) \o Complete(Writer)
ConcurrentWrites1 ==
    Prepare(1) \o Complete(Writer) \o Do("prepare", OtherWriter, 1)
        \o Error(OtherWriter, "already_started")
ConcurrentWrites2 ==
    Prepare(8) \o WriteAndCommit(8) \o Prepare(1) \o NotComplete(Writer)
        \o Do("prepare", OtherWriter, 1) \o Error(OtherWriter, "already_started")
WriteAfterCloseForWrite ==
    close_for_write \o Do("prepare", OtherWriter, 1) \o Error(OtherWriter, "shut_down")
WriteAfterCloseForRead ==
    close_for_read \o Do("prepare", OtherWriter, 1) \o Error(OtherWriter, "broken_pipe")
WriteTooLarge ==
    LET once == Prepare(9) \o Error(Writer, "invalid_argument") IN once \o once
ConcurrentRead1 ==
    Fetch(1) \o NotComplete(Reader) \o Do("fetch", OtherReader, 1)
        \o Error(OtherReader, "already_started")
ConcurrentRead2 ==
    Prepare(1) \o WriteAndCommit(1) \o Fetch(1) \o Complete(Reader)
        \o Do("fetch", OtherReader, 1) \o Error(OtherReader, "already_started")
WriteCloseForWriteReadUntilEof ==
    LET DrainFrom[i \in 0..8] ==
            IF i = 8 THEN Fetch(1) \o Error(Reader, "eof")
            ELSE Fetch(1) \o Size(Reader, 8 - i) \o ConsumeAndReset(1) \o DrainFrom[i + 1]
    IN Prepare(8) \o WriteAndCommit(8) \o close_for_write \o DrainFrom[0]
WriteCloseForWriteReadMoreThanAvailable ==
    Prepare(4) \o WriteAndCommit(4) \o close_for_write
        \o Fetch(5) \o Error(Reader, "eof") \o Fetch(6) \o Error(Reader, "eof")
ReadTooLarge ==
    LET once == Fetch(9) \o Error(Reader, "invalid_argument") IN once \o once
CloseForWriteUnblocksWriter ==
    Prepare(8) \o WriteAndCommit(8) \o Prepare(1) \o NotComplete(Writer)
        \o close_for_write \o Error(Writer, "shut_down")
CloseForWriteUnblocksReader ==
    Fetch(1) \o NotComplete(Reader) \o close_for_write \o Error(Reader, "eof")
CloseForReadUnblocksReader ==
    Fetch(1) \o NotComplete(Reader) \o close_for_read \o Error(Reader, "shut_down")
CloseForReadUnblocksWriter ==
    Prepare(8) \o WriteAndCommit(8) \o Prepare(1) \o NotComplete(Writer)
        \o close_for_read \o Error(Writer, "broken_pipe")
BothWait ==
    Fetch(5) \o Prepare(4) \o WriteAndCommit(4) \o Prepare(5)
        \o NotComplete(Reader) \o NotComplete(Writer)
CloseForReadUnblocksReaderAndWriter ==
    BothWait \o close_for_read \o Error(Reader, "shut_down") \o Error(Writer, "broken_pipe")
CloseForWriteUnblocksReaderAndWriter ==
    BothWait \o close_for_write \o Error(Reader, "eof") \o Error(Writer, "shut_down")

Tests ==
    {<< >>, WriteCommitRead, WriteReadCommit, ReadWrite,
     WriteReadDelayedWriterUnblocks, WriteReadWriteDelayedReaderUnblocks,
     ReadWriteReadDelayedWriterUnblocks, ReadWriteWriteDelayedReaderUnblocks,
     ConcurrentWrites1, ConcurrentWrites2, WriteAfterCloseForWrite,
     WriteAfterCloseForRead, WriteTooLarge, ConcurrentRead1, ConcurrentRead2,
     WriteCloseForWriteReadUntilEof, WriteCloseForWriteReadMoreThanAvailable,
     ReadTooLarge, CloseForWriteUnblocksWriter, CloseForWriteUnblocksReader,
     CloseForReadUnblocksReader, CloseForReadUnblocksWriter,
     CloseForReadUnblocksReaderAndWriter, CloseForWriteUnblocksReaderAndWriter}

(* A handler fires its signal; a signal that is latched ignores the call.  *)
SignalFires ==
    \E frame \in inflight :
        /\ RunHandler(frame)
        /\ signal' = [signal EXCEPT ![frame[1].op] = IF @ = None THEN frame[1] ELSE @]
        /\ UNCHANGED <<test, pc>>

MakeCall(s) ==
    \/ s.do = "prepare" /\ AsyncPrepare(s.op, s.n)
    \/ s.do = "fetch" /\ AsyncFetch(s.op, s.n)
    \/ s.do = "fill" /\ Fill
    \/ s.do = "commit" /\ Commit(s.n)
    \/ s.do = "consume" /\ Consume(s.n)
    \/ s.do = "close for read" /\ CloseForRead
    \/ s.do = "close for write" /\ CloseForWrite

(* The test's thread goes on when the calls of its last step are made. *)
TestStep ==
    /\ inflight = {} /\ pc <= Len(test)
    /\ pc' = pc + 1
    /\ \/ MakeCall(test[pc]) /\ UNCHANGED signal
       \/ /\ test[pc].do = "reset"
          /\ signal' = [signal EXCEPT ![test[pc].op] = None]
          /\ UNCHANGED vars
       \/ test[pc].do = "expect" /\ UNCHANGED <<vars, signal>>
    /\ UNCHANGED test

(* buffer_ is destroyed after the test, before the signals of the fixture. *)
TearDown ==
    /\ inflight = {} /\ pc = Len(test) + 1
    /\ \/ life = "alive" /\ life' = "closing" /\ CloseForReadSection
       \/ life = "closing" /\ life' = "dead" /\ CloseForWriteSection
    /\ UNCHANGED <<test, pc, signal>>

TestsInit == Init /\ test \in Tests /\ pc = 1 /\ signal = [op \in Ops |-> None]
TestsOver == life = "dead" /\ inflight = {} /\ UNCHANGED testVars
TestsNext == SignalFires \/ TestStep \/ TearDown \/ TestsOver
TestsSpec == TestsInit /\ [][TestsNext]_testVars
-----------------------------------------------------------------------------
AnswerOf(call) == IF call = None THEN None ELSE <<call.ec, Total(call.buffers)>>

(* The fetched bytes are the ones that were committed, in order. *)
InOrder(call) ==
    \A i \in 0..(Total(call.buffers) - 1) :
        storage_[CellAt(call.buffers, i)] = HeadAdd(received, i)

(* Every expectation of the tests holds of the model when it is reached.   *)
(* Every test reaches its end: a step that cannot be taken, as the use of  *)
(* buffers that were not granted, would be a deadlock.                     *)
ExpectationsHold ==
    inflight = {} /\ pc <= Len(test) /\ test[pc].do = "expect" =>
        LET op == test[pc].op
        IN /\ AnswerOf(signal[op]) \in test[pc].answers
           /\ op = Reader /\ signal[op] # None => InOrder(signal[op])

(* Handlers are std::refs to signals.  The handle_error of a test is gone  *)
(* when the destructor of the stream makes its calls, which the test must  *)
(* not have left to be made to it.                                         *)
CallsOnlyLiveSignals ==
    life # "alive" => \A frame \in inflight : \A k \in DOMAIN frame : frame[k].op \in {Writer, Reader}
=============================================================================

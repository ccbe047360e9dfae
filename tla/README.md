# hittop: a TLA+ verification project

hittop is a C++14 header library: concurrency helpers built on atomics and
mutexes (`hittop/concurrent`), asynchronous byte streams (`hittop/io`), and
compile-time parser combinators with URI, HTTP and JSON grammars on top of them
(`hittop/parser`, `uri`, `http`, `json`).  This directory holds TLA+ modules
that model the library, TLC configurations that check it on small instances,
and TLAPS proofs for every instance.

    tlc -workers 2 -config Sequence.cfg MCOrderedActionSequence.tla
    tlapm OrderedActionSequenceProofs.tla

## 1. Inventory

### Components

| Component | State | Operations | Interacts with |
|---|---|---|---|
| `concurrent/ordered_action_pair.h` | atomic `state_`, plain member `second_` | `RunFirst[TC]`, `RunSecond[TC]`, `state` | two threads; `util::TailCall` |
| `concurrent/ordered_action_sequence.h` | `current_pair_`, a chain of pairs | `WrapNext`, the wrappers it returns | composes pairs; any number of threads |
| `io/circular_buffer.h` | two heads that run free, the storage | `commit`, `consume`, `data`, `prepare` | used with a mutex held by the stream |
| `io/async_circular_buffer_stream.h` | the buffer, two progress flags, two closed flags, two waiting handlers with their minima | `async_prepare`, `commit`, `close_for_write`, `async_fetch`, `consume`, `close_for_read`, destructor | a writer, a reader, their handlers (callbacks outside the mutex) |
| `concurrent/async_queue.h` | `inventory_`, `consumers_`, `active_` and `f_` of each consumer | `push`, `emplace`, `async_pop`, the canceler | producers, consumers, cancelers; handlers outside the mutex |
| `concurrent/latching_signal.h` | a signal or the arguments it was emitted with | `Connect`, `ConnectDeferred`, `operator()`, `InvokeDeferred`, `arg`, `reset` | slots called under its mutex, or by the caller |
| `concurrent/callback_target.h` | a strand, a reference count | `ListenerCallback`, `OneShotCallback` and their posting variants | Boost.Asio strands |
| `parser/` | none (pure), except visitors | `Concat`, `Either`, `Repeat`, `RepeatAndThen`, ... | visitors supplied by `uri`, `http`, `json` |
| `uri/`, `http/`, `json/` | the object a visitor fills | visitors' rules | the combinators; a caller that parses again when more text is there |
| `container/trie.h`, `kwargs/`, `util/`, IO concepts | none at run time, or unused | | |

### What is hard

* *OrderedActionPair* decides with one compare-exchange who runs the second
  action, and assigns a plain `std::function` before it knows.  The exchange is
  the weak one: it may fail for no reason.
* *OrderedActionSequence* hands a chain of deferred actions from thread to
  thread, in any order of invocation, on a bounded stack.
* *AsyncCircularBufferStream* decides under its mutex and calls handlers outside
  it.  Everything may happen between the decision and the call: the other side
  commits, consumes, closes, or the handler calls the stream itself.
* *CircularBuffer* never reduces its heads: size, room and offsets have to agree
  after the unsigned heads have wrapped.
* *AsyncQueue* unlocks between taking a consumer out and offering it an item,
  and the consumer may be cancelled in between.
* *LatchingSignal* calls slots with its mutex held, or hands them out to be
  called later, when the signal may have been reset and fired again.
* *CallbackTarget* gives its last reference away with a task that may run, and
  end, before the call that scheduled it returns.
* *Parsers* are run again and again on a text that arrives in pieces: they have
  to say `INCOMPLETE` exactly as long as more text could change the verdict.
  Visitors are called as the parse goes on, also in alternatives that are
  abandoned, and rules without visitors are parsed by other, optimized parsers.
  Backtracking has a bounded history; integers, escapes and words are decoded by
  hand.

The full list, each at its line and with the properties that guard it, is
`hazards` in `PROJECT.json`.

### What makes each component correct

* Pair and sequence: each action runs exactly once, alone, after those before it
  (`InOrderExecution`), no race on `second_`, bounded stack, no invocation waits
  for another.
* Stream: a FIFO of bytes (`BytePipe`), one answer for each call, no lost wakeup,
  disjoint cells for writer and reader, and the expectations of its own tests.
* Queue: each consumer is matched up with one item or told that it was cancelled
  (`Matching`); nobody and nothing is left behind; FIFO for disciplined clients.
* Signal: each slot is called once, with the arguments of the firing it was
  connected to, in order, and none is missed.
* Callback target: alive while it is used, gone when nobody holds it; every
  invocation runs its function.
* Parsers: verdicts are final, visits do not matter to them, and what is
  recorded is what was written.

## 2. Modules

| Module | What it is |
|---|---|
| `InOrderExecution` | abstract: actions 1..N run one at a time, in order |
| `OrderedActionPair` | one pair, all four entry points, refines `InOrderExecution` |
| `OrderedActionPairProofs` | the pair's invariant and its refinement, proved |
| `OrderedActionSequence` | N actions through N + 1 pairs and trampolines, refines `InOrderExecution` |
| `OrderedActionSequenceProofs` | the sequence's invariants and its refinement, proved |
| `CircularBuffer` | the ring of bytes, as state and operators of its user |
| `BytePipe` | abstract: a bounded FIFO that can be closed at both ends |
| `AsyncCircularBufferStream` | the stream with its clients, extends `CircularBuffer`, refines `BytePipe` |
| `AsyncCircularBufferStreamProofs` | the stream's invariants and its refinement, proved |
| `StreamTests` | the stream composed with the repository's tests of it and their signals |
| `Matching` | abstract: items matched up with consumers |
| `AsyncQueue` | the queue with its clients and cancelers, refines `Matching` |
| `AsyncQueueProofs` | the queue's invariants, its order and its refinement, proved |
| `LatchingSignal` | the signal, its slots, connections and deferred calls |
| `LatchingSignalProofs` | the signal's invariant and its three safety properties, proved |
| `CallbackTarget` | the target, its callbacks and tasks on a strand |
| `CallbackTargetProofs` | what the reference count counts, that the object lives as long as it is used, and that every invocation is accounted for, proved |
| `Terms` | grammars as data; the combinators that are made of others |
| `Combinators` | the parsers of the combinators, as functions |
| `CombinatorProofs` | that the combinators stay in range, keep verdicts final and take what they should, proved |
| `Grammar` | `Parse`: the parser of a term, its visitors, the optimized parsers |
| `IntegerParse`, `IntegerParseProofs` | `IntegerParseVisitor`, and its exactness proved |
| `UriGrammar`, `HttpGrammar`, `JsonGrammar` | the three grammars |
| `Arrival` | a text that arrives piece by piece |
| `UriParsing`, `HttpParsing`, `JsonParsing` | what the visitors record of an arriving text |
| `Repetition` | how many copies the repeating parsers take |
| `Parsing` | composes the four above: a text of one kind arrives at its parser |
| `MC...` | TLC instances of the modules above |

Definitions marked `\* Wrong:` are no part of the models.  Each is a plausible
mistake in the definition that follows it, kept to show that some property
would notice (`mutants` in `PROJECT.json`).

### How the models correspond to the code

**OrderedActionPair.**  Every access to `state_` is one step, and every access
to `second_` is one step whose beginning and end are the states around it, so
that two overlapping accesses are visible as a state (`NoRaceOnSecond`).
`pc`, `current` are the callers' program points and local variable.  A weak
exchange that fails spuriously is the action `...CasFails` when the values are
equal.  Accesses are sequentially consistent: the weaker orders the code asks
for (one of which, `memory_order_acq_rel` on a load, the standard does not
allow) are not modelled.

**OrderedActionSequence.**  A process is one invocation of a wrapper.  `tc[w]`
is the local variable of the loop in `WrapNext`; an action is named by its
number, so a `TailCall` is a number and `NoCall` the empty one.  `depth` counts
the action frames on a thread's stack.  The pair between two actions is inlined:
its `RunSecondTC` side belongs to the later wrapper, its `RunFirstTC` side to
whoever runs the earlier action.  Pair 0 is the one the constructor burns.

**CircularBuffer.**  Heads are numbers modulo `Modulus`, which stands for 2^64
and which the capacity divides.  The cells' content is kept, so that order and
overlap can be stated; a byte is named by its place in the stream.

**AsyncCircularBufferStream.**  A critical section is one step.  What it returns
to be called afterwards is a *frame*, a sequence of one or two handler calls,
kept in `inflight` until the thread makes them (`RunHandler`).  The operations
that a handler makes are not nested in the model: they are steps that may occur
while its frame is still there, a superset of what nesting allows.  `asked`,
`write_grant`, `read_grant`, `filled`, `sent`, `received` belong to the clients.
Clients keep to what the assertions demand: they commit or consume once for each
grant and no more than they were given, and destroy the stream only when no call
is under way.  `minimum_size` larger than the buffer is refused before the lock
in the code; the capacity never changes, so the model tests it in the same step.
Both handler slots are moved from and set to null under the mutex: the model
sets them to `None`.

**StreamTests.**  Each test of `async_circular_buffer_stream-test.cc` is the
sequence of calls and expectations its body makes, run against the model of the
stream by one thread; the handlers are the fixture's signals, modelled here by
the first call that latched them, and a test's own signals die at the end of its
scope.  After each test the destructor runs with whatever is pending.  In three
tests a second answer goes to a signal that is latched already and leaves no
trace; and a wakeup that needed one byte too many would escape all of the tests
(the `Stream` run finds it).

**AsyncQueue.**  A push, a pop and a canceler are processes.  A critical section
is one step, and the exchange on `active_` is one step.  The handler runs from
`CallHandler` to `HandlerReturns`.  `calls` is the history of handler calls.
`push` copies its argument and `emplace` moves it; both are the item here.

**LatchingSignal.**  A critical section in which no slot runs is one step; where
slots run under `mutex_`, each call of a slot is a step and `mutex` says who
holds it.  `joined`, `fired` and `calls` are history.  A slot that asks the
signal anything (`Asking`) waits for the mutex before it returns, and must not
be called under it: that is the difference between the direct operations and the
deferred ones.  `Connect`, `ConnectDeferred` and `DeferredInvocation` do not
compile as they stand and nothing in the repository instantiates them; they are
modelled as they read.

**CallbackTarget.**  `stack[t]` is what a thread is in the middle of: an
`operator()` before or after it has scheduled its task, or a task.  Every copy
and release of the `intrusive_ptr` counts in `refs`.  The strand, the
`io_service` and the `intrusive_ptr` are Boost's: a strand runs its tasks one at
a time in the order they were queued, and `dispatch` runs a task in place if the
thread is on the strand, or is a worker and the strand is free.

**Parsers.**  A parser of a text `t` is a function: `p[i][n]` is the
`ParseResult` of running it on the characters `i+1 .. n`.  A result carries, in
`effects`, the visits that were made, in their order and as deep as handlers ran
their own rules; an alternative that is abandoned keeps the effects it had.
`Terms` holds a grammar as data, one constructor for each template;
`Grammar!Parser` builds the parser of a term the way the templates do,
dispatching on the visitor first (a rule that the visitor is callable with is
run by its handler), then on the optimized parsers (`CharClass`) when there is
no visitor.  A handler that takes its runner by value runs the rule again
without a visitor (`Copied`).  C++ dispatches on the type of a rule and the model
on its name; the grammar modules say where two names are one type.

**UriParsing, HttpParsing, JsonParsing.**  `Arrive` lets one more character, or
all that is left, arrive; the caller then parses all that is there into a fresh
object, which is what `ParseError::INCOMPLETE` asks for and what the callers in
the repository do.  `error`, `end` and the object are recomputed from the effects
by operators that translate the handlers one by one.  Ranges are pairs of
positions; a JSON number keeps the text that `std::stod` is given, and a port
the text that `std::stoul` is given.

**IntegerParse.**  One step for each character; a signed overflow may leave any
value of the type.

## 3. Runs

| Run | Instance | States | What it shows |
|---|---|---|---|
| `Pair` | 2 callers, each with either variant, fair | 148 | no race; in-order execution of f and g, which includes that g runs once both sides have called |
| `Sequence` | N = 6, fair | 41 434 | the invariant of the proofs, no race, bounded stack, in-order execution, which includes that an invoked action runs once its predecessors have, invocations return |
| `Stream` | capacity 2, modulus 4, two calls of each kind, minima 1 and 2, symmetry | 1 491 165 | the invariant of the proofs, no lost wakeup, mutual waiting only for minima that do not fit, assertions, one answer for each call, disjoint cells, bytes in order, refinement of the pipe |
| `StreamProgress` | capacity 4, cooperative clients | 16 811 | everybody is answered |
| `StreamTests` | the repository's tests, capacity 8 | 340 | every expectation holds; no signal is called after its scope |
| `StreamEof` | capacity 2 | violation | eof is not final, see section 5 |
| `Queue` | 2 pushes, 3 pops, 1 canceler, fair | 95 500 | no loss, no duplicate, nobody stranded, one call for each handler, FIFO, pushes return, refinement of the matching |
| `Callback` | 2 workers, 1 other thread, 3 callbacks, 3 invocations | 91 632 | alive while used, every invocation runs, nothing leaks |
| `Signal` | 2 threads, 2 slots, 2 arguments, 1 reset, fair | 72 692 | once and with its arguments, none missed, in order, waiting slots run |
| `Parsing` | 3535 pairs of a parser and a text | 55 035 | final verdicts, visits do not matter, and what is recorded is what was written |
| `JsonUnicode` | one text | violation | the last digit of an escape stays, see section 5 |
| `IntegerParse` | base 10, a type of 8 bits, 4 characters | 20 224 | exact up to the largest value of either sign; how it goes wrong above |

**Types.**  The sequence and the stream state their types in `TypeOK`, a part of
the `IInv` that `Sequence` and `Stream` check; the queue's is in
`AsyncQueueProofs`, where it is proved, and those of the pair, the signal and the
callback target are in their proof modules; `WithinTheText` is the parsers'.

**Why the bounds are enough.**  In a sequence three neighbours show every way a
pair can be entered; six leave room for chains of deferred actions that several
invocations pick up.  In the stream a size of 2 has empty, partly full and full
buffers, grants of two segments, and heads that wrap every other lap; two calls
of a kind include refusal with `already_started`, a new call made before the old
frame's thread has finished, and the races around both; minima of 1 and 2 fit
together and minima of 2 do not.  Refusals of a minimum that the buffer can never
hold are among the tests of `StreamTests`.  In the queue three pops let one push meet a
cancelled consumer, a live one and one that comes later; `serial` is a history
variable, so that one run checks FIFO for the clients that keep to its terms and
the rest for all.  Two threads and a second generation are what it takes to
reset and fire a signal again while the calls of the first firing are
outstanding.  Three invocations are one of each callback, or one nested in
another, while everybody else lets go.  The texts of `Parsing` are put together
from their parts (`MCParsing`): each optional part is there in some texts and
missing in others, malformed texts are next to well-formed ones, and every text
arrives in every way that takes one character or all the rest at a time.
Repetitions are counted up to 4 copies, and run to 17 characters, beyond the 16
that `RepeatAndThen` remembers.

**Fairness.**  A thread that is inside an operation goes on, and actions, slots
and handlers return: weak fairness of the steps of each thread.  A
compare-exchange that could succeed is not assumed to succeed at once, only not
to fail spuriously for ever.  Workers of the `io_service` pick up tasks.  Whoever
is given a deferred call of a signal makes it.  Nobody is obliged to call
anything else; the one exception is `CooperativeSpec`, whose clients give back
their buffers and call again, and which only `StreamProgress` uses.  That run
also takes all a client is given to be committed and consumed (`EagerClient`): a
reader that consumes nothing may starve a writer by its own choice.

**Deadlock** is checked where the program cannot stop of itself (pair, sequence,
stream, queue).  Elsewhere a text ends, or bounds on calls and resets run out.

## 4. Proofs

Each proof has the same course: a state predicate, checked by TLC on the instance
of the component's run before it was proved, is shown to hold at first and to be
kept by every step, one lemma for each action; the properties follow from it.
What is proved holds for every value of the constants that keeps to the
assumptions named here, and TLC evaluates those in every run.

`OrderedActionPairProofs` proves that both callers, whichever variants they use
and however often the weak exchange fails for no reason, never have `second_` in
hand at once (`SecondIsNotRaced`), that whoever takes g finds it there, and that
every step of a pair is a step of in-order execution of two actions or invisible
to it (`RunsInOrder`).  `PInv` says that the exchange settles the matter: as long
as `state_` is initial neither has got past it, and whoever makes it is done and
leaves g to the other (`Settled`, `LeftToRun`); that the exchange rests on what
was read before it (`ReadsInitial`); and that g stays stored until it is taken.
There are no assumptions.

`OrderedActionSequenceProofs` proves, for every N, that `IInv` is inductive and
that it implies the type invariant, `InOrder`, `OneBaton`, `NoRaceOnSecond`,
`OneOwner`, `StackBounded`, and that the sequence implements
`InOrderExecution!AbsSpec`.  The idea of the invariant is that the right to go
on, the baton, is in one place: with one invocation (`OneBaton`,
`BatonAtFront`), or at rest in the pair before the first action not yet decided
(`BatonAtRest`).  The properties themselves are not inductive: that nobody races
for `second_` needs to know what a caller has read (`BeforeDecision`,
`WhatFirstSaw`) and that a stored action stays until it is taken
(`StoredUntilTaken`, `AfterDecision`).  The only assumption is `N \in Nat \ {0}`.

`AsyncCircularBufferStreamProofs` proves, for every capacity, every set of
clients and every set of minima, that the stream's `IInv` is inductive and that
it implies the type invariant, `NoLostWakeup`, `MutualWaitOnlyIfOversized`,
`AssertionsHold` and `OneGrantPerSide`; and, resting on it, that `BytesInv` and
`OneOwner` are inductive.  From the first follow `NoRaceOnStorage`,
`ReadsInOrder` and that the stream implements `BytePipe`.  `IInv` says for each side (`SideInv`)
that at most one of these is so: it waits, an answer with buffers is on its way
to it, or it holds buffers; and that what it has been promised is no more than
there is.  The other side can then only add to what there is: a commit adds to
the data (`CommitKeeps`) and a consume to the room (`ConsumeKeeps`), also when
the heads wrap (`HeadArithmetic`).  `AssertionsHold` alone is not inductive,
because it does not say that a side that waits holds nothing and is promised
nothing; nor is `NoLostWakeup`, whose comparison needs a minimum that has been
stored (`MinimaStored`); and a success may not hide behind another call of its
frame (`FramesWellFormed`).  The assumptions are `CapacityAssumption`
(2 * Capacity <= Modulus) and `StreamAssumption` (writers and readers are told
apart, minima are numbers).

The bytes are a matter of places.  `BytesInv` says that the heads count the bytes
sent and received, that the byte of each place between them is in its cell
(`Stored`), and that every buffer that is out, in a client's hands or on its way
in a frame, covers the cells from a head on (`Placed`).  Less is not inductive:
that the reader reads in order needs what the writer has filled in but not
committed, and that the two never share a cell needs where a buffer began when
it was given out, although the other head has moved since.  Masking keeps places
less than a capacity apart in different cells also when the heads wrap, and that
is where `MaskAssumption` (the capacity divides the modulus) comes in: without it
the property is false.  `IsAPipe` maps the data to the sequence of bytes in the
cells, a commit to appending to it and a consume to dropping from its front; every
other step, the wait and the answers included, is invisible or a close.
`CallsHaveOneOwner` rests on `IInv` and on names for the turns of the frames: a
call that waits for its answer is in its side's slot and at no turn, or in no slot
and at one turn (`Owned`).

`AsyncQueueProofs` proves for any sets of items, consumers and cancelers
`HandlerCalledOnce`, `NobodyStranded` and `ItemHasOneHolder`.  None of them is
inductive.  That a handler is called once rests on who may call it: the winner of
the exchange holds it alone (`Exclusive`), and a handler that has been called
has no way back to being called (`Uncalled`).  That nobody is stranded needs that
a consumer waits once or is in the hands of one push (`OnePlace`), which a new
consumer keeps only because it was nowhere before (`Registered`).  `QInv` is the
conjunction of these with the types and the stages of each kind of caller
(`Stages`); `OneItem`, proved on top of it, says that an item whose push has let
go of it waits, or has been taken, or has been given to a handler, one of the
three and once.  The only assumption is `QueueAssumption`: the callers are told
apart, and items are numbers.

`FirstInFirstOut` adds `Fifo`.  For a client that keeps to its terms (`serial`)
the invariant `InTurn` says that all that is answered is older than what is
taken, and that than what waits (`Ahead`); and that a push with a consumer in
hand overtakes nothing, because nothing waits (`HandsOn`).  `IsAMatching` proves
the safety part of `ImplementsMatching`: a step of the queue offers an item, asks
for one, gives one to a consumer, tells one that it is cancelled, or is
invisible.  It needs that an answer already given is the only one
(`HandlerCalledOnce`) and that the item has not been given away (`OneItem`).

`LatchingSignalProofs` proves `NoSlotMissed`, `CalledOnceWithItsArgs` and
`CalledInOrder` for any threads, slots, arguments and number of resets.  Slots
that have still to be called wait in queues: in `*state_`, in a thread that calls
slots, in a `DeferredInvocation`, in a `DeferredConnection`.  An operation moves
a queue from one place to another, takes its first slot, drops it, or puts a new
slot at its end; four lemmas (`Move` and those after it) say what each of these
keeps, whatever the places are.  `SInv` says that no slot is in two places
(`Apart`); that behind a slot come all that were connected after it for the same
firing (`Together`); that a slot that waits has not been called and one that is
connected waits or has been (`Fresh`, `Covered`); with which arguments each queue
is to be called (`Belong`), which survives a reset because the record of firings
only grows (`Firing`); and that no slot that waits is connected behind one that
is called under `mutex_` (`DirectLast`), which is held throughout
(`MutexHeld`).  The three properties are not inductive by themselves: they speak
of what has been called, and the invariant of what is to be called.
`LatchingSignalAssumption` says that `None` is no thread, no argument and no
`DeferredInvocation`.

`CallbackTargetProofs` proves `AliveWhileUsed` for any threads, callbacks and
nesting of invocations.  `Owners` is the set of those who own a reference: the
user outside, each callback with its `obj_`, each task that a thread runs or is
about to schedule, and the `local_obj` of each one-shot callback that is being
invoked.  A frame is named by its depth from the outermost one, so that it keeps
its name while others come and go on top of it.  `CInv` says that `refs` is the
number of owners and of tasks on the strand, and that the object is destroyed
when it is zero; each action makes, ends or exchanges owners and takes or
releases as many references.  Whoever is in the middle of something is an owner,
so the object is there; and it goes exactly with the last of them
(`GoneWithTheLastOwner`), which is the safety half of `NothingLeaks`.  The
assumption is that no callback is of both kinds.

The second half of the module is about the invocations.  `Tallied` says of each
callback that what has been invoked is what has run, what is on its way to the
strand (`Calling`, the frames of `operator()` that have not called `schedule`)
and what waits on the strand (`Waiting`, the places of the callback in the
queue); each step moves one invocation from one of the three to the next or
leaves them alone.  So none is lost and none runs twice (`EachCallIsSomewhere`),
a one-shot callback runs at most once (`RunsAtMostAsCalled`, with `Once`: it has
its pointer only before it is invoked), and, because whatever is on its way or
waits owns a reference, the object is destroyed only when all have run
(`NoCallIsCancelled`).  That is what safety there is in `EveryCallRuns`; that the
tasks are run at all is fairness, and TLC's.

`IntegerParseProofs` proves for both bases, every type and every length that the
visitor delivers each number up to the largest, with either sign, exactly
(`NumbersExact`), and that its value departs from what is written in one way only,
at a digit after exactly the largest tenth (`WrongAtTheTop`).  `FirstOverflow` says
which operation is then undefined: never the product, and the sum with exactly
the digits above `Max % Base`.  The inductive invariant (`Inv`) adds to
`ExactUpToMax` that while the number still fits the value is what has been
written.  `Quotient` is the arithmetic of the guard.  The smallest value, one
beyond the largest with a minus sign, is one of those that go wrong: the digits
are summed before the sign is applied.

`CombinatorProofs` is about every text and whatever the visitors do.  Its
hypothesis on the parts of a combinator is that they stop within the range they
are called with (`IsParser`): the terminals do (`TerminalsStayInRange`) and the
combinators preserve it (`CombinatorsStayInRange`), so every parser that is made
of them has it.  On top of it:

* A verdict other than `INCOMPLETE` is final, which is what the run's
  `FinalVerdict` rests on: for the terminals (`OneOfFinal`, `AnyCharFinal`,
  `TokenFinal`), and for `Concat2`, `Either2`, `Unless`, `Repeat` and
  `RepeatAndThen` of final parsers.  `Force` does not keep verdicts final, by
  design: `Trim` uses it to accept blanks at the end of a text, and a caller of
  the JSON parser says when the text has ended.
* `Repeat` takes every copy there is (`RepeatTakesAll`).  `RepeatAndThen` takes
  them too and then gives back as few as it must, as far as it remembers
  (`RepeatAndThenGivesBack`; `Decides` says which position it ends up with).
* What visitors do and the optimized parsers do not change what is accepted:
  parsers that agree can take each other's place (`CombinatorsAgree`,
  `LoopsAgree`), and a choice of characters agrees with the one class that
  replaces it (`OneClassWillDo`).  `Force` is left out: it looks at where a
  parser that failed has stopped, and there the optimized one may differ.
* What is answered depends on no character beyond the range
  (`TerminalsReadTheRange`, `CombinatorsReadTheRange`).

`Repeat` and `RepeatAndThen` are recursive functions.  A loop that goes on only
if it has moved goes from a state to another that has less of the text left, and
the history of going back gets shorter; `Descends` says so.  From it
`RecursionExists` proves that there is a function with the recursion equation,
and `ByDescent` that what is handed on from round to round holds of all: induction
over the particular sets at hand, with the well-foundedness of the natural
numbers for its basis and no induction theorem.  The equations (`RepeatRound` and
its like for the two loops of `RepeatAndThen`) are all that the other proofs use.

**Only model-checked.**  Liveness (`EveryCallAnswered`, `EveryCallRuns`,
`NothingLeaks`, `PushesReturn`, `InvocationsReturn`, `EveryWaitingSlotRuns`) and
the fair refinements, which are out of the prover's reach: what is proved of
`ImplementsInOrder` and `ImplementsMatching` is that every step is a step of the
abstract specification.  The tests of the stream (`StreamTests`), whose scripts
are one instance.  What whole grammars and their visitors record (`UriAsWritten`
and the others of `Parsing`): their modules use RECURSIVE operators over terms,
which the prover does not take; what is proved are the combinators these terms
are turned into, one at a time.

## 5. Findings

**Eof is not final** (`StreamEof`).  `async_fetch` answers `eof` when there are
fewer bytes than asked for and the stream is closed for writing; the comment
there says that "this operation can never succeed".  A writer may close while it
still holds buffers and commit them afterwards, `commit` does not look at
`closed_for_write_`; the reader that was told eof would have been served.  The
run shows it in seven steps: `async_prepare`, its answer, `close_for_write`,
`async_fetch` (eof), fill, `commit`.

**An escape by code leaves a digit** (`JsonUnicode`).  After `\uXXXX` the
unescaping advances by three and one (`json/parse_visitor.h:72`), so the last of
the four digits is copied as a character: the text `"\u0041"` becomes `A1`.

The following was met while modelling as well; the models behave as the code
does.  Some of it happens in the runs, whose properties name it or take it as it
is:

* `uri_parse_visitor.h:17`: a scheme or a user is recorded as soon as its rule
  has matched and stays when the alternative it belongs to is abandoned: `x` and
  `a/b/c?q` are accepted with a scheme, `//u@_` with a user and no host.
  `UriAsWritten` allows these two (`SchemeLeft`, `UserLeft`) where the reference
  has no such part, and nothing else.
* `uri/grammar.h:174`: `server` matches the empty text, so the alternative
  `reg_name` of an authority is never tried, and `http://a_b/p` is accepted up to
  the host `a`; a host name with two hyphens in a row (`//a--b/c`,
  `uri/grammar.h:126`) is cut short too.  `UriAsWritten` takes what is accepted
  for the reference.
* `parser/repeat_and_then.h:73`: a text that needs more than 16 positions back is
  refused although a shorter one is accepted; the repetitions run to more, and
  `CopiesTaken` says what is given back.
* `parser/integer_parse_visitor.h:54`: the last digit of a number just above the
  largest value overflows (`GoesWrongAtTheTop`).

The texts of `Parsing` keep away from the rest; a text added to `MCParsing` shows
it.

* `uri_parse_visitor.h:47`: a port without digits is accepted by the grammar and
  makes `std::stoul` throw.
* `http/grammar.h:274`: a method that begins with a known one (`GETX`) is refused,
  other extension methods are accepted.
* `json/parse_visitor.h:122`: a `true` after blanks is recorded as false, since
  the range that matched begins with the blanks.
* `json/grammar.h:96`: blanks in an empty array or object are refused.

And in a component that is no parser, `concurrent/latching_signal.h:156`: a slot
that asks the signal anything and is called by `operator()` or `Connect` waits for
its own thread.

## 6. Not modelled

* Exceptions thrown by actions, handlers, slots and constructors, allocation
  failure, and weak memory orders.
* Destruction of the queue and moves of a signal.
* In HTTP, the rules that nothing reaches (`comment`, `entity_body`,
  `start_line`, `generic_message`) and the helpers of `request_line`; in the URI,
  query parameters, a TODO of the program.  A request's URI is kept as its range,
  its parts being those of `UriParsing`.  Texts are ASCII without the backtick,
  which a TLA+ string cannot hold.
* Parsing again into an object that holds an earlier attempt: the repository's
  callers use a fresh one.
* `TraceVisitor`, which prints, and `template.h`, a pattern for new files.
* `NullMutex` (behaviours of the queue without a second thread), `kwargs`, `util`
  and its `FirstMatch`, the IO concepts: resolved by the compiler, with no state
  or choice at run time.  `Trie` is a stub that nothing can instantiate.

What a next step could add: the sizes of `CircularBuffer` stated without the
stream, and the terms of the grammars as functions, so that what is proved of the
combinators could be put together for a whole grammar.

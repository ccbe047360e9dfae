----------------------------- MODULE AsyncQueue -----------------------------
(***************************************************************************)
(* hittop::concurrent::AsyncQueue.  Each item is pushed once, by push or   *)
(* emplace (GenericInsert); each consumer is one call of async_pop; a      *)
(* canceler is one thread that calls the PopCancelers that async_pop       *)
(* returned, as often as it likes.                                         *)
(*                                                                         *)
(* What a thread does with the mutex held is one step, and so is the       *)
(* exchange on a consumer's active_.  Handlers run with the mutex          *)
(* released, from their call to their return, and the operations they make *)
(* are among those that may happen in between.                             *)
(***************************************************************************)
EXTENDS Naturals, Sequences

CONSTANTS
  Items,     \* numbers, in the order in which a serial client pushes
  Pops,
  Cancelers,
  Aborted,   \* boost::asio::error::operation_aborted
  None

Callers == Items \cup Pops \cup Cancelers

ASSUME QueueAssumption ==
  /\ Items \subseteq Nat
  /\ Items \cap Pops = {} /\ Items \cap Cancelers = {}
  /\ Pops \cap Cancelers = {}
  /\ {Aborted, None} \cap Callers = {} /\ Aborted # None

VARIABLES
  inventory_,
  consumers_,
  active_,     \* active_[c]: the atomic of c's ConsumerImpl
  f_,          \* f_[c]: its handler, "absent" while there is no ConsumerImpl
  pc,
  hand,        \* hand[k]: the consumer that k is about to complete
  took,        \* took[c]: the item async_pop has taken out of the inventory
  calls,       \* the handler calls made, in order
  serial       \* history: pushes and pops have not overlapped so far

vars == <<inventory_, consumers_, active_, f_, pc, hand, took, calls, serial>>

(***************************************************************************)
(* "lock" is in front of a critical section, "consume" in front of the     *)
(* exchange, "call" in front of the handler and "run" inside it.           *)
(***************************************************************************)
PCs == {"idle", "lock", "consume", "call", "run", "done"}

Init ==
  /\ inventory_ = <<>>
  /\ consumers_ = <<>>
  /\ active_ = [c \in Pops |-> FALSE]
  /\ f_ = [c \in Pops |-> "absent"]
  /\ pc = [k \in Callers |-> "idle"]
  /\ hand = [k \in Items \cup Cancelers |-> None]
  /\ took = [c \in Pops |-> None]
  /\ calls = <<>>
  /\ serial = TRUE

Goto(k, label) == pc' = [pc EXCEPT ![k] = label]

CalledBack == {calls[i].pop : i \in 1..Len(calls)}

---------------------------------------------------------------------------
(* GenericInsert.                                                           *)

StartPush(x) ==
  /\ pc[x] = "idle"
  /\ serial' = (serial /\ \A y \in Items \ {x} :
                            pc[y] = IF y < x THEN "done" ELSE "idle")
  /\ Goto(x, "lock")
  /\ UNCHANGED <<inventory_, consumers_, active_, f_, hand, took, calls>>

PopConsumer(x) ==
  /\ pc[x] = "lock"
  /\ consumers_ # <<>>
  /\ hand' = [hand EXCEPT ![x] = Head(consumers_)]
  /\ consumers_' = Tail(consumers_)
  /\ Goto(x, "consume")
  /\ UNCHANGED <<inventory_, active_, f_, took, calls, serial>>

\* Wrong: inserts without another look at the consumers.
InsertAnyway(x) ==
  /\ pc[x] = "lock"
  /\ inventory_' = Append(inventory_, x)
  /\ Goto(x, "done")
  /\ UNCHANGED <<consumers_, active_, f_, hand, took, calls, serial>>

Insert(x) ==
  /\ pc[x] = "lock"
  /\ consumers_ = <<>>
  /\ inventory_' = Append(inventory_, x)
  /\ Goto(x, "done")
  /\ UNCHANGED <<consumers_, active_, f_, hand, took, calls, serial>>

---------------------------------------------------------------------------
(* async_pop.                                                               *)

StartPop(c) ==
  /\ pc[c] = "idle"
  /\ serial' = (serial /\ \A d \in Pops \ {c} :
                            pc[d] = "idle" \/ d \in CalledBack)
  /\ Goto(c, "lock")
  /\ UNCHANGED <<inventory_, consumers_, active_, f_, hand, took, calls>>

\* Wrong: the newest item first.
TakeNewest(c) ==
  /\ pc[c] = "lock"
  /\ inventory_ # <<>>
  /\ took' = [took EXCEPT ![c] = inventory_[Len(inventory_)]]
  /\ inventory_' = SubSeq(inventory_, 1, Len(inventory_) - 1)
  /\ Goto(c, "call")
  /\ UNCHANGED <<consumers_, active_, f_, hand, calls, serial>>

TakeItem(c) ==
  /\ pc[c] = "lock"
  /\ inventory_ # <<>>
  /\ took' = [took EXCEPT ![c] = Head(inventory_)]
  /\ inventory_' = Tail(inventory_)
  /\ Goto(c, "call")
  /\ UNCHANGED <<consumers_, active_, f_, hand, calls, serial>>

\* Wrong: waits without a look at the inventory.
RegisterAnyway(c) ==
  /\ pc[c] = "lock"
  /\ active_' = [active_ EXCEPT ![c] = TRUE]
  /\ f_' = [f_ EXCEPT ![c] = "engaged"]
  /\ consumers_' = Append(consumers_, c)
  /\ Goto(c, "done")
  /\ UNCHANGED <<inventory_, hand, took, calls, serial>>

Register(c) ==
  /\ pc[c] = "lock"
  /\ inventory_ = <<>>
  /\ active_' = [active_ EXCEPT ![c] = TRUE]
  /\ f_' = [f_ EXCEPT ![c] = "engaged"]
  /\ consumers_' = Append(consumers_, c)
  /\ Goto(c, "done")
  /\ UNCHANGED <<inventory_, hand, took, calls, serial>>

---------------------------------------------------------------------------
(* A PopCanceler, which exists once async_pop has registered the consumer.  *)

StartCancel(k) ==
  /\ pc[k] = "idle"
  /\ \E c \in Pops :
       f_[c] # "absent" /\ hand' = [hand EXCEPT ![k] = c]
  /\ Goto(k, "consume")
  /\ UNCHANGED <<inventory_, consumers_, active_, f_, took, calls, serial>>

---------------------------------------------------------------------------
(* Consume, called by a push (DispatchTo) or by a canceler, and the call of *)
(* the handler, made by either or by async_pop itself.                      *)

\* Wrong: a load where the exchange should be.
ConsumeLoads(k) ==
  /\ pc[k] = "consume"
  /\ Goto(k, IF active_[hand[k]] THEN "call"
             ELSE IF k \in Items THEN "lock" ELSE "idle")
  /\ UNCHANGED <<inventory_, consumers_, active_, f_, hand, took, calls, serial>>

\* Wrong: a push that is refused gives up.
ConsumeGivesUp(k) ==
  /\ pc[k] = "consume"
  /\ active_' = [active_ EXCEPT ![hand[k]] = FALSE]
  /\ Goto(k, IF active_[hand[k]] THEN "call"
             ELSE IF k \in Items THEN "done" ELSE "idle")
  /\ UNCHANGED <<inventory_, consumers_, f_, hand, took, calls, serial>>

\* Wrong: a push that is refused tries the same consumer again.
ConsumeRetries(k) ==
  /\ pc[k] = "consume"
  /\ active_' = [active_ EXCEPT ![hand[k]] = FALSE]
  /\ Goto(k, IF active_[hand[k]] THEN "call"
             ELSE IF k \in Items THEN "consume" ELSE "idle")
  /\ UNCHANGED <<inventory_, consumers_, f_, hand, took, calls, serial>>

\* A push that is refused goes back for the next consumer.
Consume(k) ==
  /\ pc[k] = "consume"
  /\ active_' = [active_ EXCEPT ![hand[k]] = FALSE]
  /\ Goto(k, IF active_[hand[k]] THEN "call"
             ELSE IF k \in Items THEN "lock" ELSE "idle")
  /\ UNCHANGED <<inventory_, consumers_, f_, hand, took, calls, serial>>

Target(k) == IF k \in Pops THEN k ELSE hand[k]

Given(k) ==
  IF k \in Items THEN k ELSE IF k \in Cancelers THEN Aborted ELSE took[k]

CallHandler(k) ==
  /\ pc[k] = "call"
  /\ calls' = Append(calls, [pop |-> Target(k), got |-> Given(k)])
  /\ Goto(k, "run")
  /\ UNCHANGED <<inventory_, consumers_, active_, f_, hand, took, serial>>

\* clear_f; async_pop's own call has no ConsumerImpl.
HandlerReturns(k) ==
  /\ pc[k] = "run"
  /\ f_' = IF k \in Pops THEN f_ ELSE [f_ EXCEPT ![hand[k]] = "empty"]
  /\ Goto(k, IF k \in Cancelers THEN "idle" ELSE "done")
  /\ UNCHANGED <<inventory_, consumers_, active_, hand, took, calls, serial>>

---------------------------------------------------------------------------

Push(x)   == PopConsumer(x) \/ Insert(x)
Pop(c)    == TakeItem(c) \/ Register(c)
Answer(k) == CallHandler(k) \/ HandlerReturns(k)

Quiescent == \A k \in Callers : pc[k] \in {"idle", "done"}

Next ==
  \/ \E x \in Items : StartPush(x) \/ Push(x) \/ Consume(x)
  \/ \E c \in Pops : StartPop(c) \/ Pop(c)
  \/ \E k \in Cancelers : StartCancel(k) \/ Consume(k)
  \/ \E k \in Callers : Answer(k)
  \/ Quiescent /\ UNCHANGED vars

Spec == Init /\ [][Next]_vars

(***************************************************************************)
(* Threads that are inside an operation go on and handlers return.         *)
(***************************************************************************)
FairSpec ==
  /\ Spec
  /\ \A x \in Items : WF_vars(Push(x) \/ Consume(x))
  /\ \A c \in Pops : WF_vars(Pop(c))
  /\ \A k \in Cancelers : WF_vars(Consume(k))
  /\ \A k \in Callers : WF_vars(Answer(k))

---------------------------------------------------------------------------

Calls == 1..Len(calls)

(***************************************************************************)
(* An item whose push has begun is never lost and never duplicated: its    *)
(* push still has it, or it is once in the inventory, or one async_pop has *)
(* taken it, or one handler has been called with it.                       *)
(***************************************************************************)
Holders(x) ==
  (IF pc[x] \in {"lock", "consume", "call"} THEN {<<"push", x>>} ELSE {})
    \cup {<<"inventory", i>> : i \in {j \in 1..Len(inventory_) :
                                        inventory_[j] = x}}
    \cup {<<"pop", c>> : c \in {d \in Pops : pc[d] = "call" /\ took[d] = x}}
    \cup {<<"handler", i>> : i \in {j \in Calls : calls[j].got = x}}

ItemHasOneHolder ==
  \A x \in Items :
    IF pc[x] = "idle" THEN Holders(x) = {}
    ELSE \E h \in Holders(x) : Holders(x) = {h}

(***************************************************************************)
(* An item and a consumer never both wait in the queue, and a consumer     *)
(* that can still be answered waits in the queue or is in the hands of one *)
(* push, which is about to answer it: nobody is forgotten between the      *)
(* unlock and the lock of GenericInsert (lines 132-141).                   *)
(***************************************************************************)
NobodyStranded ==
  /\ inventory_ = <<>> \/ consumers_ = <<>>
  /\ \A c \in Pops : active_[c] =>
       LET places == {i \in 1..Len(consumers_) : consumers_[i] = c}
           pushes == {x \in Items : pc[x] = "consume" /\ hand[x] = c}
       IN  \/ pushes = {} /\ \E i \in places : places = {i}
           \/ places = {} /\ \E x \in pushes : pushes = {x}

(***************************************************************************)
(* A handler is called at most once, and nobody clears it under whoever    *)
(* calls it: pushes and cancelers that race for a consumer agree on one    *)
(* (lines 79-85).                                                          *)
(***************************************************************************)
HandlerCalledOnce ==
  /\ \A i, j \in Calls : calls[i].pop = calls[j].pop => i = j
  /\ \A k \in Items \cup Cancelers : pc[k] \in {"call", "run"} =>
       /\ f_[hand[k]] = "engaged"
       /\ \A l \in Items \cup Cancelers :
            pc[l] \in {"call", "run"} /\ hand[l] = hand[k] => k = l

(***************************************************************************)
(* "If you want to ensure FIFO" (lines 26-28): under serialized pushes and *)
(* one pending async_pop the handlers see the items in the order of the    *)
(* pushes, also when pops are cancelled in between: as long as a client    *)
(* has kept to that, whatever it does later.                               *)
(***************************************************************************)
Fifo ==
  serial =>
    \A i, j \in Calls :
      i < j /\ calls[i].got # Aborted /\ calls[j].got # Aborted =>
        calls[i].got < calls[j].got

(***************************************************************************)
(* A push returns, although consumers may be cancelled under its hands.    *)
(***************************************************************************)
PushesReturn == \A x \in Items : pc[x] # "idle" ~> pc[x] = "done"

(***************************************************************************)
(* The queue implements the matching, the progress of waiting pairs        *)
(* included.                                                               *)
(***************************************************************************)
Abs == INSTANCE Matching WITH
         pushed <- {x \in Items : pc[x] # "idle"},
         asked  <- {c \in Pops : pc[c] # "idle"},
         answer <- [c \in Pops |->
                      IF c \in CalledBack
                      THEN calls[CHOOSE i \in Calls : calls[i].pop = c].got
                      ELSE None]

ImplementsMatching == Abs!MatchSpec
===========================================================================

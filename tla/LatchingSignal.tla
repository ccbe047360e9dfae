--------------------------- MODULE LatchingSignal ---------------------------
(***************************************************************************)
(* concurrent/latching_signal.h: a signal that fires once.  Slots that are *)
(* connected before it fires are called when it does, slots connected      *)
(* after that are called at once with the arguments it fired with, and     *)
(* reset makes it a new signal.  Several threads use it.                   *)
(*                                                                         *)
(* mutex_ is held while slots run under operator() and Connect; the        *)
(* deferred operations hand the slots to the caller, who runs them without *)
(* it.  A critical section in which no slot runs is one action.            *)
(***************************************************************************)
EXTENDS Naturals, Sequences

CONSTANTS Threads, Slots, Args,
          MaxResets, \* bound: how often the signal is reset
          Asking,    \* the slots that call is_latched, arg or args when they run
          None

ASSUME LatchingSignalAssumption ==
    /\ MaxResets \in Nat
    /\ Asking \subseteq Slots
    /\ None \notin Threads \cup Args
    /\ None \notin [slots : Seq(Slots), args : Args]

VARIABLES
    state,      \* *state_: which 0 holds the Signal's slots, which 1 the ArgsTuple
    mutex,      \* the thread that holds mutex_
    thread,     \* what each thread is doing: the slots it has still to call
    invocation, \* the DeferredInvocation each thread has and has not called
    connection, \* what became of each slot's connection
    deferred,   \* the arguments kept by a DeferredConnection of a latched signal
    generation, \* the number of resets
    joined,     \* history: the slots in the order they were connected
    fired,      \* history: the arguments each generation fired with
    calls       \* history: the calls of slots

vars == <<state, mutex, thread, invocation, connection, deferred, generation, joined, fired, calls>>

Unlatched == [which |-> 0, slots |-> << >>, args |-> None]
Latched(v) == [which |-> 1, slots |-> << >>, args |-> v]
IsLatched == state.which = 1

Idle == [at |-> "idle", slots |-> << >>, args |-> None]
Calling(slots, args) == [at |-> "calling", slots |-> slots, args |-> args]

(* The thread can lock mutex_ at once, for a section in which no slot runs. *)
Locks(t) == thread[t] = Idle /\ mutex = None

\* Wrong: what a deferred call passes on is read when it is made.
ArgsInState(t) == state.args

(* The thread calls slots from operator() or Connect. *)
Direct(t) == thread[t].args = None

(* Under mutex_ the slots are passed the tuple in *state_, without it the copy. *)
ArgsPassed(t) == IF mutex = t THEN state.args ELSE thread[t].args

CanFire(t) == Locks(t) /\ ~IsLatched

\* Wrong: the signal is moved out after the arguments have taken its place.
MovedTooLate == << >>

(* What is moved out of *state_ when it is replaced. *)
Moved == state.slots

Fire(v) ==
    /\ state' = Latched(v)
    /\ fired' = [fired EXCEPT ![generation] = v]

\* Wrong: mutex_ is released before the slots are called.
ReleasesMutex(t) == UNCHANGED mutex

KeepsMutex(t) == mutex' = t

\* Wrong: the deferred calls are made under mutex_ too.
RunsLocked(t) == mutex = None /\ mutex' = t

RunsUnlocked(t) == UNCHANGED mutex

Unlock(t) == mutex' = IF mutex = t THEN None ELSE mutex

AtBack(slots, s) == Append(slots, s)

Join(s) == joined' = Append(joined, [slot |-> s, generation |-> generation, waits |-> ~IsLatched])

ConnectUnlatched(t, s) ==
    /\ Locks(t) /\ connection[s] = "new" /\ ~IsLatched
    /\ state' = [state EXCEPT !.slots = AtBack(@, s)]
    /\ connection' = [connection EXCEPT ![s] = "connected"]
    /\ Join(s)
    /\ UNCHANGED <<mutex, thread, invocation, deferred, generation, fired, calls>>

(* The slot is called with mutex_ held and there is no connection. *)
ConnectLatched(t, s) ==
    /\ Locks(t) /\ connection[s] = "new" /\ IsLatched
    /\ KeepsMutex(t)
    /\ thread' = [thread EXCEPT ![t] = Calling(<<s>>, None)]
    /\ connection' = [connection EXCEPT ![s] = "none"]
    /\ Join(s)
    /\ UNCHANGED <<state, invocation, deferred, generation, fired, calls>>

(* The function that is returned holds the slot and a copy of the arguments; *)
ConnectDeferredLatched(t, s) ==
    /\ Locks(t) /\ connection[s] = "new" /\ IsLatched
    /\ deferred' = [deferred EXCEPT ![s] = state.args]
    /\ connection' = [connection EXCEPT ![s] = "deferred"]
    /\ Join(s)
    /\ UNCHANGED <<state, mutex, thread, invocation, generation, fired, calls>>

(* its caller runs it when no lock is held. *)
RunDeferredConnection(t, s) ==
    /\ thread[t] = Idle /\ connection[s] = "deferred"
    /\ connection' = [connection EXCEPT ![s] = "none"]
    /\ thread' = [thread EXCEPT ![t] = Calling(<<s>>, deferred[s])]
    /\ RunsUnlocked(t)
    /\ UNCHANGED <<state, invocation, deferred, generation, joined, fired, calls>>

Disconnect(t, s) ==
    /\ thread[t] = Idle /\ connection[s] = "connected"
    /\ connection' = [connection EXCEPT ![s] = "disconnected"]
    /\ UNCHANGED <<state, mutex, thread, invocation, deferred, generation, joined, fired, calls>>

(* operator(): the signal is moved out, the arguments take its place and   *)
(* the slots are called with mutex_ held.  On a latched signal it returns  *)
(* false and does nothing.                                                 *)
Call(t, v) ==
    /\ CanFire(t)
    /\ KeepsMutex(t)
    /\ thread' = [thread EXCEPT ![t] = Calling(Moved, None)]
    /\ Fire(v)
    /\ UNCHANGED <<invocation, connection, deferred, generation, joined, calls>>

InvokeDeferred(t, v) ==
    /\ CanFire(t) /\ invocation[t] = None
    /\ invocation' = [invocation EXCEPT ![t] = [slots |-> Moved, args |-> v]]
    /\ Fire(v)
    /\ UNCHANGED <<mutex, thread, connection, deferred, generation, joined, calls>>

(* DeferredInvocation::operator(): what it held is cleared with it. *)
RunInvocation(t) ==
    /\ thread[t] = Idle /\ invocation[t] # None
    /\ thread' = [thread EXCEPT ![t] = Calling(invocation[t].slots, invocation[t].args)]
    /\ invocation' = [invocation EXCEPT ![t] = None]
    /\ RunsUnlocked(t)
    /\ UNCHANGED <<state, connection, deferred, generation, joined, fired, calls>>

(* boost::signals2 calls the slots in the order they were connected in and *)
(* passes over those that are disconnected when their turn comes.          *)
NextSlot(t) ==
    /\ thread[t].at = "calling" /\ thread[t].slots # << >>
    /\ LET s == Head(thread[t].slots)
       IN IF connection[s] = "disconnected"
          THEN /\ thread' = [thread EXCEPT ![t].slots = Tail(@)]
               /\ UNCHANGED calls
          ELSE /\ thread' = [thread EXCEPT ![t].at = "in slot"]
               /\ calls' = Append(calls, [slot |-> s, args |-> ArgsPassed(t), direct |-> Direct(t)])
    /\ UNCHANGED <<state, mutex, invocation, connection, deferred, generation, joined, fired>>

(* A slot that asks the signal anything locks mutex_ before it returns.    *)
(* Called from operator() or Connect it must not, or it would wait for its *)
(* own thread for ever.                                                    *)
ReturnFromSlot(t) ==
    /\ thread[t].at = "in slot"
    /\ Head(thread[t].slots) \in Asking /\ ~Direct(t) => mutex = None
    /\ thread' = [thread EXCEPT ![t] = Calling(Tail(@.slots), @.args)]
    /\ UNCHANGED <<state, mutex, invocation, connection, deferred, generation, joined, fired, calls>>

EndOfCalls(t) ==
    /\ thread[t].at = "calling" /\ thread[t].slots = << >>
    /\ thread' = [thread EXCEPT ![t] = Idle]
    /\ Unlock(t)
    /\ UNCHANGED <<state, invocation, connection, deferred, generation, joined, fired, calls>>

(* A Signal that is destroyed drops its slots. *)
Reset(t) ==
    /\ Locks(t) /\ generation < MaxResets
    /\ state' = Unlatched
    /\ generation' = generation + 1
    /\ connection' = [s \in Slots |->
            IF \E k \in DOMAIN state.slots : state.slots[k] = s THEN "disconnected" ELSE connection[s]]
    /\ UNCHANGED <<mutex, thread, invocation, deferred, joined, fired, calls>>

(* Unlatched, or latched by the constructor that is given the arguments. *)
Init ==
    /\ state \in {Unlatched} \cup {Latched(v) : v \in Args}
    /\ mutex = None
    /\ thread = [t \in Threads |-> Idle]
    /\ invocation = [t \in Threads |-> None]
    /\ connection = [s \in Slots |-> "new"]
    /\ deferred = [s \in Slots |-> None]
    /\ generation = 0
    /\ joined = << >>
    /\ fired = [g \in 0..MaxResets |-> IF g = 0 THEN state.args ELSE None]
    /\ calls = << >>

Runs(t) ==
    \/ \E s \in Slots : RunDeferredConnection(t, s)
    \/ RunInvocation(t) \/ NextSlot(t) \/ ReturnFromSlot(t) \/ EndOfCalls(t)

Next == \E t \in Threads :
    \/ \E s \in Slots : \/ ConnectUnlatched(t, s) \/ ConnectLatched(t, s)
                        \/ ConnectDeferredLatched(t, s) \/ Disconnect(t, s)
    \/ \E v \in Args : Call(t, v) \/ InvokeDeferred(t, v)
    \/ Reset(t)
    \/ Runs(t)

Spec == Init /\ [][Next]_vars

(* Threads that have begun go on, and whoever is given a DeferredConnection *)
(* or a DeferredInvocation calls it; nobody has to fire the signal.         *)
FairSpec == Spec /\ \A t \in Threads : WF_vars(Runs(t))
-----------------------------------------------------------------------------
WasCalled(s) == \E k \in DOMAIN calls : calls[k].slot = s

(* A slot is called at most once, and with the arguments that fired the    *)
(* signal it was connected to: not those of a later firing, whatever is    *)
(* reset or fired again before a deferred call is made (28-110).           *)
CalledOnceWithItsArgs ==
    \A k \in DOMAIN calls :
        /\ \A j \in DOMAIN calls : calls[j].slot = calls[k].slot => j = k
        /\ \E j \in DOMAIN joined :
            /\ joined[j].slot = calls[k].slot
            /\ calls[k].args = fired[joined[j].generation]
            /\ calls[k].args # None

(* When nobody is calling slots and no deferred call is outstanding, every *)
(* slot that was connected to a signal that has fired has been called, or  *)
(* was disconnected: none falls between the check of state_ and the firing.*)
NoSlotMissed ==
    (\A t \in Threads : thread[t] = Idle /\ invocation[t] = None) =>
        \A j \in DOMAIN joined :
            \/ fired[joined[j].generation] = None
            \/ connection[joined[j].slot] \in {"deferred", "disconnected"}
            \/ WasCalled(joined[j].slot)

(* The slots of one firing are called in the order they were connected in. *)
(* As long as no deferred operation makes the calls, that includes slots   *)
(* connected after the firing, by another thread: they wait until the      *)
(* earlier ones have been called.                                          *)
CalledInOrder ==
    \A i, j \in DOMAIN joined : i < j /\ joined[i].generation = joined[j].generation =>
        \A k, l \in DOMAIN calls :
            /\ calls[k].slot = joined[i].slot /\ calls[l].slot = joined[j].slot
            /\ joined[j].waits \/ (calls[k].direct /\ calls[l].direct)
            => k < l

(* A slot that waits when the signal fires, or comes later, is called or   *)
(* disconnected: no thread keeps mutex_ for ever, and a slot that asks the *)
(* signal gets its answer if it is called by a deferred operation.         *)
EveryWaitingSlotRuns ==
    \A s \in Slots :
        (\E j \in DOMAIN joined : joined[j].slot = s /\ fired[joined[j].generation] # None)
            ~> WasCalled(s) \/ connection[s] = "disconnected"
=============================================================================

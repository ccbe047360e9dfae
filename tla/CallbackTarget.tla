--------------------------- MODULE CallbackTarget ---------------------------
(***************************************************************************)
(* concurrent/callback_target.h: an object with a strand of its own and an *)
(* intrusive reference count, and the callbacks it hands out.  Invoking a  *)
(* callback makes a task that owns a reference and calls a member function *)
(* of the object on its strand.                                            *)
(*                                                                         *)
(* The strand and the io_service are boost's.  They are modelled by what   *)
(* the code relies on: a strand runs one task at a time, in the order they *)
(* were queued; dispatch runs the task at once when the caller is already  *)
(* on the strand, or is a worker of the io_service while the strand is     *)
(* free; a task is destroyed when it has run.                              *)
(***************************************************************************)
EXTENDS Naturals, SequencesExt

CONSTANTS Workers,     \* threads in io_service::run
          Outsiders,   \* other threads
          Listeners,   \* callbacks made by ListenerCallback and ...Later
          OneShots,    \* callbacks made by OneShotCallback and ...Later
          Later,       \* those among them whose scheduler is PostScheduler
          MaxCalls     \* bound on the invocations of callbacks
ASSUME CallbacksAssumption == Listeners \cap OneShots = {} /\ Later \subseteq Listeners \cup OneShots
ASSUME ThreadsAssumption   == Workers \cap Outsiders = {}

Callbacks == Listeners \cup OneShots
Threads   == Workers \cup Outsiders

VARIABLES
    refs,       \* the reference count of the object
    destroyed,  \* it has reached zero and the object is gone
    user,       \* somebody outside holds an intrusive_ptr
    callback,   \* state of each callback: "unmade", "made" or "gone"
    obj_,       \* its pointer is not null
    queue,      \* the callbacks whose tasks wait on the strand
    stack,      \* for each thread, what it is in the middle of, innermost first
    calls, runs \* how often each callback was invoked and its task has started

vars == <<refs, destroyed, user, callback, obj_, queue, stack, calls, runs>>

Frame(k, c)   == [kind |-> k, cb |-> c]
In(t, k)      == stack[t] # << >> /\ Head(stack[t]).kind = k
Top(t)        == Head(stack[t]).cb
Enter(t, f)   == stack' = [stack EXCEPT ![t] = <<f>> \o @]
Replace(t, f) == stack' = [stack EXCEPT ![t] = <<f>> \o Tail(@)]

OnStrand(t)  == \E k \in DOMAIN stack[t] : stack[t][k].kind = "task"
StrandFree   == queue = << >> /\ \A t \in Threads : ~OnStrand(t)
(* User code runs in a thread that is in no operator() of a callback.      *)
UserCode(t)  == stack[t] = << >> \/ In(t, "task")

(* The intrusive_ptr operations; the last release destroys the object.     *)
AddRef  == refs' = refs + 1 /\ destroyed' = destroyed
Release == refs' = refs - 1 /\ destroyed' = (refs = 1)

Init ==
    /\ refs = 1 /\ destroyed = FALSE /\ user = TRUE
    /\ callback = [c \in Callbacks |-> "unmade"]
    /\ obj_ = [c \in Callbacks |-> FALSE]
    /\ queue = << >>
    /\ stack = [t \in Threads |-> << >>]
    /\ calls = [c \in Callbacks |-> 0]
    /\ runs = [c \in Callbacks |-> 0]

(* shared_from_this, by a thread that has the object.                      *)
Make(t, c) ==
    /\ UserCode(t) /\ callback[c] = "unmade" /\ (user \/ In(t, "task"))
    /\ callback' = [callback EXCEPT ![c] = "made"]
    /\ obj_' = [obj_ EXCEPT ![c] = TRUE]
    /\ AddRef
    /\ UNCHANGED <<user, queue, stack, calls, runs>>

\* Wrong: the task is given the raw pointer only.
InvokeUnowned(t, c) ==
    /\ UserCode(t) /\ obj_[c]
    /\ Enter(t, Frame("calling", c))
    /\ obj_' = [obj_ EXCEPT ![c] = c \in Listeners]
    /\ calls' = [calls EXCEPT ![c] = @ + 1]
    /\ UNCHANGED <<refs, destroyed, user, callback, queue, runs>>

(* operator(), up to the call of schedule: the task gets a copy of obj_;   *)
(* a one-shot callback moves its own to local_obj and must have one.       *)
Invoke(t, c) ==
    /\ UserCode(t) /\ obj_[c]
    /\ Enter(t, Frame("calling", c))
    /\ obj_' = [obj_ EXCEPT ![c] = c \in Listeners]
    /\ calls' = [calls EXCEPT ![c] = @ + 1]
    /\ AddRef
    /\ UNCHANGED <<user, callback, queue, runs>>

CanRunNow(t) == OnStrand(t) \/ (t \in Workers /\ StrandFree)

(* DispatchScheduler on the strand: the task runs on top of operator().    *)
DispatchNow(t) ==
    /\ In(t, "calling") /\ Top(t) \notin Later /\ CanRunNow(t)
    /\ stack' = [stack EXCEPT ![t] = <<Frame("task", Top(t)), Frame("scheduled", Top(t))>> \o Tail(@)]
    /\ runs' = [runs EXCEPT ![Top(t)] = @ + 1]
    /\ UNCHANGED <<refs, destroyed, user, callback, obj_, queue, calls>>

\* Wrong: a task that finds the strand busy is dropped.
EnqueueIfFree(t) ==
    /\ In(t, "calling") /\ (Top(t) \in Later \/ ~CanRunNow(t))
    /\ queue' = IF StrandFree THEN <<Top(t)>> ELSE queue
    /\ Replace(t, Frame("scheduled", Top(t)))
    /\ UNCHANGED <<refs, destroyed, user, callback, obj_, calls, runs>>

(* PostScheduler, or DispatchScheduler off the strand.                     *)
Enqueue(t) ==
    /\ In(t, "calling") /\ (Top(t) \in Later \/ ~CanRunNow(t))
    /\ queue' = Append(queue, Top(t))
    /\ Replace(t, Frame("scheduled", Top(t)))
    /\ UNCHANGED <<refs, destroyed, user, callback, obj_, calls, runs>>

\* Wrong: the reference in local_obj is never released.
ReturnKeepsLocal(t) ==
    /\ In(t, "scheduled")
    /\ stack' = [stack EXCEPT ![t] = Tail(@)]
    /\ UNCHANGED <<refs, destroyed, user, callback, obj_, queue, calls, runs>>

(* operator() returns; a one-shot callback's local_obj goes.               *)
Return(t) ==
    /\ In(t, "scheduled")
    /\ stack' = [stack EXCEPT ![t] = Tail(@)]
    /\ IF Top(t) \in OneShots THEN Release ELSE UNCHANGED <<refs, destroyed>>
    /\ UNCHANGED <<user, callback, obj_, queue, calls, runs>>

(* An idle worker runs the first task of the strand.                       *)
RunQueued(t) ==
    /\ t \in Workers /\ stack[t] = << >> /\ queue # << >>
    /\ \A o \in Threads : ~OnStrand(o)
    /\ queue' = Tail(queue)
    /\ Enter(t, Frame("task", Head(queue)))
    /\ runs' = [runs EXCEPT ![Head(queue)] = @ + 1]
    /\ UNCHANGED <<refs, destroyed, user, callback, obj_, calls>>

(* The member function returns and the task is destroyed.                  *)
TaskEnds(t) ==
    /\ In(t, "task")
    /\ stack' = [stack EXCEPT ![t] = Tail(@)]
    /\ Release
    /\ UNCHANGED <<user, callback, obj_, queue, calls, runs>>

(* A thread destroys a callback: one that no other thread is invoking, and *)
(* perhaps the very one that runs the task the thread is in.               *)
Drop(t, c) ==
    /\ UserCode(t) /\ callback[c] = "made"
    /\ \A o \in Threads \ {t} : Frame("calling", c) \notin ToSet(stack[o])
    /\ callback' = [callback EXCEPT ![c] = "gone"]
    /\ obj_' = [obj_ EXCEPT ![c] = FALSE]
    /\ IF obj_[c] THEN Release ELSE UNCHANGED <<refs, destroyed>>
    /\ UNCHANGED <<user, queue, stack, calls, runs>>

(* The pointer held outside goes. *)
DropUser(t) ==
    /\ UserCode(t) /\ user
    /\ user' = FALSE
    /\ Release
    /\ UNCHANGED <<callback, obj_, queue, stack, calls, runs>>

TotalCalls == FoldFunction(LAMBDA a, b : a + b, 0, calls)

Step(t) == DispatchNow(t) \/ Enqueue(t) \/ Return(t) \/ TaskEnds(t) \/ RunQueued(t)
Next ==
    \E t \in Threads :
        \/ Step(t)
        \/ DropUser(t)
        \/ \E c \in Callbacks : Make(t, c) \/ Drop(t, c) \/ (TotalCalls < MaxCalls /\ Invoke(t, c))

(* Threads in the library make progress, member functions return and       *)
(* workers pick up tasks; what user code does is up to it.                 *)
Spec == Init /\ [][Next]_vars /\ \A t \in Threads : WF_vars(Step(t))
-----------------------------------------------------------------------------

(* The object is there whenever schedule uses its strand and whenever a    *)
(* member function runs, also if the callback, or every pointer outside,   *)
(* goes meanwhile.                                                         *)
AliveWhileUsed ==
    \A t \in Threads, k \in {"calling", "scheduled", "task"} :
        In(t, k) /\ (k = "scheduled" => Top(t) \in OneShots) => ~destroyed

(* A callback that is invoked runs its function, even if everybody lets go *)
(* of the object meanwhile, and then the object goes.                      *)
EveryCallRuns == \A c \in Callbacks : \A k \in 1..MaxCalls : calls[c] >= k ~> runs[c] >= k
NothingLeaks  == [](~user /\ \A c \in Callbacks : ~obj_[c]) ~> destroyed
=============================================================================

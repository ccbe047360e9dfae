------------------------ MODULE CallbackTargetProofs ------------------------
(***************************************************************************)
(* Proofs about CallbackTarget for any threads and callbacks and any       *)
(* number of calls.  The reference count is the number of owners: the user *)
(* outside, each callback with its obj_, each task, and the local_obj of   *)
(* each one-shot callback that is being invoked.  Every step takes and     *)
(* releases exactly the references of the owners it makes and ends, so     *)
(* that whoever uses the object finds it alive, and takes an invocation at *)
(* most one place further, so that each is run once or still on its way.   *)
(***************************************************************************)
EXTENDS CallbackTarget, FiniteSetTheorems, SequenceTheorems, TLAPS

Frames == [kind : {"calling", "scheduled", "task"}, cb : Callbacks]

TypeOK ==
  /\ user \in BOOLEAN /\ destroyed \in BOOLEAN
  /\ callback \in [Callbacks -> {"unmade", "made", "gone"}]
  /\ obj_ \in [Callbacks -> BOOLEAN]
  /\ queue \in Seq(Callbacks)
  /\ stack \in [Threads -> Seq(Frames)]
  /\ \A c \in Callbacks : callback[c] = "unmade" => ~obj_[c]

(* The frames of a thread, counted from the outermost one.                 *)
At(s, d) == s[Len(s) + 1 - d]

\* A task is owned by operator() until it is queued or runs.
HasTask(f) == f.kind \in {"calling", "task"}
HasLocal(f) == f.kind \in {"calling", "scheduled"} /\ f.cb \in OneShots

OwnsTask(t, d) == d \in 1..Len(stack[t]) /\ HasTask(At(stack[t], d))
OwnsLocal(t, d) == d \in 1..Len(stack[t]) /\ HasLocal(At(stack[t], d))

UserRef == <<"user">>
ObjOf(c) == <<"obj_", c>>
TaskOf(t, d) == <<"task", t, d>>
LocalOf(t, d) == <<"local_obj", t, d>>

Tasks ==
  UNION {{TaskOf(t, d) : d \in {e \in 1..Len(stack[t]) : OwnsTask(t, e)}} :
           t \in Threads}

Locals ==
  UNION {{LocalOf(t, d) : d \in {e \in 1..Len(stack[t]) : OwnsLocal(t, e)}} :
           t \in Threads}

(* Who owns a reference, but for the tasks that wait on the strand.        *)
Owners ==
  {o \in {UserRef} : user} \cup {ObjOf(c) : c \in {b \in Callbacks : obj_[b]}}
    \cup Tasks \cup Locals

Counted ==
  /\ IsFiniteSet(Owners)
  /\ refs = Cardinality(Owners) + Len(queue)
  /\ destroyed <=> refs = 0

CInv == TypeOK /\ Counted
-----------------------------------------------------------------------------
\* What becomes of the frames s of a thread when one is put on them, the
\* innermost is taken from them or replaced, or replaced by two.
SameBelow(s, r, n) == \A d \in 1..(n - 1) : At(r, d) = At(s, d)
Stacks(s, r) == r \in Seq(Frames) /\ Len(s) \in Nat /\ Len(r) \in Nat

Pushed(s, f, r, n) ==
  /\ Stacks(s, r) /\ SameBelow(s, r, n)
  /\ n = Len(s) + 1 /\ n = Len(r) /\ At(r, n) = f
Popped(s, r, n) ==
  /\ Stacks(s, r) /\ SameBelow(s, r, n)
  /\ n = Len(s) /\ n = Len(r) + 1 /\ At(s, n) = Head(s)
Replaced(s, f, r, n) ==
  /\ Stacks(s, r) /\ SameBelow(s, r, n)
  /\ n = Len(s) /\ n = Len(r) /\ n >= 1 /\ At(s, n) = Head(s) /\ At(r, n) = f
Split(s, f, g, r, n) ==
  /\ Stacks(s, r) /\ SameBelow(s, r, n)
  /\ n = Len(s) /\ n + 1 = Len(r) /\ n >= 1
  /\ At(s, n) = Head(s) /\ At(r, n) = f /\ At(r, n + 1) = g

\* One is put on them,
LEMMA Push ==
  ASSUME NEW s \in Seq(Frames), NEW f \in Frames, NEW r, r = <<f>> \o s
  PROVE  Pushed(s, f, r, Len(s) + 1)
<1>1. /\ r \in Seq(Frames) /\ Len(s) \in Nat /\ Len(r) = Len(s) + 1
      /\ r[1] = f /\ \A k \in 1..Len(s) : r[k + 1] = s[k]
  OBVIOUS
<1>2. ASSUME NEW d \in 1..Len(s)
      PROVE  At(r, d) = At(s, d)
  <2>1. Len(s) + 1 - d \in 1..Len(s) /\ Len(r) + 1 - d = (Len(s) + 1 - d) + 1
    BY <1>1
  <2>2. QED
    BY <1>1, <2>1 DEF At
<1>3. At(r, Len(s) + 1) = f
  BY <1>1 DEF At
<1>4. QED
  BY <1>1, <1>2, <1>3 DEF Pushed, Stacks, SameBelow

\* the innermost is taken,
LEMMA Pop ==
  ASSUME NEW s \in Seq(Frames), s # << >>, NEW r, r = Tail(s)
  PROVE  Popped(s, r, Len(s)) /\ Head(s) \in Frames /\ Len(s) >= 1
<1>1. /\ r \in Seq(Frames) /\ Len(s) \in Nat /\ Len(s) >= 1
      /\ Len(r) = Len(s) - 1 /\ Head(s) \in Frames /\ s[1] = Head(s)
      /\ \A k \in 1..Len(r) : r[k] = s[k + 1]
  OBVIOUS
<1>2. ASSUME NEW d \in 1..(Len(s) - 1)
      PROVE  At(r, d) = At(s, d)
  <2>1. Len(r) + 1 - d \in 1..Len(r) /\ Len(s) + 1 - d = (Len(r) + 1 - d) + 1
    BY <1>1
  <2>2. QED
    BY <1>1, <2>1 DEF At
<1>3. At(s, Len(s)) = Head(s)
  BY <1>1 DEF At
<1>4. QED
  BY <1>1, <1>2, <1>3 DEF Popped, Stacks, SameBelow

\* or replaced,
LEMMA Replacing ==
  ASSUME NEW s \in Seq(Frames), s # << >>, NEW f \in Frames,
         NEW r, r = <<f>> \o Tail(s)
  PROVE  Replaced(s, f, r, Len(s))
<1>1. PICK q : q = Tail(s)
  OBVIOUS
<1>2. Popped(s, q, Len(s)) /\ Len(s) >= 1
  BY <1>1, Pop
<1>3. Pushed(q, f, r, Len(q) + 1)
  BY <1>1, <1>2, Push DEF Popped, Stacks
<1>4. QED
  BY <1>2, <1>3 DEF Popped, Pushed, Replaced, Stacks, SameBelow

\* which, with another put on it,
LEMMA ReplaceAndPush ==
  ASSUME NEW s, NEW f, NEW g, NEW q, NEW r,
         Replaced(s, f, q, Len(s)), Pushed(q, g, r, Len(q) + 1)
  PROVE  Split(s, f, g, r, Len(s))
<1>1. PICK n : n = Len(s)
  OBVIOUS
<1>2. /\ n \in Nat /\ n >= 1 /\ n = Len(q) /\ n + 1 = Len(r) /\ r \in Seq(Frames)
      /\ At(s, n) = Head(s) /\ At(q, n) = f /\ At(r, n + 1) = g
      /\ Len(s) \in Nat /\ Len(r) \in Nat
  BY <1>1 DEF Replaced, Pushed, Stacks
<1>3. \A d \in 1..((n + 1) - 1) : At(r, d) = At(q, d)
  BY <1>2 DEF Pushed, SameBelow
<1>4. \A d \in 1..(n - 1) : At(q, d) = At(s, d)
  BY <1>1 DEF Replaced, SameBelow
<1>5. SameBelow(s, r, n) /\ At(r, n) = f
  BY <1>2, <1>3, <1>4 DEF SameBelow
<1>6. QED
  BY <1>1, <1>2, <1>5 DEF Split, Stacks

\* replaces it by two.
LEMMA Splitting ==
  ASSUME NEW s \in Seq(Frames), s # << >>, NEW f \in Frames, NEW g \in Frames,
         NEW r, r = <<g, f>> \o Tail(s)
  PROVE  Split(s, f, g, r, Len(s))
<1>1. PICK q : q = <<f>> \o Tail(s)
  OBVIOUS
<1>2. Replaced(s, f, q, Len(s))
  BY <1>1, Replacing
<1>3. r = <<g>> \o q
  <2>1. Tail(s) \in Seq(Frames)
    OBVIOUS
  <2>2. <<g>> \in Seq(Frames) /\ <<f>> \in Seq(Frames) /\ <<g, f>> = <<g>> \o <<f>>
    OBVIOUS
  <2>3. (<<g>> \o <<f>>) \o Tail(s) = <<g>> \o (<<f>> \o Tail(s))
    BY <2>1, <2>2, ConcatAssociative
  <2>4. QED
    BY <1>1, <2>2, <2>3
<1>4. Pushed(q, g, r, Len(q) + 1)
  BY <1>2, <1>3, Push DEF Replaced, Stacks
<1>5. QED
  BY <1>2, <1>4, ReplaceAndPush

\* Which references there are.
Read ==
  /\ UserRef \in Owners <=> user
  /\ \A c \in Callbacks : ObjOf(c) \in Owners <=> obj_[c]
  /\ \A t \in Threads : \A d \in Nat :
       /\ TaskOf(t, d) \in Owners <=> OwnsTask(t, d)
       /\ LocalOf(t, d) \in Owners <=> OwnsLocal(t, d)
  /\ \A o \in Owners :
       \/ o = UserRef
       \/ \E c \in Callbacks : o = ObjOf(c)
       \/ \E t \in Threads, d \in Nat : o = TaskOf(t, d)
       \/ \E t \in Threads, d \in Nat : o = LocalOf(t, d)

\* The references are different ones.
LEMMA Distinct ==
  /\ \A c : UserRef # ObjOf(c)
  /\ \A t, d : UserRef # TaskOf(t, d) /\ UserRef # LocalOf(t, d)
  /\ \A c, t, d : ObjOf(c) # TaskOf(t, d) /\ ObjOf(c) # LocalOf(t, d)
  /\ \A t, d, u, e : TaskOf(t, d) # LocalOf(u, e)
  /\ \A b, c : ObjOf(b) = ObjOf(c) => b = c
  /\ \A t, d, u, e : /\ TaskOf(t, d) = TaskOf(u, e) => t = u /\ d = e
                     /\ LocalOf(t, d) = LocalOf(u, e) => t = u /\ d = e
BY DEF UserRef, ObjOf, TaskOf, LocalOf

\* They are the elements of Owners, in every state.
LEMMA ReadNow == Read
<1>1. \A o \in Tasks : \E t \in Threads, d \in Nat :
        o = TaskOf(t, d) /\ OwnsTask(t, d)
  BY DEF Tasks
<1>2. \A t \in Threads : \A d \in Nat :
        OwnsTask(t, d) => TaskOf(t, d) \in Tasks
  BY DEF Tasks, OwnsTask
<1>3. \A o \in Locals : \E t \in Threads, d \in Nat :
        o = LocalOf(t, d) /\ OwnsLocal(t, d)
  BY DEF Locals
<1>4. \A t \in Threads : \A d \in Nat :
        OwnsLocal(t, d) => LocalOf(t, d) \in Locals
  BY DEF Locals, OwnsLocal
<1>5. UserRef \in Owners <=> user
  BY <1>1, <1>3, Distinct DEF Owners
<1>6. \A c \in Callbacks : ObjOf(c) \in Owners <=> obj_[c]
  BY <1>1, <1>3, Distinct DEF Owners
<1>7. ASSUME NEW t \in Threads, NEW d \in Nat
      PROVE  /\ TaskOf(t, d) \in Owners <=> OwnsTask(t, d)
             /\ LocalOf(t, d) \in Owners <=> OwnsLocal(t, d)
  <2>1. TaskOf(t, d) \in Owners <=> TaskOf(t, d) \in Tasks
    BY <1>3, Distinct DEF Owners
  <2>2. LocalOf(t, d) \in Owners <=> LocalOf(t, d) \in Locals
    BY <1>1, Distinct DEF Owners
  <2>3. QED
    BY <2>1, <2>2, <1>1, <1>2, <1>3, <1>4, Distinct
<1>8. ASSUME NEW o \in Owners
      PROVE  \/ o = UserRef
             \/ \E c \in Callbacks : o = ObjOf(c)
             \/ \E t \in Threads, d \in Nat : o = TaskOf(t, d)
             \/ \E t \in Threads, d \in Nat : o = LocalOf(t, d)
  BY <1>1, <1>3 DEF Owners
<1>9. QED
  BY <1>5, <1>6, <1>7, <1>8 DEF Read

\* What a step does not change of the references.
LEMMA Others ==
  ASSUME NEW C,
         UserRef \in C \/ user' = user,
         \A c \in Callbacks : ObjOf(c) \in C \/ obj_'[c] = obj_[c],
         \A t \in Threads, d \in Nat :
           /\ TaskOf(t, d) \in C \/ (OwnsTask(t, d)' <=> OwnsTask(t, d))
           /\ LocalOf(t, d) \in C \/ (OwnsLocal(t, d)' <=> OwnsLocal(t, d))
  PROVE  \A o : o \notin C => (o \in Owners' <=> o \in Owners)
<1>1. Read /\ Read'
  BY ReadNow, PTL
<1>2. SUFFICES ASSUME NEW o, o \notin C, o \in Owners' \/ o \in Owners
               PROVE  o \in Owners' <=> o \in Owners
  OBVIOUS
<1>3. CASE o = UserRef
  BY <1>1, <1>2, <1>3 DEF Read
<1>4. ASSUME NEW c \in Callbacks, o = ObjOf(c)
      PROVE  o \in Owners' <=> o \in Owners
  BY <1>1, <1>2, <1>4 DEF Read
<1>5. ASSUME NEW t \in Threads, NEW d \in Nat, o = TaskOf(t, d)
      PROVE  o \in Owners' <=> o \in Owners
  BY <1>1, <1>2, <1>5 DEF Read
<1>6. ASSUME NEW t \in Threads, NEW d \in Nat, o = LocalOf(t, d)
      PROVE  o \in Owners' <=> o \in Owners
  BY <1>1, <1>2, <1>6 DEF Read
<1>7. QED
  BY <1>1, <1>2, <1>3, <1>4, <1>5, <1>6 DEF Read
-----------------------------------------------------------------------------
\* What the frames own after those of one thread have been set.
LEMMA StackSet ==
  ASSUME stack \in [Threads -> Seq(Frames)], NEW t \in Threads,
         NEW s, s = stack[t],
         NEW r \in Seq(Frames), stack' = [stack EXCEPT ![t] = r]
  PROVE  /\ stack' \in [Threads -> Seq(Frames)]
         /\ \A d : /\ OwnsTask(t, d)' <=> d \in 1..Len(r) /\ HasTask(At(r, d))
                   /\ OwnsLocal(t, d)' <=> d \in 1..Len(r) /\ HasLocal(At(r, d))
                   /\ OwnsTask(t, d) <=> d \in 1..Len(s) /\ HasTask(At(s, d))
                   /\ OwnsLocal(t, d) <=> d \in 1..Len(s) /\ HasLocal(At(s, d))
         /\ \A u \in Threads : \A d : u # t =>
              /\ OwnsTask(u, d)' <=> OwnsTask(u, d)
              /\ OwnsLocal(u, d)' <=> OwnsLocal(u, d)
<1>1. stack'[t] = r /\ \A u \in Threads : u # t => stack'[u] = stack[u]
  OBVIOUS
<1>2. \A d : /\ OwnsTask(t, d)' <=> d \in 1..Len(r) /\ HasTask(At(r, d))
             /\ OwnsLocal(t, d)' <=> d \in 1..Len(r) /\ HasLocal(At(r, d))
  BY <1>1 DEF OwnsTask, OwnsLocal, At, HasTask, HasLocal
<1>3. \A u \in Threads : \A d : u # t =>
        /\ OwnsTask(u, d)' <=> OwnsTask(u, d)
        /\ OwnsLocal(u, d)' <=> OwnsLocal(u, d)
  BY <1>1 DEF OwnsTask, OwnsLocal, At, HasTask, HasLocal
<1>4. \A d : /\ OwnsTask(t, d) <=> d \in 1..Len(s) /\ HasTask(At(s, d))
             /\ OwnsLocal(t, d) <=> d \in 1..Len(s) /\ HasLocal(At(s, d))
  BY DEF OwnsTask, OwnsLocal
<1>5. stack' \in [Threads -> Seq(Frames)]
  OBVIOUS
<1>6. QED
  BY <1>2, <1>3, <1>4, <1>5

\* After one is put on them,
LEMMA PushOwns ==
  ASSUME stack \in [Threads -> Seq(Frames)], NEW t \in Threads,
         NEW s, s = stack[t], NEW r, stack' = [stack EXCEPT ![t] = r],
         NEW f, NEW n, Pushed(s, f, r, n)
  PROVE  /\ n \in Nat /\ stack' \in [Threads -> Seq(Frames)]
         /\ ~OwnsTask(t, n) /\ ~OwnsLocal(t, n)
         /\ OwnsTask(t, n)' <=> HasTask(f)
         /\ OwnsLocal(t, n)' <=> HasLocal(f)
         /\ \A u \in Threads, d \in Nat : u # t \/ d # n =>
              /\ OwnsTask(u, d)' <=> OwnsTask(u, d)
              /\ OwnsLocal(u, d)' <=> OwnsLocal(u, d)
<1>1. r \in Seq(Frames) /\ Len(s) \in Nat /\ Len(r) \in Nat /\ n \in Nat
  BY DEF Pushed, Stacks
<1>2. /\ \A d : /\ OwnsTask(t, d)' <=> d \in 1..Len(r) /\ HasTask(At(r, d))
                /\ OwnsLocal(t, d)' <=> d \in 1..Len(r) /\ HasLocal(At(r, d))
                /\ OwnsTask(t, d) <=> d \in 1..Len(s) /\ HasTask(At(s, d))
                /\ OwnsLocal(t, d) <=> d \in 1..Len(s) /\ HasLocal(At(s, d))
      /\ \A u \in Threads : \A d : u # t =>
           /\ OwnsTask(u, d)' <=> OwnsTask(u, d)
           /\ OwnsLocal(u, d)' <=> OwnsLocal(u, d)
      /\ stack' \in [Threads -> Seq(Frames)]
  BY <1>1, StackSet
<1>3. /\ ~OwnsTask(t, n) /\ ~OwnsLocal(t, n)
      /\ OwnsTask(t, n)' <=> HasTask(f)
      /\ OwnsLocal(t, n)' <=> HasLocal(f)
  BY <1>1, <1>2 DEF Pushed
<1>4. ASSUME NEW d \in Nat, d # n
      PROVE  /\ OwnsTask(t, d)' <=> OwnsTask(t, d)
             /\ OwnsLocal(t, d)' <=> OwnsLocal(t, d)
  <2>1. d \in 1..Len(r) <=> d \in 1..Len(s)
    BY <1>1, <1>4 DEF Pushed
  <2>2. d \in 1..Len(r) => At(r, d) = At(s, d)
    BY <1>1, <1>4 DEF Pushed, SameBelow
  <2>3. QED
    BY <1>2, <2>1, <2>2
<1>5. QED
  BY <1>1, <1>2, <1>3, <1>4

\* after the innermost is taken from them,
LEMMA PopOwns ==
  ASSUME stack \in [Threads -> Seq(Frames)], NEW t \in Threads,
         NEW s, s = stack[t], NEW r, stack' = [stack EXCEPT ![t] = r],
         NEW n, Popped(s, r, n)
  PROVE  /\ n \in Nat /\ stack' \in [Threads -> Seq(Frames)]
         /\ OwnsTask(t, n) <=> HasTask(Head(s))
         /\ OwnsLocal(t, n) <=> HasLocal(Head(s))
         /\ ~OwnsTask(t, n)' /\ ~OwnsLocal(t, n)'
         /\ \A u \in Threads, d \in Nat : u # t \/ d # n =>
              /\ OwnsTask(u, d)' <=> OwnsTask(u, d)
              /\ OwnsLocal(u, d)' <=> OwnsLocal(u, d)
<1>1. r \in Seq(Frames) /\ Len(s) \in Nat /\ Len(r) \in Nat /\ n \in Nat
  BY DEF Popped, Stacks
<1>2. /\ \A d : /\ OwnsTask(t, d)' <=> d \in 1..Len(r) /\ HasTask(At(r, d))
                /\ OwnsLocal(t, d)' <=> d \in 1..Len(r) /\ HasLocal(At(r, d))
                /\ OwnsTask(t, d) <=> d \in 1..Len(s) /\ HasTask(At(s, d))
                /\ OwnsLocal(t, d) <=> d \in 1..Len(s) /\ HasLocal(At(s, d))
      /\ \A u \in Threads : \A d : u # t =>
           /\ OwnsTask(u, d)' <=> OwnsTask(u, d)
           /\ OwnsLocal(u, d)' <=> OwnsLocal(u, d)
      /\ stack' \in [Threads -> Seq(Frames)]
  BY <1>1, StackSet
<1>3. /\ OwnsTask(t, n) <=> HasTask(Head(s))
      /\ OwnsLocal(t, n) <=> HasLocal(Head(s))
      /\ ~OwnsTask(t, n)' /\ ~OwnsLocal(t, n)'
  BY <1>1, <1>2 DEF Popped
<1>4. ASSUME NEW d \in Nat, d # n
      PROVE  /\ OwnsTask(t, d)' <=> OwnsTask(t, d)
             /\ OwnsLocal(t, d)' <=> OwnsLocal(t, d)
  <2>1. d \in 1..Len(r) <=> d \in 1..Len(s)
    BY <1>1, <1>4 DEF Popped
  <2>2. d \in 1..Len(r) => At(r, d) = At(s, d)
    BY <1>1, <1>4 DEF Popped, SameBelow
  <2>3. QED
    BY <1>2, <2>1, <2>2
<1>5. QED
  BY <1>1, <1>2, <1>3, <1>4

\* after it is replaced,
LEMMA ReplaceOwns ==
  ASSUME stack \in [Threads -> Seq(Frames)], NEW t \in Threads,
         NEW s, s = stack[t], NEW r, stack' = [stack EXCEPT ![t] = r],
         NEW f, NEW n, Replaced(s, f, r, n)
  PROVE  /\ n \in Nat /\ stack' \in [Threads -> Seq(Frames)]
         /\ OwnsTask(t, n) <=> HasTask(Head(s))
         /\ OwnsLocal(t, n) <=> HasLocal(Head(s))
         /\ OwnsTask(t, n)' <=> HasTask(f)
         /\ OwnsLocal(t, n)' <=> HasLocal(f)
         /\ \A u \in Threads, d \in Nat : u # t \/ d # n =>
              /\ OwnsTask(u, d)' <=> OwnsTask(u, d)
              /\ OwnsLocal(u, d)' <=> OwnsLocal(u, d)
<1>1. r \in Seq(Frames) /\ Len(s) \in Nat /\ Len(r) \in Nat /\ n \in Nat
  BY DEF Replaced, Stacks
<1>2. /\ \A d : /\ OwnsTask(t, d)' <=> d \in 1..Len(r) /\ HasTask(At(r, d))
                /\ OwnsLocal(t, d)' <=> d \in 1..Len(r) /\ HasLocal(At(r, d))
                /\ OwnsTask(t, d) <=> d \in 1..Len(s) /\ HasTask(At(s, d))
                /\ OwnsLocal(t, d) <=> d \in 1..Len(s) /\ HasLocal(At(s, d))
      /\ \A u \in Threads : \A d : u # t =>
           /\ OwnsTask(u, d)' <=> OwnsTask(u, d)
           /\ OwnsLocal(u, d)' <=> OwnsLocal(u, d)
      /\ stack' \in [Threads -> Seq(Frames)]
  BY <1>1, StackSet
<1>3. /\ OwnsTask(t, n) <=> HasTask(Head(s))
      /\ OwnsLocal(t, n) <=> HasLocal(Head(s))
      /\ OwnsTask(t, n)' <=> HasTask(f)
      /\ OwnsLocal(t, n)' <=> HasLocal(f)
  BY <1>1, <1>2 DEF Replaced
<1>4. ASSUME NEW d \in Nat, d # n
      PROVE  /\ OwnsTask(t, d)' <=> OwnsTask(t, d)
             /\ OwnsLocal(t, d)' <=> OwnsLocal(t, d)
  <2>1. d \in 1..Len(r) <=> d \in 1..Len(s)
    BY <1>1, <1>4 DEF Replaced
  <2>2. d \in 1..Len(r) => At(r, d) = At(s, d)
    BY <1>1, <1>4 DEF Replaced, SameBelow
  <2>3. QED
    BY <1>2, <2>1, <2>2
<1>5. QED
  BY <1>1, <1>2, <1>3, <1>4

\* and after it is replaced by two.
LEMMA SplitOwns ==
  ASSUME stack \in [Threads -> Seq(Frames)], NEW t \in Threads,
         NEW s, s = stack[t], NEW r, stack' = [stack EXCEPT ![t] = r],
         NEW f, NEW g, NEW n, Split(s, f, g, r, n)
  PROVE  /\ n \in Nat /\ stack' \in [Threads -> Seq(Frames)]
         /\ OwnsTask(t, n) <=> HasTask(Head(s))
         /\ OwnsLocal(t, n) <=> HasLocal(Head(s))
         /\ ~OwnsTask(t, n + 1) /\ ~OwnsLocal(t, n + 1)
         /\ OwnsTask(t, n)' <=> HasTask(f)
         /\ OwnsLocal(t, n)' <=> HasLocal(f)
         /\ OwnsTask(t, n + 1)' <=> HasTask(g)
         /\ OwnsLocal(t, n + 1)' <=> HasLocal(g)
         /\ \A u \in Threads, d \in Nat : u # t \/ d \notin {n, n + 1} =>
              /\ OwnsTask(u, d)' <=> OwnsTask(u, d)
              /\ OwnsLocal(u, d)' <=> OwnsLocal(u, d)
<1>1. r \in Seq(Frames) /\ Len(s) \in Nat /\ Len(r) \in Nat /\ n \in Nat
  BY DEF Split, Stacks
<1>2. /\ \A d : /\ OwnsTask(t, d)' <=> d \in 1..Len(r) /\ HasTask(At(r, d))
                /\ OwnsLocal(t, d)' <=> d \in 1..Len(r) /\ HasLocal(At(r, d))
                /\ OwnsTask(t, d) <=> d \in 1..Len(s) /\ HasTask(At(s, d))
                /\ OwnsLocal(t, d) <=> d \in 1..Len(s) /\ HasLocal(At(s, d))
      /\ \A u \in Threads : \A d : u # t =>
           /\ OwnsTask(u, d)' <=> OwnsTask(u, d)
           /\ OwnsLocal(u, d)' <=> OwnsLocal(u, d)
      /\ stack' \in [Threads -> Seq(Frames)]
  BY <1>1, StackSet
<1>3. /\ OwnsTask(t, n) <=> HasTask(Head(s))
      /\ OwnsLocal(t, n) <=> HasLocal(Head(s))
      /\ ~OwnsTask(t, n + 1) /\ ~OwnsLocal(t, n + 1)
      /\ OwnsTask(t, n)' <=> HasTask(f)
      /\ OwnsLocal(t, n)' <=> HasLocal(f)
      /\ OwnsTask(t, n + 1)' <=> HasTask(g)
      /\ OwnsLocal(t, n + 1)' <=> HasLocal(g)
  BY <1>1, <1>2 DEF Split
<1>4. ASSUME NEW d \in Nat, d \notin {n, n + 1}
      PROVE  /\ OwnsTask(t, d)' <=> OwnsTask(t, d)
             /\ OwnsLocal(t, d)' <=> OwnsLocal(t, d)
  <2>1. d \in 1..Len(r) <=> d \in 1..Len(s)
    BY <1>1, <1>4 DEF Split
  <2>2. d \in 1..Len(r) => At(r, d) = At(s, d)
    BY <1>1, <1>4 DEF Split, SameBelow
  <2>3. QED
    BY <1>2, <2>1, <2>2
<1>5. QED
  BY <1>1, <1>2, <1>3, <1>4
-----------------------------------------------------------------------------
\* One owner more.
LEMMA Gain ==
  ASSUME NEW S, NEW T, NEW x, IsFiniteSet(S), x \notin S,
         \A o : o \in T <=> o \in S \/ o = x
  PROVE  IsFiniteSet(T) /\ Cardinality(T) = Cardinality(S) + 1
<1>1. T = S \cup {x}
  OBVIOUS
<1>2. QED
  BY <1>1, FS_AddElement

\* One owner less.
LEMMA Lose ==
  ASSUME NEW S, NEW T, NEW x, IsFiniteSet(S), x \in S,
         \A o : o \in T <=> o \in S /\ o # x
  PROVE  IsFiniteSet(T) /\ Cardinality(T) = Cardinality(S) - 1
<1>1. T = S \ {x}
  OBVIOUS
<1>2. QED
  BY <1>1, FS_RemoveElement

\* Another one in the place of one.
LEMMA Swap ==
  ASSUME NEW S, NEW T, NEW x, NEW y, IsFiniteSet(S), x \in S, y \notin S,
         \A o : o \in T <=> (o \in S /\ o # x) \/ o = y
  PROVE  IsFiniteSet(T) /\ Cardinality(T) = Cardinality(S)
<1>1. PICK R : R = S \ {x}
  OBVIOUS
<1>2. IsFiniteSet(R) /\ Cardinality(R) = Cardinality(S) - 1
  BY <1>1, Lose
<1>3. IsFiniteSet(T) /\ Cardinality(T) = Cardinality(R) + 1
  BY <1>1, <1>2, Gain
<1>4. Cardinality(S) \in Nat
  BY FS_CardinalityType
<1>5. QED
  BY <1>2, <1>3, <1>4

\* What the count says.
LEMMA Numbers ==
  ASSUME CInv
  PROVE  /\ refs \in Nat /\ Len(queue) \in Nat /\ (destroyed <=> refs = 0)
         /\ \E S : /\ S = Owners /\ IsFiniteSet(S) /\ Cardinality(S) \in Nat
                   /\ refs = Cardinality(S) + Len(queue)
         /\ \A o \in Owners : refs > 0 /\ ~destroyed
<1>1. Len(queue) \in Nat
  BY DEF CInv, TypeOK
<1>2. PICK S : S = Owners
  OBVIOUS
<1>3. /\ IsFiniteSet(S) /\ Cardinality(S) \in Nat
      /\ refs = Cardinality(S) + Len(queue) /\ (destroyed <=> refs = 0)
  BY <1>2, FS_CardinalityType DEF CInv, Counted
<1>4. ASSUME NEW o \in S
      PROVE  Cardinality(S) # 0
  BY <1>3, FS_EmptySet
<1>5. QED
  BY <1>1, <1>2, <1>3, <1>4

\* The count is right again after a step that
LEMMA SameOwners ==
  ASSUME CInv, TypeOK', \A o : o \in Owners' <=> o \in Owners,
         refs' = refs + Len(queue') - Len(queue), destroyed' <=> refs' = 0
  PROVE  CInv'
<1>1. PICK S : /\ S = Owners /\ IsFiniteSet(S) /\ Cardinality(S) \in Nat
               /\ refs = Cardinality(S) + Len(queue)
  BY Numbers
<1>2. Owners' = S
  BY <1>1
<1>3. Len(queue) \in Nat /\ Len(queue') \in Nat
  BY DEF CInv, TypeOK
<1>4. QED
  BY <1>1, <1>2, <1>3 DEF CInv, Counted

\* makes an owner,
LEMMA MoreOwners ==
  ASSUME CInv, TypeOK', NEW x, x \notin Owners,
         \A o : o \in Owners' <=> o \in Owners \/ o = x,
         refs' = refs + 1 + Len(queue') - Len(queue), destroyed' <=> refs' = 0
  PROVE  CInv'
<1>1. PICK S : /\ S = Owners /\ IsFiniteSet(S) /\ Cardinality(S) \in Nat
               /\ refs = Cardinality(S) + Len(queue)
  BY Numbers
<1>2. PICK T : T = Owners'
  OBVIOUS
<1>3. IsFiniteSet(T) /\ Cardinality(T) = Cardinality(S) + 1
  BY <1>1, <1>2, Gain
<1>4. Len(queue) \in Nat /\ Len(queue') \in Nat
  BY DEF CInv, TypeOK
<1>5. QED
  BY <1>1, <1>2, <1>3, <1>4 DEF CInv, Counted

\* ends one,
LEMMA FewerOwners ==
  ASSUME CInv, TypeOK', NEW x, x \in Owners,
         \A o : o \in Owners' <=> o \in Owners /\ o # x,
         refs' = refs - 1 + Len(queue') - Len(queue), destroyed' <=> refs' = 0
  PROVE  CInv'
<1>1. PICK S : /\ S = Owners /\ IsFiniteSet(S) /\ Cardinality(S) \in Nat
               /\ refs = Cardinality(S) + Len(queue)
  BY Numbers
<1>2. PICK T : T = Owners'
  OBVIOUS
<1>3. IsFiniteSet(T) /\ Cardinality(T) = Cardinality(S) - 1
  BY <1>1, <1>2, Lose
<1>4. Len(queue) \in Nat /\ Len(queue') \in Nat
  BY DEF CInv, TypeOK
<1>5. QED
  BY <1>1, <1>2, <1>3, <1>4 DEF CInv, Counted

\* gives a reference from one to another,
LEMMA OtherOwner ==
  ASSUME CInv, TypeOK', NEW x, NEW y, x \in Owners, y \notin Owners,
         \A o : o \in Owners' <=> (o \in Owners /\ o # x) \/ o = y,
         refs' = refs + Len(queue') - Len(queue), destroyed' <=> refs' = 0
  PROVE  CInv'
<1>1. PICK S : /\ S = Owners /\ IsFiniteSet(S) /\ Cardinality(S) \in Nat
               /\ refs = Cardinality(S) + Len(queue)
  BY Numbers
<1>2. PICK T : T = Owners'
  OBVIOUS
<1>3. IsFiniteSet(T) /\ Cardinality(T) = Cardinality(S)
  <2>1. /\ x \in S /\ y \notin S
        /\ \A o : o \in T <=> (o \in S /\ o # x) \/ o = y
    BY <1>1, <1>2
  <2>2. QED
    BY <1>1, <2>1, Swap
<1>4. Len(queue) \in Nat /\ Len(queue') \in Nat
  BY DEF CInv, TypeOK
<1>5. QED
  BY <1>1, <1>2, <1>3, <1>4 DEF CInv, Counted

\* or to two, with one that is taken.
LEMMA TwoOthers ==
  ASSUME CInv, TypeOK', NEW x, NEW y, NEW z,
         x \in Owners, y \notin Owners, z \notin Owners, y # z,
         \A o : o \in Owners' <=> (o \in Owners /\ o # x) \/ o = y \/ o = z,
         refs' = refs + 1 + Len(queue') - Len(queue), destroyed' <=> refs' = 0
  PROVE  CInv'
<1>1. PICK S : /\ S = Owners /\ IsFiniteSet(S) /\ Cardinality(S) \in Nat
               /\ refs = Cardinality(S) + Len(queue)
  BY Numbers
<1>2. PICK R : R = (S \ {x}) \cup {y}
  OBVIOUS
<1>3. IsFiniteSet(R) /\ Cardinality(R) = Cardinality(S)
  BY <1>1, <1>2, Swap
<1>4. PICK T : T = Owners'
  OBVIOUS
<1>5. IsFiniteSet(T) /\ Cardinality(T) = Cardinality(R) + 1
  <2>1. z \notin R /\ \A o : o \in T <=> o \in R \/ o = z
    BY <1>1, <1>2, <1>4
  <2>2. QED
    BY <1>3, <2>1, Gain
<1>6. Len(queue) \in Nat /\ Len(queue') \in Nat
  BY DEF CInv, TypeOK
<1>7. QED
  BY <1>1, <1>3, <1>4, <1>5, <1>6 DEF CInv, Counted
-----------------------------------------------------------------------------
\* What a thread is in the middle of owns what it owns.
LEMMA InnermostOwns ==
  ASSUME TypeOK, NEW t \in Threads, stack[t] # << >>
  PROVE  /\ Len(stack[t]) \in Nat /\ Head(stack[t]) \in Frames
         /\ TaskOf(t, Len(stack[t])) \in Owners <=> HasTask(Head(stack[t]))
         /\ LocalOf(t, Len(stack[t])) \in Owners <=> HasLocal(Head(stack[t]))
<1>1. PICK s : s = stack[t]
  OBVIOUS
<1>2. s \in Seq(Frames) /\ s # << >>
  BY <1>1 DEF TypeOK
<1>3. /\ Head(s) \in Frames /\ Len(s) \in Nat /\ Len(s) >= 1
      /\ At(s, Len(s)) = Head(s)
  BY <1>2, Pop DEF Popped, Stacks
<1>4. /\ OwnsTask(t, Len(s)) <=> HasTask(Head(s))
      /\ OwnsLocal(t, Len(s)) <=> HasLocal(Head(s))
  BY <1>1, <1>3 DEF OwnsTask, OwnsLocal
<1>5. QED
  BY <1>1, <1>3, <1>4, ReadNow DEF Read

\* Whoever is in the middle of something, or has a pointer, keeps the object.
LEMMA Alive ==
  ASSUME CInv
  PROVE  /\ user => refs > 0 /\ ~destroyed
         /\ \A c \in Callbacks : obj_[c] => refs > 0 /\ ~destroyed
         /\ \A t \in Threads :
              (\/ In(t, "calling")
               \/ In(t, "task")
               \/ In(t, "scheduled") /\ Top(t) \in OneShots)
              => refs > 0 /\ ~destroyed
<1>1. \A o \in Owners : refs > 0 /\ ~destroyed
  BY Numbers
<1>2. ASSUME NEW t \in Threads,
             \/ In(t, "calling")
             \/ In(t, "task")
             \/ In(t, "scheduled") /\ Top(t) \in OneShots
      PROVE  refs > 0 /\ ~destroyed
  <2>1. stack[t] # << >> /\ (HasTask(Head(stack[t])) \/ HasLocal(Head(stack[t])))
    BY <1>2 DEF In, Top, HasTask, HasLocal
  <2>2. \/ TaskOf(t, Len(stack[t])) \in Owners
        \/ LocalOf(t, Len(stack[t])) \in Owners
    BY <2>1, InnermostOwns DEF CInv
  <2>3. QED
    BY <1>1, <2>2
<1>3. QED
  BY <1>1, <1>2, ReadNow DEF Read
\* Who is in the middle of nothing new owns nothing new.
LEMMA SameStack ==
  ASSUME stack' = stack
  PROVE  \A u \in Threads, d \in Nat :
           /\ OwnsTask(u, d)' <=> OwnsTask(u, d)
           /\ OwnsLocal(u, d)' <=> OwnsLocal(u, d)
BY DEF OwnsTask, OwnsLocal, At, HasTask, HasLocal

\* Taking a reference of an object that is alive.
LEMMA Taken ==
  ASSUME CInv, refs > 0, AddRef, queue' = queue
  PROVE  /\ refs' = refs + 1 + Len(queue') - Len(queue)
         /\ destroyed' <=> refs' = 0
         /\ destroyed' \in BOOLEAN
<1>1. refs \in Nat /\ (destroyed <=> refs = 0) /\ Len(queue) \in Nat
  BY Numbers
<1>2. QED
  BY <1>1 DEF AddRef, CInv, TypeOK

\* Releasing one that is held.
LEMMA Released ==
  ASSUME CInv, refs > 0, Release, queue' = queue
  PROVE  /\ refs' = refs - 1 + Len(queue') - Len(queue)
         /\ destroyed' <=> refs' = 0
         /\ destroyed' \in BOOLEAN
<1>1. refs \in Nat /\ (destroyed <=> refs = 0) /\ Len(queue) \in Nat
  BY Numbers
<1>2. refs' = refs - 1 /\ destroyed' \in BOOLEAN /\ (destroyed' <=> refs = 1)
  BY DEF Release
<1>3. QED
  BY <1>1, <1>2

\* Neither.
LEMMA Kept ==
  ASSUME CInv, UNCHANGED <<refs, destroyed>>, queue' = queue
  PROVE  /\ refs' = refs + Len(queue') - Len(queue)
         /\ destroyed' <=> refs' = 0
         /\ destroyed' \in BOOLEAN
<1>1. refs \in Nat /\ (destroyed <=> refs = 0) /\ Len(queue) \in Nat
  BY Numbers
<1>2. QED
  BY <1>1 DEF CInv, TypeOK
-----------------------------------------------------------------------------
\* A callback that is made has a pointer.
LEMMA MakeKeeps ==
  ASSUME CInv, NEW t \in Threads, NEW c \in Callbacks, Make(t, c)
  PROVE  CInv'
<1>1. TypeOK'
  BY DEF CInv, TypeOK, Make, AddRef
<1>2. Read /\ Read'
  BY ReadNow, PTL
<1>3. ObjOf(c) \notin Owners /\ ObjOf(c) \in Owners'
  BY <1>2 DEF Read, CInv, TypeOK, Make
<1>4. \A o : o \notin {ObjOf(c)} => (o \in Owners' <=> o \in Owners)
  <2>1. /\ UserRef \in {ObjOf(c)} \/ user' = user
        /\ \A b \in Callbacks : ObjOf(b) \in {ObjOf(c)} \/ obj_'[b] = obj_[b]
        /\ stack' = stack
    BY DEF Make, CInv, TypeOK
  <2>2. QED
    BY <2>1, SameStack, Others
<1>5. \A o : o \in Owners' <=> o \in Owners \/ o = ObjOf(c)
  BY <1>3, <1>4
<1>6. refs > 0
  BY Alive DEF Make
<1>7. /\ refs' = refs + 1 + Len(queue') - Len(queue)
      /\ destroyed' <=> refs' = 0
  BY <1>6, Taken DEF Make
<1>8. QED
  BY <1>1, <1>3, <1>5, <1>7, MoreOwners

\* The task that an invocation makes owns a reference; a one-shot callback
\* hands its own to local_obj.
LEMMA InvokeKeeps ==
  ASSUME CInv, NEW t \in Threads, NEW c \in Callbacks, Invoke(t, c)
  PROVE  CInv'
<1>1. PICK s, f : s = stack[t] /\ f = Frame("calling", c)
  OBVIOUS
<1>2. /\ s \in Seq(Frames) /\ stack \in [Threads -> Seq(Frames)]
      /\ f \in Frames /\ HasTask(f) /\ (HasLocal(f) <=> c \in OneShots)
  BY <1>1 DEF CInv, TypeOK, Frames, Frame, HasTask, HasLocal
<1>3. PICK r, n : /\ r = <<f>> \o s /\ n = Len(s) + 1
                  /\ stack' = [stack EXCEPT ![t] = r]
  BY <1>1 DEF Invoke, Enter
<1>4. /\ n \in Nat /\ stack' \in [Threads -> Seq(Frames)]
      /\ ~OwnsTask(t, n) /\ ~OwnsLocal(t, n)
      /\ OwnsTask(t, n)' <=> HasTask(f)
      /\ OwnsLocal(t, n)' <=> HasLocal(f)
      /\ \A u \in Threads, d \in Nat : u # t \/ d # n =>
           /\ OwnsTask(u, d)' <=> OwnsTask(u, d)
           /\ OwnsLocal(u, d)' <=> OwnsLocal(u, d)
  <2>1. Pushed(s, f, r, n)
    BY <1>2, <1>3, Push
  <2>2. /\ stack \in [Threads -> Seq(Frames)] /\ s = stack[t]
        /\ stack' = [stack EXCEPT ![t] = r]
    BY <1>1, <1>2, <1>3
  <2>3. QED
    BY <2>1, <2>2, PushOwns
<1>5. refs > 0
  BY Alive DEF Invoke
<1>6. /\ refs' = refs + 1 + Len(queue') - Len(queue)
      /\ destroyed' <=> refs' = 0
      /\ destroyed' \in BOOLEAN
  BY <1>5, Taken DEF Invoke
<1>7. TypeOK'
  BY <1>4, <1>6 DEF CInv, TypeOK, Invoke
<1>8. Read /\ Read'
  BY ReadNow, PTL
<1>9. /\ TaskOf(t, n) \notin Owners /\ TaskOf(t, n) \in Owners'
      /\ LocalOf(t, n) \notin Owners /\ (LocalOf(t, n) \in Owners' <=> c \in OneShots)
      /\ ObjOf(c) \in Owners /\ (ObjOf(c) \in Owners' <=> c \in Listeners)
  BY <1>2, <1>4, <1>8 DEF Read, Invoke, CInv, TypeOK
<1>10. \A o : o \notin {ObjOf(c), TaskOf(t, n), LocalOf(t, n)} =>
          (o \in Owners' <=> o \in Owners)
  <2>1. /\ user' = user
        /\ \A b \in Callbacks : b = c \/ obj_'[b] = obj_[b]
    BY DEF Invoke, CInv, TypeOK
  <2>2. QED
    BY <1>4, <2>1, Others
<1>11. CASE c \in Listeners
  <2>1. c \notin OneShots
    BY <1>11, CallbacksAssumption
  <2>2. \A o : o \in Owners' <=> o \in Owners \/ o = TaskOf(t, n)
    BY <1>9, <1>10, <1>11, <2>1
  <2>3. QED
    BY <1>6, <1>7, <1>9, <2>2, MoreOwners
<1>12. CASE c \notin Listeners
  <2>1. c \in OneShots
    BY <1>12 DEF Callbacks
  <2>2. \A o : o \in Owners' <=> \/ o \in Owners /\ o # ObjOf(c)
                                 \/ o = TaskOf(t, n)
                                 \/ o = LocalOf(t, n)
    BY <1>9, <1>10, <1>12, <2>1
  <2>3. QED
    BY <1>6, <1>7, <1>9, <2>2, Distinct, TwoOthers
<1>13. QED
  BY <1>11, <1>12

\* A task that runs at once keeps its reference; its frame is one further in.
LEMMA DispatchKeeps ==
  ASSUME CInv, NEW t \in Threads, DispatchNow(t)
  PROVE  CInv'
<1>1. PICK s, b, f, g : /\ s = stack[t] /\ b = Top(t)
                        /\ f = Frame("scheduled", b) /\ g = Frame("task", b)
  OBVIOUS
<1>2. /\ s \in Seq(Frames) /\ s # << >> /\ stack \in [Threads -> Seq(Frames)]
      /\ Head(s).kind = "calling" /\ Head(s).cb = b
  BY <1>1 DEF DispatchNow, In, Top, CInv, TypeOK
<1>3. Head(s) \in Frames
  BY <1>2, Pop
<1>4. /\ f \in Frames /\ ~HasTask(f) /\ (HasLocal(f) <=> b \in OneShots)
      /\ g \in Frames /\ HasTask(g) /\ ~HasLocal(g)
      /\ HasTask(Head(s)) /\ (HasLocal(Head(s)) <=> b \in OneShots)
  BY <1>1, <1>2, <1>3 DEF Frames, Frame, HasTask, HasLocal
<1>5. PICK r, n : /\ r = <<g, f>> \o Tail(s) /\ n = Len(s)
                  /\ stack' = [stack EXCEPT ![t] = r]
  BY <1>1 DEF DispatchNow
<1>6. /\ n \in Nat /\ stack' \in [Threads -> Seq(Frames)]
      /\ OwnsTask(t, n) <=> HasTask(Head(s))
      /\ OwnsLocal(t, n) <=> HasLocal(Head(s))
      /\ ~OwnsTask(t, n + 1) /\ ~OwnsLocal(t, n + 1)
      /\ OwnsTask(t, n)' <=> HasTask(f)
      /\ OwnsLocal(t, n)' <=> HasLocal(f)
      /\ OwnsTask(t, n + 1)' <=> HasTask(g)
      /\ OwnsLocal(t, n + 1)' <=> HasLocal(g)
      /\ \A u \in Threads, d \in Nat : u # t \/ d \notin {n, n + 1} =>
           /\ OwnsTask(u, d)' <=> OwnsTask(u, d)
           /\ OwnsLocal(u, d)' <=> OwnsLocal(u, d)
  <2>1. Split(s, f, g, r, n)
    BY <1>2, <1>4, <1>5, Splitting
  <2>2. /\ stack \in [Threads -> Seq(Frames)] /\ s = stack[t]
        /\ stack' = [stack EXCEPT ![t] = r]
    BY <1>1, <1>2, <1>5
  <2>3. QED
    BY <2>1, <2>2, SplitOwns
<1>7. /\ refs' = refs + Len(queue') - Len(queue)
      /\ destroyed' <=> refs' = 0
      /\ destroyed' \in BOOLEAN
  BY Kept DEF DispatchNow
<1>8. TypeOK'
  BY <1>6, <1>7 DEF CInv, TypeOK, DispatchNow
<1>9. Read /\ Read'
  BY ReadNow, PTL
<1>10. /\ TaskOf(t, n) \in Owners /\ TaskOf(t, n) \notin Owners'
       /\ TaskOf(t, n + 1) \notin Owners /\ TaskOf(t, n + 1) \in Owners'
       /\ LocalOf(t, n) \in Owners <=> LocalOf(t, n) \in Owners'
       /\ LocalOf(t, n + 1) \notin Owners /\ LocalOf(t, n + 1) \notin Owners'
  BY <1>4, <1>6, <1>9 DEF Read
<1>11. \A o : o \notin {TaskOf(t, n), TaskOf(t, n + 1), LocalOf(t, n), LocalOf(t, n + 1)} =>
          (o \in Owners' <=> o \in Owners)
  <2>1. user' = user /\ obj_' = obj_
    BY DEF DispatchNow
  <2>2. QED
    BY <1>6, <2>1, Others
<1>12. \A o : o \in Owners' <=> \/ o \in Owners /\ o # TaskOf(t, n)
                                \/ o = TaskOf(t, n + 1)
  BY <1>10, <1>11
<1>13. QED
  BY <1>7, <1>8, <1>10, <1>12, OtherOwner

\* A task that is queued takes its reference to the strand.
LEMMA EnqueueKeeps ==
  ASSUME CInv, NEW t \in Threads, Enqueue(t)
  PROVE  CInv'
<1>1. PICK s, b, f : s = stack[t] /\ b = Top(t) /\ f = Frame("scheduled", b)
  OBVIOUS
<1>2. /\ s \in Seq(Frames) /\ s # << >> /\ stack \in [Threads -> Seq(Frames)]
      /\ Head(s).kind = "calling" /\ Head(s).cb = b
  BY <1>1 DEF Enqueue, In, Top, CInv, TypeOK
<1>3. Head(s) \in Frames
  BY <1>2, Pop
<1>4. /\ f \in Frames /\ ~HasTask(f) /\ (HasLocal(f) <=> b \in OneShots)
      /\ HasTask(Head(s)) /\ (HasLocal(Head(s)) <=> b \in OneShots)
      /\ b \in Callbacks
  BY <1>1, <1>2, <1>3 DEF Frames, Frame, HasTask, HasLocal
<1>5. PICK r, n : /\ r = <<f>> \o Tail(s) /\ n = Len(s)
                  /\ stack' = [stack EXCEPT ![t] = r]
  BY <1>1 DEF Enqueue, Replace
<1>6. /\ n \in Nat /\ stack' \in [Threads -> Seq(Frames)]
      /\ OwnsTask(t, n) <=> HasTask(Head(s))
      /\ OwnsLocal(t, n) <=> HasLocal(Head(s))
      /\ OwnsTask(t, n)' <=> HasTask(f)
      /\ OwnsLocal(t, n)' <=> HasLocal(f)
      /\ \A u \in Threads, d \in Nat : u # t \/ d # n =>
           /\ OwnsTask(u, d)' <=> OwnsTask(u, d)
           /\ OwnsLocal(u, d)' <=> OwnsLocal(u, d)
  <2>1. Replaced(s, f, r, n)
    BY <1>2, <1>4, <1>5, Replacing
  <2>2. /\ stack \in [Threads -> Seq(Frames)] /\ s = stack[t]
        /\ stack' = [stack EXCEPT ![t] = r]
    BY <1>1, <1>2, <1>5
  <2>3. QED
    BY <2>1, <2>2, ReplaceOwns
<1>7. /\ refs' = refs - 1 + Len(queue') - Len(queue)
      /\ destroyed' <=> refs' = 0
      /\ queue' \in Seq(Callbacks)
  <2>1. queue \in Seq(Callbacks) /\ queue' = Append(queue, b)
    BY <1>1 DEF Enqueue, CInv, TypeOK
  <2>2. queue' \in Seq(Callbacks) /\ Len(queue') = Len(queue) + 1
    BY <1>4, <2>1
  <2>3. refs \in Nat /\ Len(queue) \in Nat /\ (destroyed <=> refs = 0)
    BY Numbers
  <2>4. refs' = refs /\ destroyed' = destroyed
    BY DEF Enqueue
  <2>5. QED
    BY <2>2, <2>3, <2>4
<1>8. TypeOK'
  BY <1>6, <1>7 DEF CInv, TypeOK, Enqueue
<1>9. Read /\ Read'
  BY ReadNow, PTL
<1>10. /\ TaskOf(t, n) \in Owners /\ TaskOf(t, n) \notin Owners'
       /\ LocalOf(t, n) \in Owners <=> LocalOf(t, n) \in Owners'
  BY <1>4, <1>6, <1>9 DEF Read
<1>11. \A o : o \notin {TaskOf(t, n), LocalOf(t, n)} =>
          (o \in Owners' <=> o \in Owners)
  <2>1. user' = user /\ obj_' = obj_
    BY DEF Enqueue
  <2>2. QED
    BY <1>6, <2>1, Others
<1>12. \A o : o \in Owners' <=> o \in Owners /\ o # TaskOf(t, n)
  BY <1>10, <1>11
<1>13. QED
  BY <1>7, <1>8, <1>10, <1>12, FewerOwners

\* A one-shot callback that returns releases what it moved to local_obj.
LEMMA ReturnKeeps ==
  ASSUME CInv, NEW t \in Threads, Return(t)
  PROVE  CInv'
<1>1. PICK s, b : s = stack[t] /\ b = Top(t)
  OBVIOUS
<1>2. /\ s \in Seq(Frames) /\ s # << >> /\ stack \in [Threads -> Seq(Frames)]
      /\ Head(s).kind = "scheduled" /\ Head(s).cb = b
  BY <1>1 DEF Return, In, Top, CInv, TypeOK
<1>3. ~HasTask(Head(s)) /\ (HasLocal(Head(s)) <=> b \in OneShots)
  BY <1>2 DEF HasTask, HasLocal
<1>4. PICK r, n : /\ r = Tail(s) /\ n = Len(s)
                  /\ stack' = [stack EXCEPT ![t] = r]
  BY <1>1 DEF Return
<1>5. /\ n \in Nat /\ stack' \in [Threads -> Seq(Frames)]
      /\ OwnsTask(t, n) <=> HasTask(Head(s))
      /\ OwnsLocal(t, n) <=> HasLocal(Head(s))
      /\ ~OwnsTask(t, n)' /\ ~OwnsLocal(t, n)'
      /\ \A u \in Threads, d \in Nat : u # t \/ d # n =>
           /\ OwnsTask(u, d)' <=> OwnsTask(u, d)
           /\ OwnsLocal(u, d)' <=> OwnsLocal(u, d)
  <2>1. Popped(s, r, n)
    BY <1>2, <1>4, Pop
  <2>2. /\ stack \in [Threads -> Seq(Frames)] /\ s = stack[t]
        /\ stack' = [stack EXCEPT ![t] = r]
    BY <1>1, <1>2, <1>4
  <2>3. QED
    BY <2>1, <2>2, PopOwns
<1>6. Read /\ Read'
  BY ReadNow, PTL
<1>7. /\ TaskOf(t, n) \notin Owners /\ TaskOf(t, n) \notin Owners'
      /\ LocalOf(t, n) \in Owners <=> b \in OneShots
      /\ LocalOf(t, n) \notin Owners'
  BY <1>3, <1>5, <1>6 DEF Read
<1>8. \A o : o \notin {TaskOf(t, n), LocalOf(t, n)} =>
         (o \in Owners' <=> o \in Owners)
  <2>1. user' = user /\ obj_' = obj_
    BY DEF Return
  <2>2. QED
    BY <1>5, <2>1, Others
<1>9. queue' = queue
  BY DEF Return
<1>10. CASE b \in OneShots
  <2>1. In(t, "scheduled") /\ Top(t) \in OneShots /\ Release
    BY <1>1, <1>10 DEF Return
  <2>2. refs > 0
    BY <2>1, Alive
  <2>3. /\ refs' = refs - 1 + Len(queue') - Len(queue)
        /\ destroyed' <=> refs' = 0
        /\ destroyed' \in BOOLEAN
    BY <1>9, <2>1, <2>2, Released
  <2>4. TypeOK'
    BY <1>5, <2>3 DEF CInv, TypeOK, Return
  <2>5. \A o : o \in Owners' <=> o \in Owners /\ o # LocalOf(t, n)
    BY <1>7, <1>8
  <2>6. QED
    BY <1>7, <1>10, <2>3, <2>4, <2>5, FewerOwners
<1>11. CASE b \notin OneShots
  <2>1. UNCHANGED <<refs, destroyed>>
    BY <1>1, <1>11 DEF Return
  <2>2. /\ refs' = refs + Len(queue') - Len(queue)
        /\ destroyed' <=> refs' = 0
        /\ destroyed' \in BOOLEAN
    BY <1>9, <2>1, Kept
  <2>3. TypeOK'
    BY <1>5, <2>2 DEF CInv, TypeOK, Return
  <2>4. \A o : o \in Owners' <=> o \in Owners
    BY <1>7, <1>8, <1>11
  <2>5. QED
    BY <2>2, <2>3, <2>4, SameOwners
<1>12. QED
  BY <1>10, <1>11

\* A worker that runs a task takes its reference from the strand.
LEMMA RunQueuedKeeps ==
  ASSUME CInv, NEW t \in Threads, RunQueued(t)
  PROVE  CInv'
<1>1. PICK s, b, f : s = stack[t] /\ b = Head(queue) /\ f = Frame("task", b)
  OBVIOUS
<1>2. /\ queue \in Seq(Callbacks) /\ queue # << >> /\ b \in Callbacks
      /\ queue' = Tail(queue) /\ queue' \in Seq(Callbacks)
      /\ Len(queue) \in Nat /\ Len(queue') = Len(queue) - 1
  <2>1. queue \in Seq(Callbacks) /\ queue # << >> /\ queue' = Tail(queue)
    BY DEF RunQueued, CInv, TypeOK
  <2>2. QED
    BY <1>1, <2>1
<1>3. s \in Seq(Frames) /\ stack \in [Threads -> Seq(Frames)]
  BY <1>1 DEF CInv, TypeOK
<1>4. f \in Frames /\ HasTask(f) /\ ~HasLocal(f)
  BY <1>1, <1>2 DEF Frames, Frame, HasTask, HasLocal
<1>5. PICK r, n : /\ r = <<f>> \o s /\ n = Len(s) + 1
                  /\ stack' = [stack EXCEPT ![t] = r]
  BY <1>1 DEF RunQueued, Enter
<1>6. /\ n \in Nat /\ stack' \in [Threads -> Seq(Frames)]
      /\ ~OwnsTask(t, n) /\ ~OwnsLocal(t, n)
      /\ OwnsTask(t, n)' <=> HasTask(f)
      /\ OwnsLocal(t, n)' <=> HasLocal(f)
      /\ \A u \in Threads, d \in Nat : u # t \/ d # n =>
           /\ OwnsTask(u, d)' <=> OwnsTask(u, d)
           /\ OwnsLocal(u, d)' <=> OwnsLocal(u, d)
  <2>1. Pushed(s, f, r, n)
    BY <1>3, <1>4, <1>5, Push
  <2>2. /\ stack \in [Threads -> Seq(Frames)] /\ s = stack[t]
        /\ stack' = [stack EXCEPT ![t] = r]
    BY <1>1, <1>3, <1>5
  <2>3. QED
    BY <2>1, <2>2, PushOwns
<1>7. /\ refs' = refs + 1 + Len(queue') - Len(queue)
      /\ destroyed' <=> refs' = 0
  <2>1. refs \in Nat /\ (destroyed <=> refs = 0)
    BY Numbers
  <2>2. refs' = refs /\ destroyed' = destroyed
    BY DEF RunQueued
  <2>3. QED
    BY <1>2, <2>1, <2>2
<1>8. TypeOK'
  BY <1>2, <1>6 DEF CInv, TypeOK, RunQueued
<1>9. Read /\ Read'
  BY ReadNow, PTL
<1>10. /\ TaskOf(t, n) \notin Owners /\ TaskOf(t, n) \in Owners'
       /\ LocalOf(t, n) \notin Owners /\ LocalOf(t, n) \notin Owners'
  BY <1>4, <1>6, <1>9 DEF Read
<1>11. \A o : o \notin {TaskOf(t, n), LocalOf(t, n)} =>
          (o \in Owners' <=> o \in Owners)
  <2>1. user' = user /\ obj_' = obj_
    BY DEF RunQueued
  <2>2. QED
    BY <1>6, <2>1, Others
<1>12. \A o : o \in Owners' <=> o \in Owners \/ o = TaskOf(t, n)
  BY <1>10, <1>11
<1>13. QED
  BY <1>7, <1>8, <1>10, <1>12, MoreOwners

\* A task that has run is destroyed with its reference.
LEMMA TaskEndsKeeps ==
  ASSUME CInv, NEW t \in Threads, TaskEnds(t)
  PROVE  CInv'
<1>1. PICK s : s = stack[t]
  OBVIOUS
<1>2. /\ s \in Seq(Frames) /\ s # << >> /\ stack \in [Threads -> Seq(Frames)]
      /\ Head(s).kind = "task"
  BY <1>1 DEF TaskEnds, In, CInv, TypeOK
<1>3. HasTask(Head(s)) /\ ~HasLocal(Head(s))
  BY <1>2 DEF HasTask, HasLocal
<1>4. PICK r, n : /\ r = Tail(s) /\ n = Len(s)
                  /\ stack' = [stack EXCEPT ![t] = r]
  BY <1>1 DEF TaskEnds
<1>5. /\ n \in Nat /\ stack' \in [Threads -> Seq(Frames)]
      /\ OwnsTask(t, n) <=> HasTask(Head(s))
      /\ OwnsLocal(t, n) <=> HasLocal(Head(s))
      /\ ~OwnsTask(t, n)' /\ ~OwnsLocal(t, n)'
      /\ \A u \in Threads, d \in Nat : u # t \/ d # n =>
           /\ OwnsTask(u, d)' <=> OwnsTask(u, d)
           /\ OwnsLocal(u, d)' <=> OwnsLocal(u, d)
  <2>1. Popped(s, r, n)
    BY <1>2, <1>4, Pop
  <2>2. /\ stack \in [Threads -> Seq(Frames)] /\ s = stack[t]
        /\ stack' = [stack EXCEPT ![t] = r]
    BY <1>1, <1>2, <1>4
  <2>3. QED
    BY <2>1, <2>2, PopOwns
<1>6. Read /\ Read'
  BY ReadNow, PTL
<1>7. /\ TaskOf(t, n) \in Owners /\ TaskOf(t, n) \notin Owners'
      /\ LocalOf(t, n) \notin Owners /\ LocalOf(t, n) \notin Owners'
  BY <1>3, <1>5, <1>6 DEF Read
<1>8. \A o : o \notin {TaskOf(t, n), LocalOf(t, n)} =>
         (o \in Owners' <=> o \in Owners)
  <2>1. user' = user /\ obj_' = obj_
    BY DEF TaskEnds
  <2>2. QED
    BY <1>5, <2>1, Others
<1>9. In(t, "task") /\ Release /\ queue' = queue
  BY DEF TaskEnds
<1>10. refs > 0
  BY <1>9, Alive
<1>11. /\ refs' = refs - 1 + Len(queue') - Len(queue)
       /\ destroyed' <=> refs' = 0
       /\ destroyed' \in BOOLEAN
  BY <1>9, <1>10, Released
<1>12. TypeOK'
  BY <1>5, <1>11 DEF CInv, TypeOK, TaskEnds
<1>13. \A o : o \in Owners' <=> o \in Owners /\ o # TaskOf(t, n)
  BY <1>7, <1>8
<1>14. QED
  BY <1>7, <1>11, <1>12, <1>13, FewerOwners

\* A callback that is destroyed releases its pointer, if it still has it.
LEMMA DropKeeps ==
  ASSUME CInv, NEW t \in Threads, NEW c \in Callbacks, Drop(t, c)
  PROVE  CInv'
<1>1. /\ obj_' = [obj_ EXCEPT ![c] = FALSE] /\ obj_ \in [Callbacks -> BOOLEAN]
      /\ user' = user /\ stack' = stack /\ queue' = queue
  BY DEF Drop, CInv, TypeOK
<1>2. Read /\ Read'
  BY ReadNow, PTL
<1>3. ObjOf(c) \notin Owners' /\ (ObjOf(c) \in Owners <=> obj_[c])
  BY <1>1, <1>2 DEF Read
<1>4. \A o : o \notin {ObjOf(c)} => (o \in Owners' <=> o \in Owners)
  <2>1. \A b \in Callbacks : ObjOf(b) \in {ObjOf(c)} \/ obj_'[b] = obj_[b]
    BY <1>1
  <2>2. QED
    BY <1>1, <2>1, SameStack, Others
<1>5. CASE obj_[c]
  <2>1. refs > 0 /\ Release
    BY <1>5, Alive DEF Drop
  <2>2. /\ refs' = refs - 1 + Len(queue') - Len(queue)
        /\ destroyed' <=> refs' = 0
        /\ destroyed' \in BOOLEAN
    BY <1>1, <2>1, Released
  <2>3. TypeOK'
    BY <2>2 DEF CInv, TypeOK, Drop
  <2>4. \A o : o \in Owners' <=> o \in Owners /\ o # ObjOf(c)
    BY <1>3, <1>4
  <2>5. QED
    BY <1>3, <1>5, <2>2, <2>3, <2>4, FewerOwners
<1>6. CASE ~obj_[c]
  <2>1. UNCHANGED <<refs, destroyed>>
    BY <1>6 DEF Drop
  <2>2. /\ refs' = refs + Len(queue') - Len(queue)
        /\ destroyed' <=> refs' = 0
        /\ destroyed' \in BOOLEAN
    BY <1>1, <2>1, Kept
  <2>3. TypeOK'
    BY <2>2 DEF CInv, TypeOK, Drop
  <2>4. \A o : o \in Owners' <=> o \in Owners
    BY <1>3, <1>4, <1>6
  <2>5. QED
    BY <2>2, <2>3, <2>4, SameOwners
<1>7. QED
  BY <1>5, <1>6

\* The pointer outside is one reference.
LEMMA DropUserKeeps ==
  ASSUME CInv, NEW t \in Threads, DropUser(t)
  PROVE  CInv'
<1>1. /\ user /\ user' = FALSE /\ Release
      /\ obj_' = obj_ /\ stack' = stack /\ queue' = queue
  BY DEF DropUser
<1>2. Read /\ Read'
  BY ReadNow, PTL
<1>3. UserRef \in Owners /\ UserRef \notin Owners'
  BY <1>1, <1>2 DEF Read
<1>4. \A o : o \notin {UserRef} => (o \in Owners' <=> o \in Owners)
  BY <1>1, SameStack, Others
<1>5. refs > 0
  BY <1>1, Alive
<1>6. /\ refs' = refs - 1 + Len(queue') - Len(queue)
      /\ destroyed' <=> refs' = 0
      /\ destroyed' \in BOOLEAN
  BY <1>1, <1>5, Released
<1>7. TypeOK'
  BY <1>6 DEF CInv, TypeOK, DropUser
<1>8. \A o : o \in Owners' <=> o \in Owners /\ o # UserRef
  BY <1>3, <1>4
<1>9. QED
  BY <1>3, <1>6, <1>7, <1>8, FewerOwners
-----------------------------------------------------------------------------
\* At first the user outside is the only owner.
LEMMA Initially == Init => CInv
<1>1. SUFFICES ASSUME Init PROVE CInv
  OBVIOUS
<1>2. TypeOK
  <2>1. << >> \in Seq(Frames) /\ << >> \in Seq(Callbacks)
    OBVIOUS
  <2>2. queue \in Seq(Callbacks) /\ stack \in [Threads -> Seq(Frames)]
    BY <1>1, <2>1 DEF Init
  <2>3. /\ callback \in [Callbacks -> {"unmade", "made", "gone"}]
        /\ obj_ \in [Callbacks -> BOOLEAN]
        /\ \A c \in Callbacks : ~obj_[c]
    BY <1>1 DEF Init
  <2>4. user \in BOOLEAN /\ destroyed \in BOOLEAN
    BY <1>1 DEF Init
  <2>5. QED
    BY <2>2, <2>3, <2>4 DEF TypeOK
<1>3. ASSUME NEW t \in Threads, NEW d \in Nat
      PROVE  ~OwnsTask(t, d) /\ ~OwnsLocal(t, d)
  <2>1. stack[t] = << >>
    BY <1>1 DEF Init
  <2>2. Len(stack[t]) = 0
    BY <2>1
  <2>3. QED
    BY <2>2 DEF OwnsTask, OwnsLocal
<1>4. \A o : o \in Owners <=> o \in {} \/ o = UserRef
  <2>1. user /\ \A c \in Callbacks : ~obj_[c]
    BY <1>1 DEF Init
  <2>2. QED
    BY <1>3, <2>1, ReadNow DEF Read
<1>5. PICK S : S = Owners
  OBVIOUS
<1>6. IsFiniteSet(S) /\ Cardinality(S) = 1
  <2>1. S = {UserRef}
    BY <1>4, <1>5
  <2>2. QED
    BY <2>1, FS_Singleton
<1>7. refs = 1 /\ destroyed = FALSE /\ Len(queue) = 0
  BY <1>1 DEF Init
<1>8. Counted
  BY <1>5, <1>6, <1>7 DEF Counted
<1>9. QED
  BY <1>2, <1>8 DEF CInv

\* No step takes or releases a reference that is not its owner's.
LEMMA StepKeeps == CInv /\ [Next]_vars => CInv'
<1>1. SUFFICES ASSUME CInv, [Next]_vars PROVE CInv'
  OBVIOUS
<1>2. ASSUME NEW t \in Threads, Step(t)
      PROVE  CInv'
  BY <1>1, <1>2, DispatchKeeps, EnqueueKeeps, ReturnKeeps, TaskEndsKeeps,
     RunQueuedKeeps DEF Step
<1>3. ASSUME NEW t \in Threads, DropUser(t)
      PROVE  CInv'
  BY <1>1, <1>3, DropUserKeeps
<1>4. ASSUME NEW t \in Threads, NEW c \in Callbacks,
             Make(t, c) \/ Drop(t, c) \/ Invoke(t, c)
      PROVE  CInv'
  BY <1>1, <1>4, MakeKeeps, DropKeeps, InvokeKeeps
<1>5. CASE UNCHANGED vars
  <2>1. /\ user' = user /\ obj_' = obj_ /\ stack' = stack /\ queue' = queue
        /\ UNCHANGED <<refs, destroyed>> /\ callback' = callback
    BY <1>5 DEF vars
  <2>2. \A o : o \notin {} => (o \in Owners' <=> o \in Owners)
    BY <2>1, SameStack, Others
  <2>3. /\ refs' = refs + Len(queue') - Len(queue)
        /\ destroyed' <=> refs' = 0
        /\ destroyed' \in BOOLEAN
    BY <1>1, <2>1, Kept
  <2>4. TypeOK'
    BY <1>1, <2>1, <2>3 DEF CInv, TypeOK
  <2>5. \A o : o \in Owners' <=> o \in Owners
    BY <2>2
  <2>6. QED
    BY <1>1, <2>3, <2>4, <2>5, SameOwners
<1>6. QED
  BY <1>1, <1>2, <1>3, <1>4, <1>5 DEF Next

(* The reference count is the number of those who own a reference, and the *)
(* object is gone when there are none.                                     *)
THEOREM Invariance == Spec => []CInv
BY Initially, StepKeeps, PTL DEF Spec

(* The object is there whenever schedule uses its strand and whenever a    *)
(* member function runs, for any number of threads, callbacks and nested   *)
(* invocations.                                                            *)
THEOREM AliveWhenUsed == Spec => []AliveWhileUsed
<1>1. CInv => AliveWhileUsed
  BY Alive DEF AliveWhileUsed
<1>2. QED
  BY Invariance, <1>1, PTL

\* Nobody owns a reference, on a stack or on the strand.
DestroyedWithTheLast == destroyed <=> Owners = {} /\ queue = << >>

(* The object is destroyed exactly when nobody owns a reference and no     *)
(* task waits on the strand: neither early nor, once they have let go,     *)
(* never.                                                                  *)
THEOREM GoneWithTheLastOwner == Spec => []DestroyedWithTheLast
<1>1. CInv => DestroyedWithTheLast
  <2>1. SUFFICES ASSUME CInv PROVE DestroyedWithTheLast
    OBVIOUS
  <2>2. PICK S : /\ S = Owners /\ IsFiniteSet(S) /\ Cardinality(S) \in Nat
                 /\ refs = Cardinality(S) + Len(queue)
    BY <2>1, Numbers
  <2>3. Cardinality(S) = 0 <=> S = {}
    BY <2>2, FS_EmptySet
  <2>4. Len(queue) \in Nat /\ (Len(queue) = 0 <=> queue = << >>)
    BY <2>1 DEF CInv, TypeOK
  <2>5. destroyed <=> refs = 0
    BY <2>1, Numbers
  <2>6. QED
    BY <2>2, <2>3, <2>4, <2>5 DEF DestroyedWithTheLast
<1>2. QED
  BY Invariance, <1>1, PTL
-----------------------------------------------------------------------------
(***************************************************************************)
(* Every invocation is answered.  What has been invoked is what has run,   *)
(* what is on its way to the strand and what waits on it.                  *)
(***************************************************************************)
HasFrame(t, d, f) == d \in 1..Len(stack[t]) /\ At(stack[t], d) = f
IsCalling(t, d, c) == HasFrame(t, d, Frame("calling", c))

Calling(c) == {q \in Threads \X Nat : IsCalling(q[1], q[2], c)}

\* The places of a callback in a queue.
Places(q, c) == {k \in 1..Len(q) : q[k] = c}
Waiting(c) == Places(queue, c)

Tally(c) ==
  /\ IsFiniteSet(Calling(c)) /\ IsFiniteSet(Waiting(c))
  /\ calls[c] \in Nat /\ runs[c] \in Nat
  /\ calls[c] = runs[c] + Cardinality(Calling(c)) + Cardinality(Waiting(c))

Tallied ==
  /\ calls \in [Callbacks -> Nat] /\ runs \in [Callbacks -> Nat]
  /\ \A c \in Callbacks : Tally(c)

\* A one-shot callback is invoked once: it has its pointer only before.
Once(c) ==
  /\ callback[c] = "unmade" => calls[c] = 0
  /\ obj_[c] => callback[c] = "made"
  /\ c \in OneShots => calls[c] <= 1 /\ (obj_[c] => calls[c] = 0)

RInv == CInv /\ Tallied /\ \A c \in Callbacks : Once(c)
-----------------------------------------------------------------------------
\* The frames after those of one thread have been set.
LEMMA StackFrames ==
  ASSUME stack \in [Threads -> Seq(Frames)], NEW t \in Threads,
         NEW s, s = stack[t], NEW r, stack' = [stack EXCEPT ![t] = r]
  PROVE  /\ \A d, f : /\ HasFrame(t, d, f)' <=> d \in 1..Len(r) /\ At(r, d) = f
                      /\ HasFrame(t, d, f) <=> d \in 1..Len(s) /\ At(s, d) = f
         /\ \A u \in Threads : \A d, f : u # t =>
              (HasFrame(u, d, f)' <=> HasFrame(u, d, f))
<1>1. stack'[t] = r /\ \A u \in Threads : u # t => stack'[u] = stack[u]
  OBVIOUS
<1>2. \A d, f : HasFrame(t, d, f)' <=> d \in 1..Len(r) /\ At(r, d) = f
  BY <1>1 DEF HasFrame, At
<1>3. \A u \in Threads : \A d, f : u # t =>
        (HasFrame(u, d, f)' <=> HasFrame(u, d, f))
  BY <1>1 DEF HasFrame, At
<1>4. \A d, f : HasFrame(t, d, f) <=> d \in 1..Len(s) /\ At(s, d) = f
  BY DEF HasFrame
<1>5. QED
  BY <1>2, <1>3, <1>4

\* Those below the innermost stay.
LEMMA FramesBelow ==
  ASSUME stack \in [Threads -> Seq(Frames)], NEW t \in Threads,
         NEW s, s = stack[t], NEW r, stack' = [stack EXCEPT ![t] = r],
         NEW n \in Nat, NEW m \in Nat, Stacks(s, r), SameBelow(s, r, n),
         n - 1 <= Len(s), n - 1 <= Len(r), Len(s) <= m, Len(r) <= m
  PROVE  \A u \in Threads, d \in Nat : u # t \/ d \notin n..m =>
           \A f : HasFrame(u, d, f)' <=> HasFrame(u, d, f)
<1>1. /\ \A d, f : /\ HasFrame(t, d, f)' <=> d \in 1..Len(r) /\ At(r, d) = f
                   /\ HasFrame(t, d, f) <=> d \in 1..Len(s) /\ At(s, d) = f
      /\ \A u \in Threads : \A d, f : u # t =>
           (HasFrame(u, d, f)' <=> HasFrame(u, d, f))
  BY StackFrames
<1>2. Len(s) \in Nat /\ Len(r) \in Nat
  BY DEF Stacks
<1>3. ASSUME NEW d \in Nat, d \notin n..m
      PROVE  \A f : HasFrame(t, d, f)' <=> HasFrame(t, d, f)
  <2>1. d \in 1..Len(r) <=> d \in 1..Len(s)
    BY <1>2, <1>3
  <2>2. d \in 1..Len(r) => At(r, d) = At(s, d)
    BY <1>2, <1>3 DEF SameBelow
  <2>3. QED
    BY <1>1, <2>1, <2>2
<1>4. QED
  BY <1>1, <1>3

\* After one is put on them,
LEMMA PushFrames ==
  ASSUME stack \in [Threads -> Seq(Frames)], NEW t \in Threads,
         NEW f \in Frames, Enter(t, f)
  PROVE  \E n \in Nat :
           /\ \A g : /\ ~HasFrame(t, n, g)
                     /\ HasFrame(t, n, g)' <=> g = f
           /\ \A u \in Threads, d \in Nat : u # t \/ d # n =>
                \A g : HasFrame(u, d, g)' <=> HasFrame(u, d, g)
<1>1. PICK s : s = stack[t]
  OBVIOUS
<1>2. s \in Seq(Frames)
  BY <1>1
<1>3. PICK r, n : /\ r = <<f>> \o s /\ n = Len(s) + 1
                  /\ stack' = [stack EXCEPT ![t] = r]
  BY <1>1 DEF Enter
<1>4. Pushed(s, f, r, n)
  BY <1>2, <1>3, Push
<1>5. /\ n \in Nat /\ n >= 1 /\ Len(s) \in Nat /\ Len(r) \in Nat
      /\ Len(s) = n - 1 /\ Len(r) = n /\ Stacks(s, r) /\ SameBelow(s, r, n)
      /\ At(r, n) = f
  BY <1>4 DEF Pushed, Stacks
<1>6. \A d, g : /\ HasFrame(t, d, g)' <=> d \in 1..Len(r) /\ At(r, d) = g
                /\ HasFrame(t, d, g) <=> d \in 1..Len(s) /\ At(s, d) = g
  BY <1>1, <1>3, StackFrames
<1>7. \A u \in Threads, d \in Nat : u # t \/ d \notin n..n =>
        \A g : HasFrame(u, d, g)' <=> HasFrame(u, d, g)
  <2>1. n - 1 <= Len(s) /\ n - 1 <= Len(r) /\ Len(s) <= n /\ Len(r) <= n
    BY <1>5
  <2>2. QED
    BY <1>1, <1>3, <1>5, <2>1, FramesBelow
<1>8. \A g : ~HasFrame(t, n, g) /\ (HasFrame(t, n, g)' <=> g = f)
  BY <1>5, <1>6
<1>9. \A d \in Nat : d # n => d \notin n..n
  BY <1>5
<1>10. QED
  BY <1>5, <1>7, <1>8, <1>9

\* after the innermost is taken from them,
LEMMA PopFrames ==
  ASSUME stack \in [Threads -> Seq(Frames)], NEW t \in Threads,
         stack[t] # << >>, stack' = [stack EXCEPT ![t] = Tail(@)]
  PROVE  \E n \in Nat :
           /\ \A g : /\ HasFrame(t, n, g) <=> g = Head(stack[t])
                     /\ ~HasFrame(t, n, g)'
           /\ \A u \in Threads, d \in Nat : u # t \/ d # n =>
                \A g : HasFrame(u, d, g)' <=> HasFrame(u, d, g)
<1>1. PICK s : s = stack[t]
  OBVIOUS
<1>2. s \in Seq(Frames) /\ s # << >>
  BY <1>1
<1>3. PICK r, n : /\ r = Tail(s) /\ n = Len(s)
                  /\ stack' = [stack EXCEPT ![t] = r]
  BY <1>1
<1>4. Popped(s, r, n) /\ n >= 1
  BY <1>2, <1>3, Pop
<1>5. /\ n \in Nat /\ n >= 1 /\ Len(s) \in Nat /\ Len(r) \in Nat
      /\ Len(s) = n /\ Len(r) = n - 1 /\ Stacks(s, r) /\ SameBelow(s, r, n)
      /\ At(s, n) = Head(s)
  BY <1>4 DEF Popped, Stacks
<1>6. \A d, g : /\ HasFrame(t, d, g)' <=> d \in 1..Len(r) /\ At(r, d) = g
                /\ HasFrame(t, d, g) <=> d \in 1..Len(s) /\ At(s, d) = g
  BY <1>1, <1>3, StackFrames
<1>7. \A u \in Threads, d \in Nat : u # t \/ d \notin n..n =>
        \A g : HasFrame(u, d, g)' <=> HasFrame(u, d, g)
  <2>1. n - 1 <= Len(s) /\ n - 1 <= Len(r) /\ Len(s) <= n /\ Len(r) <= n
    BY <1>5
  <2>2. QED
    BY <1>1, <1>3, <1>5, <2>1, FramesBelow
<1>8. \A g : (HasFrame(t, n, g) <=> g = Head(s)) /\ ~HasFrame(t, n, g)'
  <2>1. n \in 1..Len(s) /\ n \notin 1..Len(r)
    BY <1>5
  <2>2. QED
    BY <1>5, <1>6, <2>1, Zenon
<1>9. \A d \in Nat : d # n => d \notin n..n
  BY <1>5
<1>10. QED
  BY <1>1, <1>5, <1>7, <1>8, <1>9

\* after it is replaced,
LEMMA ReplaceFrames ==
  ASSUME stack \in [Threads -> Seq(Frames)], NEW t \in Threads,
         stack[t] # << >>, NEW f \in Frames, Replace(t, f)
  PROVE  \E n \in Nat :
           /\ \A g : /\ HasFrame(t, n, g) <=> g = Head(stack[t])
                     /\ HasFrame(t, n, g)' <=> g = f
           /\ \A u \in Threads, d \in Nat : u # t \/ d # n =>
                \A g : HasFrame(u, d, g)' <=> HasFrame(u, d, g)
<1>1. PICK s : s = stack[t]
  OBVIOUS
<1>2. s \in Seq(Frames) /\ s # << >>
  BY <1>1
<1>3. PICK r, n : /\ r = <<f>> \o Tail(s) /\ n = Len(s)
                  /\ stack' = [stack EXCEPT ![t] = r]
  BY <1>1 DEF Replace
<1>4. Replaced(s, f, r, n)
  BY <1>2, <1>3, Replacing
<1>5. /\ n \in Nat /\ n >= 1 /\ Len(s) \in Nat /\ Len(r) \in Nat
      /\ Len(s) = n /\ Len(r) = n /\ Stacks(s, r) /\ SameBelow(s, r, n)
      /\ At(s, n) = Head(s) /\ At(r, n) = f
  BY <1>4 DEF Replaced, Stacks
<1>6. \A d, g : /\ HasFrame(t, d, g)' <=> d \in 1..Len(r) /\ At(r, d) = g
                /\ HasFrame(t, d, g) <=> d \in 1..Len(s) /\ At(s, d) = g
  BY <1>1, <1>3, StackFrames
<1>7. \A u \in Threads, d \in Nat : u # t \/ d \notin n..n =>
        \A g : HasFrame(u, d, g)' <=> HasFrame(u, d, g)
  <2>1. n - 1 <= Len(s) /\ n - 1 <= Len(r) /\ Len(s) <= n /\ Len(r) <= n
    BY <1>5
  <2>2. QED
    BY <1>1, <1>3, <1>5, <2>1, FramesBelow
<1>8. \A g : (HasFrame(t, n, g) <=> g = Head(s)) /\ (HasFrame(t, n, g)' <=> g = f)
  BY <1>5, <1>6
<1>9. \A d \in Nat : d # n => d \notin n..n
  BY <1>5
<1>10. QED
  BY <1>1, <1>5, <1>7, <1>8, <1>9

\* and after it is replaced by two: e at n by f at n and g at m.
TwoFor(t, n, m, e, f, g) ==
  /\ \A h : /\ HasFrame(t, n, h) <=> h = e
            /\ HasFrame(t, n, h)' <=> h = f
            /\ ~HasFrame(t, m, h)
            /\ HasFrame(t, m, h)' <=> h = g
  /\ \A u \in Threads, d \in Nat : u # t \/ d \notin {n, m} =>
       \A h : HasFrame(u, d, h)' <=> HasFrame(u, d, h)

LEMMA SplitFrames ==
  ASSUME stack \in [Threads -> Seq(Frames)], NEW t \in Threads,
         NEW s, s = stack[t], NEW r, stack' = [stack EXCEPT ![t] = r],
         NEW f, NEW g, NEW k, Split(s, f, g, r, k)
  PROVE  \E n \in Nat, m \in Nat : TwoFor(t, n, m, Head(s), f, g)
<1>1. PICK n, m : n = k /\ m = n + 1
  OBVIOUS
<1>2. /\ n \in Nat /\ m \in Nat /\ m = n + 1 /\ n >= 1 /\ Len(s) \in Nat /\ Len(r) \in Nat
      /\ Len(s) = n /\ Len(r) = n + 1 /\ Stacks(s, r) /\ SameBelow(s, r, n)
      /\ At(s, n) = Head(s) /\ At(r, n) = f /\ At(r, m) = g
  BY <1>1 DEF Split, Stacks
<1>3. \A d, h : /\ HasFrame(t, d, h)' <=> d \in 1..Len(r) /\ At(r, d) = h
                /\ HasFrame(t, d, h) <=> d \in 1..Len(s) /\ At(s, d) = h
  BY StackFrames
<1>4. \A u \in Threads, d \in Nat : u # t \/ d \notin n..m =>
        \A h : HasFrame(u, d, h)' <=> HasFrame(u, d, h)
  <2>1. /\ n - 1 <= Len(s) /\ n - 1 <= Len(r) /\ m \in Nat
        /\ Len(s) <= m /\ Len(r) <= m
    BY <1>2
  <2>2. QED
    BY <1>2, <2>1, FramesBelow
<1>5. /\ n \in 1..Len(s) /\ n \in 1..Len(r)
      /\ m \notin 1..Len(s) /\ m \in 1..Len(r)
  BY <1>2
<1>6. \A h : /\ HasFrame(t, n, h) <=> h = Head(s)
             /\ HasFrame(t, n, h)' <=> h = f
             /\ ~HasFrame(t, m, h)
             /\ HasFrame(t, m, h)' <=> h = g
  BY <1>2, <1>3, <1>5
<1>7. \A d \in Nat : d \notin {n, m} => d \notin n..m
  BY <1>2
<1>8. QED
  BY <1>2, <1>4, <1>6, <1>7 DEF TwoFor
-----------------------------------------------------------------------------
\* A frame is known by what it is.
LEMMA FrameIs ==
  ASSUME NEW f \in Frames
  PROVE  f = Frame(f.kind, f.cb) /\ f.cb \in Callbacks
BY DEF Frames, Frame

LEMMA DifferentFrames ==
  /\ \A k, l, b, c : Frame(k, b) = Frame(l, c) => k = l /\ b = c
  /\ \A b, c : Frame("calling", c) # Frame("scheduled", b)
  /\ \A b, c : Frame("calling", c) # Frame("task", b)
<1>1. \A k, b : Frame(k, b).kind = k /\ Frame(k, b).cb = b
  BY DEF Frame
<1>2. "calling" # "scheduled" /\ "calling" # "task"
  OBVIOUS
<1>3. QED
  BY <1>1, <1>2

\* What a thread is in the middle of, and on whose behalf.
LEMMA InnermostFrame ==
  ASSUME TypeOK, NEW t \in Threads, NEW k, In(t, k)
  PROVE  /\ stack \in [Threads -> Seq(Frames)] /\ stack[t] # << >>
         /\ Head(stack[t]) = Frame(k, Top(t)) /\ Top(t) \in Callbacks
<1>1. PICK s : s = stack[t]
  OBVIOUS
<1>2. s \in Seq(Frames) /\ s # << >> /\ Head(s).kind = k /\ Top(t) = Head(s).cb
  BY <1>1 DEF TypeOK, In, Top
<1>3. Head(s) \in Frames
  BY <1>2, Pop
<1>4. QED
  BY <1>1, <1>2, <1>3, FrameIs DEF TypeOK

\* The invocations on their way to the strand stay the same,
LEMMA CallingSame ==
  ASSUME NEW c,
         \A u \in Threads, d \in Nat : IsCalling(u, d, c)' <=> IsCalling(u, d, c)
  PROVE  Calling(c)' = Calling(c)
BY DEF Calling

\* there is one more of them,
LEMMA CallingMore ==
  ASSUME NEW c, NEW t \in Threads, NEW n \in Nat, IsFiniteSet(Calling(c)),
         ~IsCalling(t, n, c), IsCalling(t, n, c)',
         \A u \in Threads, d \in Nat : u # t \/ d # n =>
           (IsCalling(u, d, c)' <=> IsCalling(u, d, c))
  PROVE  /\ IsFiniteSet(Calling(c)')
         /\ Cardinality(Calling(c)') = Cardinality(Calling(c)) + 1
<1>1. PICK S, T : S = Calling(c) /\ T = Calling(c)'
  OBVIOUS
<1>2. \A q : q \in S <=> q \in Threads \X Nat /\ IsCalling(q[1], q[2], c)
  BY <1>1 DEF Calling
<1>3. \A q : q \in T <=> q \in Threads \X Nat /\ IsCalling(q[1], q[2], c)'
  BY <1>1 DEF Calling
<1>4. <<t, n>> \notin S /\ \A q : q \in T <=> q \in S \/ q = <<t, n>>
  BY <1>2, <1>3
<1>5. IsFiniteSet(T) /\ Cardinality(T) = Cardinality(S) + 1
  BY <1>1, <1>4, Gain
<1>6. QED
  BY <1>1, <1>5

\* or one less.
LEMMA CallingLess ==
  ASSUME NEW c, NEW t \in Threads, NEW n \in Nat, IsFiniteSet(Calling(c)),
         IsCalling(t, n, c), ~IsCalling(t, n, c)',
         \A u \in Threads, d \in Nat : u # t \/ d # n =>
           (IsCalling(u, d, c)' <=> IsCalling(u, d, c))
  PROVE  /\ IsFiniteSet(Calling(c)')
         /\ Cardinality(Calling(c)') = Cardinality(Calling(c)) - 1
<1>1. PICK S, T : S = Calling(c) /\ T = Calling(c)'
  OBVIOUS
<1>2. \A q : q \in S <=> q \in Threads \X Nat /\ IsCalling(q[1], q[2], c)
  BY <1>1 DEF Calling
<1>3. \A q : q \in T <=> q \in Threads \X Nat /\ IsCalling(q[1], q[2], c)'
  BY <1>1 DEF Calling
<1>4. <<t, n>> \in S /\ \A q : q \in T <=> q \in S /\ q # <<t, n>>
  BY <1>2, <1>3
<1>5. IsFiniteSet(T) /\ Cardinality(T) = Cardinality(S) - 1
  BY <1>1, <1>4, Lose
<1>6. QED
  BY <1>1, <1>5

\* The places of a callback in a queue after one is added at the end of it
LEMMA Appended ==
  ASSUME NEW q, NEW b, NEW c, NEW r,
         Len(q) \in Nat, Len(r) = Len(q) + 1, r[Len(q) + 1] = b,
         \A k \in 1..Len(q) : r[k] = q[k],
         IsFiniteSet(Places(q, c))
  PROVE  /\ b # c => Places(r, c) = Places(q, c)
         /\ b = c => /\ IsFiniteSet(Places(r, c))
                     /\ Cardinality(Places(r, c)) = Cardinality(Places(q, c)) + 1
<1>1. PICK m : m = Len(q) + 1
  OBVIOUS
<1>2. \A k : k \in Places(r, c) <=> k \in Places(q, c) \/ (k = m /\ b = c)
  BY <1>1 DEF Places
<1>3. m \notin Places(q, c)
  BY <1>1 DEF Places
<1>4. b # c => Places(r, c) = Places(q, c)
  BY <1>2
<1>5. ASSUME b = c
      PROVE  /\ IsFiniteSet(Places(r, c))
             /\ Cardinality(Places(r, c)) = Cardinality(Places(q, c)) + 1
  <2>1. \A k : k \in Places(r, c) <=> k \in Places(q, c) \/ k = m
    BY <1>2, <1>5
  <2>2. QED
    BY <1>3, <2>1, Gain
<1>6. QED
  BY <1>4, <1>5

\* and after the first is taken from it.
LEMMA TakenFirst ==
  ASSUME NEW S, NEW q \in Seq(S), q # << >>, NEW c,
         NEW r, r = Tail(q), IsFiniteSet(Places(q, c))
  PROVE  /\ IsFiniteSet(Places(r, c))
         /\ Head(q) # c => Cardinality(Places(r, c)) = Cardinality(Places(q, c))
         /\ Head(q) = c => Cardinality(Places(r, c)) = Cardinality(Places(q, c)) - 1
<1>1. /\ Len(q) \in Nat /\ Len(q) >= 1 /\ Len(r) = Len(q) - 1 /\ q[1] = Head(q)
      /\ \A k \in 1..Len(r) : r[k] = q[k + 1]
  OBVIOUS
<1>2. PICK P : P = Places(q, c) \ {1}
  OBVIOUS
<1>3. /\ IsFiniteSet(P)
      /\ Head(q) # c => Cardinality(P) = Cardinality(Places(q, c))
      /\ Head(q) = c => Cardinality(P) = Cardinality(Places(q, c)) - 1
  <2>1. 1 \in Places(q, c) <=> Head(q) = c
    BY <1>1 DEF Places
  <2>2. \A k : k \in P <=> k \in Places(q, c) /\ k # 1
    BY <1>2
  <2>3. CASE Head(q) = c
    BY <2>1, <2>2, <2>3, Lose
  <2>4. CASE Head(q) # c
    <3>1. P = Places(q, c)
      BY <2>1, <2>2, <2>4
    <3>2. QED
      BY <2>4, <3>1
  <2>5. QED
    BY <2>3, <2>4
<1>4. ExistsBijection(P, Places(r, c))
  <2>1. \A k : k \in P <=> k \in 2..Len(q) /\ q[k] = c
    BY <1>1, <1>2 DEF Places
  <2>2. \A k : k \in Places(r, c) <=> k \in 1..Len(r) /\ r[k] = c
    BY DEF Places
  <2>3. PICK f : f = [k \in P |-> k - 1]
    OBVIOUS
  <2>4. \A k \in P : k \in Int /\ f[k] = k - 1 /\ f[k] \in Places(r, c)
    <3>1. SUFFICES ASSUME NEW k \in P
                   PROVE  k \in Int /\ f[k] = k - 1 /\ f[k] \in Places(r, c)
      OBVIOUS
    <3>2. k \in 2..Len(q) /\ q[k] = c /\ f[k] = k - 1
      BY <2>1, <2>3
    <3>3. k - 1 \in 1..Len(r) /\ (k - 1) + 1 = k
      BY <1>1, <3>2
    <3>4. QED
      BY <1>1, <2>2, <3>2, <3>3
  <2>5. \A j \in Places(r, c) : j + 1 \in P /\ f[j + 1] = j
    <3>1. SUFFICES ASSUME NEW j \in Places(r, c)
                   PROVE  j + 1 \in P /\ f[j + 1] = j
      OBVIOUS
    <3>2. j \in 1..Len(r) /\ q[j + 1] = c /\ j + 1 \in 2..Len(q)
      BY <1>1, <2>2
    <3>3. j + 1 \in P
      BY <2>1, <3>2
    <3>4. QED
      BY <2>4, <3>2, <3>3
  <2>6. f \in Bijection(P, Places(r, c))
    <3>1. f \in [P -> Places(r, c)]
      BY <2>3, <2>4
    <3>2. \A j, k \in P : f[j] = f[k] => j = k
      BY <2>4
    <3>3. \A j \in Places(r, c) : \E k \in P : f[k] = j
      BY <2>5
    <3>4. QED
      BY <3>1, <3>2, <3>3 DEF Bijection, Injection, Surjection, IsInjective
  <2>7. QED
    BY <2>6 DEF ExistsBijection
<1>5. IsFiniteSet(Places(r, c)) /\ Cardinality(Places(r, c)) = Cardinality(P)
  BY <1>3, <1>4, FS_Bijection
<1>6. QED
  BY <1>3, <1>5
-----------------------------------------------------------------------------
\* A step that neither invokes a callback nor takes a task further.
LEMMA CallsStay ==
  ASSUME Tallied, calls' = calls, runs' = runs, queue' = queue,
         \A c \in Callbacks, u \in Threads, d \in Nat :
           IsCalling(u, d, c)' <=> IsCalling(u, d, c)
  PROVE  Tallied'
<1>1. ASSUME NEW c \in Callbacks
      PROVE  Tally(c)'
  <2>1. Calling(c)' = Calling(c)
    BY CallingSame
  <2>2. Waiting(c)' = Waiting(c)
    BY DEF Waiting
  <2>3. Tally(c)
    BY DEF Tallied
  <2>4. QED
    BY <2>1, <2>2, <2>3 DEF Tally
<1>2. QED
  BY <1>1 DEF Tallied

\* Its stack stays.
LEMMA StackStays ==
  ASSUME Tallied, calls' = calls, runs' = runs, queue' = queue, stack' = stack
  PROVE  Tallied'
<1>1. \A c \in Callbacks, u \in Threads, d \in Nat :
        IsCalling(u, d, c)' <=> IsCalling(u, d, c)
  BY DEF IsCalling, HasFrame, At
<1>2. QED
  BY <1>1, CallsStay

\* A thread leaves a member function, or an operator() that has its task.
LEMMA FrameGoes ==
  ASSUME TypeOK, Tallied, NEW t \in Threads, NEW k \in {"scheduled", "task"},
         In(t, k), stack' = [stack EXCEPT ![t] = Tail(@)],
         calls' = calls, runs' = runs, queue' = queue
  PROVE  Tallied'
<1>1. /\ stack \in [Threads -> Seq(Frames)] /\ stack[t] # << >>
      /\ Head(stack[t]) = Frame(k, Top(t))
  BY InnermostFrame
<1>2. PICK n \in Nat :
        /\ \A g : /\ HasFrame(t, n, g) <=> g = Head(stack[t])
                  /\ ~HasFrame(t, n, g)'
        /\ \A u \in Threads, d \in Nat : u # t \/ d # n =>
             \A g : HasFrame(u, d, g)' <=> HasFrame(u, d, g)
  BY <1>1, PopFrames
<1>3. \A c : Frame("calling", c) # Frame(k, Top(t))
  BY DifferentFrames
<1>4. \A c \in Callbacks, u \in Threads, d \in Nat :
        IsCalling(u, d, c)' <=> IsCalling(u, d, c)
  BY <1>1, <1>2, <1>3 DEF IsCalling
<1>5. QED
  BY <1>4, CallsStay

\* An invocation is one call more, on its way.
LEMMA InvokeTallies ==
  ASSUME TypeOK, Tallied, NEW t \in Threads, NEW b \in Callbacks, Invoke(t, b)
  PROVE  Tallied'
<1>1. /\ stack \in [Threads -> Seq(Frames)] /\ Frame("calling", b) \in Frames
      /\ Enter(t, Frame("calling", b))
      /\ calls' = [calls EXCEPT ![b] = @ + 1] /\ runs' = runs /\ queue' = queue
      /\ calls \in [Callbacks -> Nat]
  BY DEF TypeOK, Invoke, Frames, Frame, Tallied
<1>2. PICK n \in Nat :
        /\ \A g : /\ ~HasFrame(t, n, g)
                  /\ HasFrame(t, n, g)' <=> g = Frame("calling", b)
        /\ \A u \in Threads, d \in Nat : u # t \/ d # n =>
             \A g : HasFrame(u, d, g)' <=> HasFrame(u, d, g)
  BY <1>1, PushFrames
<1>3. ASSUME NEW c \in Callbacks
      PROVE  Tally(c)'
  <2>1. Tally(c) /\ Waiting(c)' = Waiting(c)
    BY <1>1 DEF Tallied, Waiting
  <2>2. /\ ~IsCalling(t, n, c) /\ (IsCalling(t, n, c)' <=> c = b)
        /\ \A u \in Threads, d \in Nat : u # t \/ d # n =>
             (IsCalling(u, d, c)' <=> IsCalling(u, d, c))
    BY <1>2, DifferentFrames DEF IsCalling
  <2>3. CASE c = b
    <3>1. calls'[c] = calls[c] + 1 /\ runs'[c] = runs[c]
      BY <1>1, <2>3
    <3>2. /\ IsFiniteSet(Calling(c)')
          /\ Cardinality(Calling(c)') = Cardinality(Calling(c)) + 1
      BY <2>1, <2>2, <2>3, CallingMore DEF Tally
    <3>3. Cardinality(Calling(c)) \in Nat /\ Cardinality(Waiting(c)) \in Nat
      BY <2>1, FS_CardinalityType DEF Tally
    <3>4. QED
      BY <2>1, <3>1, <3>2, <3>3 DEF Tally
  <2>4. CASE c # b
    <3>1. calls'[c] = calls[c] /\ runs'[c] = runs[c]
      BY <1>1, <2>4
    <3>2. Calling(c)' = Calling(c)
      BY <2>2, <2>4, CallingSame
    <3>3. QED
      BY <2>1, <3>1, <3>2 DEF Tally
  <2>5. QED
    BY <2>3, <2>4
<1>4. calls' \in [Callbacks -> Nat] /\ runs' \in [Callbacks -> Nat]
  BY <1>1 DEF Tallied
<1>5. QED
  BY <1>3, <1>4 DEF Tallied

\* A task that runs at once is one on its way less,
LEMMA DispatchTallies ==
  ASSUME TypeOK, Tallied, NEW t \in Threads, DispatchNow(t)
  PROVE  Tallied'
<1>1. PICK b : b = Top(t)
  OBVIOUS
<1>2. /\ stack \in [Threads -> Seq(Frames)] /\ stack[t] # << >>
      /\ Head(stack[t]) = Frame("calling", b) /\ b \in Callbacks
  BY <1>1, InnermostFrame DEF DispatchNow
<1>3. /\ Frame("task", b) \in Frames /\ Frame("scheduled", b) \in Frames
      /\ calls' = calls /\ runs' = [runs EXCEPT ![b] = @ + 1] /\ queue' = queue
      /\ runs \in [Callbacks -> Nat]
  BY <1>1, <1>2 DEF DispatchNow, Frames, Frame, Tallied
<1>4. PICK n \in Nat, m \in Nat :
        TwoFor(t, n, m, Head(stack[t]), Frame("scheduled", b), Frame("task", b))
  <2>1. PICK f, g, s : f = Frame("scheduled", b) /\ g = Frame("task", b) /\ s = stack[t]
    OBVIOUS
  <2>2. PICK r : r = <<g, f>> \o Tail(s) /\ stack' = [stack EXCEPT ![t] = r]
    BY <1>1, <2>1 DEF DispatchNow
  <2>3. s # << >> /\ f \in Frames /\ g \in Frames
    BY <1>2, <1>3, <2>1
  <2>4. PICK k : Split(s, f, g, r, k)
    BY <1>2, <2>1, <2>2, <2>3, Splitting
  <2>5. /\ stack \in [Threads -> Seq(Frames)] /\ s = stack[t]
        /\ stack' = [stack EXCEPT ![t] = r]
    BY <1>2, <2>1, <2>2
  <2>6. \E n \in Nat, m \in Nat : TwoFor(t, n, m, Head(s), f, g)
    BY <2>4, <2>5, SplitFrames
  <2>7. QED
    BY <2>1, <2>6, Zenon
<1>5. ASSUME NEW c \in Callbacks
      PROVE  Tally(c)'
  <2>1. Tally(c) /\ Waiting(c)' = Waiting(c)
    BY <1>3 DEF Tallied, Waiting
  <2>2. /\ IsCalling(t, n, c) <=> c = b
        /\ ~IsCalling(t, n, c)'
        /\ \A u \in Threads, d \in Nat : u # t \/ d # n =>
             (IsCalling(u, d, c)' <=> IsCalling(u, d, c))
    BY <1>2, <1>4, DifferentFrames DEF IsCalling, TwoFor
  <2>3. CASE c = b
    <3>1. calls'[c] = calls[c] /\ runs'[c] = runs[c] + 1
      BY <1>3, <2>3
    <3>2. /\ IsFiniteSet(Calling(c)')
          /\ Cardinality(Calling(c)') = Cardinality(Calling(c)) - 1
      BY <2>1, <2>2, <2>3, CallingLess DEF Tally
    <3>3. Cardinality(Calling(c)) \in Nat /\ Cardinality(Waiting(c)) \in Nat
      BY <2>1, FS_CardinalityType DEF Tally
    <3>4. QED
      BY <2>1, <3>1, <3>2, <3>3 DEF Tally
  <2>4. CASE c # b
    <3>1. calls'[c] = calls[c] /\ runs'[c] = runs[c]
      BY <1>3, <2>4
    <3>2. Calling(c)' = Calling(c)
      BY <2>2, <2>4, CallingSame
    <3>3. QED
      BY <2>1, <3>1, <3>2 DEF Tally
  <2>5. QED
    BY <2>3, <2>4
<1>6. calls' \in [Callbacks -> Nat] /\ runs' \in [Callbacks -> Nat]
  BY <1>2, <1>3 DEF Tallied
<1>7. QED
  BY <1>5, <1>6 DEF Tallied

\* one that is queued goes from there to the strand,
LEMMA EnqueueTallies ==
  ASSUME TypeOK, Tallied, NEW t \in Threads, Enqueue(t)
  PROVE  Tallied'
<1>1. PICK b : b = Top(t)
  OBVIOUS
<1>2. /\ stack \in [Threads -> Seq(Frames)] /\ stack[t] # << >>
      /\ Head(stack[t]) = Frame("calling", b) /\ b \in Callbacks
  BY <1>1, InnermostFrame DEF Enqueue
<1>3. /\ Frame("scheduled", b) \in Frames /\ Replace(t, Frame("scheduled", b))
      /\ calls' = calls /\ runs' = runs
  BY <1>1, <1>2 DEF Enqueue, Frames, Frame
<1>4. PICK n \in Nat :
        /\ \A g : /\ HasFrame(t, n, g) <=> g = Head(stack[t])
                  /\ HasFrame(t, n, g)' <=> g = Frame("scheduled", b)
        /\ \A u \in Threads, d \in Nat : u # t \/ d # n =>
             \A g : HasFrame(u, d, g)' <=> HasFrame(u, d, g)
  BY <1>2, <1>3, ReplaceFrames
<1>5. PICK q, r : q = queue /\ r = queue' /\ q \in Seq(Callbacks) /\ r = Append(q, b)
  BY <1>1 DEF Enqueue, TypeOK
<1>6. ASSUME NEW c, IsFiniteSet(Places(q, c))
      PROVE  /\ b # c => Places(r, c) = Places(q, c)
             /\ b = c => /\ IsFiniteSet(Places(r, c))
                         /\ Cardinality(Places(r, c)) = Cardinality(Places(q, c)) + 1
  <2>1. /\ Len(q) \in Nat /\ Len(r) = Len(q) + 1 /\ r[Len(q) + 1] = b
        /\ \A k \in 1..Len(q) : r[k] = q[k]
    BY <1>2, <1>5
  <2>2. QED
    BY <1>6, <2>1, Appended
<1>7. ASSUME NEW c \in Callbacks
      PROVE  Tally(c)'
  <2>1. /\ Tally(c) /\ Waiting(c) = Places(q, c) /\ Waiting(c)' = Places(r, c)
        /\ IsFiniteSet(Places(q, c))
    BY <1>5 DEF Tallied, Waiting, Tally
  <2>2. /\ IsCalling(t, n, c) <=> c = b
        /\ ~IsCalling(t, n, c)'
        /\ \A u \in Threads, d \in Nat : u # t \/ d # n =>
             (IsCalling(u, d, c)' <=> IsCalling(u, d, c))
    BY <1>2, <1>4, DifferentFrames DEF IsCalling
  <2>3. CASE c = b
    <3>1. /\ IsFiniteSet(Calling(c)')
          /\ Cardinality(Calling(c)') = Cardinality(Calling(c)) - 1
      BY <2>1, <2>2, <2>3, CallingLess DEF Tally
    <3>2. /\ IsFiniteSet(Waiting(c)')
          /\ Cardinality(Waiting(c)') = Cardinality(Waiting(c)) + 1
      BY <1>6, <2>1, <2>3
    <3>3. Cardinality(Calling(c)) \in Nat /\ Cardinality(Waiting(c)) \in Nat
      BY <2>1, FS_CardinalityType DEF Tally
    <3>4. QED
      BY <1>3, <2>1, <3>1, <3>2, <3>3 DEF Tally
  <2>4. CASE c # b
    <3>1. Calling(c)' = Calling(c)
      BY <2>2, <2>4, CallingSame
    <3>2. Waiting(c)' = Waiting(c)
      BY <1>6, <2>1, <2>4
    <3>3. QED
      BY <1>3, <2>1, <3>1, <3>2 DEF Tally
  <2>5. QED
    BY <2>3, <2>4
<1>8. QED
  BY <1>3, <1>7 DEF Tallied

\* and one that a worker runs leaves the strand.
LEMMA RunQueuedTallies ==
  ASSUME TypeOK, Tallied, NEW t \in Threads, RunQueued(t)
  PROVE  Tallied'
<1>1. PICK q, r, b : /\ q = queue /\ r = queue' /\ q \in Seq(Callbacks) /\ q # << >>
                     /\ r = Tail(q) /\ b = Head(q)
  BY DEF RunQueued, TypeOK
<1>2. b \in Callbacks
  BY <1>1
<1>3. /\ stack \in [Threads -> Seq(Frames)] /\ Frame("task", b) \in Frames
      /\ Enter(t, Frame("task", b))
      /\ calls' = calls /\ runs' = [runs EXCEPT ![b] = @ + 1]
      /\ runs \in [Callbacks -> Nat]
  BY <1>1, <1>2 DEF TypeOK, RunQueued, Frames, Frame, Tallied
<1>4. PICK n \in Nat :
        /\ \A g : /\ ~HasFrame(t, n, g)
                  /\ HasFrame(t, n, g)' <=> g = Frame("task", b)
        /\ \A u \in Threads, d \in Nat : u # t \/ d # n =>
             \A g : HasFrame(u, d, g)' <=> HasFrame(u, d, g)
  BY <1>3, PushFrames
<1>5. ASSUME NEW c, IsFiniteSet(Places(q, c))
      PROVE  /\ IsFiniteSet(Places(r, c))
             /\ b # c => Cardinality(Places(r, c)) = Cardinality(Places(q, c))
             /\ b = c => Cardinality(Places(r, c)) = Cardinality(Places(q, c)) - 1
  BY <1>1, <1>5, TakenFirst, Zenon
<1>6. ASSUME NEW c \in Callbacks
      PROVE  Tally(c)'
  <2>1. /\ Tally(c) /\ Waiting(c) = Places(q, c) /\ Waiting(c)' = Places(r, c)
        /\ IsFiniteSet(Places(q, c))
    BY <1>1 DEF Tallied, Waiting, Tally
  <2>2. Calling(c)' = Calling(c)
    <3>1. \A u \in Threads, d \in Nat : IsCalling(u, d, c)' <=> IsCalling(u, d, c)
      BY <1>4, DifferentFrames DEF IsCalling
    <3>2. QED
      BY <3>1, CallingSame
  <2>3. /\ IsFiniteSet(Waiting(c)')
        /\ b # c => Cardinality(Waiting(c)') = Cardinality(Waiting(c))
        /\ b = c => Cardinality(Waiting(c)') = Cardinality(Waiting(c)) - 1
    BY <1>5, <2>1
  <2>4. /\ b # c => runs'[c] = runs[c]
        /\ b = c => runs'[c] = runs[c] + 1
    BY <1>2, <1>3
  <2>5. Cardinality(Calling(c)) \in Nat /\ Cardinality(Waiting(c)) \in Nat
    BY <2>1, FS_CardinalityType DEF Tally
  <2>6. QED
    BY <1>3, <2>1, <2>2, <2>3, <2>4, <2>5 DEF Tally
<1>7. calls' \in [Callbacks -> Nat] /\ runs' \in [Callbacks -> Nat]
  BY <1>2, <1>3 DEF Tallied
<1>8. QED
  BY <1>6, <1>7 DEF Tallied
-----------------------------------------------------------------------------
\* A callback that is made has not been invoked.
LEMMA MakeOnce ==
  ASSUME TypeOK, \A c \in Callbacks : Once(c), NEW t \in Threads,
         NEW b \in Callbacks, Make(t, b)
  PROVE  \A c \in Callbacks : Once(c)'
<1>1. /\ callback[b] = "unmade" /\ calls' = calls
      /\ callback' = [callback EXCEPT ![b] = "made"]
      /\ obj_' = [obj_ EXCEPT ![b] = TRUE]
      /\ callback \in [Callbacks -> {"unmade", "made", "gone"}]
      /\ obj_ \in [Callbacks -> BOOLEAN]
  BY DEF Make, TypeOK
<1>2. ASSUME NEW c \in Callbacks
      PROVE  Once(c)'
  <2>1. Once(c)
    OBVIOUS
  <2>2. CASE c = b
    <3>1. callback'[c] = "made" /\ calls'[c] = 0
      BY <1>1, <2>1, <2>2 DEF Once
    <3>2. QED
      BY <3>1 DEF Once
  <2>3. CASE c # b
    <3>1. callback'[c] = callback[c] /\ obj_'[c] = obj_[c] /\ calls'[c] = calls[c]
      BY <1>1, <2>3
    <3>2. QED
      BY <2>1, <3>1 DEF Once
  <2>4. QED
    BY <2>2, <2>3
<1>3. QED
  BY <1>2

\* A one-shot callback gives its pointer away when it is invoked.
LEMMA InvokeOnce ==
  ASSUME TypeOK, Tallied, \A c \in Callbacks : Once(c), NEW t \in Threads,
         NEW b \in Callbacks, Invoke(t, b)
  PROVE  \A c \in Callbacks : Once(c)'
<1>1. /\ obj_[b] /\ calls' = [calls EXCEPT ![b] = @ + 1] /\ callback' = callback
      /\ obj_' = [obj_ EXCEPT ![b] = b \in Listeners]
      /\ obj_ \in [Callbacks -> BOOLEAN] /\ calls \in [Callbacks -> Nat]
  BY DEF Invoke, TypeOK, Tallied
<1>2. ASSUME NEW c \in Callbacks
      PROVE  Once(c)'
  <2>1. Once(c)
    OBVIOUS
  <2>2. CASE c = b
    <3>1. callback'[c] = "made" /\ calls'[c] = calls[c] + 1
      BY <1>1, <2>1, <2>2 DEF Once
    <3>2. obj_'[c] <=> c \in Listeners
      BY <1>1, <2>2
    <3>3. c \in OneShots => ~obj_'[c] /\ calls'[c] = 1
      BY <1>1, <2>1, <2>2, <3>1, <3>2, CallbacksAssumption DEF Once
    <3>4. QED
      BY <3>1, <3>3 DEF Once
  <2>3. CASE c # b
    <3>1. callback'[c] = callback[c] /\ obj_'[c] = obj_[c] /\ calls'[c] = calls[c]
      BY <1>1, <2>3
    <3>2. QED
      BY <2>1, <3>1 DEF Once
  <2>4. QED
    BY <2>2, <2>3
<1>3. QED
  BY <1>2

\* One that is destroyed has none.
LEMMA DropOnce ==
  ASSUME TypeOK, \A c \in Callbacks : Once(c), NEW t \in Threads,
         NEW b \in Callbacks, Drop(t, b)
  PROVE  \A c \in Callbacks : Once(c)'
<1>1. /\ calls' = calls
      /\ callback' = [callback EXCEPT ![b] = "gone"]
      /\ obj_' = [obj_ EXCEPT ![b] = FALSE]
      /\ callback \in [Callbacks -> {"unmade", "made", "gone"}]
      /\ obj_ \in [Callbacks -> BOOLEAN]
  BY DEF Drop, TypeOK
<1>2. ASSUME NEW c \in Callbacks
      PROVE  Once(c)'
  <2>1. Once(c)
    OBVIOUS
  <2>2. CASE c = b
    <3>1. callback'[c] = "gone" /\ ~obj_'[c] /\ calls'[c] = calls[c]
      BY <1>1, <2>2
    <3>2. QED
      BY <2>1, <3>1 DEF Once
  <2>3. CASE c # b
    <3>1. callback'[c] = callback[c] /\ obj_'[c] = obj_[c] /\ calls'[c] = calls[c]
      BY <1>1, <2>3
    <3>2. QED
      BY <2>1, <3>1 DEF Once
  <2>4. QED
    BY <2>2, <2>3
<1>3. QED
  BY <1>2

\* At first nothing has been invoked.
LEMMA InitiallyNone == Init => RInv
<1>1. SUFFICES ASSUME Init PROVE RInv
  OBVIOUS
<1>2. CInv
  BY <1>1, Initially
<1>3. ASSUME NEW c \in Callbacks
      PROVE  Tally(c)
  <2>1. calls[c] = 0 /\ runs[c] = 0
    BY <1>1 DEF Init
  <2>2. Calling(c) = {}
    <3>1. \A t \in Threads : stack[t] = << >>
      BY <1>1 DEF Init
    <3>2. \A t \in Threads : Len(stack[t]) = 0
      BY <3>1
    <3>3. QED
      BY <3>2 DEF Calling, IsCalling, HasFrame
  <2>3. Waiting(c) = {}
    <3>1. Len(queue) = 0
      BY <1>1 DEF Init
    <3>2. QED
      BY <3>1 DEF Waiting, Places
  <2>4. IsFiniteSet({}) /\ Cardinality({}) = 0
    BY FS_EmptySet
  <2>5. QED
    BY <2>1, <2>2, <2>3, <2>4 DEF Tally
<1>4. calls \in [Callbacks -> Nat] /\ runs \in [Callbacks -> Nat]
  BY <1>1 DEF Init
<1>5. \A c \in Callbacks : Once(c)
  BY <1>1 DEF Init, Once
<1>6. QED
  BY <1>2, <1>3, <1>4, <1>5 DEF RInv, Tallied

\* No step loses an invocation, nor runs one twice.
LEMMA StepTallies == RInv /\ [Next]_vars => RInv'
<1>1. SUFFICES ASSUME RInv, [Next]_vars PROVE RInv'
  OBVIOUS
<1>2. CInv' /\ TypeOK /\ Tallied /\ \A c \in Callbacks : Once(c)
  BY <1>1, StepKeeps DEF RInv, CInv
<1>3. ASSUME NEW t \in Threads, Step(t)
      PROVE  Tallied' /\ \A c \in Callbacks : Once(c)'
  <2>1. callback' = callback /\ obj_' = obj_ /\ calls' = calls
    BY <1>3 DEF Step, DispatchNow, Enqueue, Return, TaskEnds, RunQueued
  <2>2. \A c \in Callbacks : Once(c)'
    BY <1>2, <2>1 DEF Once
  <2>3. ASSUME Return(t) PROVE Tallied'
    BY <1>2, <2>3, FrameGoes DEF Return
  <2>4. ASSUME TaskEnds(t) PROVE Tallied'
    BY <1>2, <2>4, FrameGoes DEF TaskEnds
  <2>5. QED
    BY <1>2, <1>3, <2>2, <2>3, <2>4, DispatchTallies, EnqueueTallies, RunQueuedTallies DEF Step
<1>4. ASSUME NEW t \in Threads, DropUser(t)
      PROVE  Tallied' /\ \A c \in Callbacks : Once(c)'
  <2>1. /\ callback' = callback /\ obj_' = obj_ /\ calls' = calls
        /\ runs' = runs /\ queue' = queue /\ stack' = stack
    BY <1>4 DEF DropUser
  <2>2. QED
    BY <1>2, <2>1, StackStays DEF Once
<1>5. ASSUME NEW t \in Threads, NEW c \in Callbacks, Make(t, c)
      PROVE  Tallied' /\ \A b \in Callbacks : Once(b)'
  <2>1. calls' = calls /\ runs' = runs /\ queue' = queue /\ stack' = stack
    BY <1>5 DEF Make
  <2>2. QED
    BY <1>2, <1>5, <2>1, StackStays, MakeOnce
<1>6. ASSUME NEW t \in Threads, NEW c \in Callbacks, Drop(t, c)
      PROVE  Tallied' /\ \A b \in Callbacks : Once(b)'
  <2>1. calls' = calls /\ runs' = runs /\ queue' = queue /\ stack' = stack
    BY <1>6 DEF Drop
  <2>2. QED
    BY <1>2, <1>6, <2>1, StackStays, DropOnce
<1>7. ASSUME NEW t \in Threads, NEW c \in Callbacks, Invoke(t, c)
      PROVE  Tallied' /\ \A b \in Callbacks : Once(b)'
  BY <1>2, <1>7, InvokeTallies, InvokeOnce
<1>8. CASE UNCHANGED vars
  <2>1. /\ callback' = callback /\ obj_' = obj_ /\ calls' = calls
        /\ runs' = runs /\ queue' = queue /\ stack' = stack
    BY <1>8 DEF vars
  <2>2. QED
    BY <1>2, <2>1, StackStays DEF Once, RInv
<1>9. Tallied' /\ \A c \in Callbacks : Once(c)'
  BY <1>1, <1>2, <1>3, <1>4, <1>5, <1>6, <1>7, <1>8 DEF Next, RInv
<1>10. QED
  BY <1>2, <1>9 DEF RInv

(* Each invocation of a callback is on its way to the strand, waits on it  *)
(* or has run its function: none is lost and none runs twice, however the  *)
(* invocations of several threads interleave and nest.                     *)
THEOREM EachCallIsSomewhere == Spec => []Tallied
BY InitiallyNone, StepTallies, PTL DEF Spec, RInv

\* Nothing runs that was not invoked, and a one-shot callback runs once.
RunsAsCalled ==
  \A c \in Callbacks : runs[c] <= calls[c] /\ (c \in OneShots => calls[c] <= 1)

(* The function of a callback starts at most as often as it is invoked,    *)
(* and that of a one-shot callback at most once.                           *)
THEOREM RunsAtMostAsCalled == Spec => []RunsAsCalled
<1>1. RInv => RunsAsCalled
  <2>1. SUFFICES ASSUME RInv, NEW c \in Callbacks
                 PROVE  /\ runs[c] <= calls[c]
                        /\ c \in OneShots => calls[c] <= 1
    BY DEF RunsAsCalled
  <2>2. Tally(c) /\ Once(c)
    BY <2>1 DEF RInv, Tallied
  <2>3. Cardinality(Calling(c)) \in Nat /\ Cardinality(Waiting(c)) \in Nat
    BY <2>2, FS_CardinalityType DEF Tally
  <2>4. QED
    BY <2>2, <2>3 DEF Tally, Once
<1>2. QED
  BY <1>1, InitiallyNone, StepTallies, PTL DEF Spec

\* Nobody is left with an invocation of an object that is gone.
GoneAfterTheLastRun == destroyed => \A c \in Callbacks : runs[c] = calls[c]

(* The object is destroyed only when every invocation has run its          *)
(* function: letting go of it, outside or in a callback, cancels nothing.  *)
THEOREM NoCallIsCancelled == Spec => []GoneAfterTheLastRun
<1>1. RInv => GoneAfterTheLastRun
  <2>1. SUFFICES ASSUME RInv, destroyed, NEW c \in Callbacks
                 PROVE  runs[c] = calls[c]
    BY DEF GoneAfterTheLastRun
  <2>2. CInv /\ TypeOK /\ Tally(c)
    BY <2>1 DEF RInv, CInv, Tallied
  <2>3. PICK S : /\ S = Owners /\ IsFiniteSet(S) /\ Cardinality(S) \in Nat
                 /\ refs = Cardinality(S) + Len(queue) /\ refs = 0
    BY <2>1, <2>2, Numbers
  <2>4. Owners = {} /\ Len(queue) = 0
    <3>1. Len(queue) \in Nat
      BY <2>2 DEF TypeOK
    <3>2. QED
      BY <2>3, <3>1, FS_EmptySet
  <2>5. Waiting(c) = {}
    BY <2>4 DEF Waiting, Places
  <2>6. Calling(c) = {}
    <3>1. ASSUME NEW t \in Threads, NEW d \in Nat, IsCalling(t, d, c)
          PROVE  FALSE
      <4>1. OwnsTask(t, d)
        BY <3>1 DEF IsCalling, HasFrame, OwnsTask, HasTask, Frame
      <4>2. TaskOf(t, d) \in Owners
        BY <4>1, ReadNow DEF Read
      <4>3. QED
        BY <2>4, <4>2
    <3>2. QED
      BY <3>1 DEF Calling
  <2>7. Cardinality({}) = 0
    BY FS_EmptySet
  <2>8. QED
    BY <2>2, <2>5, <2>6, <2>7 DEF Tally
<1>2. QED
  BY <1>1, InitiallyNone, StepTallies, PTL DEF Spec
=============================================================================

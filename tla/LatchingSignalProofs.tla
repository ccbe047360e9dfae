------------------------ MODULE LatchingSignalProofs ------------------------
(***************************************************************************)
(* Proofs about LatchingSignal for any threads, slots and arguments and    *)
(* any number of resets.  The slots that have still to be called wait in   *)
(* queues: in *state_, in a thread that calls slots, in a                  *)
(* DeferredInvocation or in a DeferredConnection.  The operations move     *)
(* queues from place to place, put slots at their ends and take them from  *)
(* their fronts.  The inductive invariant says that no slot is in two      *)
(* places, that behind a slot come all that wait for the same firing, and  *)
(* what each is to be called with; the three properties follow.            *)
(***************************************************************************)
EXTENDS LatchingSignal, SequenceTheorems, TLAPS

\* No slot is in two places of the queues Q.
Apart(Q) ==
  \A g, h \in DOMAIN Q : \A k \in 1..Len(Q[g]), l \in 1..Len(Q[h]) :
    Q[g][k] = Q[h][l] => g = h /\ k = l

Contains(q, s) == \E k \in 1..Len(q) : q[k] = s

Holds(Q, s) == \E h \in DOMAIN Q : Contains(Q[h], s)

(* Behind a slot in a queue come all that were connected after it and      *)
(* before the same firing.                                                 *)
Together(Q, J) ==
  \A h \in DOMAIN Q : \A k \in 1..Len(Q[h]) : \A i, j \in 1..Len(J) :
    /\ i < j /\ J[i].generation = J[j].generation /\ J[j].waits
    /\ J[i].slot = Q[h][k]
    => \E l \in (k + 1)..Len(Q[h]) : Q[h][l] = J[j].slot

(* How the queues R come from the queues Q by one step: one of them is      *)
(* moved to an empty place, loses its first slot, is dropped, or gets a new *)
(* slot at its end, which is the join e.                                    *)
Queued(H) == [H -> Seq(Slots)]

QueueMoved(H, Q, R, a, b) ==
  /\ Q \in Queued(H) /\ R \in Queued(H) /\ a \in H /\ b \in H /\ a # b
  /\ Q[b] = << >> /\ R[b] = Q[a] /\ R[a] = << >>
  /\ \A h \in H \ {a, b} : R[h] = Q[h]

QueueTaken(H, Q, R, a) ==
  /\ Q \in Queued(H) /\ R \in Queued(H) /\ a \in H
  /\ Q[a] # << >> /\ R[a] = Tail(Q[a])
  /\ \A h \in H \ {a} : R[h] = Q[h]

QueueDropped(H, Q, R, a) ==
  /\ Q \in Queued(H) /\ R \in Queued(H) /\ a \in H /\ R[a] = << >>
  /\ \A h \in H \ {a} : R[h] = Q[h]

QueueJoined(H, Q, R, J, e, a) ==
  /\ Q \in Queued(H) /\ R \in Queued(H) /\ a \in H /\ e.slot \in Slots
  /\ R[a] = Append(Q[a], e.slot)
  /\ \A h \in H \ {a} : R[h] = Q[h]
  /\ ~Holds(Q, e.slot) /\ \A j \in 1..Len(J) : J[j].slot # e.slot
  /\ e.waits => \A h \in H \ {a} : \A k \in 1..Len(Q[h]), j \in 1..Len(J) :
                  J[j].slot = Q[h][k] => J[j].generation # e.generation

Joins == [slot : Slots, generation : 0..MaxResets, waits : BOOLEAN]
-----------------------------------------------------------------------------
\* A queue is moved to an empty place.
LEMMA Move ==
  ASSUME NEW H, NEW Q, NEW R, NEW J \in Seq(Joins), NEW a, NEW b,
         QueueMoved(H, Q, R, a, b)
  PROVE  /\ Apart(Q) => Apart(R)
         /\ Together(Q, J) => Together(R, J)
         /\ \A s : Holds(R, s) <=> Holds(Q, s)
<1>0. /\ Q \in [H -> Seq(Slots)] /\ R \in [H -> Seq(Slots)]
      /\ a \in H /\ b \in H /\ a # b
      /\ Q[b] = << >> /\ R[b] = Q[a] /\ R[a] = << >>
      /\ \A h \in H \ {a, b} : R[h] = Q[h]
  BY DEF QueueMoved, Queued
<1> USE <1>0
<1> DEFINE From(h) == IF h = b THEN a ELSE h
<1>1. \A h \in H : \A k \in 1..Len(R[h]) :
        From(h) \in H /\ R[h] = Q[From(h)]
  OBVIOUS
<1>2. \A g, h \in H : \A k \in 1..Len(R[g]), l \in 1..Len(R[h]) :
        From(g) = From(h) => g = h
  OBVIOUS
<1>3. Apart(Q) => Apart(R)
  <2>1. SUFFICES ASSUME Apart(Q), NEW g \in H, NEW h \in H,
                        NEW k \in 1..Len(R[g]), NEW l \in 1..Len(R[h]),
                        R[g][k] = R[h][l]
                 PROVE  g = h /\ k = l
    BY DEF Apart
  <2>2. From(g) = From(h) /\ k = l
    BY <2>1, <1>1 DEF Apart
  <2>3. QED
    BY <2>2, <1>2
<1>4. Together(Q, J) => Together(R, J)
  <2>0. DOMAIN R = H
    OBVIOUS
  <2>1. SUFFICES ASSUME Together(Q, J), NEW h \in H, NEW k \in 1..Len(R[h]),
                        NEW i \in 1..Len(J), NEW j \in 1..Len(J),
                        i < j, J[i].generation = J[j].generation, J[j].waits,
                        J[i].slot = R[h][k]
                 PROVE  \E l \in (k + 1)..Len(R[h]) : R[h][l] = J[j].slot
    BY <2>0, SMTT(60) DEF Together
  <2>2. PICK g \in H : R[h] = Q[g]
    BY <1>1
  <2>3. k \in 1..Len(Q[g]) /\ J[i].slot = Q[g][k]
    BY <2>1, <2>2
  <2>4. \E l \in (k + 1)..Len(Q[g]) : Q[g][l] = J[j].slot
    BY <2>1, <2>3 DEF Together
  <2>5. QED
    BY <2>2, <2>4
<1>5. ASSUME NEW s PROVE Holds(R, s) <=> Holds(Q, s)
  <2>1. ASSUME NEW h \in H, NEW k \in 1..Len(R[h]), R[h][k] = s
        PROVE  Holds(Q, s)
    BY <2>1, <1>1 DEF Holds, Contains
  <2>2. ASSUME NEW h \in H, NEW k \in 1..Len(Q[h]), Q[h][k] = s
        PROVE  Holds(R, s)
    <3>1. h # b
      BY <2>2
    <3>2. CASE h = a
      BY <2>2, <3>2 DEF Holds, Contains
    <3>3. CASE h # a
      BY <2>2, <3>1, <3>3 DEF Holds, Contains
    <3>4. QED
      BY <3>2, <3>3
  <2>3. QED
    BY <2>1, <2>2 DEF Holds, Contains
<1>6. QED
  BY <1>3, <1>4, <1>5

\* What Head and Tail of a sequence are, place by place.
LEMMA TailAt ==
  ASSUME NEW S, NEW q \in Seq(S), q # <<>>
  PROVE  /\ Tail(q) \in Seq(S) /\ Len(q) \in Nat /\ Len(Tail(q)) = Len(q) - 1
         /\ Head(q) = q[1] /\ Head(q) \in S /\ 1 \in 1..Len(q)
         /\ \A k \in 1..Len(Tail(q)) : k + 1 \in 1..Len(q)
              /\ Tail(q)[k] = q[k + 1]
BY SMT

\* The first slot of a queue is taken out of it.
LEMMA Take ==
  ASSUME NEW H, NEW Q, NEW R, NEW J \in Seq(Joins), NEW a,
         QueueTaken(H, Q, R, a), Apart(Q)
  PROVE  /\ Apart(R)
         /\ Together(Q, J) => Together(R, J)
         /\ \A s : Holds(R, s) <=> Holds(Q, s) /\ s # Head(Q[a])
<1> USE DEF QueueTaken, Queued
<1> DEFINE Off(h) == IF h = a THEN 1 ELSE 0
<1>0. \A h \in H : Len(Q[h]) \in Nat /\ Len(R[h]) \in Nat
  BY LenProperties
<1>1. \A h \in H : Len(R[h]) = Len(Q[h]) - Off(h) /\ Off(h) \in {0, 1}
  BY TailAt, <1>0
<1>2. ASSUME NEW h \in H, NEW k \in 1..Len(R[h])
      PROVE  k + Off(h) \in 1..Len(Q[h]) /\ R[h][k] = Q[h][k + Off(h)]
  <2>1. CASE h = a
    <3>1. \A m \in 1..Len(R[a]) :
            m + 1 \in 1..Len(Q[a]) /\ R[a][m] = Q[a][m + 1]
      BY TailAt
    <3>2. k + 1 \in 1..Len(Q[a]) /\ R[a][k] = Q[a][k + 1]
      BY <2>1, <3>1
    <3>3. Off(h) = 1
      BY <2>1
    <3>4. QED
      BY <2>1, <3>2, <3>3
  <2>2. CASE h # a
    BY <2>2, <1>0
  <2>3. QED
    BY <2>1, <2>2
<1> HIDE DEF Off
<1>3. Apart(R)
  <2>1. SUFFICES ASSUME NEW g \in H, NEW h \in H,
                        NEW k \in 1..Len(R[g]), NEW l \in 1..Len(R[h]),
                        R[g][k] = R[h][l]
                 PROVE  g = h /\ k = l
    BY DEF Apart
  <2>2. g = h /\ k + Off(g) = l + Off(h)
    <3>1. /\ k + Off(g) \in 1..Len(Q[g]) /\ R[g][k] = Q[g][k + Off(g)]
          /\ l + Off(h) \in 1..Len(Q[h]) /\ R[h][l] = Q[h][l + Off(h)]
      BY <1>2
    <3>2. PICK m \in 1..Len(Q[g]) : m = k + Off(g)
      BY <3>1
    <3>3. PICK n \in 1..Len(Q[h]) : n = l + Off(h)
      BY <3>1
    <3>4. Q[g][m] = Q[h][n]
      BY <2>1, <3>1, <3>2, <3>3
    <3>5. QED
      BY <3>2, <3>3, <3>4 DEF Apart
  <2>3. k \in Int /\ l \in Int /\ Off(g) \in {0, 1} /\ Off(h) = Off(g)
    BY <2>2, <1>0, <1>1
  <2>4. QED
    BY <2>2, <2>3
<1>4. Together(Q, J) => Together(R, J)
  <2>1. SUFFICES ASSUME Together(Q, J), NEW h \in H, NEW k \in 1..Len(R[h]),
                        NEW i \in 1..Len(J), NEW j \in 1..Len(J),
                        i < j, J[i].generation = J[j].generation, J[j].waits,
                        J[i].slot = R[h][k]
                 PROVE  \E l \in (k + 1)..Len(R[h]) : R[h][l] = J[j].slot
    BY DEF Together
  <2>2. k + Off(h) \in 1..Len(Q[h]) /\ J[i].slot = Q[h][k + Off(h)]
    BY <2>1, <1>2
  <2>3. PICK l \in (k + Off(h) + 1)..Len(Q[h]) : Q[h][l] = J[j].slot
    BY <2>1, <2>2 DEF Together
  <2>4. l - Off(h) \in (k + 1)..Len(R[h]) /\ l - Off(h) \in 1..Len(R[h])
          /\ (l - Off(h)) + Off(h) = l
    <3>1. /\ Len(R[h]) = Len(Q[h]) - Off(h) /\ Off(h) \in {0, 1}
          /\ Len(Q[h]) \in Nat /\ k \in Nat /\ k >= 1 /\ l \in Nat
          /\ k + Off(h) + 1 <= l /\ l <= Len(Q[h])
      BY <1>0, <1>1, <2>3
    <3>2. QED
      BY <3>1
  <2>5. QED
    BY <2>3, <2>4, <1>2
<1>5. ASSUME NEW s PROVE Holds(R, s) <=> Holds(Q, s) /\ s # Head(Q[a])
  <2>0. 1 \in 1..Len(Q[a]) /\ Head(Q[a]) = Q[a][1]
    BY TailAt
  <2>1. ASSUME NEW h \in H, NEW k \in 1..Len(R[h]), R[h][k] = s
        PROVE  Holds(Q, s) /\ s # Head(Q[a])
    <3>1. k + Off(h) \in 1..Len(Q[h]) /\ Q[h][k + Off(h)] = s
      BY <2>1, <1>2
    <3>2. ~(h = a /\ k + Off(h) = 1)
      BY <1>1 DEF Off
    <3>3. s # Q[a][1]
      BY <3>1, <3>2, <2>0 DEF Apart
    <3>4. QED
      BY <3>1, <3>3, <2>0 DEF Holds, Contains
  <2>2. ASSUME NEW h \in H, NEW k \in 1..Len(Q[h]), Q[h][k] = s, s # Head(Q[a])
        PROVE  Holds(R, s)
    <3>1. h = a => k # 1
      BY <2>0, <2>2
    <3>2. k - Off(h) \in 1..Len(R[h]) /\ (k - Off(h)) + Off(h) = k
      BY <3>1, <1>0, <1>1 DEF Off
    <3>3. QED
      BY <3>2, <1>2, <2>2 DEF Holds, Contains
  <2>3. QED
    BY <2>1, <2>2 DEF Holds, Contains
<1>6. QED
  BY <1>3, <1>4, <1>5

\* A queue is dropped.
LEMMA Drop ==
  ASSUME NEW H, NEW Q, NEW R, NEW J \in Seq(Joins), NEW a,
         QueueDropped(H, Q, R, a)
  PROVE  /\ Apart(Q) => Apart(R)
         /\ Together(Q, J) => Together(R, J)
         /\ \A s : Holds(R, s) => Holds(Q, s)
         /\ \A s : Holds(Q, s) => Holds(R, s) \/ Contains(Q[a], s)
<1> USE DEF QueueDropped, Queued
<1>1. \A h \in H : \A k \in 1..Len(R[h]) : R[h] = Q[h]
  OBVIOUS
<1>2. Apart(Q) => Apart(R)
  BY <1>1 DEF Apart
<1>3. Together(Q, J) => Together(R, J)
  <2>1. SUFFICES ASSUME Together(Q, J), NEW h \in H, NEW k \in 1..Len(R[h]),
                        NEW i \in 1..Len(J), NEW j \in 1..Len(J),
                        i < j, J[i].generation = J[j].generation, J[j].waits,
                        J[i].slot = R[h][k]
                 PROVE  \E l \in (k + 1)..Len(R[h]) : R[h][l] = J[j].slot
    BY DEF Together
  <2>2. R[h] = Q[h]
    BY <1>1
  <2>3. QED
    BY <2>1, <2>2 DEF Together
<1>4. \A s : Holds(R, s) => Holds(Q, s)
  BY <1>1 DEF Holds, Contains
<1>5. \A s : Holds(Q, s) => Holds(R, s) \/ Contains(Q[a], s)
  BY DEF Holds, Contains
<1>6. QED
  BY <1>2, <1>3, <1>4, <1>5

\* What Append makes of a sequence, place by place.
LEMMA AppendAt ==
  ASSUME NEW S, NEW q \in Seq(S), NEW e \in S
  PROVE  /\ Append(q, e) \in Seq(S) /\ Len(q) \in Nat
         /\ Len(Append(q, e)) = Len(q) + 1
         /\ \A k \in 1..Len(q) : k \in 1..(Len(q) + 1) /\ Append(q, e)[k] = q[k]
         /\ Append(q, e)[Len(q) + 1] = e /\ Len(q) + 1 \in 1..(Len(q) + 1)
         /\ \A k \in 1..(Len(q) + 1) : k \in 1..Len(q) \/ k = Len(q) + 1
BY SMT

\* R is Q with s at the end of the queue at a.
Entered(H, Q, R, a, s) ==
  /\ \A h \in H : \A k \in 1..Len(R[h]) :
       \/ k \in 1..Len(Q[h]) /\ R[h][k] = Q[h][k]
       \/ h = a /\ k = Len(Q[a]) + 1 /\ R[h][k] = s
  /\ \A h \in H : \A k \in 1..Len(Q[h]) :
       k \in 1..Len(R[h]) /\ R[h][k] = Q[h][k]
  /\ Len(R[a]) = Len(Q[a]) + 1 /\ R[a][Len(R[a])] = s
       /\ Len(R[a]) \in 1..Len(R[a])

\* A slot that is put at the end of a queue is in it with the others.
LEMMA AppendEnters ==
  ASSUME NEW H, NEW Q \in [H -> Seq(Slots)], NEW R \in [H -> Seq(Slots)],
         NEW a \in H, NEW s \in Slots,
         R[a] = Append(Q[a], s), \A h \in H \ {a} : R[h] = Q[h]
  PROVE  Entered(H, Q, R, a, s)
<1>1. Q[a] \in Seq(Slots) /\ \A h \in H : Len(Q[h]) \in Nat
  BY LenProperties
<1>2. ASSUME NEW h \in H, NEW k \in 1..Len(R[h])
      PROVE  \/ k \in 1..Len(Q[h]) /\ R[h][k] = Q[h][k]
             \/ h = a /\ k = Len(Q[a]) + 1 /\ R[h][k] = s
  <2>1. CASE h = a
    <3>1. Len(R[a]) = Len(Q[a]) + 1
      BY <1>1, AppendAt
    <3>2. k \in 1..Len(Q[a]) \/ k = Len(Q[a]) + 1
      BY <2>1, <3>1, <1>1
    <3>3. QED
      BY <2>1, <3>2, <1>1, AppendAt
  <2>2. CASE h # a
    BY <2>2
  <2>3. QED
    BY <2>1, <2>2
<1>3. ASSUME NEW h \in H, NEW k \in 1..Len(Q[h])
      PROVE  k \in 1..Len(R[h]) /\ R[h][k] = Q[h][k]
  <2>1. CASE h = a
    BY <2>1, <1>1, AppendAt
  <2>2. CASE h # a
    BY <2>2
  <2>3. QED
    BY <2>1, <2>2
<1>4. Len(R[a]) = Len(Q[a]) + 1 /\ R[a][Len(R[a])] = s
        /\ Len(R[a]) \in 1..Len(R[a])
  BY <1>1, AppendAt
<1>5. QED
  BY <1>2, <1>3, <1>4 DEF Entered

\* A slot that was nowhere leaves the slots of all queues apart.
LEMMA EnterApart ==
  ASSUME NEW H, NEW Q \in [H -> Seq(Slots)], NEW R \in [H -> Seq(Slots)],
         NEW a \in H, NEW s, Entered(H, Q, R, a, s), ~Holds(Q, s), Apart(Q)
  PROVE  Apart(R)
<1>1. \A h \in H : \A k \in 1..Len(Q[h]) : Q[h][k] # s
  BY DEF Holds, Contains
<1>2. SUFFICES ASSUME NEW g \in H, NEW h \in H,
                      NEW k \in 1..Len(R[g]), NEW l \in 1..Len(R[h]),
                      R[g][k] = R[h][l]
               PROVE  g = h /\ k = l
  BY DEF Apart
<1>3. /\ \/ k \in 1..Len(Q[g]) /\ R[g][k] = Q[g][k]
         \/ g = a /\ k = Len(Q[a]) + 1 /\ R[g][k] = s
      /\ \/ l \in 1..Len(Q[h]) /\ R[h][l] = Q[h][l]
         \/ h = a /\ l = Len(Q[a]) + 1 /\ R[h][l] = s
  BY DEF Entered
<1>4. /\ k \in 1..Len(Q[g]) /\ R[g][k] = Q[g][k]
      /\ l \in 1..Len(Q[h]) /\ R[h][l] = Q[h][l]
      => g = h /\ k = l
  <2>1. Q[g][k] = Q[h][l] /\ k \in 1..Len(Q[g]) /\ l \in 1..Len(Q[h])
          => g = h /\ k = l
    BY DEF Apart
  <2>2. QED
    BY <1>2, <2>1
<1>5. QED
  BY <1>1, <1>2, <1>3, <1>4

\* And those that come before the same firing in one line.
LEMMA EnterTogether ==
  ASSUME NEW H, NEW Q \in [H -> Seq(Slots)], NEW R \in [H -> Seq(Slots)],
         NEW J \in Seq(Joins), NEW K \in Seq(Joins), NEW e \in Joins,
           NEW a \in H,
         Entered(H, Q, R, a, e.slot), Len(K) = Len(J) + 1, Len(J) \in Nat,
         \A j \in 1..(Len(J) + 1) : \/ j \in 1..Len(J) /\ K[j] = J[j]
                                    \/ j = Len(J) + 1 /\ K[j] = e,
         \A j \in 1..Len(J) : J[j].slot # e.slot,
         e.waits => \A h \in H \ {a} : \A k \in 1..Len(Q[h]), j \in 1..Len(J) :
                      J[j].slot = Q[h][k] => J[j].generation # e.generation,
         Together(Q, J)
  PROVE  Together(R, K)
<1>0. \A h \in H : Len(Q[h]) \in Nat /\ Len(R[h]) \in Nat
  BY LenProperties
<1>1. SUFFICES ASSUME NEW h \in H, NEW k \in 1..Len(R[h]),
                      NEW i \in 1..(Len(J) + 1), NEW j \in 1..(Len(J) + 1),
                      i < j, K[i].generation = K[j].generation, K[j].waits,
                      K[i].slot = R[h][k]
               PROVE  \E l \in (k + 1)..Len(R[h]) : R[h][l] = K[j].slot
  BY DEF Together
<1>2. i \in 1..Len(J) /\ K[i] = J[i]
  BY <1>1
<1>3. k \in 1..Len(Q[h]) /\ J[i].slot = Q[h][k]
  BY <1>1, <1>2 DEF Entered
<1>4. CASE j \in 1..Len(J) /\ K[j] = J[j]
  <2>0. J[i].generation = J[j].generation /\ J[j].waits
    BY <1>1, <1>2, <1>4
  <2>1. PICK l \in (k + 1)..Len(Q[h]) : Q[h][l] = J[j].slot
    BY <1>1, <1>2, <1>3, <1>4, <2>0 DEF Together
  <2>2. l \in 1..Len(Q[h]) /\ k \in Nat /\ l > k
    BY <1>0, <1>3, <2>1
  <2>3. l \in 1..Len(R[h]) /\ R[h][l] = Q[h][l]
    BY <2>2 DEF Entered
  <2>4. l \in (k + 1)..Len(R[h])
    BY <1>0, <2>2, <2>3
  <2>5. QED
    BY <1>4, <2>1, <2>3, <2>4
<1>5. CASE j = Len(J) + 1 /\ K[j] = e
  <2>1. e.waits /\ J[i].generation = e.generation
    BY <1>1, <1>2, <1>5
  <2>2. h = a
    BY <2>1, <1>2, <1>3
  <2>3. Len(R[h]) \in (k + 1)..Len(R[h]) /\ R[h][Len(R[h])] = e.slot
    BY <1>0, <1>3, <2>2 DEF Entered
  <2>4. QED
    BY <1>5, <2>3
<1>6. QED
  BY <1>4, <1>5

\* A new slot is connected and put at the end of a queue.
LEMMA Enter ==
  ASSUME NEW H, NEW Q, NEW R, NEW J \in Seq(Joins), NEW e \in Joins, NEW a,
         QueueJoined(H, Q, R, J, e, a)
  PROVE  /\ Apart(Q) => Apart(R)
         /\ Together(Q, J) => Together(R, Append(J, e))
         /\ \A s : Holds(R, s) <=> Holds(Q, s) \/ s = e.slot
<1>1. /\ Q \in [H -> Seq(Slots)] /\ R \in [H -> Seq(Slots)] /\ a \in H
      /\ e.slot \in Slots /\ R[a] = Append(Q[a], e.slot)
      /\ \A h \in H \ {a} : R[h] = Q[h]
  BY DEF QueueJoined, Queued
<1>2. Entered(H, Q, R, a, e.slot)
  BY <1>1, AppendEnters
<1>0. ~Holds(Q, e.slot)
  BY DEF QueueJoined
<1>3. Apart(Q) => Apart(R)
  BY <1>0, <1>1, <1>2, EnterApart
<1>4. Together(Q, J) => Together(R, Append(J, e))
  <2> DEFINE K == Append(J, e)
  <2>1. /\ K \in Seq(Joins) /\ Len(J) \in Nat /\ Len(K) = Len(J) + 1
        /\ \A j \in 1..(Len(J) + 1) : \/ j \in 1..Len(J) /\ K[j] = J[j]
                                      \/ j = Len(J) + 1 /\ K[j] = e
    BY AppendAt
  <2> HIDE DEF K
  <2>2. Together(Q, J) => Together(R, K)
    BY <1>1, <1>2, <2>1, EnterTogether DEF QueueJoined
  <2>3. QED
    BY <2>2 DEF K
<1> USE <1>1
<1>5. ASSUME NEW s PROVE Holds(R, s) <=> Holds(Q, s) \/ s = e.slot
  <2>1. Holds(R, s) => Holds(Q, s) \/ s = e.slot
    BY <1>2 DEF Entered, Holds, Contains
  <2>2. ASSUME NEW h \in H, NEW k \in 1..Len(Q[h]), Q[h][k] = s
        PROVE  Holds(R, s)
    <3>1. k \in 1..Len(R[h]) /\ R[h][k] = s
      BY <1>2, <2>2 DEF Entered
    <3>2. QED
      BY <3>1 DEF Holds, Contains
  <2>3. Holds(R, e.slot)
    BY <1>2 DEF Entered, Holds, Contains
  <2>4. QED
    BY <2>1, <2>2, <2>3 DEF Holds, Contains
<1>6. QED
  BY <1>3, <1>4, <1>5
-----------------------------------------------------------------------------
Waiting(t) ==
  IF thread[t].at = "in slot" THEN Tail(thread[t].slots) ELSE thread[t].slots

(* The places where slots wait to be called.                                *)
OfState == <<"state", None>>
OfThread(t) == <<"thread", t>>
OfInvocation(t) == <<"invocation", t>>
OfDeferred(s) == <<"deferred", s>>

Holders == {OfState} \cup {OfThread(t) : t \in Threads}
             \cup {OfInvocation(t) : t \in Threads}
             \cup {OfDeferred(s) : s \in Slots}

Queue(h) ==
  CASE h[1] = "state" -> state.slots
    [] h[1] = "thread" -> Waiting(h[2])
    [] h[1] = "invocation" -> IF invocation[h[2]] = None THEN << >>
                              ELSE invocation[h[2]].slots
    [] h[1] = "deferred" -> IF connection[h[2]] = "deferred" THEN <<h[2]>>
                            ELSE << >>

Queues == [h \in Holders |-> Queue(h)]

Signals == [which : {0, 1}, slots : Seq(Slots), args : Args \cup {None}]

Runners == [at : {"idle", "calling", "in slot"}, slots : Seq(Slots),
            args : Args \cup {None}]

Calls == [slot : Slots, args : Args \cup {None}, direct : BOOLEAN]

\* *state_ holds the slots or the arguments.
SignalOK ==
  /\ state \in Signals
  /\ state.which = 1 => state.slots = << >> /\ state.args \in Args
  /\ state.which = 0 => state.args = None

ThreadsOK ==
  /\ thread \in [Threads -> Runners]
  /\ \A t \in Threads : /\ thread[t].at = "idle" => thread[t] = Idle
                        /\ thread[t].at = "in slot" => thread[t].slots # << >>

TypeOK ==
  /\ SignalOK
  /\ mutex \in Threads \cup {None}
  /\ ThreadsOK
  /\ invocation \in [Threads -> [slots : Seq(Slots), args : Args] \cup {None}]
  /\ connection \in [Slots -> {"new", "connected", "deferred", "none",
                               "disconnected"}]
  /\ deferred \in [Slots -> Args \cup {None}]
  /\ generation \in 0..MaxResets
  /\ joined \in Seq(Joins)
  /\ fired \in [0..MaxResets -> Args \cup {None}]
  /\ calls \in Seq(Calls)

\* What each generation fired with is kept, and what *state_ holds is the last.
Firing ==
  /\ fired[generation] = state.args
  /\ \A g \in 0..MaxResets : g > generation => fired[g] = None

\* mutex_ is held by whoever calls slots from operator() or Connect.
MutexHeld ==
  /\ \A t \in Threads : mutex = t <=> thread[t].at # "idle" /\ Direct(t)
  /\ mutex # None => IsLatched

\* Each slot is connected once, and waits unless the signal had fired.
Joining ==
  /\ \A i, j \in 1..Len(joined) : joined[i].slot = joined[j].slot => i = j
  /\ \A s \in Slots : connection[s] # "new" <=>
                        \E j \in 1..Len(joined) : joined[j].slot = s
  /\ \A j \in 1..Len(joined) :
       /\ joined[j].generation <= generation
       /\ joined[j].generation = generation /\ ~IsLatched => joined[j].waits

\* A slot that waits has not been called, and waits in one place.
Fresh ==
  \A s \in Slots : /\ Holds(Queues, s) => connection[s] # "new" /\ ~WasCalled(s)
                   /\ WasCalled(s) => connection[s] # "new"

Lines == Apart(Queues) /\ Together(Queues, joined)

\* A slot that is connected waits until it has been called.
Covered ==
  \A s \in Slots : connection[s] \in {"connected", "deferred", "none"} =>
                     Holds(Queues, s) \/ WasCalled(s)

\* A slot that waits is to be called with what its generation fired with.
StateBelongs ==
  \A j \in 1..Len(joined), k \in 1..Len(state.slots) :
    joined[j].slot = state.slots[k] =>
      joined[j].generation = generation /\ ~IsLatched

ThreadBelongs(t) ==
  \A j \in 1..Len(joined), k \in 1..Len(Waiting(t)) :
    joined[j].slot = Waiting(t)[k] =>
      IF Direct(t) THEN joined[j].generation = generation
      ELSE fired[joined[j].generation] = thread[t].args

InvocationBelongs(t) ==
  invocation[t] # None =>
    \A j \in 1..Len(joined), k \in 1..Len(invocation[t].slots) :
      joined[j].slot = invocation[t].slots[k] =>
        fired[joined[j].generation] = invocation[t].args

DeferredBelongs ==
  \A j \in 1..Len(joined) :
    connection[joined[j].slot] = "deferred" =>
      /\ deferred[joined[j].slot] \in Args
      /\ fired[joined[j].generation] = deferred[joined[j].slot]

Belong ==
  /\ StateBelongs
  /\ \A t \in Threads : ThreadBelongs(t) /\ InvocationBelongs(t)
  /\ DeferredBelongs

\* No slot is connected behind one that is about to be called under mutex_.
DirectAreLast(t) ==
  Direct(t) =>
    \A k \in 1..Len(Waiting(t)) : \A i, j \in 1..Len(joined) :
      /\ joined[i].slot = Waiting(t)[k] /\ i < j
      /\ joined[i].generation = joined[j].generation
      => joined[j].waits

DirectLast == \A t \in Threads : DirectAreLast(t)

SInv ==
  /\ TypeOK /\ Firing /\ MutexHeld /\ Joining
  /\ Lines /\ Fresh /\ Covered
  /\ Belong /\ DirectLast
-----------------------------------------------------------------------------
\* The places are different ones.
LEMMA Places ==
  /\ OfState \in Holders
  /\ \A t \in Threads : /\ OfThread(t) \in Holders
                        /\ OfInvocation(t) \in Holders
                        /\ OfThread(t) # OfState /\ OfInvocation(t) # OfState
  /\ \A t, u \in Threads : /\ OfThread(t) # OfInvocation(u)
                           /\ OfThread(t) = OfThread(u) => t = u
                           /\ OfInvocation(t) = OfInvocation(u) => t = u
  /\ \A s \in Slots : /\ OfDeferred(s) \in Holders /\ OfDeferred(s) # OfState
                      /\ \A t \in Threads : /\ OfDeferred(s) # OfThread(t)
                                            /\ OfDeferred(s) # OfInvocation(t)
                      /\ \A r \in Slots : OfDeferred(s) = OfDeferred(r) => s = r
  /\ \A h \in Holders : \/ h = OfState
                        \/ \E t \in Threads : h = OfThread(t)
                        \/ \E t \in Threads : h = OfInvocation(t)
                        \/ \E s \in Slots : h = OfDeferred(s)
BY DEF Holders, OfState, OfThread, OfInvocation, OfDeferred

\* What waits in each of them.
Read ==
  /\ DOMAIN Queues = Holders
  /\ Queues[OfState] = state.slots
  /\ \A t \in Threads :
       /\ Queues[OfThread(t)] = Waiting(t)
       /\ Queues[OfInvocation(t)] = IF invocation[t] = None THEN << >>
                                    ELSE invocation[t].slots
  /\ \A s \in Slots :
       Queues[OfDeferred(s)] = IF connection[s] = "deferred" THEN <<s>>
                               ELSE << >>

\* A queue is what its place holds.
LEMMA ReadNow == Read
BY Places DEF Read, Queues, Queue, OfState, OfThread, OfInvocation, OfDeferred

\* The queues are sequences of slots.
LEMMA QueuesAreSequences == TypeOK => Queues \in [Holders -> Seq(Slots)]
<1> SUFFICES ASSUME TypeOK PROVE Queues \in [Holders -> Seq(Slots)]
  OBVIOUS
<1>1. state.slots \in Seq(Slots)
  BY DEF TypeOK, SignalOK, Signals
<1>2. ASSUME NEW t \in Threads PROVE Waiting(t) \in Seq(Slots)
  <2>1. thread[t].slots \in Seq(Slots)
          /\ (thread[t].at = "in slot" => thread[t].slots # << >>)
    BY DEF TypeOK, ThreadsOK, Runners
  <2>2. QED
    BY <2>1, TailAt DEF Waiting
<1>3. ASSUME NEW t \in Threads
      PROVE  (IF invocation[t] = None THEN << >> ELSE invocation[t].slots)
               \in Seq(Slots)
  <2>1. << >> \in Seq(Slots)
    OBVIOUS
  <2>2. invocation[t] # None => invocation[t].slots \in Seq(Slots)
    BY DEF TypeOK
  <2>3. QED
    BY <2>1, <2>2
<1>4. \A s \in Slots : <<s>> \in Seq(Slots) /\ << >> \in Seq(Slots)
  OBVIOUS
<1>5. ASSUME NEW h \in Holders PROVE Queues[h] \in Seq(Slots)
  <2>1. CASE h = OfState
    BY <2>1, <1>1, ReadNow DEF Read
  <2>2. ASSUME NEW t \in Threads, h = OfThread(t)
        PROVE  Queues[h] \in Seq(Slots)
    BY <2>2, <1>2, ReadNow DEF Read
  <2>3. ASSUME NEW t \in Threads, h = OfInvocation(t)
        PROVE  Queues[h] \in Seq(Slots)
    BY <2>3, <1>3, ReadNow DEF Read
  <2>4. ASSUME NEW s \in Slots, h = OfDeferred(s)
        PROVE  Queues[h] \in Seq(Slots)
    BY <2>4, <1>4, ReadNow DEF Read
  <2>5. QED
    BY <2>1, <2>2, <2>3, <2>4, Places
<1>6. QED
  BY <1>5 DEF Queues

\* The queues at the places that a step does not touch.
LEMMA Untouched ==
  ASSUME NEW C \in SUBSET Holders,
         OfState \in C \/ state'.slots = state.slots,
         \A t \in Threads : OfThread(t) \in C \/ Waiting(t)' = Waiting(t),
         \A t \in Threads : OfInvocation(t) \in C
                              \/ invocation'[t] = invocation[t],
         \A s \in Slots : OfDeferred(s) \in C
                            \/ (connection'[s] = "deferred"
                                  <=> connection[s] = "deferred")
  PROVE  \A h \in Holders \ C : Queues'[h] = Queues[h]
<1>1. Read /\ Read'
  BY ReadNow, PTL
<1>2. SUFFICES ASSUME NEW h \in Holders \ C PROVE Queues'[h] = Queues[h]
  OBVIOUS
<1>3. CASE h = OfState
  BY <1>1, <1>2, <1>3 DEF Read
<1>4. ASSUME NEW t \in Threads, h = OfThread(t)
      PROVE  Queues'[h] = Queues[h]
  BY <1>1, <1>2, <1>4 DEF Read
<1>5. ASSUME NEW t \in Threads, h = OfInvocation(t)
      PROVE  Queues'[h] = Queues[h]
  BY <1>1, <1>2, <1>5 DEF Read
<1>6. ASSUME NEW s \in Slots, h = OfDeferred(s)
      PROVE  Queues'[h] = Queues[h]
  BY <1>1, <1>2, <1>6 DEF Read
<1>7. QED
  BY <1>2, <1>3, <1>4, <1>5, <1>6, Places
-----------------------------------------------------------------------------
\* A signal that has fired, one that has not, and what a thread calls.
LEMMA Values ==
  /\ Unlatched \in Signals
  /\ Unlatched.which = 0 /\ Unlatched.args = None /\ Unlatched.slots = << >>
  /\ \A v \in Args :
       /\ Latched(v) \in Signals
       /\ Latched(v).which = 1 /\ Latched(v).args = v
       /\ Latched(v).slots = << >>
  /\ Idle \in Runners
  /\ Idle.at = "idle" /\ Idle.slots = << >> /\ Idle.args = None
  /\ \A q \in Seq(Slots), v \in Args \cup {None} :
       /\ Calling(q, v) \in Runners
       /\ Calling(q, v).at = "calling" /\ Calling(q, v).slots = q
       /\ Calling(q, v).args = v
BY DEF Idle, Unlatched, Latched, Calling, Signals, Runners

\* The argument tuples are not None.
LEMMA ArgsAreNotNone == \A v \in Args : v # None
BY LatchingSignalAssumption

\* Every variable has its type at first.
LEMMA TypesInitially == Init => TypeOK
<1> SUFFICES ASSUME Init PROVE TypeOK
  OBVIOUS
<1>1. SignalOK
  BY Values DEF Init, SignalOK
<1>2. ThreadsOK
  BY Values DEF Init, ThreadsOK
<1>3. generation \in 0..MaxResets /\ MaxResets \in Nat
  BY LatchingSignalAssumption DEF Init
<1>4. state.args \in Args \cup {None}
  BY Values DEF Init
<1>5. fired \in [0..MaxResets -> Args \cup {None}]
  BY <1>4 DEF Init
<1>6. QED
  BY <1>1, <1>2, <1>3, <1>5 DEF Init, TypeOK

\* A thread that is given a Runner keeps ThreadsOK.
LEMMA ThreadSet ==
  ASSUME ThreadsOK, NEW t \in Threads, NEW r \in Runners,
         r.at = "idle" => r = Idle, r.at = "in slot" => r.slots # << >>,
         thread' = [thread EXCEPT ![t] = r]
  PROVE  ThreadsOK'
BY DEF ThreadsOK

\* A call of slots is set up.
LEMMA CallingSet ==
  ASSUME ThreadsOK, NEW t \in Threads, NEW q \in Seq(Slots),
         NEW v \in Args \cup {None}, thread' =
           [thread EXCEPT ![t] = Calling(q, v)]
  PROVE  ThreadsOK'
BY ThreadSet, Values

\* A slot that is connected is recorded with its type.
LEMMA JoinTypes ==
  ASSUME TypeOK, NEW s \in Slots, Join(s)
  PROVE  joined' \in Seq(Joins)
<1>1. [slot |-> s, generation |-> generation, waits |-> ~IsLatched] \in Joins
  BY DEF Joins, TypeOK, IsLatched
<1>2. QED
  BY <1>1 DEF TypeOK, Join

\* Firing keeps the types of *state_ and of the arguments that are recorded.
LEMMA FireTypes ==
  ASSUME TypeOK, NEW v \in Args, Fire(v)
  PROVE  SignalOK' /\ fired' \in [0..MaxResets -> Args \cup {None}]
BY Values DEF TypeOK, Fire, SignalOK

\* Every operation keeps the types.
LEMMA TypesKept == TypeOK /\ [Next]_vars => TypeOK'
<1> SUFFICES ASSUME TypeOK, [Next]_vars PROVE TypeOK'
  OBVIOUS
<1>1. ASSUME NEW t \in Threads, NEW s \in Slots, ConnectUnlatched(t, s)
      PROVE  TypeOK'
  <2>1. joined' \in Seq(Joins)
    BY <1>1, JoinTypes DEF ConnectUnlatched
  <2>2. state \in Signals /\ state.which = 0 /\ state.args = None
    BY <1>1 DEF ConnectUnlatched, TypeOK, IsLatched, SignalOK, Signals
  <2> DEFINE q == Append(state.slots, s)
  <2>3. q \in Seq(Slots) /\ state' = [state EXCEPT !.slots = q]
    BY <1>1, <2>2 DEF Signals, ConnectUnlatched, AtBack
  <2> HIDE DEF q
  <2>4. SignalOK'
    BY <2>2, <2>3 DEF SignalOK, Signals
  <2>5. connection' \in [Slots -> {"new", "connected", "deferred", "none",
                                   "disconnected"}]
    BY <1>1 DEF ConnectUnlatched, TypeOK
  <2>6. QED
    BY <1>1, <2>1, <2>4, <2>5 DEF ConnectUnlatched, TypeOK, ThreadsOK
<1>2. ASSUME NEW t \in Threads, NEW s \in Slots, ConnectLatched(t, s)
      PROVE  TypeOK'
  <2>1. joined' \in Seq(Joins) /\ <<s>> \in Seq(Slots)
    BY <1>2, JoinTypes DEF ConnectLatched
  <2>2. ThreadsOK'
    BY <1>2, <2>1, CallingSet DEF ConnectLatched, TypeOK
  <2>3. QED
    BY <1>2, <2>1, <2>2 DEF ConnectLatched, TypeOK, KeepsMutex, SignalOK
<1>3. ASSUME NEW t \in Threads, NEW s \in Slots, ConnectDeferredLatched(t, s)
      PROVE  TypeOK'
  <2>1. joined' \in Seq(Joins)
    BY <1>3, JoinTypes DEF ConnectDeferredLatched
  <2>2. state.args \in Args \cup {None}
    BY DEF TypeOK, SignalOK, Signals
  <2>3. QED
    BY <1>3, <2>1, <2>2
       DEF ConnectDeferredLatched, TypeOK, SignalOK, ThreadsOK
<1>4. ASSUME NEW t \in Threads, NEW s \in Slots, RunDeferredConnection(t, s)
      PROVE  TypeOK'
  <2>1. <<s>> \in Seq(Slots) /\ deferred[s] \in Args \cup {None}
    BY DEF TypeOK
  <2>2. ThreadsOK'
    BY <1>4, <2>1, CallingSet DEF RunDeferredConnection, TypeOK
  <2>3. QED
    BY <1>4, <2>2 DEF RunDeferredConnection, TypeOK, RunsUnlocked, SignalOK
<1>5. ASSUME NEW t \in Threads, NEW s \in Slots, Disconnect(t, s)
      PROVE  TypeOK'
  BY <1>5 DEF Disconnect, TypeOK, SignalOK, ThreadsOK
<1>6. ASSUME NEW t \in Threads, NEW v \in Args, Call(t, v)
      PROVE  TypeOK'
  <2>1. state.slots \in Seq(Slots)
    BY DEF TypeOK, SignalOK, Signals
  <2>2. ThreadsOK'
    BY <1>6, <2>1, CallingSet DEF Call, TypeOK, Moved
  <2>3. SignalOK' /\ fired' \in [0..MaxResets -> Args \cup {None}]
    BY <1>6, FireTypes DEF Call
  <2>4. QED
    BY <1>6, <2>2, <2>3 DEF Call, TypeOK, KeepsMutex
<1>7. ASSUME NEW t \in Threads, NEW v \in Args, InvokeDeferred(t, v)
      PROVE  TypeOK'
  <2>1. state.slots \in Seq(Slots)
    BY DEF TypeOK, SignalOK, Signals
  <2>2. [slots |-> state.slots, args |-> v] \in [slots : Seq(Slots),
          args : Args]
    BY <2>1
  <2>3. invocation' \in [Threads -> [slots : Seq(Slots), args : Args]
                                      \cup {None}]
    BY <1>7, <2>2 DEF InvokeDeferred, TypeOK, Moved
  <2>4. SignalOK' /\ fired' \in [0..MaxResets -> Args \cup {None}]
    BY <1>7, FireTypes DEF InvokeDeferred
  <2>5. QED
    BY <1>7, <2>3, <2>4 DEF InvokeDeferred, TypeOK, ThreadsOK
<1>8. ASSUME NEW t \in Threads, Reset(t) PROVE TypeOK'
  <2>1. connection' \in [Slots -> {"new", "connected", "deferred", "none",
                                   "disconnected"}]
    BY <1>8 DEF Reset, TypeOK
  <2>2. generation' \in 0..MaxResets
    BY <1>8, LatchingSignalAssumption DEF Reset, TypeOK
  <2>3. SignalOK'
    BY <1>8, Values DEF Reset, SignalOK
  <2>4. QED
    BY <1>8, <2>1, <2>2, <2>3 DEF Reset, TypeOK, ThreadsOK
<1>9. ASSUME NEW t \in Threads, RunInvocation(t) PROVE TypeOK'
  <2>1. invocation[t].slots \in Seq(Slots) /\ invocation[t].args \in Args
    BY <1>9 DEF RunInvocation, TypeOK
  <2>2. ThreadsOK'
    BY <1>9, <2>1, CallingSet DEF RunInvocation, TypeOK
  <2>3. QED
    BY <1>9, <2>2 DEF RunInvocation, TypeOK, RunsUnlocked, SignalOK
<1>10. ASSUME NEW t \in Threads, NextSlot(t) PROVE TypeOK'
  <2>1. thread[t] \in Runners /\ thread[t].slots \in Seq(Slots)
          /\ thread[t].slots # << >>
    BY <1>10 DEF NextSlot, TypeOK, ThreadsOK, Runners
  <2>2. Head(thread[t].slots) \in Slots /\ Tail(thread[t].slots) \in Seq(Slots)
    BY <2>1, TailAt
  <2>3. CASE connection[Head(thread[t].slots)] = "disconnected"
    <3> DEFINE r == [thread[t] EXCEPT !.slots = Tail(@)]
    <3>1. r \in Runners /\ r.at = "calling"
      BY <1>10, <2>1, <2>2 DEF Runners, NextSlot
    <3>2. thread' = [thread EXCEPT ![t] = r]
      BY <1>10, <2>3 DEF NextSlot
    <3>3. ThreadsOK'
      BY <3>1, <3>2, ThreadSet DEF TypeOK
    <3>4. QED
      BY <1>10, <2>3, <3>3 DEF NextSlot, TypeOK, SignalOK
  <2>4. CASE connection[Head(thread[t].slots)] # "disconnected"
    <3> DEFINE r == [thread[t] EXCEPT !.at = "in slot"]
               e == [slot |-> Head(thread[t].slots), args |-> ArgsPassed(t),
                     direct |-> Direct(t)]
    <3>1. r \in Runners /\ r.at = "in slot" /\ r.slots # << >>
      BY <2>1 DEF Runners
    <3>2. thread' = [thread EXCEPT ![t] = r] /\ calls' = Append(calls, e)
      BY <1>10, <2>4 DEF NextSlot
    <3>3. ThreadsOK'
      BY <3>1, <3>2, ThreadSet DEF TypeOK
    <3>4. ArgsPassed(t) \in Args \cup {None} /\ Direct(t) \in BOOLEAN
      BY <2>1 DEF ArgsPassed, TypeOK, Direct, SignalOK, Signals, Runners
    <3>5. e \in Calls
      BY <2>2, <3>4 DEF Calls
    <3> HIDE DEF e
    <3>6. calls' \in Seq(Calls)
      <4>1. calls \in Seq(Calls)
        BY DEF TypeOK
      <4>2. QED
        BY <3>2, <3>5, <4>1, AppendAt
    <3>7. QED
      BY <1>10, <3>3, <3>6 DEF NextSlot, TypeOK, SignalOK
  <2>5. QED
    BY <2>3, <2>4
<1>11. ASSUME NEW t \in Threads, ReturnFromSlot(t) PROVE TypeOK'
  <2>1. thread[t].slots \in Seq(Slots) /\ thread[t].slots # << >>
          /\ thread[t].args \in Args \cup {None}
    BY <1>11 DEF ReturnFromSlot, TypeOK, ThreadsOK, Runners
  <2>2. Tail(thread[t].slots) \in Seq(Slots)
    BY <2>1, TailAt
  <2>3. thread' = [thread EXCEPT
                     ![t] = Calling(Tail(thread[t].slots), thread[t].args)]
    BY <1>11 DEF ReturnFromSlot
  <2>4. ThreadsOK'
    BY <2>1, <2>2, <2>3, CallingSet DEF TypeOK
  <2>5. QED
    BY <1>11, <2>4 DEF ReturnFromSlot, TypeOK, SignalOK
<1>12. ASSUME NEW t \in Threads, EndOfCalls(t) PROVE TypeOK'
  <2>1. ThreadsOK'
    BY <1>12, Values, ThreadSet DEF EndOfCalls, TypeOK
  <2>2. QED
    BY <1>12, <2>1 DEF EndOfCalls, TypeOK, Unlock, SignalOK
<1>13. CASE UNCHANGED vars
  BY <1>13 DEF vars, TypeOK, SignalOK, ThreadsOK
<1>14. QED
  BY <1>1, <1>2, <1>3, <1>4, <1>5, <1>6, <1>7, <1>8, <1>9, <1>10, <1>11,
     <1>12, <1>13 DEF Next, Runs
-----------------------------------------------------------------------------
Waits == Lines /\ Fresh /\ Covered

\* Whether slots are joined and waiting is a matter of these values.
LEMMA LinesOf ==
  ASSUME NEW R, R = Queues', NEW K, K = joined', Apart(R), Together(R, K)
  PROVE  Lines'
<1>1. Apart(Queues)'
  BY DEF Apart
<1>2. Together(Queues, joined)'
  BY DEF Together
<1>3. QED
  BY <1>1, <1>2 DEF Lines

\* The same for the question whether a slot waits.
LEMMA HoldsPrimed ==
  ASSUME NEW R, R = Queues'
  PROVE  \A s : Holds(Queues, s)' <=> Holds(R, s)
BY DEF Holds, Contains

\* A step that connects a slot puts it at the end of one queue.
LEMMA JoinWaits ==
  ASSUME TypeOK, TypeOK', Joining, Waits, NEW s \in Slots, NEW a \in Holders,
         Queues'[a] = Append(Queues[a], s),
         \A h \in Holders \ {a} : Queues'[h] = Queues[h],
         connection[s] = "new", connection'[s] # "new",
         \A r \in Slots \ {s} : connection'[r] = connection[r],
         Join(s), UNCHANGED calls,
         ~IsLatched =>
           \A h \in Holders \ {a} :
             \A k \in 1..Len(Queues[h]), j \in 1..Len(joined) :
               joined[j].slot = Queues[h][k] =>
                 joined[j].generation # generation
  PROVE  Waits'
<1>1. PICK Q : Q = Queues
  OBVIOUS
<1>2. PICK R : R = Queues'
  OBVIOUS
<1>3. PICK J : J = joined
  OBVIOUS
<1>4. PICK e : e = [slot |-> s, generation |-> generation, waits |-> ~IsLatched]
  OBVIOUS
<1>5. /\ Q \in [Holders -> Seq(Slots)] /\ J \in Seq(Joins) /\ e \in Joins
      /\ e.slot = s /\ e.generation = generation /\ e.waits = ~IsLatched
  BY <1>1, <1>3, <1>4, QueuesAreSequences DEF TypeOK, Joins, IsLatched
<1>6. R \in [Holders -> Seq(Slots)]
  <2>1. (TypeOK => Queues \in [Holders -> Seq(Slots)])'
    BY QueuesAreSequences, PTL
  <2>2. Holders' = Holders
    BY DEF Holders, OfState, OfThread, OfInvocation, OfDeferred
  <2>3. QED
    BY <1>2, <2>1, <2>2
<1>7. ~Holds(Q, e.slot)
  BY <1>1, <1>5 DEF Waits, Fresh
<1>8. \A j \in 1..Len(J) : J[j].slot # e.slot
  BY <1>3, <1>5 DEF Joining
<1>9. joined' = Append(J, e)
  BY <1>3, <1>4 DEF Join
<1>10. R[a] = Append(Q[a], e.slot) /\ \A h \in Holders \ {a} : R[h] = Q[h]
  BY <1>1, <1>2, <1>5
<1>11. e.waits => \A h \in Holders \ {a} :
                    \A k \in 1..Len(Q[h]), j \in 1..Len(J) :
                      J[j].slot = Q[h][k] => J[j].generation # e.generation
  BY <1>1, <1>3, <1>5
<1>20. QueueJoined(Holders, Q, R, J, e, a)
  BY <1>5, <1>6, <1>7, <1>8, <1>10, <1>11 DEF QueueJoined, Queued
<1>12. /\ Apart(Q) => Apart(R)
       /\ Together(Q, J) => Together(R, Append(J, e))
       /\ \A r : Holds(R, r) <=> Holds(Q, r) \/ r = e.slot
  BY <1>5, <1>20, Enter
<1>13. Lines'
  BY <1>1, <1>2, <1>3, <1>9, <1>12, LinesOf DEF Waits, Lines
<1>14. \A r \in Slots : WasCalled(r)' <=> WasCalled(r)
  BY DEF WasCalled
<1>15. \A r \in Slots : Holds(Queues, r)' <=> Holds(Queues, r) \/ r = s
  BY <1>1, <1>2, <1>5, <1>12, HoldsPrimed
<1>16. ~WasCalled(s)
  BY DEF Waits, Fresh
<1>17. Fresh'
  BY <1>14, <1>15, <1>16 DEF Waits, Fresh
<1>18. Covered'
  BY <1>14, <1>15 DEF Waits, Covered
<1>19. QED
  BY <1>13, <1>17, <1>18 DEF Waits

\* The queues have their types after a step that keeps the types.
LEMMA QueuesPrimed ==
  ASSUME TypeOK'
  PROVE  Queues' \in Queued(Holders)
<1>1. (TypeOK => Queues \in [Holders -> Seq(Slots)])'
  BY QueuesAreSequences, PTL
<1>2. Holders' = Holders
  BY DEF Holders, OfState, OfThread, OfInvocation, OfDeferred
<1>3. QED
  BY <1>1, <1>2 DEF Queued

\* A step that moves a queue keeps what waits.
LEMMA MoveWaits ==
  ASSUME TypeOK, TypeOK', Waits, NEW a \in Holders, NEW b \in Holders, a # b,
         Queues[b] = << >>, Queues'[b] = Queues[a], Queues'[a] = << >>,
         \A h \in Holders \ {a, b} : Queues'[h] = Queues[h],
         UNCHANGED <<joined, calls>>,
         \A r \in Slots :
           /\ connection'[r] = "new" <=> connection[r] = "new"
           /\ connection'[r] \in {"connected", "deferred", "none"} =>
                connection[r] \in {"connected", "deferred", "none"}
  PROVE  Waits'
<1>1. PICK Q : Q = Queues
  OBVIOUS
<1>2. PICK R : R = Queues'
  OBVIOUS
<1>3. PICK J : J = joined
  OBVIOUS
<1>4. Q \in Queued(Holders) /\ R \in Queued(Holders) /\ J \in Seq(Joins)
  BY <1>1, <1>2, <1>3, QueuesAreSequences, QueuesPrimed DEF TypeOK, Queued
<1>5. QueueMoved(Holders, Q, R, a, b)
  BY <1>1, <1>2, <1>4 DEF QueueMoved
<1>6. /\ Apart(Q) => Apart(R)
      /\ Together(Q, J) => Together(R, J)
      /\ \A s : Holds(R, s) <=> Holds(Q, s)
  BY <1>4, <1>5, Move
<1>7. Lines'
  BY <1>1, <1>2, <1>3, <1>6, LinesOf DEF Waits, Lines
<1>8. \A r \in Slots : WasCalled(r)' <=> WasCalled(r)
  BY DEF WasCalled
<1>9. \A r \in Slots : Holds(Queues, r)' <=> Holds(Queues, r)
  BY <1>1, <1>2, <1>6, HoldsPrimed
<1>10. Fresh'
  BY <1>8, <1>9 DEF Waits, Fresh
<1>11. Covered'
  BY <1>8, <1>9 DEF Waits, Covered
<1>12. QED
  BY <1>7, <1>10, <1>11 DEF Waits

\* A step that changes no queue does.
LEMMA SameWaits ==
  ASSUME TypeOK, TypeOK', Waits,
         \A h \in Holders : Queues'[h] = Queues[h],
         UNCHANGED <<joined, calls>>,
         \A r \in Slots :
           /\ connection'[r] = "new" <=> connection[r] = "new"
           /\ connection'[r] \in {"connected", "deferred", "none"} =>
                connection[r] \in {"connected", "deferred", "none"}
  PROVE  Waits'
<1>1. Queues' = Queues
  <2>1. Queues \in Queued(Holders) /\ Queues' \in Queued(Holders)
    BY QueuesAreSequences, QueuesPrimed DEF Queued
  <2>2. QED
    BY <2>1 DEF Queued
<1>2. Lines'
  BY <1>1 DEF Waits, Lines, Apart, Together
<1>3. \A r \in Slots : WasCalled(r)' <=> WasCalled(r)
  BY DEF WasCalled
<1>4. \A r \in Slots : Holds(Queues, r)' <=> Holds(Queues, r)
  BY <1>1 DEF Holds, Contains
<1>5. Fresh'
  BY <1>3, <1>4 DEF Waits, Fresh
<1>6. Covered'
  BY <1>3, <1>4 DEF Waits, Covered
<1>7. QED
  BY <1>2, <1>5, <1>6 DEF Waits

\* A step that takes the first slot of a queue, to call it or because its
\* connection is gone, does.
LEMMA TakeWaits ==
  ASSUME TypeOK, TypeOK', Waits, NEW a \in Holders, Queues[a] # << >>,
         Queues'[a] = Tail(Queues[a]),
         \A h \in Holders \ {a} : Queues'[h] = Queues[h],
         UNCHANGED <<joined, connection>>,
         \/ UNCHANGED calls /\ connection[Head(Queues[a])] = "disconnected"
         \/ \E e \in Calls : e.slot = Head(Queues[a])
              /\ calls' = Append(calls, e)
  PROVE  Waits'
<1>1. PICK Q : Q = Queues
  OBVIOUS
<1>2. PICK R : R = Queues'
  OBVIOUS
<1>3. PICK J : J = joined
  OBVIOUS
<1>4. Q \in Queued(Holders) /\ R \in Queued(Holders) /\ J \in Seq(Joins)
  BY <1>1, <1>2, <1>3, QueuesAreSequences, QueuesPrimed DEF TypeOK, Queued
<1>5. QueueTaken(Holders, Q, R, a)
  BY <1>1, <1>2, <1>4 DEF QueueTaken
<1>6. /\ Apart(R)
      /\ Together(Q, J) => Together(R, J)
      /\ \A s : Holds(R, s) <=> Holds(Q, s) /\ s # Head(Q[a])
  <2>1. Apart(Q)
    BY <1>1 DEF Waits, Lines
  <2>2. QED
    BY <1>4, <1>5, <2>1, Take
<1>7. Lines'
  BY <1>1, <1>2, <1>3, <1>6, LinesOf DEF Waits, Lines
<1>8. PICK s : s = Head(Q[a])
  OBVIOUS
<1>9. Holds(Q, s) /\ s \in Slots /\ s = Head(Queues[a])
  <2>1. Q[a] \in Seq(Slots) /\ Q[a] # << >>
    BY <1>4, <1>5 DEF QueueTaken, Queued
  <2>2. Head(Q[a]) = Q[a][1] /\ Head(Q[a]) \in Slots /\ 1 \in 1..Len(Q[a])
    BY <2>1, TailAt
  <2>3. DOMAIN Q = Holders
    BY <1>4 DEF Queued
  <2>4. QED
    BY <1>1, <1>8, <2>2, <2>3 DEF Holds, Contains
<1>10. \A r \in Slots : Holds(Queues, r)' <=> Holds(Queues, r) /\ r # s
  BY <1>1, <1>2, <1>6, <1>8, HoldsPrimed
<1>11. CASE UNCHANGED calls /\ connection[s] = "disconnected"
  <2>1. \A r \in Slots : WasCalled(r)' <=> WasCalled(r)
    BY <1>11 DEF WasCalled
  <2>2. Fresh'
    BY <1>10, <2>1 DEF Waits, Fresh
  <2>3. Covered'
    BY <1>10, <1>11, <2>1 DEF Waits, Covered
  <2>4. QED
    BY <1>7, <2>2, <2>3 DEF Waits
<1>12. ASSUME NEW e \in Calls, e.slot = s, calls' = Append(calls, e)
       PROVE  Waits'
  <2>1. \A r \in Slots : WasCalled(r)' <=> WasCalled(r) \/ r = s
    <3>1. PICK c : c = calls
      OBVIOUS
    <3>2. c \in Seq(Calls)
      BY <3>1 DEF TypeOK
    <3>3. PICK d : d = Append(c, e)
      OBVIOUS
    <3>4. /\ Len(c) \in Nat /\ DOMAIN c = 1..Len(c)
          /\ DOMAIN d = 1..(Len(c) + 1)
          /\ \A k \in 1..Len(c) : k \in 1..(Len(c) + 1) /\ d[k] = c[k]
          /\ d[Len(c) + 1] = e /\ Len(c) + 1 \in 1..(Len(c) + 1)
          /\ \A k \in 1..(Len(c) + 1) : k \in 1..Len(c) \/ k = Len(c) + 1
      BY <3>2, <3>3, AppendAt, LenProperties
    <3>5. \A r : (\E k \in DOMAIN d : d[k].slot = r) <=>
                   (\E k \in DOMAIN c : c[k].slot = r) \/ r = s
      BY <1>12, <3>4
    <3>6. QED
      BY <1>12, <3>1, <3>3, <3>5 DEF WasCalled
  <2>2. Fresh'
    BY <1>9, <1>10, <1>1, <2>1 DEF Waits, Fresh
  <2>3. Covered'
    BY <1>10, <2>1 DEF Waits, Covered
  <2>4. QED
    BY <1>7, <2>2, <2>3 DEF Waits
<1>13. QED
  BY <1>9, <1>11, <1>12

\* And so does the one that drops a queue and disconnects its slots.
LEMMA DropWaits ==
  ASSUME TypeOK, TypeOK', Waits, NEW a \in Holders, Queues'[a] = << >>,
         \A h \in Holders \ {a} : Queues'[h] = Queues[h],
         UNCHANGED <<joined, calls>>,
         \A r \in Slots :
           IF Contains(Queues[a], r)
           THEN connection'[r] = "disconnected" ELSE connection'[r] =
             connection[r]
  PROVE  Waits'
<1>1. PICK Q : Q = Queues
  OBVIOUS
<1>2. PICK R : R = Queues'
  OBVIOUS
<1>3. PICK J : J = joined
  OBVIOUS
<1>4. Q \in Queued(Holders) /\ R \in Queued(Holders) /\ J \in Seq(Joins)
  BY <1>1, <1>2, <1>3, QueuesAreSequences, QueuesPrimed DEF TypeOK, Queued
<1>5. QueueDropped(Holders, Q, R, a)
  BY <1>1, <1>2, <1>4 DEF QueueDropped
<1>6. /\ Apart(Q) => Apart(R)
      /\ Together(Q, J) => Together(R, J)
      /\ \A s : Holds(R, s) => Holds(Q, s)
      /\ \A s : Holds(Q, s) => Holds(R, s) \/ Contains(Q[a], s)
  BY <1>4, <1>5, Drop
<1>7. Lines'
  BY <1>1, <1>2, <1>3, <1>6, LinesOf DEF Waits, Lines
<1>8. \A r \in Slots : WasCalled(r)' <=> WasCalled(r)
  BY DEF WasCalled
<1>9. \A r \in Slots : /\ Holds(Queues, r)' => Holds(Queues, r)
                       /\ Holds(Queues, r) =>
                            \/ Holds(Queues, r)'
                            \/ Contains(Queues[a], r)
  BY <1>1, <1>2, <1>6, HoldsPrimed
<1>10. \A r \in Slots : /\ connection'[r] = "new" => connection[r] = "new"
                        /\ connection'[r] \in {connection[r], "disconnected"}
  OBVIOUS
<1>11. Fresh'
  BY <1>8, <1>9, <1>10 DEF Waits, Fresh
<1>12. Covered'
  BY <1>8, <1>9, <1>10 DEF Waits, Covered
<1>13. QED
  BY <1>7, <1>11, <1>12 DEF Waits
-----------------------------------------------------------------------------
\* Before a step and after it.
LEMMA ReadBoth == Read /\ Read'
BY ReadNow, PTL

\* What waits in the threads after one of them has been set.
LEMMA WaitingSet ==
  ASSUME ThreadsOK, NEW t \in Threads, NEW r,
         thread' = [thread EXCEPT ![t] = r]
  PROVE  /\ \A u \in Threads : u # t => Waiting(u)' = Waiting(u)
         /\ Waiting(t)' = IF r.at = "in slot" THEN Tail(r.slots) ELSE r.slots
BY DEF Waiting, ThreadsOK

\* Threads that are left alone have the same slots waiting.
LEMMA WaitingSame ==
  ASSUME UNCHANGED thread
  PROVE  \A u \in Threads : Waiting(u)' = Waiting(u)
BY DEF Waiting

\* An idle thread has nothing waiting.
LEMMA IdleWaits ==
  ASSUME NEW t \in Threads, thread[t] = Idle
  PROVE  Waiting(t) = << >>
BY Values DEF Waiting

\* A thread that begins to call slots.
LEMMA Begins ==
  ASSUME ThreadsOK, NEW t \in Threads, thread[t] = Idle, NEW q, NEW a,
         thread' = [thread EXCEPT ![t] = Calling(q, a)]
  PROVE  /\ Waiting(t) = << >>
         /\ Waiting(t)' = q
         /\ \A u \in Threads : u # t => Waiting(u)' = Waiting(u)
<1> DEFINE r == Calling(q, a)
<1>1. r.at = "calling" /\ r.slots = q
  BY DEF Calling
<1>2. thread' = [thread EXCEPT ![t] = r]
  OBVIOUS
<1> HIDE DEF r
<1>3. QED
  BY <1>1, <1>2, IdleWaits, WaitingSet

\* A queue of one slot.
LEMMA OneSlot ==
  ASSUME NEW s \in Slots
  PROVE  Append(<< >>, s) = <<s>> /\ <<s>> \in Seq(Slots)
OBVIOUS

\* While the mutex is free a slot of this generation waits in *state_ only.
LEMMA OnlyInState ==
  ASSUME TypeOK, Firing, MutexHeld, Belong, mutex = None, ~IsLatched
  PROVE  \A h \in Holders \ {OfState} :
           \A k \in 1..Len(Queues[h]), j \in 1..Len(joined) :
             joined[j].slot = Queues[h][k] => joined[j].generation # generation
<1>0. state.args = None /\ fired[generation] = None /\ None \notin Args
  BY LatchingSignalAssumption
     DEF TypeOK, SignalOK, IsLatched, Firing, Signals
<1>1. SUFFICES ASSUME NEW h \in Holders \ {OfState},
                 NEW k \in 1..Len(Queues[h]),
                      NEW j \in 1..Len(joined), joined[j].slot = Queues[h][k],
                      joined[j].generation = generation
               PROVE  FALSE
  OBVIOUS
<1>2. ASSUME NEW t \in Threads, h = OfThread(t) PROVE FALSE
  <2>1. Queues[h] = Waiting(t)
    BY <1>2, ReadNow DEF Read
  <2>2. k \in 1..Len(Waiting(t)) /\ joined[j].slot = Waiting(t)[k]
    BY <1>1, <2>1
  <2>3. thread[t].at # "idle"
    <3>1. SUFFICES ASSUME thread[t].at = "idle" PROVE FALSE
      OBVIOUS
    <3>2. Waiting(t) = << >>
      BY <3>1, IdleWaits DEF TypeOK, ThreadsOK
    <3>3. QED
      BY <2>2, <3>2
  <2>4. ~Direct(t)
    BY <2>3, LatchingSignalAssumption DEF MutexHeld
  <2>5. thread[t].args # None /\ fired[joined[j].generation] = thread[t].args
    BY <2>2, <2>4 DEF Belong, ThreadBelongs, Direct
  <2>6. QED
    BY <1>0, <1>1, <2>5
<1>3. ASSUME NEW t \in Threads, h = OfInvocation(t) PROVE FALSE
  <2>1. invocation[t] # None
    BY <1>1, <1>3, ReadNow DEF Read
  <2>2. Queues[h] = invocation[t].slots
    BY <1>3, <2>1, ReadNow DEF Read
  <2>3. invocation[t].args \in Args
    BY <2>1 DEF TypeOK
  <2>4. fired[joined[j].generation] = invocation[t].args
    BY <1>1, <2>1, <2>2 DEF Belong, InvocationBelongs
  <2>5. QED
    BY <1>0, <1>1, <2>3, <2>4
<1>4. ASSUME NEW s \in Slots, h = OfDeferred(s) PROVE FALSE
  <2>1. connection[s] = "deferred" /\ Queues[h] = <<s>>
    <3>1. CASE connection[s] = "deferred"
      BY <3>1, <1>4, ReadNow DEF Read
    <3>2. CASE connection[s] # "deferred"
      <4>1. Queues[h] = << >>
        BY <3>2, <1>4, ReadNow DEF Read
      <4>2. QED
        BY <1>1, <4>1
    <3>3. QED
      BY <3>1, <3>2
  <2>2. joined[j].slot = s
    BY <1>1, <2>1
  <2>3. fired[joined[j].generation] \in Args
    BY <2>1, <2>2 DEF Belong, DeferredBelongs
  <2>4. QED
    BY <1>0, <1>1, <2>3
<1>5. QED
  BY <1>1, <1>2, <1>3, <1>4, Places
-----------------------------------------------------------------------------
\* Connect: the slot waits at the end of *state_.
LEMMA ConnectUnlatchedWaits ==
  ASSUME SInv, TypeOK', NEW t \in Threads, NEW s \in Slots,
           ConnectUnlatched(t, s)
  PROVE  Waits'
<1> USE DEF SInv
<1>1. /\ mutex = None /\ ~IsLatched /\ connection[s] = "new"
      /\ state'.slots = Append(state.slots, s)
      /\ connection' = [connection EXCEPT ![s] = "connected"]
      /\ Join(s) /\ UNCHANGED <<thread, invocation, calls>>
  BY DEF ConnectUnlatched, Locks, AtBack, TypeOK, SignalOK, Signals
<1>2. Queues'[OfState] = Append(Queues[OfState], s)
  BY <1>1, ReadBoth DEF Read
<1>3. \A h \in Holders \ {OfState} : Queues'[h] = Queues[h]
  BY <1>1, WaitingSame, Places, Untouched DEF TypeOK
<1>4. \A h \in Holders \ {OfState} :
        \A k \in 1..Len(Queues[h]), j \in 1..Len(joined) :
          joined[j].slot = Queues[h][k] => joined[j].generation # generation
  BY <1>1, OnlyInState
<1>5. /\ connection'[s] # "new"
      /\ \A r \in Slots \ {s} : connection'[r] = connection[r]
  BY <1>1 DEF TypeOK
<1>6. Waits
  BY DEF Waits
<1>7. QED
  BY <1>1, <1>2, <1>3, <1>4, <1>5, <1>6, Places, JoinWaits

\* Connect to a latched signal: the slot waits in the thread, which calls it.
LEMMA ConnectLatchedWaits ==
  ASSUME SInv, TypeOK', NEW t \in Threads, NEW s \in Slots, ConnectLatched(t, s)
  PROVE  Waits'
<1> USE DEF SInv
<1>1. /\ thread[t] = Idle /\ IsLatched /\ connection[s] = "new"
      /\ thread' = [thread EXCEPT ![t] = Calling(<<s>>, None)]
      /\ connection' = [connection EXCEPT ![s] = "none"]
      /\ Join(s) /\ UNCHANGED <<state, invocation, calls>>
  BY DEF ConnectLatched, Locks
<1>2. Waiting(t) = << >> /\ Waiting(t)' = <<s>>
        /\ \A u \in Threads : u # t => Waiting(u)' = Waiting(u)
  BY <1>1, Begins DEF TypeOK
<1>3. Queues'[OfThread(t)] = Append(Queues[OfThread(t)], s)
  BY <1>2, OneSlot, ReadBoth DEF Read
<1>4. \A h \in Holders \ {OfThread(t)} : Queues'[h] = Queues[h]
  BY <1>1, <1>2, Places, Untouched DEF TypeOK
<1>5. /\ connection'[s] # "new"
      /\ \A r \in Slots \ {s} : connection'[r] = connection[r]
  BY <1>1 DEF TypeOK
<1>6. Waits /\ OfThread(t) \in Holders
  BY Places DEF Waits
<1>7. QED
  BY <1>1, <1>3, <1>4, <1>5, <1>6, JoinWaits

\* ConnectDeferred: it waits in the DeferredConnection,
LEMMA ConnectDeferredLatchedWaits ==
  ASSUME SInv, TypeOK', NEW t \in Threads, NEW s \in Slots,
         ConnectDeferredLatched(t, s)
  PROVE  Waits'
<1> USE DEF SInv
<1>1. /\ IsLatched /\ connection[s] = "new"
      /\ connection' = [connection EXCEPT ![s] = "deferred"]
      /\ Join(s) /\ UNCHANGED <<state, thread, invocation, calls>>
  BY DEF ConnectDeferredLatched, Locks
<1>2. /\ connection'[s] = "deferred"
      /\ \A r \in Slots \ {s} : connection'[r] = connection[r]
  BY <1>1 DEF TypeOK
<1>3. Queues'[OfDeferred(s)] = Append(Queues[OfDeferred(s)], s)
  BY <1>1, <1>2, OneSlot, ReadBoth DEF Read
<1>4. \A h \in Holders \ {OfDeferred(s)} : Queues'[h] = Queues[h]
  <2>1. {OfDeferred(s)} \in SUBSET Holders
    BY Places
  <2>2. \A r \in Slots : \/ OfDeferred(r) \in {OfDeferred(s)}
                         \/ connection'[r] = "deferred" <=>
                              connection[r] = "deferred"
    BY <1>2
  <2>3. QED
    BY <1>1, <2>1, <2>2, WaitingSame, Untouched
<1>5. Waits /\ OfDeferred(s) \in Holders
  BY Places DEF Waits
<1>6. QED
  BY <1>1, <1>2, <1>3, <1>4, <1>5, JoinWaits

\* and then in the thread that calls that.
LEMMA RunDeferredConnectionWaits ==
  ASSUME SInv, TypeOK', NEW t \in Threads, NEW s \in Slots,
         RunDeferredConnection(t, s)
  PROVE  Waits'
<1> USE DEF SInv
<1>1. /\ thread[t] = Idle /\ connection[s] = "deferred"
      /\ deferred[s] \in Args \cup {None}
      /\ thread' = [thread EXCEPT ![t] = Calling(<<s>>, deferred[s])]
      /\ connection' = [connection EXCEPT ![s] = "none"]
      /\ UNCHANGED <<state, invocation, joined, calls>>
  BY DEF RunDeferredConnection, TypeOK
<1>2. Waiting(t) = << >> /\ Waiting(t)' = <<s>>
        /\ \A u \in Threads : u # t => Waiting(u)' = Waiting(u)
  BY <1>1, Begins DEF TypeOK
<1>3. connection'[s] = "none"
        /\ \A r \in Slots \ {s} : connection'[r] = connection[r]
  BY <1>1 DEF TypeOK
<1>4. /\ Queues[OfThread(t)] = << >>
      /\ Queues'[OfThread(t)] = Queues[OfDeferred(s)]
      /\ Queues'[OfDeferred(s)] = << >>
  BY <1>1, <1>2, <1>3, ReadBoth DEF Read
<1>5. \A h \in Holders \ {OfDeferred(s), OfThread(t)} : Queues'[h] = Queues[h]
  <2> DEFINE C == {OfDeferred(s), OfThread(t)}
  <2>1. C \in SUBSET Holders
    BY Places
  <2>2. \A u \in Threads : OfThread(u) \in C \/ Waiting(u)' = Waiting(u)
    BY <1>2
  <2>3. \A r \in Slots : \/ OfDeferred(r) \in C
                         \/ connection'[r] = "deferred" <=>
                              connection[r] = "deferred"
    BY <1>3
  <2> HIDE DEF C
  <2>4. \A h \in Holders \ C : Queues'[h] = Queues[h]
    BY <1>1, <2>1, <2>2, <2>3, Untouched
  <2>5. QED
    BY <2>4 DEF C
<1>6. Waits /\ OfDeferred(s) \in Holders /\ OfThread(t) \in Holders
        /\ OfDeferred(s) # OfThread(t)
  BY Places DEF Waits
<1>7. \A r \in Slots :
        /\ connection'[r] = "new" <=> connection[r] = "new"
        /\ connection'[r] \in {"connected", "deferred", "none"} =>
             connection[r] \in {"connected", "deferred", "none"}
  BY <1>1, <1>3
<1>8. QED
  BY <1>1, <1>4, <1>5, <1>6, <1>7, MoveWaits

\* operator(): the slots of *state_ move to the thread.
LEMMA CallWaits ==
  ASSUME SInv, TypeOK', NEW t \in Threads, NEW v \in Args, Call(t, v)
  PROVE  Waits'
<1> USE DEF SInv
<1>1. /\ thread[t] = Idle /\ state.slots \in Seq(Slots)
      /\ thread' = [thread EXCEPT ![t] = Calling(state.slots, None)]
      /\ state'.slots = << >>
      /\ UNCHANGED <<invocation, connection, joined, calls>>
  BY Values DEF Call, CanFire, Locks, Moved, Fire, TypeOK, SignalOK, Signals
<1>2. Waiting(t) = << >> /\ Waiting(t)' = state.slots
        /\ \A u \in Threads : u # t => Waiting(u)' = Waiting(u)
  BY <1>1, Begins DEF TypeOK
<1>3. /\ Queues[OfThread(t)] = << >>
      /\ Queues'[OfThread(t)] = Queues[OfState]
      /\ Queues'[OfState] = << >>
  BY <1>1, <1>2, ReadBoth DEF Read
<1>4. \A h \in Holders \ {OfState, OfThread(t)} : Queues'[h] = Queues[h]
  <2> DEFINE C == {OfState, OfThread(t)}
  <2>1. C \in SUBSET Holders
    BY Places
  <2>2. \A u \in Threads : OfThread(u) \in C \/ Waiting(u)' = Waiting(u)
    BY <1>2
  <2>3. OfState \in C
    OBVIOUS
  <2> HIDE DEF C
  <2>4. \A h \in Holders \ C : Queues'[h] = Queues[h]
    BY <1>1, <2>1, <2>2, <2>3, Untouched
  <2>5. QED
    BY <2>4 DEF C
<1>5. Waits /\ OfState \in Holders /\ OfThread(t) \in Holders
        /\ OfState # OfThread(t)
  BY Places DEF Waits
<1>6. QED
  BY <1>1, <1>3, <1>4, <1>5, MoveWaits

\* InvokeDeferred: they move to the DeferredInvocation,
LEMMA InvokeDeferredWaits ==
  ASSUME SInv, TypeOK', NEW t \in Threads, NEW v \in Args, InvokeDeferred(t, v)
  PROVE  Waits'
<1> USE DEF SInv
<1>1. /\ invocation[t] = None /\ state.slots \in Seq(Slots)
      /\ invocation' = [invocation EXCEPT ![t] = [slots |-> state.slots,
                                                  args |-> v]]
      /\ state'.slots = << >>
      /\ UNCHANGED <<thread, connection, joined, calls>>
  BY Values DEF InvokeDeferred, Moved, Fire, TypeOK, SignalOK, Signals
<1>2. /\ invocation'[t] # None /\ invocation'[t].slots = state.slots
      /\ \A u \in Threads : u # t => invocation'[u] = invocation[u]
  BY <1>1, LatchingSignalAssumption DEF TypeOK
<1>3. /\ Queues[OfInvocation(t)] = << >>
      /\ Queues'[OfInvocation(t)] = Queues[OfState]
      /\ Queues'[OfState] = << >>
  BY <1>1, <1>2, ReadBoth DEF Read
<1>4. \A h \in Holders \ {OfState, OfInvocation(t)} : Queues'[h] = Queues[h]
  <2> DEFINE C == {OfState, OfInvocation(t)}
  <2>1. C \in SUBSET Holders
    BY Places
  <2>2. \A u \in Threads : OfInvocation(u) \in C
          \/ invocation'[u] = invocation[u]
    BY <1>2
  <2>3. OfState \in C /\ \A u \in Threads : Waiting(u)' = Waiting(u)
    BY <1>1, WaitingSame
  <2> HIDE DEF C
  <2>4. \A h \in Holders \ C : Queues'[h] = Queues[h]
    BY <1>1, <2>1, <2>2, <2>3, Untouched
  <2>5. QED
    BY <2>4 DEF C
<1>5. Waits /\ OfState \in Holders /\ OfInvocation(t) \in Holders
        /\ OfState # OfInvocation(t)
  BY Places DEF Waits
<1>6. QED
  BY <1>1, <1>3, <1>4, <1>5, MoveWaits

\* and from there to the thread that calls it.
LEMMA RunInvocationWaits ==
  ASSUME SInv, TypeOK', NEW t \in Threads, RunInvocation(t)
  PROVE  Waits'
<1> USE DEF SInv
<1>1. /\ thread[t] = Idle /\ invocation[t] # None
      /\ invocation[t].slots \in Seq(Slots) /\ invocation[t].args \in Args
      /\ thread' = [thread EXCEPT
                      ![t] = Calling(invocation[t].slots, invocation[t].args)]
      /\ invocation' = [invocation EXCEPT ![t] = None]
      /\ UNCHANGED <<state, connection, joined, calls>>
  BY DEF RunInvocation, TypeOK
<1>2. Waiting(t) = << >> /\ Waiting(t)' = invocation[t].slots
        /\ \A u \in Threads : u # t => Waiting(u)' = Waiting(u)
  BY <1>1, Begins DEF TypeOK
<1>3. invocation'[t] = None
        /\ \A u \in Threads : u # t => invocation'[u] = invocation[u]
  BY <1>1 DEF TypeOK
<1>4. /\ Queues[OfThread(t)] = << >>
      /\ Queues'[OfThread(t)] = Queues[OfInvocation(t)]
      /\ Queues'[OfInvocation(t)] = << >>
  BY <1>1, <1>2, <1>3, ReadBoth DEF Read
<1>5. \A h \in Holders \ {OfInvocation(t), OfThread(t)} : Queues'[h] = Queues[h]
  <2> DEFINE C == {OfInvocation(t), OfThread(t)}
  <2>1. C \in SUBSET Holders
    BY Places
  <2>2. \A u \in Threads : /\ OfThread(u) \in C \/ Waiting(u)' = Waiting(u)
                           /\ OfInvocation(u) \in C
                                \/ invocation'[u] = invocation[u]
    BY <1>2, <1>3
  <2> HIDE DEF C
  <2>3. \A h \in Holders \ C : Queues'[h] = Queues[h]
    BY <1>1, <2>1, <2>2, Untouched
  <2>4. QED
    BY <2>3 DEF C
<1>6. Waits /\ OfInvocation(t) \in Holders /\ OfThread(t) \in Holders
        /\ OfInvocation(t) # OfThread(t)
  BY Places DEF Waits
<1>7. QED
  BY <1>1, <1>4, <1>5, <1>6, MoveWaits

\* The first waiting slot of a thread is called or passed over.
LEMMA NextSlotWaits ==
  ASSUME SInv, TypeOK', NEW t \in Threads, NextSlot(t)
  PROVE  Waits'
<1> USE DEF SInv
<1>1. /\ thread[t] \in Runners /\ thread[t].at = "calling"
      /\ thread[t].slots # << >>
      /\ UNCHANGED <<state, invocation, connection, joined>>
  BY DEF NextSlot, TypeOK, ThreadsOK
<1>2. Waiting(t) = thread[t].slots /\ Waiting(t) # << >>
  BY <1>1 DEF Waiting
<1>3. /\ Waiting(t)' = Tail(Waiting(t))
      /\ \A u \in Threads : u # t => Waiting(u)' = Waiting(u)
      /\ \/ UNCHANGED calls /\ connection[Head(Waiting(t))] = "disconnected"
         \/ \E e \in Calls : e.slot = Head(Waiting(t))
              /\ calls' = Append(calls, e)
  <2>1. CASE connection[Head(thread[t].slots)] = "disconnected"
    <3> DEFINE r == [thread[t] EXCEPT !.slots = Tail(@)]
    <3>1. thread' = [thread EXCEPT ![t] = r] /\ UNCHANGED calls
      BY <2>1 DEF NextSlot
    <3>2. r.at = "calling" /\ r.slots = Tail(thread[t].slots)
      BY <1>1 DEF Runners
    <3> HIDE DEF r
    <3>3. QED
      BY <1>2, <2>1, <3>1, <3>2, WaitingSet DEF TypeOK
  <2>2. CASE connection[Head(thread[t].slots)] # "disconnected"
    <3> DEFINE r == [thread[t] EXCEPT !.at = "in slot"]
               e == [slot |-> Head(thread[t].slots), args |-> ArgsPassed(t),
                     direct |-> Direct(t)]
    <3>1. thread' = [thread EXCEPT ![t] = r] /\ calls' = Append(calls, e)
      BY <2>2 DEF NextSlot
    <3>2. r.at = "in slot" /\ r.slots = thread[t].slots
      BY <1>1 DEF Runners
    <3>3. Head(thread[t].slots) \in Slots
      BY <1>1, TailAt DEF Runners
    <3>4. ArgsPassed(t) \in Args \cup {None} /\ Direct(t) \in BOOLEAN
      BY <1>1 DEF ArgsPassed, TypeOK, Direct, SignalOK, Signals, Runners
    <3>5. e \in Calls /\ e.slot = Head(thread[t].slots)
      BY <3>3, <3>4 DEF Calls
    <3> HIDE DEF r, e
    <3>6. QED
      BY <1>2, <3>1, <3>2, <3>5, WaitingSet DEF TypeOK
  <2>3. QED
    BY <2>1, <2>2
<1>4. Queues[OfThread(t)] # << >>
        /\ Queues'[OfThread(t)] = Tail(Queues[OfThread(t)])
        /\ Queues[OfThread(t)] = Waiting(t)
  BY <1>2, <1>3, ReadBoth DEF Read
<1>5. \A h \in Holders \ {OfThread(t)} : Queues'[h] = Queues[h]
  BY <1>1, <1>3, Places, Untouched DEF TypeOK
<1>6. Waits /\ OfThread(t) \in Holders
  BY Places DEF Waits
<1>7. QED
  BY <1>1, <1>3, <1>4, <1>5, <1>6, TakeWaits

\* reset drops the slots of *state_ and disconnects them.
LEMMA ResetWaits ==
  ASSUME SInv, TypeOK', NEW t \in Threads, Reset(t)
  PROVE  Waits'
<1> USE DEF SInv
<1>1. /\ state'.slots = << >>
      /\ state.slots \in Seq(Slots)
      /\ connection' = [s \in Slots |->
            IF \E k \in DOMAIN state.slots : state.slots[k] = s
            THEN "disconnected" ELSE connection[s]]
      /\ UNCHANGED <<thread, invocation, joined, calls>>
  BY Values DEF Reset, TypeOK, SignalOK, Signals
<1>2. Queues[OfState] = state.slots /\ Queues'[OfState] = << >>
  BY <1>1, ReadBoth DEF Read
<1>3. \A r \in Slots :
        IF Contains(Queues[OfState], r) THEN connection'[r] = "disconnected"
        ELSE connection'[r] = connection[r]
  BY <1>1, <1>2 DEF Contains
<1>4. \A s \in Slots : connection'[s] = "deferred" <=>
        connection[s] = "deferred"
  <2>1. SUFFICES ASSUME NEW s \in Slots, connection[s] = "deferred",
                        Contains(Queues[OfState], s)
                 PROVE  FALSE
    BY <1>3
  <2>2. Queues[OfDeferred(s)] = <<s>>
    BY <2>1, ReadNow DEF Read
  <2>3. PICK k \in 1..Len(Queues[OfState]) : Queues[OfState][k] = s
    BY <2>1 DEF Contains
  <2>4. 1 \in 1..Len(Queues[OfDeferred(s)]) /\ Queues[OfDeferred(s)][1] = s
    BY <2>2
  <2>5. Apart(Queues) /\ DOMAIN Queues = Holders
    BY ReadNow DEF Lines, Read
  <2>6. QED
    BY <2>3, <2>4, <2>5, Places DEF Apart
<1>5. \A h \in Holders \ {OfState} : Queues'[h] = Queues[h]
  BY <1>1, <1>4, WaitingSame, Places, Untouched DEF TypeOK
<1>6. Waits /\ OfState \in Holders
  BY Places DEF Waits
<1>7. QED
  BY <1>1, <1>2, <1>3, <1>5, <1>6, DropWaits

\* The other operations move no slot.
LEMMA OthersWait ==
  ASSUME SInv, TypeOK', NEW t \in Threads,
         (\E s \in Slots : Disconnect(t, s)) \/ ReturnFromSlot(t)
           \/ EndOfCalls(t)
  PROVE  Waits'
<1> USE DEF SInv
<1>1. /\ UNCHANGED <<state, invocation, joined, calls>>
      /\ \A r \in Slots :
           /\ connection'[r] = "new" <=> connection[r] = "new"
           /\ connection'[r] = "deferred" <=> connection[r] = "deferred"
           /\ connection'[r] \in {"connected", "deferred", "none"} =>
                connection[r] \in {"connected", "deferred", "none"}
  BY DEF Disconnect, ReturnFromSlot, EndOfCalls, TypeOK
<1>2. \A u \in Threads : Waiting(u)' = Waiting(u)
  <2>1. CASE \E s \in Slots : Disconnect(t, s)
    BY <2>1, WaitingSame DEF Disconnect
  <2>2. CASE ReturnFromSlot(t)
    <3> DEFINE r == Calling(Tail(thread[t].slots), thread[t].args)
    <3>1. thread' = [thread EXCEPT ![t] = r] /\ thread[t].at = "in slot"
      BY <2>2 DEF ReturnFromSlot
    <3>2. r.at = "calling" /\ r.slots = Tail(thread[t].slots)
      BY DEF Calling
    <3> HIDE DEF r
    <3>5. Waiting(t) = Tail(thread[t].slots)
      BY <3>1 DEF Waiting
    <3>3. Waiting(t)' = Waiting(t)
      BY <3>1, <3>2, <3>5, WaitingSet DEF TypeOK
    <3>4. QED
      BY <3>1, <3>3, WaitingSet DEF TypeOK
  <2>3. CASE EndOfCalls(t)
    <3>1. thread' = [thread EXCEPT ![t] = Idle] /\ Waiting(t) = << >>
      BY <2>3 DEF EndOfCalls, Waiting
    <3> DEFINE r == Idle
    <3>4. r.at = "idle" /\ r.slots = << >>
      BY DEF Idle
    <3>5. thread' = [thread EXCEPT ![t] = r]
      BY <3>1
    <3> HIDE DEF r
    <3>2. Waiting(t)' = << >>
      BY <3>5, <3>4, WaitingSet DEF TypeOK
    <3>3. QED
      BY <3>1, <3>2, WaitingSet DEF TypeOK
  <2>4. QED
    BY <2>1, <2>2, <2>3
<1>3. \A h \in Holders \ {} : Queues'[h] = Queues[h]
  BY <1>1, <1>2, Untouched DEF TypeOK
<1>4. Waits
  BY DEF Waits
<1>5. QED
  BY <1>1, <1>3, <1>4, SameWaits
-----------------------------------------------------------------------------
\* A slot that is being called by a deferred operation has arguments.
LEMMA DeferredHasArgs ==
  ASSUME SInv, NEW s \in Slots, connection[s] = "deferred"
  PROVE  deferred[s] \in Args
<1>1. PICK j \in 1..Len(joined) : joined[j].slot = s
  BY DEF SInv, Joining
<1>2. QED
  BY <1>1 DEF SInv, Belong, DeferredBelongs

\* Every operation keeps Firing.
LEMMA FiringKept ==
  ASSUME SInv, Next
  PROVE  Firing'
<1> USE DEF SInv
<1>1. generation \in 0..MaxResets /\ MaxResets \in Nat
        /\ fired \in [0..MaxResets -> Args \cup {None}]
  BY LatchingSignalAssumption DEF TypeOK
<1>2. ASSUME NEW v \in Args, Fire(v), UNCHANGED generation PROVE Firing'
  BY <1>1, <1>2, Values DEF Firing, Fire
<1>3. ASSUME NEW t \in Threads, Reset(t) PROVE Firing'
  <2>1. generation + 1 \in 0..MaxResets /\ generation + 1 > generation
    BY <1>1, <1>3 DEF Reset
  <2>2. fired[generation + 1] = None
    BY <2>1 DEF Firing
  <2>3. \A g \in 0..MaxResets : g > generation + 1 => g > generation
    BY <1>1
  <2>4. QED
    BY <1>3, <2>2, <2>3, Values DEF Firing, Reset
<1>4. ASSUME UNCHANGED <<generation, fired>>, state'.args = state.args
      PROVE  Firing'
  BY <1>4 DEF Firing
<1>5. ASSUME NEW t \in Threads, NEW s \in Slots, ConnectUnlatched(t, s)
      PROVE  Firing'
  <2>1. state'.args = state.args
    BY <1>5 DEF ConnectUnlatched, TypeOK, SignalOK, Signals
  <2>2. QED
    BY <1>4, <1>5, <2>1 DEF ConnectUnlatched
<1>6. QED
  BY <1>2, <1>3, <1>4, <1>5 DEF Next, Runs, ConnectLatched,
     ConnectDeferredLatched, RunDeferredConnection, Disconnect, Call,
     InvokeDeferred, RunInvocation, NextSlot, ReturnFromSlot, EndOfCalls

\* A thread of which only the slots it calls have changed.
LEMMA MutexStays ==
  ASSUME MutexHeld, mutex' = mutex, mutex # None => IsLatched',
         \A u \in Threads : /\ thread'[u].at # "idle" <=> thread[u].at # "idle"
                            /\ thread'[u].args = thread[u].args
  PROVE  MutexHeld'
BY DEF MutexHeld, Direct

\* Every operation keeps MutexHeld.
LEMMA MutexHeldKept ==
  ASSUME SInv, TypeOK', Next
  PROVE  MutexHeld'
<1> USE DEF SInv
<1>1. thread \in [Threads -> Runners] /\ None \notin Threads
  BY LatchingSignalAssumption DEF TypeOK, ThreadsOK
<1>2. ASSUME NEW t \in Threads, NEW q \in Seq(Slots),
             thread' = [thread EXCEPT ![t] = Calling(q, None)],
             mutex = None, mutex' = t, IsLatched'
      PROVE  MutexHeld'
  <2>1. thread'[t].at # "idle" /\ thread'[t].args = None
    BY <1>1, <1>2, Values
  <2>2. \A u \in Threads : u # t => thread'[u] = thread[u]
    BY <1>1, <1>2
  <2>3. \A u \in Threads : ~(thread[u].at # "idle" /\ thread[u].args = None)
    BY <1>1, <1>2 DEF MutexHeld, Direct
  <2>4. QED
    BY <1>2, <2>1, <2>2, <2>3 DEF MutexHeld, Direct
<1>3. ASSUME NEW t \in Threads, NEW q \in Seq(Slots), NEW v \in Args,
             thread[t] = Idle, thread' = [thread EXCEPT ![t] = Calling(q, v)],
             UNCHANGED <<mutex, state>>
      PROVE  MutexHeld'
  <2>1. thread'[t].args # None
    BY <1>1, <1>3, Values, ArgsAreNotNone
  <2>2. \A u \in Threads : u # t => thread'[u] = thread[u]
    BY <1>1, <1>3
  <2>3. mutex # t
    BY <1>3, Values DEF MutexHeld
  <2>4. QED
    BY <1>3, <2>1, <2>2, <2>3 DEF MutexHeld, Direct, IsLatched
<1>4. ASSUME UNCHANGED <<thread, mutex>>, mutex # None => IsLatched'
      PROVE  MutexHeld'
  BY <1>4 DEF MutexHeld, Direct
<1>5. ASSUME NEW t \in Threads, NEW s \in Slots, ConnectUnlatched(t, s)
      PROVE  MutexHeld'
  BY <1>4, <1>5 DEF ConnectUnlatched, Locks
<1>6. ASSUME NEW t \in Threads, NEW s \in Slots, ConnectLatched(t, s)
      PROVE  MutexHeld'
  BY <1>2, <1>6, OneSlot DEF ConnectLatched, Locks, KeepsMutex, IsLatched
<1>7. ASSUME NEW t \in Threads, NEW s \in Slots,
             ConnectDeferredLatched(t, s) \/ Disconnect(t, s)
      PROVE  MutexHeld'
  BY <1>4, <1>7 DEF ConnectDeferredLatched, Disconnect, IsLatched, MutexHeld
<1>8. ASSUME NEW t \in Threads, NEW s \in Slots, RunDeferredConnection(t, s)
      PROVE  MutexHeld'
  BY <1>3, <1>8, OneSlot, DeferredHasArgs
     DEF RunDeferredConnection, RunsUnlocked
<1>9. ASSUME NEW t \in Threads, NEW v \in Args, Call(t, v)
      PROVE  MutexHeld'
  <2>1. state.slots \in Seq(Slots) /\ IsLatched'
    BY <1>9, Values DEF Call, Fire, IsLatched, TypeOK, SignalOK, Signals
  <2>2. QED
    BY <1>2, <1>9, <2>1 DEF Call, CanFire, Locks, KeepsMutex, Moved
<1>10. ASSUME NEW t \in Threads, NEW v \in Args, InvokeDeferred(t, v)
       PROVE  MutexHeld'
  BY <1>4, <1>10 DEF InvokeDeferred, CanFire, Locks
<1>11. ASSUME NEW t \in Threads, Reset(t)
       PROVE  MutexHeld'
  BY <1>4, <1>11 DEF Reset, Locks
<1>12. ASSUME NEW t \in Threads, RunInvocation(t)
       PROVE  MutexHeld'
  <2>1. invocation[t].slots \in Seq(Slots) /\ invocation[t].args \in Args
    BY <1>12 DEF RunInvocation, TypeOK
  <2>2. QED
    BY <1>3, <1>12, <2>1 DEF RunInvocation, RunsUnlocked
<1>13. ASSUME NEW t \in Threads, NextSlot(t)
       PROVE  MutexHeld'
  <2>1. /\ thread'[t].at # "idle" /\ thread[t].at # "idle"
        /\ thread'[t].args = thread[t].args
        /\ \A u \in Threads : u # t => thread'[u] = thread[u]
    BY <1>1, <1>13 DEF NextSlot, Runners
  <2>2. QED
    BY <1>13, <2>1, MutexStays DEF NextSlot, MutexHeld, IsLatched
<1>14. ASSUME NEW t \in Threads, ReturnFromSlot(t)
       PROVE  MutexHeld'
  <2>1. /\ thread'[t].at # "idle" /\ thread[t].at # "idle"
        /\ thread'[t].args = thread[t].args
        /\ \A u \in Threads : u # t => thread'[u] = thread[u]
    BY <1>1, <1>14 DEF ReturnFromSlot, Calling
  <2>2. QED
    BY <1>14, <2>1, MutexStays DEF ReturnFromSlot, MutexHeld, IsLatched
<1>15. ASSUME NEW t \in Threads, EndOfCalls(t)
       PROVE  MutexHeld'
  <2>1. /\ thread'[t].at = "idle"
        /\ \A u \in Threads : u # t => thread'[u] = thread[u]
    BY <1>1, <1>15, Values DEF EndOfCalls
  <2>2. /\ mutex' = (IF mutex = t THEN None ELSE mutex)
             /\ IsLatched' = IsLatched
    BY <1>15 DEF EndOfCalls, Unlock, IsLatched
  <2>3. QED
    BY <1>1, <2>1, <2>2 DEF MutexHeld, Direct
<1>16. QED
  BY <1>5, <1>6, <1>7, <1>8, <1>9, <1>10, <1>11, <1>12, <1>13, <1>14, <1>15
     DEF Next, Runs
-----------------------------------------------------------------------------
\* The joins after a slot has been connected.
LEMMA Joined ==
  ASSUME TypeOK, NEW s \in Slots, Join(s)
  PROVE  /\ Len(joined) \in Nat /\ Len(joined') = Len(joined) + 1
         /\ \A j \in 1..Len(joined) : joined'[j] = joined[j]
         /\ joined'[Len(joined) + 1].slot = s
         /\ joined'[Len(joined) + 1].generation = generation
         /\ joined'[Len(joined) + 1].waits = ~IsLatched
         /\ \A j \in 1..Len(joined') : j \in 1..Len(joined)
              \/ j = Len(joined) + 1
<1> DEFINE e == [slot |-> s, generation |-> generation, waits |-> ~IsLatched]
<1>1. e \in Joins /\ joined \in Seq(Joins)
  BY DEF Joins, TypeOK, IsLatched
<1>2. joined' = Append(joined, e)
  BY DEF Join
<1>3. e.slot = s /\ e.generation = generation /\ e.waits = ~IsLatched
  OBVIOUS
<1> HIDE DEF e
<1>4. QED
  BY <1>1, <1>2, <1>3, AppendAt, LenProperties

\* What is recorded of a slot that is connected.
LEMMA JoinedTypes ==
  ASSUME TypeOK, NEW j \in 1..Len(joined)
  PROVE  /\ joined[j].slot \in Slots /\ joined[j].generation \in 0..MaxResets
         /\ joined[j].generation \in Nat /\ joined[j].waits \in BOOLEAN
<1>1. joined[j] \in Joins
  BY DEF TypeOK
<1>2. 0..MaxResets \subseteq Nat
  BY LatchingSignalAssumption
<1>3. QED
  BY <1>1, <1>2 DEF Joins

\* A slot that is new can be connected,
LEMMA JoinJoining ==
  ASSUME SInv, NEW s \in Slots, Join(s), connection[s] = "new",
         connection'[s] # "new",
         \A r \in Slots \ {s} : connection'[r] = connection[r],
         UNCHANGED generation, IsLatched' <=> IsLatched
  PROVE  Joining'
<1> USE DEF SInv
<1>1. generation \in Nat /\ \A j \in 1..Len(joined) : joined[j].slot # s
  BY LatchingSignalAssumption DEF TypeOK, Joining
<1>2. Len(joined) + 1 \in 1..(Len(joined) + 1)
        /\ 1..Len(joined) \subseteq 1..(Len(joined) + 1)
  BY Joined
<1>3. \A i, j \in 1..Len(joined') : joined'[i].slot = joined'[j].slot => i = j
  BY <1>1, Joined DEF Joining
<1>4. \A r \in Slots : connection'[r] # "new" <=>
                         \E j \in 1..Len(joined') : joined'[j].slot = r
  <2>1. SUFFICES ASSUME NEW r \in Slots, r # s
                 PROVE  (\E j \in 1..Len(joined') : joined'[j].slot = r)
                          <=> connection[r] # "new"
    BY <1>2, Joined
  <2>2. QED
    BY <1>2, <2>1, Joined DEF Joining
<1>5. \A j \in 1..Len(joined') :
        /\ joined'[j].generation <= generation'
        /\ joined'[j].generation = generation' /\ ~IsLatched' =>
             joined'[j].waits
  <2>1. ASSUME NEW j \in 1..Len(joined)
        PROVE  /\ joined'[j].generation <= generation
               /\ joined'[j].generation = generation /\ ~IsLatched
                    => joined'[j].waits
    BY Joined DEF Joining
  <2>2. joined'[Len(joined) + 1].generation = generation
          /\ joined'[Len(joined) + 1].waits = ~IsLatched
          /\ generation <= generation
    BY <1>1, Joined
  <2>3. QED
    BY <2>1, <2>2, Joined
<1>6. QED
  BY <1>3, <1>4, <1>5 DEF Joining

\* and a step that connects none may only fire the signal.
LEMMA SameJoining ==
  ASSUME Joining, UNCHANGED <<joined, generation>>,
         \A r \in Slots : connection'[r] = "new" <=> connection[r] = "new",
         IsLatched => IsLatched'
  PROVE  Joining'
BY DEF Joining

\* Every operation keeps Joining.
LEMMA JoiningKept ==
  ASSUME SInv, TypeOK', Next
  PROVE  Joining'
<1> USE DEF SInv
<1>1. connection \in [Slots -> {"new", "connected", "deferred", "none",
                                "disconnected"}]
  BY DEF TypeOK
<1>2. ASSUME NEW t \in Threads, NEW s \in Slots,
             \/ ConnectUnlatched(t, s) \/ ConnectLatched(t, s)
             \/ ConnectDeferredLatched(t, s)
      PROVE  Joining'
  <2>1. Join(s) /\ connection[s] = "new" /\ UNCHANGED generation
    BY <1>2 DEF ConnectUnlatched, ConnectLatched, ConnectDeferredLatched
  <2>2. connection'[s] # "new"
          /\ \A r \in Slots \ {s} : connection'[r] = connection[r]
    BY <1>1, <1>2 DEF ConnectUnlatched, ConnectLatched, ConnectDeferredLatched
  <2>3. IsLatched' <=> IsLatched
    BY <1>2 DEF ConnectUnlatched, ConnectLatched, ConnectDeferredLatched,
                IsLatched, TypeOK, SignalOK, Signals
  <2>4. QED
    BY <2>1, <2>2, <2>3, JoinJoining
<1>3. ASSUME NEW t \in Threads, NEW s \in Slots,
             RunDeferredConnection(t, s) \/ Disconnect(t, s)
      PROVE  Joining'
  <2>1. \A r \in Slots : connection'[r] = "new" <=> connection[r] = "new"
    BY <1>1, <1>3 DEF RunDeferredConnection, Disconnect
  <2>2. QED
    BY <1>3, <2>1, SameJoining DEF RunDeferredConnection, Disconnect, IsLatched
<1>4. ASSUME NEW t \in Threads, NEW v \in Args,
             Call(t, v) \/ InvokeDeferred(t, v)
      PROVE  Joining'
  <2>1. IsLatched'
    BY <1>4, Values DEF Call, InvokeDeferred, Fire, IsLatched
  <2>2. QED
    BY <1>4, <2>1, SameJoining DEF Call, InvokeDeferred
<1>5. ASSUME NEW t \in Threads, Reset(t)
      PROVE  Joining'
  <2>1. \A r \in Slots : connection'[r] = "new" <=> connection[r] = "new"
    <3>1. \A k \in DOMAIN state.slots : connection[state.slots[k]] # "new"
      <4>1. DOMAIN state.slots = 1..Len(state.slots)
        BY LenProperties DEF TypeOK, SignalOK, Signals
      <4>2. \A k \in 1..Len(state.slots) : state.slots[k] \in Slots
        BY <4>1 DEF TypeOK, SignalOK, Signals
      <4>3. \A k \in 1..Len(state.slots) : Holds(Queues, state.slots[k])
        BY ReadNow, Places DEF Holds, Contains, Read
      <4>4. QED
        BY <4>1, <4>2, <4>3 DEF Fresh
    <3>2. QED
      BY <1>5, <3>1 DEF Reset
  <2>2. generation \in Nat /\ generation' = generation + 1 /\ joined' = joined
    BY <1>5, LatchingSignalAssumption DEF Reset, TypeOK
  <2>3. \A j \in 1..Len(joined) : joined[j].generation \in Nat
    BY JoinedTypes
  <2>4. \A j \in 1..Len(joined') :
          /\ joined'[j].generation <= generation'
          /\ joined'[j].generation = generation' /\ ~IsLatched'
               => joined'[j].waits
    BY <2>2, <2>3 DEF Joining
  <2>5. QED
    BY <2>1, <2>2, <2>4 DEF Joining
<1>6. ASSUME NEW t \in Threads,
             \/ RunInvocation(t) \/ NextSlot(t) \/ ReturnFromSlot(t)
             \/ EndOfCalls(t)
      PROVE  Joining'
  BY <1>6, SameJoining
     DEF RunInvocation, NextSlot, ReturnFromSlot, EndOfCalls, IsLatched
<1>7. QED
  BY <1>2, <1>3, <1>4, <1>5, <1>6 DEF Next, Runs
-----------------------------------------------------------------------------
\* No thread waits to call slots under mutex_ while it is free.
LEMMA NoneUnderMutex ==
  ASSUME SInv, mutex = None, NEW u \in Threads, Direct(u)
  PROVE  Waiting(u) = << >>
<1>1. thread[u].at = "idle"
  BY LatchingSignalAssumption DEF SInv, MutexHeld
<1>2. QED
  BY <1>1, IdleWaits DEF SInv, TypeOK, ThreadsOK

\* A slot that is new is not in any of the places.
LEMMA NewIsNowhere ==
  ASSUME SInv, NEW s \in Slots, connection[s] = "new"
  PROVE  /\ \A k \in 1..Len(state.slots) : state.slots[k] # s
         /\ \A u \in Threads : \A k \in 1..Len(Waiting(u)) : Waiting(u)[k] # s
         /\ \A u \in Threads : invocation[u] # None =>
              \A k \in 1..Len(invocation[u].slots) : invocation[u].slots[k] # s
<1>1. ~Holds(Queues, s)
  BY DEF SInv, Fresh
<1>2. \A h \in Holders : \A k \in 1..Len(Queues[h]) : Queues[h][k] # s
  BY <1>1, ReadNow DEF Holds, Contains, Read
<1>3. \A k \in 1..Len(state.slots) : state.slots[k] # s
  BY <1>2, ReadNow, Places DEF Read
<1>4. ASSUME NEW u \in Threads
      PROVE  /\ \A k \in 1..Len(Waiting(u)) : Waiting(u)[k] # s
             /\ invocation[u] # None =>
                  \A k \in 1..Len(invocation[u].slots) :
                    invocation[u].slots[k] # s
  <2>1. OfThread(u) \in Holders /\ OfInvocation(u) \in Holders
    BY Places
  <2>2. Queues[OfThread(u)] = Waiting(u)
    BY ReadNow DEF Read
  <2>3. invocation[u] # None => Queues[OfInvocation(u)] = invocation[u].slots
    BY ReadNow DEF Read
  <2>4. QED
    BY <1>2, <2>1, <2>2, <2>3
<1>5. QED
  BY <1>3, <1>4

\* What a connecting thread leaves alone belongs where it is.
LEMMA JoinBelongs ==
  ASSUME SInv, NEW s \in Slots, Join(s), connection[s] = "new",
         UNCHANGED <<generation, fired, invocation>>
  PROVE  /\ \A u \in Threads : Waiting(u)' = Waiting(u)
                                 /\ thread'[u].args = thread[u].args
                               => ThreadBelongs(u)'
         /\ \A u \in Threads : InvocationBelongs(u)'
<1>1. \A j \in 1..Len(joined') :
        \/ j \in 1..Len(joined) /\ joined'[j] = joined[j]
        \/ joined'[j].slot = s
  BY Joined DEF SInv
<1>2. ASSUME NEW u \in Threads, Waiting(u)' = Waiting(u),
             thread'[u].args = thread[u].args
      PROVE  ThreadBelongs(u)'
  <2>1. ThreadBelongs(u)
    BY DEF SInv, Belong
  <2>2. QED
    BY <1>1, <1>2, <2>1, NewIsNowhere DEF ThreadBelongs, Direct
<1>3. ASSUME NEW u \in Threads
      PROVE  InvocationBelongs(u)'
  <2>1. InvocationBelongs(u)
    BY DEF SInv, Belong
  <2>2. QED
    BY <1>1, <2>1, NewIsNowhere DEF InvocationBelongs
<1>4. QED
  BY <1>2, <1>3

\* A DeferredConnection is given what its generation fired with.
LEMMA JoinDeferredBelongs ==
  ASSUME SInv, NEW s \in Slots, Join(s), connection[s] = "new",
         UNCHANGED <<generation, fired>>,
         \A r \in Slots \ {s} : connection'[r] = connection[r]
                                  /\ deferred'[r] = deferred[r],
         connection'[s] = "deferred" =>
           deferred'[s] \in Args /\ fired[generation] = deferred'[s]
  PROVE  DeferredBelongs'
<1>1. DeferredBelongs
  BY DEF SInv, Belong
<1>2. \A j \in 1..Len(joined) : joined[j].slot \in Slots /\ joined[j].slot # s
  BY JoinedTypes DEF SInv, Joining
<1>3. \A j \in 1..Len(joined') :
        \/ j \in 1..Len(joined) /\ joined'[j] = joined[j]
        \/ joined'[j].slot = s /\ joined'[j].generation = generation
  BY Joined DEF SInv
<1>4. QED
  BY <1>1, <1>2, <1>3 DEF DeferredBelongs

\* Connect: the slot comes before the firing of this generation.
LEMMA ConnectUnlatchedBelongs ==
  ASSUME SInv, NEW t \in Threads, NEW s \in Slots, ConnectUnlatched(t, s)
  PROVE  Belong'
<1>1. /\ ~IsLatched /\ ~IsLatched' /\ Join(s) /\ connection[s] = "new"
      /\ state.slots \in Seq(Slots)
      /\ state'.slots = Append(state.slots, s)
      /\ connection' = [connection EXCEPT ![s] = "connected"]
      /\ UNCHANGED <<thread, invocation, deferred, generation, fired>>
  BY DEF ConnectUnlatched, AtBack, SInv, TypeOK, SignalOK, Signals, IsLatched
<1>2. \A k \in 1..Len(state'.slots) :
        \/ k \in 1..Len(state.slots) /\ state'.slots[k] = state.slots[k]
        \/ state'.slots[k] = s
  BY <1>1, AppendAt
<1>3. \A j \in 1..Len(joined') :
        \/ j \in 1..Len(joined) /\ joined'[j] = joined[j]
        \/ joined'[j].slot = s /\ joined'[j].generation = generation
  BY <1>1, Joined DEF SInv
<1>4. StateBelongs'
  <2>1. StateBelongs
    BY DEF SInv, Belong
  <2>2. \A j \in 1..Len(joined) : joined[j].slot # s
    BY <1>1 DEF SInv, Joining
  <2>3. SUFFICES ASSUME NEW j \in 1..Len(joined'),
                   NEW k \in 1..Len(state'.slots),
                        joined'[j].slot = state'.slots[k]
                 PROVE  joined'[j].generation = generation
    BY <1>1 DEF StateBelongs
  <2>4. QED
    BY <1>1, <1>2, <1>3, <2>1, <2>2, <2>3, NewIsNowhere DEF StateBelongs
<1>5. \A u \in Threads : ThreadBelongs(u)' /\ InvocationBelongs(u)'
  BY <1>1, WaitingSame, JoinBelongs
<1>6. DeferredBelongs'
  BY <1>1, JoinDeferredBelongs DEF SInv, TypeOK
<1>7. QED
  BY <1>4, <1>5, <1>6 DEF Belong

\* Connect to a latched signal: the thread passes on what *state_ holds.
LEMMA ConnectLatchedBelongs ==
  ASSUME SInv, NEW t \in Threads, NEW s \in Slots, ConnectLatched(t, s)
  PROVE  Belong'
<1>1. /\ IsLatched /\ Join(s) /\ connection[s] = "new" /\ thread[t] = Idle
      /\ state.slots = << >>
      /\ thread' = [thread EXCEPT ![t] = Calling(<<s>>, None)]
      /\ connection' = [connection EXCEPT ![s] = "none"]
      /\ UNCHANGED <<state, invocation, deferred, generation, fired>>
  BY DEF ConnectLatched, Locks, SInv, TypeOK, SignalOK, IsLatched
<1>2. StateBelongs'
  BY <1>1 DEF StateBelongs
<1>3. ASSUME NEW u \in Threads, u # t PROVE ThreadBelongs(u)'
  <2>1. thread'[u] = thread[u]
    BY <1>1, <1>3 DEF SInv, TypeOK, ThreadsOK
  <2>2. Waiting(u)' = Waiting(u)
    BY <1>1, <1>3, Begins DEF SInv, TypeOK
  <2>3. QED
    BY <1>1, <2>1, <2>2, JoinBelongs
<1>4. ThreadBelongs(t)'
  <2>1. Waiting(t)' = <<s>>
    BY <1>1, Begins DEF SInv, TypeOK
  <2>2. Direct(t)'
    <3>1. thread'[t] = Calling(<<s>>, None) /\ Calling(<<s>>, None).args = None
      BY <1>1 DEF Calling, SInv, TypeOK, ThreadsOK
    <3>2. QED
      BY <3>1 DEF Direct
  <2>3. \A j \in 1..Len(joined) : joined[j].slot # s
    BY <1>1 DEF SInv, Joining
  <2>4. \A j \in 1..Len(joined') :
          joined'[j].slot = s => joined'[j].generation = generation
    BY <1>1, <2>3, Joined DEF SInv
  <2>5. \A k \in 1..Len(Waiting(t)') : Waiting(t)'[k] = s
    BY <2>1
  <2>6. QED
    BY <1>1, <2>2, <2>4, <2>5 DEF ThreadBelongs
<1>5. \A u \in Threads : InvocationBelongs(u)'
  BY <1>1, JoinBelongs
<1>6. DeferredBelongs'
  BY <1>1, JoinDeferredBelongs DEF SInv, TypeOK
<1>7. QED
  BY <1>2, <1>3, <1>4, <1>5, <1>6 DEF Belong

\* ConnectDeferred: the copy is of what this generation fired with.
LEMMA ConnectDeferredLatchedBelongs ==
  ASSUME SInv, NEW t \in Threads, NEW s \in Slots, ConnectDeferredLatched(t, s)
  PROVE  Belong'
<1>1. /\ IsLatched /\ Join(s) /\ connection[s] = "new"
      /\ state.slots = << >> /\ state.args \in Args
      /\ deferred' = [deferred EXCEPT ![s] = state.args]
      /\ connection' = [connection EXCEPT ![s] = "deferred"]
      /\ UNCHANGED <<state, thread, invocation, generation, fired>>
  BY DEF ConnectDeferredLatched, Locks, SInv, TypeOK, SignalOK, IsLatched
<1>2. StateBelongs'
  BY <1>1 DEF StateBelongs
<1>3. \A u \in Threads : ThreadBelongs(u)' /\ InvocationBelongs(u)'
  BY <1>1, WaitingSame, JoinBelongs
<1>4. DeferredBelongs'
  <2>1. fired[generation] = state.args
    BY DEF SInv, Firing
  <2>2. deferred'[s] = state.args
          /\ \A r \in Slots \ {s} : connection'[r] = connection[r]
                                      /\ deferred'[r] = deferred[r]
    BY <1>1 DEF SInv, TypeOK
  <2>3. QED
    BY <1>1, <2>1, <2>2, JoinDeferredBelongs
<1>5. QED
  BY <1>2, <1>3, <1>4 DEF Belong
-----------------------------------------------------------------------------
\* What a step that neither connects a slot, fires nor resets leaves alone.
Quiet == UNCHANGED <<state, generation, joined, fired>>

\* A thread whose waiting slots are some of those it had, for the same call.
GoesOn(u) ==
  /\ thread'[u].args = thread[u].args
  /\ \A k \in 1..Len(Waiting(u)') : \E l \in 1..Len(Waiting(u)) :
       Waiting(u)'[k] = Waiting(u)[l]

\* A thread with the same slots goes on.
LEMMA Unmoved ==
  ASSUME NEW u \in Threads, Waiting(u)' = Waiting(u),
         thread'[u].args = thread[u].args
  PROVE  GoesOn(u)
BY DEF GoesOn

\* What is left alone in such a step belongs where it is.
LEMMA QuietBelongs ==
  ASSUME Quiet, Belong
  PROVE  /\ StateBelongs'
         /\ \A u \in Threads : GoesOn(u) => ThreadBelongs(u)'
         /\ \A u \in Threads :
              invocation'[u] = invocation[u] => InvocationBelongs(u)'
         /\ (\A s \in Slots : connection'[s] = "deferred" =>
               connection[s] = "deferred" /\ deferred'[s] = deferred[s])
              => (TypeOK => DeferredBelongs')
<1>1. UNCHANGED <<joined, generation, fired, state>>
  BY DEF Quiet
<1>2. StateBelongs'
  BY <1>1 DEF Belong, StateBelongs, IsLatched
<1>3. ASSUME NEW u \in Threads, GoesOn(u) PROVE ThreadBelongs(u)'
  BY <1>1, <1>3 DEF Belong, ThreadBelongs, Direct, GoesOn
<1>4. ASSUME NEW u \in Threads, invocation'[u] = invocation[u]
      PROVE  InvocationBelongs(u)'
  BY <1>1, <1>4 DEF Belong, InvocationBelongs
<1>5. ASSUME \A s \in Slots : connection'[s] = "deferred" =>
               connection[s] = "deferred" /\ deferred'[s] = deferred[s], TypeOK
      PROVE  DeferredBelongs'
  BY <1>1, <1>5, JoinedTypes DEF Belong, DeferredBelongs
<1>6. QED
  BY <1>2, <1>3, <1>4, <1>5

\* A DeferredConnection passes on the copy it holds.
LEMMA RunDeferredConnectionBelongs ==
  ASSUME SInv, NEW t \in Threads, NEW s \in Slots, RunDeferredConnection(t, s)
  PROVE  Belong'
<1>0. Belong
  BY DEF SInv
<1>1. /\ Quiet /\ connection[s] = "deferred" /\ thread[t] = Idle
      /\ thread' = [thread EXCEPT ![t] = Calling(<<s>>, deferred[s])]
      /\ connection' = [connection EXCEPT ![s] = "none"]
      /\ UNCHANGED <<invocation, deferred>>
  BY DEF RunDeferredConnection, Quiet
<1>2. ASSUME NEW u \in Threads, u # t PROVE ThreadBelongs(u)'
  <2>1. thread'[u] = thread[u]
    BY <1>1, <1>2 DEF SInv, TypeOK, ThreadsOK
  <2>2. Waiting(u)' = Waiting(u)
    BY <1>1, <1>2, Begins DEF SInv, TypeOK
  <2>3. QED
    BY <1>0, <1>1, <2>1, <2>2, Unmoved, QuietBelongs
<1>3. ThreadBelongs(t)'
  <2>1. Waiting(t)' = <<s>>
    BY <1>1, Begins DEF SInv, TypeOK
  <2>2. deferred[s] \in Args /\ deferred[s] # None
    BY <1>1, DeferredHasArgs, ArgsAreNotNone
  <2>3. thread'[t].args = deferred[s]
    <3>1. thread'[t] = Calling(<<s>>, deferred[s])
      BY <1>1 DEF SInv, TypeOK, ThreadsOK
    <3>2. QED
      BY <3>1 DEF Calling
  <2>4. \A k \in 1..Len(Waiting(t)') : Waiting(t)'[k] = s
    BY <2>1
  <2>5. \A j \in 1..Len(joined) :
          joined[j].slot = s => fired[joined[j].generation] = deferred[s]
    BY <1>0, <1>1 DEF Belong, DeferredBelongs
  <2>6. QED
    BY <1>1, <2>2, <2>3, <2>4, <2>5 DEF ThreadBelongs, Direct, Quiet
<1>4. \A u \in Threads : InvocationBelongs(u)'
  BY <1>0, <1>1, QuietBelongs
<1>5. DeferredBelongs'
  <2>1. \A r \in Slots : connection'[r] = "deferred" =>
          connection[r] = "deferred" /\ deferred'[r] = deferred[r]
    BY <1>1 DEF SInv, TypeOK
  <2>2. QED
    BY <1>0, <1>1, <2>1, QuietBelongs DEF SInv
<1>6. QED
  BY <1>0, <1>1, <1>2, <1>3, <1>4, <1>5, QuietBelongs DEF Belong

\* Disconnecting a slot takes it to no other place.
LEMMA DisconnectBelongs ==
  ASSUME SInv, NEW t \in Threads, NEW s \in Slots, Disconnect(t, s)
  PROVE  Belong'
<1>1. /\ Belong /\ Quiet
      /\ connection' = [connection EXCEPT ![s] = "disconnected"]
      /\ UNCHANGED <<thread, invocation, deferred>>
  BY DEF Disconnect, SInv, Quiet
<1>2. \A u \in Threads : Waiting(u)' = Waiting(u)
  BY <1>1, WaitingSame
<1>3. \A u \in Threads : ThreadBelongs(u)' /\ InvocationBelongs(u)'
  BY <1>1, <1>2, Unmoved, QuietBelongs
<1>4. DeferredBelongs'
  <2>1. \A r \in Slots : connection'[r] = "deferred" =>
          connection[r] = "deferred" /\ deferred'[r] = deferred[r]
    BY <1>1 DEF SInv, TypeOK
  <2>2. QED
    BY <1>1, <2>1, QuietBelongs DEF SInv
<1>5. QED
  BY <1>1, <1>3, <1>4, QuietBelongs DEF Belong

\* A DeferredInvocation passes on the arguments it was made with.
LEMMA RunInvocationBelongs ==
  ASSUME SInv, NEW t \in Threads, RunInvocation(t)
  PROVE  Belong'
<1>0. Belong
  BY DEF SInv
<1>1. /\ Quiet /\ thread[t] = Idle /\ invocation[t] # None
      /\ invocation[t].args \in Args
      /\ thread' = [thread EXCEPT
                      ![t] = Calling(invocation[t].slots, invocation[t].args)]
      /\ invocation' = [invocation EXCEPT ![t] = None]
      /\ UNCHANGED <<connection, deferred>>
  BY DEF RunInvocation, Quiet, SInv, TypeOK
<1>2. ASSUME NEW u \in Threads, u # t
      PROVE  ThreadBelongs(u)' /\ InvocationBelongs(u)'
  <2>1. thread'[u] = thread[u] /\ invocation'[u] = invocation[u]
    BY <1>1, <1>2 DEF SInv, TypeOK, ThreadsOK
  <2>2. Waiting(u)' = Waiting(u)
    BY <1>1, <1>2, Begins DEF SInv, TypeOK
  <2>3. QED
    BY <1>0, <1>1, <2>1, <2>2, Unmoved, QuietBelongs
<1>3. ThreadBelongs(t)'
  <2>1. Waiting(t)' = invocation[t].slots
    BY <1>1, Begins DEF SInv, TypeOK
  <2>2. invocation[t].args # None
    BY <1>1, ArgsAreNotNone
  <2>3. thread'[t].args = invocation[t].args
    <3>1. thread'[t] = Calling(invocation[t].slots, invocation[t].args)
      BY <1>1 DEF SInv, TypeOK, ThreadsOK
    <3>2. QED
      BY <3>1 DEF Calling
  <2>4. InvocationBelongs(t)
    BY <1>0 DEF Belong
  <2>5. QED
    BY <1>1, <2>1, <2>2, <2>3, <2>4
       DEF ThreadBelongs, InvocationBelongs, Direct, Quiet
<1>4. InvocationBelongs(t)'
  <2>1. invocation'[t] = None
    BY <1>1 DEF SInv, TypeOK
  <2>2. QED
    BY <2>1 DEF InvocationBelongs
<1>5. DeferredBelongs'
  BY <1>0, <1>1, QuietBelongs DEF SInv
<1>6. QED
  BY <1>0, <1>1, <1>2, <1>3, <1>4, <1>5, QuietBelongs DEF Belong

\* A thread that calls slots goes on with those it has, until it has none.
LEMMA ThreadsGoOn ==
  ASSUME SInv, NEW t \in Threads,
         NextSlot(t) \/ ReturnFromSlot(t) \/ EndOfCalls(t)
  PROVE  \A u \in Threads : GoesOn(u) \/ Waiting(u)' = << >>
<1>1. thread \in [Threads -> Runners]
  BY DEF SInv, TypeOK, ThreadsOK
<1>2. \A u \in Threads : u # t => thread'[u] = thread[u]
  BY <1>1 DEF NextSlot, ReturnFromSlot, EndOfCalls
<1>3. \A u \in Threads : u # t => GoesOn(u)
  BY <1>2 DEF GoesOn, Waiting
<1>4. CASE EndOfCalls(t)
  <2>1. thread'[t].at = "idle" /\ thread'[t].slots = << >>
    BY <1>1, <1>4, Values DEF EndOfCalls
  <2>2. Waiting(t)' = << >>
    BY <2>1 DEF Waiting
  <2>3. QED
    BY <1>3, <2>2
<1>5. CASE ReturnFromSlot(t)
  <2>1. /\ thread[t].at = "in slot" /\ thread'[t].at = "calling"
        /\ thread'[t].slots = Tail(thread[t].slots)
        /\ thread'[t].args = thread[t].args
    BY <1>1, <1>5 DEF ReturnFromSlot, Calling
  <2>2. Waiting(t) = Tail(thread[t].slots) /\ Waiting(t)' = thread'[t].slots
    BY <2>1 DEF Waiting
  <2>3. GoesOn(t)
    BY <2>1, <2>2 DEF GoesOn
  <2>4. QED
    BY <1>3, <2>3
<1>6. CASE NextSlot(t)
  <2>1. /\ thread[t].at = "calling" /\ thread[t].slots # << >>
        /\ thread[t].slots \in Seq(Slots)
    BY <1>1, <1>6 DEF NextSlot, Runners
  <2>2. Waiting(t) = thread[t].slots
    BY <2>1 DEF Waiting
  <2>3. thread'[t].args = thread[t].args /\ Waiting(t)' = Tail(thread[t].slots)
    <3>1. CASE connection[Head(thread[t].slots)] = "disconnected"
      <4>1. /\ thread'[t].at = "calling" /\ thread'[t].args = thread[t].args
            /\ thread'[t].slots = Tail(thread[t].slots)
        BY <1>1, <1>6, <3>1 DEF NextSlot, Runners
      <4>2. QED
        BY <4>1 DEF Waiting
    <3>2. CASE connection[Head(thread[t].slots)] # "disconnected"
      <4>1. /\ thread'[t].at = "in slot" /\ thread'[t].args = thread[t].args
            /\ thread'[t].slots = thread[t].slots
        BY <1>1, <1>6, <3>2 DEF NextSlot, Runners
      <4>2. Waiting(t)' = Tail(thread'[t].slots)
        BY <4>1 DEF Waiting
      <4>3. QED
        BY <4>1, <4>2
    <3>3. QED
      BY <3>1, <3>2
  <2>4. GoesOn(t)
    BY <2>1, <2>2, <2>3, TailAt DEF GoesOn
  <2>5. QED
    BY <1>3, <2>4
<1>7. QED
  BY <1>4, <1>5, <1>6

\* The slots that a thread has still to call are for the same arguments.
LEMMA CallsBelong ==
  ASSUME SInv, NEW t \in Threads,
         NextSlot(t) \/ ReturnFromSlot(t) \/ EndOfCalls(t)
  PROVE  Belong'
<1>1. /\ Belong /\ Quiet
      /\ UNCHANGED <<invocation, connection, deferred>>
  BY DEF NextSlot, ReturnFromSlot, EndOfCalls, Quiet, SInv
<1>2. ASSUME NEW u \in Threads PROVE ThreadBelongs(u)'
  <2>1. CASE GoesOn(u)
    BY <1>1, <2>1, QuietBelongs
  <2>2. CASE Waiting(u)' = << >>
    BY <2>2 DEF ThreadBelongs
  <2>3. QED
    BY <2>1, <2>2, ThreadsGoOn
<1>3. (\A u \in Threads : InvocationBelongs(u)') /\ DeferredBelongs'
  BY <1>1, QuietBelongs DEF SInv
<1>4. QED
  BY <1>1, <1>2, <1>3, QuietBelongs DEF Belong
-----------------------------------------------------------------------------
\* Firing gives the slots in *state_ their arguments, and no other slot.
LEMMA FireBelongs ==
  ASSUME SInv, mutex = None, ~IsLatched, NEW v \in Args, Fire(v),
         UNCHANGED <<joined, generation, connection, deferred>>
  PROVE  /\ StateBelongs' /\ DeferredBelongs'
         /\ \A u \in Threads : Waiting(u)' = Waiting(u)
                                 /\ thread'[u].args = thread[u].args
                               => ThreadBelongs(u)'
         /\ \A u \in Threads : invocation'[u] = invocation[u]
                               => InvocationBelongs(u)'
<1>1. \A g \in 0..MaxResets : g # generation => fired'[g] = fired[g]
  BY DEF Fire, SInv, TypeOK
<1>2. \A j \in 1..Len(joined) : joined[j].slot \in Slots
                                  /\ joined[j].generation \in 0..MaxResets
  BY JoinedTypes DEF SInv
<1>3. \A h \in Holders \ {OfState} :
        \A k \in 1..Len(Queues[h]), j \in 1..Len(joined) :
          joined[j].slot = Queues[h][k] =>
            fired'[joined[j].generation] = fired[joined[j].generation]
  BY <1>1, <1>2, OnlyInState DEF SInv
<1>4. StateBelongs'
  <2>1. state'.slots = << >>
    BY Values DEF Fire
  <2>2. QED
    BY <2>1 DEF StateBelongs
<1>5. ASSUME NEW u \in Threads, Waiting(u)' = Waiting(u),
             thread'[u].args = thread[u].args
      PROVE  ThreadBelongs(u)'
  <2>1. OfThread(u) \in Holders \ {OfState} /\ Queues[OfThread(u)] = Waiting(u)
    BY Places, ReadNow DEF Read
  <2>2. ThreadBelongs(u)
    BY DEF SInv, Belong
  <2>3. CASE Direct(u)
    BY <1>5, <2>3, NoneUnderMutex DEF ThreadBelongs
  <2>4. CASE ~Direct(u)
    BY <1>3, <1>5, <2>1, <2>2, <2>4 DEF ThreadBelongs, Direct
  <2>5. QED
    BY <2>3, <2>4
<1>6. ASSUME NEW u \in Threads, invocation'[u] = invocation[u]
      PROVE  InvocationBelongs(u)'
  <2>1. OfInvocation(u) \in Holders \ {OfState}
          /\ (invocation[u] # None =>
                Queues[OfInvocation(u)] = invocation[u].slots)
    BY Places, ReadNow DEF Read
  <2>2. InvocationBelongs(u)
    BY DEF SInv, Belong
  <2>3. QED
    BY <1>3, <1>6, <2>1, <2>2 DEF InvocationBelongs
<1>7. DeferredBelongs'
  <2>1. SUFFICES ASSUME NEW j \in 1..Len(joined),
                        connection[joined[j].slot] = "deferred"
                 PROVE  /\ deferred[joined[j].slot] \in Args
                        /\ fired'[joined[j].generation] =
                             deferred[joined[j].slot]
    BY DEF DeferredBelongs
  <2>2. DeferredBelongs
    BY DEF SInv, Belong
  <2>3. Queues[OfDeferred(joined[j].slot)] = <<joined[j].slot>>
          /\ OfDeferred(joined[j].slot) \in Holders \ {OfState}
    BY <1>2, <2>1, Places, ReadNow DEF Read
  <2>4. 1 \in 1..Len(Queues[OfDeferred(joined[j].slot)])
          /\ joined[j].slot = Queues[OfDeferred(joined[j].slot)][1]
    BY <2>3
  <2>5. QED
    BY <1>3, <2>1, <2>2, <2>3, <2>4 DEF DeferredBelongs
<1>8. QED
  BY <1>4, <1>5, <1>6, <1>7

\* operator(): the slots are of the generation that fires.
LEMMA CallBelongs ==
  ASSUME SInv, NEW t \in Threads, NEW v \in Args, Call(t, v)
  PROVE  Belong'
<1>1. /\ mutex = None /\ ~IsLatched /\ thread[t] = Idle /\ Fire(v)
      /\ state.slots \in Seq(Slots)
      /\ thread' = [thread EXCEPT ![t] = Calling(state.slots, None)]
      /\ UNCHANGED <<joined, generation, connection, deferred, invocation>>
  BY DEF Call, CanFire, Locks, Moved, SInv, TypeOK, SignalOK, Signals
<1>2. ASSUME NEW u \in Threads, u # t PROVE ThreadBelongs(u)'
  <2>1. thread'[u] = thread[u]
    BY <1>1, <1>2 DEF SInv, TypeOK, ThreadsOK
  <2>2. Waiting(u)' = Waiting(u)
    BY <1>1, <1>2, Begins DEF SInv, TypeOK
  <2>3. QED
    BY <1>1, <2>1, <2>2, FireBelongs
<1>3. ThreadBelongs(t)'
  <2>1. Waiting(t)' = state.slots
    BY <1>1, Begins DEF SInv, TypeOK
  <2>2. Direct(t)'
    <3>1. thread'[t] = Calling(state.slots, None)
      BY <1>1 DEF SInv, TypeOK, ThreadsOK
    <3>2. QED
      BY <3>1 DEF Direct, Calling
  <2>3. StateBelongs
    BY DEF SInv, Belong
  <2>4. QED
    BY <1>1, <2>1, <2>2, <2>3 DEF ThreadBelongs, StateBelongs
<1>4. QED
  BY <1>1, <1>2, <1>3, FireBelongs DEF Belong

\* InvokeDeferred: and they are kept with the arguments.
LEMMA InvokeDeferredBelongs ==
  ASSUME SInv, NEW t \in Threads, NEW v \in Args, InvokeDeferred(t, v)
  PROVE  Belong'
<1>1. /\ mutex = None /\ ~IsLatched /\ Fire(v)
      /\ invocation' = [invocation EXCEPT ![t] = [slots |-> state.slots,
                                                  args |-> v]]
      /\ UNCHANGED <<joined, generation, connection, deferred, thread>>
  BY DEF InvokeDeferred, CanFire, Locks, Moved
<1>2. \A u \in Threads : ThreadBelongs(u)'
  BY <1>1, WaitingSame, FireBelongs
<1>3. ASSUME NEW u \in Threads, u # t PROVE InvocationBelongs(u)'
  <2>1. invocation'[u] = invocation[u]
    BY <1>1, <1>3 DEF SInv, TypeOK
  <2>2. QED
    BY <1>1, <2>1, FireBelongs
<1>4. InvocationBelongs(t)'
  <2>1. invocation'[t].slots = state.slots /\ invocation'[t].args = v
    BY <1>1 DEF SInv, TypeOK
  <2>2. fired'[generation] = v
    BY <1>1 DEF Fire, SInv, TypeOK
  <2>3. StateBelongs
    BY DEF SInv, Belong
  <2>4. QED
    BY <1>1, <2>1, <2>2, <2>3 DEF InvocationBelongs, StateBelongs
<1>5. QED
  BY <1>1, <1>2, <1>3, <1>4, FireBelongs DEF Belong

\* reset finds nobody who calls slots under mutex_.
LEMMA ResetBelongs ==
  ASSUME SInv, NEW t \in Threads, Reset(t)
  PROVE  Belong'
<1>1. /\ mutex = None /\ state' = Unlatched
      /\ UNCHANGED <<joined, fired, thread, invocation, deferred>>
      /\ connection' = [s \in Slots |->
            IF \E k \in DOMAIN state.slots : state.slots[k] = s
            THEN "disconnected" ELSE connection[s]]
  BY DEF Reset, Locks
<1>2. StateBelongs'
  BY <1>1, Values DEF StateBelongs
<1>3. ASSUME NEW u \in Threads PROVE ThreadBelongs(u)' /\ InvocationBelongs(u)'
  <2>1. Waiting(u)' = Waiting(u)
    BY <1>1, WaitingSame
  <2>2. ThreadBelongs(u) /\ InvocationBelongs(u)
    BY DEF SInv, Belong
  <2>3. CASE Direct(u)
    BY <1>1, <2>1, <2>2, <2>3, NoneUnderMutex
       DEF ThreadBelongs, InvocationBelongs
  <2>4. CASE ~Direct(u)
    BY <1>1, <2>1, <2>2, <2>4 DEF ThreadBelongs, InvocationBelongs, Direct
  <2>5. QED
    BY <2>3, <2>4
<1>4. DeferredBelongs'
  <2>1. \A s \in Slots : connection'[s] = "deferred" =>
          connection[s] = "deferred"
    BY <1>1
  <2>2. DeferredBelongs
    BY DEF SInv, Belong
  <2>3. QED
    BY <1>1, <2>1, <2>2, JoinedTypes DEF DeferredBelongs, SInv
<1>5. QED
  BY <1>2, <1>3, <1>4 DEF Belong
-----------------------------------------------------------------------------
\* A thread that goes on with the slots it has, or with none, does.
LEMMA StillLast ==
  ASSUME DirectLast, NEW u \in Threads, UNCHANGED joined,
         GoesOn(u) \/ Waiting(u)' = << >>
  PROVE  DirectAreLast(u)'
<1>1. DirectAreLast(u)
  BY DEF DirectLast
<1>2. CASE GoesOn(u)
  BY <1>1, <1>2 DEF DirectAreLast, Direct, GoesOn
<1>3. CASE Waiting(u)' = << >>
  BY <1>3 DEF DirectAreLast
<1>4. QED
  BY <1>2, <1>3

\* The threads that another one's call leaves as they are.
LEMMA BeginsAlone ==
  ASSUME TypeOK, NEW t \in Threads, thread[t] = Idle, NEW q, NEW a,
         thread' = [thread EXCEPT ![t] = Calling(q, a)]
  PROVE  /\ \A u \in Threads : u # t => GoesOn(u)
         /\ thread'[t].args = a /\ Waiting(t)' = q
<1>1. thread'[t] = Calling(q, a) /\ \A u \in Threads : u # t =>
        thread'[u] = thread[u]
  BY DEF TypeOK, ThreadsOK
<1>2. thread'[t].args = a
  BY <1>1 DEF Calling
<1>3. Waiting(t)' = q /\ \A u \in Threads : u # t => Waiting(u)' = Waiting(u)
  BY Begins DEF TypeOK
<1>4. QED
  BY <1>1, <1>2, <1>3, Unmoved

\* Every operation keeps DirectLast: slots are connected under mutex_.
LEMMA DirectLastKept ==
  ASSUME SInv, Next
  PROVE  DirectLast'
<1> USE DEF SInv
<1>1. ASSUME NEW t \in Threads, NEW s \in Slots, ConnectUnlatched(t, s),
             NEW u \in Threads
      PROVE  DirectAreLast(u)'
  <2>1. /\ Join(s) /\ ~IsLatched /\ connection[s] = "new" /\ UNCHANGED thread
    BY <1>1 DEF ConnectUnlatched
  <2>2. Waiting(u)' = Waiting(u) /\ (Direct(u)' <=> Direct(u))
    BY <2>1, WaitingSame DEF Direct
  <2>3. SUFFICES ASSUME Direct(u), NEW k \in 1..Len(Waiting(u)),
                        NEW i \in 1..Len(joined'), NEW j \in 1..Len(joined'),
                        joined'[i].slot = Waiting(u)[k], i < j,
                        joined'[i].generation = joined'[j].generation
                 PROVE  joined'[j].waits
    BY <2>2 DEF DirectAreLast
  <2>4. i \in 1..Len(joined)
    BY <2>1, <2>3, Joined
  <2>5. CASE j \in 1..Len(joined)
    <3>1. DirectAreLast(u)
      BY DEF DirectLast
    <3>2. QED
      BY <2>1, <2>3, <2>4, <2>5, <3>1, Joined DEF DirectAreLast
  <2>6. CASE j = Len(joined) + 1
    BY <2>1, <2>6, Joined
  <2>7. QED
    BY <2>1, <2>5, <2>6, Joined
<1>2. ASSUME NEW t \in Threads, NEW s \in Slots, ConnectLatched(t, s),
             NEW u \in Threads
      PROVE  DirectAreLast(u)'
  <2>1. /\ mutex = None /\ thread[t] = Idle /\ Join(s) /\ connection[s] = "new"
        /\ thread' = [thread EXCEPT ![t] = Calling(<<s>>, None)]
    BY <1>2 DEF ConnectLatched, Locks
  <2>2. CASE u # t
    <3>1. thread'[u] = thread[u] /\ Waiting(u)' = Waiting(u)
      BY <2>1, <2>2, Begins DEF TypeOK, ThreadsOK
    <3>2. Direct(u)' => Waiting(u)' = << >>
      BY <2>1, <3>1, NoneUnderMutex DEF Direct
    <3>3. QED
      BY <3>2 DEF DirectAreLast
  <2>3. CASE u = t
    <3>1. \A k \in 1..Len(Waiting(u)') : Waiting(u)'[k] = s
      <4>1. Waiting(t)' = <<s>>
        BY <2>1, BeginsAlone
      <4>2. QED
        BY <2>3, <4>1
    <3>2. \A i \in 1..Len(joined') : joined'[i].slot = s => i = Len(joined')
      <4>1. \A i \in 1..Len(joined) : joined[i].slot # s
        BY <2>1 DEF Joining
      <4>2. QED
        BY <2>1, <4>1, Joined
    <3>3. QED
      BY <3>1, <3>2 DEF DirectAreLast
  <2>4. QED
    BY <2>2, <2>3
<1>3. ASSUME NEW t \in Threads, NEW s \in Slots, ConnectDeferredLatched(t, s),
             NEW u \in Threads
      PROVE  DirectAreLast(u)'
  <2>1. mutex = None /\ UNCHANGED thread
    BY <1>3 DEF ConnectDeferredLatched, Locks
  <2>2. Direct(u)' => Waiting(u)' = << >>
    BY <2>1, WaitingSame, NoneUnderMutex DEF Direct
  <2>3. QED
    BY <2>2 DEF DirectAreLast
<1>4. ASSUME NEW t \in Threads, NEW v \in Args, Call(t, v), NEW u \in Threads
      PROVE  DirectAreLast(u)'
  <2>1. /\ thread[t] = Idle /\ ~IsLatched /\ UNCHANGED joined
        /\ thread' = [thread EXCEPT ![t] = Calling(state.slots, None)]
    BY <1>4 DEF Call, CanFire, Locks, Moved
  <2>2. CASE u # t
    BY <2>1, <2>2, BeginsAlone, StillLast
  <2>3. CASE u = t
    <3>1. Waiting(u)' = state.slots
      BY <2>1, <2>3, BeginsAlone
    <3>2. StateBelongs
      BY DEF Belong
    <3>3. QED
      BY <2>1, <3>1, <3>2 DEF DirectAreLast, StateBelongs, Joining
  <2>4. QED
    BY <2>2, <2>3
<1>5. ASSUME UNCHANGED <<thread, joined>>, NEW u \in Threads
      PROVE  DirectAreLast(u)'
  BY <1>5, WaitingSame, Unmoved, StillLast
<1>6. ASSUME NEW t \in Threads, NEW q, NEW v \in Args, thread[t] = Idle,
             thread' = [thread EXCEPT ![t] = Calling(q, v)], UNCHANGED joined,
             NEW u \in Threads
      PROVE  DirectAreLast(u)'
  <2>1. CASE u # t
    BY <1>6, <2>1, BeginsAlone, StillLast
  <2>2. CASE u = t
    <3>1. thread'[t].args = v /\ v # None
      BY <1>6, BeginsAlone, ArgsAreNotNone
    <3>2. QED
      BY <2>2, <3>1 DEF DirectAreLast, Direct
  <2>3. QED
    BY <2>1, <2>2
<1>7. ASSUME NEW t \in Threads, NEW s \in Slots, RunDeferredConnection(t, s),
             NEW u \in Threads
      PROVE  DirectAreLast(u)'
  BY <1>6, <1>7, DeferredHasArgs DEF RunDeferredConnection
<1>8. ASSUME NEW t \in Threads, RunInvocation(t), NEW u \in Threads
      PROVE  DirectAreLast(u)'
  <2>1. invocation[t].args \in Args
    BY <1>8 DEF RunInvocation, TypeOK
  <2>2. QED
    BY <1>6, <1>8, <2>1 DEF RunInvocation
<1>9. ASSUME NEW t \in Threads, NEW u \in Threads,
             NextSlot(t) \/ ReturnFromSlot(t) \/ EndOfCalls(t)
      PROVE  DirectAreLast(u)'
  <2>1. UNCHANGED joined
    BY <1>9 DEF NextSlot, ReturnFromSlot, EndOfCalls
  <2>2. QED
    BY <1>9, <2>1, ThreadsGoOn, StillLast
<1>10. ASSUME NEW u \in Threads PROVE DirectAreLast(u)'
  BY <1>1, <1>2, <1>3, <1>4, <1>5, <1>7, <1>8, <1>9
     DEF Next, Runs, Disconnect, InvokeDeferred, Reset
<1>11. QED
  BY <1>10 DEF DirectLast
-----------------------------------------------------------------------------
\* The invariant holds at first,
LEMMA SInvInitially == Init => SInv
<1> SUFFICES ASSUME Init PROVE SInv
  OBVIOUS
<1>1. TypeOK
  BY TypesInitially
<1>2. /\ joined = << >> /\ calls = << >> /\ generation = 0 /\ mutex = None
      /\ thread = [t \in Threads |-> Idle] /\ state.slots = << >>
      /\ invocation = [t \in Threads |-> None]
      /\ connection = [s \in Slots |-> "new"]
      /\ fired = [g \in 0..MaxResets |-> IF g = 0 THEN state.args ELSE None]
  BY Values DEF Init
<1>3. \A t \in Threads : Waiting(t) = << >>
  BY <1>2, IdleWaits
<1>4. \A h \in Holders : Queues[h] = << >>
  BY <1>2, <1>3, ReadNow, Places DEF Read
<1>5. \A s : ~Holds(Queues, s) /\ ~WasCalled(s)
  BY <1>2, <1>4, ReadNow DEF Holds, Contains, WasCalled, Read
<1>6. Firing
  <2>1. MaxResets \in Nat
    BY LatchingSignalAssumption
  <2>2. fired[0] = state.args /\ \A g \in 0..MaxResets : g > 0 =>
          fired[g] = None
    BY <1>2, <2>1
  <2>3. QED
    BY <1>2, <2>2 DEF Firing
<1>7. MutexHeld
  <2>1. \A t \in Threads : thread[t].at = "idle" /\ mutex # t
    BY <1>2, Values, LatchingSignalAssumption
  <2>2. QED
    BY <1>2, <2>1 DEF MutexHeld
<1>8. Joining
  BY <1>2 DEF Joining
<1>9. Lines
  BY <1>2, <1>4, ReadNow DEF Lines, Apart, Together, Read
<1>10. Fresh /\ Covered
  BY <1>2, <1>5 DEF Fresh, Covered
<1>11. Belong
  BY <1>2, <1>3 DEF Belong, StateBelongs, ThreadBelongs, InvocationBelongs,
                    DeferredBelongs
<1>12. DirectLast
  BY <1>3 DEF DirectLast, DirectAreLast
<1>13. QED
  BY <1>1, <1>6, <1>7, <1>8, <1>9, <1>10, <1>11, <1>12 DEF SInv

\* every operation keeps the lines of waiting slots,
LEMMA WaitsKept ==
  ASSUME SInv, TypeOK', Next
  PROVE  Waits'
BY ConnectUnlatchedWaits, ConnectLatchedWaits, ConnectDeferredLatchedWaits,
   RunDeferredConnectionWaits, CallWaits, InvokeDeferredWaits,
   RunInvocationWaits, NextSlotWaits, ResetWaits, OthersWait DEF Next, Runs

\* and the arguments they wait for,
LEMMA BelongKept ==
  ASSUME SInv, Next
  PROVE  Belong'
BY ConnectUnlatchedBelongs, ConnectLatchedBelongs,
   ConnectDeferredLatchedBelongs, RunDeferredConnectionBelongs,
   DisconnectBelongs, CallBelongs, InvokeDeferredBelongs, ResetBelongs,
   RunInvocationBelongs, CallsBelong DEF Next, Runs

\* so that every step keeps the invariant.
LEMMA SInvKept == SInv /\ [Next]_vars => SInv'
<1> SUFFICES ASSUME SInv, [Next]_vars PROVE SInv'
  OBVIOUS
<1>1. TypeOK'
  BY TypesKept DEF SInv
<1>2. CASE Next
  <2>1. Firing' /\ MutexHeld' /\ Joining' /\ Waits' /\ Belong' /\ DirectLast'
    BY <1>1, <1>2, FiringKept, MutexHeldKept, JoiningKept, WaitsKept,
       BelongKept, DirectLastKept
  <2>2. QED
    BY <1>1, <2>1 DEF SInv, Waits
<1>3. CASE UNCHANGED vars
  <2>1. UNCHANGED <<state, mutex, thread, invocation, connection, deferred,
                    generation, joined, fired, calls>>
    BY <1>3 DEF vars
  <2>2. Queues' = Queues
    BY <2>1 DEF Queues, Queue, Waiting, Holders, OfState, OfThread,
                OfInvocation, OfDeferred
  <2>3. Lines' /\ Fresh' /\ Covered'
    BY <2>1, <2>2 DEF SInv, Lines, Apart, Together, Fresh, Covered, Holds,
                      Contains, WasCalled
  <2>4. Firing' /\ MutexHeld' /\ Joining'
    BY <2>1 DEF SInv, Firing, MutexHeld, Joining, Direct, IsLatched
  <2>5. Belong' /\ DirectLast'
    <3>1. /\ Belong /\ Quiet /\ DirectLast
          /\ \A u \in Threads : Waiting(u)' = Waiting(u)
      BY <2>1, WaitingSame DEF SInv, Quiet
    <3>2. \A u \in Threads : GoesOn(u)
      BY <2>1, <3>1, Unmoved
    <3>3. \A u \in Threads : DirectAreLast(u)'
      BY <2>1, <3>1, <3>2, StillLast
    <3>4. \A u \in Threads : ThreadBelongs(u)' /\ InvocationBelongs(u)'
      BY <2>1, <3>1, <3>2, QuietBelongs
    <3>5. StateBelongs' /\ DeferredBelongs'
      BY <2>1, <3>1, QuietBelongs DEF SInv
    <3>6. QED
      BY <3>3, <3>4, <3>5 DEF Belong, DirectLast
  <2>6. QED
    BY <1>1, <2>3, <2>4, <2>5 DEF SInv
<1>4. QED
  BY <1>2, <1>3

\* Where every slot waits, in what order, what it will be called with and
\* who holds mutex_: the invariant of every state, for any threads, slots,
\* arguments and number of resets.
THEOREM Invariance == Spec => []SInv
BY SInvInitially, SInvKept, PTL DEF Spec
-----------------------------------------------------------------------------
\* The places of the record of joins,
LEMMA JoinedDomain == TypeOK => DOMAIN joined = 1..Len(joined)
BY LenProperties DEF TypeOK

\* and of the record of calls.
LEMMA CallsDomain == TypeOK =>
  DOMAIN calls = 1..Len(calls) /\ Len(calls) \in Nat
BY LenProperties DEF TypeOK

\* Once nobody is calling slots and no deferred call is outstanding, a slot
\* that was connected to a signal that has fired has been called, unless it
\* was disconnected or its DeferredConnection has not been called (28-110).
THEOREM SlotsAreNotMissed == Spec => []NoSlotMissed
<1>1. SInv => NoSlotMissed
  <2>1. SUFFICES ASSUME SInv,
                        \A t \in Threads : thread[t] = Idle
                          /\ invocation[t] = None,
                        NEW j \in 1..Len(joined), NEW s, s = joined[j].slot,
                        connection[s] \notin {"deferred", "disconnected"},
                        ~WasCalled(s)
                 PROVE  fired[joined[j].generation] = None
    BY JoinedDomain DEF NoSlotMissed, SInv
  <2> USE DEF SInv
  <2>2. s \in Slots
    BY <2>1, JoinedTypes
  <2>3. connection[s] \in {"connected", "none"}
    BY <2>1, <2>2 DEF Joining, TypeOK
  <2>4. Holds(Queues, s)
    BY <2>1, <2>2, <2>3 DEF Covered
  <2>5. PICK h \in Holders : \E k \in 1..Len(Queues[h]) : Queues[h][k] = s
    BY <2>4, ReadNow DEF Holds, Contains, Read
  <2>6. CASE h = OfState
    <3>1. joined[j].generation = generation /\ ~IsLatched
      BY <2>1, <2>5, <2>6, ReadNow DEF Read, Belong, StateBelongs
    <3>2. QED
      BY <2>1, <3>1 DEF Firing, TypeOK, SignalOK, Signals, IsLatched
  <2>7. ASSUME NEW t \in Threads, h = OfThread(t) PROVE FALSE
    <3>1. Queues[h] = << >>
      BY <2>1, <2>7, IdleWaits, ReadNow DEF Read
    <3>2. QED
      BY <2>5, <3>1
  <2>8. ASSUME NEW t \in Threads, h = OfInvocation(t) PROVE FALSE
    <3>1. Queues[h] = << >>
      BY <2>1, <2>8, ReadNow DEF Read
    <3>2. QED
      BY <2>5, <3>1
  <2>9. ASSUME NEW r \in Slots, h = OfDeferred(r) PROVE FALSE
    <3>1. CASE connection[r] = "deferred"
      <4>1. Queues[h] = <<r>>
        BY <2>9, <3>1, ReadNow DEF Read
      <4>2. r = s
        BY <2>5, <4>1
      <4>3. QED
        BY <2>3, <3>1, <4>2
    <3>2. CASE connection[r] # "deferred"
      <4>1. Queues[h] = << >>
        BY <2>9, <3>2, ReadNow DEF Read
      <4>2. QED
        BY <2>5, <4>1
    <3>3. QED
      BY <3>1, <3>2
  <2>10. QED
    BY <2>6, <2>7, <2>8, <2>9, Places
<1>2. QED
  BY <1>1, Invariance, PTL
-----------------------------------------------------------------------------
\* The call that NextSlot makes.
Made(t) == [slot |-> Head(thread[t].slots), args |-> ArgsPassed(t),
            direct |-> Direct(t)]

\* A call that NextSlot makes is of the first waiting slot, with the
\* arguments its generation fired with.
LEMMA NextCall ==
  ASSUME SInv, NEW t \in Threads, NextSlot(t)
  PROVE  \/ UNCHANGED calls
         \/ /\ calls' = Append(calls, Made(t))
            /\ Made(t) \in Calls
            /\ 1 \in 1..Len(Waiting(t)) /\ Made(t).slot = Waiting(t)[1]
            /\ Made(t).direct = Direct(t)
            /\ \E j \in 1..Len(joined) :
                 /\ joined[j].slot = Made(t).slot
                 /\ Made(t).args = fired[joined[j].generation]
                 /\ Made(t).args # None
<1> USE DEF SInv
<1>1. CASE connection[Head(thread[t].slots)] = "disconnected"
  BY <1>1 DEF NextSlot
<1>2. CASE connection[Head(thread[t].slots)] # "disconnected"
  <2>1. /\ thread[t] \in Runners /\ thread[t].at = "calling"
        /\ thread[t].slots # << >> /\ thread[t].slots \in Seq(Slots)
        /\ calls' = Append(calls, Made(t))
    BY <1>2 DEF NextSlot, Made, TypeOK, ThreadsOK, Runners
  <2>2. Waiting(t) = thread[t].slots
    BY <2>1 DEF Waiting
  <2>3. /\ Made(t).slot = Head(thread[t].slots) /\ Made(t).args = ArgsPassed(t)
        /\ Made(t).direct = Direct(t) /\ Direct(t) \in BOOLEAN
    BY DEF Made, Direct
  <2>4. /\ 1 \in 1..Len(Waiting(t)) /\ Made(t).slot = Waiting(t)[1]
        /\ Made(t).slot \in Slots
    BY <2>1, <2>2, <2>3, TailAt
  <2>5. Holds(Queues, Made(t).slot)
    BY <2>4, ReadNow, Places DEF Holds, Contains, Read
  <2>6. PICK j \in 1..Len(joined) : joined[j].slot = Made(t).slot
    BY <2>4, <2>5 DEF Fresh, Joining
  <2>7. ThreadBelongs(t)
    BY DEF Belong
  <2>8. Made(t).args = fired[joined[j].generation] /\ Made(t).args # None
          /\ Made(t).args \in Args \cup {None}
    <3>1. CASE mutex = t
      <4>1. Direct(t) /\ IsLatched
        BY <3>1, LatchingSignalAssumption DEF MutexHeld
      <4>2. joined[j].generation = generation
        BY <2>4, <2>6, <2>7, <4>1 DEF ThreadBelongs
      <4>3. Made(t).args = state.args /\ state.args \in Args
        BY <2>3, <3>1, <4>1 DEF ArgsPassed, IsLatched, TypeOK, SignalOK
      <4>4. QED
        BY <4>2, <4>3, ArgsAreNotNone DEF Firing
    <3>2. CASE mutex # t
      <4>1. ~Direct(t)
        BY <2>1, <3>2 DEF MutexHeld
      <4>2. Made(t).args = thread[t].args /\ thread[t].args # None
              /\ thread[t].args \in Args \cup {None}
        BY <2>1, <2>3, <3>2, <4>1 DEF ArgsPassed, Direct, Runners
      <4>3. QED
        BY <2>4, <2>6, <2>7, <4>1, <4>2 DEF ThreadBelongs
    <3>3. QED
      BY <3>1, <3>2
  <2>9. Made(t) \in Calls
    BY <2>3, <2>4, <2>8 DEF Made, Calls
  <2>10. QED
    BY <2>1, <2>3, <2>4, <2>6, <2>8, <2>9
<1>3. QED
  BY <1>1, <1>2

\* A slot that waits has not been called.
LEMMA WaitingIsUncalled ==
  ASSUME SInv, NEW t \in Threads, NEW k \in 1..Len(Waiting(t))
  PROVE  \A l \in 1..Len(calls) : calls[l].slot # Waiting(t)[k]
<1>1. Holds(Queues, Waiting(t)[k]) /\ Waiting(t)[k] \in Slots
  <2>1. OfThread(t) \in Holders /\ Queues[OfThread(t)] = Waiting(t)
    BY Places, ReadNow DEF Read
  <2>2. Queues \in [Holders -> Seq(Slots)]
    BY QueuesAreSequences DEF SInv
  <2>3. Waiting(t) \in Seq(Slots)
    BY <2>1, <2>2
  <2>4. Waiting(t)[k] \in Slots
    BY <2>3
  <2>5. QED
    BY <2>1, <2>2, <2>4 DEF Holds, Contains
<1>2. ~WasCalled(Waiting(t)[k])
  BY <1>1 DEF SInv, Fresh
<1>3. QED
  BY <1>2, CallsDomain DEF WasCalled, SInv

\* Nor has one that is new.
LEMMA NewIsUncalled ==
  ASSUME SInv, NEW s \in Slots, connection[s] = "new"
  PROVE  \A l \in 1..Len(calls) : calls[l].slot # s
BY CallsDomain DEF SInv, Fresh, WasCalled

\* Every other step keeps the calls and the slots that are joined, or puts
\* one at their end.
LEMMA JoinedGrows ==
  ASSUME SInv, Next, \A t \in Threads : ~NextSlot(t)
  PROVE  /\ UNCHANGED calls
         /\ \/ UNCHANGED joined
            \/ \E s \in Slots : Join(s) /\ connection[s] = "new"
BY DEF Next, Runs, ConnectUnlatched, ConnectLatched, ConnectDeferredLatched,
       Disconnect, Call, InvokeDeferred, Reset, RunDeferredConnection,
       RunInvocation, ReturnFromSlot, EndOfCalls

\* What was fired stays, since a generation fires once.
LEMMA FiredStays ==
  ASSUME SInv, Next
  PROVE  \A g \in 0..MaxResets : fired[g] # None => fired'[g] = fired[g]
<1>1. ASSUME NEW v \in Args, Fire(v), ~IsLatched,
             NEW g \in 0..MaxResets, fired[g] # None
      PROVE  fired'[g] = fired[g]
  <2>1. fired[generation] = None
    BY <1>1 DEF SInv, Firing, TypeOK, SignalOK, Signals, IsLatched
  <2>2. QED
    BY <1>1, <2>1 DEF Fire, SInv, TypeOK
<1>2. QED
  BY <1>1 DEF Next, Runs, ConnectUnlatched, ConnectLatched,
     ConnectDeferredLatched, Disconnect, Call, InvokeDeferred, CanFire, Reset,
     RunDeferredConnection, RunInvocation, NextSlot, ReturnFromSlot, EndOfCalls

\* What was connected stays on record.
LEMMA JoinedStays ==
  ASSUME SInv, Next
  PROVE  \A j \in 1..Len(joined) :
           j \in 1..Len(joined') /\ joined'[j] = joined[j]
<1>1. CASE \E t \in Threads : NextSlot(t)
  BY <1>1 DEF NextSlot
<1>2. CASE UNCHANGED joined
  BY <1>2
<1>3. ASSUME NEW s \in Slots, Join(s)
      PROVE  \A j \in 1..Len(joined) :
               j \in 1..Len(joined') /\ joined'[j] = joined[j]
  BY <1>3, Joined DEF SInv
<1>4. QED
  BY <1>1, <1>2, <1>3, JoinedGrows

\* The calls after one more has been made.
LEMMA CallsGrow ==
  ASSUME TypeOK, NEW e \in Calls, calls' = Append(calls, e)
  PROVE  /\ DOMAIN calls' = 1..(Len(calls) + 1)
         /\ \A k \in 1..Len(calls) : calls'[k] = calls[k]
         /\ calls'[Len(calls) + 1] = e
         /\ \A k \in 1..(Len(calls) + 1) :
              k \in 1..Len(calls) \/ k = Len(calls) + 1
<1>1. calls \in Seq(Calls)
  BY DEF TypeOK
<1>2. QED
  BY <1>1, AppendAt, LenProperties

Once == \A j, k \in 1..Len(calls) : calls[j].slot = calls[k].slot => j = k

WithItsArgs ==
  \A k \in 1..Len(calls) : \E j \in 1..Len(joined) :
    /\ joined[j].slot = calls[k].slot
    /\ calls[k].args = fired[joined[j].generation] /\ calls[k].args # None

\* A call keeps Once: its slot waited.
LEMMA OnceKept ==
  ASSUME SInv, Once, Next, NEW t \in Threads, NextSlot(t)
  PROVE  Once'
<1>1. CASE UNCHANGED calls
  BY <1>1 DEF Once
<1>2. CASE ~UNCHANGED calls
  <2>1. /\ calls' = Append(calls, Made(t)) /\ Made(t) \in Calls
        /\ 1 \in 1..Len(Waiting(t)) /\ Made(t).slot = Waiting(t)[1]
    BY <1>2, NextCall
  <2>2. \A l \in 1..Len(calls) : calls[l].slot # Made(t).slot
    BY <2>1, WaitingIsUncalled
  <2>3. Len(calls') = Len(calls) + 1
    BY <2>1, AppendAt DEF SInv, TypeOK
  <2>4. QED
    BY <2>1, <2>2, <2>3, CallsGrow DEF Once, SInv
<1>3. QED
  BY <1>1, <1>2

\* Every step keeps WithItsArgs.
LEMMA WithItsArgsKept ==
  ASSUME SInv, WithItsArgs, Next
  PROVE  WithItsArgs'
<1>1. ASSUME NEW e, NEW j \in 1..Len(joined), joined[j].slot = e.slot,
             e.args = fired[joined[j].generation], e.args # None
      PROVE  \E i \in 1..Len(joined') :
               /\ joined'[i].slot = e.slot
               /\ e.args = fired'[joined'[i].generation] /\ e.args # None
  <2>1. joined[j].generation \in 0..MaxResets
    BY JoinedTypes DEF SInv
  <2>2. fired'[joined[j].generation] = fired[joined[j].generation]
    BY <1>1, <2>1, FiredStays
  <2>3. j \in 1..Len(joined') /\ joined'[j] = joined[j]
    BY JoinedStays
  <2>4. QED
    BY <1>1, <2>2, <2>3
<1>2. CASE UNCHANGED calls
  BY <1>1, <1>2 DEF WithItsArgs
<1>3. ASSUME NEW t \in Threads, NextSlot(t), ~UNCHANGED calls
      PROVE  WithItsArgs'
  <2>1. /\ calls' = Append(calls, Made(t)) /\ Made(t) \in Calls
        /\ \E j \in 1..Len(joined) :
             /\ joined[j].slot = Made(t).slot
             /\ Made(t).args = fired[joined[j].generation]
             /\ Made(t).args # None
    BY <1>3, NextCall
  <2>2. Len(calls') = Len(calls) + 1
    BY <2>1, AppendAt DEF SInv, TypeOK
  <2>3. SUFFICES ASSUME NEW k \in 1..Len(calls')
                 PROVE  \E i \in 1..Len(joined') :
                          /\ joined'[i].slot = calls'[k].slot
                          /\ calls'[k].args = fired'[joined'[i].generation]
                          /\ calls'[k].args # None
    BY DEF WithItsArgs
  <2>4. CASE k \in 1..Len(calls)
    <3>1. calls'[k] = calls[k]
      BY <2>1, <2>4, CallsGrow DEF SInv
    <3>2. QED
      BY <1>1, <2>4, <3>1 DEF WithItsArgs
  <2>5. CASE k = Len(calls) + 1
    <3>1. calls'[k] = Made(t)
      BY <2>1, <2>5, CallsGrow DEF SInv
    <3>2. QED
      BY <1>1, <2>1, <3>1
  <2>6. QED
    BY <2>1, <2>2, <2>3, <2>4, <2>5, CallsGrow DEF SInv
<1>4. QED
  BY <1>2, <1>3, JoinedGrows

\* A slot is called at most once, and with the arguments that fired the
\* signal it was connected to, whatever is reset or fired again before a
\* deferred call is made.
THEOREM CallsAreOnceWithTheirArgs == Spec => []CalledOnceWithItsArgs
<1>1. Init => Once /\ WithItsArgs
  BY DEF Init, Once, WithItsArgs
<1>2. SInv /\ Once /\ WithItsArgs /\ [Next]_vars => (Once /\ WithItsArgs)'
  <2>1. ASSUME SInv, Once, WithItsArgs, Next PROVE (Once /\ WithItsArgs)'
    <3>1. CASE \E t \in Threads : NextSlot(t)
      BY <2>1, <3>1, OnceKept, WithItsArgsKept
    <3>2. CASE \A t \in Threads : ~NextSlot(t)
      <4>1. Once'
        BY <2>1, <3>2, JoinedGrows DEF Once
      <4>2. QED
        BY <2>1, <4>1, WithItsArgsKept
    <3>3. QED
      BY <3>1, <3>2
  <2>2. ASSUME Once, WithItsArgs, UNCHANGED vars PROVE (Once /\ WithItsArgs)'
    BY <2>2 DEF Once, WithItsArgs, vars
  <2>3. QED
    BY <2>1, <2>2
<1>3. SInv /\ Once /\ WithItsArgs => CalledOnceWithItsArgs
  BY JoinedDomain, CallsDomain
     DEF Once, WithItsArgs, CalledOnceWithItsArgs, SInv
<1>4. QED
  BY <1>1, <1>2, <1>3, Invariance, PTL DEF Spec
-----------------------------------------------------------------------------
InOrder ==
  \A i, j \in 1..Len(joined) :
    i < j /\ joined[i].generation = joined[j].generation =>
      \A k, l \in 1..Len(calls) :
        /\ calls[k].slot = joined[i].slot /\ calls[l].slot = joined[j].slot
        /\ joined[j].waits \/ (calls[k].direct /\ calls[l].direct)
        => k < l

\* A slot that is connected has not been called yet.
LEMMA InOrderInJoin ==
  ASSUME SInv, InOrder, UNCHANGED calls, NEW s \in Slots, Join(s),
         connection[s] = "new"
  PROVE  InOrder'
<1>1. \A j \in 1..Len(joined') :
        \/ j \in 1..Len(joined) /\ joined'[j] = joined[j]
        \/ joined'[j].slot = s
  BY Joined DEF SInv
<1>2. \A l \in 1..Len(calls) : calls[l].slot # s
  BY NewIsUncalled
<1>3. QED
  BY <1>1, <1>2 DEF InOrder

\* When a slot is called, none that must come after it has been.
LEMMA NoneTooEarly ==
  ASSUME SInv, NEW t \in Threads, 1 \in 1..Len(Waiting(t)),
         NEW i \in 1..Len(joined), NEW j \in 1..Len(joined), i < j,
         joined[i].generation = joined[j].generation,
         joined[i].slot = Waiting(t)[1], joined[j].waits \/ Direct(t)
  PROVE  \A l \in 1..Len(calls) : calls[l].slot # joined[j].slot
<1>1. joined[j].waits
  BY DEF SInv, DirectLast, DirectAreLast
<1>2. OfThread(t) \in DOMAIN Queues /\ Queues[OfThread(t)] = Waiting(t)
  BY Places, ReadNow DEF Read
<1>3. Together(Queues, joined)
  BY DEF SInv, Lines
<1>4. PICK l \in (1 + 1)..Len(Waiting(t)) : Waiting(t)[l] = joined[j].slot
  BY <1>1, <1>2, <1>3 DEF Together
<1>5. l \in 1..Len(Waiting(t))
  BY <1>4
<1>6. QED
  BY <1>4, <1>5, WaitingIsUncalled

\* A call keeps InOrder.
LEMMA InOrderInCall ==
  ASSUME SInv, InOrder, NEW t \in Threads, NextSlot(t)
  PROVE  InOrder'
<1>0. UNCHANGED joined
  BY DEF NextSlot
<1>1. CASE UNCHANGED calls
  BY <1>0, <1>1 DEF InOrder
<1>2. CASE ~UNCHANGED calls
  <2>1. /\ calls' = Append(calls, Made(t)) /\ Made(t) \in Calls
        /\ 1 \in 1..Len(Waiting(t)) /\ Made(t).slot = Waiting(t)[1]
        /\ Made(t).direct = Direct(t)
    BY <1>2, NextCall
  <2>2. Len(calls') = Len(calls) + 1 /\ Len(calls) \in Nat
    BY <2>1, AppendAt, CallsDomain DEF SInv, TypeOK
  <2>3. SUFFICES ASSUME NEW i \in 1..Len(joined), NEW j \in 1..Len(joined),
                        i < j, joined[i].generation = joined[j].generation,
                        NEW k \in 1..Len(calls'), NEW l \in 1..Len(calls'),
                        calls'[k].slot = joined[i].slot,
                        calls'[l].slot = joined[j].slot,
                        joined[j].waits
                          \/ (calls'[k].direct /\ calls'[l].direct)
                 PROVE  k < l
    BY <1>0 DEF InOrder
  <2>4. CASE k \in 1..Len(calls) /\ l \in 1..Len(calls)
    <3>1. calls'[k] = calls[k] /\ calls'[l] = calls[l]
      BY <2>1, <2>4, CallsGrow DEF SInv
    <3>2. QED
      BY <2>3, <2>4, <3>1 DEF InOrder
  <2>5. CASE k \in 1..Len(calls) /\ l = Len(calls) + 1
    BY <2>2, <2>5
  <2>6. CASE k = Len(calls) + 1 /\ l \in 1..Len(calls)
    <3>1. calls'[k] = Made(t) /\ calls'[l] = calls[l]
      BY <2>1, <2>6, CallsGrow DEF SInv
    <3>2. joined[i].slot = Waiting(t)[1] /\ (joined[j].waits \/ Direct(t))
      BY <2>1, <2>3, <3>1
    <3>3. calls[l].slot # joined[j].slot
      BY <2>1, <2>3, <2>6, <3>2, NoneTooEarly
    <3>4. QED
      BY <2>3, <3>1, <3>3
  <2>7. CASE k = Len(calls) + 1 /\ l = Len(calls) + 1
    <3>1. joined[i].slot = joined[j].slot
      BY <2>3, <2>7
    <3>2. i = j
      BY <3>1 DEF SInv, Joining
    <3>3. QED
      BY <2>3, <3>2
  <2>8. QED
    BY <2>2, <2>3, <2>4, <2>5, <2>6, <2>7
<1>3. QED
  BY <1>1, <1>2

\* The slots of one firing are called in the order they were connected in,
\* those connected after it included as long as no deferred operation makes
\* the calls.
THEOREM CallsAreInOrder == Spec => []CalledInOrder
<1>1. Init => InOrder
  BY DEF Init, InOrder
<1>2. SInv /\ InOrder /\ [Next]_vars => InOrder'
  <2>1. ASSUME SInv, InOrder, Next PROVE InOrder'
    <3>1. CASE \E t \in Threads : NextSlot(t)
      BY <2>1, <3>1, InOrderInCall
    <3>2. CASE \A t \in Threads : ~NextSlot(t)
      <4>1. CASE UNCHANGED joined
        BY <2>1, <3>2, <4>1, JoinedGrows DEF InOrder
      <4>2. QED
        BY <2>1, <3>2, <4>1, JoinedGrows, InOrderInJoin
    <3>3. QED
      BY <3>1, <3>2
  <2>2. ASSUME InOrder, UNCHANGED vars PROVE InOrder'
    BY <2>2 DEF InOrder, vars
  <2>3. QED
    BY <2>1, <2>2
<1>3. SInv /\ InOrder => CalledInOrder
  BY JoinedDomain, CallsDomain DEF InOrder, CalledInOrder, SInv
<1>4. QED
  BY <1>1, <1>2, <1>3, Invariance, PTL DEF Spec
=============================================================================

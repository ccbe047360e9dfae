-------------------------- MODULE AsyncQueueProofs --------------------------
(***************************************************************************)
(* Proofs about AsyncQueue for any sets of items, consumers and cancelers. *)
(* The inductive invariant says where each consumer and each item is: what *)
(* its ConsumerImpl looks like at every step of its async_pop, who has it  *)
(* in hand, and that the items are handed on from place to place.  From it *)
(* follow the order of the items under a serialized client, and that the   *)
(* queue implements Matching but for its promise of progress.              *)
(***************************************************************************)
EXTENDS AsyncQueue, SequenceTheorems, TLAPS

Holding == Items \cup Cancelers

TypeOK ==
  /\ inventory_ \in Seq(Items)
  /\ consumers_ \in Seq(Pops)
  /\ active_ \in [Pops -> BOOLEAN]
  /\ f_ \in [Pops -> {"absent", "engaged", "empty"}]
  /\ pc \in [Callers -> PCs]
  /\ hand \in [Holding -> Pops \cup {None}]
  /\ took \in [Pops -> Items \cup {None}]
  /\ calls \in Seq([pop : Pops, got : Items \cup {Aborted}])
  /\ serial \in BOOLEAN

(* What of the program a caller of each kind runs, and that it has a       *)
(* consumer in hand, or an item taken, where it uses one.                  *)
Stages ==
  /\ \A c \in Pops : pc[c] # "consume"
  /\ \A k \in Cancelers : pc[k] \in {"idle", "consume", "call", "run"}
  /\ \A k \in Holding : pc[k] \in {"consume", "call", "run"} => hand[k] \in Pops
  /\ \A c \in Pops : pc[c] = "call" => took[c] \in Items

(* A ConsumerImpl exists once its async_pop has registered it, and not     *)
(* before.                                                                 *)
Registered ==
  /\ \A c \in Pops : f_[c] # "absent" => pc[c] = "done"
  /\ \A c \in Pops : active_[c] => f_[c] = "engaged"
  /\ \A i \in 1..Len(consumers_) : f_[consumers_[i]] # "absent"
  /\ \A k \in Holding : hand[k] \in Pops => f_[hand[k]] # "absent"

(* Whoever won the exchange has the handler to itself. *)
Exclusive ==
  \A k \in Holding : pc[k] \in {"call", "run"} =>
    /\ f_[hand[k]] = "engaged" /\ ~active_[hand[k]]
    /\ \A l \in Holding : pc[l] \in {"call", "run"} /\ hand[l] = hand[k] =>
         k = l

(* A handler that may still be called has not been called. *)
Uncalled ==
  \A i \in 1..Len(calls) :
    /\ ~active_[calls[i].pop]
    /\ pc[calls[i].pop] \notin {"idle", "lock", "call"}
    /\ \A k \in Holding : pc[k] = "call" => hand[k] # calls[i].pop
CalledOnce == \A i, j \in 1..Len(calls) : calls[i].pop = calls[j].pop => i = j

(* A consumer is in the queue or in the hands of one push, not both. *)
OnePlace ==
  /\ inventory_ = <<>> \/ consumers_ = <<>>
  /\ \A i, j \in 1..Len(consumers_) : consumers_[i] = consumers_[j] => i = j
  /\ \A x \in Items : pc[x] = "consume" =>
       \A i \in 1..Len(consumers_) : consumers_[i] # hand[x]
  /\ \A x, y \in Items :
       pc[x] = "consume" /\ pc[y] = "consume" /\ hand[x] = hand[y] => x = y
  /\ \A c \in Pops : active_[c] =>
       \/ \E i \in 1..Len(consumers_) : consumers_[i] = c
       \/ \E x \in Items : pc[x] = "consume" /\ hand[x] = c

QInv ==
  /\ TypeOK /\ Stages /\ Registered /\ Exclusive /\ Uncalled /\ CalledOnce
  /\ OnePlace
-----------------------------------------------------------------------------
(* What the queue's sequences are after one end has changed. *)
LEMMA AppendFacts ==
  ASSUME NEW S, NEW s \in Seq(S), NEW e \in S
  PROVE  /\ Append(s, e) \in Seq(S) /\ Len(Append(s, e)) = Len(s) + 1
         /\ \A i \in 1..Len(s) : Append(s, e)[i] = s[i]
         /\ Append(s, e)[Len(s) + 1] = e
         /\ Append(s, e) # <<>>
BY SMT

\* What is left when the head is taken, and where each entry has moved.
LEMMA TailFacts ==
  ASSUME NEW S, NEW s \in Seq(S), s # <<>>
  PROVE  /\ Tail(s) \in Seq(S) /\ Len(Tail(s)) = Len(s) - 1
              /\ Len(s) \in Nat \ {0}
         /\ \A i \in 1..Len(Tail(s)) : Tail(s)[i] = s[i + 1]
              /\ i + 1 \in 1..Len(s)
         /\ Head(s) = s[1] /\ Head(s) \in S /\ 1 \in 1..Len(s)
         /\ \A i \in 1..Len(s) : s[i] \in S
         /\ \A i \in 1..Len(s) : i = 1
              \/ (i - 1 \in 1..Len(Tail(s)) /\ Tail(s)[i - 1] = s[i])
BY SMT

\* The entries of a sequence.
LEMMA Entries ==
  ASSUME NEW S, NEW s \in Seq(S)
  PROVE  Len(s) \in Nat /\ \A i \in 1..Len(s) : s[i] \in S
BY SMT

\* Handlers are called for consumers.
LEMMA CallsOfPops ==
  ASSUME TypeOK
  PROVE  \A i \in 1..Len(calls) : calls[i].pop \in Pops
<1> SUFFICES ASSUME NEW i \in 1..Len(calls) PROVE calls[i].pop \in Pops
  OBVIOUS
<1>1. calls[i] \in [pop : Pops, got : Items \cup {Aborted}]
  BY Entries DEF TypeOK
<1> QED
  BY <1>1

(* The kinds of callers are disjoint, and None and Aborted are no callers. *)
LEMMA Kinds ==
  /\ \A x \in Items : x \notin Pops /\ x \notin Cancelers /\ x # None
       /\ x # Aborted
  /\ \A c \in Pops : c \notin Cancelers /\ c # None
BY QueueAssumption, Zenon DEF Callers

\* An empty queue satisfies the invariant.
LEMMA Initially == Init => QInv
<1> SUFFICES ASSUME Init PROVE QInv
  OBVIOUS
<1>1. TypeOK
  BY DEF Init, TypeOK, PCs, Holding
<1>2. Stages /\ Registered /\ Exclusive /\ Uncalled /\ CalledOnce /\ OnePlace
  BY Kinds, SMT
     DEF Init, Stages, Registered, Exclusive, Uncalled, CalledOnce, OnePlace,
       Holding, Callers
<1> QED
  BY <1>1, <1>2 DEF QInv

\* Each action keeps the invariant: GenericInsert, ...
LEMMA StartPushKeeps ==
  ASSUME QInv, NEW x \in Items, StartPush(x) PROVE QInv'
<1> USE DEF QInv, StartPush, Goto, Holding, Callers
<1>1. TypeOK'
  BY DEF TypeOK, PCs
<1>2. Stages'
  BY Kinds DEF Stages
<1>3. Registered'
  BY DEF Registered
<1>4. Exclusive'
  BY DEF Exclusive
<1>5. Uncalled'
  BY DEF Uncalled
<1>6. CalledOnce'
  BY DEF CalledOnce
<1>7. OnePlace'
  BY SMTT(30) DEF OnePlace
<1> QED
  BY <1>1, <1>2, <1>3, <1>4, <1>5, <1>6, <1>7

\* ... which takes a consumer in hand ...
LEMMA PopConsumerKeeps ==
  ASSUME QInv, NEW x \in Items, PopConsumer(x)
  PROVE  QInv'
<1> USE DEF QInv, PopConsumer, Goto, Holding, Callers
<1>1. TypeOK'
  BY DEF TypeOK, PCs
<1>2. Stages'
  BY Kinds DEF TypeOK, Stages
<1>3. Registered'
  BY DEF Registered
<1>4. Exclusive'
  BY DEF Exclusive
<1>5. Uncalled'
  BY DEF Uncalled
<1>6. CalledOnce'
  BY DEF CalledOnce
<1>7. OnePlace'
  <2> USE Kinds, Entries, TailFacts DEF TypeOK, PCs
  <2>1. inventory_' = <<>> \/ consumers_' = <<>>
    BY DEF OnePlace
  <2>2. \A i, j \in 1..Len(consumers_') : consumers_'[i] = consumers_'[j] =>
          i = j
    BY DEF OnePlace
  <2>3. \A i \in 1..Len(consumers_') : consumers_'[i] # hand'[x]
    BY DEF OnePlace
  <2>4. \A y \in Items \ {x} : pc'[y] = "consume" =>
          /\ hand'[y] # hand'[x]
          /\ \A i \in 1..Len(consumers_') : consumers_'[i] # hand'[y]
    BY DEF OnePlace, Stages
  <2>5. \A y, z \in Items : pc'[y] = "consume" /\ pc'[z] = "consume"
          /\ hand'[y] = hand'[z] => y = z
    BY <2>4 DEF OnePlace
  <2>6. \A c \in Pops : active_'[c] =>
          \/ \E i \in 1..Len(consumers_') : consumers_'[i] = c
          \/ \E y \in Items : pc'[y] = "consume" /\ hand'[y] = c
    <3> SUFFICES ASSUME NEW c \in Pops, active_[c]
                 PROVE  \/ \E i \in 1..Len(consumers_') : consumers_'[i] = c
                        \/ \E y \in Items : pc'[y] = "consume" /\ hand'[y] = c
      OBVIOUS
    <3>1. CASE \E y \in Items : pc[y] = "consume" /\ hand[y] = c
      BY <3>1
    <3>2. CASE \E i \in 1..Len(consumers_) : consumers_[i] = c
      <4>1. PICK i \in 1..Len(consumers_) : consumers_[i] = c
        BY <3>2
      <4>2. CASE i = 1
        BY <4>1, <4>2
      <4>3. CASE i # 1
        <5>1. i - 1 \in 1..Len(consumers_') /\ consumers_'[i - 1] = c
          BY <4>1, <4>3
        <5> QED
          BY <5>1
      <4> QED
        BY <4>2, <4>3
    <3> QED
      BY <3>1, <3>2 DEF OnePlace
  <2> QED
    BY <2>1, <2>2, <2>3, <2>4, <2>5, <2>6 DEF OnePlace
<1> QED
  BY <1>1, <1>2, <1>3, <1>4, <1>5, <1>6, <1>7

\* ... or leaves its item;
LEMMA InsertKeeps ==
  ASSUME QInv, NEW x \in Items, Insert(x) PROVE QInv'
<1> USE DEF QInv, Insert, Goto, Holding, Callers
<1>1. TypeOK'
  BY DEF TypeOK, PCs
<1>2. Stages'
  BY DEF Stages
<1>3. Registered'
  BY DEF Registered
<1>4. Exclusive'
  BY DEF Exclusive
<1>5. Uncalled'
  BY DEF Uncalled
<1>6. CalledOnce'
  BY DEF CalledOnce
<1>7. OnePlace'
  BY DEF OnePlace
<1> QED
  BY <1>1, <1>2, <1>3, <1>4, <1>5, <1>6, <1>7

\* async_pop, ...
LEMMA StartPopKeeps ==
  ASSUME QInv, NEW c \in Pops, StartPop(c) PROVE QInv'
<1> USE DEF QInv, StartPop, Goto, Holding, Callers
<1>1. TypeOK'
  BY DEF TypeOK, PCs
<1>2. Stages'
  BY Kinds DEF Stages
<1>3. Registered'
  BY DEF Registered
<1>4. Exclusive'
  BY DEF Exclusive
<1>5. Uncalled'
  BY DEF Uncalled
<1>6. CalledOnce'
  BY DEF CalledOnce
<1>7. OnePlace'
  BY AppendFacts DEF OnePlace
<1> QED
  BY <1>1, <1>2, <1>3, <1>4, <1>5, <1>6, <1>7

\* ... which takes an item out ...
LEMMA TakeItemKeeps ==
  ASSUME QInv, NEW c \in Pops, TakeItem(c) PROVE QInv'
<1> USE DEF QInv, TakeItem, Goto, Holding, Callers
<1>1. TypeOK'
  BY DEF TypeOK, PCs
<1>2. Stages'
  BY Kinds DEF TypeOK, Stages
<1>3. Registered'
  BY DEF Registered
<1>4. Exclusive'
  BY Kinds DEF Exclusive
<1>5. Uncalled'
  BY Kinds DEF Uncalled
<1>6. CalledOnce'
  BY DEF CalledOnce
<1>7. OnePlace'
  BY Kinds, Entries, TailFacts DEF OnePlace
<1> QED
  BY <1>1, <1>2, <1>3, <1>4, <1>5, <1>6, <1>7

\* ... or waits;
LEMMA RegisterKeeps ==
  ASSUME QInv, NEW c \in Pops, Register(c) PROVE QInv'
<1> USE DEF QInv, Register, Goto, Holding, Callers
<1>1. TypeOK'
  BY DEF TypeOK, PCs
<1>2. Stages'
  BY DEF Stages
<1>3. Registered'
  BY DEF TypeOK, Registered
<1>4. Exclusive'
  BY DEF Registered, Exclusive
<1>5. Uncalled'
  BY DEF Uncalled
<1>6. CalledOnce'
  BY DEF CalledOnce
<1>7. OnePlace'
  <2> USE Kinds, Entries, AppendFacts DEF TypeOK, PCs
  <2>0. f_[c] = "absent" /\ ~active_[c]
    BY DEF Registered
  <2>1. inventory_' = <<>>
    OBVIOUS
  <2>2. /\ \A i \in 1..Len(consumers_) : consumers_[i] # c
        /\ \A y \in Items : pc[y] = "consume" => hand[y] # c
    BY <2>0 DEF Registered, Stages
  <2>3. \A i, j \in 1..Len(consumers_') : consumers_'[i] = consumers_'[j] =>
          i = j
    BY <2>2 DEF OnePlace
  <2>4. \A y \in Items : pc'[y] = "consume" =>
           \A i \in 1..Len(consumers_') : consumers_'[i] # hand'[y]
    BY <2>2 DEF OnePlace
  <2>5. \A y, z \in Items : pc'[y] = "consume" /\ pc'[z] = "consume"
          /\ hand'[y] = hand'[z] => y = z
    BY DEF OnePlace
  <2>6. \A d \in Pops : active_'[d] =>
          \/ \E i \in 1..Len(consumers_') : consumers_'[i] = d
          \/ \E y \in Items : pc'[y] = "consume" /\ hand'[y] = d
    <3> SUFFICES ASSUME NEW d \in Pops, active_'[d]
                 PROVE  \/ \E i \in 1..Len(consumers_') : consumers_'[i] = d
                        \/ \E y \in Items : pc'[y] = "consume" /\ hand'[y] = d
      OBVIOUS
    <3>1. CASE d = c
      BY <3>1
    <3>2. CASE d # c
      BY <3>2 DEF OnePlace
    <3> QED
      BY <3>1, <3>2
  <2> QED
    BY <2>1, <2>3, <2>4, <2>5, <2>6 DEF OnePlace
<1> QED
  BY <1>1, <1>2, <1>3, <1>4, <1>5, <1>6, <1>7

\* a PopCanceler;
LEMMA StartCancelKeeps ==
  ASSUME QInv, NEW k \in Cancelers, StartCancel(k)
  PROVE  QInv'
<1> USE DEF QInv, StartCancel, Goto, Holding, Callers
<1>1. TypeOK'
  BY DEF TypeOK, PCs
<1>2. Stages'
  BY Kinds DEF TypeOK, Stages
<1>3. Registered'
  BY DEF Registered
<1>4. Exclusive'
  BY DEF Exclusive
<1>5. Uncalled'
  BY DEF Uncalled
<1>6. CalledOnce'
  BY DEF CalledOnce
<1>7. OnePlace'
  BY Kinds, Entries DEF OnePlace
<1> QED
  BY <1>1, <1>2, <1>3, <1>4, <1>5, <1>6, <1>7

\* the exchange on active_;
LEMMA ConsumeKeeps ==
  ASSUME QInv, NEW k \in Holding, Consume(k) PROVE QInv'
<1> USE DEF QInv, Consume, Goto, Holding, Callers
<1>1. TypeOK'
  BY DEF TypeOK, PCs
<1>2. Stages'
  BY Kinds DEF Stages
<1>3. Registered'
  BY DEF Registered
<1>4. Exclusive'
  BY DEF TypeOK, Stages, Registered, Exclusive
<1>5. Uncalled'
  <2> USE Kinds DEF TypeOK, PCs
  <2>1. hand[k] \in Pops /\ f_[hand[k]] # "absent"
    BY DEF Stages, Registered
  <2>2. ASSUME NEW i \in 1..Len(calls)
        PROVE  /\ ~active_'[calls'[i].pop]
               /\ pc'[calls'[i].pop] \notin {"idle", "lock", "call"}
               /\ \A l \in Holding : pc'[l] = "call" => hand'[l] # calls'[i].pop
    <3>1. /\ calls[i].pop \in Pops /\ ~active_[calls[i].pop]
          /\ pc[calls[i].pop] \notin {"idle", "lock", "call"}
          /\ \A l \in Holding : pc[l] = "call" => hand[l] # calls[i].pop
      BY <2>2, CallsOfPops DEF Uncalled
    <3>2. calls[i].pop # k
      BY <3>1
    <3>3. pc[k] # "call" => active_[hand[k]] \/ pc'[k] # "call"
      OBVIOUS
    <3> QED
      BY <2>1, <2>2, <3>1, <3>2, <3>3
  <2> QED
    BY <2>2 DEF Uncalled
<1>6. CalledOnce'
  BY DEF CalledOnce
<1>7. OnePlace'
  BY Kinds, Entries, AppendFacts DEF TypeOK, OnePlace, Registered
<1> QED
  BY <1>1, <1>2, <1>3, <1>4, <1>5, <1>6, <1>7

\* the call of the handler, by whoever may make it;
LEMMA CallHandlerKeeps ==
  ASSUME QInv, NEW k \in Callers, CallHandler(k)
  PROVE  QInv'
<1> USE DEF QInv, CallHandler, Goto, Holding, Callers
<1>1. TypeOK'
  BY DEF TypeOK, PCs, Stages, Target, Given
<1>2. Stages'
  BY DEF Stages
<1>3. Registered'
  BY DEF Registered
<1>4. Exclusive'
  BY DEF Exclusive
<1>5. Uncalled'
  BY DEF TypeOK, Stages, Registered, Exclusive, Uncalled, Target
<1>6. CalledOnce'
  BY DEF CalledOnce, Uncalled, Target
<1>7. OnePlace'
  BY Kinds, Entries, TailFacts, SMTT(30) DEF OnePlace
<1> QED
  BY <1>1, <1>2, <1>3, <1>4, <1>5, <1>6, <1>7

\* and clear_f.
LEMMA HandlerReturnsKeeps ==
  ASSUME QInv, NEW k \in Callers, HandlerReturns(k)
  PROVE  QInv'
<1> USE DEF QInv, HandlerReturns, Goto, Holding, Callers
<1>1. TypeOK'
  BY DEF TypeOK, PCs
<1>2. Stages'
  BY Kinds, SMT DEF TypeOK, PCs, Stages
<1>3. Registered'
  BY Kinds DEF TypeOK, PCs, Stages, Registered, Exclusive
<1>4. Exclusive'
  BY Kinds DEF TypeOK, PCs, Stages, Exclusive
<1>5. Uncalled'
  <2> USE Kinds DEF TypeOK, PCs
  <2>1. ASSUME NEW i \in 1..Len(calls)
        PROVE  /\ ~active_'[calls'[i].pop]
               /\ pc'[calls'[i].pop] \notin {"idle", "lock", "call"}
               /\ \A l \in Holding : pc'[l] = "call" => hand'[l] # calls'[i].pop
    BY CallsOfPops DEF Uncalled
  <2> QED
    BY <2>1 DEF Uncalled
<1>6. CalledOnce'
  BY DEF CalledOnce
<1>7. OnePlace'
  BY Kinds, Entries, SMTT(30) DEF TypeOK, PCs, OnePlace, Stages
<1> QED
  BY <1>1, <1>2, <1>3, <1>4, <1>5, <1>6, <1>7

-----------------------------------------------------------------------------
\* Every step keeps the invariant.
LEMMA StepKeeps == ASSUME QInv, [Next]_vars PROVE QInv'
<1>1. CASE \E x \in Items : StartPush(x) \/ Push(x) \/ Consume(x)
  BY <1>1, StartPushKeeps, PopConsumerKeeps, InsertKeeps, ConsumeKeeps
     DEF Push, Holding
<1>2. CASE \E c \in Pops : StartPop(c) \/ Pop(c)
  BY <1>2, StartPopKeeps, TakeItemKeeps, RegisterKeeps DEF Pop
<1>3. CASE \E k \in Cancelers : StartCancel(k) \/ Consume(k)
  BY <1>3, StartCancelKeeps, ConsumeKeeps DEF Holding
<1>4. CASE \E k \in Callers : Answer(k)
  BY <1>4, CallHandlerKeeps, HandlerReturnsKeeps DEF Answer
<1>5. CASE UNCHANGED vars
  BY <1>5 DEF vars, QInv, TypeOK, Stages, Registered, Exclusive, Uncalled,
     CalledOnce, OnePlace
<1> QED
  BY <1>1, <1>2, <1>3, <1>4, <1>5 DEF Next

(* Where every consumer is, at every step of every push, pop and canceler. *)
THEOREM Invariance == Spec => []QInv
BY Initially, StepKeeps, PTL DEF Spec

(* The variables of the queue keep their types. *)
THEOREM TypeCorrect == Spec => []TypeOK
<1>1. QInv => TypeOK
  BY DEF QInv
<1> QED
  BY Invariance, <1>1, PTL

(* A handler is called at most once, and nobody clears it under its caller, *)
(* whoever races for it (lines 79-85).                                     *)
THEOREM CalledAtMostOnce == Spec => []HandlerCalledOnce
<1>1. QInv => HandlerCalledOnce
  BY DEF QInv, CalledOnce, Exclusive, HandlerCalledOnce, Calls, Holding
<1> QED
  BY Invariance, <1>1, PTL

(* An item and a consumer never both wait, and a consumer that can still   *)
(* be answered is in one place from where it will be (lines 132-141).      *)
THEOREM NobodyIsStranded == Spec => []NobodyStranded
<1>1. ASSUME QInv, NEW c \in Pops, active_[c],
             NEW i \in 1..Len(consumers_), consumers_[i] = c
      PROVE  /\ {x \in Items : pc[x] = "consume" /\ hand[x] = c} = {}
             /\ {j \in 1..Len(consumers_) : consumers_[j] = c} = {i}
  BY <1>1 DEF QInv, OnePlace
<1>2. ASSUME QInv, NEW c \in Pops, active_[c],
             NEW x \in Items, pc[x] = "consume", hand[x] = c
      PROVE  /\ {j \in 1..Len(consumers_) : consumers_[j] = c} = {}
             /\ {y \in Items : pc[y] = "consume" /\ hand[y] = c} = {x}
  BY <1>2 DEF QInv, OnePlace
<1>3. QInv => NobodyStranded
  <2> SUFFICES ASSUME QInv PROVE NobodyStranded
    OBVIOUS
  <2>1. inventory_ = <<>> \/ consumers_ = <<>>
    BY DEF QInv, OnePlace
  <2>2. ASSUME NEW c \in Pops, active_[c]
        PROVE  LET places == {i \in 1..Len(consumers_) : consumers_[i] = c}
                   pushes == {x \in Items : pc[x] = "consume" /\ hand[x] = c}
               IN  \/ pushes = {} /\ \E i \in places : places = {i}
                   \/ places = {} /\ \E x \in pushes : pushes = {x}
    <3>1. CASE \E i \in 1..Len(consumers_) : consumers_[i] = c
      BY <3>1, <2>2, <1>1
    <3>2. CASE \E x \in Items : pc[x] = "consume" /\ hand[x] = c
      BY <3>2, <2>2, <1>2
    <3> QED
      BY <3>1, <3>2, <2>2 DEF QInv, OnePlace
  <2> QED
    BY <2>1, <2>2 DEF NobodyStranded
<1> QED
  BY Invariance, <1>3, PTL
-----------------------------------------------------------------------------
(* An item is in one place at a time: when its push has let go of it, it    *)
(* waits, or one async_pop has taken it, or one handler has been given it. *)
Waits(x) == \E i \in 1..Len(inventory_) : inventory_[i] = x
Taken(x) == \E c \in Pops : pc[c] = "call" /\ took[c] = x
Answers(x) == \E i \in 1..Len(calls) : calls[i].got = x
Pushed(x) == pc[x] \in {"run", "done"}

OncePerPlace ==
  /\ \A i, j \in 1..Len(inventory_) : inventory_[i] = inventory_[j] => i = j
  /\ \A c, d \in Pops : pc[c] = "call" /\ pc[d] = "call" /\ took[c] = took[d] =>
       c = d
  /\ \A i, j \in 1..Len(calls) :
       calls[i].got \in Items /\ calls[i].got = calls[j].got => i = j
Apart ==
  \A x \in Items :
    /\ Pushed(x) <=> Waits(x) \/ Taken(x) \/ Answers(x)
    /\ ~(Waits(x) /\ Taken(x)) /\ ~(Waits(x) /\ Answers(x))
         /\ ~(Taken(x) /\ Answers(x))

OneItem == OncePerPlace /\ Apart

\* An empty queue has no items.
LEMMA ItemsInitially == Init => OneItem
BY Kinds, SMT
   DEF Init, OneItem, OncePerPlace, Apart, Pushed, Waits, Taken, Answers,
     Callers

(* The steps that leave the inventory, took and calls alone, and end no push. *)
LEMMA ItemsStay ==
  ASSUME OneItem, UNCHANGED <<inventory_, took, calls>>,
         \A x \in Items : Pushed(x)' <=> Pushed(x),
         \A c \in Pops : pc'[c] = "call" <=> pc[c] = "call"
  PROVE  OneItem'
<1>1. \A x \in Items : (Waits(x)' <=> Waits(x)) /\ (Taken(x)' <=> Taken(x))
        /\ (Answers(x)' <=> Answers(x))
  BY DEF Waits, Taken, Answers
<1>2. Apart'
  BY <1>1 DEF OneItem, Apart
<1>3. OncePerPlace'
  BY DEF OneItem, OncePerPlace
<1> QED
  BY <1>2, <1>3 DEF OneItem

\* An item that finds no consumer waits.
LEMMA InsertKeepsItems == ASSUME QInv, OneItem, NEW x \in Items, Insert(x)
  PROVE OneItem'
<1> USE Kinds DEF QInv, TypeOK, Insert, Goto, Callers
<1>1. ~Waits(x) /\ ~Taken(x) /\ ~Answers(x)
  BY DEF OneItem, Apart, Pushed
<1>2. /\ Len(inventory_') = Len(inventory_) + 1
           /\ inventory_'[Len(inventory_) + 1] = x
      /\ \A i \in 1..Len(inventory_) : inventory_'[i] = inventory_[i]
           /\ inventory_[i] # x
      /\ Len(inventory_) \in Nat
  BY <1>1, AppendFacts DEF Waits
<1>3. OncePerPlace'
  BY <1>2 DEF OneItem, OncePerPlace
<1>4. ASSUME NEW y \in Items
      PROVE  /\ Waits(y)' <=> Waits(y) \/ y = x
             /\ Taken(y)' <=> Taken(y)
             /\ Answers(y)' <=> Answers(y)
             /\ Pushed(y)' <=> Pushed(y) \/ y = x
  <2>1. Waits(y)' <=> Waits(y) \/ y = x
    BY <1>2 DEF Waits
  <2>2. Taken(y)' <=> Taken(y)
    BY DEF Taken
  <2> QED
    BY <2>1, <2>2 DEF Answers, Pushed
<1>5. Apart'
  BY <1>1, <1>4 DEF OneItem, Apart
<1> QED
  BY <1>3, <1>5 DEF OneItem

\* An item that is taken out waits no more.
LEMMA TakeItemKeepsItems == ASSUME QInv, OneItem, NEW c \in Pops, TakeItem(c)
  PROVE OneItem'
<1> USE Kinds DEF QInv, TypeOK, TakeItem, Goto, Callers
<1> DEFINE x == Head(inventory_)
<1>1. /\ x \in Items /\ Len(inventory_) \in Nat \ {0} /\ inventory_[1] = x
      /\ Len(inventory_') = Len(inventory_) - 1
      /\ \A i \in 1..Len(inventory_') : inventory_'[i] = inventory_[i + 1]
  BY TailFacts
<1>2. /\ \A i \in 1..Len(inventory_') : inventory_'[i] # x
      /\ \A d \in Pops : pc[d] = "call" => took[d] # x
      /\ ~Taken(x) /\ ~Answers(x)
  <2>1. Waits(x)
    BY <1>1 DEF Waits
  <2>2. ~Taken(x) /\ ~Answers(x)
    BY <1>1, <2>1 DEF OneItem, Apart
  <2> QED
    BY <1>1, <2>2 DEF OneItem, OncePerPlace, Taken
<1>3. pc'[c] = "call" /\ took'[c] = x /\ \A d \in Pops \ {c} : pc'[d] = pc[d]
        /\ took'[d] = took[d]
  OBVIOUS
<1>4. OncePerPlace'
  <2>1. \A i, j \in 1..Len(inventory_') : inventory_'[i] = inventory_'[j] =>
          i = j
    BY <1>1 DEF OneItem, OncePerPlace
  <2>2. \A d, e \in Pops : pc'[d] = "call" /\ pc'[e] = "call"
          /\ took'[d] = took'[e] => d = e
    BY <1>2, <1>3 DEF OneItem, OncePerPlace
  <2> QED
    BY <2>1, <2>2 DEF OneItem, OncePerPlace
<1>5. ASSUME NEW y \in Items
      PROVE  /\ Waits(y)' <=> Waits(y) /\ y # x
             /\ Taken(y)' <=> Taken(y) \/ y = x
             /\ Answers(y)' <=> Answers(y)
             /\ Pushed(y)' <=> Pushed(y)
  <2>1. Waits(y)' <=> Waits(y) /\ y # x
    <3>1. ASSUME NEW i \in 1..Len(inventory_'), inventory_'[i] = y
          PROVE  Waits(y) /\ y # x
      <4>1. i + 1 \in 1..Len(inventory_) /\ inventory_[i + 1] = y
        BY <1>1, <3>1
      <4> QED
        BY <4>1, <1>2, <3>1 DEF Waits
    <3>2. ASSUME NEW i \in 1..Len(inventory_), inventory_[i] = y, y # x
          PROVE  Waits(y)'
      <4>1. i - 1 \in 1..Len(inventory_') /\ inventory_'[i - 1] = y
        BY <1>1, <3>2
      <4> QED
        BY <4>1 DEF Waits
    <3> QED
      BY <3>1, <3>2 DEF Waits
  <2>2. Taken(y)' <=> Taken(y) \/ y = x
    BY <1>3 DEF Taken
  <2> QED
    BY <2>1, <2>2 DEF Answers, Pushed
<1>6. Waits(x)
  BY <1>1 DEF Waits
<1>7. Apart'
  BY <1>1, <1>2, <1>5, <1>6 DEF OneItem, Apart
<1> QED
  BY <1>4, <1>7 DEF OneItem

\* An item is handed to the handler by the one who has it.
LEMMA CallHandlerKeepsItems == ASSUME QInv, OneItem, NEW k \in Callers,
  CallHandler(k) PROVE OneItem'
<1> USE Kinds DEF QInv, TypeOK, CallHandler, Goto, Callers
<1> DEFINE g == Given(k)
<1>1. /\ Len(calls') = Len(calls) + 1 /\ calls'[Len(calls) + 1].got = g
      /\ \A i \in 1..Len(calls) : calls'[i] = calls[i]
      /\ Len(calls) \in Nat
  <2>1. [pop |-> Target(k), got |-> g] \in [pop : Pops,
          got : Items \cup {Aborted}]
    BY DEF Stages, Target, Given, Holding
  <2> QED
    BY <2>1, AppendFacts
<1>2. g \in Items => ~Answers(g)
  BY DEF OneItem, Apart, Given, Stages, Taken, Pushed
<1>3. OncePerPlace'
  <2>1. \A i, j \in 1..Len(calls') :
          calls'[i].got \in Items /\ calls'[i].got = calls'[j].got => i = j
    BY <1>1, <1>2 DEF OneItem, OncePerPlace, Answers
  <2>2. \A c, d \in Pops : pc'[c] = "call" /\ pc'[d] = "call"
          /\ took'[c] = took'[d] => c = d
    BY DEF OneItem, OncePerPlace
  <2> QED
    BY <2>1, <2>2 DEF OneItem, OncePerPlace
<1>4. ASSUME NEW y \in Items
      PROVE  /\ Waits(y)' <=> Waits(y)
             /\ Answers(y)' <=> Answers(y) \/ y = g
             /\ y # g => (Pushed(y)' <=> Pushed(y)) /\ (Taken(y)' <=> Taken(y))
             /\ y = g => Pushed(y)' /\ ~Waits(y) /\ ~Taken(y)'
  <2>1. Waits(y)' <=> Waits(y)
    BY DEF Waits
  <2>2. Answers(y)' <=> Answers(y) \/ y = g
    BY <1>1 DEF Answers
  <2>3. y # g => (Pushed(y)' <=> Pushed(y)) /\ (Taken(y)' <=> Taken(y))
    BY DEF Pushed, Taken, Given
  <2>4. y = g => Pushed(y)' /\ ~Waits(y) /\ ~Taken(y)'
    <3> SUFFICES ASSUME y = g PROVE Pushed(y)' /\ ~Waits(y) /\ ~Taken(y)'
      OBVIOUS
    <3>1. CASE k \in Items
      BY <3>1 DEF Given, OneItem, Apart, Pushed, Taken
    <3>2. CASE k \in Pops
      <4>1. Taken(y) /\ Pushed(y) /\ ~Waits(y)
        BY <3>2 DEF Given, OneItem, Apart, Taken
      <4>2. \A c \in Pops \ {k} : pc[c] = "call" => took[c] # y
        BY <3>2 DEF Given, OneItem, OncePerPlace
      <4> QED
        BY <3>2, <4>1, <4>2 DEF Pushed, Taken
    <3>3. CASE k \in Cancelers
      BY <3>3, QueueAssumption DEF Given
    <3> QED
      BY <3>1, <3>2, <3>3
  <2> QED
    BY <2>1, <2>2, <2>3, <2>4
<1>5. Apart'
  BY <1>4 DEF OneItem, Apart
<1> QED
  BY <1>3, <1>5 DEF OneItem

\* Every step keeps every item in one place.
LEMMA StepKeepsItems == ASSUME QInv, OneItem, [Next]_vars PROVE OneItem'
<1> USE Kinds DEF QInv, TypeOK, Goto, Callers, Pushed
<1>1. CASE \E x \in Items : StartPush(x) \/ PopConsumer(x)
  BY <1>1, ItemsStay DEF StartPush, PopConsumer
<1>2. CASE \E x \in Items : Insert(x)
  BY <1>2, InsertKeepsItems
<1>3. CASE \E c \in Pops : StartPop(c) \/ Register(c)
  BY <1>3, ItemsStay DEF StartPop, Register
<1>4. CASE \E c \in Pops : TakeItem(c)
  BY <1>4, TakeItemKeepsItems
<1>5. CASE \E k \in Cancelers : StartCancel(k)
  BY <1>5, ItemsStay DEF StartCancel
<1>6. CASE \E k \in Holding : Consume(k)
  BY <1>6, ItemsStay DEF Consume, Holding
<1>7. CASE \E k \in Callers : CallHandler(k)
  BY <1>7, CallHandlerKeepsItems
<1>8. CASE \E k \in Callers : HandlerReturns(k)
  BY <1>8, ItemsStay DEF HandlerReturns
<1>9. CASE UNCHANGED vars
  BY <1>9, ItemsStay DEF vars
<1> QED
  BY <1>1, <1>2, <1>3, <1>4, <1>5, <1>6, <1>7, <1>8, <1>9
     DEF Next, Push, Pop, Answer, Holding

(* An item whose push has begun is in one place: neither lost between the   *)
(* locks nor delivered twice (lines 72-75, 110-141).                       *)
THEOREM ItemsAreConserved == Spec => []ItemHasOneHolder
<1>1. ASSUME QInv, OneItem PROVE ItemHasOneHolder
  <2> USE DEF QInv, TypeOK, PCs, Callers
  <2> SUFFICES ASSUME NEW x \in Items
               PROVE  IF pc[x] = "idle" THEN Holders(x) = {}
                      ELSE \E h \in Holders(x) : Holders(x) = {h}
    BY DEF ItemHasOneHolder
  <2> DEFINE inInventory == {i \in 1..Len(inventory_) : inventory_[i] = x}
             inPop == {d \in Pops : pc[d] = "call" /\ took[d] = x}
             inCalls == {i \in 1..Len(calls) : calls[i].got = x}
  <2>1. /\ Waits(x) <=> inInventory # {}
        /\ Taken(x) <=> inPop # {}
        /\ Answers(x) <=> inCalls # {}
    BY DEF Waits, Taken, Answers
  <2>2. /\ \A i, j \in inInventory : i = j
        /\ \A i, j \in inPop : i = j
        /\ \A i, j \in inCalls : i = j
    BY <1>1 DEF OneItem, OncePerPlace
  <2>3. /\ Pushed(x) <=> Waits(x) \/ Taken(x) \/ Answers(x)
        /\ ~(Waits(x) /\ Taken(x)) /\ ~(Waits(x) /\ Answers(x))
             /\ ~(Taken(x) /\ Answers(x))
    BY <1>1 DEF OneItem, Apart
  <2>4. pc[x] \in {"idle", "lock", "consume", "call", "run", "done"}
    BY <1>1
  <2>5. Holders(x) =
          (IF pc[x] \in {"lock", "consume", "call"}
           THEN {<<"push", x>>} ELSE {})
            \cup {<<"inventory", i>> : i \in inInventory}
            \cup {<<"pop", c>> : c \in inPop}
            \cup {<<"handler", i>> : i \in inCalls}
    BY DEF Holders, Calls
  <2> HIDE DEF inInventory, inPop, inCalls
  <2>6. CASE ~Pushed(x)
    <3>1. inInventory = {} /\ inPop = {} /\ inCalls = {}
      BY <2>6, <2>1, <2>3
    <3> QED
      BY <2>6, <2>4, <2>5, <3>1 DEF Pushed
  <2>7. CASE Waits(x)
    <3>1. PICK i \in inInventory : inInventory = {i}
      BY <2>7, <2>1, <2>2
    <3>2. Pushed(x) /\ inPop = {} /\ inCalls = {}
      BY <2>7, <2>1, <2>3
    <3>3. Holders(x) = {<<"inventory", i>>}
      BY <2>5, <3>1, <3>2 DEF Pushed
    <3> QED
      BY <3>2, <3>3 DEF Pushed
  <2>8. CASE Taken(x)
    <3>1. PICK c \in inPop : inPop = {c}
      BY <2>8, <2>1, <2>2
    <3>2. Pushed(x) /\ inInventory = {} /\ inCalls = {}
      BY <2>8, <2>1, <2>3
    <3>3. Holders(x) = {<<"pop", c>>}
      BY <2>5, <3>1, <3>2 DEF Pushed
    <3> QED
      BY <3>2, <3>3 DEF Pushed
  <2>9. CASE Answers(x)
    <3>1. PICK i \in inCalls : inCalls = {i}
      BY <2>9, <2>1, <2>2
    <3>2. Pushed(x) /\ inInventory = {} /\ inPop = {}
      BY <2>9, <2>1, <2>3
    <3>3. Holders(x) = {<<"handler", i>>}
      BY <2>5, <3>1, <3>2 DEF Pushed
    <3> QED
      BY <3>2, <3>3 DEF Pushed
  <2> QED
    BY <2>3, <2>6, <2>7, <2>8, <2>9
<1> QED
  BY Invariance, ItemsInitially, StepKeepsItems, <1>1, PTL DEF Spec

-----------------------------------------------------------------------------
(* A serialized client: what the pushes and the pops have done so far tells *)
(* the order of the items in every place, and from place to place.         *)

\* A push begins when all before it, and none after it, are done.
PushesInTurn ==
  \A x, y \in Items : x < y /\ pc[y] # "idle" => pc[x] = "done"

\* At most one async_pop waits for its answer.
PopsInTurn ==
  \A c, d \in Pops : c # d /\ pc[c] # "idle" /\ pc[d] # "idle" =>
    c \in CalledBack \/ d \in CalledBack

\* What has been answered is older than what is taken, and that than what
\* waits.
Ahead ==
  /\ \A x, y \in Items : Answers(x) /\ (Taken(y) \/ Waits(y)) => x < y
  /\ \A x, y \in Items : Taken(x) /\ Waits(y) => x < y
  /\ \A i, j \in 1..Len(inventory_) : i < j => inventory_[i] < inventory_[j]
  /\ \A i, j \in 1..Len(calls) :
       i < j /\ calls[i].got \in Items /\ calls[j].got \in Items =>
         calls[i].got < calls[j].got

\* A push that has a consumer in hand overtakes no item.
HandsOn ==
  \A x \in Items : pc[x] \in {"consume", "call"} => inventory_ = <<>>

InTurn == PushesInTurn /\ PopsInTurn /\ Ahead /\ HandsOn
FifoInv == serial => InTurn

\* In turn, the item that a push still has is newer than all that are pushed.
LEMMA NewerThanPushed ==
  ASSUME QInv, OneItem, PushesInTurn, NEW x \in Items,
           pc[x] \notin {"idle", "done", "run"},
         NEW y \in Items, Waits(y) \/ Taken(y) \/ Answers(y)
  PROVE  y < x
<1>1. Pushed(y)
  BY DEF OneItem, Apart
<1>2. y # x /\ pc[y] # "idle"
  BY <1>1 DEF Pushed
<1>3. x \in Nat /\ y \in Nat
  BY QueueAssumption
<1>4. ~(x < y)
  BY <1>2 DEF PushesInTurn
<1>5. QED
  BY <1>2, <1>3, <1>4

\* The steps that leave the items where they are.
LEMMA OrderStays ==
  ASSUME InTurn, UNCHANGED <<inventory_, took, calls>>,
         PushesInTurn', PopsInTurn', HandsOn',
         \A c \in Pops : pc'[c] = "call" <=> pc[c] = "call"
  PROVE  InTurn'
<1>1. \A x \in Items : /\ Waits(x)' <=> Waits(x)
                       /\ Taken(x)' <=> Taken(x)
                       /\ Answers(x)' <=> Answers(x)
  BY DEF Waits, Taken, Answers
<1>2. Ahead'
  BY <1>1 DEF InTurn, Ahead
<1>3. QED
  BY <1>2 DEF InTurn

\* A push begins: for a serialized client, after all the older ones.
LEMMA StartPushInTurn ==
  ASSUME QInv, OneItem, FifoInv, NEW x \in Items, StartPush(x)
  PROVE  FifoInv'
<1> SUFFICES ASSUME serial' PROVE InTurn'
  BY DEF FifoInv
<1> USE Kinds DEF Goto, Callers
<1>1. /\ serial /\ InTurn
      /\ \A y \in Items \ {x} : pc[y] = IF y < x THEN "done" ELSE "idle"
      /\ pc[x] = "idle" /\ pc' = [pc EXCEPT ![x] = "lock"]
      /\ UNCHANGED <<inventory_, took, calls>> /\ pc \in [Callers -> PCs]
  BY DEF StartPush, FifoInv, QInv, TypeOK
<1>2. PushesInTurn'
  <2> SUFFICES ASSUME NEW y \in Items, NEW z \in Items, y < z, pc'[z] # "idle"
               PROVE  pc'[y] = "done"
    BY DEF PushesInTurn
  <2>1. x \in Nat /\ y \in Nat /\ z \in Nat
    BY QueueAssumption
  <2>2. z = x \/ z < x
    <3>1. z # x => pc[z] # "idle"
      BY <1>1
    <3>2. QED
      BY <1>1, <3>1
  <2>3. y # x /\ y < x
    BY <2>1, <2>2
  <2>4. QED
    BY <1>1, <2>3
<1>3. PopsInTurn'
  BY <1>1 DEF InTurn, PopsInTurn, CalledBack
<1>4. HandsOn'
  BY <1>1 DEF InTurn, HandsOn
<1>5. QED
  BY <1>1, <1>2, <1>3, <1>4, OrderStays

\* An async_pop begins: for a serialized client, when no other waits.
LEMMA StartPopInTurn ==
  ASSUME QInv, OneItem, FifoInv, NEW c \in Pops, StartPop(c)
  PROVE  FifoInv'
<1> SUFFICES ASSUME serial' PROVE InTurn'
  BY DEF FifoInv
<1> USE Kinds DEF Goto, Callers
<1>1. /\ serial /\ InTurn
      /\ \A d \in Pops \ {c} : pc[d] = "idle" \/ d \in CalledBack
      /\ pc[c] = "idle" /\ pc' = [pc EXCEPT ![c] = "lock"]
      /\ UNCHANGED <<inventory_, took, calls>> /\ pc \in [Callers -> PCs]
  BY DEF StartPop, FifoInv, QInv, TypeOK
<1>2. PushesInTurn'
  BY <1>1 DEF InTurn, PushesInTurn
<1>3. PopsInTurn'
  BY <1>1 DEF InTurn, PopsInTurn, CalledBack
<1>4. HandsOn'
  BY <1>1 DEF InTurn, HandsOn
<1>5. QED
  BY <1>1, <1>2, <1>3, <1>4, OrderStays

\* What the pushes, the pops and their threads do when they touch no item.
LEMMA OthersInTurn ==
  ASSUME FifoInv, UNCHANGED <<inventory_, took, calls, serial>>,
         \A c \in Pops : (pc'[c] = "call" <=> pc[c] = "call")
                           /\ (pc'[c] = "idle" <=> pc[c] = "idle"),
         \A x \in Items : /\ pc'[x] = "idle" <=> pc[x] = "idle"
                          /\ pc[x] = "done" => pc'[x] = "done"
                          /\ pc'[x] \in {"consume", "call"} =>
                               pc[x] \in {"consume", "call"}
                                 \/ inventory_ = <<>>
  PROVE  FifoInv'
<1> SUFFICES ASSUME serial, InTurn PROVE InTurn'
  BY DEF FifoInv
<1>1. PushesInTurn'
  BY DEF InTurn, PushesInTurn
<1>2. PopsInTurn'
  BY DEF InTurn, PopsInTurn, CalledBack
<1>3. HandsOn'
  BY DEF InTurn, HandsOn
<1>4. QED
  BY <1>1, <1>2, <1>3, OrderStays

\* Only the push whose turn it is inserts, and what waits is older.
LEMMA InsertInTurn ==
  ASSUME QInv, OneItem, FifoInv, NEW x \in Items, Insert(x)
  PROVE  FifoInv'
<1> SUFFICES ASSUME serial, InTurn PROVE InTurn'
  BY DEF FifoInv, Insert
<1> USE Kinds DEF Callers
<1>1. /\ pc[x] = "lock" /\ pc' = [pc EXCEPT ![x] = "done"]
           /\ pc \in [Callers -> PCs]
      /\ UNCHANGED <<took, calls>>
      /\ inventory_' = Append(inventory_, x) /\ inventory_ \in Seq(Items)
  BY DEF Insert, Goto, QInv, TypeOK
<1>2. /\ Len(inventory_') = Len(inventory_) + 1
           /\ inventory_'[Len(inventory_) + 1] = x
      /\ \A i \in 1..Len(inventory_) : inventory_'[i] = inventory_[i]
           /\ inventory_[i] \in Items
      /\ Len(inventory_) \in Nat
  BY <1>1, AppendFacts, Entries
<1>3. \A y \in Items : Waits(y) \/ Taken(y) \/ Answers(y) => y < x
  BY <1>1, NewerThanPushed DEF InTurn
<1>4. PushesInTurn'
  BY <1>1 DEF InTurn, PushesInTurn
<1>5. PopsInTurn'
  BY <1>1 DEF InTurn, PopsInTurn, CalledBack
<1>6. HandsOn'
  <2> SUFFICES ASSUME NEW y \in Items, pc'[y] \in {"consume", "call"}
               PROVE FALSE
    BY DEF HandsOn
  <2>1. y # x /\ pc[y] \in {"consume", "call"}
    BY <1>1
  <2>2. x \in Nat /\ y \in Nat
    BY QueueAssumption
  <2>3. ~(x < y) /\ ~(y < x)
    BY <1>1, <2>1 DEF InTurn, PushesInTurn
  <2>4. QED
    BY <2>1, <2>2, <2>3
<1>7. \A y \in Items : /\ Waits(y)' <=> Waits(y) \/ y = x
                       /\ Taken(y)' <=> Taken(y)
                       /\ Answers(y)' <=> Answers(y)
  <2>1. \A y \in Items : Waits(y)' <=> Waits(y) \/ y = x
    BY <1>2 DEF Waits
  <2>2. \A y \in Items : Taken(y)' <=> Taken(y)
    BY <1>1 DEF Taken
  <2>3. QED
    BY <1>1, <2>1, <2>2 DEF Answers
<1>8. Ahead'
  <2>1. ASSUME NEW i \in 1..Len(inventory_'), NEW j \in 1..Len(inventory_'),
                 i < j
        PROVE  inventory_'[i] < inventory_'[j]
    <3>1. i \in 1..Len(inventory_)
      BY <1>2, <2>1
    <3>2. CASE j \in 1..Len(inventory_)
      BY <1>2, <2>1, <3>1, <3>2 DEF InTurn, Ahead
    <3>3. CASE j = Len(inventory_) + 1
      <4>1. inventory_[i] \in Items /\ Waits(inventory_[i])
        BY <1>2, <3>1 DEF Waits
      <4>2. QED
        BY <1>2, <1>3, <3>1, <3>3, <4>1
    <3>4. QED
      BY <1>2, <3>2, <3>3
  <2>2. QED
    BY <1>1, <1>3, <1>7, <2>1 DEF InTurn, Ahead
<1>9. QED
  BY <1>4, <1>5, <1>6, <1>8 DEF InTurn

\* An async_pop that takes an item out is the only one that waits.
LEMMA OnlyPop ==
  ASSUME QInv, PopsInTurn, NEW c \in Pops, pc[c] \in {"lock", "call"},
         NEW d \in Pops, pc[d] \in {"lock", "call"}
  PROVE  c = d
<1>1. \A e \in Pops : pc[e] \in {"lock", "call"} => e \notin CalledBack
  BY DEF QInv, Uncalled, CalledBack
<1>2. QED
  BY <1>1 DEF PopsInTurn

\* It takes the oldest.
LEMMA TakeItemInTurn ==
  ASSUME QInv, OneItem, FifoInv, NEW c \in Pops, TakeItem(c)
  PROVE  FifoInv'
<1> SUFFICES ASSUME serial, InTurn PROVE InTurn'
  BY DEF FifoInv, TakeItem
<1> USE Kinds DEF Callers
<1> DEFINE x == Head(inventory_)
<1>1. /\ pc[c] = "lock" /\ pc' = [pc EXCEPT ![c] = "call"]
           /\ pc \in [Callers -> PCs]
      /\ took' = [took EXCEPT ![c] = x] /\ took \in [Pops -> Items \cup {None}]
      /\ UNCHANGED calls
      /\ inventory_ \in Seq(Items) /\ inventory_ # <<>>
           /\ inventory_' = Tail(inventory_)
  BY DEF TakeItem, Goto, QInv, TypeOK
<1>2. /\ x \in Items /\ Len(inventory_) \in Nat \ {0} /\ inventory_[1] = x
      /\ Len(inventory_') = Len(inventory_) - 1
      /\ \A i \in 1..Len(inventory_') : inventory_'[i] = inventory_[i + 1]
  BY <1>1, TailFacts
<1> HIDE DEF x
<1>3. \A d \in Pops : pc[d] # "call"
  BY <1>1, OnlyPop DEF InTurn
<1>4. /\ Waits(x)
      /\ \A y \in Items : Waits(y)' => Waits(y) /\ x < y
  <2>1. Waits(x)
    BY <1>2 DEF Waits
  <2>2. ASSUME NEW i \in 1..Len(inventory_')
        PROVE  Waits(inventory_'[i]) /\ x < inventory_'[i]
    <3>1. i + 1 \in 1..Len(inventory_) /\ 1 < i + 1
            /\ inventory_'[i] = inventory_[i + 1]
      BY <1>2
    <3>2. QED
      BY <1>2, <3>1 DEF InTurn, Ahead, Waits
  <2>3. QED
    BY <2>1, <2>2 DEF Waits
<1>5. \A y \in Items : /\ Taken(y)' => y = x
                       /\ Answers(y)' <=> Answers(y)
  BY <1>1, <1>3 DEF Taken, Answers
<1>6. PushesInTurn'
  BY <1>1 DEF InTurn, PushesInTurn
<1>7. PopsInTurn'
  BY <1>1 DEF InTurn, PopsInTurn, CalledBack
<1>8. HandsOn'
  BY <1>1 DEF InTurn, HandsOn
<1>9. Ahead'
  <2>1. \A i, j \in 1..Len(inventory_') : i < j =>
          inventory_'[i] < inventory_'[j]
    <3> SUFFICES ASSUME NEW i \in 1..Len(inventory_'),
                   NEW j \in 1..Len(inventory_'), i < j
                 PROVE  inventory_'[i] < inventory_'[j]
      OBVIOUS
    <3>1. i + 1 \in 1..Len(inventory_) /\ j + 1 \in 1..Len(inventory_)
            /\ i + 1 < j + 1
      BY <1>2
    <3>2. QED
      BY <1>2, <3>1 DEF InTurn, Ahead
  <2>2. QED
    BY <1>1, <1>2, <1>4, <1>5, <2>1 DEF InTurn, Ahead
<1>10. QED
  BY <1>6, <1>7, <1>8, <1>9 DEF InTurn

\* Whoever is answered was waiting alone: the item he is given is newer than
\* all that were given, and older than all that were not.
LEMMA CallHandlerInTurn ==
  ASSUME QInv, OneItem, FifoInv, NEW k \in Callers, CallHandler(k)
  PROVE  FifoInv'
<1> SUFFICES ASSUME serial, InTurn PROVE InTurn'
  BY DEF FifoInv, CallHandler
<1> USE Kinds DEF Callers
<1> DEFINE g == Given(k)
           n == Len(calls)
<1>1. /\ pc[k] = "call" /\ pc' = [pc EXCEPT ![k] = "run"]
           /\ pc \in [Callers -> PCs]
      /\ UNCHANGED <<inventory_, took>>
  BY DEF CallHandler, Goto, QInv, TypeOK
<1>2. g \in Items \cup {Aborted} /\ Target(k) \in Pops
  BY <1>1 DEF QInv, Stages, Given, Target, Holding
<1>3. /\ Len(calls') = n + 1 /\ calls'[n + 1].got = g /\ n \in Nat
      /\ \A i \in 1..n : calls'[i] = calls[i]
  <2>1. [pop |-> Target(k), got |-> g] \in [pop : Pops,
          got : Items \cup {Aborted}]
    BY <1>2
  <2>2. QED
    BY <2>1, AppendFacts DEF CallHandler, QInv, TypeOK
<1> HIDE DEF g, n
<1>4. CalledBack \subseteq CalledBack'
  BY <1>3 DEF CalledBack, n
<1>5. PushesInTurn'
  BY <1>1 DEF InTurn, PushesInTurn
<1>6. PopsInTurn'
  BY <1>1, <1>4 DEF InTurn, PopsInTurn
<1>7. HandsOn'
  BY <1>1 DEF InTurn, HandsOn
<1>8. /\ \A y \in Items : Answers(y)' <=> Answers(y) \/ y = g
      /\ \A y \in Items : Waits(y)' <=> Waits(y)
      /\ \A y \in Items : Taken(y)' => Taken(y)
  BY <1>1, <1>3 DEF Answers, Waits, Taken, n
<1>9. ASSUME g \in Items
      PROVE  /\ \A y \in Items : Answers(y) => y < g
             /\ \A y \in Items : Waits(y) => g < y
             /\ \A y \in Items : ~Taken(y)'
  <2>1. CASE k \in Items
    <3>1. g = k
      BY <2>1 DEF g, Given
    <3>2. \A y \in Items : Answers(y) => y < g
      BY <1>1, <2>1, <3>1, NewerThanPushed DEF InTurn
    <3>3. \A y \in Items : ~Waits(y)
      BY <1>1, <2>1 DEF InTurn, HandsOn, Waits
    <3>4. \A d \in Pops : pc[d] # "call"
      <4>1. hand[k] \in Pops /\ pc[hand[k]] = "done"
              /\ hand[k] \notin CalledBack
        BY <1>1, <2>1
           DEF QInv, Stages, Registered, Exclusive, Uncalled, Holding,
             CalledBack
      <4>2. \A d \in Pops : pc[d] = "call" => d \notin CalledBack
        BY DEF QInv, Uncalled, CalledBack
      <4>3. QED
        BY <4>1, <4>2 DEF InTurn, PopsInTurn
    <3>5. QED
      BY <1>1, <3>2, <3>3, <3>4 DEF Taken
  <2>2. CASE k \in Pops
    <3>1. g = took[k] /\ Taken(g)
      BY <1>1, <2>2 DEF g, Given, Taken
    <3>2. \A d \in Pops : pc'[d] # "call"
      BY <1>1, <2>2, OnlyPop DEF InTurn
    <3>3. QED
      BY <1>9, <3>1, <3>2 DEF InTurn, Ahead, Taken
  <2>3. CASE k \in Cancelers
    BY <1>9, <2>3, QueueAssumption DEF g, Given
  <2>4. QED
    BY <2>1, <2>2, <2>3
<1>10. Ahead'
  <2>1. ASSUME NEW i \in 1..(n + 1), NEW j \in 1..(n + 1), i < j,
               calls'[i].got \in Items, calls'[j].got \in Items
        PROVE  calls'[i].got < calls'[j].got
    <3>1. i \in 1..n /\ calls'[i] = calls[i]
      BY <1>3, <2>1
    <3>2. CASE j \in 1..n
      BY <1>3, <2>1, <3>1, <3>2 DEF InTurn, Ahead, n
    <3>3. CASE j = n + 1
      <4>1. Answers(calls[i].got) /\ g \in Items
        BY <1>3, <2>1, <3>1, <3>3 DEF Answers, n
      <4>2. QED
        BY <1>3, <1>9, <2>1, <3>1, <3>3, <4>1
    <3>4. QED
      BY <1>3, <3>2, <3>3
  <2>2. \A x, y \in Items : Answers(x)' /\ (Taken(y)' \/ Waits(y)') => x < y
    BY <1>8, <1>9 DEF InTurn, Ahead
  <2>3. \A x, y \in Items : Taken(x)' /\ Waits(y)' => x < y
    BY <1>8 DEF InTurn, Ahead
  <2>4. \A i, j \in 1..Len(inventory_') : i < j =>
          inventory_'[i] < inventory_'[j]
    BY <1>1 DEF InTurn, Ahead
  <2>5. QED
    BY <1>3, <2>1, <2>2, <2>3, <2>4 DEF Ahead
<1>11. QED
  BY <1>5, <1>6, <1>7, <1>10 DEF InTurn

\* Every step keeps the order, for as long as the client is serial.
LEMMA StepInTurn == ASSUME QInv, OneItem, FifoInv, [Next]_vars PROVE FifoInv'
<1> USE Kinds DEF QInv, TypeOK, Goto, Callers
<1>1. CASE \E x \in Items : PopConsumer(x)
  <2>1. PICK x \in Items : PopConsumer(x)
    BY <1>1
  <2>2. inventory_ = <<>>
    BY <2>1 DEF PopConsumer, OnePlace
  <2>3. QED
    BY <2>1, <2>2, OthersInTurn DEF PopConsumer
<1>2. CASE \E c \in Pops : Register(c)
  BY <1>2, OthersInTurn DEF Register
<1>3. CASE \E k \in Cancelers : StartCancel(k)
  BY <1>3, OthersInTurn DEF StartCancel
<1>4. CASE \E k \in Holding : Consume(k)
  BY <1>4, OthersInTurn DEF Consume, Holding
<1>5. CASE \E k \in Callers : HandlerReturns(k)
  BY <1>5, OthersInTurn DEF HandlerReturns
<1>6. CASE UNCHANGED vars
  BY <1>6, OthersInTurn DEF vars
<1> QED
  BY <1>1, <1>2, <1>3, <1>4, <1>5, <1>6, StartPushInTurn, InsertInTurn,
     StartPopInTurn, TakeItemInTurn, CallHandlerInTurn
     DEF Next, Push, Pop, Answer, Holding

(* "If you want to ensure FIFO": serialized pushes and one async_pop at a   *)
(* time see the items in the order of the pushes (lines 26-28).            *)
THEOREM FirstInFirstOut == Spec => []Fifo
<1>1. Init => FifoInv
  BY Kinds DEF Init, FifoInv, InTurn, PushesInTurn, PopsInTurn, Ahead, HandsOn,
     Waits, Taken, Answers, Callers
<1>2. QInv /\ FifoInv => Fifo
  <2> SUFFICES ASSUME QInv, FifoInv, serial, NEW i \in Calls, NEW j \in Calls,
                      i < j, calls[i].got # Aborted, calls[j].got # Aborted
               PROVE  calls[i].got < calls[j].got
    BY DEF Fifo
  <2>1. \A l \in Calls : calls[l].got \in Items \cup {Aborted}
    <3>1. \A l \in Calls : calls[l] \in [pop : Pops, got : Items \cup {Aborted}]
      BY Entries DEF QInv, TypeOK, Calls
    <3>2. QED
      BY <3>1
  <2>2. QED
    BY <2>1 DEF FifoInv, InTurn, Ahead, Calls
<1>3. QED
  BY <1>1, <1>2, Invariance, Initially, StepKeeps, ItemsInitially,
     StepKeepsItems,
     StepInTurn, PTL DEF Spec

-----------------------------------------------------------------------------
(* The queue is a matching of items and consumers.                          *)

\* What a consumer has been told.
Told(c) ==
  IF c \in CalledBack
  THEN calls[CHOOSE i \in Calls : calls[i].pop = c].got ELSE None
PushedItems == {x \in Items : pc[x] # "idle"}
AskedPops == {c \in Pops : pc[c] # "idle"}
ToldAll == [c \in Pops |-> Told(c)]

CallsTell ==
  /\ \A i \in Calls : Told(calls[i].pop) = calls[i].got
  /\ \A c \in Pops : c \notin CalledBack => Told(c) = None

\* As every handler is called once, a call tells its consumer.
LEMMA ToldByCall == QInv => CallsTell
<1> SUFFICES ASSUME QInv, NEW i \in Calls
             PROVE Told(calls[i].pop) = calls[i].got
  BY DEF CallsTell, Told
<1> DEFINE c == calls[i].pop
           j == CHOOSE l \in Calls : calls[l].pop = c
<1>1. j \in Calls /\ calls[j].pop = c
  OBVIOUS
<1>2. j = i
  BY <1>1 DEF QInv, CalledOnce, Calls
<1>3. c \in CalledBack
  BY DEF CalledBack, Calls
<1>4. QED
  BY <1>2, <1>3 DEF Told

\* A handler call tells one consumer, who had asked and had not been told.
LEMMA CallTells ==
  ASSUME QInv, OneItem, QInv', NEW k \in Callers, CallHandler(k)
  PROVE  \/ \E c \in Pops, x \in Items : Abs!Match(c, x)
         \/ \E c \in Pops : Abs!Abort(c)
<1> USE Kinds DEF Callers
<1>0. PICK c, g, n : c = Target(k) /\ g = Given(k) /\ n = Len(calls)
  OBVIOUS
<1>1. /\ pc[k] = "call" /\ pc' = [pc EXCEPT ![k] = "run"]
           /\ pc \in [Callers -> PCs]
  BY DEF CallHandler, Goto, QInv, TypeOK
<1>2. g \in Items \cup {Aborted} /\ c \in Pops
  BY <1>0, <1>1 DEF QInv, Stages, Given, Target, Holding
<1>3. /\ Len(calls') = n + 1 /\ n \in Nat
      /\ calls'[n + 1].pop = c /\ calls'[n + 1].got = g
      /\ \A i \in 1..n : calls'[i] = calls[i]
  <2> DEFINE call == [pop |-> c, got |-> g]
  <2>1. call \in [pop : Pops, got : Items \cup {Aborted}] /\ call.pop = c
          /\ call.got = g
    BY <1>2
  <2>2. calls' = Append(calls, call)
    BY <1>0 DEF CallHandler
  <2> HIDE DEF call
  <2>3. QED
    BY <1>0, <2>1, <2>2, AppendFacts DEF QInv, TypeOK
<1>4. c \notin CalledBack /\ pc[c] # "idle"
  <2>1. CASE k \in Pops
    BY <1>0, <1>1, <2>1 DEF Target, QInv, Uncalled, CalledBack
  <2>2. CASE k \notin Pops
    BY <1>0, <1>1, <2>2
       DEF Target, QInv, Stages, Registered, Exclusive, Uncalled, Holding,
         CalledBack
  <2>3. QED
    BY <2>1, <2>2
<1>5. PushedItems' = PushedItems /\ AskedPops' = AskedPops
  BY <1>1 DEF PushedItems, AskedPops
<1>6. ToldAll' = [ToldAll EXCEPT ![c] = g]
  <2>1. (QInv => CallsTell)'
    BY ToldByCall, PTL
  <2>2. Told(c)' = g
    <3>1. n + 1 \in Calls'
      BY <1>3 DEF Calls
    <3>2. QED
      BY <1>3, <2>1, <3>1 DEF CallsTell
  <2>3. ASSUME NEW d \in Pops, d # c PROVE Told(d)' = Told(d)
    <3>1. CASE d \in CalledBack
      <4>1. PICK i \in 1..n : calls[i].pop = d
        BY <1>0, <3>1 DEF CalledBack
      <4>2. i \in Calls /\ i \in Calls' /\ calls'[i] = calls[i]
        BY <1>0, <1>3, <4>1 DEF Calls
      <4>3. QED
        BY <2>1, <4>1, <4>2, ToldByCall DEF CallsTell
    <3>2. CASE d \notin CalledBack
      <4>1. d \notin CalledBack'
        BY <1>0, <1>3, <2>3, <3>2 DEF CalledBack
      <4>2. QED
        BY <2>1, <3>2, <4>1, ToldByCall DEF CallsTell
    <3>3. QED
      BY <3>1, <3>2
  <2>4. QED
    BY <1>2, <2>2, <2>3 DEF ToldAll
<1>7. ToldAll[c] = None
  BY <1>2, <1>4, ToldByCall DEF CallsTell, ToldAll
<1>8. CASE g \in Items
  <2>1. g \in PushedItems
    BY <1>0, <1>1, <1>8
       DEF PushedItems, Given, OneItem, Apart, Pushed, Taken, QInv, Stages
  <2>2. ASSUME NEW d \in Pops PROVE ToldAll[d] # g
    <3>1. ~Answers(g)
      BY <1>0, <1>1, <1>8 DEF OneItem, Apart, Given, QInv, Stages, Taken, Pushed
    <3>2. CASE d \in CalledBack
      <4>1. PICK i \in Calls : calls[i].pop = d
        BY <3>2 DEF CalledBack, Calls
      <4>2. QED
        BY <3>1, <4>1, ToldByCall DEF CallsTell, Answers, Calls, ToldAll
    <3>3. CASE d \notin CalledBack
      BY <1>8, <3>3, ToldByCall DEF CallsTell, ToldAll
    <3>4. QED
      BY <3>2, <3>3
  <2>3. Abs!Match(c, g)
    BY <1>2, <1>4, <1>5, <1>6, <1>7, <2>1, <2>2
       DEF Abs!Match, ToldAll, Told, PushedItems, AskedPops
  <2>4. QED
    BY <1>2, <1>8, <2>3
<1>9. CASE g = Aborted
  <2>1. Abs!Abort(c)
    BY <1>2, <1>4, <1>5, <1>6, <1>7, <1>9
       DEF Abs!Abort, ToldAll, Told, PushedItems, AskedPops
  <2>2. QED
    BY <1>2, <2>1
<1>10. QED
  BY <1>2, <1>8, <1>9

\* A push begins by offering its item.
LEMMA StartOffers ==
  ASSUME QInv, NEW x \in Items, StartPush(x)
  PROVE  Abs!Offer(x)
<1> USE Kinds DEF Callers
<1>1. PushedItems' = PushedItems \cup {x} /\ AskedPops' = AskedPops
  BY DEF StartPush, Goto, QInv, TypeOK, PushedItems, AskedPops
<1>2. ToldAll' = ToldAll
  BY DEF StartPush, ToldAll, Told, CalledBack, Calls
<1>3. QED
  BY <1>1, <1>2 DEF Abs!Offer, ToldAll, Told, PushedItems, AskedPops

\* An async_pop begins by asking.
LEMMA StartAsks ==
  ASSUME QInv, NEW c \in Pops, StartPop(c)
  PROVE  Abs!AskFor(c)
<1> USE Kinds DEF Callers
<1>1. PushedItems' = PushedItems /\ AskedPops' = AskedPops \cup {c}
  BY DEF StartPop, Goto, QInv, TypeOK, PushedItems, AskedPops
<1>2. ToldAll' = ToldAll
  BY DEF StartPop, ToldAll, Told, CalledBack, Calls
<1>3. QED
  BY <1>1, <1>2 DEF Abs!AskFor, ToldAll, Told, PushedItems, AskedPops

\* The other steps change nothing that the matching shows.
LEMMA OthersShowNothing ==
  ASSUME UNCHANGED calls,
         \A k \in Items \cup Pops : pc'[k] = "idle" <=> pc[k] = "idle"
  PROVE  UNCHANGED Abs!matchVars
<1>1. PushedItems' = PushedItems /\ AskedPops' = AskedPops
  BY DEF PushedItems, AskedPops
<1>2. ToldAll' = ToldAll
  BY DEF ToldAll, Told, CalledBack, Calls
<1>3. QED
  BY <1>1, <1>2 DEF Abs!matchVars, ToldAll, Told, PushedItems, AskedPops

\* Every step is one of the matching, or shows nothing.
LEMMA StepOfMatching ==
  ASSUME QInv, OneItem, QInv', [Next]_vars
  PROVE  [Abs!MatchNext]_(Abs!matchVars)
<1> USE Kinds DEF QInv, TypeOK, Goto, Callers
<1>1. CASE \E x \in Items : StartPush(x)
  BY <1>1, StartOffers DEF Abs!MatchNext
<1>2. CASE \E c \in Pops : StartPop(c)
  BY <1>2, StartAsks DEF Abs!MatchNext
<1>3. CASE \E k \in Callers : CallHandler(k)
  BY <1>3, CallTells DEF Abs!MatchNext
<1>4. CASE \E x \in Items : PopConsumer(x) \/ Insert(x)
  BY <1>4, OthersShowNothing DEF PopConsumer, Insert
<1>5. CASE \E c \in Pops : TakeItem(c) \/ Register(c)
  BY <1>5, OthersShowNothing DEF TakeItem, Register
<1>6. CASE \E k \in Cancelers : StartCancel(k)
  BY <1>6, OthersShowNothing DEF StartCancel
<1>7. CASE \E k \in Holding : Consume(k)
  BY <1>7, OthersShowNothing DEF Consume, Holding
<1>8. CASE \E k \in Callers : HandlerReturns(k)
  BY <1>8, OthersShowNothing DEF HandlerReturns
<1>9. CASE UNCHANGED vars
  BY <1>9, OthersShowNothing DEF vars
<1> QED
  BY <1>1, <1>2, <1>3, <1>4, <1>5, <1>6, <1>7, <1>8, <1>9
     DEF Next, Push, Pop, Answer, Holding

(* The queue implements the matching, without its promise of progress: each *)
(* consumer is given one item or is cancelled, once, and each item is given *)
(* to one consumer (lines 21-24).                                          *)
THEOREM IsAMatching == Spec =>
  Abs!MatchInit /\ [][Abs!MatchNext]_(Abs!matchVars)
<1>1. Init => Abs!MatchInit
  <2> SUFFICES ASSUME Init PROVE Abs!MatchInit
    OBVIOUS
  <2>1. PushedItems = {} /\ AskedPops = {}
    BY DEF Init, PushedItems, AskedPops, Callers
  <2>2. ToldAll = [c \in Pops |-> None]
    BY DEF Init, ToldAll, Told, CalledBack
  <2>3. QED
    BY <2>1, <2>2 DEF Abs!MatchInit, ToldAll, Told, PushedItems, AskedPops
<1>2. QInv /\ OneItem /\ QInv' /\ [Next]_vars => [Abs!MatchNext]_(Abs!matchVars)
  BY StepOfMatching
<1>3. QED
  BY <1>1, <1>2, Initially, StepKeeps, ItemsInitially, StepKeepsItems, PTL
     DEF Spec
=============================================================================

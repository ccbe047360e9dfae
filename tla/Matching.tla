------------------------------ MODULE Matching ------------------------------
(***************************************************************************)
(* What AsyncQueue promises (async_queue.h:21-24): each consumer is        *)
(* matched up with one item, or is told that it has been cancelled.        *)
(* Nothing is said of the order.                                           *)
(***************************************************************************)
CONSTANTS Items, Pops, Aborted, None

VARIABLES
  pushed,   \* the items offered
  asked,    \* the consumers that have asked
  answer    \* answer[c]: the item c was given, Aborted, or None

matchVars == <<pushed, asked, answer>>

MatchInit ==
  /\ pushed = {} /\ asked = {}
  /\ answer = [c \in Pops |-> None]

Offer(x) ==
  /\ pushed' = pushed \cup {x}
  /\ UNCHANGED <<asked, answer>>

AskFor(c) ==
  /\ asked' = asked \cup {c}
  /\ UNCHANGED <<pushed, answer>>

Match(c, x) ==
  /\ c \in asked /\ answer[c] = None
  /\ x \in pushed /\ \A d \in Pops : answer[d] # x
  /\ answer' = [answer EXCEPT ![c] = x]
  /\ UNCHANGED <<pushed, asked>>

Abort(c) ==
  /\ c \in asked /\ answer[c] = None
  /\ answer' = [answer EXCEPT ![c] = Aborted]
  /\ UNCHANGED <<pushed, asked>>

MatchNext ==
  \/ \E x \in Items : Offer(x)
  \/ \E c \in Pops : AskFor(c) \/ Abort(c)
  \/ \E c \in Pops, x \in Items : Match(c, x)

(***************************************************************************)
(* An item and a consumer do not both wait for ever.                       *)
(***************************************************************************)
MatchSpec ==
  /\ MatchInit /\ [][MatchNext]_matchVars
  /\ WF_matchVars(\E c \in Pops, x \in Items : Match(c, x))
===========================================================================

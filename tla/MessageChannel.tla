---------------------------- MODULE MessageChannel ----------------------------
(***************************************************************************)
(* What the transports of the bridge promise to the parts above them: a    *)
(* channel that hands over the messages it has taken once and in order.  A *)
(* lossy one may give up messages, but says so before it hands over a      *)
(* later one; the other hands over every message until it ends.            *)
(***************************************************************************)
EXTENDS Integers, Sequences

CONSTANTS
  Messages, \* numbers of messages, in the order they are submitted
  Lossy     \* may the channel give up messages?

VARIABLES
  taken,    \* messages accepted from the sender
  given,    \* messages handed over, in order
  gone      \* messages given up

channelVars == <<taken, given, gone>>

Given == {given[i] : i \in DOMAIN given}

Init == taken = {} /\ given = <<>> /\ gone = {}

Take(new) ==
  /\ \A n \in new, m \in taken : m < n
  /\ taken' = taken \cup new
  /\ UNCHANGED <<given, gone>>

Give(n) ==
  /\ n \in taken \ (Given \cup gone)
  /\ \A m \in taken : m < n => m \in Given \cup gone
  /\ given' = Append(given, n)
  /\ UNCHANGED <<taken, gone>>

GiveUp(lost) ==
  /\ lost \subseteq taken \ Given
  /\ gone' = gone \cup lost
  /\ UNCHANGED <<taken, given>>

Next ==
  \/ \E new \in SUBSET Messages : Take(new)
  \/ \E n \in Messages : Give(n)
  \/ Lossy /\ \E lost \in SUBSET Messages : GiveUp(lost)

Spec == Init /\ [][Next]_channelVars
=============================================================================

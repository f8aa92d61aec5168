--------------------------- MODULE OrderedChannel ---------------------------
(***************************************************************************)
(* What the record layer promises, with no keys, sequence numbers, locks   *)
(* or network in sight: the receiver gets the items of the sender, each at *)
(* most once, in the order they were sent, with nothing left out in        *)
(* between.  Items that never arrive are a missing tail.                   *)
(***************************************************************************)
EXTENDS Naturals, Sequences

CONSTANT Item

VARIABLES sent,   \* the items accepted from the sender, in order
          rcvd    \* the items handed to the receiver, in order

Init ==
  /\ sent = << >>
  /\ rcvd = << >>

Send ==
  /\ \E x \in Item : sent' = Append(sent, x)
  /\ UNCHANGED rcvd

Receive ==
  /\ Len(rcvd) < Len(sent)
  /\ rcvd' = Append(rcvd, sent[Len(rcvd) + 1])
  /\ UNCHANGED sent

Next == Send \/ Receive

Spec == Init /\ [][Next]_<<sent, rcvd>>
=============================================================================

------------------------------- MODULE Relay -------------------------------
(***************************************************************************)
(* What the proxy promises for one direction of one connection: the        *)
(* receiver gets the sender's chunks in order, each once, none invented;   *)
(* and, when nothing fails, it gets all of them.                           *)
(***************************************************************************)
EXTENDS Integers, Sequences

VARIABLES
  sent,   \* chunks taken from the sender's stream; chunk i is the i-th
  got     \* chunks written to the receiver's stream

vars == <<sent, got>>

Init == sent = 0 /\ got = << >>

Accept == sent' = sent + 1 /\ UNCHANGED got

Deliver ==
  /\ Len(got) < sent
  /\ got' = Append(got, Len(got) + 1)
  /\ UNCHANGED sent

Next == Accept \/ Deliver

\* Safety alone: a relay that may stop at any time.
SafeSpec == Init /\ [][Next]_vars

\* A relay whose ends stay open.
Spec == SafeSpec /\ WF_vars(Deliver)
=============================================================================

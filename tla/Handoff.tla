------------------------------ MODULE Handoff -------------------------------
(***************************************************************************)
(* What every channel of the bridge promises about the things it carries:  *)
(* an input, a message or a request is taken over once, is then delivered  *)
(* or given up, and neither comes back.  Several may move in one step,     *)
(* when a connection or a process takes down what it holds.                *)
(***************************************************************************)
CONSTANT Items

VARIABLE stage

Stages == {"fresh", "held", "delivered", "lost"}

Moves == {<<"fresh", "held">>, <<"held", "delivered">>, <<"held", "lost">>}

Init == stage = [i \in Items |-> "fresh"]

Next ==
  /\ stage' \in [Items -> Stages]
  /\ \A i \in Items : stage'[i] = stage[i] \/ <<stage[i], stage'[i]>> \in Moves

Spec == Init /\ [][Next]_stage
=============================================================================

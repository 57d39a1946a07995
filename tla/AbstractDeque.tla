--------------------------- MODULE AbstractDeque ---------------------------
(***************************************************************************)
(* The deque of the annotations of deque.c: push() and take() work at the  *)
(* back, steal() at the front, and what is handed out leaves the deque.    *)
(***************************************************************************)
EXTENDS Naturals, Sequences, SequencesExt

VARIABLES
  deque,  \* the items, front first
  out,    \* what take() and steal() have returned
  pushed  \* number of the last item pushed

Init == deque = <<>> /\ out = <<>> /\ pushed = 0

Push ==
  /\ pushed' = pushed + 1
  /\ deque' = Append(deque, pushed')
  /\ UNCHANGED out

Take ==
  /\ deque # <<>>
  /\ out' = Append(out, Last(deque))
  /\ deque' = Front(deque)
  /\ UNCHANGED pushed

Steal ==
  /\ deque # <<>>
  /\ out' = Append(out, Head(deque))
  /\ deque' = Tail(deque)
  /\ UNCHANGED pushed

Spec == Init /\ [][Push \/ Take \/ Steal]_<<deque, out, pushed>>
=============================================================================

---------------------------- MODULE AbstractLock ----------------------------
(***************************************************************************)
(* What the locks of the suite promise: the boolean STATE(lock) of their   *)
(* annotations, with the thread that holds it.  Taking the lock requires   *)
(* that nobody holds it, releasing it that the caller does.                *)
(***************************************************************************)
CONSTANT Thread

VARIABLE owner   \* the threads between their lock() and their unlock()

Init == owner = {}

Acquire(t) == owner = {} /\ owner' = {t}

Release(t) == owner = {t} /\ owner' = {}

Next == \E t \in Thread : Acquire(t) \/ Release(t)

Spec == Init /\ [][Next]_owner
=============================================================================

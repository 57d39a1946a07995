---------------------------- MODULE AbstractMap ----------------------------
(***************************************************************************)
(* What concurrent-hashmap/hashmap.h promises: put() and get() of one key  *)
(* happen one at a time, each with the value the last put() left.          *)
(***************************************************************************)
CONSTANTS
  Key,
  Value  \* the values put() is called with

VARIABLES
  map,    \* key -> its value, 0 if it has none
  answer  \* the last call, its key and what it returned

Answer(op, k) == answer' = [op |-> op, key |-> k, value |-> map[k]]

Init == map \in [Key -> Value \cup {0}] /\ answer = [op |-> "none", key |-> 0, value |-> 0]

Put(k) == Answer("put", k) /\ \E v \in Value : map' = [map EXCEPT ![k] = v]

Get(k) == Answer("get", k) /\ UNCHANGED map

Next == \E k \in Key : Put(k) \/ Get(k)

Spec == Init /\ [][Next]_<<map, answer>>
=============================================================================

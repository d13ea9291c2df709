------------------------------ MODULE KeyedLock ------------------------------
(***************************************************************************)
(* What the keyed mutex of the provider promises: of the processes that    *)
(* are between Lock(key) and Unlock(key), no two have the same key.        *)
(*                                                                         *)
(*   okta/internal/mutexkv/mutexkv.go                                      *)
(***************************************************************************)
CONSTANTS Procs, Keys, NoKey

VARIABLE inside   \* for each process, the key it holds

TypeOK == inside \in [Procs -> Keys \cup {NoKey}]

Init == inside = [p \in Procs |-> NoKey]

Enter(p, k) ==
  /\ inside[p] = NoKey
  /\ \A q \in Procs : inside[q] # k
  /\ inside' = [inside EXCEPT ![p] = k]

Leave(p) ==
  /\ inside[p] # NoKey
  /\ inside' = [inside EXCEPT ![p] = NoKey]

Next == \E p \in Procs : Leave(p) \/ \E k \in Keys : Enter(p, k)

Spec == Init /\ [][Next]_inside
=============================================================================

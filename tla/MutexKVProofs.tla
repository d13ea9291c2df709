---------------------------- MODULE MutexKVProofs ----------------------------
(***************************************************************************)
(* Proofs about MutexKV, for any set of goroutines and any set of keys.    *)
(*                                                                         *)
(* The inductive invariant says who is in the map, and that every process  *)
(* past its lookup knows the one mutex its key will ever have.             *)
(***************************************************************************)
EXTENDS MutexKV, TLAPS

InMap == {"look", "made", "relook"}

\* Only the holder of the lock of the map is between its lookup and its end.
OneInMap == \A p \in Procs : pc[p] \in InMap => lock = p

\* A process that makes a mutex does so for a key that still has none.
MakesFirst ==
  \A p \in Procs : pc[p] = "made" => store[key[p]] = NoMutex /\ mutex[p] = << p, key[p] >>

\* Past its lookup a process has the mutex stored for its key.
KnowsMutex ==
  \A p \in Procs : pc[p] \in {"wait"} \cup Holding => /\ store[key[p]] # NoMutex
                                                      /\ mutex[p] = store[key[p]]

HoldsMutex == \A p \in Procs : pc[p] \in Holding => holder[mutex[p]] = p

IInv == TypeOK /\ OneInMap /\ MakesFirst /\ KnowsMutex /\ HoldsMutex

-----------------------------------------------------------------------------
LEMMA Consts == NoProc \notin Procs /\ NoKey \notin Keys /\ NoMutex \notin Mutexes
BY MutexKVAssumption DEF NoMutex, Mutexes

LEMMA InitInv == Init => IInv
BY Consts DEF Init, IInv, TypeOK, OneInMap, MakesFirst, KnowsMutex, HoldsMutex,
              InMap, Holding, PCs, Mutexes

LEMMA StepInv == IInv /\ [Next]_vars => IInv'
<1> SUFFICES ASSUME IInv, [Next]_vars PROVE IInv'
    OBVIOUS
<1> USE Consts DEF IInv, Holding, InMap
<1>1. CASE UNCHANGED vars
  BY <1>1 DEF vars, TypeOK, OneInMap, MakesFirst, KnowsMutex, HoldsMutex
<1>2. ASSUME NEW p \in Procs, NEW k \in Keys, Lock(p, k) PROVE IInv'
  BY <1>2 DEF Lock, Goto, TypeOK, OneInMap, MakesFirst, KnowsMutex, HoldsMutex, PCs
<1>3. ASSUME NEW p \in Procs, Get(p) PROVE IInv'
  <2>1. TypeOK'
    BY <1>3 DEF Get, Guard, TakeMap, Goto, TypeOK, PCs
  <2>2. OneInMap'
    BY <1>3 DEF Get, Guard, TakeMap, Goto, TypeOK, OneInMap
  <2>3. MakesFirst' /\ KnowsMutex' /\ HoldsMutex'
    BY <1>3 DEF Get, Goto, TypeOK, MakesFirst, KnowsMutex, HoldsMutex
  <2> QED BY <2>1, <2>2, <2>3
<1>4. ASSUME NEW p \in Procs, Found(p) PROVE IInv'
  <2>1. TypeOK'
    BY <1>4 DEF Found, ReleaseMap, FreeMap, Goto, TypeOK, PCs
  <2>2. OneInMap'
    BY <1>4 DEF Found, ReleaseMap, FreeMap, Goto, TypeOK, OneInMap
  <2>3. MakesFirst' /\ KnowsMutex' /\ HoldsMutex'
    BY <1>4 DEF Found, Goto, TypeOK, MakesFirst, KnowsMutex, HoldsMutex
  <2> QED BY <2>1, <2>2, <2>3
<1>5. ASSUME NEW p \in Procs, Missing(p) PROVE IInv'
  <2>1. TypeOK'
    BY <1>5 DEF Missing, New, MadeBy, Goto, TypeOK, PCs, Mutexes
  <2>2. OneInMap'
    BY <1>5 DEF Missing, Goto, TypeOK, OneInMap
  <2>3. MakesFirst' /\ KnowsMutex' /\ HoldsMutex'
    BY <1>5 DEF Missing, New, MadeBy, Goto, TypeOK, MakesFirst, KnowsMutex, HoldsMutex
  <2> QED BY <2>1, <2>2, <2>3
<1>6. ASSUME NEW p \in Procs, Store(p) PROVE IInv'
  <2>1. TypeOK'
    <3>1. key[p] \in Keys /\ mutex[p] = << p, key[p] >> /\ mutex[p] \in Mutexes
      BY <1>6 DEF Store, TypeOK, MakesFirst, Mutexes
    <3> QED BY <1>6, <3>1 DEF Store, ReleaseMap, FreeMap, Goto, TypeOK, PCs
  <2>2. OneInMap'
    BY <1>6 DEF Store, ReleaseMap, FreeMap, Goto, TypeOK, OneInMap
  <2>3. MakesFirst'
    BY <1>6 DEF Store, Goto, TypeOK, OneInMap, MakesFirst
  <2>4. KnowsMutex'
    <3>1. store[key[p]] = NoMutex /\ mutex[p] # NoMutex
      BY <1>6 DEF Store, TypeOK, MakesFirst
    <3> QED BY <1>6, <3>1 DEF Store, Goto, TypeOK, KnowsMutex
  <2>5. HoldsMutex'
    BY <1>6 DEF Store, Goto, TypeOK, HoldsMutex
  <2> QED BY <2>1, <2>2, <2>3, <2>4, <2>5
<1>7. ASSUME NEW p \in Procs, LockMutex(p) PROVE IInv'
  <2>1. TypeOK'
    BY <1>7 DEF LockMutex, Goto, TypeOK, PCs
  <2>2. OneInMap' /\ MakesFirst' /\ KnowsMutex'
    BY <1>7 DEF LockMutex, Goto, TypeOK, OneInMap, MakesFirst, KnowsMutex
  <2>3. HoldsMutex'
    BY <1>7 DEF LockMutex, Goto, TypeOK, HoldsMutex
  <2> QED BY <2>1, <2>2, <2>3
<1>8. ASSUME NEW p \in Procs, Unlock(p) PROVE IInv'
  BY <1>8 DEF Unlock, Goto, TypeOK, OneInMap, MakesFirst, KnowsMutex, HoldsMutex, PCs
<1>9. ASSUME NEW p \in Procs, UnlockMutex(p) PROVE IInv'
  <2>1. TypeOK'
    BY <1>9 DEF UnlockMutex, Goto, TypeOK, PCs
  <2>2. OneInMap' /\ MakesFirst' /\ KnowsMutex'
    BY <1>9 DEF UnlockMutex, Goto, TypeOK, OneInMap, MakesFirst, KnowsMutex
  <2>3. HoldsMutex'
    BY <1>9 DEF UnlockMutex, Goto, TypeOK, HoldsMutex
  <2> QED BY <2>1, <2>2, <2>3
<1> QED BY <1>1, <1>2, <1>3, <1>4, <1>5, <1>6, <1>7, <1>8, <1>9 DEF Next, Step

LEMMA InvAlways == Spec => []IInv
BY InitInv, StepInv, PTL DEF Spec

\* Every variable stays in its range and every key keeps the one mutex made
\* for it by get, for any number of goroutines.
THEOREM TypeCorrect == Spec => []TypeOK
BY InvAlways, PTL DEF IInv

\* Unlock(key) finds the mutex that its caller holds.
THEOREM OwnMutex == Spec => []UnlocksItsOwn
<1>1. IInv => UnlocksItsOwn
  BY DEF IInv, UnlocksItsOwn, KnowsMutex, HoldsMutex, Holding
<1> QED BY <1>1, InvAlways, PTL

-----------------------------------------------------------------------------
LEMMA InitMaps == Init => Abstract!Init
BY DEF Init, Abstract!Init, inside, Holding

LEMMA StepMaps == IInv /\ [Next]_vars => [Abstract!Next]_inside
<1> SUFFICES ASSUME IInv, [Next]_vars PROVE Abstract!Next \/ UNCHANGED inside
    OBVIOUS
<1> USE Consts DEF Holding
<1>1. CASE UNCHANGED vars
  BY <1>1 DEF vars, inside
<1>2. ASSUME NEW p \in Procs, NEW k \in Keys, Lock(p, k) PROVE UNCHANGED inside
  BY <1>2 DEF Lock, Goto, inside, IInv, TypeOK
<1>3. ASSUME NEW p \in Procs, Get(p) \/ Found(p) \/ Missing(p) \/ Store(p) \/ Unlock(p)
      PROVE UNCHANGED inside
  BY <1>3 DEF Get, Found, Missing, Store, Unlock, Goto, inside, IInv, TypeOK
<1>4. ASSUME NEW p \in Procs, LockMutex(p) PROVE Abstract!Enter(p, key[p])
  <2>1. \A q \in Procs : pc[q] \in Holding => mutex[q] # mutex[p]
    BY <1>4 DEF LockMutex, IInv, HoldsMutex
  <2>2. \A q \in Procs : inside[q] # key[p]
    BY <1>4, <2>1 DEF LockMutex, inside, IInv, TypeOK, KnowsMutex
  <2>3. inside' = [inside EXCEPT ![p] = key[p]]
    BY <1>4 DEF LockMutex, Goto, inside, IInv, TypeOK
  <2>4. inside[p] = NoKey
    BY <1>4 DEF LockMutex, inside
  <2> QED BY <2>2, <2>3, <2>4 DEF Abstract!Enter
<1>5. ASSUME NEW p \in Procs, UnlockMutex(p) PROVE Abstract!Leave(p)
  <2>1. inside[p] # NoKey
    BY <1>5 DEF UnlockMutex, inside, IInv, TypeOK
  <2>2. inside' = [inside EXCEPT ![p] = NoKey]
    BY <1>5 DEF UnlockMutex, Goto, inside, IInv, TypeOK
  <2> QED BY <2>1, <2>2 DEF Abstract!Leave
<1>6. ASSUME NEW p \in Procs, LockMutex(p) PROVE Abstract!Next
  <2>1. key[p] \in Keys
    BY <1>6 DEF LockMutex, IInv, TypeOK
  <2> QED BY <2>1, <1>4, <1>6 DEF Abstract!Next
<1>7. ASSUME NEW p \in Procs, UnlockMutex(p) PROVE Abstract!Next
  BY <1>5, <1>7 DEF Abstract!Next
<1> QED BY <1>1, <1>2, <1>3, <1>6, <1>7 DEF Next, Step

\* The keyed mutex implements one lock per key: no two goroutines are between
\* Lock(key) and Unlock(key) with the same key.
THEOREM Refinement == Spec => ImplementsKeyedLock
<1>1. Spec => Abstract!Spec
  BY InitMaps, StepMaps, InvAlways, PTL DEF Spec, Abstract!Spec
<1> QED BY <1>1 DEF ImplementsKeyedLock
=============================================================================

------------------------------- MODULE MutexKV -------------------------------
(***************************************************************************)
(* The keyed mutex: a map of mutexes, made when a key is first asked for,  *)
(* and guarded by a mutex of its own.                                      *)
(*                                                                         *)
(*   okta/internal/mutexkv/mutexkv.go                                      *)
(*                                                                         *)
(* Every user is Lock(key); defer Unlock(key), so a process is in at most  *)
(* one critical section.  Both calls go through get, which is split into   *)
(* taking the lock of the map, looking the key up and storing a new mutex. *)
(* The mutex that process p makes for key k is called <<p, k>>.            *)
(***************************************************************************)
EXTENDS Naturals

CONSTANTS Procs, Keys, NoProc, NoKey

ASSUME MutexKVAssumption == NoProc \notin Procs /\ NoKey \notin Keys

VARIABLES
  lock,     \* who holds the lock of the map
  store,    \* the mutex of each key
  holder,   \* who holds each mutex
  pc, key,  \* where each process is, and with which key
  mutex     \* what get returned to it last

vars == << lock, store, holder, pc, key, mutex >>

Mutexes == Procs \X Keys
NoMutex == << NoProc, NoKey >>

\* "get", "look", "made" are the steps of get within Lock; "reget",
\* "relook" those within Unlock, which never makes a mutex.
Holding == {"held", "reget", "relook", "unlock"}
PCs == {"idle", "get", "look", "made", "wait"} \cup Holding

Init ==
  /\ lock = NoProc
  /\ store = [k \in Keys |-> NoMutex]
  /\ holder = [m \in Mutexes |-> NoProc]
  /\ pc = [p \in Procs |-> "idle"]
  /\ key = [p \in Procs |-> NoKey]
  /\ mutex = [p \in Procs |-> NoMutex]

Goto(p, l) == pc' = [pc EXCEPT ![p] = l]

\* The deferred unlock of the map in get.
FreeMap == lock' = NoProc

\* The map stays locked.
FreeNothing == UNCHANGED lock

ReleaseMap == FreeMap

Lock(p, k) ==
  /\ pc[p] = "idle"
  /\ key' = [key EXCEPT ![p] = k]
  /\ Goto(p, "get")
  /\ UNCHANGED << lock, store, holder, mutex >>

\* m.lock.Lock() of get.
TakeMap(p) ==
  /\ lock = NoProc
  /\ lock' = p

\* The map is not locked.
TakeNothing(p) == UNCHANGED lock

Guard(p) == TakeMap(p)

Get(p) ==
  /\ pc[p] \in {"get", "reget"}
  /\ Guard(p)
  /\ Goto(p, IF pc[p] = "get" THEN "look" ELSE "relook")
  /\ UNCHANGED << store, holder, key, mutex >>

\* mutex, ok := m.store[key]
Found(p) ==
  /\ pc[p] \in {"look", "relook"}
  /\ store[key[p]] # NoMutex
  /\ mutex' = [mutex EXCEPT ![p] = store[key[p]]]
  /\ ReleaseMap
  /\ Goto(p, IF pc[p] = "look" THEN "wait" ELSE "unlock")
  /\ UNCHANGED << store, holder, key >>

\* mutex = &sync.Mutex{}
MadeBy(p) == << p, key[p] >>

\* The new mutex is left nil.
MadeByNobody(p) == NoMutex

New(p) == MadeBy(p)

Missing(p) ==
  /\ pc[p] = "look"
  /\ store[key[p]] = NoMutex
  /\ mutex' = [mutex EXCEPT ![p] = New(p)]
  /\ Goto(p, "made")
  /\ UNCHANGED << lock, store, holder, key >>

\* m.store[key] = mutex
Store(p) ==
  /\ pc[p] = "made"
  /\ store' = [store EXCEPT ![key[p]] = mutex[p]]
  /\ ReleaseMap
  /\ Goto(p, "wait")
  /\ UNCHANGED << holder, key, mutex >>

LockMutex(p) ==
  /\ pc[p] = "wait"
  /\ holder[mutex[p]] = NoProc
  /\ holder' = [holder EXCEPT ![mutex[p]] = p]
  /\ Goto(p, "held")
  /\ UNCHANGED << lock, store, key, mutex >>

Unlock(p) ==
  /\ pc[p] = "held"
  /\ Goto(p, "reget")
  /\ UNCHANGED << lock, store, holder, key, mutex >>

UnlockMutex(p) ==
  /\ pc[p] = "unlock"
  /\ holder' = [holder EXCEPT ![mutex[p]] = NoProc]
  /\ Goto(p, "idle")
  /\ UNCHANGED << lock, store, key, mutex >>

Step(p) ==
  \/ Get(p) \/ Found(p) \/ Missing(p) \/ Store(p)
  \/ LockMutex(p) \/ Unlock(p) \/ UnlockMutex(p)

Next == \E p \in Procs : Step(p) \/ \E k \in Keys : Lock(p, k)

Spec == Init /\ [][Next]_vars

\* Goroutines are scheduled, critical sections end, and the mutexes of Go do
\* not starve: after 1 ms a waiter is handed the mutex.
FairSpec ==
  /\ Spec
  /\ \A p \in Procs : /\ WF_vars(Step(p))
                      /\ SF_vars(Get(p))
                      /\ SF_vars(LockMutex(p))

-----------------------------------------------------------------------------
(* Properties. *)

\* The variables hold what their comments say, and a key has at most one
\* mutex, which stays the same: what is stored for k was made for k.
TypeOK ==
  /\ lock \in Procs \cup {NoProc}
  /\ store \in [Keys -> Mutexes \cup {NoMutex}]
  /\ \A k \in Keys : store[k] # NoMutex => store[k][2] = k
  /\ holder \in [Mutexes -> Procs \cup {NoProc}]
  /\ pc \in [Procs -> PCs]
  /\ key \in [Procs -> Keys \cup {NoKey}]
  /\ \A p \in Procs : pc[p] # "idle" => key[p] \in Keys
  /\ mutex \in [Procs -> Mutexes \cup {NoMutex}]
  /\ \A p \in Procs : pc[p] \in {"made", "wait"} \cup Holding => mutex[p] \in Mutexes

\* A process that holds the mutex of its key finds that mutex, and no other,
\* when it unlocks: Unlock never hits a mutex its caller does not hold.
UnlocksItsOwn ==
  \A p \in Procs : pc[p] \in Holding => /\ holder[store[key[p]]] = p
                                        /\ pc[p] = "unlock" => mutex[p] = store[key[p]]

\* The keyed mutex as the resources see it.
inside == [p \in Procs |-> IF pc[p] \in Holding THEN key[p] ELSE NoKey]
Abstract == INSTANCE KeyedLock

\* No two processes are between Lock and Unlock with the same key, however
\* their first calls for a key race in the map.
ImplementsKeyedLock == Abstract!Spec

\* Whoever calls Lock gets the mutex.
LockIsGranted == \A p \in Procs : pc[p] = "get" ~> pc[p] = "held"
=============================================================================

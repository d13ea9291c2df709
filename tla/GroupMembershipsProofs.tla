----------------------- MODULE GroupMembershipsProofs -----------------------
(***************************************************************************)
(* Proofs about GroupMemberships, for any instances, memberships, scopes   *)
(* and bounds.                                                             *)
(*                                                                         *)
(* That the memberships of others stay rests on the state: without         *)
(* tracking and import it only ever has memberships that some              *)
(* configuration named, as Read can but take some away from it.  That the  *)
(* configuration is in force rests on what every operation has done so far *)
(* and has yet to do (FInv).                                               *)
(***************************************************************************)
EXTENDS GroupMemberships, TLAPS

\* What is left to do in each phase of an operation.
Phases ==
  \A i \in Instances :
    /\ op[i] = "create" => state[i] = Absent /\ removes[i] = {}
    /\ op[i] = "delete" => config[i] = Absent /\ adds[i] = {}
    /\ pc[i] \in {"wait", "remove"} => adds[i] = {}
    /\ pc[i] = "wait" => op[i] = "create"

\* The configurations name what is configured and, without tracking and
\* import, what the state has and what is removed.
Named ==
  /\ \A i \in Instances : Has(config[i]) \subseteq managed
  /\ track = {} /\ imported = {} =>
       \A i \in Instances : Has(state[i]) \subseteq managed /\ removes[i] \subseteq managed

IInv == TypeOK /\ Phases /\ Named

-----------------------------------------------------------------------------
LEMMA Consts ==
  /\ MaxApplies \in Nat /\ MaxMishaps \in Nat
  /\ \A i \in Instances : Scope[i] \subseteq Memberships
  /\ Groups \subseteq Instances
  /\ Has(Absent) = {} /\ Absent \in Entries
BY GroupMembershipsAssumption DEF Instances, Has, Entries

LEMMA HasEntry == \A s \in Entries : Has(s) \subseteq Memberships /\ (s # Absent => Has(s) = s)
BY DEF Has, Entries

LEMMA SetEntry == \A s \in SUBSET Memberships : s \in Entries /\ s # Absent /\ Has(s) = s
BY GroupMembershipsAssumption DEF Has, Entries

LEMMA InitInv == Init => IInv
<1> SUFFICES ASSUME Init PROVE IInv
    OBVIOUS
<1> USE Consts
<1>1. /\ members \subseteq Memberships /\ listed \subseteq Memberships /\ track \subseteq Groups
      /\ config \in [Instances -> Entries] /\ state \in [Instances -> Entries]
      /\ op \in [Instances -> {"none", "create", "update", "delete"}]
      /\ pc \in [Instances -> {"idle", "planned", "add", "wait", "remove", "done"}]
      /\ adds \in [Instances -> SUBSET Memberships] /\ removes \in [Instances -> SUBSET Memberships]
  <2>1. members \subseteq Memberships /\ listed \subseteq Memberships /\ track \subseteq Groups
    BY DEF Init
  <2>2. config \in [Instances -> Entries] /\ state \in [Instances -> Entries]
    <3>1. config = [i \in Instances |-> Absent] /\ state = config
      BY DEF Init
    <3> QED BY <3>1
  <2>3. /\ op \in [Instances -> {"none", "create", "update", "delete"}]
        /\ pc \in [Instances -> {"idle", "planned", "add", "wait", "remove", "done"}]
    BY DEF Init
  <2>4. adds \in [Instances -> SUBSET Memberships] /\ removes \in [Instances -> SUBSET Memberships]
    <3>1. adds = [i \in Instances |-> {}] /\ removes = adds
      BY DEF Init
    <3> QED BY <3>1
  <2> QED BY <2>1, <2>2, <2>3, <2>4
<1>2. /\ applying \in BOOLEAN /\ crossed \in BOOLEAN /\ managed \subseteq Memberships
      /\ imported \subseteq Instances /\ told \subseteq Instances /\ silent \subseteq Instances
      /\ applies \in 0 .. MaxApplies /\ mishaps \in 0 .. MaxMishaps
  <2>1. applying \in BOOLEAN /\ crossed \in BOOLEAN
    BY DEF Init
  <2>2. /\ managed \subseteq Memberships
        /\ imported \subseteq Instances /\ told \subseteq Instances /\ silent \subseteq Instances
    BY DEF Init
  <2>3. applies \in 0 .. MaxApplies /\ mishaps \in 0 .. MaxMishaps
    BY DEF Init
  <2> QED BY <2>1, <2>2, <2>3
<1>3. \A i \in Instances :
        /\ Has(config[i]) = {} /\ Has(state[i]) = {} /\ op[i] = "none" /\ pc[i] = "idle"
        /\ adds[i] = {} /\ removes[i] = {}
  <2>1. config = [i \in Instances |-> Absent] /\ state = config
    BY DEF Init
  <2>2. op = [i \in Instances |-> "none"] /\ pc = [i \in Instances |-> "idle"]
    BY DEF Init
  <2>3. adds = [i \in Instances |-> {}] /\ removes = adds
    BY DEF Init
  <2> QED BY <2>1, <2>2, <2>3
<1>4. TypeOK
  BY <1>1, <1>2, <1>3 DEF TypeOK
<1> QED BY <1>3, <1>4 DEF IInv, Phases, Named

-----------------------------------------------------------------------------
\* Read gives the state nothing that it did not have, but for a tracked group.
LEMMA RefreshedType ==
  ASSUME TypeOK, NEW i \in Instances
  PROVE  /\ Refreshed(i) \in Entries
         /\ Has(Refreshed(i)) \subseteq Scope[i]
         /\ track = {} => Has(Refreshed(i)) \subseteq Has(state[i])
<1> USE Consts
<1>1. state[i] \in Entries /\ Has(state[i]) \subseteq Scope[i]
  BY DEF TypeOK
<1>2. CASE Refreshed(i) = state[i] \/ Refreshed(i) = Absent
  BY <1>1, <1>2
<1>3. CASE state[i] # Absent /\ Refreshed(i) = AllThere(i) /\ i \in track
  <2>1. AllThere(i) \in SUBSET Memberships /\ AllThere(i) \subseteq Scope[i]
    BY DEF AllThere
  <2> QED BY <1>3, <2>1, SetEntry
<1>4. CASE state[i] # Absent /\ Refreshed(i) = Remaining(i)
  <2>1. Remaining(i) \subseteq state[i] /\ Has(state[i]) = state[i]
    BY <1>1, <1>4, HasEntry DEF Remaining, StillThere
  <2>2. Remaining(i) \in SUBSET Memberships
    BY <1>1, <2>1, HasEntry
  <2> QED BY <1>1, <1>4, <2>1, <2>2, SetEntry
<1> QED BY <1>2, <1>3, <1>4 DEF Refreshed

LEMMA BeginApplyInv == ASSUME IInv, NEW c \in Configs, BeginApply(c) PROVE IInv'
<1> USE Consts DEF IInv
<1>1. /\ c \in [Instances -> Entries] /\ \A i \in Instances : Has(c[i]) \subseteq Scope[i]
  BY DEF Configs
<1>2. /\ ~applying /\ applying' = TRUE
      /\ config' = c
      /\ state' = [i \in Instances |-> Refreshed(i)]
      /\ op' = [i \in Instances |-> Planned(state'[i], c[i])]
      /\ pc' = [i \in Instances |-> IF op'[i] = "none" THEN "idle" ELSE "planned"]
      /\ managed' = managed \cup UNION { Has(c[i]) : i \in Instances }
      /\ crossed' = (crossed \/ Crosses(c, state'))
      /\ told \subseteq told' /\ told' \subseteq told \cup Instances
      /\ UNCHANGED << members, listed, track, adds, removes, imported, silent, mishaps >>
  BY DEF BeginApply
<1>3. applies' \in 0 .. MaxApplies
  BY DEF BeginApply, TypeOK
<1>4. state' \in [Instances -> Entries] /\ \A i \in Instances : Has(state'[i]) \subseteq Scope[i]
  BY <1>2, RefreshedType
<1>5. \A i \in Instances :
        /\ op'[i] \in {"none", "create", "update", "delete"}
        /\ op'[i] = "create" => state'[i] = Absent /\ config'[i] # Absent
        /\ op'[i] = "delete" => state'[i] # Absent /\ config'[i] = Absent
        /\ op'[i] = "update" => state'[i] # Absent /\ config'[i] # Absent
  BY <1>2 DEF Planned
<1>6. \A i \in Instances :
        /\ pc[i] = "idle" /\ adds[i] = {} /\ removes[i] = {}
        /\ pc'[i] = IF op'[i] = "none" THEN "idle" ELSE "planned"
  BY <1>2 DEF TypeOK
<1>7. managed' \subseteq Memberships /\ \A i \in Instances : Has(c[i]) \subseteq managed'
  BY <1>1, <1>2 DEF TypeOK
<1>8. TypeOK'
  <2>1. /\ op' \in [Instances -> {"none", "create", "update", "delete"}]
        /\ pc' \in [Instances -> {"idle", "planned", "add", "wait", "remove", "done"}]
    BY <1>2, <1>5
  <2>2. crossed' \in BOOLEAN /\ told' \subseteq Instances
    BY <1>2 DEF TypeOK
  <2> QED BY <1>1, <1>2, <1>3, <1>4, <1>5, <1>6, <1>7, <2>1, <2>2 DEF TypeOK
<1>9. Phases'
  BY <1>2, <1>5, <1>6 DEF Phases
<1>10. Named'
  <2>1. track = {} => \A i \in Instances : Has(state'[i]) \subseteq Has(state[i])
    BY <1>2, RefreshedType
  <2> QED BY <1>2, <1>7, <2>1 DEF Named
<1> QED BY <1>8, <1>9, <1>10

LEMMA ImportInv == ASSUME IInv, NEW i \in Instances, Import(i) PROVE IInv'
<1> USE Consts DEF IInv
<1>1. /\ ~applying /\ imported' = imported \cup {i}
      /\ state' = [state EXCEPT ![i] = AllThere(i)]
      /\ told' \subseteq told \cup {i}
      /\ UNCHANGED << members, listed, track, config, op, pc, adds, removes, applying,
                      managed, crossed, silent, applies, mishaps >>
  BY DEF Import, counters
<1>2. AllThere(i) \in Entries /\ AllThere(i) # Absent /\ Has(AllThere(i)) \subseteq Scope[i]
  <2>1. AllThere(i) \in SUBSET Memberships /\ AllThere(i) \subseteq Scope[i]
    BY DEF AllThere
  <2> QED BY <2>1, SetEntry
<1>3. \A j \in Instances : pc[j] = "idle" /\ op[j] = "none"
  BY <1>1 DEF TypeOK
<1>4. state' \in [Instances -> Entries] /\ \A j \in Instances : Has(state'[j]) \subseteq Scope[j]
  BY <1>1, <1>2 DEF TypeOK
<1>5. TypeOK'
  BY <1>1, <1>3, <1>4 DEF TypeOK
<1>6. Phases' /\ Named'
  BY <1>1, <1>3 DEF Phases, Named
<1> QED BY <1>5, <1>6

-----------------------------------------------------------------------------
\* The parts of an operation: what it has left to do shrinks.
LEMMA GoOnInv ==
  ASSUME IInv, NEW i \in Instances, NEW a \in SUBSET Memberships, NEW r \in SUBSET Memberships,
         pc[i] # "idle", a \cap r = {},
         op[i] = "create" => r = {}, op[i] = "delete" => a = {},
         track = {} /\ imported = {} => r \subseteq managed,
         GoOn(i, a, r),
         members' \subseteq Memberships, silent' \subseteq Instances, mishaps' \in 0 .. MaxMishaps,
         UNCHANGED << listed, track, config, state, op, applying, managed, crossed, imported,
                      told, applies >>
  PROVE  IInv'
<1> USE Consts DEF IInv
<1>1. /\ adds' = [adds EXCEPT ![i] = a] /\ removes' = [removes EXCEPT ![i] = r]
      /\ pc' = [pc EXCEPT ![i] = Phase(i, a, r)]
  BY DEF GoOn
<1>2. op[i] \in {"create", "update", "delete"} /\ applying
  BY DEF TypeOK
<1>3. /\ Phase(i, a, r) \in {"add", "wait", "remove", "done"}
      /\ Phase(i, a, r) # "add" => a = {}
      /\ Phase(i, a, r) = "wait" => op[i] = "create"
      /\ Phase(i, a, r) = "done" => r = {}
  BY DEF Phase
<1>4. TypeOK'
  <2>1. /\ adds' \in [Instances -> SUBSET Memberships]
        /\ removes' \in [Instances -> SUBSET Memberships]
        /\ pc' \in [Instances -> {"idle", "planned", "add", "wait", "remove", "done"}]
    BY <1>1, <1>3 DEF TypeOK
  <2>2. \A j \in Instances :
          /\ j = i => adds'[j] = a /\ removes'[j] = r /\ pc'[j] = Phase(i, a, r)
          /\ j # i => adds'[j] = adds[j] /\ removes'[j] = removes[j] /\ pc'[j] = pc[j]
    BY <1>1 DEF TypeOK
  <2> QED BY <1>2, <1>3, <2>1, <2>2 DEF TypeOK
<1>5. Phases'
  BY <1>1, <1>3 DEF TypeOK, Phases
<1>6. Named'
  BY <1>1 DEF TypeOK, Named
<1> QED BY <1>4, <1>5, <1>6

LEMMA DifferencesType ==
  ASSUME IInv, NEW i \in Instances
  PROVE  /\ Additions(i) \in SUBSET Memberships /\ ToRemove(i) \in SUBSET Memberships
         /\ Additions(i) \cap ToRemove(i) = {}
         /\ ToRemove(i) \subseteq Has(state[i])
         /\ op[i] = "create" => ToRemove(i) = {}
         /\ op[i] = "delete" => Additions(i) = {}
<1>1. Has(config[i]) \subseteq Memberships /\ Has(state[i]) \subseteq Memberships
  BY HasEntry DEF IInv, TypeOK
<1>2. op[i] = "create" => Has(state[i]) = {}
  BY Consts DEF IInv, Phases
<1> QED BY <1>1, <1>2 DEF Additions, ToRemove, Removals

LEMMA PartInv == ASSUME IInv, NEW i \in Instances, Begin(i) \/ Add(i) \/ Remove(i) PROVE IInv'
<1> USE Consts DEF IInv
<1>1. CASE Begin(i)
  <2>1. /\ pc[i] # "idle" /\ GoOn(i, Additions(i), ToRemove(i))
        /\ UNCHANGED << members, listed, track, config, state, op, applying, managed, crossed,
                        imported, told, silent, applies, mishaps >>
    BY <1>1 DEF Begin, history, counters
  <2>2. /\ members' \subseteq Memberships /\ silent' \subseteq Instances
        /\ mishaps' \in 0 .. MaxMishaps
    BY <2>1 DEF TypeOK
  <2>3. track = {} /\ imported = {} => ToRemove(i) \subseteq managed
    BY DifferencesType DEF Named
  <2> HIDE DEF IInv
  <2> QED BY <2>1, <2>2, <2>3, DifferencesType, GoOnInv
<1>2. CASE Add(i)
  <2>1. PICK p \in adds[i] :
          /\ pc[i] = "add" /\ members' = members \cup {p}
          /\ GoOn(i, adds[i] \ {p}, removes[i])
          /\ UNCHANGED << listed, track, config, state, op, applying, managed, crossed,
                          imported, told, silent, applies, mishaps >>
    BY <1>2 DEF Add, history, counters
  <2>2. /\ members' \subseteq Memberships /\ silent' \subseteq Instances
        /\ mishaps' \in 0 .. MaxMishaps
        /\ adds[i] \ {p} \in SUBSET Memberships /\ removes[i] \in SUBSET Memberships
        /\ (adds[i] \ {p}) \cap removes[i] = {}
    BY <2>1 DEF TypeOK
  <2>3. /\ op[i] = "create" => removes[i] = {}
        /\ op[i] = "delete" => adds[i] \ {p} = {}
        /\ track = {} /\ imported = {} => removes[i] \subseteq managed
    BY DEF Phases, Named
  <2> HIDE DEF IInv
  <2> QED BY <2>1, <2>2, <2>3, GoOnInv
<1>3. CASE Remove(i)
  <2>1. PICK p \in removes[i] :
          /\ pc[i] = "remove" /\ members' = members \ {p}
          /\ GoOn(i, {}, removes[i] \ {p})
          /\ UNCHANGED << listed, track, config, state, op, applying, managed, crossed,
                          imported, told, silent, applies, mishaps >>
    BY <1>3 DEF Remove, history, counters
  <2>2. /\ members' \subseteq Memberships /\ silent' \subseteq Instances
        /\ mishaps' \in 0 .. MaxMishaps
        /\ {} \in SUBSET Memberships /\ removes[i] \ {p} \in SUBSET Memberships
        /\ {} \cap (removes[i] \ {p}) = {}
    BY <2>1 DEF TypeOK
  <2>3. /\ op[i] = "create" => removes[i] \ {p} = {}
        /\ track = {} /\ imported = {} => removes[i] \ {p} \subseteq managed
    BY DEF Phases, Named
  <2> HIDE DEF IInv
  <2> QED BY <2>1, <2>2, <2>3, GoOnInv
<1> QED BY <1>1, <1>2, <1>3

\* An operation ends: with its plan, or with what a failure leaves.
LEMMA EndInv ==
  ASSUME IInv, NEW i \in Instances, NEW s \in Entries,
         s \in {config[i], state[i], Absent},
         adds' = [adds EXCEPT ![i] = {}], removes' = [removes EXCEPT ![i] = {}],
         state' = [state EXCEPT ![i] = s],
         pc' = [pc EXCEPT ![i] = "idle"], op' = [op EXCEPT ![i] = "none"],
         members' \subseteq Memberships, told' \subseteq Instances, mishaps' \in 0 .. MaxMishaps,
         UNCHANGED << listed, track, config, applying, managed, crossed, imported, silent, applies >>
  PROVE  IInv'
<1> USE Consts DEF IInv
<1>1. Has(s) \subseteq Scope[i] /\ (track = {} /\ imported = {} => Has(s) \subseteq managed)
  BY DEF TypeOK, Named
<1>2. TypeOK'
  <2>1. /\ adds' \in [Instances -> SUBSET Memberships]
        /\ removes' \in [Instances -> SUBSET Memberships]
        /\ state' \in [Instances -> Entries]
        /\ pc' \in [Instances -> {"idle", "planned", "add", "wait", "remove", "done"}]
        /\ op' \in [Instances -> {"none", "create", "update", "delete"}]
    BY DEF TypeOK
  <2>2. \A j \in Instances :
          /\ j = i => adds'[j] = {} /\ removes'[j] = {} /\ pc'[j] = "idle" /\ op'[j] = "none"
                      /\ state'[j] = s
          /\ j # i => adds'[j] = adds[j] /\ removes'[j] = removes[j] /\ pc'[j] = pc[j]
                      /\ op'[j] = op[j] /\ state'[j] = state[j]
    BY DEF TypeOK
  <2> QED BY <1>1, <2>1, <2>2 DEF TypeOK
<1>3. Phases'
  BY DEF TypeOK, Phases
<1>4. Named'
  BY <1>1 DEF TypeOK, Named
<1> QED BY <1>2, <1>3, <1>4

LEMMA FailInv ==
  ASSUME IInv, NEW i \in Instances, Fail(i), pc[i] # "idle",
         members' \subseteq Memberships, mishaps' \in 0 .. MaxMishaps,
         UNCHANGED << listed, track, config, applying, managed, crossed, imported, applies >>
  PROVE  IInv'
<1>1. Left(i) \in Entries /\ Left(i) \in {config[i], state[i], Absent}
  BY Consts DEF IInv, TypeOK, Left
<1>2. told' \subseteq Instances
  BY DEF Fail, IInv, TypeOK
<1> QED BY <1>1, <1>2, EndInv DEF Fail

LEMMA WayOutInv == ASSUME IInv, NEW i \in Instances, Wait(i) \/ Timeout(i) \/ Return(i) PROVE IInv'
<1> USE Consts DEF IInv
<1>1. CASE Wait(i)
  <2>1. /\ pc[i] = "wait" /\ pc' = [pc EXCEPT ![i] = "done"]
        /\ UNCHANGED << members, listed, track, config, state, op, adds, removes, applying,
                        managed, crossed, imported, told, silent, applies, mishaps >>
    BY <1>1 DEF Wait, history, counters
  <2>2. adds[i] = {} /\ removes[i] = {}
    BY <2>1 DEF Phases
  <2>3. TypeOK'
    BY <2>1, <2>2 DEF TypeOK
  <2>4. Phases' /\ Named'
    BY <2>1 DEF TypeOK, Phases, Named
  <2> QED BY <2>3, <2>4
<1>2. CASE Timeout(i)
  <2>1. /\ pc[i] # "idle" /\ Fail(i)
        /\ UNCHANGED << members, listed, track, config, applying, managed, crossed, imported,
                        applies, mishaps >>
    BY <1>2 DEF Timeout, counters
  <2>2. members' \subseteq Memberships /\ mishaps' \in 0 .. MaxMishaps
    BY <2>1 DEF TypeOK
  <2> HIDE DEF IInv
  <2> QED BY <2>1, <2>2, FailInv
<1>3. CASE Return(i)
  <2>1. /\ pc[i] = "done"
        /\ state' = [state EXCEPT ![i] = config[i]]
        /\ pc' = [pc EXCEPT ![i] = "idle"] /\ op' = [op EXCEPT ![i] = "none"]
        /\ UNCHANGED << members, listed, track, config, adds, removes, applying,
                        managed, crossed, imported, told, silent, applies, mishaps >>
    BY <1>3 DEF Return, history, counters
  <2>2. /\ adds' = [adds EXCEPT ![i] = {}] /\ removes' = [removes EXCEPT ![i] = {}]
        /\ config[i] \in Entries
        /\ members' \subseteq Memberships /\ told' \subseteq Instances /\ mishaps' \in 0 .. MaxMishaps
    BY <2>1 DEF TypeOK
  <2> HIDE DEF IInv
  <2> QED BY <2>1, <2>2, EndInv
<1> QED BY <1>1, <1>2, <1>3

LEMMA FaultInv == ASSUME IInv, NEW i \in Instances, Fault(i) PROVE IInv'
<1>1. /\ pc[i] \in {"add", "wait", "remove"}
      /\ members' \subseteq Memberships /\ mishaps' \in 0 .. MaxMishaps
      /\ UNCHANGED << listed, track, config, applying, managed, crossed, imported, applies >>
  BY Consts DEF Fault, Mishap, IInv, TypeOK
<1>2. CASE Fail(i)
  BY <1>1, <1>2, FailInv
<1>3. CASE Drop(i)
  <2> DEFINE r == IF pc[i] = "add" THEN removes[i] ELSE {}
  <2>1. /\ GoOn(i, {}, r) /\ silent' = silent \cup {i}
        /\ UNCHANGED << state, op, told >>
    BY <1>3 DEF Drop
  <2>2. /\ {} \in SUBSET Memberships /\ r \in SUBSET Memberships /\ {} \cap r = {}
        /\ op[i] = "create" => r = {}
        /\ track = {} /\ imported = {} => r \subseteq managed
        /\ silent' \subseteq Instances
    BY <2>1 DEF IInv, TypeOK, Phases, Named
  <2> HIDE DEF r
  <2> QED BY <1>1, <2>1, <2>2, GoOnInv
<1> QED BY <1>2, <1>3 DEF Fault

LEMMA OktaInv ==
  ASSUME IInv, (\E p \in Memberships : Propagate(p) \/ Outside(p)) \/ EndApply
  PROVE  IInv'
<1> USE Consts DEF IInv
<1>1. /\ members' \subseteq Memberships /\ listed' \subseteq Memberships
      /\ told' \subseteq Instances /\ mishaps' \in 0 .. MaxMishaps
  BY DEF Propagate, Outside, Mishap, EndApply, TypeOK, history, counters
<1>2. UNCHANGED << track, config, state, op, pc, adds, removes, managed, crossed, imported, silent, applies >>
  BY DEF Propagate, Outside, EndApply, history, counters
<1>3. applying' = applying \/ (applying' = FALSE /\ \A i \in Instances : pc[i] = "idle")
  BY DEF Propagate, Outside, EndApply
<1>4. TypeOK'
  BY <1>1, <1>2, <1>3 DEF TypeOK
<1>5. Phases' /\ Named'
  BY <1>2 DEF Phases, Named
<1> QED BY <1>4, <1>5

-----------------------------------------------------------------------------
LEMMA NextInv == IInv /\ [Next]_vars => IInv'
<1> SUFFICES ASSUME IInv, [Next]_vars PROVE IInv'
    OBVIOUS
<1>1. CASE UNCHANGED vars
  BY <1>1 DEF vars, IInv, TypeOK, Phases, Named
<1>2. ASSUME NEW i \in Instances, Import(i) \/ Step(i) \/ Fault(i) PROVE IInv'
  BY <1>2, ImportInv, PartInv, WayOutInv, FaultInv DEF Step
<1> QED BY <1>1, <1>2, BeginApplyInv, OktaInv DEF Next

LEMMA InvAlways == Spec => []IInv
BY InitInv, NextInv, PTL DEF Spec

\* For any instances and scopes, whatever fails: operations are under way
\* during applies only and never add what they remove.
THEOREM TypeCorrect == Spec => []TypeOK
<1>1. IInv => TypeOK
  BY DEF IInv
<1> QED BY <1>1, InvAlways, PTL

\* Without tracking and import no user whom no configuration ever named is
\* removed from a group by the provider, whatever fails, lags or overlaps.
THEOREM OthersStay == Spec => OthersUntouched
<1>1. ASSUME IInv, [Next]_vars, track = {}, imported = {}
      PROVE  members \ members' \subseteq managed \/ \E p \in Memberships : Outside(p)
  <2>1. ASSUME NEW i \in Instances, Begin(i) \/ Add(i) \/ Wait(i) \/ Timeout(i) \/ Return(i) \/ Import(i)
        PROVE  members \ members' = {}
    BY <2>1 DEF Begin, Add, Wait, Timeout, Return, Import
  <2>2. ASSUME NEW i \in Instances, Remove(i) \/ Fault(i)
        PROVE  members \ members' \subseteq removes[i]
    BY <2>2 DEF Remove, Fault
  <2>3. \A i \in Instances : removes[i] \subseteq managed
    BY <1>1 DEF IInv, Named
  <2>4. ASSUME (\E c \in Configs : BeginApply(c)) \/ EndApply \/ (\E p \in Memberships : Propagate(p)) \/ UNCHANGED vars
        PROVE  members \ members' = {}
    BY <2>4 DEF BeginApply, EndApply, Propagate, vars
  <2> QED BY <1>1, <2>1, <2>2, <2>3, <2>4 DEF Next, Step
<1>2. IInv /\ [Next]_vars =>
        [track = {} /\ imported = {} =>
           members \ members' \subseteq managed \/ \E p \in Memberships : Outside(p)]_vars
  BY <1>1
<1> QED BY <1>2, InvAlways, PTL DEF Spec, OthersUntouched
(***************************************************************************)
(* The configuration in force.  Each instance is followed through its      *)
(* operation: what it has added and what it has yet to remove, of the      *)
(* memberships as they are and not as they are listed.                     *)
(***************************************************************************)
\* The instances of which nothing is said.
Exempt == told \cup silent

\* No two instances are to have the same membership; while nothing has passed
\* from one to another, none is to have what another still has.
Apart ==
  \A i, j \in Instances : i # j =>
    /\ Has(config[i]) \cap Has(config[j]) = {}
    /\ ~crossed /\ applying => Has(config[i]) \cap Has(state[j]) = {}

\* An operation adds what is to be there and removes what is not.
Work ==
  \A i \in Instances :
    /\ adds[i] \subseteq Has(config[i])
    /\ removes[i] \subseteq Has(state[i]) \ Has(config[i])

\* What an operation has yet to add, before and after it has begun.
Pending(i) == IF pc[i] = "planned" THEN Has(config[i]) \ Has(state[i]) ELSE adds[i]

Arriving ==
  ~crossed => \A i \in Instances \ Exempt : Has(config[i]) \ Pending(i) \subseteq members

\* Import is the only way to a state that is not a configuration.
AsConfigured ==
  /\ imported \subseteq Groups
  /\ \A i \in Instances \ (Exempt \cup imported) : pc[i] = "idle" => state[i] = config[i]

\* What an instance answers for: the memberships it has and those it is
\* about to remove.
Answers(i) ==
  IF pc[i] \in {"idle", "planned"} THEN Has(state[i]) ELSE Has(config[i]) \cup removes[i]

\* A membership that others made, and that an instance could have, has made
\* that instance exempt.
Foreign ==
  \A p \in members \ managed, i \in Instances : p \in Scope[i] => i \in told

Managed == \A p \in managed : \E i \in Instances : p \in Scope[i]

\* Somebody answers for every membership.
Answered ==
  ~crossed => \A p \in members \cap managed :
    \/ \E i \in Exempt : p \in Scope[i]
    \/ \E i \in Instances : p \in Answers(i)

FInv == Apart /\ Work /\ Arriving /\ AsConfigured /\ Foreign /\ Managed /\ Answered

LEMMA InitForce == Init => FInv
<1> SUFFICES ASSUME Init PROVE FInv
    OBVIOUS
<1>1. /\ members = {} /\ managed = {} /\ imported = {}
      /\ \A i \in Instances : /\ config[i] = Absent /\ state[i] = Absent /\ adds[i] = {} /\ removes[i] = {}
  <2>1. config = [i \in Instances |-> Absent] /\ state = config
    BY DEF Init
  <2>2. adds = [i \in Instances |-> {}] /\ removes = adds
    BY DEF Init
  <2> QED BY <2>1, <2>2 DEF Init
<1> QED BY <1>1, Consts DEF FInv, Apart, Work, Arriving, AsConfigured, Foreign, Managed, Answered

\* What an instance answers for is its business.
LEMMA AnswersScope == ASSUME TypeOK, Work, NEW i \in Instances PROVE Answers(i) \subseteq Scope[i]
BY DEF TypeOK, Work, Answers

\* Read of an instance whose list is up to date finds all of its memberships
\* that are there, and no others.
LEMMA RefreshedForce ==
  ASSUME TypeOK, NEW i \in Instances, state[i] = Absent \/ ~Stale(i)
  PROVE  /\ Has(Refreshed(i)) \subseteq members
         /\ i \in Groups \/ Has(state[i]) \subseteq members =>
              Has(state[i]) \cap members \subseteq Has(Refreshed(i))
<1>1. state[i] \in Entries /\ Has(state[i]) \subseteq Scope[i] /\ Scope[i] \subseteq Memberships
  BY Consts DEF TypeOK
<1>2. CASE state[i] = Absent
  BY <1>2, Consts DEF Refreshed
<1>3. CASE state[i] # Absent
  <2>1. listed \cap Scope[i] = members \cap Scope[i]
    BY <1>3 DEF Stale
  <2>2. state[i] \in SUBSET Memberships /\ Has(state[i]) = state[i]
    BY <1>1, <1>3, HasEntry
  <2>3. CASE i \in Users /\ state[i] \subseteq listed
    BY <1>1, <2>1, <2>2, <2>3 DEF Refreshed
  <2>4. CASE i \in Users /\ ~(state[i] \subseteq listed)
    <3>1. Has(Refreshed(i)) = {}
      BY <1>3, <2>4, Consts DEF Refreshed
    <3>2. i \notin Groups
      BY <2>4, GroupMembershipsAssumption
    <3> QED BY <1>1, <2>1, <2>2, <2>4, <3>1, <3>2
  <2>5. CASE i \notin Users /\ i \in track
    <3>1. AllThere(i) \in SUBSET Memberships
      BY <1>1 DEF AllThere
    <3>2. Has(Refreshed(i)) = AllThere(i)
      BY <1>3, <2>5, <3>1, SetEntry DEF Refreshed
    <3> QED BY <1>1, <2>1, <2>2, <3>2 DEF AllThere
  <2>6. CASE i \notin Users /\ i \notin track
    <3>1. Remaining(i) \in SUBSET Memberships
      BY <2>2 DEF Remaining, StillThere
    <3>2. Has(Refreshed(i)) = Remaining(i)
      BY <1>3, <2>6, <3>1, SetEntry DEF Refreshed
    <3> QED BY <1>1, <2>1, <2>2, <3>2 DEF Remaining, StillThere
  <2> QED BY <2>3, <2>4, <2>5, <2>6
<1> QED BY <1>2, <1>3

LEMMA BeginApplyForce == ASSUME IInv, FInv, NEW c \in Configs, BeginApply(c) PROVE FInv'
<1> USE Consts DEF IInv
<1>1. /\ c \in [Instances -> Entries]
      /\ \A i \in Instances : Has(c[i]) \subseteq Scope[i]
      /\ \A i, j \in Instances : i # j => Has(c[i]) \cap Has(c[j]) = {}
  BY DEF Configs
<1>2. /\ ~applying /\ config' = c
      /\ state' = [i \in Instances |-> Refreshed(i)]
      /\ op' = [i \in Instances |-> Planned(state'[i], c[i])]
      /\ pc' = [i \in Instances |-> IF op'[i] = "none" THEN "idle" ELSE "planned"]
      /\ managed' = managed \cup UNION { Has(c[i]) : i \in Instances }
      /\ crossed' = (crossed \/ Crosses(c, state'))
      /\ told' = told \cup { i \in Instances : state[i] # Absent /\ Stale(i) }
      /\ UNCHANGED << members, adds, removes, imported, silent >>
  BY DEF BeginApply
<1>3. \A i \in Instances : pc[i] = "idle" /\ adds[i] = {} /\ removes[i] = {}
  BY <1>2 DEF TypeOK
<1>4. \A i \in Instances : pc'[i] = "planned" \/ (pc'[i] = "idle" /\ state'[i] = c[i])
  BY <1>2 DEF Planned
<1>5. /\ ~crossed' => ~crossed
      /\ ~crossed' => \A i, j \in Instances : i # j => Has(c[i]) \cap Has(state'[j]) = {}
  BY <1>2 DEF Crosses, TypeOK
<1>6. \A i \in Instances \ Exempt' :
        i \notin Exempt /\ (state[i] = Absent \/ ~Stale(i))
  BY <1>2 DEF Exempt
<1>7. \A i \in Instances \ Exempt' : Has(state'[i]) \subseteq members
  BY <1>2, <1>6, RefreshedForce
<1>8. Apart' /\ Work' /\ Foreign' /\ Managed'
  <2>1. Apart'
    BY <1>1, <1>2, <1>5 DEF Apart
  <2>2. Work'
    BY <1>2, <1>3 DEF Work
  <2>3. Foreign'
    BY <1>2 DEF FInv, Foreign
  <2>4. Managed'
    BY <1>1, <1>2 DEF FInv, Managed
  <2> QED BY <2>1, <2>2, <2>3, <2>4
<1>9. Arriving'
  <2> SUFFICES ASSUME ~crossed', NEW i \in Instances \ Exempt'
               PROVE  Has(c[i]) \ Pending(i)' \subseteq members
      BY <1>2 DEF Arriving
  <2>1. Has(state'[i]) \subseteq members
    BY <1>7
  <2>2. CASE pc'[i] = "planned"
    BY <1>2, <2>1, <2>2 DEF Pending
  <2>3. CASE pc'[i] # "planned"
    BY <1>4, <2>1, <2>3
  <2> QED BY <2>2, <2>3
<1>10. AsConfigured'
  <2>1. imported' \subseteq Groups
    BY <1>2 DEF FInv, AsConfigured
  <2>2. \A i \in Instances : pc'[i] = "idle" => state'[i] = config'[i]
    BY <1>2, <1>4
  <2> QED BY <2>1, <2>2 DEF AsConfigured
<1>11. Answered'
  <2> SUFFICES ASSUME ~crossed', NEW p \in members, p \in managed',
                      \A i \in Exempt' : p \notin Scope[i]
               PROVE  \E i \in Instances : p \in Answers(i)'
      BY <1>2 DEF Answered
  <2>1. Exempt \subseteq Exempt' /\ told \subseteq Exempt'
    BY <1>2 DEF Exempt
  <2>2. p \in managed
    <3>1. SUFFICES ASSUME p \notin managed PROVE FALSE
      OBVIOUS
    <3>2. PICK i \in Instances : p \in Has(c[i])
      BY <1>2, <3>1
    <3>3. p \in Scope[i]
      BY <1>1, <3>2
    <3>4. i \in told
      BY <3>1, <3>3 DEF FInv, Foreign
    <3> QED BY <2>1, <3>3, <3>4
  <2>3. PICK i \in Instances : p \in Answers(i)
    BY <1>5, <2>1, <2>2 DEF FInv, Answered
  <2>4. p \in Has(state[i]) /\ p \in Scope[i]
    BY <1>3, <2>3 DEF Answers, TypeOK
  <2>5. i \notin Exempt'
    BY <2>4
  <2>6. i \in Groups \/ Has(state[i]) \subseteq members
    <3>1. SUFFICES ASSUME i \notin Groups PROVE Has(state[i]) \subseteq members
      OBVIOUS
    <3>2. i \notin Exempt \cup imported
      BY <1>6, <2>5, <3>1 DEF FInv, AsConfigured
    <3>3. state[i] = config[i]
      BY <1>3, <3>2 DEF FInv, AsConfigured
    <3>4. Has(config[i]) \ Pending(i) \subseteq members
      BY <1>5, <3>2 DEF FInv, Arriving
    <3> QED BY <1>3, <3>3, <3>4 DEF Pending
  <2>7. p \in Has(state'[i])
    BY <1>2, <1>6, <2>4, <2>5, <2>6, RefreshedForce
  <2> QED BY <1>4, <2>7 DEF Answers
<1> QED BY <1>8, <1>9, <1>10, <1>11 DEF FInv

LEMMA ImportForce == ASSUME IInv, FInv, NEW i \in Instances, Import(i) PROVE FInv'
<1> USE Consts DEF IInv
<1>1. /\ ~applying /\ i \in Groups /\ state[i] = Absent
      /\ imported' = imported \cup {i}
      /\ state' = [state EXCEPT ![i] = AllThere(i)]
      /\ told \subseteq told'
      /\ UNCHANGED << members, config, op, pc, adds, removes, applying, managed, crossed, silent >>
  BY DEF Import, counters
<1>2. \A j \in Instances : pc[j] = "idle" /\ adds[j] = {} /\ removes[j] = {}
  BY <1>1 DEF TypeOK
<1>3. \A j \in Instances : j # i => state'[j] = state[j]
  BY <1>1 DEF TypeOK
<1>4. Exempt \subseteq Exempt'
  BY <1>1 DEF Exempt
<1>5. Apart' /\ Work' /\ Foreign' /\ Managed'
  BY <1>1, <1>2 DEF FInv, Apart, Work, Foreign, Managed
<1>6. Arriving'
  <2>1. \A j \in Instances : Pending(j)' = Pending(j)
    BY <1>1, <1>2 DEF Pending
  <2> QED BY <1>1, <1>4, <2>1 DEF FInv, Arriving
<1>7. AsConfigured'
  BY <1>1, <1>3, <1>4 DEF FInv, AsConfigured
<1>8. Answered'
  <2>1. \A j \in Instances : Answers(j) \subseteq Answers(j)'
    BY <1>1, <1>2, <1>3 DEF Answers
  <2> QED BY <1>1, <1>4, <2>1 DEF FInv, Answered
<1> QED BY <1>5, <1>6, <1>7, <1>8 DEF FInv

-----------------------------------------------------------------------------
\* A part of an operation keeps what it promised: what it takes off the list of
\* additions is there, and it answers for what it did.
LEMMA GoOnForce ==
  ASSUME IInv, FInv, NEW i \in Instances, NEW a, NEW r,
         pc[i] # "idle",
         a \subseteq Has(config[i]), r \subseteq Has(state[i]) \ Has(config[i]),
         GoOn(i, a, r),
         members' \ members \subseteq adds[i], members \ members' \subseteq removes[i],
         silent \subseteq silent',
         i \notin Exempt' => /\ ~crossed => Has(config[i]) \ a \subseteq members'
                             /\ Answers(i) \cap members' \subseteq Has(config[i]) \cup r,
         UNCHANGED << config, state, op, applying, managed, crossed, imported, told >>
  PROVE  FInv'
<1> USE Consts DEF IInv
<1>1. /\ adds' = [adds EXCEPT ![i] = a] /\ removes' = [removes EXCEPT ![i] = r]
      /\ pc' = [pc EXCEPT ![i] = Phase(i, a, r)]
  BY DEF GoOn
<1>2. \A j \in Instances :
        /\ j = i => adds'[j] = a /\ removes'[j] = r /\ pc'[j] \notin {"idle", "planned"}
        /\ j # i => adds'[j] = adds[j] /\ removes'[j] = removes[j] /\ pc'[j] = pc[j]
  BY <1>1 DEF TypeOK, Phase
<1>3. Exempt \subseteq Exempt'
  BY DEF Exempt
<1>4. /\ adds[i] \subseteq Has(config[i]) /\ Has(config[i]) \subseteq managed
      /\ removes[i] \subseteq Has(state[i]) \ Has(config[i])
      /\ applying
  BY DEF FInv, Work, Named, TypeOK
<1>5. Apart' /\ Work' /\ Foreign' /\ Managed'
  BY <1>2, <1>4 DEF FInv, Apart, Work, Foreign, Managed
<1>6. Arriving'
  <2> SUFFICES ASSUME ~crossed, NEW j \in Instances \ Exempt'
               PROVE  Has(config[j]) \ Pending(j)' \subseteq members'
      BY DEF Arriving
  <2>1. CASE j = i
    BY <1>2, <2>1 DEF Pending
  <2>2. CASE j # i
    <3>1. Pending(j)' = Pending(j)
      BY <1>2, <2>2 DEF Pending
    <3>2. Has(config[j]) \ Pending(j) \subseteq members
      BY <1>3 DEF FInv, Arriving
    <3>3. Has(config[j]) \cap Has(state[i]) = {}
      BY <1>4, <2>2 DEF FInv, Apart
    <3> QED BY <1>4, <3>1, <3>2, <3>3
  <2> QED BY <2>1, <2>2
<1>7. AsConfigured'
  BY <1>2, <1>3 DEF FInv, AsConfigured
<1>8. Answered'
  <2> SUFFICES ASSUME ~crossed, NEW p \in members', p \in managed,
                      \A j \in Exempt' : p \notin Scope[j]
               PROVE  \E j \in Instances : p \in Answers(j)'
      BY DEF Answered
  <2>1. Answers(i)' = Has(config[i]) \cup r
    BY <1>2 DEF Answers
  <2>2. \A j \in Instances : j # i => Answers(j)' = Answers(j)
    BY <1>2 DEF Answers
  <2>3. CASE p \notin members
    BY <1>4, <2>1, <2>3
  <2>4. CASE p \in members
    <3>1. PICK j \in Instances : p \in Answers(j)
      BY <1>3, <2>4 DEF FInv, Answered
    <3>2. p \in Scope[j]
      BY <3>1, AnswersScope DEF FInv
    <3> QED BY <2>1, <2>2, <3>1, <3>2
  <2> QED BY <2>3, <2>4
<1> QED BY <1>5, <1>6, <1>7, <1>8 DEF FInv

LEMMA PartForce == ASSUME IInv, FInv, NEW i \in Instances, Begin(i) \/ Add(i) \/ Remove(i) PROVE FInv'
<1> USE Consts DEF IInv
<1>1. CASE Begin(i)
  <2>1. /\ pc[i] = "planned" /\ GoOn(i, Additions(i), ToRemove(i))
        /\ UNCHANGED << members, config, state, op, applying, managed, crossed, imported, told, silent >>
    BY <1>1 DEF Begin, history, counters
  <2>2. Additions(i) = Has(config[i]) \ Has(state[i])
    BY DEF Additions, Phases
  <2>3. ToRemove(i) = Has(state[i]) \ Has(config[i])
    BY DEF ToRemove, Removals
  <2>4. i \notin Exempt' => i \notin Exempt
    BY <2>1 DEF Exempt
  <2>5. i \notin Exempt' => /\ ~crossed => Has(config[i]) \ Additions(i) \subseteq members'
                            /\ Answers(i) \cap members' \subseteq Has(config[i]) \cup ToRemove(i)
    BY <2>1, <2>2, <2>3, <2>4 DEF FInv, Arriving, Pending, Answers
  <2> HIDE DEF IInv
  <2> QED BY <2>1, <2>2, <2>3, <2>5, GoOnForce
<1>2. CASE Add(i)
  <2>1. PICK p \in adds[i] :
          /\ pc[i] = "add" /\ members' = members \cup {p}
          /\ GoOn(i, adds[i] \ {p}, removes[i])
          /\ UNCHANGED << config, state, op, applying, managed, crossed, imported, told, silent >>
    BY <1>2 DEF Add, history, counters
  <2>2. i \notin Exempt' => i \notin Exempt
    BY <2>1 DEF Exempt
  <2>3. i \notin Exempt' => /\ ~crossed => Has(config[i]) \ (adds[i] \ {p}) \subseteq members'
                            /\ Answers(i) \cap members' \subseteq Has(config[i]) \cup removes[i]
    BY <2>1, <2>2 DEF FInv, Arriving, Pending, Answers
  <2>4. /\ adds[i] \ {p} \subseteq Has(config[i])
        /\ removes[i] \subseteq Has(state[i]) \ Has(config[i])
    BY DEF FInv, Work
  <2>5. members' \ members \subseteq adds[i] /\ members \ members' \subseteq removes[i]
    BY <2>1
  <2> HIDE DEF IInv
  <2> QED BY <2>1, <2>3, <2>4, <2>5, GoOnForce
<1>3. CASE Remove(i)
  <2>1. PICK p \in removes[i] :
          /\ pc[i] = "remove" /\ members' = members \ {p}
          /\ GoOn(i, {}, removes[i] \ {p})
          /\ UNCHANGED << config, state, op, applying, managed, crossed, imported, told, silent >>
    BY <1>3 DEF Remove, history, counters
  <2>2. i \notin Exempt' => i \notin Exempt
    BY <2>1 DEF Exempt
  <2>3. adds[i] = {} /\ removes[i] \subseteq Has(state[i]) \ Has(config[i])
    BY <2>1 DEF FInv, Work, Phases
  <2>4. i \notin Exempt' => /\ ~crossed => Has(config[i]) \ {} \subseteq members'
                            /\ Answers(i) \cap members' \subseteq Has(config[i]) \cup (removes[i] \ {p})
    BY <2>1, <2>2, <2>3 DEF FInv, Arriving, Pending, Answers
  <2>5. /\ {} \subseteq Has(config[i]) /\ removes[i] \ {p} \subseteq Has(state[i]) \ Has(config[i])
        /\ members' \ members \subseteq adds[i] /\ members \ members' \subseteq removes[i]
    BY <2>1, <2>3
  <2> HIDE DEF IInv
  <2> QED BY <2>1, <2>4, <2>5, GoOnForce
<1> QED BY <1>1, <1>2, <1>3

\* A failure that is reported exempts the instance; to the others it has done
\* no more than any part of the operation.
LEMMA FailForce ==
  ASSUME IInv, FInv, NEW i \in Instances, Fail(i), pc[i] # "idle",
         members' \ members \subseteq adds[i], members \ members' \subseteq removes[i],
         UNCHANGED << config, applying, managed, crossed, imported >>
  PROVE  FInv'
<1> USE Consts DEF IInv
<1>1. /\ state' = [state EXCEPT ![i] = Left(i)]
      /\ adds' = [adds EXCEPT ![i] = {}] /\ removes' = [removes EXCEPT ![i] = {}]
      /\ pc' = [pc EXCEPT ![i] = "idle"]
      /\ told' = told \cup {i} /\ UNCHANGED silent
  BY DEF Fail
<1>2. \A j \in Instances :
        /\ j = i => adds'[j] = {} /\ removes'[j] = {} /\ state'[j] = Left(i)
        /\ j # i => /\ adds'[j] = adds[j] /\ removes'[j] = removes[j]
                    /\ pc'[j] = pc[j] /\ state'[j] = state[j]
  BY <1>1 DEF TypeOK
<1>3. Left(i) \in {config[i], state[i], Absent}
  BY DEF Left, TypeOK
<1>4. Exempt' = Exempt \cup {i}
  BY <1>1 DEF Exempt
<1>5. /\ adds[i] \subseteq Has(config[i]) /\ Has(config[i]) \subseteq managed
      /\ Has(config[i]) \subseteq Scope[i]
      /\ removes[i] \subseteq Has(state[i]) \ Has(config[i])
      /\ applying
  BY DEF FInv, Work, Named, TypeOK
<1>6. Apart' /\ Work' /\ Foreign' /\ Managed'
  <2>1. Apart'
    BY <1>2, <1>3 DEF FInv, Apart
  <2>2. Work'
    BY <1>2 DEF FInv, Work
  <2>3. Foreign' /\ Managed'
    BY <1>1, <1>5 DEF FInv, Foreign, Managed
  <2> QED BY <2>1, <2>2, <2>3
<1>7. Arriving'
  <2> SUFFICES ASSUME ~crossed, NEW j \in Instances \ Exempt'
               PROVE  Has(config[j]) \ Pending(j)' \subseteq members'
      BY DEF Arriving
  <2>1. j # i /\ j \notin Exempt
    BY <1>4
  <2>2. Pending(j)' = Pending(j)
    BY <1>2, <2>1 DEF Pending
  <2>3. Has(config[j]) \ Pending(j) \subseteq members
    BY <2>1 DEF FInv, Arriving
  <2>4. Has(config[j]) \cap Has(state[i]) = {}
    BY <1>5, <2>1 DEF FInv, Apart
  <2> QED BY <1>5, <2>2, <2>3, <2>4
<1>8. AsConfigured'
  BY <1>2, <1>4 DEF FInv, AsConfigured
<1>9. Answered'
  <2> SUFFICES ASSUME ~crossed, NEW p \in members', p \in managed,
                      \A j \in Exempt' : p \notin Scope[j]
               PROVE  \E j \in Instances : p \in Answers(j)'
      BY DEF Answered
  <2>1. p \notin Scope[i]
    BY <1>4
  <2>2. p \in members
    BY <1>5, <2>1
  <2>3. PICK j \in Instances : p \in Answers(j)
    BY <1>4, <2>2 DEF FInv, Answered
  <2>4. j # i
    BY <2>1, <2>3, AnswersScope DEF FInv
  <2> QED BY <1>2, <2>3, <2>4 DEF Answers
<1> QED BY <1>6, <1>7, <1>8, <1>9 DEF FInv

LEMMA WayOutForce == ASSUME IInv, FInv, NEW i \in Instances, Wait(i) \/ Timeout(i) \/ Return(i) PROVE FInv'
<1> USE Consts DEF IInv
<1>1. CASE Wait(i)
  <2>1. /\ pc[i] = "wait" /\ pc' = [pc EXCEPT ![i] = "done"]
        /\ UNCHANGED << members, config, state, adds, removes, applying, managed, crossed, imported, told, silent >>
    BY <1>1 DEF Wait, history, counters
  <2>2. \A j \in Instances : pc'[j] = pc[j] \/ (pc[j] \notin {"idle", "planned"} /\ pc'[j] \notin {"idle", "planned"})
    BY <2>1 DEF TypeOK
  <2>3. \A j \in Instances : Pending(j)' = Pending(j) /\ Answers(j)' = Answers(j)
    BY <2>1, <2>2 DEF Pending, Answers
  <2>4. Exempt' = Exempt
    BY <2>1 DEF Exempt
  <2>5. Apart' /\ Work' /\ Foreign' /\ Managed'
    BY <2>1 DEF FInv, Apart, Work, Foreign, Managed
  <2>6. Arriving' /\ AsConfigured' /\ Answered'
    BY <2>1, <2>2, <2>3, <2>4 DEF FInv, Arriving, AsConfigured, Answered
  <2> QED BY <2>5, <2>6 DEF FInv
<1>2. CASE Timeout(i)
  <2>1. /\ pc[i] # "idle" /\ Fail(i)
        /\ UNCHANGED << members, config, applying, managed, crossed, imported >>
    BY <1>2 DEF Timeout, counters
  <2> HIDE DEF IInv
  <2> QED BY <2>1, FailForce
<1>3. CASE Return(i)
  <2>1. /\ pc[i] = "done"
        /\ state' = [state EXCEPT ![i] = config[i]]
        /\ pc' = [pc EXCEPT ![i] = "idle"]
        /\ UNCHANGED << members, config, adds, removes, applying, managed, crossed, imported, told, silent >>
    BY <1>3 DEF Return, history, counters
  <2>2. \A j \in Instances :
          /\ j = i => pc'[j] = "idle" /\ state'[j] = config[j]
          /\ j # i => pc'[j] = pc[j] /\ state'[j] = state[j]
    BY <2>1 DEF TypeOK
  <2>3. adds[i] = {} /\ removes[i] = {}
    BY <2>1 DEF TypeOK
  <2>4. \A j \in Instances : Pending(j)' = Pending(j) /\ Answers(j)' = Answers(j)
    <3>1. \A j \in Instances : j # i => Pending(j)' = Pending(j) /\ Answers(j)' = Answers(j)
      BY <2>1, <2>2 DEF Pending, Answers
    <3>2. Pending(i)' = adds[i] /\ Pending(i) = adds[i]
      BY <2>1, <2>2 DEF Pending
    <3>3. Answers(i)' = Has(config[i])
      BY <2>1, <2>2 DEF Answers
    <3>4. Answers(i) = Has(config[i]) \cup {}
      BY <2>1, <2>3 DEF Answers
    <3> QED BY <3>1, <3>2, <3>3, <3>4
  <2>5. Exempt' = Exempt
    BY <2>1 DEF Exempt
  <2>6. Apart' /\ Work' /\ Foreign' /\ Managed'
    BY <2>1, <2>2, <2>3 DEF FInv, Apart, Work, Foreign, Managed
  <2>7. Arriving' /\ AsConfigured' /\ Answered'
    BY <2>1, <2>2, <2>4, <2>5 DEF FInv, Arriving, AsConfigured, Answered
  <2> QED BY <2>6, <2>7 DEF FInv
<1> QED BY <1>1, <1>2, <1>3

LEMMA FaultForce == ASSUME IInv, FInv, NEW i \in Instances, Fault(i) PROVE FInv'
<1>1. /\ pc[i] \in {"add", "wait", "remove"}
      /\ members' \ members \subseteq adds[i] /\ members \ members' \subseteq removes[i]
      /\ UNCHANGED << config, applying, managed, crossed, imported >>
  BY DEF Fault
<1>2. CASE Fail(i)
  BY <1>1, <1>2, FailForce
<1>3. CASE Drop(i) /\ op[i] = "update"
  <2> DEFINE r == IF pc[i] = "add" THEN removes[i] ELSE {}
  <2>1. /\ GoOn(i, {}, r) /\ silent' = silent \cup {i}
        /\ UNCHANGED << state, op, told >>
    BY <1>3 DEF Drop
  <2>2. i \in Exempt'
    BY <2>1 DEF Exempt
  <2>3. {} \subseteq Has(config[i]) /\ r \subseteq Has(state[i]) \ Has(config[i])
    BY DEF FInv, Work
  <2> HIDE DEF r
  <2> QED BY <1>1, <2>1, <2>2, <2>3, GoOnForce
<1> QED BY <1>2, <1>3 DEF Fault

\* Who is told of a change by others is exempt from then on.
LEMMA OutsideForce == ASSUME IInv, FInv, NEW p \in Memberships, Outside(p) PROVE FInv'
<1> USE Consts DEF IInv
<1>1. /\ members' = IF p \in members THEN members \ {p} ELSE members \cup {p}
      /\ told' = told \cup { i \in Instances : p \in Scope[i] }
      /\ UNCHANGED << config, state, pc, adds, removes, applying, managed, crossed, imported, silent >>
  BY DEF Outside
<1>2. Exempt' = Exempt \cup { i \in Instances : p \in Scope[i] }
  BY <1>1 DEF Exempt
<1>3. \A j \in Instances : Pending(j)' = Pending(j) /\ Answers(j)' = Answers(j)
  BY <1>1 DEF Pending, Answers
<1>4. Apart' /\ Work' /\ Managed'
  BY <1>1 DEF FInv, Apart, Work, Managed
<1>5. Foreign'
  BY <1>1 DEF FInv, Foreign
<1>6. Arriving'
  <2>1. \A j \in Instances : Has(config[j]) \subseteq Scope[j]
    BY DEF TypeOK
  <2>2. \A j \in Instances \ Exempt' : j \notin Exempt /\ p \notin Has(config[j])
    BY <1>2, <2>1
  <2> QED BY <1>1, <1>3, <2>2 DEF FInv, Arriving
<1>7. AsConfigured'
  BY <1>1, <1>2 DEF FInv, AsConfigured
<1>8. Answered'
  <2> SUFFICES ASSUME ~crossed, NEW q \in members', q \in managed
               PROVE  (\E i \in Exempt' : q \in Scope[i]) \/ \E i \in Instances : q \in Answers(i)'
      BY <1>1 DEF Answered
  <2>1. CASE q = p
    BY <1>1, <1>2, <2>1 DEF FInv, Managed
  <2>2. CASE q # p
    BY <1>1, <1>2, <1>3, <2>2 DEF FInv, Answered
  <2> QED BY <2>1, <2>2
<1> QED BY <1>4, <1>5, <1>6, <1>7, <1>8 DEF FInv

LEMMA NextForce == IInv /\ FInv /\ [Next]_vars => FInv'
<1> SUFFICES ASSUME IInv, FInv, [Next]_vars PROVE FInv'
    OBVIOUS
<1>1. CASE (\E p \in Memberships : Propagate(p)) \/ EndApply \/ UNCHANGED vars
  <2>1. /\ UNCHANGED << members, config, state, pc, adds, removes, managed, crossed, imported, told, silent >>
        /\ applying' => applying
    BY <1>1 DEF Propagate, EndApply, vars, history, counters
  <2>2. /\ Exempt' = Exempt
        /\ \A j \in Instances : Pending(j)' = Pending(j) /\ Answers(j)' = Answers(j)
    BY <2>1 DEF Exempt, Pending, Answers
  <2>3. Apart' /\ Work' /\ Foreign' /\ Managed'
    BY <2>1 DEF FInv, Apart, Work, Foreign, Managed
  <2>4. Arriving' /\ AsConfigured' /\ Answered'
    BY <2>1, <2>2 DEF FInv, Arriving, AsConfigured, Answered
  <2> QED BY <2>3, <2>4 DEF FInv
<1>2. ASSUME NEW i \in Instances, Import(i) \/ Step(i) \/ Fault(i) PROVE FInv'
  BY <1>2, ImportForce, PartForce, WayOutForce, FaultForce DEF Step
<1> QED BY <1>1, <1>2, BeginApplyForce, OutsideForce DEF Next

\* An apply after which nobody had to be told of anything has put the
\* configuration into force, for any number of instances that run at the same
\* time, and whatever the lists answered meanwhile: what is configured is there,
\* and what is there and was ever configured is in the state of some instance.
THEOREM InForceAfterApply == Spec => []InForce
<1>1. IInv /\ FInv => InForce
  <2> SUFFICES ASSUME IInv, FInv, ~applying, ~crossed
               PROVE  /\ \A i \in Instances \ Exempt : InForceFor(i)
                      /\ (members \cap managed) \ UNION { Scope[i] : i \in Exempt }
                           \subseteq UNION { Has(state[i]) : i \in Instances }
      BY DEF InForce, UpToDate, Exempt
  <2>1. \A i \in Instances : pc[i] = "idle" /\ adds[i] = {}
    BY DEF IInv, TypeOK
  <2>2. \A i \in Instances \ Exempt : InForceFor(i)
    BY <2>1 DEF FInv, Arriving, Pending, InForceFor
  <2>3. \A i \in Instances : Answers(i) = Has(state[i])
    BY <2>1 DEF Answers
  <2>4. (members \cap managed) \ UNION { Scope[i] : i \in Exempt }
           \subseteq UNION { Has(state[i]) : i \in Instances }
    BY <2>3 DEF FInv, Answered
  <2> QED BY <2>2, <2>4
<1>2. Init => IInv /\ FInv
  BY InitInv, InitForce
<1>3. (IInv /\ FInv) /\ [Next]_vars => (IInv /\ FInv)'
  BY NextInv, NextForce
<1> QED BY <1>1, <1>2, <1>3, PTL DEF Spec
=============================================================================

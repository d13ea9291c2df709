-------------------------- MODULE GroupMemberships --------------------------
(***************************************************************************)
(* The resources okta_group_memberships, which manages users of one group, *)
(* and okta_user_group_memberships, which manages groups of one user.      *)
(* Both add and remove memberships one API call at a time; their instances *)
(* run concurrently and may overlap, and the lists that the API answers    *)
(* lag behind the memberships.                                             *)
(*                                                                         *)
(*   okta/services/idaas/resource_okta_group_memberships.go                *)
(*   okta/services/idaas/resource_okta_user_group_memberships.go           *)
(*   okta/services/idaas/group.go                                          *)
(*                                                                         *)
(* A membership stands for a user in a group.  Groups and users are not    *)
(* deleted, and a list is read at once.                                    *)
(***************************************************************************)
EXTENDS Naturals, FiniteSets

CONSTANTS
  Memberships,
  Groups, Users,   \* instances of the one and of the other resource
  Scope,           \* the memberships of the group, or user, of an instance
  MaxApplies,      \* bound: configurations applied
  MaxMishaps,      \* bound: API calls that fail or whose answer is lost, and
                   \* memberships changed by somebody else
  Absent           \* no instance, in a configuration or in the state

Instances == Groups \cup Users
Entries == {Absent} \cup SUBSET Memberships

ASSUME GroupMembershipsAssumption ==
  /\ Groups \cap Users = {}
  /\ Scope \in [Instances -> SUBSET Memberships]
  /\ \A m \in SUBSET Memberships : m # Absent
  /\ {MaxApplies, MaxMishaps} \subseteq Nat

VARIABLES
  members,       \* the memberships in Okta
  listed,        \* those that the lists answer
  track,         \* the instances with track_all_users
  config, state, \* the memberships each instance is to have, and has
  op, pc,        \* the operation on each instance, and where it is
  adds, removes, \* what the operation has left to do
  applying,      \* whether an apply is running
  managed,       \* history: the memberships any configuration ever named
  crossed,       \* history: an instance ever took what another one had
  imported,      \* history: the instances ever imported
  told,          \* history: those whose user had to know, by an error or a change of others
  silent,        \* history: those that ever dropped an error
  applies, mishaps \* counters for the bounds

vars == << members, listed, track, config, state, op, pc, adds, removes, applying,
           managed, crossed, imported, told, silent, applies, mishaps >>
history == << managed, crossed, imported, told, silent >>
counters == << applies, mishaps >>

-----------------------------------------------------------------------------
Init ==
  /\ members = {} /\ listed = {}
  /\ track \in SUBSET Groups
  /\ config = [i \in Instances |-> Absent] /\ state = config
  /\ op = [i \in Instances |-> "none"]
  /\ pc = [i \in Instances |-> "idle"]
  /\ adds = [i \in Instances |-> {}] /\ removes = adds
  /\ applying = FALSE
  /\ managed = {} /\ crossed = FALSE /\ imported = {} /\ told = {} /\ silent = {}
  /\ applies = 0 /\ mishaps = 0

\* The memberships of an entry.
Has(s) == IF s = Absent THEN {} ELSE s

\* No membership is configured twice, and none in a group of which an
\* instance tracks all users.
Configs ==
  { c \in [Instances -> Entries] :
      /\ \A i \in Instances : Has(c[i]) \subseteq Scope[i]
      /\ \A i, j \in Instances : i # j =>
           /\ Has(c[i]) \cap Has(c[j]) = {}
           /\ i \in track /\ c[i] # Absent => Scope[i] \cap Has(c[j]) = {} }

-----------------------------------------------------------------------------
(* Read. *)

\* checkIfUsersHaveBeenRemoved: the users of the state that are still there.
StillThere(i) == state[i] \cap listed

\* checkIfUsersHaveChanged: all users of the group.
AllThere(i) == listed \cap Scope[i]

\* The state is believed.
AsBefore(i) == state[i]

Remaining(i) == StillThere(i)

\* Of a user, either all groups are there, or the instance is gone.
Refreshed(i) ==
  IF state[i] = Absent \/ (i \in Users /\ state[i] \subseteq listed) THEN state[i]
  ELSE IF i \in Users THEN Absent
  ELSE IF i \in track THEN AllThere(i) ELSE Remaining(i)

\* The list is not up to date.
Stale(i) == listed \cap Scope[i] # members \cap Scope[i]

\* What Terraform makes of the refreshed state and the configuration.
Planned(s, c) ==
  CASE s = c                     -> "none"
    [] s = Absent /\ c # Absent  -> "create"
    [] s # Absent /\ c = Absent  -> "delete"
    [] OTHER                     -> "update"

Crosses(c, s) == \E i, j \in Instances : i # j /\ Has(c[i]) \cap Has(s[j]) # {}

BeginApply(c) ==
  /\ ~applying
  /\ state' = [i \in Instances |-> Refreshed(i)]
  /\ op' = [i \in Instances |-> Planned(state'[i], c[i])]
  /\ state' # state \/ \E i \in Instances : op'[i] # "none"
  /\ IF c = config THEN UNCHANGED applies
                   ELSE applies < MaxApplies /\ applies' = applies + 1
  /\ config' = c
  /\ pc' = [i \in Instances |-> IF op'[i] = "none" THEN "idle" ELSE "planned"]
  /\ applying' = TRUE
  /\ managed' = managed \cup UNION { Has(c[i]) : i \in Instances }
  /\ crossed' = (crossed \/ Crosses(c, state'))
  /\ told' = told \cup { i \in Instances : state[i] # Absent /\ Stale(i) }
  /\ UNCHANGED << members, listed, track, adds, removes, imported, silent, mishaps >>

EndApply ==
  /\ applying
  /\ \A i \in Instances : pc[i] = "idle"
  /\ applying' = FALSE
  /\ UNCHANGED << members, listed, track, config, state, op, pc, adds, removes, history, counters >>

\* ImportState of a group: all its users, tracked or not.
Import(i) ==
  /\ ~applying /\ i \in Groups \ imported
  /\ state[i] = Absent
  /\ state' = [state EXCEPT ![i] = AllThere(i)]
  /\ imported' = imported \cup {i}
  /\ told' = IF Stale(i) THEN told \cup {i} ELSE told
  /\ UNCHANGED << members, listed, track, config, op, pc, adds, removes, applying,
                  managed, crossed, silent, counters >>

-----------------------------------------------------------------------------
(* Create, Update and Delete. *)

Additions(i) == IF op[i] = "delete" THEN {} ELSE Has(config[i]) \ Has(state[i])

Removals(i) == Has(state[i]) \ Has(config[i])

\* The two differences the other way round.
Swapped(i) == Has(config[i]) \ Has(state[i])

\* Update only adds.
OnlyDeleted(i) == IF op[i] = "delete" THEN Has(state[i]) ELSE {}

ToRemove(i) == Removals(i)

\* Where the operation goes on; only Create of a group without users does
\* not wait for the list.
Phase(i, a, r) ==
  CASE a # {}                                                     -> "add"
    [] a = {} /\ op[i] = "create" /\ (i \in Users \/ config[i] # {}) -> "wait"
    [] a = {} /\ op[i] # "create" /\ r # {}                       -> "remove"
    [] OTHER                                                      -> "done"

GoOn(i, a, r) ==
  /\ adds' = [adds EXCEPT ![i] = a]
  /\ removes' = [removes EXCEPT ![i] = r]
  /\ pc' = [pc EXCEPT ![i] = Phase(i, a, r)]

Begin(i) ==
  /\ pc[i] = "planned"
  /\ GoOn(i, Additions(i), ToRemove(i))
  /\ UNCHANGED << members, listed, track, config, state, op, applying, history, counters >>

\* AddUserToGroup, in any order.
Add(i) ==
  /\ pc[i] = "add"
  /\ \E p \in adds[i] :
       /\ members' = members \cup {p}
       /\ GoOn(i, adds[i] \ {p}, removes[i])
  /\ UNCHANGED << listed, track, config, state, op, applying, history, counters >>

\* Some user of the group, or every group of the user, is listed.
Arrived(i) == IF i \in Groups THEN listed \cap Scope[i] # {} ELSE config[i] \subseteq listed

Wait(i) ==
  /\ pc[i] = "wait"
  /\ Arrived(i)
  /\ pc' = [pc EXCEPT ![i] = "done"]
  /\ UNCHANGED << members, listed, track, config, state, op, adds, removes, applying,
                  history, counters >>

\* What a failed operation leaves in the state: Create has not set the ID,
\* Delete keeps the instance, and Update has the plan.
Left(i) ==
  CASE op[i] = "create" -> Absent
    [] op[i] = "delete" -> state[i]
    [] op[i] = "update" -> config[i]

Fail(i) ==
  /\ state' = [state EXCEPT ![i] = Left(i)]
  /\ adds' = [adds EXCEPT ![i] = {}]
  /\ removes' = [removes EXCEPT ![i] = {}]
  /\ pc' = [pc EXCEPT ![i] = "idle"]
  /\ op' = [op EXCEPT ![i] = "none"]
  /\ told' = told \cup {i}
  /\ UNCHANGED silent

\* The backoff gives up.
Timeout(i) ==
  /\ pc[i] = "wait"
  /\ ~Arrived(i)
  /\ Fail(i)
  /\ UNCHANGED << members, listed, track, config, applying, managed, crossed, imported, counters >>

\* RemoveUserFromGroup, in any order; what is not there is no error.
Remove(i) ==
  /\ pc[i] = "remove"
  /\ \E p \in removes[i] :
       /\ members' = members \ {p}
       /\ GoOn(i, {}, removes[i] \ {p})
  /\ UNCHANGED << listed, track, config, state, op, applying, history, counters >>

\* The plan becomes the state.
Return(i) ==
  /\ pc[i] = "done"
  /\ state' = [state EXCEPT ![i] = config[i]]
  /\ pc' = [pc EXCEPT ![i] = "idle"]
  /\ op' = [op EXCEPT ![i] = "none"]
  /\ UNCHANGED << members, listed, track, config, adds, removes, applying, history, counters >>

\* Update of a group drops the error and goes on with the next part.
Drop(i) ==
  /\ GoOn(i, {}, IF pc[i] = "add" THEN removes[i] ELSE {})
  /\ silent' = silent \cup {i}
  /\ UNCHANGED << state, op, told >>

Mishap == mishaps < MaxMishaps /\ mishaps' = mishaps + 1

\* A call fails or its answer is lost.
Fault(i) ==
  /\ pc[i] \in {"add", "wait", "remove"}
  /\ Mishap
  /\ \/ UNCHANGED members
     \/ pc[i] = "add" /\ \E p \in adds[i] : members' = members \cup {p}
     \/ pc[i] = "remove" /\ \E p \in removes[i] : members' = members \ {p}
  /\ IF i \in Groups /\ op[i] = "update" THEN Drop(i) ELSE Fail(i)
  /\ UNCHANGED << listed, track, config, applying, managed, crossed, imported, applies >>

-----------------------------------------------------------------------------
(* Okta. *)

\* The lists catch up.
Propagate(p) ==
  /\ p \in (listed \ members) \cup (members \ listed)
  /\ listed' = IF p \in members THEN listed \cup {p} ELSE listed \ {p}
  /\ UNCHANGED << members, track, config, state, op, pc, adds, removes, applying, history, counters >>

\* A group rule, an administrator.
Outside(p) ==
  /\ Mishap
  /\ members' = IF p \in members THEN members \ {p} ELSE members \cup {p}
  /\ told' = told \cup { i \in Instances : p \in Scope[i] }
  /\ UNCHANGED << listed, track, config, state, op, pc, adds, removes, applying,
                  managed, crossed, imported, silent, applies >>

Step(i) == Begin(i) \/ Add(i) \/ Wait(i) \/ Timeout(i) \/ Remove(i) \/ Return(i)

Next ==
  \/ \E c \in Configs : BeginApply(c)
  \/ EndApply
  \/ \E i \in Instances : Import(i) \/ Step(i) \/ Fault(i)
  \/ \E p \in Memberships : Propagate(p) \/ Outside(p)

Spec == Init /\ [][Next]_vars

\* Operations and lists go on, and somebody applies the configuration again.
FairSpec ==
  /\ Spec
  /\ \A i \in Instances : WF_vars(Step(i))
  /\ \A p \in Memberships : WF_vars(Propagate(p))
  /\ WF_vars(BeginApply(config)) /\ WF_vars(EndApply)

-----------------------------------------------------------------------------
(* Properties. *)

\* Every instance has memberships of its own group or user, an operation is
\* under way only during an apply, never adds what it removes, and has nothing
\* left to do when it is over.
TypeOK ==
  /\ members \subseteq Memberships /\ listed \subseteq Memberships
  /\ track \subseteq Groups
  /\ config \in [Instances -> Entries] /\ state \in [Instances -> Entries]
  /\ \A i \in Instances : Has(config[i]) \subseteq Scope[i] /\ Has(state[i]) \subseteq Scope[i]
  /\ op \in [Instances -> {"none", "create", "update", "delete"}]
  /\ pc \in [Instances -> {"idle", "planned", "add", "wait", "remove", "done"}]
  /\ adds \in [Instances -> SUBSET Memberships]
  /\ removes \in [Instances -> SUBSET Memberships]
  /\ applying \in BOOLEAN /\ crossed \in BOOLEAN
  /\ managed \subseteq Memberships
  /\ imported \subseteq Instances /\ told \subseteq Instances /\ silent \subseteq Instances
  /\ applies \in 0 .. MaxApplies /\ mishaps \in 0 .. MaxMishaps
  /\ \A i \in Instances :
       /\ (pc[i] = "idle") = (op[i] = "none")
       /\ pc[i] # "idle" => applying
       /\ pc[i] \in {"idle", "planned", "done"} => adds[i] = {} /\ removes[i] = {}
       /\ adds[i] \cap removes[i] = {}
       /\ op[i] \in {"update", "delete"} => state[i] # Absent
       /\ op[i] \in {"create", "update"} => config[i] # Absent

\* The memberships of the configuration are there.
InForceFor(i) == Has(config[i]) \subseteq members

\* The configuration of the instances is in force, and what they no longer
\* have is gone, where no other instance may have left it.
UpToDate(exempt) ==
  ~applying /\ ~crossed =>
    /\ \A i \in Instances \ exempt : InForceFor(i)
    /\ (members \cap managed) \ UNION { Scope[i] : i \in exempt }
         \subseteq UNION { Has(state[i]) : i \in Instances }

\* After an apply every instance is up to date, unless an error was reported
\* or dropped, the lists lagged, somebody else interfered, or two instances
\* exchanged memberships.
InForce == UpToDate(told \cup silent)

\* An apply that reports no error has put the configuration into force.
InForceUnlessTold == UpToDate(told)

\* Without track_all_users and without import, the provider never removes a
\* membership that no configuration has ever named.
OthersUntouched ==
  [][ track = {} /\ imported = {} =>
        members \ members' \subseteq managed \/ \E p \in Memberships : Outside(p) ]_vars

\* Whatever fails, is dropped, lags or is done by others: when applies are
\* repeated, the memberships of the configuration get there and stay, and a
\* tracked group gets exactly its users.
Settles ==
  <>[] \A i \in Instances : config[i] # Absent =>
         /\ InForceFor(i)
         /\ i \in track => members \cap Scope[i] = config[i]
=============================================================================

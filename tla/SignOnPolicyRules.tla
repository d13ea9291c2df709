-------------------------- MODULE SignOnPolicyRules --------------------------
(***************************************************************************)
(* The resource okta_app_signon_policy_rules: one Terraform resource that  *)
(* owns all rules of one sign-on policy.                                   *)
(*                                                                         *)
(*   okta/services/idaas/resource_okta_app_signon_policy_rules.go          *)
(*                                                                         *)
(* An apply is a sequence of API calls.  It writes the Terraform state     *)
(* only when all of them have succeeded; an error or a crash on the way    *)
(* leaves the rules already changed in Okta and the state as it was.       *)
(*                                                                         *)
(* The Okta API is external: names are unique in a policy, and a rule that *)
(* takes a priority in use shifts its holder to the next one (see the      *)
(* PRIORITY MANAGEMENT note of resource_okta_app_signon_policy_rule.go).   *)
(* Conflict, throttling and outage answers are retried inside each call    *)
(* until its time is up; a call is here one step that ends all that.       *)
(* What a rule does (access, factors, conditions) is abstracted to a body. *)
(***************************************************************************)
EXTENDS Integers

CONSTANTS
  Names,        \* names a configuration may give to its rules
  CatchAll,     \* the name of the system rule
  Bodies,       \* what the rules do
  Priorities,   \* priorities a configuration may ask for
  IdsGiven,     \* the ids a configuration may give, see IdsOffered
  MaxFound,     \* bound: rules the policy has before Terraform comes to it
  MaxRules,     \* bound: rules ever in the policy
  MaxApplies,   \* bound: configurations applied
  MaxFaults,    \* bound: calls that fail, and crashes
  MaxAdmin,     \* bound: changes made outside Terraform
  MaxMishaps    \* bound: both together

ASSUME SignOnPolicyRulesAssumption ==
  /\ CatchAll \notin Names
  /\ Priorities \subseteq Nat \ {0}
  /\ IdsGiven \in {"none", "renames", "reuses"}
  /\ {MaxRules, MaxApplies, MaxFaults, MaxAdmin, MaxMishaps} \subseteq Nat
  /\ MaxFound \in 0 .. MaxRules

VARIABLES
  okta,         \* the rules of the policy, by ID
  state,        \* the rules in the Terraform state
  managed,      \* whether the resource is in the Terraform state at all
  plan,         \* the configuration being applied, by rule name
  op,           \* what the provider is doing
  existing,     \* name -> ID of the rules Create found in the policy
  doomed,       \* IDs still to be deleted by this Update or Delete
  todo,         \* names of the plan still to be processed
  current,      \* the rule whose status must be changed next
  results,      \* the rules processed by this apply, by name in the plan
  outcome,      \* how the last apply ended
  owned,        \* history: IDs that have been in the Terraform state
  undisturbed,  \* history: no change from outside since the last refresh
  minted, applies, faults, admin   \* counters for the bounds

local == << existing, doomed, todo, current, results >>
counters == << minted, applies, faults, admin >>
vars == << okta, state, managed, plan, op, local, outcome, owned,
           undisturbed, counters >>

-----------------------------------------------------------------------------
NoId == -1
SystemId == 0
SystemPriority == 99
RuleIds == 0 .. MaxRules
Unset == 0
Statuses == {"ACTIVE", "INACTIVE"}
Empty == [x \in {} |-> x]

Rule == [id : RuleIds, name : Names \cup {CatchAll}, priority : Nat,
         status : Statuses, body : Bodies]
PlanRule == [id : RuleIds \cup {NoId}, priority : Priorities \cup {Unset},
             status : Statuses, body : Bodies]

IsSystem(r) == r.id = SystemId
Without(f, k) == [x \in DOMAIN f \ {k} |-> f[x]]
Put(f, k, v) == [x \in DOMAIN f \cup {k} |-> IF x = k THEN v ELSE f[x]]
Rules(f) == { f[i] : i \in DOMAIN f }
NamesOf(rules) == { r.name : r \in rules }
IdsOf(rules) == { r.id : r \in rules }
Named(rules, name) == CHOOSE r \in rules : r.name = name
WithId(rules, id) == CHOOSE r \in rules : r.id = id

-----------------------------------------------------------------------------
(* Configurations. *)

\* The ids a configuration may give: none ("none"); before there is a state,
\* those of any rules of the policy, to be adopted; then those of rules of the
\* state, to be renamed.  Update ignores the id of a rule outside the state,
\* and Terraform rejects its result as inconsistent: none is offered.
IdsOffered == CASE IdsGiven = "none" -> {NoId}
                [] IdsGiven # "none" /\ ~managed -> (DOMAIN okta \cup {NoId}) \ {SystemId}
                [] OTHER -> (IdsOf(state) \cup {NoId}) \ {SystemId}

\* The name the rule of the id has so far.
NameOfId(i) == IF managed THEN WithId(state, i).name ELSE okta[i].name

\* An id goes with a name the state does not have, and the name its rule had
\* with no other rule ("renames"; with "reuses" another may take it).
Renames(p) ==
  \A n \in { m \in DOMAIN p : p[m].id # NoId } :
    /\ n \notin NamesOf(state)
    /\ IdsGiven = "renames" => NameOfId(p[n].id) \notin DOMAIN p \ {n}

\* ValidateConfig: names are unique (a plan is a function of them), and so
\* are the priorities that are set.
ValidPlan(p) ==
  \A n, m \in DOMAIN p :
    n # m => /\ p[n].priority # Unset => p[n].priority # p[m].priority
             /\ p[n].id # NoId => p[n].id # p[m].id

CustomPlans ==
  { p \in UNION { [N -> { r \in PlanRule : r.id \in IdsOffered }] : N \in SUBSET Names } :
      ValidPlan(p) /\ Renames(p) }

\* Of the system rule only the body can be configured.
Plans ==
  (CustomPlans \cup
     { Put(p, CatchAll, [id |-> NoId, priority |-> Unset, status |-> "ACTIVE", body |-> b]) :
         p \in CustomPlans, b \in Bodies }) \ {Empty}

\* Terraform calls Update only for a plan that differs from the state.
Same(p) ==
  /\ DOMAIN p = NamesOf(state)
  /\ \A r \in state : /\ p[r.name].priority = r.priority
                      /\ p[r.name].status = r.status
                      /\ p[r.name].body = r.body

-----------------------------------------------------------------------------
(* The Okta API. *)

Custom == DOMAIN okta \ {SystemId}
Holders(p, but) == { i \in Custom \ {but} : okta[i].priority = p }

\* The first priority from p on that no other rule than id has.
Gap(id, p) ==
  CHOOSE q \in {p} \cup { okta[i].priority + 1 : i \in Custom \ {id} } :
    /\ q >= p
    /\ Holders(q, id) = {}
    /\ \A r \in p .. q - 1 : Holders(r, id) # {}

\* Rule id takes priority p: those in a run from p on shift by one.
Shifted(id, p) ==
  [i \in DOMAIN okta |->
     IF i \in Custom \ {id} /\ okta[i].priority \in p .. Gap(id, p) - 1
       THEN [okta[i] EXCEPT !.priority = @ + 1] ELSE okta[i]]

\* The priority after all others.
Last == CHOOSE q \in {1} \cup { okta[i].priority + 1 : i \in Custom } :
          \A i \in Custom : okta[i].priority < q

\* A created rule is active whatever is sent; without a priority it goes last.
Created(id, name, priority, body) ==
  LET p == IF priority = Unset THEN Last ELSE priority
  IN  Put(Shifted(id, p), id, [id |-> id, name |-> name, priority |-> p,
                               status |-> "ACTIVE", body |-> body])

\* A replaced rule keeps its status, and its priority when none is sent.
Replaced(id, r) ==
  LET p == IF r.priority = Unset THEN okta[id].priority ELSE r.priority
  IN  Put(IF id = SystemId THEN okta ELSE Shifted(id, p), id,
          [okta[id] EXCEPT !.name = r.name, !.priority = p, !.body = r.body])

NameTaken(name, but) == \E i \in DOMAIN okta \ {but} : okta[i].name = name

-----------------------------------------------------------------------------
\* The rules somebody made before, one after the other; names are unique.
Found(k) ==
  { f \in [1 .. k -> [name : Names, status : Statuses, body : Bodies]] :
      \A i, j \in 1 .. k : f[i].name = f[j].name => i = j }

Init ==
  /\ \E k \in 0 .. MaxFound : \E f \in Found(k), b \in Bodies :
       /\ okta = [i \in 0 .. k |->
                    IF i = SystemId
                      THEN [id |-> i, name |-> CatchAll, priority |-> SystemPriority,
                            status |-> "ACTIVE", body |-> b]
                      ELSE [id |-> i, name |-> f[i].name, priority |-> i,
                            status |-> f[i].status, body |-> f[i].body]]
       /\ minted = k
  /\ state = {} /\ managed = FALSE /\ plan = Empty /\ op = "idle"
  /\ existing = Empty /\ doomed = {} /\ todo = {} /\ current = NoId /\ results = Empty
  /\ outcome = "none" /\ owned = {} /\ undisturbed = TRUE
  /\ applies = 0 /\ faults = 0 /\ admin = 0

Working == op \in {"create", "update", "delete"}

\* Terraform applies p; repeating what failed is free of the bound.
Begin(p) ==
  /\ IF outcome = "failed" /\ p = plan
       THEN UNCHANGED applies
       ELSE applies < MaxApplies /\ applies' = applies + 1
  /\ plan' = p
  /\ outcome' = "none"
  /\ todo' = DOMAIN p
  /\ UNCHANGED << okta, state, managed, current, results, owned, minted, faults, admin >>

\* Any configuration, as far as the bound allows, or the one that failed.
Repeatable == IF outcome = "failed" /\ plan # Empty THEN {plan} ELSE {}
Configured == (IF applies < MaxApplies THEN Plans ELSE {}) \cup Repeatable

\* Create first lists the rules of the policy by name, so that it adopts the
\* system rule and the rules an interrupted Create left behind.
CreateFor(p) ==
  /\ op = "idle" /\ ~managed
  /\ Begin(p)
  /\ op' = "create"
  /\ existing' = [n \in NamesOf(Rules(okta)) |-> Named(Rules(okta), n).id]
  /\ undisturbed' = TRUE
  /\ UNCHANGED doomed

BeginCreate == op = "idle" /\ ~managed /\ \E p \in Configured : CreateFor(p)

\* ImportState takes all rules of the policy into the state.
Import ==
  /\ op = "idle" /\ ~managed /\ outcome # "failed"
  /\ applies < MaxApplies
  /\ applies' = applies + 1
  /\ state' = Rules(okta)
  /\ managed' = TRUE
  /\ owned' = owned \cup DOMAIN okta
  /\ outcome' = "none"
  /\ UNCHANGED << okta, plan, op, local, undisturbed, minted, faults, admin >>

\* Read drops the rules that are gone and takes over the others by their ID.
Read ==
  /\ op = "idle" /\ managed
  /\ state' = { okta[i] : i \in IdsOf(state) \cap DOMAIN okta }
  /\ op' = "refreshed"
  /\ undisturbed' = TRUE
  /\ UNCHANGED << okta, managed, plan, local, outcome, owned, counters >>

\* Rules of the state whose name is not in the plan, nor their ID.
RemovedRules(p) ==
  { r.id : r \in { s \in state : /\ ~IsSystem(s)
                                 /\ s.name \notin DOMAIN p
                                 /\ \A n \in DOMAIN p : p[n].id # s.id } }

\* The rules of the policy, not of the state.
RemovedFromPolicy(p) ==
  { i \in Custom : okta[i].name \notin DOMAIN p /\ \A n \in DOMAIN p : p[n].id # i }

\* Only the rules in force.
RemovedActive(p) ==
  { i \in RemovedRules(p) : WithId(state, i).status = "ACTIVE" }

\* The system rule too.
RemovedSystem(p) == { r.id : r \in { s \in state : s.name \notin DOMAIN p } }

Removed(p) == RemovedRules(p)

UpdateFor(p) ==
  /\ op = "refreshed"
  /\ ~Same(p)
  /\ Begin(p)
  /\ doomed' = Removed(p)
  /\ op' = "update"
  /\ UNCHANGED << existing, undisturbed >>

BeginUpdate == op = "refreshed" /\ \E p \in Configured : UpdateFor(p)

BeginDelete ==
  /\ op = "refreshed"
  /\ Begin(Empty)
  /\ op' = "delete"
  /\ doomed' = Removed(Empty)
  /\ UNCHANGED << existing, undisturbed >>

\* The refreshed state needs no apply.
NoChanges ==
  /\ op = "refreshed" /\ outcome # "failed"
  /\ op' = "idle"
  /\ outcome' = "none"
  /\ UNCHANGED << okta, state, managed, plan, local, owned, undisturbed, counters >>

-----------------------------------------------------------------------------
\* The provider returns; what it held in memory is gone.
Return(how) ==
  /\ op' = "idle"
  /\ outcome' = how
  /\ existing' = Empty /\ doomed' = {} /\ todo' = {} /\ current' = NoId /\ results' = Empty
  /\ UNCHANGED << okta, plan, undisturbed, minted, applies, admin >>

\* A call fails, its answer is lost, or the provider dies.
Fail ==
  /\ Working
  /\ faults < MaxFaults /\ faults + admin < MaxMishaps
  /\ faults' = faults + 1
  /\ Return("failed")
  /\ UNCHANGED << state, managed, owned >>

\* deleteRemovedRules and Delete; a rule that is gone (404) counts as deleted.
DeleteRule(i) ==
  /\ op \in {"update", "delete"}
  /\ i \in doomed
  /\ okta' = Without(okta, i)
  /\ doomed' = doomed \ {i}
  /\ UNCHANGED << state, managed, plan, op, existing, todo, current, results,
                  outcome, owned, undisturbed, counters >>

\* sortRulesByPriority: ascending, those without a priority at the end.
InPriorityOrder(n) ==
  \A m \in todo : \/ plan[m].priority = Unset
                  \/ plan[n].priority # Unset /\ plan[n].priority <= plan[m].priority

\* Rules in any order.
InAnyOrder(n) == n \in todo

IsNext(n) == InPriorityOrder(n)

\* The ID of the rule that n is applied to.  Create: the id given, else that
\* of the rule found under the name.  Update: that of the rule of the state
\* with the name, else the id given, if it is in the state.
NameFirst(n) ==
  IF op = "create"
    THEN IF plan[n].id # NoId THEN plan[n].id
         ELSE IF n \in DOMAIN existing THEN existing[n] ELSE NoId
    ELSE IF n \in NamesOf(state) THEN Named(state, n).id
         ELSE IF plan[n].id \in IdsOf(state) THEN plan[n].id ELSE NoId

\* Create does not look at the rules that are there.
NoPrefetch(n) == IF op = "create" THEN plan[n].id ELSE NameFirst(n)

\* Update looks for the name only.
NameOnly(n) ==
  IF op = "create" THEN NameFirst(n)
  ELSE IF n \in NamesOf(state) THEN Named(state, n).id ELSE NoId

Match(n) == NameFirst(n)

\* Update drops an id given that is not that of the rule found by name, and
\* the priority of the plan with it.
PriorityFor(n) ==
  IF op = "update" /\ plan[n].id \notin {NoId, Match(n)}
    THEN WithId(state, Match(n)).priority ELSE plan[n].priority

\* buildAPIRuleFromModel, normalizeAPIRuleForSystem: a system rule is sent
\* its own name and priority.
Payload(n) ==
  LET r == okta[Match(n)]
  IN  [name |-> IF IsSystem(r) THEN r.name ELSE n,
       priority |-> IF IsSystem(r) THEN r.priority ELSE PriorityFor(n),
       body |-> plan[n].body]

Ready(n) ==
  /\ op \in {"create", "update"}
  /\ doomed = {} /\ current = NoId
  /\ n \in todo
  /\ IsNext(n)

\* Rule i was created or replaced for n.  syncRuleStatus has a call to make
\* only if the answer shows another status than the plan.
Processed(n, i) ==
  /\ todo' = todo \ {n}
  /\ current' = IF okta'[i].status = plan[n].status THEN NoId ELSE i
  /\ results' = Put(results, n, [okta'[i] EXCEPT !.status = plan[n].status])
  /\ UNCHANGED << state, managed, plan, op, existing, doomed, outcome, owned,
                  undisturbed, applies, faults, admin >>

CreateRule(n) ==
  /\ Ready(n)
  /\ Match(n) = NoId
  /\ ~NameTaken(n, NoId)
  /\ minted < MaxRules
  /\ minted' = minted + 1
  /\ okta' = Created(minted', n, plan[n].priority, plan[n].body)
  /\ Processed(n, minted')

UpdateRule(n) ==
  /\ Ready(n)
  /\ Match(n) \in DOMAIN okta
  /\ ~NameTaken(Payload(n).name, Match(n))
  /\ okta' = Replaced(Match(n), Payload(n))
  /\ Processed(n, Match(n))
  /\ UNCHANGED minted

\* 409 for a name in use, 404 for a rule that is gone.
RuleRefused(n) ==
  /\ Ready(n)
  /\ \/ Match(n) = NoId /\ NameTaken(n, NoId)
     \/ Match(n) # NoId /\ Match(n) \notin DOMAIN okta
     \/ Match(n) \in DOMAIN okta /\ NameTaken(Payload(n).name, Match(n))
  /\ Return("failed")
  /\ UNCHANGED << state, managed, owned, faults >>

\* syncRuleStatus: the status changes through the lifecycle endpoints only.
SyncStatus(n) ==
  /\ op \in {"create", "update"}
  /\ current \in DOMAIN okta
  /\ n \in DOMAIN results /\ results[n].id = current
  /\ okta' = [okta EXCEPT ![current].status = results[n].status]
  /\ current' = NoId
  /\ UNCHANGED << state, managed, plan, op, existing, doomed, todo, results,
                  outcome, owned, undisturbed, counters >>

\* The rule was deleted before the call to its lifecycle endpoint.
StatusRefused ==
  /\ op \in {"create", "update"}
  /\ current \notin DOMAIN okta \cup {NoId}
  /\ Return("failed")
  /\ UNCHANGED << state, managed, owned, faults >>

\* All calls have succeeded: reorderRulesToMatchPlan picks the results named
\* as in the plan, and they become the state.
Finish ==
  /\ op \in {"create", "update"}
  /\ doomed = {} /\ todo = {} /\ current = NoId
  /\ state' = { r \in Rules(results) : r.name \in DOMAIN plan }
  /\ managed' = TRUE
  /\ owned' = owned \cup IdsOf(state')
  /\ Return("applied")
  /\ UNCHANGED faults

FinishDelete ==
  /\ op = "delete" /\ doomed = {}
  /\ state' = {}
  /\ managed' = FALSE
  /\ Return("applied")
  /\ UNCHANGED << owned, faults >>

-----------------------------------------------------------------------------
\* Another tool or an administrator changes the policy.
Interferes ==
  /\ admin < MaxAdmin /\ faults + admin < MaxMishaps
  /\ admin' = admin + 1
  /\ undisturbed' = FALSE
  /\ UNCHANGED << state, managed, plan, op, local, outcome, owned, applies, faults >>

AdminCreate(n) ==
  /\ Interferes
  /\ ~NameTaken(n, NoId)
  /\ minted < MaxRules
  /\ minted' = minted + 1
  /\ \E p \in Priorities, b \in Bodies : okta' = Created(minted', n, p, b)

AdminDelete(i) ==
  /\ Interferes
  /\ i \in Custom
  /\ okta' = Without(okta, i)
  /\ UNCHANGED minted

-----------------------------------------------------------------------------
Apply(n) == CreateRule(n) \/ UpdateRule(n) \/ RuleRefused(n) \/ SyncStatus(n)

Provider ==
  \/ \E i \in RuleIds : DeleteRule(i)
  \/ \E n \in Names \cup {CatchAll} : Apply(n)
  \/ StatusRefused \/ Finish \/ FinishDelete

Terraform == BeginCreate \/ Import \/ Read \/ BeginUpdate \/ BeginDelete \/ NoChanges

Outside == (\E n \in Names : AdminCreate(n)) \/ (\E i \in RuleIds : AdminDelete(i))

Next == Provider \/ Terraform \/ Fail \/ Outside

Spec == Init /\ [][Next]_vars

\* A failed apply is repeated with the same configuration, which takes a
\* refresh once the resource exists; a running provider goes on.
Again ==
  /\ outcome = "failed"
  /\ \/ Read
     \/ plan # Empty /\ (CreateFor(plan) \/ UpdateFor(plan))
     \/ plan = Empty /\ BeginDelete

FairSpec == Spec /\ WF_vars(Provider) /\ WF_vars(Again)

-----------------------------------------------------------------------------
(* Properties. *)

\* The variables hold what their comments say; a name belongs to one rule of
\* the policy, and the system rule is still there, by its name and priority.
TypeOK ==
  /\ DOMAIN okta \subseteq RuleIds
  /\ \A i \in DOMAIN okta : okta[i] \in Rule /\ okta[i].id = i
  /\ \A i, j \in DOMAIN okta : okta[i].name = okta[j].name => i = j
  /\ SystemId \in DOMAIN okta
  /\ okta[SystemId].name = CatchAll /\ okta[SystemId].priority = SystemPriority
  /\ state \subseteq Rule
  /\ managed \in BOOLEAN /\ undisturbed \in BOOLEAN
  /\ \A n \in DOMAIN plan : n \in Names \cup {CatchAll} /\ plan[n] \in PlanRule
  /\ op \in {"idle", "refreshed", "create", "update", "delete"}
  /\ \A n \in DOMAIN existing : existing[n] \in RuleIds
  /\ doomed \cup owned \subseteq RuleIds
  /\ todo \subseteq DOMAIN plan
  /\ current \in RuleIds \cup {NoId}
  /\ \A n \in DOMAIN results : n \in DOMAIN plan /\ results[n] \in Rule
  /\ outcome \in {"none", "applied", "failed"}
  /\ minted \in 0 .. MaxRules /\ applies \in 0 .. MaxApplies
  /\ faults \in 0 .. MaxFaults /\ admin \in 0 .. MaxAdmin

\* An apply that reports success has put the configuration into force, and
\* knows it: the state is the plan, and the policy has the rules of the
\* state, priorities and statuses included.  A rule processed later must not
\* shift one processed before, which is what the priority order is for.
AppliedInSync ==
  outcome = "applied" /\ managed /\ undisturbed /\ op = "idle" =>
    /\ state \subseteq Rules(okta)
    /\ NamesOf(state) = DOMAIN plan
    /\ \A r \in state :
         /\ r.body = plan[r.name].body
         /\ r.status = plan[r.name].status
         /\ plan[r.name].priority # Unset => r.priority = plan[r.name].priority

\* A custom rule that has been in the state never drops out of it while it
\* stays in Okta: an apply that succeeds has deleted what it no longer
\* tracks, whatever failed before.
NothingForgotten ==
  outcome = "applied" /\ op = "idle" =>
    owned \cap Custom \subseteq IdsOf(state)

\* What Create adopts: the rules the configuration names, and those whose id
\* it gives.
Adopted(i) ==
  /\ op = "create"
  /\ okta[i].name \in DOMAIN plan \/ \E n \in DOMAIN plan : plan[n].id = i

\* A rule that is not in the state is not deleted by any apply, and not
\* rewritten (Okta may shift its priority), but for a rule that Create adopts.
UnmanagedUntouched ==
  [][ admin' = admin =>
        \A i \in DOMAIN okta \ (IdsOf(state) \cup IdsOf(Rules(results))) :
          /\ i \in DOMAIN okta'
          /\ \/ [okta'[i] EXCEPT !.priority = 0] = [okta[i] EXCEPT !.priority = 0]
             \/ Adopted(i) ]_vars

\* The rule whose id the configuration gives bears, after the apply, the name
\* the configuration gives it, if it is still there.
IdHonoured ==
  outcome = "applied" /\ undisturbed /\ op = "idle" =>
    \A n \in DOMAIN plan :
      plan[n].id \in DOMAIN okta => okta[plan[n].id].name = n

\* Every rule the configuration adopts by its id is there, and no other rule
\* has the name it shall bear.
Adoptable ==
  \A n \in DOMAIN plan :
    plan[n].id # NoId => /\ plan[n].id \in DOMAIN okta
                         /\ ~NameTaken(n, plan[n].id)

\* A Create that failed, after whatever number of its calls, succeeds when it
\* is repeated, unless a rule to be adopted cannot be: the rules it left
\* behind are recognised.
CreateConverges == outcome = "failed" /\ ~managed ~> managed \/ ~Adoptable

=============================================================================

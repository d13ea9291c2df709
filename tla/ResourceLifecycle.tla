------------------------- MODULE ResourceLifecycle -------------------------
(***************************************************************************)
(* The life of one resource under Terraform: configurations are applied    *)
(* again and again, each apply being a refresh (Read), a plan, and a       *)
(* handler that runs its API calls one by one, any of which may fail, or   *)
(* be carried out without its answer arriving, while somebody else changes *)
(* or deletes the object.  The handlers are a parameter, see HandlerSteps. *)
(***************************************************************************)
EXTENDS HandlerSteps, Naturals

CONSTANTS
  Handlers,     \* the handlers of each kind of resource
  Bodies, Parts,
  NoAttributes, \* no object, no state, no configuration
  MaxConfigs,   \* bound: configurations applied one after the other
  MaxMishaps    \* bound: failed calls, and changes by somebody else

\* The kinds of which a property below is not claimed, each with its reason
\* where they get their values.
CONSTANTS
  StrandingKinds, LaggingKinds, PrematureKinds, InterruptedKinds, RestlessKinds

ASSUME HandlersAssumption ==
  \A k \in DOMAIN Handlers :
    /\ Handlers[k].facets \subseteq Facets
    /\ \A p \in {Handlers[k].create, Handlers[k].update, Handlers[k].delete} :
         p \in Seq([call : STRING, with : SUBSET STRING, when : SUBSET Guards,
                    quiet : BOOLEAN, careless : BOOLEAN])
ASSUME AttributesAssumption ==
  /\ Bodies # {} /\ MaxConfigs \in Nat \ {0} /\ MaxMishaps \in Nat
  /\ NoAttributes \notin
       [frozen : Bodies, home : Bodies, body : Bodies, parts : SUBSET Parts,
        status : {"ACTIVE", "INACTIVE"}]

Kinds == DOMAIN Handlers
Statuses == {"ACTIVE", "INACTIVE"}
Attributes ==
  [frozen : Bodies, home : Bodies, body : Bodies, parts : SUBSET Parts, status : Statuses]
Maybe(S) == S \cup {NoAttributes}
Twice == 2

VARIABLES
  kind,        \* which resource it is
  object,      \* the object in Okta
  stranded,    \* whether an object was left in Okta that Terraform does not know
  state, tainted, \* the attributes in the Terraform state
  config,      \* the attributes configured
  op, pc,      \* the handler that runs, and where it is
  d,           \* the ResourceData of the handler
  replacing,   \* whether a creation follows the deletion
  result,      \* how the last apply ended
  touched,     \* whether somebody else changed the object since the refresh
  unanswered,  \* history: a request for a creation got no answer
  attempts,    \* history: applies since the last configuration or mishap, up to two
  configs, mishaps \* counters for the bounds

vars == << kind, object, stranded, state, tainted, config, op, pc, d, replacing,
           result, touched, unanswered, attempts, configs, mishaps >>

R == Handlers[kind]
There(x) == x # NoAttributes

\* x with the facets fs of y.
Merge(x, y, fs) == [f \in Facets |-> IF f \in fs THEN y[f] ELSE x[f]]

\* A resource has the default in the facets that it does not have.
Default ==
  LET b == CHOOSE x \in Bodies : TRUE IN
  [frozen |-> b, home |-> b, body |-> b, parts |-> {}, status |-> "ACTIVE"]
Choices(f, S) == IF f \in R.facets THEN S ELSE {Default[f]}
Configurations ==
  [frozen : Choices("frozen", Bodies), home : Choices("home", Bodies),
   body : Choices("body", Bodies), parts : Choices("parts", SUBSET Parts),
   status : Choices("status", Statuses)]

NoData == [id |-> FALSE, attrs |-> NoAttributes, prior |-> NoAttributes,
           answer |-> "ACTIVE", adds |-> {}, drops |-> {}]

-----------------------------------------------------------------------------
Init ==
  /\ kind \in Kinds
  /\ object = IF R.identity \in {"singleton", "imported"} THEN Default ELSE NoAttributes
  /\ stranded = FALSE
  /\ state = NoAttributes /\ tainted = FALSE
  /\ config \in Configurations
  /\ op = "none" /\ pc = 1 /\ d = NoData /\ replacing = FALSE
  /\ result = "none" /\ touched = FALSE /\ unanswered = FALSE
  /\ configs = 1 /\ mishaps = 0 /\ attempts = 0

\* Another configuration, or none any more.
Configure ==
  /\ op = "none" /\ configs < MaxConfigs
  /\ config' \in Maybe(Configurations) \ {config}
  /\ configs' = configs + 1 /\ result' = "none" /\ attempts' = 0
  /\ UNCHANGED << kind, object, stranded, state, tainted, op, pc, d, replacing,
                  touched, unanswered, mishaps >>

\* Whether requests that look for the object where the attributes x say find it.
Found(x) == There(object) /\ There(x) /\ object.home = x.home

\* Read: the attributes x after the object was read into them.
Facing(x) ==
  LET kept == R.read.unread \cup
              (IF "no_parts" \in R.read.unread /\ object.parts = {} THEN {"parts"} ELSE {}) IN
  Merge(x, object, R.facets \ kept)

\* The state after a refresh.
Refreshed == IF Found(state) THEN Facing(state) ELSE NoAttributes

\* Terraform's plan from a state to a configuration.
Planned(s) ==
  CASE ~There(config) -> IF There(s) THEN "delete" ELSE "none"
    [] There(config) /\ ~There(s) -> "create"
    [] There(config) /\ There(s) ->
         IF \/ tainted
            \/ R.replaced /\ s.frozen # config.frozen
            \/ R.emptied /\ s.parts # {} /\ config.parts = {} THEN "replace"
         ELSE IF s # config THEN "update" ELSE "none"

\* The ResourceData with which a handler starts.
Data(o, s) ==
  [NoData EXCEPT !.id = (o # "create"), !.prior = s,
                 !.attrs = IF o = "delete" THEN s ELSE config]

\* An object that a creation made is lost when Terraform keeps no state s of it.
\* Only one that has a key may be found by a later creation.
Lost(o, s) == There(o) /\ ~There(s) /\ R.identity \in {"assigned", "keyed"}
Forgotten(o, s) == Lost(o, s) /\ R.identity = "assigned"

\* Resources whose deletion leaves the object on purpose.
Retained == \A i \in DOMAIN R.delete : R.delete[i].call # "remove"
LetGo == Retained /\ (op = "delete" \/ R.identity = "keyed")

\* An apply refreshes and plans, and ends there if nothing is to be done.
BeginApply ==
  /\ op = "none"
  /\ There(state) /\ ~Found(state) => R.read.missing = "forget"
  /\ LET p == Planned(Refreshed)
         o == IF p = "replace" THEN "delete" ELSE p IN
     /\ op' = o
     /\ replacing' = (p = "replace")
     /\ d' = IF o = "none" THEN NoData ELSE Data(o, Refreshed)
     /\ result' = IF o = "none" THEN "ok" ELSE result
  /\ state' = Refreshed /\ tainted' = (tainted /\ There(Refreshed))
  /\ object' = IF Forgotten(object, Refreshed) THEN NoAttributes ELSE object
  /\ stranded' = (stranded \/ (There(state) /\ Lost(object, Refreshed)))
  /\ pc' = 1 /\ touched' = FALSE
  /\ attempts' = IF attempts = Twice THEN Twice ELSE attempts + 1
  /\ UNCHANGED << kind, config, unanswered, configs, mishaps >>

\* The refresh fails: the object is gone and Read takes that for an error.
FailRefresh ==
  /\ op = "none"
  /\ There(state) /\ ~Found(state) /\ R.read.missing = "fail"
  /\ result' = "error"
  /\ UNCHANGED << kind, object, stranded, state, tainted, config, op, pc, d, replacing,
                  touched, unanswered, attempts, configs, mishaps >>

\* terraform import: the state of an object that Terraform did not create.  What
\* is not read of a setting cannot be imported, and is left to its creation.
Import ==
  /\ op = "none"
  /\ \/ R.identity = "imported"
     \/ R.identity = "singleton" /\ R.read.unread \cap R.facets = {}
  /\ There(object) /\ ~There(state) /\ There(config)
  /\ state' = Facing(Default) /\ tainted' = FALSE
  /\ result' = "none" /\ attempts' = 0
  /\ UNCHANGED << kind, object, stranded, config, op, pc, d, replacing,
                  touched, unanswered, configs, mishaps >>

-----------------------------------------------------------------------------
Program == CASE op = "create" -> R.create [] op = "update" -> R.update
             [] op = "delete" -> R.delete [] op = "none" -> << >>
Running == op # "none" /\ pc <= Len(Program)
Current == Program[pc]

\* Mutant: steps that are made under any condition.
HoldsAnyway(g) == TRUE

Holds(g) ==
  CASE g = "active" -> d.attrs.status = "ACTIVE"
    [] g = "inactive" -> d.attrs.status = "INACTIVE"
    [] g = "no_parts" -> d.attrs.parts = {}
    [] g = "some_parts" -> d.attrs.parts # {}
    [] g = "status_changed" -> There(d.prior) => d.prior.status # d.attrs.status
    [] g = "attributes_changed" -> There(d.prior) => d.prior.body # d.attrs.body
    [] g = "parts_changed" -> There(d.prior) => d.prior.parts # d.attrs.parts
    [] g = "status_differs" -> d.answer # d.attrs.status

Due == Running /\ \A g \in Current.when : Holds(g)

\* A step whose conditions do not hold is passed over.
Skip ==
  /\ Running /\ ~Due
  /\ pc' = pc + 1
  /\ UNCHANGED << kind, object, stranded, state, tainted, config, op, d, replacing,
                  result, touched, unanswered, attempts, configs, mishaps >>

Calls == {"post", "ensure", "put", "remove", "activate", "deactivate", "add", "add_all", "drop", "reset"}
Here == Found(d.attrs)

\* Mutant: the API takes its time over a status.
StatusPending(fs, s) == IF "status?" \in fs THEN {d.attrs.status, s, "PENDING"} ELSE {s}

\* The status of an object that has the status s before a request with fs.
StatusAfter(fs, s) ==
  IF "status" \in fs THEN {d.attrs.status}
  ELSE IF "status?" \in fs THEN {d.attrs.status, s} ELSE {s}

\* What a request with the facets fs may make of the object o.
Written(o, fs) ==
  { [Merge(o, d.attrs, fs \cap Facets) EXCEPT !.status = s] : s \in StatusAfter(fs, o.status) }

\* A creation finds the object under its key, and leaves or changes it.  A new
\* object is active unless the request is marked otherwise.
Exists == There(object) /\ R.identity # "assigned" /\ object.frozen = d.attrs.frozen
Created ==
  LET keep == Exists \/ (There(object) /\ R.identity = "singleton")
      born == IF keep THEN {object}
              ELSE {[Default EXCEPT !.status =
                       IF "inactive" \in Current.with THEN "INACTIVE" ELSE "ACTIVE"]} IN
  UNION { Written(o, Current.with \cup {"frozen", "home"}) : o \in born }

\* The objects that a call may leave in Okta: none if it is refused.
Outcomes ==
  LET c == Current.call IN
  IF c = "ensure" /\ Exists THEN {object}
  ELSE IF c \in {"post", "ensure"} THEN Created
  ELSE IF ~Here \/ (c \in R.guarded /\ object.status = "ACTIVE") THEN {}
  ELSE CASE c = "put" -> Written(object, Current.with)
         [] c = "remove" -> {NoAttributes}
         [] c = "activate" -> {[object EXCEPT !.status = "ACTIVE"]}
         [] c = "deactivate" -> {[object EXCEPT !.status = "INACTIVE"]}
         [] c = "add" -> { [object EXCEPT !.parts = @ \cup {p}] : p \in d.adds }
         [] c = "add_all" -> {[object EXCEPT !.parts = @ \cup d.adds]}
         [] c = "reset" -> {Default}
         [] c = "drop" -> { [object EXCEPT !.parts = @ \ {p}] : p \in d.drops }

\* A creation under another key leaves what is under the old one.
Elsewhere(o) == There(object) /\ There(o) /\ object.home # o.home

\* A call that is carried out and answered.
Call ==
  /\ Due /\ Current.call \in Calls
  /\ object' \in Outcomes
  /\ d' = [d EXCEPT !.answer = IF There(object') THEN object'.status ELSE @,
                    !.adds = IF There(object') THEN @ \ object'.parts ELSE @,
                    !.drops = IF There(object') THEN @ \cap object'.parts ELSE @]
  /\ pc' = IF \/ Current.call = "add" /\ d'.adds # {}
              \/ Current.call = "drop" /\ d'.drops # {}
           THEN pc ELSE pc + 1
  /\ stranded' = (stranded \/ Elsewhere(object'))
  /\ UNCHANGED << kind, state, tainted, config, op, replacing, result,
                  touched, unanswered, attempts, configs, mishaps >>

\* No part left to add or to remove.
Idle == \/ Current.call \in {"add", "add_all"} /\ d.adds = {}
        \/ Current.call = "drop" /\ d.drops = {}

\* A step without a call, or a 404 that is no error; an object that is not
\* found ends a handler that looked for it.
Pass ==
  /\ Due
  /\ \/ Idle \/ Current.call = "check"
     \/ Current.call \in Calls \ {"post", "ensure"} /\ Current.quiet /\ ~Here
     \/ Current.call = "find"
  /\ pc' = IF Current.call = "find" /\ ~Here THEN Len(Program) + 1 ELSE pc + 1
  /\ UNCHANGED << kind, object, stranded, state, tainted, config, op, d, replacing,
                  result, touched, unanswered, attempts, configs, mishaps >>

\* The parts that a handler wants.
Wanted == IF op = "delete" THEN {} ELSE d.attrs.parts

\* The steps that change the ResourceData only.
Compute ==
  /\ Due
  /\ \/ /\ Current.call = "set_id"
        /\ d' = [d EXCEPT !.id = TRUE]
     \/ /\ Current.call = "unset_id"
        /\ d' = [d EXCEPT !.id = FALSE]
     \/ /\ Current.call = "look" /\ Here
        /\ d' = [d EXCEPT !.answer = object.status]
     \/ /\ Current.call = "diff_state"
        /\ LET before == IF There(d.prior) THEN d.prior.parts ELSE {} IN
           d' = [d EXCEPT !.adds = Wanted \ before, !.drops = before \ Wanted]
     \/ /\ Current.call = "diff_anew"
        /\ LET before == IF There(d.prior) THEN d.prior.parts ELSE {} IN
           d' = [d EXCEPT !.adds = Wanted, !.drops = before \ Wanted]
     \/ /\ Current.call = "diff_listing" /\ Here
        /\ d' = [d EXCEPT !.adds = Wanted \ object.parts, !.drops = object.parts \ Wanted]
     \/ /\ Current.call = "read_back" /\ Here
        /\ d' = [d EXCEPT !.attrs = Facing(@)]
     \/ /\ Current.call = "read_back" /\ ~Here /\ R.read.missing = "forget"
        /\ d' = [d EXCEPT !.id = FALSE]
  /\ pc' = pc + 1
  /\ UNCHANGED << kind, object, stranded, state, tainted, config, op, replacing,
                  result, touched, unanswered, attempts, configs, mishaps >>

-----------------------------------------------------------------------------
\* The end of an apply with the object o and the saved state s.
End(o, s, t, r) ==
  /\ object' = IF Forgotten(o, s) THEN NoAttributes ELSE o
  /\ stranded' = (stranded \/ (Lost(o, s) /\ ~LetGo))
  /\ state' = s /\ tainted' = t /\ result' = r
  /\ op' = "none" /\ pc' = 1 /\ d' = NoData /\ replacing' = FALSE
  /\ UNCHANGED << kind, config, touched, configs >>

\* Mutant: a Create that fails saves nothing.
SalvagedUnmade ==
  CASE op = "create" -> NoAttributes
    [] op = "delete" -> state
    [] op = "update" -> IF R.framework THEN d.prior ELSE IF d.id THEN d.attrs ELSE NoAttributes

\* What Terraform saves when a handler answers an error.
Salvaged ==
  CASE op = "delete" -> state
    [] op = "update" /\ R.framework -> d.prior
    [] OTHER -> IF d.id THEN d.attrs ELSE NoAttributes

Fails(o, r) == End(o, Salvaged, IF op = "create" THEN There(Salvaged) ELSE tainted, r)

\* The handler ends.  Create or Update without an ID is an error.
Return ==
  /\ op # "none" /\ pc > Len(Program) /\ ~replacing
  /\ IF op = "delete" THEN End(object, NoAttributes, FALSE, "ok")
     ELSE IF d.id THEN End(object, d.attrs, FALSE, "ok")
     ELSE End(object, NoAttributes, FALSE, "error")
  /\ UNCHANGED << unanswered, attempts, mishaps >>

\* The deletion of a replacement ends, and the creation begins.
Replace ==
  /\ op = "delete" /\ pc > Len(Program) /\ replacing
  /\ op' = "create" /\ pc' = 1 /\ replacing' = FALSE
  /\ d' = Data("create", NoAttributes)
  /\ state' = NoAttributes /\ tainted' = FALSE
  /\ UNCHANGED << kind, object, stranded, config, result, touched, unanswered,
                  attempts, configs, mishaps >>

\* The API refuses a call, as the object is active or is not found.
Refusal ==
  \/ Current.call \in Calls /\ Outcomes = {} /\ ~Idle /\ (Here \/ ~Current.quiet)
  \/ Current.call \in {"look", "diff_listing"} /\ ~Here
  \/ Current.call = "read_back" /\ ~Here /\ R.read.missing = "fail"

Refused ==
  /\ Due
  /\ \/ Refusal /\ Fails(object, "error")
     \/ Current.call = "refuse" /\ Fails(object, "refused")
  /\ UNCHANGED << unanswered, attempts, mishaps >>

\* A call fails, or is carried out and its answer does not arrive.
Fail ==
  /\ Due /\ mishaps < MaxMishaps
  /\ Current.call \in Calls \cup {"look", "diff_listing", "read_back", "find", "check"}
  /\ ~Idle /\ ~Current.careless
  /\ mishaps' = mishaps + 1 /\ attempts' = 0
  /\ \E o \in {object} \cup (IF Current.call \in Calls THEN Outcomes ELSE {}) :
       /\ unanswered' = (unanswered \/ (Current.call \in {"post", "ensure"} /\ o # object))
       /\ Fails(o, "error")

\* Mutant: a handler that goes on after any failure.
OverlookAll ==
  /\ Due /\ Current.call \in Calls /\ mishaps < MaxMishaps
  /\ mishaps' = mishaps + 1 /\ attempts' = 0 /\ pc' = pc + 1
  /\ UNCHANGED << kind, object, stranded, state, tainted, config, op, d, replacing,
                  result, touched, unanswered, configs >>

\* A failure that the handler does not care about.
Overlook ==
  /\ Due /\ Current.careless /\ mishaps < MaxMishaps
  /\ mishaps' = mishaps + 1 /\ attempts' = 0 /\ pc' = pc + 1
  /\ UNCHANGED << kind, object, stranded, state, tainted, config, op, d, replacing,
                  result, touched, unanswered, configs >>

\* Somebody else changes or deletes the object.
Outside ==
  /\ mishaps < MaxMishaps /\ There(object)
  /\ There(state) \/ op # "none"
  /\ object' \in Configurations \cup (IF R.identity = "singleton" THEN {} ELSE {NoAttributes})
  /\ object' # object
  /\ There(object') => object'.frozen = object.frozen /\ object'.home = object.home
  /\ mishaps' = mishaps + 1 /\ attempts' = 0 /\ touched' = TRUE
  /\ UNCHANGED << kind, stranded, state, tainted, config, op, pc, d, replacing,
                  result, unanswered, configs >>

Next ==
  \/ BeginApply \/ FailRefresh \/ Import \/ Configure \/ Skip \/ Call \/ Pass \/ Compute
  \/ Return \/ Replace \/ Refused \/ Fail \/ Overlook \/ Outside

Spec == Init /\ [][Next]_vars

-----------------------------------------------------------------------------
\* TypeOK: what the variables hold.
DataOK ==
  d \in [id : BOOLEAN, attrs : Maybe(Attributes), prior : Maybe(Attributes),
         answer : Statuses, adds : SUBSET Parts, drops : SUBSET Parts]
TypeOK ==
  /\ kind \in Kinds
  /\ object \in Maybe(Attributes) /\ state \in Maybe(Attributes)
  /\ config \in Maybe(Attributes)
  /\ stranded \in BOOLEAN /\ tainted \in BOOLEAN /\ replacing \in BOOLEAN
  /\ touched \in BOOLEAN /\ unanswered \in BOOLEAN
  /\ op \in {"none", "create", "update", "delete"} /\ pc \in Nat \ {0} /\ DataOK
  /\ result \in {"none", "ok", "error", "refused"}
  /\ attempts \in 0..Twice /\ configs \in 1..MaxConfigs /\ mishaps \in 0..MaxMishaps

\* NothingStranded: an object that a handler created is never left in Okta
\* without Terraform knowing it, whichever call of a handler fails, unless the
\* creation itself got no answer.  A handler keeps to it by setting the ID
\* before it makes any further call.
NothingStranded == stranded => unanswered \/ kind \in StrandingKinds

\* An apply that ended well, while nobody else changed the object.  What Read
\* leaves unread of what the resource has cannot be told after a failure.
Applied ==
  /\ op = "none" /\ result = "ok" /\ ~touched /\ kind \notin LaggingKinds
  /\ R.read.unread \cap (R.facets \cup {"no_parts"}) # {} => mishaps = 0

\* InForce: such an apply has brought about what is configured, the attributes
\* and the status, whatever failed in the applies before it; and what is no
\* longer configured is gone, where it can go.
InForce ==
  Applied =>
    IF There(config) THEN There(object) /\ \A f \in R.facets : object[f] = config[f]
    ELSE There(object) => stranded \/ Retained \/ R.identity \in {"singleton", "imported"}

\* ActivatedAsConfigured: an update never puts an object in force with other
\* attributes than the configured ones.
ActivatedAsConfigured ==
  [][ op = "update" /\ Call /\ kind \notin PrematureKinds /\ There(object) /\ There(object')
        /\ ~touched /\ object.status = "INACTIVE" /\ object'.status = "ACTIVE"
      => object'.body = config.body ]_vars

\* StaysInForce: an update of an object that is and shall stay active leaves it
\* active, and the deletion of a resource that is only a setting leaves the
\* object there, also when they fail half-way.
StaysInForce ==
  [][ op # "none" /\ op' = "none" /\ ~touched /\ kind \notin InterruptedKinds =>
        /\ op = "update" /\ d.prior.status = "ACTIVE" /\ config.status = "ACTIVE"
             /\ There(object') => object'.status = "ACTIVE"
        /\ R.identity = "singleton" => There(object') ]_vars

\* SettlesSoon: applied twice without a mishap, a configuration comes to an empty
\* plan, whatever happened before, or a handler refuses it, or the object is gone
\* and Read takes that for an error, which no apply gets out of.
Settled == result = "ok" /\ Planned(Refreshed) = "none"
Gone == There(state) /\ ~Found(state) /\ R.read.missing = "fail"
SettlesSoon ==
  op = "none" /\ attempts = Twice /\ kind \notin RestlessKinds =>
    Settled \/ Gone \/ result = "refused"
=============================================================================

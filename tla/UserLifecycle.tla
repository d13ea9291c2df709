--------------------------- MODULE UserLifecycle ---------------------------
(***************************************************************************)
(* okta_user: an apply refreshes, plans and runs a handler call by call,   *)
(* each of which may fail, while Okta carries out changes of the status in *)
(* the background and other people change the user.  The recovery question *)
(* and the password hash, hook and old password are left out.              *)
(***************************************************************************)
EXTENDS Naturals, Sequences

CONSTANTS
  Bodies, Passwords, \* values of the attributes of the profile, and passwords
  Blank,        \* the value of attributes that are not set
  Nobody,       \* no user, no state, no configuration
  MaxConfigs,   \* bound: configurations applied one after the other
  MaxMishaps    \* bound: failed calls, and changes by somebody else

Configured == { "ACTIVE", "DEPROVISIONED", "STAGED", "SUSPENDED" }
Statuses == Configured \cup { "PROVISIONED", "PASSWORD_EXPIRED", "RECOVERY", "LOCKED_OUT" }
Users == [status : Statuses, to : Statuses \cup {"none"}, body : Bodies, password : Passwords]
States == [status : Statuses, body : Bodies, password : Passwords]
Configurations == { c \in States : c.status \in Configured }

ASSUME UserAssumption ==
  /\ Blank \in Bodies /\ Passwords # {} /\ MaxConfigs \in Nat \ {0} /\ MaxMishaps \in Nat
  /\ Nobody \notin Users \cup States

VARIABLES
  user,       \* the user in Okta, with the status it is in transition to
  state, tainted, \* the attributes in the Terraform state
  config, expire, \* those configured, expire_password_on_create
  op, pc,     \* the handler that runs, and the step it is at
  d,          \* the attributes in its ResourceData
  prior,      \* the refreshed state
  seen,       \* the status that updateUserStatus read
  replacing,  \* whether a creation follows the deletion
  result,     \* how the last apply ended
  touched,    \* whether the user changed by itself or somebody else since the refresh
  disturbed,  \* history: a creation got no answer, or the user changed during a deletion
  unsent,     \* history: an update that failed saved a password it had not set
  unseen,     \* history: attributes of the state were cleared by somebody else, or
              \* saved by an update that failed to set them
  configs, mishaps \* counters for the bounds

vars == << user, state, tainted, config, expire, op, pc, d, prior, seen, replacing,
           result, touched, unsent, unseen, disturbed, configs, mishaps >>
handler == << op, pc, d, prior, seen, replacing >>

There(x) == x # Nobody

Init ==
  /\ user = Nobody /\ state = Nobody /\ tainted = FALSE
  /\ config \in Configurations /\ expire \in BOOLEAN
  /\ op = "none" /\ pc = 1 /\ d = Nobody /\ prior = Nobody /\ seen = "STAGED"
  /\ replacing = FALSE /\ result = "none" /\ touched = FALSE
  /\ unsent = FALSE /\ unseen = FALSE /\ disturbed = FALSE
  /\ configs = 1 /\ mishaps = 0

\* Another configuration, or none any more.
Configure ==
  /\ op = "none" /\ configs < MaxConfigs /\ There(config)
  /\ config' \in (Configurations \cup {Nobody}) \ {config}
  /\ configs' = configs + 1 /\ result' = "none"
  /\ UNCHANGED << user, state, tainted, expire, handler, touched, unsent, unseen, disturbed, mishaps >>

\* PASSWORD_EXPIRED and RECOVERY are shown as ACTIVE.
MapStatus(s) == IF s \in {"PASSWORD_EXPIRED", "RECOVERY"} THEN "ACTIVE" ELSE s

\* Read leaves the attributes that are null in Okta as they are in the state x.
BodyRead(x) == IF user.body = Blank THEN x.body ELSE user.body

\* Mutant: the status that the user is in transition to is shown.
ShownTransition(x) == [status |-> user.to, body |-> BodyRead(x), password |-> x.password]

\* Read leaves the password as it is.
Shown(x) == [status |-> MapStatus(user.status), body |-> BodyRead(x), password |-> x.password]
Refreshed == IF There(user) /\ There(state) THEN Shown(state) ELSE Nobody

\* The planned attributes: a user who has yet to log in counts as active.
Suppressed(s) == s.status = "PROVISIONED" /\ config.status = "ACTIVE"
PlannedFor(s) ==
  IF There(s) /\ Suppressed(s) THEN [config EXCEPT !.status = s.status] ELSE config
Planned(s) ==
  CASE ~There(config) -> IF There(s) THEN "delete" ELSE "none"
    [] There(config) /\ ~There(s) -> "create"
    [] There(config) /\ There(s) ->
         IF tainted THEN "replace" ELSE IF s # PlannedFor(s) THEN "update" ELSE "none"

BeginApply ==
  /\ op = "none"
  /\ LET s == Refreshed  p == Planned(s) IN
     /\ op' = IF p = "replace" THEN "delete" ELSE p
     /\ replacing' = (p = "replace")
     /\ d' = IF p \in {"create", "update"} THEN PlannedFor(s) ELSE s
     /\ prior' = s /\ state' = s
     /\ tainted' = (tainted /\ There(s))
     /\ result' = IF p = "none" THEN "ok" ELSE result
     /\ touched' = (There(s) /\ user.to # "none")
  /\ pc' = 1
  /\ UNCHANGED << user, config, expire, seen, unsent, unseen, disturbed, configs, mishaps >>

-----------------------------------------------------------------------------
\* The calls of the handlers, in their order.
\* Mutant: nobody waits for the end of the transition.
UpdateAtOnce == << "not_staged", "get_for_password", "get_status", "set_status",
                   "not_deprovisioned", "update", "password", "read" >>
\* Mutant: one pass is enough.
DeleteOnce == << "delete" >>

\* Both set the status with updateUserStatus: get, set, wait.
Create == << "create", "get_status", "set_status", "wait", "expire_password", "read" >>
Update == << "not_staged", "get_for_password", "get_status", "set_status", "wait",
             "not_deprovisioned", "update", "password", "read" >>
EnsureDelete == IF prior.status = "DEPROVISIONED" THEN << "delete" >> ELSE << "delete", "delete" >>
Program == CASE op = "create" -> Create [] op = "update" -> Update
             [] op = "delete" -> EnsureDelete [] op = "none" -> << >>
Running == op # "none"
Step == Program[pc]

StatusChange == d.status # prior.status
\* The password is one of the profileKeys.
ProfileChange == d.body # prior.body \/ d.password # prior.password
\* Mutant: the password would go with the other attributes.
PasswordChangeAlone == d.password # prior.password /\ d.body = prior.body
PasswordChange == d.password # prior.password
Wanted == IF op = "create" THEN d.status \in {"SUSPENDED", "DEPROVISIONED"} ELSE StatusChange
\* A user whose password has expired is active already.
Activated == d.status = "ACTIVE" /\ seen = "PASSWORD_EXPIRED"

Due ==
  CASE Step = "get_status" -> Wanted
    [] Step \in {"set_status", "wait"} -> Wanted /\ ~Activated
    [] Step = "expire_password" -> expire
    [] Step = "not_staged" -> d.status = "STAGED" /\ StatusChange
    [] Step = "not_deprovisioned" -> d.status = "DEPROVISIONED" /\ ProfileChange
    [] Step = "update" -> ProfileChange
    [] Step \in {"get_for_password", "password"} -> PasswordChange
    [] OTHER -> TRUE

Skip ==
  /\ Running /\ ~Due
  /\ pc' = pc + 1
  /\ UNCHANGED << user, state, tainted, config, expire, op, d, prior, seen, replacing,
                  result, touched, unsent, unseen, disturbed, configs, mishaps >>

\* A lifecycle operation takes effect at once, or the user is in transition.
Become(ss) == { [user EXCEPT !.status = s, !.to = "none"] : s \in ss }
              \cup { [user EXCEPT !.to = s] : s \in ss }
Lifecycle ==
  CASE d.status = "SUSPENDED" -> IF user.status = "ACTIVE" THEN Become({"SUSPENDED"}) ELSE {}
    [] d.status = "DEPROVISIONED" ->
         IF user.status # "DEPROVISIONED" THEN Become({"DEPROVISIONED"}) ELSE {}
    [] d.status = "ACTIVE" /\ seen = "SUSPENDED" ->
         IF user.status = "SUSPENDED" THEN Become({"ACTIVE"}) ELSE {}
    [] d.status = "ACTIVE" /\ seen = "LOCKED_OUT" ->
         IF user.status = "LOCKED_OUT" THEN Become({"ACTIVE"}) ELSE {}
    [] OTHER -> IF user.status \in {"STAGED", "DEPROVISIONED"}
                THEN Become({"ACTIVE", "PROVISIONED"}) ELSE {}

Born == { [status |-> s, to |-> "none", body |-> d.body, password |-> d.password] :
            s \in IF d.status = "STAGED" THEN {"STAGED"} ELSE {"ACTIVE", "PROVISIONED"} }

\* What a call may make of the user: nothing if it is refused.
Outcomes ==
  IF Step = "create" THEN (IF There(user) THEN {} ELSE Born)
  ELSE IF ~There(user) THEN {}
  ELSE CASE Step = "set_status" -> Lifecycle
         [] Step = "expire_password" ->
              IF user.status = "ACTIVE" THEN { [user EXCEPT !.status = "PASSWORD_EXPIRED"] } ELSE {}
         [] Step = "update" ->
              IF user.status # "DEPROVISIONED" THEN { [user EXCEPT !.body = d.body] } ELSE {}
         [] Step = "password" ->
              IF user.status # "DEPROVISIONED" THEN { [user EXCEPT !.password = d.password] } ELSE {}
         [] Step = "delete" ->
              IF user.status = "DEPROVISIONED" THEN {Nobody}
              ELSE { [user EXCEPT !.status = "DEPROVISIONED", !.to = "none"] }
         [] OTHER -> {user}
Calls == { "create", "set_status", "expire_password", "update", "password", "delete" }

Last == pc = Len(Program)

\* The handler goes on after a call that was answered.
Call ==
  /\ Running /\ Due /\ ~Last /\ Step \in Calls
  /\ user' \in Outcomes
  /\ pc' = pc + 1
  /\ UNCHANGED << state, tainted, config, expire, op, d, prior, seen, replacing, result,
                  touched, unsent, unseen, disturbed, configs, mishaps >>

\* Mutant: the handler waits for the status that it wants.
GetDesired ==
  /\ Running /\ Due /\ There(user)
  /\ \/ Step = "get_status" /\ seen' = user.status
     \/ Step = "wait" /\ user.status = d.status /\ seen' = seen
     \/ Step = "get_for_password" /\ user.status # "PROVISIONED" /\ seen' = seen
  /\ pc' = pc + 1
  /\ UNCHANGED << user, state, tainted, config, expire, op, d, prior, replacing, result,
                  touched, unsent, unseen, disturbed, configs, mishaps >>

\* It reads the user, before the status is set or to see whether it is settled.
Get ==
  /\ Running /\ Due /\ There(user)
  /\ \/ Step = "get_status" /\ seen' = user.status
     \/ Step = "wait" /\ user.to = "none" /\ seen' = seen
     \/ Step = "get_for_password" /\ user.status # "PROVISIONED" /\ seen' = seen
  /\ pc' = pc + 1
  /\ UNCHANGED << user, state, tainted, config, expire, op, d, prior, replacing, result,
                  touched, unsent, unseen, disturbed, configs, mishaps >>

\* The end of an apply.
End(s, t, r) ==
  /\ state' = s /\ tainted' = t /\ result' = r
  /\ op' = "none" /\ pc' = 1 /\ d' = Nobody /\ prior' = Nobody /\ seen' = "STAGED"
  /\ replacing' = FALSE
  /\ unsent' = (unsent \/ (op = "update" /\ r # "ok" /\ There(user') /\ user'.password # d.password))
  /\ unseen' = (unseen \/ (op = "update" /\ r # "ok" /\ There(user')
                            /\ user'.body = Blank /\ d.body # Blank))
  /\ UNCHANGED << config, expire, touched, configs >>

\* After an error Terraform saves the planned attributes, of a new user as
\* tainted, and of a deletion what it had.
Fails(r) ==
  CASE op = "delete" -> End(state, tainted, r)
    [] op = "update" -> End(d, tainted, r)
    [] op = "create" -> End(IF Step = "create" THEN Nobody ELSE d, Step # "create", r)

Return ==
  /\ op \in {"create", "update"} /\ Step = "read"
  /\ UNCHANGED << user, disturbed, mishaps >>
  /\ IF There(user) THEN End(Shown(d), FALSE, "ok") ELSE End(Nobody, FALSE, "error")

\* Mutant: the error of the last pass is dropped.
DeletedAnyway ==
  /\ op = "delete" /\ Last /\ user' \in Outcomes \cup {user}
  /\ End(Nobody, FALSE, "ok")
  /\ UNCHANGED << disturbed, mishaps >>

\* The last pass of a deletion; the creation of a replacement follows it.
Deleted ==
  /\ op = "delete" /\ Last /\ user' \in Outcomes
  /\ \/ ~replacing /\ End(Nobody, FALSE, "ok")
     \/ /\ replacing
        /\ op' = "create" /\ pc' = 1 /\ d' = config /\ prior' = Nobody /\ replacing' = FALSE
        /\ state' = Nobody /\ tainted' = FALSE
        /\ UNCHANGED << config, expire, seen, result, touched, unsent, unseen, disturbed, configs >>
  /\ UNCHANGED << disturbed, mishaps >>

\* The handler refuses the plan, or the API the call: it may do so while the
\* user is in transition.
Refused ==
  /\ Running /\ Due
  /\ UNCHANGED << user, disturbed, mishaps >>
  /\ \/ Step \in {"not_staged", "not_deprovisioned"} /\ Fails("refused")
     \/ /\ Step = "get_for_password" /\ There(user) /\ user.status = "PROVISIONED"
        /\ Fails("refused")
     \/ Step \in Calls /\ Outcomes = {} /\ Fails("error")
     \/ Step = "set_status" /\ There(user) /\ user.to # "none" /\ Fails("error")
     \/ Step \in {"get_status", "wait", "get_for_password"} /\ ~There(user) /\ Fails("error")

\* A call fails, or is carried out and its answer does not arrive.
Fail ==
  /\ Running /\ Due /\ mishaps < MaxMishaps
  /\ Step \notin {"not_staged", "not_deprovisioned"}
  /\ mishaps' = mishaps + 1
  /\ user' \in {user} \cup (IF Step \in Calls THEN Outcomes ELSE {})
  /\ disturbed' = (disturbed \/ (Step = "create" /\ user' # user))
  /\ Fails("error")

\* Okta ends a transition.
Settle ==
  /\ There(user) /\ user.to # "none"
  /\ user' = [user EXCEPT !.status = user.to, !.to = "none"]
  /\ disturbed' = (disturbed \/ op = "delete")
  /\ UNCHANGED << state, tainted, config, expire, handler, result, touched,
                  unsent, unseen, configs, mishaps >>

\* The user logs in, is locked out and so on, or somebody else changes or
\* deletes the user.
Outside ==
  /\ mishaps < MaxMishaps /\ There(user)
  /\ \/ \E s \in Statuses \ {"STAGED"} : user' = [user EXCEPT !.status = s, !.to = "none"]
     \/ \E b \in Bodies : user' = [user EXCEPT !.body = b]
     \/ user' = Nobody
  /\ user' # user
  /\ mishaps' = mishaps + 1 /\ touched' = TRUE
  /\ unseen' = (unseen \/ (There(user') /\ user'.body = Blank))
  /\ disturbed' = (disturbed \/ op = "delete")
  /\ UNCHANGED << state, tainted, config, expire, handler, result, unsent, configs >>

Handler == Skip \/ Call \/ Get \/ Return \/ Deleted \/ Refused
Next == BeginApply \/ Configure \/ Handler \/ Fail \/ Settle \/ Outside

Spec == Init /\ [][Next]_vars
\* Handlers go on, and Okta ends what it began.
FairSpec == Spec /\ WF_vars(Handler) /\ WF_vars(Settle)

-----------------------------------------------------------------------------
\* TypeOK: what the variables hold.
TypeOK ==
  /\ user \in Users \cup {Nobody}
  /\ state \in States \cup {Nobody} /\ d \in States \cup {Nobody} /\ prior \in States \cup {Nobody}
  /\ config \in Configurations \cup {Nobody}
  /\ tainted \in BOOLEAN /\ expire \in BOOLEAN /\ replacing \in BOOLEAN
  /\ touched \in BOOLEAN /\ unsent \in BOOLEAN /\ unseen \in BOOLEAN /\ disturbed \in BOOLEAN
  /\ op \in {"none", "create", "update", "delete"} /\ pc \in 1..9 /\ seen \in Statuses
  /\ result \in {"none", "ok", "error", "refused"}
  /\ configs \in 1..MaxConfigs /\ mishaps \in 0..MaxMishaps

Applied == op = "none" /\ result = "ok" /\ ~touched

\* The statuses that are as good as the configured one.
Meets(s) == IF s = "ACTIVE"
            THEN {"ACTIVE", "PROVISIONED", "PASSWORD_EXPIRED", "RECOVERY"} ELSE {s}

\* InForce: an apply that ended well, with nothing pending when it began and
\* nobody interfering, has brought about the configured status and attributes.
\* Only a password whose change failed or was refused, which is never sent again,
\* may be another one, and attributes that the state shows may be missing in Okta
\* if they were cleared there, or their setting failed or was refused: Read does
\* not see that.
InForce ==
  Applied /\ There(config) =>
    /\ There(user) /\ user.status \in Meets(config.status)
    /\ user.body = config.body \/ (user.body = Blank /\ unseen)
    /\ user.password = config.password \/ unsent

\* NothingStranded: a user whom Terraform does not know was left only by a creation
\* that got no answer, or by a deletion of one pass that the user's reactivation
\* after the refresh turned into a mere deactivation.
NothingStranded == op = "none" /\ There(user) /\ ~There(state) => disturbed

\* StateIsCurrent: the state shows the status in which the user remains, not one
\* that a transition is about to change, and the next plan is empty.
StateIsCurrent ==
  Applied /\ There(config) =>
    user.to = "none" /\ state.status = MapStatus(user.status) /\ Planned(Refreshed) = "none"

\* NoAccessLeft: whoever interferes, a deletion that ends well leaves no user or
\* one who is deprovisioned.
NoAccessLeft ==
  [][ op = "delete" /\ op' # "delete" /\ (result' = "ok" \/ op' = "create") /\ There(user')
      => user'.status = "DEPROVISIONED" ]_vars

\* HandlersEnd: every handler comes to its end, the wait for a transition too.
HandlersEnd == []<>(op = "none")
=============================================================================

------------------------ MODULE UserLifecycleProofs ------------------------
(***************************************************************************)
(* Proofs about okta_user, for any attributes and passwords, and any       *)
(* number of configurations, failures and interferences.                   *)
(*                                                                         *)
(* That applies take effect rests on following a handler step by step: in  *)
(* Progress, the status is as the refresh found it until the step that     *)
(* sets it, on its way until the wait is over, and meets the plan then.    *)
(***************************************************************************)
EXTENDS UserLifecycle, TLAPS

\* The handlers, step by step.
LEMMA CreateSteps ==
  /\ Len(Create) = 6
  /\ Create[1] = "create" /\ Create[2] = "get_status" /\ Create[3] = "set_status"
  /\ Create[4] = "wait" /\ Create[5] = "expire_password" /\ Create[6] = "read"
  BY DEF Create

LEMMA UpdateSteps ==
  /\ Len(Update) = 9
  /\ Update[1] = "not_staged" /\ Update[2] = "get_for_password"
  /\ Update[3] = "get_status" /\ Update[4] = "set_status" /\ Update[5] = "wait"
  /\ Update[6] = "not_deprovisioned" /\ Update[7] = "update"
  /\ Update[8] = "password" /\ Update[9] = "read"
  BY DEF Update

LEMMA DeleteSteps ==
  /\ Len(EnsureDelete) = IF prior.status = "DEPROVISIONED" THEN 1 ELSE 2
  /\ \A i \in 1..Len(EnsureDelete) : EnsureDelete[i] = "delete"
<1>1. CASE prior.status = "DEPROVISIONED"
  BY <1>1 DEF EnsureDelete
<1>2. CASE prior.status # "DEPROVISIONED"
  BY <1>2 DEF EnsureDelete
<1>3. QED  BY <1>1, <1>2

\* What the actions need of the step that a handler is at.
LEMMA ProgramSteps ==
  /\ Running /\ op \in {"create", "update", "delete"} => Len(Program) \in 1..9
  /\ op = "create" => Len(Program) = 6
  /\ op = "update" => Len(Program) = 9
  /\ op = "delete" => Len(Program) = IF prior.status = "DEPROVISIONED" THEN 1 ELSE 2
<1>1. op = "create" => Program = Create
  BY DEF Program
<1>2. op = "update" => Program = Update
  BY DEF Program
<1>3. op = "delete" => Program = EnsureDelete
  BY DEF Program
<1>4. op = "create" => Len(Program) = 6
  BY <1>1, CreateSteps
<1>5. op = "update" => Len(Program) = 9
  BY <1>2, UpdateSteps
<1>6. op = "delete" => Len(Program) = IF prior.status = "DEPROVISIONED" THEN 1 ELSE 2
  BY <1>3, DeleteSteps
<1>7. QED
  BY <1>4, <1>5, <1>6

LEMMA StepFacts ==
  ASSUME op \in {"create", "update", "delete"}, pc \in 1..Len(Program)
  PROVE  /\ op = "delete" => Step = "delete"
         /\ op # "delete" => Step # "delete" /\ (Step = "read" <=> Last)
         /\ Step = "create" <=> op = "create" /\ pc = 1
         /\ Step \in {"update", "password"} => op = "update"
<1>1. CASE op = "create"
  <2>1. Program = Create
    BY <1>1 DEF Program
  <2>2. pc \in 1..6
    BY <2>1, CreateSteps
  <2>3. \/ pc = 1 \/ pc = 2 \/ pc = 3 \/ pc = 4 \/ pc = 5 \/ pc = 6
    BY <2>2
  <2>4. QED  BY <1>1, <2>1, <2>3, CreateSteps DEF Step, Last
<1>2. CASE op = "update"
  <2>1. Program = Update
    BY <1>2 DEF Program
  <2>2. pc \in 1..9
    BY <2>1, UpdateSteps
  <2>3. \/ pc = 1 \/ pc = 2 \/ pc = 3 \/ pc = 4 \/ pc = 5
        \/ pc = 6 \/ pc = 7 \/ pc = 8 \/ pc = 9
    BY <2>2
  <2>4. QED  BY <1>2, <2>1, <2>3, UpdateSteps DEF Step, Last
<1>3. CASE op = "delete"
  <2>1. Program = EnsureDelete
    BY <1>3 DEF Program
  <2>2. QED  BY <1>3, <2>1, DeleteSteps DEF Step
<1>4. QED  BY <1>1, <1>2, <1>3

-----------------------------------------------------------------------------
\* Typing: the type invariant, and what a running handler has in its ResourceData.
Typing ==
  /\ TypeOK
  /\ Running => pc \in 1..Len(Program)
  /\ op \in {"create", "update"} => There(d)
  /\ op \in {"update", "delete"} => There(prior)
  /\ op = "delete" => There(state)
  /\ replacing => op = "delete" /\ There(config)

\* What an apply plans is typed.
LEMMA PlanTyped ==
  ASSUME TypeOK
  PROVE  /\ Refreshed \in States \cup {Nobody}
         /\ There(Refreshed) => There(user) /\ There(state)
         /\ There(user) /\ There(state) => There(Refreshed)
         /\ Planned(Refreshed) \in {"none", "create", "update", "delete", "replace"}
         /\ Planned(Refreshed) \in {"create", "update"} =>
              PlannedFor(Refreshed) \in States /\ There(PlannedFor(Refreshed))
         /\ Planned(Refreshed) \in {"update", "delete", "replace"} => There(Refreshed)
         /\ Planned(Refreshed) = "create" => ~There(Refreshed)
         /\ Planned(Refreshed) = "replace" => There(config)
<1>1. There(user) /\ There(state) => Shown(state) \in States
  <2>1. SUFFICES ASSUME There(user), There(state)  PROVE Shown(state) \in States
    OBVIOUS
  <2>2. user \in Users /\ state \in States
    BY <2>1 DEF TypeOK, There
  <2>3. MapStatus(user.status) \in Statuses
    BY <2>2 DEF Users, MapStatus, Statuses, Configured
  <2>4. QED  BY <2>2, <2>3 DEF Shown, BodyRead, Users, States
<1>2. Refreshed \in States \cup {Nobody}
  BY <1>1 DEF Refreshed
<1>3. (There(Refreshed) => There(user) /\ There(state))
      /\ (There(user) /\ There(state) => There(Refreshed))
  BY <1>1, UserAssumption DEF Refreshed, There
<1>4. ASSUME NEW s \in States \cup {Nobody}, There(config)
      PROVE  PlannedFor(s) \in States
  <2>1. config \in States
    BY <1>4 DEF TypeOK, There, Configurations
  <2>2. [config EXCEPT !.status = s.status] \in States \/ ~There(s)
    BY <2>1 DEF States, There
  <2>3. QED  BY <2>1, <2>2 DEF PlannedFor
<1>5. Planned(Refreshed) \in {"none", "create", "update", "delete", "replace"}
  BY DEF Planned
<1>6. /\ Planned(Refreshed) \in {"create", "update", "replace"} => There(config)
      /\ Planned(Refreshed) \in {"update", "delete", "replace"} => There(Refreshed)
      /\ Planned(Refreshed) = "create" => ~There(Refreshed)
  BY DEF Planned
<1>7. QED
  BY <1>2, <1>3, <1>4, <1>5, <1>6, UserAssumption DEF There

\* What a call may make of the user is typed.
LEMMA OutcomesTyped ==
  ASSUME Typing, Running
  PROVE  Outcomes \subseteq Users \cup {Nobody}
<1>1. op \in {"create", "update", "delete"} /\ pc \in 1..Len(Program)
  BY DEF Typing, TypeOK, Running
<1>2. Step \in {"create", "update", "password"} => d \in States
  BY <1>1, StepFacts DEF Typing, TypeOK, There
<1>3. CASE Step = "create"
  <2>1. Born \subseteq Users
    BY <1>2, <1>3 DEF Born, Users, States, Statuses, Configured
  <2>2. QED  BY <1>3, <2>1 DEF Outcomes
<1>4. CASE Step # "create" /\ ~There(user)
  BY <1>4 DEF Outcomes
<1>5. CASE Step # "create" /\ There(user)
  <2>1. user \in Users
    BY <1>5 DEF Typing, TypeOK, There
  <2>2. \A ss \in SUBSET Statuses : Become(ss) \subseteq Users
    BY <2>1 DEF Become, Users
  <2>3. Lifecycle \subseteq Users
    <3>1. /\ {"SUSPENDED"} \in SUBSET Statuses /\ {"DEPROVISIONED"} \in SUBSET Statuses
          /\ {"ACTIVE"} \in SUBSET Statuses /\ {"ACTIVE", "PROVISIONED"} \in SUBSET Statuses
      BY DEF Statuses, Configured
    <3>2. QED  BY <2>2, <3>1 DEF Lifecycle
  <2>4. \A st \in Statuses : /\ [user EXCEPT !.status = st] \in Users
                             /\ [user EXCEPT !.status = st, !.to = "none"] \in Users
    BY <2>1 DEF Users
  <2>5. "PASSWORD_EXPIRED" \in Statuses /\ "DEPROVISIONED" \in Statuses
    BY DEF Statuses, Configured
  <2>6. d \in States => [user EXCEPT !.body = d.body] \in Users
                        /\ [user EXCEPT !.password = d.password] \in Users
    BY <2>1 DEF Users, States
  <2>7. QED  BY <1>2, <1>5, <2>1, <2>3, <2>4, <2>5, <2>6 DEF Outcomes
<1>6. QED  BY <1>3, <1>4, <1>5

\* The end of an apply keeps the types.
LEMMA EndTyped ==
  ASSUME Typing, NEW s \in States \cup {Nobody}, NEW t \in BOOLEAN,
         NEW r \in {"ok", "error", "refused"}, End(s, t, r),
         user' \in Users \cup {Nobody}, disturbed' \in BOOLEAN, mishaps' \in 0..MaxMishaps
  PROVE  Typing'
<1>1. TypeOK'
  <2>1. unsent' \in BOOLEAN /\ unseen' \in BOOLEAN
    BY DEF End, Typing, TypeOK
  <2>2. "STAGED" \in Statuses
    BY DEF Statuses, Configured
  <2>3. /\ tainted' \in BOOLEAN /\ expire' \in BOOLEAN /\ replacing' \in BOOLEAN
        /\ touched' \in BOOLEAN
    BY DEF End, Typing, TypeOK
  <2>4. /\ state' \in States \cup {Nobody} /\ d' \in States \cup {Nobody}
        /\ prior' \in States \cup {Nobody} /\ config' \in Configurations \cup {Nobody}
    BY DEF End, Typing, TypeOK
  <2>5. /\ op' = "none" /\ pc' = 1 /\ seen' \in Statuses
        /\ result' \in {"none", "ok", "error", "refused"} /\ configs' \in 1..MaxConfigs
    BY <2>2 DEF End, Typing, TypeOK
  <2>6. 1 \in 1..9
    OBVIOUS
  <2>7. QED  BY <2>1, <2>3, <2>4, <2>5, <2>6 DEF TypeOK
<1>2. op' = "none" /\ replacing' = FALSE
  BY DEF End
<1>3. QED  BY <1>1, <1>2 DEF Typing, Running

\* The error of a handler ends it, with a state that keeps the user known unless
\* a creation failed at its first call.
LEMMA FailsEnds ==
  ASSUME Typing, Running, NEW r \in {"error", "refused"}, Fails(r)
  PROVE  \E s \in States \cup {Nobody}, t \in BOOLEAN :
           End(s, t, r) /\ ((op = "create" /\ pc = 1) \/ There(s))
<1>1. op \in {"create", "update", "delete"} /\ pc \in 1..Len(Program)
  BY DEF Typing, TypeOK, Running
<1>2. state \in States \cup {Nobody} /\ d \in States \cup {Nobody} /\ tainted \in BOOLEAN
  BY DEF Typing, TypeOK
<1>3. CASE op = "delete"
  BY <1>2, <1>3 DEF Fails, Typing
<1>4. CASE op = "update"
  BY <1>2, <1>4 DEF Fails, Typing
<1>5. CASE op = "create"
  <2>1. CASE Step = "create"
    <3>1. End(Nobody, FALSE, r)
      BY <1>5, <2>1 DEF Fails
    <3>2. op = "create" /\ pc = 1
      BY <1>1, <2>1, StepFacts
    <3>3. QED  BY <3>1, <3>2
  <2>2. CASE Step # "create"
    <3>1. End(d, TRUE, r)
      BY <1>5, <2>2 DEF Fails
    <3>2. QED  BY <1>2, <1>5, <3>1 DEF Typing
  <2>3. QED  BY <2>1, <2>2
<1>6. QED  BY <1>1, <1>3, <1>4, <1>5

LEMMA TypingInit == Init => Typing
<1> SUFFICES ASSUME Init  PROVE Typing
  OBVIOUS
<1>1. config \in Configurations /\ "STAGED" \in Statuses /\ 1 \in 1..9
  BY DEF Init, Statuses, Configured
<1>2. 1 \in 1..MaxConfigs /\ 0 \in 0..MaxMishaps
  BY UserAssumption
<1>3. /\ tainted \in BOOLEAN /\ expire \in BOOLEAN /\ replacing \in BOOLEAN
      /\ touched \in BOOLEAN /\ unsent \in BOOLEAN /\ unseen \in BOOLEAN /\ disturbed \in BOOLEAN
  BY DEF Init
<1>4. /\ user \in Users \cup {Nobody} /\ state \in States \cup {Nobody}
      /\ d \in States \cup {Nobody} /\ prior \in States \cup {Nobody}
      /\ config \in Configurations \cup {Nobody}
  BY <1>1 DEF Init
<1>5. TypeOK
  BY <1>1, <1>2, <1>3, <1>4 DEF Init, TypeOK
<1>6. QED  BY <1>5 DEF Init, Typing, Running

\* A step of a handler that does not end it keeps the types.
LEMMA GoOnTyped ==
  ASSUME Typing, Running, ~Last, pc' = pc + 1,
         UNCHANGED << state, tainted, config, expire, op, d, prior, replacing, result,
                      touched, unsent, unseen, disturbed, configs, mishaps >>,
         user' \in Users \cup {Nobody}, seen' \in Statuses
  PROVE  Typing'
<1>1. Program' = Program
  BY DEF Program, Create, Update, EnsureDelete
<1>2. Len(Program) \in 1..9 /\ pc \in 1..Len(Program)
  BY ProgramSteps DEF Typing, TypeOK, Running
<1>3. pc' \in 1..Len(Program) /\ pc' \in 1..9
  <2> DEFINE n == Len(Program)
  <2>1. n \in 1..9 /\ pc \in 1..n /\ pc # n
    BY <1>2 DEF Last
  <2> HIDE DEF n
  <2>2. pc + 1 \in 1..n /\ pc + 1 \in 1..9
    BY <2>1
  <2>3. QED  BY <2>2 DEF n
<1>4. TypeOK'
  BY <1>3 DEF Typing, TypeOK
<1>5. QED  BY <1>1, <1>3, <1>4 DEF Typing, Running

LEMMA TypingStep == Typing /\ [Next]_vars => Typing'
<1> SUFFICES ASSUME Typing, [Next]_vars  PROVE Typing'
  OBVIOUS
<1>a. Running => op \in {"create", "update", "delete"} /\ pc \in 1..Len(Program)
  BY DEF Typing, TypeOK, Running
<1>b. user \in Users \cup {Nobody} /\ disturbed \in BOOLEAN /\ mishaps \in 0..MaxMishaps
  BY DEF Typing, TypeOK
<1>c. Running /\ ~Due => ~Last
  <2>1. Running /\ Last => Step \in {"read", "delete"}
    BY <1>a, StepFacts
  <2>2. Step \in {"read", "delete"} => Due
    BY DEF Due
  <2>3. QED  BY <2>1, <2>2
<1>1. CASE BeginApply
  <2> DEFINE p == Planned(Refreshed)
  <2>1. /\ op' = (IF p = "replace" THEN "delete" ELSE p) /\ replacing' = (p = "replace")
        /\ d' = (IF p \in {"create", "update"} THEN PlannedFor(Refreshed) ELSE Refreshed)
        /\ prior' = Refreshed /\ state' = Refreshed
        /\ tainted' = (tainted /\ There(Refreshed))
        /\ result' = (IF p = "none" THEN "ok" ELSE result)
        /\ touched' = (There(Refreshed) /\ user.to # "none")
        /\ pc' = 1
        /\ UNCHANGED << user, config, expire, seen, unsent, unseen, disturbed, configs, mishaps >>
    BY <1>1 DEF BeginApply
  <2>2. TypeOK
    BY DEF Typing
  <2>3. /\ Refreshed \in States \cup {Nobody}
        /\ p \in {"none", "create", "update", "delete", "replace"}
        /\ p \in {"create", "update"} =>
             PlannedFor(Refreshed) \in States /\ There(PlannedFor(Refreshed))
        /\ p \in {"update", "delete", "replace"} => There(Refreshed)
        /\ p = "replace" => There(config)
    BY <2>2, PlanTyped
  <2> HIDE DEF p
  <2>4. op' \in {"none", "create", "update", "delete"}
    BY <2>1, <2>3
  <2>5. TypeOK'
    BY <2>1, <2>2, <2>3, <2>4 DEF TypeOK
  <2>6. (Running /\ op \in {"create", "update", "delete"} => Len(Program) \in 1..9)'
    BY ProgramSteps, PTL
  <2>7. op' # "none" => pc' \in 1..Len(Program')
    <3> DEFINE n == Len(Program')
    <3>1. op' # "none" => n \in 1..9
      BY <2>4, <2>6 DEF Running
    <3> HIDE DEF n
    <3>2. op' # "none" => 1 \in 1..n
      BY <3>1
    <3>3. QED  BY <2>1, <3>2 DEF n
  <2>8. QED  BY <2>1, <2>3, <2>5, <2>7 DEF Typing, Running, There
<1>2. CASE Configure
  <2>1. config' \in Configurations \cup {Nobody} /\ configs' \in 1..MaxConfigs
    BY <1>2, UserAssumption DEF Configure, Typing, TypeOK
  <2>2. TypeOK'
    BY <1>2, <2>1 DEF Configure, handler, Typing, TypeOK
  <2>3. op' = "none" /\ replacing' = FALSE
    BY <1>2 DEF Configure, handler, Typing, TypeOK
  <2>4. QED  BY <2>2, <2>3 DEF Typing, Running
<1>3. CASE Skip
  <2>1. seen \in Statuses
    BY DEF Typing, TypeOK
  <2>2. QED  BY <1>3, <1>b, <1>c, <2>1, GoOnTyped DEF Skip
<1>4. CASE Call
  <2>1. user' \in Users \cup {Nobody} /\ seen' \in Statuses
    BY <1>4, OutcomesTyped DEF Call, Typing, TypeOK
  <2>2. QED  BY <1>4, <2>1, GoOnTyped DEF Call
<1>5. CASE Get
  <2>1. user' \in Users \cup {Nobody} /\ seen' \in Statuses
    BY <1>5 DEF Get, There, Typing, TypeOK, Users
  <2>2. Step \in {"get_status", "wait", "get_for_password"} /\ Running
    BY <1>5 DEF Get
  <2>3. ~Last
    BY <1>a, <2>2, StepFacts
  <2>4. QED  BY <1>5, <2>1, <2>3, GoOnTyped DEF Get
<1>6. CASE Return
  <2>1. There(user) => Shown(d) \in States
    <3>1. SUFFICES ASSUME There(user)  PROVE Shown(d) \in States
      OBVIOUS
    <3>2. user \in Users /\ d \in States
      BY <1>6, <3>1 DEF Return, Typing, TypeOK, There
    <3>3. MapStatus(user.status) \in Statuses
      BY <3>2 DEF Users, MapStatus, Statuses, Configured
    <3>4. QED  BY <3>2, <3>3 DEF Shown, BodyRead, Users, States
  <2>2. user' \in Users \cup {Nobody} /\ disturbed' \in BOOLEAN /\ mishaps' \in 0..MaxMishaps
    BY <1>6, <1>b DEF Return
  <2>3. \/ There(user) /\ End(Shown(d), FALSE, "ok")
        \/ End(Nobody, FALSE, "error")
    BY <1>6 DEF Return
  <2>4. QED  BY <2>1, <2>2, <2>3, EndTyped
<1>7. CASE Deleted
  <2>1. user' \in Users \cup {Nobody}
    BY <1>7, OutcomesTyped DEF Deleted, Running
  <2>2. disturbed' \in BOOLEAN /\ mishaps' \in 0..MaxMishaps
    BY <1>7, <1>b DEF Deleted
  <2>3. CASE End(Nobody, FALSE, "ok")
    BY <2>1, <2>2, <2>3, EndTyped
  <2>4. CASE /\ replacing
             /\ op' = "create" /\ pc' = 1 /\ d' = config /\ prior' = Nobody
             /\ replacing' = FALSE /\ state' = Nobody /\ tainted' = FALSE
             /\ UNCHANGED << config, expire, seen, result, touched, unsent, unseen, disturbed, configs >>
    <3>1. There(config) /\ config \in States
      BY <2>4 DEF Typing, TypeOK, There, Configurations
    <3>2. TypeOK'
      <4>1. /\ tainted' \in BOOLEAN /\ expire' \in BOOLEAN /\ replacing' \in BOOLEAN
            /\ touched' \in BOOLEAN /\ unsent' \in BOOLEAN /\ unseen' \in BOOLEAN
        BY <2>4 DEF Typing, TypeOK
      <4>2. /\ state' \in States \cup {Nobody} /\ d' \in States \cup {Nobody}
            /\ prior' \in States \cup {Nobody} /\ config' \in Configurations \cup {Nobody}
        BY <2>4, <3>1 DEF Typing, TypeOK
      <4>3. /\ op' = "create" /\ pc' \in 1..9 /\ seen' \in Statuses
            /\ result' \in {"none", "ok", "error", "refused"} /\ configs' \in 1..MaxConfigs
        BY <2>4 DEF Typing, TypeOK
      <4>4. QED  BY <2>1, <2>2, <4>1, <4>2, <4>3 DEF TypeOK
    <3>3. (op = "create" => Len(Program) = 6)'
      BY ProgramSteps, PTL
    <3>4. QED  BY <2>4, <3>1, <3>2, <3>3 DEF Typing, Running, There
  <2>5. QED  BY <1>7, <2>3, <2>4 DEF Deleted
<1>8. CASE Refused
  <2>1. \E r \in {"error", "refused"} : Fails(r)
    BY <1>8 DEF Refused
  <2>2. PICK r \in {"error", "refused"} : Fails(r)
    BY <2>1
  <2>3. Running /\ user' \in Users \cup {Nobody} /\ disturbed' \in BOOLEAN
        /\ mishaps' \in 0..MaxMishaps
    BY <1>8, <1>b DEF Refused
  <2>4. QED  BY <2>2, <2>3, FailsEnds, EndTyped
<1>9. CASE Fail
  <2>1. Fails("error") /\ Running
    BY <1>9 DEF Fail
  <2>2. user' \in Users \cup {Nobody}
    BY <1>9, <1>b, OutcomesTyped DEF Fail
  <2>3. disturbed' \in BOOLEAN
    BY <1>9 DEF Fail
  <2>4. mishaps' = mishaps + 1 /\ mishaps < MaxMishaps
    BY <1>9 DEF Fail
  <2>5. mishaps' \in 0..MaxMishaps
    BY <1>b, <2>4, UserAssumption
  <2>6. QED  BY <2>1, <2>2, <2>3, <2>5, FailsEnds, EndTyped
<1>10. CASE Settle
  <2>1. user' \in Users
    BY <1>10 DEF Settle, There, Typing, TypeOK, Users
  <2>2. TypeOK'
    BY <1>10, <2>1 DEF Settle, handler, Typing, TypeOK
  <2>3. Program' = Program /\ UNCHANGED << state, config, handler >>
    BY <1>10 DEF Settle, handler, Program, Create, Update, EnsureDelete
  <2>4. QED  BY <2>2, <2>3 DEF handler, Typing, Running
<1>11. CASE Outside
  <2>1. user' \in Users \cup {Nobody}
    <3>1. user \in Users
      BY <1>11 DEF Outside, There, Typing, TypeOK
    <3>2. /\ \A s \in Statuses : [user EXCEPT !.status = s, !.to = "none"] \in Users
          /\ \A b \in Bodies : [user EXCEPT !.body = b] \in Users
      BY <3>1 DEF Users
    <3>3. QED  BY <1>11, <3>2 DEF Outside
  <2>a. mishaps' = mishaps + 1 /\ mishaps < MaxMishaps
    BY <1>11 DEF Outside
  <2>b. mishaps' \in 0..MaxMishaps
    BY <1>b, <2>a, UserAssumption
  <2>c. disturbed' \in BOOLEAN /\ touched' \in BOOLEAN
    BY <1>11 DEF Outside
  <2>2. TypeOK'
    BY <1>11, <2>1, <2>b, <2>c DEF Outside, handler, Typing, TypeOK
  <2>3. Program' = Program /\ UNCHANGED << state, config, handler >>
    BY <1>11 DEF Outside, handler, Program, Create, Update, EnsureDelete
  <2>4. QED  BY <2>2, <2>3 DEF handler, Typing, Running
<1>12. CASE UNCHANGED vars
  <2>1. TypeOK'
    BY <1>12 DEF vars, handler, Typing, TypeOK
  <2>2. Program' = Program
    BY <1>12 DEF vars, handler, Program, Create, Update, EnsureDelete
  <2>3. QED  BY <1>12, <2>1, <2>2 DEF vars, Typing, Running
<1>13. QED
  BY <1>1, <1>2, <1>3, <1>4, <1>5, <1>6, <1>7, <1>8, <1>9, <1>10, <1>11, <1>12
  DEF Next, Handler

\* TypeCorrect: in every state of the specification the variables hold what TypeOK says.
THEOREM TypeCorrect == Spec => []TypeOK
<1>1. Typing => TypeOK
  BY DEF Typing
<1>2. QED  BY <1>1, TypingInit, TypingStep, PTL DEF Spec

-----------------------------------------------------------------------------
\* A deletion makes nobody of a deprovisioned user and deprovisions another one.
LEMMA DeleteOutcomes ==
  ASSUME Typing, op = "delete"
  PROVE  /\ \A u \in Outcomes : There(u) => u.status = "DEPROVISIONED"
         /\ There(user) /\ user.status = "DEPROVISIONED" => Outcomes = {Nobody}
         /\ ~There(user) => Outcomes = {}
<1>1. Step = "delete"
  BY StepFacts DEF Typing, Running
<1>2. There(user) => user \in Users
  BY DEF Typing, TypeOK, There
<1>3. There(user) => [user EXCEPT !.status = "DEPROVISIONED", !.to = "none"].status = "DEPROVISIONED"
  BY <1>2 DEF Users
<1>4. QED  BY <1>1, <1>3 DEF Outcomes, There

\* NoAccess: whoever interferes and whichever calls fail, a deletion that ends well
\* leaves no user or one who is deprovisioned.
THEOREM NoAccess == Spec => NoAccessLeft
<1> DEFINE NoAccessStep ==
      op = "delete" /\ op' # "delete" /\ (result' = "ok" \/ op' = "create") /\ There(user')
        => user'.status = "DEPROVISIONED"
<1>1. Typing /\ [Next]_vars => NoAccessStep
  <2> SUFFICES ASSUME Typing, [Next]_vars, op = "delete", op' # "delete",
                      result' = "ok" \/ op' = "create", There(user')
               PROVE  user'.status = "DEPROVISIONED"
    OBVIOUS
  <2>1. CASE Deleted
    BY <2>1, DeleteOutcomes DEF Deleted
  <2>2. Running
    BY DEF Running
  <2>3. ASSUME NEW r \in {"error", "refused"}, Fails(r)  PROVE FALSE
    <3>1. PICK s \in States \cup {Nobody}, t \in BOOLEAN : End(s, t, r)
      BY <2>2, <2>3, FailsEnds
    <3>2. QED  BY <3>1 DEF End
  <2>4. CASE Refused
    BY <2>3, <2>4 DEF Refused
  <2>5. CASE Fail
    BY <2>3, <2>5 DEF Fail
  <2>6. CASE BeginApply \/ Configure \/ Skip \/ Call \/ Get \/ Return \/ Settle \/ Outside
             \/ UNCHANGED vars
    BY <2>6 DEF BeginApply, Configure, Skip, Call, Get, Return, Settle, Outside, handler, vars
  <2>7. QED  BY <2>1, <2>4, <2>5, <2>6 DEF Next, Handler
<1>2. QED  BY <1>1, TypingInit, TypingStep, PTL DEF Spec, NoAccessLeft

-----------------------------------------------------------------------------
\* Known: NothingStranded between applies, and what it rests on while a creation has
\* not begun and when the last pass of a deletion is due.
Known ==
  /\ op = "none" /\ There(user) => There(state) \/ disturbed
  /\ op = "create" /\ pc = 1 /\ There(user) => disturbed
  /\ op = "delete" /\ Last /\ There(user) => user.status = "DEPROVISIONED" \/ disturbed

LEMMA KnownInit == Init => Known
  BY DEF Init, Known, There

\* A step within a handler, which leaves the user as known as it was.
LEMMA KnownWithin ==
  ASSUME Typing, Known, Running, op' = op, UNCHANGED disturbed,
         op = "create" => pc' # 1,
         op = "delete" => \A u \in {user'} : There(u) => u.status = "DEPROVISIONED"
  PROVE  Known'
  BY DEF Known, Running

\* The end of an apply: what is in Okta is in the state, unless a creation failed.
LEMMA KnownAtEnd ==
  ASSUME Typing, NEW s, NEW t, NEW r, End(s, t, r), There(user') => There(s) \/ disturbed'
  PROVE  Known'
  BY DEF End, Known

LEMMA KnownStep == Typing /\ Known /\ [Next]_vars => Known'
<1> SUFFICES ASSUME Typing, Known, [Next]_vars  PROVE Known'
  OBVIOUS
<1>a. Running => op \in {"create", "update", "delete"} /\ pc \in 1..Len(Program)
  BY DEF Typing, TypeOK, Running
<1>b. Running /\ ~Due => op # "delete"
  <2>1. op = "delete" => Step = "delete"
    BY <1>a, StepFacts DEF Running
  <2>2. Step = "delete" => Due
    BY DEF Due
  <2>3. QED  BY <2>1, <2>2
<1>c. Running /\ pc' = pc + 1 => pc' # 1
  <2>1. Running => pc \in Nat /\ pc > 0
    BY DEF Typing, TypeOK
  <2>2. QED  BY <2>1
<1>1. CASE BeginApply
  <2> DEFINE p == Planned(Refreshed)
  <2>1. /\ op' = (IF p = "replace" THEN "delete" ELSE p)
        /\ prior' = Refreshed /\ state' = Refreshed /\ pc' = 1
        /\ op = "none" /\ UNCHANGED << user, disturbed >>
    BY <1>1 DEF BeginApply
  <2>2. /\ Refreshed \in States \cup {Nobody}
        /\ There(user) /\ There(state) <=> There(Refreshed)
        /\ p \in {"none", "create", "update", "delete", "replace"}
        /\ p \in {"update", "delete", "replace"} => There(Refreshed)
        /\ p = "create" => ~There(Refreshed)
    BY PlanTyped DEF Typing
  <2> HIDE DEF p
  <2>3. There(user) /\ ~There(Refreshed) => disturbed
    BY <2>1, <2>2 DEF Known
  <2>4. p \in {"delete", "replace"} /\ Refreshed.status = "DEPROVISIONED"
          => user.status = "DEPROVISIONED"
    <3>1. SUFFICES ASSUME There(Refreshed), Refreshed.status = "DEPROVISIONED"
                   PROVE  user.status = "DEPROVISIONED"
      BY <2>2
    <3>2. Refreshed.status = MapStatus(user.status)
      BY <2>2, <3>1 DEF Refreshed, Shown, There
    <3>3. QED  BY <3>1, <3>2 DEF MapStatus
  <2>5. (op = "delete" => Len(Program) = IF prior.status = "DEPROVISIONED" THEN 1 ELSE 2)'
    BY ProgramSteps, PTL
  <2>6. op' = "delete" /\ Last' => Refreshed.status = "DEPROVISIONED"
    BY <2>1, <2>5 DEF Last
  <2>7. QED  BY <2>1, <2>2, <2>3, <2>4, <2>6 DEF Known
<1>2. CASE Configure
  BY <1>2 DEF Configure, handler, Known
<1>3. CASE Skip
  BY <1>3, <1>b, <1>c, KnownWithin DEF Skip
<1>4. CASE Call
  BY <1>4, <1>c, KnownWithin, DeleteOutcomes DEF Call
<1>5. CASE Get
  <2>1. op # "delete" /\ Running
    BY <1>5, <1>a, StepFacts DEF Get
  <2>2. QED  BY <1>5, <1>c, <2>1, KnownWithin DEF Get
<1>6. CASE Return
  <2>1. There(user) => There(Shown(d))
    <3>1. SUFFICES ASSUME There(user)  PROVE Shown(d) \in States
      BY UserAssumption DEF There
    <3>2. user \in Users /\ d \in States
      BY <1>6, <3>1 DEF Return, Typing, TypeOK, There
    <3>3. MapStatus(user.status) \in Statuses
      BY <3>2 DEF Users, MapStatus, Statuses, Configured
    <3>4. QED  BY <3>2, <3>3 DEF Shown, BodyRead, Users, States
  <2>2. CASE There(user)
    BY <1>6, <2>1, <2>2, KnownAtEnd DEF Return
  <2>3. CASE ~There(user)
    BY <1>6, <2>3, KnownAtEnd DEF Return
  <2>4. QED  BY <2>2, <2>3
<1>7. CASE Deleted
  <2>1. There(user') => disturbed
    BY <1>7, DeleteOutcomes DEF Deleted, Known, There
  <2>2. op' \in {"none", "create"} /\ disturbed' = disturbed
    BY <1>7 DEF Deleted, End
  <2>3. QED  BY <2>1, <2>2 DEF Known
<1>8. CASE Refused
  <2>1. PICK r \in {"error", "refused"} : Fails(r)
    BY <1>8 DEF Refused
  <2>2. Running /\ UNCHANGED << user, disturbed >>
    BY <1>8 DEF Refused
  <2>3. PICK s \in States \cup {Nobody}, t \in BOOLEAN :
          End(s, t, r) /\ ((op = "create" /\ pc = 1) \/ There(s))
    BY <2>1, <2>2, FailsEnds
  <2>4. There(user') => There(s) \/ disturbed'
    BY <2>2, <2>3 DEF Known
  <2>5. QED  BY <2>3, <2>4, KnownAtEnd
<1>9. CASE Fail
  <2>1. Fails("error") /\ Running
    BY <1>9 DEF Fail
  <2>2. PICK s \in States \cup {Nobody}, t \in BOOLEAN :
          End(s, t, "error") /\ ((op = "create" /\ pc = 1) \/ There(s))
    BY <2>1, FailsEnds
  <2>3. op = "create" /\ pc = 1 => Step = "create"
    BY <1>a, <2>1, StepFacts
  <2>4. Step = "create" /\ There(user') => disturbed' \/ There(user)
    <3>1. disturbed' = (disturbed \/ (Step = "create" /\ user' # user))
      BY <1>9 DEF Fail
    <3>2. QED  BY <3>1
  <2>5. disturbed => disturbed'
    BY <1>9 DEF Fail
  <2>6. There(user') => There(s) \/ disturbed'
    BY <2>2, <2>3, <2>4, <2>5 DEF Known
  <2>7. QED  BY <2>2, <2>6, KnownAtEnd
<1>10. CASE Settle
  <2>1. /\ There(user) /\ UNCHANGED << state, op, pc, prior >>
        /\ disturbed' = (disturbed \/ op = "delete")
    BY <1>10 DEF Settle, handler
  <2>2. QED  BY <2>1 DEF Known
<1>11. CASE Outside
  <2>1. /\ There(user) /\ UNCHANGED << state, op, pc, prior >>
        /\ disturbed' = (disturbed \/ op = "delete")
    BY <1>11 DEF Outside, handler
  <2>2. QED  BY <2>1 DEF Known
<1>12. CASE UNCHANGED vars
  <2>1. UNCHANGED << user, state, op, pc, prior, disturbed >>
    BY <1>12 DEF vars
  <2>2. Last' = Last
    BY <2>1 DEF Last, Program, Create, Update, EnsureDelete
  <2>3. QED  BY <2>1, <2>2 DEF Known
<1>13. QED
  BY <1>1, <1>2, <1>3, <1>4, <1>5, <1>6, <1>7, <1>8, <1>9, <1>10, <1>11, <1>12
  DEF Next, Handler

\* NobodyForgotten: Terraform knows every user it made, unless its creation got no
\* answer or the user changed while it was being deleted.
THEOREM NobodyForgotten == Spec => []NothingStranded
<1>1. Known => NothingStranded
  BY DEF Known, NothingStranded
<1>2. QED  BY <1>1, TypingInit, TypingStep, KnownInit, KnownStep, PTL DEF Spec

-----------------------------------------------------------------------------
(* What an apply brings about. *)

\* Planning: what a handler was given, and when a deletion is for good.
Planning ==
  /\ op \in {"create", "update"} =>
       /\ There(config) /\ d.body = config.body /\ d.password = config.password
       /\ \/ d.status = config.status
          \/ /\ config.status = "ACTIVE" /\ d.status = "PROVISIONED"
             /\ op = "update" /\ prior.status = "PROVISIONED"
  /\ op = "delete" /\ ~replacing => ~There(config)

\* Hidden: attributes that are null in Okta are so in b, but for those which
\* the history tells of.
Hidden(b) == user.body = Blank => b = Blank \/ unseen

\* Secrets: the password of the user is the one of the state, or is to be set, and
\* no attributes but those are null.
Secrets ==
  There(user) =>
    /\ op \in {"none", "delete"} /\ There(state) =>
         (user.password = state.password \/ unsent) /\ Hidden(state.body)
    /\ op = "create" /\ pc > 1 => user.password = d.password /\ Hidden(d.body)
    /\ op = "update" /\ pc < 9 => user.password = prior.password \/ unsent
    /\ op = "update" /\ pc = 9 => user.password = d.password \/ unsent
    /\ op = "update" /\ pc < 8 => Hidden(prior.body)
    /\ op = "update" /\ pc > 7 => Hidden(d.body)

\* Shows: the attributes of the user are b, but for those which Read does not see.
Shows(b) == user.body = b \/ (user.body = Blank /\ unseen)

\* The step that sets the status; those before it leave the status alone.
Setting == IF op = "create" THEN 3 ELSE 4
AsFound == IF op = "create"
           THEN user.status \in (IF d.status = "STAGED" THEN {"STAGED"} ELSE {"ACTIVE", "PROVISIONED"})
           ELSE MapStatus(user.status) = prior.status

\* StatusSoFar: the status is as it was, on its way, or as good as configured.
StatusSoFar ==
  /\ pc <= Setting \/ (pc = Setting + 1 /\ ~Wanted) => user.to = "none" /\ AsFound
  /\ pc = Setting + 1 /\ Wanted =>
       (IF user.to = "none" THEN user.status ELSE user.to) \in Meets(d.status)
  /\ pc > Setting + 1 => user.to = "none" /\ user.status \in Meets(d.status)

\* Progress: what a handler has brought about, if nobody interferes.
Progress ==
  /\ op = "create" /\ pc > 1 /\ ~touched =>
       There(user) /\ Shows(d.body) /\ StatusSoFar
  /\ op = "update" /\ ~touched =>
       /\ There(user) /\ Shows(IF pc < 8 THEN prior.body ELSE d.body) /\ StatusSoFar
       /\ pc > 3 /\ StatusChange => MapStatus(seen) = prior.status
       /\ pc > 1 /\ d.status = "STAGED" => ~StatusChange

\* Effective: the state of a good apply is what is there, and what is planned.
Effective ==
  Applied /\ There(config) =>
    /\ There(user) /\ There(state) /\ ~tainted
    /\ user.to = "none" /\ state.status = MapStatus(user.status) /\ Shows(state.body)
    /\ state = PlannedFor(state)

Achieved == Planning /\ Secrets /\ Progress /\ Effective

\* Where the handlers are.
LEMMA CreateAt ==
  ASSUME Typing, op = "create"
  PROVE  /\ \/ pc = 1 /\ Step = "create"
            \/ pc = 2 /\ Step = "get_status"
            \/ pc = 3 /\ Step = "set_status"
            \/ pc = 4 /\ Step = "wait"
            \/ pc = 5 /\ Step = "expire_password"
            \/ pc = 6 /\ Step = "read"
         /\ Last <=> pc = 6
<1>1. Program = Create /\ Len(Program) = 6
  BY CreateSteps DEF Program
<1>2. pc \in 1..6
  BY <1>1 DEF Typing, Running
<1>3. pc = 1 \/ pc = 2 \/ pc = 3 \/ pc = 4 \/ pc = 5 \/ pc = 6
  BY <1>2
<1>4. QED  BY <1>1, <1>3, CreateSteps DEF Step, Last

LEMMA UpdateAt ==
  ASSUME Typing, op = "update"
  PROVE  /\ \/ pc = 1 /\ Step = "not_staged"
            \/ pc = 2 /\ Step = "get_for_password"
            \/ pc = 3 /\ Step = "get_status"
            \/ pc = 4 /\ Step = "set_status"
            \/ pc = 5 /\ Step = "wait"
            \/ pc = 6 /\ Step = "not_deprovisioned"
            \/ pc = 7 /\ Step = "update"
            \/ pc = 8 /\ Step = "password"
            \/ pc = 9 /\ Step = "read"
         /\ Last <=> pc = 9
<1>1. Program = Update /\ Len(Program) = 9
  BY UpdateSteps DEF Program
<1>2. pc \in 1..9
  BY <1>1 DEF Typing, Running
<1>3. \/ pc = 1 \/ pc = 2 \/ pc = 3 \/ pc = 4 \/ pc = 5
      \/ pc = 6 \/ pc = 7 \/ pc = 8 \/ pc = 9
  BY <1>2
<1>4. QED  BY <1>1, <1>3, UpdateSteps DEF Step, Last

\* A status meets the one it is shown as.
LEMMA MeetsShown ==
  ASSUME NEW u \in Statuses, NEW s \in Statuses
  PROVE  /\ MapStatus(u) = s => u \in Meets(s)
         /\ u \in Meets(s) /\ s \in Configured \cup {"PROVISIONED"} =>
              MapStatus(u) = s \/ (u = "PROVISIONED" /\ s = "ACTIVE")
  BY DEF MapStatus, Meets, Configured

\* What the handlers work on.
LEMMA Given ==
  ASSUME Typing, Planning
  PROVE  /\ user \in Users \/ ~There(user)
         /\ op \in {"create", "update"} =>
              d \in States /\ d.status \in Configured \cup {"PROVISIONED"} /\ config \in Configurations
         /\ op = "create" => d.status \in Configured
         /\ op = "update" => prior \in States /\ (d.status = "PROVISIONED" => ~StatusChange)
         /\ Nobody \notin Users \cup States
<1>1. Nobody \notin Users \cup States
  BY UserAssumption
<1>2. user \in Users \/ ~There(user)
  BY DEF Typing, TypeOK, There
<1>3. op \in {"create", "update"} => d \in States /\ config \in Configurations
  BY DEF Typing, TypeOK, Planning, There
<1>4. op = "update" => prior \in States
  BY DEF Typing, TypeOK, There
<1>5. op \in {"create", "update"} => config.status \in Configured
  BY <1>3 DEF Configurations
<1>6. QED  BY <1>1, <1>2, <1>3, <1>4, <1>5 DEF Planning, StatusChange, Configured

\* What a call leaves of the user.
LEMMA OutcomesKeep ==
  ASSUME Typing, Running, NEW u \in Outcomes, There(u), Step # "create"
  PROVE  /\ There(user) /\ user \in Users
         /\ Step # "password" => u.password = user.password
         /\ Step # "update" => u.body = user.body
         /\ Step = "password" => u = [user EXCEPT !.password = d.password]
         /\ Step = "update" => u = [user EXCEPT !.body = d.body]
         /\ Step = "expire_password" =>
              user.status = "ACTIVE" /\ u = [user EXCEPT !.status = "PASSWORD_EXPIRED"]
         /\ Step = "set_status" => u \in Lifecycle
<1>1. There(user)
  BY DEF Outcomes
<1>2. user \in Users
  BY <1>1 DEF Typing, TypeOK, There
<1>3. \A ss \in SUBSET Statuses : \A v \in Become(ss) :
        v.password = user.password /\ v.body = user.body
  BY <1>2 DEF Become, Users
<1>4. \A v \in Lifecycle : v.password = user.password /\ v.body = user.body
  <2>1. /\ {"SUSPENDED"} \in SUBSET Statuses /\ {"DEPROVISIONED"} \in SUBSET Statuses
        /\ {"ACTIVE"} \in SUBSET Statuses /\ {"ACTIVE", "PROVISIONED"} \in SUBSET Statuses
    BY DEF Statuses, Configured
  <2>2. QED  BY <1>3, <2>1 DEF Lifecycle
<1>5. CASE Step = "set_status"
  BY <1>1, <1>2, <1>4, <1>5 DEF Outcomes
<1>6. CASE Step # "set_status"
  BY <1>1, <1>2, <1>6 DEF Outcomes, Users, There
<1>7. QED  BY <1>5, <1>6

\* A change of the status that is wanted leads to one that meets it.
LEMMA LifecycleMeets ==
  ASSUME Typing, There(user), d.status \in {"ACTIVE", "SUSPENDED", "DEPROVISIONED"},
         NEW u \in Lifecycle
  PROVE  (IF u.to = "none" THEN u.status ELSE u.to) \in Meets(d.status)
<1>1. user \in Users
  BY DEF Typing, TypeOK, There
<1>2. ASSUME NEW ss, NEW v \in Become(ss), ss \subseteq Meets(d.status)
      PROVE  (IF v.to = "none" THEN v.status ELSE v.to) \in Meets(d.status)
  BY <1>1, <1>2 DEF Become, Users, Meets
<1>3. CASE d.status = "ACTIVE"
  <2>1. {"ACTIVE"} \subseteq Meets(d.status) /\ {"ACTIVE", "PROVISIONED"} \subseteq Meets(d.status)
    BY <1>3 DEF Meets
  <2>2. u \in Become({"ACTIVE"}) \cup Become({"ACTIVE", "PROVISIONED"})
    BY <1>3 DEF Lifecycle
  <2>3. QED  BY <1>2, <2>1, <2>2
<1>4. CASE d.status \in {"SUSPENDED", "DEPROVISIONED"}
  <2>1. {d.status} \subseteq Meets(d.status)
    BY <1>4 DEF Meets
  <2>2. u \in Become({d.status})
    BY <1>4 DEF Lifecycle
  <2>3. QED  BY <1>2, <2>1, <2>2
<1>5. QED  BY <1>3, <1>4

-----------------------------------------------------------------------------
LEMMA AchievedInit == Init => Achieved
  BY DEF Init, Achieved, Planning, Secrets, Progress, Effective, Applied, There

\* The end of an apply.
LEMMA AchievedAtEnd ==
  ASSUME Typing, NEW s, NEW t, NEW r, End(s, t, r),
         There(user') /\ There(s) =>
           /\ user'.password = s.password \/ unsent'
           /\ user'.body = Blank => s.body = Blank \/ unseen',
         r = "ok" /\ ~touched /\ There(config) =>
           /\ There(user') /\ There(s) /\ ~t
           /\ user'.to = "none" /\ s.status = MapStatus(user'.status)
           /\ user'.body = s.body \/ (user'.body = Blank /\ unseen')
           /\ s = PlannedFor(s)
  PROVE  Achieved'
<1>1. /\ state' = s /\ tainted' = t /\ result' = r /\ op' = "none"
      /\ config' = config /\ touched' = touched
  BY DEF End
<1>2. Planning' /\ Progress' /\ Secrets'
  BY <1>1 DEF Planning, Progress, Secrets, Hidden
<1>3. PlannedFor(s)' = PlannedFor(s) /\ PlannedFor(state)' = PlannedFor(s)'
  BY <1>1 DEF PlannedFor, Suppressed
<1>4. Effective'
  BY <1>1, <1>3 DEF Effective, Applied, Shows, There
<1>5. QED  BY <1>2, <1>4 DEF Achieved

\* An error: what it leaves of the password is known.
LEMMA AchievedAtError ==
  ASSUME Typing, Running, Achieved, NEW r \in {"error", "refused"}, Fails(r),
         user' \in {user} \cup Outcomes
  PROVE  Achieved'
<1>1. op \in {"create", "update", "delete"} /\ pc \in 1..Len(Program)
  BY DEF Typing, TypeOK, Running
<1>2. ASSUME op # "update", Step # "create", There(user')
      PROVE  There(user) /\ user'.password = user.password /\ user'.body = user.body
  <2>1. Step \notin {"password", "update"}
    BY <1>1, <1>2, StepFacts
  <2>2. QED  BY <1>2, <2>1, OutcomesKeep
<1>3. CASE op = "delete"
  <2>1. End(state, tainted, r) /\ Step # "create" /\ (unsent => unsent') /\ (unseen => unseen')
    BY <1>1, <1>3, StepFacts DEF Fails, End
  <2>2. QED  BY <1>2, <1>3, <2>1, AchievedAtEnd DEF Achieved, Secrets, Hidden
<1>4. CASE op = "update"
  <2>1. /\ End(d, tainted, r)
        /\ There(user') /\ user'.password # d.password => unsent'
        /\ There(user') /\ user'.body = Blank /\ d.body # Blank => unseen'
    BY <1>4 DEF Fails, End
  <2>2. QED  BY <2>1, AchievedAtEnd
<1>5. CASE op = "create" /\ Step = "create"
  <2>1. End(Nobody, FALSE, r)
    BY <1>5 DEF Fails
  <2>2. QED  BY <2>1, AchievedAtEnd DEF There
<1>6. CASE op = "create" /\ Step # "create"
  <2>1. End(d, TRUE, r)
    BY <1>6 DEF Fails
  <2>2. pc > 1
    BY <1>6, CreateAt
  <2>3. unseen => unseen'
    BY <2>1 DEF End
  <2>4. QED  BY <1>2, <1>6, <2>1, <2>2, <2>3, AchievedAtEnd DEF Achieved, Secrets, Hidden
<1>7. QED  BY <1>1, <1>3, <1>4, <1>5, <1>6

\* The end of a creation or an update that succeeded.
LEMMA AchievedAtReturn ==
  ASSUME Typing, Achieved, Return
  PROVE  Achieved'
<1>1. op \in {"create", "update"} /\ Running /\ Step = "read" /\ user' = user
  BY DEF Return, Running
<1>2. (op = "create" => pc = 6) /\ (op = "update" => pc = 9)
  BY <1>1, CreateAt, UpdateAt
<1>3. CASE ~There(user)
  <2>1. End(Nobody, FALSE, "error")
    BY <1>3 DEF Return
  <2>2. QED  BY <1>1, <1>3, <2>1, AchievedAtEnd DEF There
<1>4. CASE There(user)
  <2>1. End(Shown(d), FALSE, "ok") /\ (unsent => unsent') /\ (unseen => unseen')
    BY <1>4 DEF Return, End
  <2>2. /\ user \in Users /\ d \in States /\ config \in Configurations /\ Nobody \notin Users \cup States
        /\ d.status \in Configured \cup {"PROVISIONED"}
    BY <1>1, <1>4, Given DEF Achieved
  <2>3. (user.password = d.password \/ unsent) /\ Hidden(d.body)
    BY <1>1, <1>2, <1>4 DEF Achieved, Secrets
  <2>4. /\ Shown(d).status = MapStatus(user.status) /\ Shown(d).password = d.password
        /\ Shown(d).body = (IF user.body = Blank THEN d.body ELSE user.body)
    BY DEF Shown, BodyRead
  <2>5. Shown(d) \in States
    BY <2>2 DEF Shown, BodyRead, States, Users, MapStatus, Statuses, Configured
  <2>6. ASSUME ~touched
        PROVE  user.to = "none" /\ Shows(Shown(d).body) /\ Shown(d) = PlannedFor(Shown(d))
    <3>1. Shows(d.body) /\ user.to = "none" /\ user.status \in Meets(d.status)
      BY <1>1, <1>2, <2>6 DEF Achieved, Progress, StatusSoFar, Setting
    <3>8. Shown(d).body = d.body
      BY <2>4, <3>1 DEF Shows
    <3>2. /\ d.body = config.body /\ d.password = config.password
          /\ \/ d.status = config.status
             \/ config.status = "ACTIVE" /\ d.status = "PROVISIONED"
      BY <1>1 DEF Achieved, Planning
    <3>3. user.status \in Statuses /\ d.status \in Statuses
      BY <2>2 DEF Users, States
    <3>4. MapStatus(user.status) = d.status \/ (user.status = "PROVISIONED" /\ d.status = "ACTIVE")
      BY <2>2, <3>1, <3>3, MeetsShown
    <3>5. \/ MapStatus(user.status) = config.status
          \/ MapStatus(user.status) = "PROVISIONED" /\ config.status = "ACTIVE"
      BY <3>2, <3>4 DEF MapStatus
    <3>6. Shown(d) = [config EXCEPT !.status = MapStatus(user.status)]
      BY <2>2, <2>4, <3>2, <3>8 DEF Shown, Configurations, States
    <3>7. MapStatus(user.status) = config.status => Shown(d) = config
      BY <2>2, <3>6 DEF Configurations, States
    <3>9. QED  BY <2>2, <2>4, <2>5, <3>1, <3>5, <3>6, <3>7, <3>8 DEF PlannedFor, Suppressed, There
  <2>7. There(Shown(d))
    BY <2>2, <2>5 DEF There
  <2>8. QED  BY <1>1, <1>4, <2>1, <2>3, <2>4, <2>6, <2>7, AchievedAtEnd DEF Hidden, Shows
<1>5. QED  BY <1>3, <1>4

-----------------------------------------------------------------------------
\* A step within a handler: it remains to be seen how far it gets.
LEMMA AchievedWithin ==
  ASSUME Typing, Achieved, Running, Skip \/ Call \/ Get, Secrets', Progress'
  PROVE  Achieved'
<1>1. /\ UNCHANGED << config, op, d, prior, replacing >>
  BY DEF Skip, Call, Get
<1>2. Planning' /\ Effective'
  BY <1>1 DEF Achieved, Planning, Effective, Applied, Running
<1>3. QED  BY <1>2 DEF Achieved

LEMMA AchievedByCreate ==
  ASSUME Typing, Achieved, op = "create", Skip \/ Call \/ Get
  PROVE  Achieved'
<1>1. /\ pc' = pc + 1 /\ Running /\ UNCHANGED << state, config, op, d, prior, touched, unsent, unseen >>
      /\ Skip => ~Due /\ user' = user
      /\ Call => Due /\ Step \in Calls /\ user' \in Outcomes
      /\ Get => /\ Due /\ There(user) /\ user' = user
                /\ Step \in {"get_status", "wait", "get_for_password"}
                /\ Step = "wait" => user.to = "none"
  BY DEF Skip, Call, Get
<1>2. pc = 1 \/ pc = 2 \/ pc = 3 \/ pc = 4 \/ pc = 5 \/ pc = 6
  BY CreateAt
<1>3. /\ d \in States /\ d.status \in Configured /\ Nobody \notin Users
      /\ user \in Users \/ ~There(user)
  BY Given DEF Achieved
<1>4. Wanted <=> d.status \in {"SUSPENDED", "DEPROVISIONED"}
  BY DEF Wanted
<1>5. Wanted' = Wanted /\ Setting = 3 /\ Setting' = 3
  BY <1>1 DEF Wanted, Setting, StatusChange
<1>6. ~Wanted /\ AsFound => user.status \in Meets(d.status)
  BY <1>3, <1>4 DEF AsFound, Meets, Configured
<1>7. CASE pc = 1
  <2>1. Step = "create" /\ user' \in Born
    BY <1>1, <1>7, CreateAt DEF Due, Outcomes, Calls
  <2>2. /\ user'.body = d.body /\ user'.password = d.password /\ user'.to = "none"
        /\ user'.status \in (IF d.status = "STAGED" THEN {"STAGED"} ELSE {"ACTIVE", "PROVISIONED"})
    BY <2>1 DEF Born
  <2>3. There(user')
    <3>1. Born \subseteq Users
      BY <1>3 DEF Born, Users, States, Statuses, Configured
    <3>2. QED  BY <1>3, <2>1, <3>1 DEF There
  <2>4. Progress'
    BY <1>1, <1>5, <1>7, <2>2, <2>3 DEF Progress, Shows, StatusSoFar, AsFound
  <2>5. Secrets'
    BY <1>1, <1>7, <2>2 DEF Secrets, Hidden
  <2>6. QED  BY <1>1, <2>4, <2>5, AchievedWithin
<1>8. CASE pc # 1
  <2>1. There(user) => user.password = d.password /\ Hidden(d.body)
    BY <1>2, <1>8 DEF Achieved, Secrets
  <2>2. ~touched => There(user) /\ Shows(d.body) /\ StatusSoFar
    BY <1>2, <1>8 DEF Achieved, Progress
  <2>3. Step \notin {"create", "password", "update"} /\ (Call => There(user'))
    <3>1. Step \in {"get_status", "set_status", "wait", "expire_password", "read"}
      BY <1>2, <1>8, CreateAt
    <3>2. Nobody \notin Outcomes
      <4>1. SUFFICES ASSUME Nobody \in Outcomes  PROVE FALSE
        OBVIOUS
      <4>2. There(user) /\ user \in Users
        BY <1>3, <3>1, <4>1 DEF Outcomes
      <4>3. Lifecycle \subseteq Users
        <5>1. \A ss \in SUBSET Statuses : Become(ss) \subseteq Users
          BY <4>2 DEF Become, Users
        <5>2. /\ {"SUSPENDED"} \in SUBSET Statuses /\ {"DEPROVISIONED"} \in SUBSET Statuses
              /\ {"ACTIVE"} \in SUBSET Statuses /\ {"ACTIVE", "PROVISIONED"} \in SUBSET Statuses
          BY DEF Statuses, Configured
        <5>3. QED  BY <5>1, <5>2 DEF Lifecycle
      <4>4. [user EXCEPT !.status = "PASSWORD_EXPIRED"] \in Users
        BY <4>2 DEF Users, Statuses
      <4>5. QED  BY <1>3, <3>1, <4>1, <4>2, <4>3, <4>4 DEF Outcomes
    <3>3. QED  BY <1>1, <3>1, <3>2 DEF There
  <2>4. There(user') => There(user) /\ user'.password = user.password /\ user'.body = user.body
    BY <1>1, <2>3, OutcomesKeep
  <2>5. Secrets'
    BY <1>1, <1>2, <2>1, <2>4 DEF Secrets, Hidden
  <2>6. ~touched => There(user') /\ Shows(d.body)'
    BY <1>1, <2>2, <2>3, <2>4 DEF Shows
  <2>7. ASSUME ~touched  PROVE StatusSoFar'
    <3>1. StatusSoFar /\ There(user) /\ user \in Users
      BY <1>3, <2>2, <2>7
    <3>2. CASE pc = 2
      <4>1. user' = user
        BY <1>1, <3>2, CreateAt DEF Calls
      <4>2. QED  BY <1>1, <1>5, <3>1, <3>2, <4>1 DEF StatusSoFar, AsFound
    <3>3. CASE pc = 3
      <4>1. Step = "set_status" /\ user.to = "none" /\ AsFound
        BY <1>5, <3>1, <3>3, CreateAt DEF StatusSoFar
      <4>2. Due <=> Wanted
        BY <1>4, <4>1 DEF Due, Activated
      <4>3. (Call /\ Due) \/ (Skip /\ ~Due)
        BY <1>1, <4>1
      <4>4. CASE Call /\ Due
        <5>1. user' \in Lifecycle /\ d.status \in {"SUSPENDED", "DEPROVISIONED"}
          BY <1>1, <1>4, <3>1, <4>1, <4>2, <4>4 DEF Outcomes
        <5>2. (IF user'.to = "none" THEN user'.status ELSE user'.to) \in Meets(d.status)
          BY <3>1, <5>1, LifecycleMeets
        <5>3. QED  BY <1>1, <1>5, <3>3, <4>2, <4>4, <5>2 DEF StatusSoFar
      <4>5. CASE Skip /\ ~Due
        BY <1>1, <1>5, <3>3, <4>1, <4>2, <4>5 DEF StatusSoFar, AsFound
      <4>6. QED  BY <4>3, <4>4, <4>5
    <3>4. CASE pc = 4
      <4>1. Step = "wait" /\ user' = user
        BY <1>1, <3>4, CreateAt DEF Calls
      <4>2. Due <=> Wanted
        BY <1>4, <4>1 DEF Due, Activated
      <4>3. user.to = "none" /\ user.status \in Meets(d.status)
        BY <1>1, <1>5, <1>6, <3>1, <3>4, <4>1, <4>2 DEF StatusSoFar, Calls
      <4>4. QED  BY <1>1, <1>5, <3>4, <4>1, <4>3 DEF StatusSoFar
    <3>5. CASE pc = 5
      <4>1. Step = "expire_password" /\ user.to = "none" /\ user.status \in Meets(d.status)
        BY <1>5, <3>1, <3>5, CreateAt DEF StatusSoFar
      <4>2. \/ user' = user
            \/ user.status = "ACTIVE" /\ user' = [user EXCEPT !.status = "PASSWORD_EXPIRED"]
        BY <1>1, <2>3, <4>1, OutcomesKeep
      <4>3. user'.to = "none" /\ user'.status \in Meets(d.status)
        BY <3>1, <4>1, <4>2 DEF Users, Meets
      <4>4. QED  BY <1>1, <1>5, <3>5, <4>3 DEF StatusSoFar
    <3>6. pc # 6
      <4>1. pc = 6 => Step = "read"
        BY CreateAt
      <4>2. Step = "read" => Due
        BY DEF Due
      <4>3. QED  BY <1>1, <4>1, <4>2 DEF Calls
    <3>7. QED  BY <1>2, <1>8, <3>2, <3>3, <3>4, <3>5, <3>6
  <2>8. Progress'
    BY <1>1, <2>6, <2>7 DEF Progress
  <2>9. QED  BY <1>1, <2>5, <2>8, AchievedWithin
<1>9. QED  BY <1>7, <1>8

LEMMA AchievedByUpdate ==
  ASSUME Typing, Achieved, op = "update", Skip \/ Call \/ Get
  PROVE  Achieved'
<1>1. /\ pc' = pc + 1 /\ Running /\ UNCHANGED << state, config, op, d, prior, touched, unsent, unseen >>
      /\ Skip => ~Due /\ user' = user /\ seen' = seen
      /\ Call => Due /\ Step \in Calls /\ user' \in Outcomes /\ seen' = seen
      /\ Get => /\ Due /\ There(user) /\ user' = user
                /\ Step \in {"get_status", "wait", "get_for_password"}
                /\ Step = "wait" => user.to = "none"
                /\ seen' = IF Step = "get_status" THEN user.status ELSE seen
  BY DEF Skip, Call, Get
<1>2. /\ \/ pc = 1 /\ Step = "not_staged"
         \/ pc = 2 /\ Step = "get_for_password"
         \/ pc = 3 /\ Step = "get_status"
         \/ pc = 4 /\ Step = "set_status"
         \/ pc = 5 /\ Step = "wait"
         \/ pc = 6 /\ Step = "not_deprovisioned"
         \/ pc = 7 /\ Step = "update"
         \/ pc = 8 /\ Step = "password"
  <2>1. Step = "read" => Due
    BY DEF Due
  <2>2. Step # "read"
    BY <1>1, <2>1 DEF Calls
  <2>3. QED  BY <2>2, UpdateAt
<1>3. /\ d \in States /\ d.status \in Configured \cup {"PROVISIONED"} /\ Nobody \notin Users
      /\ prior \in States
      /\ d.status = "PROVISIONED" => ~StatusChange
      /\ user \in Users \/ ~There(user)
  BY Given DEF Achieved
<1>4. (Wanted <=> StatusChange) /\ (Wanted' <=> Wanted) /\ (StatusChange' <=> StatusChange)
      /\ Setting = 4 /\ Setting' = 4
  BY <1>1 DEF Wanted, Setting, StatusChange
<1>5. There(user) /\ ~Wanted /\ AsFound => user.status \in Meets(d.status)
  BY <1>3, <1>4, MeetsShown DEF AsFound, StatusChange, Users, States
<1>6. There(user') =>
        /\ There(user)
        /\ Step # "password" => user'.password = user.password
        /\ Step # "update" => user'.body = user.body
        /\ Step = "password" => user'.password = (IF Call THEN d.password ELSE user.password)
        /\ Step = "update" => user'.body = (IF Call THEN d.body ELSE user.body)
        /\ Step \notin {"set_status", "expire_password"} =>
             user'.status = user.status /\ user'.to = user.to
  <2>1. SUFFICES ASSUME There(user')
                 PROVE  /\ There(user)
                        /\ Step # "password" => user'.password = user.password
                        /\ Step # "update" => user'.body = user.body
                        /\ Step = "password" => user'.password = (IF Call THEN d.password ELSE user.password)
                        /\ Step = "update" => user'.body = (IF Call THEN d.body ELSE user.body)
                        /\ Step \notin {"set_status", "expire_password"} =>
                             user'.status = user.status /\ user'.to = user.to
    OBVIOUS
  <2>2. CASE Call
    <3>1. user' \in Outcomes /\ Step # "create" /\ Step \in Calls /\ Step # "delete"
      BY <1>1, <1>2, <2>2
    <3>2. /\ There(user) /\ user \in Users
          /\ Step # "password" => user'.password = user.password
          /\ Step # "update" => user'.body = user.body
          /\ Step = "password" => user' = [user EXCEPT !.password = d.password]
          /\ Step = "update" => user' = [user EXCEPT !.body = d.body]
      BY <1>1, <2>1, <3>1, OutcomesKeep
    <3>3. QED  BY <2>2, <3>1, <3>2 DEF Users, Calls
  <2>3. CASE ~Call
    <3>1. user' = user /\ (Skip => Step # "password" \/ Step # "update")
      BY <1>1, <2>3
    <3>2. QED  BY <2>1, <2>3, <3>1
  <2>4. QED  BY <2>2, <2>3
<1>7. Secrets'
  <2>1. There(user) => user.password = prior.password \/ unsent
    BY <1>2 DEF Achieved, Secrets
  <2>2. There(user') => /\ pc' < 9 => user'.password = prior.password \/ unsent
                        /\ pc' = 9 => user'.password = d.password \/ unsent
    <3>1. CASE pc = 8
      <4>1. Step = "password" /\ (Due <=> d.password # prior.password)
        BY <1>2, <3>1 DEF Due, PasswordChange
      <4>2. Call \/ (Skip /\ d.password = prior.password)
        BY <1>1, <4>1
      <4>3. QED  BY <1>1, <1>6, <2>1, <3>1, <4>1, <4>2
    <3>2. CASE pc # 8
      BY <1>1, <1>2, <1>6, <2>1, <3>2
    <3>3. QED  BY <3>1, <3>2
  <2>3. There(user) => Hidden(IF pc < 8 THEN prior.body ELSE d.body)
    BY <1>2 DEF Achieved, Secrets
  <2>4. There(user') => Hidden(IF pc < 8 THEN prior.body ELSE d.body)'
    <3>1. CASE pc = 7
      <4>1. Step = "update" /\ (~Due => d.body = prior.body)
        BY <1>2, <3>1 DEF Due, ProfileChange
      <4>2. Call \/ (Skip /\ d.body = prior.body)
        BY <1>1, <4>1
      <4>3. QED  BY <1>1, <1>6, <2>3, <3>1, <4>1, <4>2 DEF Hidden
    <3>2. CASE pc # 7
      BY <1>1, <1>2, <1>6, <2>3, <3>2 DEF Hidden
    <3>3. QED  BY <3>1, <3>2
  <2>5. QED  BY <1>1, <1>2, <2>2, <2>4 DEF Secrets
<1>8. ASSUME ~touched
      PROVE  /\ There(user') /\ Shows(IF pc < 8 THEN prior.body ELSE d.body)'
             /\ StatusSoFar'
             /\ pc' > 3 /\ StatusChange => MapStatus(seen') = prior.status
             /\ pc' > 1 /\ d.status = "STAGED" => ~StatusChange
  <2>1. /\ There(user) /\ user \in Users
        /\ Shows(IF pc < 8 THEN prior.body ELSE d.body) /\ StatusSoFar
        /\ pc > 3 /\ StatusChange => MapStatus(seen) = prior.status
        /\ pc > 1 /\ d.status = "STAGED" => ~StatusChange
    BY <1>3, <1>8 DEF Achieved, Progress
  <2>2. There(user')
    <3>1. CASE Call
      <4>1. user' \in Outcomes /\ Step \in {"set_status", "update", "password"}
        BY <1>1, <1>2, <3>1 DEF Calls
      <4>2. Lifecycle \subseteq Users
        <5>1. \A ss \in SUBSET Statuses : Become(ss) \subseteq Users
          BY <2>1 DEF Become, Users
        <5>2. /\ {"SUSPENDED"} \in SUBSET Statuses /\ {"DEPROVISIONED"} \in SUBSET Statuses
              /\ {"ACTIVE"} \in SUBSET Statuses /\ {"ACTIVE", "PROVISIONED"} \in SUBSET Statuses
          BY DEF Statuses, Configured
        <5>3. QED  BY <5>1, <5>2 DEF Lifecycle
      <4>3. [user EXCEPT !.body = d.body] \in Users /\ [user EXCEPT !.password = d.password] \in Users
        BY <1>3, <2>1 DEF Users, States
      <4>4. user' \in Users
        BY <2>1, <4>1, <4>2, <4>3 DEF Outcomes
      <4>5. QED  BY <1>3, <4>4 DEF There
    <3>2. CASE ~Call
      BY <1>1, <2>1, <3>2
    <3>3. QED  BY <3>1, <3>2
  <2>3. Shows(IF pc < 8 THEN prior.body ELSE d.body)'
    <3>1. CASE pc = 7
      <4>1. Step = "update" /\ (~Due => d.body = prior.body)
        BY <1>2, <3>1 DEF Due, ProfileChange
      <4>2. Call \/ (Skip /\ d.body = prior.body)
        BY <1>1, <4>1
      <4>3. QED  BY <1>1, <1>6, <2>1, <2>2, <3>1, <4>1, <4>2 DEF Shows
    <3>2. CASE pc # 7
      BY <1>1, <1>2, <1>6, <2>1, <2>2, <3>2 DEF Shows
    <3>3. QED  BY <3>1, <3>2
  <2>4. pc' > 1 /\ d.status = "STAGED" => ~StatusChange
    <3>1. CASE pc = 1
      <4>1. Step = "not_staged" /\ (Due <=> d.status = "STAGED" /\ StatusChange)
        BY <1>2, <3>1 DEF Due
      <4>2. ~Due
        BY <1>1, <4>1 DEF Calls
      <4>3. QED  BY <4>1, <4>2
    <3>2. CASE pc # 1
      BY <1>2, <2>1, <3>2
    <3>3. QED  BY <3>1, <3>2
  <2>5. pc' > 3 /\ StatusChange => MapStatus(seen') = prior.status
    <3>1. CASE pc = 3
      <4>1. Step = "get_status" /\ (Due <=> Wanted)
        BY <1>2, <3>1 DEF Due
      <4>2. StatusChange => seen' = user.status
        BY <1>1, <1>4, <4>1 DEF Calls
      <4>3. MapStatus(user.status) = prior.status
        BY <1>4, <2>1, <3>1 DEF StatusSoFar, AsFound
      <4>4. QED  BY <4>2, <4>3
    <3>2. CASE pc # 3
      <4>1. seen' = seen
        BY <1>1, <1>2, <3>2
      <4>2. QED  BY <1>1, <1>2, <2>1, <3>2, <4>1
    <3>3. QED  BY <3>1, <3>2
  <2>6. pc > 3 /\ Wanted => ~Activated /\ d.status \in {"ACTIVE", "SUSPENDED", "DEPROVISIONED"}
    <3>1. SUFFICES ASSUME pc > 3, StatusChange
                   PROVE  ~Activated /\ d.status \in {"ACTIVE", "SUSPENDED", "DEPROVISIONED"}
      BY <1>4
    <3>2. MapStatus(seen) = prior.status /\ d.status # "STAGED"
      BY <1>2, <2>1, <3>1
    <3>3. d.status # "PROVISIONED" /\ d.status # prior.status
      BY <1>3, <3>1 DEF StatusChange
    <3>4. ~Activated
      BY <3>2, <3>3 DEF Activated, MapStatus
    <3>5. d.status \in {"ACTIVE", "SUSPENDED", "DEPROVISIONED"}
      BY <1>3, <3>2, <3>3 DEF Configured
    <3>6. QED  BY <3>4, <3>5
  <2>7. StatusSoFar'
    <3>1. CASE pc < 4
      <4>1. user' = user /\ user.to = "none" /\ AsFound
        BY <1>1, <1>2, <1>4, <2>1, <3>1 DEF StatusSoFar, Calls
      <4>2. QED  BY <1>1, <1>2, <1>4, <3>1, <4>1 DEF StatusSoFar, AsFound
    <3>2. CASE pc = 4
      <4>1. Step = "set_status" /\ user.to = "none" /\ AsFound
        BY <1>2, <1>4, <2>1, <3>2 DEF StatusSoFar
      <4>2. Due <=> Wanted
        BY <2>6, <3>2, <4>1 DEF Due
      <4>3. (Call /\ Due) \/ (Skip /\ ~Due)
        BY <1>1, <4>1
      <4>4. CASE Call /\ Due
        <5>1. user' \in Lifecycle /\ d.status \in {"ACTIVE", "SUSPENDED", "DEPROVISIONED"}
          BY <1>1, <2>1, <2>6, <3>2, <4>1, <4>2, <4>4 DEF Outcomes
        <5>2. (IF user'.to = "none" THEN user'.status ELSE user'.to) \in Meets(d.status)
          BY <2>1, <5>1, LifecycleMeets
        <5>3. QED  BY <1>1, <1>4, <3>2, <4>2, <4>4, <5>2 DEF StatusSoFar
      <4>5. CASE Skip /\ ~Due
        BY <1>1, <1>4, <3>2, <4>1, <4>2, <4>5 DEF StatusSoFar, AsFound
      <4>6. QED  BY <4>3, <4>4, <4>5
    <3>3. CASE pc = 5
      <4>1. Step = "wait" /\ user' = user
        BY <1>1, <1>2, <3>3 DEF Calls
      <4>2. Due <=> Wanted
        BY <2>6, <3>3, <4>1 DEF Due
      <4>3. user.to = "none" /\ user.status \in Meets(d.status)
        <5>1. CASE Wanted
          BY <1>1, <1>4, <2>1, <3>3, <4>1, <4>2, <5>1 DEF StatusSoFar, Calls
        <5>2. CASE ~Wanted
          BY <1>4, <1>5, <2>1, <3>3, <5>2 DEF StatusSoFar
        <5>3. QED  BY <5>1, <5>2
      <4>4. QED  BY <1>1, <1>4, <3>3, <4>1, <4>3 DEF StatusSoFar
    <3>4. CASE pc > 5
      <4>1. user'.status = user.status /\ user'.to = user.to
        BY <1>2, <1>6, <2>2, <3>4
      <4>2. user.to = "none" /\ user.status \in Meets(d.status)
        BY <1>2, <1>4, <2>1, <3>4 DEF StatusSoFar
      <4>3. QED  BY <1>1, <1>2, <1>4, <3>4, <4>1, <4>2 DEF StatusSoFar
    <3>5. QED  BY <1>2, <3>1, <3>2, <3>3, <3>4
  <2>8. QED  BY <2>2, <2>3, <2>4, <2>5, <2>7
<1>9. Progress'
  BY <1>1, <1>4, <1>8 DEF Progress
<1>10. QED  BY <1>1, <1>7, <1>9, AchievedWithin

-----------------------------------------------------------------------------
\* An apply begins with what Read shows, or has nothing to do.
LEMMA AchievedAtBegin ==
  ASSUME Typing, Achieved, BeginApply
  PROVE  Achieved'
<1> DEFINE s == Refreshed  p == Planned(Refreshed)
<1>1. /\ op' = (IF p = "replace" THEN "delete" ELSE p) /\ replacing' = (p = "replace")
      /\ d' = (IF p \in {"create", "update"} THEN PlannedFor(s) ELSE s)
      /\ prior' = s /\ state' = s
      /\ tainted' = (tainted /\ There(s))
      /\ result' = (IF p = "none" THEN "ok" ELSE result)
      /\ touched' = (There(s) /\ user.to # "none")
      /\ pc' = 1 /\ op = "none"
      /\ UNCHANGED << user, config, expire, seen, unsent, unseen, disturbed, configs, mishaps >>
  BY DEF BeginApply
<1>2. /\ s \in States \cup {Nobody}
      /\ There(s) <=> There(user) /\ There(state)
      /\ p \in {"none", "create", "update", "delete", "replace"}
      /\ p \in {"update", "delete", "replace"} => There(s)
      /\ p = "create" => ~There(s)
      /\ p = "replace" => There(config)
  BY PlanTyped DEF Typing
<1>3. /\ There(s) => /\ s = Shown(state) /\ s.status = MapStatus(user.status)
                     /\ s.body = (IF user.body = Blank THEN state.body ELSE user.body)
                     /\ s.password = state.password
                     /\ user \in Users /\ s \in States
  <2>1. There(s) => s = Shown(state)
    BY <1>2 DEF Refreshed
  <2>2. There(user) => user \in Users
    BY DEF Typing, TypeOK, There
  <2>3. QED  BY <1>2, <2>1, <2>2 DEF Shown, BodyRead, There
<1>4. There(user) /\ There(state) =>
        (user.password = state.password \/ unsent) /\ Hidden(state.body)
  BY <1>1 DEF Achieved, Secrets
<1>5. /\ p \in {"create", "update"} => There(config)
      /\ p = "delete" => ~There(config)
      /\ p = "none" /\ There(config) => There(s) /\ ~tainted /\ s = PlannedFor(s)
  BY DEF Planned
<1>6. There(config) => config \in Configurations
  BY DEF Typing, TypeOK, There
<1>7. There(config) =>
        /\ PlannedFor(s).body = config.body /\ PlannedFor(s).password = config.password
        /\ \/ PlannedFor(s).status = config.status
           \/ /\ config.status = "ACTIVE" /\ PlannedFor(s).status = "PROVISIONED"
              /\ There(s) /\ s.status = "PROVISIONED"
  BY <1>6 DEF PlannedFor, Suppressed, Configurations, States
<1>13. There(s) => Shows(s.body) /\ Hidden(s.body)
  BY <1>2, <1>3, <1>4 DEF Shows, Hidden
<1> HIDE DEF s, p
<1>8. Planning'
  BY <1>1, <1>2, <1>5, <1>7 DEF Planning
<1>9. Secrets'
  BY <1>1, <1>2, <1>3, <1>4, <1>13 DEF Secrets, Hidden
<1>10. Progress'
  <2>1. ASSUME op' = "update", ~touched'
        PROVE  There(user') /\ Shows(prior.body)' /\ user'.to = "none"
               /\ MapStatus(user'.status) = prior'.status
    BY <1>1, <1>2, <1>3, <1>13, <2>1 DEF Shows
  <2>2. ASSUME op' = "update"
        PROVE  pc' = 1 /\ Setting' = 4
    BY <1>1, <2>2 DEF Setting
  <2>3. ASSUME op' = "update", ~touched'
        PROVE  StatusSoFar'
    BY <2>1, <2>2, <2>3 DEF StatusSoFar, AsFound
  <2>4. ~(op' = "create" /\ pc' > 1)
    BY <1>1
  <2>5. ASSUME op' = "update", ~touched'
        PROVE  /\ There(user') /\ Shows(IF pc < 8 THEN prior.body ELSE d.body)'
               /\ StatusSoFar' /\ ~(pc' > 3) /\ ~(pc' > 1)
    BY <2>1, <2>2, <2>3, <2>5 DEF Shows
  <2>6. QED  BY <2>4, <2>5 DEF Progress, There
<1>11. Effective'
  <2>1. SUFFICES ASSUME op' = "none", ~touched', There(config)
                 PROVE  /\ There(user') /\ There(state') /\ ~tainted'
                        /\ user'.to = "none" /\ state'.status = MapStatus(user'.status)
                        /\ Shows(state.body)' /\ state' = PlannedFor(state)'
    BY <1>1 DEF Effective, Applied, There
  <2>2. p = "none"
    BY <1>1, <1>2, <2>1
  <2>3. There(s) /\ ~tainted /\ s = PlannedFor(s)
    BY <1>5, <2>1, <2>2
  <2>4. PlannedFor(state)' = PlannedFor(s)
    BY <1>1 DEF PlannedFor, Suppressed, There
  <2>5. QED  BY <1>1, <1>2, <1>3, <1>13, <2>1, <2>3, <2>4 DEF Shows, There
<1>12. QED  BY <1>8, <1>9, <1>10, <1>11 DEF Achieved

\* The end of a deletion, for good or for a replacement.
LEMMA AchievedAtDeleted ==
  ASSUME Typing, Achieved, Deleted
  PROVE  Achieved'
<1>1. CASE ~replacing /\ End(Nobody, FALSE, "ok")
  <2>1. ~There(config)
    BY <1>1 DEF Deleted, Achieved, Planning
  <2>2. QED  BY <1>1, <2>1, AchievedAtEnd DEF There
<1>2. CASE /\ replacing
           /\ op' = "create" /\ pc' = 1 /\ d' = config /\ prior' = Nobody
           /\ replacing' = FALSE /\ state' = Nobody /\ tainted' = FALSE
           /\ UNCHANGED << config, expire, seen, result, touched, unsent, unseen, disturbed, configs >>
  <2>1. There(config)
    BY <1>2 DEF Typing
  <2>2. QED
    BY <1>2, <2>1 DEF Achieved, Planning, Secrets, Progress, Effective, Applied, There
<1>3. QED  BY <1>1, <1>2 DEF Deleted

\* What happens beside the handler.
LEMMA AchievedBeside ==
  ASSUME Typing, Achieved, Settle \/ Outside
  PROVE  Achieved'
<1>1. /\ UNCHANGED << state, tainted, config, handler, result, unsent >> /\ There(user)
      /\ \/ /\ user' = [user EXCEPT !.status = user.to, !.to = "none"] /\ touched' = touched
            /\ user.to # "none"
         \/ touched' = TRUE
  BY DEF Settle, Outside
<1>0. unseen => unseen'
  BY DEF Settle, Outside
<1>2. There(user') => /\ user'.password = user.password
                      /\ user'.body = Blank => user.body = Blank \/ unseen'
  <2>1. user \in Users
    BY <1>1 DEF Typing, TypeOK, There
  <2>2. QED  BY <2>1 DEF Settle, Outside, Users, There
<1>3. UNCHANGED << op, pc, d, prior, seen, replacing >>
  BY <1>1 DEF handler
<1>4. Planning' /\ Secrets'
  BY <1>0, <1>1, <1>2, <1>3 DEF Achieved, Planning, Secrets, Hidden, There
<1>5. ASSUME ~touched'
      PROVE  /\ ~touched /\ user' \in Users /\ There(user') /\ user'.body = user.body
             /\ user'.to = "none" /\ user'.status = user.to /\ user.to # "none"
  <2>1. user \in Users /\ Nobody \notin Users
    BY <1>1, UserAssumption DEF Typing, TypeOK, There
  <2>2. user' = [user EXCEPT !.status = user.to, !.to = "none"] /\ ~touched /\ user.to # "none"
    BY <1>1, <1>5
  <2>3. /\ user' \in Users /\ user'.body = user.body
        /\ user'.to = "none" /\ user'.status = user.to
    BY <2>1, <2>2 DEF Users
  <2>4. There(user')
    BY <2>1, <2>3 DEF There
  <2>5. QED  BY <2>2, <2>3, <2>4
<1>6. Effective'
  BY <1>0, <1>1, <1>3, <1>5 DEF Achieved, Effective, Applied, Shows
<1>7. ASSUME StatusSoFar, ~touched', op \in {"create", "update"}
      PROVE  StatusSoFar'
  <2>1. /\ Wanted' <=> Wanted
        /\ Setting' = Setting /\ Setting \in Nat
    BY <1>3 DEF Wanted, Setting, StatusChange
  <2>2. pc \in Nat
    BY DEF Typing, TypeOK
  <2>3. pc = Setting + 1 /\ Wanted /\ user.to \in Meets(d.status)
    BY <1>5, <1>7, <2>1, <2>2 DEF StatusSoFar
  <2>4. QED  BY <1>3, <1>5, <1>7, <2>1, <2>3 DEF StatusSoFar
<1>8. Progress'
  BY <1>0, <1>3, <1>5, <1>7 DEF Achieved, Progress, StatusChange, Shows
<1>9. QED  BY <1>4, <1>6, <1>8 DEF Achieved

LEMMA AchievedStep == Typing /\ Achieved /\ [Next]_vars => Achieved'
<1> SUFFICES ASSUME Typing, Achieved, [Next]_vars  PROVE Achieved'
  OBVIOUS
<1>1. CASE Skip \/ Call \/ Get
  <2>1. op \in {"create", "update", "delete"}
    BY <1>1 DEF Skip, Call, Get, Typing, TypeOK, Running
  <2>2. CASE op = "delete"
    <3>1. Step = "delete"
      BY <2>2, StepFacts DEF Typing, Running
    <3>2. Call
      BY <1>1, <3>1 DEF Skip, Get, Due
    <3>3. /\ user' \in Outcomes /\ Running /\ op' = "delete"
          /\ UNCHANGED << state, config, replacing, unsent, unseen, op >>
      BY <2>2, <3>2 DEF Call
    <3>4. There(user') => There(user) /\ user'.password = user.password /\ user'.body = user.body
      BY <3>1, <3>3, OutcomesKeep
    <3>5. Secrets'
      BY <2>2, <3>3, <3>4 DEF Achieved, Secrets, Hidden
    <3>6. Progress'
      BY <3>3 DEF Progress
    <3>7. QED  BY <1>1, <3>3, <3>5, <3>6, AchievedWithin
  <2>3. QED  BY <1>1, <2>1, <2>2, AchievedByCreate, AchievedByUpdate
<1>2. CASE Refused
  <2>1. Running /\ user' \in {user} \cup Outcomes
    BY <1>2 DEF Refused
  <2>2. PICK r \in {"error", "refused"} : Fails(r)
    BY <1>2 DEF Refused
  <2>3. QED  BY <2>1, <2>2, AchievedAtError
<1>3. CASE Fail
  <2>1. Running /\ Fails("error") /\ user' \in {user} \cup Outcomes
    BY <1>3 DEF Fail
  <2>2. QED  BY <2>1, AchievedAtError
<1>4. CASE Configure
  <2>1. op = "none" /\ op' = "none" /\ result' = "none"
        /\ UNCHANGED << user, state, unsent, unseen >>
    BY <1>4 DEF Configure, handler
  <2>2. QED  BY <2>1 DEF Achieved, Planning, Secrets, Hidden, Progress, Effective, Applied
<1>5. CASE UNCHANGED vars
  BY <1>5 DEF vars, handler, Achieved, Planning, Secrets, Hidden, Shows, Progress, Effective, Applied,
              StatusSoFar, Setting, AsFound, Wanted, StatusChange, PlannedFor, Suppressed, There
<1>6. QED
  BY <1>1, <1>2, <1>3, <1>4, <1>5, AchievedAtBegin, AchievedAtReturn, AchievedAtDeleted,
     AchievedBeside
  DEF Next, Handler

LEMMA AchievedAlways == Spec => [](Typing /\ Achieved)
  BY TypingInit, TypingStep, AchievedInit, AchievedStep, PTL DEF Spec

\* AppliesTakeEffect: for any attributes and any number of applies, failures and
\* interferences, an apply that ended well without any has brought about the
\* configured status and attributes, but for a password that is never sent again
\* and attributes missing in Okta where Read does not see it.
THEOREM AppliesTakeEffect == Spec => []InForce
<1>1. Typing /\ Achieved => InForce
  <2>1. SUFFICES ASSUME Typing, Achieved, Applied, There(config)
                 PROVE  /\ There(user) /\ user.status \in Meets(config.status)
                        /\ user.body = config.body \/ (user.body = Blank /\ unseen)
                        /\ user.password = config.password \/ unsent
    BY DEF InForce
  <2>2. /\ There(user) /\ There(state) /\ state.status = MapStatus(user.status)
        /\ Shows(state.body) /\ state = PlannedFor(state)
    BY <2>1 DEF Achieved, Effective
  <2>3. /\ user \in Users /\ config \in Configurations /\ state \in States
        /\ user.password = state.password \/ unsent
    BY <2>1, <2>2 DEF Typing, TypeOK, There, Achieved, Secrets, Applied
  <2>4. /\ state.body = config.body /\ state.password = config.password
        /\ state.status = config.status \/ (state.status = "PROVISIONED" /\ config.status = "ACTIVE")
    BY <2>2, <2>3 DEF PlannedFor, Suppressed, Configurations, States
  <2>5. user.status \in Statuses /\ config.status \in Statuses
    BY <2>3 DEF Users, Configurations, States
  <2>6. CASE state.status = config.status
    BY <2>2, <2>3, <2>4, <2>5, <2>6, MeetsShown DEF Shows
  <2>7. CASE state.status = "PROVISIONED" /\ config.status = "ACTIVE"
    BY <2>2, <2>3, <2>4, <2>7 DEF MapStatus, Meets, Shows
  <2>8. QED  BY <2>2, <2>3, <2>4, <2>6, <2>7 DEF Shows
<1>2. QED  BY <1>1, AchievedAlways, PTL

\* StateShowsWhatRemains: such an apply leaves the status that remains in the state,
\* and the next plan is empty.
THEOREM StateShowsWhatRemains == Spec => []StateIsCurrent
<1>1. Typing /\ Achieved => StateIsCurrent
  <2>1. SUFFICES ASSUME Typing, Achieved, Applied, There(config)
                 PROVE  /\ user.to = "none" /\ state.status = MapStatus(user.status)
                        /\ Planned(Refreshed) = "none"
    BY DEF StateIsCurrent
  <2>2. /\ There(user) /\ There(state) /\ ~tainted /\ user.to = "none"
        /\ state.status = MapStatus(user.status)
        /\ Shows(state.body) /\ state = PlannedFor(state)
    BY <2>1 DEF Achieved, Effective
  <2>3. state \in States
    BY <2>1, <2>2 DEF Typing, TypeOK, There
  <2>4. Refreshed = state
    BY <2>2, <2>3 DEF Refreshed, Shown, BodyRead, Shows, States
  <2>5. QED  BY <2>1, <2>2, <2>4 DEF Planned
<1>2. QED  BY <1>1, AchievedAlways, PTL
=============================================================================

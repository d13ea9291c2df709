---------------------- MODULE ResourceLifecycleProofs ----------------------
(***************************************************************************)
(* Proofs about the life of a resource, for any handlers and values, and   *)
(* any number of configurations, failures and interferences.               *)
(***************************************************************************)
EXTENDS ResourceLifecycle, HandlerDisciplines, TLAPS

\* Attributes made of attributes.
LEMMA MergeTyped ==
  ASSUME NEW x \in Attributes, NEW y \in Attributes, NEW fs
  PROVE  /\ Merge(x, y, fs) \in Attributes
         /\ Merge(x, y, fs).home = IF "home" \in fs THEN y.home ELSE x.home
  BY DEF Merge, Attributes, Facets

LEMMA DefaultTyped == Default \in Attributes
<1>1. (CHOOSE x \in Bodies : TRUE) \in Bodies
  BY AttributesAssumption
<1>2. QED  BY <1>1 DEF Default, Attributes, Statuses

LEMMA ConfigurationsTyped == Configurations \subseteq Attributes
<1>1. /\ Choices("frozen", Bodies) \subseteq Bodies /\ Choices("home", Bodies) \subseteq Bodies
      /\ Choices("body", Bodies) \subseteq Bodies
      /\ Choices("parts", SUBSET Parts) \subseteq SUBSET Parts
      /\ Choices("status", Statuses) \subseteq Statuses
  BY DefaultTyped DEF Choices, Attributes
<1>2. QED  BY <1>1 DEF Configurations, Attributes

LEMMA NoAttributesApart == NoAttributes \notin Attributes
  BY AttributesAssumption DEF Attributes, Statuses

LEMMA ThereTyped ==
  ASSUME NEW x \in Maybe(Attributes)  PROVE There(x) <=> x \in Attributes
  BY NoAttributesApart DEF Maybe, There

LEMMA FacingTyped ==
  ASSUME object \in Attributes, NEW x \in Attributes
  PROVE  /\ Facing(x) \in Attributes
         /\ Facing(x).home \in {x.home, object.home}
<1> DEFINE fs == R.facets \ (R.read.unread \cup
              (IF "no_parts" \in R.read.unread /\ object.parts = {} THEN {"parts"} ELSE {}))
<1>1. Facing(x) = Merge(x, object, fs)
  BY DEF Facing
<1> HIDE DEF fs
<1>2. QED  BY <1>1, MergeTyped

\* Typing: the type invariant, and what a running handler knows.
Typing ==
  /\ TypeOK
  /\ op # "none" => There(d.attrs)
  /\ op = "update" => There(d.prior)
  /\ op = "delete" => There(state)
  /\ replacing => op = "delete" /\ There(config)

LEMMA RefreshedTyped ==
  ASSUME Typing
  PROVE  /\ Refreshed \in Maybe(Attributes)
         /\ There(Refreshed) => There(object) /\ There(state)
<1>1. object \in Maybe(Attributes) /\ state \in Maybe(Attributes)
  BY DEF Typing, TypeOK
<1>2. CASE Found(state)
  <2>1. object \in Attributes /\ state \in Attributes
    BY <1>1, <1>2, ThereTyped DEF Found
  <2>2. QED  BY <1>2, <2>1, FacingTyped DEF Refreshed, Maybe, Found
<1>3. CASE ~Found(state)
  BY <1>3 DEF Refreshed, Maybe, There
<1>4. QED  BY <1>2, <1>3

LEMMA PlanTyped ==
  ASSUME NEW s
  PROVE  /\ Planned(s) \in {"none", "create", "update", "delete", "replace"}
         /\ Planned(s) \in {"create", "update", "replace"} => There(config)
         /\ Planned(s) \in {"update", "delete", "replace"} => There(s)
         /\ Planned(s) = "create" => ~There(s)
         /\ Planned(s) = "none" => There(s) \/ ~There(config)
  BY DEF Planned

\* What a request may make of an object.
LEMMA WrittenTyped ==
  ASSUME d.attrs \in Attributes, NEW o \in Attributes, NEW fs
  PROVE  \A w \in Written(o, fs) : w \in Attributes /\ w.home \in {o.home, d.attrs.home}
<1>1. \A s \in StatusAfter(fs, o.status) : s \in Statuses
  BY DEF StatusAfter, Attributes
<1>2. \A x \in Attributes, s \in Statuses :
        [x EXCEPT !.status = s] \in Attributes /\ [x EXCEPT !.status = s].home = x.home
  BY DEF Attributes
<1>3. Merge(o, d.attrs, fs \cap Facets) \in Attributes
      /\ Merge(o, d.attrs, fs \cap Facets).home \in {o.home, d.attrs.home}
  BY MergeTyped
<1> TAKE w \in Written(o, fs)
<1>4. PICK st \in StatusAfter(fs, o.status) :
        w = [Merge(o, d.attrs, fs \cap Facets) EXCEPT !.status = st]
  BY DEF Written
<1>5. QED  BY <1>1, <1>2, <1>3, <1>4

LEMMA CreatedTyped ==
  ASSUME Typing, Running
  PROVE  \A o \in Created : /\ o \in Attributes
                            /\ There(object) => o.home \in {object.home, Default.home, d.attrs.home}
                            /\ ~There(object) => o.home \in {Default.home, d.attrs.home}
<1>1. d.attrs \in Attributes
  BY ThereTyped DEF Typing, TypeOK, DataOK, Running
<1>2. There(object) => object \in Attributes
  BY ThereTyped DEF Typing, TypeOK
<1>3. \A st \in Statuses : /\ [Default EXCEPT !.status = st] \in Attributes
                           /\ [Default EXCEPT !.status = st].home = Default.home
  BY DefaultTyped DEF Attributes
<1>4. "ACTIVE" \in Statuses /\ "INACTIVE" \in Statuses
  BY DEF Statuses
<1> DEFINE keep == Exists \/ (There(object) /\ R.identity = "singleton")
           born == IF keep THEN {object}
              ELSE {[Default EXCEPT !.status =
                       IF "inactive" \in Current.with THEN "INACTIVE" ELSE "ACTIVE"]}
           with == Current.with \cup {"frozen", "home"}
<1>5. Created = UNION { Written(o, with) : o \in born }
  BY DEF Created
<1>6. keep => There(object)
  BY DEF Exists
<1>7. \A o \in born : /\ o \in Attributes
                      /\ (There(object) /\ o = object) \/ o.home = Default.home
  BY <1>2, <1>3, <1>4, <1>6
<1> HIDE DEF keep, born, with
<1>8. QED  BY <1>1, <1>5, <1>7, WrittenTyped

LEMMA OutcomesTyped ==
  ASSUME Typing, Running, Current.call \in Calls
  PROVE  \A o \in Outcomes : /\ o \in Maybe(Attributes)
                             /\ There(o) => \/ There(object) /\ o.home = object.home
                                            \/ o.home \in {Default.home, d.attrs.home}
<1>1. object \in Maybe(Attributes) /\ d.attrs \in Attributes /\ d.adds \subseteq Parts
  BY ThereTyped DEF Typing, TypeOK, DataOK, Running
<1>2. CASE Current.call = "ensure" /\ Exists
  BY <1>1, <1>2 DEF Outcomes, Exists
<1>3. CASE Current.call \in {"post", "ensure"} /\ ~(Current.call = "ensure" /\ Exists)
  <2>1. Outcomes = Created
    BY <1>3 DEF Outcomes
  <2>2. QED  BY <2>1, CreatedTyped DEF Maybe
<1>4. CASE Current.call \notin {"post", "ensure"} /\ Here
  <2>1. object \in Attributes /\ There(object)
    BY <1>1, <1>4, ThereTyped DEF Here, Found
  <2>2. \A o \in Written(object, Current.with) :
          o \in Attributes /\ o.home \in {object.home, d.attrs.home}
    BY <1>1, <2>1, WrittenTyped
  <2>3. \A st \in Statuses : /\ [object EXCEPT !.status = st] \in Attributes
                             /\ [object EXCEPT !.status = st].home = object.home
    BY <2>1 DEF Attributes
  <2>4. \A ps \in SUBSET Parts : /\ [object EXCEPT !.parts = ps] \in Attributes
                                 /\ [object EXCEPT !.parts = ps].home = object.home
    BY <2>1 DEF Attributes
  <2>5. object.parts \in SUBSET Parts /\ "ACTIVE" \in Statuses /\ "INACTIVE" \in Statuses
    BY <2>1 DEF Attributes, Statuses
  <2>6. /\ \A part \in d.adds : object.parts \cup {part} \in SUBSET Parts
        /\ object.parts \cup d.adds \in SUBSET Parts
        /\ \A part : object.parts \ {part} \in SUBSET Parts
    BY <1>1, <2>5
  <2>7. CASE Current.call = "put"
    BY <1>4, <2>1, <2>2, <2>7 DEF Outcomes, Maybe
  <2>8. CASE Current.call \in {"remove", "reset"}
    BY <1>4, <2>8, DefaultTyped DEF Outcomes, Maybe, There
  <2>9. CASE Current.call \in {"activate", "deactivate"}
    BY <1>4, <2>1, <2>3, <2>5, <2>9 DEF Outcomes, Maybe
  <2>10. CASE Current.call = "add"
    BY <1>4, <2>1, <2>4, <2>6, <2>10 DEF Outcomes, Maybe
  <2>11. CASE Current.call = "add_all"
    BY <1>4, <2>1, <2>4, <2>6, <2>11 DEF Outcomes, Maybe
  <2>12. CASE Current.call = "drop"
    BY <1>4, <2>1, <2>4, <2>6, <2>12 DEF Outcomes, Maybe
  <2>13. QED
    BY <1>4, <2>7, <2>8, <2>9, <2>10, <2>11, <2>12 DEF Calls
<1>5. CASE Current.call \notin {"post", "ensure"} /\ ~Here
  BY <1>5 DEF Outcomes
<1>6. QED  BY <1>2, <1>3, <1>4, <1>5

-----------------------------------------------------------------------------
\* A step within a handler keeps the types, and so does the end of an apply.
LEMMA GoOnTyped ==
  ASSUME Typing, Running,
         UNCHANGED << kind, state, tainted, config, op, replacing, result, touched, configs >>,
         object' \in Maybe(Attributes), stranded' \in BOOLEAN, unanswered' \in BOOLEAN,
         pc' \in Nat \ {0}, DataOK', d'.prior = d.prior, There(d'.attrs),
         attempts' \in 0..Twice, mishaps' \in 0..MaxMishaps
  PROVE  Typing'
<1>1. TypeOK'
  BY DEF Typing, TypeOK, Kinds
<1>2. QED  BY <1>1 DEF Typing, There

LEMMA EndTyped ==
  ASSUME Typing, NEW o \in Maybe(Attributes), NEW s \in Maybe(Attributes), NEW t \in BOOLEAN,
         NEW r \in {"ok", "error", "refused"}, End(o, s, t, r),
         unanswered' \in BOOLEAN, attempts' \in 0..Twice, mishaps' \in 0..MaxMishaps
  PROVE  Typing'
<1>1. object' \in Maybe(Attributes) /\ state' \in Maybe(Attributes) /\ config' \in Maybe(Attributes)
  BY DEF End, Typing, TypeOK, Maybe
<1>2. stranded' \in BOOLEAN
  BY DEF End, Typing, TypeOK
<1>3. tainted' \in BOOLEAN /\ replacing' \in BOOLEAN /\ touched' \in BOOLEAN
  BY DEF End, Typing, TypeOK
<1>4. DataOK'
  BY DEF End, NoData, DataOK, Maybe, Statuses
<1>5. /\ kind' \in Kinds /\ op' = "none" /\ pc' = 1
      /\ result' \in {"none", "ok", "error", "refused"} /\ configs' \in 1..MaxConfigs
  BY DEF End, Typing, TypeOK, Kinds
<1>6. 1 \in Nat \ {0}
  OBVIOUS
<1>7. TypeOK'
  BY <1>1, <1>2, <1>3, <1>4, <1>5, <1>6 DEF TypeOK, Kinds
<1>8. QED  BY <1>5, <1>7 DEF End, Typing

LEMMA DataTyped ==
  ASSUME NEW o, NEW s \in Maybe(Attributes), config \in Maybe(Attributes)
  PROVE  /\ Data(o, s) \in [id : BOOLEAN, attrs : Maybe(Attributes), prior : Maybe(Attributes),
                            answer : Statuses, adds : SUBSET Parts, drops : SUBSET Parts]
         /\ Data(o, s).id = (o # "create") /\ Data(o, s).prior = s
         /\ Data(o, s).attrs = IF o = "delete" THEN s ELSE config
<1>1. NoData \in [id : BOOLEAN, attrs : Maybe(Attributes), prior : Maybe(Attributes),
                  answer : Statuses, adds : SUBSET Parts, drops : SUBSET Parts]
  BY DEF NoData, Maybe, Statuses
<1>2. QED  BY <1>1 DEF Data

LEMMA SalvagedTyped == ASSUME Typing PROVE Salvaged \in Maybe(Attributes)
  BY DEF Typing, TypeOK, DataOK, Salvaged, Maybe

LEMMA TypingInit == Init => Typing
<1> SUFFICES ASSUME Init  PROVE Typing
  OBVIOUS
<1>1. object \in Maybe(Attributes) /\ state \in Maybe(Attributes) /\ config \in Maybe(Attributes)
  BY DefaultTyped, ConfigurationsTyped DEF Init, Maybe
<1>2. /\ stranded \in BOOLEAN /\ tainted \in BOOLEAN /\ replacing \in BOOLEAN
      /\ touched \in BOOLEAN /\ unanswered \in BOOLEAN
  BY DEF Init
<1>3. DataOK
  BY DEF Init, NoData, DataOK, Maybe, Statuses
<1>4. 1 \in Nat \ {0} /\ 0 \in 0..Twice /\ 1 \in 1..MaxConfigs /\ 0 \in 0..MaxMishaps
  BY AttributesAssumption DEF Twice
<1>5. TypeOK
  BY <1>1, <1>2, <1>3, <1>4 DEF Init, TypeOK, Kinds
<1>6. QED  BY <1>5 DEF Init, Typing

LEMMA DomainProgram ==
  ASSUME Typing  PROVE Len(Program) \in Nat /\ DOMAIN Program = 1..Len(Program)
<1> DEFINE S == [call : STRING, with : SUBSET STRING, when : SUBSET Guards,
                 quiet : BOOLEAN, careless : BOOLEAN]
<1>1. kind \in Kinds
  BY DEF Typing, TypeOK
<1>2. R.create \in Seq(S) /\ R.update \in Seq(S) /\ R.delete \in Seq(S)
  BY <1>1, HandlersAssumption DEF R, Kinds
<1> HIDE DEF S
<1>3. CASE op = "create"
  BY <1>2, <1>3 DEF Program
<1>4. CASE op = "update"
  BY <1>2, <1>4 DEF Program
<1>5. CASE op = "delete"
  BY <1>2, <1>5 DEF Program
<1>6. CASE op = "none"
  BY <1>6 DEF Program
<1>7. QED  BY <1>3, <1>4, <1>5, <1>6 DEF Typing, TypeOK

LEMMA TypingStep == Typing /\ [Next]_vars => Typing'
<1> SUFFICES ASSUME Typing, [Next]_vars  PROVE Typing'
  OBVIOUS
<1>a. /\ object \in Maybe(Attributes) /\ state \in Maybe(Attributes)
      /\ config \in Maybe(Attributes) /\ pc \in Nat \ {0} /\ DataOK
      /\ attempts \in 0..Twice /\ mishaps \in 0..MaxMishaps /\ Twice = 2 /\ kind \in Kinds
  BY DEF Typing, TypeOK, Twice
<1>b. Running => op # "none" /\ There(d.attrs)
  BY DEF Running, Typing
<1>c. stranded \in BOOLEAN /\ unanswered \in BOOLEAN /\ touched \in BOOLEAN /\ tainted \in BOOLEAN
  BY DEF Typing, TypeOK
<1>d. 0 \in 0..Twice /\ 1 \in Nat \ {0} /\ pc + 1 \in Nat \ {0}
  BY <1>a
<1>e. mishaps < MaxMishaps => mishaps + 1 \in 0..MaxMishaps
  BY <1>a, AttributesAssumption
<1>f. Len(Program) + 1 \in Nat \ {0}
  BY DomainProgram
<1>1. CASE BeginApply
  <2> DEFINE s == Refreshed  p == Planned(s)  o == IF p = "replace" THEN "delete" ELSE p
  <2>1. /\ op = "none" /\ op' = o /\ replacing' = (p = "replace")
        /\ d' = (IF o = "none" THEN NoData ELSE Data(o, s))
        /\ result' = (IF o = "none" THEN "ok" ELSE result)
        /\ state' = s /\ tainted' = (tainted /\ There(s)) /\ pc' = 1 /\ touched' = FALSE
        /\ object' = (IF Forgotten(object, s) THEN NoAttributes ELSE object)
        /\ attempts' = (IF attempts = Twice THEN Twice ELSE attempts + 1)
        /\ UNCHANGED << kind, config, unanswered, configs, mishaps >>
    BY <1>1 DEF BeginApply
  <2>2. stranded' = (stranded \/ (There(state) /\ Lost(object, s)))
    BY <1>1 DEF BeginApply
  <2>3. s \in Maybe(Attributes)
    BY RefreshedTyped
  <2>4. /\ p \in {"none", "create", "update", "delete", "replace"}
        /\ p \in {"create", "update", "replace"} => There(config)
        /\ p \in {"update", "delete", "replace"} => There(s)
    BY PlanTyped
  <2> HIDE DEF s, p
  <2>5. o \in {"none", "create", "update", "delete"}
    BY <2>4
  <2>6. DataOK'
    <3>1. CASE o = "none"
      BY <2>1, <3>1 DEF NoData, DataOK, Maybe, Statuses
    <3>2. CASE o # "none"
      BY <1>a, <2>1, <2>3, <3>2, DataTyped DEF DataOK
    <3>3. QED  BY <3>1, <3>2
  <2>7. o # "none" => d'.prior = s /\ d'.attrs = IF o = "delete" THEN s ELSE config
    BY <1>a, <2>1, <2>3, DataTyped
  <2>8. attempts' \in 0..Twice
    BY <1>a, <2>1
  <2>9. object' \in Maybe(Attributes) /\ state' \in Maybe(Attributes) /\ config' \in Maybe(Attributes)
    BY <1>a, <2>1, <2>3 DEF Maybe
  <2>10. stranded' \in BOOLEAN /\ unanswered' \in BOOLEAN /\ tainted' \in BOOLEAN
         /\ replacing' \in BOOLEAN /\ touched' \in BOOLEAN
    BY <1>c, <2>1, <2>2
  <2>11. TypeOK'
    <3>1. /\ kind' \in Kinds /\ op' \in {"none", "create", "update", "delete"}
          /\ pc' \in Nat \ {0} /\ result' \in {"none", "ok", "error", "refused"}
          /\ configs' \in 1..MaxConfigs /\ mishaps' \in 0..MaxMishaps
      BY <1>d, <2>1, <2>5 DEF Typing, TypeOK, Kinds
    <3>2. QED  BY <2>6, <2>8, <2>9, <2>10, <3>1 DEF TypeOK, Kinds
  <2>12. /\ op' # "none" => There(d'.attrs)
         /\ op' = "update" => There(d'.prior)
         /\ op' = "delete" => There(state')
         /\ replacing' => op' = "delete" /\ There(config')
    BY <2>1, <2>4, <2>5, <2>7
  <2>13. QED  BY <2>11, <2>12 DEF Typing, There
<1>2. CASE FailRefresh
  <2>1. TypeOK'
    BY <1>2 DEF FailRefresh, Typing, TypeOK, DataOK, Kinds
  <2>2. op' = "none" /\ replacing' = replacing /\ op = "none"
    BY <1>2 DEF FailRefresh
  <2>3. QED  BY <2>1, <2>2 DEF Typing
<1>3. CASE Import
  <2>1. Facing(Default) \in Attributes
    BY <1>3, <1>a, ThereTyped, DefaultTyped, FacingTyped DEF Import
  <2>2. /\ state' = Facing(Default) /\ tainted' = FALSE /\ result' = "none" /\ attempts' = 0
        /\ op = "none"
        /\ UNCHANGED << kind, object, stranded, config, op, pc, d, replacing, touched,
                        unanswered, configs, mishaps >>
    BY <1>3 DEF Import
  <2>3. TypeOK'
    BY <1>d, <2>1, <2>2 DEF Typing, TypeOK, DataOK, Kinds, Maybe
  <2>4. QED  BY <2>2, <2>3 DEF Typing
<1>4. CASE Configure
  <2>1. /\ configs < MaxConfigs /\ configs' = configs + 1 /\ result' = "none" /\ attempts' = 0
        /\ config' \in Maybe(Configurations) /\ op = "none"
        /\ UNCHANGED << kind, object, stranded, state, tainted, op, pc, d, replacing,
                        touched, unanswered, mishaps >>
    BY <1>4 DEF Configure
  <2>2. config' \in Maybe(Attributes)
    BY <2>1, ConfigurationsTyped DEF Maybe
  <2>3. configs' \in 1..MaxConfigs
    BY <2>1, AttributesAssumption DEF Typing, TypeOK
  <2>4. TypeOK'
    BY <1>d, <2>1, <2>2, <2>3 DEF Typing, TypeOK, DataOK, Kinds
  <2>5. ~replacing
    BY <2>1 DEF Typing
  <2>6. QED  BY <2>1, <2>4, <2>5 DEF Typing
<1>5. CASE Skip
  BY <1>5, <1>a, <1>b, <1>c, <1>d, GoOnTyped DEF Skip, DataOK
<1>6. CASE Call
  <2>1. Running /\ Current.call \in Calls
    BY <1>6 DEF Call, Due
  <2>2. object' \in Maybe(Attributes)
    BY <1>6, <2>1, OutcomesTyped DEF Call
  <2>3. There(object') => object'.status \in Statuses
    BY <2>2, ThereTyped DEF Attributes
  <2>4. d' = [d EXCEPT !.answer = IF There(object') THEN object'.status ELSE @,
                       !.adds = IF There(object') THEN @ \ object'.parts ELSE @,
                       !.drops = IF There(object') THEN @ \cap object'.parts ELSE @]
    BY <1>6 DEF Call
  <2>5. DataOK' /\ d'.prior = d.prior /\ d'.attrs = d.attrs
    BY <1>a, <2>3, <2>4 DEF DataOK
  <2>6. pc' \in Nat \ {0}
    BY <1>6, <1>a, <1>d DEF Call
  <2>7. stranded' \in BOOLEAN
    BY <1>6 DEF Call, Typing, TypeOK
  <2>8. UNCHANGED << kind, state, tainted, config, op, replacing, result,
                     touched, unanswered, attempts, configs, mishaps >>
    BY <1>6 DEF Call
  <2>9. QED
    BY <1>a, <1>b, <1>c, <2>1, <2>2, <2>5, <2>6, <2>7, <2>8, GoOnTyped
<1>7. CASE Pass
  <2>1. pc' \in Nat \ {0}
    BY <1>7, <1>d, <1>f DEF Pass
  <2>2. Running
    BY <1>7 DEF Pass, Due
  <2>3. QED  BY <1>7, <1>a, <1>b, <1>c, <2>1, <2>2, GoOnTyped DEF Pass, DataOK
<1>8. CASE Compute
  <2>1. Running /\ pc' \in Nat \ {0}
    BY <1>8, <1>d DEF Compute, Due
  <2>2. d.attrs \in Attributes
    BY <1>a, <1>b, <2>1, ThereTyped DEF DataOK
  <2>3. Here => object \in Attributes
    BY <1>a, ThereTyped DEF Here, Found
  <2>4. Wanted \subseteq Parts
    BY <2>2 DEF Wanted, Attributes
  <2>5. (IF There(d.prior) THEN d.prior.parts ELSE {}) \subseteq Parts
    BY <1>a, ThereTyped DEF DataOK, Attributes
  <2>6. DataOK' /\ d'.prior = d.prior /\ There(d'.attrs)
    <3>1. CASE \E b \in BOOLEAN : d' = [d EXCEPT !.id = b]
      BY <1>a, <1>b, <2>1, <3>1 DEF DataOK
    <3>2. CASE Current.call = "look" /\ Here /\ d' = [d EXCEPT !.answer = object.status]
      BY <1>a, <1>b, <2>1, <2>3, <3>2 DEF DataOK, Attributes
    <3>3. CASE Current.call = "diff_state"
               /\ LET before == IF There(d.prior) THEN d.prior.parts ELSE {} IN
                  d' = [d EXCEPT !.adds = Wanted \ before, !.drops = before \ Wanted]
      BY <1>a, <1>b, <2>1, <2>4, <2>5, <3>3 DEF DataOK
    <3>4. CASE Current.call = "diff_listing" /\ Here
               /\ d' = [d EXCEPT !.adds = Wanted \ object.parts, !.drops = object.parts \ Wanted]
      BY <1>a, <1>b, <2>1, <2>3, <2>4, <3>4 DEF DataOK, Attributes
    <3>5. CASE Current.call = "read_back" /\ Here /\ d' = [d EXCEPT !.attrs = Facing(@)]
      <4>1. Facing(d.attrs) \in Attributes
        BY <2>2, <2>3, <3>5, FacingTyped
      <4>2. There(Facing(d.attrs)) /\ Facing(d.attrs) \in Maybe(Attributes)
        BY <4>1, ThereTyped DEF Maybe
      <4>3. QED  BY <1>a, <3>5, <4>2 DEF DataOK
    <3>6. CASE Current.call = "diff_anew"
               /\ LET before == IF There(d.prior) THEN d.prior.parts ELSE {} IN
                  d' = [d EXCEPT !.adds = Wanted, !.drops = before \ Wanted]
      BY <1>a, <1>b, <2>1, <2>4, <2>5, <3>6 DEF DataOK
    <3>7. QED  BY <1>8, <3>1, <3>2, <3>3, <3>4, <3>5, <3>6 DEF Compute
  <2>7. UNCHANGED << kind, object, stranded, state, tainted, config, op, replacing, result,
                     touched, unanswered, attempts, configs, mishaps >>
    BY <1>8 DEF Compute
  <2>8. QED  BY <1>a, <1>c, <2>1, <2>6, <2>7, GoOnTyped
<1>9. CASE Return
  <2>1. NoAttributes \in Maybe(Attributes) /\ d.attrs \in Maybe(Attributes)
    BY <1>a DEF Maybe, DataOK
  <2>2. \/ End(object, NoAttributes, FALSE, "ok") \/ End(object, d.attrs, FALSE, "ok")
        \/ End(object, NoAttributes, FALSE, "error")
    BY <1>9 DEF Return
  <2>3. UNCHANGED << unanswered, attempts, mishaps >>
    BY <1>9 DEF Return
  <2>4. QED  BY <1>a, <1>c, <2>1, <2>2, <2>3, EndTyped
<1>10. CASE Replace
  <2>1. /\ op = "delete" /\ replacing /\ op' = "create" /\ pc' = 1 /\ replacing' = FALSE
        /\ d' = Data("create", NoAttributes) /\ state' = NoAttributes /\ tainted' = FALSE
        /\ UNCHANGED << kind, object, stranded, config, result, touched, unanswered,
                        attempts, configs, mishaps >>
    BY <1>10 DEF Replace
  <2>2. DataOK' /\ d'.attrs = config
    BY <1>a, <2>1, DataTyped DEF DataOK, Maybe
  <2>3. TypeOK'
    BY <1>d, <2>1, <2>2 DEF Typing, TypeOK, Kinds, Maybe
  <2>4. QED  BY <2>1, <2>2, <2>3 DEF Typing, There
<1>11. CASE Refused
  <2>1. PICK r \in {"error", "refused"} : Fails(object, r)
    BY <1>11 DEF Refused
  <2>2. PICK t \in BOOLEAN : End(object, Salvaged, t, r)
    BY <1>c, <2>1 DEF Fails, There
  <2>3. UNCHANGED << unanswered, attempts, mishaps >>
    BY <1>11 DEF Refused
  <2>4. QED  BY <1>a, <1>c, <2>2, <2>3, SalvagedTyped, EndTyped
<1>12. CASE Fail
  <2>1. Running /\ mishaps' \in 0..MaxMishaps /\ attempts' \in 0..Twice
    BY <1>12, <1>d, <1>e DEF Fail, Due
  <2>2. PICK o \in {object} \cup (IF Current.call \in Calls THEN Outcomes ELSE {}) :
          /\ unanswered' = (unanswered \/ (Current.call \in {"post", "ensure"} /\ o # object))
          /\ Fails(o, "error")
    BY <1>12 DEF Fail
  <2>3. o \in Maybe(Attributes)
    BY <1>a, <2>1, <2>2, OutcomesTyped
  <2>4. unanswered' \in BOOLEAN
    BY <2>2
  <2>5. PICK t \in BOOLEAN : End(o, Salvaged, t, "error")
    BY <1>c, <2>2 DEF Fails, There
  <2>6. QED  BY <2>1, <2>3, <2>4, <2>5, SalvagedTyped, EndTyped
<1>13. CASE Overlook
  <2>1. Running /\ mishaps' \in 0..MaxMishaps /\ attempts' \in 0..Twice /\ pc' \in Nat \ {0}
    BY <1>13, <1>d, <1>e DEF Overlook, Due
  <2>2. UNCHANGED << kind, object, stranded, state, tainted, config, op, d, replacing,
                     result, touched, unanswered, configs >>
    BY <1>13 DEF Overlook
  <2>3. QED  BY <1>a, <1>b, <1>c, <2>1, <2>2, GoOnTyped DEF DataOK
<1>14. CASE Outside
  <2>1. mishaps' \in 0..MaxMishaps /\ attempts' \in 0..Twice
    BY <1>14, <1>d, <1>e DEF Outside
  <2>2. object' \in Maybe(Attributes)
    BY <1>14, ConfigurationsTyped DEF Outside, Maybe
  <2>3. /\ touched' = TRUE
        /\ UNCHANGED << kind, stranded, state, tainted, config, op, pc, d, replacing,
                        result, unanswered, configs >>
    BY <1>14 DEF Outside
  <2>4. TypeOK'
    BY <2>1, <2>2, <2>3 DEF Typing, TypeOK, DataOK, Kinds
  <2>5. QED  BY <2>3, <2>4 DEF Typing, There
<1>15. CASE UNCHANGED vars
  <2>1. TypeOK'
    BY <1>15 DEF vars, Typing, TypeOK, DataOK, Kinds
  <2>2. QED  BY <1>15, <2>1 DEF vars, Typing, There
<1>16. QED
  BY <1>1, <1>2, <1>3, <1>4, <1>5, <1>6, <1>7, <1>8, <1>9, <1>10, <1>11, <1>12, <1>13,
     <1>14, <1>15 DEF Next

\* TypeCorrect: whatever the handlers, the variables hold what TypeOK says.
THEOREM TypeCorrect == Spec => []TypeOK
<1>1. Typing => TypeOK
  BY DEF Typing
<1>2. QED  BY <1>1, TypingInit, TypingStep, PTL DEF Spec

-----------------------------------------------------------------------------
\* Everything is where it was made: no attribute tells where requests look for it.
AtHome(x) == There(x) => x.home = Default.home
InPlace ==
  "home" \notin R.facets =>
    AtHome(object) /\ AtHome(state) /\ AtHome(config) /\ AtHome(d.attrs) /\ AtHome(d.prior)

LEMMA ConfigurationsAtHome ==
  ASSUME "home" \notin R.facets, NEW c \in Configurations
  PROVE  AtHome(c)
  BY DefaultTyped DEF Configurations, Choices, AtHome

LEMMA FoundAtHome ==
  ASSUME Typing, InPlace, "home" \notin R.facets
  PROVE  /\ Found(state) <=> There(object) /\ There(state)
         /\ op # "none" => (Here <=> There(object))
  BY DEF Typing, InPlace, AtHome, Found, Here

LEMMA RefreshedAtHome ==
  ASSUME Typing, InPlace, "home" \notin R.facets
  PROVE  AtHome(Refreshed) /\ (There(Refreshed) <=> There(object) /\ There(state))
<1>1. object \in Maybe(Attributes) /\ state \in Maybe(Attributes)
  BY DEF Typing, TypeOK
<1>2. CASE There(object) /\ There(state)
  <2>1. object \in Attributes /\ state \in Attributes
    BY <1>1, <1>2, ThereTyped
  <2>2. Facing(state) \in Attributes /\ Facing(state).home \in {state.home, object.home}
    BY <2>1, FacingTyped
  <2>3. Refreshed = Facing(state)
    BY <1>2, FoundAtHome DEF Refreshed
  <2>4. There(Facing(state))
    BY <2>2, ThereTyped DEF Maybe
  <2>5. QED  BY <1>2, <2>2, <2>3, <2>4 DEF InPlace, AtHome
<1>3. CASE ~(There(object) /\ There(state))
  <2>1. Refreshed = NoAttributes
    BY <1>3, FoundAtHome DEF Refreshed
  <2>2. QED  BY <1>3, <2>1 DEF AtHome, There
<1>4. QED  BY <1>2, <1>3

LEMMA OutcomesAtHome ==
  ASSUME Typing, InPlace, "home" \notin R.facets, Running, Current.call \in Calls,
         NEW o \in Outcomes
  PROVE  AtHome(o)
<1>1. There(d.attrs)
  BY DEF Typing, Running
<1>2. QED  BY <1>1, OutcomesTyped DEF InPlace, AtHome

LEMMA InPlaceInit == Init => InPlace
<1> SUFFICES ASSUME Init, "home" \notin R.facets  PROVE InPlace
  BY DEF InPlace
<1>1. AtHome(config)
  BY ConfigurationsAtHome DEF Init
<1>2. AtHome(object) /\ AtHome(state) /\ AtHome(d.attrs) /\ AtHome(d.prior)
  BY DEF Init, AtHome, There, NoData
<1>3. QED  BY <1>1, <1>2 DEF InPlace

LEMMA InPlaceStep == Typing /\ InPlace /\ [Next]_vars => InPlace'
<1> SUFFICES ASSUME Typing, InPlace, [Next]_vars, "home" \notin R'.facets  PROVE InPlace'
  BY DEF InPlace
<1>a. kind' = kind
  BY DEF Next, vars, BeginApply, FailRefresh, Import, Configure, Skip, Call, Pass, Compute,
         Return, Replace, Refused, Fail, Fails, End, Overlook, Outside
<1>b. "home" \notin R.facets
  BY <1>a DEF R
<1>c. AtHome(object) /\ AtHome(state) /\ AtHome(config) /\ AtHome(d.attrs) /\ AtHome(d.prior)
  BY <1>b DEF InPlace
<1>d. AtHome(NoAttributes)
  BY DEF AtHome, There
<1>e. AtHome(NoData.attrs) /\ AtHome(NoData.prior)
  BY <1>d DEF NoData
<1>f. SUFFICES AtHome(object') /\ AtHome(state') /\ AtHome(config') /\ AtHome(d'.attrs)
         /\ AtHome(d'.prior)
  BY DEF InPlace, AtHome, There, Default
<1>g. config \in Maybe(Attributes) /\ DataOK /\ object \in Maybe(Attributes)
  BY DEF Typing, TypeOK
<1>h. ASSUME NEW o, NEW s, NEW t, NEW r, End(o, s, t, r), AtHome(o), AtHome(s)
      PROVE  AtHome(object') /\ AtHome(state') /\ AtHome(config') /\ AtHome(d'.attrs)
         /\ AtHome(d'.prior)
  BY <1>c, <1>d, <1>e, <1>h DEF End
<1>i. AtHome(Salvaged)
  BY <1>c, <1>d DEF Salvaged
<1>j. ASSUME NEW q, NEW s \in Maybe(Attributes), AtHome(s)
      PROVE  AtHome(Data(q, s).attrs) /\ AtHome(Data(q, s).prior)
  BY <1>c, <1>g, <1>j, DataTyped
<1>k. NoAttributes \in Maybe(Attributes)
  BY DEF Maybe
<1>1. CASE BeginApply
  <2>1. /\ state' = Refreshed /\ config' = config
        /\ object' \in {object, NoAttributes}
        /\ \/ d' = NoData
           \/ \E q : d' = Data(q, Refreshed)
    BY <1>1 DEF BeginApply
  <2>2. AtHome(Refreshed) /\ Refreshed \in Maybe(Attributes)
    BY <1>b, RefreshedAtHome, RefreshedTyped
  <2>3. QED  BY <1>c, <1>d, <1>e, <1>j, <2>1, <2>2
<1>2. CASE Import
  <2>1. Facing(Default) \in Attributes /\ Facing(Default).home \in {Default.home, object.home}
        /\ There(object)
    BY <1>2, <1>g, ThereTyped, DefaultTyped, FacingTyped DEF Import
  <2>2. state' = Facing(Default) /\ UNCHANGED << object, config, d >>
    BY <1>2 DEF Import
  <2>3. QED  BY <1>c, <2>1, <2>2 DEF AtHome
<1>3. CASE Configure
  <2>1. config' \in Maybe(Configurations) /\ UNCHANGED << object, state, d >>
    BY <1>3 DEF Configure
  <2>2. AtHome(config')
    BY <1>b, <1>d, <2>1, ConfigurationsAtHome DEF Maybe
  <2>3. QED  BY <1>c, <2>1, <2>2
<1>4. CASE FailRefresh \/ Skip \/ Pass \/ Overlook \/ UNCHANGED vars
  BY <1>4, <1>c DEF FailRefresh, Skip, Pass, Overlook, vars
<1>5. CASE Call
  <2>1. Running /\ Current.call \in Calls /\ object' \in Outcomes
    BY <1>5 DEF Call, Due
  <2>2. AtHome(object')
    BY <1>b, <2>1, OutcomesAtHome
  <2>3. d'.attrs = d.attrs /\ d'.prior = d.prior /\ UNCHANGED << state, config >>
    BY <1>5, <1>g DEF Call, DataOK
  <2>4. QED  BY <1>c, <2>2, <2>3
<1>6. CASE Compute
  <2>1. UNCHANGED << object, state, config >> /\ d'.prior = d.prior
    BY <1>6, <1>g DEF Compute, DataOK
  <2>2. Running
    BY <1>6 DEF Compute, Due
  <2>3. d.attrs \in Attributes
    BY <1>g, <2>2, ThereTyped DEF Typing, DataOK, Running
  <2>4. d'.attrs = d.attrs \/ (Here /\ d'.attrs = Facing(d.attrs))
    BY <1>6, <1>g DEF Compute, DataOK
  <2>5. Here => object \in Attributes /\ There(object)
    BY <1>g, ThereTyped DEF Here, Found
  <2>6. Here => Facing(d.attrs).home \in {d.attrs.home, object.home}
    BY <2>3, <2>5, FacingTyped
  <2>7. There(d.attrs)
    BY <2>2 DEF Typing, Running
  <2>8. QED  BY <1>c, <2>1, <2>4, <2>5, <2>6, <2>7 DEF AtHome
<1>7. CASE Return
  <2>1. \/ End(object, NoAttributes, FALSE, "ok") \/ End(object, d.attrs, FALSE, "ok")
        \/ End(object, NoAttributes, FALSE, "error")
    BY <1>7 DEF Return
  <2>2. QED  BY <1>c, <1>d, <1>h, <2>1
<1>8. CASE Replace
  <2>1. /\ d' = Data("create", NoAttributes) /\ state' = NoAttributes
        /\ UNCHANGED << object, config >>
    BY <1>8 DEF Replace
  <2>2. QED  BY <1>c, <1>d, <1>j, <1>k, <2>1
<1>9. CASE Refused
  <2>1. \E t, r : End(object, Salvaged, t, r)
    BY <1>9 DEF Refused, Fails
  <2>2. QED  BY <1>c, <1>h, <1>i, <2>1
<1>10. CASE Fail
  <2>1. Running
    BY <1>10 DEF Fail, Due
  <2>2. PICK o, t : /\ o \in {object} \cup (IF Current.call \in Calls THEN Outcomes ELSE {})
                    /\ End(o, Salvaged, t, "error")
    BY <1>10 DEF Fail, Fails
  <2>3. AtHome(o)
    BY <1>b, <1>c, <2>1, <2>2, OutcomesAtHome
  <2>4. QED  BY <1>h, <1>i, <2>2, <2>3
<1>11. CASE Outside
  <2>1. /\ There(object) /\ There(object') => object'.home = object.home
        /\ UNCHANGED << state, config, d >>
    BY <1>11 DEF Outside
  <2>2. There(object)
    BY <1>11 DEF Outside
  <2>3. QED  BY <1>c, <2>1, <2>2 DEF AtHome
<1>12. QED
  BY <1>1, <1>2, <1>3, <1>4, <1>5, <1>6, <1>7, <1>8, <1>9, <1>10, <1>11 DEF Next

-----------------------------------------------------------------------------
\* What becomes of a single facet.
LEMMA MergeAt ==
  ASSUME NEW x, NEW y, NEW fs, NEW f \in Facets
  PROVE  Merge(x, y, fs)[f] = IF f \in fs THEN y[f] ELSE x[f]
  BY DEF Merge

LEMMA FacingAt ==
  ASSUME NEW x, NEW f \in Facets
  PROVE  /\ Facing(x)[f] \in {x[f], object[f]}
         /\ f \notin R.facets => Facing(x)[f] = x[f]
         /\ f \in R.facets \ R.read.unread /\ f # "parts" => Facing(x)[f] = object[f]
<1> DEFINE kept == R.read.unread \cup
              (IF "no_parts" \in R.read.unread /\ object.parts = {} THEN {"parts"} ELSE {})
           fs == R.facets \ kept
<1>1. Facing(x) = Merge(x, object, fs)
  BY DEF Facing
<1>2. f \notin R.facets => f \notin fs
  OBVIOUS
<1>3. f \in R.facets \ R.read.unread /\ f # "parts" => f \in fs
  OBVIOUS
<1> HIDE DEF fs
<1>4. QED  BY <1>1, <1>2, <1>3, MergeAt

LEMMA DefaultActive == Default.status = "ACTIVE"
  BY DEF Default

\* A request writes the facets that it carries, and at most the configured status.
LEMMA WrittenAt ==
  ASSUME NEW fs, NEW o \in Attributes, d.attrs \in Attributes, NEW w \in Written(o, fs)
  PROVE  /\ w.frozen = IF "frozen" \in fs THEN d.attrs.frozen ELSE o.frozen
         /\ w.home = IF "home" \in fs THEN d.attrs.home ELSE o.home
         /\ w.body = IF "body" \in fs THEN d.attrs.body ELSE o.body
         /\ w.parts = IF "parts" \in fs THEN d.attrs.parts ELSE o.parts
         /\ w.status \in {o.status, d.attrs.status}
         /\ fs \cap {"status", "status?"} = {} => w.status = o.status
         /\ "status" \in fs => w.status = d.attrs.status
<1> DEFINE m == Merge(o, d.attrs, fs \cap Facets)
<1>1. PICK s \in StatusAfter(fs, o.status) : w = [m EXCEPT !.status = s]
  BY DEF Written
<1>2. /\ s \in {o.status, d.attrs.status}
      /\ fs \cap {"status", "status?"} = {} => s = o.status
      /\ "status" \in fs => s = d.attrs.status
  BY DEF StatusAfter
<1>3. m \in Attributes
  BY MergeTyped
<1>4. \A f \in Facets : m[f] = IF f \in fs THEN d.attrs[f] ELSE o[f]
  BY MergeAt
<1>5. /\ m.frozen = IF "frozen" \in fs THEN d.attrs.frozen ELSE o.frozen
      /\ m.home = IF "home" \in fs THEN d.attrs.home ELSE o.home
      /\ m.body = IF "body" \in fs THEN d.attrs.body ELSE o.body
      /\ m.parts = IF "parts" \in fs THEN d.attrs.parts ELSE o.parts
  BY <1>4 DEF Facets
<1> HIDE DEF m
<1>6. /\ w.status = s /\ w.frozen = m.frozen /\ w.home = m.home /\ w.body = m.body
      /\ w.parts = m.parts
  BY <1>1, <1>3 DEF Attributes
<1>7. QED  BY <1>2, <1>5, <1>6

LEMMA CreatedAt ==
  ASSUME Typing, Running, NEW w \in Created
  PROVE  /\ w.home = d.attrs.home
         /\ w.body \in {Default.body, d.attrs.body} \/ (There(object) /\ w.body = object.body)
         /\ "body" \in Current.with => w.body = d.attrs.body
         /\ \/ w.status \in {"ACTIVE", d.attrs.status}
            \/ There(object) /\ w.status = object.status
            \/ "inactive" \in Current.with
<1>1. d.attrs \in Attributes
  BY ThereTyped DEF Typing, TypeOK, DataOK, Running
<1>2. There(object) => object \in Attributes
  BY ThereTyped DEF Typing, TypeOK
<1> DEFINE keep == Exists \/ (There(object) /\ R.identity = "singleton")
           new == [Default EXCEPT !.status =
                       IF "inactive" \in Current.with THEN "INACTIVE" ELSE "ACTIVE"]
           born == IF keep THEN {object} ELSE {new}
           fs == Current.with \cup {"frozen", "home"}
<1>3. PICK o \in born : w \in Written(o, fs)
  BY DEF Created
<1>4. /\ new \in Attributes /\ new.body = Default.body
      /\ new.status = "ACTIVE" \/ "inactive" \in Current.with
  BY DefaultTyped DEF Attributes, Statuses
<1>5. keep => There(object)
  BY DEF Exists
<1>6. (There(object) /\ o = object) \/ o = new
  BY <1>3, <1>5
<1>7. o \in Attributes
  BY <1>2, <1>4, <1>6
<1>8. "home" \in fs /\ ("body" \in fs <=> "body" \in Current.with)
  OBVIOUS
<1> HIDE DEF new, born, fs
<1>9. /\ w.home = d.attrs.home /\ w.body = IF "body" \in fs THEN d.attrs.body ELSE o.body
      /\ w.status \in {o.status, d.attrs.status}
  BY <1>1, <1>3, <1>7, <1>8, WrittenAt
<1>10. QED  BY <1>4, <1>6, <1>8, <1>9

\* What a call makes of the place, the attributes and the status of its object.
LEMMA CallAt ==
  ASSUME Typing, Running, Current.call \in Calls \ {"reset"}, Current.call \notin Creates,
         NEW w \in Outcomes, There(w)
  PROVE  /\ Here /\ There(object) /\ w.home = object.home /\ Current.call # "remove"
         /\ w.body = IF Current.call = "put" /\ "body" \in Current.with
                       THEN d.attrs.body ELSE object.body
         /\ Current.call # "deactivate" =>
              w.status \in {"ACTIVE", object.status, d.attrs.status}
         /\ ~MayActivate(Current) => w.status \in {"INACTIVE", object.status}
<1>1. object \in Maybe(Attributes) /\ d.attrs \in Attributes
  BY ThereTyped DEF Typing, TypeOK, DataOK, Running
<1>2. Here
  BY DEF Outcomes, Creates
<1>3. object \in Attributes /\ There(object) /\ object.home = d.attrs.home
  BY <1>1, <1>2, ThereTyped DEF Here, Found
<1>4. Current.call # "remove"
  BY <1>2 DEF Outcomes, There
<1>5. CASE Current.call = "put"
  <2>1. w \in Written(object, Current.with)
    BY <1>2, <1>5 DEF Outcomes, Creates
  <2>2. /\ w.home = object.home
        /\ w.body = IF "body" \in Current.with THEN d.attrs.body ELSE object.body
        /\ w.status \in {object.status, d.attrs.status}
        /\ Current.with \cap {"status", "status?"} = {} => w.status = object.status
    BY <1>1, <1>3, <2>1, WrittenAt
  <2>3. QED  BY <1>2, <1>3, <1>5, <2>2 DEF MayActivate
<1>6. CASE Current.call = "activate"
  <2>1. w = [object EXCEPT !.status = "ACTIVE"]
    BY <1>2, <1>6 DEF Outcomes, Creates
  <2>2. QED  BY <1>2, <1>3, <1>6, <2>1 DEF MayActivate, Attributes
<1>7. CASE Current.call = "deactivate"
  <2>1. w = [object EXCEPT !.status = "INACTIVE"]
    BY <1>2, <1>7 DEF Outcomes, Creates
  <2>2. QED  BY <1>2, <1>3, <1>7, <2>1 DEF Attributes
<1>8. CASE Current.call \in {"add", "add_all", "drop"}
  <2>1. \E ps : w = [object EXCEPT !.parts = ps]
    BY <1>2, <1>8 DEF Outcomes, Creates
  <2>2. QED  BY <1>2, <1>3, <1>8, <2>1 DEF Attributes
<1>9. QED  BY <1>4, <1>5, <1>6, <1>7, <1>8 DEF Calls, Creates

LEMMA CurrentStep ==
  ASSUME Typing, Running
  PROVE  /\ pc \in DOMAIN Program /\ Current \in Steps(Program) /\ Current \in AllSteps(R)
         /\ op = "update" => Program = R.update /\ Current \in Steps(R.update)
<1>1. pc \in DOMAIN Program
  BY DomainProgram DEF Running, Typing, TypeOK
<1>2. Current \in Steps(Program)
  BY <1>1 DEF Current, Steps
<1>3. op \in {"create", "update", "delete"}
  BY DEF Running, Typing, TypeOK
<1>4. QED  BY <1>1, <1>2, <1>3 DEF Program, AllSteps

\* Plain: a resource has the default in the facets that it does not have, and so
\* has its object in its attributes, and in its status if no step changes it.
AsDefault(x) == There(x) => \A f \in Facets \ R.facets : x[f] = Default[f]
NeverInactive(h) ==
  /\ "status" \notin h.facets
  /\ \A s \in AllSteps(h) : s.call # "deactivate" /\ "inactive" \notin s.with
ObjectPlain(x) ==
  There(x) => /\ "body" \notin R.facets => x.body = Default.body
              /\ NeverInactive(R) => x.status = "ACTIVE"
Plain ==
  /\ AsDefault(state) /\ AsDefault(config) /\ AsDefault(d.attrs) /\ AsDefault(d.prior)
  /\ ObjectPlain(object)

LEMMA ConfigurationsPlain ==
  ASSUME NEW c \in Configurations
  PROVE  AsDefault(c) /\ ObjectPlain(c)
<1>1. \A f \in Facets : c[f] = Default[f] \/ f \in R.facets
  BY DEF Configurations, Choices, Facets
<1>2. \A f \in Facets \ R.facets : c[f] = Default[f]
  BY <1>1
<1>3. "body" \in Facets /\ "status" \in Facets
  BY DEF Facets
<1>4. QED  BY <1>2, <1>3, DefaultActive DEF AsDefault, ObjectPlain, NeverInactive

LEMMA FacingPlain == ASSUME NEW x, There(x), AsDefault(x) PROVE AsDefault(Facing(x))
  BY FacingAt DEF AsDefault

LEMMA OutcomesPlain ==
  ASSUME Typing, Plain, Running, Current.call \in Calls, NEW o \in Outcomes
  PROVE  ObjectPlain(o)
<1>1. There(d.attrs) /\ AsDefault(d.attrs) /\ ObjectPlain(object) /\ "body" \in Facets /\ "status" \in Facets
  BY DEF Typing, Running, Plain, Facets
<1>2. /\ "body" \notin R.facets => d.attrs.body = Default.body
      /\ "status" \notin R.facets => d.attrs.status = "ACTIVE"
  BY <1>1, DefaultActive DEF AsDefault
<1>3. NeverInactive(R) => Current.call # "deactivate" /\ "inactive" \notin Current.with
                          /\ d.attrs.status = "ACTIVE"
  BY <1>2, CurrentStep DEF NeverInactive
<1> SUFFICES ASSUME There(o)
             PROVE  /\ "body" \notin R.facets => o.body = Default.body
                    /\ NeverInactive(R) => o.status = "ACTIVE"
  BY DEF ObjectPlain
<1>4. CASE Current.call \notin Creates \cup {"reset"}
  <2>1. /\ There(object) /\ o.body \in {d.attrs.body, object.body}
        /\ Current.call # "deactivate" => o.status \in {"ACTIVE", object.status, d.attrs.status}
    BY <1>4, CallAt
  <2>2. QED  BY <1>1, <1>2, <1>3, <2>1 DEF ObjectPlain
<1>5. CASE Current.call = "reset"
  <2>1. o = Default
    BY <1>5 DEF Outcomes, Creates
  <2>2. QED  BY <2>1, DefaultActive
<1>6. CASE Current.call = "ensure" /\ Exists
  <2>1. o = object
    BY <1>6 DEF Outcomes
  <2>2. QED  BY <1>1, <2>1 DEF ObjectPlain
<1>7. CASE Current.call \in Creates /\ ~(Current.call = "ensure" /\ Exists)
  <2>1. o \in Created
    BY <1>7 DEF Outcomes, Creates
  <2>2. /\ o.body \in {Default.body, d.attrs.body} \/ (There(object) /\ o.body = object.body)
        /\ \/ o.status \in {"ACTIVE", d.attrs.status}
           \/ There(object) /\ o.status = object.status
           \/ "inactive" \in Current.with
    BY <2>1, CreatedAt
  <2>3. QED  BY <1>1, <1>2, <1>3, <2>2 DEF ObjectPlain
<1>8. QED  BY <1>4, <1>5, <1>6, <1>7

LEMMA PlainInit == Init => Plain
<1> SUFFICES ASSUME Init  PROVE Plain
  OBVIOUS
<1>1. AsDefault(config)
  BY ConfigurationsPlain DEF Init
<1>2. ~There(state) /\ ~There(d.attrs) /\ ~There(d.prior) /\ object \in {Default, NoAttributes}
  BY DEF Init, There, NoData
<1>3. ObjectPlain(object)
  BY <1>2, DefaultActive DEF ObjectPlain, There
<1>4. QED  BY <1>1, <1>2, <1>3 DEF Plain, AsDefault

LEMMA KindStays == [Next]_vars => kind' = kind /\ R' = R
<1> SUFFICES ASSUME [Next]_vars  PROVE kind' = kind
  BY DEF R
<1>1. QED
  BY DEF Next, vars, BeginApply, FailRefresh, Import, Configure, Skip, Call, Pass, Compute,
         Return, Replace, Refused, Fail, Fails, End, Overlook, Outside

LEMMA PlainStep == Typing /\ Plain /\ [Next]_vars => Plain'
<1> SUFFICES ASSUME Typing, Plain, [Next]_vars  PROVE Plain'
  OBVIOUS
<1>a. kind' = kind /\ R' = R
  BY KindStays
<1>b. /\ AsDefault(state) /\ AsDefault(config) /\ AsDefault(d.attrs) /\ AsDefault(d.prior)
      /\ ObjectPlain(object)
  BY DEF Plain
<1>c. AsDefault(NoAttributes) /\ AsDefault(NoData.attrs) /\ AsDefault(NoData.prior)
      /\ ObjectPlain(NoAttributes)
  BY DEF AsDefault, There, NoData, ObjectPlain
<1>d. SUFFICES /\ AsDefault(state') /\ AsDefault(config') /\ AsDefault(d'.attrs)
               /\ AsDefault(d'.prior) /\ ObjectPlain(object')
  BY <1>a DEF Plain, AsDefault, ObjectPlain, There, Default
<1>e. config \in Maybe(Attributes) /\ DataOK /\ object \in Maybe(Attributes)
  BY DEF Typing, TypeOK
<1>f. ASSUME NEW o, NEW s, NEW t, NEW r, End(o, s, t, r), ObjectPlain(o), AsDefault(s)
      PROVE  /\ AsDefault(state') /\ AsDefault(config') /\ AsDefault(d'.attrs)
             /\ AsDefault(d'.prior) /\ ObjectPlain(object')
  BY <1>b, <1>c, <1>f DEF End
<1>g. AsDefault(Salvaged)
  BY <1>b, <1>c DEF Salvaged
<1>h. ASSUME NEW q, NEW s \in Maybe(Attributes), AsDefault(s)
      PROVE  AsDefault(Data(q, s).attrs) /\ AsDefault(Data(q, s).prior)
  BY <1>b, <1>e, <1>h, DataTyped
<1>i. NoAttributes \in Maybe(Attributes)
  BY DEF Maybe
<1>1. CASE BeginApply
  <2>1. /\ state' = Refreshed /\ config' = config
        /\ object' \in {object, NoAttributes}
        /\ \/ d' = NoData
           \/ \E q : d' = Data(q, Refreshed)
    BY <1>1 DEF BeginApply
  <2>2. Refreshed \in Maybe(Attributes)
    BY RefreshedTyped
  <2>3. AsDefault(Refreshed)
    <3>1. CASE Found(state)
      BY <1>b, <3>1, FacingPlain DEF Refreshed, Found
    <3>2. CASE ~Found(state)
      BY <1>c, <3>2 DEF Refreshed
    <3>3. QED  BY <3>1, <3>2
  <2>4. QED  BY <1>b, <1>c, <1>h, <2>1, <2>2, <2>3
<1>2. CASE Import
  <2>1. There(Default) /\ AsDefault(Default)
    BY DefaultTyped, ThereTyped DEF AsDefault, Maybe
  <2>2. state' = Facing(Default) /\ UNCHANGED << object, config, d >>
    BY <1>2 DEF Import
  <2>3. QED  BY <1>b, <2>1, <2>2, FacingPlain
<1>3. CASE Configure
  <2>1. config' \in Maybe(Configurations) /\ UNCHANGED << object, state, d >>
    BY <1>3 DEF Configure
  <2>2. AsDefault(config')
    BY <1>c, <2>1, ConfigurationsPlain DEF Maybe
  <2>3. QED  BY <1>b, <2>1, <2>2
<1>4. CASE FailRefresh \/ Skip \/ Pass \/ Overlook \/ UNCHANGED vars
  BY <1>4, <1>b DEF FailRefresh, Skip, Pass, Overlook, vars
<1>5. CASE Call
  <2>1. Running /\ Current.call \in Calls /\ object' \in Outcomes
    BY <1>5 DEF Call, Due
  <2>2. ObjectPlain(object')
    BY <2>1, OutcomesPlain
  <2>3. d'.attrs = d.attrs /\ d'.prior = d.prior /\ UNCHANGED << state, config >>
    BY <1>5, <1>e DEF Call, DataOK
  <2>4. QED  BY <1>b, <2>2, <2>3
<1>6. CASE Compute
  <2>1. UNCHANGED << object, state, config >> /\ d'.prior = d.prior
    BY <1>6, <1>e DEF Compute, DataOK
  <2>2. d'.attrs = d.attrs \/ (Here /\ d'.attrs = Facing(d.attrs))
    BY <1>6, <1>e DEF Compute, DataOK
  <2>3. Here => AsDefault(Facing(d.attrs))
    BY <1>b, FacingPlain DEF Here, Found
  <2>4. QED  BY <1>b, <2>1, <2>2, <2>3
<1>7. CASE Return
  <2>1. \/ End(object, NoAttributes, FALSE, "ok") \/ End(object, d.attrs, FALSE, "ok")
        \/ End(object, NoAttributes, FALSE, "error")
    BY <1>7 DEF Return
  <2>2. QED  BY <1>b, <1>c, <1>f, <2>1
<1>8. CASE Replace
  <2>1. /\ d' = Data("create", NoAttributes) /\ state' = NoAttributes
        /\ UNCHANGED << object, config >>
    BY <1>8 DEF Replace
  <2>2. QED  BY <1>b, <1>c, <1>h, <1>i, <2>1
<1>9. CASE Refused
  <2>1. \E t, r : End(object, Salvaged, t, r)
    BY <1>9 DEF Refused, Fails
  <2>2. QED  BY <1>b, <1>f, <1>g, <2>1
<1>10. CASE Fail
  <2>1. Running
    BY <1>10 DEF Fail, Due
  <2>2. \E o, t : /\ o \in {object} \cup (IF Current.call \in Calls THEN Outcomes ELSE {})
                  /\ End(o, Salvaged, t, "error")
    BY <1>10 DEF Fail, Fails
  <2>3. PICK o, t : /\ o = object \/ (Current.call \in Calls /\ o \in Outcomes)
                    /\ End(o, Salvaged, t, "error")
    BY <2>2
  <2>4. ObjectPlain(o)
    BY <1>b, <2>1, <2>3, OutcomesPlain
  <2>5. QED  BY <1>f, <1>g, <2>3, <2>4
<1>11. CASE Outside
  <2>1. object' \in Configurations \cup {NoAttributes} /\ UNCHANGED << state, config, d >>
    BY <1>11 DEF Outside
  <2>2. ObjectPlain(object')
    BY <1>c, <2>1, ConfigurationsPlain
  <2>3. QED  BY <1>b, <2>1, <2>2
<1>12. QED
  BY <1>1, <1>2, <1>3, <1>4, <1>5, <1>6, <1>7, <1>8, <1>9, <1>10, <1>11 DEF Next

-----------------------------------------------------------------------------
\* Unreplaced: an object that is left on purpose was never to be replaced.
Unreplaced ==
  Lasting(R) => ~tainted /\ ~replacing /\ (op = "create" /\ d.id => ~Running)

\* Whether the call before was the creation, and the removal was made.
JustMade == pc > 1 /\ pc - 1 \in DOMAIN Program /\ Program[pc - 1].call \in Creates
Removed == \E i \in DOMAIN Program :
             i < pc /\ Program[i].call = "remove" /\ Program[i].when = {} /\ ~Program[i].careless

Reread == \E i \in DOMAIN Program : i < pc /\ Program[i].call = "read_back"
WasFound == \E i \in DOMAIN Program : i < pc /\ Finds(Program[i])

\* Located: where the parent may change, the object is where the state says, or
\* where the handler that runs looks for it, unless an update has yet to find it.
Located ==
  Own(R) /\ "home" \in R.facets /\ There(object) =>
    /\ op = "none" => There(state) /\ object.home = state.home
    /\ op \in {"create", "delete"} => object.home = d.attrs.home
    /\ op = "update" => object.home = d.prior.home /\ (WasFound => object.home = d.attrs.home)
    /\ op = "delete" => object.home = state.home

\* Kept: what NothingStranded rests on.  Between applies and in a creation, an
\* object without a known ID is one whose creation got no answer, or whose ID is
\* set next; an update loses the ID only with the object; a deletion leaves none.
Kept ==
  /\ Disciplined(R) => (stranded => unanswered)
  /\ Own(R) =>
       /\ op = "none" /\ There(object) /\ ~There(state) => unanswered
       /\ op = "create" /\ There(object) /\ ~d.id => unanswered \/ JustMade
       /\ op = "update" => (There(object) => d.id) /\ (d.id \/ Reread)
       /\ op = "delete" /\ Removed => ~There(object)

\* The step after a creation sets the ID.
LEMMA JustMadeSetsId ==
  ASSUME Typing, Own(R), op = "create", JustMade
  PROVE  /\ Running /\ Current.call = "set_id" /\ Due /\ ~Current.careless
<1>1. Program = R.create /\ IdFirst(Program)
  BY DEF Program, Own
<1>2. Len(Program) \in Nat /\ DOMAIN Program = 1..Len(Program) /\ pc \in Nat
  BY DomainProgram DEF Typing, TypeOK
<1>3. PICK i \in DOMAIN Program : i = pc - 1 /\ Program[i].call \in Creates
  BY DEF JustMade
<1>4. /\ i < Len(Program) /\ Program[i + 1].call = "set_id"
      /\ Program[i + 1].when = {} /\ ~Program[i + 1].careless
  BY <1>1, <1>3 DEF IdFirst
<1>5. i + 1 = pc /\ pc <= Len(Program)
  <2> DEFINE n == Len(Program)
  <2>1. n \in Nat /\ pc \in Nat /\ i \in 1..n /\ i < n /\ i = pc - 1
    BY <1>2, <1>3, <1>4
  <2> HIDE DEF n
  <2>2. i + 1 = pc /\ pc <= n
    BY <2>1
  <2>3. QED  BY <2>2 DEF n
<1>6. QED  BY <1>4, <1>5 DEF Running, Current, Due

\* Updates and deletions make no object, and only a creation makes one.
LEMMA NotMade ==
  ASSUME Typing, Running, Current.call \in Calls, NEW o \in Outcomes
  PROVE  /\ Current.call \notin Creates => There(object)
         /\ Own(R) /\ op = "delete" => There(object)
         /\ Own(R) /\ op = "update" /\ Reread => There(object)
<1>1. Current.call \notin Creates => There(object)
  BY DEF Outcomes, Creates, Here, Found
<1>2. pc \in DOMAIN Program
  BY CurrentStep
<1>3. Own(R) /\ op = "delete" => Current.call \notin Creates
  BY <1>2 DEF Own, CreatesNothing, Program, Current
<1>4. Own(R) /\ op = "update" /\ Reread => Current.call \notin Creates
  BY <1>2 DEF Own, AnewFirst, Program, Current, Reread
<1>5. QED  BY <1>1, <1>3, <1>4

\* A disciplined handler is of one of three sorts.
LEMMA Sorts ==
  ASSUME Disciplined(R)
  PROVE  \/ Own(R)
         \/ /\ "home" \notin R.facets
            /\ R.identity \in {"singleton", "imported"} \/ (R.identity = "keyed" /\ Retained)
  BY DEF Disciplined, Retained

\* The end of an apply strands nothing.
LEMMA KeptAtEnd ==
  ASSUME Typing, Kept, NEW o, NEW s, NEW t, NEW r, End(o, s, t, r), unanswered => unanswered',
         Own(R) /\ There(o) /\ ~There(s) => unanswered' \/ (LetGo /\ R.identity = "assigned")
  PROVE  Kept'
<1>1. kind' = kind /\ op' = "none" /\ state' = s /\ object' \in {o, NoAttributes}
      /\ stranded' = (stranded \/ (Lost(o, s) /\ ~LetGo))
  BY DEF End
<1>2. R' = R
  BY <1>1 DEF R
<1>3. Disciplined(R) /\ stranded' => unanswered'
  <2> SUFFICES ASSUME Disciplined(R), stranded', ~unanswered'  PROVE FALSE
    OBVIOUS
  <2>1. Lost(o, s) /\ ~LetGo
    BY <1>1 DEF Kept
  <2>2. R.identity \in {"assigned", "keyed"} /\ There(o) /\ ~There(s)
    BY <2>1 DEF Lost
  <2>3. ~(R.identity = "keyed" /\ Retained)
    BY <2>1 DEF LetGo
  <2>4. QED  BY <2>1, <2>2, <2>3, Sorts
<1>4. Own(R) /\ There(object') /\ ~There(state') => unanswered'
  <2>1. Forgotten(o, s) => ~There(object')
    BY DEF End, There
  <2>2. There(object') => There(o)
    BY <1>1 DEF There
  <2>3. QED  BY <1>1, <2>1, <2>2 DEF Forgotten, Lost, There
<1>5. QED  BY <1>1, <1>2, <1>3, <1>4 DEF Kept

\* A step leaves behind what was behind before, and itself.
LEMMA BehindNext ==
  ASSUME Typing, Running, Program' = Program, pc' \in Nat, pc' >= pc
  PROVE  /\ Reread => Reread'
         /\ Current.call = "read_back" /\ pc' = pc + 1 => Reread'
         /\ pc' \in {pc, pc + 1} => \/ Removed' => Removed
                                    \/ Current.call = "remove" /\ Current.when = {} /\ ~Current.careless
         /\ pc' \in {pc, pc + 1} => (WasFound' => WasFound) \/ Finds(Current)
<1> DEFINE n == Len(Program)
<1>1. DOMAIN Program = 1..n /\ n \in Nat /\ pc \in 1..n
  BY DomainProgram DEF Running, Typing, TypeOK
<1> HIDE DEF n
<1>2. \A i \in 1..n : /\ i < pc => i < pc'
                      /\ pc' \in {pc, pc + 1} /\ i < pc' => i < pc \/ i = pc
                      /\ pc' = pc + 1 /\ i = pc => i < pc'
  BY <1>1
<1>3. Reread => Reread'
  BY <1>1, <1>2 DEF Reread
<1>4. Current.call = "read_back" /\ pc' = pc + 1 => Reread'
  BY <1>1, <1>2 DEF Reread, Current
<1>5. ASSUME pc' \in {pc, pc + 1}, Removed'
      PROVE  Removed \/ (Current.call = "remove" /\ Current.when = {} /\ ~Current.careless)
  BY <1>1, <1>2, <1>5 DEF Removed, Current
<1>6. ASSUME pc' \in {pc, pc + 1}, WasFound'  PROVE WasFound \/ Finds(Current)
  BY <1>1, <1>2, <1>6 DEF WasFound, Current
<1>7. QED  BY <1>3, <1>4, <1>5, <1>6

\* At its end a deletion has made the removal.
LEMMA RemovalMade ==
  ASSUME Typing, Own(R), ~Lasting(R), op = "delete", pc > Len(Program)
  PROVE  Removed
<1> DEFINE n == Len(Program)
<1>1. Program = R.delete /\ Removes(Program)
  BY DEF Program, Own
<1>2. DOMAIN Program = 1..n /\ n \in Nat /\ pc \in Nat /\ pc > n
  BY DomainProgram DEF Typing, TypeOK
<1> HIDE DEF n
<1>3. PICK i \in DOMAIN Program :
        Program[i].call = "remove" /\ Program[i].when = {} /\ ~Program[i].careless
  BY <1>1 DEF Removes
<1>4. i < pc
  BY <1>2, <1>3
<1>5. QED  BY <1>3, <1>4 DEF Removed

\* And where the parent may change, an update has found the object.
LEMMA UpdateFound ==
  ASSUME Typing, Own(R), "home" \in R.facets, op = "update", pc > Len(Program)
  PROVE  WasFound
<1> DEFINE n == Len(Program)
<1>1. Program = R.update /\ \E i \in DOMAIN Program : Finds(Program[i])
  BY DEF Program, Own, Anchored
<1>2. DOMAIN Program = 1..n /\ n \in Nat /\ pc \in Nat /\ pc > n
  BY DomainProgram DEF Typing, TypeOK
<1> HIDE DEF n
<1>3. PICK i \in DOMAIN Program : Finds(Program[i])
  BY <1>1
<1>4. i < pc
  BY <1>2, <1>3
<1>5. QED  BY <1>3, <1>4 DEF WasFound

\* Nothing is behind as a handler begins.
LEMMA NothingBehind ==
  ASSUME Typing, kind' = kind, pc' = 1, op' \in {"create", "update", "delete"}
  PROVE  ~Removed' /\ ~Reread' /\ ~WasFound'
<1> DEFINE S == [call : STRING, with : SUBSET STRING, when : SUBSET Guards,
                 quiet : BOOLEAN, careless : BOOLEAN]
<1>1. R.create \in Seq(S) /\ R.update \in Seq(S) /\ R.delete \in Seq(S) /\ R' = R
  BY HandlersAssumption DEF Typing, TypeOK, R, Kinds
<1> HIDE DEF S
<1>2. Program' \in Seq(S)
  BY <1>1 DEF Program
<1>3. \A i \in DOMAIN Program' : ~(i < 1)
  BY <1>2
<1>4. QED  BY <1>3 DEF Removed, Reread, WasFound

-----------------------------------------------------------------------------
LEMMA UnreplacedInit == Init => Unreplaced
  BY DEF Init, Unreplaced

LEMMA UnreplacedStep == Typing /\ Plain /\ Unreplaced /\ [Next]_vars => Unreplaced'
<1> SUFFICES ASSUME Typing, Plain, Unreplaced, [Next]_vars, Lasting(R)
             PROVE  ~tainted' /\ ~replacing' /\ (op' = "create" /\ d'.id => ~Running')
  BY KindStays DEF Unreplaced
<1>a. kind' = kind /\ R' = R
  BY KindStays
<1>b. ~tainted /\ ~replacing /\ (op = "create" /\ d.id => ~Running)
  BY DEF Unreplaced
<1>d. DataOK
  BY DEF Typing, TypeOK
<1>c. ASSUME Running, Fails(object, result') \/ \E o : Fails(o, "error")
      PROVE  ~tainted' /\ ~replacing' /\ op' = "none"
  <2>1. ~tainted' <=> ~(IF op = "create" THEN There(Salvaged) ELSE tainted)
    BY <1>c DEF Fails, End
  <2>2. op = "create" => ~There(Salvaged)
    BY <1>b, <1>c DEF Salvaged, There
  <2>3. QED  BY <1>b, <1>c, <2>1, <2>2 DEF Fails, End
<1>1. CASE BeginApply
  <2> DEFINE s == Refreshed  p == Planned(s)
  <2>1. /\ tainted' = (tainted /\ There(s)) /\ replacing' = (p = "replace")
        /\ op' = (IF p = "replace" THEN "delete" ELSE p)
        /\ d' = IF op' = "none" THEN NoData ELSE Data(op', s)
    BY <1>1 DEF BeginApply
  <2>2. s \in Maybe(Attributes) /\ config \in Maybe(Attributes)
    BY RefreshedTyped DEF Typing, TypeOK
  <2>3. There(s) => s.frozen = Default.frozen
    <3> SUFFICES ASSUME There(s)  PROVE s.frozen = Default.frozen
      OBVIOUS
    <3>1. There(state) /\ s = Facing(state)
      BY DEF Refreshed, Found, There
    <3>2. AsDefault(Facing(state))
      BY <3>1, FacingPlain DEF Plain
    <3>3. "frozen" \in Facets \ R.facets
      BY DEF Lasting, Facets
    <3> HIDE DEF s
    <3>4. QED  BY <3>1, <3>2, <3>3 DEF AsDefault
  <2>4. There(config) => config.frozen = Default.frozen
    BY DEF Plain, AsDefault, Lasting, Facets
  <2>5. p # "replace"
    <3> HIDE DEF s
    <3>1. QED  BY <1>b, <2>3, <2>4 DEF Planned, Lasting
  <2> HIDE DEF s, p
  <2>6. op' = "create" => ~d'.id
    BY <2>1, <2>2, DataTyped
  <2>7. QED  BY <1>b, <2>1, <2>5, <2>6
<1>2. CASE FailRefresh \/ Import \/ Configure \/ UNCHANGED vars
  <2>1. ~tainted' /\ UNCHANGED << op, pc, d, replacing >>
    BY <1>2, <1>b DEF FailRefresh, Import, Configure, vars
  <2>2. Running' <=> Running
    BY <1>a, <2>1 DEF Running, Program
  <2>3. QED  BY <1>b, <2>1, <2>2
<1>3. CASE Skip \/ Pass \/ Overlook \/ Outside
  <2>1. /\ tainted' = tainted /\ replacing' = replacing /\ op' = op /\ d' = d
        /\ Running \/ pc' = pc
    BY <1>3 DEF Skip, Pass, Overlook, Outside, Due
  <2>2. pc' = pc => (Running' <=> Running)
    BY <1>a, <2>1 DEF Running, Program
  <2>3. QED  BY <1>b, <2>1, <2>2
<1>4. CASE Call
  <2>1. Running /\ UNCHANGED << tainted, replacing, op >> /\ d'.id = d.id
    BY <1>4 DEF Call, Due, Typing, TypeOK, DataOK
  <2>2. QED  BY <1>b, <2>1
<1>5. CASE Compute
  <2>1. /\ Running /\ UNCHANGED << tainted, replacing, op >> /\ pc' = pc + 1
        /\ d'.id => d.id \/ Current.call = "set_id"
    BY <1>5, <1>d DEF Compute, Due, DataOK
  <2>2. ASSUME op = "create", Current.call = "set_id"  PROVE ~Running'
    <3> DEFINE n == Len(Program)
    <3>1. n \in Nat
      BY DomainProgram
    <3>2. pc \in DOMAIN Program
      BY <2>1, CurrentStep
    <3>3. Program = R.create /\ Program' = Program
      BY <1>a, <2>1, <2>2 DEF Program
    <3>4. pc = n
      BY <2>2, <3>2, <3>3 DEF Lasting, Current
    <3>5. Len(Program') = n
      BY <3>3
    <3> HIDE DEF n
    <3>6. ~(pc' <= n)
      BY <2>1, <3>1, <3>4
    <3>7. QED  BY <3>5, <3>6 DEF Running
  <2>3. QED  BY <1>b, <2>1, <2>2
<1>6. CASE Return
  <2>1. ~tainted' /\ ~replacing' /\ op' = "none"
    BY <1>6 DEF Return, End
  <2>2. QED  BY <2>1
<1>7. CASE Replace
  BY <1>7, <1>b DEF Replace
<1>8. CASE Refused
  <2>1. Running /\ Fails(object, result')
    BY <1>8 DEF Refused, Due, Fails, End
  <2>2. QED  BY <1>c, <2>1
<1>9. CASE Fail
  <2>1. Running /\ \E o : Fails(o, "error")
    BY <1>9 DEF Fail, Due
  <2>2. QED  BY <1>c, <2>1
<1>10. QED
  BY <1>1, <1>2, <1>3, <1>4, <1>5, <1>6, <1>7, <1>8, <1>9 DEF Next

-----------------------------------------------------------------------------
\* A call leaves the object where the handler was going to find it.
LEMMA LocatedCall ==
  ASSUME Typing, Located, Own(R), "home" \in R.facets, Running,
         NEW o, o = object \/ (Current.call \in Calls /\ o \in Outcomes), There(o)
  PROVE  /\ op \in {"create", "delete"} => o.home = d.attrs.home
         /\ op = "update" => o.home = d.prior.home /\ (o # object => o.home = d.attrs.home)
                             /\ (WasFound => o.home = d.attrs.home)
         /\ op = "delete" => o.home = state.home
<1>1. CASE o = object
  BY <1>1 DEF Located
<1>2. CASE Current.call \in Calls /\ o \in Outcomes
  <2>1. Anchored(R) /\ op \in {"create", "update", "delete"}
    BY DEF Own, Running, Typing, TypeOK
  <2>2. Current.call # "reset" /\ Current \in AllSteps(R)
    BY <2>1, CurrentStep DEF Anchored
  <2>3. CASE Current.call \notin Creates
    <3>1. Here /\ There(object) /\ o.home = object.home
      BY <1>2, <2>2, <2>3, CallAt
    <3>2. object.home = d.attrs.home
      BY <3>1 DEF Here, Found
    <3>3. QED  BY <3>1, <3>2 DEF Located
  <2>4. CASE Current.call \in Creates
    <3>1. op = "create"
      <4>1. op # "update"
        BY <2>1, <2>4, CurrentStep DEF Anchored
      <4>2. op # "delete"
        <5>1. pc \in DOMAIN Program /\ (op = "delete" => Program = R.delete)
          BY CurrentStep DEF Program
        <5>2. QED  BY <2>4, <5>1 DEF Own, CreatesNothing, Current
      <4>3. QED  BY <2>1, <4>1, <4>2
    <3>2. ~Exists
      BY <2>1 DEF Exists, Anchored
    <3>3. o \in Created
      BY <1>2, <2>4, <3>2 DEF Outcomes, Creates
    <3>4. QED  BY <3>1, <3>3, CreatedAt
  <2>5. QED  BY <2>3, <2>4
<1>3. QED  BY <1>1, <1>2

LEMMA LocatedInit == Init => Located
  BY DEF Init, Located, Own, Anchored, There

LEMMA LocatedStep ==
  Typing /\ Kept /\ Located /\ [Next]_vars => Located'
<1> SUFFICES ASSUME Typing, Kept, Located, [Next]_vars, Own(R), "home" \in R.facets,
                    There(object')
             PROVE  /\ op' = "none" => There(state') /\ object'.home = state'.home
                    /\ op' \in {"create", "delete"} => object'.home = d'.attrs.home
                    /\ op' = "update" => /\ object'.home = d'.prior.home
                                         /\ WasFound' => object'.home = d'.attrs.home
                    /\ op' = "delete" => object'.home = state'.home
  BY KindStays DEF Located, There
<1>a. kind' = kind /\ R' = R /\ Anchored(R) /\ R.identity = "assigned" /\ R.framework
  BY KindStays DEF Own, Anchored
<1>b. There(object) => /\ op = "none" => There(state) /\ object.home = state.home
                       /\ op \in {"create", "delete"} => object.home = d.attrs.home
                       /\ op = "update" => /\ object.home = d.prior.home
                                           /\ WasFound => object.home = d.attrs.home
                       /\ op = "delete" => object.home = state.home
  BY DEF Located
<1>c. /\ object \in Maybe(Attributes) /\ state \in Maybe(Attributes) /\ config \in Maybe(Attributes)
      /\ pc \in Nat /\ DataOK
  BY DEF Typing, TypeOK
<1>d. op' = op => Program' = Program
  BY <1>a DEF Program
<1>e. Running => op \in {"create", "update", "delete"}
  BY DEF Running, Typing, TypeOK
\* The end of a handler: the state says where the object is.
<1>f. ASSUME NEW o, NEW s, NEW t, NEW r, End(o, s, t, r), There(o) /\ There(s) => o.home = s.home
      PROVE  op' = "none" /\ There(state') /\ object'.home = state'.home
  <2>1. object' = o /\ There(o) /\ There(s) /\ state' = s /\ op' = "none"
    BY <1>a, <1>f DEF End, Forgotten, Lost, There
  <2>2. QED  BY <1>f, <2>1
<1>g. ASSUME Running, NEW o, There(o), There(Salvaged),
             o = object \/ (Current.call \in Calls /\ o \in Outcomes)
      PROVE  o.home = Salvaged.home
  <2>1. /\ op \in {"create", "delete"} => o.home = d.attrs.home
        /\ op = "update" => o.home = d.prior.home
        /\ op = "delete" => o.home = state.home
    BY <1>g, LocatedCall
  <2>2. QED  BY <1>a, <1>e, <1>g, <2>1 DEF Salvaged, There
\* A step that leaves the object and where the handler looks for it.
<1>h. ASSUME Running, UNCHANGED << object, state, op >>, d'.prior = d.prior,
             d'.attrs = d.attrs \/ (op # "update" /\ d'.attrs.home = object.home),
             op = "update" => (WasFound' => WasFound)
      PROVE  /\ op' = "none" => There(state') /\ object'.home = state'.home
             /\ op' \in {"create", "delete"} => object'.home = d'.attrs.home
             /\ op' = "update" => /\ object'.home = d'.prior.home
                                  /\ WasFound' => object'.home = d'.attrs.home
             /\ op' = "delete" => object'.home = state'.home
  <2>1. There(object)
    BY <1>h DEF There
  <2>2. QED  BY <1>b, <1>e, <1>h, <2>1
<1>i. Running /\ op = "update" => /\ Current.call \notin Creates \cup {"read_back", "find"}
  BY <1>a, CurrentStep DEF Anchored
<1>1. CASE BeginApply
  <2> DEFINE s == Refreshed  p == Planned(s)  o == IF p = "replace" THEN "delete" ELSE p
  <2>1. /\ op = "none" /\ op' = o /\ d' = (IF o = "none" THEN NoData ELSE Data(o, s))
        /\ state' = s /\ pc' = 1
        /\ object' = (IF Forgotten(object, s) THEN NoAttributes ELSE object)
    BY <1>1 DEF BeginApply
  <2>2. object' = object /\ There(object) /\ There(state) /\ object.home = state.home
    BY <1>b, <2>1 DEF There
  <2>3. object \in Attributes /\ state \in Attributes
    BY <1>c, <2>2, ThereTyped
  <2>4. s = Facing(state) /\ s.home = object.home
    <3>1. Found(state)
      BY <2>2 DEF Found
    <3>2. QED  BY <2>2, <2>3, <3>1, FacingTyped DEF Refreshed
  <2>5. s \in Attributes /\ There(s)
    BY <2>3, <2>4, FacingTyped, ThereTyped DEF Maybe
  <2>6. /\ p \in {"none", "create", "update", "delete", "replace"}
        /\ p = "create" => ~There(s)
    BY PlanTyped
  <2>7. s \in Maybe(Attributes)
    BY <2>5 DEF Maybe
  <2> HIDE DEF s, p
  <2>8. o \in {"none", "update", "delete"}
    BY <2>5, <2>6
  <2> HIDE DEF o
  <2>9. op' = "update" => ~WasFound'
    BY <1>a, <2>1, NothingBehind
  <2>10. o # "none" => d'.prior = s /\ (o = "delete" => d'.attrs = s)
    BY <1>c, <2>1, <2>7, DataTyped
  <2>11. QED  BY <2>1, <2>2, <2>4, <2>5, <2>8, <2>9, <2>10
<1>2. CASE FailRefresh \/ Configure
  <2>1. UNCHANGED << object, state, op >> /\ op = "none"
    BY <1>2 DEF FailRefresh, Configure
  <2>2. QED  BY <1>b, <2>1 DEF There
<1>3. CASE Import
  BY <1>3, <1>a DEF Import
<1>4. CASE Skip \/ Overlook
  <2>1. /\ Running /\ UNCHANGED << object, state, op, d >> /\ pc' = pc + 1
        /\ ~Due \/ Current.careless
    BY <1>4 DEF Skip, Overlook, Due
  <2>2. ~Finds(Current)
    BY <2>1 DEF Finds, Due
  <2>3. WasFound' => WasFound
    <3>1. pc' \in Nat /\ pc' >= pc
      BY <1>c, <2>1
    <3>2. QED  BY <1>d, <2>1, <2>2, <3>1, BehindNext
  <2>4. QED  BY <1>h, <2>1, <2>3
<1>5. CASE Pass
  <2>1. /\ Running /\ UNCHANGED << object, state, op, d >>
        /\ op = "update" => pc' = pc + 1
        /\ Current.call # "put" \/ Current.quiet
    BY <1>5, <1>i DEF Pass, Due, Idle
  <2>2. op = "update" => (WasFound' => WasFound)
    <3>1. op = "update" => pc' \in Nat /\ pc' >= pc
      BY <1>c, <2>1
    <3>2. QED  BY <1>d, <2>1, <3>1, BehindNext DEF Finds
  <2>3. QED  BY <1>h, <2>1, <2>2
<1>6. CASE Call
  <2>1. /\ Running /\ Current.call \in Calls /\ object' \in Outcomes
        /\ UNCHANGED << state, op >> /\ d'.attrs = d.attrs /\ d'.prior = d.prior
        /\ pc' \in {pc, pc + 1}
    BY <1>6, <1>c DEF Call, Due, DataOK
  <2>2. /\ op \in {"create", "delete"} => object'.home = d.attrs.home
        /\ op = "update" => /\ object'.home = d.prior.home
                            /\ object' # object => object'.home = d.attrs.home
        /\ op = "delete" => object'.home = state.home
    BY <2>1, LocatedCall
  <2>3. op = "update" => object'.home = d.attrs.home
    <3>1. op = "update" => Here
      BY <1>i, <2>1 DEF Outcomes, Creates
    <3>2. Here => object.home = d.attrs.home
      BY DEF Here, Found
    <3>3. QED  BY <2>2, <3>1, <3>2
  <2>4. QED  BY <1>e, <2>1, <2>2, <2>3
<1>7. CASE Compute
  <2>1. /\ Running /\ UNCHANGED << object, state, op >> /\ pc' = pc + 1
        /\ d'.prior = d.prior /\ Current.call # "put"
        /\ d'.attrs = d.attrs \/ (Current.call = "read_back" /\ Here /\ d'.attrs = Facing(d.attrs))
    BY <1>7, <1>c DEF Compute, Due, DataOK
  <2>2. WasFound' => WasFound
    <3>1. pc' \in Nat /\ pc' >= pc
      BY <1>c, <2>1
    <3>2. QED  BY <1>d, <2>1, <3>1, BehindNext DEF Finds
  <2>3. Here => object \in Attributes /\ d.attrs \in Attributes /\ object.home = d.attrs.home
    BY <1>c, ThereTyped DEF Here, Found, DataOK
  <2>4. d'.attrs = d.attrs \/ (op # "update" /\ d'.attrs.home = object.home)
    BY <1>i, <2>1, <2>3, FacingTyped
  <2>5. QED  BY <1>h, <2>1, <2>2, <2>4
<1>8. CASE Return
  <2>1. op \in {"create", "update", "delete"} /\ pc > Len(Program)
    BY <1>8 DEF Return, Typing, TypeOK
  <2>2. There(object) /\ op # "delete" => object.home = d.attrs.home
    BY <1>b, <2>1, UpdateFound
  <2>3. \/ End(object, NoAttributes, FALSE, "ok") \/ End(object, NoAttributes, FALSE, "error")
        \/ op # "delete" /\ End(object, d.attrs, FALSE, "ok")
    BY <1>8 DEF Return
  <2>4. ~There(NoAttributes)
    BY DEF There
  <2>5. QED  BY <1>f, <2>2, <2>3, <2>4
<1>9. CASE Replace
  <2>1. op = "delete" /\ pc > Len(Program) /\ object' = object
    BY <1>9 DEF Replace
  <2>2. ~Lasting(R)
    BY DEF Lasting
  <2>3. QED  BY <2>1, <2>2, RemovalMade DEF Kept, There
<1>10. CASE Refused
  <2>1. Running /\ \E t, r : End(object, Salvaged, t, r)
    BY <1>10 DEF Refused, Fails, Due
  <2>2. QED  BY <1>f, <1>g, <2>1
<1>11. CASE Fail
  <2>1. Running
    BY <1>11 DEF Fail, Due
  <2>2. PICK o, t : /\ o \in {object} \cup (IF Current.call \in Calls THEN Outcomes ELSE {})
                    /\ End(o, Salvaged, t, "error")
    BY <1>11 DEF Fail, Fails
  <2>3. o = object \/ (Current.call \in Calls /\ o \in Outcomes)
    BY <2>2
  <2>4. QED  BY <1>f, <1>g, <2>1, <2>2, <2>3
<1>12. CASE Outside
  <2>1. There(object) /\ object'.home = object.home /\ UNCHANGED << kind, state, op, pc, d >>
    BY <1>12 DEF Outside
  <2>2. WasFound' = WasFound
    BY <1>d, <2>1 DEF WasFound
  <2>3. QED  BY <1>b, <2>1, <2>2
<1>13. CASE UNCHANGED vars
  <2>1. UNCHANGED << object, state, op, pc, d >>
    BY <1>13 DEF vars
  <2>2. WasFound' = WasFound
    BY <1>d, <2>1 DEF WasFound
  <2>3. QED  BY <1>b, <2>1, <2>2 DEF There
<1>14. QED
  BY <1>1, <1>2, <1>3, <1>4, <1>5, <1>6, <1>7, <1>8, <1>9, <1>10, <1>11, <1>12, <1>13 DEF Next

-----------------------------------------------------------------------------
\* Requests find the object that is there, but for an update that changes the place.
LEMMA FindsItsOwn ==
  ASSUME Typing, InPlace, Located, Own(R)
  PROVE  /\ op = "none" => (Found(state) <=> There(object) /\ There(state))
         /\ op # "none" /\ (op # "update" \/ "home" \notin R.facets) => (Here <=> There(object))
<1>1. op \in {"none", "create", "update", "delete"}
  BY DEF Typing, TypeOK
<1>2. CASE "home" \notin R.facets
  BY <1>2, FoundAtHome
<1>3. CASE "home" \in R.facets
  <2>1. op # "none" => There(d.attrs)
    BY DEF Typing
  <2>2. QED  BY <1>1, <1>3, <2>1 DEF Located, Found, Here
<1>4. QED  BY <1>2, <1>3

\* No object is made beside another.
LEMMA InOnePlace ==
  ASSUME Typing, InPlace, InPlace', Located, Located', Disciplined(R), Call
  PROVE  ~Elsewhere(object')
<1> SUFFICES ASSUME There(object), There(object'), object.home # object'.home  PROVE FALSE
  BY DEF Elsewhere
<1>1. R' = R /\ op' = op /\ op \in {"create", "update", "delete"} /\ state' = state
      /\ d'.attrs = d.attrs /\ d'.prior = d.prior
  BY DEF Call, R, Due, Running, Typing, TypeOK, DataOK
<1>2. CASE "home" \notin R.facets
  BY <1>1, <1>2 DEF InPlace, AtHome, There, Default
<1>3. CASE "home" \in R.facets
  <2>1. Own(R)
    BY <1>3 DEF Disciplined
  <2>2. /\ op \in {"create", "delete"} => object.home = d.attrs.home
        /\ op = "update" => object.home = d.prior.home
    BY <1>3, <2>1 DEF Located
  <2>3. /\ op' \in {"create", "delete"} => object'.home = d'.attrs.home
        /\ op' = "update" => object'.home = d'.prior.home
    BY <1>1, <1>3, <2>1 DEF Located, There
  <2>4. QED  BY <1>1, <2>2, <2>3
<1>4. QED  BY <1>2, <1>3

LEMMA KeptInit == Init => Kept
  BY DEF Init, Kept, There, Own

LEMMA KeptStep ==
  /\ Typing /\ InPlace /\ Unreplaced /\ Located /\ Kept /\ [Next]_vars
  /\ InPlace' /\ Located'
  => Kept'
<1> SUFFICES ASSUME Typing, InPlace, InPlace', Unreplaced, Located, Located', Kept, [Next]_vars
             PROVE  Kept'
  OBVIOUS
<1>a. kind' = kind
  BY DEF Next, vars, BeginApply, FailRefresh, Import, Configure, Skip, Call, Pass, Compute,
         Return, Replace, Refused, Fail, Fails, End, Overlook, Outside
<1>b. R' = R
  BY <1>a DEF R
<1>c. /\ Len(Program) \in Nat /\ DOMAIN Program = 1..Len(Program) /\ pc \in Nat \ {0} /\ DataOK
  BY DomainProgram DEF Typing, TypeOK
<1>d. Running => pc \in DOMAIN Program /\ op \in {"create", "update", "delete"}
  BY <1>c DEF Running, Typing, TypeOK
<1>e. Running /\ op = "update" /\ Own(R) /\ "home" \in R.facets => Current.call # "read_back"
  BY CurrentStep DEF Own, Anchored
<1>f. op' = op => Program' = Program
  BY <1>b DEF Program
<1>g. Own(R) /\ Running /\ (op # "update" \/ "home" \notin R.facets) => (Here <=> There(object))
  BY FindsItsOwn DEF Running
\* What is behind after a step to the next one, or the same.
<1>h. ASSUME Running, pc' \in {pc, pc + 1}, op' = op
      PROVE  /\ pc' \in Nat /\ pc' >= pc
             /\ Reread => Reread'
             /\ Current.call = "read_back" /\ pc' = pc + 1 => Reread'
             /\ Removed' => Removed \/ (Current.call = "remove" /\ Current.when = {} /\ ~Current.careless)
  <2>1. pc' \in Nat /\ pc' >= pc
    BY <1>c, <1>h
  <2>2. QED  BY <1>f, <1>h, <2>1, BehindNext
\* A step within a handler that leaves the object and its ID.
<1>i. ASSUME Running, UNCHANGED << kind, object, stranded, state, op, unanswered >>,
             d'.id = d.id, Own(R) /\ op = "create" => ~JustMade,
             Reread => Reread',
             Own(R) /\ op = "delete" /\ Removed' /\ There(object) => Removed
      PROVE  Kept'
  BY <1>b, <1>d, <1>i DEF Kept, Running
<1>1. CASE BeginApply
  <2> DEFINE s == Refreshed  p == Planned(s)  o == IF p = "replace" THEN "delete" ELSE p
  <2>1. /\ op = "none" /\ op' = o /\ d' = (IF o = "none" THEN NoData ELSE Data(o, s))
        /\ state' = s /\ pc' = 1 /\ unanswered' = unanswered
        /\ object' = (IF Forgotten(object, s) THEN NoAttributes ELSE object)
        /\ stranded' = (stranded \/ (There(state) /\ Lost(object, s)))
    BY <1>1 DEF BeginApply
  <2>2. s \in Maybe(Attributes) /\ config \in Maybe(Attributes)
    BY RefreshedTyped DEF Typing, TypeOK
  <2>3. Own(R) \/ "home" \notin R.facets => (There(s) <=> There(object) /\ There(state))
    <3>1. "home" \notin R.facets => (There(s) <=> There(object) /\ There(state))
      BY RefreshedAtHome
    <3>2. Own(R) => (Found(state) <=> There(object) /\ There(state))
      BY <2>1, FindsItsOwn
    <3>3. Found(state) => There(Facing(state))
      <4>1. Found(state) => object \in Attributes /\ state \in Attributes
        BY ThereTyped DEF Found, Typing, TypeOK
      <4>2. Found(state) => Facing(state) \in Attributes
        BY <4>1, FacingTyped
      <4>3. QED  BY <4>2, ThereTyped DEF Maybe
    <3>4. There(s) <=> Found(state)
      BY <3>3 DEF Refreshed, There
    <3> HIDE DEF s
    <3>5. QED  BY <3>1, <3>2, <3>4
  <2>4. /\ p \in {"none", "create", "update", "delete", "replace"}
        /\ p \in {"update", "delete", "replace"} => There(s)
        /\ p = "create" => ~There(s)
    BY PlanTyped
  <2> HIDE DEF s, p
  <2>5. o # "none" => d'.id = (o # "create")
    BY <2>1, <2>2, DataTyped
  <2>6. Disciplined(R) /\ stranded' => unanswered'
    <3>1. Own(R) \/ "home" \notin R.facets => ~(There(state) /\ Lost(object, s))
      BY <2>3 DEF Lost
    <3>2. QED  BY <2>1, <3>1, Sorts DEF Kept
  <2>7. There(object') => There(object)
    BY <2>1 DEF There
  <2>8. Own(R) /\ There(object) /\ ~There(s) => unanswered
    BY <2>1, <2>3 DEF Kept
  <2>9. op' \in {"create", "update", "delete"} => ~Removed'
    BY <1>a, <2>1, NothingBehind
  <2>10. QED
    BY <1>b, <2>1, <2>4, <2>5, <2>6, <2>7, <2>8, <2>9 DEF Kept
<1>2. CASE FailRefresh
  BY <1>2, <1>b DEF FailRefresh, Kept
<1>3. CASE Import
  <2>1. ~Own(R) /\ UNCHANGED << stranded, unanswered >>
    BY <1>3 DEF Import, Own
  <2>2. QED  BY <1>b, <2>1 DEF Kept
<1>4. CASE Configure
  BY <1>4, <1>b DEF Configure, Kept
<1>5. CASE Skip
  <2>1. /\ Running /\ ~Due /\ pc' = pc + 1 /\ op' = op /\ d' = d
        /\ UNCHANGED << kind, object, stranded, state, op, unanswered >>
    BY <1>5 DEF Skip
  <2>2. Own(R) /\ op = "create" => ~JustMade
    BY <2>1, JustMadeSetsId
  <2>3. (Removed' => Removed) /\ (Reread => Reread')
    BY <1>h, <2>1 DEF Due
  <2>4. QED  BY <1>i, <2>1, <2>2, <2>3
<1>6. CASE Call
  <2>1. /\ Due /\ Running /\ Current.call \in Calls /\ object' \in Outcomes
        /\ stranded' = (stranded \/ Elsewhere(object'))
        /\ UNCHANGED << kind, state, op, unanswered >>
    BY <1>6 DEF Call, Due
  <2>2. d'.id = d.id
    BY <1>6, <1>c DEF Call, DataOK
  <2>3. pc' \in {pc, pc + 1} /\ (Current.call \in Creates => pc' = pc + 1)
    BY <1>6 DEF Call, Creates
  <2>4. Disciplined(R) => ~Elsewhere(object')
    BY <1>6, InOnePlace
  <2>5. Disciplined(R) /\ stranded' => unanswered'
    BY <2>1, <2>4 DEF Kept
  <2>6. Own(R) /\ op = "create" /\ There(object') /\ ~d'.id => unanswered' \/ JustMade'
    <3>1. CASE Current.call \in Creates
      <4>1. pc' = pc + 1 /\ pc \in DOMAIN Program /\ Program' = Program
        BY <1>d, <1>f, <2>1, <2>3, <3>1
      <4>2. pc' - 1 = pc /\ pc' > 1
        BY <1>c, <4>1
      <4>3. JustMade'
        BY <3>1, <4>1, <4>2 DEF JustMade, Current
      <4>4. QED  BY <4>3
    <3>2. CASE Current.call \notin Creates
      <4>1. There(object)
        BY <2>1, <3>2, NotMade
      <4>2. Own(R) /\ op = "create" => ~JustMade
        BY <2>1, JustMadeSetsId DEF Calls
      <4>3. QED  BY <2>1, <2>2, <4>1, <4>2 DEF Kept
    <3>3. QED  BY <3>1, <3>2
  <2>7. /\ Own(R) /\ op = "delete" => There(object)
        /\ Own(R) /\ op = "update" => d'.id \/ There(object)
        /\ Reread => Reread'
    <3>1. Own(R) /\ op = "update" => d.id \/ Reread
      BY DEF Kept
    <3>2. QED  BY <1>h, <2>1, <2>2, <2>3, <3>1, NotMade
  <2>8. Own(R) /\ op = "delete" /\ Removed' => ~There(object')
    <3>1. Own(R) /\ op = "delete" => ~Removed
      BY <2>7 DEF Kept
    <3>2. Current.call = "remove" => ~There(object')
      BY <2>1 DEF Outcomes, There
    <3>3. QED  BY <1>h, <2>1, <2>3, <3>1, <3>2
  <2>9. op' # "none" /\ op' = op
    BY <2>1 DEF Running
  <2>10. QED
    BY <1>b, <2>1, <2>2, <2>5, <2>6, <2>7, <2>8, <2>9 DEF Kept
<1>7. CASE Pass
  <2>1. /\ Running /\ Due /\ d' = d
        /\ UNCHANGED << kind, object, stranded, state, op, unanswered >>
        /\ \/ Idle \/ Current.call = "check"
           \/ Current.call \in Calls \ {"post", "ensure"} /\ Current.quiet /\ ~Here
           \/ Current.call = "find"
        /\ pc' = IF Current.call = "find" /\ ~Here THEN Len(Program) + 1 ELSE pc + 1
    BY <1>7 DEF Pass, Due
  <2>2. Own(R) /\ op = "create" => ~JustMade
    BY <2>1, JustMadeSetsId DEF Idle, Calls
  <2>3. Own(R) /\ op = "delete" /\ Removed' /\ There(object) => Removed
    <3> SUFFICES ASSUME Own(R), op = "delete", Removed', There(object)  PROVE Removed
      OBVIOUS
    <3>1. Here
      BY <1>g, <2>1
    <3>2. pc' = pc + 1 /\ Current.call # "remove"
      BY <2>1, <3>1 DEF Idle
    <3>3. QED  BY <1>h, <2>1, <3>2
  <2>4. Reread => Reread'
    <3>1. pc' \in {pc, pc + 1} \/ pc' = Len(Program) + 1
      BY <2>1
    <3>2. pc' \in Nat /\ pc' >= pc
      <4> DEFINE n == Len(Program)
      <4>1. n \in Nat /\ pc \in 1..n /\ (pc' \in {pc, pc + 1} \/ pc' = n + 1)
        BY <1>c, <1>d, <2>1, <3>1
      <4> HIDE DEF n
      <4>2. QED  BY <4>1
    <3>3. QED  BY <1>f, <2>1, <3>2, BehindNext
  <2>5. QED  BY <1>i, <2>1, <2>2, <2>3, <2>4
<1>8. CASE Compute
  <2>1. /\ Running /\ Due /\ pc' = pc + 1
        /\ UNCHANGED << kind, object, stranded, state, op, unanswered >>
    BY <1>8 DEF Compute, Due
  <2>2. Current.call # "remove"
    BY <1>8 DEF Compute
  <2>3. (Removed' => Removed) /\ (Reread => Reread') /\ (Current.call = "read_back" => Reread')
    BY <1>h, <2>1, <2>2
  <2>4. CASE d'.id = d.id /\ Current.call # "set_id"
    <3>1. Own(R) /\ op = "create" => ~JustMade
      BY <2>4, JustMadeSetsId
    <3>2. QED  BY <1>i, <2>1, <2>3, <2>4, <3>1
  <2>5. CASE Current.call = "set_id" /\ d'.id = TRUE
    BY <1>b, <2>1, <2>3, <2>5 DEF Kept, Running
  <2>6. CASE Current.call = "read_back" /\ ~Here
    <3>1. Own(R) => ~There(object)
      BY <1>e, <1>g, <2>1, <2>6
    <3>2. QED  BY <1>b, <2>1, <2>3, <2>6, <3>1 DEF Kept, Running
  <2>7. (d'.id = d.id /\ Current.call # "set_id") \/ (Current.call = "set_id" /\ d'.id = TRUE)
        \/ (Current.call = "read_back" /\ ~Here) \/ Current.call = "unset_id"
    BY <1>8, <1>c DEF Compute, DataOK
  <2>9. CASE Current.call = "unset_id"
    <3>1. op \in {"create", "update", "delete"} /\ Current \in Steps(Program)
      BY <2>1, <1>c, CurrentStep DEF Running, Steps, Current, Typing, TypeOK
    <3>2. Current \in AllSteps(R)
      BY <3>1 DEF AllSteps, Program
    <3>3. ~Own(R)
      BY <2>9, <3>2 DEF Own
    <3>4. QED  BY <1>b, <2>1, <2>3, <3>3 DEF Kept, Running
  <2>10. QED  BY <2>4, <2>5, <2>6, <2>7, <2>9
<1>9. CASE Return
  <2>1. op # "none" /\ pc > Len(Program) /\ unanswered' = unanswered
    BY <1>9 DEF Return
  <2>2. Own(R) /\ op = "create" => ~JustMade
    <3> DEFINE n == Len(Program)
    <3>1. n \in Nat /\ pc \in Nat /\ pc > n
      BY <1>c, <2>1
    <3>2. Running => pc <= n
      BY DEF Running
    <3> HIDE DEF n
    <3>3. ~Running
      BY <3>1, <3>2
    <3>4. QED  BY <3>3, JustMadeSetsId
  <2>3. Own(R) /\ op = "delete" => ~There(object) \/ (LetGo /\ R.identity = "assigned")
    <3>1. Lasting(R) /\ op = "delete" => LetGo /\ R.identity = "assigned"
      BY DEF Lasting, LetGo, Retained
    <3>2. Own(R) /\ op = "delete" /\ ~Lasting(R) => Removed
      BY <2>1, RemovalMade
    <3>3. QED  BY <3>1, <3>2 DEF Kept
  <2>4. op \in {"create", "update", "delete"}
    BY <2>1 DEF Typing, TypeOK
  <2>5. Own(R) /\ op # "delete" /\ There(object) /\ ~d.id => unanswered'
    BY <2>1, <2>2, <2>4 DEF Kept
  <2>6. There(d.attrs)
    BY <2>1 DEF Typing
  <2>7. CASE op = "delete"
    <3>1. End(object, NoAttributes, FALSE, "ok")
      BY <1>9, <2>7 DEF Return
    <3>2. QED  BY <2>1, <2>3, <2>7, <3>1, KeptAtEnd
  <2>8. CASE op # "delete" /\ d.id
    <3>1. End(object, d.attrs, FALSE, "ok")
      BY <1>9, <2>8 DEF Return
    <3>2. QED  BY <2>1, <2>6, <3>1, KeptAtEnd
  <2>9. CASE op # "delete" /\ ~d.id
    <3>1. End(object, NoAttributes, FALSE, "error")
      BY <1>9, <2>9 DEF Return
    <3>2. Own(R) /\ There(object) => unanswered'
      BY <2>5, <2>9
    <3>3. QED  BY <2>1, <3>1, <3>2, KeptAtEnd
  <2>10. QED  BY <2>7, <2>8, <2>9
<1>10. CASE Replace
  <2>1. /\ op = "delete" /\ pc > Len(Program) /\ op' = "create"
        /\ UNCHANGED << kind, object, stranded, unanswered >>
    BY <1>10 DEF Replace
  <2>2. Own(R) => ~There(object)
    <3>1. ~Lasting(R)
      BY <1>10 DEF Replace, Unreplaced
    <3>2. QED  BY <2>1, <3>1, RemovalMade DEF Kept
  <2>3. QED  BY <1>b, <2>1, <2>2 DEF Kept
\* An error keeps the object known, but for a creation without an ID.
<1>j. Own(R) /\ Running /\ ~There(Salvaged) =>
        \/ op = "create" /\ ~d.id
        \/ op = "update" /\ ~There(object) /\ Reread
  <2> SUFFICES ASSUME Own(R), Running, ~There(Salvaged)
               PROVE  (op = "create" /\ ~d.id) \/ (op = "update" /\ ~There(object) /\ Reread)
    OBVIOUS
  <2>1. There(d.attrs) /\ (op = "update" => There(d.prior)) /\ (op = "delete" => There(state))
    BY DEF Typing, Running
  <2>2. op = "update" => (There(object) => d.id) /\ (d.id \/ Reread)
    BY DEF Kept
  <2>3. QED  BY <1>d, <2>1, <2>2 DEF Salvaged
<1>11. CASE Refused
  <2>1. /\ Running /\ unanswered' = unanswered
        /\ Current.call # "set_id"
    BY <1>11 DEF Refused, Due, Refusal, Calls
  <2>2. PICK t, r : End(object, Salvaged, t, r)
    BY <1>11 DEF Refused, Fails
  <2>3. Own(R) /\ op = "create" => ~JustMade
    BY <2>1, JustMadeSetsId
  <2>4. Own(R) /\ There(object) /\ ~There(Salvaged) => unanswered'
    BY <1>j, <2>1, <2>3 DEF Kept
  <2>5. QED  BY <2>1, <2>2, <2>4, KeptAtEnd
<1>12. CASE Fail
  <2>1. Running /\ Current.call # "set_id"
    BY <1>12 DEF Fail, Due, Calls
  <2>2. PICK o, t : /\ o \in {object} \cup (IF Current.call \in Calls THEN Outcomes ELSE {})
                    /\ unanswered' = (unanswered \/ (Current.call \in {"post", "ensure"} /\ o # object))
                    /\ End(o, Salvaged, t, "error")
    BY <1>12 DEF Fail, Fails
  <2>3. Own(R) /\ op = "create" => ~JustMade
    BY <2>1, JustMadeSetsId
  <2>4. o = object \/ (Current.call \in Calls /\ o \in Outcomes)
    BY <2>2
  <2>5. Own(R) /\ There(o) /\ ~There(Salvaged) => unanswered'
    <3> SUFFICES ASSUME Own(R), There(o), ~There(Salvaged)  PROVE unanswered'
      OBVIOUS
    <3>1. CASE op = "update" /\ ~There(object) /\ Reread
      BY <2>1, <2>4, <3>1, NotMade
    <3>2. CASE op = "create" /\ ~d.id /\ There(object)
      BY <2>2, <2>3, <3>2 DEF Kept
    <3>3. CASE op = "create" /\ ~There(object)
      <4>1. o # object /\ Current.call \in Creates
        BY <2>1, <2>4, <3>3, NotMade
      <4>2. QED  BY <2>2, <4>1 DEF Creates
    <3>4. QED  BY <1>j, <2>1, <3>1, <3>2, <3>3
  <2>6. unanswered => unanswered'
    BY <2>2
  <2>7. QED  BY <2>2, <2>5, <2>6, KeptAtEnd
<1>13. CASE Overlook
  <2>1. /\ Running /\ Due /\ Current.careless /\ pc' = pc + 1 /\ d' = d
        /\ UNCHANGED << kind, object, stranded, state, op, unanswered >>
    BY <1>13 DEF Overlook, Due
  <2>2. Own(R) /\ op = "create" => ~JustMade
    BY <2>1, JustMadeSetsId
  <2>3. (Removed' => Removed) /\ (Reread => Reread')
    BY <1>h, <2>1
  <2>4. QED  BY <1>i, <2>1, <2>2, <2>3
<1>14. CASE Outside
  <2>1. There(object) /\ UNCHANGED << kind, stranded, state, op, pc, d, unanswered >>
    BY <1>14 DEF Outside
  <2>2. Removed' = Removed /\ JustMade' = JustMade /\ Reread' = Reread
    BY <1>f, <2>1 DEF Removed, JustMade, Reread
  <2>3. QED  BY <1>b, <2>1, <2>2 DEF Kept
<1>15. CASE UNCHANGED vars
  <2>1. UNCHANGED << kind, object, stranded, state, op, pc, d, unanswered >>
    BY <1>15 DEF vars
  <2>2. Removed' = Removed /\ JustMade' = JustMade /\ Reread' = Reread
    BY <1>f, <2>1 DEF Removed, JustMade, Reread
  <2>3. QED  BY <1>b, <2>1, <2>2 DEF Kept
<1>16. QED
  BY <1>1, <1>2, <1>3, <1>4, <1>5, <1>6, <1>7, <1>8, <1>9, <1>10, <1>11, <1>12, <1>13,
     <1>14, <1>15 DEF Next

\* DisciplineKeeps: whichever handlers a kind of resource has, if they are
\* disciplined it never leaves an object in Okta that Terraform does not know,
\* unless the creation of the object got no answer.
THEOREM DisciplineKeeps == Spec => [](Disciplined(R) => NothingStranded)
<1>1. Typing /\ Kept => (Disciplined(R) => NothingStranded)
  BY DEF Kept, NothingStranded
<1>2. QED
  BY <1>1, TypingInit, TypingStep, InPlaceInit, InPlaceStep, PlainInit, PlainStep,
     UnreplacedInit, UnreplacedStep, LocatedInit, LocatedStep, KeptInit, KeptStep, PTL DEF Spec

-----------------------------------------------------------------------------
\* Only a removal leaves no object.
LEMMA OutcomesThere ==
  ASSUME Typing, Running, Current.call \in Calls \ {"remove"}, NEW o \in Outcomes
  PROVE  There(o)
<1>1. CASE Current.call = "ensure" /\ Exists
  BY <1>1 DEF Outcomes, Exists
<1>2. CASE Current.call \in Creates /\ ~(Current.call = "ensure" /\ Exists)
  <2>1. o \in Created
    BY <1>2 DEF Outcomes, Creates
  <2>2. o \in Attributes
    BY <2>1, CreatedTyped
  <2>3. QED  BY <2>2, ThereTyped DEF Maybe
<1>3. CASE Current.call \notin Creates
  <2>1. Here /\ object \in Attributes /\ d.attrs \in Attributes /\ d.adds \subseteq Parts
    BY <1>3, ThereTyped DEF Outcomes, Creates, Here, Found, Typing, TypeOK, DataOK, Running
  <2>2. \A w \in Written(object, Current.with) : There(w)
    BY <2>1, WrittenTyped, ThereTyped DEF Maybe
  <2>3. \A st \in Statuses : There([object EXCEPT !.status = st])
    <3>1. \A st \in Statuses : [object EXCEPT !.status = st] \in Attributes
      BY <2>1 DEF Attributes
    <3>2. QED  BY <3>1, ThereTyped DEF Maybe
  <2>4. \A ps \in SUBSET Parts : There([object EXCEPT !.parts = ps])
    <3>1. \A ps \in SUBSET Parts : [object EXCEPT !.parts = ps] \in Attributes
      BY <2>1 DEF Attributes
    <3>2. QED  BY <3>1, ThereTyped DEF Maybe
  <2>5. /\ \A q \in d.adds : object.parts \cup {q} \in SUBSET Parts
        /\ object.parts \cup d.adds \in SUBSET Parts
        /\ \A q \in d.drops : object.parts \ {q} \in SUBSET Parts
    BY <2>1 DEF Attributes
  <2>6. There(Default) /\ "ACTIVE" \in Statuses /\ "INACTIVE" \in Statuses
    BY DefaultTyped, ThereTyped DEF Maybe, Statuses
  <2>7. CASE Current.call = "put"
    BY <2>2, <2>7 DEF Outcomes
  <2>8. CASE Current.call \in {"activate", "deactivate"}
    BY <2>3, <2>6, <2>8 DEF Outcomes
  <2>9. CASE Current.call = "add"
    BY <2>4, <2>5, <2>9 DEF Outcomes
  <2>10. CASE Current.call \in {"add_all", "reset"}
    BY <2>4, <2>5, <2>6, <2>10 DEF Outcomes
  <2>11. CASE Current.call = "drop"
    BY <2>4, <2>5, <2>11 DEF Outcomes
  <2>12. QED  BY <1>3, <2>7, <2>8, <2>9, <2>10, <2>11 DEF Calls, Creates
<1>4. QED  BY <1>1, <1>2, <1>3 DEF Creates

\* Standing: a singleton that no handler removes is always there.
Permanent(h) == h.identity = "singleton" /\ \A s \in AllSteps(h) : s.call # "remove"
Standing == Permanent(R) => There(object)

LEMMA PermanentStays ==
  ASSUME Typing, Permanent(R), Running, Current.call \in Calls, NEW o \in Outcomes
  PROVE  There(o)
<1>1. Current.call # "remove"
  BY CurrentStep DEF Permanent
<1>2. QED  BY <1>1, OutcomesThere

\* How a handler ends, and what it leaves then.
Ending(o) ==
  /\ op # "none"
  /\ o = object \/ (Due /\ Running /\ Current.call \in Calls /\ o \in Outcomes)
  /\ \E s, t, r : End(o, s, t, r)

LEMMA Endings ==
  ASSUME Return \/ Refused \/ Fail
  PROVE  \E o : Ending(o)
<1>1. ASSUME Return  PROVE \E o : Ending(o)
  <2>1. op # "none" /\ \E s, t, r : End(object, s, t, r)
    BY <1>1 DEF Return
  <2>2. QED  BY <2>1 DEF Ending
<1>2. ASSUME Refused  PROVE \E o : Ending(o)
  <2>1. op # "none" /\ \E s, t, r : End(object, s, t, r)
    BY <1>2 DEF Refused, Fails, Due, Running
  <2>2. QED  BY <2>1 DEF Ending
<1>3. ASSUME Fail  PROVE \E o : Ending(o)
  <2>1. Due /\ Running /\ op # "none"
    BY <1>3 DEF Fail, Due, Running
  <2>2. \E o \in {object} \cup (IF Current.call \in Calls THEN Outcomes ELSE {}) :
          \E s, t, r : End(o, s, t, r)
    BY <1>3 DEF Fail, Fails
  <2>3. QED  BY <2>1, <2>2 DEF Ending
<1>4. QED  BY <1>1, <1>2, <1>3

LEMMA EndingStands ==
  ASSUME Typing, Standing, Permanent(R), NEW o, Ending(o)
  PROVE  There(object')
<1>1. There(o)
  BY PermanentStays DEF Ending, Standing
<1>2. object' = o
  BY DEF Ending, End, Forgotten, Permanent
<1>3. QED  BY <1>1, <1>2 DEF There

LEMMA StandingInit == Init => Standing
<1>1. There(Default)
  BY DefaultTyped, ThereTyped DEF Maybe
<1>2. QED  BY <1>1 DEF Init, Standing, Permanent

LEMMA StandingStep == Typing /\ Standing /\ [Next]_vars => Standing'
<1> SUFFICES ASSUME Typing, Standing, [Next]_vars, Permanent(R)  PROVE There(object')
  BY KindStays DEF Standing, There
<1>1. There(object)
  BY DEF Standing
<1>2. CASE BeginApply
  <2>1. object' = object
    BY <1>2 DEF BeginApply, Forgotten, Lost, Permanent
  <2>2. QED  BY <1>1, <2>1 DEF There
<1>3. CASE Call
  <2>1. Running /\ Current.call \in Calls /\ object' \in Outcomes
    BY <1>3 DEF Call, Due
  <2>2. QED  BY <1>1, <2>1, PermanentStays
<1>4. CASE Return \/ Refused \/ Fail
  BY <1>4, Endings, EndingStands
<1>5. CASE Outside
  <2>1. object' \in Configurations
    BY <1>5 DEF Outside, Permanent
  <2>2. QED  BY <2>1, ConfigurationsTyped, ThereTyped DEF Maybe
<1>6. CASE FailRefresh \/ Import \/ Configure \/ Skip \/ Pass \/ Compute \/ Overlook \/ Replace
           \/ UNCHANGED vars
  BY <1>1, <1>6 DEF FailRefresh, Import, Configure, Skip, Pass, Compute, Overlook, Replace, vars, There
<1>7. QED
  BY <1>2, <1>3, <1>4, <1>5, <1>6 DEF Next

-----------------------------------------------------------------------------
\* Firm: during the update of an object that is and shall stay active, the
\* object is active and the handler wants nothing else; where the status is all
\* there is, no such update is planned.
Firm ==
  Steadfast(R) /\ op = "update" /\ ~touched /\ d.prior.status = "ACTIVE" /\ config.status = "ACTIVE" =>
    /\ R.facets # {"status"}
    /\ d.attrs.status = "ACTIVE"
    /\ There(object) => object.status = "ACTIVE"

LEMMA FirmInit == Init => Firm
  BY DEF Init, Firm

\* What differs only in facets that the resource does not have does not differ.
LEMMA SameAttributes ==
  ASSUME NEW x \in Attributes, NEW y \in Attributes, \A f \in Facets : x[f] = y[f]
  PROVE  x = y
<1>1. /\ x.frozen = y.frozen /\ x.home = y.home /\ x.body = y.body
      /\ x.parts = y.parts /\ x.status = y.status
  BY DEF Facets
<1>2. QED  BY <1>1 DEF Attributes

\* The beginning of an update.
LEMMA UpdateBegins ==
  ASSUME Typing, BeginApply, op' = "update"
  PROVE  /\ There(config) /\ config \in Attributes /\ config' = config
         /\ There(state) /\ There(object) /\ object' = object
         /\ d'.attrs = config /\ d'.prior = Facing(state) /\ Facing(state) \in Attributes
         /\ Facing(state) # config /\ pc' = 1 /\ Found(state)
<1> DEFINE s == Refreshed  p == Planned(s)  o == IF p = "replace" THEN "delete" ELSE p
<1>1. /\ op' = o /\ config' = config /\ pc' = 1
      /\ d' = (IF o = "none" THEN NoData ELSE Data(o, s))
      /\ object' = (IF Forgotten(object, s) THEN NoAttributes ELSE object)
  BY DEF BeginApply
<1>2. p = "update"
  BY <1>1
<1>3. There(config) /\ There(s) /\ s # config
  BY <1>2 DEF Planned
<1>4. s \in Maybe(Attributes) /\ There(object) /\ There(state) /\ config \in Maybe(Attributes)
  BY <1>3, RefreshedTyped DEF Typing, TypeOK
<1>5. Found(state) /\ s = Facing(state)
  BY <1>3 DEF Refreshed, There
<1>6. config \in Attributes /\ s \in Attributes
  BY <1>3, <1>4, ThereTyped
<1>7. object' = object
  BY <1>1, <1>3 DEF Forgotten, Lost
<1> HIDE DEF s, p
<1>8. d'.attrs = config /\ d'.prior = s
  BY <1>1, <1>2, <1>4, DataTyped
<1>9. QED  BY <1>1, <1>3, <1>4, <1>5, <1>6, <1>7, <1>8

\* The calls of a steadfast update keep an object active.
LEMMA OutcomesFirm ==
  ASSUME Typing, Plain, Firm, Steadfast(R), Running, Current.call \in Calls, Due, NEW o \in Outcomes,
         op = "update", ~touched, d.prior.status = "ACTIVE", config.status = "ACTIVE", There(o)
  PROVE  o.status = "ACTIVE"
<1>1. /\ R.facets # {"status"} /\ d.attrs.status = "ACTIVE"
      /\ There(object) => object.status = "ACTIVE"
  BY DEF Firm
<1>2. Current \in Steps(R.update) /\ Current \in AllSteps(R)
  BY CurrentStep
<1>3. Current.call # "deactivate"
  <2>1. "inactive" \in Current.when => Holds("inactive")
    BY DEF Due
  <2>2. ~Holds("inactive")
    BY <1>1 DEF Holds
  <2>3. QED  BY <1>1, <1>2, <2>1, <2>2 DEF Steadfast
<1>4. Current.call \in Creates => "inactive" \notin Current.with
  BY <1>1, <1>2 DEF Steadfast
<1>5. CASE Current.call \notin Creates \cup {"reset"}
  BY <1>1, <1>3, <1>5, CallAt
<1>6. CASE Current.call = "reset"
  BY <1>6, DefaultActive DEF Outcomes, Creates
<1>7. CASE Current.call = "ensure" /\ Exists
  BY <1>1, <1>7 DEF Outcomes, Exists
<1>8. CASE Current.call \in Creates /\ ~(Current.call = "ensure" /\ Exists)
  <2>1. o \in Created
    BY <1>8 DEF Outcomes, Creates
  <2>2. \/ o.status \in {"ACTIVE", d.attrs.status}
        \/ There(object) /\ o.status = object.status
        \/ "inactive" \in Current.with
    BY <2>1, CreatedAt
  <2>3. QED  BY <1>1, <1>4, <1>8, <2>2
<1>9. QED  BY <1>5, <1>6, <1>7, <1>8

LEMMA FirmStep == Typing /\ Plain /\ Firm /\ [Next]_vars => Firm'
<1> SUFFICES ASSUME Typing, Plain, Firm, [Next]_vars, Steadfast(R)
             PROVE  op' = "update" /\ ~touched' /\ d'.prior.status = "ACTIVE"
                      /\ config'.status = "ACTIVE" =>
                       /\ R.facets # {"status"}
                       /\ d'.attrs.status = "ACTIVE"
                       /\ There(object') => object'.status = "ACTIVE"
  BY KindStays DEF Firm, There
<1>a. DataOK
  BY DEF Typing, TypeOK
<1>1. CASE BeginApply
  <2>2. ASSUME op' = "update", d'.prior.status = "ACTIVE", config'.status = "ACTIVE"
        PROVE  /\ R.facets # {"status"} /\ d'.attrs.status = "ACTIVE"
               /\ There(object') => object'.status = "ACTIVE"
    <3>1. /\ There(config) /\ config \in Attributes /\ config' = config
          /\ There(state) /\ There(object) /\ object' = object
          /\ d'.attrs = config /\ d'.prior = Facing(state) /\ Facing(state) \in Attributes
          /\ Facing(state) # config
      BY <1>1, <2>2, UpdateBegins
    <3>2. AsDefault(Facing(state)) /\ AsDefault(config) /\ ObjectPlain(object)
      BY <3>1, FacingPlain DEF Plain
    <3>3. There(Facing(state))
      BY <3>1, ThereTyped DEF Maybe
    <3>4. R.facets # {"status"}
      <4> SUFFICES ASSUME R.facets = {"status"}  PROVE FALSE
        OBVIOUS
      <4>1. \A f \in Facets : f # "status" => Facing(state)[f] = config[f]
        BY <3>1, <3>2, <3>3 DEF AsDefault
      <4>2. Facing(state)["status"] = config["status"]
        BY <2>2, <3>1
      <4>3. QED  BY <3>1, <4>1, <4>2, SameAttributes
    <3>5. object.status = "ACTIVE"
      <4>1. CASE "status" \in R.facets \ R.read.unread
        <5>1. Facing(state)["status"] = object["status"]
          BY <4>1, FacingAt DEF Facets
        <5>2. QED  BY <2>2, <3>1, <5>1
      <4>2. CASE NeverInactive(R)
        BY <3>1, <3>2, <4>2 DEF ObjectPlain
      <4>3. QED  BY <3>4, <4>1, <4>2 DEF Steadfast, NeverInactive
    <3>6. QED  BY <2>2, <3>1, <3>4, <3>5
  <2>3. QED  BY <2>2
<1>2. CASE FailRefresh \/ Import \/ Configure
  BY <1>2 DEF FailRefresh, Import, Configure
<1>3. CASE Skip \/ Pass \/ Overlook \/ UNCHANGED vars
  BY <1>3 DEF Skip, Pass, Overlook, vars, Firm
<1>4. CASE Call
  <2>1. Due /\ Running /\ Current.call \in Calls /\ object' \in Outcomes
    BY <1>4 DEF Call, Due
  <2>2. /\ d'.attrs = d.attrs /\ d'.prior = d.prior
        /\ UNCHANGED << op, touched, config >>
    BY <1>4, <1>a DEF Call, DataOK
  <2>3. QED  BY <2>1, <2>2, OutcomesFirm DEF Firm
<1>5. CASE Compute
  <2>1. /\ d'.prior = d.prior /\ UNCHANGED << object, op, touched, config >>
        /\ d'.attrs = d.attrs \/ (Here /\ d'.attrs = Facing(d.attrs))
    BY <1>5, <1>a DEF Compute, DataOK
  <2>2. Here => There(object)
    BY DEF Here, Found
  <2>3. Facing(d.attrs).status \in {d.attrs.status, object.status}
    <3>1. Facing(d.attrs)["status"] \in {d.attrs["status"], object["status"]}
      BY FacingAt DEF Facets
    <3>2. QED  BY <3>1
  <2>4. QED  BY <2>1, <2>2, <2>3 DEF Firm
<1>6. CASE Return \/ Refused \/ Fail \/ Replace
  BY <1>6 DEF Return, Refused, Fail, Fails, End, Replace
<1>7. CASE Outside
  BY <1>7 DEF Outside
<1>8. QED
  BY <1>1, <1>2, <1>3, <1>4, <1>5, <1>6, <1>7 DEF Next

\* SteadfastStay: if the handlers of all kinds but the exceptions are steadfast,
\* no update takes an object out of force that shall be in force, and no
\* deletion a singleton away, wherever they fail.
THEOREM SteadfastStay ==
  (\A k \in Kinds \ InterruptedKinds : Steadfast(Handlers[k])) => (Spec => StaysInForce)
<1> SUFFICES ASSUME \A k \in Kinds \ InterruptedKinds : Steadfast(Handlers[k])
             PROVE  Spec => StaysInForce
  OBVIOUS
<1> DEFINE Stays ==
      op # "none" /\ op' = "none" /\ ~touched /\ kind \notin InterruptedKinds =>
        /\ op = "update" /\ d.prior.status = "ACTIVE" /\ config.status = "ACTIVE"
             /\ There(object') => object'.status = "ACTIVE"
        /\ R.identity = "singleton" => There(object')
<1>1. ASSUME Typing, Plain, Standing, Firm, [Next]_vars  PROVE [Stays]_vars
  <2> SUFFICES ASSUME op # "none", op' = "none", ~touched, kind \notin InterruptedKinds, Next
               PROVE  /\ op = "update" /\ d.prior.status = "ACTIVE" /\ config.status = "ACTIVE"
                           /\ There(object') => object'.status = "ACTIVE"
                      /\ R.identity = "singleton" => There(object')
    BY <1>1
  <2>1. Steadfast(R)
    BY <1>1 DEF Typing, TypeOK, R
  <2>2. Return \/ Refused \/ Fail
    BY DEF Next, BeginApply, FailRefresh, Import, Configure, Skip, Call, Pass, Compute,
           Replace, Overlook, Outside
  <2>3. PICK o : Ending(o)
    BY <2>2, Endings
  <2>4. object' \in {o, NoAttributes}
    BY <2>3 DEF Ending, End
  <2>5. op = "update" /\ d.prior.status = "ACTIVE" /\ config.status = "ACTIVE" /\ There(o)
          => o.status = "ACTIVE"
    BY <1>1, <2>1, <2>3, OutcomesFirm DEF Ending, Firm
  <2>6. R.identity = "singleton" => There(object')
    BY <1>1, <2>1, <2>3, EndingStands DEF Steadfast, Permanent
  <2>7. QED  BY <2>4, <2>5, <2>6 DEF There
<1>2. Spec => [][Stays]_vars
  <2> HIDE DEF Stays
  <2>1. QED
    BY <1>1, TypingInit, TypingStep, PlainInit, PlainStep, StandingInit, StandingStep, FirmInit, FirmStep, PTL DEF Spec
<1>3. QED  BY <1>2 DEF StaysInForce

-----------------------------------------------------------------------------
\* Sequenced: during an update the object has the attributes that it had before
\* or the configured ones, and those once a step that sends them is behind.
SendsFirst(h) ==
  /\ "body" \in h.facets
  /\ \A s \in Steps(h.update) :
       s.call \in {"reset"} \cup Creates => s.call = "post" /\ "body" \in s.with
  /\ \A i \in DOMAIN h.update :
       MayActivate(h.update[i]) \/ h.update[i].call = "read_back" =>
         \E j \in 1..i : Sends(h, h.update[j])
Sent(q) == \E j \in DOMAIN R.update : j < q /\ Sends(R, R.update[j])
Sequenced ==
  op = "update" =>
    /\ There(config)
    /\ SendsFirst(R) /\ ~touched =>
         /\ d.attrs.body = config.body
         /\ "body" \notin R.read.unread /\ There(object) =>
              object.body \in {d.prior.body, config.body}
         /\ Sent(pc) /\ Here => object.body = config.body

\* A step that passes the q-th step of an update leaves the attributes sent only
\* if they were, or if that step sends them.
LEMMA SentNext ==
  ASSUME Typing, Running, op = "update", Sent(pc + 1), ~Sent(pc)
  PROVE  Sends(R, Current)
<1>1. PICK j \in DOMAIN R.update : j < pc + 1 /\ Sends(R, R.update[j])
  BY DEF Sent
<1>2. DOMAIN R.update = 1..Len(R.update) /\ Len(R.update) \in Nat /\ pc \in Nat
  BY DomainProgram DEF Program, Typing, TypeOK
<1>3. ~(j < pc)
  BY <1>1 DEF Sent
<1>4. j = pc
  BY <1>1, <1>2, <1>3
<1>5. QED  BY <1>1, <1>4 DEF Current, Program

\* What a call makes of the attributes, in an update that sends them first.
LEMMA UpdateWrites ==
  ASSUME Typing, Running, op = "update", SendsFirst(R), Current.call \in Calls,
         NEW o \in Outcomes, There(o)
  PROVE  /\ o.home = d.attrs.home
         /\ Sends(R, Current) => o.body = d.attrs.body
         /\ o.body = d.attrs.body \/ (Here /\ o.body = object.body)
<1>1. Current \in Steps(R.update)
  BY CurrentStep
<1>2. Current.call \in {"reset"} \cup Creates => Current.call = "post" /\ "body" \in Current.with
  BY <1>1 DEF SendsFirst
<1>3. CASE Current.call = "post"
  <2>1. o \in Created
    BY <1>3 DEF Outcomes
  <2>2. QED  BY <1>2, <1>3, <2>1, CreatedAt DEF Creates
<1>4. CASE Current.call # "post"
  <2>1. Current.call \in Calls \ {"reset"} /\ Current.call \notin Creates
    BY <1>2, <1>4
  <2>2. /\ Here /\ o.home = object.home
        /\ o.body = IF Current.call = "put" /\ "body" \in Current.with
                      THEN d.attrs.body ELSE object.body
    BY <2>1, CallAt
  <2>3. object.home = d.attrs.home
    BY <2>2 DEF Here, Found
  <2>4. Sends(R, Current) => Current.call = "put" /\ "body" \in Current.with
    BY <1>4 DEF Sends
  <2>5. QED  BY <2>2, <2>3, <2>4
<1>5. QED  BY <1>3, <1>4

\* A step that sends the attributes is passed over only where they did not change.
LEMMA SendsNotSkipped ==
  ASSUME Running, NEW h, Sends(h, Current), ~Due, There(d.prior)
  PROVE  d.prior.body = d.attrs.body /\ "body" \notin h.read.unread
<1>1. Current.when # {}
  BY DEF Due
<1>2. Current.when = {"attributes_changed"} /\ "body" \notin h.read.unread
  BY <1>1 DEF Sends
<1>3. ~Holds("attributes_changed")
  BY <1>2 DEF Due
<1>4. QED  BY <1>2, <1>3 DEF Holds

LEMMA SequencedStep == Typing /\ Sequenced /\ [Next]_vars => Sequenced'
<1> SUFFICES ASSUME Typing, Sequenced, [Next]_vars, op' = "update"
             PROVE  /\ There(config')
                    /\ SendsFirst(R) /\ ~touched' =>
                         /\ d'.attrs.body = config'.body
                         /\ "body" \notin R.read.unread /\ There(object') =>
                              object'.body \in {d'.prior.body, config'.body}
                         /\ Sent(pc') /\ Here' => object'.body = config'.body
  BY KindStays DEF Sequenced, There, SendsFirst, Sent
<1>a. DataOK /\ pc \in Nat \ {0}
  BY DEF Typing, TypeOK
<1>b. ASSUME op = "update"
      PROVE  /\ There(config) /\ There(d.prior)
             /\ SendsFirst(R) /\ ~touched =>
                  /\ d.attrs.body = config.body
                  /\ "body" \notin R.read.unread /\ There(object) =>
                       object.body \in {d.prior.body, config.body}
                  /\ Sent(pc) /\ Here => object.body = config.body
  BY <1>b DEF Sequenced, Typing
<1>1. CASE BeginApply
  <2>1. /\ There(config) /\ config' = config /\ There(object) /\ object' = object
        /\ d'.attrs = config /\ d'.prior = Facing(state) /\ pc' = 1
    BY <1>1, UpdateBegins
  <2>2. SendsFirst(R) /\ "body" \notin R.read.unread => d'.prior.body = object.body
    <3>1. SendsFirst(R) /\ "body" \notin R.read.unread => Facing(state)["body"] = object["body"]
      BY FacingAt DEF SendsFirst, Facets
    <3>2. QED  BY <2>1, <3>1
  <2>3. ~Sent(1)
    <3>1. DOMAIN R.update \subseteq Nat \ {0}
      <4>1. R.update \in Seq([call : STRING, with : SUBSET STRING, when : SUBSET Guards,
                              quiet : BOOLEAN, careless : BOOLEAN])
        BY HandlersAssumption DEF Typing, TypeOK, R, Kinds
      <4>2. QED  BY <4>1
    <3>2. QED  BY <3>1 DEF Sent
  <2>4. QED  BY <2>1, <2>2, <2>3
<1>2. CASE FailRefresh \/ Import \/ Configure
  BY <1>2, <1>b DEF FailRefresh, Import, Configure
<1>3. CASE Skip
  <2>1. Running /\ ~Due /\ op = "update" /\ pc' = pc + 1
        /\ UNCHANGED << config, object, d, touched >>
    BY <1>3 DEF Skip
  <2>2. Here' <=> Here
    BY <2>1 DEF Here, Found, There
  <2>3. ASSUME SendsFirst(R), ~touched, Sent(pc + 1), ~Sent(pc), Here
        PROVE  object.body = config.body
    <3>1. Sends(R, Current)
      BY <2>1, <2>3, SentNext
    <3>2. d.prior.body = d.attrs.body /\ "body" \notin R.read.unread
      BY <1>b, <2>1, <3>1, SendsNotSkipped
    <3>3. There(object)
      BY <2>3 DEF Here, Found
    <3>4. QED  BY <1>b, <2>1, <2>3, <3>2, <3>3
  <2>4. QED  BY <1>b, <2>1, <2>2, <2>3
<1>4. CASE Call
  <2>1. /\ Running /\ Current.call \in Calls /\ object' \in Outcomes /\ op = "update"
        /\ pc' \in {pc, pc + 1} /\ UNCHANGED << config, touched >>
        /\ d'.attrs = d.attrs /\ d'.prior = d.prior
    BY <1>4, <1>a DEF Call, Due, DataOK
  <2>2. Here' => There(object')
    BY DEF Here, Found, There
  <2>3. Here => There(object)
    BY DEF Here, Found
  <2>4. ASSUME SendsFirst(R), ~touched, There(object')
        PROVE  /\ Sends(R, Current) => object'.body = d.attrs.body
               /\ object'.body = d.attrs.body \/ (Here /\ object'.body = object.body)
    BY <2>1, <2>4, UpdateWrites
  <2>5. ASSUME SendsFirst(R), ~touched, Sent(pc'), Here'
        PROVE  object'.body = config.body
    <3>1. Sent(pc) \/ Sends(R, Current)
      BY <2>1, <2>5, SentNext
    <3>2. QED  BY <1>b, <2>1, <2>2, <2>4, <2>5, <3>1
  <2>6. QED  BY <1>b, <2>1, <2>3, <2>4, <2>5
<1>5. CASE Pass
  <2>1. Running /\ op = "update" /\ UNCHANGED << config, object, d, touched >>
    BY <1>5 DEF Pass, Due
  <2>2. Here' <=> Here
    BY <2>1 DEF Here, Found, There
  <2>3. Here => pc' = pc + 1 /\ Current.call \notin {"put", "post"}
    BY <1>5 DEF Pass, Idle
  <2>4. Here /\ Sent(pc') => Sent(pc)
    BY <2>1, <2>3, SentNext DEF Sends
  <2>5. QED  BY <1>b, <2>1, <2>2, <2>4
<1>6. CASE Overlook
  <2>1. Running /\ op = "update" /\ UNCHANGED << config, object, d, touched >>
        /\ Current.careless /\ pc' = pc + 1
    BY <1>6 DEF Overlook, Due
  <2>2. Here' <=> Here
    BY <2>1 DEF Here, Found, There
  <2>3. Sent(pc') => Sent(pc)
    BY <2>1, SentNext DEF Sends
  <2>4. QED  BY <1>b, <2>1, <2>2, <2>3
<1>7. CASE Compute
  <2>1. /\ Running /\ op = "update" /\ UNCHANGED << config, object, touched >>
        /\ d'.prior = d.prior /\ pc' = pc + 1
        /\ Current.call \notin {"put", "post"}
        /\ d'.attrs = d.attrs \/ (Current.call = "read_back" /\ Here /\ d'.attrs = Facing(d.attrs))
    BY <1>7, <1>a DEF Compute, Due, DataOK
  <2>2. Sent(pc') => Sent(pc)
    BY <2>1, SentNext DEF Sends
  <2>3. CASE d'.attrs = d.attrs
    <3>1. Here' <=> Here
      BY <2>1, <2>3 DEF Here, Found, There
    <3>2. QED  BY <1>b, <2>1, <2>2, <2>3, <3>1
  <2>4. CASE Current.call = "read_back" /\ Here /\ d'.attrs = Facing(d.attrs)
    <3>1. d'.attrs.body \in {d.attrs.body, object.body}
      <4>1. Facing(d.attrs)["body"] \in {d.attrs["body"], object["body"]}
        BY FacingAt DEF Facets
      <4>2. QED  BY <2>4, <4>1
    <3>2. ASSUME SendsFirst(R)  PROVE Sent(pc)
      <4>1. pc \in DOMAIN R.update /\ Current = R.update[pc]
        BY <2>1, CurrentStep DEF Program, Current
      <4>2. PICK j \in 1..pc : Sends(R, R.update[j])
        BY <2>4, <3>2, <4>1 DEF SendsFirst
      <4>3. j # pc
        BY <2>4, <4>1, <4>2 DEF Sends
      <4>4. j \in DOMAIN R.update /\ j < pc
        BY <1>a, <2>1, <4>1, <4>2, <4>3, DomainProgram DEF Program
      <4>5. QED  BY <4>2, <4>4 DEF Sent
    <3>3. QED  BY <1>b, <2>1, <2>4, <3>1, <3>2
  <2>5. QED  BY <2>1, <2>3, <2>4
<1>8. CASE Return \/ Refused \/ Fail \/ Replace
  <2>1. op' # "update"
    BY <1>8 DEF Return, Refused, Fail, Fails, End, Replace
  <2>2. QED  BY <2>1
<1>9. CASE Outside
  BY <1>9, <1>b DEF Outside
<1>10. CASE UNCHANGED vars
  <2>1. op = "update" /\ UNCHANGED << config, object, d, touched, pc >>
    BY <1>10 DEF vars
  <2>2. Here' <=> Here
    BY <2>1 DEF Here, Found, There
  <2>3. QED  BY <1>b, <2>1, <2>2
<1>11. QED
  BY <1>1, <1>2, <1>3, <1>4, <1>5, <1>6, <1>7, <1>8, <1>9, <1>10 DEF Next

\* AttributesComeFirst: if the updates of all kinds but the exceptions send the
\* attributes before they activate, no update puts an object in force with
\* other attributes than the configured ones, wherever it fails.
THEOREM AttributesComeFirst ==
  (\A k \in Kinds \ PrematureKinds : AttributesFirst(Handlers[k])) => (Spec => ActivatedAsConfigured)
<1> SUFFICES ASSUME \A k \in Kinds \ PrematureKinds : AttributesFirst(Handlers[k])
             PROVE  Spec => ActivatedAsConfigured
  OBVIOUS
<1> DEFINE Activates ==
      op = "update" /\ Call /\ kind \notin PrematureKinds /\ There(object) /\ There(object')
        /\ ~touched /\ object.status = "INACTIVE" /\ object'.status = "ACTIVE"
      => object'.body = config.body
<1>1. ASSUME Typing, Plain, Sequenced, [Next]_vars  PROVE [Activates]_vars
  <2> SUFFICES ASSUME op = "update", Call, kind \notin PrematureKinds, There(object),
                      There(object'), ~touched, object.status = "INACTIVE",
                      object'.status = "ACTIVE"
               PROVE  object'.body = config.body
    BY <1>1
  <2>1. AttributesFirst(R)
    BY <1>1 DEF Typing, TypeOK, R
  <2>2. /\ Running /\ Current.call \in Calls /\ object' \in Outcomes
        /\ UNCHANGED << kind, config, op, touched >> /\ d'.attrs = d.attrs
    BY <1>1 DEF Call, Due, Typing, TypeOK, DataOK
  <2>3. There(config) /\ Current \in Steps(R.update)
    BY <1>1, <2>2, CurrentStep DEF Sequenced
  <2>4. MayActivate(Current)
    <3> SUFFICES ASSUME ~MayActivate(Current)  PROVE FALSE
      OBVIOUS
    <3>1. Current.call \in Calls \ {"reset"} /\ Current.call \notin Creates
      BY <2>2 DEF MayActivate
    <3>2. object'.status \in {"INACTIVE", object.status}
      BY <1>1, <2>2, <3>1, CallAt
    <3>3. QED  BY <3>2
  <2>5. CASE "body" \notin R.facets
    <3>1. object'.body = Default.body
      BY <1>1, <2>2, <2>5, OutcomesPlain DEF ObjectPlain
    <3>2. config["body"] = Default["body"]
      BY <1>1, <2>3, <2>5 DEF Plain, AsDefault, Facets
    <3>3. QED  BY <3>1, <3>2
  <2>6. CASE SendsFirst(R)
    <3>1. pc \in DOMAIN R.update /\ Current = R.update[pc] /\ pc \in Nat \ {0}
      BY <1>1, <2>2, CurrentStep DEF Program, Current, Typing, TypeOK
    <3>2. PICK j \in 1..pc : Sends(R, R.update[j])
      BY <2>4, <2>6, <3>1 DEF SendsFirst
    <3>3. object'.body = d.attrs.body \/ (Here /\ object'.body = object.body)
      BY <1>1, <2>2, <2>6, UpdateWrites
    <3>4. CASE j = pc
      <4>1. object'.body = d.attrs.body
        BY <1>1, <2>2, <2>6, <3>1, <3>2, <3>4, UpdateWrites
      <4>2. QED  BY <1>1, <2>6, <4>1 DEF Sequenced
    <3>5. CASE j # pc
      <4>1. j \in DOMAIN R.update /\ j < pc
        BY <1>1, <3>1, <3>2, <3>5, DomainProgram DEF Program
      <4>2. Sent(pc)
        BY <3>2, <4>1 DEF Sent
      <4>3. QED  BY <1>1, <2>6, <3>3, <4>2 DEF Sequenced
    <3>6. QED  BY <3>4, <3>5
  <2>7. QED  BY <2>1, <2>3, <2>4, <2>5, <2>6 DEF AttributesFirst, SendsFirst
<1>2. Init => Sequenced
  BY DEF Init, Sequenced
<1>3. Spec => [][Activates]_vars
  <2> HIDE DEF Activates
  <2>1. QED
    BY <1>1, <1>2, TypingInit, TypingStep, PlainInit, PlainStep, SequencedStep, PTL DEF Spec
<1>4. QED  BY <1>3 DEF ActivatedAsConfigured

-----------------------------------------------------------------------------
\* The object x is in an aspect as the configuration c wants it, for a handler
\* that knows e.
Fits(a, x, c, e) ==
  /\ a = "frozen" => x.frozen = c.frozen
  /\ a = "home" => x.home = c.home
  /\ a = "body" => x.body = c.body
  /\ a = "active" /\ c.status = "ACTIVE" => x.status = "ACTIVE"
  /\ a = "inactive" /\ c.status = "INACTIVE" => x.status = "INACTIVE"
  /\ a = "has" => c.parts \subseteq x.parts
  /\ a = "only" => x.parts \subseteq c.parts
  /\ a = "to_add" => c.parts \subseteq x.parts \cup e.adds
  /\ a = "to_drop" => x.parts \subseteq c.parts \cup e.drops
  /\ a = "answered" => x.status = e.answer
Right(a, x, c, e) ==
  /\ a # "refused" /\ (a = "made" => There(x)) /\ (a = "meant" => c.status = "ACTIVE")
  /\ There(x) => Fits(a, x, c, e)

\* The update of an object that was q has not disturbed what does not change.
Spared(a, x, c, q) ==
  /\ a = "frozen" /\ q.frozen = c.frozen => x.frozen = c.frozen
  /\ a = "home" /\ q.home = c.home => x.home = c.home
  /\ a = "body" /\ q.body = c.body => x.body = c.body
  /\ a = "active" /\ q.status = "ACTIVE" /\ c.status = "ACTIVE" => x.status = "ACTIVE"
  /\ a = "inactive" /\ q.status = "INACTIVE" /\ c.status = "INACTIVE" => x.status = "INACTIVE"
  /\ a = "has" => q.parts \cap c.parts \subseteq x.parts
  /\ a = "only" => x.parts \subseteq q.parts \cup c.parts

\* What a running handler can rely on, while nobody else changes the object.
Ground ==
  /\ d.attrs = config /\ config \in Attributes
  /\ d.adds \subseteq config.parts /\ d.drops \cap config.parts = {}
  /\ op = "create" => ~There(d.prior)
  /\ op = "update" => /\ There(object) /\ There(d.prior)
                      /\ R.replaced => d.prior.frozen = config.frozen
                      /\ \A a \in Aspects(R) :
                           Spares(R, a) => Spared(a, object, config, d.prior)

\* A call leaves o behind and e to the handler.
Answered(o) ==
  [d EXCEPT !.answer = IF There(o) THEN o.status ELSE @,
            !.adds = IF There(o) THEN @ \ o.parts ELSE @,
            !.drops = IF There(o) THEN @ \cap o.parts ELSE @]

LEMMA AnsweredAt ==
  ASSUME DataOK, NEW o, There(o)
  PROVE  /\ Answered(o).answer = o.status /\ Answered(o).adds = d.adds \ o.parts
         /\ Answered(o).drops = d.drops \cap o.parts
         /\ Answered(o).attrs = d.attrs /\ Answered(o).prior = d.prior
  BY DEF DataOK, Answered

\* What becomes of an aspect with a call that leaves o.
Well(o, a) ==
  /\ Leaves(Current, a) /\ (There(object) => Fits(a, object, config, d))
       => Fits(a, o, config, Answered(o))
  /\ Brings(R, op, Current, a) => Fits(a, o, config, Answered(o))
  /\ Leaves(Current, a) /\ There(object) /\ Spared(a, object, config, d.prior)
       => Spared(a, o, config, d.prior)

\* A creation.
LEMMA CreatedFrom ==
  ASSUME Typing, Running, NEW w \in Created
  PROVE  LET fs == Current.with IN
         /\ w \in Attributes /\ w.frozen = d.attrs.frozen
         /\ "body" \in fs => w.body = d.attrs.body
         /\ "parts" \in fs => w.parts = d.attrs.parts
         /\ "status" \in fs => w.status = d.attrs.status
         /\ \/ w.status \in {"ACTIVE", d.attrs.status} \/ "inactive" \in fs
            \/ There(object) /\ R.identity # "assigned" /\ w.status = object.status
         /\ R.identity = "assigned" /\ "inactive" \in fs /\ fs \cap {"status", "status?"} = {}
              => w.status = "INACTIVE"
<1>1. d.attrs \in Attributes
  BY ThereTyped DEF Typing, TypeOK, DataOK, Running
<1>2. There(object) => object \in Attributes
  BY ThereTyped DEF Typing, TypeOK
<1> DEFINE keep == Exists \/ (There(object) /\ R.identity = "singleton")
           new == [Default EXCEPT !.status =
                       IF "inactive" \in Current.with THEN "INACTIVE" ELSE "ACTIVE"]
           born == IF keep THEN {object} ELSE {new}
           fs == Current.with \cup {"frozen", "home"}
<1>3. PICK o \in born : w \in Written(o, fs)
  BY DEF Created
<1>4. new \in Attributes /\ new.status = IF "inactive" \in Current.with THEN "INACTIVE" ELSE "ACTIVE"
  BY DefaultTyped DEF Attributes, Statuses
<1>5. keep => There(object) /\ R.identity # "assigned"
  BY DEF Exists
<1>6. (There(object) /\ R.identity # "assigned" /\ o = object) \/ o = new
  BY <1>3, <1>5
<1>7. o \in Attributes
  BY <1>2, <1>4, <1>6
<1>8. /\ "frozen" \in fs /\ \A f \in {"body", "parts", "status"} : f \in Current.with => f \in fs
      /\ Current.with \cap {"status", "status?"} = {} => fs \cap {"status", "status?"} = {}
  OBVIOUS
<1> HIDE DEF new, born, fs
<1>9. /\ w.frozen = IF "frozen" \in fs THEN d.attrs.frozen ELSE o.frozen
      /\ w.body = IF "body" \in fs THEN d.attrs.body ELSE o.body
      /\ w.parts = IF "parts" \in fs THEN d.attrs.parts ELSE o.parts
      /\ w.status \in {o.status, d.attrs.status}
      /\ "status" \in fs => w.status = d.attrs.status
      /\ fs \cap {"status", "status?"} = {} => w.status = o.status
  BY <1>1, <1>3, <1>7, WrittenAt
<1>10. w \in Attributes
  BY <1>1, <1>3, <1>7, WrittenTyped
<1>11. QED  BY <1>4, <1>6, <1>8, <1>9, <1>10

LEMMA CreationWell ==
  ASSUME Typing, Running, Ground, NEW o \in Created, Current.call \in Creates,
         NEW a \in AspectNames
  PROVE  Well(o, a)
<1> DEFINE fs == Current.with
<1>1. /\ o \in Attributes /\ o.frozen = config.frozen /\ o.home = config.home
      /\ "body" \in fs => o.body = config.body
      /\ "parts" \in fs => o.parts = config.parts
      /\ "status" \in fs => o.status = config.status
      /\ \/ o.status \in {"ACTIVE", config.status} \/ "inactive" \in fs
         \/ There(object) /\ R.identity # "assigned" /\ o.status = object.status
      /\ R.identity = "assigned" /\ "inactive" \in fs /\ fs \cap {"status", "status?"} = {}
           => o.status = "INACTIVE"
  BY CreatedFrom, CreatedAt DEF Ground
<1>2. There(o)
  BY <1>1, ThereTyped DEF Maybe
<1>3. /\ Answered(o).answer = o.status /\ Answered(o).adds = d.adds \ o.parts
      /\ Answered(o).drops = d.drops \cap o.parts
  BY <1>2, AnsweredAt DEF Typing, TypeOK
<1>4. /\ FacetOf("frozen") = "frozen" /\ FacetOf("body") = "body" /\ FacetOf("home") = "home"
      /\ FacetOf("active") = "status" /\ FacetOf("inactive") = "status"
      /\ FacetOf("has") = "parts" /\ FacetOf("only") = "parts"
      /\ FacetOf("to_add") = "parts" /\ FacetOf("to_drop") = "parts"
  BY DEF FacetOf
<1>5. Leaves(Current, a) /\ (There(object) => Fits(a, object, config, d))
        => Fits(a, o, config, Answered(o))
  BY <1>1, <1>3, <1>4 DEF Leaves, Fits, AspectNames
<1>6. Brings(R, op, Current, a) => Fits(a, o, config, Answered(o))
  BY <1>1, <1>3, <1>4 DEF Brings, Fits, AspectNames, Creates
<1>7. Leaves(Current, a) /\ There(object) /\ Spared(a, object, config, d.prior)
        => Spared(a, o, config, d.prior)
  BY <1>1, <1>3, <1>4 DEF Leaves, Spared, AspectNames
<1>8. QED  BY <1>5, <1>6, <1>7 DEF Well

\* The other calls.
LEMMA CallWell ==
  ASSUME Typing, Running, Ground, Due, Here, Current.call \in Calls \ {"remove", "reset"},
         Current.call \notin Creates, NEW o \in Outcomes, NEW a \in AspectNames
  PROVE  o \in Attributes /\ Well(o, a)
<1>1. /\ object \in Attributes /\ There(object) /\ d.attrs = config /\ config \in Attributes
      /\ d.adds \subseteq Parts /\ object.home = config.home
  BY ThereTyped DEF Typing, TypeOK, DataOK, Here, Found, Ground
<1>2. ASSUME o \in Attributes
      PROVE  There(o) /\ Answered(o).answer = o.status /\ Answered(o).adds = d.adds \ o.parts
             /\ Answered(o).drops = d.drops \cap o.parts
  BY <1>2, AnsweredAt, ThereTyped DEF Typing, TypeOK, Maybe
<1>3. /\ FacetOf("frozen") = "frozen" /\ FacetOf("body") = "body" /\ FacetOf("home") = "home"
      /\ FacetOf("active") = "status" /\ FacetOf("inactive") = "status"
      /\ FacetOf("has") = "parts" /\ FacetOf("only") = "parts"
      /\ FacetOf("to_add") = "parts" /\ FacetOf("to_drop") = "parts"
  BY DEF FacetOf
<1>4. CASE Current.call = "put"
  <2>1. o \in Written(object, Current.with)
    BY <1>4 DEF Outcomes, Creates
  <2>2. o \in Attributes
    BY <1>1, <2>1, WrittenTyped
  <2>3. /\ o.frozen = IF "frozen" \in Current.with THEN config.frozen ELSE object.frozen
        /\ o.home = config.home
        /\ o.body = IF "body" \in Current.with THEN config.body ELSE object.body
        /\ o.parts = IF "parts" \in Current.with THEN config.parts ELSE object.parts
        /\ o.status \in {object.status, config.status}
        /\ "status" \in Current.with => o.status = config.status
    BY <1>1, <2>1, WrittenAt
  <2>4. (There(object) => Fits(a, object, config, d)) => Fits(a, o, config, Answered(o))
    BY <1>1, <1>2, <2>2, <2>3 DEF Fits, AspectNames
  <2>5. Brings(R, op, Current, a) => Fits(a, o, config, Answered(o))
    BY <1>1, <1>2, <1>3, <1>4, <2>2, <2>3 DEF Brings, Fits, AspectNames, Creates
  <2>6. Spared(a, object, config, d.prior) => Spared(a, o, config, d.prior)
    BY <1>1, <2>3 DEF Spared, AspectNames
  <2>7. QED  BY <2>2, <2>4, <2>5, <2>6 DEF Well
<1>5. CASE Current.call \in {"activate", "deactivate"}
  <2>1. /\ o = [object EXCEPT !.status = o.status] /\ o.status \in {"ACTIVE", "INACTIVE"}
        /\ o.status = IF Current.call = "activate" THEN "ACTIVE" ELSE "INACTIVE"
    BY <1>1, <1>5 DEF Outcomes, Creates, Attributes
  <2>2. /\ o \in Attributes /\ o.frozen = object.frozen /\ o.body = object.body
        /\ o.parts = object.parts /\ o.home = object.home
    BY <1>1, <2>1 DEF Attributes, Statuses
  <2>3. \A g \in Current.when : Holds(g)
    BY DEF Due
  <2>4. /\ "active" \in Current.when => config.status = "ACTIVE"
        /\ "inactive" \in Current.when => config.status = "INACTIVE"
    BY <1>1, <2>3 DEF Holds
  <2>5. Leaves(Current, a) /\ (There(object) => Fits(a, object, config, d))
          => Fits(a, o, config, Answered(o))
    BY <1>1, <1>2, <1>5, <2>1, <2>2, <2>4 DEF Leaves, Fits, AspectNames
  <2>6. ~Brings(R, op, Current, a)
    BY <1>5 DEF Brings, Creates
  <2>7. Leaves(Current, a) /\ Spared(a, object, config, d.prior) => Spared(a, o, config, d.prior)
    BY <1>1, <1>5, <2>1, <2>2, <2>4 DEF Leaves, Spared, AspectNames
  <2>8. QED  BY <2>2, <2>5, <2>6, <2>7 DEF Well
<1>6. CASE Current.call \in {"add", "add_all", "drop"}
  <2>1. /\ o = [object EXCEPT !.parts = o.parts]
        /\ \/ object.parts \subseteq o.parts /\ o.parts \subseteq object.parts \cup d.adds
           \/ o.parts \subseteq object.parts /\ object.parts \subseteq o.parts \cup d.drops
    BY <1>1, <1>6 DEF Outcomes, Creates, Attributes
  <2>2. /\ o \in Attributes /\ o.frozen = object.frozen /\ o.body = object.body
        /\ o.status = object.status /\ o.home = object.home
    <3>1. object.parts \subseteq Parts
      BY <1>1 DEF Attributes
    <3>2. o.parts \in SUBSET Parts
      BY <1>1, <2>1, <3>1
    <3>3. QED  BY <1>1, <2>1, <3>2 DEF Attributes
  <2>3. d.adds \subseteq config.parts /\ d.drops \cap config.parts = {}
    BY DEF Ground
  <2>4. (There(object) => Fits(a, object, config, d)) => Fits(a, o, config, Answered(o))
    <3>1. a \in {"to_add", "to_drop", "has", "only"} \/ a \notin {"to_add", "to_drop", "has", "only"}
      OBVIOUS
    <3>2. ASSUME a \notin {"to_add", "to_drop", "has", "only"}, Fits(a, object, config, d)
          PROVE  Fits(a, o, config, Answered(o))
      BY <1>2, <2>2, <3>2 DEF Fits
    <3>3. ASSUME a \in {"to_add", "to_drop", "has", "only"}, Fits(a, object, config, d)
          PROVE  Fits(a, o, config, Answered(o))
      <4>1. o.parts \subseteq object.parts \cup config.parts
        BY <2>1, <2>3
      <4>2. \A q \in config.parts : q \in object.parts => q \in o.parts
        BY <2>1, <2>3
      <4>3. CASE a = "has"
        BY <3>3, <4>2, <4>3 DEF Fits
      <4>4. CASE a = "only"
        BY <3>3, <4>1, <4>4 DEF Fits
      <4>5. CASE a = "to_add"
        BY <1>2, <2>2, <3>3, <4>2, <4>5 DEF Fits
      <4>6. CASE a = "to_drop"
        BY <1>2, <2>2, <3>3, <2>1, <2>3, <4>6 DEF Fits
      <4>7. QED  BY <3>3, <4>3, <4>4, <4>5, <4>6
    <3>4. QED  BY <1>1, <3>2, <3>3
  <2>5. ~Brings(R, op, Current, a)
    BY <1>6 DEF Brings, Creates
  <2>6. Spared(a, object, config, d.prior) => Spared(a, o, config, d.prior)
    BY <2>1, <2>2, <2>3 DEF Spared, AspectNames
  <2>7. QED  BY <1>1, <2>2, <2>4, <2>5, <2>6 DEF Well
<1>7. QED  BY <1>4, <1>5, <1>6 DEF Calls, Creates

LEMMA ExistingWell ==
  ASSUME Typing, Running, Ground, Current.call = "ensure", Exists, NEW a \in AspectNames
  PROVE  There(object) /\ Well(object, a)
<1>1. There(object) /\ R.identity # "assigned" /\ object.frozen = config.frozen
  BY DEF Exists, Ground
<1>2. /\ Answered(object).answer = object.status /\ Answered(object).adds = d.adds \ object.parts
      /\ Answered(object).drops = d.drops \cap object.parts
  BY <1>1, AnsweredAt DEF Typing, TypeOK
<1>3. Fits(a, object, config, d) => Fits(a, object, config, Answered(object))
  BY <1>2 DEF Fits
<1>4. Brings(R, op, Current, a) => Fits(a, object, config, Answered(object))
  BY <1>1, <1>2 DEF Brings, Fits
<1>5. QED  BY <1>1, <1>3, <1>4 DEF Well

\* Every call of an effective handler leaves an object, and no aspect worse.
LEMMA OutcomesWell ==
  ASSUME Typing, InPlace, Effective(R), Running, op \in {"create", "update"}, Ground, Due,
         Current.call \in Calls, NEW o \in Outcomes
  PROVE  There(o) /\ \A a \in AspectNames : Well(o, a)
<1> SUFFICES ASSUME NEW a \in AspectNames  PROVE There(o) /\ Well(o, a)
  BY DEF AspectNames
<1>1. Current.call \notin {"remove", "reset"}
  <2>1. Current \in Steps(HandlerOf(R, op))
    BY CurrentStep DEF HandlerOf, Program
  <2>2. QED  BY <2>1 DEF Effective
<1>2. CASE Current.call = "ensure" /\ Exists
  <2>1. o = object
    BY <1>2 DEF Outcomes
  <2>2. QED  BY <1>2, <2>1, ExistingWell
<1>3. CASE Current.call \in Creates /\ ~(Current.call = "ensure" /\ Exists)
  <2>1. o \in Created
    BY <1>3 DEF Outcomes, Creates
  <2>2. There(o)
    BY <2>1, CreatedFrom, ThereTyped DEF Maybe
  <2>3. QED  BY <1>3, <2>1, <2>2, CreationWell
<1>4. CASE Current.call \notin Creates
  <2>1. Here
    BY <1>4 DEF Outcomes, Creates
  <2>2. o \in Attributes /\ Well(o, a)
    BY <1>1, <1>4, <2>1, CallWell
  <2>3. QED  BY <2>2, ThereTyped DEF Maybe
<1>5. QED  BY <1>2, <1>3, <1>4

\* What is reached after the current step was reached before it and left, or is
\* brought about by it.
LEMMA ReachedNext ==
  ASSUME Typing, Running, op \in {"create", "update"}, NEW a, Reached(R, op, pc + 1, a)
  PROVE  \/ Reached(R, op, pc, a) /\ Leaves(Current, a)
         \/ Brings(R, op, Current, a) \/ Follows(R, op, pc, a)
<1> DEFINE p == HandlerOf(R, op)
<1>1. /\ p = Program /\ DOMAIN p = 1..Len(p) /\ pc \in DOMAIN p /\ Current = p[pc] /\ pc \in Nat
  BY CurrentStep, DomainProgram DEF HandlerOf, Program, Current, Typing, TypeOK
<1>2. PICK j \in DOMAIN p : /\ j < pc + 1 /\ LeftSince(R, op, pc + 1, j, a)
                            /\ Brings(R, op, p[j], a) \/ Follows(R, op, j, a)
  BY DEF Reached
<1>3. j \in Nat
  BY <1>1, <1>2
<1>4. CASE j = pc
  BY <1>1, <1>2, <1>4
<1>5. CASE j # pc
  <2>1. j < pc
    BY <1>1, <1>2, <1>3, <1>5
  <2>2. \A k \in DOMAIN p : j < k /\ k < pc + 1 => Leaves(p[k], a)
    BY <1>2 DEF LeftSince
  <2>3. Leaves(Current, a)
    BY <1>1, <2>1, <2>2
  <2>4. LeftSince(R, op, pc, j, a)
    <3>1. \A k \in DOMAIN p : k < pc => k < pc + 1
      BY <1>1
    <3>2. QED  BY <2>2, <3>1 DEF LeftSince
  <2>5. Reached(R, op, pc, a)
    BY <1>2, <2>1, <2>4 DEF Reached
  <2>6. QED  BY <2>3, <2>5
<1>6. QED  BY <1>4, <1>5

LEMMA LearnedReached ==
  ASSUME NEW h, NEW o, NEW i, NEW a, Learned(h, o, i, a)
  PROVE  Reached(h, o, i, a)
  BY DEF Learned, Reached

\* What is reached after the last step stays reached.
LEMMA ReachedAtEnd ==
  ASSUME Typing, op \in {"create", "update"}, pc > Len(Program), NEW a,
         Reached(R, op, Len(HandlerOf(R, op)) + 1, a)
  PROVE  Reached(R, op, pc, a)
<1> DEFINE p == HandlerOf(R, op)
<1>1. p = Program /\ DOMAIN p = 1..Len(p) /\ Len(p) \in Nat /\ pc \in Nat /\ pc > Len(p)
  BY DomainProgram DEF HandlerOf, Program, Typing, TypeOK
<1>2. PICK j \in DOMAIN p : /\ j < Len(p) + 1 /\ LeftSince(R, op, Len(p) + 1, j, a)
                            /\ Brings(R, op, p[j], a) \/ Follows(R, op, j, a)
  BY DEF Reached
<1>3. \A k \in DOMAIN p : k < Len(p) + 1 /\ k < pc
  BY <1>1
<1>4. LeftSince(R, op, pc, j, a)
  BY <1>2, <1>3 DEF LeftSince
<1>5. QED  BY <1>2, <1>3, <1>4 DEF Reached

LEMMA CompleteAtEnd ==
  ASSUME Typing, op \in {"create", "update"}, pc > Len(Program),
         Complete(R, op, Len(HandlerOf(R, op)) + 1)
  PROVE  Complete(R, op, pc)
  BY ReachedAtEnd DEF Complete

\* AllRight: what was reached so far is right.
AllRight == \A a \in AspectNames : Reached(R, op, pc, a) => Right(a, object, config, d)

\* A step that would bring an aspect about is passed over only where it is right.
LEMMA SkippedRight ==
  ASSUME Typing, Effective(R), Running, op \in {"create", "update"}, Ground, AllRight, ~Due,
         NEW a \in AspectNames, Brings(R, op, Current, a) \/ Follows(R, op, pc, a)
  PROVE  Right(a, object, config, d)
<1>1. PICK g \in Current.when : ~Holds(g)
  BY DEF Due
<1>2. There(d.prior) => /\ op = "update" /\ There(object)
                       /\ \A b \in Aspects(R) : Spares(R, b) => Spared(b, object, config, d.prior)
  BY DEF Ground
<1>3. d.attrs = config /\ config \in Attributes
  BY DEF Ground
<1>4. ASSUME g = "attributes_changed"  PROVE There(d.prior) /\ d.prior.body = config.body
  BY <1>1, <1>3, <1>4 DEF Holds
<1>5. ASSUME g = "status_changed"  PROVE There(d.prior) /\ d.prior.status = config.status
  BY <1>1, <1>3, <1>5 DEF Holds
<1>6. ASSUME g = "parts_changed"  PROVE There(d.prior) /\ d.prior.parts = config.parts
  BY <1>1, <1>3, <1>6 DEF Holds
<1>7. /\ g = "active" => config.status # "ACTIVE"
      /\ g = "inactive" => config.status # "INACTIVE"
      /\ g = "status_differs" => d.answer = config.status
  BY <1>1, <1>3 DEF Holds
<1>8. ASSUME a \in Aspects(R), g \in Changes(R, op, a)  PROVE Right(a, object, config, d)
  <2>0. There(d.prior) /\ op = "update"
    BY <1>2, <1>4, <1>5, <1>6, <1>8 DEF Changes
  <2>1. There(d.prior) /\ Spared(a, object, config, d.prior)
    BY <1>2, <1>8, <2>0 DEF Changes
  <2>2. Fits(a, object, config, d)
    <3>1. CASE a \in {"active", "inactive"}
      BY <1>5, <1>8, <2>1, <3>1 DEF Changes, Spared, Fits
    <3>2. CASE a \in {"has", "only"}
      BY <1>6, <1>8, <2>1, <3>2 DEF Changes, Spared, Fits
    <3>3. CASE a = "body"
      BY <1>4, <1>8, <2>1, <3>3 DEF Changes, Spared, Fits
    <3>4. QED  BY <1>8, <3>1, <3>2, <3>3 DEF Changes
  <2>3. a \notin {"refused", "made", "meant"}
    BY <1>8 DEF Changes
  <2>4. QED  BY <2>2, <2>3 DEF Right
<1>9. CASE Brings(R, op, Current, a)
  <2>1. \/ a \in Aspects(R) /\ Current.when \subseteq Changes(R, op, a)
        \/ a \in {"to_add", "to_drop"} /\ "parts" \in R.facets /\ Current.when \subseteq {"parts_changed"}
        \/ a = "meant" /\ Current.when = {"inactive"}
    BY <1>1, <1>9 DEF Brings
  <2>2. CASE a \in {"to_add", "to_drop"} /\ "parts" \in R.facets /\ Current.when \subseteq {"parts_changed"}
    <3>1. g = "parts_changed" /\ "has" \in Aspects(R) /\ "only" \in Aspects(R)
      BY <1>1, <2>2 DEF Aspects
    <3>2. object.parts = config.parts
      <4>1. /\ Spared("has", object, config, d.prior) /\ Spared("only", object, config, d.prior)
            /\ d.prior.parts = config.parts
        BY <1>2, <1>6, <3>1 DEF Effective
      <4>2. config.parts \subseteq object.parts /\ object.parts \subseteq config.parts
        BY <4>1 DEF Spared
      <4>3. QED  BY <4>2
    <3>3. QED  BY <2>2, <3>2 DEF Right, Fits
  <2>3. CASE a = "meant" /\ Current.when = {"inactive"}
    <3>1. config.status = "ACTIVE"
      BY <1>1, <1>3, <1>7, <2>3 DEF Attributes, Statuses
    <3>2. QED  BY <2>3, <3>1 DEF Right, Fits
  <2>4. QED  BY <1>1, <1>8, <2>1, <2>2, <2>3
<1>10. CASE Follows(R, op, pc, a)
  <2>1. Current = HandlerOf(R, op)[pc]
    BY CurrentStep DEF HandlerOf, Program, Current
  <2>2. a \in Aspects(R)
    BY <1>10 DEF Follows
  <2>3. \/ g \in Changes(R, op, a)
        \/ a = "active" /\ g = "active"
        \/ a = "inactive" /\ g = "inactive"
        \/ a \in {"active", "inactive"} /\ g = "status_differs" /\ Learned(R, op, pc, "answered")
    BY <1>1, <1>10, <2>1 DEF Follows
  <2>4. CASE g = "status_differs" /\ a \in {"active", "inactive"} /\ Learned(R, op, pc, "answered")
    <3>1. Right("answered", object, config, d)
      BY <2>4, LearnedReached DEF AllRight, AspectNames
    <3>2. There(object) => object.status = config.status
      BY <1>7, <2>4, <3>1 DEF Right, Fits
    <3>3. QED  BY <2>4, <3>2 DEF Right, Fits
  <2>5. CASE a = "active" /\ g = "active"
    BY <1>7, <2>5 DEF Right, Fits
  <2>6. CASE a = "inactive" /\ g = "inactive"
    BY <1>7, <2>6 DEF Right, Fits
  <2>7. CASE g \in Changes(R, op, a)
    BY <1>8, <2>2, <2>7
  <2>8. QED  BY <2>3, <2>4, <2>5, <2>6, <2>7
<1>11. QED  BY <1>9, <1>10

\* Tracked: a handler that runs undisturbed has brought about what it reached.
Tracked ==
  /\ op = "delete" /\ ~replacing => ~There(config)
  /\ op \in {"create", "update"} => There(config) /\ (~touched => Ground /\ AllRight)

\* A step that the handler passes, or that changes nothing.
LEMMA PassedTracked ==
  ASSUME Typing, op \in {"create", "update"}, Running, Ground, AllRight,
         UNCHANGED << kind, object, config, op, d >>, pc' = pc + 1,
         \A a \in AspectNames : Brings(R, op, Current, a) \/ Follows(R, op, pc, a)
                                  => Right(a, object, config, d)
  PROVE  (Ground /\ AllRight)'
<1>1. R' = R
  BY DEF R
<1>2. Ground'
  BY <1>1 DEF Ground, There
<1>3. ASSUME NEW a \in AspectNames, Reached(R, op, pc + 1, a)
      PROVE  Right(a, object, config, d)
  BY <1>3, ReachedNext DEF AllRight
<1>4. AllRight'
  BY <1>1, <1>3 DEF AllRight
<1>5. QED  BY <1>2, <1>4

LEMMA CallTracked ==
  ASSUME Typing, InPlace, Effective(R), op \in {"create", "update"}, Ground, AllRight, Call
  PROVE  (Ground /\ AllRight)'
<1>1. /\ Running /\ Due /\ Current.call \in Calls /\ object' \in Outcomes /\ d' = Answered(object')
      /\ UNCHANGED << kind, config, op >> /\ R' = R
      /\ pc' = IF \/ Current.call = "add" /\ d'.adds # {}
                  \/ Current.call = "drop" /\ d'.drops # {}
               THEN pc ELSE pc + 1
  BY DEF Call, Due, Answered, R
<1>2. There(object') /\ \A a \in AspectNames : Well(object', a)
  BY <1>1, OutcomesWell
<1>3. /\ d'.attrs = d.attrs /\ d'.prior = d.prior /\ d'.answer = object'.status
      /\ d'.adds = d.adds \ object'.parts /\ d'.drops = d.drops \cap object'.parts
  BY <1>1, <1>2, AnsweredAt DEF Typing, TypeOK
<1>4. Ground'
  <2>1. ASSUME op = "update", NEW a \in Aspects(R), Spares(R, a)
        PROVE  Spared(a, object', config, d.prior)
    <3>1. Leaves(Current, a)
      BY <1>1, <2>1, CurrentStep DEF Spares
    <3>2. a \in AspectNames
      BY <2>1 DEF Aspects, AspectNames
    <3>3. There(object) /\ Spared(a, object, config, d.prior)
      BY <2>1 DEF Ground
    <3>4. QED  BY <1>2, <2>1, <3>1, <3>2, <3>3 DEF Well
  <2>2. d'.adds \subseteq config.parts /\ d'.drops \cap config.parts = {}
    BY <1>3 DEF Ground
  <2>3. QED  BY <1>1, <1>2, <1>3, <2>1, <2>2 DEF Ground, There
<1>5. ASSUME NEW a \in AspectNames, Reached(R, op, pc, a), Leaves(Current, a)
      PROVE  Right(a, object', config, d')
  <2>1. Right(a, object, config, d)
    BY <1>5 DEF AllRight
  <2>2. Fits(a, object', config, d')
    BY <1>1, <1>2, <1>5, <2>1 DEF Well, Right
  <2>3. QED  BY <1>2, <2>1, <2>2 DEF Right
<1>6. ASSUME NEW a \in AspectNames, Brings(R, op, Current, a)
      PROVE  Right(a, object', config, d')
  <2>1. Fits(a, object', config, d')
    BY <1>1, <1>2, <1>6 DEF Well
  <2>2. a \notin {"refused", "meant"}
    BY <1>1, <1>6 DEF Brings, Calls, Aspects
  <2>3. QED  BY <1>2, <2>1, <2>2 DEF Right
<1>7. ASSUME NEW a \in AspectNames, Follows(R, op, pc, a), pc' = pc + 1
      PROVE  Right(a, object', config, d')
  <2>1. Current = HandlerOf(R, op)[pc]
    BY <1>1, CurrentStep DEF HandlerOf, Program, Current
  <2>2. CASE a = "has"
    <3>1. Current.call \in {"add", "add_all"} /\ Learned(R, op, pc, "to_add")
      BY <1>7, <2>1, <2>2 DEF Follows
    <3>2. Leaves(Current, "to_add") /\ "to_add" \in AspectNames
      BY <3>1 DEF Leaves, Creates, AspectNames
    <3>3. Fits("to_add", object', config, d')
      <4>1. Right("to_add", object', config, d')
        BY <1>5, <3>1, <3>2, LearnedReached
      <4>2. QED  BY <1>2, <4>1 DEF Right
    <3>4. d'.adds = {}
      <4>1. CASE Current.call = "add"
        BY <1>1, <1>7, <4>1, DomainProgram DEF Typing, TypeOK
      <4>2. CASE Current.call = "add_all"
        <5>1. object' = [object EXCEPT !.parts = @ \cup d.adds] /\ Here
          BY <1>1, <4>2 DEF Outcomes, Creates
        <5>2. object \in Attributes
          BY <5>1, ThereTyped DEF Here, Found, Typing, TypeOK
        <5>3. d.adds \subseteq object'.parts
          BY <5>1, <5>2 DEF Attributes
        <5>4. QED  BY <1>3, <5>3
      <4>3. QED  BY <3>1, <4>1, <4>2
    <3>5. QED  BY <2>2, <3>3, <3>4 DEF Fits, Right
  <2>3. CASE a = "only"
    <3>1. Current.call = "drop" /\ Learned(R, op, pc, "to_drop")
      BY <1>7, <2>1, <2>3 DEF Follows
    <3>2. Leaves(Current, "to_drop") /\ "to_drop" \in AspectNames
      BY <3>1 DEF Leaves, Creates, AspectNames
    <3>3. Fits("to_drop", object', config, d')
      <4>1. Right("to_drop", object', config, d')
        BY <1>5, <3>1, <3>2, LearnedReached
      <4>2. QED  BY <1>2, <4>1 DEF Right
    <3>4. d'.drops = {}
      BY <1>1, <1>7, <3>1, DomainProgram DEF Typing, TypeOK
    <3>5. QED  BY <2>3, <3>3, <3>4 DEF Fits, Right
  <2>4. CASE a \in {"active", "inactive"}
    <3>1. \/ a = "active" /\ Current.call = "activate"
          \/ a = "inactive" /\ Current.call = "deactivate"
      BY <1>7, <2>1, <2>4 DEF Follows
    <3>2. Here /\ object' = [object EXCEPT !.status = IF a = "active" THEN "ACTIVE" ELSE "INACTIVE"]
      BY <1>1, <3>1 DEF Outcomes, Creates
    <3>3. object \in Attributes
      BY <3>2, ThereTyped DEF Here, Found, Typing, TypeOK
    <3>4. object'.status = IF a = "active" THEN "ACTIVE" ELSE "INACTIVE"
      BY <3>2, <3>3 DEF Attributes
    <3>5. QED  BY <2>4, <3>4 DEF Fits, Right
  <2>5. QED  BY <1>7, <2>2, <2>3, <2>4 DEF Follows
<1>8. ASSUME NEW a \in AspectNames, Reached(R, op, pc', a)
      PROVE  Right(a, object', config, d')
  <2>1. CASE pc' = pc + 1
    BY <1>1, <1>5, <1>6, <1>7, <1>8, <2>1, ReachedNext
  <2>2. CASE pc' # pc + 1
    <3>1. pc' = pc /\ Current.call \in {"add", "drop"}
      BY <1>1, <2>2
    <3>2. Leaves(Current, a)
      BY <3>1 DEF Leaves, Creates
    <3>3. QED  BY <1>5, <1>8, <3>1, <3>2
  <2>3. QED  BY <2>1, <2>2
<1>9. AllRight'
  BY <1>1, <1>8 DEF AllRight
<1>10. QED  BY <1>4, <1>9

LEMMA PassTracked ==
  ASSUME Typing, InPlace, Effective(R), op \in {"create", "update"}, Ground, AllRight, Pass
  PROVE  (Ground /\ AllRight)'
<1>1. /\ Running /\ Due /\ UNCHANGED << kind, object, config, op, d >>
      /\ pc' = IF Current.call = "find" /\ ~Here THEN Len(Program) + 1 ELSE pc + 1
  BY DEF Pass, Due
<1>2. /\ Current.call = "find" => There(object) /\ Here
      /\ Current.quiet => "home" \notin R.facets
  <2>1. Current \in Steps(HandlerOf(R, op))
    BY <1>1, CurrentStep DEF HandlerOf, Program
  <2>2. Current.call = "find" => op = "update" /\ "home" \notin R.facets
    BY <2>1 DEF Effective
  <2>3. Current.quiet => "home" \notin R.facets
    BY <2>1 DEF Effective
  <2>4. QED  BY <1>1, <2>2, <2>3, FoundAtHome DEF Ground, Running
<1>3. pc' = pc + 1 /\ Current = HandlerOf(R, op)[pc]
  BY <1>1, <1>2, CurrentStep DEF HandlerOf, Program, Current
<1>4. "home" \notin R.facets => (Here <=> There(object))
  BY <1>1, FoundAtHome DEF Running
<1>5. ASSUME NEW a \in AspectNames, Brings(R, op, Current, a) \/ Follows(R, op, pc, a)
      PROVE  Right(a, object, config, d)
  <2>1. CASE Current.call \in {"check", "find"}
    BY <1>3, <1>5, <2>1 DEF Brings, Follows, Creates
  <2>2. CASE Idle
    <3>1. Current.call \in {"add", "add_all", "drop"}
      BY <2>2 DEF Idle
    <3>2. ~Brings(R, op, Current, a)
      BY <3>1 DEF Brings, Creates
    <3>3. \/ a = "has" /\ d.adds = {} /\ Learned(R, op, pc, "to_add")
          \/ a = "only" /\ d.drops = {} /\ Learned(R, op, pc, "to_drop")
      BY <1>3, <1>5, <2>2, <3>1, <3>2 DEF Follows, Idle
    <3>4. CASE a = "has" /\ d.adds = {} /\ Learned(R, op, pc, "to_add")
      <4>1. Right("to_add", object, config, d)
        BY <3>4, LearnedReached DEF AllRight, AspectNames
      <4>2. QED  BY <3>4, <4>1 DEF Right, Fits
    <3>5. CASE a = "only" /\ d.drops = {} /\ Learned(R, op, pc, "to_drop")
      <4>1. Right("to_drop", object, config, d)
        BY <3>5, LearnedReached DEF AllRight, AspectNames
      <4>2. QED  BY <3>5, <4>1 DEF Right, Fits
    <3>6. QED  BY <3>3, <3>4, <3>5
  <2>3. CASE Current.call \in Calls \ {"post", "ensure"} /\ Current.quiet /\ ~Here
    <3>1. ~There(object)
      BY <1>2, <1>4, <2>3
    <3>2. a \notin {"made", "refused", "meant"}
      BY <1>3, <1>5, <2>3 DEF Brings, Follows, Creates, Calls, Aspects
    <3>3. QED  BY <3>1, <3>2 DEF Right
  <2>4. QED  BY <2>1, <2>2, <2>3 DEF Pass
<1>6. QED  BY <1>1, <1>3, <1>5, PassedTracked

LEMMA OverlookTracked ==
  ASSUME Typing, op \in {"create", "update"}, Ground, AllRight, Overlook
  PROVE  (Ground /\ AllRight)'
<1>1. /\ Running /\ Current.careless /\ UNCHANGED << kind, object, config, op, d >> /\ pc' = pc + 1
  BY DEF Overlook, Due
<1>2. Current = HandlerOf(R, op)[pc]
  BY <1>1, CurrentStep DEF HandlerOf, Program, Current
<1>3. \A a : ~Brings(R, op, Current, a) /\ ~Follows(R, op, pc, a)
  BY <1>1, <1>2 DEF Brings, Follows
<1>4. QED  BY <1>1, <1>3, PassedTracked

LEMMA SkipTracked ==
  ASSUME Typing, Effective(R), op \in {"create", "update"}, Ground, AllRight, Skip
  PROVE  (Ground /\ AllRight)'
<1>1. /\ Running /\ ~Due /\ UNCHANGED << kind, object, config, op, d >> /\ pc' = pc + 1
  BY DEF Skip
<1>2. \A a \in AspectNames : Brings(R, op, Current, a) \/ Follows(R, op, pc, a)
                               => Right(a, object, config, d)
  BY <1>1, SkippedRight
<1>3. QED  BY <1>1, <1>2, PassedTracked

\* Where all is reached, the object is as configured in all facets.
LEMMA AllAspects ==
  ASSUME Typing, op \in {"create", "update"}, Ground, There(object),
         \A a \in Aspects(R) : Fits(a, object, config, d)
  PROVE  \A f \in R.facets : object[f] = config[f]
<1>1. R.facets \subseteq Facets
  BY HandlersAssumption DEF R, Typing, TypeOK, Kinds
<1>2. object \in Attributes /\ config \in Attributes
  BY ThereTyped DEF Typing, TypeOK, Ground
<1>3. "frozen" \in R.facets => object["frozen"] = config["frozen"]
  BY DEF Fits, Aspects
<1>4. /\ "body" \in R.facets => object["body"] = config["body"]
      /\ "home" \in R.facets => object["home"] = config["home"]
  BY DEF Fits, Aspects
<1>5. "parts" \in R.facets => object["parts"] = config["parts"]
  <2>1. "parts" \in R.facets => /\ Fits("has", object, config, d) /\ Fits("only", object, config, d)
    BY DEF Aspects
  <2>2. "parts" \in R.facets => config.parts \subseteq object.parts /\ object.parts \subseteq config.parts
    BY <2>1 DEF Fits
  <2>3. QED  BY <2>2
<1>6. "status" \in R.facets => object["status"] = config["status"]
  <2>1. "status" \in R.facets => /\ Fits("active", object, config, d)
                                 /\ Fits("inactive", object, config, d)
    BY DEF Aspects
  <2>2. object.status \in {"ACTIVE", "INACTIVE"} /\ config.status \in {"ACTIVE", "INACTIVE"}
    BY <1>2 DEF Attributes, Statuses
  <2>3. QED  BY <2>1, <2>2 DEF Fits
<1>7. QED  BY <1>1, <1>3, <1>4, <1>5, <1>6 DEF Facets

LEMMA CompleteInForce ==
  ASSUME Typing, Standing, Effective(R), op \in {"create", "update"}, Ground, AllRight,
         Complete(R, op, pc)
  PROVE  There(object) /\ \A f \in R.facets : object[f] = config[f]
<1>1. ~Reached(R, op, pc, "refused")
  BY DEF AllRight, AspectNames, Right
<1>2. /\ \A a \in Aspects(R) : \/ Reached(R, op, pc, a)
                               \/ a = "frozen" /\ op = "update" /\ R.replaced
                               \/ a = "inactive" /\ Reached(R, op, pc, "meant")
      /\ op = "create" => R.identity = "singleton" \/ Reached(R, op, pc, "made")
  BY <1>1 DEF Complete
<1>3. There(object)
  <2>1. Reached(R, op, pc, "made") => Right("made", object, config, d)
    BY DEF AllRight, AspectNames
  <2>2. QED  BY <1>2, <2>1 DEF Right, Standing, Permanent, Effective, Ground
<1>4. ASSUME NEW a \in Aspects(R)  PROVE Fits(a, object, config, d)
  <2>1. CASE Reached(R, op, pc, a)
    <3>1. a \in AspectNames
      BY <1>4 DEF Aspects, AspectNames
    <3>2. QED  BY <1>3, <2>1, <3>1 DEF AllRight, Right
  <2>2. CASE op = "update" /\ a = "frozen" /\ R.replaced
    <3>1. Spares(R, a)
      BY <1>4, <2>2 DEF Effective
    <3>2. QED  BY <1>4, <2>2, <3>1 DEF Ground, Spared, Fits
  <2>3. CASE a = "inactive" /\ Reached(R, op, pc, "meant")
    <3>1. config.status = "ACTIVE"
      BY <2>3 DEF AllRight, AspectNames, Right
    <3>2. QED  BY <2>3, <3>1 DEF Fits
  <2>4. QED  BY <1>2, <1>4, <2>1, <2>2, <2>3
<1>5. QED  BY <1>3, <1>4, AllAspects

\* What is read of an object that is as configured is what is configured.
LEMMA FacingSame ==
  ASSUME object \in Attributes, config \in Attributes, \A f \in R.facets : object[f] = config[f]
  PROVE  Facing(config) = config
<1>1. Facing(config) \in Attributes
  BY FacingTyped
<1>2. ASSUME NEW f \in Facets  PROVE Facing(config)[f] = config[f]
  <2>1. Facing(config)[f] \in {config[f], object[f]} /\ (f \notin R.facets => Facing(config)[f] = config[f])
    BY FacingAt
  <2>2. QED  BY <2>1
<1>3. QED  BY <1>1, <1>2, SameAttributes

LEMMA ComputeTracked ==
  ASSUME Typing, InPlace, Plain, Standing, Effective(R), op \in {"create", "update"}, Ground,
         AllRight, Compute
  PROVE  (Ground /\ AllRight)'
<1>1. /\ Running /\ Due /\ pc' = pc + 1 /\ UNCHANGED << kind, object, config, op >> /\ R' = R
      /\ DataOK
  BY DEF Compute, Due, R, Typing, TypeOK
<1>2. Current = HandlerOf(R, op)[pc] /\ pc \in DOMAIN HandlerOf(R, op)
  BY <1>1, CurrentStep DEF HandlerOf, Program, Current
<1>3. Here => There(object)
  BY DEF Here, Found
<1>4. config.parts \subseteq Parts /\ d.attrs = config /\ Wanted = config.parts
  BY DEF Ground, Wanted, Attributes
<1>5. \A a : ~Follows(R, op, pc, a)
  BY <1>1, <1>2 DEF Compute, Follows
<1> DEFINE before == IF There(d.prior) THEN d.prior.parts ELSE {}
<1>6. \/ d' = [d EXCEPT !.id = d'.id]
      \/ Current.call = "look" /\ Here /\ d' = [d EXCEPT !.answer = object.status]
      \/ Current.call = "diff_state" /\ d' = [d EXCEPT !.adds = Wanted \ before, !.drops = before \ Wanted]
      \/ Current.call = "diff_anew" /\ d' = [d EXCEPT !.adds = Wanted, !.drops = before \ Wanted]
      \/ Current.call = "diff_listing" /\ Here
           /\ d' = [d EXCEPT !.adds = Wanted \ object.parts, !.drops = object.parts \ Wanted]
      \/ Current.call = "read_back" /\ Here /\ d' = [d EXCEPT !.attrs = Facing(@)]
  BY <1>1 DEF Compute, DataOK
<1>7. Current.call = "read_back" /\ Here => Facing(d.attrs) = config
  <2> SUFFICES ASSUME Current.call = "read_back", Here  PROVE Facing(config) = config
    BY <1>4
  <2>1. Complete(R, op, pc)
    BY <1>2 DEF Effective
  <2>2. \A f \in R.facets : object[f] = config[f]
    BY <2>1, CompleteInForce
  <2>3. object \in Attributes /\ config \in Attributes
    BY <1>3, ThereTyped DEF Typing, TypeOK, Ground
  <2>4. QED  BY <2>2, <2>3, FacingSame
<1>8. /\ d'.attrs = config /\ d'.prior = d.prior
      /\ d'.adds \subseteq config.parts /\ d'.drops \cap config.parts = {}
  <2>1. /\ d.adds \subseteq config.parts /\ d.drops \cap config.parts = {}
        /\ d.attrs = config
    BY DEF Ground
  <2>2. CASE d' = [d EXCEPT !.id = d'.id]
    BY <1>1, <2>1, <2>2 DEF DataOK
  <2>3. CASE d' = [d EXCEPT !.answer = object.status]
    BY <1>1, <2>1, <2>3 DEF DataOK
  <2>4. CASE d' = [d EXCEPT !.adds = Wanted \ before, !.drops = before \ Wanted]
    <3>1. d'.adds = config.parts \ before /\ d'.drops = before \ config.parts
          /\ d'.attrs = d.attrs /\ d'.prior = d.prior
      BY <1>1, <1>4, <2>4 DEF DataOK
    <3> HIDE DEF before
    <3>2. QED  BY <2>1, <3>1
  <2>5. CASE d' = [d EXCEPT !.adds = Wanted \ object.parts, !.drops = object.parts \ Wanted]
    <3>1. d'.adds = config.parts \ object.parts /\ d'.drops = object.parts \ config.parts
          /\ d'.attrs = d.attrs /\ d'.prior = d.prior
      BY <1>1, <1>4, <2>5 DEF DataOK
    <3>2. QED  BY <2>1, <3>1
  <2>6. CASE Current.call = "read_back" /\ Here /\ d' = [d EXCEPT !.attrs = Facing(@)]
    BY <1>1, <1>7, <2>1, <2>6 DEF DataOK
  <2>7. CASE d' = [d EXCEPT !.adds = Wanted, !.drops = before \ Wanted]
    <3>1. d'.adds = config.parts /\ d'.drops = before \ config.parts
          /\ d'.attrs = d.attrs /\ d'.prior = d.prior
      BY <1>1, <1>4, <2>7 DEF DataOK
    <3> HIDE DEF before
    <3>2. QED  BY <2>1, <3>1
  <2>8. QED  BY <1>6, <2>2, <2>3, <2>4, <2>5, <2>6, <2>7
<1>9. Ground'
  BY <1>1, <1>8 DEF Ground, There
<1>10. ASSUME NEW a \in AspectNames, Right(a, object, config, d), Leaves(Current, a)
       PROVE  Right(a, object, config, d')
  <2>1. CASE Current.call \in {"diff_state", "diff_listing", "diff_anew"}
    <3>1. a \notin {"to_add", "to_drop"}
      BY <1>10, <2>1 DEF Leaves
    <3>2. d'.answer = d.answer
      BY <1>1, <1>6, <2>1 DEF DataOK
    <3>3. QED  BY <1>10, <3>1, <3>2 DEF Right, Fits
  <2>2. CASE Current.call \notin {"diff_state", "diff_listing", "diff_anew"}
    <3>1. d'.adds = d.adds /\ d'.drops = d.drops /\ d'.answer \in {d.answer, object.status}
      BY <1>1, <1>6, <2>2 DEF DataOK
    <3>2. QED  BY <1>10, <3>1 DEF Right, Fits
  <2>3. QED  BY <2>1, <2>2
<1>11. ASSUME NEW a \in AspectNames, Brings(R, op, Current, a)
       PROVE  Right(a, object, config, d')
  <2>1. Current.call \in {"set_id", "unset_id", "look", "diff_state", "diff_listing", "diff_anew", "read_back"}
    BY <1>1 DEF Compute
  <2>2. \/ a = "to_add" /\ Current.call \in {"diff_state", "diff_listing"} /\ "parts" \in R.facets
        \/ a = "to_drop" /\ Current.call = "diff_listing"
        \/ a = "to_drop" /\ Current.call = "diff_state" /\ op = "update" /\ "parts" \in R.facets
        \/ a = "answered" /\ Current.call = "look"
    BY <1>11, <2>1 DEF Brings, Creates
  <2>3. CASE Current.call = "look"
    <3>1. d'.answer = object.status
      BY <1>1, <2>3 DEF Compute, DataOK
    <3>2. QED  BY <2>2, <2>3, <3>1 DEF Right, Fits
  <2>4. CASE Current.call = "diff_listing"
    <3>1. d'.adds = config.parts \ object.parts /\ d'.drops = object.parts \ config.parts
      BY <1>1, <1>4, <2>4 DEF Compute, DataOK
    <3>2. QED  BY <2>2, <2>4, <3>1 DEF Right, Fits
  <2>5. CASE Current.call = "diff_state"
    <3>1. d'.adds = config.parts \ before /\ d'.drops = before \ config.parts
      BY <1>1, <1>4, <2>5 DEF Compute, DataOK
    <3>2. "parts" \in R.facets => "has" \in Aspects(R) /\ "only" \in Aspects(R)
      BY DEF Aspects
    <3>3. op = "create" => before = {}
      BY DEF Ground
    <3>4. op = "update" /\ "parts" \in R.facets =>
            before \cap config.parts \subseteq object.parts /\ object.parts \subseteq before \cup config.parts
      BY <3>2 DEF Ground, Spared, Effective
    <3> HIDE DEF before
    <3>5. QED  BY <2>2, <2>5, <3>1, <3>3, <3>4 DEF Right, Fits
  <2>6. QED  BY <2>2, <2>3, <2>4, <2>5
<1>12. ASSUME NEW a \in AspectNames, Reached(R, op, pc + 1, a)
       PROVE  Right(a, object, config, d')
  BY <1>1, <1>5, <1>10, <1>11, <1>12, ReachedNext DEF AllRight
<1>13. AllRight'
  BY <1>1, <1>12 DEF AllRight
<1>14. QED  BY <1>9, <1>13

-----------------------------------------------------------------------------
\* What is read into the attributes of an effective handler is what is there.
LEMMA FacingRead ==
  ASSUME Effective(R), NEW x, NEW f \in R.facets, f \in Facets
  PROVE  Facing(x)[f] = object[f]
<1> DEFINE kept == R.read.unread \cup
              (IF "no_parts" \in R.read.unread /\ object.parts = {} THEN {"parts"} ELSE {})
<1>1. f \notin kept
  BY DEF Effective
<1>2. Facing(x) = Merge(x, object, R.facets \ kept)
  BY DEF Facing
<1> HIDE DEF kept
<1>3. QED  BY <1>1, <1>2, MergeAt

LEMMA TrackedInit == Init => Tracked
  BY DEF Init, Tracked

LEMMA FacetsTyped == ASSUME Typing PROVE R.facets \subseteq Facets
  BY HandlersAssumption DEF R, Typing, TypeOK, Kinds

LEMMA NothingReached ==
  ASSUME Typing, NEW o \in {"create", "update"}, NEW a
  PROVE  ~Reached(R, o, 1, a)
<1>1. R.create \in Seq([call : STRING, with : SUBSET STRING, when : SUBSET Guards,
                        quiet : BOOLEAN, careless : BOOLEAN])
      /\ R.update \in Seq([call : STRING, with : SUBSET STRING, when : SUBSET Guards,
                           quiet : BOOLEAN, careless : BOOLEAN])
  BY HandlersAssumption DEF R, Typing, TypeOK, Kinds
<1>2. DOMAIN HandlerOf(R, o) \subseteq Nat \ {0}
  BY <1>1 DEF HandlerOf
<1>3. QED  BY <1>2 DEF Reached

\* A handler begins with what the refresh and the plan tell.
LEMMA BeginTracked ==
  ASSUME Typing, Effective(R), BeginApply
  PROVE  Tracked'
<1> DEFINE s == Refreshed  p == Planned(s)  o == IF p = "replace" THEN "delete" ELSE p
<1>1. /\ op' = o /\ replacing' = (p = "replace") /\ config' = config /\ kind' = kind /\ pc' = 1
      /\ d' = (IF o = "none" THEN NoData ELSE Data(o, s))
  BY DEF BeginApply
<1>2. /\ p \in {"none", "create", "update", "delete", "replace"}
      /\ p \in {"create", "update", "replace"} => There(config)
      /\ p = "create" => ~There(s)
      /\ p = "delete" => ~There(config)
  BY PlanTyped DEF Planned
<1>3. R' = R
  BY <1>1 DEF R
<1>4. AllRight' \/ op' \notin {"create", "update"}
  BY <1>1, <1>3, NothingReached DEF AllRight
<1>5. config \in Attributes \/ ~There(config)
  BY ThereTyped DEF Typing, TypeOK
<1>6. ASSUME op' \in {"create", "update"}
      PROVE  d'.attrs = config /\ d'.prior = s /\ d'.adds = {} /\ d'.drops = {}
  BY <1>1, <1>6 DEF Data, NoData
<1>7. ASSUME op' = "update"
      PROVE  /\ There(object') /\ There(d'.prior)
             /\ R.replaced => d'.prior.frozen = config.frozen
             /\ \A a \in Aspects(R) : Spares(R, a) => Spared(a, object', config, d'.prior)
  <2>1. /\ There(object) /\ object' = object /\ d'.prior = Facing(state) /\ Facing(state) = s
        /\ There(s)
    BY <1>1, <1>6, <1>7, UpdateBegins, PlanTyped
  <2>2. R.replaced => s.frozen = config.frozen
    BY <1>1, <1>7 DEF Planned
  <2>3. \A f \in R.facets : Facing(state)[f] = object[f]
    BY FacingRead, FacetsTyped
  <2>4. /\ "frozen" \in R.facets => s.frozen = object.frozen
        /\ "home" \in R.facets => s.home = object.home
        /\ "body" \in R.facets => s.body = object.body
        /\ "parts" \in R.facets => s.parts = object.parts
        /\ "status" \in R.facets => s.status = object.status
    <3>1. /\ "frozen" \in R.facets => s["frozen"] = object["frozen"]
          /\ "home" \in R.facets => s["home"] = object["home"]
          /\ "body" \in R.facets => s["body"] = object["body"]
          /\ "parts" \in R.facets => s["parts"] = object["parts"]
          /\ "status" \in R.facets => s["status"] = object["status"]
      BY <2>1, <2>3
    <3>2. QED  BY <3>1
  <2>5. ASSUME NEW a \in Aspects(R)  PROVE Spared(a, object, config, s)
    <3> HIDE DEF s
    <3>1. /\ a = "frozen" => s.frozen = object.frozen
          /\ a = "home" => s.home = object.home
          /\ a = "body" => s.body = object.body
          /\ a \in {"has", "only"} => s.parts = object.parts
          /\ a \in {"active", "inactive"} => s.status = object.status
      BY <2>4, <2>5 DEF Aspects
    <3>2. QED  BY <3>1 DEF Spared
  <2>6. QED  BY <2>1, <2>2, <2>5 DEF There
<1>8. op' \in {"create", "update"} => Ground'
  <2> HIDE DEF s, p
  <2>1. op' \in {"create", "update"} => There(config) /\ config \in Attributes
    BY <1>1, <1>2, <1>5
  <2>2. op' = "create" => ~There(s)
    BY <1>1, <1>2
  <2>3. QED  BY <1>1, <1>3, <1>6, <1>7, <2>1, <2>2 DEF Ground, There
<1> HIDE DEF s, p
<1>9. QED  BY <1>1, <1>2, <1>4, <1>8 DEF Tracked, There

\* A creation that replaces the object begins.
LEMMA ReplaceTracked ==
  ASSUME Typing, Replace
  PROVE  Tracked'
<1>1. /\ op' = "create" /\ pc' = 1 /\ d' = Data("create", NoAttributes)
      /\ UNCHANGED << kind, config >> /\ R' = R
  BY DEF Replace, R
<1>2. There(config) /\ config \in Attributes
  BY ThereTyped DEF Replace, Typing, TypeOK
<1>3. d'.attrs = config /\ d'.prior = NoAttributes /\ d'.adds = {} /\ d'.drops = {}
  BY <1>1 DEF Data, NoData
<1>4. Ground'
  BY <1>1, <1>2, <1>3 DEF Ground, There
<1>5. AllRight'
  BY <1>1, NothingReached DEF AllRight
<1>6. QED  BY <1>1, <1>2, <1>4, <1>5 DEF Tracked, There

LEMMA TrackedStep ==
  Typing /\ InPlace /\ Plain /\ Standing /\ Effective(R) /\ Tracked /\ [Next]_vars => Tracked'
<1> SUFFICES ASSUME Typing, InPlace, Plain, Standing, Effective(R), Tracked, [Next]_vars
             PROVE  Tracked'
  OBVIOUS
<1>1. CASE BeginApply
  BY <1>1, BeginTracked
<1>2. CASE Replace
  BY <1>2, ReplaceTracked
<1>3. CASE Skip \/ Call \/ Pass \/ Compute \/ Overlook
  <2>1. Running /\ UNCHANGED << op, config, touched, replacing >>
    BY <1>3 DEF Skip, Call, Pass, Compute, Overlook, Due
  <2>2. op \in {"create", "update"} /\ ~touched => (Ground /\ AllRight)'
    <3> SUFFICES ASSUME op \in {"create", "update"}, ~touched  PROVE (Ground /\ AllRight)'
      OBVIOUS
    <3>1. Ground /\ AllRight
      BY DEF Tracked
    <3>2. QED
      BY <1>3, <3>1, SkipTracked, CallTracked, PassTracked, ComputeTracked, OverlookTracked
  <2>3. QED  BY <2>1, <2>2 DEF Tracked, There
<1>4. CASE FailRefresh \/ Import \/ Configure \/ Return \/ Refused \/ Fail
  <2>1. op' = "none"
    BY <1>4 DEF FailRefresh, Import, Configure, Return, Refused, Fail, Fails, End
  <2>2. QED  BY <2>1 DEF Tracked
<1>5. CASE Outside
  <2>1. touched' /\ UNCHANGED << op, config, replacing >>
    BY <1>5 DEF Outside
  <2>2. QED  BY <2>1 DEF Tracked, There
<1>6. CASE UNCHANGED vars
  <2>1. Ground' = Ground /\ AllRight' = AllRight
    BY <1>6 DEF vars, Ground, AllRight, R, There
  <2>2. QED  BY <1>6, <2>1 DEF vars, Tracked, There
<1>7. QED
  BY <1>1, <1>2, <1>3, <1>4, <1>5, <1>6 DEF Next

-----------------------------------------------------------------------------
\* Known: an object that Terraform does not know is accounted for.
Known ==
  op = "none" /\ There(object) /\ ~There(state) /\ R.identity \in {"assigned", "keyed"} =>
    stranded \/ Retained

LEMMA KnownInit == Init => Known
  BY DEF Init, Known, There

LEMMA KnownStep == Known /\ [Next]_vars => Known'
<1> SUFFICES ASSUME Known, [Next]_vars  PROVE Known'
  OBVIOUS
<1> SUFFICES ASSUME op' = "none", There(object'), ~There(state'),
                    R.identity \in {"assigned", "keyed"}
             PROVE  stranded' \/ Retained
  <2>1. kind' = kind /\ R' = R /\ Retained' = Retained
    BY KindStays DEF Retained
  <2>2. QED  BY <2>1 DEF Known, There
<1>1. CASE BeginApply
  <2>1. /\ op = "none" /\ state' = Refreshed
        /\ object' = (IF Forgotten(object, Refreshed) THEN NoAttributes ELSE object)
        /\ stranded' = (stranded \/ (There(state) /\ Lost(object, Refreshed)))
    BY <1>1 DEF BeginApply
  <2>2. There(object) /\ ~There(Refreshed)
    BY <2>1 DEF There
  <2>3. Lost(object, Refreshed)
    BY <2>2 DEF Lost
  <2>4. QED  BY <2>1, <2>2, <2>3 DEF Known
<1>2. CASE FailRefresh \/ Configure \/ Outside
  BY <1>2 DEF FailRefresh, Configure, Outside, Known, There
<1>3. CASE Import
  BY <1>3 DEF Import
<1>4. CASE Skip \/ Call \/ Pass \/ Compute \/ Overlook \/ Replace
  BY <1>4 DEF Skip, Call, Pass, Compute, Overlook, Replace, Due, Running
<1>5. CASE Return \/ Refused \/ Fail
  <2>1. PICK o, s, t, r : End(o, s, t, r)
    BY <1>5, Endings DEF Ending
  <2>2. There(o) /\ ~There(s)
    BY <2>1 DEF End, There
  <2>3. Lost(o, s)
    BY <2>2 DEF Lost
  <2>4. QED  BY <2>1, <2>3 DEF End, LetGo
<1>6. CASE UNCHANGED vars
  BY <1>6 DEF vars, Known, There
<1>7. QED
  BY <1>1, <1>2, <1>3, <1>4, <1>5, <1>6 DEF Next

\* Effected: an apply that ended well has brought about what is configured.
Effected ==
  op = "none" /\ result = "ok" /\ ~touched =>
    IF There(config) THEN There(object) /\ \A f \in R.facets : object[f] = config[f]
    ELSE ~There(state)

LEMMA EffectedInit == Init => Effected
  BY DEF Init, Effected

LEMMA EffectedStep ==
  Typing /\ InPlace /\ Standing /\ Effective(R) /\ Tracked /\ Effected /\ [Next]_vars => Effected'
<1> SUFFICES ASSUME Typing, Standing, Effective(R), Tracked, Effected, [Next]_vars,
                    op' = "none", result' = "ok", ~touched'
             PROVE  IF There(config')
                    THEN There(object') /\ \A f \in R.facets : object'[f] = config'[f]
                    ELSE ~There(state')
  BY KindStays DEF Effected, There
<1>1. CASE BeginApply
  <2> DEFINE s == Refreshed
  <2>1. /\ Planned(s) = "none" /\ state' = s /\ config' = config
        /\ object' = (IF Forgotten(object, s) THEN NoAttributes ELSE object)
    BY <1>1 DEF BeginApply
  <2>2. IF There(config) THEN There(s) /\ s = config ELSE ~There(s)
    BY <2>1 DEF Planned
  <2>3. CASE There(config)
    <3>1. There(object) /\ There(state) /\ s = Facing(state) /\ object' = object
      BY <2>1, <2>2, <2>3, RefreshedTyped DEF Refreshed, Forgotten, Lost, There
    <3>2. \A f \in R.facets : Facing(state)[f] = object[f]
      BY FacingRead, FacetsTyped
    <3>3. QED  BY <2>1, <2>2, <2>3, <3>1, <3>2
  <2>4. CASE ~There(config)
    BY <2>1, <2>2, <2>4
  <2>5. QED  BY <2>3, <2>4
<1>2. CASE Return
  <2>1. /\ op # "none" /\ pc > Len(Program) /\ ~replacing /\ config' = config
        /\ op = "delete" => state' = NoAttributes
        /\ op # "delete" => End(object, d.attrs, FALSE, "ok")
    BY <1>2 DEF Return, End
  <2>2. CASE op = "delete"
    BY <2>1, <2>2 DEF Tracked, There
  <2>3. CASE op # "delete"
    <3>1. op \in {"create", "update"} /\ touched' = touched /\ There(d.attrs)
      BY <2>1, <2>3 DEF Typing, TypeOK, End
    <3>2. There(config) /\ Ground /\ AllRight
      BY <3>1 DEF Tracked
    <3>3. Complete(R, op, pc)
      BY <2>1, <3>1, <3>2, CompleteAtEnd DEF Effective
    <3>4. There(object) /\ \A f \in R.facets : object[f] = config[f]
      BY <3>1, <3>2, <3>3, CompleteInForce
    <3>5. object' = object
      BY <2>1, <2>3, <3>1 DEF End, Forgotten, Lost
    <3>6. QED  BY <2>1, <3>2, <3>4, <3>5
  <2>4. QED  BY <2>2, <2>3
<1>3. CASE FailRefresh \/ Import \/ Configure \/ Refused \/ Fail \/ Outside
  BY <1>3 DEF FailRefresh, Import, Configure, Refused, Fail, Fails, End, Outside
<1>4. CASE Skip \/ Call \/ Pass \/ Compute \/ Overlook \/ Replace
  BY <1>4 DEF Skip, Call, Pass, Compute, Overlook, Replace, Due, Running
<1>5. CASE UNCHANGED vars
  BY <1>5 DEF vars, Effected, There
<1>6. QED
  BY <1>1, <1>2, <1>3, <1>4, <1>5 DEF Next

\* EffectiveInForce: an apply of an effective handler that ended well has brought
\* about what is configured, whatever failed before, and what is no longer
\* configured is gone, where it can go.
THEOREM EffectiveInForce == Spec => [](Effective(R) => InForce)
<1> DEFINE Sound == Effective(R) => Tracked /\ Effected
<1>1. Init => Sound
  BY TrackedInit, EffectedInit
<1>2. Typing /\ InPlace /\ Plain /\ Standing /\ Sound /\ [Next]_vars => Sound'
  <2> SUFFICES ASSUME Typing, InPlace, Plain, Standing, Sound, [Next]_vars, Effective(R)
               PROVE  (Tracked /\ Effected)'
    BY KindStays
  <2>1. QED  BY TrackedStep, EffectedStep
<1>3. Sound /\ Known => (Effective(R) => InForce)
  <2> SUFFICES ASSUME Effective(R), Effected, Known, Applied
               PROVE  IF There(config)
                      THEN There(object) /\ \A f \in R.facets : object[f] = config[f]
                      ELSE There(object) =>
                             stranded \/ Retained \/ R.identity \in {"singleton", "imported"}
    BY DEF InForce
  <2>1. op = "none" /\ result = "ok" /\ ~touched
    BY DEF Applied
  <2>2. QED  BY <2>1 DEF Effected, Known, Effective
<1> HIDE DEF Sound
<1>4. QED
  BY <1>1, <1>2, <1>3, TypingInit, TypingStep, InPlaceInit, InPlaceStep, PlainInit, PlainStep,
     StandingInit, StandingStep, KnownInit, KnownStep, PTL DEF Spec

-----------------------------------------------------------------------------
\* The steps before the i-th set the ID, or removed the object.
SetsId(h, i) == \E j \in DOMAIN h.create : /\ j < i /\ h.create[j].call = "set_id"
                                           /\ h.create[j].when = {}
RemovesBefore(h, i) == \E j \in DOMAIN h.delete : j < i /\ h.delete[j].call = "remove"
ActivatesNone(h) == \A s \in Steps(h.delete) : ~MayActivate(s)

\* Smooth: in an apply without a mishap a handler has its ID and its object, and
\* the object is inactive where it must be; only an update whose parent changed
\* does not find it.
Smooth ==
  attempts > 0 =>
    /\ ~touched
    /\ op = "create" /\ SetsId(R, pc) => d.id
    /\ op = "update" => d.id /\ (Here \/ ("home" \in R.facets /\ attempts = 1))
    /\ op = "delete" =>
         /\ Here \/ RemovesBefore(R, pc)
         /\ ActivatesNone(R) /\ d.attrs.status = "INACTIVE" /\ Here => object.status = "INACTIVE"
    /\ op # "none" /\ Halted(R, op, pc) /\ Here => object.status = "INACTIVE"

\* Settling: an apply without a mishap ends well or is refused, or its refresh
\* fails; the first one may fail where the parent changed, and then leaves the
\* new parent in the state.  One that ended well leaves the configuration there.
Settling ==
  attempts > 0 /\ op = "none" =>
    /\ "home" \in R.facets /\ There(state) /\ There(config) => state.home = config.home
    /\ \/ result \in {"ok", "refused"} \/ Gone
       \/ "home" \in R.facets /\ attempts = 1
    /\ result = "ok" /\ There(config) => state = config /\ ~tainted

LEMMA ProgramStep ==
  ASSUME Typing, op # "none"
  PROVE  /\ Program = ProgramOf(R, op) /\ op \in {"create", "update", "delete"}
         /\ DOMAIN ProgramOf(R, op) = 1..Len(Program) /\ Len(Program) \in Nat /\ pc \in Nat \ {0}
         /\ Running => pc \in DOMAIN ProgramOf(R, op) /\ Current = ProgramOf(R, op)[pc]
         /\ op = "create" => Program = R.create
         /\ op = "update" => Program = R.update
         /\ op = "delete" => Program = R.delete
<1>1. op \in {"create", "update", "delete"} /\ pc \in Nat \ {0}
  BY DEF Typing, TypeOK
<1>2. Program = ProgramOf(R, op)
  BY <1>1 DEF Program, ProgramOf
<1>3. QED  BY <1>1, <1>2, DomainProgram, CurrentStep DEF Program, Current

\* Before the first step there is none.
LEMMA NothingBefore ==
  ASSUME Typing
  PROVE  ~SetsId(R, 1) /\ \A o \in {"create", "update", "delete"} : ~Halted(R, o, 1)
<1> DEFINE S == [call : STRING, with : SUBSET STRING, when : SUBSET Guards,
                 quiet : BOOLEAN, careless : BOOLEAN]
<1>1. R.create \in Seq(S) /\ R.update \in Seq(S) /\ R.delete \in Seq(S)
  BY HandlersAssumption DEF R, Typing, TypeOK, Kinds
<1> HIDE DEF S
<1>2. /\ DOMAIN R.create \subseteq Nat \ {0} /\ DOMAIN R.update \subseteq Nat \ {0}
      /\ DOMAIN R.delete \subseteq Nat \ {0}
  BY <1>1
<1>3. \A o \in {"create", "update", "delete"} : DOMAIN ProgramOf(R, o) \subseteq Nat \ {0}
  BY <1>2 DEF ProgramOf
<1>4. QED  BY <1>2, <1>3 DEF SetsId, Halted

\* What was passed stays passed, and what is new is the current step.
LEMMA PassedNext ==
  ASSUME Typing, Running, pc' \in {pc, pc + 1}
  PROVE  /\ op = "create" /\ SetsId(R, pc') => \/ SetsId(R, pc)
                                               \/ pc' = pc + 1 /\ Current.call = "set_id" /\ Current.when = {}
         /\ op = "delete" /\ RemovesBefore(R, pc) => RemovesBefore(R, pc')
         /\ op = "delete" /\ Current.call = "remove" /\ pc' = pc + 1 => RemovesBefore(R, pc')
         /\ Halted(R, op, pc') => \/ Halted(R, op, pc) /\ (pc' = pc \/ ~MayActivate(Current))
                                  \/ pc' = pc + 1 /\ Halts(R, op, Current)
<1> DEFINE p == ProgramOf(R, op)
<1>1. /\ p = Program /\ DOMAIN p = 1..Len(Program) /\ Len(Program) \in Nat /\ pc \in Nat \ {0}
      /\ pc \in DOMAIN p /\ Current = p[pc]
      /\ op = "create" => Program = R.create
      /\ op = "delete" => Program = R.delete
  BY ProgramStep DEF Running
<1>2. \A j \in DOMAIN p : j \in Nat /\ (j < pc => j < pc') /\ (j < pc' => j < pc \/ (j = pc /\ pc' = pc + 1))
  BY <1>1
<1>3. op = "create" /\ SetsId(R, pc') => \/ SetsId(R, pc)
                                         \/ pc' = pc + 1 /\ Current.call = "set_id" /\ Current.when = {}
  BY <1>1, <1>2 DEF SetsId
<1>4. op = "delete" /\ RemovesBefore(R, pc) => RemovesBefore(R, pc')
  BY <1>1, <1>2 DEF RemovesBefore
<1>5. op = "delete" /\ Current.call = "remove" /\ pc' = pc + 1 => RemovesBefore(R, pc')
  BY <1>1 DEF RemovesBefore
<1>6. ASSUME Halted(R, op, pc')
      PROVE  \/ Halted(R, op, pc) /\ (pc' = pc \/ ~MayActivate(Current))
             \/ pc' = pc + 1 /\ Halts(R, op, Current)
  <2>1. PICK j \in DOMAIN p : /\ j < pc' /\ Halts(R, op, p[j])
                              /\ \A k \in DOMAIN p : j < k /\ k < pc' => ~MayActivate(p[k])
    BY <1>6 DEF Halted
  <2>2. CASE j < pc
    <3>1. Halted(R, op, pc)
      BY <1>2, <2>1, <2>2 DEF Halted
    <3>2. pc' = pc + 1 => ~MayActivate(Current)
      BY <1>1, <2>1, <2>2
    <3>3. QED  BY <3>1, <3>2
  <2>3. CASE j = pc /\ pc' = pc + 1
    BY <1>1, <2>1, <2>3
  <2>4. QED  BY <1>2, <2>1, <2>2, <2>3
<1>7. QED  BY <1>3, <1>4, <1>5, <1>6

\* An object that requests find stays where they look.
LEMMA HereStays ==
  ASSUME Typing, InPlace, Call, Here, There(object'),
         Current.call = "reset" => "home" \notin R.facets
  PROVE  Here'
<1>1. /\ Running /\ Current.call \in Calls /\ object' \in Outcomes /\ d'.attrs = d.attrs
  BY DEF Call, Due, Typing, TypeOK, DataOK
<1>2. There(d.attrs) /\ object.home = d.attrs.home
  BY DEF Here, Found
<1>3. object'.home = d.attrs.home
  <2>1. CASE Current.call = "ensure" /\ Exists
    BY <1>1, <1>2, <2>1 DEF Outcomes
  <2>2. CASE Current.call \in Creates /\ ~(Current.call = "ensure" /\ Exists)
    <3>1. object' \in Created
      BY <1>1, <2>2 DEF Outcomes, Creates
    <3>2. QED  BY <1>1, <3>1, CreatedAt
  <2>3. CASE Current.call = "reset"
    <3>1. "home" \notin R.facets
      BY <2>3
    <3>2. AtHome(object') /\ AtHome(d.attrs)
      BY <1>1, <3>1, OutcomesAtHome DEF InPlace
    <3>3. QED  BY <1>2, <3>2 DEF AtHome
  <2>4. CASE Current.call \notin Creates \cup {"reset"}
    BY <1>1, <1>2, <2>4, CallAt
  <2>5. QED  BY <2>1, <2>2, <2>3, <2>4
<1>4. QED  BY <1>1, <1>2, <1>3 DEF Here, Found, There

\* Nor does the handler look elsewhere.
LEMMA HereComputed ==
  ASSUME Typing, Compute
  PROVE  /\ Here' = Here
         /\ Here => d'.attrs.status \in {d.attrs.status, object.status}
         /\ \/ d'.id = d.id \/ d'.id = TRUE \/ (Current.call = "read_back" /\ ~Here)
            \/ Current.call = "unset_id"
         /\ Current.call = "set_id" => d'.id = TRUE
<1>1. Running /\ object' = object /\ DataOK /\ There(d.attrs)
  BY DEF Compute, Due, Typing, TypeOK, Running
<1>2. d'.attrs = d.attrs \/ (Here /\ d'.attrs = Facing(d.attrs))
  BY <1>1 DEF Compute, DataOK
<1>3. CASE d'.attrs = d.attrs
  BY <1>1, <1>3 DEF Compute, DataOK, Here, Found, There
<1>4. CASE Here /\ d'.attrs = Facing(d.attrs)
  <2>1. object \in Attributes /\ d.attrs \in Attributes /\ object.home = d.attrs.home
    BY <1>4, ThereTyped DEF Here, Found, Typing, TypeOK, DataOK
  <2>2. Facing(d.attrs) \in Attributes /\ Facing(d.attrs).home = object.home
    BY <2>1, FacingTyped
  <2>3. There(Facing(d.attrs))
    BY <2>2, ThereTyped DEF Maybe
  <2>4. Facing(d.attrs)["status"] \in {d.attrs["status"], object["status"]}
    BY FacingAt DEF Facets
  <2>5. Here'
    BY <1>1, <1>4, <2>2, <2>3 DEF Here, Found, There
  <2>6. QED  BY <1>1, <1>4, <2>4, <2>5 DEF Compute, DataOK
<1>5. QED  BY <1>2, <1>3, <1>4

\* The API refuses only what it does not find, and guarded calls.
LEMMA RefusedOnly ==
  ASSUME Typing, Running, Refusal, Here => Current.call \notin R.guarded \/ object.status # "ACTIVE"
  PROVE  ~Here /\ Seeks(Current)
<1>1. CASE Current.call \in {"look", "diff_listing", "read_back"}
  BY <1>1 DEF Refusal, Seeks, Calls
<1>2. CASE Current.call \notin {"look", "diff_listing", "read_back"}
  <2>1. Current.call \in Calls /\ Outcomes = {} /\ ~Idle /\ (Here \/ ~Current.quiet)
    BY <1>2 DEF Refusal
  <2>2. \A o, fs : Written(o, fs) # {}
    <3>1. \A fs, st : StatusAfter(fs, st) # {}
      BY DEF StatusAfter
    <3> TAKE o, fs
    <3>2. PICK st : st \in StatusAfter(fs, o.status)
      BY <3>1
    <3> DEFINE W(s) == [Merge(o, d.attrs, fs \cap Facets) EXCEPT !.status = s]
    <3>3. Written(o, fs) = { W(s) : s \in StatusAfter(fs, o.status) }
      BY DEF Written
    <3> HIDE DEF W
    <3>4. W(st) \in Written(o, fs)
      BY <3>2, <3>3
    <3>5. QED  BY <3>4
  <2>3. Created # {}
    <3> DEFINE keep == Exists \/ (There(object) /\ R.identity = "singleton")
               new == [Default EXCEPT !.status =
                           IF "inactive" \in Current.with THEN "INACTIVE" ELSE "ACTIVE"]
               born == IF keep THEN {object} ELSE {new}
               fs == Current.with \cup {"frozen", "home"}
    <3>1. Created = UNION { Written(o, fs) : o \in born }
      BY DEF Created
    <3>2. \E o : o \in born
      OBVIOUS
    <3> HIDE DEF keep, new, born, fs
    <3>3. PICK o : o \in born
      BY <3>2
    <3>4. PICK w : w \in Written(o, fs)
      BY <2>2
    <3>5. w \in Created
      BY <3>1, <3>3, <3>4
    <3>6. QED  BY <3>5
  <2>4. Current.call \notin Creates
    BY <2>1, <2>3 DEF Outcomes, Creates
  <2>5. ~Here
    <3> SUFFICES ASSUME Here  PROVE FALSE
      OBVIOUS
    <3>1. CASE Current.call = "put"
      BY <2>1, <2>2, <3>1 DEF Outcomes
    <3>2. CASE Current.call \in {"remove", "activate", "deactivate", "reset", "add_all"}
      BY <2>1, <3>2 DEF Outcomes
    <3>3. CASE Current.call = "add"
      BY <2>1, <3>3 DEF Outcomes, Idle
    <3>4. CASE Current.call = "drop"
      BY <2>1, <3>4 DEF Outcomes, Idle
    <3>5. QED  BY <2>1, <2>4, <3>1, <3>2, <3>3, <3>4 DEF Calls, Creates
  <2>6. QED  BY <2>1, <2>4, <2>5 DEF Seeks, Calls, Creates
<1>3. QED  BY <1>1, <1>2

\* A prompt handler that runs without a mishap is refused only where its parent
\* changed.
LEMMA NotRefused ==
  ASSUME Typing, InPlace, Standing, Effective(R), Prompt(R), Tracked, Smooth, attempts > 0,
         Running, Refusal
  PROVE  /\ op = "update" /\ "home" \in R.facets /\ attempts = 1
         /\ Seeks(Current)
<1>1. /\ op \in {"create", "update", "delete"} /\ pc \in DOMAIN ProgramOf(R, op)
      /\ Current = ProgramOf(R, op)[pc] /\ pc \in Nat
      /\ op = "create" => ProgramOf(R, op) = R.create
      /\ op = "delete" => ProgramOf(R, op) = R.delete
  BY ProgramStep DEF Running
<1>2. Here => Current.call \notin R.guarded \/ object.status # "ACTIVE"
  <2> SUFFICES ASSUME Here, Current.call \in R.guarded  PROVE object.status # "ACTIVE"
    OBVIOUS
  <2>1. Halted(R, op, pc)
    BY <1>1 DEF Prompt
  <2>2. QED  BY <1>1, <2>1 DEF Smooth
<1>3. ~Here /\ Seeks(Current)
  BY <1>2, RefusedOnly
<1>4. op # "create"
  <2> SUFFICES ASSUME op = "create"  PROVE FALSE
    OBVIOUS
  <2>1. Given(R, pc)
    BY <1>1, <1>3 DEF Prompt
  <2>2. Ground /\ AllRight
    BY DEF Tracked, Smooth
  <2>3. There(object)
    <3>1. R.identity = "singleton" => There(object)
      BY DEF Standing, Permanent, Effective
    <3>2. Reached(R, "create", pc, "made") => There(object)
      BY <2>2 DEF AllRight, AspectNames, Right
    <3>3. QED  BY <2>1, <3>1, <3>2 DEF Given
  <2>4. CASE "home" \notin R.facets
    BY <1>1, <1>3, <2>3, <2>4, FoundAtHome
  <2>5. CASE "home" \in R.facets
    <3>1. Right("home", object, config, d)
      BY <2>1, <2>2, <2>5 DEF Given, AllRight, AspectNames
    <3>2. object.home = d.attrs.home
      BY <2>2, <2>3, <3>1 DEF Right, Fits, Ground
    <3>3. There(d.attrs)
      BY <1>1 DEF Typing
    <3>4. QED  BY <1>3, <2>3, <3>2, <3>3 DEF Here, Found
  <2>6. QED  BY <2>4, <2>5
<1>5. op # "delete"
  <2> SUFFICES ASSUME op = "delete"  PROVE FALSE
    OBVIOUS
  <2>1. RemovesBefore(R, pc)
    BY <1>3 DEF Smooth
  <2>2. QED  BY <1>1, <1>3, <2>1 DEF RemovesBefore, Prompt
<1>6. QED  BY <1>1, <1>3, <1>4, <1>5 DEF Smooth

LEMMA SmoothInit == Init => Smooth /\ Settling
  BY DEF Init, Smooth, Settling

\* An apply begins.
LEMMA BeginSmooth ==
  ASSUME Typing, InPlace, Plain, Effective(R), Settling, BeginApply
  PROVE  Smooth'
<1> DEFINE s == Refreshed  p == Planned(s)  o == IF p = "replace" THEN "delete" ELSE p
<1>1. /\ op = "none" /\ op' = o /\ config' = config /\ kind' = kind /\ pc' = 1 /\ ~touched'
      /\ d' = (IF o = "none" THEN NoData ELSE Data(o, s))
      /\ object' = (IF Forgotten(object, s) THEN NoAttributes ELSE object)
      /\ attempts' = (IF attempts = Twice THEN Twice ELSE attempts + 1)
  BY DEF BeginApply
<1>2. R' = R
  BY <1>1 DEF R
<1>3. /\ p \in {"none", "create", "update", "delete", "replace"}
      /\ p \in {"update", "delete", "replace"} => There(s)
      /\ s \in Maybe(Attributes)
  BY PlanTyped, RefreshedTyped
<1>4. o \in {"create", "update", "delete"} => ~Halted(R', op', pc') /\ ~SetsId(R', pc')
  BY <1>1, <1>2, NothingBefore
<1>5. o \in {"none", "create", "update", "delete"}
  BY <1>3
<1>6. There(s) => Found(state) /\ s = Facing(state) /\ object' = object
  BY <1>1 DEF Refreshed, There, Forgotten, Lost
<1>7. There(s) => /\ object \in Attributes /\ state \in Attributes /\ There(object) /\ There(state)
                  /\ object.home = state.home
  BY <1>6, ThereTyped DEF Found, Typing, TypeOK
<1>8. ASSUME op' = "update"
      PROVE  d'.id /\ (Here' \/ ("home" \in R'.facets /\ attempts' = 1))
  <2>1. There(config) /\ d'.attrs = config /\ Found(state) /\ object' = object
    BY <1>8, UpdateBegins
  <2>2. d'.id = TRUE
    BY <1>1, <1>8 DEF Data, NoData
  <2>3. There(object) /\ There(state) /\ object.home = state.home
    BY <2>1 DEF Found
  <2>4. CASE "home" \notin R.facets
    <3>1. object.home = config.home
      BY <2>1, <2>3, <2>4 DEF InPlace, AtHome
    <3>2. QED  BY <2>1, <2>2, <2>3, <3>1 DEF Here, Found, There
  <2>5. CASE "home" \in R.facets /\ attempts > 0
    <3>1. state.home = config.home
      BY <1>1, <2>1, <2>3, <2>5 DEF Settling
    <3>2. QED  BY <2>1, <2>2, <2>3, <3>1 DEF Here, Found, There
  <2>6. CASE "home" \in R.facets /\ ~(attempts > 0)
    <3>1. attempts' = 1
      BY <1>1, <2>6 DEF Typing, TypeOK, Twice
    <3>2. QED  BY <1>2, <2>2, <2>6, <3>1
  <2>7. QED  BY <2>4, <2>5, <2>6
<1>9. ASSUME op' = "delete"
      PROVE  /\ Here'
             /\ d'.attrs.status = "INACTIVE" => object'.status = "INACTIVE"
  <2>1. There(s)
    BY <1>1, <1>3, <1>9
  <2>2. d'.attrs = s
    BY <1>1, <1>9 DEF Data, NoData
  <2>3. s.home = object.home
    BY <1>6, <1>7, <2>1, FacingTyped
  <2>4. Here'
    BY <1>6, <1>7, <2>1, <2>2, <2>3 DEF Here, Found, There
  <2>5. s.status = "INACTIVE" => object.status = "INACTIVE"
    <3>1. CASE "status" \in R.facets
      <4>1. Facing(state)["status"] = object["status"]
        BY <3>1, FacingRead DEF Facets
      <4>2. QED  BY <1>6, <2>1, <4>1
    <3>2. CASE "status" \notin R.facets
      <4>1. AsDefault(s)
        BY <1>6, <1>7, <2>1, FacingPlain DEF Plain
      <4>2. s["status"] = Default["status"]
        BY <2>1, <3>2, <4>1 DEF AsDefault, Facets
      <4>3. QED  BY <4>2, DefaultActive
    <3>3. QED  BY <3>1, <3>2
  <2>6. QED  BY <1>6, <2>1, <2>2, <2>4, <2>5
<1> HIDE DEF s, p, o
<1>10. QED  BY <1>1, <1>4, <1>5, <1>8, <1>9 DEF Smooth

\* A handler goes on.
LEMMA SkipSmooth ==
  ASSUME Typing, Smooth, Skip  PROVE Smooth'
<1>1. /\ Running /\ ~Due /\ pc' = pc + 1 /\ op # "none"
      /\ UNCHANGED << kind, object, state, config, op, d, touched, attempts >> /\ R' = R
  BY DEF Skip, Running, R
<1>2. /\ Here' = Here
      /\ d.attrs.status \in {"ACTIVE", "INACTIVE"}
  <2>1. d.attrs \in Attributes
    BY <1>1, ThereTyped DEF Typing, TypeOK, DataOK, Running
  <2>2. QED  BY <1>1, <2>1 DEF Here, Found, There, Attributes, Statuses
<1>3. Current.when # {}
  BY <1>1 DEF Due
<1>4. op = "create" /\ SetsId(R, pc') => SetsId(R, pc)
  BY <1>1, <1>3, PassedNext
<1>5. op = "delete" /\ RemovesBefore(R, pc) => RemovesBefore(R, pc')
  BY <1>1, PassedNext
<1>6. attempts > 0 /\ Halted(R, op, pc') /\ Here => object.status = "INACTIVE"
  <2> SUFFICES ASSUME attempts > 0, Halted(R, op, pc'), Here  PROVE object.status = "INACTIVE"
    OBVIOUS
  <2>1. CASE Halted(R, op, pc)
    BY <1>1, <2>1 DEF Smooth
  <2>2. CASE Halts(R, op, Current)
    <3>1. op = "delete" /\ Current.when = {"active"} /\ ActivatesNone(R)
      BY <1>3, <2>2 DEF Halts, ActivatesNone
    <3>2. d.attrs.status # "ACTIVE"
      BY <1>1, <3>1 DEF Due, Holds
    <3>3. QED  BY <1>2, <3>1, <3>2 DEF Smooth
  <2>3. QED  BY <1>1, <2>1, <2>2, PassedNext
<1>7. QED  BY <1>1, <1>2, <1>4, <1>5, <1>6 DEF Smooth

LEMMA PassSmooth ==
  ASSUME Typing, InPlace, Effective(R), Tracked, Smooth, Pass  PROVE Smooth'
<1>1. /\ Running /\ Due /\ op # "none"
      /\ pc' = IF Current.call = "find" /\ ~Here THEN Len(Program) + 1 ELSE pc + 1
      /\ UNCHANGED << kind, object, state, config, op, d, touched, attempts >> /\ R' = R
  BY DEF Pass, Due, Running, R
<1>2. Here' = Here
  BY <1>1 DEF Here, Found, There
<1>3. CASE Current.call = "find" /\ ~Here /\ attempts > 0
  <2>1. op = "delete" \/ (op \in {"create", "update"} /\ Ground)
    BY <1>1, <1>3, ProgramStep DEF Tracked, Smooth
  <2>2. op = "delete"
    <3> SUFFICES ASSUME op \in {"create", "update"}, Ground  PROVE FALSE
      BY <2>1
    <3>1. Current \in Steps(HandlerOf(R, op))
      BY <1>1, CurrentStep DEF HandlerOf, Program
    <3>2. op = "update" /\ "home" \notin R.facets
      BY <1>3, <3>1 DEF Effective
    <3>3. QED  BY <1>1, <1>3, <3>2, FoundAtHome DEF Ground
  <2>3. RemovesBefore(R, pc)
    BY <1>3, <2>2 DEF Smooth
  <2>4. RemovesBefore(R, pc')
    BY <1>1, <1>3, <2>2, <2>3, ProgramStep DEF RemovesBefore
  <2>5. QED  BY <1>1, <1>2, <1>3, <2>2, <2>4 DEF Smooth
<1>4. CASE pc' = pc + 1 /\ attempts > 0
  <2>1. Current.call # "set_id"
    BY <1>1 DEF Pass, Idle, Calls
  <2>2. /\ op = "create" /\ SetsId(R, pc') => SetsId(R, pc)
        /\ op = "delete" /\ RemovesBefore(R, pc) => RemovesBefore(R, pc')
    BY <1>1, <1>4, <2>1, PassedNext
  <2>3. Halted(R, op, pc') /\ Here => Halted(R, op, pc)
    <3>1. Halts(R, op, Current) => ~Here
      BY <1>1 DEF Pass, Idle, Halts
    <3>2. QED  BY <1>1, <1>4, <3>1, PassedNext
  <2>4. QED  BY <1>1, <1>2, <1>4, <2>2, <2>3 DEF Smooth
<1>5. CASE ~(attempts > 0)
  BY <1>1, <1>5 DEF Smooth
<1>6. QED  BY <1>1, <1>3, <1>4, <1>5

LEMMA ComputeSmooth ==
  ASSUME Typing, InPlace, Plain, Standing, Effective(R), Tracked, Smooth, Compute
  PROVE  Smooth'
<1>1. /\ Running /\ Due /\ op # "none" /\ pc' = pc + 1
      /\ UNCHANGED << kind, object, state, config, op, touched, attempts >> /\ R' = R
  BY DEF Compute, Due, Running, R
<1>2. /\ Here' = Here
      /\ Here => d'.attrs.status \in {d.attrs.status, object.status}
      /\ \/ d'.id = d.id \/ d'.id = TRUE \/ (Current.call = "read_back" /\ ~Here)
         \/ Current.call = "unset_id"
      /\ Current.call = "set_id" => d'.id = TRUE
  BY HereComputed
<1>3. ASSUME attempts > 0, op \in {"create", "update"}  PROVE d'.id = d.id \/ d'.id = TRUE
  <2>0. Current.call # "unset_id"
    <3>1. Current = HandlerOf(R, op)[pc] /\ pc \in DOMAIN HandlerOf(R, op)
      BY <1>1, <1>3, CurrentStep DEF HandlerOf, Program, Current
    <3>2. Current \in Steps(HandlerOf(R, op))
      BY <3>1 DEF Steps
    <3>3. QED  BY <1>3, <3>2 DEF Effective
  <2> SUFFICES ASSUME Current.call = "read_back"  PROVE Here
    BY <1>2, <2>0
  <2>1. Ground /\ AllRight
    BY <1>3 DEF Tracked, Smooth
  <2>2. Complete(R, op, pc)
    <3>1. Current = HandlerOf(R, op)[pc] /\ pc \in DOMAIN HandlerOf(R, op)
      BY <1>1, <1>3, CurrentStep DEF HandlerOf, Program, Current
    <3>2. QED  BY <1>3, <3>1 DEF Effective
  <2>3. There(object) /\ \A f \in R.facets : object[f] = config[f]
    BY <1>3, <2>1, <2>2, CompleteInForce
  <2>4. CASE "home" \in R.facets
    <3>1. object["home"] = config["home"]
      BY <2>3, <2>4
    <3>2. QED  BY <1>1, <2>1, <2>3, <3>1 DEF Here, Found, Ground, Typing
  <2>5. CASE "home" \notin R.facets
    BY <1>1, <2>3, <2>5, FoundAtHome
  <2>6. QED  BY <2>4, <2>5
<1>4. Current.call \notin {"deactivate", "remove"}
  BY DEF Compute
<1>5. Halted(R, op, pc') => Halted(R, op, pc)
  BY <1>1, <1>4, PassedNext DEF Halts
<1>6. op = "delete" /\ RemovesBefore(R, pc) => RemovesBefore(R, pc')
  BY <1>1, PassedNext
<1>7. attempts > 0 /\ op = "create" /\ SetsId(R, pc') => d'.id
  BY <1>1, <1>2, <1>3, PassedNext DEF Smooth
<1>8. attempts > 0 /\ op = "update" => d'.id
  BY <1>3 DEF Smooth
<1>9. QED  BY <1>1, <1>2, <1>5, <1>6, <1>7, <1>8 DEF Smooth

LEMMA CallSmooth ==
  ASSUME Typing, InPlace, Standing, Effective(R), Prompt(R), Tracked, Smooth, Call
  PROVE  Smooth'
<1>1. /\ Running /\ Due /\ op # "none" /\ Current.call \in Calls /\ object' \in Outcomes
      /\ pc' \in {pc, pc + 1} /\ (pc' = pc => Current.call \in {"add", "drop"})
      /\ UNCHANGED << kind, state, config, op, touched, attempts >> /\ R' = R
      /\ d'.attrs = d.attrs /\ d'.id = d.id
  <2>1. DataOK
    BY DEF Typing, TypeOK
  <2>2. d'.attrs = d.attrs /\ d'.id = d.id
    BY <2>1 DEF Call, DataOK
  <2>3. pc' \in {pc, pc + 1} /\ (pc' = pc => Current.call \in {"add", "drop"})
    BY DEF Call, Typing, TypeOK
  <2>4. QED  BY <2>2, <2>3 DEF Call, Due, Running, R
<1>2. Current \in Steps(ProgramOf(R, op)) /\ op \in {"create", "update", "delete"}
  BY <1>1, ProgramStep DEF Steps
<1>3. Current.call = "reset" => op = "delete" /\ "home" \notin R.facets
  BY <1>2 DEF Effective, HandlerOf, ProgramOf, Prompt
<1>4. Current.call = "remove" => op = "delete"
  BY <1>2 DEF Effective, HandlerOf, ProgramOf
<1>5. Here /\ Current.call # "remove" => Here'
  BY <1>1, <1>3, OutcomesThere, HereStays
<1>6. op = "create" /\ SetsId(R, pc') => SetsId(R, pc)
  BY <1>1, PassedNext DEF Calls
<1>7. op = "delete" => /\ RemovesBefore(R, pc) => RemovesBefore(R, pc')
                       /\ Current.call = "remove" => RemovesBefore(R, pc')
  BY <1>1, PassedNext
\* A call that activates nothing leaves an inactive object inactive.
<1>8. ASSUME Here', ~MayActivate(Current)
      PROVE  /\ Here /\ object'.status \in {"INACTIVE", object.status}
             /\ Current.call = "deactivate" => object'.status = "INACTIVE"
  <2>1. There(object') /\ Current.call \notin Creates \cup {"reset"}
    BY <1>8 DEF Here, Found, MayActivate, There
  <2>2. Here /\ object'.status \in {"INACTIVE", object.status}
    BY <1>1, <1>8, <2>1, CallAt
  <2>3. Current.call = "deactivate" => object' = [object EXCEPT !.status = "INACTIVE"]
    BY <1>1, <2>2 DEF Outcomes
  <2>4. object \in Attributes
    BY <2>2, ThereTyped DEF Here, Found, Typing, TypeOK
  <2>5. QED  BY <2>2, <2>3, <2>4 DEF Attributes
<1>9. attempts > 0 /\ Halted(R, op, pc') /\ Here' => object'.status = "INACTIVE"
  <2> SUFFICES ASSUME attempts > 0, Halted(R, op, pc'), Here'  PROVE object'.status = "INACTIVE"
    OBVIOUS
  <2>1. CASE Halted(R, op, pc) /\ ~MayActivate(Current)
    BY <1>1, <1>8, <2>1 DEF Smooth
  <2>2. CASE Halts(R, op, Current)
    <3>1. Current.call = "deactivate"
      BY <2>2 DEF Halts
    <3>2. ~MayActivate(Current)
      BY <3>1 DEF MayActivate, Creates
    <3>3. QED  BY <1>8, <3>1, <3>2
  <2>3. pc' = pc => ~MayActivate(Current)
    BY <1>1 DEF MayActivate, Creates
  <2>4. QED  BY <1>1, <2>1, <2>2, <2>3, PassedNext
<1>10. ASSUME attempts > 0, op = "delete", ActivatesNone(R), d.attrs.status = "INACTIVE", Here'
       PROVE  object'.status = "INACTIVE"
  <2>1. ~MayActivate(Current)
    BY <1>2, <1>10 DEF ActivatesNone, ProgramOf
  <2>2. QED  BY <1>8, <1>10, <2>1 DEF Smooth
<1>11. op = "update" /\ Here => Here'
  BY <1>4, <1>5
<1>12. attempts > 0 /\ op = "delete" => Here' \/ RemovesBefore(R, pc')
  BY <1>5, <1>7 DEF Smooth
<1>13. QED  BY <1>1, <1>6, <1>9, <1>10, <1>11, <1>12 DEF Smooth

LEMMA SmoothStep ==
  ASSUME Typing, InPlace, Plain, Standing, Effective(R), Prompt(R), Tracked, Smooth, Settling,
         [Next]_vars
  PROVE  Smooth'
<1>1. CASE BeginApply
  BY <1>1, BeginSmooth
<1>2. CASE Skip \/ Pass \/ Compute \/ Call
  BY <1>2, SkipSmooth, PassSmooth, ComputeSmooth, CallSmooth
<1>3. CASE Import \/ Configure \/ Fail \/ Overlook \/ Outside
  BY <1>3 DEF Import, Configure, Fail, Overlook, Outside, Smooth
<1>4. CASE FailRefresh \/ Return \/ Refused
  <2>1. op' = "none" /\ UNCHANGED << touched, attempts >>
    BY <1>4 DEF FailRefresh, Return, Refused, Fails, End
  <2>2. QED  BY <2>1 DEF Smooth
<1>5. CASE Replace
  <2>1. /\ op' = "create" /\ pc' = 1 /\ R' = R /\ UNCHANGED << touched, attempts >>
    BY <1>5 DEF Replace, R
  <2>2. ~SetsId(R', pc') /\ ~Halted(R', op', pc')
    BY <2>1, NothingBefore
  <2>3. QED  BY <2>1, <2>2 DEF Smooth
<1>6. CASE UNCHANGED vars
  <2>1. UNCHANGED << kind, object, op, pc, d, touched, attempts >> /\ R' = R /\ Here' = Here
    BY <1>6 DEF vars, R, Here, Found, There
  <2>2. QED  BY <2>1 DEF Smooth
<1>7. QED  BY <1>1, <1>2, <1>3, <1>4, <1>5, <1>6 DEF Next

LEMMA SettlingStep ==
  ASSUME Typing, InPlace, Standing, Effective(R), Prompt(R), Tracked, Smooth, Settling, [Next]_vars
  PROVE  Settling'
<1>1. CASE BeginApply
  <2> SUFFICES ASSUME op' = "none"  PROVE Settling'
    BY DEF Settling
  <2>1. /\ Planned(Refreshed) = "none" /\ state' = Refreshed /\ config' = config /\ result' = "ok"
        /\ tainted' = (tainted /\ There(Refreshed))
    BY <1>1 DEF BeginApply
  <2>2. There(config) => ~tainted /\ state' = config
    BY <2>1 DEF Planned
  <2>3. QED  BY <2>1, <2>2 DEF Settling, There
<1>2. CASE FailRefresh
  <2>1. /\ result' = "error" /\ R.read.missing = "fail" /\ There(state) /\ ~Found(state) /\ op = "none"
        /\ UNCHANGED << kind, object, state, config, attempts >> /\ R' = R
    BY <1>2 DEF FailRefresh, R
  <2>2. Gone'
    BY <2>1 DEF Gone, Found, There
  <2>3. QED  BY <2>1, <2>2 DEF Settling, There
<1>3. CASE Return
  <2>1. /\ op # "none" /\ pc > Len(Program) /\ ~replacing /\ config' = config /\ attempts' = attempts
        /\ R' = R
    BY <1>3 DEF Return, End, R
  <2>2. CASE op = "delete"
    <3>1. End(object, NoAttributes, FALSE, "ok") /\ ~There(config)
      BY <1>3, <2>1, <2>2 DEF Return, Tracked
    <3>2. state' = NoAttributes /\ result' = "ok" /\ ~There(config')
      BY <2>1, <3>1 DEF End, There
    <3>3. QED  BY <3>2 DEF Settling, There
  <2>3. CASE op # "delete" /\ attempts > 0
    <3>1. op \in {"create", "update"} /\ Ground /\ AllRight
      BY <2>1, <2>3 DEF Typing, TypeOK, Tracked, Smooth
    <3>2. op = "create" => SetsId(R, pc)
      <4> SUFFICES ASSUME op = "create"  PROVE SetsId(R, pc)
        OBVIOUS
      <4>1. ~Reached(R, op, pc, "refused")
        BY <3>1 DEF AllRight, AspectNames, Right
      <4>2. ~Reached(R, op, Len(HandlerOf(R, op)) + 1, "refused")
        BY <2>1, <3>1, <4>1, ReachedAtEnd
      <4>3. ~Reached(R, "create", Len(R.create) + 1, "refused")
        BY <4>2 DEF HandlerOf
      <4>4. PICK i \in DOMAIN R.create : R.create[i].call = "set_id" /\ R.create[i].when = {}
        BY <4>3 DEF Prompt, Steps
      <4>5. i < pc
        BY <2>1, <4>4, ProgramStep
      <4>6. QED  BY <4>4, <4>5 DEF SetsId
    <3>3. d.id
      BY <2>3, <3>1, <3>2 DEF Smooth
    <3>4. End(object, d.attrs, FALSE, "ok")
      BY <1>3, <2>3, <3>3 DEF Return
    <3>5. state' = config /\ ~tainted' /\ result' = "ok"
      BY <3>1, <3>4 DEF End, Ground
    <3>6. QED  BY <2>1, <3>5 DEF Settling
  <2>4. CASE ~(attempts > 0)
    BY <2>1, <2>4 DEF Settling
  <2>5. QED  BY <2>2, <2>3, <2>4
<1>4. CASE Refused
  <2>1. PICK r : Fails(object, r) /\ (r = "refused" \/ (r = "error" /\ Refusal))
                 /\ (r = "refused" => Current.call = "refuse")
    BY <1>4 DEF Refused
  <2>2. /\ Running /\ op # "none" /\ state' = Salvaged /\ result' = r /\ config' = config
        /\ attempts' = attempts /\ R' = R
    BY <1>4, <2>1 DEF Refused, Due, Running, Fails, End, R
  <2>3. /\ op \in {"create", "update", "delete"} /\ Current \in Steps(ProgramOf(R, op))
        /\ op = "update" => Current \in Steps(R.update)
        /\ op = "delete" => Current \in Steps(R.delete)
    BY <2>2, ProgramStep DEF Steps
  <2>4. CASE attempts > 0
    <3>1. r = "error" => /\ op = "update" /\ "home" \in R.facets /\ attempts = 1
                         /\ Seeks(Current)
      BY <2>1, <2>2, <2>4, NotRefused
    <3>2. "home" \in R.facets => op = "create" \/ (op = "update" /\ ~R.framework)
      BY <2>1, <2>3, <3>1 DEF Prompt
    <3>3. op \in {"create", "update"} => d.attrs = config
      BY <2>4 DEF Tracked, Smooth, Ground
    <3>4. "home" \in R.facets => Salvaged = config \/ ~There(Salvaged)
      BY <3>2, <3>3 DEF Salvaged, There
    <3>5. QED  BY <2>1, <2>2, <3>1, <3>4 DEF Settling, There
  <2>5. CASE ~(attempts > 0)
    BY <2>2, <2>5 DEF Settling
  <2>6. QED  BY <2>4, <2>5
<1>5. CASE Import \/ Configure \/ Fail \/ Overlook \/ Outside
  BY <1>5 DEF Import, Configure, Fail, Overlook, Outside, Settling
<1>6. CASE Skip \/ Pass \/ Compute \/ Call \/ Replace
  BY <1>6 DEF Skip, Pass, Compute, Call, Replace, Due, Running, Settling
<1>7. CASE UNCHANGED vars
  BY <1>7 DEF vars, Settling, R, There, Gone, Found
<1>8. QED  BY <1>1, <1>2, <1>3, <1>4, <1>5, <1>6, <1>7 DEF Next

\* An apply that ended well leaves nothing to be planned.
LEMMA EndsSettled ==
  ASSUME Typing, InPlace, Effective(R), Effected, Smooth, Settling,
         op = "none", attempts > 0, result = "ok"
  PROVE  Settled
<1>1. /\ There(config) => There(object) /\ \A f \in R.facets : object[f] = config[f]
      /\ ~There(config) => ~There(state)
  BY DEF Effected, Smooth
<1>2. CASE There(config)
  <2>1. state = config /\ ~tainted
    BY <1>2 DEF Settling
  <2>2. object \in Attributes /\ config \in Attributes
    BY <1>1, <1>2, ThereTyped DEF Typing, TypeOK
  <2>3. object.home = config.home
    <3>1. CASE "home" \in R.facets
      <4>1. object["home"] = config["home"]
        BY <1>1, <1>2, <3>1
      <4>2. QED  BY <4>1
    <3>2. CASE "home" \notin R.facets
      BY <1>1, <1>2, <3>2 DEF InPlace, AtHome
    <3>3. QED  BY <3>1, <3>2
  <2>4. Refreshed = Facing(config)
    BY <1>1, <1>2, <2>1, <2>3 DEF Refreshed, Found
  <2>5. Refreshed = config
    BY <1>1, <1>2, <2>2, <2>4, FacingSame
  <2>6. QED  BY <1>2, <2>1, <2>5 DEF Settled, Planned
<1>3. CASE ~There(config)
  <2>1. ~There(Refreshed)
    BY <1>1, <1>3 DEF Refreshed, Found, There
  <2>2. QED  BY <1>3, <2>1 DEF Settled, Planned
<1>4. QED  BY <1>2, <1>3

\* Composed: what is known of handlers that are effective and prompt.
Composed == Effective(R) /\ Prompt(R) => Tracked /\ Effected /\ Smooth /\ Settling

LEMMA ComposedInit == Init => Composed
  BY TrackedInit, EffectedInit, SmoothInit DEF Composed

LEMMA ComposedStep ==
  Typing /\ InPlace /\ Plain /\ Standing /\ Composed /\ [Next]_vars => Composed'
<1> SUFFICES ASSUME Typing, InPlace, Plain, Standing, Composed, [Next]_vars,
                    Effective(R), Prompt(R)
             PROVE  (Tracked /\ Effected /\ Smooth /\ Settling)'
  BY KindStays DEF Composed
<1>1. Tracked /\ Effected /\ Smooth /\ Settling
  BY DEF Composed
<1>2. QED  BY <1>1, TrackedStep, EffectedStep, SmoothStep, SettlingStep

\* PromptSettle: with handlers that bring about what is configured and that no
\* error ends by itself, a configuration comes to an empty plan within two applies
\* without a mishap, whatever failed or was changed before, or it is refused, or
\* the object is gone and Read takes that for an error.
THEOREM PromptSettle == Spec => []((Effective(R) /\ Prompt(R)) => SettlesSoon)
<1>1. Typing /\ InPlace /\ Composed => ((Effective(R) /\ Prompt(R)) => SettlesSoon)
  <2> SUFFICES ASSUME Typing, InPlace, Effective(R), Prompt(R), Effected, Smooth, Settling,
                      op = "none", attempts = Twice
               PROVE  Settled \/ Gone \/ result = "refused"
    BY DEF Composed, SettlesSoon
  <2>1. attempts > 0 /\ attempts # 1
    BY DEF Twice
  <2>2. result \in {"ok", "refused"} \/ Gone
    BY <2>1 DEF Settling
  <2>3. QED  BY <2>1, <2>2, EndsSettled
<1>2. QED
  BY <1>1, TypingInit, TypingStep, InPlaceInit, InPlaceStep, PlainInit, PlainStep,
     StandingInit, StandingStep, ComposedInit, ComposedStep, PTL DEF Spec

\* SettlesAtOnce: one apply is enough.
SettlesAtOnce ==
  op = "none" /\ attempts > 0 => Settled \/ Gone \/ result = "refused"

\* PromptSettleAtOnce: it comes to that with the first apply without a mishap,
\* unless requests look for the object where an attribute says.
THEOREM PromptSettleAtOnce ==
  Spec => []((Effective(R) /\ Prompt(R) /\ "home" \notin R.facets) => SettlesAtOnce)
<1>1. Typing /\ InPlace /\ Composed =>
        ((Effective(R) /\ Prompt(R) /\ "home" \notin R.facets) => SettlesAtOnce)
  <2> SUFFICES ASSUME Typing, InPlace, Effective(R), Prompt(R), "home" \notin R.facets,
                      Effected, Smooth, Settling, op = "none", attempts > 0
               PROVE  Settled \/ Gone \/ result = "refused"
    BY DEF Composed, SettlesAtOnce
  <2>1. result \in {"ok", "refused"} \/ Gone
    BY DEF Settling
  <2>2. QED  BY <2>1, EndsSettled
<1>2. QED
  BY <1>1, TypingInit, TypingStep, InPlaceInit, InPlaceStep, PlainInit, PlainStep,
     StandingInit, StandingStep, ComposedInit, ComposedStep, PTL DEF Spec
=============================================================================

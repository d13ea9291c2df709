------------------------- MODULE RedirectUrisProofs -------------------------
(***************************************************************************)
(* Proofs about RedirectUris, for any instances, lists and URIs, with or   *)
(* without shared URIs and failures.                                       *)
(*                                                                         *)
(* NoLostUpdate is not an invariant of one operation: that what it read is *)
(* still what is there when it writes follows from the mutex excluding all *)
(* others, which follows from where every operation is (IInv).             *)
(* UrisInForce adds what an operation has done to the application and not  *)
(* yet told the state, and that it is nobody else's business (UInv).       *)
(***************************************************************************)
EXTENDS RedirectUris, TLAPS

InSection == {"locked", "fetched", "done"}

\* Operations exist only while an apply runs.
QuietBetween == ~applying => Idle

\* An operation that adds has a URI to add.
Aims == \A r \in Resources : op[r] \in {"create", "change"} => config[r] \in Uris

OneInside == \A r, s \in Resources : inside[r] = App /\ inside[s] = App => r = s

\* What was fetched is what is there.
Fresh == \A r \in Resources : pc[r] = "fetched" => fetched[r] = app

IInv == TypeOK /\ QuietBetween /\ Aims /\ OneInside /\ Fresh

-----------------------------------------------------------------------------
LEMMA Consts == /\ Kind \in [Resources -> Kinds]
                /\ NoUri \notin Uris /\ NoUri \notin Own
                /\ App # NoApp
                /\ MaxApplies \in Nat /\ MaxFaults \in Nat
BY RedirectUrisAssumption

\* An edit stays within the URIs.
LEMMA EffectType ==
  ASSUME NEW r \in Resources, NEW list \in SUBSET (Uris \cup Own),
         op[r] \in {"create", "change", "delete"},
         op[r] \in {"create", "change"} => config[r] \in Uris
  PROVE  Effect(r, list) \in SUBSET (Uris \cup Own)
<1>1. CASE op[r] = "create" BY <1>1 DEF Effect, Edited
<1>2. CASE op[r] = "delete" BY <1>2 DEF Effect, Edited
<1>3. CASE op[r] = "change" BY <1>3 DEF Effect, Edited
<1> QED BY <1>1, <1>2, <1>3

LEMMA PlannedType ==
  ASSUME NEW r \in Resources, NEW c \in [Resources -> Uris \cup {NoUri}]
  PROVE  /\ Planned(r, c) \in {"none", "create", "change", "delete"}
         /\ Planned(r, c) \in {"create", "change"} => c[r] \in Uris
<1>1. CASE id[r] = NoUri /\ c[r] = NoUri BY <1>1 DEF Planned
<1>2. CASE id[r] = NoUri /\ c[r] # NoUri BY <1>2 DEF Planned
<1>3. CASE id[r] # NoUri /\ (c[r] = NoUri \/ r \in tainted) BY <1>3 DEF Planned
<1>4. CASE id[r] # NoUri /\ c[r] # NoUri /\ r \notin tainted BY <1>4 DEF Planned
<1> QED BY <1>1, <1>2, <1>3, <1>4

LEMMA InitInv == Init => IInv
<1> SUFFICES ASSUME Init PROVE IInv
    OBVIOUS
<1>1. TypeOK
  <2>1. app \in Lists /\ fetched \in [Resources -> Lists]
    BY DEF Init, Lists, NoLists
  <2>2. /\ config \in [Resources -> Uris \cup {NoUri}]
        /\ id \in [Resources -> Uris \cup {NoUri}]
        /\ uri \in [Resources -> Uris \cup {NoUri}]
        /\ tainted \subseteq Resources /\ hurt \subseteq Resources
    BY DEF Init
  <2>3. /\ op \in [Resources -> {"none", "create", "change", "delete"}]
        /\ pc \in [Resources -> {"idle", "planned", "locked", "fetched", "done"}]
        /\ inside \in [Resources -> {App, NoApp}]
        /\ \A r \in Resources : /\ inside[r] = App <=> pc[r] \in {"locked", "fetched", "done"}
                                /\ pc[r] = "idle" <=> op[r] = "none"
    BY Consts DEF Init, Mutex!Init
  <2>4. applying \in BOOLEAN /\ crossed \in BOOLEAN
    BY DEF Init
  <2>5. applies \in 0 .. MaxApplies /\ faults \in 0 .. MaxFaults
    BY Consts, SMT DEF Init
  <2> QED BY <2>1, <2>2, <2>3, <2>4, <2>5 DEF TypeOK
<1>2. QuietBetween /\ Aims /\ OneInside /\ Fresh
  BY Consts DEF Init, Mutex!Init, QuietBetween, Idle, Aims, OneInside, Fresh
<1> QED BY <1>1, <1>2 DEF IInv

LEMMA BeginInv == ASSUME IInv, NEW c \in Configs, BeginApply(c) PROVE IInv'
<1> USE Consts DEF IInv
<1>0. c \in [Resources -> Uris \cup {NoUri}]
  BY DEF Configs
<1>1. /\ config' = c /\ applying' = TRUE
      /\ op' = [r \in Resources |-> Planned(r, c)]
      /\ pc' = [r \in Resources |-> IF op'[r] = "none" THEN "idle" ELSE "planned"]
      /\ UNCHANGED << app, id, uri, tainted, inside, fetched, hurt, faults >>
  BY DEF BeginApply
<1>2. \A r \in Resources : inside[r] # App
  BY DEF BeginApply, QuietBetween, Idle, TypeOK
<1>3. applies' \in 0 .. MaxApplies
  BY DEF BeginApply, TypeOK
<1>4. \A r \in Resources : /\ op'[r] \in {"none", "create", "change", "delete"}
                           /\ op'[r] \in {"create", "change"} => config'[r] \in Uris
  BY <1>0, <1>1, PlannedType
<1>5. \A r \in Resources : pc'[r] \in {"idle", "planned"} /\ (pc'[r] = "idle" <=> op'[r] = "none")
  BY <1>1
<1>6. TypeOK'
  <2>1. op' \in [Resources -> {"none", "create", "change", "delete"}]
    BY <1>1, <1>4
  <2>2. pc' \in [Resources -> {"idle", "planned", "locked", "fetched", "done"}]
    BY <1>1, <1>5
  <2>3. \A r \in Resources : inside'[r] = App <=> pc'[r] \in {"locked", "fetched", "done"}
    BY <1>1, <1>2, <1>5
  <2>4. crossed' \in BOOLEAN
    BY DEF BeginApply
  <2> QED BY <2>1, <2>2, <2>3, <2>4, <1>0, <1>1, <1>3, <1>5 DEF TypeOK, Lists
<1>7. QuietBetween' /\ Aims' /\ OneInside' /\ Fresh'
  BY <1>1, <1>2, <1>4, <1>5 DEF QuietBetween, Aims, OneInside, Fresh
<1> QED BY <1>6, <1>7

LEMMA HandlerInv == ASSUME IInv, NEW r \in Resources, Handler(r) \/ Fail(r) PROVE IInv'
<1> USE Consts DEF IInv
<1>0. applying
  BY DEF Handler, LockApp, Fetch, Put, Return, Fail, QuietBetween, Idle
<1>1. CASE LockApp(r)
  <2>1. \A s \in Resources : inside[s] # App
    BY <1>1 DEF LockApp, Acquire, Enter, Mutex!Enter
  <2>2. inside' = [inside EXCEPT ![r] = App] /\ pc' = [pc EXCEPT ![r] = "locked"]
    BY <1>1 DEF LockApp, Acquire, Enter, Mutex!Enter
  <2>3. UNCHANGED << app, config, id, uri, tainted, op, fetched, applying, crossed, hurt, applies, faults >>
    BY <1>1 DEF LockApp, counters
  <2>4. TypeOK'
    BY <1>1, <2>2, <2>3 DEF LockApp, TypeOK, Lists
  <2>5. QuietBetween' /\ Aims' /\ OneInside' /\ Fresh'
    BY <1>0, <2>1, <2>2, <2>3 DEF TypeOK, QuietBetween, Aims, OneInside, Fresh
  <2> QED BY <2>4, <2>5
<1>2. CASE Fetch(r)
  <2>1. TypeOK'
    BY <1>2 DEF Fetch, counters, TypeOK, Lists
  <2>2. QuietBetween' /\ Aims' /\ OneInside' /\ Fresh'
    BY <1>0, <1>2 DEF Fetch, counters, TypeOK, QuietBetween, Aims, OneInside, Fresh
  <2> QED BY <2>1, <2>2
<1>3. CASE Put(r)
  <2>1. pc[r] = "fetched" /\ pc' = [pc EXCEPT ![r] = "done"]
        /\ app' = [fetched[r] EXCEPT ![Kind[r]] = Effect(r, @)]
        /\ UNCHANGED << config, id, uri, tainted, op, inside, fetched, applying, crossed, hurt, applies, faults >>
    BY <1>3 DEF Put, counters
  <2>2. op[r] \in {"create", "change", "delete"} /\ fetched[r] \in Lists
    BY <2>1 DEF TypeOK
  <2>3. Effect(r, fetched[r][Kind[r]]) \in SUBSET (Uris \cup Own)
    BY <2>2, EffectType DEF Aims, Lists
  <2>4. app' \in Lists
    BY <2>1, <2>2, <2>3 DEF Lists
  <2>5. TypeOK'
    BY <2>1, <2>4 DEF TypeOK
  <2>6. \A s \in Resources : pc'[s] # "fetched"
    BY <2>1 DEF OneInside, TypeOK
  <2>7. QuietBetween' /\ Aims' /\ OneInside' /\ Fresh'
    BY <1>0, <2>1, <2>6 DEF QuietBetween, Aims, OneInside, Fresh
  <2> QED BY <2>5, <2>7
<1>4. CASE Return(r)
  <2> DEFINE u == IF op[r] = "delete" THEN NoUri ELSE config[r]
             again == op[r] = "delete" /\ config[r] # NoUri
  <2>1. /\ inside' = [inside EXCEPT ![r] = NoApp]
        /\ id' = [id EXCEPT ![r] = u] /\ uri' = [uri EXCEPT ![r] = u]
        /\ tainted' = tainted \ {r}
        /\ op' = [op EXCEPT ![r] = IF again THEN "create" ELSE "none"]
        /\ pc' = [pc EXCEPT ![r] = IF again THEN "planned" ELSE "idle"]
        /\ fetched' = [fetched EXCEPT ![r] = NoLists]
        /\ UNCHANGED << app, config, applying, crossed, hurt, applies, faults >>
    BY <1>4 DEF Return, Release, Leave, Mutex!Leave, counters
  <2>2. u \in Uris \cup {NoUri}
    BY DEF TypeOK
  <2>3. NoLists \in Lists
    BY DEF NoLists, Lists
  <2>4. TypeOK'
    BY <2>1, <2>2, <2>3 DEF TypeOK
  <2>5. Aims'
    BY <2>1 DEF Aims, TypeOK
  <2>6. QuietBetween' /\ OneInside' /\ Fresh'
    BY <1>0, <2>1 DEF QuietBetween, OneInside, Fresh, TypeOK
  <2> QED BY <2>4, <2>5, <2>6
<1>5. CASE Fail(r)
  <2>1. /\ inside' = [inside EXCEPT ![r] = NoApp]
        /\ id' = IF op[r] = "create" THEN [id EXCEPT ![r] = config[r]] ELSE id
        /\ uri' = IF op[r] = "delete" THEN uri ELSE [uri EXCEPT ![r] = config[r]]
        /\ tainted' = IF op[r] = "create" THEN tainted \cup {r} ELSE tainted
        /\ op' = [op EXCEPT ![r] = "none"]
        /\ pc' = [pc EXCEPT ![r] = "idle"]
        /\ fetched' = [fetched EXCEPT ![r] = NoLists]
        /\ hurt' = hurt \cup {r}
        /\ faults < MaxFaults /\ faults' = faults + 1
        /\ UNCHANGED << app, config, applying, crossed, applies >>
    BY <1>5 DEF Fail, Leave, Mutex!Leave
  <2>2. NoLists \in Lists
    BY DEF NoLists, Lists
  <2>3. faults' \in 0 .. MaxFaults
    BY <2>1 DEF TypeOK
  <2>4. TypeOK'
    BY <2>1, <2>2, <2>3 DEF TypeOK
  <2>5. QuietBetween' /\ Aims' /\ OneInside' /\ Fresh'
    BY <1>0, <2>1 DEF QuietBetween, Aims, OneInside, Fresh, TypeOK
  <2> QED BY <2>4, <2>5
<1> QED BY <1>1, <1>2, <1>3, <1>4, <1>5 DEF Handler

LEMMA StepInv == IInv /\ [Next]_vars => IInv'
<1> SUFFICES ASSUME IInv, [Next]_vars PROVE IInv'
    OBVIOUS
<1>1. CASE UNCHANGED vars
  BY <1>1 DEF vars, IInv, TypeOK, Lists, QuietBetween, Idle, Aims, OneInside, Fresh
<1>2. CASE EndApply
  <2>1. /\ Idle /\ applying' = FALSE
        /\ UNCHANGED << app, config, id, uri, tainted, op, pc, inside, fetched, crossed,
                        hurt, applies, faults >>
    BY <1>2 DEF EndApply, counters
  <2>2. TypeOK'
    BY <2>1 DEF IInv, TypeOK, Lists
  <2>3. QuietBetween' /\ Aims' /\ OneInside' /\ Fresh'
    BY <2>1 DEF IInv, QuietBetween, Idle, Aims, OneInside, Fresh
  <2> QED BY <2>2, <2>3 DEF IInv
<1> QED BY <1>1, <1>2, BeginInv, HandlerInv DEF Next

LEMMA InvAlways == Spec => []IInv
BY InitInv, StepInv, PTL DEF Spec

-----------------------------------------------------------------------------
\* Every variable stays in its range, and an operation holds the mutex
\* exactly between its Lock and its deferred Unlock, on every path out.
THEOREM TypeCorrect == Spec => []TypeOK
BY InvAlways, PTL DEF IInv

\* No update of an application is lost, for any number of instances of both
\* kinds working on it at a time.
THEOREM Lossless == Spec => NoLostUpdate
<1> DEFINE Edit == \A r \in Resources :
                     pc[r] = "fetched" /\ pc'[r] = "done" =>
                       app' = [app EXCEPT ![Kind[r]] = Effect(r, @)]
<1>1. ASSUME IInv, [Next]_vars PROVE Edit \/ UNCHANGED vars
  <2> SUFFICES ASSUME NEW r \in Resources, pc[r] = "fetched", pc'[r] = "done", ~UNCHANGED vars
               PROVE  app' = [app EXCEPT ![Kind[r]] = Effect(r, @)]
      OBVIOUS
  <2>1. ASSUME NEW s \in Resources, LockApp(s) \/ Fetch(s) \/ Return(s) \/ Fail(s) PROVE FALSE
    <3>1. pc[s] \in {"idle", "planned", "locked", "fetched", "done"} /\ pc \in [Resources -> {"idle", "planned", "locked", "fetched", "done"}]
      BY <1>1 DEF IInv, TypeOK
    <3>2. \E v \in {"idle", "planned", "locked", "fetched"} : pc' = [pc EXCEPT ![s] = v]
      BY <2>1 DEF LockApp, Fetch, Return, Fail
    <3> QED BY <3>1, <3>2
  <2>2. ASSUME NEW c \in Configs, BeginApply(c) PROVE FALSE
    BY <2>2 DEF BeginApply
  <2>3. ~EndApply
    BY DEF EndApply
  <2>4. ASSUME NEW s \in Resources, Put(s) PROVE s = r
    BY <2>4 DEF Put, IInv, TypeOK
  <2>5. Put(r)
    BY <1>1, <2>1, <2>2, <2>3, <2>4 DEF Next, Handler
  <2> QED BY <1>1, <2>5 DEF Put, IInv, Fresh
<1>2. IInv /\ [Next]_vars => [Edit]_vars
  BY <1>1
<1>3. Spec => [][Edit]_vars
  BY <1>2, InvAlways, PTL DEF Spec
<1> QED BY <1>3 DEF NoLostUpdate

\* Outside an apply no operation is under way, so none holds the mutex.
THEOREM QuietBetweenApplies ==
  Spec => [](~applying => \A r \in Resources : inside[r] = NoApp)
<1>1. IInv => (~applying => \A r \in Resources : inside[r] = NoApp)
  BY DEF IInv, TypeOK, QuietBetween, Idle
<1> QED BY <1>1, InvAlways, PTL
(***************************************************************************)
(* The URIs in force.  Between its Put and its Return an operation has     *)
(* done its edit and not yet told the state, so that for each instance     *)
(* either the URI of the state is in the application or the one of the     *)
(* configuration; and since nothing is taken over, the edits of the others *)
(* concern neither.                                                        *)
(***************************************************************************)
Known(r) == {id[r], uri[r]} \ {NoUri}

\* The URIs of the instances of a list are apart.
Separate ==
  ~crossed => \A r, s \in Resources : SameList(r, s) =>
    /\ config[r] # NoUri => config[r] \notin {config[s], id[s], uri[s]}
    /\ Known(r) \cap Known(s) = {}

\* A change has another URI to put in the place of the old one.
Changes == \A r \in Resources : op[r] = "change" => uri[r] # config[r]

\* The operations the instances that never failed may have, and where they
\* are done.
Settled ==
  /\ tainted \subseteq hurt
  /\ \A r \in Resources \ hurt :
       /\ uri[r] = id[r]
       /\ pc[r] = "idle" => id[r] = config[r]
       /\ op[r] = "create" => id[r] = NoUri
       /\ op[r] = "delete" => config[r] = NoUri

\* Their URIs are in the application.
There ==
  ~crossed => \A r \in Resources \ hurt :
    /\ pc[r] # "done" /\ id[r] # NoUri => id[r] \in app[Kind[r]]
    /\ pc[r] = "done" /\ op[r] # "delete" => config[r] \in app[Kind[r]]

Kept == \A k \in Kinds : Own \subseteq app[k]

\* The URI the instance has in the application.
Has(r) == IF pc[r] = "done" THEN IF op[r] = "delete" THEN NoUri ELSE config[r] ELSE id[r]

Accounted ==
  hurt = {} /\ ~crossed =>
    \A k \in Kinds : \A u \in app[k] :
      u \in Own \/ \E r \in Resources : Kind[r] = k /\ u = Has(r)

UInv == Separate /\ Changes /\ Settled /\ There /\ Kept /\ Accounted

LEMMA InitUris == Init => UInv
BY Consts DEF Init, UInv, Separate, Known, Changes, Settled, There, Kept, Accounted

LEMMA BeginUris == ASSUME IInv, UInv, NEW c \in Configs, BeginApply(c) PROVE UInv'
<1> USE Consts DEF IInv
<1>1. /\ config' = c /\ c \in [Resources -> Uris \cup {NoUri}]
      /\ op' = [r \in Resources |-> Planned(r, c)]
      /\ pc' = [r \in Resources |-> IF op'[r] = "none" THEN "idle" ELSE "planned"]
      /\ crossed' = (crossed \/ Crosses(c))
      /\ UNCHANGED << app, id, uri, tainted, hurt >>
  BY DEF BeginApply, Configs
<1>2. \A r \in Resources : pc[r] = "idle" /\ pc'[r] # "done"
  BY <1>1 DEF BeginApply, QuietBetween, Idle
<1>3. Separate'
  <2> SUFFICES ASSUME ~crossed', NEW r \in Resources, NEW s \in Resources, SameList(r, s)
               PROVE  /\ c[r] # NoUri => c[r] \notin {c[s], id[s], uri[s]}
                      /\ Known(r) \cap Known(s) = {}
      BY <1>1 DEF Separate, Known, SameList
  <2>1. ~crossed /\ ~Crosses(c)
    BY <1>1 DEF TypeOK
  <2>2. Known(r) \cap Known(s) = {}
    BY <2>1 DEF UInv, Separate
  <2>3. c[r] # NoUri => c[r] # c[s]
    BY DEF Configs
  <2>4. c[r] # NoUri => c[r] \notin {id[s], uri[s]}
    BY <2>1 DEF Crosses
  <2> QED BY <2>2, <2>3, <2>4
<1>4. \A r \in Resources :
        /\ Planned(r, c) = "change" => uri[r] # c[r]
        /\ Planned(r, c) = "create" => id[r] = NoUri
        /\ Planned(r, c) = "delete" /\ r \notin tainted => c[r] = NoUri
        /\ Planned(r, c) = "none" /\ uri[r] = id[r] => id[r] = c[r]
  <2> SUFFICES ASSUME NEW r \in Resources
               PROVE  /\ Planned(r, c) = "change" => uri[r] # c[r]
                      /\ Planned(r, c) = "create" => id[r] = NoUri
                      /\ Planned(r, c) = "delete" /\ r \notin tainted => c[r] = NoUri
                      /\ Planned(r, c) = "none" /\ uri[r] = id[r] => id[r] = c[r]
      OBVIOUS
  <2>1. CASE id[r] = NoUri /\ c[r] = NoUri BY <2>1 DEF Planned
  <2>2. CASE id[r] = NoUri /\ c[r] # NoUri BY <2>2 DEF Planned
  <2>3. CASE id[r] # NoUri /\ (c[r] = NoUri \/ r \in tainted) BY <2>3 DEF Planned
  <2>4. CASE id[r] # NoUri /\ c[r] # NoUri /\ r \notin tainted BY <2>4 DEF Planned
  <2> QED BY <2>1, <2>2, <2>3, <2>4
<1>5. Changes' /\ Settled'
  BY <1>1, <1>4 DEF UInv, Changes, Settled
<1>6. ~crossed' => ~crossed
  BY <1>1 DEF TypeOK
<1>7. There' /\ Kept'
  BY <1>1, <1>2, <1>6 DEF UInv, There, Kept
<1>8. \A r \in Resources : Has(r)' = Has(r)
  BY <1>1, <1>2 DEF Has
<1>9. Accounted'
  BY <1>1, <1>6, <1>8 DEF UInv, Accounted
<1> QED BY <1>3, <1>5, <1>7, <1>9 DEF UInv

\* What an edit takes away belongs to the instance, and what it adds is its
\* new URI.
LEMMA EffectBounds ==
  ASSUME NEW r \in Resources, NEW list, op[r] \in {"create", "change", "delete"}
  PROVE  /\ Effect(r, list) \subseteq list \cup (IF op[r] = "delete" THEN {} ELSE {config[r]})
         /\ op[r] = "delete" => id[r] \notin Effect(r, list)
         /\ op[r] = "change" => uri[r] \notin Effect(r, list)
         /\ op[r] = "create" \/ (op[r] = "change" /\ config[r] # uri[r]) => config[r] \in Effect(r, list)
         /\ \A u \in list : u \notin {id[r], uri[r]} => u \in Effect(r, list)
         /\ op[r] = "create" => list \subseteq Effect(r, list)
<1>1. CASE op[r] = "create" BY <1>1 DEF Effect, Edited
<1>2. CASE op[r] = "delete" BY <1>2 DEF Effect, Edited
<1>3. CASE op[r] = "change" BY <1>3 DEF Effect, Edited
<1> QED BY <1>1, <1>2, <1>3

LEMMA PutUris == ASSUME IInv, UInv, NEW r \in Resources, Put(r) PROVE UInv'
<1> USE Consts DEF IInv
<1> DEFINE k == Kind[r]
           list == app[k]
           new == Effect(r, list)
<1>1. /\ pc[r] = "fetched" /\ pc' = [pc EXCEPT ![r] = "done"]
      /\ app' = [app EXCEPT ![k] = new]
      /\ UNCHANGED << config, id, uri, tainted, op, crossed, hurt >>
  BY DEF Put, Fresh
<1>2. op[r] \in {"create", "change", "delete"} /\ k \in Kinds
  BY <1>1 DEF TypeOK
<1>3. \A l \in Kinds : app'[l] = IF l = k THEN new ELSE app[l]
  BY <1>1, <1>2 DEF TypeOK, Lists
<1>4. /\ new \subseteq list \cup (IF op[r] = "delete" THEN {} ELSE {config[r]})
      /\ op[r] = "delete" => id[r] \notin new
      /\ op[r] = "change" => uri[r] \notin new
      /\ op[r] = "create" \/ op[r] = "change" => config[r] \in new
      /\ \A u \in list : u \notin {id[r], uri[r]} => u \in new
  BY <1>2, EffectBounds DEF UInv, Changes
<1> HIDE DEF new
<1>5. Separate' /\ Changes' /\ Settled'
  <2>1. \A s \in Resources : pc'[s] = "idle" => pc[s] = "idle"
    BY <1>1 DEF TypeOK
  <2> QED BY <1>1, <2>1 DEF UInv, Separate, Known, SameList, Changes, Settled
<1>6. There'
  <2> SUFFICES ASSUME ~crossed, NEW s \in Resources, s \notin hurt
               PROVE  /\ pc'[s] # "done" /\ id[s] # NoUri => id[s] \in app'[Kind[s]]
                      /\ pc'[s] = "done" /\ op[s] # "delete" => config[s] \in app'[Kind[s]]
      BY <1>1 DEF There
  <2>1. CASE s = r
    BY <1>1, <1>2, <1>3, <1>4, <2>1 DEF TypeOK
  <2>2. CASE s # r /\ Kind[s] # k
    BY <1>1, <1>3, <2>2 DEF UInv, There, TypeOK
  <2>3. CASE s # r /\ Kind[s] = k
    <3>1. SameList(s, r) BY <2>3 DEF SameList
    <3>2. id[s] # NoUri => id[s] \notin {id[r], uri[r]}
      BY <3>1 DEF UInv, Separate, Known
    <3>3. config[s] # NoUri => config[s] \notin {id[r], uri[r]}
      BY <3>1 DEF UInv, Separate
    <3>4. pc[s] = "done" /\ op[s] # "delete" => config[s] # NoUri
      BY <2>3 DEF Aims, TypeOK
    <3>5. pc'[s] = pc[s]
      BY <1>1, <2>3 DEF TypeOK
    <3> QED BY <1>3, <1>4, <2>3, <3>2, <3>3, <3>4, <3>5 DEF UInv, There
  <2> QED BY <2>1, <2>2, <2>3
<1>7. Kept'
  <2>1. id[r] \notin Own /\ uri[r] \notin Own
    BY RedirectUrisAssumption DEF TypeOK
  <2>2. Own \subseteq list
    BY <1>2 DEF UInv, Kept
  <2> QED BY <1>3, <1>4, <2>1, <2>2 DEF UInv, Kept
<1>8. Accounted'
  <2> SUFFICES ASSUME hurt = {}, ~crossed, NEW l \in Kinds, NEW u \in app'[l], u \notin Own
               PROVE  \E s \in Resources : Kind[s] = l /\ u = Has(s)'
      BY <1>1 DEF Accounted
  <2>1. \A s \in Resources : s # r => Has(s)' = Has(s)
    BY <1>1 DEF Has, TypeOK
  <2>2. Has(r)' = (IF op[r] = "delete" THEN NoUri ELSE config[r])
    BY <1>1 DEF Has, TypeOK
  <2>3. CASE u \in app[l]
    <3>1. PICK s \in Resources : Kind[s] = l /\ u = Has(s)
      BY <2>3 DEF UInv, Accounted
    <3>2. CASE s # r
      BY <2>1, <3>1, <3>2
    <3>3. CASE s = r
      <4>1. l = k /\ u = id[r]
        BY <1>1, <3>1, <3>3 DEF Has
      <4>2. u \in new
        BY <1>3, <4>1
      <4>3. uri[r] = id[r]
        BY DEF UInv, Settled
      <4>4. op[r] = "create"
        BY <1>2, <1>4, <4>1, <4>2, <4>3
      <4>5. u = NoUri
        BY <4>1, <4>4 DEF UInv, Settled
      <4>6. NoUri \notin app[l]
        BY RedirectUrisAssumption DEF TypeOK, Lists
      <4> QED BY <2>3, <4>5, <4>6
    <3> QED BY <3>2, <3>3
  <2>4. CASE u \notin app[l]
    BY <1>2, <1>3, <1>4, <2>2, <2>4
  <2> QED BY <2>3, <2>4
<1> QED BY <1>5, <1>6, <1>7, <1>8 DEF UInv

\* An operation that returns early has its edit in the application.
LEMMA ReturnUris == ASSUME IInv, UInv, NEW r \in Resources, Return(r) PROVE UInv'
<1> USE Consts DEF IInv
<1> DEFINE u == IF op[r] = "delete" THEN NoUri ELSE config[r]
           again == op[r] = "delete" /\ config[r] # NoUri
<1>1. /\ id' = [id EXCEPT ![r] = u] /\ uri' = [uri EXCEPT ![r] = u]
      /\ tainted' = tainted \ {r}
      /\ op' = [op EXCEPT ![r] = IF again THEN "create" ELSE "none"]
      /\ pc' = [pc EXCEPT ![r] = IF again THEN "planned" ELSE "idle"]
      /\ UNCHANGED << app, config, crossed, hurt >>
  BY DEF Return
<1>2. op[r] \in {"create", "change", "delete"} /\ Kind[r] \in Kinds
  BY DEF Return, TypeOK
<1>3. r \notin hurt => u = config[r] /\ ~again
  BY DEF UInv, Settled
<1>4. \A s \in Resources :
        /\ id'[s] = IF s = r THEN u ELSE id[s]
        /\ uri'[s] = IF s = r THEN u ELSE uri[s]
        /\ op'[s] = IF s = r THEN IF again THEN "create" ELSE "none" ELSE op[s]
        /\ pc'[s] = IF s = r THEN IF again THEN "planned" ELSE "idle" ELSE pc[s]
  BY <1>1 DEF TypeOK
<1>5. u \in {config[r], NoUri}
  OBVIOUS
<1> HIDE DEF u, again
<1>6. Separate'
  <2> SUFFICES ASSUME ~crossed, NEW s \in Resources, NEW t \in Resources, SameList(s, t)
               PROVE  /\ config[s] # NoUri => config[s] \notin {config[t], id'[t], uri'[t]}
                      /\ ({id'[s], uri'[s]} \ {NoUri}) \cap ({id'[t], uri'[t]} \ {NoUri}) = {}
      BY <1>1 DEF Separate, Known, SameList
  <2>1. s # t
    BY DEF SameList
  <2>2. /\ config[s] # NoUri => config[s] \notin {config[t], id[t], uri[t]}
        /\ config[t] # NoUri => config[t] \notin {config[s], id[s], uri[s]}
        /\ ({id[s], uri[s]} \ {NoUri}) \cap ({id[t], uri[t]} \ {NoUri}) = {}
    BY DEF UInv, Separate, Known, SameList
  <2> QED BY <1>4, <1>5, <2>1, <2>2
<1>7. Changes' /\ Settled'
  BY <1>1, <1>3, <1>4 DEF UInv, Changes, Settled
<1>8. r \notin hurt /\ ~crossed /\ u # NoUri => u \in app[Kind[r]]
  <2>1. CASE pc[r] = "done"
    BY <1>3, <2>1 DEF u, UInv, There
  <2>2. CASE pc[r] = "fetched" /\ NothingToDo(r)
    <3>1. op[r] # "change" /\ Effect(r, app[Kind[r]]) = app[Kind[r]]
      BY <2>2 DEF NothingToDo, Fresh
    <3> QED BY <1>2, <3>1, EffectBounds DEF u
  <2> QED BY <2>1, <2>2 DEF Return
<1>9. There'
  BY <1>1, <1>4, <1>8 DEF UInv, There
<1>10. Kept'
  BY <1>1 DEF UInv, Kept
<1>11. Accounted'
  <2> SUFFICES ASSUME hurt = {}, ~crossed, NEW l \in Kinds, NEW v \in app[l], v \notin Own
               PROVE  \E s \in Resources : Kind[s] = l /\ v = Has(s)'
      BY <1>1 DEF Accounted
  <2>1. PICK s \in Resources : Kind[s] = l /\ v = Has(s)
    BY DEF UInv, Accounted
  <2>2. CASE s # r
    BY <1>1, <1>4, <2>1, <2>2 DEF Has
  <2>3. CASE s = r
    <3>1. Has(r)' = u
      BY <1>3, <1>4 DEF Has
    <3>2. CASE pc[r] = "done"
      BY <2>1, <2>3, <3>1, <3>2 DEF Has, u
    <3>3. CASE pc[r] = "fetched" /\ NothingToDo(r)
      <4>1. op[r] # "change" /\ Effect(r, app[l]) = app[l]
        BY <2>1, <2>3, <3>3 DEF NothingToDo, Fresh
      <4>2. v = id[r]
        BY <2>1, <2>3, <3>3 DEF Has
      <4>3. op[r] = "create"
        BY <1>2, <4>1, <4>2, EffectBounds
      <4>4. v = NoUri
        BY <4>2, <4>3 DEF UInv, Settled
      <4>5. NoUri \notin app[l]
        BY RedirectUrisAssumption DEF TypeOK, Lists
      <4> QED BY <4>4, <4>5
    <3> QED BY <3>2, <3>3 DEF Return
  <2> QED BY <2>2, <2>3
<1> QED BY <1>6, <1>7, <1>9, <1>10, <1>11 DEF UInv

LEMMA FailUris == ASSUME IInv, UInv, NEW r \in Resources, Fail(r) PROVE UInv'
<1> USE Consts DEF IInv
<1>1. /\ id' = IF op[r] = "create" THEN [id EXCEPT ![r] = config[r]] ELSE id
      /\ uri' = IF op[r] = "delete" THEN uri ELSE [uri EXCEPT ![r] = config[r]]
      /\ tainted' \subseteq tainted \cup {r}
      /\ op' = [op EXCEPT ![r] = "none"]
      /\ pc' = [pc EXCEPT ![r] = "idle"]
      /\ hurt' = hurt \cup {r}
      /\ UNCHANGED << app, config, crossed >>
  BY DEF Fail
<1>2. \A s \in Resources :
        /\ id'[s] = id[s] \/ (s = r /\ id'[s] = config[s])
        /\ uri'[s] = uri[s] \/ (s = r /\ uri'[s] = config[s])
        /\ s # r => id'[s] = id[s] /\ uri'[s] = uri[s] /\ op'[s] = op[s] /\ pc'[s] = pc[s]
        /\ op'[r] = "none"
  BY <1>1 DEF TypeOK
<1>3. Separate'
  <2> SUFFICES ASSUME ~crossed, NEW s \in Resources, NEW t \in Resources, SameList(s, t)
               PROVE  /\ config[s] # NoUri => config[s] \notin {config[t], id'[t], uri'[t]}
                      /\ ({id'[s], uri'[s]} \ {NoUri}) \cap ({id'[t], uri'[t]} \ {NoUri}) = {}
      BY <1>1 DEF Separate, Known, SameList
  <2>1. s # t
    BY DEF SameList
  <2>2. /\ config[s] # NoUri => config[s] \notin {config[t], id[t], uri[t]}
        /\ config[t] # NoUri => config[t] \notin {config[s], id[s], uri[s]}
        /\ ({id[s], uri[s]} \ {NoUri}) \cap ({id[t], uri[t]} \ {NoUri}) = {}
    BY DEF UInv, Separate, Known, SameList
  <2> QED BY <1>2, <2>1, <2>2
<1>4. Changes' /\ Settled' /\ There' /\ Kept'
  BY <1>1, <1>2 DEF UInv, Changes, Settled, There, Kept
<1>5. Accounted'
  BY <1>1 DEF Accounted
<1> QED BY <1>3, <1>4, <1>5 DEF UInv

LEMMA StepUris == IInv /\ UInv /\ [Next]_vars => UInv'
<1> SUFFICES ASSUME IInv, UInv, [Next]_vars PROVE UInv'
    OBVIOUS
<1>1. ASSUME UNCHANGED << app, config, id, uri, tainted, op, crossed, hurt >>,
             \A r \in Resources : pc'[r] = pc[r] \/ (pc[r] \notin {"idle", "done"} /\ pc'[r] \notin {"idle", "done"})
      PROVE  UInv'
  <2>1. \A r \in Resources : Has(r)' = Has(r)
    BY <1>1 DEF Has
  <2>2. Accounted'
    BY <1>1, <2>1 DEF UInv, Accounted
  <2> QED BY <1>1, <2>2 DEF UInv, Separate, Known, SameList, Changes, Settled, There, Kept
<1>2. ASSUME NEW r \in Resources, LockApp(r) \/ Fetch(r) PROVE UInv'
  <2>1. \E v \in {"locked", "fetched"} : pc' = [pc EXCEPT ![r] = v]
    BY <1>2 DEF LockApp, Fetch
  <2>2. pc[r] \in {"planned", "locked"}
    BY <1>2 DEF LockApp, Fetch
  <2>3. \A s \in Resources : pc'[s] = pc[s] \/ (pc[s] \notin {"idle", "done"} /\ pc'[s] \notin {"idle", "done"})
    BY <2>1, <2>2 DEF IInv, TypeOK
  <2> QED BY <1>1, <1>2, <2>3 DEF LockApp, Fetch
<1>3. CASE EndApply \/ UNCHANGED vars
  BY <1>1, <1>3 DEF EndApply, vars
<1> QED BY <1>2, <1>3, BeginUris, PutUris, ReturnUris, FailUris DEF Next, Handler

\* The promise of the two resources: after every apply in which no URI passed
\* from one instance to another, what did not fail is in the application, and
\* where nothing failed nothing else is, in whatever order the operations ran.
THEOREM InForceBetweenApplies == Spec => []UrisInForce
<1>1. IInv /\ UInv => UrisInForce
  <2> SUFFICES ASSUME IInv, UInv, ~applying, ~crossed PROVE InForce
      BY DEF UrisInForce
  <2>1. \A r \in Resources : pc[r] = "idle" /\ Has(r) = id[r]
    BY DEF IInv, QuietBetween, Idle, Has
  <2>2. \A r \in Resources \ hurt : id[r] = config[r] /\ (id[r] # NoUri => id[r] \in app[Kind[r]])
    BY <2>1 DEF UInv, Settled, There
  <2>3. \A k \in Kinds : Own \subseteq app[k] /\ (hurt = {} => app[k] \subseteq Own \cup {id[r] : r \in Resources})
    BY <2>1 DEF UInv, Kept, Accounted
  <2> QED BY <2>2, <2>3 DEF InForce
<1>2. Init => IInv /\ UInv
  BY InitInv, InitUris
<1>3. (IInv /\ UInv) /\ [Next]_vars => (IInv /\ UInv)'
  BY StepInv, StepUris
<1> QED BY <1>1, <1>2, <1>3, PTL DEF Spec
=============================================================================

---------------------------- MODULE RedirectUris ----------------------------
(***************************************************************************)
(* The resources okta_app_oauth_redirect_uri and                           *)
(* okta_app_oauth_post_logout_redirect_uri: each instance manages one URI  *)
(* in one of the two lists of an OAuth application.  The API only replaces *)
(* whole applications, so every operation is read, modify, write, and the  *)
(* operations of one apply run concurrently, serialised by the keyed mutex *)
(* with the application's ID as the key.                                   *)
(*                                                                         *)
(*   okta/services/idaas/resource_okta_app_oauth_redirect_uri.go           *)
(*                                                                         *)
(* The keyed mutex is used by what it promises (KeyedLock, which MutexKV   *)
(* implements).  Lists are sets: the code adds what is missing only.       *)
(***************************************************************************)
EXTENDS Naturals, FiniteSets

CONSTANTS
  Resources,    \* the instances in the configuration
  Kind,         \* the list each of them manages a URI of
  Kinds,        \* the lists: redirect and post-logout redirect URIs
  Uris,         \* URIs the instances may have
  Own,          \* URIs the application itself was made with
  App, NoApp,   \* the application, as the key of the mutex; none
  NoUri,
  MaxApplies,   \* bound: configurations applied
  MaxFaults     \* bound: API calls that fail or whose answer is lost

ASSUME RedirectUrisAssumption ==
  /\ Kind \in [Resources -> Kinds]
  /\ Own \cap Uris = {} /\ NoUri \notin Uris \cup Own
  /\ App # NoApp
  /\ {MaxApplies, MaxFaults} \subseteq Nat

VARIABLES
  app,      \* the lists of the application in Okta
  config,   \* the URI the configuration gives to each instance
  id, uri,  \* the Terraform state of each instance
  tainted,  \* the instances whose creation failed
  op, pc,   \* the operation on each instance, and where it is
  inside,   \* the key of the mutex it holds
  fetched,  \* the application as it read it, until it returns
  applying, \* whether an apply is running
  crossed,  \* history: an instance ever took a URI that another one had
  hurt,     \* history: the instances that ever had a failed operation
  applies, faults   \* counters for the bounds

vars == << app, config, id, uri, tainted, op, pc, inside, fetched, applying,
           crossed, hurt, applies, faults >>
counters == << applies, faults >>

Mutex == INSTANCE KeyedLock WITH Procs <- Resources, Keys <- {App}, NoKey <- NoApp

-----------------------------------------------------------------------------
Idle == \A r \in Resources : pc[r] = "idle"
Lists == [Kinds -> SUBSET (Uris \cup Own)]
NoLists == [k \in Kinds |-> {}]

Init ==
  /\ app = [k \in Kinds |-> Own]
  /\ config = [r \in Resources |-> NoUri]
  /\ id = config /\ uri = config
  /\ tainted = {}
  /\ op = [r \in Resources |-> "none"]
  /\ pc = [r \in Resources |-> "idle"]
  /\ Mutex!Init
  /\ fetched = [r \in Resources |-> NoLists]
  /\ applying = FALSE /\ crossed = FALSE
  /\ hurt = {}
  /\ applies = 0 /\ faults = 0

SameList(r, s) == r # s /\ Kind[r] = Kind[s]

\* The instances of a list have different URIs.
Configs ==
  { c \in [Resources -> Uris \cup {NoUri}] :
      \A r, s \in Resources : SameList(r, s) /\ c[r] # NoUri => c[r] # c[s] }

\* Some instance takes a URI that another one of the list has.
Crosses(c) ==
  \E r, s \in Resources :
    SameList(r, s) /\ c[r] # NoUri /\ c[r] \in {id[s], uri[s]}

\* Read: an instance whose URI is not in the application is an error, which
\* stops Terraform before it plans anything.
ReadSucceeds(r) == id[r] # NoUri => id[r] \in app[Kind[r]]

\* What Terraform makes of the state and the configuration.
Planned(r, c) ==
  CASE id[r] = NoUri /\ c[r] = NoUri                 -> "none"
    [] id[r] = NoUri /\ c[r] # NoUri                 -> "create"
    [] id[r] # NoUri /\ (c[r] = NoUri \/ r \in tainted) -> "delete"
    [] OTHER -> IF uri[r] = c[r] THEN "none" ELSE "change"

BeginApply(c) ==
  /\ ~applying
  /\ \A r \in Resources : ReadSucceeds(r)
  /\ op' = [r \in Resources |-> Planned(r, c)]
  /\ \E r \in Resources : op'[r] # "none"
  /\ IF c = config THEN UNCHANGED applies
                   ELSE applies < MaxApplies /\ applies' = applies + 1
  /\ config' = c
  /\ pc' = [r \in Resources |-> IF op'[r] = "none" THEN "idle" ELSE "planned"]
  /\ applying' = TRUE
  /\ crossed' = (crossed \/ Crosses(c))
  /\ UNCHANGED << app, id, uri, tainted, inside, fetched, hurt, faults >>

EndApply ==
  /\ applying /\ Idle
  /\ applying' = FALSE
  /\ UNCHANGED << app, config, id, uri, tainted, op, pc, inside, fetched, crossed, hurt, counters >>

-----------------------------------------------------------------------------
\* The list an operation makes of the list it has read: append, remove, or
\* append the new URI and remove the one of the state.
Edited(r, list) ==
  CASE op[r] = "create" -> list \cup {config[r]}
    [] op[r] = "delete" -> list \ {id[r]}
    [] op[r] = "change" -> (list \cup {config[r]}) \ {uri[r]}

\* The old URI stays.
Appended(r, list) == IF op[r] = "delete" THEN list \ {id[r]} ELSE list \cup {config[r]}

Effect(r, list) == Edited(r, list)

\* Create and Delete return early when their work is done.
NothingToDo(r) ==
  /\ op[r] # "change"
  /\ Effect(r, fetched[r][Kind[r]]) = fetched[r][Kind[r]]

Enter(r) == Mutex!Enter(r, App)

\* Without the mutex.
EnterUnlocked(r) == inside' = [inside EXCEPT ![r] = App]

Acquire(r) == Enter(r)

\* Delete does not unlock.
KeepOnDelete(r) == IF op[r] = "delete" THEN UNCHANGED inside ELSE Mutex!Leave(r)

Leave(r) == Mutex!Leave(r)

\* The early return keeps the mutex.
LeaveWritten(r) == IF NothingToDo(r) THEN UNCHANGED inside ELSE Leave(r)

Release(r) == Leave(r)

LockApp(r) ==
  /\ pc[r] = "planned"
  /\ Acquire(r)
  /\ pc' = [pc EXCEPT ![r] = "locked"]
  /\ UNCHANGED << app, config, id, uri, tainted, op, fetched, applying, crossed, hurt, counters >>

\* fetchAppByID
Fetch(r) ==
  /\ pc[r] = "locked"
  /\ fetched' = [fetched EXCEPT ![r] = app]
  /\ pc' = [pc EXCEPT ![r] = "fetched"]
  /\ UNCHANGED << app, config, id, uri, tainted, op, inside, applying, crossed, hurt, counters >>

\* updateAppByID replaces the whole application.
Put(r) ==
  /\ pc[r] = "fetched"
  /\ ~NothingToDo(r)
  /\ app' = [fetched[r] EXCEPT ![Kind[r]] = Effect(r, @)]
  /\ pc' = [pc EXCEPT ![r] = "done"]
  /\ UNCHANGED << config, id, uri, tainted, op, inside, fetched, applying, crossed, hurt, counters >>

\* The handler returns, the deferred Unlock runs and the state is written;
\* a tainted instance is created anew after it was deleted.
Return(r) ==
  /\ pc[r] = "done" \/ (pc[r] = "fetched" /\ NothingToDo(r))
  /\ Release(r)
  /\ LET u == IF op[r] = "delete" THEN NoUri ELSE config[r]
     IN  id' = [id EXCEPT ![r] = u] /\ uri' = [uri EXCEPT ![r] = u]
  /\ tainted' = tainted \ {r}
  /\ LET again == op[r] = "delete" /\ config[r] # NoUri
     IN  /\ op' = [op EXCEPT ![r] = IF again THEN "create" ELSE "none"]
         /\ pc' = [pc EXCEPT ![r] = IF again THEN "planned" ELSE "idle"]
  /\ fetched' = [fetched EXCEPT ![r] = NoLists]
  /\ UNCHANGED << app, config, applying, crossed, hurt, counters >>

\* A call fails or its answer is lost.  A failed Create has set the ID, and
\* the instance is tainted; a failed Update keeps the ID, but Terraform
\* stores the planned URI; a failed Delete changes nothing.
Fail(r) ==
  /\ pc[r] \in {"locked", "fetched", "done"}
  /\ faults < MaxFaults
  /\ faults' = faults + 1
  /\ hurt' = hurt \cup {r}
  /\ Leave(r)
  /\ id' = IF op[r] = "create" THEN [id EXCEPT ![r] = config[r]] ELSE id
  /\ uri' = IF op[r] = "delete" THEN uri ELSE [uri EXCEPT ![r] = config[r]]
  /\ tainted' = IF op[r] = "create" THEN tainted \cup {r} ELSE tainted
  /\ op' = [op EXCEPT ![r] = "none"]
  /\ pc' = [pc EXCEPT ![r] = "idle"]
  /\ fetched' = [fetched EXCEPT ![r] = NoLists]
  /\ UNCHANGED << app, config, applying, crossed, applies >>

-----------------------------------------------------------------------------
Handler(r) == LockApp(r) \/ Fetch(r) \/ Put(r) \/ Return(r)

Next ==
  \/ \E r \in Resources : Handler(r) \/ Fail(r)
  \/ \E c \in Configs : BeginApply(c)
  \/ EndApply

Spec == Init /\ [][Next]_vars

\* Handlers run, and the mutex does not starve (LockIsGranted of MutexKV).
FairSpec ==
  /\ Spec
  /\ \A r \in Resources : WF_vars(Handler(r)) /\ SF_vars(LockApp(r))
  /\ WF_vars(EndApply)

-----------------------------------------------------------------------------
(* Properties. *)

\* The variables hold what their comments say, and between Lock and Unlock
\* of the application there is one operation at most.
TypeOK ==
  /\ app \in Lists
  /\ config \in [Resources -> Uris \cup {NoUri}]
  /\ id \in [Resources -> Uris \cup {NoUri}]
  /\ uri \in [Resources -> Uris \cup {NoUri}]
  /\ tainted \subseteq Resources /\ hurt \subseteq Resources
  /\ op \in [Resources -> {"none", "create", "change", "delete"}]
  /\ pc \in [Resources -> {"idle", "planned", "locked", "fetched", "done"}]
  /\ inside \in [Resources -> {App, NoApp}]
  /\ \A r \in Resources : inside[r] = App <=> pc[r] \in {"locked", "fetched", "done"}
  /\ \A r \in Resources : pc[r] = "idle" <=> op[r] = "none"
  /\ fetched \in [Resources -> Lists]
  /\ applying \in BOOLEAN /\ crossed \in BOOLEAN
  /\ applies \in 0 .. MaxApplies /\ faults \in 0 .. MaxFaults

\* No update is lost: whatever an operation read, and whatever the others
\* did meanwhile, it changes its one list by its own edit and nothing else.
NoLostUpdate ==
  [][ \A r \in Resources :
        pc[r] = "fetched" /\ pc'[r] = "done" =>
          app' = [app EXCEPT ![Kind[r]] = Effect(r, @)] ]_vars

\* Between applies every instance that never failed has its URI in the
\* application, and as long as nothing has failed the application has no
\* other URIs than these and its own.
InForce ==
  /\ \A r \in Resources \ hurt :
       id[r] = config[r] /\ (id[r] # NoUri => id[r] \in app[Kind[r]])
  /\ \A k \in Kinds :
       /\ Own \subseteq app[k]
       /\ hurt = {} => app[k] \subseteq Own \cup { id[r] : r \in Resources }

\* This is so while no URI passes from one instance to another: one that is
\* taken over in the same apply may be appended first and removed then.
UrisInForce == ~applying /\ ~crossed => InForce

\* Every apply ends: nobody waits for the mutex for ever.
AppliesEnd == applying ~> ~applying
=============================================================================

----------------------- MODULE SignOnPolicyRulesProofs -----------------------
(***************************************************************************)
(* Proofs about SignOnPolicyRules, for any names, priorities, policies and *)
(* any number of applies, failures and changes by others.                  *)
(*                                                                         *)
(* IInv has what an apply knows of the rules.  It is not inductive without *)
(* the history of repeated applies: an Update that failed half-way is      *)
(* repeated with the same configuration from a state that has taken over   *)
(* the names it had already given (Claimed).  InSync adds the priorities:  *)
(* custom rules have different ones (Distinct), so that a rule processed   *)
(* later, which has a higher one, does not shift those before (Held).      *)
(* That shifting ends at a free priority is a fact about finite sets.      *)
(***************************************************************************)
EXTENDS SignOnPolicyRules, FiniteSetTheorems, WellFoundedInduction, TLAPS

(***************************************************************************)
(* The invariant.                                                          *)
(***************************************************************************)

\* Between two applies the provider holds nothing in memory, and the phases
\* of an apply fit the Terraform state.
Phases ==
  /\ op \in {"idle", "refreshed"} =>
       /\ DOMAIN results = {}
       /\ doomed = {} /\ todo = {} /\ current = NoId
  /\ op \in {"refreshed", "update", "delete"} => managed
  /\ op = "create" => ~managed /\ doomed = {}
  /\ op # "create" => DOMAIN existing = {}
  /\ ~managed => state = {}

\* IDs are given out in order, and never twice.
Issued ==
  /\ \A i \in DOMAIN okta : i <= minted
  /\ \A i \in owned : i <= minted
  /\ \A n \in DOMAIN existing : existing[n] <= minted
  /\ \A n \in DOMAIN results : results[n].id <= minted

\* What the configuration being applied, or the last one, may ask for.
Planned ==
  /\ \A n \in DOMAIN plan : plan[n].id # SystemId /\ plan[n].id <= minted
  /\ op = "update" \/ (managed /\ outcome = "failed") =>
       \A n \in DOMAIN plan : plan[n].id # NoId => plan[n].id \in owned
  /\ CatchAll \in DOMAIN plan =>
       /\ plan[CatchAll].id = NoId
       /\ plan[CatchAll].priority = Unset
       /\ plan[CatchAll].status = "ACTIVE"
  /\ \A n, m \in DOMAIN plan :
       n # m => /\ plan[n].priority # Unset => plan[n].priority # plan[m].priority
                /\ plan[n].id # NoId => plan[n].id # plan[m].id
  /\ op = "delete" => DOMAIN plan = {}

\* The state and the memory of the provider name rules as they are; the rules
\* found by Create, until it renames them.
Recognised ==
  /\ IdsOf(state) \subseteq owned
  /\ \A s \in state : s.id = SystemId <=> s.name = CatchAll
  /\ op \in {"refreshed", "update", "delete"} =>
       \A r, s \in state : r.id = s.id \/ r.name = s.name => r = s
  /\ op = "refreshed" =>
       \A s \in state : s.id \in DOMAIN okta => okta[s.id].name = s.name
  /\ \A n, m \in DOMAIN existing : existing[n] = existing[m] => n = m
  /\ \A n \in DOMAIN existing :
       /\ existing[n] = SystemId <=> n = CatchAll
       /\ existing[n] \in DOMAIN okta /\ (\A m \in DOMAIN results : results[m].id # existing[n])
            => okta[existing[n]].name = n
  /\ \A n \in DOMAIN results :
       /\ results[n].name = n
       /\ results[n].id = SystemId <=> n = CatchAll

\* A rule of the state bears a name the configuration gives to an id only if
\* it has that id, and a rule with that id, in the state or found by Create,
\* none of its other names, through all failures of the apply.
Claimed ==
  op \in {"create", "update"} \/ outcome = "failed" =>
    \A n \in DOMAIN plan : plan[n].id # NoId =>
      /\ \A s \in state : s.name = n => s.id = plan[n].id
      /\ \A j \in DOMAIN okta \cap IdsOf(state) :
           okta[j].name = n => j = plan[n].id
      /\ IdsGiven # "reuses" =>
           /\ \A s \in state :
                s.id = plan[n].id /\ s.name \in DOMAIN plan => s.name = n
           /\ \A m \in DOMAIN existing \cap DOMAIN plan :
                existing[m] = plan[n].id => m = n
           /\ plan[n].id \in DOMAIN okta /\ okta[plan[n].id].name \in DOMAIN plan =>
                okta[plan[n].id].name = n

\* A rule of the state is to be deleted, or the plan has it, by name or id.
Covered ==
  op \in {"update", "delete"} =>
    /\ SystemId \notin doomed
    /\ doomed \subseteq IdsOf(state)
    /\ \A s \in state : s.id \in Custom =>
         \/ s.id \in doomed
         \/ s.name \in DOMAIN plan
         \/ \E n \in DOMAIN plan : plan[n].id = s.id

\* The rules processed so far.
Processing ==
  op \in {"create", "update"} =>
    /\ DOMAIN results = DOMAIN plan \ todo
    /\ \A n \in DOMAIN results : Match(n) # NoId => results[n].id = Match(n)

Tracked == owned \cap Custom \subseteq IdsOf(state)

IInv == /\ TypeOK /\ Phases /\ Issued /\ Planned /\ Recognised
        /\ Claimed /\ Covered /\ Processing /\ Tracked

\* Which rules are given their names by the ids of the configuration.
Renamed ==
  op \in {"create", "update"} =>
    \A n \in DOMAIN results :
      plan[n].id \in DOMAIN okta => okta[plan[n].id].name = n

\* No two custom rules have one priority.
Distinct == \A i, j \in Custom : okta[i].priority = okta[j].priority => i = j

\* The rules processed so far are apart from those to come: they are other
\* rules, and come first by priority.
Apart ==
  op \in {"create", "update"} =>
    /\ doomed # {} => DOMAIN results = {}
    /\ \A n, m \in DOMAIN results : results[n].id = results[m].id => n = m
    /\ \A n \in DOMAIN results, m \in todo :
         /\ Match(m) # results[n].id
         /\ \/ plan[m].priority = Unset
            \/ plan[n].priority # Unset /\ plan[n].priority < plan[m].priority

\* They are as planned, and if nobody else changes the policy, Okta has them so,
\* but for the status of the current one.
Held ==
  op \in {"create", "update"} =>
    \A n \in DOMAIN results :
      /\ results[n].body = plan[n].body
      /\ results[n].status = plan[n].status
      /\ plan[n].priority # Unset => results[n].priority = plan[n].priority
      /\ undisturbed =>
           /\ results[n].id \in DOMAIN okta
           /\ IF results[n].id = current
                THEN [okta[current] EXCEPT !.status = results[n].status] = results[n]
                ELSE okta[results[n].id] = results[n]

InSync == Distinct /\ Apart /\ Held
-----------------------------------------------------------------------------
(* Priorities. *)

LEMMA Consts == /\ CatchAll \notin Names
                /\ Priorities \subseteq Nat
                /\ \A p \in Priorities \cup {Unset} : p \in Nat
                /\ \A p \in Priorities : p # Unset
                /\ MaxRules \in Nat /\ MaxApplies \in Nat
                /\ MaxFaults \in Nat /\ MaxAdmin \in Nat
BY SignOnPolicyRulesAssumption DEF Unset

\* Of finitely many priorities some are the highest: among non-empty sets
\* Above(q), one has no smaller one below it.
FirstFrom(I, f, p, q) ==
  /\ q = p \/ \E i \in I : q = f[i] + 1
  /\ q >= p
  /\ \A i \in I : f[i] # q
  /\ \A r \in p .. q - 1 : \E i \in I : f[i] = r

LEMMA FirstFree ==
  ASSUME NEW I, IsFiniteSet(I), NEW f, \A i \in I : f[i] \in Nat, NEW p \in Nat
  PROVE  \E q \in Nat : FirstFrom(I, f, p, q)
<1> DEFINE G == { q \in {p} \cup { f[i] + 1 : i \in I } :
                    q \in Nat /\ q >= p /\ \A r \in p .. q - 1 : \E i \in I : f[i] = r }
           Above(q) == { i \in I : f[i] >= q }
           T == { Above(q) : q \in G }
           R == StrictSubsetOrdering(I)
<1>1. p \in G
  <2>1. p .. p - 1 = {} OBVIOUS
  <2> QED BY <2>1
<1>2. T \subseteq SUBSET I /\ T # {}
  <2>1. \A q : Above(q) \subseteq I OBVIOUS
  <2> HIDE DEF G, Above
  <2> QED BY <1>1, <2>1
<1>3. IsWellFoundedOn(R, SUBSET I)
  BY FS_StrictSubsetOrderingWellFounded, FS_FiniteSubsetsOfFinite
<1>4. \E x \in T : \A y \in T : << y, x >> \notin R
  <2> HIDE DEF T, R
  <2> QED BY <1>2, <1>3, WFMin
<1>5. PICK q \in G : \A y \in T : << y, Above(q) >> \notin R
  BY <1>4
<1>6. q \in Nat /\ q >= p /\ \A r \in p .. q - 1 : \E i \in I : f[i] = r
  OBVIOUS
<1>7. ASSUME NEW i \in I, f[i] = q PROVE FALSE
  <2>1. q + 1 \in G
    <3>1. \A r \in p .. (q + 1) - 1 : r \in p .. q - 1 \/ r = q BY <1>6
    <3>2. \A r \in p .. (q + 1) - 1 : \E j \in I : f[j] = r
      BY <3>1, <1>6, <1>7
    <3> QED BY <3>2, <1>6, <1>7
  <2>2. Above(q + 1) \in T BY <2>1
  <2>3. Above(q + 1) \subseteq Above(q) BY <1>6
  <2>4. i \in Above(q) /\ i \notin Above(q + 1) BY <1>6, <1>7
  <2>5. << Above(q + 1), Above(q) >> \in R
    BY <2>3, <2>4 DEF StrictSubsetOrdering
  <2> QED BY <2>2, <2>5, <1>5
<1> QED BY <1>6, <1>7 DEF FirstFrom

LEMMA Highest ==
  ASSUME NEW I, IsFiniteSet(I), NEW f, \A i \in I : f[i] \in Nat
  PROVE  \E q \in Nat : /\ q = 1 \/ \E i \in I : q = f[i] + 1
                        /\ \A i \in I : f[i] < q
<1> DEFINE G == {1} \cup { f[i] + 1 : i \in I }
           Above(q) == { i \in I : f[i] >= q }
           T == { Above(q) : q \in G }
           R == StrictSubsetOrdering(I)
<1>1. G \subseteq Nat /\ 1 \in G OBVIOUS
<1>2. T \subseteq SUBSET I /\ T # {}
  <2>1. \A q : Above(q) \subseteq I OBVIOUS
  <2> HIDE DEF G, Above
  <2> QED BY <1>1, <2>1
<1>3. IsWellFoundedOn(R, SUBSET I)
  BY FS_StrictSubsetOrderingWellFounded, FS_FiniteSubsetsOfFinite
<1>4. \E x \in T : \A y \in T : << y, x >> \notin R
  <2> HIDE DEF T, R
  <2> QED BY <1>2, <1>3, WFMin
<1>5. PICK q \in G : \A y \in T : << y, Above(q) >> \notin R
  BY <1>4
<1>6. ASSUME NEW i \in I, f[i] >= q PROVE FALSE
  <2>1. Above(f[i] + 1) \in T OBVIOUS
  <2>2. Above(f[i] + 1) \subseteq Above(q) BY <1>1, <1>6
  <2>3. i \in Above(q) /\ i \notin Above(f[i] + 1) BY <1>6
  <2>4. << Above(f[i] + 1), Above(q) >> \in R
    BY <2>2, <2>3 DEF StrictSubsetOrdering
  <2> QED BY <2>1, <2>4, <1>5
<1> QED BY <1>1, <1>6

LEMMA CustomRules ==
  ASSUME TypeOK
  PROVE  /\ \A S \in SUBSET Custom : IsFiniteSet(S)
         /\ \A i \in DOMAIN okta : okta[i].priority \in Nat
<1>1. IsFiniteSet(RuleIds)
  BY FS_Interval, Consts DEF RuleIds
<1>2. \A S \in SUBSET RuleIds : IsFiniteSet(S)
  BY <1>1, FS_Subset
<1> QED BY <1>2 DEF TypeOK, Custom, Rule

LEMMA GapIsFree ==
  ASSUME TypeOK, NEW id, NEW p \in Nat
  PROVE  /\ Gap(id, p) \in Nat /\ Gap(id, p) >= p
         /\ \A i \in Custom \ {id} : okta[i].priority # Gap(id, p)
         /\ \A r \in p .. Gap(id, p) - 1 : \E i \in Custom \ {id} : okta[i].priority = r
<1> DEFINE I == Custom \ {id}
           f == [i \in DOMAIN okta |-> okta[i].priority]
           Free(q) == /\ q >= p
                      /\ Holders(q, id) = {}
                      /\ \A r \in p .. q - 1 : Holders(r, id) # {}
           Q == {p} \cup { okta[i].priority + 1 : i \in I }
<1>1. IsFiniteSet(I) /\ \A i \in I : i \in DOMAIN okta /\ f[i] = okta[i].priority /\ f[i] \in Nat
  BY CustomRules DEF Custom
<1>2. \E q \in Nat : FirstFrom(I, f, p, q)
  <2>1. IsFiniteSet(I) BY <1>1
  <2>2. \A i \in I : f[i] \in Nat BY <1>1
  <2> HIDE DEF I, f, Free, Q
  <2> QED BY <2>1, <2>2, FirstFree
<1>3. \E q \in Q : Free(q)
  <2>1. PICK q \in Nat : FirstFrom(I, f, p, q) BY <1>2
  <2>2. q \in Q BY <1>1, <2>1 DEF FirstFrom
  <2>3. \A i \in I : okta[i].priority # q BY <1>1, <2>1 DEF FirstFrom
  <2>4. \A r \in p .. q - 1 : \E i \in I : okta[i].priority = r
    BY <1>1, <2>1 DEF FirstFrom
  <2>5. q >= p BY <2>1 DEF FirstFrom
  <2>6. Free(q) BY <2>3, <2>4, <2>5 DEF Holders
  <2> QED BY <2>2, <2>6
<1>4. Gap(id, p) \in Q /\ Free(Gap(id, p))
  <2>1. Gap(id, p) = CHOOSE q \in Q : Free(q) BY DEF Gap
  <2> HIDE DEF Q, Free
  <2> QED BY <1>3, <2>1
<1>5. \A i \in I : okta[i].priority \in Nat BY <1>1
<1>6. Gap(id, p) \in Nat
  <2> HIDE DEF Free
  <2> QED BY <1>4, <1>5
<1> QED BY <1>4, <1>6 DEF Holders

LEMMA LastIsLast ==
  ASSUME TypeOK
  PROVE  Last \in Nat /\ \A i \in Custom : okta[i].priority < Last
<1> DEFINE f == [i \in DOMAIN okta |-> okta[i].priority]
           Q == {1} \cup { okta[i].priority + 1 : i \in Custom }
           After(q) == \A i \in Custom : okta[i].priority < q
<1>1. IsFiniteSet(Custom)
      /\ \A i \in Custom : i \in DOMAIN okta /\ f[i] = okta[i].priority /\ f[i] \in Nat
  BY CustomRules DEF Custom
<1>2. \E q \in Nat : /\ q = 1 \/ \E i \in Custom : q = f[i] + 1
                   /\ \A i \in Custom : f[i] < q
  <2> HIDE DEF f
  <2> QED BY <1>1, Highest
<1>3. \E q \in Q : After(q)
  BY <1>1, <1>2
<1>4. Last \in Q /\ After(Last)
  <2>1. Last = CHOOSE q \in Q : After(q) BY DEF Last
  <2> HIDE DEF Q, After
  <2> QED BY <1>3, <2>1
<1>5. \A i \in Custom : okta[i].priority \in Nat BY <1>1
<1> HIDE DEF After
<1>6. Last \in Nat BY <1>4, <1>5
<1> QED BY <1>4, <1>6 DEF After

\* A shift only raises priorities, of those at least p, if p is taken.
LEMMA ShiftedIs ==
  ASSUME TypeOK, NEW id, NEW p \in Nat
  PROVE  /\ DOMAIN Shifted(id, p) = DOMAIN okta
         /\ \A i \in DOMAIN okta :
              \/ Shifted(id, p)[i] = okta[i]
              \/ /\ i \in Custom \ {id}
                 /\ okta[i].priority >= p
                 /\ \E j \in Custom \ {id} : okta[j].priority = p
                 /\ Shifted(id, p)[i] = [okta[i] EXCEPT !.priority = @ + 1]
<1>1. Gap(id, p) \in Nat /\ Gap(id, p) >= p
      /\ \A r \in p .. Gap(id, p) - 1 : \E i \in Custom \ {id} : okta[i].priority = r
  BY GapIsFree
<1>2. ASSUME NEW i \in Custom \ {id}, okta[i].priority \in p .. Gap(id, p) - 1
      PROVE  okta[i].priority >= p /\ \E j \in Custom \ {id} : okta[j].priority = p
  BY <1>1, <1>2
<1> HIDE DEF Custom
<1> QED BY <1>2 DEF Shifted

\* It keeps them apart, and makes room at p.
LEMMA ShiftedApart ==
  ASSUME TypeOK, Distinct, NEW id, NEW p \in Nat
  PROVE  /\ \A i, j \in Custom \ {id} :
              Shifted(id, p)[i].priority = Shifted(id, p)[j].priority => i = j
         /\ \A i \in Custom \ {id} : Shifted(id, p)[i].priority # p
<1> DEFINE g == Gap(id, p)
           moved(i) == okta[i].priority \in p .. g - 1
<1>1. /\ g \in Nat /\ g >= p
      /\ \A i \in Custom \ {id} : okta[i].priority # g
  BY GapIsFree
<1>2. \A i \in Custom \ {id} :
        /\ i \in DOMAIN okta /\ okta[i].priority \in Nat
        /\ Shifted(id, p)[i].priority =
             IF moved(i) THEN okta[i].priority + 1 ELSE okta[i].priority
  <2> SUFFICES ASSUME NEW i \in Custom \ {id}
               PROVE  /\ i \in DOMAIN okta /\ okta[i].priority \in Nat
                      /\ Shifted(id, p)[i].priority =
                           IF moved(i) THEN okta[i].priority + 1 ELSE okta[i].priority
    OBVIOUS
  <2>1. i \in DOMAIN okta /\ okta[i] \in Rule BY DEF TypeOK, Custom
  <2> QED BY <2>1 DEF Shifted, Rule
<1>3. \A i, j \in Custom \ {id} : okta[i].priority = okta[j].priority => i = j
  BY DEF Distinct
<1> HIDE DEF g
<1> QED BY <1>1, <1>2, <1>3
-----------------------------------------------------------------------------
(* What the operators return. *)

\* A rule that is at most shifted.
Alike(r, s) == /\ r \in Rule
               /\ r.id = s.id /\ r.name = s.name
               /\ r.status = s.status /\ r.body = s.body

LEMMA ShiftedAlike ==
  ASSUME TypeOK, NEW id, NEW p \in Nat, NEW j \in DOMAIN okta
  PROVE  /\ Alike(Shifted(id, p)[j], okta[j])
         /\ j = SystemId => Shifted(id, p)[j] = okta[j]
<1>1. okta[j] \in Rule BY DEF TypeOK
<1>2. \/ Shifted(id, p)[j] = okta[j]
      \/ /\ j \in Custom
         /\ Shifted(id, p)[j] = [okta[j] EXCEPT !.priority = @ + 1]
  BY ShiftedIs
<1>3. /\ okta[j].priority \in Nat
      /\ [okta[j] EXCEPT !.priority = @ + 1] \in Rule
  BY <1>1 DEF Rule
<1> QED BY <1>1, <1>2, <1>3 DEF Alike, Rule, Custom

LEMMA CreatedIs ==
  ASSUME TypeOK, NEW i \in RuleIds, NEW n \in Names \cup {CatchAll},
         NEW p \in Nat, NEW b \in Bodies
  PROVE  /\ DOMAIN Created(i, n, p, b) = DOMAIN okta \cup {i}
         /\ Created(i, n, p, b)[i] \in Rule
         /\ Created(i, n, p, b)[i] = [id |-> i, name |-> n,
              priority |-> IF p = Unset THEN Last ELSE p, status |-> "ACTIVE", body |-> b]
         /\ \A j \in DOMAIN okta \ {i} :
              /\ Alike(Created(i, n, p, b)[j], okta[j])
              /\ j = SystemId => Created(i, n, p, b)[j] = okta[j]
              /\ Created(i, n, p, b)[j] = Shifted(i, IF p = Unset THEN Last ELSE p)[j]
<1> DEFINE q == IF p = Unset THEN Last ELSE p
<1>1. q \in Nat BY LastIsLast
<1>2. DOMAIN Shifted(i, q) = DOMAIN okta BY <1>1, ShiftedIs
<1>3. \A j \in DOMAIN okta : /\ Alike(Shifted(i, q)[j], okta[j])
                             /\ j = SystemId => Shifted(i, q)[j] = okta[j]
  BY <1>1, ShiftedAlike
<1>4. Created(i, n, p, b) = Put(Shifted(i, q), i, [id |-> i, name |-> n, priority |-> q,
                                                   status |-> "ACTIVE", body |-> b])
  BY DEF Created
<1>5. [id |-> i, name |-> n, priority |-> q, status |-> "ACTIVE", body |-> b] \in Rule
  BY <1>1 DEF Rule, Statuses
<1> HIDE DEF q
<1>6. /\ DOMAIN Created(i, n, p, b) = DOMAIN okta \cup {i}
      /\ Created(i, n, p, b)[i] = [id |-> i, name |-> n, priority |-> q,
                                   status |-> "ACTIVE", body |-> b]
      /\ \A j \in DOMAIN okta \ {i} : Created(i, n, p, b)[j] = Shifted(i, q)[j]
  BY <1>2, <1>4 DEF Put
<1> QED BY <1>3, <1>5, <1>6 DEF q

LEMMA ReplacedIs ==
  ASSUME TypeOK, NEW i \in DOMAIN okta, NEW r,
         r.name \in Names \cup {CatchAll}, r.priority \in Nat, r.body \in Bodies,
         NEW p, p = IF r.priority = Unset THEN okta[i].priority ELSE r.priority,
         NEW c, c = Replaced(i, r)
  PROVE  /\ DOMAIN c = DOMAIN okta
         /\ c[i] \in Rule
         /\ c[i].id = i /\ c[i].name = r.name /\ c[i].priority = p
         /\ c[i].status = okta[i].status /\ c[i].body = r.body
         /\ \A j \in DOMAIN okta \ {i} :
              /\ Alike(c[j], okta[j])
              /\ j = SystemId => c[j] = okta[j]
              /\ i # SystemId => c[j] = Shifted(i, p)[j]
              /\ i = SystemId => c[j] = okta[j]
<1> DEFINE e == [okta[i] EXCEPT !.name = r.name, !.priority = p, !.body = r.body]
           base == IF i = SystemId THEN okta ELSE Shifted(i, p)
<1>1. \A j \in DOMAIN okta : okta[j] \in Rule /\ okta[j].id = j BY DEF TypeOK
<1>2. p \in Nat BY <1>1 DEF Rule
<1>3. /\ e \in Rule
      /\ e.id = i /\ e.name = r.name /\ e.priority = p
      /\ e.status = okta[i].status /\ e.body = r.body
  BY <1>1, <1>2 DEF Rule
<1>4. DOMAIN base = DOMAIN okta BY <1>2, ShiftedIs
<1>5. \A j \in DOMAIN okta : /\ Alike(base[j], okta[j])
                             /\ j = SystemId => base[j] = okta[j]
  BY <1>1, <1>2, ShiftedAlike DEF Alike
<1>6. c = Put(base, i, e)
  BY DEF Replaced
<1>7. /\ i # SystemId => base = Shifted(i, p)
      /\ i = SystemId => base = okta
  OBVIOUS
<1> HIDE DEF e, base
<1>8. /\ DOMAIN c = DOMAIN okta
      /\ c[i] = e
      /\ \A j \in DOMAIN okta \ {i} : c[j] = base[j]
  BY <1>4, <1>6 DEF Put
<1> QED BY <1>3, <1>5, <1>7, <1>8

\* The rule of the state by a name.
LEMMA NamedIs ==
  ASSUME NEW rules, NEW n \in NamesOf(rules)
  PROVE  Named(rules, n) \in rules /\ Named(rules, n).name = n
BY DEF NamesOf, Named

LEMMA WithIdIs ==
  ASSUME NEW rules, NEW i \in IdsOf(rules)
  PROVE  WithId(rules, i) \in rules /\ WithId(rules, i).id = i
BY DEF IdsOf, WithId

\* What a plan may ask for.
LEMMA PlansAre ==
  ASSUME TypeOK, Recognised, NEW p \in Plans
  PROVE  /\ \A n \in DOMAIN p : /\ n \in Names \cup {CatchAll}
                                /\ p[n] \in PlanRule
                                /\ p[n].id \in IdsOffered
         /\ CatchAll \in DOMAIN p => /\ p[CatchAll].id = NoId
                                     /\ p[CatchAll].priority = Unset
                                     /\ p[CatchAll].status = "ACTIVE"
         /\ \A n, m \in DOMAIN p :
              n # m => /\ p[n].priority # Unset => p[n].priority # p[m].priority
                       /\ p[n].id # NoId => p[n].id # p[m].id
         /\ \A n \in DOMAIN p : p[n].id # NoId =>
              /\ n \notin NamesOf(state)
              /\ IdsGiven = "renames" => NameOfId(p[n].id) \notin DOMAIN p \ {n}
<1> DEFINE Good(q) ==
         /\ \A n \in DOMAIN q : n \in Names /\ q[n] \in PlanRule /\ q[n].id \in IdsOffered
         /\ ValidPlan(q) /\ Renames(q)
<1>1. ASSUME NEW q \in CustomPlans PROVE Good(q)
  <2>1. PICK N \in SUBSET Names : q \in [N -> { r \in PlanRule : r.id \in IdsOffered }]
    BY <1>1 DEF CustomPlans
  <2> QED BY <1>1, <2>1 DEF CustomPlans
<1>2. CASE p \in CustomPlans
  <2>1. Good(p) BY <1>1, <1>2
  <2> QED BY <2>1, Consts DEF ValidPlan, Renames
<1>3. CASE p \notin CustomPlans
  <2> DEFINE sys(b) == [id |-> NoId, priority |-> Unset, status |-> "ACTIVE", body |-> b]
  <2>1. PICK q \in CustomPlans, b \in Bodies : p = Put(q, CatchAll, sys(b))
    <3> DEFINE All == { Put(q, CatchAll, sys(b)) : q \in CustomPlans, b \in Bodies }
    <3>1. Plans = (CustomPlans \cup All) \ {Empty} BY DEF Plans
    <3>2. p \in All
      <4> HIDE DEF All
      <4> QED BY <1>3, <3>1
    <3> HIDE DEF sys
    <3> QED BY <3>2
  <2>2. Good(q) BY <1>1
  <2>3. CatchAll \notin DOMAIN q BY <2>2, Consts
  <2>4. /\ DOMAIN p = DOMAIN q \cup {CatchAll}
        /\ p[CatchAll] = sys(b)
        /\ \A n \in DOMAIN q : p[n] = q[n]
    BY <2>1, <2>3 DEF Put
  <2>5. sys(b) \in PlanRule /\ NoId \in IdsOffered
    BY DEF PlanRule, Statuses, IdsOffered, NoId, SystemId
  <2>6. \A n \in DOMAIN p : /\ n \in Names \cup {CatchAll}
                            /\ p[n] \in PlanRule
                            /\ p[n].id \in IdsOffered
    BY <2>2, <2>4, <2>5
  <2>7. \A n, m \in DOMAIN p :
          n # m => /\ p[n].priority # Unset => p[n].priority # p[m].priority
                   /\ p[n].id # NoId => p[n].id # p[m].id
    BY <2>2, <2>4 DEF ValidPlan
  <2>8. \A n \in DOMAIN p : p[n].id # NoId => n \in DOMAIN q
    BY <2>4
  <2>9. \A n \in DOMAIN p : p[n].id # NoId =>
          /\ n \notin NamesOf(state)
          /\ IdsGiven = "renames" => NameOfId(p[n].id) \notin DOMAIN q \ {n}
    BY <2>2, <2>4, <2>8 DEF Renames
  <2>10. \A n \in DOMAIN p : p[n].id # NoId => NameOfId(p[n].id) # CatchAll
    <3> SUFFICES ASSUME NEW n \in DOMAIN p, p[n].id # NoId PROVE NameOfId(p[n].id) # CatchAll
      OBVIOUS
    <3>1. p[n].id # SystemId /\ (~managed => p[n].id \in DOMAIN okta)
          /\ (managed => p[n].id \in IdsOf(state))
      BY <2>6 DEF IdsOffered
    <3>2. CASE managed
      <4>1. WithId(state, p[n].id) \in state /\ WithId(state, p[n].id).id = p[n].id
        BY <3>1, <3>2, WithIdIs
      <4> QED BY <3>1, <3>2, <4>1 DEF Recognised, NameOfId
    <3>3. CASE ~managed
      BY <3>1, <3>3 DEF TypeOK, NameOfId
    <3> QED BY <3>2, <3>3
  <2> QED BY <2>4, <2>6, <2>7, <2>9, <2>10
<1> QED BY <1>2, <1>3
-----------------------------------------------------------------------------
(* The rule a name of the plan is applied to. *)

LEMMA MatchIs ==
  ASSUME IInv, op \in {"create", "update"}, NEW n \in DOMAIN plan
  PROVE  /\ Match(n) \in RuleIds \cup {NoId}
         /\ Match(n) <= minted
         /\ Match(n) = SystemId => n = CatchAll
         /\ op = "create" =>
              /\ plan[n].id # NoId => Match(n) = plan[n].id
              /\ plan[n].id = NoId =>
                   Match(n) = IF n \in DOMAIN existing THEN existing[n] ELSE NoId
         /\ op = "update" =>
              \/ \E s \in state : s.name = n /\ Match(n) = s.id
              \/ /\ n \notin NamesOf(state)
                 /\ plan[n].id \in IdsOf(state) /\ Match(n) = plan[n].id
              \/ /\ n \notin NamesOf(state)
                 /\ plan[n].id \notin IdsOf(state) /\ Match(n) = NoId
<1>1. /\ \A s \in state : s.id \in RuleIds /\ s.id <= minted
      /\ \A s \in state : s.id = SystemId => s.name = CatchAll
  BY DEF IInv, TypeOK, Rule, Recognised, Issued, IdsOf
<1>2. NoId <= minted
  BY DEF IInv, TypeOK, NoId
<1>3. CASE op = "create"
  <2>1. plan[n].id # SystemId /\ plan[n].id <= minted /\ plan[n].id \in RuleIds \cup {NoId}
    BY DEF IInv, TypeOK, Planned, PlanRule
  <2>2. Match(n) = IF plan[n].id # NoId THEN plan[n].id
                   ELSE IF n \in DOMAIN existing THEN existing[n] ELSE NoId
    BY <1>3 DEF Match, NameFirst
  <2>3. n \in DOMAIN existing => /\ existing[n] \in RuleIds
                                 /\ existing[n] <= minted
                                 /\ existing[n] = SystemId => n = CatchAll
    BY DEF IInv, TypeOK, Issued, Recognised
  <2> QED BY <1>2, <1>3, <2>1, <2>2, <2>3 DEF NoId, SystemId
<1>4. CASE op = "update"
  <2>1. CASE n \in NamesOf(state)
    <3>1. Match(n) = Named(state, n).id
      BY <1>4, <2>1 DEF Match, NameFirst
    <3>2. Named(state, n) \in state /\ Named(state, n).name = n
      BY <2>1, NamedIs
    <3> QED BY <1>1, <1>4, <3>1, <3>2
  <2>2. CASE n \notin NamesOf(state) /\ plan[n].id \in IdsOf(state)
    <3>1. Match(n) = plan[n].id
      BY <1>4, <2>2 DEF Match, NameFirst
    <3>2. plan[n].id # SystemId
      BY DEF IInv, Planned
    <3> QED BY <1>1, <1>4, <2>2, <3>1, <3>2 DEF IdsOf
  <2>3. CASE n \notin NamesOf(state) /\ plan[n].id \notin IdsOf(state)
    <3>1. Match(n) = NoId
      BY <1>4, <2>3 DEF Match, NameFirst
    <3> QED BY <1>2, <1>4, <2>3, <3>1 DEF NoId, SystemId
  <2> QED BY <2>1, <2>2, <2>3
<1> QED BY <1>3, <1>4

\* Rule i has been created or replaced for n.
Stepped(n, i) ==
  /\ op \in {"create", "update"} /\ doomed = {} /\ current = NoId
  /\ n \in todo
  /\ \/ Match(n) = i /\ i \in DOMAIN okta /\ minted' = minted
     \/ Match(n) = NoId /\ i \notin DOMAIN okta /\ minted' = minted + 1 /\ i = minted'
  /\ i \in RuleIds /\ (i = SystemId <=> n = CatchAll)
  /\ minted' \in 0 .. MaxRules
  /\ DOMAIN okta' = DOMAIN okta \cup {i}
  /\ okta'[i] \in Rule
  /\ okta'[i].id = i /\ okta'[i].name = n /\ okta'[i].body = plan[n].body
  /\ i = SystemId => okta'[i].priority = SystemPriority
  /\ \A j \in DOMAIN okta \ {i} : /\ Alike(okta'[j], okta[j])
                                  /\ j = SystemId => okta'[j] = okta[j]
                                  /\ okta[j].name # n
  /\ todo' = todo \ {n}
  /\ current' = IF okta'[i].status = plan[n].status THEN NoId ELSE i
  /\ DOMAIN results' = DOMAIN results \cup {n}
  /\ results'[n] = [okta'[i] EXCEPT !.status = plan[n].status]
  /\ \A m \in DOMAIN results \ {n} : results'[m] = results[m]
  /\ UNCHANGED << state, managed, plan, op, existing, doomed, outcome, owned,
                  undisturbed, applies, faults, admin >>

LEMMA ProcessedIs ==
  ASSUME NEW n, NEW i, Processed(n, i)
  PROVE  /\ DOMAIN results' = DOMAIN results \cup {n}
         /\ results'[n] = [okta'[i] EXCEPT !.status = plan[n].status]
         /\ \A m \in DOMAIN results \ {n} : results'[m] = results[m]
BY DEF Processed, Put

LEMMA CreateRuleSteps ==
  ASSUME IInv, NEW n, CreateRule(n)
  PROVE  Stepped(n, minted + 1)
<1> DEFINE i == minted + 1
           p == plan[n].priority
<1>1. /\ op \in {"create", "update"} /\ doomed = {} /\ current = NoId
      /\ n \in todo /\ n \in DOMAIN plan /\ Match(n) = NoId
      /\ minted < MaxRules /\ minted' = i
      /\ okta' = Created(i, n, p, plan[n].body)
      /\ Processed(n, i)
  BY DEF CreateRule, Ready, IInv, TypeOK
<1>2. i \in RuleIds /\ i # SystemId /\ minted' \in 0 .. MaxRules
  BY <1>1, Consts DEF IInv, TypeOK, RuleIds, SystemId
<1>3. i \notin DOMAIN okta
  BY <1>2 DEF IInv, TypeOK, Issued
<1>4. \A j \in DOMAIN okta : okta[j].name # n
  BY DEF CreateRule, NameTaken, NoId, IInv, TypeOK, RuleIds
<1>5. n # CatchAll
  BY <1>4 DEF IInv, TypeOK
<1>6. n \in Names \cup {CatchAll} /\ p \in Nat /\ plan[n].body \in Bodies
  <2>1. n \in Names \cup {CatchAll} /\ plan[n] \in PlanRule
    BY <1>1 DEF IInv, TypeOK
  <2>2. plan[n].priority \in Priorities \cup {Unset} /\ plan[n].body \in Bodies
    BY <2>1 DEF PlanRule
  <2>3. plan[n].priority \in Nat
    BY <2>2, Consts
  <2> QED BY <2>1, <2>2, <2>3
<1>7. /\ DOMAIN okta' = DOMAIN okta \cup {i}
      /\ okta'[i] \in Rule
      /\ okta'[i].id = i /\ okta'[i].name = n /\ okta'[i].body = plan[n].body
      /\ \A j \in DOMAIN okta \ {i} : /\ Alike(okta'[j], okta[j])
                                      /\ j = SystemId => okta'[j] = okta[j]
  <2>1. TypeOK BY DEF IInv
  <2> DEFINE c == Created(i, n, p, plan[n].body)
  <2> HIDE DEF i, p
  <2>2. /\ DOMAIN c = DOMAIN okta \cup {i}
        /\ c[i] \in Rule
        /\ c[i] = [id |-> i, name |-> n, priority |-> IF p = Unset THEN Last ELSE p,
                   status |-> "ACTIVE", body |-> plan[n].body]
        /\ \A j \in DOMAIN okta \ {i} : /\ Alike(c[j], okta[j])
                                        /\ j = SystemId => c[j] = okta[j]
    BY <1>2, <1>6, <2>1, CreatedIs
  <2>3. okta' = c BY <1>1
  <2> HIDE DEF c
  <2> QED BY <2>2, <2>3
<1>8. /\ DOMAIN results' = DOMAIN results \cup {n}
      /\ results'[n] = [okta'[i] EXCEPT !.status = plan[n].status]
      /\ \A m \in DOMAIN results \ {n} : results'[m] = results[m]
  <2> HIDE DEF i
  <2> QED BY <1>1, ProcessedIs
<1>9. /\ todo' = todo \ {n} /\ current' = IF okta'[i].status = plan[n].status THEN NoId ELSE i
      /\ UNCHANGED << state, managed, plan, op, existing, doomed, outcome, owned,
                      undisturbed, applies, faults, admin >>
  BY <1>1 DEF Processed
<1>10. minted' = minted + 1 BY <1>1
<1> HIDE DEF i
<1>11. Stepped(n, i)
  BY <1>10, <1>1, <1>2, <1>3, <1>4, <1>5, <1>7, <1>8, <1>9 DEF Stepped
<1> QED BY <1>11 DEF i

LEMMA PriorityForIs ==
  ASSUME IInv, op \in {"create", "update"}, NEW n \in DOMAIN plan, Match(n) # NoId
  PROVE  PriorityFor(n) \in Nat
<1>1. plan[n].priority \in Nat
  <2>1. plan[n] \in PlanRule BY DEF IInv, TypeOK
  <2>2. plan[n].priority \in Priorities \cup {Unset} /\ plan[n].body \in Bodies
    BY <2>1 DEF PlanRule
  <2>3. plan[n].priority \in Nat
    BY <2>2, Consts
  <2> QED BY <2>1, <2>2, <2>3
<1>2. CASE op = "update" /\ plan[n].id \notin {NoId, Match(n)}
  <2>1. \E s \in state : s.name = n /\ Match(n) = s.id
    BY <1>2, MatchIs
  <2>2. Match(n) \in IdsOf(state) BY <2>1 DEF IdsOf
  <2>3. WithId(state, Match(n)) \in state BY <2>2, WithIdIs
  <2>4. WithId(state, Match(n)).priority \in Nat
    BY <2>3 DEF IInv, TypeOK, Rule
  <2> QED BY <1>2, <2>4 DEF PriorityFor
<1> QED BY <1>1, <1>2 DEF PriorityFor

LEMMA UpdateRuleSteps ==
  ASSUME IInv, NEW n, UpdateRule(n)
  PROVE  Stepped(n, Match(n))
<1> DEFINE i == Match(n)
           r == Payload(n)
<1>1. /\ op \in {"create", "update"} /\ doomed = {} /\ current = NoId
      /\ n \in todo /\ n \in DOMAIN plan
      /\ i \in DOMAIN okta /\ minted' = minted
      /\ okta' = Replaced(i, r)
      /\ Processed(n, i)
      /\ ~NameTaken(r.name, i)
  BY DEF UpdateRule, Ready, IInv, TypeOK
<1>2. /\ i \in RuleIds /\ i # NoId /\ okta[i] \in Rule /\ okta[i].id = i
      /\ n \in Names \cup {CatchAll} /\ plan[n] \in PlanRule
      /\ minted' \in 0 .. MaxRules
  BY <1>1 DEF IInv, TypeOK, RuleIds, NoId
<1>3. i = SystemId => n = CatchAll
  BY <1>1, MatchIs
<1>4. r.name = n
  <2>1. i = SystemId => okta[i].name = CatchAll BY DEF IInv, TypeOK
  <2> QED BY <1>2, <1>3, <2>1 DEF Payload, IsSystem
<1>5. \A j \in DOMAIN okta \ {i} : okta[j].name # n
  BY <1>1, <1>4 DEF NameTaken
<1>6. n = CatchAll => i = SystemId
  BY <1>5 DEF IInv, TypeOK
<1>7. PriorityFor(n) \in Nat
  BY <1>1, <1>2, PriorityForIs
<1>8. r.name \in Names \cup {CatchAll} /\ r.priority \in Nat /\ r.body = plan[n].body
      /\ r.body \in Bodies
  BY <1>2, <1>4, <1>7 DEF Payload, Rule, PlanRule
<1>9. i = SystemId => r.priority = SystemPriority
  <2>1. i = SystemId => okta[i].priority = SystemPriority BY DEF IInv, TypeOK
  <2> QED BY <1>2, <2>1 DEF Payload, IsSystem
<1> DEFINE p == IF r.priority = Unset THEN okta[i].priority ELSE r.priority
<1>10. /\ DOMAIN okta' = DOMAIN okta
       /\ okta'[i] \in Rule
       /\ okta'[i].id = i /\ okta'[i].name = r.name /\ okta'[i].priority = p
       /\ okta'[i].body = r.body
       /\ \A j \in DOMAIN okta \ {i} : /\ Alike(okta'[j], okta[j])
                                       /\ j = SystemId => okta'[j] = okta[j]
  <2>1. TypeOK BY DEF IInv
  <2> HIDE DEF i, r
  <2> QED BY <1>1, <1>8, <2>1, ReplacedIs
<1>11. /\ DOMAIN results' = DOMAIN results \cup {n}
       /\ results'[n] = [okta'[i] EXCEPT !.status = plan[n].status]
       /\ \A m \in DOMAIN results \ {n} : results'[m] = results[m]
  <2> HIDE DEF i
  <2> QED BY <1>1, ProcessedIs
<1>12. /\ todo' = todo \ {n} /\ current' = IF okta'[i].status = plan[n].status THEN NoId ELSE i
       /\ UNCHANGED << state, managed, plan, op, existing, doomed, outcome, owned,
                       undisturbed, applies, faults, admin >>
  BY <1>1 DEF Processed
<1> HIDE DEF i, r
<1>13. /\ okta'[i].id = i /\ okta'[i].name = n /\ okta'[i].body = plan[n].body
       /\ i = SystemId => okta'[i].priority = SystemPriority
  BY <1>2, <1>4, <1>8, <1>9, <1>10 DEF Rule, Unset, SystemPriority
<1>14. DOMAIN okta' = DOMAIN okta \cup {i} /\ Match(n) = i
  <2>1. Match(n) = i BY DEF i
  <2> QED BY <1>1, <1>10, <2>1
<1>15. Stepped(n, i)
  BY <1>1, <1>2, <1>3, <1>5, <1>6, <1>10, <1>11, <1>12, <1>13, <1>14 DEF Stepped
<1> QED BY <1>15 DEF i
-----------------------------------------------------------------------------
(* The steps of an apply keep the invariant. *)

LEMMA SameMatch ==
  ASSUME UNCHANGED << op, plan, existing, state >>, NEW n
  PROVE  Match(n)' = Match(n)
BY DEF Match, NameFirst, Named, NamesOf, IdsOf

LEMMA SteppedKeeps ==
  ASSUME IInv, NEW n, NEW i, Stepped(n, i)
  PROVE  IInv'
<1> USE DEF SystemId, NoId
<1>1. /\ n \in DOMAIN plan /\ op \in {"create", "update"} /\ i \in RuleIds /\ i \in Int
      /\ minted \in Int /\ minted' \in Int /\ minted <= minted' /\ i <= minted'
      /\ plan[n] \in PlanRule
  <2>1. n \in DOMAIN plan /\ minted \in Int /\ minted' \in Int /\ i \in Int
        /\ i \in RuleIds
    BY Consts DEF IInv, TypeOK, Stepped, RuleIds
  <2>2. i \in DOMAIN okta => i <= minted BY DEF IInv, Issued
  <2>3. plan[n] \in PlanRule BY <2>1 DEF IInv, TypeOK
  <2> QED BY <2>1, <2>2, <2>3 DEF Stepped
<1>2. TypeOK'
  <2>1. \A j \in DOMAIN okta \ {i} :
          okta'[j] \in Rule /\ okta'[j].id = j /\ okta'[j].name = okta[j].name
    BY DEF IInv, TypeOK, Stepped, Alike
  <2>2. /\ DOMAIN okta' \subseteq RuleIds
        /\ \A j \in DOMAIN okta' : okta'[j] \in Rule /\ okta'[j].id = j
    BY <2>1, <1>1 DEF IInv, TypeOK, Stepped
  <2>3. \A j, k \in DOMAIN okta' : okta'[j].name = okta'[k].name => j = k
    BY <2>1 DEF IInv, TypeOK, Stepped
  <2>4. /\ SystemId \in DOMAIN okta'
        /\ okta'[SystemId].name = CatchAll /\ okta'[SystemId].priority = SystemPriority
    BY DEF IInv, TypeOK, Stepped
  <2>5. results'[n] \in Rule
    BY <1>1 DEF Stepped, Rule, PlanRule
  <2>6. \A m \in DOMAIN results' : m \in DOMAIN plan' /\ results'[m] \in Rule
    BY <1>1, <2>5 DEF IInv, TypeOK, Stepped
  <2> QED BY <1>1, <2>2, <2>3, <2>4, <2>6 DEF IInv, TypeOK, Stepped
<1>3. Phases'
  BY <1>1 DEF IInv, Phases, Stepped
<1>4. results'[n].id = i /\ results'[n].name = n
  BY DEF Stepped, Rule
<1>5. /\ \A j \in DOMAIN okta : j <= minted /\ j \in Int
      /\ \A j \in owned : j <= minted /\ j \in Int
      /\ \A m \in DOMAIN existing : existing[m] <= minted /\ existing[m] \in Int
      /\ \A m \in DOMAIN results : results[m].id <= minted /\ results[m].id \in Int
  BY DEF IInv, TypeOK, Issued, RuleIds, Rule
<1>a. \/ Match(n) = i /\ i \in DOMAIN okta
      \/ Match(n) = NoId /\ i = minted + 1 /\ i \notin DOMAIN okta
  BY DEF Stepped
<1>b. /\ DOMAIN okta' = DOMAIN okta \cup {i}
      /\ DOMAIN results' = DOMAIN results \cup {n}
      /\ \A m \in DOMAIN results \ {n} : results'[m] = results[m]
      /\ owned' = owned /\ existing' = existing
      /\ i = SystemId <=> n = CatchAll
  BY DEF Stepped
<1>6. Issued'
  <2>1. \A j \in DOMAIN okta' : j <= minted' BY <1>1, <1>5, <1>b
  <2>2. \A j \in owned' : j <= minted' BY <1>1, <1>5, <1>b
  <2>3. \A m \in DOMAIN existing' : existing'[m] <= minted' BY <1>1, <1>5, <1>b
  <2>4. \A m \in DOMAIN results' : results'[m].id <= minted'
    <3> SUFFICES ASSUME NEW m \in DOMAIN results' PROVE results'[m].id <= minted'
      OBVIOUS
    <3>1. CASE m = n BY <1>1, <1>4, <3>1
    <3>2. CASE m # n BY <1>1, <1>5, <1>b, <3>2
    <3> QED BY <3>1, <3>2
  <2> QED BY <2>1, <2>2, <2>3, <2>4 DEF Issued
<1>7. Planned'
  <2>1. \A m \in DOMAIN plan : plan[m].id <= minted /\ plan[m].id \in Int
    BY DEF IInv, TypeOK, Planned, PlanRule, RuleIds
  <2>2. \A m \in DOMAIN plan' : plan'[m].id <= minted'
    BY <1>1, <2>1 DEF Stepped
  <2> QED BY <2>2 DEF IInv, Planned, Stepped
<1>8. Recognised'
  <2>1. ASSUME NEW m \in DOMAIN existing, existing[m] \in DOMAIN okta',
               \A k \in DOMAIN results' : results'[k].id # existing[m]
        PROVE  okta'[existing[m]].name = m
    <3>1. op = "create" BY DEF IInv, Phases
    <3>2. existing[m] # i BY <1>4, <1>b, <2>1
    <3>3. n \notin DOMAIN results
      BY <1>1 DEF IInv, Processing, Stepped
    <3>4. \A k \in DOMAIN results : results[k].id # existing[m]
      BY <1>b, <2>1, <3>3
    <3>5. existing[m] \in DOMAIN okta BY <1>b, <2>1, <3>2
    <3>6. okta[existing[m]].name = m BY <3>4, <3>5 DEF IInv, Recognised
    <3> QED BY <3>2, <3>5, <3>6 DEF Stepped, Alike
  <2>2. \A m \in DOMAIN results' :
          /\ results'[m].name = m
          /\ results'[m].id = SystemId <=> m = CatchAll
    <3> SUFFICES ASSUME NEW m \in DOMAIN results'
                 PROVE  /\ results'[m].name = m
                        /\ results'[m].id = SystemId <=> m = CatchAll
      OBVIOUS
    <3>1. CASE m = n BY <1>4, <1>b, <3>1
    <3>2. CASE m # n BY <1>b, <3>2 DEF IInv, Recognised
    <3> QED BY <3>1, <3>2
  <2> QED BY <1>1, <2>1, <2>2 DEF IInv, Recognised, Stepped, IdsOf
<1>9. /\ i <= minted => Match(n) = i /\ i \in DOMAIN okta
      /\ i \in owned \cup IdsOf(state) => Match(n) = i /\ i \in DOMAIN okta
  <2>1. IdsOf(state) \subseteq owned BY DEF IInv, Recognised
  <2> QED BY <1>1, <1>5, <1>a, <2>1
<1>c. \A m \in DOMAIN plan : plan[m].id <= minted BY DEF IInv, Planned
<1>10. Claimed'
  <2>1. CASE op = "create"
    <3>0. state = {} BY <2>1 DEF IInv, Phases
    <3> SUFFICES ASSUME NEW m \in DOMAIN plan, plan[m].id # NoId, IdsGiven # "reuses",
                        plan[m].id \in DOMAIN okta',
                        okta'[plan[m].id].name \in DOMAIN plan
                 PROVE  okta'[plan[m].id].name = m
      BY <2>1, <3>0 DEF IInv, Claimed, Stepped, IdsOf
    <3>1. CASE plan[m].id = i
      <4>1. Match(n) = i BY <1>9, <1>c, <3>1
      <4>2. n = m
        <5>1. Match(n) = IF plan[n].id # NoId THEN plan[n].id
                         ELSE IF n \in DOMAIN existing THEN existing[n] ELSE NoId
          BY <1>1, <2>1, MatchIs
        <5>2. CASE plan[n].id # NoId
          BY <1>1, <3>1, <4>1, <5>1, <5>2 DEF IInv, Planned
        <5>3. CASE plan[n].id = NoId
          <6>1. n \in DOMAIN existing /\ existing[n] = plan[m].id
            BY <3>1, <4>1, <5>1, <5>3
          <6> QED BY <1>1, <2>1, <6>1 DEF IInv, Claimed
        <5> QED BY <5>2, <5>3
      <4> QED BY <3>1, <4>2 DEF Stepped
    <3>2. CASE plan[m].id # i
      BY <2>1, <3>2 DEF IInv, Claimed, Stepped, Alike
    <3> QED BY <3>1, <3>2
  <2>2. CASE op = "update"
    <3> SUFFICES ASSUME NEW m \in DOMAIN plan, plan[m].id # NoId
        PROVE  /\ \A j \in DOMAIN okta' \cap IdsOf(state) :
                    okta'[j].name = m => j = plan[m].id
               /\ (/\ IdsGiven # "reuses"
                   /\ plan[m].id \in DOMAIN okta'
                   /\ okta'[plan[m].id].name \in DOMAIN plan) =>
                    okta'[plan[m].id].name = m
      BY <2>2 DEF IInv, Phases, Claimed, Stepped, IdsOf
    <3>1. ASSUME NEW j \in DOMAIN okta' \cap IdsOf(state), okta'[j].name = m
          PROVE  j = plan[m].id
      <4>1. CASE j = i
        <5>1. n = m /\ Match(n) = i BY <1>9, <3>1, <4>1 DEF Stepped
        <5>2. \/ \E s \in state : s.name = n /\ Match(n) = s.id
              \/ Match(n) = plan[n].id
              \/ Match(n) = NoId
          BY <1>1, <2>2, MatchIs
        <5>3. i # NoId BY <1>1, Consts DEF RuleIds
        <5> QED BY <2>2, <4>1, <5>1, <5>2, <5>3 DEF IInv, Claimed
      <4>2. CASE j # i
        BY <2>2, <3>1, <4>2 DEF IInv, Claimed, Stepped, Alike
      <4> QED BY <4>1, <4>2
    <3>2. ASSUME IdsGiven # "reuses", plan[m].id \in DOMAIN okta',
                 okta'[plan[m].id].name \in DOMAIN plan
          PROVE  okta'[plan[m].id].name = m
      <4>2. CASE plan[m].id = i
        <5>1. Match(n) = i BY <1>9, <1>c, <4>2
        <5>2. \/ \E s \in state : s.name = n /\ Match(n) = s.id
              \/ Match(n) = plan[n].id
              \/ Match(n) = NoId
          BY <1>1, <2>2, MatchIs
        <5>3. i # NoId BY <1>1, Consts DEF RuleIds
        <5>4. CASE \E s \in state : s.name = n /\ Match(n) = s.id
          <6>1. n = m
            BY <1>1, <2>2, <3>2, <4>2, <5>1, <5>4 DEF IInv, Claimed
          <6> QED BY <4>2, <6>1 DEF Stepped
        <5>5. CASE Match(n) = plan[n].id
          <6>1. n = m
            BY <1>1, <4>2, <5>1, <5>5 DEF IInv, Planned
          <6> QED BY <4>2, <6>1 DEF Stepped
        <5> QED BY <5>1, <5>2, <5>3, <5>4, <5>5
      <4>3. CASE plan[m].id # i
        BY <2>2, <3>2, <4>3 DEF IInv, Claimed, Stepped, Alike
      <4> QED BY <4>2, <4>3
    <3> QED BY <3>1, <3>2
  <2> QED BY <1>1, <2>1, <2>2
<1>11. Covered'
  <2>1. \A s \in state : s.id \in DOMAIN okta' => s.id \in DOMAIN okta
    BY <1>9 DEF Stepped, IdsOf
  <2> QED BY <2>1 DEF IInv, Covered, Custom, Stepped, IdsOf
<1>12. Processing'
  <2>1. \A m : Match(m)' = Match(m) BY SameMatch DEF Stepped
  <2>2. DOMAIN results' = DOMAIN plan' \ todo'
    BY <1>1 DEF IInv, Processing, Stepped
  <2>3. Match(n) # NoId => results'[n].id = Match(n)
    BY <1>4 DEF Stepped
  <2>4. ASSUME NEW m \in DOMAIN results', Match(m) # NoId
        PROVE  results'[m].id = Match(m)
    <3>1. CASE m = n BY <2>3, <2>4, <3>1
    <3>2. CASE m # n BY <1>1, <1>b, <2>4, <3>2 DEF IInv, Processing
    <3> QED BY <3>1, <3>2
  <2>5. op' = op BY DEF Stepped
  <2> QED BY <2>1, <2>2, <2>4, <2>5 DEF Processing
<1>13. Tracked'
  BY <1>9 DEF IInv, Tracked, Custom, Stepped, IdsOf
<1> QED BY <1>2, <1>3, <1>6, <1>7, <1>8, <1>10, <1>11, <1>12, <1>13 DEF IInv
LEMMA DeleteRuleKeeps ==
  ASSUME IInv, NEW i, DeleteRule(i)
  PROVE  IInv'
<1>1. /\ op \in {"update", "delete"} /\ i \in doomed /\ i # SystemId
      /\ DOMAIN okta' = DOMAIN okta \ {i}
      /\ \A j \in DOMAIN okta \ {i} : okta'[j] = okta[j]
      /\ doomed' = doomed \ {i}
      /\ UNCHANGED << state, managed, plan, op, existing, todo, current, results,
                      outcome, owned, undisturbed, minted, applies, faults, admin >>
  BY DEF DeleteRule, Without, IInv, Covered, counters
<1>2. TypeOK'
  BY <1>1 DEF IInv, TypeOK
<1>3. Phases' /\ Issued' /\ Planned' /\ Recognised'
  BY <1>1 DEF IInv, Phases, Issued, Planned, Recognised, IdsOf
<1>4. Claimed'
  BY <1>1 DEF IInv, Claimed, IdsOf
<1>5. Covered' /\ Tracked'
  BY <1>1 DEF IInv, Covered, Tracked, Custom, IdsOf
<1>6. Processing'
  <2>1. \A m : Match(m)' = Match(m) BY <1>1, SameMatch
  <2> QED BY <1>1, <2>1 DEF IInv, Processing
<1> QED BY <1>2, <1>3, <1>4, <1>5, <1>6 DEF IInv

LEMMA FailedKeeps ==
  ASSUME IInv, Working, Return("failed"), UNCHANGED << state, managed, owned >>,
         faults' \in 0 .. MaxFaults
  PROVE  IInv'
<1>1. /\ op \in {"create", "update", "delete"}
      /\ op' = "idle" /\ outcome' = "failed"
      /\ DOMAIN existing' = {} /\ doomed' = {} /\ todo' = {} /\ current' = NoId
      /\ DOMAIN results' = {}
      /\ UNCHANGED << okta, plan, state, managed, owned, undisturbed, minted, applies, admin >>
  BY DEF Working, Return, Empty
<1>2. TypeOK'
  BY <1>1 DEF IInv, TypeOK
<1>3. Phases' /\ Issued' /\ Recognised'
  BY <1>1 DEF IInv, Phases, Issued, Recognised, IdsOf
<1>a. Planned'
  <2>1. CASE op = "create" BY <1>1, <2>1 DEF IInv, Phases, Planned
  <2>2. CASE op = "update" BY <1>1, <2>2 DEF IInv, Planned
  <2>3. CASE op = "delete" BY <1>1, <2>3 DEF IInv, Planned
  <2> QED BY <1>1, <2>1, <2>2, <2>3
<1>4. Claimed'
  <2>1. CASE op \in {"create", "update"}
    BY <1>1, <2>1 DEF IInv, Claimed, IdsOf
  <2>2. CASE op = "delete"
    <3>1. DOMAIN plan = {} BY <2>2 DEF IInv, Planned
    <3> QED BY <1>1, <3>1 DEF Claimed
  <2> QED BY <1>1, <2>1, <2>2
<1>5. Covered' /\ Tracked' /\ Processing'
  BY <1>1 DEF IInv, Covered, Tracked, Processing, Custom, IdsOf
<1> QED BY <1>2, <1>3, <1>4, <1>5, <1>a DEF IInv

LEMMA SyncStatusKeeps ==
  ASSUME IInv, NEW n, SyncStatus(n)
  PROVE  IInv'
<1>1. /\ op \in {"create", "update"} /\ current \in DOMAIN okta
      /\ n \in DOMAIN results /\ results[n].id = current
      /\ okta' = [okta EXCEPT ![current].status = results[n].status]
      /\ current' = NoId
      /\ UNCHANGED << state, managed, plan, op, existing, doomed, todo, results,
                      outcome, owned, undisturbed, minted, applies, faults, admin >>
  BY DEF SyncStatus, counters
<1>2. /\ DOMAIN okta' = DOMAIN okta
      /\ \A j \in DOMAIN okta : /\ okta'[j] \in Rule /\ okta'[j].id = okta[j].id
                                /\ okta'[j].name = okta[j].name
                                /\ okta'[j].priority = okta[j].priority
  <2>1. results[n].status \in Statuses BY <1>1 DEF IInv, TypeOK, Rule
  <2>2. \A j \in DOMAIN okta : okta[j] \in Rule BY DEF IInv, TypeOK
  <2> QED BY <1>1, <2>1, <2>2 DEF Rule
<1>3. TypeOK'
  BY <1>1, <1>2 DEF IInv, TypeOK
<1>4. Phases' /\ Issued' /\ Planned' /\ Recognised'
  BY <1>1, <1>2 DEF IInv, Phases, Issued, Planned, Recognised, IdsOf
<1>5. Claimed'
  BY <1>1, <1>2 DEF IInv, Claimed, IdsOf
<1>6. Covered' /\ Tracked'
  BY <1>1, <1>2 DEF IInv, Covered, Tracked, Custom, IdsOf
<1>7. Processing'
  <2>1. \A m : Match(m)' = Match(m) BY <1>1, SameMatch
  <2> QED BY <1>1, <2>1 DEF IInv, Processing
<1> QED BY <1>3, <1>4, <1>5, <1>6, <1>7 DEF IInv

\* What a good end puts into the state.
LEMMA FinishIs ==
  ASSUME IInv, Finish
  PROVE  /\ op \in {"create", "update"}
         /\ DOMAIN results = DOMAIN plan
         /\ state' = { results[n] : n \in DOMAIN plan }
         /\ op' = "idle" /\ outcome' = "applied" /\ managed' = TRUE
         /\ owned' = owned \cup { results[n].id : n \in DOMAIN plan }
         /\ doomed = {} /\ todo = {} /\ current = NoId
         /\ DOMAIN existing' = {} /\ doomed' = {} /\ todo' = {} /\ current' = NoId
         /\ DOMAIN results' = {}
         /\ UNCHANGED << okta, plan, undisturbed, minted, applies, faults, admin >>
<1>1. /\ op \in {"create", "update"} /\ doomed = {} /\ todo = {} /\ current = NoId
      /\ state' = { r \in Rules(results) : r.name \in DOMAIN plan }
      /\ managed' = TRUE /\ owned' = owned \cup IdsOf(state')
      /\ op' = "idle" /\ outcome' = "applied"
      /\ DOMAIN existing' = {} /\ doomed' = {} /\ todo' = {} /\ current' = NoId
      /\ DOMAIN results' = {}
      /\ UNCHANGED << okta, plan, undisturbed, minted, applies, faults, admin >>
  BY DEF Finish, Return, Empty
<1>2. DOMAIN results = DOMAIN plan
  BY <1>1 DEF IInv, Processing
<1>3. \A n \in DOMAIN plan : results[n].name = n
  BY <1>2 DEF IInv, Recognised
<1>4. state' = { results[n] : n \in DOMAIN plan }
  BY <1>1, <1>2, <1>3 DEF Rules
<1>5. IdsOf(state') = { results[n].id : n \in DOMAIN plan }
  BY <1>4 DEF IdsOf
<1> QED BY <1>1, <1>2, <1>4, <1>5

LEMMA FinishKeeps ==
  ASSUME IInv, Finish
  PROVE  IInv'
<1>1. /\ op \in {"create", "update"}
      /\ DOMAIN results = DOMAIN plan
      /\ state' = { results[n] : n \in DOMAIN plan }
      /\ op' = "idle" /\ outcome' = "applied" /\ managed' = TRUE
      /\ owned' = owned \cup { results[n].id : n \in DOMAIN plan }
      /\ doomed = {} /\ todo = {}
      /\ DOMAIN existing' = {} /\ doomed' = {} /\ todo' = {} /\ current' = NoId
      /\ DOMAIN results' = {}
      /\ UNCHANGED << okta, plan, undisturbed, minted, applies, faults, admin >>
  BY FinishIs
<1>2. \A n \in DOMAIN plan : /\ results[n] \in Rule /\ results[n].id \in RuleIds
                             /\ results[n].name = n /\ results[n].id <= minted
                             /\ results[n].id = SystemId <=> n = CatchAll
  BY <1>1 DEF IInv, TypeOK, Recognised, Issued, Rule
<1>3. TypeOK'
  <2>1. state' \subseteq Rule BY <1>1, <1>2
  <2>2. owned' \subseteq RuleIds BY <1>1, <1>2 DEF IInv, TypeOK
  <2> QED BY <1>1, <2>1, <2>2 DEF IInv, TypeOK
<1>4. Phases' /\ Planned'
  BY <1>1 DEF IInv, Phases, Planned
<1>5. Issued'
  BY <1>1, <1>2 DEF IInv, Issued
<1>6. Recognised'
  <2>1. IdsOf(state') \subseteq owned' BY <1>1 DEF IdsOf
  <2>2. \A s \in state' : s.id = SystemId <=> s.name = CatchAll
    BY <1>1, <1>2
  <2> QED BY <1>1, <2>1, <2>2 DEF Recognised
<1>7. Tracked'
  <2> SUFFICES ASSUME NEW i \in owned' \cap Custom PROVE i \in IdsOf(state')
    BY <1>1 DEF Tracked, Custom
  <2>1. CASE i \in { results[n].id : n \in DOMAIN plan }
    BY <1>1, <2>1 DEF IdsOf
  <2>2. CASE i \in owned
    <3>1. i \in IdsOf(state) BY <2>2 DEF IInv, Tracked
    <3>2. PICK s \in state : s.id = i BY <3>1 DEF IdsOf
    <3>3. op = "update" BY <1>1, <3>2 DEF IInv, Phases
    <3>4. s.name \in DOMAIN plan \/ \E n \in DOMAIN plan : plan[n].id = i
      BY <1>1, <3>2, <3>3 DEF IInv, Covered
    <3>5. i # NoId /\ i \in RuleIds
      BY <2>2, Consts DEF IInv, TypeOK, RuleIds, NoId
    <3>6. \E n \in DOMAIN plan : Match(n) = i
      <4>1. CASE s.name \in DOMAIN plan
        <5>1. \/ \E t \in state : t.name = s.name /\ Match(s.name) = t.id
              \/ s.name \notin NamesOf(state)
          BY <3>3, <4>1, MatchIs
        <5>2. s.name \in NamesOf(state) BY <3>2 DEF NamesOf
        <5> QED BY <3>2, <3>3, <4>1, <5>1, <5>2 DEF IInv, Recognised
      <4>2. ASSUME NEW n \in DOMAIN plan, plan[n].id = i PROVE Match(n) = i
        <5>1. \/ \E t \in state : t.name = n /\ Match(n) = t.id
              \/ Match(n) = plan[n].id
              \/ plan[n].id \notin IdsOf(state)
          BY <3>3, MatchIs
        <5>2. \A t \in state : t.name = n => t.id = i
          BY <3>3, <3>5, <4>2 DEF IInv, Claimed
        <5> QED BY <3>1, <4>2, <5>1, <5>2
      <4> QED BY <3>4, <4>1, <4>2
    <3>7. PICK n \in DOMAIN plan : Match(n) = i BY <3>6
    <3>8. results[n].id = i
      BY <1>1, <3>3, <3>5, <3>7 DEF IInv, Processing
    <3> QED BY <1>1, <3>8 DEF IdsOf
  <2> QED BY <1>1, <2>1, <2>2
<1>8. Claimed' /\ Covered' /\ Processing'
  BY <1>1 DEF Claimed, Covered, Processing
<1> QED BY <1>3, <1>4, <1>5, <1>6, <1>7, <1>8 DEF IInv

LEMMA FinishDeleteKeeps ==
  ASSUME IInv, FinishDelete
  PROVE  IInv'
<1>1. /\ op = "delete" /\ doomed = {}
      /\ op' = "idle" /\ outcome' = "applied" /\ managed' = FALSE /\ state' = {}
      /\ DOMAIN existing' = {} /\ doomed' = {} /\ todo' = {} /\ current' = NoId
      /\ DOMAIN results' = {}
      /\ UNCHANGED << okta, plan, owned, undisturbed, minted, applies, faults, admin >>
  BY DEF FinishDelete, Return, Empty
<1>2. DOMAIN plan = {}
  BY <1>1 DEF IInv, Planned
<1>3. TypeOK'
  BY <1>1 DEF IInv, TypeOK
<1>4. Phases' /\ Issued' /\ Planned' /\ Recognised'
  BY <1>1, <1>2 DEF IInv, Phases, Issued, Planned, Recognised, IdsOf
<1>5. owned \cap Custom = {}
  <2>1. \A s \in state : s.id \notin Custom
    BY <1>1, <1>2 DEF IInv, Covered
  <2> QED BY <2>1 DEF IInv, Tracked, IdsOf
<1>6. Tracked'
  BY <1>1, <1>5 DEF Tracked, Custom
<1>7. Claimed' /\ Covered' /\ Processing'
  BY <1>1 DEF Claimed, Covered, Processing
<1> QED BY <1>3, <1>4, <1>6, <1>7 DEF IInv
-----------------------------------------------------------------------------
(* The steps of Terraform, and those of others, keep it too. *)

LEMMA BeginIs ==
  ASSUME IInv, NEW p, Begin(p)
  PROVE  /\ applies' \in 0 .. MaxApplies
         /\ plan' = p /\ outcome' = "none" /\ todo' = DOMAIN p
         /\ UNCHANGED << okta, state, managed, current, results, owned, minted, faults, admin >>
BY Consts DEF IInv, TypeOK, Begin

LEMMA ConfiguredIs ==
  ASSUME NEW p \in Configured
  PROVE  p \in Plans \/ (p = plan /\ outcome = "failed")
<1>1. p \in Plans \/ p \in Repeatable
  <2>1. CASE applies < MaxApplies BY <2>1 DEF Configured
  <2>2. CASE ~(applies < MaxApplies) BY <2>2 DEF Configured
  <2> QED BY <2>1, <2>2
<1> QED BY <1>1 DEF Repeatable

LEMMA OfferedIs ==
  ASSUME NEW p \in Configured, IInv
  PROVE  /\ \A n \in DOMAIN p : /\ n \in Names \cup {CatchAll} /\ p[n] \in PlanRule
                                /\ p[n].id # SystemId /\ p[n].id <= minted
                                /\ managed /\ p[n].id # NoId => p[n].id \in owned
         /\ CatchAll \in DOMAIN p => /\ p[CatchAll].id = NoId
                                     /\ p[CatchAll].priority = Unset
                                     /\ p[CatchAll].status = "ACTIVE"
         /\ \A n, m \in DOMAIN p :
              n # m => /\ p[n].priority # Unset => p[n].priority # p[m].priority
                       /\ p[n].id # NoId => p[n].id # p[m].id
<1>1. CASE p \in Plans
  <2>1. \A i \in DOMAIN okta \cup IdsOf(state) \cup {NoId} : i <= minted
    BY DEF IInv, TypeOK, Recognised, Issued, NoId
  <2>2. \A i \in IdsOffered : /\ i # SystemId /\ i <= minted
                              /\ managed /\ i # NoId => i \in owned
    BY <2>1 DEF IInv, Recognised, IdsOffered, NoId, SystemId
  <2>3. TypeOK /\ Recognised BY DEF IInv
  <2> QED BY <1>1, <2>2, <2>3, PlansAre
<1>2. CASE p = plan /\ outcome = "failed"
  BY <1>2 DEF IInv, TypeOK, Planned
<1> QED BY <1>1, <1>2, ConfiguredIs

\* A rule to be adopted by its id bears no other name of the configuration.
LEMMA AdoptedBears ==
  ASSUME IInv, ~managed, NEW p \in Configured, NEW n \in DOMAIN p, p[n].id # NoId,
         IdsGiven # "reuses", p[n].id \in DOMAIN okta, okta[p[n].id].name \in DOMAIN p
  PROVE  okta[p[n].id].name = n
<1>1. CASE p \in Plans
  <2>1. /\ p[n].id \in IdsOffered
        /\ IdsGiven = "renames" => NameOfId(p[n].id) \notin DOMAIN p \ {n}
    BY <1>1, PlansAre DEF IInv
  <2>2. IdsGiven = "renames"
    BY <2>1, SignOnPolicyRulesAssumption DEF IdsOffered
  <2> QED BY <2>1, <2>2 DEF NameOfId
<1>2. CASE p = plan /\ outcome = "failed"
  BY <1>2 DEF IInv, Claimed
<1> QED BY <1>1, <1>2, ConfiguredIs

LEMMA BeginCreateKeeps ==
  ASSUME IInv, NEW p \in Configured, CreateFor(p)
  PROVE  IInv'
<1>1. /\ op = "idle" /\ ~managed /\ op' = "create"
      /\ applies' \in 0 .. MaxApplies
      /\ plan' = p /\ outcome' = "none" /\ todo' = DOMAIN p
      /\ existing' = [n \in NamesOf(Rules(okta)) |-> Named(Rules(okta), n).id]
      /\ undisturbed' = TRUE
      /\ UNCHANGED << okta, state, managed, current, results, owned, minted, faults, admin, doomed >>
  BY BeginIs DEF CreateFor
<1>2. \A n \in DOMAIN existing' :
        existing'[n] \in DOMAIN okta /\ okta[existing'[n]].name = n
  <2> SUFFICES ASSUME NEW n \in NamesOf(Rules(okta))
               PROVE  /\ Named(Rules(okta), n).id \in DOMAIN okta
                      /\ okta[Named(Rules(okta), n).id].name = n
    BY <1>1
  <2>1. Named(Rules(okta), n) \in Rules(okta) /\ Named(Rules(okta), n).name = n
    BY NamedIs
  <2>2. PICK i \in DOMAIN okta : Named(Rules(okta), n) = okta[i]
    BY <2>1 DEF Rules
  <2>3. okta[i].id = i BY DEF IInv, TypeOK
  <2> QED BY <2>1, <2>2, <2>3
<1>3. /\ DOMAIN results = {} /\ doomed = {} /\ current = NoId
  BY <1>1 DEF IInv, Phases
<1>4. TypeOK'
  <2>1. \A n \in DOMAIN existing' : existing'[n] \in RuleIds
    BY <1>2 DEF IInv, TypeOK
  <2>2. \A n \in DOMAIN plan' : n \in Names \cup {CatchAll} /\ plan'[n] \in PlanRule
    BY <1>1, OfferedIs
  <2> QED BY <1>1, <1>3, <2>1, <2>2 DEF IInv, TypeOK
<1>5. Phases'
  BY <1>1, <1>3 DEF IInv, Phases
<1>6. Issued'
  BY <1>1, <1>2 DEF IInv, Issued
<1>7. Planned'
  BY <1>1, OfferedIs DEF Planned
<1>8. Recognised'
  <2>1. \A n, m \in DOMAIN existing' : existing'[n] = existing'[m] => n = m
    BY <1>2
  <2>2. \A n \in DOMAIN existing' : existing'[n] = SystemId <=> n = CatchAll
    BY <1>2 DEF IInv, TypeOK
  <2> QED BY <1>1, <1>2, <1>3, <2>1, <2>2 DEF IInv, Recognised, IdsOf
<1>a. Claimed'
  <2>1. state = {} BY <1>1 DEF IInv, Phases
  <2>2. ASSUME IdsGiven # "reuses", NEW n \in DOMAIN p, p[n].id # NoId,
               p[n].id \in DOMAIN okta, okta[p[n].id].name \in DOMAIN p
        PROVE  okta[p[n].id].name = n
    BY <1>1, <2>2, AdoptedBears
  <2>3. ASSUME IdsGiven # "reuses", NEW n \in DOMAIN p, p[n].id # NoId,
               NEW m \in DOMAIN existing' \cap DOMAIN p, existing'[m] = p[n].id
        PROVE  m = n
    BY <1>2, <2>2, <2>3
  <2> QED BY <1>1, <2>1, <2>2, <2>3 DEF Claimed, IdsOf
<1>9. Covered' /\ Processing' /\ Tracked'
  BY <1>1, <1>3 DEF IInv, Covered, Processing, Tracked, Custom, IdsOf
<1> QED BY <1>4, <1>5, <1>6, <1>7, <1>8, <1>9, <1>a DEF IInv

LEMMA ImportKeeps ==
  ASSUME IInv, Import
  PROVE  IInv'
<1>1. /\ op = "idle" /\ ~managed
      /\ applies' \in 0 .. MaxApplies
      /\ state' = Rules(okta) /\ managed' = TRUE
      /\ owned' = owned \cup DOMAIN okta
      /\ outcome' = "none"
      /\ UNCHANGED << okta, plan, op, existing, doomed, todo, current, results,
                      undisturbed, minted, faults, admin >>
  BY Consts DEF Import, IInv, TypeOK, local
<1>2. \A i \in DOMAIN okta : okta[i] \in Rule /\ okta[i].id = i
  BY DEF IInv, TypeOK
<1>3. TypeOK'
  BY <1>1, <1>2 DEF IInv, TypeOK, Rules
<1>4. Phases' /\ Issued' /\ Planned'
  BY <1>1 DEF IInv, Phases, Issued, Planned
<1>5. Recognised'
  <2>1. \A s \in state' : s.id \in DOMAIN okta /\ okta[s.id] = s
    BY <1>1, <1>2 DEF Rules
  <2>2. \A s \in state' : s.id = SystemId <=> s.name = CatchAll
    BY <2>1 DEF IInv, TypeOK
  <2> QED BY <1>1, <2>1, <2>2 DEF IInv, Recognised, IdsOf, Phases
<1>6. Tracked'
  BY <1>1, <1>2 DEF IInv, Tracked, Custom, IdsOf, Rules
<1>7. Claimed' /\ Covered' /\ Processing'
  BY <1>1 DEF Claimed, Covered, Processing
<1> QED BY <1>3, <1>4, <1>5, <1>6, <1>7 DEF IInv

LEMMA ReadKeeps ==
  ASSUME IInv, Read
  PROVE  IInv'
<1>1. /\ op = "idle" /\ managed /\ op' = "refreshed"
      /\ state' = { okta[i] : i \in IdsOf(state) \cap DOMAIN okta }
      /\ undisturbed' = TRUE
      /\ UNCHANGED << okta, managed, plan, existing, doomed, todo, current, results,
                      outcome, owned, minted, applies, faults, admin >>
  BY DEF Read, local, counters
<1>2. \A i \in DOMAIN okta : okta[i] \in Rule /\ okta[i].id = i
  BY DEF IInv, TypeOK
<1>3. /\ \A s \in state' : s.id \in IdsOf(state) \cap DOMAIN okta /\ okta[s.id] = s
      /\ IdsOf(state') = IdsOf(state) \cap DOMAIN okta
  BY <1>1, <1>2 DEF IdsOf
<1>4. TypeOK'
  BY <1>1, <1>2 DEF IInv, TypeOK
<1>5. Phases' /\ Issued' /\ Planned'
  BY <1>1 DEF IInv, Phases, Issued, Planned
<1>6. Recognised'
  <2>1. \A s \in state' : s.id = SystemId <=> s.name = CatchAll
    BY <1>3 DEF IInv, TypeOK
  <2>2. \A r, s \in state' : r.id = s.id \/ r.name = s.name => r = s
    BY <1>3 DEF IInv, TypeOK
  <2> QED BY <1>1, <1>3, <2>1, <2>2 DEF IInv, Recognised
<1>7. Claimed'
  <2> SUFFICES ASSUME outcome = "failed", NEW n \in DOMAIN plan, plan[n].id # NoId
      PROVE  /\ \A s \in state' : s.name = n => s.id = plan[n].id
             /\ \A j \in DOMAIN okta \cap IdsOf(state') :
                  okta[j].name = n => j = plan[n].id
             /\ IdsGiven # "reuses" =>
                  /\ \A s \in state' :
                       s.id = plan[n].id /\ s.name \in DOMAIN plan => s.name = n
                  /\ plan[n].id \in DOMAIN okta /\ okta[plan[n].id].name \in DOMAIN plan =>
                       okta[plan[n].id].name = n
    BY <1>1 DEF IInv, Phases, Claimed, IdsOf
  <2> QED BY <1>3 DEF IInv, Claimed
<1>8. Tracked'
  BY <1>1, <1>3 DEF IInv, Tracked, Custom
<1>9. Covered' /\ Processing'
  BY <1>1 DEF Covered, Processing
<1> QED BY <1>4, <1>5, <1>6, <1>7, <1>8, <1>9 DEF IInv

LEMMA BeginUpdateKeeps ==
  ASSUME IInv, NEW p \in Configured, UpdateFor(p)
  PROVE  IInv'
<1>1. /\ op = "refreshed" /\ managed /\ op' = "update"
      /\ applies' \in 0 .. MaxApplies
      /\ plan' = p /\ outcome' = "none" /\ todo' = DOMAIN p
      /\ doomed' = RemovedRules(p)
      /\ UNCHANGED << okta, state, managed, current, results, owned, minted, faults, admin,
                      existing, undisturbed >>
  BY BeginIs DEF UpdateFor, Removed, IInv, Phases
<1>2. DOMAIN results = {} /\ current = NoId /\ DOMAIN existing = {}
  BY <1>1 DEF IInv, Phases
<1>3. /\ \A i \in doomed' : i \in IdsOf(state) /\ i # SystemId
      /\ \A s \in state : s.id # SystemId =>
           \/ s.id \in doomed'
           \/ s.name \in DOMAIN p
           \/ \E n \in DOMAIN p : p[n].id = s.id
  BY <1>1 DEF RemovedRules, IsSystem, IdsOf
<1>4. TypeOK'
  <2>1. doomed' \subseteq RuleIds
    BY <1>3 DEF IInv, TypeOK, Rule, IdsOf
  <2>2. \A n \in DOMAIN plan' : n \in Names \cup {CatchAll} /\ plan'[n] \in PlanRule
    BY <1>1, OfferedIs
  <2> QED BY <1>1, <1>2, <2>1, <2>2 DEF IInv, TypeOK
<1>5. Phases' /\ Issued'
  BY <1>1, <1>2 DEF IInv, Phases, Issued
<1>6. Planned'
  BY <1>1, OfferedIs DEF Planned
<1>7. Recognised'
  BY <1>1, <1>2 DEF IInv, Recognised, IdsOf
<1>8. Claimed'
  <2>1. CASE p \in Plans
    <3> SUFFICES ASSUME NEW n \in DOMAIN p, p[n].id # NoId
        PROVE  /\ \A s \in state : s.name = n => s.id = p[n].id
               /\ \A j \in DOMAIN okta \cap IdsOf(state) :
                    okta[j].name = n => j = p[n].id
               /\ IdsGiven # "reuses" =>
                    /\ \A s \in state :
                         s.id = p[n].id /\ s.name \in DOMAIN p => s.name = n
                    /\ p[n].id \in DOMAIN okta /\ okta[p[n].id].name \in DOMAIN p =>
                         okta[p[n].id].name = n
      BY <1>1, <1>2 DEF Claimed, IdsOf
    <3>1. /\ n \notin NamesOf(state)
          /\ p[n].id \in IdsOffered
          /\ IdsGiven = "renames" => NameOfId(p[n].id) \notin DOMAIN p \ {n}
      BY <2>1, PlansAre DEF IInv
    <3>2. p[n].id \in IdsOf(state) /\ IdsGiven # "none"
      BY <1>1, <3>1 DEF IdsOffered
    <3>3. \A s \in state : s.id \in DOMAIN okta => okta[s.id].name = s.name
      BY <1>1 DEF IInv, Recognised
    <3>4. \A j \in DOMAIN okta \cap IdsOf(state) : okta[j].name \in NamesOf(state)
      BY <3>3 DEF IdsOf, NamesOf
    <3>5. ASSUME IdsGiven # "reuses", NEW s \in state, s.id = p[n].id
          PROVE  s.name \notin DOMAIN p
      <4>1. IdsGiven = "renames" BY <3>2, <3>5, SignOnPolicyRulesAssumption
      <4>2. WithId(state, p[n].id) \in state /\ WithId(state, p[n].id).id = p[n].id
        BY <3>2, WithIdIs
      <4>3. s = WithId(state, p[n].id)
        BY <1>1, <3>5, <4>2 DEF IInv, Recognised
      <4>4. s.name = NameOfId(p[n].id) BY <1>1, <4>3 DEF NameOfId
      <4> QED BY <3>1, <4>1, <4>4 DEF NamesOf
    <3>6. IdsGiven # "reuses" /\ p[n].id \in DOMAIN okta =>
            okta[p[n].id].name \notin DOMAIN p
      BY <3>2, <3>3, <3>5 DEF IdsOf
    <3> QED BY <3>1, <3>4, <3>5, <3>6 DEF NamesOf
  <2>2. CASE p = plan /\ outcome = "failed"
    BY <1>1, <1>2, <2>2 DEF IInv, Claimed, IdsOf
  <2> QED BY <2>1, <2>2, ConfiguredIs
<1>9. Covered'
  <2>1. DOMAIN okta' = DOMAIN okta /\ state' = state BY <1>1
  <2> QED BY <1>1, <1>3, <2>1 DEF Covered, Custom, IdsOf
<1>10. Processing'
  BY <1>1, <1>2 DEF Processing
<1>11. Tracked'
  BY <1>1 DEF IInv, Tracked, Custom, IdsOf
<1> QED BY <1>4, <1>5, <1>6, <1>7, <1>8, <1>9, <1>10, <1>11 DEF IInv

LEMMA BeginDeleteKeeps ==
  ASSUME IInv, BeginDelete
  PROVE  IInv'
<1>1. /\ op = "refreshed" /\ managed /\ op' = "delete"
      /\ applies' \in 0 .. MaxApplies
      /\ plan' = Empty /\ outcome' = "none" /\ todo' = DOMAIN Empty
      /\ doomed' = RemovedRules(Empty)
      /\ UNCHANGED << okta, state, managed, current, results, owned, minted, faults, admin,
                      existing, undisturbed >>
  BY BeginIs DEF BeginDelete, Removed, IInv, Phases
<1>2. /\ DOMAIN results = {} /\ current = NoId /\ DOMAIN existing = {}
      /\ DOMAIN Empty = {}
  BY <1>1 DEF IInv, Phases, Empty
<1>3. doomed' = { s.id : s \in { r \in state : r.id # SystemId } }
  BY <1>1, <1>2 DEF RemovedRules, IsSystem
<1>4. TypeOK'
  <2>1. doomed' \subseteq RuleIds
    BY <1>3 DEF IInv, TypeOK, Rule
  <2> QED BY <1>1, <1>2, <2>1 DEF IInv, TypeOK
<1>5. Phases' /\ Issued'
  BY <1>1, <1>2 DEF IInv, Phases, Issued
<1>6. Planned' /\ Claimed'
  BY <1>1, <1>2 DEF IInv, Planned, Claimed, Phases
<1>7. Recognised'
  BY <1>1, <1>2 DEF IInv, Recognised, IdsOf
<1>8. Covered'
  BY <1>1, <1>3 DEF Covered, Custom, IdsOf
<1>9. Processing' /\ Tracked'
  BY <1>1 DEF IInv, Processing, Tracked, Custom, IdsOf
<1> QED BY <1>4, <1>5, <1>6, <1>7, <1>8, <1>9 DEF IInv

LEMMA NoChangesKeeps ==
  ASSUME IInv, NoChanges
  PROVE  IInv'
<1>1. /\ op = "refreshed" /\ op' = "idle" /\ outcome' = "none"
      /\ UNCHANGED << okta, state, managed, plan, existing, doomed, todo, current, results,
                      owned, undisturbed, minted, applies, faults, admin >>
  BY DEF NoChanges, local, counters
<1>2. TypeOK' /\ Phases' /\ Issued' /\ Planned'
  BY <1>1 DEF IInv, TypeOK, Phases, Issued, Planned
<1>3. Recognised'
  BY <1>1 DEF IInv, Recognised, IdsOf
<1>4. Claimed' /\ Covered' /\ Processing' /\ Tracked'
  BY <1>1 DEF IInv, Claimed, Covered, Processing, Tracked, Custom, IdsOf
<1> QED BY <1>2, <1>3, <1>4 DEF IInv

LEMMA InterferesIs ==
  ASSUME IInv, Interferes
  PROVE  /\ admin' \in 0 .. MaxAdmin /\ undisturbed' = FALSE
         /\ UNCHANGED << state, managed, plan, op, existing, doomed, todo, current, results,
                         outcome, owned, applies, faults >>
BY Consts DEF IInv, TypeOK, Interferes, local

LEMMA AdminCreateIs ==
  ASSUME IInv, NEW n \in Names, AdminCreate(n)
  PROVE  /\ minted' = minted + 1 /\ minted' \in RuleIds /\ minted' \in 0 .. MaxRules
         /\ minted' \notin DOMAIN okta /\ minted' # SystemId
         /\ \A j \in DOMAIN okta : okta[j].name # n
         /\ DOMAIN okta' = DOMAIN okta \cup {minted'}
         /\ okta'[minted'] \in Rule
         /\ okta'[minted'].id = minted' /\ okta'[minted'].name = n
         /\ \A j \in DOMAIN okta : /\ Alike(okta'[j], okta[j])
                                   /\ j = SystemId => okta'[j] = okta[j]
<1>1. minted' = minted + 1 /\ minted < MaxRules
  BY DEF AdminCreate
<1>2. minted' \in RuleIds /\ minted' \in 0 .. MaxRules /\ minted' # SystemId
  BY <1>1, Consts DEF IInv, TypeOK, RuleIds, SystemId
<1>3. minted' \notin DOMAIN okta
  BY <1>1, <1>2 DEF IInv, TypeOK, Issued, RuleIds
<1>4. \A j \in DOMAIN okta : okta[j].name # n
  BY DEF AdminCreate, NameTaken, NoId, IInv, TypeOK, RuleIds
<1>5. PICK p \in Priorities, b \in Bodies : okta' = Created(minted', n, p, b)
  BY DEF AdminCreate
<1>6. p \in Nat BY Consts
<1> DEFINE i == minted'
<1> HIDE DEF i
<1>7. i = minted' BY DEF i
<1>8. /\ DOMAIN Created(i, n, p, b) = DOMAIN okta \cup {i}
      /\ Created(i, n, p, b)[i] \in Rule
      /\ Created(i, n, p, b)[i] = [id |-> i, name |-> n,
              priority |-> IF p = Unset THEN Last ELSE p, status |-> "ACTIVE", body |-> b]
      /\ \A j \in DOMAIN okta \ {i} :
           /\ Alike(Created(i, n, p, b)[j], okta[j])
           /\ j = SystemId => Created(i, n, p, b)[j] = okta[j]
  BY <1>2, <1>6, <1>7, CreatedIs DEF IInv
<1> QED BY <1>1, <1>2, <1>3, <1>4, <1>5, <1>7, <1>8

LEMMA AdminCreateKeeps ==
  ASSUME IInv, NEW n \in Names, AdminCreate(n)
  PROVE  IInv'
<1> DEFINE i == minted'
<1>1. /\ admin' \in 0 .. MaxAdmin /\ undisturbed' = FALSE
      /\ UNCHANGED << state, managed, plan, op, existing, doomed, todo, current, results,
                      outcome, owned, applies, faults >>
  BY InterferesIs DEF AdminCreate
<1>2. /\ i = minted + 1 /\ i \in RuleIds /\ i \in 0 .. MaxRules
      /\ i \notin DOMAIN okta /\ i # SystemId
      /\ \A j \in DOMAIN okta : okta[j].name # n
      /\ DOMAIN okta' = DOMAIN okta \cup {i}
      /\ okta'[i] \in Rule /\ okta'[i].id = i /\ okta'[i].name = n
      /\ \A j \in DOMAIN okta : /\ Alike(okta'[j], okta[j])
                                /\ j = SystemId => okta'[j] = okta[j]
  BY AdminCreateIs
<1>3. n # CatchAll BY Consts
<1> HIDE DEF i
<1>a. i = minted' BY DEF i
<1>4. \A j \in DOMAIN okta : /\ okta'[j] \in Rule /\ okta'[j].id = j
                             /\ okta'[j].name = okta[j].name
  BY <1>2 DEF Alike, IInv, TypeOK
<1>5. TypeOK'
  <2>1. /\ DOMAIN okta' \subseteq RuleIds
        /\ \A j \in DOMAIN okta' : okta'[j] \in Rule /\ okta'[j].id = j
    BY <1>2, <1>4 DEF IInv, TypeOK
  <2>2. \A j, k \in DOMAIN okta' : okta'[j].name = okta'[k].name => j = k
    BY <1>2, <1>4 DEF IInv, TypeOK
  <2>3. /\ SystemId \in DOMAIN okta'
        /\ okta'[SystemId].name = CatchAll /\ okta'[SystemId].priority = SystemPriority
    BY <1>2 DEF IInv, TypeOK
  <2> QED BY <1>1, <1>2, <1>a, <2>1, <2>2, <2>3 DEF IInv, TypeOK
<1>6. /\ \A j \in owned : j # i
      /\ \A m \in DOMAIN existing : existing[m] # i
      /\ \A m \in DOMAIN plan : plan[m].id # i
  <2>1. minted \in Int /\ i > minted /\ i # NoId
    BY <1>2, Consts DEF IInv, TypeOK, NoId
  <2>2. /\ \A j \in owned : j <= minted
        /\ \A m \in DOMAIN existing : existing[m] <= minted
    BY DEF IInv, Issued
  <2>3. \A j \in owned : j # i
    BY <2>1, <2>2 DEF IInv, TypeOK, RuleIds
  <2>4. \A m \in DOMAIN existing : existing[m] # i
    BY <2>1, <2>2 DEF IInv, TypeOK, RuleIds
  <2>5. \A m \in DOMAIN plan : plan[m].id # i
    BY <2>1 DEF IInv, TypeOK, Planned, PlanRule, RuleIds
  <2> QED BY <2>3, <2>4, <2>5
<1>7. \A j \in IdsOf(state) : j # i
  BY <1>6 DEF IInv, Recognised
<1>8. Phases' /\ Planned'
  <2>1. minted \in Int /\ minted' > minted
    BY <1>2, <1>a, Consts DEF IInv, TypeOK
  <2>2. \A m \in DOMAIN plan : plan[m].id \in Int /\ plan[m].id <= minted
    BY DEF IInv, TypeOK, Planned, PlanRule, RuleIds, NoId
  <2>3. \A m \in DOMAIN plan : plan[m].id <= minted'
    BY <1>2, <1>a, <2>1, <2>2
  <2> QED BY <1>1, <2>3 DEF IInv, Phases, Planned
<1>9. Issued'
  <2>1. minted \in Int /\ i > minted
    BY <1>2, Consts DEF IInv, TypeOK
  <2>2. \A j \in DOMAIN okta : j <= i
    BY <1>2, <2>1 DEF IInv, TypeOK, Issued, RuleIds
  <2>3. \A j \in owned : j <= i
    BY <1>2, <2>1 DEF IInv, TypeOK, Issued, RuleIds
  <2>4. \A m \in DOMAIN existing : existing[m] <= i
    BY <1>2, <2>1 DEF IInv, TypeOK, Issued, RuleIds
  <2>5. \A m \in DOMAIN results : results[m].id <= i
    <3>1. \A m \in DOMAIN results : results[m].id \in RuleIds /\ results[m].id <= minted
      BY DEF IInv, TypeOK, Issued, Rule
    <3> QED BY <1>2, <2>1, <3>1 DEF RuleIds
  <2> QED BY <1>1, <1>2, <1>a, <2>1, <2>2, <2>3, <2>4, <2>5 DEF Issued
<1>10. Recognised'
  <2>1. \A m \in DOMAIN existing : existing[m] \in DOMAIN okta' =>
          /\ existing[m] \in DOMAIN okta
          /\ okta'[existing[m]].name = okta[existing[m]].name
    BY <1>2, <1>4, <1>6
  <2>2. \A s \in state : s.id \in DOMAIN okta' =>
          s.id \in DOMAIN okta /\ okta'[s.id].name = okta[s.id].name
    BY <1>2, <1>4, <1>7 DEF IdsOf
  <2> QED BY <1>1, <2>1, <2>2 DEF IInv, Recognised, IdsOf
<1>11. Claimed'
  <2>1. /\ \A j \in DOMAIN okta' \cap IdsOf(state) :
             j \in DOMAIN okta /\ okta'[j].name = okta[j].name
        /\ \A m \in DOMAIN plan : plan[m].id \in DOMAIN okta' =>
             plan[m].id \in DOMAIN okta /\ okta'[plan[m].id].name = okta[plan[m].id].name
    BY <1>2, <1>4, <1>6, <1>7
  <2> QED BY <1>1, <2>1 DEF IInv, Claimed, IdsOf
<1>12. Covered'
  <2>1. \A s \in state : s.id \in DOMAIN okta' => s.id \in DOMAIN okta
    BY <1>2, <1>7 DEF IdsOf
  <2> QED BY <1>1, <2>1 DEF IInv, Covered, Custom, IdsOf
<1>13. Processing'
  <2>1. \A m : Match(m)' = Match(m) BY <1>1, SameMatch
  <2> QED BY <1>1, <2>1 DEF IInv, Processing
<1>14. Tracked'
  BY <1>1, <1>2, <1>6 DEF IInv, Tracked, Custom, IdsOf
<1> QED BY <1>5, <1>8, <1>9, <1>10, <1>11, <1>12, <1>13, <1>14 DEF IInv

LEMMA AdminDeleteKeeps ==
  ASSUME IInv, NEW i, AdminDelete(i)
  PROVE  IInv'
<1>1. /\ admin' \in 0 .. MaxAdmin /\ undisturbed' = FALSE
      /\ i # SystemId /\ minted' = minted
      /\ DOMAIN okta' = DOMAIN okta \ {i}
      /\ \A j \in DOMAIN okta \ {i} : okta'[j] = okta[j]
      /\ UNCHANGED << state, managed, plan, op, existing, doomed, todo, current, results,
                      outcome, owned, applies, faults >>
  BY InterferesIs DEF AdminDelete, Without, Custom
<1>2. TypeOK'
  BY <1>1 DEF IInv, TypeOK
<1>3. Phases' /\ Issued' /\ Planned'
  BY <1>1 DEF IInv, Phases, Issued, Planned
<1>4. Recognised'
  BY <1>1 DEF IInv, Recognised, IdsOf
<1>5. Claimed'
  BY <1>1 DEF IInv, Claimed, IdsOf
<1>6. Covered' /\ Tracked'
  BY <1>1 DEF IInv, Covered, Tracked, Custom, IdsOf
<1>7. Processing'
  <2>1. \A m : Match(m)' = Match(m) BY <1>1, SameMatch
  <2> QED BY <1>1, <2>1 DEF IInv, Processing
<1> QED BY <1>2, <1>3, <1>4, <1>5, <1>6, <1>7 DEF IInv
-----------------------------------------------------------------------------
(* The invariant holds. *)

LEMMA InitIInv == Init => IInv
<1> SUFFICES ASSUME Init PROVE IInv
  OBVIOUS
<1>0. PICK k \in 0 .. MaxFound : \E f \in Found(k), b \in Bodies :
        /\ okta = [i \in 0 .. k |->
                     IF i = SystemId
                       THEN [id |-> i, name |-> CatchAll, priority |-> SystemPriority,
                             status |-> "ACTIVE", body |-> b]
                       ELSE [id |-> i, name |-> f[i].name, priority |-> i,
                             status |-> f[i].status, body |-> f[i].body]]
        /\ minted = k
  BY DEF Init
<1>1. PICK f \in Found(k), b \in Bodies :
        /\ okta = [i \in 0 .. k |->
                     IF i = SystemId
                       THEN [id |-> i, name |-> CatchAll, priority |-> SystemPriority,
                             status |-> "ACTIVE", body |-> b]
                       ELSE [id |-> i, name |-> f[i].name, priority |-> i,
                             status |-> f[i].status, body |-> f[i].body]]
        /\ minted = k
  BY <1>0
<1>a. /\ \A i \in 1 .. k : /\ f[i].name \in Names /\ f[i].name # CatchAll
                           /\ f[i].status \in Statuses /\ f[i].body \in Bodies
      /\ \A i, j \in 1 .. k : f[i].name = f[j].name => i = j
      /\ b \in Bodies
  BY <1>1, Consts DEF Found
<1>b. k \in Nat /\ k <= MaxRules /\ MaxRules \in Nat /\ minted = k
  BY <1>1, Consts, SignOnPolicyRulesAssumption
<1>c. /\ DOMAIN okta = 0 .. k
      /\ okta[0] = [id |-> 0, name |-> CatchAll, priority |-> SystemPriority,
                    status |-> "ACTIVE", body |-> b]
      /\ \A i \in 1 .. k : okta[i] = [id |-> i, name |-> f[i].name, priority |-> i,
                                     status |-> f[i].status, body |-> f[i].body]
  BY <1>1, <1>b DEF SystemId
<1>2. /\ DOMAIN okta \subseteq RuleIds /\ SystemId \in DOMAIN okta
      /\ \A i \in DOMAIN okta : okta[i] \in Rule /\ okta[i].id = i /\ i <= minted
      /\ \A i, j \in DOMAIN okta : okta[i].name = okta[j].name => i = j
      /\ okta[SystemId].name = CatchAll /\ okta[SystemId].priority = SystemPriority
  <2>1. \A i \in 0 .. k : i = 0 \/ i \in 1 .. k BY <1>b
  <2>2. DOMAIN okta \subseteq RuleIds /\ 0 \in DOMAIN okta /\ \A i \in DOMAIN okta : i <= minted
    BY <1>b, <1>c DEF RuleIds
  <2>3. \A i \in DOMAIN okta : okta[i] \in Rule /\ okta[i].id = i
    <3>1. okta[0] \in Rule /\ okta[0].id = 0
      <4>1. 0 \in RuleIds BY <1>b DEF RuleIds
      <4> QED BY <1>a, <1>c, <4>1 DEF Rule, SystemPriority, Statuses
    <3>2. ASSUME NEW i \in 1 .. k PROVE okta[i] \in Rule /\ okta[i].id = i
      <4>1. i \in 1 .. k BY <3>2
      <4>2. i \in RuleIds /\ i \in Nat BY <1>b, <4>1 DEF RuleIds
      <4>3. okta[i] = [id |-> i, name |-> f[i].name, priority |-> i,
                       status |-> f[i].status, body |-> f[i].body]
        BY <1>c, <4>1
      <4>4. f[i].name \in Names /\ f[i].status \in Statuses /\ f[i].body \in Bodies
        BY <1>a, <4>1
      <4> HIDE DEF Found
      <4> QED BY <4>2, <4>3, <4>4 DEF Rule
    <3>3. \A i \in DOMAIN okta : i = 0 \/ i \in 1 .. k BY <1>c, <2>1
    <3> QED BY <3>1, <3>2, <3>3
  <2>4. \A i \in 1 .. k : okta[i].name = f[i].name
    <3> SUFFICES ASSUME NEW i \in 1 .. k PROVE okta[i].name = f[i].name
      OBVIOUS
    <3>1. okta[i] = [id |-> i, name |-> f[i].name, priority |-> i,
                     status |-> f[i].status, body |-> f[i].body]
      BY <1>c
    <3> QED BY <3>1
  <2>5. okta[0].name = CatchAll /\ okta[0].priority = SystemPriority BY <1>c
  <2>6. \A i, j \in DOMAIN okta : okta[i].name = okta[j].name => i = j
    BY <1>a, <1>c, <2>1, <2>4, <2>5
  <2> QED BY <2>2, <2>3, <2>5, <2>6 DEF SystemId
<1>3. /\ state = {} /\ managed = FALSE /\ DOMAIN plan = {} /\ op = "idle"
      /\ DOMAIN existing = {} /\ doomed = {} /\ todo = {} /\ current = NoId
      /\ DOMAIN results = {}
      /\ outcome = "none" /\ owned = {} /\ undisturbed = TRUE
      /\ applies = 0 /\ faults = 0 /\ admin = 0
  BY DEF Init, Empty
<1>4. TypeOK
  <2>1. minted \in 0 .. MaxRules /\ applies \in 0 .. MaxApplies
        /\ faults \in 0 .. MaxFaults /\ admin \in 0 .. MaxAdmin
    BY <1>3, <1>b, Consts
  <2>2. current \in RuleIds \cup {NoId} BY <1>3
  <2> QED BY <1>2, <1>3, <2>1, <2>2 DEF TypeOK
<1>5. Phases /\ Issued /\ Planned /\ Recognised
  BY <1>2, <1>3 DEF Phases, Issued, Planned, Recognised, IdsOf, SystemId
<1>6. Claimed /\ Covered /\ Processing /\ Tracked
  BY <1>3 DEF Claimed, Covered, Processing, Tracked
<1> QED BY <1>4, <1>5, <1>6 DEF IInv

LEMMA StutterKeeps == IInv /\ UNCHANGED vars => IInv'
<1> SUFFICES ASSUME IInv, UNCHANGED vars PROVE IInv'
  OBVIOUS
<1>1. UNCHANGED << okta, state, managed, plan, op, existing, doomed, todo, current, results,
                   outcome, owned, undisturbed, minted, applies, faults, admin >>
  BY DEF vars, local, counters
<1>2. TypeOK' /\ Phases' /\ Issued' /\ Planned'
  BY <1>1 DEF IInv, TypeOK, Phases, Issued, Planned
<1>3. Recognised' /\ Claimed'
  BY <1>1 DEF IInv, Recognised, Claimed, IdsOf
<1>4. Covered' /\ Tracked'
  BY <1>1 DEF IInv, Covered, Tracked, Custom, IdsOf
<1>5. Processing'
  <2>1. \A m : Match(m)' = Match(m) BY <1>1, SameMatch
  <2> QED BY <1>1, <2>1 DEF IInv, Processing
<1> QED BY <1>2, <1>3, <1>4, <1>5 DEF IInv

\* An error answer leaves the number of faults as it is.
LEMMA RefusedKeeps ==
  ASSUME IInv, op \in {"create", "update"},
         Return("failed"), UNCHANGED << state, managed, owned, faults >>
  PROVE  IInv'
<1>1. Working BY DEF Working
<1>2. faults' \in 0 .. MaxFaults BY DEF IInv, TypeOK
<1> QED BY <1>1, <1>2, FailedKeeps

LEMMA FailKeeps ==
  ASSUME IInv, Fail
  PROVE  IInv'
<1>1. faults' \in 0 .. MaxFaults BY Consts DEF IInv, TypeOK, Fail
<1> QED BY <1>1, FailedKeeps DEF Fail

LEMMA ApplyKeeps ==
  ASSUME IInv, NEW n \in Names \cup {CatchAll}, Apply(n)
  PROVE  IInv'
<1>1. CASE CreateRule(n) BY <1>1, CreateRuleSteps, SteppedKeeps
<1>2. CASE UpdateRule(n) BY <1>2, UpdateRuleSteps, SteppedKeeps
<1>3. CASE RuleRefused(n) BY <1>3, RefusedKeeps DEF RuleRefused, Ready
<1>4. CASE SyncStatus(n) BY <1>4, SyncStatusKeeps
<1> QED BY <1>1, <1>2, <1>3, <1>4 DEF Apply

LEMMA NextKeeps == IInv /\ [Next]_vars => IInv'
<1> SUFFICES ASSUME IInv, [Next]_vars PROVE IInv'
  OBVIOUS
<1>1. ASSUME NEW i \in RuleIds, DeleteRule(i) PROVE IInv' BY <1>1, DeleteRuleKeeps
<1>2. ASSUME NEW n \in Names \cup {CatchAll}, Apply(n) PROVE IInv' BY <1>2, ApplyKeeps
<1>3. CASE StatusRefused BY <1>3, RefusedKeeps DEF StatusRefused
<1>4. CASE Finish BY <1>4, FinishKeeps
<1>5. CASE FinishDelete BY <1>5, FinishDeleteKeeps
<1>6. CASE BeginCreate BY <1>6, BeginCreateKeeps DEF BeginCreate
<1>7. CASE Import BY <1>7, ImportKeeps
<1>8. CASE Read BY <1>8, ReadKeeps
<1>9. CASE BeginUpdate BY <1>9, BeginUpdateKeeps DEF BeginUpdate
<1>10. CASE BeginDelete BY <1>10, BeginDeleteKeeps
<1>11. CASE NoChanges BY <1>11, NoChangesKeeps
<1>12. CASE Fail BY <1>12, FailKeeps
<1>13. ASSUME NEW n \in Names, AdminCreate(n) PROVE IInv' BY <1>13, AdminCreateKeeps
<1>14. ASSUME NEW i \in RuleIds, AdminDelete(i) PROVE IInv' BY <1>14, AdminDeleteKeeps
<1>15. CASE UNCHANGED vars BY <1>15, StutterKeeps
<1> QED BY <1>1, <1>2, <1>3, <1>4, <1>5, <1>6, <1>7, <1>8, <1>9, <1>10, <1>11, <1>12,
           <1>13, <1>14, <1>15 DEF Next, Provider, Terraform, Outside

LEMMA Invariance == Spec => []IInv
BY InitIInv, NextKeeps, PTL DEF Spec

\* The variables hold what their comments say, whatever the numbers of names,
\* rules, applies, failures and changes by others; names stay unique, and no
\* apply deletes or renames the system rule, which only the exclusion of
\* system rules in deleteRemovedRules and in the payload ensures.
THEOREM TypeCorrect == Spec => []TypeOK
<1>1. IInv => TypeOK BY DEF IInv
<1> QED BY <1>1, Invariance, PTL

\* A custom rule that was in the Terraform state and is still in Okta is in
\* the state after every successful apply, whatever failed before, whichever
\* IDs the configurations give, and whatever others did to the policy.
THEOREM NoneForgotten == Spec => []NothingForgotten
<1>1. IInv => NothingForgotten BY DEF IInv, Tracked, NothingForgotten
<1> QED BY <1>1, Invariance, PTL

-----------------------------------------------------------------------------
(* Rules that are not managed. *)

Unmanaged(i) == i \in DOMAIN okta \ (IdsOf(state) \cup IdsOf(Rules(results)))

\* What UnmanagedUntouched says of one rule.
Spared(i) ==
  /\ i \in DOMAIN okta'
  /\ \/ [okta'[i] EXCEPT !.priority = 0] = [okta[i] EXCEPT !.priority = 0]
     \/ Adopted(i)

LEMMA AlikeSpared ==
  ASSUME IInv, NEW i \in DOMAIN okta, i \in DOMAIN okta', Alike(okta'[i], okta[i])
  PROVE  Spared(i)
<1>1. okta[i] \in Rule BY DEF IInv, TypeOK
<1> QED BY <1>1 DEF Spared, Alike, Rule

LEMMA SteppedSpares ==
  ASSUME IInv, NEW n, NEW j, Stepped(n, j), NEW i, Unmanaged(i)
  PROVE  Spared(i)
<1>1. i \in DOMAIN okta /\ i \notin IdsOf(state) BY DEF Unmanaged
<1>2. CASE i # j
  BY <1>1, <1>2, AlikeSpared DEF Stepped
<1>3. CASE i = j
  <2>1. n \in DOMAIN plan /\ op \in {"create", "update"} /\ Match(n) = i /\ i # NoId
    BY <1>1, <1>3, Consts DEF Stepped, IInv, TypeOK, RuleIds, NoId
  <2>2. op = "create"
    <3>1. ASSUME op = "update" PROVE FALSE
      <4>1. Match(n) \in IdsOf(state) \/ Match(n) = NoId
        BY <2>1, <3>1, MatchIs DEF IdsOf
      <4> QED BY <1>1, <2>1, <4>1
    <3> QED BY <2>1, <3>1
  <2>3. plan[n].id = i \/ (n \in DOMAIN existing /\ existing[n] = i)
    BY <2>1, <2>2, MatchIs
  <2>4. \A m \in DOMAIN results : results[m].id # i
    BY DEF Unmanaged, IdsOf, Rules
  <2>5. plan[n].id = i \/ okta[i].name = n
    BY <1>1, <2>3, <2>4 DEF IInv, Recognised
  <2>6. i \in DOMAIN okta' BY <1>1 DEF Stepped
  <2> QED BY <2>1, <2>2, <2>5, <2>6 DEF Spared, Adopted
<1> QED BY <1>2, <1>3

LEMMA ApplySpares ==
  ASSUME IInv, NEW n, Apply(n), NEW i, Unmanaged(i)
  PROVE  Spared(i)
<1>1. CASE CreateRule(n) BY <1>1, CreateRuleSteps, SteppedSpares
<1>2. CASE UpdateRule(n) BY <1>2, UpdateRuleSteps, SteppedSpares
<1>3. CASE RuleRefused(n) BY <1>3 DEF RuleRefused, Return, Unmanaged, Spared
<1>4. CASE SyncStatus(n)
  <2>1. i \in DOMAIN okta /\ i # current
    BY <1>4 DEF Unmanaged, SyncStatus, IdsOf, Rules
  <2> QED BY <1>4, <2>1 DEF SyncStatus, Spared
<1> QED BY <1>1, <1>2, <1>3, <1>4 DEF Apply

\* Whatever an apply does, and however it ends, a rule of the policy that is
\* not in the state stays and keeps its name, body and status, unless a Create
\* adopts it by its name or by an id the configuration gives, which may be that
\* of any rule; for all policies and configurations.
THEOREM OthersSpared == Spec => UnmanagedUntouched
<1> DEFINE Untouched == admin' = admin =>
      \A i \in DOMAIN okta \ (IdsOf(state) \cup IdsOf(Rules(results))) :
          /\ i \in DOMAIN okta'
          /\ \/ [okta'[i] EXCEPT !.priority = 0] = [okta[i] EXCEPT !.priority = 0]
             \/ Adopted(i)
<1>1. IInv /\ [Next]_vars => [Untouched]_vars
  <2> SUFFICES ASSUME IInv, Next, admin' = admin, NEW i, Unmanaged(i) PROVE Spared(i)
    BY DEF Unmanaged, Spared
  <2>1. i \in DOMAIN okta BY DEF Unmanaged
  <2>2. okta' = okta => Spared(i) BY <2>1 DEF Spared
  <2>3. ASSUME NEW j \in RuleIds, DeleteRule(j) PROVE Spared(i)
    <3>1. j \in IdsOf(state) BY <2>3 DEF DeleteRule, IInv, Covered
    <3>2. i # j BY <3>1 DEF Unmanaged
    <3> QED BY <2>1, <2>3, <3>2 DEF DeleteRule, Without, Spared
  <2>4. ASSUME NEW n \in Names \cup {CatchAll}, Apply(n) PROVE Spared(i)
    BY <2>4, ApplySpares
  <2>5. CASE StatusRefused \/ Finish \/ FinishDelete
    BY <2>2, <2>5 DEF StatusRefused, Finish, FinishDelete, Return
  <2>6. CASE Terraform \/ Fail
    BY <2>2, <2>6 DEF Terraform, BeginCreate, CreateFor, Import, Read, BeginUpdate, UpdateFor,
                      BeginDelete, NoChanges, Begin, Fail, Return
  <2>7. CASE Outside
    BY <2>7 DEF Outside, AdminCreate, AdminDelete, Interferes, IInv, TypeOK
  <2> QED BY <2>3, <2>4, <2>5, <2>6, <2>7 DEF Next, Provider
<1> QED BY <1>1, Invariance, PTL DEF Spec, UnmanagedUntouched
-----------------------------------------------------------------------------
(* IDs given in the configuration. *)

Distinguished == IdsGiven # "reuses"

\* The rule whose id is given, if it is there, is the one the name goes to.
LEMMA MatchClaimed ==
  ASSUME IInv, op \in {"create", "update"}, NEW n \in DOMAIN plan, plan[n].id \in DOMAIN okta
  PROVE  Match(n) = plan[n].id
<1>1. plan[n].id # NoId /\ plan[n].id # SystemId
  BY Consts DEF IInv, TypeOK, Planned, RuleIds, NoId
<1>2. CASE op = "create"
  BY <1>1, <1>2, MatchIs
<1>3. CASE op = "update"
  <2>0. plan[n].id \in owned \cap Custom
    BY <1>1, <1>3 DEF IInv, Planned, Custom
  <2>1. plan[n].id \in IdsOf(state)
    BY <2>0 DEF IInv, Tracked
  <2>2. \/ \E s \in state : s.name = n /\ Match(n) = s.id
        \/ plan[n].id \in IdsOf(state) /\ Match(n) = plan[n].id
        \/ plan[n].id \notin IdsOf(state) /\ Match(n) = NoId
    BY <1>3, MatchIs
  <2>3. \A s \in state : s.name = n => s.id = plan[n].id
    BY <1>1, <1>3 DEF IInv, Claimed
  <2> QED BY <2>1, <2>2, <2>3
<1> QED BY <1>2, <1>3

\* A rule an id of the configuration stands for is the rule of that name only.
LEMMA MatchGiven ==
  ASSUME IInv, Distinguished, op \in {"create", "update"},
         NEW n \in DOMAIN plan, NEW m \in DOMAIN plan,
         plan[m].id # NoId, Match(n) = plan[m].id
  PROVE  n = m
<1>1. \/ op = "update" /\ \E s \in state : s.name = n /\ Match(n) = s.id
      \/ op = "create" /\ n \in DOMAIN existing /\ Match(n) = existing[n]
      \/ Match(n) = plan[n].id
      \/ Match(n) = NoId
  BY MatchIs
<1>2. ASSUME op = "update", NEW s \in state, s.name = n, Match(n) = s.id PROVE n = m
  BY <1>2 DEF IInv, Claimed, Distinguished
<1>3. CASE op = "create" /\ n \in DOMAIN existing /\ Match(n) = existing[n]
  BY <1>3 DEF IInv, Claimed, Distinguished
<1>4. CASE Match(n) = plan[n].id
  BY <1>4 DEF IInv, Planned
<1> QED BY <1>1, <1>2, <1>3, <1>4

LEMMA SteppedRenames ==
  ASSUME IInv, Distinguished, Renamed, NEW n, NEW i, Stepped(n, i)
  PROVE  Renamed'
<1>1. /\ n \in DOMAIN plan /\ op \in {"create", "update"}
      /\ DOMAIN okta' = DOMAIN okta \cup {i}
      /\ okta'[i].name = n
      /\ \A j \in DOMAIN okta \ {i} : okta'[j].name = okta[j].name
      /\ DOMAIN results' = DOMAIN results \cup {n}
      /\ DOMAIN results = DOMAIN plan \ todo /\ n \in todo
      /\ plan' = plan /\ op' = op
      /\ \/ Match(n) = i /\ i \in DOMAIN okta
         \/ Match(n) = NoId /\ i = minted + 1 /\ i \notin DOMAIN okta
  BY DEF Stepped, Alike, IInv, TypeOK, Processing
<1> SUFFICES ASSUME NEW m \in DOMAIN results', plan[m].id \in DOMAIN okta'
             PROVE  okta'[plan[m].id].name = m
  BY <1>1 DEF Renamed
<1>2. m \in DOMAIN plan BY <1>1
<1>3. plan[m].id # NoId
  BY <1>1, Consts DEF IInv, TypeOK, Stepped, RuleIds, NoId
<1>5. plan[m].id \in DOMAIN okta
  <2>1. plan[m].id <= minted /\ minted \in Int /\ plan[m].id \in Int
    BY <1>2 DEF IInv, TypeOK, Planned, PlanRule, RuleIds, NoId
  <2> QED BY <1>1, <2>1
<1>7. CASE m = n
  <2>1. Match(n) = plan[n].id BY <1>1, <1>5, <1>7, MatchClaimed
  <2> QED BY <1>1, <1>3, <1>7, <2>1
<1>8. CASE m # n
  <2>1. plan[m].id # i
    <3>1. Match(n) # plan[m].id BY <1>1, <1>2, <1>3, <1>8, MatchGiven
    <3> QED BY <1>1, <1>5, <3>1
  <2>2. okta[plan[m].id].name = m BY <1>1, <1>5, <1>8 DEF Renamed
  <2> QED BY <1>1, <1>5, <2>1, <2>2
<1> QED BY <1>7, <1>8

LEMMA ApplyRenames ==
  ASSUME IInv, Distinguished, Renamed, NEW n, Apply(n)
  PROVE  Renamed'
<1>1. CASE CreateRule(n) BY <1>1, CreateRuleSteps, SteppedRenames
<1>2. CASE UpdateRule(n) BY <1>2, UpdateRuleSteps, SteppedRenames
<1>3. CASE RuleRefused(n) BY <1>3 DEF RuleRefused, Return, Renamed
<1>4. CASE SyncStatus(n)
  <2>1. okta' = [okta EXCEPT ![current].status = results[n].status]
        /\ UNCHANGED << op, plan, results >>
    BY <1>4 DEF SyncStatus
  <2>2. DOMAIN okta' = DOMAIN okta /\ \A j \in DOMAIN okta : okta'[j].name = okta[j].name
    <3>1. \A j \in DOMAIN okta : okta[j] \in Rule BY DEF IInv, TypeOK
    <3> QED BY <2>1, <3>1 DEF Rule
  <2> QED BY <2>1, <2>2 DEF Renamed
<1> QED BY <1>1, <1>2, <1>3, <1>4 DEF Apply

LEMMA OutsideRenames ==
  ASSUME IInv, Renamed, Outside
  PROVE  Renamed'
<1>1. ASSUME NEW n \in Names, AdminCreate(n) PROVE Renamed'
  <2>1. UNCHANGED << op, plan, results >>
    BY <1>1, InterferesIs DEF AdminCreate
  <2>2. /\ DOMAIN okta' = DOMAIN okta \cup {minted'} /\ minted' = minted + 1
        /\ \A j \in DOMAIN okta : okta'[j].name = okta[j].name
    BY <1>1, AdminCreateIs DEF Alike
  <2>3. ASSUME NEW m \in DOMAIN results PROVE plan[m].id # minted + 1
    <3>1. m \in DOMAIN plan BY <2>3 DEF IInv, TypeOK
    <3>2. plan[m].id <= minted /\ plan[m].id \in Int /\ minted \in Int
      BY <3>1, Consts DEF IInv, TypeOK, Planned, PlanRule, RuleIds, NoId
    <3> QED BY <3>2
  <2> QED BY <2>1, <2>2, <2>3 DEF Renamed
<1>2. ASSUME NEW i \in RuleIds, AdminDelete(i) PROVE Renamed'
  BY <1>2 DEF AdminDelete, Interferes, local, Without, Renamed
<1> QED BY <1>1, <1>2 DEF Outside

LEMMA NextRenames == Distinguished /\ IInv /\ Renamed /\ [Next]_vars => Renamed'
<1> SUFFICES ASSUME Distinguished, IInv, Renamed, [Next]_vars PROVE Renamed'
  OBVIOUS
<1>1. ASSUME NEW i \in RuleIds, DeleteRule(i) PROVE Renamed'
  BY <1>1 DEF DeleteRule, Without, Renamed
<1>2. ASSUME NEW n \in Names \cup {CatchAll}, Apply(n) PROVE Renamed' BY <1>2, ApplyRenames
<1>3. CASE StatusRefused \/ Finish \/ FinishDelete \/ Fail
  BY <1>3 DEF StatusRefused, Finish, FinishDelete, Fail, Return, Renamed
<1>4. CASE Import \/ Read \/ BeginDelete \/ NoChanges
  BY <1>4 DEF Import, Read, BeginDelete, NoChanges, IInv, Phases, Renamed
<1>5. CASE BeginCreate \/ BeginUpdate
  BY <1>5 DEF BeginCreate, CreateFor, BeginUpdate, UpdateFor, Begin, IInv, Phases, Renamed
<1>6. CASE Outside BY <1>6, OutsideRenames
<1>7. CASE UNCHANGED vars BY <1>7 DEF vars, local, Renamed
<1> QED BY <1>1, <1>2, <1>3, <1>4, <1>5, <1>6, <1>7 DEF Next, Provider, Terraform

LEMMA FinishHonours ==
  ASSUME IInv, Renamed, Finish
  PROVE  IdHonoured'
<1>1. /\ op \in {"create", "update"} /\ DOMAIN results = DOMAIN plan
      /\ UNCHANGED << okta, plan >>
  BY FinishIs
<1> QED BY <1>1 DEF Renamed, IdHonoured

LEMMA NextHonours == IInv /\ Renamed /\ IdHonoured /\ [Next]_vars => IdHonoured'
<1> SUFFICES ASSUME IInv, Renamed, IdHonoured, [Next]_vars PROVE IdHonoured'
  OBVIOUS
<1>1. ASSUME NEW i \in RuleIds, DeleteRule(i) PROVE IdHonoured'
  BY <1>1 DEF DeleteRule, IdHonoured
<1>2. ASSUME NEW n \in Names \cup {CatchAll}, Apply(n) PROVE IdHonoured'
  BY <1>2 DEF Apply, CreateRule, UpdateRule, RuleRefused, SyncStatus, Ready, Processed,
              Return, IdHonoured
<1>3. CASE StatusRefused \/ Fail
  BY <1>3 DEF StatusRefused, Fail, Return, IdHonoured
<1>4. CASE Finish BY <1>4, FinishHonours
<1>5. CASE FinishDelete
  <2>1. DOMAIN plan = {} BY <1>5 DEF FinishDelete, IInv, Planned
  <2> QED BY <1>5, <2>1 DEF FinishDelete, Return, IdHonoured
<1>6. CASE Terraform
  BY <1>6 DEF Terraform, BeginCreate, CreateFor, Import, Read, BeginUpdate, UpdateFor,
              BeginDelete, NoChanges, Begin, IdHonoured
<1>7. CASE Outside
  BY <1>7 DEF Outside, AdminCreate, AdminDelete, Interferes, IdHonoured
<1>8. CASE UNCHANGED vars BY <1>8 DEF vars, IdHonoured
<1> QED BY <1>1, <1>2, <1>3, <1>4, <1>5, <1>6, <1>7, <1>8 DEF Next, Provider

LEMMA Renaming == Distinguished => (Spec => [](IInv /\ Renamed))
<1>1. Init => Renamed BY DEF Init, Renamed
<1>2. ASSUME Distinguished PROVE Spec => [](IInv /\ Renamed)
  <2>1. IInv /\ Renamed /\ [Next]_vars => Renamed' BY <1>2, NextRenames
  <2> QED BY <1>1, <2>1, Invariance, PTL DEF Spec
<1> QED BY <1>2

\* Where an id of the configuration goes with a name the state does not have,
\* and the old name is not given away in the same apply, the rule with that
\* id bears the new name after every successful apply, through failures and
\* repetitions.  With "reuses" the run's instance has a counterexample.
THEOREM IdsHonoured == IdsGiven # "reuses" => (Spec => []IdHonoured)
<1>1. Init => IdHonoured BY DEF Init, IdHonoured
<1>2. ASSUME IdsGiven # "reuses" PROVE Spec => []IdHonoured
  <2>1. Spec => [](IInv /\ Renamed) BY <1>2, Renaming DEF Distinguished
  <2> QED BY <1>1, <2>1, NextHonours, PTL DEF Spec
<1> QED BY <1>2
-----------------------------------------------------------------------------
(* A successful apply is in force. *)

LEMMA ShiftedQuiet ==
  ASSUME TypeOK, NEW id, NEW p \in Nat, NEW j \in DOMAIN okta,
         \/ j = SystemId
         \/ okta[j].priority < p
         \/ \A k \in Custom \ {id} : okta[k].priority # p
  PROVE  Shifted(id, p)[j] = okta[j]
<1>1. okta[j].priority \in Nat BY CustomRules
<1>2. \/ Shifted(id, p)[j] = okta[j]
      \/ /\ j \in Custom \ {id}
         /\ okta[j].priority >= p
         /\ \E k \in Custom \ {id} : okta[k].priority = p
         /\ Shifted(id, p)[j] = [okta[j] EXCEPT !.priority = @ + 1]
  BY ShiftedIs
<1> QED BY <1>1, <1>2 DEF Custom

LEMMA MatchApart ==
  ASSUME IInv, Distinguished, op \in {"create", "update"},
         NEW n \in DOMAIN plan, NEW m \in DOMAIN plan,
         Match(n) = Match(m), Match(n) # NoId
  PROVE  n = m
<1>1. CASE op = "create"
  <2>1. CASE plan[m].id # NoId
    <3>1. Match(m) = plan[m].id BY <1>1, <2>1, MatchIs
    <3> QED BY <2>1, <3>1, MatchGiven
  <2>2. CASE plan[n].id # NoId
    <3>1. Match(n) = plan[n].id BY <1>1, <2>2, MatchIs
    <3> QED BY <2>2, <3>1, MatchGiven
  <2>3. CASE plan[n].id = NoId /\ plan[m].id = NoId
    <3>1. /\ Match(n) = IF n \in DOMAIN existing THEN existing[n] ELSE NoId
          /\ Match(m) = IF m \in DOMAIN existing THEN existing[m] ELSE NoId
      BY <1>1, <2>3, MatchIs
    <3>2. \A k, l \in DOMAIN existing : existing[k] = existing[l] => k = l
      BY DEF IInv, Recognised
    <3> QED BY <3>1, <3>2
  <2> QED BY <2>1, <2>2, <2>3
<1>2. CASE op = "update"
  <2>1. /\ \/ \E s \in state : s.name = n /\ Match(n) = s.id
           \/ Match(n) = plan[n].id
        /\ \/ \E s \in state : s.name = m /\ Match(m) = s.id
           \/ Match(m) = plan[m].id
    BY <1>2, MatchIs
  <2>2. CASE Match(n) = plan[n].id
    BY <1>2, <2>2, MatchGiven
  <2>3. CASE Match(m) = plan[m].id
    BY <1>2, <2>3, MatchGiven
  <2>4. ASSUME NEW r \in state, r.name = n, Match(n) = r.id,
               NEW s \in state, s.name = m, Match(m) = s.id
        PROVE  n = m
    <3>1. \A t, u \in state : t.id = u.id => t = u
      BY <1>2 DEF IInv, Recognised
    <3> QED BY <2>4, <3>1
  <2> QED BY <2>1, <2>2, <2>3, <2>4
<1> QED BY <1>1, <1>2

\* The rules processed before, in the order of priorities, are out of the way
\* of priority p of rule i.
LEMMA ProcessedBelow ==
  ASSUME IInv, InSync, undisturbed, op \in {"create", "update"}, current = NoId,
         NEW n \in todo, plan[n].priority # Unset, IsNext(n),
         NEW m \in DOMAIN results
  PROVE  /\ results[m].id \in DOMAIN okta
         /\ results[m].id = SystemId \/ okta[results[m].id].priority < plan[n].priority
<1>1. results[m].id \in RuleIds BY DEF IInv, TypeOK, Rule
<1>2. results[m].id # current BY <1>1, Consts DEF RuleIds, NoId
<1>3. results[m].id \in DOMAIN okta /\ okta[results[m].id] = results[m]
  BY <1>2 DEF InSync, Held
<1>4. plan[m].priority # Unset /\ plan[m].priority < plan[n].priority
  BY DEF InSync, Apart
<1>5. results[m].priority = plan[m].priority
  BY <1>4 DEF InSync, Held
<1> QED BY <1>3, <1>4, <1>5

\* What the creation and the replacement of a rule add to Stepped.
Undone(n, i) ==
  /\ IsNext(n)
  /\ plan[n].priority # Unset => okta'[i].priority = plan[n].priority
  /\ Distinct'
  /\ undisturbed => \A m \in DOMAIN results :
                      results[m].id # i => okta'[results[m].id] = okta[results[m].id]

LEMMA DistinctAfter ==
  ASSUME TypeOK, Distinct, NEW i, NEW p \in Nat,
         DOMAIN okta' = DOMAIN okta \cup {i},
         okta'[i].priority = p,
         \A j \in DOMAIN okta \ {i} : okta'[j] = Shifted(i, p)[j]
  PROVE  Distinct'
<1>1. /\ \A j, k \in Custom \ {i} :
           Shifted(i, p)[j].priority = Shifted(i, p)[k].priority => j = k
      /\ \A j \in Custom \ {i} : Shifted(i, p)[j].priority # p
  BY ShiftedApart
<1>2. \A j \in (Custom)' : j # i => j \in Custom \ {i} /\ okta'[j] = Shifted(i, p)[j]
  BY DEF Custom
<1> QED BY <1>1, <1>2 DEF Distinct

LEMMA CreateRuleInSync ==
  ASSUME IInv, InSync, NEW n, CreateRule(n)
  PROVE  Undone(n, minted + 1)
<1> DEFINE i == minted + 1
           q == plan[n].priority
           p == IF q = Unset THEN Last ELSE q
<1>1. /\ op \in {"create", "update"} /\ current = NoId
      /\ n \in todo /\ n \in DOMAIN plan /\ IsNext(n)
      /\ minted < MaxRules /\ minted' = i
      /\ okta' = Created(i, n, q, plan[n].body)
  BY DEF CreateRule, Ready, IInv, TypeOK
<1>2. i \in RuleIds /\ TypeOK
  BY <1>1, Consts DEF IInv, TypeOK, RuleIds
<1>3. n \in Names \cup {CatchAll} /\ q \in Nat /\ plan[n].body \in Bodies
  <2>1. n \in Names \cup {CatchAll} /\ plan[n] \in PlanRule
    BY <1>1 DEF IInv, TypeOK
  <2>2. q \in Priorities \cup {Unset} /\ plan[n].body \in Bodies
    BY <2>1 DEF PlanRule
  <2>3. q \in Nat BY <2>2, Consts
  <2> QED BY <2>1, <2>2, <2>3
<1>4. p \in Nat BY <1>2, <1>3, LastIsLast
<1>5. /\ DOMAIN okta' = DOMAIN okta \cup {i}
      /\ okta'[i].priority = p
      /\ \A j \in DOMAIN okta \ {i} : okta'[j] = Shifted(i, p)[j]
  <2> DEFINE c == Created(i, n, q, plan[n].body)
  <2> HIDE DEF i, q
  <2>1. /\ DOMAIN c = DOMAIN okta \cup {i}
        /\ c[i] = [id |-> i, name |-> n, priority |-> IF q = Unset THEN Last ELSE q,
                   status |-> "ACTIVE", body |-> plan[n].body]
        /\ \A j \in DOMAIN okta \ {i} :
             c[j] = Shifted(i, IF q = Unset THEN Last ELSE q)[j]
    BY <1>2, <1>3, CreatedIs
  <2>2. okta' = c BY <1>1
  <2> HIDE DEF c
  <2> QED BY <2>1, <2>2
<1>6. Distinct'
  <2> HIDE DEF i, p
  <2> QED BY <1>2, <1>4, <1>5, DistinctAfter DEF InSync
<1>7. ASSUME undisturbed, NEW m \in DOMAIN results, results[m].id # i
      PROVE  okta'[results[m].id] = okta[results[m].id]
  <2> DEFINE j == results[m].id
  <2>1. j \in DOMAIN okta
    BY <1>1, <1>7 DEF InSync, Held
  <2>2. \/ j = SystemId
        \/ okta[j].priority < p
        \/ \A k \in Custom \ {i} : okta[k].priority # p
    <3>1. CASE q = Unset
      <4>1. p = Last BY <3>1
      <4>2. \A k \in Custom : okta[k].priority < Last /\ okta[k].priority \in Nat
        BY <1>2, LastIsLast, CustomRules DEF Custom
      <4> QED BY <2>1, <4>1, <4>2 DEF Custom
    <3>2. CASE q # Unset
      BY <1>1, <1>7, <3>2, ProcessedBelow
    <3> QED BY <3>1, <3>2
  <2>3. Shifted(i, p)[j] = okta[j]
    <3> HIDE DEF i, p, j
    <3> QED BY <1>2, <1>4, <2>1, <2>2, ShiftedQuiet
  <2> QED BY <1>5, <1>7, <2>1, <2>3
<1>8. q # Unset => okta'[i].priority = q
  BY <1>5
<1> HIDE DEF i
<1>9. Undone(n, i)
  BY <1>1, <1>6, <1>7, <1>8 DEF Undone
<1> QED BY <1>9 DEF i

LEMMA UpdateRuleInSync ==
  ASSUME IInv, InSync, Distinguished, NEW n, UpdateRule(n)
  PROVE  Undone(n, Match(n))
<1> DEFINE i == Match(n)
           r == Payload(n)
           p == IF r.priority = Unset THEN okta[i].priority ELSE r.priority
<1>1. /\ op \in {"create", "update"} /\ current = NoId
      /\ n \in todo /\ n \in DOMAIN plan /\ IsNext(n)
      /\ i \in DOMAIN okta
      /\ okta' = Replaced(i, r)
  BY DEF UpdateRule, Ready, IInv, TypeOK
<1>2. /\ i \in RuleIds /\ i # NoId /\ okta[i] \in Rule /\ okta[i].id = i
      /\ n \in Names \cup {CatchAll} /\ plan[n] \in PlanRule
      /\ TypeOK
  BY <1>1, Consts DEF IInv, TypeOK, RuleIds, NoId
<1>3. PriorityFor(n) = plan[n].priority
  <2>1. op = "update" /\ plan[n].id # NoId => Match(n) = plan[n].id
    <3> SUFFICES ASSUME op = "update", plan[n].id # NoId PROVE Match(n) = plan[n].id
      OBVIOUS
    <3>1. \/ \E s \in state : s.name = n /\ Match(n) = s.id
          \/ Match(n) = plan[n].id
      BY <1>1, <1>2, MatchIs
    <3> QED BY <1>1, <3>1 DEF IInv, Claimed
  <2> QED BY <2>1 DEF PriorityFor
<1>4. /\ r.name \in Names \cup {CatchAll} /\ r.body \in Bodies
      /\ i # SystemId => r.priority = plan[n].priority
      /\ i = SystemId => r.priority = okta[i].priority
  BY <1>2, <1>3 DEF Payload, IsSystem, Rule, PlanRule
<1>5. plan[n].priority \in Nat /\ r.priority \in Nat
  <2>1. plan[n].priority \in Priorities \cup {Unset} BY <1>2 DEF PlanRule
  <2>2. plan[n].priority \in Nat BY <2>1, Consts
  <2>3. okta[i].priority \in Nat BY <1>2 DEF Rule
  <2> QED BY <1>4, <2>2, <2>3
<1>6. p \in Nat BY <1>2, <1>5 DEF Rule
<1>7. /\ DOMAIN okta' = DOMAIN okta
      /\ okta'[i].priority = p
      /\ \A j \in DOMAIN okta \ {i} :
           /\ i # SystemId => okta'[j] = Shifted(i, p)[j]
           /\ i = SystemId => okta'[j] = okta[j]
  <2>1. p = IF r.priority = Unset THEN okta[i].priority ELSE r.priority OBVIOUS
  <2> HIDE DEF i, r, p
  <2> QED BY <1>1, <1>2, <1>4, <1>5, <2>1, ReplacedIs
<1>8. plan[n].priority # Unset => /\ i # SystemId
                                  /\ p = plan[n].priority
  <2>1. i = SystemId => n = CatchAll BY <1>1, MatchIs
  <2>2. n = CatchAll => plan[n].priority = Unset BY <1>1 DEF IInv, Planned
  <2> QED BY <1>4, <2>1, <2>2
<1>9. Distinct'
  <2>1. CASE i = SystemId
    BY <1>7, <2>1 DEF InSync, Distinct, Custom
  <2>2. CASE i # SystemId
    <3>1. DOMAIN okta' = DOMAIN okta \cup {i} BY <1>1, <1>7
    <3> HIDE DEF i, p
    <3> QED BY <1>2, <1>6, <1>7, <2>2, <3>1, DistinctAfter DEF InSync
  <2> QED BY <2>1, <2>2
<1>10. ASSUME undisturbed, NEW m \in DOMAIN results, results[m].id # i
       PROVE  okta'[results[m].id] = okta[results[m].id]
  <2> DEFINE j == results[m].id
  <2>1. j \in DOMAIN okta
    BY <1>1, <1>10 DEF InSync, Held
  <2>2. CASE i = SystemId
    BY <1>7, <1>10, <2>1, <2>2
  <2>3. CASE i # SystemId
    <3>1. \/ j = SystemId
          \/ okta[j].priority < p
          \/ \A k \in Custom \ {i} : okta[k].priority # p
      <4>1. CASE plan[n].priority = Unset
        <5>1. p = okta[i].priority BY <1>4, <2>3, <4>1
        <5>2. i \in Custom BY <1>1, <2>3 DEF Custom
        <5> QED BY <5>1, <5>2 DEF InSync, Distinct
      <4>2. CASE plan[n].priority # Unset
        BY <1>1, <1>8, <1>10, <4>2, ProcessedBelow
      <4> QED BY <4>1, <4>2
    <3>2. Shifted(i, p)[j] = okta[j]
      <4> HIDE DEF i, p, j
      <4> QED BY <1>2, <1>6, <2>1, <3>1, ShiftedQuiet
    <3> QED BY <1>7, <1>10, <2>1, <2>3, <3>2
  <2> QED BY <2>2, <2>3
<1>11. plan[n].priority # Unset => okta'[i].priority = plan[n].priority
  BY <1>7, <1>8
<1> HIDE DEF i
<1>12. Undone(n, i)
  BY <1>1, <1>9, <1>10, <1>11 DEF Undone
<1> QED BY <1>12 DEF i

LEMMA SteppedInSync ==
  ASSUME IInv, InSync, Distinguished, NEW n, NEW i, Stepped(n, i), Undone(n, i)
  PROVE  InSync'
<1>1. /\ n \in DOMAIN plan /\ n \in todo /\ op \in {"create", "update"} /\ i \in RuleIds
      /\ DOMAIN results = DOMAIN plan \ todo
      /\ n \notin DOMAIN results
      /\ DOMAIN results' = DOMAIN results \cup {n}
      /\ \A m \in DOMAIN results : results'[m] = results[m]
      /\ todo' = todo \ {n} /\ current = NoId /\ doomed' = {}
      /\ current' = IF okta'[i].status = plan[n].status THEN NoId ELSE i
      /\ op' = op /\ plan' = plan /\ undisturbed' = undisturbed
      /\ todo \subseteq DOMAIN plan
  BY DEF Stepped, IInv, TypeOK, Processing
<1>2. /\ results'[n] = [okta'[i] EXCEPT !.status = plan[n].status]
      /\ okta'[i] \in Rule /\ okta'[i].id = i /\ okta'[i].body = plan[n].body
  BY DEF Stepped
<1>3. /\ results'[n].id = i /\ results'[n].body = plan[n].body
      /\ results'[n].status = plan[n].status
      /\ results'[n].priority = okta'[i].priority
      /\ [okta'[i] EXCEPT !.status = results'[n].status] = results'[n]
      /\ okta'[i].status = plan[n].status => results'[n] = okta'[i]
  BY <1>2 DEF Rule
<1>a. i # NoId BY <1>1, Consts DEF RuleIds, NoId
<1>4. \/ Match(n) = i
      \/ Match(n) = NoId /\ i = minted + 1
  BY DEF Stepped
<1>5. \A m \in DOMAIN results : /\ results[m].id # i
                                /\ results[m].id # NoId
  <2> SUFFICES ASSUME NEW m \in DOMAIN results
               PROVE  results[m].id # i /\ results[m].id # NoId
    OBVIOUS
  <2>1. results[m].id \in RuleIds /\ results[m].id <= minted /\ minted \in Int
    BY Consts DEF IInv, TypeOK, Issued, Rule
  <2>2. Match(n) # results[m].id BY <1>1 DEF InSync, Apart
  <2> QED BY <1>4, <2>1, <2>2, Consts DEF RuleIds, NoId
<1>6. \A k \in todo \ {n} : Match(k) # i
  <2> SUFFICES ASSUME NEW k \in todo \ {n} PROVE Match(k) # i
    OBVIOUS
  <2>1. k \in DOMAIN plan BY <1>1
  <2>2. CASE Match(n) = i
    <3>1. i # NoId BY <1>1, Consts DEF RuleIds, NoId
    <3> QED BY <1>1, <2>1, <2>2, <3>1, MatchApart
  <2>3. CASE i = minted + 1
    <3>1. Match(k) \in RuleIds \cup {NoId} /\ Match(k) <= minted BY <1>1, <2>1, MatchIs
    <3>2. minted \in Int BY Consts DEF IInv, TypeOK
    <3> QED BY <2>3, <3>1, <3>2, Consts DEF RuleIds, NoId
  <2> QED BY <1>4, <2>2, <2>3
<1>7. Distinct' BY DEF Undone
<1>8. Apart'
  <2>1. \A k : Match(k)' = Match(k) BY SameMatch DEF Stepped
  <2>2. \A m, k \in DOMAIN results' : results'[m].id = results'[k].id => m = k
    BY <1>1, <1>3, <1>5 DEF InSync, Apart
  <2>3. ASSUME NEW m \in DOMAIN results', NEW k \in todo'
        PROVE  /\ Match(k) # results'[m].id
               /\ \/ plan[k].priority = Unset
                  \/ plan[m].priority # Unset /\ plan[m].priority < plan[k].priority
    <3>1. CASE m = n
      <4>1. k \in todo \ {n} /\ k \in DOMAIN plan BY <1>1, <2>3
      <4>2. Match(k) # results'[m].id BY <1>3, <1>6, <3>1, <4>1
      <4>3. \/ plan[k].priority = Unset
            \/ plan[n].priority # Unset /\ plan[n].priority <= plan[k].priority
        BY <4>1 DEF Undone, IsNext, InPriorityOrder
      <4>4. plan[n].priority # Unset => plan[n].priority # plan[k].priority
        BY <1>1, <4>1 DEF IInv, Planned
      <4>5. plan[n].priority \in Nat /\ plan[k].priority \in Nat
        <5>1. plan[n] \in PlanRule /\ plan[k] \in PlanRule
          BY <1>1, <4>1 DEF IInv, TypeOK
        <5>2. /\ plan[n].priority \in Priorities \cup {Unset}
              /\ plan[k].priority \in Priorities \cup {Unset}
          BY <5>1 DEF PlanRule
        <5> QED BY <5>2, Consts
      <4> QED BY <3>1, <4>2, <4>3, <4>4, <4>5
    <3>2. CASE m # n
      BY <1>1, <2>3, <3>2 DEF InSync, Apart
    <3> QED BY <3>1, <3>2
  <2> QED BY <1>1, <2>1, <2>2, <2>3 DEF Apart
<1>9. Held'
  <2> SUFFICES ASSUME NEW m \in DOMAIN results'
      PROVE  /\ results'[m].body = plan[m].body
             /\ results'[m].status = plan[m].status
             /\ plan[m].priority # Unset => results'[m].priority = plan[m].priority
             /\ undisturbed =>
                  /\ results'[m].id \in DOMAIN okta'
                  /\ IF results'[m].id = current'
                       THEN [okta'[current'] EXCEPT !.status = results'[m].status] = results'[m]
                       ELSE okta'[results'[m].id] = results'[m]
    BY <1>1 DEF Held
  <2>1. CASE m = n
    <3>1. i \in DOMAIN okta' /\ (plan[n].priority # Unset => okta'[i].priority = plan[n].priority)
      BY DEF Undone, Stepped
    <3>2. CASE okta'[i].status = plan[n].status
      BY <1>1, <1>3, <1>a, <2>1, <3>1, <3>2
    <3>3. CASE okta'[i].status # plan[n].status
      BY <1>1, <1>3, <1>a, <2>1, <3>1, <3>3
    <3> QED BY <3>2, <3>3
  <2>2. CASE m # n
    <3>1. m \in DOMAIN results /\ results'[m] = results[m]
          /\ results[m].id # i /\ results[m].id # current /\ results[m].id # current'
      BY <1>1, <1>5, <2>2
    <3>2. undisturbed => /\ results[m].id \in DOMAIN okta'
                         /\ okta'[results[m].id] = results[m]
      BY <1>1, <3>1 DEF InSync, Held, Undone, Stepped
    <3> QED BY <1>1, <3>1, <3>2 DEF InSync, Held
  <2> QED BY <2>1, <2>2
<1> QED BY <1>7, <1>8, <1>9 DEF InSync
LEMMA ApplyInSync ==
  ASSUME IInv, InSync, Distinguished, NEW n, Apply(n)
  PROVE  InSync'
<1>1. CASE CreateRule(n)
  BY <1>1, CreateRuleSteps, CreateRuleInSync, SteppedInSync
<1>2. CASE UpdateRule(n)
  BY <1>2, UpdateRuleSteps, UpdateRuleInSync, SteppedInSync
<1>3. CASE RuleRefused(n)
  BY <1>3 DEF RuleRefused, Return, InSync, Distinct, Custom, Apart, Held
<1>4. CASE SyncStatus(n)
  <2>1. /\ op \in {"create", "update"} /\ current \in DOMAIN okta
        /\ n \in DOMAIN results /\ results[n].id = current
        /\ okta' = [okta EXCEPT ![current].status = results[n].status]
        /\ current' = NoId
        /\ UNCHANGED << state, plan, op, existing, doomed, todo, results, undisturbed >>
    BY <1>4 DEF SyncStatus
  <2>2. \A j \in DOMAIN okta : okta[j] \in Rule BY DEF IInv, TypeOK
  <2>3. Distinct'
    <3>1. DOMAIN okta' = DOMAIN okta
          /\ \A j \in DOMAIN okta : okta'[j].priority = okta[j].priority
      BY <2>1, <2>2 DEF Rule
    <3> QED BY <3>1 DEF InSync, Distinct, Custom
  <2>4. Apart'
    <3>1. \A k : Match(k)' = Match(k) BY <2>1, SameMatch
    <3> QED BY <2>1, <3>1 DEF InSync, Apart
  <2>5. Held'
    <3> SUFFICES ASSUME NEW m \in DOMAIN results
        PROVE  /\ results[m].body = plan[m].body
               /\ results[m].status = plan[m].status
               /\ plan[m].priority # Unset => results[m].priority = plan[m].priority
               /\ undisturbed => /\ results[m].id \in DOMAIN okta'
                                 /\ results[m].id # NoId
                                 /\ okta'[results[m].id] = results[m]
      BY <2>1 DEF Held
    <3>1. results[m].id # NoId
      <4>1. results[m].id \in RuleIds BY DEF IInv, TypeOK, Rule
      <4> QED BY <4>1, Consts DEF RuleIds, NoId
    <3>2. CASE m = n
      BY <2>1, <3>1, <3>2 DEF InSync, Held
    <3>3. CASE m # n
      <4>1. results[m].id # current BY <2>1, <3>3 DEF InSync, Apart
      <4> QED BY <2>1, <3>1, <4>1 DEF InSync, Held
    <3> QED BY <3>2, <3>3
  <2> QED BY <2>3, <2>4, <2>5 DEF InSync
<1> QED BY <1>1, <1>2, <1>3, <1>4 DEF Apply

LEMMA DeleteRuleInSync ==
  ASSUME IInv, InSync, NEW i, DeleteRule(i)
  PROVE  InSync'
<1>1. /\ i \in doomed
      /\ DOMAIN okta' = DOMAIN okta \ {i}
      /\ \A j \in DOMAIN okta \ {i} : okta'[j] = okta[j]
      /\ doomed' = doomed \ {i}
      /\ UNCHANGED << state, plan, op, existing, todo, current, results, undisturbed >>
  BY DEF DeleteRule, Without
<1>2. op' \in {"create", "update"} => DOMAIN results = {}
  BY <1>1 DEF InSync, Apart
<1>3. Distinct' BY <1>1 DEF InSync, Distinct, Custom
<1>4. Apart' /\ Held'
  BY <1>1, <1>2 DEF Apart, Held
<1> QED BY <1>3, <1>4 DEF InSync

LEMMA OutsideInSync ==
  ASSUME IInv, InSync, Outside
  PROVE  InSync'
<1>1. /\ undisturbed' = FALSE
      /\ UNCHANGED << state, plan, op, existing, doomed, todo, current, results >>
  BY InterferesIs DEF Outside, AdminCreate, AdminDelete
<1>2. Apart' /\ Held'
  <2>1. \A k : Match(k)' = Match(k) BY <1>1, SameMatch
  <2> QED BY <1>1, <2>1 DEF InSync, Apart, Held
<1>3. ASSUME NEW n \in Names, AdminCreate(n) PROVE Distinct'
  <2> DEFINE i == minted'
  <2>1. PICK p \in Priorities, b \in Bodies : okta' = Created(minted', n, p, b)
    BY <1>3 DEF AdminCreate
  <2>2. i \in RuleIds /\ TypeOK BY <1>3, AdminCreateIs DEF IInv
  <2>3. p \in Nat /\ p # Unset BY Consts
  <2> HIDE DEF i
  <2>4. i = minted' BY DEF i
  <2> DEFINE c == Created(i, n, p, b)
  <2>5. /\ DOMAIN c = DOMAIN okta \cup {i}
        /\ c[i] = [id |-> i, name |-> n, priority |-> IF p = Unset THEN Last ELSE p,
                   status |-> "ACTIVE", body |-> b]
        /\ \A j \in DOMAIN okta \ {i} :
             c[j] = Shifted(i, IF p = Unset THEN Last ELSE p)[j]
    BY <2>2, <2>3, CreatedIs
  <2>6. okta' = c BY <2>1, <2>4
  <2> HIDE DEF c
  <2>7. /\ DOMAIN okta' = DOMAIN okta \cup {i}
        /\ okta'[i].priority = p
        /\ \A j \in DOMAIN okta \ {i} : okta'[j] = Shifted(i, p)[j]
    BY <2>3, <2>5, <2>6
  <2> QED BY <2>2, <2>3, <2>7, DistinctAfter DEF InSync
<1>4. ASSUME NEW i \in RuleIds, AdminDelete(i) PROVE Distinct'
  BY <1>4 DEF AdminDelete, Without, InSync, Distinct, Custom
<1> QED BY <1>2, <1>3, <1>4 DEF Outside, InSync

LEMMA NextInSync == Distinguished /\ IInv /\ InSync /\ [Next]_vars => InSync'
<1> SUFFICES ASSUME Distinguished, IInv, InSync, [Next]_vars PROVE InSync'
  OBVIOUS
<1>1. ASSUME NEW i \in RuleIds, DeleteRule(i) PROVE InSync' BY <1>1, DeleteRuleInSync
<1>2. ASSUME NEW n \in Names \cup {CatchAll}, Apply(n) PROVE InSync' BY <1>2, ApplyInSync
<1>3. CASE StatusRefused \/ Finish \/ FinishDelete \/ Fail
  BY <1>3 DEF StatusRefused, Finish, FinishDelete, Fail, Return, InSync,
              Distinct, Custom, Apart, Held
<1>4. CASE Import \/ Read \/ BeginDelete \/ NoChanges
  <2>1. op' \notin {"create", "update"} /\ okta' = okta
    BY <1>4 DEF Import, Read, BeginDelete, Begin, NoChanges
  <2> QED BY <2>1 DEF InSync, Distinct, Custom, Apart, Held
<1>5. CASE BeginCreate \/ BeginUpdate
  <2>1. DOMAIN results' = {} /\ okta' = okta
    BY <1>5 DEF BeginCreate, CreateFor, BeginUpdate, UpdateFor, Begin, IInv, Phases
  <2> QED BY <2>1 DEF InSync, Distinct, Custom, Apart, Held
<1>6. CASE Outside BY <1>6, OutsideInSync
<1>7. CASE UNCHANGED vars
  <2>1. UNCHANGED << okta, state, plan, op, existing, doomed, todo, current, results, undisturbed >>
    BY <1>7 DEF vars, local
  <2>2. \A k : Match(k)' = Match(k) BY <2>1, SameMatch
  <2> QED BY <2>1, <2>2 DEF InSync, Distinct, Custom, Apart, Held
<1> QED BY <1>1, <1>2, <1>3, <1>4, <1>5, <1>6, <1>7 DEF Next, Provider, Terraform

LEMMA FinishInSync ==
  ASSUME IInv, InSync, Finish
  PROVE  AppliedInSync'
<1>1. /\ op \in {"create", "update"} /\ DOMAIN results = DOMAIN plan
      /\ state' = { results[n] : n \in DOMAIN plan }
      /\ current = NoId
      /\ UNCHANGED << okta, plan, undisturbed >>
  BY FinishIs
<1>2. \A n \in DOMAIN plan :
        /\ results[n].name = n /\ results[n].id # current
        /\ results[n].body = plan[n].body /\ results[n].status = plan[n].status
        /\ plan[n].priority # Unset => results[n].priority = plan[n].priority
        /\ undisturbed => results[n].id \in DOMAIN okta /\ okta[results[n].id] = results[n]
  <2> SUFFICES ASSUME NEW n \in DOMAIN plan
      PROVE  /\ results[n].name = n /\ results[n].id # current
             /\ results[n].body = plan[n].body /\ results[n].status = plan[n].status
             /\ plan[n].priority # Unset => results[n].priority = plan[n].priority
             /\ undisturbed => results[n].id \in DOMAIN okta /\ okta[results[n].id] = results[n]
    OBVIOUS
  <2>1. results[n].name = n BY <1>1 DEF IInv, Recognised
  <2>2. results[n].id \in RuleIds BY <1>1 DEF IInv, TypeOK, Rule
  <2>3. results[n].id # current BY <1>1, <2>2, Consts DEF RuleIds, NoId
  <2> QED BY <1>1, <2>1, <2>3 DEF InSync, Held
<1>3. undisturbed => state' \subseteq Rules(okta')
  BY <1>1, <1>2 DEF Rules
<1>4. NamesOf(state') = DOMAIN plan
  BY <1>1, <1>2 DEF NamesOf
<1>5. \A r \in state' :
        /\ r.body = plan[r.name].body
        /\ r.status = plan[r.name].status
        /\ plan[r.name].priority # Unset => r.priority = plan[r.name].priority
  BY <1>1, <1>2
<1> QED BY <1>1, <1>3, <1>4, <1>5 DEF AppliedInSync

LEMMA NextApplied == IInv /\ InSync /\ AppliedInSync /\ [Next]_vars => AppliedInSync'
<1> SUFFICES ASSUME IInv, InSync, AppliedInSync, [Next]_vars PROVE AppliedInSync'
  OBVIOUS
<1>1. CASE Finish BY <1>1, FinishInSync
<1>2. CASE Provider /\ ~Finish
  <2>1. op' # "idle" \/ outcome' # "applied" \/ managed' = FALSE
    BY <1>2 DEF Provider, DeleteRule, Apply, CreateRule, UpdateRule, RuleRefused, SyncStatus,
                Ready, Processed, StatusRefused, FinishDelete, Return
  <2> QED BY <2>1 DEF AppliedInSync
<1>3. CASE Terraform \/ Fail
  <2>1. op' # "idle" \/ outcome' # "applied"
    BY <1>3 DEF Terraform, BeginCreate, CreateFor, Import, Read, BeginUpdate, UpdateFor,
                BeginDelete, NoChanges, Fail, Return
  <2> QED BY <2>1 DEF AppliedInSync
<1>4. CASE Outside
  <2>1. undisturbed' = FALSE
    BY <1>4 DEF Outside, AdminCreate, AdminDelete, Interferes
  <2> QED BY <2>1 DEF AppliedInSync
<1>5. CASE UNCHANGED vars
  BY <1>5 DEF vars, AppliedInSync, Rules, NamesOf
<1> QED BY <1>1, <1>2, <1>3, <1>4, <1>5 DEF Next

\* A successful apply that nobody disturbed leaves the rules in Okta exactly
\* as the state has them and the configuration asks for: body, status and
\* priority.  It rests on the rules being processed by ascending priority, so
\* that a shift never reaches one processed before.
THEOREM InForceAfterApply == IdsGiven # "reuses" => (Spec => []AppliedInSync)
<1>1. Init => InSync /\ AppliedInSync
  <2> SUFFICES ASSUME Init PROVE InSync /\ AppliedInSync
    OBVIOUS
  <2>1. PICK k \in 0 .. MaxFound : \E f \in Found(k), b \in Bodies :
          okta = [i \in 0 .. k |->
                    IF i = SystemId
                      THEN [id |-> i, name |-> CatchAll, priority |-> SystemPriority,
                            status |-> "ACTIVE", body |-> b]
                      ELSE [id |-> i, name |-> f[i].name, priority |-> i,
                            status |-> f[i].status, body |-> f[i].body]]
    BY DEF Init
  <2>a. DOMAIN okta = 0 .. k /\ \A i \in DOMAIN okta \ {SystemId} : okta[i].priority = i
    BY <2>1
  <2>2. Distinct BY <2>a DEF Distinct, Custom
  <2>3. op = "idle" /\ outcome = "none" BY DEF Init
  <2> QED BY <2>2, <2>3 DEF InSync, Apart, Held, AppliedInSync
<1>2. ASSUME IdsGiven # "reuses" PROVE Spec => []AppliedInSync
  <2>1. IInv /\ InSync /\ [Next]_vars => InSync' BY <1>2, NextInSync DEF Distinguished
  <2> QED BY <1>1, <2>1, Invariance, NextApplied, PTL DEF Spec
<1> QED BY <1>2
=============================================================================

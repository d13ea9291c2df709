------------------------- MODULE RateGovernorProofs -------------------------
(***************************************************************************)
(* Theorems about RateGovernor, for any number of callers, any limit, any  *)
(* window length and any bounds.                                           *)
(***************************************************************************)
EXTENDS RateGovernor, FiniteSetTheorems, TLAPS

USE RateGovernorAssumption

TypeInv == TypeOK /\ CallsInOrder

-----------------------------------------------------------------------------
(* The headers the API sends are a response in range. *)
LEMMA HeadersInRange ==
  ASSUME TypeOK
  PROVE  /\ Admitted \in [reset : Nat, used : 0 .. Limit]
         /\ Headers(Admitted) \in Response
         /\ LostSoFar \in Nat
BY DEF TypeOK, Admitted, Headers, Response, LostSoFar

(* Update names only fields of the status. *)
LEMMA FieldsAreFields ==
  ASSUME NEW r
  PROVE  FieldsToWrite(r) \subseteq StatusField
BY DEF FieldsToWrite, NewerFields, StatusField

(* Every step keeps every variable in its range and every caller's sends    *)
(* within MaxAttempts: the reads of HasCapacity, the sends and the writes   *)
(* of Update included.                                                      *)
LEMMA TypeInvInductive == TypeInv /\ [Next]_vars => TypeInv'
<1> SUFFICES ASSUME TypeInv, [Next]_vars
             PROVE  TypeInv'
  OBVIOUS
<1> USE DEF TypeInv, TypeOK, CallsInOrder, Labels, Goto, Return
<1>1. CASE Tick
  BY <1>1 DEF Tick
<1>2. ASSUME NEW p \in Callers, RoundTrip(p)
      PROVE  TypeInv'
  BY <1>2 DEF RoundTrip
<1>3. ASSUME NEW p \in Callers, Cancel(p)
      PROVE  TypeInv'
  BY <1>3 DEF Cancel
<1>4. ASSUME NEW p \in Callers, Acquire(p)
      PROVE  TypeInv'
  BY <1>4, FieldsAreFields DEF Acquire
<1>5. ASSUME NEW p \in Callers, Step(p)
      PROVE  TypeInv'
  <2>1. CASE ReadReset(p)
    <3>1. status.reset \in Nat \cup {Unread}
      BY DEF APIStatus
    <3>2. seen' \in [Callers -> [StatusField -> Nat \cup {Unread}]]
      BY <2>1, <3>1 DEF ReadReset, StatusField
    <3>3. pc' \in [Callers -> Labels]
      BY <2>1 DEF ReadReset
    <3>4. QED
      BY <2>1, <3>2, <3>3 DEF ReadReset
  <2>2. CASE Decide(p)
    <3> DEFINE unread == [f \in StatusField |-> Unread]
    <3>a. seen' = seen \/ seen' = [seen EXCEPT ![p] = unread]
      BY <2>2 DEF Decide
    <3>b. unread \in [StatusField -> Nat \cup {Unread}]
      OBVIOUS
    <3> HIDE DEF unread
    <3>1. seen' \in [Callers -> [StatusField -> Nat \cup {Unread}]]
      BY <3>a, <3>b
    <3>2. pc' \in [Callers -> Labels]
      BY <2>2 DEF Decide
    <3>3. \A q \in Callers :
            pc'[q] = pc[q] \/ (q = p /\ pc[p] = "read" /\ pc'[p] \in {"send", "throttle"})
      BY <2>2 DEF Decide
    <3>4. UNCHANGED << now, server, status, lock, wake, answer, pending,
                       attempts, requests, absorbed, lost >>
      BY <2>2 DEF Decide
    <3>5. TypeOK'
      BY <3>1, <3>2, <3>4
    <3>6. CallsInOrder'
      BY <3>3, <3>4
    <3>7. QED
      BY <3>5, <3>6
  <2>3. CASE Throttle(p)
    BY <2>3 DEF Throttle, StatusField, Unread, APIStatus
  <2>4. CASE Wake(p)
    BY <2>4 DEF Wake
  <2>5. CASE Respond(p)
    BY <2>5, HeadersInRange DEF Respond, CountSend
  <2>6. CASE RetryBelow(p)
    BY <2>6, HeadersInRange DEF RetryBelow, CountSend
  <2>7. CASE NoHeaders(p)
    BY <2>7, HeadersInRange DEF NoHeaders
  <2>8. CASE Release(p)
    BY <2>8 DEF Release
  <2>9. ASSUME NEW f \in StatusField, ReadField(p, f)
        PROVE  TypeInv'
    BY <2>9 DEF ReadField, APIStatus, StatusField
  <2>10. ASSUME NEW f \in StatusField, WriteField(p, f)
         PROVE  TypeInv'
    BY <2>10 DEF WriteField, APIStatus, Response, StatusField
  <2>11. QED
    BY <1>5, <2>1, <2>2, <2>3, <2>4, <2>5, <2>6, <2>7, <2>8, <2>9, <2>10 DEF Step
<1>6. CASE UNCHANGED vars
  BY <1>6 DEF vars
<1>7. QED
  BY <1>1, <1>2, <1>3, <1>4, <1>5, <1>6 DEF Next

(* Every variable stays in its range.                                       *)
THEOREM TypeCorrect == Spec => []TypeOK
<1>1. Init => TypeInv
  BY DEF Init, TypeInv, TypeOK, CallsInOrder, Labels, APIStatus, NewStatus,
         StatusField, Unread, Response
<1>2. TypeInv => TypeOK
  BY DEF TypeInv
<1>3. QED
  BY <1>1, <1>2, TypeInvInductive, PTL DEF Spec

-----------------------------------------------------------------------------
(* The window part of the invariant: two responses that reach Update are of *)
(* the same window or a full window apart.                                  *)
LEMMA KnownElements ==
  \A r : r \in Known <=> \/ r \in absorbed
                         \/ \E p \in Callers : /\ pc[p] \in {"respond", "update"}
                                              /\ r = answer[p]
BY DEF Known

(* A step that is not a send learns nothing new; a send learns at most the  *)
(* headers of the window it was admitted in.                                *)
LEMMA KnownGrows ==
  ASSUME TypeInv, [Next]_vars
  PROVE  \/ server' = server /\ Known' \subseteq Known
         \/ /\ server' = Admitted
            /\ Known' \subseteq Known \cup {Headers(Admitted)}
<1> USE DEF Goto, Return, TypeInv, TypeOK
<1>k. \A r : r \in Known' <=> \/ r \in absorbed'
                              \/ \E p \in Callers : /\ pc'[p] \in {"respond", "update"}
                                                   /\ r = answer'[p]
  BY DEF Known
<1>1. CASE Tick
  BY <1>1 DEF Tick, Known
<1>2. ASSUME NEW p \in Callers, RoundTrip(p) \/ Cancel(p)
      PROVE  server' = server /\ Known' \subseteq Known
  BY <1>2, <1>k, KnownElements DEF RoundTrip, Cancel
<1>3. ASSUME NEW p \in Callers, Acquire(p)
      PROVE  server' = server /\ Known' \subseteq Known
  <2>1. /\ absorbed' = absorbed \cup {answer[p]}
        /\ UNCHANGED << answer, server >>
        /\ pc[p] = "respond"
        /\ \A q \in Callers \ {p} : pc'[q] = pc[q]
    BY <1>3 DEF Acquire
  <2>2. answer[p] \in Known
    BY <2>1, KnownElements
  <2>3. \A r : r \in Known' => r \in Known
    BY <2>1, <2>2, <1>k, KnownElements
  <2>4. QED
    BY <2>1, <2>3
<1>4. ASSUME NEW p \in Callers, ReadReset(p) \/ Throttle(p) \/ Wake(p)
      PROVE  server' = server /\ Known' \subseteq Known
  <2>1. /\ UNCHANGED << server, answer, absorbed >>
        /\ \A q \in Callers : pc'[q] \in {"respond", "update"} => pc[q] = pc'[q]
    BY <1>4 DEF ReadReset, Throttle, Wake
  <2>2. QED
    BY <2>1, <1>k, KnownElements
<1>5. ASSUME NEW p \in Callers, Decide(p)
      PROVE  server' = server /\ Known' \subseteq Known
  <2>1. /\ UNCHANGED << server, answer, absorbed >>
        /\ \A q \in Callers : pc'[q] \in {"respond", "update"} => pc[q] = pc'[q]
    BY <1>5 DEF Decide
  <2>2. QED
    BY <2>1, <1>k, KnownElements
<1>6. ASSUME NEW p \in Callers, Respond(p)
      PROVE  /\ server' = Admitted
             /\ Known' \subseteq Known \cup {Headers(Admitted)}
  <2> DEFINE h == Headers(Admitted)
  <2>1. /\ server' = Admitted
        /\ UNCHANGED absorbed
        /\ answer' = [answer EXCEPT ![p] = h]
        /\ \A q \in Callers \ {p} : pc'[q] = pc[q]
    BY <1>6 DEF Respond, CountSend
  <2> HIDE DEF h
  <2>2. Known' \subseteq Known \cup {h}
    BY <2>1, <1>k, KnownElements
  <2>3. QED
    BY <2>1, <2>2 DEF h
<1>7. ASSUME NEW p \in Callers, RetryBelow(p) \/ NoHeaders(p)
      PROVE  server' = Admitted /\ Known' \subseteq Known
  BY <1>7, <1>k, KnownElements DEF RetryBelow, CountSend, NoHeaders
<1>8. ASSUME NEW p \in Callers, Release(p)
      PROVE  server' = server /\ Known' \subseteq Known
  BY <1>8, <1>k, KnownElements DEF Release
<1>9. ASSUME NEW p \in Callers, NEW f \in StatusField,
             ReadField(p, f) \/ WriteField(p, f)
      PROVE  server' = server /\ Known' \subseteq Known
  BY <1>9, <1>k, KnownElements DEF ReadField, WriteField
<1>10. CASE UNCHANGED vars
  BY <1>10 DEF vars, Known
<1>11. QED
  BY <1>1, <1>2, <1>3, <1>4, <1>5, <1>6, <1>7, <1>8, <1>9, <1>10 DEF Next, Step

LEMMA WindowsApartInductive ==
  ASSUME TypeInv, WindowsApart, [Next]_vars
  PROVE  WindowsApart'
<1> USE DEF SameOrApart
<1>1. Known \subseteq Response
  BY KnownElements DEF TypeInv, TypeOK, CallsInOrder
<1>2. CASE server' = server /\ Known' \subseteq Known
  BY <1>2 DEF WindowsApart
<1>3. CASE /\ server' = Admitted
           /\ Known' \subseteq Known \cup {Headers(Admitted)}
  <2> DEFINE h == Headers(Admitted)
  <2>1. h.reset = server'.reset
    BY <1>3 DEF Headers
  <2>2. \A r \in Response : r.reset \in Nat
    BY DEF Response
  <2>3. server.reset \in Nat /\ now \in Nat
    BY DEF TypeInv, TypeOK
  <2>4. \/ server'.reset = server.reset
        \/ server'.reset = now + WindowLength /\ now >= server.reset
    BY <1>3, <2>3 DEF Admitted, TypeInv, TypeOK
  <2>5. server'.reset \in Nat /\ server'.reset > 0
    BY <2>3, <2>4 DEF WindowsApart
  <2>6. \A r \in Known : \/ r.reset = server'.reset
                         \/ r.reset + WindowLength <= server'.reset
    BY <1>1, <2>2, <2>3, <2>4 DEF WindowsApart
  <2>7. \A r \in Known' : /\ r.reset > 0
                          /\ \/ r.reset = server'.reset
                             \/ r.reset + WindowLength <= server'.reset
    BY <1>3, <2>1, <2>5, <2>6 DEF WindowsApart
  <2>8. \A r, t \in Known' : SameOrApart(r.reset, t.reset)
    BY <1>3, <2>1, <2>6 DEF WindowsApart
  <2>9. QED
    BY <2>5, <2>7, <2>8 DEF WindowsApart
<1>4. QED
  BY <1>2, <1>3, KnownGrows

-----------------------------------------------------------------------------
(* APIMutex.lock is taken on entry to Update and released on its return.    *)
LEMMA LockHeldInductive ==
  ASSUME TypeInv, LockHeld, [Next]_vars
  PROVE  LockHeld'
<1> USE DEF LockHeld, Goto, Return, TypeInv, TypeOK
<1>1. CASE Tick
  BY <1>1 DEF Tick
<1>2. ASSUME NEW p \in Callers,
             RoundTrip(p) \/ Cancel(p) \/ ReadReset(p) \/ Throttle(p) \/ Wake(p)
      PROVE  LockHeld'
  BY <1>2 DEF RoundTrip, Cancel, ReadReset, Throttle, Wake
<1>3. ASSUME NEW p \in Callers, Acquire(p)
      PROVE  LockHeld'
  BY <1>3 DEF Acquire
<1>4. ASSUME NEW p \in Callers, Decide(p)
      PROVE  LockHeld'
  <2>1. /\ UNCHANGED lock
        /\ \A q \in Callers : pc'[q] = "update" <=> pc[q] = "update"
    BY <1>4 DEF Decide
  <2>2. QED
    BY <2>1
<1>5. ASSUME NEW p \in Callers, Respond(p) \/ RetryBelow(p) \/ NoHeaders(p)
      PROVE  LockHeld'
  BY <1>5 DEF Respond, RetryBelow, NoHeaders, CountSend
<1>6. ASSUME NEW p \in Callers, Release(p)
      PROVE  LockHeld'
  BY <1>6 DEF Release
<1>7. ASSUME NEW p \in Callers, NEW f \in StatusField,
             ReadField(p, f) \/ WriteField(p, f)
      PROVE  LockHeld'
  BY <1>7 DEF ReadField, WriteField
<1>8. CASE UNCHANGED vars
  BY <1>8 DEF vars
<1>9. QED
  BY <1>1, <1>2, <1>3, <1>4, <1>5, <1>6, <1>7, <1>8 DEF Next, Step

-----------------------------------------------------------------------------
(* The heart of the argument: taking in one more response r of the same or  *)
(* of another window keeps the status the summary of what was taken in.     *)
LEMMA AbsorbKeepsSummary ==
  ASSUME NEW R \in SUBSET Response,
         NEW r \in Response,
         status \in APIStatus,
         r.reset > 0,
         Summarizes(status, R),
         \A t \in R : SameOrApart(r.reset, t.reset)
  PROVE  Summarizes([f \in StatusField |->
                       IF f \in FieldsToWrite(r) THEN r[f] ELSE status[f]],
                    R \cup {r})
<1> DEFINE after == [f \in StatusField |->
                       IF f \in FieldsToWrite(r) THEN r[f] ELSE status[f]]
<1> USE DEF FieldsToWrite, NewerFields
<1>0. \A t \in Response : /\ t \in APIStatus
                          /\ t.reset \in Nat /\ t.remaining \in Nat
                          /\ t.limit = Limit
  BY DEF Response, APIStatus
<1>a. \A t \in APIStatus : [f \in StatusField |-> t[f]] = t
  BY DEF APIStatus, StatusField
<1>b. status.reset \in Nat /\ status.remaining \in Nat
  BY DEF APIStatus
<1>1. CASE R = {} \/ r.reset > status.reset
  <2>1. r.reset > status.reset
    BY <1>1 DEF Summarizes, NewStatus
  <2>f. FieldsToWrite(r) = StatusField
    BY <2>1, <1>0, <1>b
  <2> HIDE DEF FieldsToWrite
  <2>2. after = [f \in StatusField |-> r[f]]
    BY <2>f
  <2>3. after = r
    BY <2>2, <1>0, <1>a
  <2>4. \A t \in R : t.reset <= status.reset
    BY DEF Summarizes
  <2>5. QED
    BY <1>0, <1>b, <2>1, <2>3, <2>4 DEF Summarizes
<1>2. CASE R # {} /\ r.reset <= status.reset - WindowLength
  <2>1. ~(r.reset > status.reset)
    BY <1>2, <1>0, <1>b
  <2>2. after = [f \in StatusField |-> status[f]]
    BY <1>2, <2>1
  <2>3. after = status
    BY <2>2, <1>a
  <2>4. QED
    BY <1>0, <1>2, <1>b, <2>3 DEF Summarizes
<1>3. CASE /\ R # {}
           /\ r.reset <= status.reset
           /\ ~(r.reset <= status.reset - WindowLength)
  <2>1. PICK t \in R : status = t
    BY <1>3 DEF Summarizes
  <2>2. r.reset = status.reset /\ status.limit = Limit
    BY <1>0, <1>3, <2>1 DEF SameOrApart
  <2>3. CASE r.remaining < status.remaining
    <3>1. FieldsToWrite(r) = {"remaining"}
      BY <1>0, <1>b, <1>3, <2>3
    <3>2. after = [f \in StatusField |-> r[f]]
      BY <1>0, <2>2, <3>1 DEF StatusField
    <3>3. after = r
      BY <3>2, <1>0, <1>a
    <3>4. QED
      BY <1>0, <1>b, <1>3, <2>2, <2>3, <3>3 DEF Summarizes
  <2>4. CASE ~(r.remaining < status.remaining)
    <3>1. FieldsToWrite(r) = {}
      BY <1>0, <1>b, <1>3, <2>4
    <3>2. after = [f \in StatusField |-> status[f]]
      BY <3>1
    <3>3. after = status
      BY <3>2, <1>a
    <3>4. QED
      BY <1>0, <1>b, <1>3, <2>2, <2>4, <3>3 DEF Summarizes
  <2>5. QED
    BY <2>3, <2>4
<1>4. QED
  BY <1>0, <1>1, <1>2, <1>3, <1>b

-----------------------------------------------------------------------------
(* Only the caller inside Update touches the status, and the fields it has  *)
(* still to write are already counted as settled: only Acquire changes the  *)
(* settled status.                                                          *)
LEMMA SettledSteps ==
  ASSUME TypeInv, LockHeld, [Next]_vars
  PROVE  \/ Settled' = Settled /\ absorbed' = absorbed
         \/ \E p \in Callers : Acquire(p)
<1> USE DEF LockHeld, Goto, Return, TypeInv, TypeOK
<1>1. ASSUME UNCHANGED << status, lock, pending, answer, absorbed >>
      PROVE  Settled' = Settled /\ absorbed' = absorbed
  BY <1>1 DEF Settled
<1>2. ASSUME NEW p \in Callers, Respond(p)
      PROVE  Settled' = Settled /\ absorbed' = absorbed
  <2>1. lock # p /\ lock' = lock /\ UNCHANGED << status, pending, absorbed >>
    BY <1>2 DEF Respond, CountSend
  <2>2. lock # Nobody => answer'[lock] = answer[lock]
    BY <1>2, <2>1 DEF Respond
  <2>3. QED
    BY <2>1, <2>2 DEF Settled
<1>3. ASSUME NEW p \in Callers, NEW f \in StatusField, WriteField(p, f)
      PROVE  Settled' = Settled /\ absorbed' = absorbed
  <2>1. lock = p /\ lock' = p /\ p # Nobody
    BY <1>3 DEF WriteField
  <2>2. /\ pending'[p] = pending[p] \ {f} /\ f \in pending[p]
        /\ UNCHANGED << answer, absorbed >>
    BY <1>3 DEF WriteField
  <2>3. \A g \in StatusField :
          status'[g] = IF g = f THEN answer[p][f] ELSE status[g]
    BY <1>3 DEF WriteField, APIStatus, StatusField
  <2>4. \A g \in StatusField :
          (IF g \in pending'[p] THEN answer'[p][g] ELSE status'[g])
            = (IF g \in pending[p] THEN answer[p][g] ELSE status[g])
    BY <2>2, <2>3
  <2>5. QED
    BY <2>1, <2>2, <2>4 DEF Settled
<1>4. ASSUME NEW p \in Callers, Release(p)
      PROVE  Settled' = Settled /\ absorbed' = absorbed
  <2>1. lock = p /\ lock' = Nobody /\ p # Nobody /\ pending[p] = {}
    BY <1>4 DEF Release
  <2>2. [f \in StatusField |-> status[f]] = status
    BY DEF APIStatus, StatusField
  <2>3. Settled = status
    BY <2>1, <2>2 DEF Settled
  <2>4. Settled' = status
    BY <1>4, <2>1 DEF Settled, Release
  <2>5. QED
    BY <1>4, <2>3, <2>4 DEF Release
<1>5. CASE Tick
  BY <1>1, <1>5 DEF Tick
<1>6. ASSUME NEW p \in Callers,
             \/ RoundTrip(p) \/ Cancel(p) \/ ReadReset(p) \/ Decide(p) \/ Throttle(p)
             \/ Wake(p) \/ RetryBelow(p) \/ NoHeaders(p)
      PROVE  Settled' = Settled /\ absorbed' = absorbed
  <2>1. UNCHANGED << status, lock, pending, answer, absorbed >>
    BY <1>6 DEF RoundTrip, Cancel, ReadReset, Decide, Throttle, Wake,
                RetryBelow, NoHeaders, CountSend
  <2>2. QED
    BY <1>1, <2>1
<1>7. ASSUME NEW p \in Callers, NEW f \in StatusField, ReadField(p, f)
      PROVE  Settled' = Settled /\ absorbed' = absorbed
  BY <1>1, <1>7 DEF ReadField
<1>8. CASE UNCHANGED vars
  BY <1>1, <1>8 DEF vars
<1>9. QED
  BY <1>2, <1>3, <1>4, <1>5, <1>6, <1>7, <1>8 DEF Next, Step

Governed == TypeInv /\ LockHeld /\ WindowsApart /\ StatusIsSummary

LEMMA GovernedInductive == Governed /\ [Next]_vars => Governed'
<1> SUFFICES ASSUME Governed, [Next]_vars
             PROVE  Governed'
  OBVIOUS
<1>1. TypeInv' /\ LockHeld' /\ WindowsApart'
  BY TypeInvInductive, LockHeldInductive, WindowsApartInductive DEF Governed
<1>2. StatusIsSummary'
  <2>1. CASE Settled' = Settled /\ absorbed' = absorbed
    BY <2>1 DEF Governed, StatusIsSummary, Summarizes
  <2>2. ASSUME NEW p \in Callers, Acquire(p)
        PROVE  StatusIsSummary'
    <3> DEFINE r == answer[p]
               after == [f \in StatusField |->
                           IF f \in FieldsToWrite(r) THEN r[f] ELSE status[f]]
    <3>1. /\ lock = Nobody /\ lock' = p /\ p # Nobody
          /\ pending'[p] = FieldsToWrite(r)
          /\ answer' = answer /\ status' = status
          /\ absorbed' = absorbed \cup {r}
      BY <2>2 DEF Acquire, Governed, TypeInv, TypeOK
    <3>2. r \in Response /\ status \in APIStatus /\ absorbed \in SUBSET Response
      BY <2>2 DEF Acquire, Governed, TypeInv, TypeOK, CallsInOrder
    <3>3. r \in Known
      BY <2>2, KnownElements DEF Acquire
    <3>4. r.reset > 0 /\ \A t \in absorbed : SameOrApart(r.reset, t.reset)
      BY <3>3, KnownElements DEF Governed, WindowsApart
    <3>5. Summarizes(status, absorbed)
      BY <3>1 DEF Governed, StatusIsSummary, Settled
    <3> HIDE DEF r
    <3>6. Summarizes(after, absorbed \cup {r})
      BY <3>2, <3>4, <3>5, AbsorbKeepsSummary
    <3>7. Settled' = after
      BY <3>1 DEF Settled, r
    <3>8. QED
      BY <3>1, <3>6, <3>7 DEF StatusIsSummary, Summarizes
  <2>3. QED
    BY <2>1, <2>2, SettledSteps DEF Governed
<1>3. QED
  BY <1>1, <1>2 DEF Governed

-----------------------------------------------------------------------------
(* The invariant as a temporal formula.                                     *)
LEMMA GovernedAlways == Spec => []Governed
<1>1. Init => Governed
  <2>1. Init => TypeInv
    BY DEF Init, TypeInv, TypeOK, CallsInOrder, Labels, APIStatus, NewStatus,
           StatusField, Unread, Response
  <2>2. Init => LockHeld
    BY DEF Init, LockHeld
  <2>3. Init => Known = {}
    BY DEF Init, Known
  <2>4. Init => WindowsApart
    BY <2>3 DEF Init, WindowsApart
  <2>5. Init => StatusIsSummary
    BY DEF Init, StatusIsSummary, Settled, Summarizes
  <2>6. QED
    BY <2>1, <2>2, <2>4, <2>5 DEF Governed
<1>2. QED
  BY <1>1, GovernedInductive, PTL DEF Spec

(* Whatever the number of callers and the order in which their responses,   *)
(* late ones of earlier windows included, are taken in, the status that     *)
(* HasCapacity consults once no update is half written is the summary of    *)
(* the responses.                                                           *)
THEOREM OrderIndependent == Spec => []StatusIsSummary
<1>1. Governed => StatusIsSummary
  BY DEF Governed
<1>2. QED
  BY <1>1, GovernedAlways, PTL

(* What one step does to what is known.                                     *)
LEMMA StepKeeps ==
  ASSUME Governed, Governed', [Next]_vars
  PROVE  KeepsWhatIsKnown
<1> USE DEF KeepsWhatIsKnown
<1>1. \A t \in Response \cup {NewStatus} : t.reset \in Nat /\ t.remaining \in Nat
  BY DEF Response, NewStatus
<1>2. Settled \in Response \cup {NewStatus}
  BY DEF Governed, TypeInv, TypeOK, StatusIsSummary, Summarizes
<1>3. CASE Settled' = Settled
  BY <1>1, <1>2, <1>3
<1>4. ASSUME NEW p \in Callers, Acquire(p)
      PROVE  KeepsWhatIsKnown
  <2>1. absorbed \subseteq absorbed'
    BY <1>4 DEF Acquire
  <2>2. CASE absorbed = {}
    <3>1. Settled = NewStatus
      BY <2>2 DEF Governed, StatusIsSummary, Summarizes
    <3>2. absorbed' # {} /\ absorbed' \subseteq Response
      BY <1>4 DEF Acquire, Governed, TypeInv, TypeOK
    <3>3. PICK t \in absorbed' : Settled' = t
      BY <3>2 DEF Governed, StatusIsSummary, Summarizes
    <3>4. t \in Known'
      BY DEF Known
    <3>5. t.reset > 0
      BY <3>4 DEF Governed, WindowsApart
    <3>6. QED
      BY <3>1, <3>3, <3>5 DEF NewStatus
  <2>3. CASE absorbed # {}
    <3>1. Settled \in absorbed' /\ Settled \in Response
      BY <2>1, <2>3 DEF Governed, TypeInv, TypeOK, StatusIsSummary, Summarizes
    <3>2. Settled' \in Response
      BY <3>1 DEF Governed, TypeInv, TypeOK, StatusIsSummary, Summarizes
    <3>3. /\ Settled.reset <= Settled'.reset
          /\ Settled.reset = Settled'.reset => Settled'.remaining <= Settled.remaining
      BY <3>1 DEF Governed, StatusIsSummary, Summarizes
    <3>4. QED
      BY <1>1, <3>1, <3>2, <3>3
  <2>4. QED
    BY <2>2, <2>3
<1>5. QED
  BY <1>3, <1>4, SettledSteps DEF Governed

(* No step makes the governor forget: the settled status never goes back to *)
(* an earlier window and never regains requests within one.                 *)
THEOREM NeverRegresses == Spec => StatusNeverRegresses
<1>1. Governed /\ Governed' /\ [Next]_vars => [KeepsWhatIsKnown]_vars
  BY StepKeeps
<1>2. QED
  BY <1>1, GovernedInductive, GovernedAlways, PTL DEF Spec, StatusNeverRegresses

-----------------------------------------------------------------------------
(* The overshoot.  A ledger has, for every send the API has admitted in the *)
(* window above some level lo, who sent it: a caller, and then it was the   *)
(* send of this number in the last RoundTrip of that caller, or (Nobody) a  *)
(* RoundTrip that told nothing.  That the last RoundTrip is enough is the   *)
(* point: when a caller decides on another one it has read a status that    *)
(* accounts for its own sends, which raises the level; so the level is one  *)
(* at which somebody saw capacity left.                                     *)
Shows(s, v) == s.reset = server.reset /\ s.limit = Limit /\ s.remaining <= Limit - v

(* The status accounts for the v-th send, however much of it is written.    *)
Reported(v) == Shows(status, v) /\ Shows(Settled, v)

(* What keeps p, with the v-th send of the window, its own k-th one, on the *)
(* ledger, from beginning another RoundTrip in this window.                 *)
Excused(p, v, k) ==
  /\ pc[p] \in {"idle", "check", "read", "throttle", "sleep"} => Reported(v)
  /\ pc[p] = "read" => seen[p].limit \in {Unread, Limit} /\ seen[p].remaining <= Limit - v
  /\ pc[p] = "sleep" => wake[p] >= server.reset
  /\ pc[p] = "send" => now >= server.reset \/ k <= attempts[p]
  /\ pc[p] = "respond" => Shows(answer[p], v)
  /\ pc[p] = "update" => Shows(Settled, v)

Ledger(lo, who, trip, nth) ==
  /\ 100 * lo <= Capacity * Limit
  /\ \A v \in (lo + 1) .. server.used :
       /\ nth[v] \in 1 .. MaxAttempts
       /\ who[v] = Nobody => trip[v] \in 1 .. lost
       /\ who[v] # Nobody => trip[v] = 0 /\ Excused(who[v], v, nth[v])
  /\ \A v, w \in (lo + 1) .. server.used :
       who[v] = who[w] /\ trip[v] = trip[w] /\ nth[v] = nth[w] => v = w

Accounted ==
  \E lo \in Nat, who \in [Nat -> Callers \cup {Nobody}], trip \in [Nat -> Nat], nth \in [Nat -> Nat] :
    Ledger(lo, who, trip, nth)

(* HasCapacity starts from nothing.                                         *)
Unseen ==
  \A p \in Callers : pc[p] \notin {"read", "throttle"} =>
    seen[p].limit = Unread /\ seen[p].remaining = Unread

LEMMA Numbers ==
  /\ Limit \in Nat /\ Limit > 0 /\ WindowLength \in Nat /\ WindowLength > 0
  /\ MaxAttempts \in Nat /\ MaxAttempts > 0 /\ Capacity \in Nat
  /\ Nobody \notin Callers
OBVIOUS

LEMMA UnseenInductive == ASSUME TypeInv, Unseen, [Next]_vars PROVE Unseen'
<1> USE DEF Unseen, Goto, Return
<1>1. seen \in [Callers -> [StatusField -> Nat \cup {Unread}]] /\ pc \in [Callers -> Labels]
  BY DEF TypeInv, TypeOK
<1>2. ASSUME NEW p \in Callers, ReadReset(p) PROVE Unseen'
  <2>1. \A q \in Callers : q # p => pc'[q] = pc[q] /\ seen'[q] = seen[q]
    BY <1>1, <1>2 DEF ReadReset
  <2>2. CASE pc'[p] = "send"
    BY <1>1, <1>2, <2>1, <2>2 DEF ReadReset
  <2>3. CASE pc'[p] = "read"
    BY <2>1, <2>3
  <2> QED BY <1>1, <1>2, <2>2, <2>3 DEF ReadReset
<1>3. ASSUME NEW p \in Callers, Decide(p) PROVE Unseen'
  <2> DEFINE unread == [f \in StatusField |-> Unread]
  <2>1. \/ pc' = [pc EXCEPT ![p] = "send"] /\ seen' = [seen EXCEPT ![p] = unread]
        \/ pc' = [pc EXCEPT ![p] = "throttle"] /\ seen' = seen
    BY <1>3 DEF Decide
  <2>2. unread.limit = Unread /\ unread.remaining = Unread
    BY DEF StatusField
  <2> HIDE DEF unread
  <2> QED BY <1>1, <2>1, <2>2
<1>4. ASSUME NEW p \in Callers, Throttle(p) PROVE Unseen'
  <2> DEFINE unread == [f \in StatusField |-> Unread]
  <2>1. seen' = [seen EXCEPT ![p] = unread] /\ pc' = [pc EXCEPT ![p] = "sleep"]
    BY <1>4 DEF Throttle
  <2>2. unread.limit = Unread /\ unread.remaining = Unread
    BY DEF StatusField
  <2> HIDE DEF unread
  <2> QED BY <1>1, <2>1, <2>2
<1>5. ASSUME NEW p \in Callers, NEW f \in StatusField, ReadField(p, f) PROVE Unseen'
  BY <1>1, <1>5 DEF ReadField
<1>6. ASSUME NEW p \in Callers,
             \/ RoundTrip(p) \/ Cancel(p) \/ Acquire(p) \/ Wake(p) \/ Respond(p) \/ RetryBelow(p)
             \/ NoHeaders(p) \/ Release(p) \/ \E f \in StatusField : WriteField(p, f)
      PROVE  Unseen'
  <2>1. seen' = seen /\ \A q \in Callers : pc'[q] \in {"read", "throttle"} <=> pc[q] \in {"read", "throttle"}
    BY <1>1, <1>6 DEF RoundTrip, Cancel, Acquire, Wake, Respond, RetryBelow, NoHeaders, Release,
                      WriteField, CountSend
  <2> QED BY <2>1
<1>7. CASE Tick \/ UNCHANGED vars
  BY <1>7 DEF Tick, vars
<1> QED BY <1>2, <1>3, <1>4, <1>5, <1>6, <1>7 DEF Next, Step

-----------------------------------------------------------------------------
(* What the governor knows of the window stays known as long as the window  *)
(* lasts: the settled status, and with it what is written of it.            *)
LEMMA SummaryInRange ==
  ASSUME NEW s, NEW R, R \subseteq Response, Summarizes(s, R)
  PROVE  /\ s \in Response \cup {NewStatus}
         /\ R = {} => s = NewStatus
         /\ R # {} => s \in R
BY DEF Summarizes

LEMMA SettledKept ==
  ASSUME Governed, Governed', [Next]_vars, server'.reset = server.reset,
         NEW v \in 1 .. Limit, Shows(Settled, v)
  PROVE  Shows(Settled, v)'
<1>1. server.reset \in Nat /\ server.reset > 0
  BY DEF Governed, TypeInv, TypeOK, WindowsApart
<1>3. KeepsWhatIsKnown
  BY StepKeeps
<1>2. QED
  <2>1. Settled \in Response \cup {NewStatus} /\ Settled' \in Response \cup {NewStatus}
    BY SummaryInRange DEF Governed, TypeInv, TypeOK, StatusIsSummary
  <2>2. /\ Settled.reset \in Nat /\ Settled.remaining \in Nat
        /\ Settled'.reset \in Nat /\ Settled'.remaining \in Nat
    BY <2>1 DEF Response, NewStatus
  <2>3. Settled'.reset >= server.reset
    BY <1>1, <1>3, <2>2 DEF KeepsWhatIsKnown, Shows
  <2>4. Settled' # NewStatus
    BY <1>1, <2>3 DEF NewStatus
  <2>5. Settled' \in absorbed' /\ absorbed' \subseteq Response
    BY <2>4, SummaryInRange DEF Governed, TypeInv, TypeOK, StatusIsSummary
  <2>6. Settled' \in Response /\ Settled' \in Known'
    BY <2>5 DEF Known
  <2>7. Settled'.reset <= server'.reset
    BY <1>1, <2>2, <2>6, Numbers DEF Governed, WindowsApart
  <2>8. Settled'.limit = Limit
    BY <2>6 DEF Response
  <2>9. Settled'.reset = server.reset
    BY <1>1, <2>2, <2>3, <2>7
  <2>10. Settled'.remaining <= Settled.remaining
    BY <1>1, <1>3, <2>2, <2>9 DEF KeepsWhatIsKnown, Shows
  <2> QED BY <2>2, <2>8, <2>9, <2>10, Numbers DEF Shows

LEMMA StatusSteps ==
  ASSUME Governed, [Next]_vars
  PROVE  \A f \in StatusField : status'[f] = status[f] \/ (status'[f] = Settled[f] /\ Settled' = Settled)
<1>1. ASSUME NEW p \in Callers, NEW g \in StatusField, WriteField(p, g)
      PROVE  \A f \in StatusField : status'[f] = status[f] \/ (status'[f] = Settled[f] /\ Settled' = Settled)
  <2>1. lock = p /\ p # Nobody /\ g \in pending[p] /\ status' = [status EXCEPT ![g] = answer[p][g]]
    BY <1>1 DEF WriteField, Governed, TypeInv, TypeOK, LockHeld
  <2>2. ~ \E q \in Callers : Acquire(q)
    BY <2>1 DEF Acquire
  <2>3. Settled' = Settled
    BY <2>2, SettledSteps DEF Governed
  <2>4. Settled[g] = answer[p][g]
    BY <2>1 DEF Settled
  <2>5. \A f \in StatusField : status'[f] = IF f = g THEN answer[p][g] ELSE status[f]
    BY <2>1 DEF Governed, TypeInv, TypeOK, APIStatus, StatusField
  <2> QED BY <2>3, <2>4, <2>5
<1>2. ASSUME status' = status
      PROVE  \A f \in StatusField : status'[f] = status[f] \/ (status'[f] = Settled[f] /\ Settled' = Settled)
  BY <1>2
<1>3. ASSUME NEW p \in Callers,
             \/ RoundTrip(p) \/ Cancel(p) \/ Acquire(p) \/ ReadReset(p) \/ Decide(p) \/ Throttle(p)
             \/ Wake(p) \/ Respond(p) \/ RetryBelow(p) \/ NoHeaders(p) \/ Release(p)
             \/ \E f \in StatusField : ReadField(p, f)
      PROVE  status' = status
  BY <1>3 DEF RoundTrip, Cancel, Acquire, ReadReset, Decide, Throttle, Wake, Respond, RetryBelow,
              NoHeaders, Release, ReadField, CountSend
<1>4. CASE Tick \/ UNCHANGED vars
  BY <1>2, <1>4 DEF Tick, vars
<1> QED BY <1>1, <1>2, <1>3, <1>4 DEF Next, Step

LEMMA ReportedKept ==
  ASSUME Governed, Governed', [Next]_vars, server'.reset = server.reset,
         NEW v \in 1 .. Limit, Reported(v)
  PROVE  Reported(v)'
<1>1. Shows(Settled, v)'
  BY SettledKept DEF Reported
<1>2. \A f \in {"limit", "remaining", "reset"} : status'[f] \in {status[f], Settled[f]}
  BY StatusSteps DEF StatusField
<1>3. /\ status'.limit \in {status.limit, Settled.limit}
      /\ status'.remaining \in {status.remaining, Settled.remaining}
      /\ status'.reset \in {status.reset, Settled.reset}
  BY <1>2
<1>4. Shows(status, v)'
  BY <1>3 DEF Reported, Shows
<1> QED BY <1>1, <1>4 DEF Reported

(* A caller that does nothing stays excused.                                *)
LEMMA BystanderExcused ==
  ASSUME Governed, Governed', [Next]_vars, server'.reset = server.reset,
         NEW q \in Callers, NEW v \in 1 .. Limit, NEW k,
         pc'[q] = pc[q], seen'[q] = seen[q], wake'[q] = wake[q], attempts'[q] = attempts[q],
         answer'[q] = answer[q], now' >= now, Excused(q, v, k)
  PROVE  Excused(q, v, k)'
<1>1. Reported(v) => Reported(v)'
  BY ReportedKept
<1>2. Shows(Settled, v) => Shows(Settled, v)'
  BY SettledKept
<1>3. Shows(answer[q], v) => Shows(answer[q], v)'
  BY DEF Shows
<1>4. now >= server.reset => now' >= server'.reset
  BY DEF Governed, TypeInv, TypeOK
<1> QED BY <1>1, <1>2, <1>3, <1>4 DEF Excused

(* The response a caller takes to Update is settled once it has the lock.   *)
LEMMA AcquireSettles ==
  ASSUME Governed, Governed', NEW p \in Callers, Acquire(p), NEW v \in 1 .. Limit, Shows(answer[p], v)
  PROVE  Shows(Settled, v)'
<1>1. /\ answer[p] \in absorbed' /\ server' = server /\ absorbed' \subseteq Response
      /\ server.reset \in Nat
  BY DEF Acquire, Governed, TypeInv, TypeOK
<1>2. /\ Settled' \in absorbed'
      /\ answer[p].reset <= Settled'.reset
      /\ answer[p].reset = Settled'.reset => Settled'.remaining <= answer[p].remaining
  BY <1>1 DEF Governed, StatusIsSummary, Summarizes
<1>3. /\ Settled'.reset \in Nat /\ Settled'.remaining \in Nat /\ Settled'.limit = Limit
      /\ answer[p].remaining \in Nat
  BY <1>1, <1>2 DEF Response
<1>4. Settled' \in Known'
  BY <1>2 DEF Known
<1>5. Settled'.reset <= server.reset
  BY <1>1, <1>3, <1>4, Numbers DEF Governed, WindowsApart
<1>6. answer[p].reset = server.reset /\ answer[p].remaining <= Limit - v
  BY DEF Shows
<1>7. Settled'.reset = server.reset
  BY <1>1, <1>2, <1>3, <1>5, <1>6
<1> QED BY <1>1, <1>2, <1>3, <1>6, <1>7, Numbers DEF Shows

(* Up to the next decision and the next send a caller stays excused.        *)
LEMMA ActorExcused ==
  ASSUME Governed, Governed', Unseen, [Next]_vars,
         NEW p \in Callers, NEW v \in 1 .. Limit, NEW k, Excused(p, v, k),
         \/ RoundTrip(p) \/ Cancel(p) \/ ReadReset(p) \/ Throttle(p) \/ Wake(p) \/ Acquire(p)
         \/ Release(p) \/ \E f \in StatusField : ReadField(p, f) \/ WriteField(p, f)
  PROVE  Excused(p, v, k)'
<1> USE DEF Goto, Return
<1>0. /\ pc \in [Callers -> Labels] /\ wake \in [Callers -> Nat]
      /\ seen \in [Callers -> [StatusField -> Nat \cup {Unread}]]
      /\ server.reset \in Nat /\ now \in Nat /\ status \in APIStatus
  BY DEF Governed, TypeInv, TypeOK
<1>a. server' = server
  BY DEF RoundTrip, Cancel, ReadReset, Throttle, Wake, Acquire, Release, ReadField, WriteField
<1>b. Reported(v) => Reported(v)'
  BY <1>a, ReportedKept
<1>1. CASE RoundTrip(p)
  <2>1. pc[p] = "idle" /\ pc'[p] = "check"
    BY <1>0, <1>1 DEF RoundTrip
  <2> QED BY <1>b, <2>1 DEF Excused
<1>2. CASE Cancel(p)
  <2>1. pc[p] = "sleep" /\ pc'[p] = "idle"
    BY <1>0, <1>2 DEF Cancel
  <2> QED BY <1>b, <2>1 DEF Excused
<1>3. CASE ReadReset(p)
  <2>1. pc[p] = "check"
    BY <1>3 DEF ReadReset
  <2>2. Reported(v)
    BY <2>1 DEF Excused
  <2>3. CASE pc'[p] = "send"
    <3>1. status.reset + WindowLength < now /\ now' = now
      BY <1>0, <1>3, <2>3 DEF ReadReset
    <3>2. now' >= server'.reset
      BY <1>0, <1>a, <2>2, <3>1, Numbers DEF Reported, Shows
    <3> QED BY <2>3, <3>2 DEF Excused
  <2>4. CASE pc'[p] = "read" /\ seen' = [seen EXCEPT ![p].reset = status.reset]
    <3>1. seen'[p].limit = Unread /\ seen'[p].remaining = Unread
      BY <1>0, <2>1, <2>4 DEF Unseen, StatusField
    <3>2. seen'[p].remaining <= Limit - v
      BY <3>1, Numbers DEF Unread
    <3> QED BY <1>b, <2>2, <2>4, <3>1, <3>2 DEF Excused
  <2> QED BY <1>0, <1>3, <2>3, <2>4 DEF ReadReset
<1>4. CASE Throttle(p)
  <2>1. pc[p] = "throttle" /\ pc'[p] = "sleep" /\ wake'[p] = status.reset
    BY <1>0, <1>4 DEF Throttle
  <2>2. Reported(v)
    BY <2>1 DEF Excused
  <2>3. wake'[p] >= server'.reset
    BY <1>0, <1>a, <2>1, <2>2 DEF Reported, Shows
  <2> QED BY <1>b, <2>1, <2>2, <2>3 DEF Excused
<1>5. CASE Wake(p)
  <2>1. pc[p] = "sleep" /\ pc'[p] = "send" /\ now >= wake[p] /\ now' = now
    BY <1>0, <1>5 DEF Wake
  <2>2. now' >= server'.reset
    BY <1>0, <1>a, <2>1 DEF Excused
  <2> QED BY <2>1, <2>2 DEF Excused
<1>6. CASE Acquire(p)
  <2>1. pc[p] = "respond" /\ pc'[p] = "update"
    BY <1>0, <1>6 DEF Acquire
  <2>2. Shows(Settled, v)'
    BY <1>6, <2>1, AcquireSettles DEF Excused
  <2> QED BY <2>1, <2>2 DEF Excused
<1>7. CASE Release(p)
  <2>1. pc[p] = "update" /\ pc'[p] = "idle" /\ lock' = Nobody /\ status' = status
    BY <1>0, <1>7 DEF Release
  <2>2. Shows(Settled, v)'
    BY <1>a, <2>1, SettledKept DEF Excused
  <2>3. Settled' = status'
    BY <2>1 DEF Settled
  <2> QED BY <2>1, <2>2, <2>3 DEF Excused, Reported, Shows
<1>8. ASSUME NEW f \in StatusField, ReadField(p, f)
      PROVE  Excused(p, v, k)'
  <2>1. pc[p] = "read" /\ pc'[p] = "read" /\ seen' = [seen EXCEPT ![p][f] = status[f]]
    BY <1>8 DEF ReadField
  <2>2. Reported(v) /\ seen[p].limit \in {Unread, Limit} /\ seen[p].remaining <= Limit - v
    BY <2>1 DEF Excused
  <2>3. seen'[p].limit \in {seen[p].limit, status.limit} /\ seen'[p].remaining \in {seen[p].remaining, status.remaining}
    BY <1>0, <2>1 DEF StatusField
  <2>4. seen'[p].limit \in {Unread, Limit} /\ seen'[p].remaining <= Limit - v
    BY <2>2, <2>3 DEF Reported, Shows
  <2> QED BY <1>b, <2>1, <2>2, <2>4 DEF Excused
<1>9. ASSUME NEW f \in StatusField, WriteField(p, f)
      PROVE  Excused(p, v, k)'
  <2>1. pc[p] = "update" /\ pc'[p] = "update"
    BY <1>9 DEF WriteField
  <2>2. Shows(Settled, v)'
    BY <1>a, <2>1, SettledKept DEF Excused
  <2> QED BY <2>1, <2>2 DEF Excused
<1> QED BY <1>1, <1>2, <1>3, <1>4, <1>5, <1>6, <1>7, <1>8, <1>9

-----------------------------------------------------------------------------
(* The ledger, step by step.                                                *)
LEMMA LedgerRaised ==
  ASSUME TypeInv, server' = server, lost' = lost,
         NEW lo \in Nat, NEW who \in [Nat -> Callers \cup {Nobody}], NEW trip \in [Nat -> Nat],
         NEW nth \in [Nat -> Nat], Ledger(lo, who, trip, nth),
         NEW l \in Nat, l >= lo, 100 * l <= Capacity * Limit,
         \A v \in 1 .. Limit : v > l /\ v <= server.used /\ who[v] \in Callers /\ Excused(who[v], v, nth[v])
                                 => Excused(who[v], v, nth[v])'
  PROVE  Ledger(l, who, trip, nth)'
<1>1. server.used \in Nat /\ server.used <= Limit
  BY DEF TypeInv, TypeOK
<1>2. \A v \in (l + 1) .. server.used :
        v \in (lo + 1) .. server.used /\ v \in 1 .. Limit /\ v > l /\ v <= server.used /\ v \in Nat
  BY <1>1, Numbers
<1>3. \A v \in (l + 1) .. server'.used :
        /\ nth[v] \in 1 .. MaxAttempts
        /\ who[v] = Nobody => trip[v] \in 1 .. lost'
        /\ who[v] # Nobody => trip[v] = 0 /\ Excused(who[v], v, nth[v])'
  <2> SUFFICES ASSUME NEW v \in (l + 1) .. server.used
               PROVE  /\ nth[v] \in 1 .. MaxAttempts
                      /\ who[v] = Nobody => trip[v] \in 1 .. lost
                      /\ who[v] # Nobody => trip[v] = 0 /\ Excused(who[v], v, nth[v])'
      OBVIOUS
  <2>1. who[v] # Nobody => who[v] \in Callers
    BY <1>2
  <2> QED BY <1>2, <2>1 DEF Ledger
<1>4. \A v, w \in (l + 1) .. server'.used :
        who[v] = who[w] /\ trip[v] = trip[w] /\ nth[v] = nth[w] => v = w
  BY <1>2 DEF Ledger
<1> QED BY <1>3, <1>4 DEF Ledger

LEMMA CapacityIsAProduct == Capacity * Limit \in Nat
BY Numbers

(* A step that does not decide and does not send.                           *)
LEMMA QuietAccounted ==
  ASSUME Governed, Governed', Unseen, [Next]_vars, Accounted, NEW p \in Callers,
         \/ RoundTrip(p) \/ Cancel(p) \/ ReadReset(p) \/ Throttle(p) \/ Wake(p) \/ Acquire(p)
         \/ Release(p) \/ \E f \in StatusField : ReadField(p, f) \/ WriteField(p, f)
  PROVE  Accounted'
<1>1. PICK lo \in Nat, who \in [Nat -> Callers \cup {Nobody}], trip \in [Nat -> Nat], nth \in [Nat -> Nat] :
        Ledger(lo, who, trip, nth)
  BY DEF Accounted
<1>2. server' = server /\ lost' = lost /\ now' = now
  BY DEF RoundTrip, Cancel, ReadReset, Throttle, Wake, Acquire, Release, ReadField, WriteField
<1>3. \A q \in Callers : q # p =>
        /\ pc'[q] = pc[q] /\ seen'[q] = seen[q] /\ wake'[q] = wake[q]
        /\ attempts'[q] = attempts[q] /\ answer'[q] = answer[q]
  BY DEF RoundTrip, Cancel, ReadReset, Throttle, Wake, Acquire, Release, ReadField, WriteField,
         Goto, Return, Governed, TypeInv, TypeOK
<1>4. \A q \in Callers, v \in 1 .. Limit, k \in Nat : Excused(q, v, k) => Excused(q, v, k)'
  <2> SUFFICES ASSUME NEW q \in Callers, NEW v \in 1 .. Limit, NEW k \in Nat, Excused(q, v, k)
               PROVE  Excused(q, v, k)'
      OBVIOUS
  <2>1. CASE q = p
    BY <2>1, ActorExcused
  <2>2. CASE q # p
    <3>1. now' >= now
      BY <1>2 DEF Governed, TypeInv, TypeOK
    <3> QED BY <1>2, <1>3, <2>2, <3>1, BystanderExcused
  <2> QED BY <2>1, <2>2
<1>5. \A v \in 1 .. Limit : v \in Nat
  BY Numbers
<1>6. lo >= lo /\ 100 * lo <= Capacity * Limit
  BY <1>1 DEF Ledger
<1>7. \A v \in 1 .. Limit : v > lo /\ v <= server.used /\ who[v] \in Callers /\ Excused(who[v], v, nth[v])
                              => Excused(who[v], v, nth[v])'
  BY <1>4, <1>5
<1>8. Ledger(lo, who, trip, nth)'
  BY <1>1, <1>2, <1>6, <1>7, LedgerRaised DEF Governed
<1> QED BY <1>8 DEF Accounted

LEMMA TickAccounted ==
  ASSUME Governed, Governed', [Next]_vars, Accounted, Tick \/ UNCHANGED vars
  PROVE  Accounted'
<1>1. PICK lo \in Nat, who \in [Nat -> Callers \cup {Nobody}], trip \in [Nat -> Nat], nth \in [Nat -> Nat] :
        Ledger(lo, who, trip, nth)
  BY DEF Accounted
<1>2. /\ server' = server /\ lost' = lost /\ now' >= now
      /\ UNCHANGED << pc, seen, wake, attempts, answer >>
  BY DEF Tick, vars, Governed, TypeInv, TypeOK
<1>3. \A q \in Callers, v \in 1 .. Limit, k \in Nat : Excused(q, v, k) => Excused(q, v, k)'
  BY <1>2, BystanderExcused
<1>4. \A v \in 1 .. Limit : v \in Nat
  BY Numbers
<1>5. lo >= lo /\ 100 * lo <= Capacity * Limit
  BY <1>1 DEF Ledger
<1>6. \A v \in 1 .. Limit : v > lo /\ v <= server.used /\ who[v] \in Callers /\ Excused(who[v], v, nth[v])
                              => Excused(who[v], v, nth[v])'
  BY <1>3, <1>4
<1>7. Ledger(lo, who, trip, nth)'
  BY <1>1, <1>2, <1>5, <1>6, LedgerRaised DEF Governed
<1> QED BY <1>7 DEF Accounted

(* HasCapacity answers yes only if what it read is within the capacity.     *)
LEMMA WithinCapacity ==
  ASSUME NEW remaining \in Int, TRUE \in CapacityAnswers(Limit, remaining)
  PROVE  100 * (Limit - remaining) <= Capacity * Limit
BY Numbers DEF CapacityAnswers, Within

(* The decision: what is on the ledger of the caller is no longer above the *)
(* level that it has seen to be within the capacity.                        *)
LEMMA DecideAccounted ==
  ASSUME Governed, Governed', Unseen, [Next]_vars, Accounted, NEW p \in Callers, Decide(p)
  PROVE  Accounted'
<1> DEFINE unread == [f \in StatusField |-> Unread]
           u == Limit - seen[p].remaining
<1>0. PICK lo \in Nat, who \in [Nat -> Callers \cup {Nobody}], trip \in [Nat -> Nat], nth \in [Nat -> Nat] :
        Ledger(lo, who, trip, nth)
  BY DEF Accounted
<1>1. /\ server' = server /\ lost' = lost /\ now' = now /\ now' >= now
      /\ UNCHANGED << wake, attempts, answer >>
      /\ pc[p] = "read" /\ seen[p].limit # Unread /\ seen[p].remaining # Unread
  BY DEF Decide, Governed, TypeInv, TypeOK, StatusField
<1>2. \/ pc' = [pc EXCEPT ![p] = "send"] /\ seen' = [seen EXCEPT ![p] = unread]
         /\ (seen[p].limit = Limit => TRUE \in CapacityAnswers(Limit, seen[p].remaining))
      \/ pc' = [pc EXCEPT ![p] = "throttle"] /\ seen' = seen
  <2>1. PICK ok \in CapacityAnswers(seen[p].limit, seen[p].remaining) :
          IF ok THEN pc' = [pc EXCEPT ![p] = "send"] /\ seen' = [seen EXCEPT ![p] = unread]
                ELSE pc' = [pc EXCEPT ![p] = "throttle"] /\ seen' = seen
    BY DEF Decide, Goto
  <2> HIDE DEF unread
  <2>2. CASE seen[p].limit = Limit
    <3>1. ok \in BOOLEAN
      BY <2>2, Numbers DEF CapacityAnswers, Within
    <3>2. CASE ok = TRUE BY <2>1, <2>2, <3>2
    <3>3. CASE ok = FALSE BY <2>1, <3>3
    <3> QED BY <3>1, <3>2, <3>3
  <2>3. CASE seen[p].limit # Limit
    BY <2>1, <2>3
  <2> QED BY <2>2, <2>3
<1> HIDE DEF unread
<1>3. \A q \in Callers, v \in 1 .. Limit, k \in Nat : q # p /\ Excused(q, v, k) => Excused(q, v, k)'
  <2>1. \A q \in Callers : q # p => pc'[q] = pc[q] /\ seen'[q] = seen[q]
    BY <1>2 DEF Governed, TypeInv, TypeOK
  <2> QED BY <1>1, <2>1, BystanderExcused
<1>4. \A v \in 1 .. Limit : v \in Nat
  BY Numbers
<1>5. lo >= lo /\ 100 * lo <= Capacity * Limit
  BY <1>0 DEF Ledger
<1>6. CASE pc'[p] = "throttle"
  <2>1. \A v \in 1 .. Limit, k \in Nat : Excused(p, v, k) => Excused(p, v, k)'
    BY <1>1, <1>6, ReportedKept DEF Excused
  <2>2. \A v \in 1 .. Limit : v > lo /\ v <= server.used /\ who[v] \in Callers /\ Excused(who[v], v, nth[v])
                                => Excused(who[v], v, nth[v])'
    BY <1>3, <1>4, <2>1
  <2>3. Ledger(lo, who, trip, nth)'
    BY <1>0, <1>1, <1>5, <2>2, LedgerRaised DEF Governed
  <2> QED BY <2>3 DEF Accounted
<1>7. CASE \A v \in (lo + 1) .. server.used : who[v] # p
  <2>1. \A v \in 1 .. Limit : v > lo /\ v <= server.used /\ who[v] \in Callers /\ Excused(who[v], v, nth[v])
                                => Excused(who[v], v, nth[v])'
    <3>1. \A v \in 1 .. Limit : v > lo /\ v <= server.used => who[v] # p
      BY <1>7 DEF Governed, TypeInv, TypeOK
    <3> QED BY <1>3, <1>4, <3>1
  <2>2. Ledger(lo, who, trip, nth)'
    BY <1>0, <1>1, <1>5, <2>1, LedgerRaised DEF Governed
  <2> QED BY <2>2 DEF Accounted
<1>8. CASE pc'[p] # "throttle" /\ \E v \in (lo + 1) .. server.used : who[v] = p
  <2>1. server.used \in Nat /\ server.used <= Limit
    BY DEF Governed, TypeInv, TypeOK
  <2>2. \A v \in (lo + 1) .. server.used : v \in 1 .. Limit /\ v \in Nat
    BY <2>1, Numbers
  <2>3. \A v \in (lo + 1) .. server.used : who[v] = p =>
          seen[p].limit \in {Unread, Limit} /\ seen[p].remaining <= Limit - v
    BY <1>0, <1>1, Numbers DEF Ledger, Excused
  <2>4. seen[p].limit = Limit /\ seen[p].remaining \in Nat /\ u \in Int
    BY <1>1, <1>8, <2>3, Numbers DEF Governed, TypeInv, TypeOK, StatusField
  <2>5. TRUE \in CapacityAnswers(Limit, seen[p].remaining)
    <3>1. pc' = [pc EXCEPT ![p] = "throttle"] => pc'[p] = "throttle"
      BY DEF Governed, TypeInv, TypeOK
    <3> QED BY <1>2, <1>8, <2>4, <3>1
  <2>6. 100 * u <= Capacity * Limit
    <3>1. seen[p].remaining \in Int
      BY <2>4
    <3> QED BY <2>5, <3>1, WithinCapacity, Zenon
  <2>7. \A v \in (lo + 1) .. server.used : who[v] = p => v <= u
    BY <2>2, <2>3, <2>4, Numbers
  <2>8. PICK l \in Nat : l >= lo /\ l >= u /\ 100 * l <= Capacity * Limit
    <3>1. CASE u >= lo
      <4>1. u \in Nat BY <2>4, <3>1
      <4> QED BY <2>6, <3>1, <4>1
    <3>2. CASE u < lo
      BY <1>5, <2>4, <3>2
    <3> QED BY <2>4, <3>1, <3>2
  <2>9. \A v \in 1 .. Limit : v > l /\ v <= server.used /\ who[v] \in Callers /\ Excused(who[v], v, nth[v])
                                => Excused(who[v], v, nth[v])'
    <3>1. \A v \in 1 .. Limit : v > l /\ v <= server.used => v \in (lo + 1) .. server.used /\ v > u
      BY <2>1, <2>4, <2>8, Numbers
    <3>2. \A v \in 1 .. Limit : v > l /\ v <= server.used => who[v] # p
      BY <2>4, <2>7, <3>1
    <3> QED BY <1>3, <1>4, <3>2
  <2>10. Ledger(l, who, trip, nth)'
    BY <1>0, <1>1, <2>8, <2>9, LedgerRaised DEF Governed
  <2> QED BY <2>10 DEF Accounted
<1> QED BY <1>6, <1>7, <1>8

(* A send whose answer is still to come, or has come: it goes on the        *)
(* caller's ledger, after the caller's earlier sends of this RoundTrip.     *)
LEMMA SentAccounted ==
  ASSUME Governed, Governed', [Next]_vars, Accounted, NEW p \in Callers, Respond(p) \/ RetryBelow(p)
  PROVE  Accounted'
<1>0. PICK lo \in Nat, who \in [Nat -> Callers \cup {Nobody}], trip \in [Nat -> Nat], nth \in [Nat -> Nat] :
        Ledger(lo, who, trip, nth)
  BY DEF Accounted
<1>1. /\ pc[p] = "send" /\ server' = Admitted /\ lost' = LostSoFar /\ now' = now
      /\ seen' = seen /\ wake' = wake
  BY DEF Respond, RetryBelow, CountSend
<1>2. /\ attempts[p] \in Nat /\ attempts[p] + 1 \in 1 .. MaxAttempts /\ attempts'[p] = attempts[p] + 1
      /\ \A q \in Callers : q # p =>
           pc'[q] = pc[q] /\ answer'[q] = answer[q] /\ attempts'[q] = attempts[q]
  BY <1>1, Numbers DEF Respond, RetryBelow, CountSend, Goto, Governed, TypeInv, TypeOK, CallsInOrder
<1>n. PICK n \in 1 .. MaxAttempts : n = attempts[p] + 1
  BY <1>2
<1>3. \/ pc'[p] = "respond" /\ answer'[p] = Headers(server')
      \/ pc'[p] = "send"
  BY <1>1 DEF Respond, RetryBelow, Goto, Governed, TypeInv, TypeOK
<1>4. /\ server.used \in Nat /\ server.used <= Limit /\ server.reset \in Nat /\ now \in Nat
      /\ server'.used \in Nat /\ server'.used <= Limit
  BY DEF Governed, TypeInv, TypeOK
<1>5. \A v \in 1 .. Limit, k \in Nat : v <= server'.used /\ k <= n => Excused(p, v, k)'
  <2> SUFFICES ASSUME NEW v \in 1 .. Limit, NEW k \in Nat, v <= server'.used, k <= n
               PROVE  Excused(p, v, k)'
      OBVIOUS
  <2>1. CASE pc'[p] = "send"
    BY <1>2, <1>n, <2>1 DEF Excused
  <2>2. CASE pc'[p] = "respond" /\ answer'[p] = Headers(server')
    <3>1. Shows(answer[p], v)'
      BY <1>4, <2>2, Numbers DEF Shows, Headers
    <3> QED BY <2>2, <3>1 DEF Excused
  <2> QED BY <1>3, <2>1, <2>2
<1>6. CASE now >= server.reset
  <2> DEFINE whoA == [v \in Nat |-> p]
             tripA == [v \in Nat |-> 0]
             nthA == [v \in Nat |-> n]
  <2>1. server'.used = 1 /\ p # Nobody
    BY <1>1, <1>6, Numbers DEF Admitted
  <2>2. \A v \in 1 .. 1 : v = 1 /\ v \in Nat /\ v \in 1 .. Limit
    BY Numbers
  <2>3. Excused(p, 1, n)'
    BY <1>2, <1>n, <1>5, <2>1, <2>2, Numbers
  <2>4. whoA \in [Nat -> Callers \cup {Nobody}] /\ tripA \in [Nat -> Nat] /\ nthA \in [Nat -> Nat]
    BY <1>2, <1>n
  <2>5. 100 * 0 <= Capacity * Limit
    BY CapacityIsAProduct
  <2>6. Ledger(0, whoA, tripA, nthA)'
    BY <1>2, <1>n, <2>1, <2>2, <2>3, <2>5 DEF Ledger
  <2> QED BY <2>4, <2>6 DEF Accounted
<1>7. CASE ~(now >= server.reset)
  <2>u. PICK u \in Nat : u = server.used + 1
    BY <1>4
  <2>2. PICK whoA \in [Nat -> Callers \cup {Nobody}], tripA \in [Nat -> Nat], nthA \in [Nat -> Nat] :
          /\ whoA = [who EXCEPT ![u] = p]
          /\ tripA = [trip EXCEPT ![u] = 0]
          /\ nthA = [nth EXCEPT ![u] = n]
    <3>1. [who EXCEPT ![u] = p] \in [Nat -> Callers \cup {Nobody}]
      OBVIOUS
    <3>2. [trip EXCEPT ![u] = 0] \in [Nat -> Nat] /\ [nth EXCEPT ![u] = n] \in [Nat -> Nat]
      OBVIOUS
    <3> QED BY <3>1, <3>2, Zenon
  <2>1. /\ server'.reset = server.reset /\ lost' = lost /\ u \in Nat
        /\ server'.used \in {server.used, u}
    BY <1>1, <1>4, <1>7, <2>u DEF Admitted, LostSoFar, Governed, TypeInv, TypeOK
  <2>3. /\ whoA[u] = p /\ tripA[u] = 0 /\ nthA[u] = n
        /\ \A v \in Nat : v # u => whoA[v] = who[v] /\ tripA[v] = trip[v] /\ nthA[v] = nth[v]
    BY <2>2
  <2>4. \A v \in (lo + 1) .. server'.used :
          v \in Nat /\ v \in 1 .. Limit /\ v <= server'.used /\ (v # u => v \in (lo + 1) .. server.used)
    <3> SUFFICES ASSUME NEW v \in (lo + 1) .. server'.used
                 PROVE  /\ v \in Nat /\ v \in 1 .. Limit /\ v <= server'.used
                        /\ v # u => v \in (lo + 1) .. server.used
        OBVIOUS
    <3>1. v \in Nat /\ v \in 1 .. Limit /\ v <= server'.used /\ v >= lo + 1
      BY <1>4, Numbers
    <3>2. server'.used <= server.used \/ server'.used = server.used + 1
      BY <1>4, <2>1, <2>u
    <3>3. v # u => v <= server.used
      <4>1. CASE server'.used <= server.used
        BY <1>4, <3>1, <4>1
      <4>2. CASE server'.used = server.used + 1
        BY <1>4, <2>u, <3>1, <4>2
      <4> QED BY <3>2, <4>1, <4>2
    <3> QED BY <1>4, <3>1, <3>3
  <2>5. \A v \in (lo + 1) .. server'.used : v # u /\ who[v] = p => trip[v] = 0 /\ nth[v] <= attempts[p]
    BY <1>0, <1>1, <1>7, <2>4, Numbers DEF Ledger, Excused
  <2>6. \A v \in (lo + 1) .. server'.used :
          /\ nthA[v] \in 1 .. MaxAttempts
          /\ whoA[v] = Nobody => tripA[v] \in 1 .. lost'
          /\ whoA[v] # Nobody => tripA[v] = 0 /\ Excused(whoA[v], v, nthA[v])'
    <3> SUFFICES ASSUME NEW v \in (lo + 1) .. server'.used
                 PROVE  /\ nthA[v] \in 1 .. MaxAttempts
                        /\ whoA[v] = Nobody => tripA[v] \in 1 .. lost'
                        /\ whoA[v] # Nobody => tripA[v] = 0 /\ Excused(whoA[v], v, nthA[v])'
        OBVIOUS
    <3>1. CASE v = u
      <4>1. Excused(p, v, n)'
        BY <1>2, <1>n, <1>5, <2>4
      <4> QED BY <1>2, <1>n, <2>3, <3>1, <4>1, Numbers
    <3>2. CASE v # u /\ who[v] = p
      <4>1. nth[v] \in Nat /\ nth[v] <= n
        BY <1>2, <1>n, <2>4, <2>5, <3>2
      <4>2. Excused(p, v, nth[v])'
        <5>1. v \in 1 .. Limit /\ v <= server'.used
          BY <2>4
        <5>2. PICK k \in Nat : k = nth[v]
          BY <4>1
        <5>3. k <= n
          BY <4>1, <5>2
        <5>4. Excused(p, v, k)'
          BY <1>5, <5>1, <5>3
        <5> QED BY <5>2, <5>4
      <4>3. nth[v] \in 1 .. MaxAttempts /\ trip[v] = 0
        BY <1>0, <2>4, <2>5, <3>2 DEF Ledger
      <4> QED BY <2>3, <2>4, <3>2, <4>2, <4>3, Numbers
    <3>3. CASE v # u /\ who[v] # p
      <4>1. /\ nth[v] \in 1 .. MaxAttempts
            /\ who[v] = Nobody => trip[v] \in 1 .. lost
            /\ who[v] # Nobody => trip[v] = 0 /\ Excused(who[v], v, nth[v])
        BY <1>0, <2>4, <3>3 DEF Ledger
      <4>2. ASSUME who[v] # Nobody PROVE Excused(who[v], v, nth[v])'
        <5>1. who[v] \in Callers /\ who[v] # p /\ now' >= now /\ nth[v] \in Nat
          BY <1>1, <1>4, <2>4, <3>3, <4>2
        <5> QED BY <1>1, <1>2, <1>n, <2>1, <2>4, <4>1, <4>2, <5>1, BystanderExcused
      <4> QED BY <2>1, <2>3, <2>4, <3>3, <4>1, <4>2
    <3> QED BY <3>1, <3>2, <3>3
  <2>7. \A v, w \in (lo + 1) .. server'.used :
          whoA[v] = whoA[w] /\ tripA[v] = tripA[w] /\ nthA[v] = nthA[w] => v = w
    <3>1. \A v \in (lo + 1) .. server'.used : v # u /\ whoA[v] = p => nthA[v] # n
      BY <1>2, <1>n, <2>3, <2>4, <2>5
    <3>2. \A v, w \in (lo + 1) .. server'.used :
            v # u /\ w # u /\ whoA[v] = whoA[w] /\ tripA[v] = tripA[w] /\ nthA[v] = nthA[w] => v = w
      <4>1. \A v, w \in (lo + 1) .. server.used :
              who[v] = who[w] /\ trip[v] = trip[w] /\ nth[v] = nth[w] => v = w
        BY <1>0 DEF Ledger

      <4> SUFFICES ASSUME NEW v \in (lo + 1) .. server'.used, NEW w \in (lo + 1) .. server'.used, v # u, w # u,
                          whoA[v] = whoA[w], tripA[v] = tripA[w], nthA[v] = nthA[w]
                   PROVE  v = w
          OBVIOUS
      <4>2. v \in (lo + 1) .. server.used /\ w \in (lo + 1) .. server.used /\ v \in Nat /\ w \in Nat
        BY <2>4
      <4>3. who[v] = who[w] /\ trip[v] = trip[w] /\ nth[v] = nth[w]
        BY <2>3, <4>2
      <4> QED BY <4>1, <4>2, <4>3
    <3> SUFFICES ASSUME NEW v \in (lo + 1) .. server'.used, NEW w \in (lo + 1) .. server'.used,
                        whoA[v] = whoA[w], tripA[v] = tripA[w], nthA[v] = nthA[w]
                 PROVE  v = w
        OBVIOUS
    <3>3. CASE v = u
      BY <2>3, <3>1, <3>3
    <3>4. CASE w = u
      BY <2>3, <3>1, <3>4
    <3> QED BY <3>2, <3>3, <3>4
  <2>8. Ledger(lo, whoA, tripA, nthA)'
    BY <1>0, <2>6, <2>7 DEF Ledger
  <2> QED BY <2>2, <2>8 DEF Accounted
<1> QED BY <1>6, <1>7

(* A RoundTrip that tells nothing: its sends leave the caller's ledger and  *)
(* are on account of the losses.                                            *)
LEMMA LostAccounted ==
  ASSUME Governed, Governed', [Next]_vars, Accounted, NEW p \in Callers, NoHeaders(p)
  PROVE  Accounted'
<1>0. PICK lo \in Nat, who \in [Nat -> Callers \cup {Nobody}], trip \in [Nat -> Nat], nth \in [Nat -> Nat] :
        Ledger(lo, who, trip, nth)
  BY DEF Accounted
<1>1. /\ pc[p] = "send" /\ server' = Admitted /\ lost' = LostSoFar + 1 /\ now' = now
      /\ seen' = seen /\ wake' = wake /\ answer' = answer
  BY DEF NoHeaders
<1>2. /\ attempts[p] \in Nat /\ attempts[p] + 1 \in 1 .. MaxAttempts /\ lost \in Nat
      /\ \A q \in Callers : q # p => pc'[q] = pc[q] /\ attempts'[q] = attempts[q]
  BY <1>1, Numbers DEF NoHeaders, Return, Goto, Governed, TypeInv, TypeOK, CallsInOrder
<1>n. PICK n \in 1 .. MaxAttempts : n = attempts[p] + 1
  BY <1>2
<1>l. PICK l \in Nat : l = lost + 1
  BY <1>2
<1>3. /\ server.used \in Nat /\ server.used <= Limit /\ server.reset \in Nat /\ now \in Nat
      /\ server'.used \in Nat /\ server'.used <= Limit
  BY DEF Governed, TypeInv, TypeOK
<1>4. CASE now >= server.reset
  <2> DEFINE whoA == [v \in Nat |-> Nobody]
             tripA == [v \in Nat |-> 1]
             nthA == [v \in Nat |-> n]
  <2>1. server'.used = 1 /\ lost' = 1
    BY <1>1, <1>4 DEF Admitted, LostSoFar
  <2>2. \A v \in 1 .. 1 : v = 1 /\ v \in Nat /\ v \in 1 .. Limit
    BY Numbers
  <2>3. whoA \in [Nat -> Callers \cup {Nobody}] /\ tripA \in [Nat -> Nat] /\ nthA \in [Nat -> Nat]
    BY <1>2, <1>n
  <2>4. 100 * 0 <= Capacity * Limit
    BY CapacityIsAProduct
  <2>5. Ledger(0, whoA, tripA, nthA)'
    BY <1>2, <1>n, <2>1, <2>2, <2>4 DEF Ledger
  <2> QED BY <2>3, <2>5 DEF Accounted
<1>5. CASE ~(now >= server.reset)
  <2>u. PICK u \in Nat : u = server.used + 1
    BY <1>3
  <2> DEFINE mine(v) == v = u \/ who[v] = p
  <2>2. PICK whoA \in [Nat -> Callers \cup {Nobody}], tripA \in [Nat -> Nat], nthA \in [Nat -> Nat] :
          /\ whoA = [v \in Nat |-> IF mine(v) THEN Nobody ELSE who[v]]
          /\ tripA = [v \in Nat |-> IF mine(v) THEN l ELSE trip[v]]
          /\ nthA = [nth EXCEPT ![u] = n]
    <3>1. [v \in Nat |-> IF mine(v) THEN Nobody ELSE who[v]] \in [Nat -> Callers \cup {Nobody}]
      OBVIOUS
    <3>2. [v \in Nat |-> IF mine(v) THEN l ELSE trip[v]] \in [Nat -> Nat]
      OBVIOUS
    <3>3. [nth EXCEPT ![u] = n] \in [Nat -> Nat]
      OBVIOUS
    <3> QED BY <3>1, <3>2, <3>3, Zenon
  <2>1. /\ server'.reset = server.reset /\ lost' = lost + 1 /\ u \in Nat
        /\ server'.used \in {server.used, u}
    BY <1>1, <1>3, <1>5, <2>u DEF Admitted, LostSoFar, Governed, TypeInv, TypeOK
  <2>3. /\ nthA[u] = n /\ \A v \in Nat : v # u => nthA[v] = nth[v]
        /\ \A v \in Nat : /\ mine(v) => whoA[v] = Nobody /\ tripA[v] = l
                          /\ ~mine(v) => whoA[v] = who[v] /\ tripA[v] = trip[v]
    BY <2>2
  <2>4. \A v \in (lo + 1) .. server'.used :
          v \in Nat /\ v \in 1 .. Limit /\ v <= server'.used /\ (v # u => v \in (lo + 1) .. server.used)
    <3> SUFFICES ASSUME NEW v \in (lo + 1) .. server'.used
                 PROVE  /\ v \in Nat /\ v \in 1 .. Limit /\ v <= server'.used
                        /\ v # u => v \in (lo + 1) .. server.used
        OBVIOUS
    <3>1. v \in Nat /\ v \in 1 .. Limit /\ v <= server'.used /\ v >= lo + 1
      BY <1>3, Numbers
    <3>2. server'.used <= server.used \/ server'.used = server.used + 1
      BY <1>3, <2>1, <2>u
    <3>3. v # u => v <= server.used
      BY <1>3, <2>u, <3>1, <3>2
    <3> QED BY <1>3, <3>1, <3>3
  <2>5. \A v \in (lo + 1) .. server'.used : v # u /\ who[v] = p => trip[v] = 0 /\ nth[v] <= attempts[p]
    BY <1>0, <1>1, <1>5, <2>4, Numbers DEF Ledger, Excused
  <2>6. \A v \in (lo + 1) .. server'.used :
          /\ nthA[v] \in 1 .. MaxAttempts
          /\ whoA[v] = Nobody => tripA[v] \in 1 .. lost'
          /\ whoA[v] # Nobody => tripA[v] = 0 /\ Excused(whoA[v], v, nthA[v])'
    <3> SUFFICES ASSUME NEW v \in (lo + 1) .. server'.used
                 PROVE  /\ nthA[v] \in 1 .. MaxAttempts
                        /\ whoA[v] = Nobody => tripA[v] \in 1 .. lost'
                        /\ whoA[v] # Nobody => tripA[v] = 0 /\ Excused(whoA[v], v, nthA[v])'
        OBVIOUS
    <3>0. v # u => /\ nth[v] \in 1 .. MaxAttempts
                   /\ who[v] = Nobody => trip[v] \in 1 .. lost
                   /\ who[v] # Nobody => trip[v] = 0 /\ Excused(who[v], v, nth[v])
      BY <1>0, <2>4 DEF Ledger
    <3>1. nthA[v] \in 1 .. MaxAttempts
      BY <1>2, <1>n, <2>3, <2>4, <3>0
    <3>2. CASE mine(v)
      BY <1>2, <1>l, <2>1, <2>3, <2>4, <3>1, <3>2
    <3>3. CASE ~mine(v)
      <4>1. ASSUME who[v] # Nobody PROVE Excused(who[v], v, nth[v])'
        <5>1. who[v] \in Callers /\ who[v] # p /\ now' >= now /\ nth[v] \in Nat
          BY <1>1, <1>3, <2>4, <3>3, <4>1
        <5>2. Excused(who[v], v, nth[v])
          BY <3>0, <3>3, <4>1
        <5> QED BY <1>1, <1>2, <1>n, <2>1, <2>4, <5>1, <5>2, BystanderExcused
      <4>2. who[v] = Nobody => trip[v] \in 1 .. lost'
        BY <1>2, <1>n, <2>1, <3>0, <3>3
      <4>3. whoA[v] = who[v] /\ tripA[v] = trip[v] /\ nthA[v] = nth[v]
        BY <2>3, <2>4, <3>3
      <4> QED BY <3>0, <3>1, <3>3, <4>1, <4>2, <4>3
    <3> QED BY <3>2, <3>3
  <2>7. \A v, w \in (lo + 1) .. server'.used :
          whoA[v] = whoA[w] /\ tripA[v] = tripA[w] /\ nthA[v] = nthA[w] => v = w
    <3>1. \A v \in (lo + 1) .. server'.used : v # u /\ who[v] = p => nthA[v] # n
      BY <1>2, <1>n, <2>3, <2>4, <2>5
    <3>2. \A v, w \in (lo + 1) .. server'.used :
            v # u /\ w # u /\ who[v] = who[w] /\ trip[v] = trip[w] /\ nthA[v] = nthA[w] => v = w
      BY <1>0, <2>3, <2>4 DEF Ledger
    <3>3. \A v \in (lo + 1) .. server'.used : ~mine(v) /\ whoA[v] = Nobody => tripA[v] # l
      <4> SUFFICES ASSUME NEW v \in (lo + 1) .. server'.used, ~mine(v), whoA[v] = Nobody
                   PROVE  tripA[v] # l
          OBVIOUS
      <4>1. v \in Nat /\ v \in (lo + 1) .. server.used
        BY <2>4
      <4>2. who[v] = Nobody /\ tripA[v] = trip[v]
        BY <2>3, <4>1
      <4>3. trip[v] \in 1 .. lost
        BY <1>0, <4>1, <4>2 DEF Ledger
      <4> QED BY <1>2, <1>l, <4>2, <4>3
    <3>4. \A v, w \in (lo + 1) .. server'.used :
            whoA[v] = whoA[w] /\ tripA[v] = tripA[w] => (mine(v) <=> mine(w))
      BY <2>3, <2>4, <3>3
    <3> SUFFICES ASSUME NEW v \in (lo + 1) .. server'.used, NEW w \in (lo + 1) .. server'.used,
                        whoA[v] = whoA[w], tripA[v] = tripA[w], nthA[v] = nthA[w]
                 PROVE  v = w
        OBVIOUS
    <3>5. CASE mine(v) /\ mine(w)
      BY <2>3, <2>5, <3>1, <3>2, <3>5
    <3>6. CASE ~mine(v) /\ ~mine(w)
      BY <2>3, <2>4, <3>2, <3>6
    <3> QED BY <3>4, <3>5, <3>6
  <2>8. Ledger(lo, whoA, tripA, nthA)'
    BY <1>0, <2>6, <2>7 DEF Ledger
  <2> QED BY <2>2, <2>8 DEF Accounted
<1> QED BY <1>4, <1>5

-----------------------------------------------------------------------------
(* A ledger has room for one RoundTrip of every caller and one for every    *)
(* loss.                                                                    *)
LEMMA Counted == ASSUME TypeOK, Accounted PROVE OvershootBounded
<1>0. PICK lo \in Nat, who \in [Nat -> Callers \cup {Nobody}], trip \in [Nat -> Nat], nth \in [Nat -> Nat] :
        Ledger(lo, who, trip, nth)
  BY DEF Accounted
<1> DEFINE S == (lo + 1) .. server.used
           Owners == (Callers \X {0}) \cup ({Nobody} \X (1 .. lost))
           T == Owners \X (1 .. MaxAttempts)
           f == [v \in S |-> << << who[v], trip[v] >>, nth[v] >>]
           c == Cardinality(Callers)
           places == MaxAttempts * (c + lost)
<1>1. server.used \in Nat /\ lost \in Nat
  BY DEF TypeOK
<1>2. IsFiniteSet(Owners) /\ Cardinality(Owners) = c + lost /\ c \in Nat
  <2>1. IsFiniteSet(Callers) /\ c \in Nat
    BY FS_CardinalityType, RateGovernorAssumption
  <2>2. IsFiniteSet({0}) /\ Cardinality({0}) = 1 /\ IsFiniteSet({Nobody}) /\ Cardinality({Nobody}) = 1
    BY FS_Singleton
  <2>3. IsFiniteSet(1 .. lost) /\ Cardinality(1 .. lost) = lost
    <3>1. 1 \in Int /\ lost \in Int
      BY <1>1
    <3>2. /\ IsFiniteSet(1 .. lost)
          /\ Cardinality(1 .. lost) = IF 1 > lost THEN 0 ELSE lost - 1 + 1
      BY <3>1, FS_Interval, Zenon
    <3> QED BY <1>1, <3>2
  <2>4. IsFiniteSet(Callers \X {0}) /\ Cardinality(Callers \X {0}) = c * 1
    BY <2>1, <2>2, FS_Product
  <2>5. IsFiniteSet({Nobody} \X (1 .. lost)) /\ Cardinality({Nobody} \X (1 .. lost)) = 1 * lost
    <3>1. IsFiniteSet({Nobody} \X (1 .. lost))
      BY <2>2, <2>3, FS_Product, Zenon
    <3>2. Cardinality({Nobody} \X (1 .. lost)) = Cardinality({Nobody}) * Cardinality(1 .. lost)
      BY <2>2, <2>3, FS_Product, Zenon
    <3> QED BY <2>2, <2>3, <3>1, <3>2, Zenon
  <2>6. (Callers \X {0}) \cap ({Nobody} \X (1 .. lost)) = {}
    BY Numbers
  <2>7. Cardinality((Callers \X {0}) \cap ({Nobody} \X (1 .. lost))) = 0
    BY <2>6, FS_EmptySet
  <2>8. /\ IsFiniteSet(Owners)
        /\ Cardinality(Owners) = Cardinality(Callers \X {0}) + Cardinality({Nobody} \X (1 .. lost))
                                 - Cardinality((Callers \X {0}) \cap ({Nobody} \X (1 .. lost)))
    BY <2>4, <2>5, FS_Union
  <2> HIDE DEF Owners, c
  <2> QED BY <1>1, <2>1, <2>4, <2>5, <2>7, <2>8
<1>3. IsFiniteSet(T) /\ Cardinality(T) = (c + lost) * MaxAttempts
  <2>1. IsFiniteSet(1 .. MaxAttempts) /\ Cardinality(1 .. MaxAttempts) = MaxAttempts
    BY Numbers, FS_Interval
  <2> HIDE DEF Owners, c
  <2> QED BY <1>2, <2>1, FS_Product
<1>4. \A v \in S : who[v] \in Callers \cup {Nobody} /\ v \in Nat
  BY <1>1
<1>5. f \in [S -> T]
  <2> SUFFICES ASSUME NEW v \in S PROVE << << who[v], trip[v] >>, nth[v] >> \in T
      OBVIOUS
  <2>1. << who[v], trip[v] >> \in Owners /\ nth[v] \in 1 .. MaxAttempts
    BY <1>0, <1>4 DEF Ledger
  <2> QED BY <2>1
<1>6. \A v, w \in S : f[v] = f[w] => v = w
  BY <1>0 DEF Ledger
<1>7. IsFiniteSet(S) /\ Cardinality(S) <= Cardinality(T)
  <2> HIDE DEF S, T, f
  <2>1. f \in Injection(S, T)
    BY <1>5, <1>6 DEF Injection, IsInjective
  <2> QED BY <1>3, <2>1, FS_Injection
<1>8. server.used - lo <= Cardinality(S)
  <2>1. Cardinality(S) = IF lo + 1 > server.used THEN 0 ELSE server.used - (lo + 1) + 1
    <3>1. lo + 1 \in Int /\ server.used \in Int
      BY <1>1
    <3> QED BY <3>1, FS_Interval, Zenon
  <2> HIDE DEF S
  <2> QED BY <1>1, <2>1
<1>9. places \in Nat /\ (c + lost) * MaxAttempts = places
  <2> HIDE DEF c
  <2> QED BY <1>1, <1>2, Numbers
<1>10. server.used - lo <= places
  <2> HIDE DEF S, T, places, c
  <2>1. Cardinality(S) \in Nat
    BY <1>7, FS_CardinalityType
  <2> QED BY <1>1, <1>3, <1>7, <1>8, <1>9, <2>1
<1>11. 100 * (server.used - places) <= Capacity * Limit
  <2>1. 100 * lo <= Capacity * Limit
    BY <1>0 DEF Ledger
  <2>2. 100 * (server.used - places) <= 100 * lo
    <3> HIDE DEF places
    <3> QED BY <1>1, <1>9, <1>10
  <2>3. PICK m \in Nat : m = Capacity * Limit
    BY CapacityIsAProduct
  <2> HIDE DEF places
  <2> QED BY <1>1, <1>9, <2>1, <2>2, <2>3
<1> QED BY <1>11 DEF OvershootBounded

LEMMA AccountedInductive ==
  ASSUME Governed, Governed', Unseen, Accounted, [Next]_vars
  PROVE  Accounted'
<1>1. ASSUME NEW p \in Callers,
             \/ RoundTrip(p) \/ Cancel(p) \/ ReadReset(p) \/ Throttle(p) \/ Wake(p) \/ Acquire(p)
             \/ Release(p) \/ \E f \in StatusField : ReadField(p, f) \/ WriteField(p, f)
      PROVE  Accounted'
  BY <1>1, QuietAccounted
<1>2. ASSUME NEW p \in Callers, Decide(p) PROVE Accounted'
  BY <1>2, DecideAccounted
<1>3. ASSUME NEW p \in Callers, Respond(p) \/ RetryBelow(p) PROVE Accounted'
  BY <1>3, SentAccounted
<1>4. ASSUME NEW p \in Callers, NoHeaders(p) PROVE Accounted'
  BY <1>4, LostAccounted
<1>5. CASE Tick \/ UNCHANGED vars
  BY <1>5, TickAccounted
<1> QED BY <1>1, <1>2, <1>3, <1>4, <1>5 DEF Next, Step

LEMMA AccountedAtFirst == ASSUME Init PROVE Unseen /\ Accounted
<1>1. Unseen
  BY DEF Init, Unseen, StatusField
<1>2. PICK who \in [Nat -> Callers \cup {Nobody}], trip \in [Nat -> Nat], nth \in [Nat -> Nat] :
        who = [v \in Nat |-> Nobody] /\ trip = [v \in Nat |-> 0] /\ nth = [v \in Nat |-> 0]
  <2>1. /\ [v \in Nat |-> Nobody] \in [Nat -> Callers \cup {Nobody}]
        /\ [v \in Nat |-> 0] \in [Nat -> Nat]
    OBVIOUS
  <2> QED BY <2>1, Zenon
<1>3. server.used = 0 /\ 100 * 0 <= Capacity * Limit
  BY CapacityIsAProduct DEF Init
<1>4. Ledger(0, who, trip, nth)
  BY <1>3 DEF Ledger
<1> QED BY <1>1, <1>4 DEF Accounted

(* The accounting in Update and the check in HasCapacity, far apart as they *)
(* are, keep the overshoot bounded: for any number of callers, any capacity *)
(* and any limit, the window is above the threshold by at most one          *)
(* RoundTrip for every caller and one for every RoundTrip that told the     *)
(* governor nothing.                                                        *)
THEOREM OvershootIsBounded == Spec => []OvershootBounded
<1>1. Init => Unseen /\ Accounted
  BY AccountedAtFirst
<1>2. Governed /\ Governed' /\ Unseen /\ Accounted /\ [Next]_vars => Unseen' /\ Accounted'
  BY UnseenInductive, AccountedInductive DEF Governed
<1>3. Governed /\ Accounted => OvershootBounded
  BY Counted DEF Governed, TypeInv
<1>4. QED
  BY <1>1, <1>2, <1>3, GovernedAlways, PTL DEF Spec
=============================================================================

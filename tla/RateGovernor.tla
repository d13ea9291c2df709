---------------------------- MODULE RateGovernor ----------------------------
(***************************************************************************)
(* The client-side rate governor of one Okta rate-limit bucket.            *)
(*                                                                         *)
(*   okta/internal/apimutex/apimutex.go           APIMutex, APIStatus      *)
(*   okta/internal/transport/governed_transport.go GovernedTransport       *)
(*                                                                         *)
(* Callers are goroutines of the provider inside RoundTrip for requests of *)
(* one bucket.  HasCapacity reads the shared status without the lock, and  *)
(* Update writes its fields one by one under the lock, so both are split   *)
(* at every access to a shared field.  The fields Update writes may become *)
(* visible in any order: nothing orders them for an unlocked reader.       *)
(*                                                                         *)
(* The Okta API is external: a fixed window opens at the first request     *)
(* after the previous one ended, lasts WindowLength, and admits Limit      *)
(* requests.                                                               *)
(***************************************************************************)
EXTENDS Integers, FiniteSets

CONSTANTS
  Callers,       \* goroutines that send requests of this bucket
  Nobody,        \* the value of lock when no caller holds it
  Capacity,      \* max_api_capacity, a percentage
  Limit,         \* requests the API admits in one window
  WindowLength,  \* the 60 of the code, in ticks
  MaxAttempts,   \* sends the retrying client below makes in one RoundTrip
  MaxRequests,   \* bound: RoundTrips of one caller
  MaxTime        \* bound: the clock passes it only while a caller sleeps

ASSUME RateGovernorAssumption ==
  /\ Nobody \notin Callers
  /\ IsFiniteSet(Callers)
  /\ Capacity \in 1 .. 99
  /\ Limit \in Nat \ {0}
  /\ WindowLength \in Nat \ {0}
  /\ MaxAttempts \in Nat \ {0}
  /\ MaxRequests \in Nat
  /\ MaxTime \in Nat

VARIABLES
  now,       \* time.Now().Unix()
  server,    \* the API's window: its end, and the requests admitted in it
  status,    \* APIMutex.status[bucket]
  lock,      \* APIMutex.lock
  pc,        \* where each caller is
  seen,      \* the fields HasCapacity has read so far
  wake,      \* the end of the sleep in preRequestHook
  answer,    \* the response each caller is handling
  pending,   \* the fields Update still has to write
  attempts,  \* sends made in the current RoundTrip
  requests,  \* RoundTrips begun
  absorbed,  \* history: the responses Update has taken in
  lost       \* history: RoundTrips that reached this window and told nothing

vars == << now, server, status, lock, pc, seen, wake, answer, pending,
           attempts, requests, absorbed, lost >>

-----------------------------------------------------------------------------
Labels == { "idle", "check", "read", "throttle", "sleep", "send",
            "respond", "update" }

StatusField == { "limit", "remaining", "reset" }
APIStatus == [limit : Nat, remaining : Nat, reset : Nat]
NewStatus == [limit |-> 0, remaining |-> 0, reset |-> 0]
Unread == -1

\* The answers `utilization <= capacity` can give.  A zero limit divides by
\* zero: 0/0 is NaN and compares false, a negative quotient is -Inf.  At
\* equality float32 rounding decides.
Within(limit, remaining) ==
  LET used == limit - remaining
  IN  IF limit = 0 THEN { used < 0 }
      ELSE { b \in BOOLEAN : \/ b /\ 100 * used <= Capacity * limit
                             \/ ~b /\ 100 * used >= Capacity * limit }

\* Utilization computed by integer division, before the conversion.
WithinOfQuotient(limit, remaining) ==
  { limit # 0 /\ 100 * ((limit - remaining) \div limit) <= Capacity }

CapacityAnswers(limit, remaining) == Within(limit, remaining)

\* The fields Update overwrites for response r: all of them when r opens a
\* new window, none when r is of an earlier one, else a lower remaining.
NewerFields(r) ==
  CASE r.reset > status.reset -> StatusField
    [] r.reset <= status.reset - WindowLength -> {}
    [] OTHER -> IF r.remaining < status.remaining THEN {"remaining"} ELSE {}

\* Update that lets the last response win.
LastFields(r) == StatusField

\* Update that keeps a late response of the window just before.
LateFields(r) ==
  CASE r.reset > status.reset -> StatusField
    [] r.reset < status.reset - WindowLength -> {}
    [] OTHER -> IF r.remaining < status.remaining THEN {"remaining"} ELSE {}

FieldsToWrite(r) == NewerFields(r)

\* The status once the update in progress, if any, has written its fields.
Settled ==
  IF lock = Nobody THEN status
  ELSE [f \in StatusField |->
          IF f \in pending[lock] THEN answer[lock][f] ELSE status[f]]

-----------------------------------------------------------------------------
\* The clock starts beyond the window of the unset status, as Unix time does:
\* HasCapacity answers yes until the first response.
Init ==
  /\ now = NewStatus.reset + WindowLength + 1
  /\ server = [reset |-> 1, used |-> 0]
  /\ status = NewStatus
  /\ lock = Nobody
  /\ pc = [p \in Callers |-> "idle"]
  /\ seen = [p \in Callers |-> [f \in StatusField |-> Unread]]
  /\ wake = [p \in Callers |-> 0]
  /\ answer = [p \in Callers |-> NewStatus]
  /\ pending = [p \in Callers |-> {}]
  /\ attempts = [p \in Callers |-> 0]
  /\ requests = [p \in Callers |-> 0]
  /\ absorbed = {}
  /\ lost = 0

Goto(p, label) == pc' = [pc EXCEPT ![p] = label]

\* A caller that keeps counting the sends of its earlier requests.
ReturnCounting(p) == Goto(p, "idle") /\ UNCHANGED attempts

\* The caller is back from RoundTrip: the sends of this call are counted.
Return(p) ==
  /\ Goto(p, "idle")
  /\ attempts' = [attempts EXCEPT ![p] = 0]

\* Time passes.
Tick ==
  /\ now < MaxTime \/ \E p \in Callers : pc[p] = "sleep" /\ wake[p] > now
  /\ now' = now + 1
  /\ UNCHANGED << server, status, lock, pc, seen, wake, answer, pending,
                  attempts, requests, absorbed, lost >>

\* RoundTrip: preRequestHook asks HasCapacity.
RoundTrip(p) ==
  /\ pc[p] = "idle"
  /\ requests[p] < MaxRequests
  /\ requests' = [requests EXCEPT ![p] = @ + 1]
  /\ Goto(p, "check")
  /\ UNCHANGED << now, server, status, lock, seen, wake, answer, pending,
                  attempts, absorbed, lost >>

\* A status that has not been updated for a window counts as capacity.
ReadReset(p) ==
  /\ pc[p] = "check"
  /\ IF status.reset + WindowLength < now
       THEN Goto(p, "send") /\ UNCHANGED seen
       ELSE /\ Goto(p, "read")
            /\ seen' = [seen EXCEPT ![p].reset = status.reset]
  /\ UNCHANGED << now, server, status, lock, wake, answer, pending,
                  attempts, requests, absorbed, lost >>

\* The unlocked reads of the other two fields, in either order.
ReadField(p, f) ==
  /\ pc[p] = "read"
  /\ seen[p][f] = Unread
  /\ seen' = [seen EXCEPT ![p][f] = status[f]]
  /\ UNCHANGED << now, server, status, lock, pc, wake, answer, pending,
                  attempts, requests, absorbed, lost >>

\* HasCapacity answers.
Decide(p) ==
  /\ pc[p] = "read"
  /\ \A f \in StatusField : seen[p][f] # Unread
  /\ \E ok \in CapacityAnswers(seen[p].limit, seen[p].remaining) :
       IF ok
         THEN /\ Goto(p, "send")
              /\ seen' = [seen EXCEPT ![p] = [f \in StatusField |-> Unread]]
         ELSE Goto(p, "throttle") /\ UNCHANGED seen
  /\ UNCHANGED << now, server, status, lock, wake, answer, pending,
                  attempts, requests, absorbed, lost >>

\* preRequestHook reads the reset again to compute how long to sleep.
Throttle(p) ==
  /\ pc[p] = "throttle"
  /\ wake' = [wake EXCEPT ![p] = status.reset]
  /\ seen' = [seen EXCEPT ![p] = [f \in StatusField |-> Unread]]
  /\ Goto(p, "sleep")
  /\ UNCHANGED << now, server, status, lock, answer, pending,
                  attempts, requests, absorbed, lost >>

\* The timer fires.  Nothing is asked again: the request goes out.
Wake(p) ==
  /\ pc[p] = "sleep"
  /\ now >= wake[p]
  /\ wake' = [wake EXCEPT ![p] = 0]
  /\ Goto(p, "send")
  /\ UNCHANGED << now, server, status, lock, seen, answer, pending,
                  attempts, requests, absorbed, lost >>

\* ctx.Done() fires first: RoundTrip returns the error, nothing is sent.
Cancel(p) ==
  /\ pc[p] = "sleep"
  /\ wake' = [wake EXCEPT ![p] = 0]
  /\ Return(p)
  /\ UNCHANGED << now, server, status, lock, seen, answer, pending,
                  requests, absorbed, lost >>

-----------------------------------------------------------------------------
\* The API takes one send: it opens a window if the last one is over, and
\* admits the request unless the window is used up.
Admitted == IF now >= server.reset
              THEN [reset |-> now + WindowLength, used |-> 1]
              ELSE [server EXCEPT !.used = IF @ < Limit THEN @ + 1 ELSE @]

Headers(s) == [limit |-> Limit, remaining |-> Limit - s.used, reset |-> s.reset]

CountSend(p) ==
  /\ pc[p] = "send"
  /\ server' = Admitted
  /\ attempts' = [attempts EXCEPT ![p] = @ + 1]
  /\ UNCHANGED << now, status, lock, seen, wake, pending, requests, absorbed >>

\* The losses of the current window: a new window starts its own count.
LostSoFar == IF now >= server.reset THEN 0 ELSE lost

\* The base transport returns the last response to RoundTrip.
Respond(p) ==
  /\ CountSend(p)
  /\ answer' = [answer EXCEPT ![p] = Headers(Admitted)]
  /\ Goto(p, "respond")
  /\ lost' = LostSoFar

\* The retrying client below the governor sends again (429, 5xx or a broken
\* connection) without telling it.
RetryBelow(p) ==
  /\ attempts[p] + 1 < MaxAttempts
  /\ CountSend(p)
  /\ lost' = LostSoFar
  /\ UNCHANGED << pc, answer >>

\* The base transport fails (a nil response), or the response lacks one of
\* the three headers: postRequestHook returns before Update.
NoHeaders(p) ==
  /\ pc[p] = "send"
  /\ server' = Admitted
  /\ lost' = LostSoFar + 1
  /\ Return(p)
  /\ UNCHANGED << now, status, lock, seen, wake, answer, pending, requests,
                  absorbed >>

-----------------------------------------------------------------------------
\* postRequestHook calls Update: take the lock and compare.
Acquire(p) ==
  /\ pc[p] = "respond"
  /\ lock = Nobody
  /\ lock' = p
  /\ pending' = [pending EXCEPT ![p] = FieldsToWrite(answer[p])]
  /\ absorbed' = absorbed \cup {answer[p]}
  /\ Goto(p, "update")
  /\ UNCHANGED << now, server, status, seen, wake, answer, attempts,
                  requests, lost >>

WriteField(p, f) ==
  /\ pc[p] = "update"
  /\ f \in pending[p]
  /\ status' = [status EXCEPT ![f] = answer[p][f]]
  /\ pending' = [pending EXCEPT ![p] = @ \ {f}]
  /\ UNCHANGED << now, server, lock, pc, seen, wake, answer, attempts,
                  requests, absorbed, lost >>

\* Update that returns without Unlock when it ignored the response.
ReleaseUnlessIgnored(p) ==
  /\ pc[p] = "update"
  /\ pending[p] = {}
  /\ lock' = IF answer[p].remaining > status.remaining THEN lock ELSE Nobody
  /\ answer' = [answer EXCEPT ![p] = NewStatus]
  /\ Return(p)
  /\ UNCHANGED << now, server, status, seen, wake, pending,
                  requests, absorbed, lost >>

Release(p) ==
  /\ pc[p] = "update"
  /\ pending[p] = {}
  /\ lock' = Nobody
  /\ answer' = [answer EXCEPT ![p] = NewStatus]
  /\ Return(p)
  /\ UNCHANGED << now, server, status, seen, wake, pending,
                  requests, absorbed, lost >>

-----------------------------------------------------------------------------
Step(p) ==
  \/ ReadReset(p) \/ Decide(p) \/ Throttle(p) \/ Wake(p)
  \/ Respond(p) \/ RetryBelow(p) \/ NoHeaders(p)
  \/ Release(p)
  \/ \E f \in StatusField : ReadField(p, f) \/ WriteField(p, f)

Next ==
  \/ Tick
  \/ \E p \in Callers : RoundTrip(p) \/ Cancel(p) \/ Acquire(p) \/ Step(p)

Spec == Init /\ [][Next]_vars

\* Goroutines are scheduled, the clock runs, the base transport answers
\* within the client's timeout, and sync.Mutex hands the lock to waiters.
Fairness ==
  /\ WF_vars(Tick)
  /\ \A p \in Callers : WF_vars(Step(p)) /\ SF_vars(Acquire(p))

FairSpec == Spec /\ Fairness

-----------------------------------------------------------------------------
Response == [limit : {Limit}, remaining : 0 .. Limit, reset : Nat]

\* Every variable stays in its range, and a caller writes the status only
\* while it holds APIMutex.lock.
TypeOK ==
  /\ now \in Nat
  /\ server \in [reset : Nat, used : 0 .. Limit]
  /\ status \in APIStatus
  /\ lock \in Callers \cup {Nobody}
  /\ pc \in [Callers -> Labels]
  /\ seen \in [Callers -> [StatusField -> Nat \cup {Unread}]]
  /\ wake \in [Callers -> Nat]
  /\ answer \in [Callers -> Response \cup {NewStatus}]
  /\ pending \in [Callers -> SUBSET StatusField]
  /\ attempts \in [Callers -> 0 .. MaxAttempts]
  /\ requests \in [Callers -> 0 .. MaxRequests]
  /\ absorbed \in SUBSET Response
  /\ lost \in Nat

\* Two windows are the same one or do not overlap.
SameOrApart(a, b) == a = b \/ a + WindowLength <= b \/ b + WindowLength <= a

\* s is what the set R of responses says: the latest window any of them is
\* of, and the fewest requests left that one of that window reported.
Summarizes(s, R) ==
  IF R = {} THEN s = NewStatus
  ELSE /\ \E r \in R : s = r
       /\ \A r \in R : /\ r.reset <= s.reset
                       /\ r.reset = s.reset => s.remaining <= r.remaining

\* Update "intelligently accounts for new values regardless of parallelism"
\* (apimutex.go): whatever order responses are taken in, late ones of an
\* earlier window included, the settled status is the summary of their set.
StatusIsSummary == Summarizes(Settled, absorbed)

\* The check in HasCapacity and the accounting in Update are far apart, and
\* the retrying client sends behind the governor's back; still, each caller
\* overshoots the threshold by one RoundTrip at most, and each RoundTrip
\* that told nothing by one more: every other request is below the threshold.
OvershootBounded ==
  100 * (server.used - MaxAttempts * (Cardinality(Callers) + lost))
    <= Capacity * Limit

\* A caller goes to sleep only because some response of the window it read
\* did show utilization above capacity.
ThrottleIsJustified ==
  \A p \in Callers :
    pc[p] = "throttle" =>
      \E r \in absorbed : /\ r.reset = seen[p].reset
                          /\ FALSE \in CapacityAnswers(r.limit, r.remaining)

\* The strengthening of TypeOK: a caller in preRequestHook has sent nothing,
\* one about to send has a send left, and one that has come back from the
\* base transport holds its response.
CallsInOrder ==
  \A p \in Callers :
    /\ pc[p] \in {"idle", "check", "read", "throttle", "sleep"} => attempts[p] = 0
    /\ pc[p] = "send" => attempts[p] < MaxAttempts
    /\ pc[p] \in {"respond", "update"} => answer[p] \in Response

\* APIMutex.lock is held by the caller inside Update, by nobody otherwise.
LockHeld == \A p \in Callers : pc[p] = "update" <=> lock = p

\* The responses under way or taken in.
Known == absorbed \cup
         { answer[p] : p \in { q \in Callers : pc[q] \in {"respond", "update"} } }

\* The strengthening of StatusIsSummary: every response is of the window
\* the API is in or of one that ended before it, windows do not overlap.
WindowsApart ==
  /\ server.reset > 0
  /\ \A r \in Known : /\ r.reset > 0
                      /\ \/ r.reset = server.reset
                         \/ r.reset + WindowLength <= server.reset
  /\ \A r, t \in Known : SameOrApart(r.reset, t.reset)

\* A step that forgets nothing of what the responses told.
KeepsWhatIsKnown ==
  \/ Settled'.reset > Settled.reset
  \/ /\ Settled'.reset = Settled.reset
     /\ Settled'.remaining <= Settled.remaining

\* What the governor knows never goes back to an earlier window, and within
\* a window never regains requests, although responses arrive late.
StatusNeverRegresses == [][KeepsWhatIsKnown]_vars

\* A throttled request is sent or cancelled and its caller gets an answer:
\* no caller sleeps or waits for the lock for ever.
RequestsReturn ==
  \A p \in Callers : []<>(pc[p] = "idle")
=============================================================================

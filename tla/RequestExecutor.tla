--------------------------- MODULE RequestExecutor ---------------------------
(***************************************************************************)
(* The request executor of the local SDK with private key authorization:   *)
(* goroutines of the provider share one cache with an access token, the    *)
(* DPoP nonce and the key the token is bound to, three entries that are    *)
(* read, set and deleted one by one without a lock.                        *)
(*                                                                         *)
(*   sdk/v2_requestExecutor.go   PrivateKeyAuth.Authorize, doWithRetries   *)
(*   okta/api/api.go             what the retrying client below leaves     *)
(*                                                                         *)
(* A grant of the token endpoint is a number, which stands for its token,  *)
(* its nonce and its key; 0 is none.  The response cache is a no-op in     *)
(* this provider, and requests are told apart by their callers only.       *)
(***************************************************************************)
EXTENDS Naturals

CONSTANTS
  Callers,      \* goroutines that use the executor
  Backoff,      \* the option backoff: retries also happen below the executor
  MaxRetries,   \* the option max_retries
  MaxRequests,  \* bound: requests of one caller
  MaxFaults     \* bound: 429s, lost connections and failures to get a token

ASSUME RequestExecutorAssumption ==
  /\ Backoff \in BOOLEAN
  /\ {MaxRetries, MaxRequests, MaxFaults} \subseteq Nat

VARIABLES
  dpop,      \* whether the organisation binds tokens to keys
  cache,     \* the token cache
  older,     \* which of its entries were set before which
  pc,        \* where each caller is
  auth,      \* the Authorization header: a token
  proof,     \* the Dpop header: the key that signs, the token it is for
  fetched,   \* the grant Authorize has got and caches
  nonce,     \* whether it has got a nonce for the token endpoint
  retries,   \* retryCount
  refused,   \* history: the tokens of the request that were answered 429
  unread,    \* history: whether the body of such an answer could not be read
  raced,     \* history: somebody used the cache in the middle of another's use
  minted, faults, requests

vars == << dpop, cache, older, pc, auth, proof, fetched, nonce, retries, refused, unread,
           raced, minted, faults, requests >>

-----------------------------------------------------------------------------
Entries == {"token", "nonce", "key"}
NoProof == [key |-> 0, token |-> 0]

Setting == {"set_nonce", "set_key"}
Clearing == {"clear_nonce", "clear_key"}
Reading == {"nonce", "key"}

Labels == {"idle", "token", "ask", "prove", "set_token", "send", "retry", "clear_token"}
          \cup Reading \cup Setting \cup Clearing

Init ==
  /\ dpop \in BOOLEAN
  /\ cache = [e \in Entries |-> 0] /\ older = {}
  /\ pc = [c \in Callers |-> "idle"]
  /\ auth = [c \in Callers |-> 0]
  /\ proof = [c \in Callers |-> NoProof]
  /\ fetched = [c \in Callers |-> 0]
  /\ nonce = [c \in Callers |-> FALSE]
  /\ retries = [c \in Callers |-> 0]
  /\ refused = [c \in Callers |-> {}] /\ unread = [c \in Callers |-> FALSE]
  /\ raced = FALSE
  /\ minted = 0 /\ faults = 0
  /\ requests = [c \in Callers |-> 0]

Goto(c, label) == pc' = [pc EXCEPT ![c] = label]

Others(c, labels) == \E d \in Callers \ {c} : pc[d] \in labels

\* A read in the middle of another's writes; a write in that of any use.
Reads(c) == raced' = (raced \/ Others(c, Setting \cup Clearing))
Writes(c) == raced' = (raced \/ Others(c, Reading \cup Setting \cup Clearing))

\* NewRequest.
Begin(c) ==
  /\ pc[c] = "idle"
  /\ requests[c] < MaxRequests
  /\ requests' = [requests EXCEPT ![c] = @ + 1]
  /\ Goto(c, "token")
  /\ UNCHANGED << dpop, cache, older, auth, proof, fetched, nonce, retries, refused, unread,
                  raced, minted, faults >>

\* The request ends, well or not.
End(c) ==
  /\ Goto(c, "idle")
  /\ auth' = [auth EXCEPT ![c] = 0]
  /\ proof' = [proof EXCEPT ![c] = NoProof]
  /\ nonce' = [nonce EXCEPT ![c] = FALSE]
  /\ retries' = [retries EXCEPT ![c] = 0]
  /\ refused' = [refused EXCEPT ![c] = {}]
  /\ unread' = [unread EXCEPT ![c] = FALSE]
  /\ UNCHANGED << dpop, cache, older, fetched, minted, requests >>

\* An error of Authorize ends the first attempt; in doWithRetries it is one
\* more reason to try again, which is not counted.
AuthorizeFails(c) ==
  IF retries[c] = 0 THEN End(c)
  ELSE /\ Goto(c, "retry")
       /\ nonce' = [nonce EXCEPT ![c] = FALSE]
       /\ UNCHANGED << dpop, cache, older, auth, proof, fetched, retries, refused, unread,
                       minted, requests >>

-----------------------------------------------------------------------------
(* Authorize: the cached token with a proof of its key, or a new grant. *)

ReadToken(c) ==
  /\ pc[c] = "token"
  /\ Reads(c)
  /\ IF cache["token"] # 0
       THEN Goto(c, "nonce") /\ auth' = [auth EXCEPT ![c] = cache["token"]]
       ELSE Goto(c, "ask") /\ UNCHANGED auth
  /\ UNCHANGED << dpop, cache, older, proof, fetched, nonce, retries, refused, unread, minted,
                  faults, requests >>

\* Without a nonce the token is taken for one that needs no proof.
ReadNonce(c) ==
  /\ pc[c] = "nonce"
  /\ Reads(c)
  /\ Goto(c, IF cache["nonce"] # 0 THEN "key" ELSE "send")
  /\ UNCHANGED << dpop, cache, older, auth, proof, fetched, nonce, retries, refused, unread,
                  minted, faults, requests >>

ReadKey(c) ==
  /\ pc[c] = "key"
  /\ Reads(c)
  /\ IF cache["key"] # 0
       THEN /\ Goto(c, "send")
            /\ proof' = [proof EXCEPT ![c] = [key |-> cache["key"], token |-> auth[c]]]
            /\ UNCHANGED << dpop, cache, older, auth, fetched, nonce, retries, refused, unread,
                            minted, requests >>
       ELSE AuthorizeFails(c)
  /\ UNCHANGED faults

\* The token endpoint grants a token; the proof is by the key of this very
\* call.
Grant(c) ==
  /\ minted' = minted + 1
  /\ fetched' = [fetched EXCEPT ![c] = minted']
  /\ auth' = [auth EXCEPT ![c] = minted']
  /\ proof' = IF dpop THEN [proof EXCEPT ![c] = [key |-> minted', token |-> minted']]
                      ELSE proof
  /\ nonce' = [nonce EXCEPT ![c] = FALSE]
  /\ Goto(c, "set_token")

\* getAccessTokenForPrivateKey: a request without a proof.
Ask(c) ==
  /\ pc[c] = "ask"
  /\ IF dpop THEN Goto(c, "prove") /\ UNCHANGED << auth, proof, fetched, nonce, minted >>
             ELSE Grant(c)
  /\ UNCHANGED << dpop, cache, older, retries, refused, unread, raced, faults, requests >>

\* The nonce of the answer goes into the next call.
NewNonce(c) == nonce' = [nonce EXCEPT ![c] = TRUE]

\* The next call has the nonce of this one.
OldNonce(c) == UNCHANGED nonce

NextNonce(c) == NewNonce(c)

\* getAccessTokenForDpopPrivateKey: a new key each time, until the endpoint
\* is content with the nonce.
Prove(c) ==
  /\ pc[c] = "prove"
  /\ IF nonce[c] THEN Grant(c)
                 ELSE NextNonce(c) /\ UNCHANGED << pc, auth, proof, fetched, minted >>
  /\ UNCHANGED << dpop, cache, older, retries, refused, unread, raced, faults, requests >>

\* No token: an error, or an answer that is neither.
NoGrant(c) ==
  /\ pc[c] \in {"ask", "prove"}
  /\ faults < MaxFaults
  /\ faults' = faults + 1
  /\ AuthorizeFails(c)
  /\ UNCHANGED raced

\* The entries but e, by age.
Without(e) == { p \in older : e \notin {p[1], p[2]} }

\* tokenCache.Set; an empty nonce and a nil key count as absent.
Store(e, grant) ==
  /\ cache' = [cache EXCEPT ![e] = grant]
  /\ older' = IF grant = 0 THEN Without(e)
              ELSE Without(e) \cup { << f, e >> : f \in { g \in Entries \ {e} : cache[g] # 0 } }

Bound(grant) == IF dpop THEN grant ELSE 0

\* The nonce is not cached.
Unbound(grant) == 0

NonceToCache(grant) == Bound(grant)

Cached(c, label) ==
  /\ Writes(c)
  /\ Goto(c, label)
  /\ UNCHANGED << dpop, auth, proof, nonce, retries, refused, unread, minted, faults, requests >>

SetToken(c) ==
  /\ pc[c] = "set_token"
  /\ Store("token", fetched[c])
  /\ Cached(c, "set_nonce") /\ UNCHANGED fetched

SetNonce(c) ==
  /\ pc[c] = "set_nonce"
  /\ Store("nonce", NonceToCache(fetched[c]))
  /\ Cached(c, "set_key") /\ UNCHANGED fetched

SetKey(c) ==
  /\ pc[c] = "set_key"
  /\ Store("key", Bound(fetched[c]))
  /\ Cached(c, "send")
  /\ fetched' = [fetched EXCEPT ![c] = 0]

Remove(e) == Store(e, 0)

\* The entry set first expires first.
Expire(e) ==
  /\ cache[e] # 0
  /\ \A p \in older : p[2] # e
  /\ Remove(e)
  /\ raced' = (raced \/ \E c \in Callers : pc[c] \in Reading \cup Setting \cup Clearing)
  /\ UNCHANGED << dpop, pc, auth, proof, fetched, nonce, retries, refused, unread, minted,
                  faults, requests >>

-----------------------------------------------------------------------------
(* doWithRetries. *)

\* Any answer but 429.
Answered(c) ==
  /\ pc[c] = "send"
  /\ End(c)
  /\ UNCHANGED << raced, faults >>

\* NextBackOff
Exhausted(n) == n > MaxRetries

\* One retry too many.
ExhaustedLate(n) == n > MaxRetries + 1

GiveUp(n) == Exhausted(n)

Fault == faults < MaxFaults /\ faults' = faults + 1

\* With backoff the client below the executor retries a request that carries
\* no proof, and turns the last 429 into an error.
RetriedBelow(c) == Backoff /\ proof[c] = NoProof

Refuse(c) == refused' = [refused EXCEPT ![c] = @ \cup {auth[c]}]

\* tryDrainBody fails: one more reason to try again, before this 429 is counted.
Undrained(c) ==
  /\ Refuse(c)
  /\ unread' = [unread EXCEPT ![c] = TRUE]
  /\ UNCHANGED retries

\* A 429 that is read and counted.
Drained(c) ==
  /\ ~GiveUp(retries[c] + 1)
  /\ retries' = [retries EXCEPT ![c] = @ + 1]
  /\ Refuse(c)
  /\ UNCHANGED unread

\* A 429; it ends the request when it is one too many, when the client below
\* has dealt with it or when its headers do not say how long to wait.
TooManyRequests(c) ==
  /\ pc[c] = "send"
  /\ Fault
  /\ \/ End(c)
     \/ /\ ~RetriedBelow(c)
        /\ Undrained(c) \/ Drained(c)
        /\ Goto(c, "retry")
        /\ UNCHANGED << dpop, cache, older, auth, proof, fetched, nonce, minted, requests >>
  /\ UNCHANGED raced

\* A connection that ends without an answer is tried again, uncounted.
NetworkError(c) ==
  /\ pc[c] = "send"
  /\ Fault
  /\ IF GiveUp(retries[c]) THEN End(c)
     ELSE /\ Goto(c, "retry")
          /\ UNCHANGED << dpop, cache, older, auth, proof, fetched, nonce, retries,
                          refused, unread, minted, requests >>
  /\ UNCHANGED raced

\* The context is done while the retry waits.
Cancelled(c) ==
  /\ pc[c] = "retry"
  /\ End(c)
  /\ UNCHANGED << raced, faults >>

\* After a 429 that was counted the request is authorized anew; otherwise it
\* is repeated as it is.
Retry(c) ==
  /\ pc[c] = "retry"
  /\ Goto(c, IF retries[c] > 0 THEN "clear_token" ELSE "send")
  /\ UNCHANGED << dpop, cache, older, auth, proof, fetched, nonce, retries, refused, unread,
                  raced, minted, faults, requests >>

\* The token is not deleted.
KeepToken(e) == IF e = "token" THEN UNCHANGED << cache, older >> ELSE Store(e, 0)

Delete(e) == Remove(e)

ClearToken(c) ==
  /\ pc[c] = "clear_token"
  /\ Delete("token")
  /\ Cached(c, "clear_nonce") /\ UNCHANGED fetched

ClearNonce(c) ==
  /\ pc[c] = "clear_nonce"
  /\ Delete("nonce")
  /\ Cached(c, "clear_key") /\ UNCHANGED fetched

ClearKey(c) ==
  /\ pc[c] = "clear_key"
  /\ Delete("key")
  /\ Cached(c, "token") /\ UNCHANGED fetched

-----------------------------------------------------------------------------
Step(c) ==
  \/ ReadToken(c) \/ ReadNonce(c) \/ ReadKey(c)
  \/ Ask(c) \/ Prove(c)
  \/ SetToken(c) \/ SetNonce(c) \/ SetKey(c)
  \/ Answered(c)
  \/ Retry(c) \/ ClearToken(c) \/ ClearNonce(c) \/ ClearKey(c)

Faulty(c) == NoGrant(c) \/ TooManyRequests(c) \/ NetworkError(c) \/ Cancelled(c)

Next ==
  \/ \E c \in Callers : Begin(c) \/ Step(c) \/ Faulty(c)
  \/ \E e \in Entries : Expire(e)

Spec == Init /\ [][Next]_vars

\* Goroutines run and the API answers.
FairSpec == Spec /\ \A c \in Callers : WF_vars(Step(c))

-----------------------------------------------------------------------------
(* Properties. *)

\* The variables hold what their comments say; no request is retried more
\* than max_retries times for being answered 429.
TypeOK ==
  /\ dpop \in BOOLEAN /\ raced \in BOOLEAN
  /\ minted \in Nat
  /\ cache \in [Entries -> 0 .. minted]
  /\ older \subseteq Entries \X Entries
  /\ pc \in [Callers -> Labels]
  /\ auth \in [Callers -> 0 .. minted]
  /\ proof \in [Callers -> [key : 0 .. minted, token : 0 .. minted]]
  /\ fetched \in [Callers -> 0 .. minted]
  /\ nonce \in [Callers -> BOOLEAN]
  /\ retries \in [Callers -> 0 .. MaxRetries]
  /\ refused \in [Callers -> SUBSET (0 .. minted)]
  /\ unread \in [Callers -> BOOLEAN]
  /\ faults \in 0 .. MaxFaults
  /\ requests \in [Callers -> 0 .. MaxRequests]

\* A retry after a 429 has a fresh authorization: whatever the others store
\* and delete meanwhile, it never has a token this request was refused with.
\* Only until a 429 is counted, one whose body could not be read is followed by
\* the same request again.
RetryIsFresh ==
  \A c \in Callers :
    pc[c] = "send" /\ auth[c] \in refused[c] => unread[c] /\ retries[c] = 0

\* The header Dpop is there if the token is bound, made with the key the
\* token is bound to, and for this token.
Proven(c) == proof[c] = IF dpop THEN [key |-> auth[c], token |-> auth[c]] ELSE NoProof

\* Every request is proven as long as no caller, and no expiry, has used the
\* cache in the middle of another's use of it, through retries and expiries.
ProvenUnlessRaced == ~raced => \A c \in Callers : pc[c] = "send" => Proven(c)

\* PrivateKeyAuth emits the header Dpop exactly for the tokens that are bound.
AlwaysProven == \A c \in Callers : pc[c] = "send" => Proven(c)

\* Every request ends, when the token endpoint and the API do answer.
RequestsReturn == \A c \in Callers : pc[c] # "idle" ~> pc[c] = "idle"
=============================================================================

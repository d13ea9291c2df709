----------------------- MODULE RequestExecutorProofs -----------------------
(***************************************************************************)
(* Proofs about RequestExecutor, for any number of callers and any bounds. *)
(*                                                                         *)
(* That a retry never gets back the token it was refused with rests on     *)
(* every grant being stored once: a token that has been read or sent is    *)
(* never stored again, so that it cannot return after it was deleted.      *)
(*                                                                         *)
(* That requests are proven unless the cache was raced rests on what each  *)
(* caller knows of the three entries while it is alone with them, and on   *)
(* the token expiring before its nonce and its key.                        *)
(***************************************************************************)
EXTENDS RequestExecutor, TLAPS

\* Past the deletion of the cached token, not yet past reading another.
Cleared == {"token"} \cup Clearing

\* The request has its new token.
Authorized == {"set_token", "send"} \cup Reading \cup Setting

\* A grant that is not stored yet is known to nobody else.
Unstored ==
  \A d \in Callers : pc[d] = "set_token" =>
    /\ fetched[d] # 0 /\ cache["token"] # fetched[d]
    /\ \A c \in Callers : /\ fetched[d] \notin refused[c]
                          /\ c # d => auth[c] # fetched[d] /\ fetched[c] # fetched[d]

\* Neither the cache nor the request has a token that was refused, unless the
\* refusal could not be read and none has been counted.
Fresh ==
  \A c \in Callers :
    /\ pc[c] = "idle" => refused[c] = {}
    /\ retries[c] = 0 => refused[c] = {} \/ (unread[c] /\ pc[c] \in {"send", "retry"})
    /\ pc[c] \in Cleared => cache["token"] = 0 \/ cache["token"] \notin refused[c]
    /\ pc[c] \in Authorized => auth[c] \notin refused[c] \/ (unread[c] /\ retries[c] = 0)

IInv == TypeOK /\ Unstored /\ Fresh

-----------------------------------------------------------------------------
LEMMA Consts == MaxRetries \in Nat /\ MaxRequests \in Nat /\ MaxFaults \in Nat
BY RequestExecutorAssumption

LEMMA InitInv == Init => IInv
<1> SUFFICES ASSUME Init PROVE IInv
    OBVIOUS
<1>1. dpop \in BOOLEAN /\ raced \in BOOLEAN
  BY DEF Init
<1>2. /\ minted = 0 /\ faults \in 0 .. MaxFaults
      /\ cache \in [Entries -> 0 .. minted]
      /\ older \subseteq Entries \X Entries
  BY Consts DEF Init
<1>3. /\ pc \in [Callers -> Labels]
      /\ auth \in [Callers -> 0 .. minted]
      /\ proof \in [Callers -> [key : 0 .. minted, token : 0 .. minted]]
      /\ fetched \in [Callers -> 0 .. minted]
  BY <1>2 DEF Init, Labels, NoProof
<1>4. /\ nonce \in [Callers -> BOOLEAN]
      /\ refused \in [Callers -> SUBSET (0 .. minted)]
      /\ unread \in [Callers -> BOOLEAN]
  BY <1>2 DEF Init
<1>5. /\ retries \in [Callers -> 0 .. MaxRetries]
      /\ requests \in [Callers -> 0 .. MaxRequests]
  BY Consts DEF Init
<1>6. Unstored /\ Fresh
  BY DEF Init, Unstored, Fresh, Cleared, Authorized, Reading, Setting, Clearing
<1> QED BY <1>1, <1>2, <1>3, <1>4, <1>5, <1>6 DEF IInv, TypeOK

-----------------------------------------------------------------------------
\* The ways out of a request.
LEMMA EndInv ==
  ASSUME IInv, NEW c \in Callers, End(c), raced' \in BOOLEAN, faults' \in 0 .. MaxFaults
  PROVE  IInv'
<1> USE Consts DEF IInv
<1>1. /\ pc' = [pc EXCEPT ![c] = "idle"]
      /\ auth' = [auth EXCEPT ![c] = 0]
      /\ proof' = [proof EXCEPT ![c] = NoProof]
      /\ nonce' = [nonce EXCEPT ![c] = FALSE]
      /\ retries' = [retries EXCEPT ![c] = 0]
      /\ refused' = [refused EXCEPT ![c] = {}]
      /\ unread' = [unread EXCEPT ![c] = FALSE]
      /\ UNCHANGED << dpop, cache, older, fetched, minted, requests >>
  BY DEF End, Goto
<1>2. NoProof \in [key : 0 .. minted, token : 0 .. minted] /\ 0 \in 0 .. minted
  BY DEF NoProof, TypeOK
<1>3. TypeOK'
  BY <1>1, <1>2 DEF TypeOK, Labels
<1>4. Unstored'
  BY <1>1 DEF Unstored, TypeOK, Labels
<1>5. Fresh'
  BY <1>1 DEF Fresh, TypeOK, Cleared, Authorized, Reading, Setting, Clearing
<1> QED BY <1>3, <1>4, <1>5

LEMMA FailsInv ==
  ASSUME IInv, NEW c \in Callers, AuthorizeFails(c), raced' \in BOOLEAN, faults' \in 0 .. MaxFaults
  PROVE  IInv'
<1> USE Consts DEF IInv
<1>1. CASE retries[c] = 0
  BY <1>1, EndInv DEF AuthorizeFails
<1>2. CASE retries[c] # 0
  <2>1. /\ pc' = [pc EXCEPT ![c] = "retry"]
        /\ nonce' = [nonce EXCEPT ![c] = FALSE]
        /\ UNCHANGED << dpop, cache, older, auth, proof, fetched, retries, refused, unread,
                        minted, requests >>
    BY <1>2 DEF AuthorizeFails, Goto
  <2>2. TypeOK'
    BY <2>1 DEF TypeOK, Labels
  <2>3. Unstored'
    BY <2>1 DEF Unstored, TypeOK, Labels
  <2>4. Fresh'
    BY <2>1 DEF Fresh, TypeOK, Cleared, Authorized, Reading, Setting, Clearing
  <2> QED BY <2>2, <2>3, <2>4
<1> QED BY <1>1, <1>2

\* Reading the cache.
LEMMA ReadInv ==
  ASSUME IInv, NEW c \in Callers, ReadToken(c) \/ ReadNonce(c) \/ ReadKey(c)
  PROVE  IInv'
<1> USE Consts DEF IInv
<1>0. raced' \in BOOLEAN
  BY DEF ReadToken, ReadNonce, ReadKey, Reads
<1>1. CASE ReadToken(c)
  <2>1. /\ pc[c] = "token"
        /\ UNCHANGED << dpop, cache, older, proof, fetched, nonce, retries, refused, unread, minted,
                        faults, requests >>
        /\ \/ /\ cache["token"] # 0 /\ pc' = [pc EXCEPT ![c] = "nonce"]
              /\ auth' = [auth EXCEPT ![c] = cache["token"]]
           \/ pc' = [pc EXCEPT ![c] = "ask"] /\ auth' = auth
    BY <1>1 DEF ReadToken, Goto
  <2>2. cache["token"] \in 0 .. minted
    BY DEF TypeOK, Entries
  <2>3. TypeOK'
    BY <1>0, <2>1, <2>2 DEF TypeOK, Labels, Reading
  <2>4. Unstored'
    BY <2>1 DEF Unstored, TypeOK
  <2>5. Fresh'
    BY <2>1 DEF Fresh, TypeOK, Cleared, Authorized, Reading, Setting, Clearing
  <2> QED BY <2>3, <2>4, <2>5
<1>2. CASE ReadNonce(c)
  <2>1. /\ pc[c] = "nonce"
        /\ UNCHANGED << dpop, cache, older, auth, proof, fetched, nonce, retries, refused, unread,
                        minted, faults, requests >>
        /\ \E l \in {"key", "send"} : pc' = [pc EXCEPT ![c] = l]
    BY <1>2 DEF ReadNonce, Goto
  <2>2. TypeOK'
    BY <1>0, <2>1 DEF TypeOK, Labels, Reading
  <2>3. Unstored'
    BY <2>1 DEF Unstored, TypeOK
  <2>4. Fresh'
    BY <2>1 DEF Fresh, TypeOK, Cleared, Authorized, Reading, Setting, Clearing
  <2> QED BY <2>2, <2>3, <2>4
<1>3. CASE ReadKey(c) /\ cache["key"] # 0
  <2>1. /\ pc[c] = "key"
        /\ pc' = [pc EXCEPT ![c] = "send"]
        /\ proof' = [proof EXCEPT ![c] = [key |-> cache["key"], token |-> auth[c]]]
        /\ UNCHANGED << dpop, cache, older, auth, fetched, nonce, retries, refused, unread,
                        minted, faults, requests >>
    BY <1>3 DEF ReadKey, Goto
  <2>2. [key |-> cache["key"], token |-> auth[c]] \in [key : 0 .. minted, token : 0 .. minted]
    BY DEF TypeOK, Entries
  <2>3. TypeOK'
    BY <1>0, <2>1, <2>2 DEF TypeOK, Labels
  <2>4. Unstored'
    BY <2>1 DEF Unstored, TypeOK
  <2>5. Fresh'
    BY <2>1 DEF Fresh, TypeOK, Cleared, Authorized, Reading, Setting, Clearing
  <2> QED BY <2>3, <2>4, <2>5
<1>4. CASE ReadKey(c) /\ cache["key"] = 0
  <2>1. AuthorizeFails(c) /\ faults' \in 0 .. MaxFaults
    BY <1>4 DEF ReadKey, TypeOK
  <2> QED BY <1>0, <2>1, FailsInv
<1> QED BY <1>1, <1>2, <1>3, <1>4

-----------------------------------------------------------------------------
\* A grant is new to everybody.
LEMMA GrantInv ==
  ASSUME IInv, NEW c \in Callers, pc[c] \in {"ask", "prove"}, Grant(c),
         UNCHANGED << dpop, cache, older, retries, refused, unread, raced, faults, requests >>
  PROVE  IInv'
<1> USE Consts DEF IInv
<1> DEFINE k == minted + 1
<1>1. /\ minted' = k /\ k \in Nat /\ minted \in Nat
      /\ fetched' = [fetched EXCEPT ![c] = k]
      /\ auth' = [auth EXCEPT ![c] = k]
      /\ proof' = [proof EXCEPT ![c] = [key |-> k, token |-> k]] \/ proof' = proof
      /\ nonce' = [nonce EXCEPT ![c] = FALSE]
      /\ pc' = [pc EXCEPT ![c] = "set_token"]
  BY DEF Grant, Goto, TypeOK
<1>2. 0 .. minted \subseteq 0 .. k /\ k \in 0 .. k /\ k \notin 0 .. minted /\ k # 0
  BY <1>1
<1>3. TypeOK'
  <2> HIDE DEF k
  <2>1. /\ cache' \in [Entries -> 0 .. minted']
        /\ auth' \in [Callers -> 0 .. minted']
        /\ fetched' \in [Callers -> 0 .. minted']
    BY <1>1, <1>2 DEF TypeOK
  <2>2. refused' \in [Callers -> SUBSET (0 .. minted')]
    BY <1>1, <1>2 DEF TypeOK
  <2>3. proof' \in [Callers -> [key : 0 .. minted', token : 0 .. minted']]
    <3>1. [key |-> k, token |-> k] \in [key : 0 .. minted', token : 0 .. minted']
      BY <1>1, <1>2
    <3>2. proof \in [Callers -> [key : 0 .. minted', token : 0 .. minted']]
      BY <1>1, <1>2 DEF TypeOK
    <3> QED BY <1>1, <3>1, <3>2
  <2> QED BY <1>1, <2>1, <2>2, <2>3 DEF TypeOK, Labels
<1>4. Unstored'
  <2> HIDE DEF k
  <2>1. \A d \in Callers : /\ auth[d] # k /\ fetched[d] # k /\ k \notin refused[d]
    BY <1>2 DEF TypeOK
  <2>2. cache["token"] # k
    BY <1>2 DEF TypeOK, Entries
  <2> QED BY <1>1, <1>2, <2>1, <2>2 DEF Unstored, TypeOK
<1>5. Fresh'
  <2> HIDE DEF k
  <2>1. k \notin refused[c] /\ (pc[c] = "idle" => refused[c] = {})
    BY <1>2 DEF TypeOK, Fresh
  <2> QED BY <1>1, <2>1 DEF Fresh, TypeOK, Cleared, Authorized, Reading, Setting, Clearing
<1> QED BY <1>3, <1>4, <1>5

LEMMA EndpointInv ==
  ASSUME IInv, NEW c \in Callers, Ask(c) \/ Prove(c) \/ NoGrant(c)
  PROVE  IInv'
<1> USE Consts DEF IInv
<1>1. CASE Ask(c) /\ ~dpop
  BY <1>1, GrantInv DEF Ask
<1>2. CASE Prove(c) /\ nonce[c]
  BY <1>2, GrantInv DEF Prove
<1>3. CASE (Ask(c) /\ dpop) \/ (Prove(c) /\ ~nonce[c])
  <2>1. /\ pc[c] \in {"ask", "prove"}
        /\ pc' = pc \/ pc' = [pc EXCEPT ![c] = "prove"]
        /\ nonce' = nonce \/ nonce' = [nonce EXCEPT ![c] = TRUE]
        /\ UNCHANGED << dpop, cache, older, auth, proof, fetched, retries, refused, unread,
                        raced, minted, faults, requests >>
    BY <1>3 DEF Ask, Prove, Goto, NextNonce, NewNonce
  <2>2. TypeOK'
    BY <2>1 DEF TypeOK, Labels
  <2>3. Unstored'
    BY <2>1 DEF Unstored, TypeOK
  <2>4. Fresh'
    BY <2>1 DEF Fresh, TypeOK, Cleared, Authorized, Reading, Setting, Clearing
  <2> QED BY <2>2, <2>3, <2>4
<1>4. CASE NoGrant(c)
  <2>1. AuthorizeFails(c) /\ faults' \in 0 .. MaxFaults /\ raced' \in BOOLEAN
    BY <1>4 DEF NoGrant, TypeOK
  <2> QED BY <2>1, FailsInv
<1> QED BY <1>1, <1>2, <1>3, <1>4

-----------------------------------------------------------------------------
\* Setting and deleting an entry.
LEMMA StoreType ==
  ASSUME TypeOK, NEW e \in Entries, NEW grant \in 0 .. minted, Store(e, grant)
  PROVE  /\ cache' = [cache EXCEPT ![e] = grant]
         /\ cache' \in [Entries -> 0 .. minted]
         /\ older' \subseteq Entries \X Entries
<1>1. cache' = [cache EXCEPT ![e] = grant] /\ cache' \in [Entries -> 0 .. minted]
  BY DEF Store, TypeOK
<1>2. Without(e) \subseteq Entries \X Entries
  BY DEF Without, TypeOK
<1>3. CASE grant = 0
  BY <1>1, <1>2, <1>3 DEF Store
<1>4. CASE grant # 0
  BY <1>1, <1>2, <1>4 DEF Store
<1> QED BY <1>1, <1>3, <1>4

\* A step on the cache that stores a grant which is not the unstored one of
\* another caller nor, as a token, one that was refused.
LEMMA CacheInv ==
  ASSUME IInv, NEW e \in Entries, NEW grant \in 0 .. minted, Store(e, grant),
         raced' \in BOOLEAN,
         pc' \in [Callers -> Labels], fetched' \in [Callers -> 0 .. minted],
         UNCHANGED << dpop, auth, proof, nonce, retries, refused, unread, minted, faults, requests >>,
         \A d \in Callers : pc'[d] = "set_token" => pc[d] = "set_token" /\ fetched'[d] = fetched[d],
         \A d \in Callers : fetched'[d] \in {0, fetched[d]},
         \A d \in Callers : e = "token" /\ pc'[d] = "set_token" => grant # fetched[d],
         \A d \in Callers : e = "token" => grant = 0 \/ grant \notin refused[d],
         \A d \in Callers : /\ pc'[d] = "idle" => pc[d] = "idle"
                            /\ pc[d] \in {"send", "retry"} => pc'[d] = pc[d]
                            /\ pc'[d] \in Authorized => pc[d] \in Authorized
                            /\ pc'[d] \in Cleared => pc[d] \in Cleared \/ (e = "token" /\ grant = 0)
  PROVE  IInv'
<1> USE Consts DEF IInv
<1>1. /\ cache' = [cache EXCEPT ![e] = grant]
      /\ cache' \in [Entries -> 0 .. minted]
      /\ older' \subseteq Entries \X Entries
  BY StoreType
<1>2. TypeOK'
  BY <1>1 DEF TypeOK
<1>3. cache'["token"] = IF e = "token" THEN grant ELSE cache["token"]
  BY <1>1 DEF TypeOK, Entries
<1>4. Unstored'
  BY <1>3 DEF Unstored, TypeOK
<1>5. Fresh'
  <2>1. ASSUME NEW d \in Callers
        PROVE  /\ pc'[d] = "idle" => refused[d] = {}
               /\ retries[d] = 0 => refused[d] = {} \/ (unread[d] /\ pc'[d] \in {"send", "retry"})
               /\ pc'[d] \in Cleared => cache'["token"] = 0 \/ cache'["token"] \notin refused[d]
               /\ pc'[d] \in Authorized => auth[d] \notin refused[d] \/ (unread[d] /\ retries[d] = 0)
    <3>1. /\ pc'[d] = "idle" => pc[d] = "idle"
          /\ pc[d] \in {"send", "retry"} => pc'[d] = pc[d]
          /\ pc'[d] \in Authorized => pc[d] \in Authorized
          /\ pc'[d] \in Cleared => pc[d] \in Cleared \/ (e = "token" /\ grant = 0)
          /\ e = "token" => grant = 0 \/ grant \notin refused[d]
      OBVIOUS
    <3>2. /\ pc[d] = "idle" => refused[d] = {}
          /\ retries[d] = 0 => refused[d] = {} \/ (unread[d] /\ pc[d] \in {"send", "retry"})
          /\ pc[d] \in Cleared => cache["token"] = 0 \/ cache["token"] \notin refused[d]
          /\ pc[d] \in Authorized => auth[d] \notin refused[d] \/ (unread[d] /\ retries[d] = 0)
      BY DEF Fresh
    <3> QED BY <3>1, <3>2, <1>3
  <2> QED BY <2>1 DEF Fresh
<1> QED BY <1>2, <1>4, <1>5

LEMMA SetInv ==
  ASSUME IInv, NEW c \in Callers, SetToken(c) \/ SetNonce(c) \/ SetKey(c)
  PROVE  IInv'
<1> USE Consts DEF IInv
<1>0. raced' \in BOOLEAN
  BY DEF SetToken, SetNonce, SetKey, Cached, Writes, TypeOK
<1>1. fetched[c] \in 0 .. minted /\ Bound(fetched[c]) \in 0 .. minted /\ minted \in Nat
  BY DEF TypeOK, Bound
<1>2. CASE SetToken(c)
  <2>1. /\ pc[c] = "set_token" /\ pc' = [pc EXCEPT ![c] = "set_nonce"]
        /\ Store("token", fetched[c])
        /\ UNCHANGED << dpop, auth, proof, fetched, nonce, retries, refused, unread, minted, faults, requests >>
    BY <1>2 DEF SetToken, Cached, Goto
  <2>2. \A d \in Callers : fetched[c] \notin refused[d] /\ (d # c /\ pc[d] = "set_token" => fetched[c] # fetched[d])
    BY <2>1 DEF Unstored
  <2>3. /\ pc' \in [Callers -> Labels]
        /\ \A d \in Callers : pc'[d] = "set_token" => d # c /\ pc[d] = "set_token"
        /\ \A d \in Callers : /\ pc'[d] = "idle" => pc[d] = "idle"
                              /\ pc[d] \in {"send", "retry"} => pc'[d] = pc[d]
                              /\ pc'[d] \in Authorized => pc[d] \in Authorized
                              /\ pc'[d] \in Cleared => pc[d] \in Cleared
    BY <2>1 DEF TypeOK, Labels, Reading, Setting, Clearing, Cleared, Authorized
  <2>4. fetched' \in [Callers -> 0 .. minted] /\ "token" \in Entries
    BY <2>1 DEF TypeOK, Entries
  <2> HIDE DEF IInv
  <2> QED BY <1>0, <1>1, <2>1, <2>2, <2>3, <2>4, CacheInv
<1>3. CASE SetNonce(c)
  <2>1. /\ pc[c] = "set_nonce" /\ pc' = [pc EXCEPT ![c] = "set_key"]
        /\ Store("nonce", Bound(fetched[c]))
        /\ UNCHANGED << dpop, auth, proof, fetched, nonce, retries, refused, unread, minted, faults, requests >>
    BY <1>3 DEF SetNonce, Cached, Goto, NonceToCache
  <2>2. /\ pc' \in [Callers -> Labels]
        /\ \A d \in Callers : pc'[d] = "set_token" => pc[d] = "set_token"
        /\ \A d \in Callers : /\ pc'[d] = "idle" => pc[d] = "idle"
                              /\ pc[d] \in {"send", "retry"} => pc'[d] = pc[d]
                              /\ pc'[d] \in Authorized => pc[d] \in Authorized
                              /\ pc'[d] \in Cleared => pc[d] \in Cleared
    BY <2>1 DEF TypeOK, Labels, Reading, Setting, Clearing, Cleared, Authorized
  <2>3. fetched' \in [Callers -> 0 .. minted] /\ "nonce" \in Entries
    BY <2>1 DEF TypeOK, Entries
  <2> HIDE DEF IInv
  <2> QED BY <1>0, <1>1, <2>1, <2>2, <2>3, CacheInv
<1>4. CASE SetKey(c)
  <2>1. /\ pc[c] = "set_key" /\ pc' = [pc EXCEPT ![c] = "send"]
        /\ Store("key", Bound(fetched[c]))
        /\ fetched' = [fetched EXCEPT ![c] = 0]
        /\ UNCHANGED << dpop, auth, proof, nonce, retries, refused, unread, minted, faults, requests >>
    BY <1>4 DEF SetKey, Cached, Goto
  <2>2. /\ pc' \in [Callers -> Labels]
        /\ \A d \in Callers : pc'[d] = "set_token" => pc[d] = "set_token" /\ d # c
        /\ \A d \in Callers : /\ pc'[d] = "idle" => pc[d] = "idle"
                              /\ pc[d] \in {"send", "retry"} => pc'[d] = pc[d]
                              /\ pc'[d] \in Authorized => pc[d] \in Authorized
                              /\ pc'[d] \in Cleared => pc[d] \in Cleared
    BY <2>1 DEF TypeOK, Labels, Reading, Setting, Clearing, Cleared, Authorized
  <2>3. /\ fetched' \in [Callers -> 0 .. minted] /\ "key" \in Entries
        /\ \A d \in Callers : fetched'[d] \in {0, fetched[d]} /\ (d # c => fetched'[d] = fetched[d])
    BY <1>1, <2>1 DEF TypeOK, Entries
  <2> HIDE DEF IInv
  <2> QED BY <1>0, <1>1, <2>1, <2>2, <2>3, CacheInv
<1> QED BY <1>2, <1>3, <1>4

\* An entry goes: after a 429, or because it expires.
LEMMA ClearInv ==
  ASSUME IInv, NEW c \in Callers, ClearToken(c) \/ ClearNonce(c) \/ ClearKey(c)
  PROVE  IInv'
<1> USE Consts DEF IInv
<1>0. raced' \in BOOLEAN
  BY DEF ClearToken, ClearNonce, ClearKey, Cached, Writes, TypeOK
<1>1. PICK e \in Entries, l \in {"clear_nonce", "clear_key", "token"} :
        /\ pc[c] \in {"clear_token", "clear_nonce", "clear_key"}
        /\ pc' = [pc EXCEPT ![c] = l]
        /\ Store(e, 0)
        /\ e # "token" => pc[c] \in Clearing
        /\ UNCHANGED << dpop, auth, proof, fetched, nonce, retries, refused, unread, minted, faults, requests >>
  BY DEF ClearToken, ClearNonce, ClearKey, Cached, Goto, Delete, Remove, Entries, Clearing
<1>2. /\ pc' \in [Callers -> Labels]
      /\ \A d \in Callers : pc'[d] = "set_token" => pc[d] = "set_token"
      /\ \A d \in Callers : /\ pc'[d] = "idle" => pc[d] = "idle"
                            /\ pc[d] \in {"send", "retry"} => pc'[d] = pc[d]
                            /\ pc'[d] \in Cleared => pc[d] \in Cleared \/ e = "token"
  BY <1>1 DEF TypeOK, Labels, Clearing, Cleared
<1>3. \A d \in Callers : pc'[d] \in Authorized => pc[d] \in Authorized
  BY <1>1 DEF TypeOK, Authorized, Reading, Setting
<1>4. \A d \in Callers : pc[d] = "set_token" => fetched[d] # 0
  BY DEF Unstored
<1>5. fetched' \in [Callers -> 0 .. minted] /\ 0 \in 0 .. minted
  BY <1>1 DEF TypeOK
<1> HIDE DEF IInv
<1> QED BY <1>0, <1>1, <1>2, <1>3, <1>4, <1>5, CacheInv

LEMMA ExpireInv ==
  ASSUME IInv, NEW e \in Entries, Expire(e)
  PROVE  IInv'
<1> USE Consts DEF IInv
<1>0. raced' \in BOOLEAN
  BY DEF Expire, TypeOK
<1>1. /\ Store(e, 0)
      /\ UNCHANGED << dpop, pc, auth, proof, fetched, nonce, retries, refused, unread, minted, faults, requests >>
  BY DEF Expire, Remove
<1>2. \A d \in Callers : pc[d] = "set_token" => fetched[d] # 0
  BY DEF Unstored
<1>3. pc' \in [Callers -> Labels] /\ fetched' \in [Callers -> 0 .. minted] /\ 0 \in 0 .. minted
  BY <1>1 DEF TypeOK
<1> HIDE DEF IInv
<1> QED BY <1>0, <1>1, <1>2, <1>3, CacheInv

-----------------------------------------------------------------------------
\* The rest of a request.
LEMMA RequestInv ==
  ASSUME IInv, NEW c \in Callers, Begin(c) \/ Answered(c) \/ Retry(c)
  PROVE  IInv'
<1> USE Consts DEF IInv
<1>1. CASE Begin(c)
  <2>1. /\ pc[c] = "idle" /\ pc' = [pc EXCEPT ![c] = "token"]
        /\ requests' = [requests EXCEPT ![c] = @ + 1] /\ requests[c] < MaxRequests
        /\ UNCHANGED << dpop, cache, older, auth, proof, fetched, nonce, retries, refused, unread,
                        raced, minted, faults >>
    BY <1>1 DEF Begin, Goto
  <2>2. TypeOK'
    BY <2>1 DEF TypeOK, Labels
  <2>3. Unstored'
    BY <2>1 DEF Unstored, TypeOK
  <2>4. Fresh'
    BY <2>1 DEF Fresh, TypeOK, Cleared, Authorized, Reading, Setting, Clearing
  <2> QED BY <2>2, <2>3, <2>4
<1>2. CASE Answered(c)
  <2>1. End(c) /\ raced' \in BOOLEAN /\ faults' \in 0 .. MaxFaults
    BY <1>2 DEF Answered, TypeOK
  <2> QED BY <2>1, EndInv
<1>3. CASE Retry(c)
  <2>1. /\ pc[c] = "retry"
        /\ \/ retries[c] > 0 /\ pc' = [pc EXCEPT ![c] = "clear_token"]
           \/ ~(retries[c] > 0) /\ pc' = [pc EXCEPT ![c] = "send"]
        /\ UNCHANGED << dpop, cache, older, auth, proof, fetched, nonce, retries, refused, unread,
                        raced, minted, faults, requests >>
    BY <1>3 DEF Retry, Goto
  <2>2. TypeOK'
    BY <2>1 DEF TypeOK, Labels
  <2>3. Unstored'
    BY <2>1 DEF Unstored, TypeOK
  <2>4. retries[c] > 0 \/ refused[c] = {} \/ (unread[c] /\ retries[c] = 0)
    BY DEF Fresh, TypeOK
  <2>5. Fresh'
    BY <2>1, <2>4 DEF Fresh, TypeOK, Cleared, Authorized, Reading, Setting, Clearing
  <2> QED BY <2>2, <2>3, <2>5
<1> QED BY <1>1, <1>2, <1>3

LEMMA FaultInv ==
  ASSUME IInv, NEW c \in Callers, TooManyRequests(c) \/ NetworkError(c) \/ Cancelled(c)
  PROVE  IInv'
<1> USE Consts DEF IInv
<1>1. raced' \in BOOLEAN /\ faults' \in 0 .. MaxFaults
  BY DEF TooManyRequests, NetworkError, Cancelled, Fault, TypeOK
<1>2. CASE End(c)
  BY <1>1, <1>2, EndInv
<1>3. CASE TooManyRequests(c) /\ ~End(c)
  <2>1. /\ pc[c] = "send" /\ pc' = [pc EXCEPT ![c] = "retry"]
        /\ \/ Undrained(c)
           \/ Drained(c)
        /\ UNCHANGED << dpop, cache, older, auth, proof, fetched, nonce, minted, requests >>
    BY <1>3 DEF TooManyRequests, Goto
  <2>2. refused' = [refused EXCEPT ![c] = @ \cup {auth[c]}]
    BY <2>1 DEF Undrained, Drained, Refuse
  <2>3. \/ retries' = retries /\ unread' = [unread EXCEPT ![c] = TRUE]
        \/ /\ retries' = [retries EXCEPT ![c] = @ + 1] /\ unread' = unread
           /\ ~(retries[c] + 1 > MaxRetries)
    BY <2>1 DEF Undrained, Drained, GiveUp, Exhausted
  <2>4. /\ retries' \in [Callers -> 0 .. MaxRetries] /\ unread' \in [Callers -> BOOLEAN]
        /\ retries'[c] = 0 => unread'[c]
        /\ \A d \in Callers \ {c} : retries'[d] = retries[d] /\ unread'[d] = unread[d]
    <3>1. retries[c] \in 0 .. MaxRetries /\ MaxRetries \in Nat
      BY DEF TypeOK
    <3>2. CASE retries' = retries /\ unread' = [unread EXCEPT ![c] = TRUE]
      BY <3>2 DEF TypeOK
    <3>3. CASE /\ retries' = [retries EXCEPT ![c] = @ + 1] /\ unread' = unread
               /\ ~(retries[c] + 1 > MaxRetries)
      <4>1. retries[c] + 1 \in 0 .. MaxRetries /\ retries[c] + 1 # 0
        BY <3>1, <3>3
      <4> QED BY <3>3, <4>1 DEF TypeOK
    <3> QED BY <2>3, <3>2, <3>3
  <2>5. refused' \in [Callers -> SUBSET (0 .. minted)]
    BY <2>2 DEF TypeOK
  <2>6. TypeOK'
    BY <1>1, <2>1, <2>4, <2>5 DEF TypeOK, Labels
  <2>7. \A d \in Callers : pc[d] = "set_token" => d # c /\ fetched[d] # auth[c]
    BY <2>1 DEF Unstored
  <2>8. Unstored'
    BY <2>1, <2>2, <2>7 DEF Unstored, TypeOK
  <2>9. Fresh'
    BY <2>1, <2>2, <2>4 DEF Fresh, TypeOK, Cleared, Authorized, Reading, Setting, Clearing
  <2> QED BY <2>6, <2>8, <2>9
<1>4. CASE NetworkError(c) /\ ~End(c)
  <2>1. /\ pc[c] = "send" /\ pc' = [pc EXCEPT ![c] = "retry"]
        /\ UNCHANGED << dpop, cache, older, auth, proof, fetched, nonce, retries, refused, unread,
                        minted, requests >>
    BY <1>4 DEF NetworkError, Goto
  <2>2. TypeOK'
    BY <1>1, <2>1 DEF TypeOK, Labels
  <2>3. Unstored'
    BY <2>1 DEF Unstored, TypeOK
  <2>4. Fresh'
    BY <2>1 DEF Fresh, TypeOK, Cleared, Authorized, Reading, Setting, Clearing
  <2> QED BY <2>2, <2>3, <2>4
<1>5. CASE Cancelled(c) /\ ~End(c)
  BY <1>5 DEF Cancelled
<1> QED BY <1>2, <1>3, <1>4, <1>5

-----------------------------------------------------------------------------
LEMMA NextInv == IInv /\ [Next]_vars => IInv'
<1> SUFFICES ASSUME IInv, [Next]_vars PROVE IInv'
    OBVIOUS
<1>1. ASSUME NEW c \in Callers, Step(c) PROVE IInv'
  BY <1>1, ReadInv, EndpointInv, SetInv, ClearInv, RequestInv DEF Step
<1>2. ASSUME NEW c \in Callers, Faulty(c) PROVE IInv'
  BY <1>2, EndpointInv, FaultInv DEF Faulty
<1>3. CASE UNCHANGED vars
  BY <1>3 DEF vars, IInv, TypeOK, Unstored, Fresh
<1> QED BY <1>1, <1>2, <1>3, RequestInv, ExpireInv DEF Next

LEMMA InvAlways == Spec => []IInv
BY InitInv, NextInv, PTL DEF Spec

\* Whatever the callers, the faults and the expiries, the variables hold what
\* they should and no request is retried more than max_retries times for a
\* 429.
THEOREM TypeCorrect == Spec => []TypeOK
<1>1. IInv => TypeOK
  BY DEF IInv
<1> QED BY <1>1, InvAlways, PTL

\* No interleaving of the callers on the unlocked cache gives a retry the
\* token its request was refused with, once a 429 has been counted; before, a
\* 429 whose body could not be read is the only exception.
THEOREM FreshRetries == Spec => []RetryIsFresh
<1>1. IInv => RetryIsFresh
  BY DEF IInv, Fresh, RetryIsFresh, Authorized
<1> QED BY <1>1, InvAlways, PTL

-----------------------------------------------------------------------------
(* That requests are proven unless the cache was raced. *)

\* The entries are of one grant, and the token was set first, so that it
\* expires first.
Whole ==
  dpop /\ cache["token"] # 0 =>
    /\ cache["nonce"] = cache["token"] /\ cache["key"] = cache["token"]
    /\ << "token", "nonce" >> \in older /\ << "token", "key" >> \in older

\* Who changes the entries does it alone.
Alone ==
  \A c, d \in Callers :
    c # d /\ pc[c] \in Setting \cup Clearing => pc[d] \notin Reading \cup Setting \cup Clearing

\* What a caller knows of the cache it uses.
Aware ==
  \A c \in Callers :
    /\ pc[c] \in Reading => auth[c] = cache["token"] /\ auth[c] # 0
    /\ pc[c] = "key" => dpop
    /\ pc[c] \in Setting => cache["token"] = fetched[c]
    /\ pc[c] = "set_key" /\ dpop =>
         cache["nonce"] = fetched[c] /\ << "token", "nonce" >> \in older
    /\ pc[c] \in Clearing => cache["token"] = 0

\* The request is on its way, or on its way again as it was.
Sent(c) == pc[c] = "send" \/ (pc[c] = "retry" /\ retries[c] = 0)

Undisturbed ==
  ~raced =>
    /\ (\A c \in Callers : pc[c] \notin Setting) => Whole
    /\ Alone /\ Aware
    /\ \A c \in Callers : Sent(c) => Proven(c)

\* A grant goes out with its proof; without bound tokens there are none.
Granted ==
  /\ \A c \in Callers : pc[c] \in {"set_token"} \cup Setting =>
       auth[c] = fetched[c] /\ fetched[c] # 0 /\ Proven(c)
  /\ ~dpop => /\ cache["nonce"] = 0 /\ cache["key"] = 0
              /\ \A c \in Callers : proof[c] = NoProof

Coherent == Undisturbed /\ Granted

\* Nobody but c is in the middle of a use of the cache.
Uses == Reading \cup Setting \cup Clearing
Lone(c) == \A d \in Callers \ {c} : pc[d] \notin Uses

LEMMA InitCoherent == Init => Coherent
BY DEF Init, Entries, Coherent, Undisturbed, Whole, Alone, Aware, Sent, Proven, Granted, Setting,
       Clearing, Reading, NoProof

\* A step of a caller that leaves the cache alone.
LEMMA PrivateStep ==
  ASSUME TypeOK, Coherent, NEW c \in Callers, raced => raced',
         UNCHANGED << dpop, cache, older >>,
         \A d \in Callers \ {c} : /\ pc'[d] = pc[d] /\ auth'[d] = auth[d] /\ proof'[d] = proof[d]
                                  /\ fetched'[d] = fetched[d] /\ retries'[d] = retries[d],
         pc[c] \notin Setting, pc'[c] \notin Setting \cup Clearing,
         ~raced' /\ pc'[c] \in Reading =>
           /\ \A d \in Callers \ {c} : pc[d] \notin Setting \cup Clearing
           /\ auth'[c] = cache["token"] /\ auth'[c] # 0
           /\ pc'[c] = "key" => dpop,
         ~raced' /\ Sent(c)' => Proven(c)',
         pc'[c] = "set_token" => auth'[c] = fetched'[c] /\ fetched'[c] # 0 /\ Proven(c)',
         ~dpop => proof'[c] = NoProof
  PROVE  Coherent'
<1>1. Granted'
  BY DEF Coherent, Granted, Proven, Setting
<1>2. ASSUME ~raced' PROVE (\A d \in Callers : pc'[d] \notin Setting) => Whole'
  BY <1>2 DEF Coherent, Undisturbed, Whole
<1>3. ASSUME ~raced' PROVE Alone'
  BY <1>3 DEF Coherent, Undisturbed, Alone
<1>4. ASSUME ~raced' PROVE Aware'
  BY <1>4 DEF Coherent, Undisturbed, Aware, Setting, Clearing, Reading
<1>5. ASSUME ~raced' PROVE \A d \in Callers : Sent(d)' => Proven(d)'
  BY <1>5 DEF Coherent, Undisturbed, Sent, Proven
<1> QED BY <1>1, <1>2, <1>3, <1>4, <1>5 DEF Coherent, Undisturbed

\* A step of a caller that sets or deletes an entry: what it must leave.
LEMMA SharedStep ==
  ASSUME TypeOK, Coherent, NEW c \in Callers, raced => raced', ~raced' => Lone(c),
         UNCHANGED << dpop, auth, proof, retries >>,
         \A d \in Callers \ {c} : pc'[d] = pc[d] /\ fetched'[d] = fetched[d],
         pc'[c] \notin Reading \cup {"set_token", "retry"},
         ~raced' /\ pc'[c] \notin Setting => Whole',
         pc'[c] \in Setting =>
           /\ pc[c] \in {"set_token"} \cup Setting /\ fetched'[c] = fetched[c]
           /\ ~raced' => cache'["token"] = fetched[c],
         ~raced' /\ pc'[c] = "set_key" /\ dpop =>
           cache'["nonce"] = fetched[c] /\ << "token", "nonce" >> \in older',
         ~raced' /\ pc'[c] \in Clearing => cache'["token"] = 0,
         pc'[c] = "send" => pc[c] \in Setting,
         ~dpop => cache'["nonce"] = 0 /\ cache'["key"] = 0
  PROVE  Coherent'
<1>1. Granted'
  BY DEF Coherent, Granted, Proven, Setting
<1>2. ASSUME ~raced' PROVE (\A d \in Callers : pc'[d] \notin Setting) => Whole'
  BY <1>2
<1>3. ASSUME ~raced' PROVE Alone'
  BY <1>3 DEF Lone, Uses, Alone
<1>4. ASSUME ~raced' PROVE Aware'
  BY <1>4 DEF Lone, Uses, Aware, Setting, Clearing, Reading
<1>5. ASSUME ~raced' PROVE \A d \in Callers : Sent(d)' => Proven(d)'
  BY <1>5 DEF Coherent, Undisturbed, Granted, Sent, Proven
<1> QED BY <1>1, <1>2, <1>3, <1>4, <1>5 DEF Coherent, Undisturbed

\* What setting an entry does to the ages.
LEMMA StoreAges ==
  ASSUME TypeOK, NEW e \in Entries, NEW grant, Store(e, grant)
  PROVE  /\ cache' = [cache EXCEPT ![e] = grant]
         /\ \A f \in Entries \ {e} : cache'[f] = cache[f]
         /\ cache'[e] = grant
         /\ \A f \in Entries \ {e} : grant # 0 /\ cache[f] # 0 => << f, e >> \in older'
         /\ \A f, g \in Entries \ {e} : << f, g >> \in older => << f, g >> \in older'
BY DEF Store, Without, TypeOK

-----------------------------------------------------------------------------
LEMMA EndCoherent ==
  ASSUME TypeOK, Coherent, NEW c \in Callers, End(c), raced => raced', pc[c] \notin Setting
  PROVE  Coherent'
<1>1. /\ pc'[c] = "idle" /\ proof'[c] = NoProof
      /\ UNCHANGED << dpop, cache, older >>
      /\ \A d \in Callers \ {c} : /\ pc'[d] = pc[d] /\ auth'[d] = auth[d] /\ proof'[d] = proof[d]
                                  /\ fetched'[d] = fetched[d] /\ retries'[d] = retries[d]
  BY DEF End, Goto, TypeOK
<1> QED BY <1>1, PrivateStep DEF Setting, Clearing, Reading, Sent

LEMMA FailsCoherent ==
  ASSUME TypeOK, Coherent, NEW c \in Callers, AuthorizeFails(c), raced => raced', pc[c] \notin Setting
  PROVE  Coherent'
<1>1. CASE retries[c] = 0
  BY <1>1, EndCoherent DEF AuthorizeFails
<1>2. CASE retries[c] # 0
  <2>1. /\ pc'[c] = "retry" /\ retries'[c] # 0 /\ proof'[c] = proof[c]
        /\ UNCHANGED << dpop, cache, older >>
        /\ \A d \in Callers \ {c} : /\ pc'[d] = pc[d] /\ auth'[d] = auth[d] /\ proof'[d] = proof[d]
                                    /\ fetched'[d] = fetched[d] /\ retries'[d] = retries[d]
    BY <1>2 DEF AuthorizeFails, Goto, TypeOK
  <2>2. ~dpop => proof'[c] = NoProof
    BY <2>1 DEF Coherent, Granted
  <2> QED BY <2>1, <2>2, PrivateStep DEF Setting, Clearing, Reading, Sent
<1> QED BY <1>1, <1>2

LEMMA ReadCoherent ==
  ASSUME TypeOK, Coherent, NEW c \in Callers, ReadToken(c) \/ ReadNonce(c) \/ ReadKey(c)
  PROVE  Coherent'
<1>1. /\ raced => raced'
      /\ ~raced' => ~raced /\ \A d \in Callers \ {c} : pc[d] \notin Setting \cup Clearing
  BY DEF ReadToken, ReadNonce, ReadKey, Reads, Others
<1>2. pc[c] \in {"token", "nonce", "key"} /\ pc[c] \notin Setting
  BY DEF ReadToken, ReadNonce, ReadKey, Setting
<1>3. ~dpop => cache["nonce"] = 0 /\ cache["key"] = 0 /\ proof[c] = NoProof
  BY DEF Coherent, Granted
<1>4. ASSUME ~raced' PROVE Whole /\ Aware
  BY <1>1, <1>2, <1>4 DEF Coherent, Undisturbed
<1>5. CASE ReadToken(c)
  <2>1. /\ pc'[c] \in {"nonce", "ask"} /\ proof'[c] = proof[c]
        /\ pc'[c] = "nonce" => auth'[c] = cache["token"] /\ auth'[c] # 0
        /\ UNCHANGED << dpop, cache, older >>
        /\ \A d \in Callers \ {c} : /\ pc'[d] = pc[d] /\ auth'[d] = auth[d] /\ proof'[d] = proof[d]
                                    /\ fetched'[d] = fetched[d] /\ retries'[d] = retries[d]
    BY <1>5 DEF ReadToken, Goto, TypeOK
  <2> QED BY <1>1, <1>2, <1>3, <2>1, PrivateStep DEF Setting, Clearing, Reading, Sent
<1>6. CASE ReadNonce(c)
  <2>1. /\ pc[c] = "nonce" /\ pc'[c] = IF cache["nonce"] # 0 THEN "key" ELSE "send"
        /\ proof'[c] = proof[c] /\ auth'[c] = auth[c]
        /\ UNCHANGED << dpop, cache, older >>
        /\ \A d \in Callers \ {c} : /\ pc'[d] = pc[d] /\ auth'[d] = auth[d] /\ proof'[d] = proof[d]
                                    /\ fetched'[d] = fetched[d] /\ retries'[d] = retries[d]
    BY <1>6 DEF ReadNonce, Goto, TypeOK
  <2>2. ASSUME ~raced' PROVE auth[c] = cache["token"] /\ auth[c] # 0
    BY <1>4, <2>1, <2>2 DEF Aware, Reading
  <2>3. ASSUME ~raced', cache["nonce"] = 0 PROVE ~dpop
    BY <1>4, <2>2, <2>3 DEF Whole
  <2>4. ~raced' /\ Sent(c)' => Proven(c)'
    BY <1>3, <2>1, <2>3 DEF Sent, Proven
  <2> QED BY <1>1, <1>2, <1>3, <2>1, <2>2, <2>4, PrivateStep DEF Setting, Clearing, Reading
<1>7. CASE ReadKey(c)
  <2>1. ASSUME cache["key"] = 0 PROVE Coherent'
    BY <1>1, <1>2, <1>7, <2>1, FailsCoherent DEF ReadKey
  <2>2. ASSUME cache["key"] # 0 PROVE Coherent'
    <3>1. /\ pc[c] = "key" /\ pc'[c] = "send" /\ auth'[c] = auth[c]
          /\ proof'[c] = [key |-> cache["key"], token |-> auth[c]]
          /\ UNCHANGED << dpop, cache, older >>
          /\ \A d \in Callers \ {c} : /\ pc'[d] = pc[d] /\ auth'[d] = auth[d] /\ proof'[d] = proof[d]
                                      /\ fetched'[d] = fetched[d] /\ retries'[d] = retries[d]
      BY <1>7, <2>2 DEF ReadKey, Goto, TypeOK
    <3>2. dpop
      BY <1>3, <2>2 DEF TypeOK
    <3>3. ASSUME ~raced' PROVE Proven(c)'
      BY <1>4, <3>1, <3>2, <3>3 DEF Aware, Whole, Reading, Proven
    <3> QED BY <1>1, <1>2, <3>1, <3>2, <3>3, PrivateStep DEF Setting, Clearing, Reading
  <2> QED BY <2>1, <2>2
<1> QED BY <1>5, <1>6, <1>7

LEMMA EndpointCoherent ==
  ASSUME TypeOK, Coherent, NEW c \in Callers, Ask(c) \/ Prove(c) \/ NoGrant(c)
  PROVE  Coherent'
<1>1. raced' = raced /\ pc[c] \in {"ask", "prove"} /\ pc[c] \notin Setting
  BY DEF Ask, Prove, NoGrant, Setting
<1>2. ~dpop => proof[c] = NoProof
  BY DEF Coherent, Granted
<1>3. CASE NoGrant(c)
  BY <1>1, <1>3, FailsCoherent DEF NoGrant
<1>4. CASE (Ask(c) \/ Prove(c)) /\ ~Grant(c)
  <2>1. /\ pc'[c] = "prove" /\ proof'[c] = proof[c]
        /\ UNCHANGED << dpop, cache, older >>
        /\ \A d \in Callers \ {c} : /\ pc'[d] = pc[d] /\ auth'[d] = auth[d] /\ proof'[d] = proof[d]
                                    /\ fetched'[d] = fetched[d] /\ retries'[d] = retries[d]
    BY <1>4 DEF Ask, Prove, Goto, TypeOK
  <2> QED BY <1>1, <1>2, <2>1, PrivateStep DEF Setting, Clearing, Reading, Sent
<1>5. CASE (Ask(c) \/ Prove(c)) /\ Grant(c)
  <2>1. /\ pc'[c] = "set_token" /\ auth'[c] = minted + 1 /\ fetched'[c] = minted + 1
        /\ proof'[c] = IF dpop THEN [key |-> minted + 1, token |-> minted + 1] ELSE proof[c]
        /\ UNCHANGED << dpop, cache, older >>
        /\ \A d \in Callers \ {c} : /\ pc'[d] = pc[d] /\ auth'[d] = auth[d] /\ proof'[d] = proof[d]
                                    /\ fetched'[d] = fetched[d] /\ retries'[d] = retries[d]
    BY <1>5 DEF Ask, Prove, Grant, Goto, TypeOK
  <2>2. minted + 1 # 0
    BY DEF TypeOK
  <2>3. Proven(c)' /\ (~dpop => proof'[c] = NoProof)
    BY <1>2, <2>1 DEF Proven
  <2> QED BY <1>1, <2>1, <2>2, <2>3, PrivateStep DEF Setting, Clearing, Reading, Sent
<1> QED BY <1>3, <1>4, <1>5

LEMMA SetCoherent ==
  ASSUME TypeOK, Coherent, NEW c \in Callers, SetToken(c) \/ SetNonce(c) \/ SetKey(c)
  PROVE  Coherent'
<1>1. /\ raced => raced'
      /\ ~raced' => ~raced /\ Lone(c)
      /\ UNCHANGED << dpop, auth, proof, retries >>
      /\ \A d \in Callers \ {c} : pc'[d] = pc[d] /\ fetched'[d] = fetched[d]
  BY DEF SetToken, SetNonce, SetKey, Cached, Writes, Others, Lone, Uses, Goto, TypeOK
<1>2. ASSUME ~raced' PROVE Aware
  BY <1>1, <1>2 DEF Coherent, Undisturbed
<1>3. pc[c] \in {"set_token"} \cup Setting
  BY DEF SetToken, SetNonce, SetKey, Setting
<1>4. fetched[c] # 0 /\ (~dpop => cache["nonce"] = 0 /\ cache["key"] = 0)
  BY <1>3 DEF Coherent, Granted
<1>5. CASE SetToken(c)
  <2>1. pc'[c] = "set_nonce" /\ fetched'[c] = fetched[c] /\ Store("token", fetched[c])
    BY <1>5 DEF SetToken, Cached, Goto, TypeOK
  <2>2. /\ cache'["token"] = fetched[c]
        /\ cache'["nonce"] = cache["nonce"] /\ cache'["key"] = cache["key"]
    BY <2>1, StoreAges DEF Entries
  <2> QED BY <1>1, <1>3, <1>4, <2>1, <2>2, SharedStep DEF Setting, Clearing, Reading
<1>6. CASE SetNonce(c)
  <2>1. /\ pc[c] = "set_nonce" /\ pc'[c] = "set_key" /\ fetched'[c] = fetched[c]
        /\ Store("nonce", Bound(fetched[c]))
    BY <1>6 DEF SetNonce, NonceToCache, Cached, Goto, TypeOK
  <2>2. /\ cache'["nonce"] = Bound(fetched[c])
        /\ cache'["token"] = cache["token"] /\ cache'["key"] = cache["key"]
        /\ Bound(fetched[c]) # 0 /\ cache["token"] # 0 => << "token", "nonce" >> \in older'
    BY <2>1, StoreAges DEF Entries
  <2>3. ASSUME ~raced' PROVE cache["token"] = fetched[c]
    BY <1>2, <2>1, <2>3 DEF Aware, Setting
  <2>4. Bound(fetched[c]) = IF dpop THEN fetched[c] ELSE 0
    BY DEF Bound
  <2> QED BY <1>1, <1>3, <1>4, <2>1, <2>2, <2>3, <2>4, SharedStep DEF Setting, Clearing, Reading
<1>7. CASE SetKey(c)
  <2>1. /\ pc[c] = "set_key" /\ pc'[c] = "send"
        /\ Store("key", Bound(fetched[c]))
    BY <1>7 DEF SetKey, Cached, Goto, TypeOK
  <2>2. /\ cache'["key"] = Bound(fetched[c])
        /\ cache'["token"] = cache["token"] /\ cache'["nonce"] = cache["nonce"]
        /\ Bound(fetched[c]) # 0 /\ cache["token"] # 0 => << "token", "key" >> \in older'
        /\ << "token", "nonce" >> \in older => << "token", "nonce" >> \in older'
    BY <2>1, StoreAges DEF Entries
  <2>3. ASSUME ~raced'
        PROVE  /\ cache["token"] = fetched[c]
               /\ dpop => cache["nonce"] = fetched[c] /\ << "token", "nonce" >> \in older
    BY <1>2, <2>1, <2>3 DEF Aware, Setting
  <2>4. Bound(fetched[c]) = IF dpop THEN fetched[c] ELSE 0
    BY DEF Bound
  <2>5. ASSUME ~raced' PROVE Whole'
    BY <1>1, <1>4, <2>2, <2>3, <2>4, <2>5 DEF Whole
  <2>6. pc[c] \in Setting
    BY <2>1 DEF Setting
  <2> QED BY <1>1, <1>4, <2>1, <2>2, <2>4, <2>5, <2>6, SharedStep DEF Setting, Clearing, Reading
<1> QED BY <1>5, <1>6, <1>7

LEMMA ClearCoherent ==
  ASSUME TypeOK, Coherent, NEW c \in Callers, ClearToken(c) \/ ClearNonce(c) \/ ClearKey(c)
  PROVE  Coherent'
<1>1. /\ raced => raced'
      /\ ~raced' => ~raced /\ Lone(c)
      /\ UNCHANGED << dpop, auth, proof, retries >>
      /\ \A d \in Callers \ {c} : pc'[d] = pc[d] /\ fetched'[d] = fetched[d]
      /\ pc'[c] \in Clearing \cup {"token"}
  BY DEF ClearToken, ClearNonce, ClearKey, Cached, Writes, Others, Lone, Uses, Goto, TypeOK, Clearing
<1>2. ASSUME ~raced' PROVE Aware
  BY <1>1, <1>2 DEF Coherent, Undisturbed
<1>3. PICK e \in Entries : Store(e, 0) /\ (e = "token" \/ pc[c] \in Clearing)
  BY DEF ClearToken, ClearNonce, ClearKey, Delete, Remove, Entries, Clearing
<1>4. cache'[e] = 0 /\ \A f \in Entries \ {e} : cache'[f] = cache[f]
  BY <1>3, StoreAges
<1>5. ASSUME ~raced' PROVE cache'["token"] = 0
  BY <1>2, <1>3, <1>4, <1>5 DEF Aware, Entries
<1>6. ~dpop => cache'["nonce"] = 0 /\ cache'["key"] = 0
  BY <1>4 DEF Entries, Coherent, Granted
<1>7. ASSUME ~raced' PROVE Whole'
  BY <1>5, <1>7 DEF Whole
<1> QED BY <1>1, <1>5, <1>6, <1>7, SharedStep DEF Setting, Clearing, Reading

\* The nonce and the key of a token do not expire before it.
LEMMA ExpireCoherent ==
  ASSUME TypeOK, Coherent, NEW e \in Entries, Expire(e)
  PROVE  Coherent'
<1>1. /\ cache[e] # 0 /\ \A p \in older : p[2] # e
      /\ Store(e, 0)
      /\ UNCHANGED << dpop, pc, auth, proof, fetched, retries >>
      /\ raced => raced'
      /\ ~raced' => ~raced /\ \A c \in Callers : pc[c] \notin Uses
  BY DEF Expire, Remove, Uses
<1>2. cache'[e] = 0 /\ \A f \in Entries \ {e} : cache'[f] = cache[f]
  BY <1>1, StoreAges
<1>3. Granted'
  BY <1>1, <1>2 DEF Coherent, Granted, Proven, Entries
<1>4. ASSUME ~raced' PROVE Whole'
  <2>1. Whole
    BY <1>1, <1>4 DEF Coherent, Undisturbed, Uses
  <2>2. dpop /\ cache["token"] # 0 => e = "token"
    <3>1. SUFFICES ASSUME dpop, cache["token"] # 0, e # "token" PROVE FALSE
      OBVIOUS
    <3>2. << "token", "nonce" >> \in older /\ << "token", "key" >> \in older
      BY <2>1, <3>1 DEF Whole
    <3>3. << "token", "nonce" >>[2] = "nonce" /\ << "token", "key" >>[2] = "key"
      OBVIOUS
    <3> QED BY <1>1, <3>1, <3>2, <3>3 DEF Entries
  <2>3. dpop => cache'["token"] = 0
    BY <1>2, <2>2 DEF Entries
  <2> QED BY <1>1, <2>3 DEF Whole
<1>5. ASSUME ~raced' PROVE Alone' /\ Aware'
  BY <1>1, <1>5 DEF Alone, Aware, Uses, Reading, Setting, Clearing
<1>6. ASSUME ~raced' PROVE \A c \in Callers : Sent(c)' => Proven(c)'
  BY <1>1, <1>6 DEF Coherent, Undisturbed, Sent, Proven
<1> QED BY <1>3, <1>4, <1>5, <1>6 DEF Coherent, Undisturbed

LEMMA RequestCoherent ==
  ASSUME TypeOK, Coherent, NEW c \in Callers,
         Begin(c) \/ Answered(c) \/ Retry(c) \/ TooManyRequests(c) \/ NetworkError(c) \/ Cancelled(c)
  PROVE  Coherent'
<1>1. raced' = raced /\ pc[c] \in {"idle", "send", "retry"} /\ pc[c] \notin Setting
  BY DEF Begin, Answered, Retry, TooManyRequests, NetworkError, Cancelled, Setting
<1>2. CASE End(c)
  BY <1>1, <1>2, EndCoherent
<1>3. CASE ~End(c)
  <2>1. /\ auth' = auth /\ proof' = proof /\ fetched' = fetched
        /\ UNCHANGED << dpop, cache, older >>
        /\ \A d \in Callers \ {c} : pc'[d] = pc[d] /\ retries'[d] = retries[d]
    BY <1>3 DEF Begin, Answered, Retry, TooManyRequests, Undrained, Drained, NetworkError, Cancelled, Goto, TypeOK
  <2>2. /\ pc'[c] \in {"token", "clear_token", "send", "retry"}
        /\ pc'[c] = "send" => pc[c] = "retry" /\ retries[c] = 0
        /\ pc'[c] = "retry" /\ retries'[c] = 0 => pc[c] = "send"
    BY <1>3, Consts DEF Begin, Answered, Retry, TooManyRequests, NetworkError, Cancelled, Goto, TypeOK
  <2>3. ~raced' /\ Sent(c)' => Proven(c)'
    BY <1>1, <2>1, <2>2 DEF Coherent, Undisturbed, Sent, Proven
  <2>4. ~dpop => proof'[c] = NoProof
    BY <2>1 DEF Coherent, Granted
  <2> QED BY <1>1, <2>1, <2>2, <2>3, <2>4, PrivateStep DEF Setting, Clearing, Reading
<1> QED BY <1>2, <1>3

LEMMA NextCoherent == IInv /\ Coherent /\ [Next]_vars => Coherent'
<1> SUFFICES ASSUME IInv, Coherent, [Next]_vars PROVE Coherent'
    OBVIOUS
<1>0. TypeOK
  BY DEF IInv
<1>1. ASSUME NEW c \in Callers, Begin(c) \/ Step(c) \/ Faulty(c) PROVE Coherent'
  BY <1>0, <1>1, ReadCoherent, EndpointCoherent, SetCoherent, ClearCoherent, RequestCoherent
     DEF Step, Faulty
<1>2. ASSUME NEW e \in Entries, Expire(e) PROVE Coherent'
  BY <1>0, <1>2, ExpireCoherent
<1>3. CASE UNCHANGED vars
  BY <1>3 DEF vars, Coherent, Undisturbed, Granted, Whole, Alone, Aware, Sent, Proven
<1> QED BY <1>1, <1>2, <1>3 DEF Next

\* As long as nobody, and no expiry, used the cache in the middle of another's
\* use of it, every request goes out with the proof its token needs: through
\* grants, retries, faults and the entries' expiring one by one.
THEOREM ProvenRequests == Spec => []ProvenUnlessRaced
<1>1. Coherent => ProvenUnlessRaced
  BY DEF Coherent, Undisturbed, Sent, ProvenUnlessRaced
<1>2. Spec => []Coherent
  BY InitCoherent, NextCoherent, InvAlways, PTL DEF Spec
<1> QED BY <1>1, <1>2, PTL
=============================================================================

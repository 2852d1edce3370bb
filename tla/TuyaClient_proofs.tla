-------------------------- MODULE TuyaClient_proofs --------------------------
(***************************************************************************)
(* Proofs about TuyaClient for every set of threads and tokens.            *)
(*                                                                         *)
(* What a thread relies on while it sends a request is private to it as    *)
(* long as it holds the lock; the invariant says of each thread where it   *)
(* holds the lock and what it may then rely on.                            *)
(***************************************************************************)
EXTENDS TuyaClient, TLAPS

Working == {"sign", "head", "sent", "served"}

\* Where a thread is within "with self._request_lock", and how deep.
Holds(t) == pc[t] \in Working \/ (pc[t] = "authenticate" /\ call[t] # "authenticate")
Levels(t) == IF asking[t] /\ call[t] # "authenticate" THEN 2 ELSE 1

LockInv(t) ==
  /\ lock = t <=> Holds(t)
  /\ lock = t => depth = Levels(t)

CallInv(t) ==
  /\ pc[t] \in {"idle", "enter"} => ~asking[t] /\ ~again[t] /\ effects[t] = 0
  /\ asking[t] => pc[t] \in {"sign", "head", "sent"}
  /\ call[t] = "authenticate" => pc[t] = "authenticate" \/ asking[t]
  /\ again[t] => call[t] = "get"
  /\ again[t] => renewed[t] \/ asking[t] \/ pc[t] = "authenticate"

RequestInv(t) ==
  /\ asking[t] => token = NoToken
  /\ pc[t] \in {"sign", "head"} /\ ~asking[t] => token # NoToken
  /\ pc[t] = "head" => sign[t] = token
  /\ pc[t] \in {"sent", "served"} =>
       sign[t] = header[t] /\ (asking[t] <=> header[t] = NoToken)

\* One effect for each time that the request was sent.
EffectInv(t) ==
  effects[t] =< (IF again[t] THEN 1 ELSE 0) + (IF pc[t] = "served" THEN 1 ELSE 0)

ThreadInv(t) == LockInv(t) /\ CallInv(t) /\ RequestInv(t) /\ EffectInv(t)

Inv ==
  /\ TypeOK
  /\ lock = Nobody <=> depth = 0
  /\ \A t \in Threads : ThreadInv(t)

\* All that ThreadInv says of a thread, but for the lock and the token.
Locals(t) ==
  <<pc[t], call[t], asking[t], again[t], sign[t], header[t], effects[t], renewed[t]>>

-----------------------------------------------------------------------------
LEMMA InitInv == Init => Inv
<1> SUFFICES ASSUME Init PROVE Inv
  OBVIOUS
<1>1. TypeOK
  <2>1. depth \in 0 .. 2 /\ valid \subseteq Tokens
    BY DEF Init
  <2>2. /\ pc \in [Threads -> {"idle", "enter", "authenticate"} \cup Working]
        /\ call \in [Threads -> Kinds]
    BY DEF Init, Kinds
  <2>3. asking \in [Threads -> BOOLEAN] /\ again \in [Threads -> BOOLEAN]
        /\ renewed \in [Threads -> BOOLEAN] /\ effects \in [Threads -> Nat]
    BY DEF Init
  <2>4. fresh \in BOOLEAN
    BY Zenon DEF Init
  <2> QED  BY <2>1, <2>2, <2>3, <2>4 DEF Init, TypeOK, Working
<1>2. ASSUME NEW t \in Threads PROVE ThreadInv(t)
  BY NobodyIsNoThread
     DEF Init, ThreadInv, LockInv, CallInv, RequestInv, EffectInv, Holds, Levels, Working
<1>3. lock = Nobody <=> depth = 0
  BY DEF Init
<1> QED  BY <1>1, <1>2, <1>3 DEF Inv

\* A thread that neither moves nor holds the lock does not care who else has it,
\* nor what becomes of the token.
LEMMA OthersKeep ==
  ASSUME Inv, NEW t \in Threads, NEW u \in Threads, u # t, UNCHANGED Locals(u),
         \/ lock \in {t, Nobody} /\ lock' \in {t, Nobody}
         \/ UNCHANGED <<lock, depth, token>>
  PROVE  ThreadInv(u)'
<1>1. ThreadInv(u)
  BY DEF Inv
<1>2. CASE UNCHANGED <<lock, depth, token>>
  BY <1>1, <1>2
     DEF Locals, ThreadInv, LockInv, CallInv, RequestInv, EffectInv, Holds, Levels
<1>3. CASE lock \in {t, Nobody} /\ lock' \in {t, Nobody}
  <2>1. lock # u /\ lock' # u
    BY <1>3, NobodyIsNoThread
  <2>2. ~Holds(u) /\ ~Holds(u)'
    BY <1>1, <2>1 DEF ThreadInv, LockInv, Holds, Locals
  <2>3. pc[u] \notin Working /\ ~asking[u]
    BY <1>1, <2>2 DEF Holds, ThreadInv, CallInv, Working
  <2> QED
    BY <1>1, <2>1, <2>2, <2>3
       DEF Locals, ThreadInv, LockInv, CallInv, RequestInv, EffectInv, Working
<1> QED  BY <1>2, <1>3

\* So a step is right if it is right for the thread that takes it.
LEMMA OneThreadMoves ==
  ASSUME Inv, NEW t \in Threads, TypeOK', ThreadInv(t)', (lock = Nobody <=> depth = 0)',
         \A u \in Threads \ {t} : UNCHANGED Locals(u),
         \/ lock \in {t, Nobody} /\ lock' \in {t, Nobody}
         \/ UNCHANGED <<lock, depth, token>>
  PROVE  Inv'
<1>1. ASSUME NEW u \in Threads PROVE ThreadInv(u)'
  <2>1. CASE u = t
    BY <2>1
  <2>2. CASE u # t
    BY <2>2, OthersKeep
  <2> QED  BY <2>1, <2>2
<1> QED  BY <1>1 DEF Inv

-----------------------------------------------------------------------------
(* The lock.                                                               *)

LEMMA HolderHolds ==
  ASSUME Inv, NEW t \in Threads, pc[t] \in Working
  PROVE  lock = t /\ depth = Levels(t) /\ depth \in 1 .. 2
BY DEF Inv, ThreadInv, LockInv, Holds, Levels

\* A free lock is taken once; one that the thread has within a call, twice.
LEMMA AcquireDepth ==
  ASSUME Inv, NEW t \in Threads, Acquire(t), pc[t] \in {"enter", "authenticate"}
  PROVE  /\ lock' = t /\ depth' \in 1 .. 2
         /\ depth' = IF pc[t] = "authenticate" /\ call[t] # "authenticate" THEN 2 ELSE 1
<1>1. CASE lock = t
  BY <1>1, NobodyIsNoThread
     DEF Inv, ThreadInv, LockInv, CallInv, Holds, Levels, Acquire, Working
<1>2. CASE lock = Nobody
  BY <1>2, NobodyIsNoThread
     DEF Inv, ThreadInv, LockInv, Holds, Acquire, Working
<1> QED  BY <1>1, <1>2 DEF Acquire

\* Whoever returns leaves the lock and nothing behind.
LEMMA ReturnInv ==
  ASSUME Inv, NEW t \in Threads, pc[t] \in Working, Return(t),
         token' \in Tokens \cup {NoToken}, fresh' \in BOOLEAN, valid' \subseteq Tokens
  PROVE  Inv'
<1>1. lock = t /\ depth \in 1 .. 2
  BY HolderHolds
<1>2. lock' = Nobody /\ depth' = 0
  BY <1>1 DEF Return, Release
<1>3. TypeOK'
  BY <1>2 DEF Inv, TypeOK, Return, Kinds
<1>4. ThreadInv(t)'
  BY <1>2, NobodyIsNoThread
     DEF Inv, TypeOK, Return, ThreadInv, LockInv, CallInv, RequestInv, EffectInv, Holds,
         Levels, Working
<1>5. \A u \in Threads \ {t} : UNCHANGED Locals(u)
  BY DEF Inv, TypeOK, Return, Locals
<1> QED  BY <1>1, <1>2, <1>3, <1>4, <1>5, OneThreadMoves

\* After an error, the call returns or authenticates for its second try.
LEMMA FailInv ==
  ASSUME Inv, NEW t \in Threads, NEW error,
         pc[t] \in {"sent", "served"}, ~asking[t], Fail(t, error)
  PROVE  Inv'
<1>1. lock = t /\ depth = 1
  BY HolderHolds DEF Levels, Working
<1>2. CASE Retries(t, error)
  <2>1. /\ pc' = [pc EXCEPT ![t] = "authenticate"] /\ again' = [again EXCEPT ![t] = TRUE]
        /\ UNCHANGED <<tokenVars, valid, lockVars, call, previous, asking, requestVars, history>>
    BY <1>2 DEF Fail
  <2>2. call[t] = "get" /\ ~again[t]
    BY <1>2 DEF Retries
  <2>3. TypeOK'
    BY <2>1 DEF Inv, TypeOK, tokenVars, lockVars, requestVars, history
  <2>4. ThreadInv(t)'
    BY <1>1, <2>1, <2>2
       DEF Inv, TypeOK, ThreadInv, LockInv, CallInv, RequestInv, EffectInv, Holds, Levels,
           Working, tokenVars, lockVars, requestVars, history
  <2>5. \A u \in Threads \ {t} : UNCHANGED Locals(u)
    BY <2>1 DEF Inv, TypeOK, Locals, requestVars, history
  <2>6. UNCHANGED <<lock, depth, token>> /\ (lock = Nobody <=> depth = 0)'
    BY <2>1 DEF Inv, tokenVars, lockVars
  <2> QED  BY <2>3, <2>4, <2>5, <2>6, OneThreadMoves
<1>3. CASE ~Retries(t, error)
  <2>1. Return(t) /\ UNCHANGED <<tokenVars, valid>>
    BY <1>3 DEF Fail
  <2> QED  BY <2>1, ReturnInv DEF Working, Inv, TypeOK, tokenVars
<1> QED  BY <1>2, <1>3

-----------------------------------------------------------------------------
(* The steps of a thread.                                                  *)

LEMMA CallKeepsInv ==
  ASSUME Inv, NEW t \in Threads, NEW kind \in Kinds, Call(t, kind)
  PROVE  Inv'
<1> USE DEF tokenVars, lockVars, requestVars, history
<1>1. TypeOK'
  BY DEF Inv, TypeOK, Call
<1>2. ThreadInv(t)'
  BY DEF Inv, TypeOK, Call, ThreadInv, LockInv, CallInv, RequestInv, EffectInv, Holds,
         Levels, Working
<1>3. \A u \in Threads \ {t} : UNCHANGED Locals(u)
  BY DEF Inv, TypeOK, Call, Locals
<1>4. UNCHANGED <<lock, depth, token>> /\ (lock = Nobody <=> depth = 0)'
  BY DEF Inv, Call
<1> QED  BY <1>1, <1>2, <1>3, <1>4, OneThreadMoves

LEMMA EnterKeepsInv ==
  ASSUME Inv, NEW t \in Threads, Enter(t)
  PROVE  Inv'
<1> USE DEF tokenVars, localVars, requestVars, history
<1>1. /\ lock \in {t, Nobody} /\ lock' = t /\ depth' = 1
  BY AcquireDepth DEF Enter, Acquire
<1>2. TypeOK'
  BY <1>1 DEF Inv, TypeOK, Enter
<1>3. call[t] # "authenticate" /\ ~asking[t] /\ ~again[t] /\ effects[t] = 0
  BY DEF Inv, ThreadInv, CallInv, Enter
<1>4. pc'[t] = "authenticate" \/ (pc'[t] = "sign" /\ token # NoToken)
  BY DEF Inv, TypeOK, Enter, MustAuthenticate
<1>5. ThreadInv(t)'
  BY <1>1, <1>3, <1>4
     DEF Inv, TypeOK, Enter, ThreadInv, LockInv, CallInv, RequestInv, EffectInv, Holds,
         Levels, Working
<1>6. \A u \in Threads \ {t} : UNCHANGED Locals(u)
  BY DEF Inv, TypeOK, Enter, Locals
<1> QED  BY <1>1, <1>2, <1>5, <1>6, NobodyIsNoThread, OneThreadMoves

LEMMA AuthenticateKeepsInv ==
  ASSUME Inv, NEW t \in Threads, Authenticate(t)
  PROVE  Inv'
<1> USE DEF requestVars, history
<1>1. /\ lock \in {t, Nobody} /\ lock' = t /\ depth' \in 1 .. 2
      /\ depth' = IF call[t] # "authenticate" THEN 2 ELSE 1
  BY AcquireDepth DEF Authenticate, Acquire
<1>2. TypeOK'
  BY <1>1 DEF Inv, TypeOK, Authenticate
<1>3. ThreadInv(t)'
  BY <1>1
     DEF Inv, TypeOK, Authenticate, ThreadInv, LockInv, CallInv, RequestInv, EffectInv,
         Holds, Levels, Working
<1>4. \A u \in Threads \ {t} : UNCHANGED Locals(u)
  BY DEF Inv, TypeOK, Authenticate, Locals
<1> QED  BY <1>1, <1>2, <1>3, <1>4, NobodyIsNoThread, OneThreadMoves

\* The signature and the header read the same token, as only the holder of the
\* lock changes it.
LEMMA SendKeepsInv ==
  ASSUME Inv, NEW t \in Threads, Sign(t) \/ Head(t) \/ Serve(t)
  PROVE  Inv'
<1> USE DEF tokenVars, lockVars, localVars, requestVars, history
<1>1. TypeOK'
  BY DEF Inv, TypeOK, Sign, Head, Serve
<1>2. ThreadInv(t)'
  <2>1. CASE Sign(t)
    BY <2>1
       DEF Inv, TypeOK, Sign, ThreadInv, LockInv, CallInv, RequestInv, EffectInv, Holds,
           Levels, Working
  <2>2. CASE Head(t)
    BY <2>2
       DEF Inv, TypeOK, Head, ThreadInv, LockInv, CallInv, RequestInv, EffectInv, Holds,
           Levels, Working
  <2>3. CASE Serve(t)
    BY <2>3
       DEF Inv, TypeOK, Serve, ThreadInv, LockInv, CallInv, RequestInv, EffectInv, Holds,
           Levels, Working
  <2> QED  BY <2>1, <2>2, <2>3
<1>3. \A u \in Threads \ {t} : UNCHANGED Locals(u)
  BY DEF Inv, TypeOK, Sign, Head, Serve, Locals
<1>4. UNCHANGED <<lock, depth, token>> /\ (lock = Nobody <=> depth = 0)'
  BY DEF Inv, Sign, Head, Serve
<1> QED  BY <1>1, <1>2, <1>3, <1>4, OneThreadMoves

\* The answer to a request for a token: its call goes on only with a new one.
LEMMA GrantedKeepsInv ==
  ASSUME Inv, NEW t \in Threads, Granted(t)
  PROVE  Inv'
<1>1. /\ token' \in Tokens /\ fresh' \in BOOLEAN /\ valid' \subseteq Tokens
      /\ pc[t] = "sent" /\ asking[t]
  BY DEF Granted, Inv, TypeOK
<1>2. CASE call[t] = "authenticate"
  BY <1>1, <1>2, ReturnInv DEF Granted, Working
<1>3. CASE call[t] # "authenticate"
  <2>1. /\ Release(1)
        /\ renewed' = [renewed EXCEPT ![t] = TRUE]
        /\ pc' = [pc EXCEPT ![t] = "sign"]
        /\ asking' = [asking EXCEPT ![t] = FALSE]
        /\ previous' = [previous EXCEPT ![t] = NoToken]
        /\ UNCHANGED <<call, again, sign, header, effects>>
    BY <1>3 DEF Granted, requestVars
  <2>2. lock = t /\ depth = 2
    BY <1>1, <1>3, HolderHolds DEF Levels, Working
  <2>3. lock' = t /\ depth' = 1
    BY <2>1, <2>2 DEF Release
  <2>4. TypeOK'
    BY <1>1, <2>1, <2>3 DEF Inv, TypeOK
  <2>5. ThreadInv(t)'
    BY <1>1, <1>3, <2>1, <2>3, NoTokenIsNoToken
       DEF Inv, TypeOK, ThreadInv, LockInv, CallInv, RequestInv, EffectInv, Holds, Levels,
           Working
  <2>6. \A u \in Threads \ {t} : UNCHANGED Locals(u)
    BY <2>1 DEF Inv, TypeOK, Locals
  <2> QED  BY <2>2, <2>3, <2>4, <2>5, <2>6, NobodyIsNoThread, OneThreadMoves
<1> QED  BY <1>2, <1>3

LEMMA StepKeepsInv ==
  ASSUME Inv, NEW t \in Threads, Step(t)
  PROVE  Inv'
<1>1. CASE Enter(t)
  BY <1>1, EnterKeepsInv
<1>2. CASE Authenticate(t)
  BY <1>2, AuthenticateKeepsInv
<1>3. CASE Sign(t) \/ Head(t)
  BY <1>3, SendKeepsInv
<1>4. CASE Succeed(t)
  BY <1>4, ReturnInv DEF Succeed, Working, Inv, TypeOK, tokenVars
<1>5. CASE Refused(t)
  BY <1>5, FailInv DEF Refused
<1>6. CASE Rejected(t)
  BY <1>6, FailInv DEF Rejected
<1>7. CASE Unanswered(t)
  <2>1. ~asking[t]
    BY <1>7 DEF Unanswered, Inv, ThreadInv, CallInv
  <2> QED  BY <1>7, <2>1, FailInv DEF Unanswered
<1>8. CASE Granted(t)
  BY <1>8, GrantedKeepsInv
<1>9. CASE NotGranted(t)
  BY <1>9, ReturnInv DEF NotGranted, Working, Inv, TypeOK
<1>10. CASE Malformed(t)
  <2>1. token' \in Tokens \cup {NoToken} /\ valid' \subseteq Tokens
    BY <1>10 DEF Malformed, Inv, TypeOK
  <2> QED  BY <1>10, <2>1, ReturnInv DEF Malformed, Working, Inv, TypeOK
<1> QED
  BY <1>1, <1>2, <1>3, <1>4, <1>5, <1>6, <1>7, <1>8, <1>9, <1>10 DEF Step

\* No thread has a part in what time and Tuya do by themselves.
LEMMA TuyaKeepsInv ==
  ASSUME Inv, Expire \/ (\E k \in Tokens : Revoke(k)) \/ UNCHANGED vars
  PROVE  Inv'
<1> USE DEF tokenVars, lockVars, localVars, requestVars, history, vars
<1>1. UNCHANGED <<token, lockVars, pc, localVars, requestVars, history>>
  BY DEF Expire, Revoke
<1>2. TypeOK'
  BY <1>1 DEF Inv, TypeOK, Expire, Revoke
<1>3. ASSUME NEW t \in Threads PROVE ThreadInv(t)'
  BY <1>1
     DEF Inv, ThreadInv, LockInv, CallInv, RequestInv, EffectInv, Holds, Levels
<1> QED  BY <1>1, <1>2, <1>3 DEF Inv

LEMMA NextInv == Inv /\ [Next]_vars => Inv'
<1> SUFFICES ASSUME Inv, [Next]_vars PROVE Inv'
  OBVIOUS
<1>1. ASSUME NEW t \in Threads, Step(t) PROVE Inv'
  BY <1>1, StepKeepsInv
<1>2. ASSUME NEW t \in Threads, Serve(t) PROVE Inv'
  BY <1>2, SendKeepsInv
<1>3. ASSUME NEW t \in Threads, NEW kind \in KindsOf(t), Call(t, kind) PROVE Inv'
  BY <1>3, CallKeepsInv DEF KindsOf
<1>4. CASE Expire \/ (\E k \in Tokens : Revoke(k)) \/ UNCHANGED vars
  BY <1>4, TuyaKeepsInv
<1> QED  BY <1>1, <1>2, <1>3, <1>4 DEF Next

-----------------------------------------------------------------------------
(* What follows.                                                           *)

LEMMA InvGives == Inv => TypeOK /\ SentWithItsToken /\ OneEffectPerCall
<1> SUFFICES ASSUME Inv PROVE SentWithItsToken /\ OneEffectPerCall
  BY DEF Inv
<1>1. SentWithItsToken
  BY DEF Inv, ThreadInv, RequestInv, SentWithItsToken
<1>2. ASSUME NEW t \in Threads PROVE effects[t] =< IF call[t] = "get" THEN 2 ELSE 1
  <2>1. effects[t] \in Nat /\ EffectInv(t) /\ CallInv(t)
    BY DEF Inv, TypeOK, ThreadInv
  <2>2. CASE again[t]
    BY <2>1, <2>2 DEF CallInv, EffectInv
  <2>3. CASE ~again[t]
    BY <2>1, <2>3 DEF EffectInv
  <2> QED  BY <2>2, <2>3
<1> QED  BY <1>1, <1>2 DEF OneEffectPerCall

\* The first refusal of a GET does not end it, and before its second one it was
\* granted a token.
LEMMA RefusalIsSecond ==
  ASSUME Inv, NEW t \in Threads, Refused(t), call[t] = "get", pc'[t] = "idle"
  PROVE  renewed[t]
<1>1. again[t]
  <2> SUFFICES ASSUME ~again[t] PROVE FALSE
    BY DEF Inv, TypeOK
  <2>1. pc' = [pc EXCEPT ![t] = "authenticate"]
    BY DEF Refused, Fail, Retries
  <2> QED  BY <2>1 DEF Inv, TypeOK
<1> QED  BY <1>1 DEF Refused, Inv, ThreadInv, CallInv

\* Every variable keeps its type, and the lock is never taken more than twice.
THEOREM TypeCorrect == Spec => []TypeOK
BY InitInv, NextInv, InvGives, PTL DEF Spec

\* Requests carry the token that they were signed with, however many threads
\* renew it, and none is sent bare but those for a token.
THEOREM SentWithItsTokenHolds == Spec => []SentWithItsToken
BY InitInv, NextInv, InvGives, PTL DEF Spec

\* No command takes effect twice.
THEOREM OneEffectPerCallHolds == Spec => []OneEffectPerCall
BY InitInv, NextInv, InvGives, PTL DEF Spec

\* A GET ends with a refusal of its token only after it was granted one.
THEOREM RefusedOnlyWhenRenewedHolds == Spec => RefusedOnlyWhenRenewed
<1>1. Inv /\ [Next]_vars =>
        [\A t \in Threads :
           Refused(t) /\ call[t] = "get" /\ pc'[t] = "idle" => renewed[t]]_vars
  BY RefusalIsSecond
<1> QED  BY <1>1, InitInv, NextInv, PTL DEF Spec, RefusedOnlyWhenRenewed

-----------------------------------------------------------------------------
(* How a call comes to its end.                                            *)

\* No call that has ended, and none that has not begun, holds the lock, whatever
\* failed on its way (client.py:76, 99, 113, 119).
LockIsGivenBack ==
  /\ \A t \in Threads : pc[t] \in {"idle", "enter"} => lock # t
  /\ lock = Nobody <=> depth = 0

THEOREM LockIsGivenBackHolds == Spec => []LockIsGivenBack
<1>1. Inv => LockIsGivenBack
  BY DEF Inv, ThreadInv, LockInv, Holds, Working, LockIsGivenBack
<1> QED  BY <1>1, InitInv, NextInv, PTL DEF Spec

\* The steps that a call still has: the one request for a token, its own request,
\* and both once more after an error that it may try again.
Place(t) ==
  IF pc[t] = "enter" THEN 9
  ELSE IF pc[t] = "authenticate" THEN 8
  ELSE IF pc[t] = "sign" THEN 4
  ELSE IF pc[t] = "head" THEN 3
  ELSE IF pc[t] = "sent" THEN 2 ELSE 1
CallLeft(t) == Place(t) + (IF asking[t] THEN 3 ELSE 0) + (IF again[t] THEN 0 ELSE 8)

\* Each step of a call, and each answer to it, uses one up, and no other call and
\* no revoked token gives it one back: no call makes more than four requests, also
\* when every one of them is refused (client.py:76-107).
CallsAdvance ==
  [][\A t \in Threads : pc[t] # "idle" /\ pc'[t] # "idle" =>
       /\ CallLeft(t)' <= CallLeft(t)
       /\ Step(t) \/ Serve(t) => CallLeft(t)' < CallLeft(t)]_vars

\* Where a step that does not end the call takes it.
LEMMA WhereStepsGo ==
  ASSUME Inv, NEW t \in Threads, Step(t) \/ Serve(t), pc'[t] # "idle"
  PROVE  \/ /\ UNCHANGED <<asking[t], again[t]>>
            /\ \/ pc[t] = "enter" /\ pc'[t] \in {"authenticate", "sign"}
               \/ pc[t] = "sign" /\ pc'[t] = "head"
               \/ pc[t] = "head" /\ pc'[t] = "sent"
               \/ pc[t] = "sent" /\ pc'[t] = "served"
         \/ /\ again'[t] = again[t] /\ pc'[t] = "sign"
            /\ \/ pc[t] = "authenticate" /\ ~asking[t] /\ asking'[t]
               \/ pc[t] = "sent" /\ asking[t] /\ ~asking'[t]
         \/ /\ pc[t] \in {"sent", "served"} /\ pc'[t] = "authenticate"
            /\ ~asking[t] /\ ~asking'[t] /\ ~again[t] /\ again'[t]
<1> DEFINE Goal ==
      \/ /\ UNCHANGED <<asking[t], again[t]>>
         /\ \/ pc[t] = "enter" /\ pc'[t] \in {"authenticate", "sign"}
            \/ pc[t] = "sign" /\ pc'[t] = "head"
            \/ pc[t] = "head" /\ pc'[t] = "sent"
            \/ pc[t] = "sent" /\ pc'[t] = "served"
      \/ /\ again'[t] = again[t] /\ pc'[t] = "sign"
         /\ \/ pc[t] = "authenticate" /\ ~asking[t] /\ asking'[t]
            \/ pc[t] = "sent" /\ asking[t] /\ ~asking'[t]
      \/ /\ pc[t] \in {"sent", "served"} /\ pc'[t] = "authenticate"
         /\ ~asking[t] /\ ~asking'[t] /\ ~again[t] /\ again'[t]
<1>0. /\ pc \in [Threads -> {"idle", "enter", "authenticate", "sign", "head", "sent", "served"}]
      /\ asking \in [Threads -> BOOLEAN] /\ again \in [Threads -> BOOLEAN]
      /\ asking[t] => pc[t] \in {"sign", "head", "sent"}
  BY DEF Inv, TypeOK, ThreadInv, CallInv
<1>1. CASE Enter(t) \/ Sign(t) \/ Head(t) \/ Serve(t)
  BY <1>0, <1>1 DEF Enter, Sign, Head, Serve, localVars
<1>2. CASE Authenticate(t)
  BY <1>0, <1>2 DEF Authenticate
<1>3. ~Return(t)
  BY <1>0 DEF Return
<1>4. ASSUME NEW error, Fail(t, error), ~asking[t], pc[t] \in {"sent", "served"}
      PROVE  Goal
  BY <1>0, <1>3, <1>4 DEF Fail, Retries
<1>5. CASE Refused(t) \/ Rejected(t) \/ Unanswered(t)
  BY <1>0, <1>4, <1>5 DEF Refused, Rejected, Unanswered
<1>6. CASE Granted(t)
  BY <1>0, <1>3, <1>6 DEF Granted
<1>7. ~Succeed(t) /\ ~NotGranted(t) /\ ~Malformed(t)
  BY <1>3 DEF Succeed, NotGranted, Malformed
<1> QED  BY <1>1, <1>2, <1>5, <1>6, <1>7 DEF Step

LEMMA StepShortens ==
  ASSUME Inv, NEW t \in Threads, Step(t) \/ Serve(t), pc'[t] # "idle"
  PROVE  CallLeft(t)' < CallLeft(t)
<1> USE DEF CallLeft, Place
<1>1. CASE UNCHANGED <<asking[t], again[t]>>
  <2>1. CASE pc[t] = "enter" /\ pc'[t] \in {"authenticate", "sign"}
    BY <1>1, <2>1
  <2>2. CASE pc[t] = "sign" /\ pc'[t] = "head"
    BY <1>1, <2>2
  <2>3. CASE pc[t] = "head" /\ pc'[t] = "sent"
    BY <1>1, <2>3
  <2>4. CASE pc[t] = "sent" /\ pc'[t] = "served"
    BY <1>1, <2>4
  <2> HIDE DEF CallLeft, Place
  <2> QED  BY <1>1, <2>1, <2>2, <2>3, <2>4, WhereStepsGo
<1>2. CASE again'[t] = again[t] /\ pc'[t] = "sign" /\ asking'[t] # asking[t]
  <2>1. CASE pc[t] = "authenticate" /\ ~asking[t] /\ asking'[t]
    BY <1>2, <2>1
  <2>2. CASE pc[t] = "sent" /\ asking[t] /\ ~asking'[t]
    BY <1>2, <2>2
  <2> HIDE DEF CallLeft, Place
  <2> QED  BY <1>2, <2>1, <2>2, WhereStepsGo
<1>3. CASE /\ pc[t] \in {"sent", "served"} /\ pc'[t] = "authenticate"
           /\ ~asking[t] /\ ~asking'[t] /\ ~again[t] /\ again'[t]
  BY <1>3
<1> HIDE DEF CallLeft, Place
<1> QED  BY <1>1, <1>2, <1>3, WhereStepsGo

\* A call that takes no step in a step of the system stays where it is.
LEMMA OthersStand ==
  ASSUME Inv, [Next]_vars, NEW t \in Threads, ~Step(t), ~Serve(t), pc[t] # "idle"
  PROVE  UNCHANGED <<pc[t], asking[t], again[t]>>
<1> USE DEF Inv, TypeOK
<1>1. ASSUME NEW u \in Threads, NEW kind, Call(u, kind)
      PROVE  UNCHANGED <<pc[t], asking[t], again[t]>>
  BY <1>1 DEF Call
<1>2. ASSUME NEW u \in Threads, Step(u) \/ Serve(u)
      PROVE  UNCHANGED <<pc[t], asking[t], again[t]>>
  <2>1. u # t
    BY <1>2
  <2>2. CASE Enter(u) \/ Authenticate(u) \/ Sign(u) \/ Head(u) \/ Serve(u)
    BY <2>1, <2>2 DEF Enter, Authenticate, Sign, Head, Serve, localVars
  <2>3. Return(u) => UNCHANGED <<pc[t], asking[t], again[t]>>
    BY <2>1 DEF Return
  <2>4. ASSUME NEW error, Fail(u, error)
        PROVE  UNCHANGED <<pc[t], asking[t], again[t]>>
    BY <2>1, <2>3, <2>4 DEF Fail
  <2>5. CASE Refused(u) \/ Rejected(u) \/ Unanswered(u)
    BY <2>4, <2>5 DEF Refused, Rejected, Unanswered
  <2>6. CASE Succeed(u) \/ NotGranted(u) \/ Malformed(u)
    BY <2>3, <2>6 DEF Succeed, NotGranted, Malformed
  <2>7. CASE Granted(u)
    BY <2>1, <2>3, <2>7 DEF Granted
  <2> QED  BY <1>2, <2>2, <2>5, <2>6, <2>7 DEF Step
<1>3. CASE Expire \/ (\E k \in Tokens : Revoke(k)) \/ UNCHANGED vars
  BY <1>3 DEF Expire, Revoke, vars, localVars
<1> QED  BY <1>1, <1>2, <1>3 DEF Next

\* Every call comes to its end within a bounded number of requests.
THEOREM CallsAdvanceHolds == Spec => CallsAdvance
<1> DEFINE Advance(t) ==
      pc[t] # "idle" /\ pc'[t] # "idle" =>
        /\ CallLeft(t)' <= CallLeft(t)
        /\ Step(t) \/ Serve(t) => CallLeft(t)' < CallLeft(t)
<1>1. ASSUME Inv, [Next]_vars, NEW t \in Threads PROVE Advance(t)
  <2>1. CallLeft(t) \in Int /\ CallLeft(t)' \in Int
    BY DEF CallLeft, Place
  <2>2. CASE Step(t) \/ Serve(t)
    BY <1>1, <2>1, <2>2, StepShortens
  <2>3. CASE ~Step(t) /\ ~Serve(t)
    <3>1. pc[t] # "idle" => CallLeft(t)' = CallLeft(t)
      BY <1>1, <2>3, OthersStand DEF CallLeft, Place
    <3> QED  BY <2>1, <2>3, <3>1
  <2> QED  BY <2>2, <2>3
<1>2. Inv /\ [Next]_vars => \A t \in Threads : Advance(t)
  BY <1>1
<1> QED  BY <1>2, InitInv, NextInv, PTL DEF Spec, CallsAdvance

-----------------------------------------------------------------------------
(* The client implements SerialCalls.                                      *)

\* A GET is tried twice, a command once.
Most == IF lock = Nobody THEN 0 ELSE IF call[lock] = "get" THEN 2 ELSE 1

Serial == INSTANCE SerialCalls WITH caller <- lock, most <- Most

\* The calls of all threads take effect one after the other: between the effects
\* of one, and after an authentication within it, there is no effect of another
\* (client.py:76, 99, 113, 119).
SerialSpec == Serial!Spec

SerialStep == [Serial!Next]_<<lock, Most, effects>>

\* Steps that leave the lock and the effects alone do not change the call that is
\* under way.
LEMMA StutterIsSerial ==
  ASSUME UNCHANGED <<lock, effects>>, lock # Nobody => call'[lock] = call[lock]
  PROVE  SerialStep
BY DEF SerialStep, Most

\* The end of a call gives back all levels of the lock.
LEMMA ReturnIsEnd ==
  ASSUME Inv, NEW t \in Threads, pc[t] \in Working, Return(t)
  PROVE  SerialStep
<1>1. lock = t /\ t # Nobody
  BY HolderHolds, NobodyIsNoThread
<1>2. lock' = Nobody /\ effects' = [effects EXCEPT ![lock] = 0]
  BY <1>1 DEF Return, Release
<1>3. Most' = 0
  BY <1>2 DEF Most
<1> QED  BY <1>1, <1>2, <1>3 DEF SerialStep, Serial!Next, Serial!End

\* The lock is taken for a call, or once more within it.
LEMMA AcquireIsBegin ==
  ASSUME Inv, NEW t \in Threads, Acquire(t), UNCHANGED <<call, effects>>
  PROVE  SerialStep
<1>1. CASE lock = t
  BY <1>1, StutterIsSerial DEF Acquire
<1>2. CASE lock = Nobody
  <2>1. lock' = t /\ t # Nobody
    BY NobodyIsNoThread DEF Acquire
  <2>2. Most' \in 1 .. 2
    BY <2>1 DEF Most
  <2> QED  BY <1>2, <2>1, <2>2 DEF SerialStep, Serial!Next, Serial!Begin
<1> QED  BY <1>1, <1>2 DEF Acquire

LEMMA ServeIsExecute ==
  ASSUME Inv, NEW t \in Threads, Serve(t)
  PROVE  SerialStep
<1>1. lock = t /\ t # Nobody
  BY HolderHolds, NobodyIsNoThread DEF Serve, Working
<1>2. UNCHANGED <<lock, call>> /\ effects' = [effects EXCEPT ![lock] = @ + 1]
  BY <1>1 DEF Serve, lockVars, localVars
<1>3. effects[lock] < Most /\ Most' = Most
  <2>1. /\ effects[t] \in Nat /\ pc[t] = "sent"
        /\ again[t] => call[t] = "get"
        /\ effects[t] =< IF again[t] THEN 1 ELSE 0
    BY DEF Serve, Inv, TypeOK, ThreadInv, CallInv, EffectInv
  <2>2. effects[t] < IF call[t] = "get" THEN 2 ELSE 1
    BY <2>1
  <2> QED  BY <1>1, <1>2, <2>2 DEF Most
<1> QED  BY <1>1, <1>2, <1>3 DEF SerialStep, Serial!Next, Serial!Execute

LEMMA StepIsSerial ==
  ASSUME Inv, NEW t \in Threads, Step(t)
  PROVE  SerialStep
<1> USE DEF lockVars, localVars, history
<1>1. CASE Enter(t) \/ Authenticate(t)
  BY <1>1, AcquireIsBegin DEF Enter, Authenticate
<1>2. CASE Sign(t) \/ Head(t)
  BY <1>2, StutterIsSerial DEF Sign, Head
<1>3. CASE Succeed(t)
  BY <1>3, ReturnIsEnd DEF Succeed, Working
<1>4. ASSUME NEW error, Fail(t, error), pc[t] \in Working PROVE SerialStep
  BY <1>4, ReturnIsEnd, StutterIsSerial DEF Fail
<1>5. CASE Refused(t) \/ Rejected(t) \/ Unanswered(t)
  BY <1>4, <1>5 DEF Refused, Rejected, Unanswered, Working
<1>6. CASE NotGranted(t) \/ Malformed(t)
  BY <1>6, ReturnIsEnd DEF NotGranted, Malformed, Working
<1>7. CASE Granted(t)
  <2>1. CASE call[t] = "authenticate"
    BY <1>7, <2>1, ReturnIsEnd DEF Granted, Working
  <2>2. CASE call[t] # "authenticate"
    <3>1. depth = 2
      BY <1>7, <2>2, HolderHolds DEF Granted, Working, Levels
    <3>2. UNCHANGED <<lock, call, effects>>
      BY <1>7, <2>2, <3>1 DEF Granted, Release
    <3> QED  BY <3>2, StutterIsSerial
  <2> QED  BY <2>1, <2>2
<1> QED  BY <1>1, <1>2, <1>3, <1>5, <1>6, <1>7 DEF Step

LEMMA NextIsSerial ==
  ASSUME Inv, [Next]_vars
  PROVE  SerialStep
<1>1. ASSUME NEW t \in Threads, NEW kind, Call(t, kind) PROVE SerialStep
  <2>1. lock # t /\ UNCHANGED <<lock, effects>>
    BY <1>1 DEF Call, lockVars, history, Inv, ThreadInv, LockInv, Holds, Working
  <2>2. call' = [call EXCEPT ![t] = kind] /\ call \in [Threads -> Kinds]
    BY <1>1 DEF Call, Inv, TypeOK
  <2>3. lock # Nobody => call'[lock] = call[lock]
    BY <2>1, <2>2 DEF Inv, TypeOK
  <2> QED  BY <2>1, <2>3, StutterIsSerial
<1>2. CASE Expire \/ (\E k \in Tokens : Revoke(k)) \/ UNCHANGED vars
  BY <1>2, StutterIsSerial
     DEF Expire, Revoke, vars, lockVars, localVars, history
<1> QED  BY <1>1, <1>2, StepIsSerial, ServeIsExecute DEF Next

\* However the threads meet, whatever fails and whoever renews the token, the client
\* serves their calls one at a time.
THEOREM ClientImplementsSerialCalls == Spec => SerialSpec
<1>1. Init => Serial!Init
  BY DEF Init, Most, Serial!Init
<1>2. Inv /\ [Next]_vars => [Serial!Next]_<<lock, Most, effects>>
  BY NextIsSerial DEF SerialStep
<1> QED  BY <1>1, <1>2, InitInv, NextInv, PTL DEF Spec, SerialSpec, Serial!Spec
=============================================================================

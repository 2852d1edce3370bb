----------------------------- MODULE TuyaClient -----------------------------
(***************************************************************************)
(* The REST client of client.py: one access token, shared by the executor  *)
(* threads of refreshes, commands and PIN monitors and by the MQTT         *)
(* listener, and a re-entrant lock that each call holds from its first     *)
(* test to its answer.                                                     *)
(*                                                                         *)
(* A request is signed with access_token and carries it in a header; the   *)
(* code reads the attribute for each.  Tuya may revoke a token at any time *)
(* (another client of the same project asks for one), refuse what it likes *)
(* and not answer; a call that is refused may have had no effect, one that *)
(* is not answered may have had it.                                        *)
(***************************************************************************)
EXTENDS Integers

CONSTANTS
  Threads,   \* callers
  Poller,    \* the caller that polls: the refresh
  Tokens,    \* access tokens
  NoToken,   \* ""
  Nobody     \* no holder of the lock

ASSUME PollerIsAThread == Poller \in Threads
ASSUME NoTokenIsNoToken == NoToken \notin Tokens
ASSUME NobodyIsNoThread == Nobody \notin Threads

Kinds == {"get", "post", "authenticate"}   \* delete() is as post()

\* A refresh writes nothing.
KindsOf(t) == IF t = Poller THEN Kinds \ {"post"} ELSE Kinds

VARIABLES
  token,     \* self.access_token
  fresh,     \* time.time() < self.token_expires
  lock,      \* who holds self._request_lock
  depth,     \* how often
  pc,        \* where each thread stands
  call,      \* what it calls
  previous,  \* the local previous_token of authenticate
  asking,    \* its request is the one for a token
  again,     \* its GET is in the except clause
  sign,      \* the token that its request was signed with
  header,    \* the token in its header
  valid,     \* the tokens that Tuya accepts
  effects,   \* history: how often its call took effect at Tuya
  renewed    \* history: it was granted a token in this call

tokenVars == <<token, fresh>>
lockVars == <<lock, depth>>
requestVars == <<sign, header>>
localVars == <<call, previous, asking, again>>
history == <<effects, renewed>>
vars == <<tokenVars, lockVars, pc, localVars, requestVars, valid, history>>

Init ==
  /\ token = NoToken /\ fresh = FALSE /\ lock = Nobody /\ depth = 0 /\ valid = {}
  /\ pc = [t \in Threads |-> "idle"] /\ call = [t \in Threads |-> "get"]
  /\ previous = [t \in Threads |-> NoToken]
  /\ asking = [t \in Threads |-> FALSE] /\ again = [t \in Threads |-> FALSE]
  /\ sign = [t \in Threads |-> NoToken] /\ header = [t \in Threads |-> NoToken]
  /\ effects = [t \in Threads |-> 0] /\ renewed = [t \in Threads |-> FALSE]

-----------------------------------------------------------------------------
(* Calls and the lock.                                                     *)

Call(t, kind) ==
  /\ pc[t] = "idle"
  /\ pc' = [pc EXCEPT ![t] = IF kind = "authenticate" THEN "authenticate" ELSE "enter"]
  /\ call' = [call EXCEPT ![t] = kind]
  /\ UNCHANGED <<tokenVars, lockVars, previous, asking, again, requestVars, valid, history>>

\* RLock: its holder may take it again.
Acquire(t) ==
  /\ lock \in {Nobody, t}
  /\ lock' = t /\ depth' = depth + 1

\* Mutant: an error gives one level of the lock back.
ReleaseOne(n) ==
  /\ depth' = depth - 1
  /\ lock' = Nobody

\* n levels of the lock are given back.
Release(n) ==
  /\ depth' = depth - n
  /\ lock' = IF depth = n THEN Nobody ELSE lock

MustAuthenticate == token = NoToken \/ ~fresh

\* get, post and delete as far as the request, or as far as authenticate.
Enter(t) ==
  /\ pc[t] = "enter"
  /\ Acquire(t)
  /\ pc' = [pc EXCEPT ![t] = IF MustAuthenticate THEN "authenticate" ELSE "sign"]
  /\ UNCHANGED <<tokenVars, localVars, requestVars, valid, history>>

\* Mutant: authenticate does not take the lock.
AuthenticateUnlocked(t) ==
  /\ pc[t] = "authenticate"
  /\ IF lock = t THEN Acquire(t) ELSE UNCHANGED lockVars
  /\ previous' = [previous EXCEPT ![t] = token] /\ token' = NoToken
  /\ asking' = [asking EXCEPT ![t] = TRUE]
  /\ pc' = [pc EXCEPT ![t] = "sign"]
  /\ UNCHANGED <<fresh, call, again, requestVars, valid, history>>

\* authenticate as far as its request, which is to carry no token.
Authenticate(t) ==
  /\ pc[t] = "authenticate"
  /\ Acquire(t)
  /\ previous' = [previous EXCEPT ![t] = token] /\ token' = NoToken
  /\ asking' = [asking EXCEPT ![t] = TRUE]
  /\ pc' = [pc EXCEPT ![t] = "sign"]
  /\ UNCHANGED <<fresh, call, again, requestVars, valid, history>>

-----------------------------------------------------------------------------
(* _request.                                                               *)

Sign(t) ==
  /\ pc[t] = "sign"
  /\ sign' = [sign EXCEPT ![t] = token]
  /\ pc' = [pc EXCEPT ![t] = "head"]
  /\ UNCHANGED <<tokenVars, lockVars, localVars, header, valid, history>>

Head(t) ==
  /\ pc[t] = "head"
  /\ header' = [header EXCEPT ![t] = token]
  /\ pc' = [pc EXCEPT ![t] = "sent"]
  /\ UNCHANGED <<tokenVars, lockVars, localVars, sign, valid, history>>

Genuine(t) ==
  /\ sign[t] = header[t]
  /\ header[t] \in IF asking[t] THEN {NoToken} ELSE valid

\* Tuya executes the request, a command once for each time it gets it.
Serve(t) ==
  /\ pc[t] = "sent" /\ ~asking[t] /\ Genuine(t)
  /\ pc' = [pc EXCEPT ![t] = "served"]
  /\ effects' = [effects EXCEPT ![t] = @ + 1]
  /\ UNCHANGED <<tokenVars, lockVars, localVars, requestVars, valid, renewed>>

\* The call ends, whatever it held.
Return(t) ==
  /\ Release(depth)
  /\ pc' = [pc EXCEPT ![t] = "idle"]
  /\ call' = [call EXCEPT ![t] = "get"] /\ previous' = [previous EXCEPT ![t] = NoToken]
  /\ asking' = [asking EXCEPT ![t] = FALSE] /\ again' = [again EXCEPT ![t] = FALSE]
  /\ sign' = [sign EXCEPT ![t] = NoToken] /\ header' = [header EXCEPT ![t] = NoToken]
  /\ effects' = [effects EXCEPT ![t] = 0] /\ renewed' = [renewed EXCEPT ![t] = FALSE]

Succeed(t) ==
  /\ pc[t] = "served"
  /\ Return(t)
  /\ UNCHANGED <<tokenVars, valid>>

\* Mutants: a GET tries again without limit; no call tries again; every call does,
\* after any error.
RetriesForever(t, error) == call[t] = "get" /\ error = "refused"
RetriesNever(t, error) == FALSE
RetriesAll(t, error) == ~again[t]

\* The except clause of get: the message has "token" or "sign" in it.
Retries(t, error) == call[t] = "get" /\ ~again[t] /\ error = "refused"

\* A TuyaError of the call's own request.
Fail(t, error) ==
  /\ IF Retries(t, error)
     THEN /\ pc' = [pc EXCEPT ![t] = "authenticate"]
          /\ again' = [again EXCEPT ![t] = TRUE]
          /\ UNCHANGED <<lockVars, call, previous, asking, requestVars, history>>
     ELSE Return(t)
  /\ UNCHANGED <<tokenVars, valid>>

\* Tuya says that the token is invalid, or the signature.
Refused(t) ==
  /\ pc[t] = "sent" /\ ~asking[t] /\ ~Genuine(t)
  /\ Fail(t, "refused")

\* Tuya says something else, "sign" perhaps being part of it, or nothing at all.
Rejected(t) ==
  /\ pc[t] = "sent" /\ ~asking[t]
  /\ \E error \in {"refused", "failed"} : Fail(t, error)

\* Executed, but the answer is lost or says otherwise.
Unanswered(t) ==
  /\ pc[t] = "served"
  /\ \E error \in {"refused", "failed"} : Fail(t, error)

-----------------------------------------------------------------------------
(* The answer to authenticate.                                             *)

\* A token whose lifetime is a minute or less is never fresh.
Granted(t) ==
  /\ pc[t] = "sent" /\ asking[t] /\ Genuine(t)
  /\ \E k \in Tokens, f \in BOOLEAN :
       token' = k /\ fresh' = f /\ valid' = valid \cup {k}
  /\ IF call[t] = "authenticate"
     THEN Return(t)
     ELSE /\ Release(1)
          /\ renewed' = [renewed EXCEPT ![t] = TRUE]
          /\ pc' = [pc EXCEPT ![t] = "sign"]
          /\ asking' = [asking EXCEPT ![t] = FALSE]
          /\ previous' = [previous EXCEPT ![t] = NoToken]
          /\ UNCHANGED <<call, again, requestVars, effects>>

\* A TuyaError: the old token is put back.
NotGranted(t) ==
  /\ pc[t] = "sent" /\ asking[t]
  /\ token' = previous[t]
  /\ Return(t)
  /\ UNCHANGED <<fresh, valid>>

\* An answer without a token, or one whose lifetime is no number.
Malformed(t) ==
  /\ pc[t] = "sent" /\ asking[t]
  /\ \/ UNCHANGED <<token, valid>>
     \/ Genuine(t) /\ \E k \in Tokens : token' = k /\ valid' = valid \cup {k}
  /\ Return(t)
  /\ UNCHANGED fresh

-----------------------------------------------------------------------------
Expire == fresh /\ fresh' = FALSE
          /\ UNCHANGED <<token, lockVars, pc, localVars, requestVars, valid, history>>

Revoke(k) ==
  /\ k \in valid
  /\ valid' = valid \ {k}
  /\ UNCHANGED <<tokenVars, lockVars, pc, localVars, requestVars, history>>

Step(t) ==
  \/ Enter(t) \/ Authenticate(t) \/ Sign(t) \/ Head(t)
  \/ Succeed(t) \/ Refused(t) \/ Rejected(t) \/ Unanswered(t)
  \/ Granted(t) \/ NotGranted(t) \/ Malformed(t)

Next ==
  \/ \E t \in Threads : Step(t) \/ Serve(t) \/ \E kind \in KindsOf(t) : Call(t, kind)
  \/ Expire
  \/ \E k \in Tokens : Revoke(k)

Spec == Init /\ [][Next]_vars

\* A request ends within its timeout of 20 seconds.  Who waits for the lock gets
\* it, as its holders pause for seconds between their calls.  The refresh polls;
\* Tuya refuses and grants, not only fails, now and then.
FairSpec ==
  /\ Spec
  /\ \A t \in Threads :
       /\ WF_vars(Step(t))
       /\ SF_vars(Enter(t)) /\ SF_vars(Authenticate(t))
       /\ SF_vars(Refused(t)) /\ SF_vars(Granted(t))
  /\ WF_vars(Call(Poller, "get"))

-----------------------------------------------------------------------------
TypeOK ==
  /\ token \in Tokens \cup {NoToken} /\ fresh \in BOOLEAN
  /\ lock \in Threads \cup {Nobody} /\ depth \in 0 .. 2
  /\ pc \in [Threads -> {"idle", "enter", "authenticate", "sign", "head", "sent", "served"}]
  /\ call \in [Threads -> Kinds] /\ previous \in [Threads -> Tokens \cup {NoToken}]
  /\ asking \in [Threads -> BOOLEAN] /\ again \in [Threads -> BOOLEAN]
  /\ sign \in [Threads -> Tokens \cup {NoToken}]
  /\ header \in [Threads -> Tokens \cup {NoToken}]
  /\ valid \subseteq Tokens
  /\ effects \in [Threads -> Nat] /\ renewed \in [Threads -> BOOLEAN]

\* A request carries the token that it was signed with, whichever threads renew
\* the token meanwhile; a request for a token carries none, and every other one
\* carries one, also after an authentication that lost it (client.py:38, 49-50,
\* 76-80, 89-92, 100, 114, 120).
SentWithItsToken ==
  \A t \in Threads : pc[t] \in {"sent", "served"} =>
    sign[t] = header[t] /\ (asking[t] <=> header[t] = NoToken)

\* No command takes effect twice: only a GET is repeated after an error that may
\* have come of one that was executed, and that once; an opened door or a new PIN
\* is not (client.py:98-122).
OneEffectPerCall ==
  \A t \in Threads : effects[t] =< IF call[t] = "get" THEN 2 ELSE 1

\* A GET whose token Tuya does not accept ends with that refusal only after it
\* was granted a token of its own: one that another client made invalid is not
\* reason enough (client.py:103-107).
RefusedOnlyWhenRenewed ==
  [][\A t \in Threads :
       Refused(t) /\ call[t] = "get" /\ pc'[t] = "idle" => renewed[t]]_vars

\* The lock is given back by every call, whatever failed, and each call gets it
\* and returns (client.py:76, 99, 113, 119).
CallsReturn == \A t \in Threads : pc[t] # "idle" ~> pc[t] = "idle"

\* The client never stays without a token that Tuya accepts: the poll's GET
\* replaces one that was revoked, lost or let expire (client.py:100-107).
TokenIsReplaced == token \notin valid ~> token \in valid
=============================================================================

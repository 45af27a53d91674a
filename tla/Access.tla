------------------------------- MODULE Access -------------------------------
(***************************************************************************)
(* One process behind AuthenticateAndAuthorize: the tokens and keys it     *)
(* issues, the revocation of keys, and requests that are authenticated,    *)
(* then counted against the caller's limit, then checked for the role.     *)
(* Each step takes its own lock and gives it back; others run in between.  *)
(*                                                                         *)
(* The key store and the buckets are globals of the process.  Keys made by *)
(* the auth service are known in no other process; a process that both     *)
(* makes keys and checks them is that of the integration tests.            *)
(***************************************************************************)
EXTENDS Credentials, Sequences, FiniteSets

CONSTANTS
    Caller,        \* users, the subjects of tokens
    KeyId,         \* ids of API keys
    Slot,          \* requests in flight at one time
    NoOne,         \* no caller
    Asked,         \* the roles tokens and keys are asked for
    Needs,         \* the roles of the routes
    MaxTime        \* bound: ticks in a behaviour

ASSUME AccessConstants == NoOne \notin Caller \cup KeyId

VARIABLES
    now,           \* ticks since the start
    tokens,        \* the tokens issued, and kept by callers
    keys,          \* the role of each key, with whether it is revoked
    buckets,       \* the bucket of each client id
    slots,         \* what each request in flight is doing
    admitted       \* when each client was admitted, one time for each admission

accessVars == <<now, tokens, keys, buckets, slots, admitted>>

ClientId == Caller \cup KeyId

NoKey == [role |-> "", revoked |-> FALSE]

\* code is 0 while the request is under way; atArrival: its key was revoked
\* before it came.
Ended(code) == [at |-> "ended", code |-> code, id |-> NoOne, role |-> "",
                needs |-> "", atArrival |-> FALSE]

AccessInit ==
    /\ now = 0
    /\ tokens = {}
    /\ keys = [k \in KeyId |-> NoKey]
    /\ buckets = [c \in ClientId |-> NoBucket]
    /\ slots = [s \in Slot |-> Ended(0)]
    /\ admitted = [c \in ClientId |-> <<>>]

-----------------------------------------------------------------------------
(* The auth service's endpoints *)

\* POST /v1/auth/token: read-only unless a role is named, 400 for a name that
\* is none.  The caller uses the latest token of each role.
CreateToken(user, role) ==
    LET t == IssueToken(user, IF role = "" THEN "read-only" ELSE role, now)
    IN /\ t # BadToken
       /\ tokens' = {o \in tokens : <<o.sub, o.role>> # <<user, t.role>>}
                      \cup {t}
       /\ UNCHANGED <<now, keys, buckets, slots, admitted>>

\* POST /v1/auth/api-keys: operator unless a role is named, and any name is
\* taken.
CreateAPIKey(k, role) ==
    /\ keys[k] = NoKey
    /\ keys' = [keys EXCEPT ![k].role = IF role = "" THEN "operator" ELSE role]
    /\ UNCHANGED <<now, tokens, buckets, slots, admitted>>

RevokeAPIKey(k) ==
    /\ keys[k] # NoKey
    /\ keys' = [keys EXCEPT ![k].revoked = TRUE]
    /\ UNCHANGED <<now, tokens, buckets, slots, admitted>>

-----------------------------------------------------------------------------
(* A request through the middleware *)

Arrives(s, id, role, needs, good, revoked) ==
    slots' = [slots EXCEPT ![s] =
        IF good THEN [at |-> "limit", code |-> 0, id |-> id, role |-> role,
                      needs |-> needs, atArrival |-> revoked]
        ELSE Ended(401)]

PresentToken(s, t, needs) ==
    /\ slots[s].at = "ended"
    /\ Arrives(s, t.sub, t.role, needs, VerifyToken(t, now), FALSE)
    /\ UNCHANGED <<now, tokens, keys, buckets, admitted>>

\* Mutant: a known key is taken, revoked or not.
KeyKnown(k) == keys[k] # NoKey

VerifyAPIKey(k) == keys[k] # NoKey /\ ~ keys[k].revoked

PresentKey(s, k, needs) ==
    /\ slots[s].at = "ended"
    /\ Arrives(s, k, keys[k].role, needs, VerifyAPIKey(k), keys[k].revoked)
    /\ UNCHANGED <<now, tokens, keys, buckets, admitted>>

\* One Allow at a time; the request may be forbidden afterwards and has then
\* used its token.
Limit(s) ==
    LET r == slots[s]  b == buckets[r.id] IN
    /\ r.at = "limit"
    /\ buckets' = [buckets EXCEPT ![r.id] = Allow(b, r.role)]
    /\ slots' = [slots EXCEPT ![s] =
         IF Allowed(b) THEN [r EXCEPT !.at = "role"]
         ELSE Ended(429)]
    /\ admitted' = IF Allowed(b)
                   THEN [admitted EXCEPT ![r.id] = Append(@, now)] ELSE admitted
    /\ UNCHANGED <<now, tokens, keys>>

\* Served (200 stands for whatever the route answers) or forbidden.
CheckRole(s) ==
    LET r == slots[s] IN
    /\ r.at = "role"
    /\ slots' = [slots EXCEPT ![s] =
         [Ended(IF RoleSatisfies(r.role, r.needs) THEN 200 ELSE 403)
            EXCEPT !.atArrival = r.atArrival]]
    /\ UNCHANGED <<now, tokens, keys, buckets, admitted>>

\* Time passes: buckets age.
Tick ==
    /\ now < MaxTime
    /\ now' = now + 1
    /\ buckets' = [c \in ClientId |-> Aged(buckets[c])]
    /\ UNCHANGED <<tokens, keys, slots, admitted>>

AccessNext ==
    \/ \E u \in Caller, role \in Asked : CreateToken(u, role)
    \/ \E k \in KeyId, role \in Asked : CreateAPIKey(k, role)
    \/ \E k \in KeyId : RevokeAPIKey(k)
    \/ \E s \in Slot, needs \in Needs :
         \/ \E t \in tokens \cup {BadToken} : PresentToken(s, t, needs)
         \/ \E k \in KeyId : PresentKey(s, k, needs)
    \/ \E s \in Slot : Limit(s) \/ CheckRole(s)
    \/ Tick

AccessSpec == AccessInit /\ [][AccessNext]_accessVars

-----------------------------------------------------------------------------
(* Properties *)

\* The admissions of the period as long as a window that ends now.
AdmittedLately(c) == {i \in 1..Len(admitted[c]) : admitted[c][i] + Window > now}

\* In no period as long as a window is a client admitted more than twice its
\* limit: once before the refill and once after (RateLimiter.Allow).
BurstBound ==
    \A c \in ClientId : Cardinality(AdmittedLately(c)) <= 2 * buckets[c].max

\* A request that comes after its key was revoked is not served, however its
\* steps interleave with others (VerifyAPIKey under the store's lock).
RevokedStaysOut == \A s \in Slot : slots[s].code = 200 => ~ slots[s].atArrival
=============================================================================

---------------------------- MODULE Credentials -----------------------------
(***************************************************************************)
(* Tokens, API keys and rate limits (services/auth-service/auth), as       *)
(* operators of the two components that check them: the HTTP middleware    *)
(* (Access) and the gRPC interceptor (Rpc).  Time is in ticks.             *)
(*                                                                         *)
(* A token is a record of what its signed text says; that nobody makes one *)
(* without the secret is assumed of HMAC-SHA256.                           *)
(***************************************************************************)
EXTENDS Naturals, Roles

CONSTANTS
    RateRule,      \* DefaultRules: requests in a window, for each role
    Window,        \* ticks in a window
    TokenLife      \* ticks a token is good for

ASSUME CredentialConstants ==
    /\ RateRule \in [Role -> Nat \ {0}]
    /\ Window \in Nat \ {0}
    /\ TokenLife \in Nat

BadToken == [sub |-> "", role |-> "", exp |-> 0]

\* No token for any other role.
IssueToken(sub, role, now) ==
    IF role \in Role THEN [sub |-> sub, role |-> role, exp |-> now + TokenLife]
    ELSE BadToken

\* The last second of its life is still good.
VerifyToken(token, now) == token # BadToken /\ now <= token.exp

-----------------------------------------------------------------------------
(* Rate limits: a bucket is full again once its window is over.  Ages stop  *)
(* counting at the window, after which nothing depends on them.             *)

NoBucket == [tokens |-> 0, max |-> 0, age |-> 0]

RuleOf(role) == IF role \in Role THEN RateRule[role] ELSE RateRule["read-only"]

\* Mutant: the elapsed time is not compared with the window.
RefilledAlways(b) == [b EXCEPT !.tokens = b.max]

Refilled(b) ==
    IF b.age >= Window THEN [b EXCEPT !.tokens = b.max, !.age = 0] ELSE b

\* Whether Allow admits a request; the first of a client always.
Allowed(b) == b = NoBucket \/ Refilled(b).tokens > 0

\* The bucket Allow leaves.  Its size is that of the role seen first.
Allow(b, role) ==
    IF b = NoBucket
    THEN [tokens |-> RuleOf(role) - 1, max |-> RuleOf(role), age |-> 0]
    ELSE IF Allowed(b) THEN [Refilled(b) EXCEPT !.tokens = @ - 1]
    ELSE Refilled(b)

Aged(b) ==
    IF b = NoBucket THEN b
    ELSE [b EXCEPT !.age = IF @ < Window THEN @ + 1 ELSE @]
=============================================================================

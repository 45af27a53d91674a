----------------------------- MODULE EdgeProofs -----------------------------
(***************************************************************************)
(* Theorems about what stands between clients and the services: the        *)
(* middleware's rate limit and key store (Access), the calls between the   *)
(* services (Rpc) and the gateway's requests (Gateway), for any number of  *)
(* clients, keys, calls and workers, any limits and any length of time.    *)
(***************************************************************************)
EXTENDS Access, Rpc, Gateway, FiniteSetTheorems, TLAPS

-----------------------------------------------------------------------------
(* The middleware.  A client's admissions are split in three: old ones, no  *)
(* longer in the window that ends now; those of the bucket's window before  *)
(* the last refill, at most a limit; and those since the refill, which the  *)
(* tokens missing from the bucket count.                                    *)

Bucket == [tokens : Nat, max : Nat, age : 0..Window]

KeyRecord == [role : Asked \cup {"", "operator"}, revoked : BOOLEAN]

Request == [at : {"limit", "role", "ended"}, code : Nat,
            id : ClientId \cup {NoOne}, role : Role \cup Asked \cup {"", "operator"},
            needs : Needs \cup {""}, atArrival : BOOLEAN]

\* A request that waits for the limiter is some client's.
OfClient(r) == r.at = "limit" => r.id \in ClientId

SlotsOK == slots \in [Slot -> Request] /\ \A s \in Slot : OfClient(slots[s])

AccessTypeOK ==
    /\ now \in Nat
    /\ tokens \subseteq [sub : Caller, role : Role, exp : Nat]
    /\ keys \in [KeyId -> KeyRecord]
    /\ buckets \in [ClientId -> Bucket]
    /\ admitted \in [ClientId -> Seq(Nat)]
    /\ SlotsOK

\* What the rate limiter keeps true of a client: b is its bucket, a the times
\* it was admitted, t the time.
BucketOK(b, a, t) ==
    /\ b = NoBucket => a = <<>>
    /\ b # NoBucket => b.max > 0
    /\ b.tokens <= b.max
    /\ \A i \in 1..Len(a) : a[i] <= t
    /\ \E old, before \in 0..Len(a) :
         /\ old <= before
         /\ before - old <= b.max
         /\ Len(a) - before = b.max - b.tokens
         /\ \A i \in 1..old : a[i] + Window + b.age <= t
         /\ \A i \in 1..before : a[i] + b.age <= t

LimitInv ==
    /\ AccessTypeOK
    /\ \A c \in ClientId : BucketOK(buckets[c], admitted[c], now)

\* One more admission, one token fewer.
LEMMA OneTokenFewer ==
    ASSUME NEW n \in Int, NEW k \in Int, NEW m \in Int, NEW l \in Int, n - k = m - l
    PROVE  n + 1 - k = m - (l - 1)
  OBVIOUS

\* A bucket with another number of tokens.
LEMMA TokensSet ==
    ASSUME NEW b \in Bucket, NEW k \in Nat
    PROVE  [b EXCEPT !.tokens = k] = [tokens |-> k, max |-> b.max, age |-> b.age]
  BY DEF Bucket

\* One Allow for a client with a bucket in order: it admits, and the bucket is
\* in order with the admission; or it refuses, and nothing else changes.
LEMMA AllowKeeps ==
    ASSUME NEW b \in Bucket,
           NEW a \in Seq(Nat), NEW t \in Nat, BucketOK(b, a, t),
           NEW role
    PROVE  /\ Allow(b, role) \in Bucket
           /\ Allowed(b) => BucketOK(Allow(b, role), Append(a, t), t)
           /\ ~ Allowed(b) => BucketOK(Allow(b, role), a, t)
<1> USE CredentialConstants DEF Bucket
<1> RuleOf(role) \in Nat \ {0}
  BY DEF RuleOf, Role
<1>a. /\ Append(a, t) \in Seq(Nat) /\ Len(Append(a, t)) = Len(a) + 1 /\ Len(a) \in Nat
      /\ Append(a, t)[Len(a) + 1] = t
      /\ \A i \in 1..Len(a) : Append(a, t)[i] = a[i]
      /\ \A i \in 1..Len(a) : a[i] \in Nat
  BY SMTT(30)
<1>b. b.tokens \in Nat /\ b.max \in Nat /\ b.age \in 0..Window /\ Window \in Nat
  OBVIOUS
<1>c. \A k \in Nat : [b EXCEPT !.tokens = k] =
                         [tokens |-> k, max |-> b.max, age |-> b.age]
  BY TokensSet
<1>1. CASE b = NoBucket
  <2> DEFINE n == Allow(b, role)
  <2>1. n = [tokens |-> RuleOf(role) - 1, max |-> RuleOf(role), age |-> 0]
    BY <1>1 DEF Allow
  <2>2. Allowed(b) /\ a = <<>> /\ Len(a) = 0
    BY <1>1 DEF Allowed, BucketOK
  <2>3. BucketOK(n, Append(a, t), t)
    <3> HIDE DEF n
    <3>1. n.tokens = RuleOf(role) - 1 /\ n.max = RuleOf(role) /\ n.age = 0
      BY <2>1
    <3>2. n # NoBucket /\ n.max > 0 /\ n.tokens <= n.max
      BY <3>1 DEF NoBucket
    <3>3. \A i \in 1..Len(Append(a, t)) : Append(a, t)[i] <= t
      BY <1>a, <2>2
    <3>4. /\ 0 \in 0..Len(Append(a, t)) /\ 0 <= 0 /\ 0 - 0 <= n.max
          /\ Len(Append(a, t)) - 0 = n.max - n.tokens
          /\ \A i \in 1..0 : Append(a, t)[i] + Window + n.age <= t
          /\ \A i \in 1..0 : Append(a, t)[i] + n.age <= t
      BY <1>a, <2>2, <3>1
    <3> QED BY <3>2, <3>3, <3>4 DEF BucketOK
  <2> QED BY <2>1, <2>2, <2>3
<1>2. CASE b # NoBucket /\ b.age >= Window
  <2> DEFINE n == Allow(b, role)
  <2>1. Refilled(b) = [tokens |-> b.max, max |-> b.max, age |-> 0]
    BY <1>2 DEF Refilled
  <2>2. Allowed(b) /\ b.max > 0 /\ b.age = Window
    BY <1>2, <2>1, <1>b DEF Allowed, BucketOK
  <2>3. n = [tokens |-> b.max - 1, max |-> b.max, age |-> 0]
    BY <1>2, <2>1, <2>2 DEF Allow
  <2>4. /\ n.tokens = b.max - 1 /\ n.max = b.max /\ n.age = 0
        /\ n \in Bucket
    BY <1>b, <2>2, <2>3
  <2> HIDE DEF n
  <2>5. PICK old, before \in 0..Len(a) :
         /\ old <= before
         /\ before - old <= b.max
         /\ Len(a) - before = b.max - b.tokens
         /\ \A i \in 1..old : a[i] + Window + b.age <= t
         /\ \A i \in 1..before : a[i] + b.age <= t
    BY DEF BucketOK
  <2>6. \A i \in 1..Len(a) : a[i] <= t /\ a[i] \in Nat
    BY <1>a DEF BucketOK
  <2>7. BucketOK(n, Append(a, t), t)
    <3>1. n # NoBucket /\ n.max > 0 /\ n.tokens <= n.max
      BY <2>4, <2>2 DEF NoBucket
    <3>2. \A i \in 1..Len(Append(a, t)) : Append(a, t)[i] <= t
      BY <1>a, <2>6, SMTT(30)
    <3>3. /\ before \in 0..Len(Append(a, t)) /\ Len(a) \in 0..Len(Append(a, t))
          /\ before <= Len(a) /\ Len(a) - before <= n.max
          /\ Len(Append(a, t)) - Len(a) = n.max - n.tokens
      BY <1>a, <2>4, <2>5, SMTT(30)
    <3>4. \A i \in 1..before : Append(a, t)[i] + Window + n.age <= t
      <4> TAKE i \in 1..before
      <4>1. Append(a, t)[i] = a[i] /\ a[i] + b.age <= t /\ a[i] \in Nat
        BY <1>a, <2>5, SMTT(30)
      <4> QED BY <4>1, <2>2, <2>4, <1>b, SMTT(30)
    <3>5. \A i \in 1..Len(a) : Append(a, t)[i] + n.age <= t
      BY <1>a, <2>4, <2>6, SMTT(30)
    <3> QED BY <3>1, <3>2, <3>3, <3>4, <3>5 DEF BucketOK
  <2> QED BY <2>2, <2>4, <2>7 DEF n
<1>3. CASE b # NoBucket /\ ~ (b.age >= Window)
  <2> DEFINE n == Allow(b, role)
  <2>1. Refilled(b) = b
    BY <1>3 DEF Refilled
  <2>2. PICK old, before \in 0..Len(a) :
         /\ old <= before
         /\ before - old <= b.max
         /\ Len(a) - before = b.max - b.tokens
         /\ \A i \in 1..old : a[i] + Window + b.age <= t
         /\ \A i \in 1..before : a[i] + b.age <= t
    BY DEF BucketOK
  <2>3. CASE b.tokens > 0
    <3>1. Allowed(b) /\ n = [tokens |-> b.tokens - 1, max |-> b.max, age |-> b.age]
      BY <1>3, <2>1, <2>3, <1>b, <1>c DEF Allowed, Allow
    <3>2. /\ n.tokens = b.tokens - 1 /\ n.max = b.max /\ n.age = b.age
          /\ n \in Bucket
      BY <1>b, <2>3, <3>1
    <3> HIDE DEF n
    <3>3. n # NoBucket /\ n.max > 0 /\ n.tokens <= n.max
      BY <1>3, <3>2, SMTT(30) DEF NoBucket, BucketOK
    <3>4. \A i \in 1..Len(Append(a, t)) : Append(a, t)[i] <= t
      BY <1>a, SMTT(30) DEF BucketOK
    <3>5. /\ old \in 0..Len(Append(a, t)) /\ before \in 0..Len(Append(a, t))
          /\ old <= before /\ before - old <= n.max
          /\ Len(Append(a, t)) - before = n.max - n.tokens
      <4>1. Len(Append(a, t)) = Len(a) + 1 /\ Len(a) \in Nat
        BY <1>a
      <4>2. /\ old \in 0..Len(a) /\ before \in 0..Len(a) /\ old <= before
            /\ before - old <= b.max /\ Len(a) - before = b.max - b.tokens
        BY <2>2
      <4>3. Len(a) + 1 - before = b.max - (b.tokens - 1)
        <5>1. /\ Len(a) \in Int /\ before \in Int /\ b.max \in Int /\ b.tokens \in Int
              /\ Len(a) - before = b.max - b.tokens
          BY <1>b, <4>1, <4>2
        <5> QED BY ONLY <5>1, OneTokenFewer
      <4>4. Len(Append(a, t)) - before = n.max - n.tokens
        BY <3>2, <4>1, <4>3
      <4>5. old \in 0..Len(Append(a, t)) /\ before \in 0..Len(Append(a, t))
        BY <4>1, <4>2
      <4> QED BY <3>2, <4>2, <4>4, <4>5
    <3>6. /\ \A i \in 1..old : Append(a, t)[i] + Window + n.age <= t
          /\ \A i \in 1..before : Append(a, t)[i] + n.age <= t
      BY <1>a, <2>2, <3>2, SMTT(30)
    <3>7. BucketOK(n, Append(a, t), t)
      BY <3>3, <3>4, <3>5, <3>6 DEF BucketOK
    <3> QED BY <3>1, <3>2, <3>7 DEF n
  <2>4. CASE ~ (b.tokens > 0)
    BY <1>3, <2>1, <2>4 DEF Allowed, Allow
  <2> QED BY <2>3, <2>4
<1> QED BY <1>1, <1>2, <1>3

\* An age that grows by at most one keeps within a time that grows by one.
LEMMA LaterStill ==
    ASSUME NEW x \in Nat, NEW age \in Nat, NEW older \in Nat, NEW t \in Nat,
           x + age <= t, older <= age + 1
    PROVE  x + older <= t + 1
  OBVIOUS

\* Time passes for a client whose bucket is in order.
LEMMA AgedKeeps ==
    ASSUME NEW b \in Bucket,
           NEW a \in Seq(Nat), NEW t \in Nat, BucketOK(b, a, t)
    PROVE  /\ Aged(b) \in Bucket
           /\ BucketOK(Aged(b), a, t + 1)
<1> USE CredentialConstants DEF Bucket
<1> DEFINE n == Aged(b)
<1>a. b.tokens \in Nat /\ b.max \in Nat /\ b.age \in 0..Window /\ Window \in Nat
      /\ \A i \in 1..Len(a) : a[i] \in Nat
  OBVIOUS
<1>1. /\ n \in Bucket
      /\ n.tokens = b.tokens /\ n.max = b.max /\ n.age \in {b.age, b.age + 1}
      /\ b = NoBucket <=> n = NoBucket
  <2>1. CASE b = NoBucket
    BY <2>1 DEF Aged
  <2>2. CASE b # NoBucket
    <3>1. n = [tokens |-> b.tokens, max |-> b.max,
               age |-> IF b.age < Window THEN b.age + 1 ELSE b.age]
      BY <2>2 DEF Aged
    <3>2. b.max > 0
      BY <2>2 DEF BucketOK
    <3> QED BY <1>a, <2>2, <3>1, <3>2 DEF NoBucket
  <2> QED BY <2>1, <2>2
<1> HIDE DEF n
<1>2. PICK old, before \in 0..Len(a) :
         /\ old <= before
         /\ before - old <= b.max
         /\ Len(a) - before = b.max - b.tokens
         /\ \A i \in 1..old : a[i] + Window + b.age <= t
         /\ \A i \in 1..before : a[i] + b.age <= t
  BY DEF BucketOK
<1>3. /\ \A i \in 1..Len(a) : a[i] <= t + 1
      /\ \A i \in 1..old : a[i] + Window + n.age <= t + 1
      /\ \A i \in 1..before : a[i] + n.age <= t + 1
  <2>1. ASSUME NEW i \in 1..Len(a) PROVE a[i] \in Nat /\ a[i] <= t
    BY <1>a DEF BucketOK
  <2>2. ASSUME NEW i \in 1..old
        PROVE  a[i] \in Nat /\ a[i] + Window + b.age <= t
    <3>1. i \in 1..Len(a)
      BY <1>2
    <3> QED BY <1>a, <1>2, <3>1
  <2>3. ASSUME NEW i \in 1..before PROVE a[i] \in Nat /\ a[i] + b.age <= t
    BY <1>a, <1>2, SMTT(30)
  <2>4. n.age \in Nat /\ n.age <= b.age + 1 /\ b.age \in Nat
    BY <1>a, <1>1
  <2> HIDE <1>2
  <2>5. \A i \in 1..Len(a) : a[i] <= t + 1
    BY <2>1
  <2>6. \A i \in 1..old : a[i] + Window + n.age <= t + 1
    <3> TAKE i \in 1..old
    <3>1. a[i] \in Nat /\ a[i] + Window + b.age <= t /\ Window \in Nat /\ t \in Nat
      BY <1>a, <2>2
    <3>2. a[i] + Window \in Nat
      BY ONLY <3>1, SMTT(30)
    <3> QED BY ONLY <2>4, <3>1, <3>2, LaterStill
  <2>7. \A i \in 1..before : a[i] + n.age <= t + 1
    <3> TAKE i \in 1..before
    <3>1. a[i] \in Nat /\ a[i] + b.age <= t /\ t \in Nat
      BY <2>3
    <3> QED BY <2>4, <3>1, LaterStill
  <2> QED BY <2>5, <2>6, <2>7
<1>4. /\ n = NoBucket => a = <<>>
      /\ n # NoBucket => n.max > 0
      /\ n.tokens <= n.max
  BY <1>1 DEF BucketOK
<1> QED BY <1>1, <1>2, <1>3, <1>4 DEF BucketOK, n

\* A client's admissions of the last window are not the old ones.
LEMMA BucketBounds ==
    ASSUME LimitInv, NEW c \in ClientId
    PROVE  Cardinality(AdmittedLately(c)) <= 2 * buckets[c].max
<1> USE DEF Bucket
<1> DEFINE a == admitted[c]  b == buckets[c]
<1>1. /\ a \in Seq(Nat) /\ now \in Nat /\ BucketOK(b, a, now) /\ Window \in Nat
      /\ b \in Bucket
  BY CredentialConstants DEF LimitInv, AccessTypeOK
<1>2. PICK old, before \in 0..Len(a) :
         /\ old <= before
         /\ before - old <= b.max
         /\ Len(a) - before = b.max - b.tokens
         /\ \A i \in 1..old : a[i] + Window + b.age <= now
  BY <1>1 DEF BucketOK
<1>3. AdmittedLately(c) \subseteq (old + 1)..Len(a)
  <2> SUFFICES ASSUME NEW i \in 1..Len(a), a[i] + Window > now
               PROVE  i \in (old + 1)..Len(a)
    BY DEF AdmittedLately
  <2> HIDE DEF a, b
  <2>1. a[i] \in Nat /\ b.age \in Nat
    BY <1>1
  <2>2. ~ (i \in 1..old)
    <3> SUFFICES ASSUME i \in 1..old PROVE FALSE
      OBVIOUS
    <3>1. a[i] + Window + b.age <= now /\ now \in Nat /\ Window \in Nat
      BY <1>1, <1>2
    <3> HIDE <1>1, <1>2
    <3> QED BY <2>1, <3>1
  <2> QED BY <1>1, <1>2, <2>2
<1> HIDE DEF a, b
<1>4. IsFiniteSet((old + 1)..Len(a)) /\ Cardinality((old + 1)..Len(a)) = Len(a) - old
  <2>1. old \in Int /\ Len(a) \in Int /\ old <= Len(a)
    BY <1>1, <1>2
  <2> HIDE <1>1, <1>2
  <2>2. IsFiniteSet((old + 1)..Len(a))
        /\ Cardinality((old + 1)..Len(a)) =
             IF old + 1 > Len(a) THEN 0 ELSE Len(a) - (old + 1) + 1
    <3> DEFINE lo == old + 1
    <3>1. lo \in Int
      BY <2>1
    <3> HIDE DEF lo
    <3>2. IsFiniteSet(lo..Len(a))
          /\ Cardinality(lo..Len(a)) = IF lo > Len(a) THEN 0 ELSE Len(a) - lo + 1
      BY <2>1, <3>1, FS_Interval
    <3> QED BY <3>2 DEF lo
  <2> QED BY <2>1, <2>2
<1>5. Cardinality(AdmittedLately(c)) <= Len(a) - old
  BY <1>3, <1>4, FS_Subset
<1>6. /\ b.max \in Nat /\ b.tokens \in Nat /\ Len(a) \in Nat
      /\ AdmittedLately(c) \subseteq (old + 1)..Len(a)
      /\ IsFiniteSet(AdmittedLately(c)) /\ Cardinality(AdmittedLately(c)) \in Nat
  BY <1>1, <1>3, <1>4, FS_Subset, FS_CardinalityType, SMTT(30)
<1>7. Len(a) - old <= 2 * b.max
  <2>1. old \in Nat /\ before \in Nat /\ before - old <= b.max
        /\ Len(a) - before = b.max - b.tokens
    BY <1>1, <1>2
  <2> HIDE <1>1, <1>2
  <2> QED BY <1>6, <2>1, SMTT(30)
<1> QED BY <1>2, <1>5, <1>6, <1>7 DEF b

\* Initially nobody has a bucket.
LEMMA LimitInvInit == AccessInit => LimitInv
<1> SUFFICES ASSUME AccessInit PROVE LimitInv
  OBVIOUS
<1> USE CredentialConstants
<1>1. NoKey \in KeyRecord /\ NoBucket \in Bucket /\ Ended(0) \in Request
      /\ OfClient(Ended(0))
  BY DEF KeyRecord, NoKey, Bucket, NoBucket, Request, Ended, OfClient
<1>2. AccessTypeOK
  BY <1>1 DEF AccessInit, AccessTypeOK, SlotsOK
<1>3. ASSUME NEW c \in ClientId PROVE BucketOK(buckets[c], admitted[c], now)
  BY DEF AccessInit, BucketOK, NoBucket
<1> QED BY <1>2, <1>3 DEF LimitInv

\* A request turns into another.
LEMMA SlotStep ==
    ASSUME SlotsOK, NEW s \in Slot, NEW r \in Request, OfClient(r),
           slots' = [slots EXCEPT ![s] = r]
    PROVE  SlotsOK'
  BY DEF SlotsOK

\* An answer, of whatever code, is a request that is over.
LEMMA EndedTypes ==
    ASSUME NEW code \in Nat
    PROVE  /\ Ended(code) \in Request /\ OfClient(Ended(code))
           /\ \A was \in BOOLEAN :
                /\ [Ended(code) EXCEPT !.atArrival = was] \in Request
                /\ OfClient([Ended(code) EXCEPT !.atArrival = was])
<1>1. Ended(code) \in Request /\ Ended(code).at = "ended"
  BY DEF Ended, Request
<1>2. ASSUME NEW was \in BOOLEAN
      PROVE  /\ [Ended(code) EXCEPT !.atArrival = was] \in Request
             /\ [Ended(code) EXCEPT !.atArrival = was].at = "ended"
  BY <1>1 DEF Request
<1> QED BY <1>1, <1>2 DEF OfClient

\* A request that arrives is at the limit with a client's id, or over.
LEMMA ArriveTypes ==
    ASSUME SlotsOK, NEW s \in Slot, NEW needs \in Needs, NEW revoked \in BOOLEAN,
           NEW id \in ClientId, NEW role \in Role \cup Asked \cup {"", "operator"}
    PROVE  Arrives(s, id, role, needs, TRUE, revoked) => SlotsOK'
<1> DEFINE r == [at |-> "limit", code |-> 0, id |-> id, role |-> role,
                 needs |-> needs, atArrival |-> revoked]
<1> SUFFICES ASSUME slots' = [slots EXCEPT ![s] = r] PROVE SlotsOK'
  BY DEF Arrives
<1>1. r \in Request /\ OfClient(r)
  BY DEF Request, OfClient
<1> HIDE DEF r
<1> QED BY <1>1, SlotStep

\* A request with a bad token or key is over.
LEMMA ArriveRefused ==
    ASSUME SlotsOK, NEW s \in Slot, slots' = [slots EXCEPT ![s] = Ended(401)]
    PROVE  SlotsOK'
<1>1. Ended(401) \in Request /\ OfClient(Ended(401))
  BY EndedTypes
<1> QED BY <1>1, SlotStep, ZenonT(40)

\* What each step of the middleware does to the types.
LEMMA AccessTypeStep ==
    ASSUME LimitInv, [AccessNext]_accessVars
    PROVE  AccessTypeOK'
<1> USE CredentialConstants
<1>a. AccessTypeOK
  BY DEF LimitInv
<1> USE DEF AccessTypeOK
<1>0. ASSUME UNCHANGED slots PROVE SlotsOK'
  BY <1>0, <1>a DEF SlotsOK
<1>1. ASSUME NEW user \in Caller, NEW role \in Asked, CreateToken(user, role)
      PROVE  AccessTypeOK'
  <2> DEFINE t == IssueToken(user, IF role = "" THEN "read-only" ELSE role, now)
  <2>1. t # BadToken /\ tokens' \subseteq tokens \cup {t}
        /\ UNCHANGED <<now, keys, buckets, slots, admitted>>
    BY <1>1 DEF CreateToken
  <2>2. t \in [sub : Caller, role : Role, exp : Nat]
    <3>1. now + TokenLife \in Nat
      BY <1>a
    <3> QED BY <2>1, <3>1 DEF IssueToken
  <2> HIDE DEF t
  <2> QED BY <1>0, <1>a, <2>1, <2>2
<1>2. ASSUME NEW k \in KeyId, NEW role \in Asked, CreateAPIKey(k, role)
      PROVE  AccessTypeOK'
  <2>1. keys' \in [KeyId -> KeyRecord]
    BY <1>2, <1>a DEF CreateAPIKey, KeyRecord
  <2> QED BY <1>0, <1>2, <1>a, <2>1 DEF CreateAPIKey
<1>3. ASSUME NEW k \in KeyId, RevokeAPIKey(k)
      PROVE  AccessTypeOK'
  <2>1. keys' \in [KeyId -> KeyRecord]
    BY <1>3, <1>a DEF RevokeAPIKey, KeyRecord
  <2> QED BY <1>0, <1>3, <1>a, <2>1 DEF RevokeAPIKey
<1>4. ASSUME NEW s \in Slot, NEW needs \in Needs, NEW t \in tokens \cup {BadToken},
             PresentToken(s, t, needs)
      PROVE  AccessTypeOK'
  <2>1. Arrives(s, t.sub, t.role, needs, VerifyToken(t, now), FALSE)
        /\ UNCHANGED <<now, tokens, keys, buckets, admitted>>
    BY <1>4 DEF PresentToken
  <2>2. VerifyToken(t, now) => t.sub \in Caller /\ t.role \in Role
    BY <1>a DEF VerifyToken
  <2>3. VerifyToken(t, now) => t.sub \in ClientId
                               /\ t.role \in Role \cup Asked \cup {"", "operator"}
    BY <2>2 DEF ClientId
  <2>4. SlotsOK'
    <3>1. CASE VerifyToken(t, now)
      <4>1. Arrives(s, t.sub, t.role, needs, TRUE, FALSE)
        BY <2>1, <3>1 DEF Arrives
      <4> QED BY <1>a, <2>3, <3>1, <4>1, ArriveTypes
    <3>2. CASE ~ VerifyToken(t, now)
      BY <1>a, <2>1, <3>2, ArriveRefused DEF Arrives
    <3> QED BY <3>1, <3>2
  <2> QED BY <1>a, <2>1, <2>4
<1>5. ASSUME NEW s \in Slot, NEW needs \in Needs, NEW k \in KeyId,
             PresentKey(s, k, needs)
      PROVE  AccessTypeOK'
  <2>1. Arrives(s, k, keys[k].role, needs, VerifyAPIKey(k), keys[k].revoked)
        /\ UNCHANGED <<now, tokens, keys, buckets, admitted>>
    BY <1>5 DEF PresentKey
  <2>2. k \in ClientId /\ keys[k].role \in Asked \cup {"", "operator"}
        /\ keys[k].revoked \in BOOLEAN
    BY <1>a DEF ClientId, KeyRecord
  <2>3. SlotsOK'
    <3>1. CASE VerifyAPIKey(k)
      <4>1. Arrives(s, k, keys[k].role, needs, TRUE, keys[k].revoked)
        BY <2>1, <3>1 DEF Arrives
      <4> QED BY <1>a, <2>2, <4>1, ArriveTypes
    <3>2. CASE ~ VerifyAPIKey(k)
      BY <1>a, <2>1, <3>2, ArriveRefused DEF Arrives
    <3> QED BY <3>1, <3>2
  <2> QED BY <1>a, <2>1, <2>3
<1>6. ASSUME NEW s \in Slot, Limit(s)
      PROVE  AccessTypeOK'
  <2> DEFINE r == slots[s]  b == buckets[r.id]
  <2>1. /\ r.at = "limit"
        /\ buckets' = [buckets EXCEPT ![r.id] = Allow(b, r.role)]
        /\ slots' = [slots EXCEPT ![s] =
             IF Allowed(b) THEN [r EXCEPT !.at = "role"] ELSE Ended(429)]
        /\ admitted' = IF Allowed(b)
             THEN [admitted EXCEPT ![r.id] = Append(@, now)] ELSE admitted
        /\ UNCHANGED <<now, tokens, keys>>
    BY <1>6 DEF Limit
  <2>2. r \in Request /\ r.id \in ClientId
    BY <1>a, <2>1 DEF SlotsOK, OfClient
  <2>3. BucketOK(b, admitted[r.id], now) /\ b \in Bucket
        /\ admitted[r.id] \in Seq(Nat) /\ now \in Nat
    BY <1>a, <2>2 DEF LimitInv
  <2>4. Allow(b, r.role) \in Bucket
    BY <2>3, AllowKeeps
  <2>5. [r EXCEPT !.at = "role"] \in Request /\ OfClient([r EXCEPT !.at = "role"])
    BY <2>2 DEF Request, OfClient
  <2>6. Append(admitted[r.id], now) \in Seq(Nat)
    BY <2>3
  <2> HIDE DEF b, r
  <2>7. buckets' \in [ClientId -> Bucket]
    BY <1>a, <2>1, <2>2, <2>4
  <2>8. admitted' \in [ClientId -> Seq(Nat)]
    BY <1>a, <2>1, <2>2, <2>6
  <2>9. SlotsOK'
    <3>1. Ended(429) \in Request /\ OfClient(Ended(429))
      BY EndedTypes
    <3>2. CASE Allowed(b)
      <4>1. slots' = [slots EXCEPT ![s] = [r EXCEPT !.at = "role"]]
        BY <2>1, <3>2
      <4> QED BY <1>a, <2>5, <4>1, SlotStep
    <3>3. CASE ~ Allowed(b)
      <4>1. slots' = [slots EXCEPT ![s] = Ended(429)]
        BY <2>1, <3>3
      <4> QED BY <1>a, <3>1, <4>1, SlotStep, ZenonT(40)
    <3> QED BY <3>2, <3>3
  <2> QED BY <1>a, <2>1, <2>7, <2>8, <2>9
<1>7. ASSUME NEW s \in Slot, CheckRole(s)
      PROVE  AccessTypeOK'
  <2>1. slots[s].atArrival \in BOOLEAN
    BY <1>a DEF SlotsOK, Request
  <2>2. SlotsOK'
    <3> DEFINE code == IF RoleSatisfies(slots[s].role, slots[s].needs) THEN 200 ELSE 403
               r == [Ended(code) EXCEPT !.atArrival = slots[s].atArrival]
    <3>1. code \in Nat
      OBVIOUS
    <3>2. slots' = [slots EXCEPT ![s] = r]
      BY <1>7 DEF CheckRole
    <3> HIDE DEF code
    <3>3. r \in Request /\ OfClient(r)
      BY <2>1, <3>1, EndedTypes
    <3> HIDE DEF r
    <3> QED BY <1>a, <3>2, <3>3, SlotStep
  <2> QED BY <1>7, <1>a, <2>2 DEF CheckRole
<1>8. ASSUME Tick
      PROVE  AccessTypeOK'
  <2>1. ASSUME NEW c \in ClientId PROVE Aged(buckets[c]) \in Bucket
    BY <1>a, AgedKeeps DEF LimitInv
  <2>2. now' \in Nat /\ buckets' \in [ClientId -> Bucket]
        /\ UNCHANGED <<tokens, keys, slots, admitted>>
    BY <1>8, <1>a, <2>1 DEF Tick
  <2> QED BY <1>0, <1>a, <2>2
<1>9. CASE UNCHANGED accessVars
  BY <1>0, <1>9, <1>a DEF accessVars
<1> QED BY <1>1, <1>2, <1>3, <1>4, <1>5, <1>6, <1>7, <1>8, <1>9 DEF AccessNext

\* Only Limit and Tick touch buckets and the record of admissions.
LEMMA LimitInvStep == LimitInv /\ [AccessNext]_accessVars => LimitInv'
<1> SUFFICES ASSUME LimitInv, [AccessNext]_accessVars PROVE LimitInv'
  OBVIOUS
<1>a. AccessTypeOK /\ AccessTypeOK'
  BY AccessTypeStep DEF LimitInv
<1> SUFFICES ASSUME NEW c \in ClientId
             PROVE  BucketOK(buckets[c], admitted[c], now)'
  BY <1>a DEF LimitInv
<1>b. /\ BucketOK(buckets[c], admitted[c], now)
      /\ buckets[c] \in Bucket
      /\ admitted[c] \in Seq(Nat) /\ now \in Nat
  BY <1>a DEF LimitInv, AccessTypeOK
<1>1. ASSUME NEW s \in Slot, Limit(s)
      PROVE  BucketOK(buckets[c]', admitted[c]', now')
  <2> DEFINE r == slots[s]  b == buckets[r.id]
  <2>1. r.id \in ClientId
    BY <1>1, <1>a DEF Limit, AccessTypeOK, SlotsOK, OfClient
  <2>2. /\ buckets' = [buckets EXCEPT ![r.id] = Allow(b, r.role)]
        /\ admitted' = IF Allowed(b)
             THEN [admitted EXCEPT ![r.id] = Append(@, now)] ELSE admitted
        /\ now' = now
    BY <1>1 DEF Limit
  <2>3. CASE c = r.id
    <3>1. buckets[c]' = Allow(buckets[c], r.role)
          /\ admitted[c]' = IF Allowed(buckets[c]) THEN Append(admitted[c], now)
                             ELSE admitted[c]
      BY <1>a, <2>1, <2>2, <2>3 DEF AccessTypeOK
    <3> QED BY <1>b, <2>2, <3>1, AllowKeeps
  <2>4. CASE c # r.id
    <3>1. buckets[c]' = buckets[c] /\ admitted[c]' = admitted[c]
      BY <1>a, <2>2, <2>4 DEF AccessTypeOK
    <3> QED BY <1>b, <2>2, <3>1
  <2> QED BY <2>3, <2>4
<1>2. ASSUME Tick
      PROVE  BucketOK(buckets[c]', admitted[c]', now')
  <2>1. buckets[c]' = Aged(buckets[c]) /\ admitted[c]' = admitted[c] /\ now' = now + 1
    BY <1>2 DEF Tick
  <2> QED BY <1>b, <2>1, AgedKeeps
<1>3. CASE UNCHANGED <<now, buckets, admitted>>
  BY <1>3, <1>b
<1> QED BY <1>1, <1>2, <1>3
      DEF AccessNext, accessVars, CreateToken, CreateAPIKey, RevokeAPIKey,
          PresentToken, PresentKey, CheckRole

\* In no period as long as a window is a client admitted more than twice its
\* limit (RateLimiter.Allow), whatever its requests, its roles and the order in
\* which they take the limiter's lock.
THEOREM BurstBounded == AccessSpec => []BurstBound
<1>1. LimitInv => BurstBound
  BY BucketBounds DEF BurstBound
<1> QED BY LimitInvInit, LimitInvStep, <1>1, PTL DEF AccessSpec

\* No request that goes on past authentication came after its key was revoked.
RevokedInv ==
    \A s \in Slot : ~ slots[s].atArrival

\* A request that comes after its key was revoked is not served, however many
\* requests, revocations and roles interleave (VerifyAPIKey under the store's lock).
THEOREM RevokedNeverServed == AccessSpec => []RevokedStaysOut
<1>1. AccessInit => RevokedInv
  <2> SUFFICES ASSUME AccessInit, NEW s \in Slot PROVE ~ slots[s].atArrival
    BY DEF RevokedInv
  <2>1. slots[s] = Ended(0)
    BY DEF AccessInit
  <2>2. Ended(0).atArrival = FALSE
    BY DEF Ended
  <2> QED BY <2>1, <2>2, Zenon
<1>2. LimitInv /\ RevokedInv /\ [AccessNext]_accessVars => RevokedInv'
  <2> SUFFICES ASSUME LimitInv, RevokedInv, [AccessNext]_accessVars,
                      NEW s \in Slot
               PROVE  ~ slots'[s].atArrival
    BY DEF RevokedInv
  <2>a. slots \in [Slot -> Request] /\ ~ slots[s].atArrival
    BY DEF LimitInv, AccessTypeOK, SlotsOK, RevokedInv
  <2>1. ASSUME NEW o \in Slot, NEW needs \in Needs, NEW t \in tokens \cup {BadToken},
               PresentToken(o, t, needs)
        PROVE  ~ slots'[s].atArrival
    BY <2>1, <2>a DEF PresentToken, Arrives, Ended
  <2>2. ASSUME NEW o \in Slot, NEW needs \in Needs, NEW k \in KeyId,
               PresentKey(o, k, needs)
        PROVE  ~ slots'[s].atArrival
    <3>1. CASE VerifyAPIKey(k)
      BY <2>2, <2>a, <3>1 DEF PresentKey, Arrives, VerifyAPIKey
    <3>2. CASE ~ VerifyAPIKey(k)
      BY <2>2, <2>a, <3>2 DEF PresentKey, Arrives, Ended
    <3> QED BY <3>1, <3>2
  <2>3. ASSUME NEW o \in Slot, Limit(o)
        PROVE  ~ slots'[s].atArrival
    BY <2>3, <2>a, ZenonT(40) DEF Limit, Ended, Request
  <2>4. ASSUME NEW o \in Slot, CheckRole(o)
        PROVE  ~ slots'[s].atArrival
    <3>1. ~ slots[o].atArrival
      BY DEF RevokedInv
    <3> QED BY <2>4, <2>a, <3>1 DEF CheckRole, Ended
  <2>5. CASE UNCHANGED slots
    BY <2>5, <2>a
  <2> QED BY <2>1, <2>2, <2>3, <2>4, <2>5
       DEF AccessNext, accessVars, CreateToken, CreateAPIKey, RevokeAPIKey, Tick
<1>3. RevokedInv => RevokedStaysOut
  BY DEF RevokedInv, RevokedStaysOut
<1> QED BY LimitInvInit, LimitInvStep, <1>1, <1>2, <1>3, PTL DEF AccessSpec

-----------------------------------------------------------------------------
(* Calls between the services.  Until the handler has answered nothing has   *)
(* run; what the answer says of the run is true, and reaches the client      *)
(* unchanged or not at all.                                                  *)

Code == {"", "OK", "Internal"} \cup Refusals

Call == [wired : Linked \cup {BadToken},
         msg : SUBSET UNION {w.sends \cup w.may : w \in Linked},
         token : {BadToken} \cup [sub : {w.client : w \in Linked},
                                 role : {w.role : w \in Linked}, exp : Nat],
         client : Code \cup {"idle", "waiting", "DeadlineExceeded"},
         server : {"idle", "queued", "admitted", "answered", "done"},
         code : Code,
         out : {NoFields} \cup {Service[w.server][w.method].out \ {"error"} : w \in Linked},
         ran : Nat]

\* By where the call is: how often it ran, and what its client was told.
RanOK(r) ==
    /\ r.ran <= 1
    /\ r.server \in {"idle", "queued", "admitted"} => r.ran = 0
    /\ r.server = "idle" => r.client = "idle"
    /\ r.server \in {"queued", "admitted", "answered"} =>
         r.client \in {"waiting", "DeadlineExceeded"}
    /\ r.server = "answered" => /\ r.code = "OK" => r.ran = 1
                                /\ r.code \in Refusals => r.ran = 0
    /\ r.client = "OK" => r.ran = 1
    /\ r.client \in Refusals => r.ran = 0

\* Until it is handled a call is one of those that are made.
WiredOK(r) == r.server \in {"queued", "admitted"} => r.wired \in Linked

CallsInv ==
    /\ rpcNow \in Nat
    /\ calls \in [CallSlot -> Call]
    /\ \A c \in CallSlot : RanOK(calls[c]) /\ WiredOK(calls[c])

\* One call changes.
LEMMA CallStep ==
    ASSUME CallsInv, NEW c \in CallSlot, NEW r \in Call, RanOK(r), WiredOK(r),
           calls' = [calls EXCEPT ![c] = r], rpcNow' \in Nat
    PROVE  CallsInv'
  BY DEF CallsInv

\* Initially no call was made.
LEMMA CallsInvInit == RpcInit => CallsInv
<1> SUFFICES ASSUME RpcInit PROVE CallsInv
  OBVIOUS
<1>1. NoCall \in Call /\ RanOK(NoCall) /\ WiredOK(NoCall)
  BY DEF NoCall, Call, RanOK, WiredOK, Code, Refusals, NoFields
<1> QED BY <1>1 DEF RpcInit, CallsInv

\* Invoke: a fresh call with its stub's role and fields.
LEMMA InvokeStep ==
    ASSUME CallsInv, NEW c \in CallSlot, NEW w \in Linked,
           NEW extra \in {NoFields, w.may}, Invoke(c, w, extra)
    PROVE  CallsInv'
<1> DEFINE t == IssueToken(w.client, w.role, rpcNow)
           r == [wired |-> w, msg |-> w.sends \cup extra, token |-> t,
                 client |-> "waiting", server |-> "queued", code |-> "",
                 out |-> NoFields, ran |-> 0]
<1>1. rpcNow \in Nat /\ rpcNow + TokenLife \in Nat
  BY CredentialConstants DEF CallsInv
<1>2. t \in {BadToken} \cup [sub : {v.client : v \in Linked},
                            role : {v.role : v \in Linked}, exp : Nat]
  <2>1. w.client \in {v.client : v \in Linked} /\ w.role \in {v.role : v \in Linked}
    OBVIOUS
  <2> QED BY <1>1, <2>1 DEF IssueToken
<1>3. calls' = [calls EXCEPT ![c] = r] /\ rpcNow' = rpcNow
  BY DEF Invoke
<1> HIDE DEF t
<1>4. w.sends \cup extra \in SUBSET UNION {v.sends \cup v.may : v \in Linked}
  BY DEF NoFields
<1>5. r \in Call
  BY <1>2, <1>4 DEF Call, Code
<1>6. /\ r.wired = w /\ r.msg = w.sends \cup extra /\ r.token = t
      /\ r.client = "waiting" /\ r.server = "queued" /\ r.code = "" /\ r.ran = 0
  OBVIOUS
<1> HIDE DEF r
<1>7. RanOK(r)
  <2> r.client = "waiting" /\ r.server = "queued" /\ r.ran = 0
    BY <1>6
  <2> HIDE <1>6
  <2> QED BY DEF RanOK, Refusals
<1>8. WiredOK(r)
  BY <1>6 DEF WiredOK
<1> QED BY <1>1, <1>3, <1>5, <1>7, <1>8, CallStep

\* The call as it is after a change of its server, code, out and ran.
Moved(r, server, code, out, ran) ==
    [r EXCEPT !.server = server, !.code = code, !.out = out, !.ran = ran]

\* What such a change leaves, and what it sets.
LEMMA MovedFields ==
    ASSUME NEW r \in Call, NEW server, NEW code, NEW out, NEW ran
    PROVE  LET n == Moved(r, server, code, out, ran) IN
           /\ n.wired = r.wired /\ n.msg = r.msg /\ n.token = r.token
           /\ n.client = r.client /\ n.server = server /\ n.code = code
           /\ n.out = out /\ n.ran = ran
  BY DEF Call, Moved

\* It leaves a call.
LEMMA MovedType ==
    ASSUME NEW r \in Call,
           NEW server \in {"idle", "queued", "admitted", "answered", "done"},
           NEW code \in Code, NEW ran \in Nat,
           NEW out \in {NoFields} \cup {Service[w.server][w.method].out \ {"error"} : w \in Linked}
    PROVE  Moved(r, server, code, out, ran) \in Call
  BY DEF Call, Moved

\* An answer to a call that was not answered yet, and says what is true of it.
LEMMA AnswerStep ==
    ASSUME CallsInv, NEW c \in CallSlot, calls[c].server \in {"queued", "admitted"},
           NEW code \in Code, NEW ran \in {0, 1},
           NEW out \in {NoFields} \cup {Service[w.server][w.method].out \ {"error"} : w \in Linked},
           code = "OK" => ran = 1, code \in Refusals => ran = 0,
           Answers(c, code, out, ran), rpcNow' = rpcNow
    PROVE  CallsInv'
<1> DEFINE r == calls[c]  n == Moved(r, "answered", code, out, ran)
<1>1. r \in Call /\ RanOK(r) /\ WiredOK(r) /\ calls \in [CallSlot -> Call] /\ rpcNow \in Nat
  BY DEF CallsInv
<1>2. r.ran = 0 /\ r.client \in {"waiting", "DeadlineExceeded"}
  BY <1>1 DEF RanOK
<1>3. calls' = [calls EXCEPT ![c] = n]
  <2>1. r.ran + ran = ran
    BY <1>2
  <2>2. calls' = [calls EXCEPT ![c] = [r EXCEPT !.server = "answered", !.code = code,
                                                !.out = out, !.ran = r.ran + ran]]
    BY DEF Answers
  <2> QED BY <2>1, <2>2 DEF Moved
<1>4. n \in Call
  BY <1>1, MovedType
<1>5. /\ n.wired = r.wired /\ n.client = r.client /\ n.server = "answered"
      /\ n.code = code /\ n.ran = ran
  BY <1>1, MovedFields
<1> HIDE DEF n, r
<1>6. RanOK(n)
  BY <1>2, <1>5 DEF RanOK, Refusals
<1>7. WiredOK(n)
  BY <1>5 DEF WiredOK
<1> QED BY <1>1, <1>3, <1>4, <1>6, <1>7, CallStep

\* UnaryServerInterceptor refuses the call, or lets it through to its handler.
LEMMA InterceptStep ==
    ASSUME CallsInv, NEW c \in CallSlot, Intercept(c)
    PROVE  CallsInv'
<1> DEFINE r == calls[c]  n == Moved(r, "admitted", r.code, r.out, r.ran)
<1>1. r \in Call /\ RanOK(r) /\ WiredOK(r) /\ calls \in [CallSlot -> Call]
      /\ rpcNow \in Nat /\ r.server = "queued" /\ rpcNow' = rpcNow
  BY DEF CallsInv, Intercept
<1>2. r.wired \in Linked
  BY <1>1 DEF WiredOK
<1>4. \/ Answers(c, "Unauthenticated", NoFields, 0)
      \/ Answers(c, "ResourceExhausted", NoFields, 0)
      \/ Answers(c, "PermissionDenied", NoFields, 0)
      \/ calls' = [calls EXCEPT ![c].server = "admitted"]
  BY DEF Intercept
<1>5. ASSUME NEW code \in {"Unauthenticated", "ResourceExhausted", "PermissionDenied"},
             Answers(c, code, NoFields, 0)
      PROVE  CallsInv'
  <2>1. code \in Code /\ code # "OK"
    BY ZenonT(40) DEF Code, Refusals
  <2> QED BY <1>1, <1>5, <2>1, AnswerStep
<1>6. CASE calls' = [calls EXCEPT ![c].server = "admitted"]
  <2>1. calls' = [calls EXCEPT ![c] = n]
    BY <1>1, <1>6 DEF Moved, Call
  <2>2. n \in Call
    BY <1>1, MovedType DEF Call
  <2>3. /\ n.wired = r.wired /\ n.client = r.client /\ n.server = "admitted"
        /\ n.code = r.code /\ n.ran = r.ran /\ n.msg = r.msg /\ n.token = r.token
    BY <1>1, MovedFields
  <2> HIDE DEF n, r
  <2>4. RanOK(n)
    BY <1>1, <2>3 DEF RanOK
  <2>5. WiredOK(n)
    BY <1>1, <1>2, <2>3 DEF WiredOK
  <2> QED BY <1>1, <2>1, <2>2, <2>4, <2>5, CallStep
<1> QED BY <1>4, <1>5, <1>6

\* The generated handler refuses the call, or answers what its service did.
LEMMA HandleStep ==
    ASSUME CallsInv, NEW c \in CallSlot, Handle(c)
    PROVE  CallsInv'
<1> DEFINE r == calls[c]  w == r.wired
<1>1. r \in Call /\ RanOK(r) /\ WiredOK(r) /\ r.server = "admitted" /\ rpcNow' = rpcNow
  BY DEF CallsInv, Handle
<1>2. w \in Linked
  BY <1>1 DEF WiredOK
<1>4. \/ Answers(c, "InvalidArgument", NoFields, 0)
      \/ Answers(c, "Unimplemented", NoFields, 0)
      \/ Answers(c, "OK", Service[w.server][w.method].out \ {"error"}, 1)
      \/ \E did \in {0, 1} : Answers(c, "Internal", NoFields, did)
  BY DEF Handle
<1>5. ASSUME NEW code \in {"InvalidArgument", "Unimplemented"},
             Answers(c, code, NoFields, 0)
      PROVE  CallsInv'
  <2>1. code \in Code /\ code # "OK"
    BY ZenonT(40) DEF Code, Refusals
  <2> QED BY <1>1, <1>5, <2>1, AnswerStep
<1>6. CASE Answers(c, "OK", Service[w.server][w.method].out \ {"error"}, 1)
  <2>1. "OK" \in Code /\ "OK" \notin Refusals
        /\ Service[w.server][w.method].out \ {"error"} \in
             {NoFields} \cup {Service[v.server][v.method].out \ {"error"} : v \in Linked}
    BY <1>2 DEF Code, Refusals
  <2> QED BY <1>1, <1>6, <2>1, AnswerStep, ZenonT(40)
<1>7. ASSUME NEW did \in {0, 1}, Answers(c, "Internal", NoFields, did)
      PROVE  CallsInv'
  <2>1. "Internal" \in Code /\ "Internal" \notin Refusals
    BY DEF Code, Refusals
  <2> QED BY <1>1, <1>7, <2>1, AnswerStep
<1> QED BY <1>4, <1>5, <1>6, <1>7

\* Return, GiveUp and Drop change what the client or the server is at.
LEMMA AwayStep ==
    ASSUME CallsInv, NEW c \in CallSlot, Return(c) \/ GiveUp(c) \/ Drop(c)
    PROVE  CallsInv'
<1> DEFINE r == calls[c]
<1>1. r \in Call /\ RanOK(r) /\ WiredOK(r) /\ calls \in [CallSlot -> Call]
      /\ rpcNow \in Nat /\ rpcNow' = rpcNow
  BY DEF CallsInv, Return, GiveUp, Drop
<1>2. ASSUME NEW n, n \in Call, n.wired = r.wired, n.msg = r.msg, n.token = r.token,
             n.code = r.code, n.ran = r.ran, n.server \in {r.server, "done"}
      PROVE  WiredOK(n)
  BY <1>1, <1>2 DEF WiredOK
<1>3. CASE Return(c)
  <2> DEFINE n == [r EXCEPT !.server = "done", !.client = r.code]
  <2>1. calls' = [calls EXCEPT ![c] = n]
    BY <1>1, <1>3 DEF Return, Call
  <2>2. n \in Call
    BY <1>1 DEF Call
  <2>3. /\ n.wired = r.wired /\ n.msg = r.msg /\ n.token = r.token /\ n.code = r.code
        /\ n.ran = r.ran /\ n.server = "done" /\ n.client = r.code
    BY <1>1 DEF Call
  <2>4. r.server = "answered"
    BY <1>3 DEF Return
  <2> HIDE DEF n, r
  <2>5. RanOK(n)
    BY <1>1, <2>3, <2>4 DEF RanOK
  <2> QED BY <1>1, <1>2, <2>1, <2>2, <2>3, <2>5, CallStep
<1>4. CASE GiveUp(c)
  <2> DEFINE n == [r EXCEPT !.client = "DeadlineExceeded"]
  <2>1. calls' = [calls EXCEPT ![c] = n]
    BY <1>1, <1>4 DEF GiveUp, Call
  <2>2. n \in Call
    BY <1>1 DEF Call
  <2>3. /\ n.wired = r.wired /\ n.msg = r.msg /\ n.token = r.token /\ n.code = r.code
        /\ n.ran = r.ran /\ n.server = r.server /\ n.client = "DeadlineExceeded"
    BY <1>1 DEF Call
  <2>4. r.client = "waiting"
    BY <1>4 DEF GiveUp
  <2> HIDE DEF n, r
  <2>5. RanOK(n)
    BY <1>1, <2>3, <2>4 DEF RanOK, Refusals
  <2> QED BY <1>1, <1>2, <2>1, <2>2, <2>3, <2>5, CallStep
<1>5. CASE Drop(c)
  <2> DEFINE n == [r EXCEPT !.server = "done"]
  <2>1. calls' = [calls EXCEPT ![c] = n]
    BY <1>1, <1>5 DEF Drop, Call
  <2>2. n \in Call
    BY <1>1 DEF Call
  <2>3. /\ n.wired = r.wired /\ n.msg = r.msg /\ n.token = r.token /\ n.code = r.code
        /\ n.ran = r.ran /\ n.server = "done" /\ n.client = r.client
    BY <1>1 DEF Call
  <2> HIDE DEF n, r
  <2>4. RanOK(n)
    BY <1>1, <2>3 DEF RanOK
  <2> QED BY <1>1, <1>2, <2>1, <2>2, <2>3, <2>4, CallStep
<1> QED BY <1>3, <1>4, <1>5

\* The invariant of the calls is kept by every step, and holds throughout.
LEMMA CallsInvStep == CallsInv /\ [RpcNext]_rpcVars => CallsInv'
<1> SUFFICES ASSUME CallsInv, [RpcNext]_rpcVars PROVE CallsInv'
  OBVIOUS
<1>1. CASE RpcTick
  BY <1>1 DEF RpcTick, CallsInv
<1>2. CASE UNCHANGED rpcVars
  BY <1>2 DEF rpcVars, CallsInv
<1> QED BY <1>1, <1>2, InvokeStep, InterceptStep, HandleStep, AwayStep DEF RpcNext

\* A caller that is told OK had its call run, exactly once; a caller that is
\* refused had nothing run, and nothing will, whatever is lost, late or given
\* up (the stubs, the interceptors and the network together).
THEOREM AnswersAreTrue == RpcSpec => []AnswersTrue
<1>1. CallsInv => AnswersTrue
  <2> SUFFICES ASSUME CallsInv, NEW c \in CallSlot
               PROVE  /\ calls[c].client = "OK" => calls[c].ran = 1
                      /\ calls[c].client \in Refusals =>
                           calls[c].ran = 0 /\ calls[c].server = "done"
                      /\ calls[c].ran <= 1
    BY DEF AnswersTrue
  <2>1. RanOK(calls[c]) /\ calls[c] \in Call
    BY DEF CallsInv
  <2>2. calls[c].client \in Refusals => calls[c].server = "done"
    BY <2>1 DEF RanOK, Call, Refusals
  <2> QED BY <2>1, <2>2 DEF RanOK
<1> QED BY CallsInvInit, CallsInvStep, <1>1, PTL DEF RpcSpec

-----------------------------------------------------------------------------
(* The gateway.  Creates only count; the search needs to know, of every      *)
(* acknowledged vector of a placed database, that the endpoint has it, and   *)
(* of every request whose endpoint did not change, that it is going there.   *)

TallyInv == tally \in [accepted : Nat, failed : Nat, made : Nat] /\ RowsAccounted

\* Every row is a 202's or, at most one each, a 500's, after any number of
\* creates, retries and lost answers (handleCreateDatabase calls once).
THEOREM RowsAlwaysAccounted == EdgeSpec => []RowsAccounted
<1>1. EdgeInit => TallyInv
  BY DEF EdgeInit, TallyInv, RowsAccounted
<1>2. TallyInv /\ [EdgeNext]_edgeVars => TallyInv'
  <2> SUFFICES ASSUME TallyInv, [EdgeNext]_edgeVars PROVE TallyInv'
    OBVIOUS
  <2>1. ASSUME NEW c \in Client, RegisterRecord(c) PROVE TallyInv'
    <3>a. tally \in [accepted : Nat, failed : Nat, made : Nat] /\ RowsAccounted
      BY DEF TallyInv
    <3>1. ASSUME NEW x \in {0, 1},
                 tally' = [made |-> tally.made + 1, accepted |-> tally.accepted + x,
                           failed |-> tally.failed + (1 - x)]
          PROVE  TallyInv'
      <4>1. /\ tally'.made = tally.made + 1 /\ tally'.accepted = tally.accepted + x
            /\ tally'.failed = tally.failed + (1 - x)
            /\ tally' \in [accepted : Nat, failed : Nat, made : Nat]
        BY <3>a, <3>1
      <4> QED BY <3>a, <4>1 DEF TallyInv, RowsAccounted
    <3>2. ASSUME NEW told \in BOOLEAN,
                 tally' = [made |-> tally.made + 1,
                           accepted |-> tally.accepted + (IF told THEN 1 ELSE 0),
                           failed |-> tally.failed + (IF told THEN 0 ELSE 1)]
          PROVE  TallyInv'
      BY <3>1, <3>2
    <3>3. CASE tally' = [tally EXCEPT !.failed = tally.failed + 1]
      BY <3>a, <3>3 DEF TallyInv, RowsAccounted
    <3>4. \/ \E told \in BOOLEAN :
                tally' = [made |-> tally.made + 1,
                          accepted |-> tally.accepted + (IF told THEN 1 ELSE 0),
                          failed |-> tally.failed + (IF told THEN 0 ELSE 1)]
          \/ tally' = [tally EXCEPT !.failed = tally.failed + 1]
      BY <2>1, ZenonT(40) DEF RegisterRecord
    <3>5. CASE \E told \in BOOLEAN :
                tally' = [made |-> tally.made + 1,
                          accepted |-> tally.accepted + (IF told THEN 1 ELSE 0),
                          failed |-> tally.failed + (IF told THEN 0 ELSE 1)]
      <4>1. PICK told \in BOOLEAN :
                tally' = [made |-> tally.made + 1,
                          accepted |-> tally.accepted + (IF told THEN 1 ELSE 0),
                          failed |-> tally.failed + (IF told THEN 0 ELSE 1)]
        BY <3>5
      <4> QED BY <3>2, <4>1, Zenon
    <3> QED BY <3>3, <3>4, <3>5, Zenon
  <2>2. CASE UNCHANGED tally
    BY <2>2 DEF TallyInv, RowsAccounted
  <2>3. ASSUME NEW c \in Client, NEW p \in Role \cup {""},
               \/ \E route \in DOMAIN Routes : Refuse(c, p, route)
               \/ \E route \in DOMAIN FixedAnswer : Reports(c, p, route)
               \/ ListDatabases(c, p) \/ ListRegions(c, p)
               \/ \E hint \in EdgeHint, named \in BOOLEAN : CreateDatabase(c, p, named, hint)
               \/ \E d \in EdgeDb : GetDatabase(c, p, d) \/ DeleteDatabase(c, p, d)
               \/ \E route \in {"insertVector", "searchVector"} :
                    \/ \E d \in EdgeDb \cup {DefaultDb}, v \in EdgeVec :
                         ResolveWorker(c, p, route, d, v)
                    \/ BadVector(c, p, route)
        PROVE  UNCHANGED tally
    <3>1. ASSUME NEW hint, NEW named, CreateDatabase(c, p, named, hint)
          PROVE  UNCHANGED tally
      BY <3>1, Zenon DEF CreateDatabase
    <3> QED BY <2>3, <3>1, ZenonT(40) DEF Refuse, Reports, ListDatabases, ListRegions, GetDatabase,
                              DeleteDatabase, ResolveWorker, BadVector
  <2>4. ASSUME NEW c \in Client, ListNodes(c) \/ InsertVector(c) \/ SearchVector(c)
        PROVE  UNCHANGED tally
    BY <2>4 DEF ListNodes, InsertVector, SearchVector
  <2>5. ASSUME \/ \E i \in 1..Len(EdgeNode), s \in EdgeStatus : NodeTurns(i, s)
               \/ \E d \in EdgeDb, w \in EdgeWorker : EndpointSet(d, w)
               \/ \E w \in EdgeWorker : WorkerRestarts(w)
               \/ UNCHANGED edgeVars
        PROVE  UNCHANGED tally
    BY <2>5 DEF NodeTurns, EndpointSet, WorkerRestarts, edgeVars
  <2> QED BY <2>1, <2>2, <2>3, <2>4, <2>5 DEF EdgeNext
<1>3. TallyInv => RowsAccounted
  BY DEF TallyInv
<1> QED BY <1>1, <1>2, <1>3, PTL DEF EdgeSpec

Vectors == (EdgeDb \cup {DefaultDb}) \X EdgeVec

\* A request that is going to a worker.
Pending == [at : {"insertVector", "searchVector"}, db : EdgeDb \cup {DefaultDb},
            vec : EdgeVec, addr : EdgeWorker \cup {WorkersService},
            settled : BOOLEAN, must : SUBSET Vectors]

GatewayTypeOK ==
    /\ rows \in [EdgeDb -> EdgeWorker \cup {NoRow, Gone, Unset}]
    /\ memory \in [EdgeWorker -> SUBSET Vectors]
    /\ acked \subseteq EdgeDb \X EdgeVec
    /\ req = [c \in Client |-> req[c]]

\* What a worker's endpoint has of a database's acknowledged vectors.
AckedOK == \A a \in acked : Placed(a[1]) => a \in memory[rows[a[1]]]

\* Nothing happened to the endpoint a settled request is going to, except
\* that its database may be gone.
SettledOK(r) ==
    r.settled =>
      /\ r.db \in EdgeDb /\ r.addr \in EdgeWorker
      /\ Placed(r.db) => rows[r.db] = r.addr
      /\ r.must \subseteq memory[r.addr]
      /\ \A a \in r.must : a[1] = r.db

RequestOK(r) ==
    /\ r.at \in {"insertVector", "searchVector"} => r \in Pending /\ SettledOK(r)
    /\ r.at = "answered" /\ "results" \in DOMAIN r => r.must \subseteq r.results

SearchInv ==
    /\ GatewayTypeOK
    /\ AckedOK
    /\ \A c \in Client : RequestOK(req[c])

\* A step that only ends or begins a request, without a worker.
LEMMA PlainStep ==
    ASSUME SearchInv, NEW c \in Client, NEW r,
           r.at \notin {"insertVector", "searchVector"}, "results" \notin DOMAIN r,
           req' = [req EXCEPT ![c] = r], UNCHANGED <<rows, memory, acked>>
    PROVE  SearchInv'
<1>1. GatewayTypeOK' /\ AckedOK'
  BY DEF SearchInv, GatewayTypeOK, AckedOK, Placed
<1>2. ASSUME NEW d \in Client PROVE RequestOK(req[d])'
  <2>1. CASE d = c
    <3> req'[d] = r
      BY <2>1 DEF SearchInv, GatewayTypeOK
    <3> QED BY DEF RequestOK
  <2>2. CASE d # c
    <3>1. req'[d] = req[d] /\ RequestOK(req[d])
      BY <2>2 DEF SearchInv, GatewayTypeOK
    <3> QED BY <3>1 DEF RequestOK, SettledOK, Placed
  <2> QED BY <2>1, <2>2
<1> QED BY <1>1, <1>2 DEF SearchInv

\* A request whose answer has no results is answered.
LEMMA AnswerPlain ==
    ASSUME NEW code
    PROVE  /\ Answer(code).at \notin {"insertVector", "searchVector"}
           /\ "results" \notin DOMAIN Answer(code)
  BY DEF Answer

\* The requests that do without a worker.
LEMMA PlainRequests ==
    ASSUME SearchInv, NEW c \in Client,
           \/ \E p \in Role \cup {""} :
                \/ \E route \in DOMAIN Routes : Refuse(c, p, route)
                \/ \E route \in DOMAIN FixedAnswer : Reports(c, p, route)
                \/ ListDatabases(c, p) \/ ListRegions(c, p)
                \/ \E d \in EdgeDb : GetDatabase(c, p, d)
                \/ \E route \in {"insertVector", "searchVector"} : BadVector(c, p, route)
           \/ ListNodes(c)
    PROVE  SearchInv'
<1>1. /\ \E code : req' = [req EXCEPT ![c] = Answer(code)]
      /\ UNCHANGED <<rows, memory, acked>>
  <2>1. CASE \E p \in Role \cup {""}, route \in DOMAIN Routes : Refuse(c, p, route)
    BY <2>1, ZenonT(40) DEF Refuse
  <2>2. CASE \E p \in Role \cup {""}, route \in DOMAIN FixedAnswer : Reports(c, p, route)
    BY <2>2 DEF Reports
  <2>3. CASE \E p \in Role \cup {""} : ListDatabases(c, p) \/ ListRegions(c, p)
    BY <2>3, ZenonT(40) DEF ListDatabases, ListRegions
  <2>4. CASE \E p \in Role \cup {""}, d \in EdgeDb : GetDatabase(c, p, d)
    BY <2>4, ZenonT(40) DEF GetDatabase
  <2>5. CASE \E p \in Role \cup {""}, route \in {"insertVector", "searchVector"} :
                 BadVector(c, p, route)
    BY <2>5 DEF BadVector
  <2>6. CASE ListNodes(c)
    BY <2>6, ZenonT(40) DEF ListNodes
  <2> QED BY <2>1, <2>2, <2>3, <2>4, <2>5, <2>6
<1> QED BY <1>1, PlainStep, AnswerPlain

\* A create, until its record is asked for.
LEMMA CreateStep ==
    ASSUME SearchInv, NEW c \in Client, NEW p, NEW named \in BOOLEAN, NEW hint,
           CreateDatabase(c, p, named, hint)
    PROVE  SearchInv'
<1>1. /\ \/ \E code : req' = [req EXCEPT ![c] = Answer(code)]
         \/ \E route, down :
              req' = [req EXCEPT ![c] = [at |-> "record", route |-> route, wasDown |-> down]]
      /\ UNCHANGED <<rows, memory, acked>>
  <2>1. PICK nodes \in {EdgeFleet, <<>>} :
          LET r == SelectRegion(hint, HealthBy(nodes, NamedRegion))
              shown == HealthBy(EdgeFleet, ReportedRegion)
          IN req' = [req EXCEPT ![c] =
              IF ~ named THEN Answer(400)
              ELSE IF r = NoRoute THEN Answer(503)
              ELSE [at |-> "record", route |-> r,
                    wasDown |-> ~ Live(shown[Home(r.preferred)])]]
    BY DEF CreateDatabase
  <2> DEFINE r == SelectRegion(hint, HealthBy(nodes, NamedRegion))
             down == ~ Live(HealthBy(EdgeFleet, ReportedRegion)[Home(r.preferred)])
  <2>2. \/ req' = [req EXCEPT ![c] = Answer(400)]
        \/ req' = [req EXCEPT ![c] = Answer(503)]
        \/ req' = [req EXCEPT ![c] = [at |-> "record", route |-> r, wasDown |-> down]]
    BY <2>1, ZenonT(40)
  <2>3. UNCHANGED <<rows, memory, acked>>
    BY DEF CreateDatabase
  <2> HIDE DEF r, down
  <2> QED BY <2>2, <2>3
<1>2. ASSUME NEW route, NEW down,
             req' = [req EXCEPT ![c] = [at |-> "record", route |-> route, wasDown |-> down]]
      PROVE  SearchInv'
  <2> DEFINE r == [at |-> "record", route |-> route, wasDown |-> down]
  <2>1. r.at \notin {"insertVector", "searchVector"} /\ "results" \notin DOMAIN r
    OBVIOUS
  <2>2. req' = [req EXCEPT ![c] = r]
    BY <1>2
  <2> HIDE DEF r
  <2> QED BY <1>1, <2>1, <2>2, PlainStep
<1> QED BY <1>1, <1>2, PlainStep, AnswerPlain

\* What a request that is not the one that moves still has, when rows change
\* only where nothing was placed or nothing will be, and memory only grows.
LEMMA SettledKept ==
    ASSUME NEW r \in Pending, SettledOK(r), GatewayTypeOK,
           \A d \in EdgeDb : rows'[d] = rows[d] \/ rows'[d] \in {NoRow, Gone, Unset},
           \A w \in EdgeWorker : memory[w] \subseteq memory'[w]
    PROVE  SettledOK(r)'
  BY DEF SettledOK, Placed, Pending

\* A row that is made or that goes has no endpoint.
LEMMA RowStep ==
    ASSUME SearchInv, NEW c \in Client, NEW d \in EdgeDb, NEW x \in {Gone, Unset},
           rows' = [rows EXCEPT ![d] = x], acked' \subseteq acked,
           NEW code, req' = [req EXCEPT ![c] = Answer(code)], UNCHANGED memory
    PROVE  SearchInv'
<1>a. GatewayTypeOK
  BY DEF SearchInv
<1>1. GatewayTypeOK'
  BY <1>a DEF GatewayTypeOK
<1>2. AckedOK'
  BY <1>a DEF SearchInv, AckedOK, GatewayTypeOK, Placed
<1>3. ASSUME NEW e \in Client PROVE RequestOK(req[e])'
  <2>1. CASE e = c
    <3> req'[e] = Answer(code)
      BY <1>a, <2>1 DEF GatewayTypeOK
    <3> QED BY AnswerPlain DEF RequestOK
  <2>2. CASE e # c
    <3>1. req'[e] = req[e] /\ RequestOK(req[e])
      BY <1>a, <2>2 DEF GatewayTypeOK, SearchInv
    <3>2. \A f \in EdgeDb : rows'[f] = rows[f] \/ rows'[f] \in {NoRow, Gone, Unset}
      BY <1>a DEF GatewayTypeOK
    <3> QED BY <1>a, <3>1, <3>2, SettledKept DEF RequestOK
  <2> QED BY <2>1, <2>2
<1> QED BY <1>1, <1>2, <1>3 DEF SearchInv

\* CreateDatabaseRecord, answered or not.
LEMMA RegisterStep ==
    ASSUME SearchInv, NEW c \in Client, RegisterRecord(c)
    PROVE  SearchInv'
<1>1. /\ \E code : req' = [req EXCEPT ![c] = Answer(code)]
      /\ \/ \E d \in EdgeDb : rows' = [rows EXCEPT ![d] = Unset]
         \/ UNCHANGED rows
      /\ UNCHANGED <<memory, acked>>
  BY DEF RegisterRecord
<1> QED BY <1>1, RowStep, PlainStep, AnswerPlain

\* handleDeleteDatabase, answered or not.
LEMMA DeleteStep ==
    ASSUME SearchInv, NEW c \in Client, NEW p, NEW d \in EdgeDb, DeleteDatabase(c, p, d)
    PROVE  SearchInv'
<1>1. /\ \E code : req' = [req EXCEPT ![c] = Answer(code)]
      /\ \/ rows' = [rows EXCEPT ![d] = Gone] /\ acked' \subseteq acked
         \/ UNCHANGED <<rows, acked>>
      /\ UNCHANGED memory
  BY DEF DeleteDatabase
<1> QED BY <1>1, RowStep, PlainStep, AnswerPlain

\* resolveWorkerNodeAddr: what is settled goes to the endpoint, which has what
\* was acknowledged.
LEMMA ResolveStep ==
    ASSUME SearchInv, NEW c \in Client, NEW p, NEW route \in {"insertVector", "searchVector"},
           NEW d \in EdgeDb \cup {DefaultDb}, NEW v \in EdgeVec,
           ResolveWorker(c, p, route, d, v)
    PROVE  SearchInv'
<1>a. GatewayTypeOK /\ AckedOK /\ UNCHANGED <<rows, memory, acked>>
  BY DEF SearchInv, ResolveWorker
<1>1. PICK found \in BOOLEAN :
         req' = [req EXCEPT ![c] =
             [at |-> route, db |-> d, vec |-> v,
              addr |-> resolveWorkerNodeAddr(d, found),
              settled |-> found /\ d # DefaultDb /\ Placed(d),
              must |-> {a \in acked : a[1] = d}]]
  BY DEF ResolveWorker
<1> DEFINE settled == found /\ d # DefaultDb /\ Placed(d)
           addr == resolveWorkerNodeAddr(d, found)
           must == {a \in acked : a[1] = d}
           r == [at |-> route, db |-> d, vec |-> v, addr |-> addr, settled |-> settled,
                 must |-> must]
<1>2. settled => d \in EdgeDb /\ addr = rows[d] /\ addr \in EdgeWorker
  BY <1>a DEF resolveWorkerNodeAddr, Placed, GatewayTypeOK
<1>3. addr \in EdgeWorker \cup {WorkersService}
  BY <1>a DEF resolveWorkerNodeAddr, Placed, GatewayTypeOK
<1>4. settled \in BOOLEAN /\ must \in SUBSET Vectors
  BY <1>a DEF GatewayTypeOK, Vectors
<1>5. settled => must \subseteq memory[addr]
  BY <1>a, <1>2 DEF AckedOK, Placed
<1>6. \A a \in must : a[1] = d
  OBVIOUS
<1> HIDE DEF settled, addr, must
<1>7. r \in Pending /\ r.at # "answered"
  BY <1>3, <1>4 DEF Pending
<1>8. r.settled = settled /\ r.db = d /\ r.addr = addr /\ r.must = must
  OBVIOUS
<1>9. req' = [req EXCEPT ![c] = r]
  BY <1>1 DEF settled, addr, must
<1> HIDE DEF r
<1>10. RequestOK(req[c])'
  <2>1. req'[c] = r
    BY <1>9, <1>a DEF GatewayTypeOK
  <2>2. settled => rows'[d] = addr
    BY <1>2, <1>a
  <2> QED BY <1>2, <1>5, <1>6, <1>7, <1>8, <1>a, <2>1, <2>2 DEF RequestOK, SettledOK, Placed
<1>11. GatewayTypeOK' /\ AckedOK'
  BY <1>a, <1>9 DEF GatewayTypeOK, AckedOK, Placed
<1>12. ASSUME NEW e \in Client PROVE RequestOK(req[e])'
  <2>1. CASE e = c
    BY <1>10, <2>1
  <2>2. CASE e # c
    <3>1. req'[e] = req[e] /\ RequestOK(req[e])
      BY <1>9, <1>a, <2>2 DEF SearchInv, GatewayTypeOK
    <3> QED BY <1>a, <3>1 DEF RequestOK, SettledOK, Placed
  <2> QED BY <2>1, <2>2
<1> QED BY <1>11, <1>12 DEF SearchInv

\* handleInsertVector at the worker it reaches: memory grows, and what is newly
\* acknowledged is at the endpoint, if the database still has one.
LEMMA InsertStep ==
    ASSUME SearchInv, NEW c \in Client, InsertVector(c)
    PROVE  SearchInv'
<1>a. GatewayTypeOK /\ AckedOK /\ rows' = rows
  BY DEF SearchInv, InsertVector
<1> DEFINE r == req[c]  x == <<r.db, r.vec>>
<1>b. r \in Pending /\ SettledOK(r)
  BY DEF SearchInv, RequestOK, InsertVector
<1>c. x \in Vectors /\ (r.settled => x \in EdgeDb \X EdgeVec)
  BY <1>b DEF Pending, SettledOK, Vectors
<1>1. ASSUME NEW w \in Reached(r.addr), NEW code,
             memory' = [memory EXCEPT ![w] = @ \cup {x}],
             req' = [req EXCEPT ![c] = Answer(code)],
             acked' = acked \/ (r.settled /\ acked' = acked \cup {x})
      PROVE  SearchInv'
  <2>1. w \in EdgeWorker /\ (r.settled => w = r.addr)
    BY <1>b, <1>1, GatewayConstants DEF Reached, Pending, SettledOK
  <2>2. GatewayTypeOK'
    BY <1>a, <1>c, <1>1, <2>1 DEF GatewayTypeOK
  <2>3. \A v \in EdgeWorker : memory[v] \subseteq memory'[v]
    BY <1>a, <1>1 DEF GatewayTypeOK
  <2>4. x \in memory'[w]
    BY <1>a, <1>1, <2>1 DEF GatewayTypeOK
  <2>5. ASSUME NEW a \in acked', Placed(a[1])'
        PROVE  a \in memory'[rows'[a[1]]]
    <3>1. CASE a \in acked
      <4>1. Placed(a[1]) /\ a[1] \in EdgeDb /\ rows[a[1]] \in EdgeWorker
        BY <1>a, <2>5, <3>1 DEF GatewayTypeOK, Placed
      <4>2. a \in memory[rows[a[1]]]
        BY <1>a, <3>1, <4>1 DEF AckedOK
      <4> QED BY <1>a, <2>3, <4>1, <4>2
    <3>2. CASE a \notin acked
      <4>1. r.settled /\ a = x
        BY <1>1, <3>2, <2>5
      <4>2. a[1] = r.db /\ Placed(r.db)
        BY <1>a, <2>5, <4>1 DEF Placed
      <4>3. rows[r.db] = w
        BY <1>b, <2>1, <4>1, <4>2 DEF SettledOK
      <4> QED BY <1>a, <2>4, <4>1, <4>2, <4>3
    <3> QED BY <3>1, <3>2
  <2>6. ASSUME NEW e \in Client PROVE RequestOK(req[e])'
    <3>1. CASE e = c
      <4>1. req'[e] = Answer(code)
        BY <1>a, <1>1, <3>1 DEF GatewayTypeOK
      <4> QED BY <4>1, AnswerPlain DEF RequestOK
    <3>2. CASE e # c
      <4>1. req'[e] = req[e] /\ RequestOK(req[e])
        BY <1>a, <1>1, <3>2 DEF GatewayTypeOK, SearchInv
      <4>2. \A d \in EdgeDb : rows'[d] = rows[d]
        BY <1>a
      <4> QED BY <1>a, <2>3, <4>1, <4>2, SettledKept DEF RequestOK
    <3> QED BY <3>1, <3>2
  <2> QED BY <2>2, <2>5, <2>6 DEF SearchInv, AckedOK
<1>2. \/ \E w \in Reached(r.addr), code \in {200, 500} :
           /\ memory' = [memory EXCEPT ![w] = @ \cup {x}]
           /\ req' = [req EXCEPT ![c] = Answer(code)]
           /\ acked' = acked \/ (r.settled /\ acked' = acked \cup {x})
      \/ req' = [req EXCEPT ![c] = Answer(500)] /\ UNCHANGED <<memory, acked>>
  BY DEF InsertVector
<1> HIDE DEF r, x
<1> QED BY <1>a, <1>1, <1>2, PlainStep, AnswerPlain

\* handleSearchVector at the worker it reaches.
LEMMA SearchStep ==
    ASSUME SearchInv, NEW c \in Client, SearchVector(c)
    PROVE  SearchInv'
<1>a. GatewayTypeOK /\ AckedOK /\ UNCHANGED <<rows, memory, acked>>
  BY DEF SearchInv, SearchVector
<1> DEFINE r == req[c]
<1>b. r \in Pending /\ SettledOK(r)
  BY DEF SearchInv, RequestOK, SearchVector
<1>1. ASSUME NEW w \in Reached(r.addr),
             req' = [req EXCEPT ![c] =
                [at |-> "answered", code |-> 200,
                 results |-> {a \in memory[w] : a[1] = r.db},
                 must |-> IF r.settled THEN r.must ELSE {}]]
      PROVE  SearchInv'
  <2> DEFINE must == IF r.settled THEN r.must ELSE {}
             results == {a \in memory[w] : a[1] = r.db}
  <2>1. r.settled => w = r.addr
    BY <1>b, <1>1, GatewayConstants DEF Reached, Pending, SettledOK
  <2>2. must \subseteq results
    BY <1>b, <2>1 DEF SettledOK
  <2>3. req'[c] = [at |-> "answered", code |-> 200, results |-> results, must |-> must]
    BY <1>a, <1>1 DEF GatewayTypeOK
  <2> HIDE DEF must, results
  <2>4. req'[c].at = "answered" /\ req'[c].must = must /\ req'[c].results = results
    BY <2>3
  <2>5. GatewayTypeOK' /\ AckedOK'
    BY <1>a, <1>1, ZenonT(40) DEF GatewayTypeOK, AckedOK, Placed
  <2>6. ASSUME NEW e \in Client PROVE RequestOK(req[e])'
    <3>1. CASE e = c
      BY <2>2, <2>4, <3>1 DEF RequestOK
    <3>2. CASE e # c
      <4>1. req'[e] = req[e] /\ RequestOK(req[e])
        BY <1>a, <1>1, <3>2 DEF SearchInv, GatewayTypeOK
      <4> QED BY <1>a, <4>1 DEF RequestOK, SettledOK, Placed
    <3> QED BY <3>1, <3>2
  <2> QED BY <2>5, <2>6 DEF SearchInv
<1>2. CASE req' = [req EXCEPT ![c] = Answer(500)]
  BY <1>2, <1>a, PlainStep, AnswerPlain, ZenonT(40)
<1> QED BY <1>1, <1>2 DEF SearchVector

\* The control plane places or moves a database: nothing is claimed of it any
\* more, by acknowledgements or by requests under way.
LEMMA EndpointStep ==
    ASSUME SearchInv, NEW d \in EdgeDb, NEW w \in EdgeWorker, EndpointSet(d, w)
    PROVE  SearchInv'
<1>a. /\ GatewayTypeOK /\ AckedOK
      /\ rows' = [rows EXCEPT ![d] = w] /\ memory' = memory
      /\ acked' = {a \in acked : a[1] # d}
      /\ req' = [c \in Client |->
              IF req[c].at \in {"insertVector", "searchVector"} /\ req[c].db = d
              THEN [req[c] EXCEPT !.settled = FALSE] ELSE req[c]]
  BY DEF SearchInv, EndpointSet, Unsettle
<1>1. GatewayTypeOK'
  BY <1>a DEF GatewayTypeOK
<1>2. AckedOK'
  BY <1>a DEF AckedOK, GatewayTypeOK, Placed
<1>3. ASSUME NEW c \in Client PROVE RequestOK(req[c])'
  <2> DEFINE r == req[c]  hit == r.db = d
  <2>1. RequestOK(r) /\ hit \in BOOLEAN
    BY DEF SearchInv
  <2>2. req'[c] = IF r.at \in {"insertVector", "searchVector"} /\ hit
                  THEN [r EXCEPT !.settled = FALSE] ELSE r
    BY <1>a
  <2>3. CASE ~ hit
    <3>1. req'[c] = r
      BY <2>2, <2>3
    <3>2. ASSUME r \in Pending, SettledOK(r), r.settled
          PROVE  /\ r.db \in EdgeDb /\ r.addr \in EdgeWorker
                 /\ rows'[r.db] \notin {NoRow, Gone, Unset} => rows'[r.db] = r.addr
                 /\ r.must \subseteq memory'[r.addr]
                 /\ \A a \in r.must : a[1] = r.db
      BY <1>a, <2>3, <3>2 DEF GatewayTypeOK, SettledOK, Placed
    <3> QED BY <2>1, <3>1, <3>2 DEF RequestOK, SettledOK, Placed
  <2>4. CASE hit
    <3>1. CASE r.at \in {"insertVector", "searchVector"}
      <4>1. r \in Pending
        BY <2>1, <3>1 DEF RequestOK
      <4>2. req'[c] \in Pending /\ req'[c].at = r.at /\ req'[c].settled = FALSE
        BY <2>2, <2>4, <3>1, <4>1, ZenonT(40) DEF Pending
      <4> QED BY <3>1, <4>2 DEF RequestOK, SettledOK
    <3>2. CASE r.at \notin {"insertVector", "searchVector"}
      <4>1. req'[c] = r
        BY <2>2, <3>2
      <4> QED BY <2>1, <3>2, <4>1 DEF RequestOK
    <3> QED BY <3>1, <3>2
  <2> QED BY <2>3, <2>4
<1> QED BY <1>1, <1>2, <1>3 DEF SearchInv

\* A worker comes back with nothing: neither the acknowledgements of databases
\* placed there nor the requests going there claim anything more.
LEMMA RestartStep ==
    ASSUME SearchInv, NEW w \in EdgeWorker, WorkerRestarts(w)
    PROVE  SearchInv'
<1>a. /\ GatewayTypeOK /\ AckedOK
      /\ rows' = rows /\ memory' = [memory EXCEPT ![w] = {}]
      /\ acked' = {a \in acked : rows[a[1]] # w}
      /\ req' = [c \in Client |->
              IF req[c].at \in {"insertVector", "searchVector"} /\ req[c].addr = w
              THEN [req[c] EXCEPT !.settled = FALSE] ELSE req[c]]
  BY DEF SearchInv, WorkerRestarts, Unsettle
<1>1. GatewayTypeOK'
  BY <1>a DEF GatewayTypeOK
<1>2. AckedOK'
  BY <1>a DEF AckedOK, GatewayTypeOK, Placed
<1>3. ASSUME NEW c \in Client PROVE RequestOK(req[c])'
  <2> DEFINE r == req[c]
  <2>1. RequestOK(r)
    BY DEF SearchInv
  <2>2. req'[c] = IF r.at \in {"insertVector", "searchVector"} /\ r.addr = w
                  THEN [r EXCEPT !.settled = FALSE] ELSE r
    BY <1>a
  <2>3. CASE r.addr # w
    <3>1. req'[c] = r
      BY <2>2, <2>3
    <3>2. ASSUME r \in Pending, SettledOK(r), r.settled
          PROVE  /\ r.db \in EdgeDb /\ r.addr \in EdgeWorker
                 /\ rows'[r.db] \notin {NoRow, Gone, Unset} => rows'[r.db] = r.addr
                 /\ r.must \subseteq memory'[r.addr]
                 /\ \A a \in r.must : a[1] = r.db
      BY <1>a, <2>3, <3>2 DEF GatewayTypeOK, SettledOK, Placed
    <3> QED BY <2>1, <3>1, <3>2 DEF RequestOK, SettledOK, Placed
  <2>4. CASE r.addr = w
    <3>1. CASE r.at \in {"insertVector", "searchVector"}
      <4>1. r \in Pending
        BY <2>1, <3>1 DEF RequestOK
      <4>2. req'[c] \in Pending /\ req'[c].at = r.at /\ req'[c].settled = FALSE
        BY <2>2, <2>4, <3>1, <4>1, ZenonT(40) DEF Pending
      <4> QED BY <3>1, <4>2 DEF RequestOK, SettledOK
    <3>2. CASE r.at \notin {"insertVector", "searchVector"}
      <4>1. req'[c] = r
        BY <2>2, <3>2
      <4> QED BY <2>1, <3>2, <4>1 DEF RequestOK
    <3> QED BY <3>1, <3>2
  <2> QED BY <2>3, <2>4
<1> QED BY <1>1, <1>2, <1>3 DEF SearchInv

\* Initially nothing is stored or asked.
LEMMA SearchInvInit == EdgeInit => SearchInv
<1> SUFFICES ASSUME EdgeInit PROVE SearchInv
  OBVIOUS
<1>1. GatewayTypeOK /\ AckedOK
  BY DEF EdgeInit, GatewayTypeOK, AckedOK
<1>2. ASSUME NEW c \in Client PROVE RequestOK(req[c])
  <2>1. req[c] = Answer(0)
    BY DEF EdgeInit
  <2> QED BY <2>1, AnswerPlain DEF RequestOK
<1> QED BY <1>1, <1>2 DEF SearchInv

\* Steps of nodes, and of nobody.
LEMMA OtherStep ==
    ASSUME SearchInv,
           \/ \E i \in 1..Len(EdgeNode), s \in EdgeStatus : NodeTurns(i, s)
           \/ UNCHANGED edgeVars
    PROVE  SearchInv'
<1>1. UNCHANGED <<rows, memory, acked, req>>
  BY DEF NodeTurns, edgeVars
<1> QED BY <1>1 DEF SearchInv, GatewayTypeOK, AckedOK, RequestOK, SettledOK, Placed

\* One step of the gateway or of what is around it.
LEMMA SearchInvStep == SearchInv /\ [EdgeNext]_edgeVars => SearchInv'
<1> SUFFICES ASSUME SearchInv, [EdgeNext]_edgeVars PROVE SearchInv'
  OBVIOUS
<1>1. ASSUME NEW c \in Client, NEW p \in Role \cup {""},
             \/ \E route \in DOMAIN Routes : Refuse(c, p, route)
             \/ \E route \in DOMAIN FixedAnswer : Reports(c, p, route)
             \/ ListDatabases(c, p) \/ ListRegions(c, p)
             \/ \E hint \in EdgeHint, named \in BOOLEAN : CreateDatabase(c, p, named, hint)
             \/ \E d \in EdgeDb : GetDatabase(c, p, d) \/ DeleteDatabase(c, p, d)
             \/ \E route \in {"insertVector", "searchVector"} :
                  \/ \E d \in EdgeDb \cup {DefaultDb}, v \in EdgeVec :
                       ResolveWorker(c, p, route, d, v)
                  \/ BadVector(c, p, route)
      PROVE  SearchInv'
  BY <1>1, PlainRequests, CreateStep, DeleteStep, ResolveStep
<1>2. ASSUME NEW c \in Client,
             ListNodes(c) \/ RegisterRecord(c) \/ InsertVector(c) \/ SearchVector(c)
      PROVE  SearchInv'
  BY <1>2, PlainRequests, RegisterStep, InsertStep, SearchStep
<1> QED BY <1>1, <1>2, OtherStep, EndpointStep, RestartStep DEF EdgeNext

\* What an insert acknowledged is found by every search of the same database
\* begun later, as long as the registry answered with the database's endpoint
\* and it neither moved nor restarted (resolveWorkerNodeAddr, handleInsertVector,
\* handleSearchVector), for any number of clients, databases and workers.
THEOREM SearchAlwaysComplete == EdgeSpec => []SearchComplete
<1>1. SearchInv => SearchComplete
  BY DEF SearchInv, RequestOK, SearchComplete
<1> QED BY SearchInvInit, SearchInvStep, <1>1, PTL DEF EdgeSpec
=============================================================================

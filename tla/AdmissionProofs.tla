-------------------------- MODULE AdmissionProofs --------------------------
(***************************************************************************)
(* Proofs about the rate limiter and the registration, for every instance  *)
(* of Admission: any number of requests, any limits, windows and times.    *)
(***************************************************************************)
EXTENDS AdmissionProperties, FiniteSetTheorems, SequenceTheorems, TLAPS

(***************************************************************************)
(* The inductive invariant.                                                *)
(***************************************************************************)

Who == Clients \cup Accounts \cup {Nobody}
Buckets == [post : Posts, scope : Scopes, who : Who, window : Nat]

Tasks == {"none", "running", "allow", "deny", "failed"}
Places == {"idle", "arrived", "admitted", "asking", "allowed", "creating", "telling",
           "preparing"}
RequestRows == [at : Places, post : Posts, client : Clients \cup {Nobody},
                account : Accounts \cup {Nobody}, now : Nat, until : Nat, closed : Nat,
                task : Tasks]
AccountRows(codes) == [status : {"free", "pending", "active", "gone"}, made : Nat, link : Nat,
                       secret : BOOLEAN, codes : {codes}]

Counts(f) == DOMAIN f \subseteq Buckets /\ \A k \in DOMAIN f : f[k] \in Nat

\* The types the proofs need
AccountsTyped ==
  /\ account = [a \in Accounts |-> account[a]]
  /\ \A a \in Accounts : account[a] \in AccountRows(account[a].codes)
Typed ==
  /\ clock \in Nat \ {0} /\ toggles \in Nat /\ creation \in BOOLEAN
  /\ Counts(buckets) /\ Counts(admitted) /\ Counts(late)
  /\ AccountsTyped
  /\ request \in [Requests -> RequestRows]

\* No request counts for a window that has not begun, and a link names an account.
Asked(q) ==
  /\ q.now <= clock
  /\ q.at # "idle" /\ q.post # "create" => q.account \in Accounts
  /\ q.at = "preparing" => q.account \in Accounts /\ account[q.account].status # "free"

\* The decision a registration goes on with was "allow", and it read the setting as open.
Decided(q) ==
  q.at \in {"allowed", "creating"} =>
    /\ q.task = "allow" /\ q.closed <= toggles
    /\ q.at = "creating" /\ q.closed = toggles => q.closed % 2 = 0

RequestInv == \A r \in Requests : Asked(request[r]) /\ Decided(request[r])

\* A window that is open has counted, or no longer needs, whatever it let through: buckets
\* of open windows are never lost.
OpenCounted ==
  \A k \in Buckets : ExpiresAt(k) > clock => At(admitted, k) <= At(buckets, k)
WithinAll ==
  \A k \in Buckets : At(admitted, k) <= Limit[<<k.post, k.scope>>] + At(late, k)

FiniteTable == IsFiniteSet(DOMAIN buckets) /\ BucketsBounded

AdmissionInv ==
  /\ Typed /\ TypeOK /\ RequestInv
  /\ OpenCounted /\ WithinAll /\ FiniteTable
  /\ RegisteredOnlyIfAllowed

-----------------------------------------------------------------------------
(***************************************************************************)
(* The operators of the rate limiter.                                      *)
(***************************************************************************)

LEMMA Limits ==
  /\ Limit \in [Posts \X Scopes -> Nat \ {0}] /\ Window \in [Posts -> Nat \ {0}]
  /\ \A k \in Buckets : Limit[<<k.post, k.scope>>] \in Nat \ {0} /\ Window[k.post] \in Nat \ {0}
  /\ MaxBuckets \in Nat /\ Timeout \in Nat \ {0} /\ LinkLife \in Nat \ {0}
  /\ PendingLife \in Nat \ {0} /\ MaxClock \in Nat /\ MaxEdits \in Nat
BY LimitAssumption DEF LimitAssumption, Buckets

\* A count is a number, and counting adds one to the keys it names.
LEMMA CountIsNat == ASSUME NEW f, Counts(f), NEW k PROVE At(f, k) \in Nat
BY DEF Counts, At

LEMMA CountedAt ==
  ASSUME NEW f, Counts(f), NEW keys, keys \subseteq Buckets
  PROVE  /\ Counts(Counted(f, keys))
         /\ DOMAIN Counted(f, keys) = DOMAIN f \cup keys
         /\ \A k \in Buckets : /\ k \in keys => At(Counted(f, keys), k) = At(f, k) + 1
                               /\ k \notin keys => At(Counted(f, keys), k) = At(f, k)
BY CountIsNat DEF Counts, Counted, At

\* Forgetting the windows that are over leaves the counts of the others.
LEMMA UnexpiredAt ==
  ASSUME NEW f, Counts(f), NEW now
  PROVE  /\ Counts(Unexpired(f, now)) /\ DOMAIN Unexpired(f, now) \subseteq DOMAIN f
         /\ \A k \in Buckets : ExpiresAt(k) > now => At(Unexpired(f, now), k) = At(f, k)
BY DEF Counts, Unexpired, At

LEMMA Appended == ASSUME NEW a, NEW b, NEW c PROVE <<a, b>> \o <<c>> = <<a, b, c>>
<1> DEFINE S == {a, b, c}
           s == <<a, b>> \o <<c>>
<1>1. <<a, b>> \in Seq(S) /\ <<c>> \in Seq(S) /\ <<a, b, c>> \in Seq(S)
  OBVIOUS
<1>2. s \in Seq(S) /\ Len(s) = 3 /\ s[1] = a /\ s[2] = b /\ s[3] = c
  BY <1>1, ConcatProperties
<1>3. \A i \in 1..3 : s[i] = <<a, b, c>>[i]
  BY <1>2
<1> HIDE DEF s, S
<1>4. s = <<a, b, c>>
  BY <1>1, <1>2, <1>3, SeqEqual
<1> QED
  BY <1>4 DEF s

LEMMA WindowBegan ==
  ASSUME NEW p \in Posts, NEW now \in Nat PROVE WindowOf(p, now) \in Nat
<1>1. Window[p] \in Nat \ {0}
  BY Limits
<1>2. now % Window[p] \in 0..now
  BY <1>1, SMT
<1> QED
  BY <1>2 DEF WindowOf

\* The keys of a request are buckets of one window.
LEMMA KeysOfRequest ==
  ASSUME NEW q \in RequestRows, q.post = "create" \/ q.account \in Accounts
  PROVE  /\ ToSet(Keys(q)) \subseteq Buckets /\ Keys(q)[1] \in ToSet(Keys(q))
         /\ Keys(q) = <<Keys(q)[1], Keys(q)[2]>>
            \/ Keys(q) = <<Keys(q)[1], Keys(q)[2], Keys(q)[3]>>
         /\ \A k \in ToSet(Keys(q)) : ExpiresAt(k) = ExpiresAt(Keys(q)[1])
<1> DEFINE K(scope, who) == Key(q.post, scope, who, q.now)
<1>0. WindowOf(q.post, q.now) \in Nat
  BY WindowBegan DEF RequestRows
<1>1. \A scope \in Scopes, who \in Who :
        K(scope, who) \in Buckets /\ ExpiresAt(K(scope, who)) = WindowOf(q.post, q.now) + Window[q.post]
  BY <1>0 DEF Key, Buckets, RequestRows, ExpiresAt
<1>2. Nobody \in Who /\ q.client \in Who /\ q.account \in Who
      /\ Scopes = {"global", "client", "subject"}
  BY DEF Who, RequestRows, Scopes
<1>3. CASE q.post = "create"
  <2>1. Keys(q) = <<K("global", Nobody), K("client", q.client)>>
    BY <1>3 DEF Keys
  <2>2. ToSet(Keys(q)) = {K("global", Nobody), K("client", q.client)}
    BY <2>1 DEF ToSet
  <2> QED
    BY <1>1, <1>2, <2>1, <2>2
<1>4. CASE q.post # "create"
  <2>1. Keys(q) = <<K("global", Nobody), K("client", q.client), K("subject", q.account)>>
    BY <1>4, Appended DEF Keys
  <2>2. ToSet(Keys(q)) = {K("global", Nobody), K("client", q.client), K("subject", q.account)}
    BY <2>1 DEF ToSet
  <2> QED
    BY <1>1, <1>2, <2>1, <2>2
<1> QED
  BY <1>3, <1>4

\* At most three keys: what the table stores for them leaves it within its limit.
LEMMA StoredFits ==
  ASSUME NEW f, IsFiniteSet(DOMAIN f), Cardinality(DOMAIN f) <= MaxBuckets,
         NEW keys, NEW len \in 1..3, DOMAIN keys = 1..len
  PROVE  /\ IsFiniteSet(DOMAIN f \cup Stored(f, keys))
         /\ Cardinality(DOMAIN f \cup Stored(f, keys)) <= MaxBuckets
<1> DEFINE J(i) == {n \in 1..i : keys[n] \notin DOMAIN f}
           room == Cardinality(DOMAIN f)
           I == {n \in DOMAIN keys : keys[n] \notin DOMAIN f /\ room + Cardinality(J(n)) <= MaxBuckets}
           Fresh == Stored(f, keys) \ DOMAIN f
<1>1. Fresh = {keys[i] : i \in I}
  BY DEF Stored
<1>2. CASE I = {}
  <2>1. DOMAIN f \cup Stored(f, keys) = DOMAIN f
    BY <1>1, <1>2
  <2> QED
    BY <2>1
<1>3. CASE I # {}
  <2>1. PICK m \in I : \A i \in I : i <= m
    <3>1. I \subseteq 1..3
      OBVIOUS
    <3>2. \E i \in I : i \in 1..3
      BY <1>3, <3>1
    <3> HIDE DEF I
    <3>3. 1 \in I \/ 2 \in I \/ 3 \in I
      BY <3>2
    <3>4. \A i \in I : i = 1 \/ i = 2 \/ i = 3
      BY <3>1
    <3> QED
      BY <3>3, <3>4
  <2>2. m \in 1..3 /\ room + Cardinality(J(m)) <= MaxBuckets /\ I \subseteq J(m)
    BY <2>1
  <2>3. IsFiniteSet(1..m) /\ J(m) \in SUBSET (1..m)
    BY <2>2, FS_Interval
  <2>4. IsFiniteSet(J(m)) /\ Cardinality(J(m)) \in Nat
    BY <2>3, FS_Subset, FS_CardinalityType
  <2> DEFINE named == {keys[i] : i \in J(m)}
             name == [i \in J(m) |-> keys[i]]
  <2>5. name \in Surjection(J(m), named)
    BY DEF Surjection
  <2> HIDE DEF name, named, J
  <2>6. IsFiniteSet(named) /\ Cardinality(named) <= Cardinality(J(m))
    BY <2>4, <2>5, FS_Surjection
  <2>7. Fresh \in SUBSET named
    BY <1>1, <2>2 DEF named
  <2> HIDE DEF Fresh, I
  <2>8. IsFiniteSet(Fresh) /\ Cardinality(Fresh) <= Cardinality(named)
    BY <2>6, <2>7, FS_Subset
  <2>9. /\ DOMAIN f \cup Stored(f, keys) = DOMAIN f \cup Fresh
        /\ DOMAIN f \cap Fresh = {}
    BY DEF Fresh
  <2>10. /\ IsFiniteSet(DOMAIN f \cup Fresh)
         /\ Cardinality(DOMAIN f \cup Fresh) = room + Cardinality(Fresh) - Cardinality({})
    BY <2>8, <2>9, FS_Union
  <2>11. Cardinality({}) = 0 /\ room \in Nat /\ Cardinality(Fresh) \in Nat
         /\ Cardinality(named) \in Nat
    BY <2>6, <2>8, FS_EmptySet, FS_CardinalityType
  <2>12. room + Cardinality(Fresh) <= MaxBuckets
    BY <2>2, <2>4, <2>6, <2>8, <2>11, Limits
  <2>13. Cardinality(DOMAIN f \cup Fresh) = room + Cardinality(Fresh)
    BY <2>10, <2>11
  <2> QED
    BY <2>9, <2>10, <2>12, <2>13
<1> QED
  BY <1>2, <1>3

LEMMA FirstKey ==
  ASSUME NEW S, NEW keys \in Seq(S), Len(keys) >= 1
  PROVE  SubSeq(keys, 1, 1) \in Seq(S) /\ SubSeq(keys, 1, 1) = <<keys[1]>>
<1> DEFINE first == SubSeq(keys, 1, 1)
           one == <<keys[1]>>
<1>1. first \in Seq(S) /\ Len(first) = 1 /\ first[1] = keys[1]
  BY SubSeqProperties, LenProperties
<1>2. one \in Seq(S) /\ Len(one) = 1 /\ one[1] = keys[1]
  BY ElementOfSeq, LenProperties
<1> HIDE DEF first, one
<1>3. first = one
  BY <1>1, <1>2, SeqEqual
<1> QED
  BY <1>1, <1>3 DEF first, one

\* A request let through was over no limit, and every key of it was looked at.
LEMMA LetThrough ==
  ASSUME NEW f, NEW S, NEW keys \in Seq(S), Len(keys) >= 1,
         \A key \in ToSet(Considered(f, keys)) : ~Over(f, key, Considered(f, keys))
  PROVE  /\ Considered(f, keys) = keys
         /\ \A key \in ToSet(keys) : ~Over(f, key, keys)
<1>0. DOMAIN keys = 1..Len(keys) /\ Len(keys) \in Nat
  BY LenProperties
<1>1. ASSUME Over(f, keys[1], keys) PROVE FALSE
  <2> DEFINE one == <<keys[1]>>
             New(k, i) == Cardinality({n \in 1..i : k[n] \notin DOMAIN f})
  <2>1. Considered(f, keys) = one
    BY <1>1, FirstKey DEF Considered
  <2>2. ~Over(f, keys[1], one)
    BY <2>1 DEF ToSet
  <2>3. {n \in 1..1 : one[n] \notin DOMAIN f} = {n \in 1..1 : keys[n] \notin DOMAIN f}
    OBVIOUS
  <2>4. keys[1] \in Stored(f, one)
    BY <2>2 DEF Over
  <2>5. keys[1] \in DOMAIN f \/ Cardinality(DOMAIN f) + New(one, 1) <= MaxBuckets
    <3>1. PICK i \in DOMAIN one : \/ one[i] \in DOMAIN f
                                  \/ Cardinality(DOMAIN f) + New(one, i) <= MaxBuckets
      BY <2>4, Zenon DEF Stored
    <3>2. i = 1
      OBVIOUS
    <3> QED
      BY <3>1, <3>2
  <2>6. keys[1] \in Stored(f, keys)
    <3>1. 1 \in DOMAIN keys
      BY <1>0
    <3>2. New(keys, 1) = New(one, 1)
      BY <2>3, Zenon
    <3> HIDE DEF one
    <3> QED
      BY <2>5, <3>1, <3>2, Zenon DEF Stored
  <2> QED
    BY <1>1, <2>2, <2>6 DEF Over
<1>2. Considered(f, keys) = keys
  BY <1>1 DEF Considered
<1> QED
  BY <1>2

-----------------------------------------------------------------------------
(***************************************************************************)
(* Each part of the invariant and the steps that touch it.                 *)
(***************************************************************************)

\* While the limiter's tables stay, time only closes windows.
LEMMA LimiterStays ==
  ASSUME Typed, Typed', OpenCounted, WithinAll, FiniteTable, UNCHANGED limiterVars, clock' >= clock
  PROVE  OpenCounted' /\ WithinAll' /\ FiniteTable'
<1>1. OpenCounted'
  <2> SUFFICES ASSUME NEW k \in Buckets, ExpiresAt(k) > clock'
               PROVE  At(admitted, k) <= At(buckets, k)
    BY DEF OpenCounted, limiterVars
  <2>1. ExpiresAt(k) \in Nat
    BY Limits DEF ExpiresAt, Buckets
  <2>2. ExpiresAt(k) > clock
    BY <2>1 DEF Typed
  <2> QED
    BY <2>2 DEF OpenCounted
<1>2. WithinAll' /\ FiniteTable'
  BY DEF WithinAll, FiniteTable, BucketsBounded, limiterVars
<1> QED
  BY <1>1, <1>2

LEMMA PurgeKeeps ==
  ASSUME Typed, OpenCounted, WithinAll, FiniteTable, PurgeBuckets
  PROVE  Counts(buckets') /\ OpenCounted' /\ WithinAll' /\ FiniteTable'
<1>1. PICK now \in 1..clock : buckets' = Unexpired(buckets, now)
  BY DEF PurgeBuckets
<1>2. now <= clock /\ now \in Nat /\ clock \in Nat
  BY <1>1 DEF Typed
<1>3. /\ Counts(buckets') /\ DOMAIN buckets' \subseteq DOMAIN buckets
      /\ \A k \in Buckets : ExpiresAt(k) > now => At(buckets', k) = At(buckets, k)
  BY <1>1, UnexpiredAt DEF Typed
<1>4. OpenCounted'
  <2> SUFFICES ASSUME NEW k \in Buckets, ExpiresAt(k) > clock
               PROVE  At(admitted, k) <= At(buckets', k)
    BY DEF OpenCounted, PurgeBuckets
  <2>1. ExpiresAt(k) \in Nat
    BY Limits DEF ExpiresAt, Buckets
  <2> QED
    BY <1>2, <1>3, <2>1 DEF OpenCounted
<1>5. FiniteTable'
  <2>1. IsFiniteSet(DOMAIN buckets') /\ Cardinality(DOMAIN buckets') <= Cardinality(DOMAIN buckets)
    BY <1>3, FS_Subset DEF FiniteTable
  <2>2. Cardinality(DOMAIN buckets') \in Nat /\ Cardinality(DOMAIN buckets) \in Nat
    BY <2>1, FS_CardinalityType DEF FiniteTable
  <2> QED
    BY <2>1, <2>2, Limits DEF FiniteTable, BucketsBounded
<1> QED
  BY <1>3, <1>4, <1>5 DEF WithinAll, PurgeBuckets

\* The heart of WithinLimits: a check that lets a request through counts it in the buckets
\* of its open window, or counts it as late.
LEMMA CheckKeeps ==
  ASSUME AdmissionInv, NEW r \in Requests, Check(r)
  PROVE  /\ Counts(buckets') /\ Counts(admitted') /\ Counts(late')
         /\ OpenCounted' /\ WithinAll' /\ FiniteTable'
<1> DEFINE q == request[r]
           live == Unexpired(buckets, q.now)
           keys == Considered(live, Keys(q))
           whole == ToSet(Keys(q))
           refused == \E key \in ToSet(keys) : Over(live, key, keys)
<1>1. /\ q \in RequestRows /\ q.at = "arrived" /\ q.now <= clock /\ q.now \in Nat /\ clock \in Nat
      /\ q.post = "create" \/ q.account \in Accounts
  BY DEF AdmissionInv, Typed, RequestInv, Asked, Check, RequestRows
<1>2. /\ buckets' = Counted(live, Stored(live, keys)) /\ clock' = clock
      /\ IF refused THEN admitted' = admitted ELSE admitted' = Counted(admitted, whole)
      /\ late' = IF ExpiresAt(Keys(q)[1]) <= clock THEN Counted(late, whole) ELSE late
  BY DEF Check
<1>3. Counts(buckets) /\ Counts(admitted) /\ Counts(late)
  BY DEF AdmissionInv, Typed
<1>4. /\ Counts(live) /\ DOMAIN live \subseteq DOMAIN buckets
      /\ \A k \in Buckets : ExpiresAt(k) > clock => At(live, k) = At(buckets, k)
  <2>1. \A k \in Buckets : ExpiresAt(k) \in Nat
    BY Limits DEF ExpiresAt, Buckets
  <2> QED
    BY <1>1, <1>3, <2>1, UnexpiredAt
<1>5. /\ whole \subseteq Buckets /\ Keys(q)[1] \in whole
      /\ \A k \in whole : ExpiresAt(k) = ExpiresAt(Keys(q)[1])
      /\ Keys(q) \in Seq(whole) /\ Len(Keys(q)) \in 2..3
  <2>1. Keys(q) \in Seq(whole) /\ Len(Keys(q)) \in 2..3
    <3>1. \/ Keys(q) = <<Keys(q)[1], Keys(q)[2]>>
          \/ Keys(q) = <<Keys(q)[1], Keys(q)[2], Keys(q)[3]>>
      BY <1>1, KeysOfRequest
    <3> QED
      BY <3>1 DEF ToSet
  <2> QED
    BY <1>1, <2>1, KeysOfRequest
<1>6. keys \in Seq(whole) /\ Len(keys) \in 1..3 /\ ToSet(keys) \subseteq whole
  <2>1. Keys(q) \in Seq(whole) /\ Len(Keys(q)) >= 1 /\ Keys(q)[1] \in whole
    BY <1>5
  <2> DEFINE first == SubSeq(Keys(q), 1, 1)
             one == <<Keys(q)[1]>>
  <2>2. first \in Seq(whole) /\ first = one /\ Len(one) = 1
    BY <2>1, FirstKey
  <2>3. keys = first \/ keys = Keys(q)
    BY DEF Considered
  <2> HIDE DEF first, one
  <2>4. keys \in Seq(whole) /\ Len(keys) \in 1..3
    BY <1>5, <2>2, <2>3
  <2> HIDE DEF keys, whole
  <2> QED
    BY <2>4, ElementOfSeq, LenProperties DEF ToSet
<1>7. Stored(live, keys) \subseteq whole
  <2> HIDE DEF keys, whole, live
  <2> QED
    BY <1>6 DEF Stored, ToSet
<1>8. ~refused => keys = Keys(q) /\ \A k \in whole : ~Over(live, k, Keys(q))
  BY <1>5, LetThrough
<1> HIDE DEF live, keys, whole, refused, q
<1>9. /\ Counts(buckets') /\ DOMAIN buckets' = DOMAIN live \cup Stored(live, keys)
      /\ \A k \in Buckets : /\ k \in Stored(live, keys) => At(buckets', k) = At(live, k) + 1
                            /\ k \notin Stored(live, keys) => At(buckets', k) = At(live, k)
  <2>1. Stored(live, keys) \subseteq Buckets
    BY <1>5, <1>7
  <2> QED
    BY <1>2, <1>4, <2>1, CountedAt
<1>10. /\ Counts(admitted')
       /\ refused => admitted' = admitted
       /\ ~refused => \A k \in Buckets : /\ k \in whole => At(admitted', k) = At(admitted, k) + 1
                                         /\ k \notin whole => At(admitted', k) = At(admitted, k)
  <2>1. whole \subseteq Buckets
    BY <1>5
  <2>2. CASE refused
    BY <1>2, <1>3, <2>2
  <2>3. CASE ~refused
    <3>1. admitted' = Counted(admitted, whole)
      BY <1>2, <2>3
    <3> QED
      BY <1>3, <2>1, <2>3, <3>1, CountedAt
  <2> QED
    BY <2>2, <2>3
<1>11. /\ Counts(late') /\ \A k \in Buckets : At(late', k) >= At(late, k)
       /\ \A k \in whole : ExpiresAt(k) <= clock => At(late', k) = At(late, k) + 1
  <2>1. \A k \in Buckets : At(late, k) \in Nat
    BY <1>3, CountIsNat
  <2>2. CASE ExpiresAt(Keys(q)[1]) <= clock
    <3>1. late' = Counted(late, whole) /\ whole \subseteq Buckets
      BY <1>2, <1>5, <2>2
    <3>2. /\ Counts(late')
          /\ \A k \in Buckets : /\ k \in whole => At(late', k) = At(late, k) + 1
                                /\ k \notin whole => At(late', k) = At(late, k)
      BY <1>3, <3>1, CountedAt
    <3> QED
      BY <2>1, <3>1, <3>2
  <2>3. CASE ~(ExpiresAt(Keys(q)[1]) <= clock)
    BY <1>2, <1>3, <1>5, <2>1, <2>3
  <2> QED
    BY <2>2, <2>3
<1>12. \A k \in whole : ~refused => k \in Stored(live, keys) /\ At(live, k) + 1 <= Limit[<<k.post, k.scope>>]
  <2> SUFFICES ASSUME NEW k \in whole, ~refused
               PROVE  k \in Stored(live, keys) /\ At(live, k) + 1 <= Limit[<<k.post, k.scope>>]
    OBVIOUS
  <2>1. At(live, k) \in Nat /\ Limit[<<k.post, k.scope>>] \in Nat
    BY <1>4, <1>5, CountIsNat, Limits
  <2>2. ~Over(live, k, keys)
    BY <1>8
  <2> QED
    BY <2>1, <2>2 DEF Over
<1>13. \A k \in Buckets : /\ At(live, k) \in Nat /\ At(admitted, k) \in Nat /\ At(buckets, k) \in Nat
                          /\ At(late, k) \in Nat /\ At(late', k) \in Nat /\ ExpiresAt(k) \in Nat
                          /\ Limit[<<k.post, k.scope>>] \in Nat
  BY <1>3, <1>4, <1>11, CountIsNat, Limits DEF ExpiresAt, Buckets
<1>14. OpenCounted'
  <2> SUFFICES ASSUME NEW k \in Buckets, ExpiresAt(k) > clock
               PROVE  At(admitted', k) <= At(buckets', k)
    BY <1>2 DEF OpenCounted
  <2>1. At(admitted, k) <= At(live, k)
    BY <1>4 DEF AdmissionInv, OpenCounted
  <2>2. At(buckets', k) = At(live, k) + 1 \/ At(buckets', k) = At(live, k)
    BY <1>9
  <2>3. At(live, k) \in Nat /\ At(admitted, k) \in Nat
    BY <1>13
  <2>4. CASE refused \/ k \notin whole
    <3>1. At(admitted', k) = At(admitted, k)
      BY <1>10, <2>4
    <3> QED
      BY <2>1, <2>2, <2>3, <3>1
  <2>5. CASE ~refused /\ k \in whole
    <3>1. At(admitted', k) = At(admitted, k) + 1
      BY <1>10, <2>5
    <3>2. At(buckets', k) = At(live, k) + 1
      BY <1>9, <1>12, <2>5
    <3> QED
      BY <2>1, <2>3, <3>1, <3>2
  <2> QED
    BY <2>4, <2>5
<1>15. WithinAll'
  <2> SUFFICES ASSUME NEW k \in Buckets
               PROVE  At(admitted', k) <= Limit[<<k.post, k.scope>>] + At(late', k)
    BY DEF WithinAll
  <2>1. At(admitted, k) <= Limit[<<k.post, k.scope>>] + At(late, k)
    BY DEF AdmissionInv, WithinAll
  <2>2. CASE refused \/ k \notin whole
    BY <1>10, <1>11, <1>13, <2>1, <2>2
  <2>3. CASE ~refused /\ k \in whole /\ ExpiresAt(k) <= clock
    BY <1>10, <1>11, <1>13, <2>1, <2>3
  <2>4. CASE ~refused /\ k \in whole /\ ExpiresAt(k) > clock
    <3>1. At(admitted, k) <= At(live, k)
      BY <1>4, <2>4 DEF AdmissionInv, OpenCounted
    <3> QED
      BY <1>10, <1>12, <1>13, <2>4, <3>1
  <2> QED
    BY <1>1, <1>13, <2>2, <2>3, <2>4
<1>16. FiniteTable'
  <2>1. IsFiniteSet(DOMAIN live) /\ Cardinality(DOMAIN live) <= Cardinality(DOMAIN buckets)
    BY <1>4, FS_Subset DEF AdmissionInv, FiniteTable
  <2>2. Cardinality(DOMAIN live) <= MaxBuckets
    <3>1. Cardinality(DOMAIN live) \in Nat /\ Cardinality(DOMAIN buckets) \in Nat
      BY <2>1, FS_CardinalityType DEF AdmissionInv, FiniteTable
    <3> QED
      BY <2>1, <3>1, Limits DEF AdmissionInv, FiniteTable, BucketsBounded
  <2>3. DOMAIN keys = 1..Len(keys) /\ Len(keys) \in 1..3
    BY <1>6, LenProperties
  <2> QED
    BY <1>9, <2>1, <2>2, <2>3, StoredFits DEF FiniteTable, BucketsBounded
<1> QED
  BY <1>9, <1>10, <1>11, <1>14, <1>15, <1>16

\* A step of one request, in which every account that exists stays or is gone
LEMMA RequestMoves ==
  ASSUME AdmissionInv, NEW r \in Requests, NEW row \in RequestRows,
         request' = [request EXCEPT ![r] = row], UNCHANGED <<clock, toggles>>,
         \A a \in Accounts : account[a].status # "free" => account'[a].status # "free",
         Asked(row), Decided(row)
  PROVE  RequestInv' /\ request' \in [Requests -> RequestRows]
<1>1. request \in [Requests -> RequestRows] /\ RequestInv
  BY DEF AdmissionInv, Typed
<1>2. request' \in [Requests -> RequestRows]
  BY <1>1
<1> SUFFICES ASSUME NEW x \in Requests PROVE Asked(request[x])' /\ Decided(request[x])'
  BY <1>2 DEF RequestInv
<1>3. Asked(request'[x]) /\ Decided(request'[x])
  <2>1. request'[x] = row \/ request'[x] = request[x]
    BY <1>1
  <2> QED
    BY <1>1, <2>1 DEF RequestInv
<1> QED
  BY <1>3 DEF Asked, Decided

\* An account is inserted or changed.
LEMMA AccountMoves ==
  ASSUME AdmissionInv, NEW a \in Accounts, NEW row, row \in AccountRows(row.codes),
         row.status \in {"pending", "active"}, row.link # 0 => ~row.secret,
         account' = [account EXCEPT ![a] = row],
         UNCHANGED <<creation, toggles>>, request' \in [Requests -> RequestRows]
  PROVE  /\ AccountsTyped' /\ TypeOK'
         /\ \A x \in Accounts : account[x].status # "free" => account'[x].status # "free"
<1>1. AccountsTyped /\ TypeOK
  BY DEF AdmissionInv, Typed
<1>2. account' = [x \in Accounts |-> account'[x]]
  BY <1>1 DEF AccountsTyped
<1>3. \A x \in Accounts : account'[x] = IF x = a THEN row ELSE account[x]
  BY <1>1 DEF AccountsTyped
<1>4. AccountsTyped'
  BY <1>1, <1>2, <1>3 DEF AccountsTyped
<1>5. TypeOK'
  BY <1>1, <1>3 DEF TypeOK, AccountRows, RequestRows, Tasks, Places
<1> QED
  BY <1>3, <1>4, <1>5

\* Only the requests change.
LEMMA OnlyRequests ==
  ASSUME AdmissionInv, NEW r \in Requests, NEW row \in RequestRows,
         request' = [request EXCEPT ![r] = row], UNCHANGED <<clock, limiterVars, serviceVars>>,
         Asked(row), Decided(row)
  PROVE  AdmissionInv'
<1>1. RequestInv' /\ request' \in [Requests -> RequestRows]
  BY RequestMoves DEF serviceVars
<1>2. Typed'
  BY <1>1 DEF AdmissionInv, Typed, AccountsTyped, limiterVars, serviceVars
<1>3. OpenCounted' /\ WithinAll' /\ FiniteTable'
  <2>1. clock' >= clock
    BY DEF AdmissionInv, Typed
  <2> QED
    BY <1>2, <2>1, LimiterStays DEF AdmissionInv
<1>4. TypeOK' /\ RegisteredOnlyIfAllowed'
  BY <1>1 DEF AdmissionInv, TypeOK, RegisteredOnlyIfAllowed, serviceVars, RequestRows, Tasks, Places
<1> QED
  BY <1>1, <1>2, <1>3, <1>4 DEF AdmissionInv

LEMMA RowTyped ==
  ASSUME AdmissionInv, NEW r \in Requests
  PROVE  /\ request[r] \in RequestRows /\ Asked(request[r]) /\ Decided(request[r])
         /\ clock \in Nat \ {0} /\ toggles \in Nat
         /\ Idle \in RequestRows /\ Asked(Idle) /\ Decided(Idle)
BY DEF AdmissionInv, Typed, RequestInv, Idle, RequestRows, Asked, Decided, Places, Posts, Tasks

-----------------------------------------------------------------------------
(***************************************************************************)
(* The invariant is inductive: one lemma per group of actions.             *)
(***************************************************************************)

LEMMA BlankAccounts ==
  /\ NoAccount \in AccountRows({}) /\ NoAccount.status = "free" /\ NoAccount.link = 0
  /\ NoAccount.codes = {} /\ ~NoAccount.secret
BY DEF NoAccount, AccountRows

LEMMA GoneAccount ==
  /\ [NoAccount EXCEPT !.status = "gone"] \in AccountRows({})
  /\ [NoAccount EXCEPT !.status = "gone"].status = "gone"
  /\ [NoAccount EXCEPT !.status = "gone"].link = 0
  /\ [NoAccount EXCEPT !.status = "gone"].codes = {}
<1>1. NoAccount \in AccountRows({}) /\ NoAccount.link = 0
  BY BlankAccounts
<1> QED
  BY <1>1 DEF AccountRows

LEMMA FreshAccount ==
  ASSUME clock \in Nat \ {0}
  PROVE  /\ NewAccount \in AccountRows({}) /\ NewAccount.status = "pending"
         /\ ~NewAccount.secret /\ NewAccount.codes = {}
<1>1. NoAccount \in AccountRows({}) /\ ~NoAccount.secret /\ clock + LinkLife \in Nat
  BY BlankAccounts, Limits
<1> QED
  BY <1>1 DEF NewAccount, AccountRows

LEMMA AdmissionStart == Init => AdmissionInv
<1> SUFFICES ASSUME Init PROVE AdmissionInv
  OBVIOUS
<1>1. \A a \in Accounts : account[a] = NewAccount \/ account[a] = NoAccount
  BY DEF Init
<1>2. clock = 1 /\ toggles = 0 /\ creation = TRUE /\ account = [a \in Accounts |-> account[a]]
  BY DEF Init
<1>3. AccountsTyped
  <2>1. \A a \in Accounts : account[a] \in AccountRows({}) /\ account[a].codes = {}
    BY <1>1, <1>2, BlankAccounts, FreshAccount
  <2> QED
    BY <1>2, <2>1 DEF AccountsTyped
<1>4. DOMAIN buckets = {} /\ DOMAIN admitted = {} /\ DOMAIN late = {}
  BY DEF Init
<1>5. Idle \in RequestRows /\ Asked(Idle) /\ Decided(Idle)
  BY <1>2 DEF Idle, RequestRows, Asked, Decided, Places, Posts, Tasks
<1>6. request \in [Requests -> RequestRows] /\ RequestInv
  BY <1>5 DEF Init, RequestInv
<1>7. Typed
  BY <1>2, <1>3, <1>4, <1>6 DEF Typed, Counts
<1>8. TypeOK
  <2>1. \A a \in Accounts :
          /\ account[a].status \in {"free", "pending"}
          /\ (account[a].link # 0 => ~account[a].secret)
          /\ account[a].status = "free" => account[a] = NoAccount
    BY <1>1, <1>2, BlankAccounts, FreshAccount
  <2>2. NoAccount = [NoAccount EXCEPT !.status = "free"]
    BY DEF NoAccount
  <2>3. \A r \in Requests : request[r].task \in Tasks /\ request[r].at \in Places
    BY <1>6 DEF RequestRows
  <2>4. creation = (toggles % 2 = 0)
    <3>1. toggles % 2 = 0
      BY <1>2
    <3> QED
      BY <1>2, <3>1, Zenon
  <2>5. \A a \in Accounts :
          account[a].status \in {"free", "gone"} => account[a] = [NoAccount EXCEPT !.status = account[a].status]
    BY <2>1, <2>2
  <2> QED
    BY <2>1, <2>3, <2>4, <2>5 DEF TypeOK, Tasks, Places
<1>9. OpenCounted /\ WithinAll
  BY <1>4, Limits DEF OpenCounted, WithinAll, At
<1>10. FiniteTable
  BY <1>4, FS_EmptySet, Limits DEF FiniteTable, BucketsBounded
<1>11. RegisteredOnlyIfAllowed
  BY DEF Init, RegisteredOnlyIfAllowed
<1> QED
  BY <1>6, <1>7, <1>8, <1>9, <1>10, <1>11 DEF AdmissionInv

\* A request arrives.
LEMMA ArriveKeeps == ASSUME AdmissionInv, NEW r \in Requests, Arrive(r) PROVE AdmissionInv'
<1>1. PICK p \in Posts, c \in Clients, a \in Accounts :
       /\ p = "create" => Unclaimed
       /\ request' = [request EXCEPT ![r] = [Idle EXCEPT !.at = "arrived", !.post = p,
         !.client = c, !.account = IF p = "create" THEN Nobody ELSE a, !.now = clock]]
  BY Zenon DEF Arrive
<1> DEFINE who == IF p = "create" THEN Nobody ELSE a
           row == [Idle EXCEPT !.at = "arrived", !.post = p, !.client = c,
                               !.account = who, !.now = clock]
<1>2. row \in RequestRows /\ Asked(row) /\ Decided(row)
  <2>1. who \in Accounts \cup {Nobody} /\ (p # "create" => who \in Accounts)
    OBVIOUS
  <2> HIDE DEF who
  <2>2. Idle \in RequestRows /\ "arrived" \in Places /\ clock \in Nat
    BY RowTyped DEF Places
  <2>3. row \in RequestRows
    BY <2>1, <2>2 DEF RequestRows
  <2>4. row.at = "arrived" /\ row.now = clock /\ row.post = p /\ row.account = who
    BY <2>2 DEF RequestRows
  <2> HIDE DEF row
  <2> QED
    BY <2>1, <2>2, <2>3, <2>4 DEF Asked, Decided
<1> QED
  BY <1>1, <1>2, OnlyRequests DEF Arrive

LEMMA CheckStep == ASSUME AdmissionInv, NEW r \in Requests, Check(r) PROVE AdmissionInv'
<1>1. PICK row : /\ row \in {Idle, [request[r] EXCEPT !.at = "admitted"]}
                 /\ request' = [request EXCEPT ![r] = row]
  BY RowTyped DEF Check
<1>2. row \in RequestRows /\ Asked(row) /\ Decided(row)
  BY <1>1, RowTyped DEF Check, RequestRows, Asked, Decided, Places, Idle
<1>3. UNCHANGED <<clock, creation, account, toggles, registered>>
  BY DEF Check, serviceVars
<1>4. RequestInv' /\ request' \in [Requests -> RequestRows]
  BY <1>1, <1>2, <1>3, RequestMoves
<1>5. Typed'
  BY <1>3, <1>4, CheckKeeps DEF AdmissionInv, Typed, AccountsTyped
<1>6. TypeOK' /\ RegisteredOnlyIfAllowed'
  BY <1>3, <1>4 DEF AdmissionInv, TypeOK, RegisteredOnlyIfAllowed, RequestRows, Tasks, Places
<1> QED
  BY <1>4, <1>5, <1>6, CheckKeeps DEF AdmissionInv

\* The steps that change nothing but their request
LEMMA DecisionKeeps ==
  ASSUME AdmissionInv, NEW r \in Requests,
         \/ AskPolicy(r) \/ ProviderEnds(r) \/ TakeDecision(r) \/ ReadSetting(r) \/ EndHook(r)
         \/ ReadLink(r) \/ Refuse(r) \/ Abort(r)
  PROVE  AdmissionInv'
<1> DEFINE q == request[r]
<1>0. /\ q \in RequestRows /\ Asked(q) /\ Decided(q) /\ clock \in Nat \ {0} /\ toggles \in Nat
      /\ creation = (toggles % 2 = 0)
  BY RowTyped DEF AdmissionInv, TypeOK
<1>1. CASE AskPolicy(r)
  <2> DEFINE row == [q EXCEPT !.at = "asking", !.until = clock + Timeout, !.task = "running"]
  <2>1. row \in RequestRows /\ Asked(row) /\ Decided(row)
    <3>1. clock + Timeout \in Nat /\ "asking" \in Places /\ "running" \in Tasks /\ q.at = "admitted"
      BY <1>0, <1>1, Limits DEF AskPolicy, Doing, Places, Tasks
    <3>2. row \in RequestRows
      BY <1>0, <3>1 DEF RequestRows
    <3>3. row.at = "asking" /\ row.now = q.now /\ row.post = q.post /\ row.account = q.account
      BY <1>0 DEF RequestRows
    <3> HIDE DEF row
    <3> QED
      BY <1>0, <3>1, <3>2, <3>3 DEF Asked, Decided
  <2>2. request' = [request EXCEPT ![r] = row]
    BY <1>1 DEF AskPolicy, Asks
  <2> QED
    BY <1>1, <2>1, <2>2, OnlyRequests DEF AskPolicy
<1>2. CASE ProviderEnds(r)
  <2>1. PICK outcome \in {"allow", "deny", "failed"} : request' = [request EXCEPT ![r].task = outcome]
    BY <1>2 DEF ProviderEnds
  <2> DEFINE row == [q EXCEPT !.task = outcome]
  <2>2. row \in RequestRows /\ Asked(row) /\ Decided(row)
    BY <1>0, <1>2 DEF ProviderEnds, RequestRows, Asked, Decided, Tasks
  <2> QED
    BY <1>2, <2>1, <2>2, OnlyRequests DEF ProviderEnds
<1>3. CASE TakeDecision(r)
  <2> DEFINE row == [q EXCEPT !.at = "allowed", !.closed = toggles]
  <2>1. row \in RequestRows /\ Asked(row) /\ Decided(row)
    <3>1. "allowed" \in Places /\ q.at = "asking" /\ q.task = "allow"
      BY <1>3 DEF TakeDecision, Allows, Places
    <3>2. row \in RequestRows
      BY <1>0, <3>1 DEF RequestRows
    <3>3. /\ row.at = "allowed" /\ row.now = q.now /\ row.post = q.post /\ row.account = q.account
          /\ row.task = "allow" /\ row.closed = toggles
      BY <1>0, <3>1 DEF RequestRows
    <3> HIDE DEF row
    <3> QED
      BY <1>0, <3>1, <3>2, <3>3 DEF Asked, Decided
  <2> QED
    BY <1>3, <2>1, OnlyRequests DEF TakeDecision
<1>4. CASE ReadSetting(r)
  <2> DEFINE row == [q EXCEPT !.at = "creating"]
  <2>1. row \in RequestRows /\ Asked(row) /\ Decided(row)
    BY <1>0, <1>4 DEF ReadSetting, StillOpen, RequestRows, Asked, Decided, Places
  <2> QED
    BY <1>4, <2>1, OnlyRequests DEF ReadSetting, Goes
<1>5. CASE ReadLink(r)
  <2> DEFINE row == [q EXCEPT !.at = "preparing"]
  <2>1. q.account \in Accounts /\ account[q.account].link # 0
    BY <1>0, <1>5 DEF ReadLink, Doing, Mine, Asked
  <2>2. account[q.account].status # "free"
    BY <2>1 DEF AdmissionInv, TypeOK, NoAccount
  <2>3. row \in RequestRows /\ Asked(row) /\ Decided(row)
    BY <1>0, <2>1, <2>2 DEF RequestRows, Asked, Decided, Places
  <2> QED
    BY <1>5, <2>3, OnlyRequests DEF ReadLink, Goes
<1>6. CASE EndHook(r) \/ Refuse(r) \/ Abort(r)
  <2>1. Idle \in RequestRows /\ Asked(Idle) /\ Decided(Idle)
    BY RowTyped
  <2> QED
    BY <1>6, <2>1, OnlyRequests DEF EndHook, Refuse, Abort, Ends
<1> QED
  BY <1>1, <1>2, <1>3, <1>4, <1>5, <1>6

\* The steps that write an account
LEMMA AccountKeeps ==
  ASSUME AdmissionInv, NEW r \in Requests, Create(r) \/ SetUp(r) \/ Verify(r)
  PROVE  AdmissionInv'
<1> DEFINE q == request[r]
<1>0. /\ q \in RequestRows /\ Asked(q) /\ Decided(q) /\ clock \in Nat \ {0} /\ toggles \in Nat
      /\ Idle \in RequestRows /\ Asked(Idle) /\ Decided(Idle)
      /\ AccountsTyped /\ TypeOK
  BY RowTyped DEF AdmissionInv, Typed
<1>1. UNCHANGED <<clock, creation, toggles, limiterVars>>
  BY DEF Create, SetUp, Verify
<1>2. PICK row \in RequestRows :
        Asked(row) /\ Decided(row) /\ request' = [request EXCEPT ![r] = row]
  <2> DEFINE told == [q EXCEPT !.at = "telling", !.until = clock + Timeout, !.task = "running"]
  <2>1. CASE Create(r)
    <3>1. told \in RequestRows /\ Asked(told) /\ Decided(told)
      <4>1. clock + Timeout \in Nat /\ "telling" \in Places /\ "running" \in Tasks
            /\ q.at = "creating"
        BY <1>0, <2>1, Limits DEF Create, Places, Tasks
      <4>2. told \in RequestRows
        BY <1>0, <4>1 DEF RequestRows
      <4>3. told.at = "telling" /\ told.now = q.now /\ told.post = q.post
            /\ told.account = q.account
        BY <1>0 DEF RequestRows
      <4> HIDE DEF told
      <4> QED
        BY <1>0, <4>1, <4>2, <4>3 DEF Asked, Decided
    <3>2. request' = [request EXCEPT ![r] = told]
      BY <2>1 DEF Create, Asks
    <3> QED
      BY <3>1, <3>2
  <2>2. CASE SetUp(r) \/ Verify(r)
    BY <1>0, <2>2 DEF SetUp, Verify, Ends
  <2> QED
    BY <2>1, <2>2
<1>3. request' \in [Requests -> RequestRows]
  BY <1>2 DEF AdmissionInv, Typed
<1>4. PICK a, new :
        /\ a \in Accounts /\ new \in AccountRows(new.codes)
        /\ account' = [account EXCEPT ![a] = new] /\ new.status \in {"pending", "active"}
        /\ new.link # 0 => ~new.secret
  <2>1. CASE Create(r)
    <3>1. PICK a \in Accounts : account' = [account EXCEPT ![a] = NewAccount]
      BY <2>1 DEF Create
    <3>2. NewAccount \in AccountRows(NewAccount.codes) /\ NewAccount.status = "pending"
          /\ ~NewAccount.secret
      BY <1>0, FreshAccount
    <3>3. account'[a] = NewAccount
      BY <1>0, <3>1 DEF AccountsTyped
    <3> QED
      BY <3>1, <3>2, <3>3
  <2>2. CASE SetUp(r)
    <3> DEFINE a == q.account
               new == WithSecret(account[a])
    <3>1. a \in Accounts /\ account[a].status \notin {"free", "gone"}
      BY <1>0, <2>2 DEF SetUp, Asked, Mine
    <3>2. account[a] \in AccountRows(account[a].codes)
      BY <1>0, <3>1 DEF AccountsTyped
    <3>3. new \in AccountRows(new.codes) /\ new.status \in {"pending", "active"} /\ new.link = 0
      BY <3>1, <3>2 DEF WithSecret, AccountRows
    <3>4. account' = [account EXCEPT ![a] = new]
      BY <2>2 DEF SetUp
    <3>5. account'[a] = new
      BY <1>0, <3>1, <3>4 DEF AccountsTyped
    <3> QED
      BY <3>1, <3>3, <3>4, <3>5
  <2>3. CASE Verify(r)
    <3> DEFINE a == q.account
    <3>1. PICK code \in account[a].codes :
            account' = [account EXCEPT ![a].codes = @ \ {code}, ![a].status = "active"]
      BY <2>3 DEF Verify, Mine
    <3> DEFINE new == [account[a] EXCEPT !.codes = @ \ {code}, !.status = "active"]
    <3>2. a \in Accounts
      BY <1>0, <2>3 DEF Verify, Doing, Asked
    <3>3. account[a] \in AccountRows(account[a].codes)
          /\ (account[a].link # 0 => ~account[a].secret)
      BY <1>0, <3>2 DEF AccountsTyped, TypeOK
    <3>4. new \in AccountRows(new.codes) /\ new.status = "active" /\ (new.link # 0 => ~new.secret)
      BY <3>3 DEF AccountRows
    <3>5. account' = [account EXCEPT ![a] = new]
      BY <1>0, <3>1, <3>2, <3>3 DEF AccountsTyped, AccountRows
    <3>6. account'[a] = new
      BY <1>0, <3>2, <3>5 DEF AccountsTyped
    <3> QED
      BY <3>2, <3>4, <3>5, <3>6
  <2> QED
    BY <2>1, <2>2, <2>3
<1>6. /\ AccountsTyped' /\ TypeOK'
      /\ \A x \in Accounts : account[x].status # "free" => account'[x].status # "free"
  BY <1>1, <1>3, <1>4, AccountMoves
<1>7. RequestInv'
  BY <1>1, <1>2, <1>6, RequestMoves
<1>8. Typed'
  BY <1>1, <1>3, <1>6 DEF AdmissionInv, Typed, limiterVars
<1>9. OpenCounted' /\ WithinAll' /\ FiniteTable'
  <2>1. clock' >= clock
    BY <1>0, <1>1
  <2> QED
    BY <1>1, <1>8, <2>1, LimiterStays DEF AdmissionInv
<1>10. RegisteredOnlyIfAllowed'
  <2>1. CASE Create(r)
    <3>1. PICK x \in Accounts : registered' = registered \cup
            {[account |-> x, answer |-> q.task, closed |-> q.closed, at |-> toggles]}
      BY <2>1 DEF Create
    <3>2. q.task = "allow" /\ (q.closed = toggles => q.closed % 2 = 0)
      BY <1>0, <2>1 DEF Create, Decided
    <3> QED
      BY <3>1, <3>2 DEF AdmissionInv, RegisteredOnlyIfAllowed
  <2>2. CASE SetUp(r) \/ Verify(r)
    BY <2>2 DEF SetUp, Verify, AdmissionInv, RegisteredOnlyIfAllowed
  <2> QED
    BY <2>1, <2>2
<1> QED
  BY <1>6, <1>7, <1>8, <1>9, <1>10 DEF AdmissionInv

LEMMA ServiceKeeps ==
  ASSUME AdmissionInv, SetCreation \/ Lifecycle \/ PurgeBuckets \/ Tick
  PROVE  AdmissionInv'
<1>0. /\ Typed /\ AccountsTyped /\ TypeOK /\ RequestInv /\ clock \in Nat \ {0} /\ toggles \in Nat
      /\ creation \in BOOLEAN /\ request' = request
      /\ \A r \in Requests : request[r] \in RequestRows
  BY DEF AdmissionInv, Typed, SetCreation, Lifecycle, PurgeBuckets, Tick
<1>1. clock' \in Nat \ {0} /\ clock' >= clock
  BY <1>0 DEF SetCreation, Lifecycle, PurgeBuckets, Tick
<1>2. AccountsTyped' /\ \A a \in Accounts : /\ account[a].status # "free" => account'[a].status # "free"
                                            /\ \/ account'[a] = account[a]
                                               \/ account'[a] = [NoAccount EXCEPT !.status = "gone"]
  <2>1. CASE Lifecycle
    <3>1. account' = [a \in Accounts |-> account'[a]]
      BY <2>1 DEF Lifecycle
    <3>2. \A a \in Accounts : \/ account'[a] = account[a]
                              \/ account'[a] = [NoAccount EXCEPT !.status = "gone"]
      BY <2>1 DEF Lifecycle
    <3> QED
      BY <1>0, <3>1, <3>2, GoneAccount DEF AccountsTyped
  <2>2. CASE ~Lifecycle
    BY <1>0, <2>2 DEF SetCreation, PurgeBuckets, Tick, serviceVars, AccountsTyped
  <2> QED
    BY <2>1, <2>2
<1>3. toggles' \in Nat /\ toggles' >= toggles /\ creation' \in BOOLEAN /\ creation' = (toggles' % 2 = 0)
      /\ registered' = registered
  <2>1. CASE SetCreation
    <3>1. toggles' = toggles + 1 /\ creation' = ~creation /\ creation = (toggles % 2 = 0)
      BY <1>0, <2>1 DEF SetCreation, TypeOK
    <3>2. (toggles + 1) % 2 = 0 <=> ~(toggles % 2 = 0)
      BY <1>0
    <3>3. creation' = (toggles' % 2 = 0)
      BY <3>1, <3>2, Zenon
    <3>4. toggles' \in Nat /\ toggles' >= toggles /\ creation' \in BOOLEAN
      BY <1>0, <3>1
    <3> QED
      BY <2>1, <3>3, <3>4 DEF SetCreation
  <2>2. CASE ~SetCreation
    <3>1. UNCHANGED <<creation, toggles, registered>>
      BY <2>2 DEF Lifecycle, PurgeBuckets, Tick, serviceVars
    <3>2. creation = (toggles % 2 = 0)
      BY <1>0 DEF TypeOK
    <3>3. creation' = (toggles' % 2 = 0)
      BY <3>1, <3>2, Zenon
    <3> QED
      BY <1>0, <3>1, <3>3
  <2> QED
    BY <2>1, <2>2
<1>4. TypeOK'
  BY <1>0, <1>2, <1>3 DEF TypeOK, NoAccount
<1>5. RequestInv'
  <2> SUFFICES ASSUME NEW r \in Requests PROVE Asked(request[r])' /\ Decided(request[r])'
    BY DEF RequestInv
  <2>1. request[r] \in RequestRows /\ Asked(request[r]) /\ Decided(request[r])
    BY <1>0 DEF RequestInv
  <2>2. Asked(request[r])'
    BY <1>0, <1>1, <1>2, <2>1 DEF Asked, RequestRows
  <2>3. Decided(request[r])'
    <3>1. toggles' = toggles \/ toggles' = toggles + 1
      BY DEF SetCreation, Lifecycle, PurgeBuckets, Tick, serviceVars
    <3> QED
      BY <1>0, <2>1, <3>1 DEF Decided, RequestRows
  <2> QED
    BY <2>2, <2>3
<1>6. Counts(buckets') /\ Counts(admitted') /\ Counts(late')
  <2>1. CASE PurgeBuckets
    BY <1>0, <2>1, PurgeKeeps DEF AdmissionInv, Typed, PurgeBuckets
  <2>2. CASE ~PurgeBuckets
    BY <1>0, <2>2 DEF SetCreation, Lifecycle, Tick, limiterVars, Typed
  <2> QED
    BY <2>1, <2>2
<1>7. Typed'
  BY <1>0, <1>1, <1>2, <1>3, <1>6 DEF Typed
<1>8. OpenCounted' /\ WithinAll' /\ FiniteTable'
  <2>1. CASE PurgeBuckets
    BY <2>1, PurgeKeeps DEF AdmissionInv
  <2>2. CASE ~PurgeBuckets
    <3>1. UNCHANGED limiterVars
      BY <2>2 DEF SetCreation, Lifecycle, Tick
    <3> QED
      BY <1>1, <1>7, <3>1, LimiterStays DEF AdmissionInv
  <2> QED
    BY <2>1, <2>2
<1>9. RegisteredOnlyIfAllowed'
  BY <1>3 DEF AdmissionInv, RegisteredOnlyIfAllowed
<1> QED
  BY <1>4, <1>5, <1>7, <1>8, <1>9 DEF AdmissionInv

LEMMA AdmissionStutter == ASSUME AdmissionInv, UNCHANGED vars PROVE AdmissionInv'
BY DEF AdmissionInv, Typed, AccountsTyped, TypeOK, RequestInv, Asked, Decided, OpenCounted,
       WithinAll, FiniteTable, BucketsBounded, RegisteredOnlyIfAllowed, vars, limiterVars, serviceVars

THEOREM AdmissionInvariant == Spec => []AdmissionInv
<1>1. ASSUME AdmissionInv, [Next]_vars PROVE AdmissionInv'
  <2>1. ASSUME NEW r \in Requests, Arrive(r) \/ Serve(r) \/ ProviderEnds(r) \/ Abort(r)
        PROVE  AdmissionInv'
    BY <1>1, <2>1, ArriveKeeps, CheckStep, DecisionKeeps, AccountKeeps DEF Serve
  <2> QED
    BY <1>1, <2>1, ServiceKeeps, AdmissionStutter DEF Next
<1> QED
  BY <1>1, AdmissionStart, PTL DEF Spec

-----------------------------------------------------------------------------
(***************************************************************************)
(* What the rate limiter and the registration promise.                     *)
(***************************************************************************)

\* The tables keep their types, and a set-up link is used up with the set-up.
THEOREM AdmissionTypes == Spec => []TypeOK
BY AdmissionInvariant, PTL DEF AdmissionInv

\* No window lets more requests through than the policy allows, save one for every request
\* that waited past the end of its window (PersistentRateLimiter.check).
THEOREM LimitsHold == Spec => []WithinLimits
<1>1. AdmissionInv => WithinLimits
  BY DEF AdmissionInv, WithinAll, WithinLimits, Typed, Counts, At
<1> QED
  BY <1>1, AdmissionInvariant, PTL

\* The table of the limiter never outgrows its limit.
THEOREM TableStaysBounded == Spec => []BucketsBounded
BY AdmissionInvariant, PTL DEF AdmissionInv, FiniteTable

\* An account exists only because the provider allowed it while registration was open.
THEOREM RegistrationsAllowed == Spec => []RegisteredOnlyIfAllowed
BY AdmissionInvariant, PTL DEF AdmissionInv
=============================================================================

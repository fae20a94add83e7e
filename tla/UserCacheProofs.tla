--------------------------- MODULE UserCacheProofs ---------------------------
(* The user cache, for any number of users, goroutines and entries: types, *)
(* that a name leads to a user who had it when last seen, and that the     *)
(* slice implements RecentUsers.                                           *)
EXTENDS UserCache, FiniteSetTheorems, FunctionTheorems, SequenceTheorems,
        WellFoundedInduction, TLAPS

-----------------------------------------------------------------------------
(* Time.                                                                   *)

\* An entry before its time is made small.
RawEntry ==
  [id : UserId, name : Name, screenName : Name, profileImage : Image,
   lastModified : Nat]

LEMMA EntryIsRaw == Entry \subseteq RawEntry
BY CacheAssumption DEF Entry, RawEntry

LEMMA SameCardinality == \A S : Recent!Cardinality(S) = Cardinality(S)
BY DEF Recent!Cardinality, Cardinality

\* There are no more times than entries.
LEMMA TimesBounded ==
  ASSUME NEW cache \in Seq(RawEntry)
  PROVE  /\ Times(cache) \subseteq Nat /\ IsFiniteSet(Times(cache))
         /\ Cardinality(Times(cache)) \in Nat
         /\ Cardinality(Times(cache)) <= Len(cache)
<1> DEFINE T == Times(cache)
           f == [i \in 1..Len(cache) |-> cache[i].lastModified]
<1>1. Len(cache) \in Nat /\ DOMAIN cache = 1..Len(cache)
      /\ \A i \in 1..Len(cache) : cache[i] \in RawEntry
  BY LenProperties, ElementOfSeq
<1>2. T \subseteq Nat
  BY <1>1 DEF Times, RawEntry
<1>3. f \in Surjection(1..Len(cache), T)
  BY <1>1 DEF Times, Surjection
<1>4. IsFiniteSet(1..Len(cache)) /\ Cardinality(1..Len(cache)) = Len(cache)
  <2>1. /\ IsFiniteSet(1..Len(cache))
        /\ Cardinality(1..Len(cache)) = IF 1 > Len(cache) THEN 0 ELSE Len(cache) - 1 + 1
    BY <1>1, FS_Interval, SMTT(30)
  <2>2. QED  BY <1>1, <2>1
<1> HIDE DEF T, f
<1>5. IsFiniteSet(T) /\ Cardinality(T) <= Len(cache)
  BY <1>3, <1>4, FS_Surjection
<1>6. QED  BY <1>2, <1>5, FS_CardinalityType DEF T

LEMMA RankBounded ==
  ASSUME NEW times \in SUBSET Nat, IsFiniteSet(times), NEW t \in times
  PROVE  Recent!Rank(times, t) \in 1..Cardinality(times)
<1> DEFINE S == {x \in times : x <= t}
<1>1. S \subseteq times /\ t \in S
  OBVIOUS
<1>2. IsFiniteSet(S) /\ Cardinality(S) <= Cardinality(times)
  BY <1>1, FS_Subset
<1>3. Cardinality(S) \in Nat /\ Cardinality(times) \in Nat
  BY <1>2, FS_CardinalityType
<1>4. Cardinality(S) # 0
  BY <1>1, <1>2, FS_EmptySet
<1>5. Recent!Rank(times, t) = Cardinality(S)
  BY SameCardinality DEF Recent!Rank
<1> HIDE DEF S
<1>6. QED  BY <1>2, <1>3, <1>4, <1>5

\* Compact keeps all of an entry but its time.
LEMMA CompactKeeps ==
  ASSUME NEW cache \in Seq(RawEntry), Len(cache) <= MaxUserCacheCount
  PROVE  /\ Compact(cache) \in Seq(Entry) /\ Len(Compact(cache)) = Len(cache)
         /\ \A i \in 1..Len(cache) :
              /\ Compact(cache)[i].id = cache[i].id
              /\ Compact(cache)[i].name = cache[i].name
              /\ Compact(cache)[i].screenName = cache[i].screenName
              /\ Compact(cache)[i].lastModified =
                   Recent!Rank(Times(cache), cache[i].lastModified)
<1> DEFINE R(i) == Recent!Rank(Times(cache), cache[i].lastModified)
           g == [i \in 1..Len(cache) |-> [cache[i] EXCEPT !.lastModified = R(i)]]
<1>1. Len(cache) \in Nat /\ DOMAIN cache = 1..Len(cache)
      /\ \A i \in 1..Len(cache) : cache[i] \in RawEntry
  BY LenProperties, ElementOfSeq
<1>2. ASSUME NEW i \in 1..Len(cache) PROVE R(i) \in 1..MaxUserCacheCount
  <2>1. cache[i].lastModified \in Times(cache)
    BY <1>1 DEF Times
  <2>2. R(i) \in 1..Cardinality(Times(cache))
    BY <2>1, TimesBounded, RankBounded
  <2>3. QED  BY <2>2, <1>1, TimesBounded, CacheAssumption
<1>3. Compact(cache) = g
  BY <1>1 DEF Compact
<1> HIDE DEF R
<1>4. \A i \in 1..Len(cache) :
        /\ g[i] \in Entry /\ g[i].id = cache[i].id /\ g[i].name = cache[i].name
        /\ g[i].screenName = cache[i].screenName /\ g[i].lastModified = R(i)
  BY <1>1, <1>2 DEF RawEntry, Entry
<1>5. g \in Seq(Entry) /\ Len(g) = Len(cache)
  <2>1. g \in [1..Len(cache) -> Entry]
    BY <1>4
  <2>2. QED  BY <2>1, <1>1, IsASeq, LenProperties, SMTT(30)
<1>6. QED  BY <1>3, <1>4, <1>5 DEF R

\* What the clock tells is a number.
LEMMA NowIsTime ==
  ASSUME NEW cache \in Seq(RawEntry), NEW now \in Recent!Now(Times(cache))
  PROVE  now \in Nat
<1> DEFINE T == Times(cache)
<1>1. T \subseteq Nat /\ Cardinality(T) \in Nat
  BY TimesBounded
<1>2. now \in {n \in T : \A x \in T : x <= n} \cup {Cardinality(T) + 1}
  BY SameCardinality DEF Recent!Now
<1> HIDE DEF T
<1>3. QED  BY <1>1, <1>2

-----------------------------------------------------------------------------
(* The cache.                                                              *)

\* Whose entries are in a cache.
IdsOf(cache) == {cache[i].id : i \in 1..Len(cache)}

\* No user has two entries, and each has the name that the user had when last
\* seen, for its name and its screen name.
Named(cache, names) ==
  /\ \A i, k \in 1..Len(cache) : cache[i].id = cache[k].id => i = k
  /\ \A i \in 1..Len(cache) :
       cache[i].name = cache[i].screenName /\ names[cache[i].id] = cache[i].screenName
  /\ names \in [IdsOf(cache) -> Name]

CacheInv ==
  /\ userCache \in Seq(Entry) /\ Len(userCache) <= MaxUserCacheCount
  /\ Named(userCache, told)

\* Of the goroutines, beside their types: who is about to insert a user has
\* found no entry of the user's, and is alone.
JobsInv ==
  /\ userCacheLock \in Jobs \cup {Nobody}
  /\ pc \in [Jobs -> {"idle", "lock", "range", "insert"}]
  /\ \A j \in Jobs : pc[j] \in {"range", "insert"} <=> userCacheLock = j
  /\ users \in [Jobs -> UserMap]
  /\ user \in [Jobs -> TwitterUser \cup {NoUser}]
  /\ \A j \in Jobs : pc[j] = "insert" <=> user[j] # NoUser

Missing == \A j \in Jobs : pc[j] = "insert" => user[j].id \notin IdsOf(userCache)

IInv == CacheInv /\ JobsInv /\ Missing

LEMMA CacheFacts ==
  ASSUME CacheInv
  PROVE  /\ userCache \in Seq(RawEntry) /\ Len(userCache) \in Nat
         /\ DOMAIN userCache = 1..Len(userCache)
         /\ Ids = IdsOf(userCache)
         /\ \A i \in 1..Len(userCache) : userCache[i] \in Entry /\ userCache[i] \in RawEntry
<1>1. userCache \in Seq(Entry)
  BY DEF CacheInv
<1>2. userCache \in Seq(RawEntry)
  BY <1>1, EntryIsRaw, SeqMonotonic
<1>3. Len(userCache) \in Nat /\ DOMAIN userCache = 1..Len(userCache)
  BY <1>1, LenProperties
<1>4. \A i \in 1..Len(userCache) : userCache[i] \in Entry
  BY <1>1, ElementOfSeq
<1>5. QED  BY <1>2, <1>3, <1>4, EntryIsRaw DEF Ids, IdsOf

\* Compact changes nothing that Named is about.
LEMMA CompactNamed ==
  ASSUME NEW cache \in Seq(RawEntry), Len(cache) <= MaxUserCacheCount,
         NEW names, Named(cache, names)
  PROVE  /\ Compact(cache) \in Seq(Entry) /\ Len(Compact(cache)) <= MaxUserCacheCount
         /\ Named(Compact(cache), names)
         /\ IdsOf(Compact(cache)) = IdsOf(cache)
<1> DEFINE c == Compact(cache)
<1>1. /\ c \in Seq(Entry) /\ Len(c) = Len(cache)
      /\ \A i \in 1..Len(cache) :
           c[i].id = cache[i].id /\ c[i].name = cache[i].name
           /\ c[i].screenName = cache[i].screenName
  BY CompactKeeps
<1> HIDE DEF c
<1>2. IdsOf(c) = IdsOf(cache)
  BY <1>1 DEF IdsOf
<1>3. Named(c, names)
  BY <1>1, <1>2 DEF Named
<1>4. QED  BY <1>1, <1>2, <1>3 DEF c

\* A known user is seen.  Whatever the entry says, the test for a change holds,
\* for its screen name is its name.
LEMMA SeenAgain ==
  ASSUME CacheInv, NEW u \in TwitterUser, NEW i \in 1..Len(userCache),
         userCache[i].id = u.id, NEW now \in Recent!Now(Times(userCache)),
         userCache' = Compact([userCache EXCEPT ![i] = Updated(@, u, now)]),
         told' = [told EXCEPT ![u.id] = u.name]
  PROVE  CacheInv' /\ IdsOf(userCache)' = IdsOf(userCache)
<1> DEFINE e == Updated(userCache[i], u, now)
           c == [userCache EXCEPT ![i] = e]
           n == [told EXCEPT ![u.id] = u.name]
<1>1. /\ userCache \in Seq(RawEntry) /\ Len(userCache) \in Nat
      /\ \A k \in 1..Len(userCache) : userCache[k] \in RawEntry
      /\ now \in Nat /\ Len(userCache) <= MaxUserCacheCount
  BY CacheFacts, NowIsTime DEF CacheInv
<1>2. /\ \A k, l \in 1..Len(userCache) : userCache[k].id = userCache[l].id => k = l
      /\ \A k \in 1..Len(userCache) :
           /\ userCache[k].name = userCache[k].screenName
           /\ told[userCache[k].id] = userCache[k].screenName
      /\ told \in [IdsOf(userCache) -> Name]
  BY DEF CacheInv, Named
<1>3. /\ u.id \in UserId /\ u.name \in Name /\ u.profile_image_url \in Image
  BY DEF TwitterUser
<1>4. Changed(userCache[i], u)
  BY <1>2 DEF Changed
<1>5. e = [id |-> u.id, name |-> u.name, screenName |-> u.name,
           profileImage |-> u.profile_image_url, lastModified |-> now]
  BY <1>4 DEF Updated
<1>6. e \in RawEntry /\ e.id = u.id /\ e.name = u.name /\ e.screenName = u.name
  BY <1>1, <1>3, <1>5 DEF RawEntry
<1> HIDE DEF e
<1>7. /\ c \in Seq(RawEntry) /\ Len(c) = Len(userCache) /\ c[i] = e
      /\ \A k \in 1..Len(userCache) : k # i => c[k] = userCache[k]
  BY <1>1, <1>6, ExceptSeq
<1> HIDE DEF c
<1>8. \A k \in 1..Len(userCache) : c[k].id = userCache[k].id
  BY <1>6, <1>7
<1>9. IdsOf(c) = IdsOf(userCache) /\ u.id \in IdsOf(userCache)
  BY <1>7, <1>8 DEF IdsOf
<1>10. n \in [IdsOf(c) -> Name] /\ n[u.id] = u.name
       /\ \A v \in IdsOf(userCache) : v # u.id => n[v] = told[v]
  BY <1>2, <1>3, <1>9
<1> HIDE DEF n
<1>11. Named(c, n)
  <2>1. ASSUME NEW k \in 1..Len(c)
        PROVE  c[k].name = c[k].screenName /\ n[c[k].id] = c[k].screenName
    <3>1. CASE k = i
      BY <3>1, <1>6, <1>7, <1>10
    <3>2. CASE k # i
      <4>1. c[k] = userCache[k] /\ userCache[k].id # u.id /\ userCache[k].id \in IdsOf(userCache)
        BY <2>1, <3>2, <1>2, <1>7 DEF IdsOf
      <4>2. QED  BY <4>1, <2>1, <1>2, <1>7, <1>10
    <3>3. QED  BY <3>1, <3>2
  <2>2. \A k, l \in 1..Len(c) : c[k].id = c[l].id => k = l
    BY <1>2, <1>7, <1>8
  <2>3. QED  BY <2>1, <2>2, <1>10 DEF Named
<1>12. userCache' = Compact(c) /\ told' = n
  BY DEF c, e, n
<1>13. Len(c) <= MaxUserCacheCount
  BY <1>1, <1>7
<1>14. /\ userCache' \in Seq(Entry) /\ Len(userCache') <= MaxUserCacheCount
       /\ Named(userCache', told') /\ IdsOf(userCache') = IdsOf(c)
  <2>1. /\ Compact(c) \in Seq(Entry) /\ Len(Compact(c)) <= MaxUserCacheCount
        /\ Named(Compact(c), n) /\ IdsOf(Compact(c)) = IdsOf(c)
    BY <1>7, <1>11, <1>13, CompactNamed, Zenon
  <2>2. QED  BY <2>1, <1>12, Zenon
<1>15. QED  BY <1>9, <1>14 DEF CacheInv, IdsOf

\* A user is put in, that had no entry.
LEMMA PutIn ==
  ASSUME CacheInv, NEW u \in TwitterUser, u.id \notin IdsOf(userCache),
         Len(userCache) < MaxUserCacheCount,
         NEW now \in Recent!Now(Times(userCache)),
         userCache' = Compact(Append(userCache,
                        [id |-> u.id, name |-> u.name, screenName |-> u.name,
                         profileImage |-> u.profile_image_url, lastModified |-> now])),
         told' = [v \in Ids \cup {u.id} |-> IF v = u.id THEN u.name ELSE told[v]]
  PROVE  CacheInv'
<1> DEFINE e == [id |-> u.id, name |-> u.name, screenName |-> u.name,
                 profileImage |-> u.profile_image_url, lastModified |-> now]
           c == Append(userCache, e)
           n == [v \in Ids \cup {u.id} |-> IF v = u.id THEN u.name ELSE told[v]]
           len == Len(userCache)
<1>1. /\ userCache \in Seq(RawEntry) /\ len \in Nat /\ now \in Nat
      /\ Ids = IdsOf(userCache) /\ MaxUserCacheCount \in Nat
  BY CacheFacts, NowIsTime, CacheAssumption
<1>2. /\ \A k, l \in 1..len : userCache[k].id = userCache[l].id => k = l
      /\ \A k \in 1..len :
           /\ userCache[k].name = userCache[k].screenName
           /\ told[userCache[k].id] = userCache[k].screenName
      /\ told \in [IdsOf(userCache) -> Name]
  BY DEF CacheInv, Named
<1>3. /\ e \in RawEntry /\ e.id = u.id /\ e.name = u.name /\ e.screenName = u.name
      /\ u.name \in Name
  BY <1>1 DEF TwitterUser, RawEntry
<1> HIDE DEF e
<1>4. /\ c \in Seq(RawEntry) /\ Len(c) = len + 1 /\ c[len + 1] = e
      /\ \A k \in 1..len : c[k] = userCache[k]
  BY <1>1, <1>3, AppendProperties
<1>5. /\ n \in [Ids \cup {u.id} -> Name] /\ n[u.id] = u.name
      /\ \A v \in Ids : n[v] = told[v]
  BY <1>1, <1>2, <1>3
<1> HIDE DEF c, n
<1>6. \A k \in 1..len : userCache[k].id \in Ids /\ userCache[k].id # u.id
  BY <1>1 DEF IdsOf
<1>7. \A k \in 1..Len(c) : k \in 1..len \/ k = len + 1
  BY <1>1, <1>4
<1>8. IdsOf(c) = Ids \cup {u.id}
  <2>1. len + 1 \in 1..Len(c) /\ \A k \in 1..len : k \in 1..Len(c)
    BY <1>1, <1>4
  <2>2. QED  BY <2>1, <1>1, <1>3, <1>4, <1>7 DEF IdsOf
<1>9. Named(c, n)
  <2>1. \A k \in 1..Len(c) : c[k].name = c[k].screenName /\ n[c[k].id] = c[k].screenName
    BY <1>2, <1>3, <1>4, <1>5, <1>6, <1>7
  <2>2. \A k, l \in 1..Len(c) : c[k].id = c[l].id => k = l
    BY <1>2, <1>3, <1>4, <1>6, <1>7
  <2>3. QED  BY <2>1, <2>2, <1>5, <1>8 DEF Named
<1>10. userCache' = Compact(c) /\ told' = n /\ Len(c) <= MaxUserCacheCount
  BY <1>1, <1>4 DEF c, e, n
<1>11. /\ userCache' \in Seq(Entry) /\ Len(userCache') <= MaxUserCacheCount
       /\ Named(userCache', told')
  BY <1>4, <1>9, <1>10, CompactNamed
<1>12. QED  BY <1>11 DEF CacheInv

\* An entry goes: the last one takes its place.
LEMMA TakeOut ==
  ASSUME CacheInv, Len(userCache) > 0, NEW m \in 1..Len(userCache),
         userCache' = Compact(Front([userCache EXCEPT ![m] = Last(userCache)])),
         told' = Restrict(told, Ids')
  PROVE  CacheInv' /\ IdsOf(userCache)' = IdsOf(userCache) \ {userCache[m].id}
<1> DEFINE len == Len(userCache)
           d == [userCache EXCEPT ![m] = Last(userCache)]
           c == Front(d)
<1>1. /\ userCache \in Seq(RawEntry) /\ len \in Nat /\ len > 0 /\ len <= MaxUserCacheCount
      /\ MaxUserCacheCount \in Nat /\ Ids = IdsOf(userCache)
      /\ \A k \in 1..len : userCache[k] \in RawEntry
  BY CacheFacts, CacheAssumption DEF CacheInv
<1>2. /\ \A k, l \in 1..len : userCache[k].id = userCache[l].id => k = l
      /\ \A k \in 1..len :
           /\ userCache[k].name = userCache[k].screenName
           /\ told[userCache[k].id] = userCache[k].screenName
      /\ told \in [IdsOf(userCache) -> Name]
  BY DEF CacheInv, Named
<1>3. Last(userCache) = userCache[len] /\ len \in 1..len
  BY <1>1 DEF Last
<1>4. /\ d \in Seq(RawEntry) /\ Len(d) = len /\ d[m] = userCache[len]
      /\ \A k \in 1..len : k # m => d[k] = userCache[k]
  BY <1>1, <1>3, ExceptSeq
<1> HIDE DEF d
<1>5. /\ c \in Seq(RawEntry) /\ Len(c) = len - 1
      /\ \A k \in 1..(len - 1) : c[k] = d[k]
  <2>1. c = SubSeq(d, 1, len - 1)
    BY <1>4 DEF Front
  <2>2. QED  BY <2>1, <1>1, <1>4
<1> HIDE DEF c
\* Where the entry at a place was before.
<1> DEFINE from == [k \in 1..(len - 1) |-> IF k = m THEN len ELSE k]
<1>6. /\ \A k \in 1..(len - 1) : from[k] \in 1..len /\ from[k] # m /\ c[k] = userCache[from[k]]
      /\ \A k, l \in 1..(len - 1) : from[k] = from[l] => k = l
      /\ \A k \in 1..len : k # m => \E l \in 1..(len - 1) : from[l] = k
  <2>1. ASSUME NEW k \in 1..(len - 1)
        PROVE  from[k] \in 1..len /\ from[k] # m /\ c[k] = userCache[from[k]]
    <3>1. k \in 1..len /\ k # len
      BY <1>1
    <3>2. QED  BY <3>1, <1>3, <1>4, <1>5
  <2>2. \A k, l \in 1..(len - 1) : from[k] = from[l] => k = l
    BY <1>1
  <2>3. ASSUME NEW k \in 1..len, k # m PROVE \E l \in 1..(len - 1) : from[l] = k
    <3>1. CASE k = len
      <4>1. m \in 1..(len - 1)
        BY <3>1, <2>3, <1>1
      <4>2. QED  BY <4>1, <3>1
    <3>2. CASE k # len
      <4>1. k \in 1..(len - 1)
        BY <3>2, <1>1
      <4>2. QED  BY <4>1, <2>3
    <3>3. QED  BY <3>1, <3>2
  <2>4. QED  BY <2>1, <2>2, <2>3
<1> DEFINE places == 1..(len - 1)
<1>7. /\ 1..Len(c) = places
      /\ \A k \in places : from[k] \in 1..len /\ from[k] # m /\ c[k] = userCache[from[k]]
      /\ \A k, l \in places : from[k] = from[l] => k = l
      /\ \A k \in 1..len : k # m => \E l \in places : from[l] = k
  BY <1>5, <1>6
<1> HIDE DEF from, places
<1>8. IdsOf(c) = Ids \ {userCache[m].id}
  <2>1. ASSUME NEW v, v \in IdsOf(c) PROVE v \in Ids /\ v # userCache[m].id
    <3>1. PICK k \in places : v = c[k].id
      BY <2>1, <1>7, Zenon DEF IdsOf
    <3>2. from[k] \in 1..len /\ from[k] # m /\ v = userCache[from[k]].id
      BY <3>1, <1>7, Zenon
    <3>3. userCache[from[k]].id # userCache[m].id
      BY <3>2, <1>2, Zenon
    <3>4. QED  BY <3>2, <3>3, <1>1, Zenon DEF IdsOf
  <2>2. ASSUME NEW v, v \in Ids, v # userCache[m].id PROVE v \in IdsOf(c)
    <3>1. PICK k \in 1..len : v = userCache[k].id
      BY <2>2, <1>1, Zenon DEF IdsOf
    <3>2. PICK l \in places : from[l] = k
      BY <3>1, <2>2, <1>7, Zenon
    <3>3. v = c[l].id
      BY <3>1, <3>2, <1>7, Zenon
    <3>4. QED  BY <3>2, <3>3, <1>7, Zenon DEF IdsOf
  <2>3. QED  BY <2>1, <2>2
<1> DEFINE n == Restrict(told, IdsOf(c))
<1>9. n \in [IdsOf(c) -> Name] /\ \A v \in IdsOf(c) : n[v] = told[v]
  BY <1>1, <1>2, <1>8 DEF Restrict
<1> HIDE DEF n
<1>10. Named(c, n)
  <2>1. ASSUME NEW k \in 1..Len(c)
        PROVE  c[k].name = c[k].screenName /\ n[c[k].id] = c[k].screenName
    <3>1. c[k].id \in IdsOf(c) /\ c[k] = userCache[from[k]] /\ from[k] \in 1..len
      BY <1>7, Zenon DEF IdsOf
    <3>2. /\ userCache[from[k]].name = userCache[from[k]].screenName
          /\ told[userCache[from[k]].id] = userCache[from[k]].screenName
      BY <3>1, <1>2, Zenon
    <3>3. n[c[k].id] = told[c[k].id]
      BY <3>1, <1>9, Zenon
    <3>4. QED  BY <3>1, <3>2, <3>3
  <2>2. ASSUME NEW k \in 1..Len(c), NEW l \in 1..Len(c), c[k].id = c[l].id PROVE k = l
    <3>1. /\ c[k] = userCache[from[k]] /\ from[k] \in 1..len
          /\ c[l] = userCache[from[l]] /\ from[l] \in 1..len
      BY <1>7, Zenon
    <3>2. from[k] = from[l]
      BY <2>2, <3>1, <1>2, Zenon
    <3>3. QED  BY <3>2, <1>7, Zenon
  <2>3. QED  BY <2>1, <2>2, <1>9, Zenon DEF Named
<1>11. Len(c) <= MaxUserCacheCount /\ userCache' = Compact(c)
  BY <1>1, <1>5 DEF c, d
<1>12. /\ userCache' \in Seq(Entry) /\ Len(userCache') <= MaxUserCacheCount
       /\ Named(userCache', n) /\ IdsOf(userCache') = IdsOf(c)
  BY <1>5, <1>10, <1>11, CompactNamed
<1>13. Ids' = IdsOf(userCache')
  <2>1. DOMAIN userCache' = 1..Len(userCache')
    BY <1>12, LenProperties
  <2>2. QED  BY <2>1 DEF Ids, IdsOf
<1>14. told' = n
  BY <1>12, <1>13 DEF n
<1>15. QED  BY <1>1, <1>8, <1>12, <1>14 DEF CacheInv, IdsOf

LEMMA LeastNatural ==
  ASSUME NEW T \in SUBSET Nat, T # {}
  PROVE  \E x \in T : \A y \in T : x <= y
<1> DEFINE R == {p \in Nat \X Nat : p[1] < p[2]}
<1>1. R = OpToRel(<, Nat)
  BY Zenon DEF OpToRel
<1>2. IsWellFoundedOn(R, Nat)
  BY <1>1, NatLessThanWellFounded, Zenon
<1> HIDE DEF R
<1>3. PICK x \in T : \A y \in T : <<y, x>> \notin R
  BY <1>2, WFMin
<1>4. \A y \in T : ~(y < x)
  BY <1>3 DEF R
<1>5. QED  BY <1>4

\* There is an oldest entry, and MinIndex is its place.
LEMMA MinIndexIsOldest ==
  ASSUME CacheInv, Len(userCache) > 0
  PROVE  /\ MinIndex \in 1..Len(userCache)
         /\ \A k \in 1..Len(userCache) :
              userCache[MinIndex].lastModified <= userCache[k].lastModified
<1>1. /\ Len(userCache) \in Nat /\ DOMAIN userCache = 1..Len(userCache)
      /\ \A i \in 1..Len(userCache) : userCache[i].lastModified \in Nat
  BY CacheFacts DEF RawEntry
<1> DEFINE P == 1..Len(userCache)
           time(i) == userCache[i].lastModified
           Oldest == {i \in P : \A k \in P : time(i) <= time(k)}
<1>2. Oldest # {}
  <2> DEFINE T == {time(i) : i \in P}
  <2>1. T \in SUBSET Nat /\ T # {}
    <3>1. 1 \in P
      BY <1>1
    <3>2. QED  BY <3>1, <1>1
  <2>2. PICK x \in T : \A y \in T : x <= y
    <3> HIDE DEF T
    <3>1. QED  BY <2>1, LeastNatural
  <2>3. PICK i \in P : x = time(i)
    OBVIOUS
  <2>4. QED  BY <2>2, <2>3
<1>3. PICK i \in Oldest : \A k \in Oldest : i <= k
  <2>1. Oldest \in SUBSET Nat
    BY <1>1
  <2> HIDE DEF Oldest
  <2>2. QED  BY <1>2, <2>1, LeastNatural
<1>4. \A k \in P : time(i) <= time(k) /\ (time(i) = time(k) => i <= k)
  BY <1>3, <1>1
<1> DEFINE First(m) == \A k \in DOMAIN userCache :
                         /\ userCache[m].lastModified <= userCache[k].lastModified
                         /\ userCache[m].lastModified = userCache[k].lastModified => m <= k
<1>5. \E m \in DOMAIN userCache : First(m)
  BY <1>1, <1>3, <1>4
<1>6. MinIndex = CHOOSE m \in DOMAIN userCache : First(m)
  BY DEF MinIndex
<1> HIDE DEF First
<1>7. MinIndex \in DOMAIN userCache /\ First(MinIndex)
  BY <1>5, <1>6, Zenon
<1>8. QED  BY <1>1, <1>7 DEF First

-----------------------------------------------------------------------------
(* The goroutines.                                                         *)

\* As Ids is what IdsOf says of the cache, in the next state too.
LEMMA IdsAreIdsOf ==
  /\ CacheInv => Ids = IdsOf(userCache)
  /\ CacheInv' => Ids' = IdsOf(userCache)'
<1>1. CacheInv => Ids = IdsOf(userCache)
  BY CacheFacts
<1>2. ASSUME CacheInv' PROVE Ids' = IdsOf(userCache)'
  <2>1. userCache' \in Seq(Entry)
    BY <1>2 DEF CacheInv
  <2>2. DOMAIN userCache' = 1..Len(userCache')
    BY <2>1, LenProperties
  <2>3. QED  BY <2>2 DEF Ids, IdsOf
<1>3. QED  BY <1>1, <1>2

LEMMA CacheRests == CacheInv /\ UNCHANGED <<userCache, told>> => CacheInv'
BY DEF CacheInv, Named, IdsOf

LEMMA WaitKeeps ==
  ASSUME IInv, NEW j \in Jobs, Begin(j) \/ Lock(j) \/ Unlock(j)
  PROVE  IInv'
<1>1. CacheInv' /\ IdsOf(userCache)' = IdsOf(userCache)
  BY CacheRests DEF IInv, Begin, Lock, Unlock, IdsOf
<1>2. JobsInv'
  BY CacheAssumption DEF IInv, JobsInv, Begin, Lock, Unlock
<1>3. Missing'
  BY <1>1 DEF IInv, JobsInv, Missing, Begin, Lock, Unlock
<1>4. QED  BY <1>1, <1>2, <1>3 DEF IInv

\* Who is about to insert holds the lock.
LEMMA OneInserts ==
  ASSUME JobsInv, NEW j \in Jobs, pc[j] \in {"range", "insert"}
  PROVE  /\ userCacheLock = j
         /\ \A h \in Jobs \ {j} : pc[h] \notin {"range", "insert"}
BY DEF JobsInv

LEMMA LookKeeps ==
  ASSUME IInv, NEW j \in Jobs, Look(j)
  PROVE  IInv'
<1>1. PICK u \in users[j] :
        /\ users' = [users EXCEPT ![j] = @ \ {u}]
        /\ \/ /\ u.id \notin Ids
              /\ pc' = [pc EXCEPT ![j] = "insert"]
              /\ user' = [user EXCEPT ![j] = u]
              /\ UNCHANGED <<userCache, told>>
           \/ \E i \in DOMAIN userCache, now \in Recent!Now(Times(userCache)) :
                /\ userCache[i].id = u.id
                /\ userCache' = Compact([userCache EXCEPT ![i] = Updated(@, u, now)])
                /\ told' = [told EXCEPT ![u.id] = u.name]
                /\ UNCHANGED <<pc, user>>
  BY DEF Look
<1>2. pc[j] = "range" /\ userCacheLock' = userCacheLock
  BY DEF Look
<1>3. /\ u \in TwitterUser /\ u # NoUser
      /\ users' \in [Jobs -> UserMap]
  BY <1>1, CacheAssumption DEF IInv, JobsInv, UserMap, TwitterUser
<1>4. CASE /\ u.id \notin Ids
           /\ pc' = [pc EXCEPT ![j] = "insert"]
           /\ user' = [user EXCEPT ![j] = u]
           /\ UNCHANGED <<userCache, told>>
  <2>1. CacheInv' /\ IdsOf(userCache)' = IdsOf(userCache)
    BY <1>4, CacheRests DEF IInv, IdsOf
  <2>2. /\ pc'[j] = "insert" /\ user'[j] = u
        /\ \A h \in Jobs \ {j} : pc'[h] = pc[h] /\ user'[h] = user[h]
        /\ pc' \in [Jobs -> {"idle", "lock", "range", "insert"}]
        /\ user' \in [Jobs -> TwitterUser \cup {NoUser}]
    BY <1>3, <1>4 DEF IInv, JobsInv
  <2>3. JobsInv'
    <3>1. \A h \in Jobs : pc'[h] \in {"range", "insert"} <=> userCacheLock' = h
      BY <1>2, <2>2 DEF IInv, JobsInv
    <3>2. \A h \in Jobs : pc'[h] = "insert" <=> user'[h] # NoUser
      BY <1>3, <2>2 DEF IInv, JobsInv
    <3>3. QED  BY <1>2, <1>3, <2>2, <3>1, <3>2 DEF IInv, JobsInv
  <2>4. u.id \notin IdsOf(userCache)'
    BY <1>4, <2>1, IdsAreIdsOf DEF IInv
  <2>5. Missing'
    BY <2>1, <2>2, <2>4 DEF IInv, Missing
  <2>6. QED  BY <2>1, <2>3, <2>5 DEF IInv
<1>5. CASE \E i \in DOMAIN userCache, now \in Recent!Now(Times(userCache)) :
             /\ userCache[i].id = u.id
             /\ userCache' = Compact([userCache EXCEPT ![i] = Updated(@, u, now)])
             /\ told' = [told EXCEPT ![u.id] = u.name]
             /\ UNCHANGED <<pc, user>>
  <2>1. PICK i \in DOMAIN userCache, now \in Recent!Now(Times(userCache)) :
          /\ userCache[i].id = u.id
          /\ userCache' = Compact([userCache EXCEPT ![i] = Updated(@, u, now)])
          /\ told' = [told EXCEPT ![u.id] = u.name]
          /\ UNCHANGED <<pc, user>>
    BY <1>5
  <2>2. i \in 1..Len(userCache)
    BY CacheFacts DEF IInv
  <2>3. CacheInv' /\ IdsOf(userCache)' = IdsOf(userCache)
    BY <1>3, <2>1, <2>2, SeenAgain DEF IInv
  <2>4. JobsInv'
    BY <1>2, <1>3, <2>1 DEF IInv, JobsInv
  <2>5. Missing'
    BY <2>1, <2>3 DEF IInv, Missing
  <2>6. QED  BY <2>3, <2>4, <2>5 DEF IInv
<1>6. QED  BY <1>1, <1>4, <1>5

LEMMA EvictKeeps ==
  ASSUME IInv, NEW j \in Jobs, Evict(j)
  PROVE  /\ IInv' /\ MinIndex \in 1..Len(userCache)
         /\ IdsOf(userCache)' = IdsOf(userCache) \ {userCache[MinIndex].id}
<1>1. /\ pc[j] = "insert" /\ Len(userCache) >= MaxUserCacheCount
      /\ userCache' = Compact(Front([userCache EXCEPT ![MinIndex] = Last(userCache)]))
      /\ told' = Restrict(told, Ids')
      /\ UNCHANGED <<userCacheLock, pc, users, user>>
  BY DEF Evict, jobVars
<1>2. Len(userCache) > 0
  BY <1>1, CacheAssumption, CacheFacts DEF IInv
<1>3. MinIndex \in 1..Len(userCache)
  BY <1>2, MinIndexIsOldest DEF IInv
<1>4. CacheInv' /\ IdsOf(userCache)' = IdsOf(userCache) \ {userCache[MinIndex].id}
  BY <1>1, <1>2, <1>3, TakeOut DEF IInv
<1>5. JobsInv'
  BY <1>1 DEF IInv, JobsInv
<1>6. Missing'
  BY <1>1, <1>4 DEF IInv, Missing
<1>7. QED  BY <1>3, <1>4, <1>5, <1>6 DEF IInv

LEMMA InsertKeeps ==
  ASSUME IInv, NEW j \in Jobs, Insert(j)
  PROVE  IInv'
<1>1. /\ pc[j] = "insert" /\ pc' = [pc EXCEPT ![j] = "range"]
      /\ Len(userCache) < MaxUserCacheCount
      /\ user' = [user EXCEPT ![j] = NoUser]
      /\ UNCHANGED <<userCacheLock, users>>
  BY DEF Insert
<1>2. user[j] \in TwitterUser /\ user[j].id \notin IdsOf(userCache)
  BY <1>1 DEF IInv, JobsInv, Missing
<1>3. CacheInv'
  BY <1>1, <1>2, PutIn DEF IInv, Insert
<1>4. JobsInv'
  BY <1>1 DEF IInv, JobsInv
<1>5. Missing'
  <2>1. \A h \in Jobs : pc'[h] # "insert"
    BY <1>1, OneInserts DEF IInv, JobsInv
  <2>2. QED  BY <2>1 DEF Missing
<1>6. QED  BY <1>3, <1>4, <1>5 DEF IInv

LEMMA ClearKeeps ==
  ASSUME IInv, Clear
  PROVE  IInv'
<1>1. /\ userCacheLock = Nobody /\ userCache' = <<>> /\ told' = Restrict(told, {})
      /\ UNCHANGED <<userCacheLock, pc, users, user>>
  BY DEF Clear, jobVars
<1>2. CacheInv'
  <2>1. <<>> \in Seq(Entry) /\ Len(<<>>) = 0 /\ 1..0 = {}
    OBVIOUS
  <2>2. Named(<<>>, Restrict(told, {}))
    BY <2>1 DEF Named, IdsOf, Restrict
  <2>3. QED  BY <1>1, <2>1, <2>2, CacheAssumption DEF CacheInv
<1>3. JobsInv'
  BY <1>1 DEF IInv, JobsInv
<1>4. Missing'
  BY <1>1, CacheAssumption DEF IInv, JobsInv, Missing
<1>5. QED  BY <1>2, <1>3, <1>4 DEF IInv

LEMMA InitHolds == Init => IInv
<1>1. SUFFICES ASSUME Init PROVE IInv
  OBVIOUS
<1>2. <<>> \in Seq(Entry) /\ Len(<<>>) = 0 /\ 1..0 = {}
  OBVIOUS
<1>3. CacheInv
  BY <1>1, <1>2, CacheAssumption DEF Init, CacheInv, Named, IdsOf
<1>4. {} \in UserMap
  BY DEF UserMap
<1>5. JobsInv /\ Missing
  BY <1>1, <1>4, CacheAssumption DEF Init, JobsInv, Missing
<1>6. QED  BY <1>3, <1>5 DEF IInv

LEMMA StepKeeps == IInv /\ [Next]_vars => IInv'
<1>1. SUFFICES ASSUME IInv, [Next]_vars PROVE IInv'
  OBVIOUS
<1>2. CASE UNCHANGED vars
  <2>1. CacheInv' /\ IdsOf(userCache)' = IdsOf(userCache)
    BY <1>1, <1>2, CacheRests DEF IInv, vars, IdsOf
  <2>2. QED  BY <1>1, <1>2, <2>1 DEF IInv, vars, jobVars, JobsInv, Missing
<1>3. QED
  BY <1>1, <1>2, WaitKeeps, LookKeeps, EvictKeeps, InsertKeeps, ClearKeeps DEF Next

\* Every reachable state satisfies the inductive invariant.
THEOREM Invariance == Spec => []IInv
BY InitHolds, StepKeeps, PTL DEF Spec

\* The cache has no more users than it may have and none twice, and a
\* goroutine of Account.UserCache is within its loop if it holds userCacheLock.
THEOREM TypeCorrect == Spec => []TypeOK
<1>1. ASSUME IInv PROVE TypeOK
  <2>1. Ids = IdsOf(userCache) /\ DOMAIN userCache = 1..Len(userCache)
    BY <1>1, CacheFacts DEF IInv
  <2>2. IsInjective([i \in DOMAIN userCache |-> userCache[i].id])
    BY <1>1, <2>1 DEF IInv, CacheInv, Named, IsInjective
  <2>3. QED  BY <1>1, <2>1, <2>2 DEF IInv, CacheInv, Named, JobsInv, TypeOK
<1>2. QED  BY <1>1, Invariance, PTL

\* GetUserCache never leads by a name to a user who had another when last seen.
THEOREM LookupFindsCurrent == Spec => []LookupIsCurrent
<1>1. ASSUME IInv, NEW n \in Name, NEW u \in GetUserCache(n) PROVE told[u] = n
  <2>1. PICK i \in DOMAIN userCache : userCache[i].screenName = n /\ u = userCache[i].id
    BY <1>1 DEF GetUserCache
  <2>2. i \in 1..Len(userCache)
    BY <1>1, CacheFacts DEF IInv
  <2>3. QED  BY <1>1, <2>1, <2>2 DEF IInv, CacheInv, Named
<1>2. IInv => LookupIsCurrent
  BY <1>1 DEF LookupIsCurrent
<1>3. QED  BY <1>2, Invariance, PTL

-----------------------------------------------------------------------------
(* The slice implements RecentUsers.                                       *)

\* What the refinement takes for seen, of any cache.
SeenOf(cache, ids) ==
  [u \in ids |-> LET i == CHOOSE i \in DOMAIN cache : cache[i].id = u
                 IN  cache[i].lastModified]

Seen(cache) == SeenOf(cache, IdsOf(cache))

Distinct(cache) ==
  \A i, k \in 1..Len(cache) : cache[i].id = cache[k].id => i = k

LEMMA SeenAt ==
  ASSUME NEW cache \in Seq(RawEntry), Distinct(cache)
  PROVE  /\ \A i \in 1..Len(cache) : Seen(cache)[cache[i].id] = cache[i].lastModified
         /\ {Seen(cache)[v] : v \in IdsOf(cache)} = Times(cache)
         /\ DOMAIN Seen(cache) = IdsOf(cache)
         /\ Seen(cache) = [u \in IdsOf(cache) |-> Seen(cache)[u]]
<1>1. DOMAIN cache = 1..Len(cache)
  BY LenProperties
<1>2. ASSUME NEW i \in 1..Len(cache) PROVE Seen(cache)[cache[i].id] = cache[i].lastModified
  <2> DEFINE k == CHOOSE k \in DOMAIN cache : cache[k].id = cache[i].id
  <2>1. k \in DOMAIN cache /\ cache[k].id = cache[i].id
    BY <1>1
  <2>2. k = i
    BY <1>1, <2>1 DEF Distinct
  <2>3. cache[i].id \in IdsOf(cache)
    BY DEF IdsOf
  <2>4. Seen(cache)[cache[i].id] = cache[k].lastModified
    BY <2>3 DEF Seen, SeenOf
  <2>5. QED  BY <2>2, <2>4
<1>3. {Seen(cache)[v] : v \in IdsOf(cache)} = Times(cache)
  BY <1>1, <1>2 DEF IdsOf, Times
<1>4. DOMAIN Seen(cache) = IdsOf(cache) /\ Seen(cache) = [u \in IdsOf(cache) |-> Seen(cache)[u]]
  BY DEF Seen, SeenOf
<1>5. QED  BY <1>2, <1>3, <1>4

LEMMA SeenCompact ==
  ASSUME NEW cache \in Seq(RawEntry), Distinct(cache), Len(cache) <= MaxUserCacheCount
  PROVE  Seen(Compact(cache)) = Recent!Compact(Seen(cache))
<1> DEFINE c == Compact(cache)
           g == Recent!Compact(Seen(cache))
<1>1. /\ c \in Seq(Entry) /\ Len(c) = Len(cache)
      /\ \A i \in 1..Len(cache) :
           /\ c[i].id = cache[i].id
           /\ c[i].lastModified = Recent!Rank(Times(cache), cache[i].lastModified)
  BY CompactKeeps
<1>2. c \in Seq(RawEntry)
  BY <1>1, EntryIsRaw, SeqMonotonic
<1>3. g = [u \in IdsOf(cache) |-> Recent!Rank(Times(cache), Seen(cache)[u])]
  BY SeenAt, Zenon DEF Recent!Compact
<1> HIDE DEF c, g
<1>4. Distinct(c) /\ IdsOf(c) = IdsOf(cache)
  BY <1>1 DEF Distinct, IdsOf
<1>5. ASSUME NEW u \in IdsOf(cache) PROVE Seen(c)[u] = g[u]
  <2>1. PICK i \in 1..Len(cache) : u = cache[i].id
    BY DEF IdsOf
  <2>2. Seen(c)[u] = c[i].lastModified
    BY <2>1, <1>1, <1>2, <1>4, SeenAt
  <2>3. Seen(cache)[u] = cache[i].lastModified
    BY <2>1, SeenAt
  <2>4. QED  BY <2>1, <2>2, <2>3, <1>1, <1>3
<1>6. Seen(c) = [u \in IdsOf(cache) |-> Seen(c)[u]]
  BY <1>2, <1>4, SeenAt
<1>7. Seen(c) = g
  BY <1>3, <1>5, <1>6
<1>8. QED  BY <1>7 DEF c, g

LEMMA InvDistinct == CacheInv => Distinct(userCache)
BY DEF CacheInv, Named, Distinct

\* There are as many users as entries.
LEMMA IdsCounted ==
  ASSUME CacheInv
  PROVE  Cardinality(IdsOf(userCache)) = Len(userCache)
<1> DEFINE P == 1..Len(userCache)
           f == [i \in P |-> userCache[i].id]
<1>1. Len(userCache) \in Nat
  BY CacheFacts
<1>2. IsFiniteSet(P) /\ Cardinality(P) = Len(userCache)
  <2>1. /\ IsFiniteSet(1..Len(userCache))
        /\ Cardinality(1..Len(userCache)) = IF 1 > Len(userCache) THEN 0
                                            ELSE Len(userCache) - 1 + 1
    BY <1>1, FS_Interval, SMTT(30)
  <2>2. QED  BY <1>1, <2>1
<1>3. f \in Surjection(P, IdsOf(userCache)) /\ f \in Injection(P, IdsOf(userCache))
  BY InvDistinct DEF IdsOf, Distinct, Surjection, Injection, IsInjective
<1> HIDE DEF P, f
<1>4. QED  BY <1>2, <1>3, FS_Surjection

\* Recent!See with next for what is seen in the next state.
Sees(u, next) ==
  /\ u \in DOMAIN Seen(userCache)
       \/ Recent!Cardinality(DOMAIN Seen(userCache)) < MaxUserCacheCount
  /\ \E n \in Recent!Now({Seen(userCache)[v] : v \in DOMAIN Seen(userCache)}) :
       next = Recent!Compact([v \in DOMAIN Seen(userCache) \cup {u} |->
                                IF v = u THEN n ELSE Seen(userCache)[v]])

LEMMA RefinesSee ==
  ASSUME CacheInv, NEW u \in UserId,
         u \in IdsOf(userCache) \/ Len(userCache) < MaxUserCacheCount,
         NEW now \in Recent!Now(Times(userCache)),
         NEW c \in Seq(RawEntry), Distinct(c), Len(c) <= MaxUserCacheCount,
         IdsOf(c) = IdsOf(userCache) \cup {u},
         \A v \in IdsOf(c) : Seen(c)[v] = IF v = u THEN now ELSE Seen(userCache)[v],
         NEW next, next = Seen(Compact(c))
  PROVE  Sees(u, next)
<1>1. userCache \in Seq(RawEntry) /\ Distinct(userCache)
  BY CacheFacts, InvDistinct
<1>2. /\ DOMAIN Seen(userCache) = IdsOf(userCache)
      /\ {Seen(userCache)[v] : v \in DOMAIN Seen(userCache)} = Times(userCache)
  BY <1>1, SeenAt, Zenon
<1>3. Recent!Cardinality(DOMAIN Seen(userCache)) = Len(userCache)
  BY <1>2, IdsCounted, SameCardinality
<1>4. Seen(c) = [v \in IdsOf(userCache) \cup {u} |->
                   IF v = u THEN now ELSE Seen(userCache)[v]]
  <2>1. Seen(c) = [v \in IdsOf(c) |-> Seen(c)[v]]
    BY SeenAt, Zenon
  <2>2. QED  BY <2>1
<1>5. next = Recent!Compact([v \in DOMAIN Seen(userCache) \cup {u} |->
                               IF v = u THEN now ELSE Seen(userCache)[v]])
  BY <1>2, <1>4, SeenCompact
<1>6. QED  BY <1>2, <1>3, <1>5 DEF Sees

\* A known user is seen again.
LEMMA LookRefines ==
  ASSUME CacheInv, NEW u \in TwitterUser, NEW i \in 1..Len(userCache),
         userCache[i].id = u.id, NEW now \in Recent!Now(Times(userCache)),
         NEW next,
         next = Seen(Compact([userCache EXCEPT ![i] = Updated(@, u, now)]))
  PROVE  Sees(u.id, next)
<1> DEFINE e == Updated(userCache[i], u, now)
           c == [userCache EXCEPT ![i] = e]
<1>1. /\ userCache \in Seq(RawEntry) /\ now \in Nat /\ Distinct(userCache)
      /\ userCache[i] \in RawEntry /\ Len(userCache) <= MaxUserCacheCount
  BY CacheFacts, NowIsTime, InvDistinct DEF CacheInv
<1>2. e \in RawEntry /\ e.id = u.id /\ e.lastModified = now
  BY <1>1 DEF Updated, RawEntry, TwitterUser
<1>3. next = Seen(Compact(c)) /\ u.id \in UserId
  BY DEF TwitterUser
<1> HIDE DEF e
<1>4. /\ c \in Seq(RawEntry) /\ Len(c) = Len(userCache) /\ c[i] = e
      /\ \A k \in 1..Len(userCache) : k # i => c[k] = userCache[k]
  BY <1>1, <1>2, ExceptSeq
<1> HIDE DEF c
<1>5. \A k \in 1..Len(userCache) : c[k].id = userCache[k].id
  BY <1>2, <1>4
<1>6. /\ Distinct(c) /\ IdsOf(c) = IdsOf(userCache) /\ u.id \in IdsOf(userCache)
      /\ IdsOf(c) = IdsOf(userCache) \cup {u.id}
  <2>1. Distinct(c)
    BY <1>1, <1>4, <1>5 DEF Distinct
  <2>2. IdsOf(c) = IdsOf(userCache)
    BY <1>4, <1>5, Zenon DEF IdsOf
  <2>3. u.id \in IdsOf(userCache)
    BY <1>1 DEF IdsOf
  <2>4. QED  BY <2>1, <2>2, <2>3
<1>7. ASSUME NEW v \in IdsOf(c)
      PROVE  Seen(c)[v] = IF v = u.id THEN now ELSE Seen(userCache)[v]
  <2>1. PICK k \in 1..Len(c) : v = c[k].id
    BY DEF IdsOf
  <2>2. Seen(c)[v] = c[k].lastModified /\ Seen(userCache)[v] = userCache[k].lastModified
    BY <2>1, <1>1, <1>4, <1>5, <1>6, SeenAt
  <2>3. v = u.id <=> k = i
    BY <2>1, <1>1, <1>4, <1>5 DEF Distinct
  <2>4. QED  BY <2>1, <2>2, <2>3, <1>2, <1>4
<1>8. Len(c) <= MaxUserCacheCount
  BY <1>1, <1>4
<1>9. QED  BY <1>3, <1>4, <1>6, <1>7, <1>8, RefinesSee, Zenon

\* A user is seen that was not, with room left.
LEMMA InsertRefines ==
  ASSUME CacheInv, NEW u \in TwitterUser, u.id \notin IdsOf(userCache),
         Len(userCache) < MaxUserCacheCount,
         NEW now \in Recent!Now(Times(userCache)),
         NEW next,
         next = Seen(Compact(Append(userCache,
                  [id |-> u.id, name |-> u.name, screenName |-> u.name,
                   profileImage |-> u.profile_image_url, lastModified |-> now])))
  PROVE  Sees(u.id, next)
<1> DEFINE e == [id |-> u.id, name |-> u.name, screenName |-> u.name,
                 profileImage |-> u.profile_image_url, lastModified |-> now]
           c == Append(userCache, e)
           len == Len(userCache)
<1>1. /\ userCache \in Seq(RawEntry) /\ now \in Nat /\ Distinct(userCache)
      /\ len \in Nat /\ MaxUserCacheCount \in Nat
  BY CacheFacts, NowIsTime, InvDistinct, CacheAssumption
<1>2. e \in RawEntry /\ e.id = u.id /\ e.lastModified = now
  BY <1>1 DEF RawEntry, TwitterUser
<1>3. next = Seen(Compact(c)) /\ u.id \in UserId
  BY DEF TwitterUser
<1> HIDE DEF e
<1>4. /\ c \in Seq(RawEntry) /\ Len(c) = len + 1 /\ c[len + 1] = e
      /\ \A k \in 1..len : c[k] = userCache[k]
  BY <1>1, <1>2, AppendProperties
<1> HIDE DEF c
<1>5. /\ \A k \in 1..len : userCache[k].id \in IdsOf(userCache) /\ userCache[k].id # u.id
      /\ \A k \in 1..Len(c) : k \in 1..len \/ k = len + 1
      /\ len + 1 \in 1..Len(c) /\ \A k \in 1..len : k \in 1..Len(c)
  BY <1>1, <1>4 DEF IdsOf
<1>6. IdsOf(c) = IdsOf(userCache) \cup {u.id}
  <2>1. ASSUME NEW v, v \in IdsOf(c) PROVE v \in IdsOf(userCache) \cup {u.id}
    <3>1. PICK k \in 1..Len(c) : v = c[k].id
      BY <2>1 DEF IdsOf
    <3>2. QED  BY <3>1, <1>2, <1>4, <1>5
  <2>2. ASSUME NEW v, v \in IdsOf(userCache) \cup {u.id} PROVE v \in IdsOf(c)
    <3>1. CASE v = u.id
      BY <3>1, <1>2, <1>4, <1>5, Zenon DEF IdsOf
    <3>2. CASE v \in IdsOf(userCache)
      <4>1. PICK k \in 1..len : v = userCache[k].id
        BY <3>2 DEF IdsOf
      <4>2. c[k] = userCache[k] /\ k \in 1..Len(c)
        BY <4>1, <1>4, <1>5, Zenon
      <4>3. QED  BY <4>1, <4>2, Zenon DEF IdsOf
    <3>3. QED  BY <2>2, <3>1, <3>2
  <2>3. QED  BY <2>1, <2>2
<1>7. Distinct(c)
  BY <1>1, <1>2, <1>4, <1>5 DEF Distinct
<1>8. ASSUME NEW v \in IdsOf(c)
      PROVE  Seen(c)[v] = IF v = u.id THEN now ELSE Seen(userCache)[v]
  <2>1. PICK k \in 1..Len(c) : v = c[k].id
    BY DEF IdsOf
  <2>2. Seen(c)[v] = c[k].lastModified
    BY <2>1, <1>4, <1>7, SeenAt
  <2>3. CASE k \in 1..len
    <3>1. c[k] = userCache[k] /\ v # u.id
      BY <2>1, <2>3, <1>4, <1>5
    <3>2. Seen(userCache)[v] = userCache[k].lastModified
      BY <2>1, <2>3, <3>1, <1>1, SeenAt
    <3>3. QED  BY <2>2, <3>1, <3>2
  <2>4. CASE k = len + 1
    BY <2>1, <2>2, <2>4, <1>2, <1>4
  <2>5. QED  BY <2>3, <2>4, <1>5
<1>9. Len(c) <= MaxUserCacheCount
  BY <1>1, <1>4
<1>10. QED  BY <1>3, <1>4, <1>6, <1>7, <1>8, <1>9, RefinesSee, Zenon

\* Room is made by the user of the oldest entry.
LEMMA EvictRefines ==
  ASSUME CacheInv, Len(userCache) >= MaxUserCacheCount, NEW m \in 1..Len(userCache),
         \A k \in 1..Len(userCache) : userCache[m].lastModified <= userCache[k].lastModified,
         NEW next,
         next = Seen(Compact(Front([userCache EXCEPT ![m] = Last(userCache)])))
  PROVE  /\ userCache[m].id \in UserId /\ userCache[m].id \in DOMAIN Seen(userCache)
         /\ Recent!Cardinality(DOMAIN Seen(userCache)) = MaxUserCacheCount
         /\ \A v \in DOMAIN Seen(userCache) : Seen(userCache)[userCache[m].id] <= Seen(userCache)[v]
         /\ next = Recent!Compact([v \in DOMAIN Seen(userCache) \ {userCache[m].id} |->
                                     Seen(userCache)[v]])
<1> DEFINE len == Len(userCache)
           d == [userCache EXCEPT ![m] = Last(userCache)]
           c == Front(d)
           u == userCache[m].id
           S == Seen(userCache)
<1>1. /\ userCache \in Seq(RawEntry) /\ len \in Nat /\ len > 0 /\ len = MaxUserCacheCount
      /\ \A k \in 1..len : userCache[k] \in RawEntry
      /\ \A k, l \in 1..len : userCache[k].id = userCache[l].id => k = l
      /\ Distinct(userCache)
  BY CacheFacts, CacheAssumption, InvDistinct DEF CacheInv, Named
<1>2. /\ DOMAIN S = IdsOf(userCache)
      /\ \A k \in 1..len : S[userCache[k].id] = userCache[k].lastModified
  BY <1>1, SeenAt, Zenon
<1>3. Last(userCache) = userCache[len] /\ len \in 1..len
  BY <1>1 DEF Last
<1>4. /\ d \in Seq(RawEntry) /\ Len(d) = len /\ d[m] = userCache[len]
      /\ \A k \in 1..len : k # m => d[k] = userCache[k]
  BY <1>1, <1>3, ExceptSeq
<1> HIDE DEF d
<1>5. /\ c \in Seq(RawEntry) /\ Len(c) = len - 1
      /\ \A k \in 1..(len - 1) : c[k] = d[k]
  <2>1. c = SubSeq(d, 1, len - 1)
    BY <1>4 DEF Front
  <2>2. QED  BY <2>1, <1>1, <1>4
<1>6. next = Seen(Compact(c))
  BY DEF d
<1> HIDE DEF c
<1> DEFINE from == [k \in 1..(len - 1) |-> IF k = m THEN len ELSE k]
           places == 1..(len - 1)
<1>7. /\ 1..Len(c) = places
      /\ \A k \in places : from[k] \in 1..len /\ from[k] # m /\ c[k] = userCache[from[k]]
      /\ \A k, l \in places : from[k] = from[l] => k = l
      /\ \A k \in 1..len : k # m => \E l \in places : from[l] = k
  <2>1. ASSUME NEW k \in places
        PROVE  from[k] \in 1..len /\ from[k] # m /\ c[k] = userCache[from[k]]
    <3>1. k \in 1..len /\ k # len
      BY <1>1
    <3>2. QED  BY <3>1, <1>3, <1>4, <1>5
  <2>2. \A k, l \in places : from[k] = from[l] => k = l
    BY <1>1
  <2>3. ASSUME NEW k \in 1..len, k # m PROVE \E l \in places : from[l] = k
    <3>1. CASE k = len
      <4>1. m \in places
        BY <3>1, <2>3, <1>1
      <4>2. QED  BY <4>1, <3>1
    <3>2. CASE k # len
      <4>1. k \in places
        BY <3>2, <1>1
      <4>2. QED  BY <4>1, <2>3
    <3>3. QED  BY <3>1, <3>2
  <2>4. QED  BY <2>1, <2>2, <2>3, <1>5
<1> HIDE DEF from, places
<1>8. Distinct(c)
  <2>1. ASSUME NEW k \in 1..Len(c), NEW l \in 1..Len(c), c[k].id = c[l].id PROVE k = l
    <3>1. /\ c[k] = userCache[from[k]] /\ from[k] \in 1..len
          /\ c[l] = userCache[from[l]] /\ from[l] \in 1..len
      BY <1>7, Zenon
    <3>2. from[k] = from[l]
      BY <2>1, <3>1, <1>1, Zenon
    <3>3. QED  BY <3>2, <1>7, Zenon
  <2>2. QED  BY <2>1, Zenon DEF Distinct
<1>9. IdsOf(c) = IdsOf(userCache) \ {u}
  <2>1. ASSUME NEW v, v \in IdsOf(c) PROVE v \in IdsOf(userCache) /\ v # u
    <3>1. PICK k \in places : v = c[k].id
      BY <2>1, <1>7, Zenon DEF IdsOf
    <3>2. from[k] \in 1..len /\ from[k] # m /\ v = userCache[from[k]].id
      BY <3>1, <1>7, Zenon
    <3>3. QED  BY <3>2, <1>1, Zenon DEF IdsOf
  <2>2. ASSUME NEW v, v \in IdsOf(userCache), v # u PROVE v \in IdsOf(c)
    <3>1. PICK k \in 1..len : v = userCache[k].id
      BY <2>2, Zenon DEF IdsOf
    <3>2. PICK l \in places : from[l] = k
      BY <3>1, <2>2, <1>7, Zenon
    <3>3. v = c[l].id
      BY <3>1, <3>2, <1>7, Zenon
    <3>4. QED  BY <3>2, <3>3, <1>7, Zenon DEF IdsOf
  <2>3. QED  BY <2>1, <2>2
<1>10. ASSUME NEW v \in IdsOf(c) PROVE Seen(c)[v] = S[v]
  <2>1. PICK k \in 1..Len(c) : v = c[k].id
    BY Zenon DEF IdsOf
  <2>2. Seen(c)[v] = c[k].lastModified
    BY <2>1, <1>5, <1>8, SeenAt, Zenon
  <2>3. from[k] \in 1..len /\ c[k] = userCache[from[k]]
    BY <1>7, Zenon
  <2>4. QED  BY <2>1, <2>2, <2>3, <1>2, Zenon
<1>11. Seen(c) = [v \in DOMAIN S \ {u} |-> S[v]]
  <2>1. Seen(c) = [v \in IdsOf(c) |-> Seen(c)[v]]
    BY <1>5, <1>8, SeenAt, Zenon
  <2>2. IdsOf(c) = DOMAIN S \ {u}
    BY <1>2, <1>9, Zenon
  <2> HIDE DEF S, u
  <2>3. QED  BY <2>1, <2>2, <1>10
<1>12. next = Recent!Compact([v \in DOMAIN S \ {u} |-> S[v]])
  <2>1. Len(c) <= MaxUserCacheCount
    BY <1>1, <1>5
  <2>2. Seen(Compact(c)) = Recent!Compact(Seen(c))
    BY <2>1, <1>5, <1>8, SeenCompact
  <2>3. QED  BY <2>2, <1>6, <1>11, Zenon
<1>13. u \in UserId /\ u \in DOMAIN S
  BY <1>1, <1>2, Zenon DEF RawEntry, IdsOf
<1>14. Recent!Cardinality(DOMAIN S) = MaxUserCacheCount
  BY <1>1, <1>2, IdsCounted, SameCardinality
<1>15. \A v \in DOMAIN S : S[u] <= S[v]
  <2>1. ASSUME NEW v \in DOMAIN S PROVE S[u] <= S[v]
    <3>1. PICK k \in 1..len : v = userCache[k].id
      BY <1>2, Zenon DEF IdsOf
    <3>2. S[v] = userCache[k].lastModified /\ S[u] = userCache[m].lastModified
      BY <3>1, <1>2, Zenon
    <3> HIDE DEF S, u, len
    <3>3. userCache[m].lastModified <= userCache[k].lastModified
      BY <3>1 DEF len
    <3>4. QED  BY <3>2, <3>3, Zenon
  <2>2. QED  BY <2>1
<1>16. QED  BY <1>12, <1>13, <1>14, <1>15, Zenon

\* A step of the goroutines or of the account is one of RecentUsers, or none.
LEMMA StepRefines ==
  ASSUME IInv, [Next]_vars
  PROVE  \/ Seen(userCache') = Seen(userCache)
         \/ Seen(userCache') = [u \in {} |-> 0]
         \/ \E u \in UserId :
              \/ Sees(u, Seen(userCache'))
              \/ /\ u \in DOMAIN Seen(userCache)
                 /\ Recent!Cardinality(DOMAIN Seen(userCache)) = MaxUserCacheCount
                 /\ \A v \in DOMAIN Seen(userCache) : Seen(userCache)[u] <= Seen(userCache)[v]
                 /\ Seen(userCache') =
                      Recent!Compact([v \in DOMAIN Seen(userCache) \ {u} |-> Seen(userCache)[v]])
<1>1. CASE userCache' = userCache
  BY <1>1
<1>2. CASE Clear
  <2>1. userCache' = <<>> /\ 1..Len(<<>>) = {}
    BY <1>2 DEF Clear
  <2>2. IdsOf(userCache') = {}
    BY <2>1 DEF IdsOf
  <2>3. QED  BY <2>2 DEF Seen, SeenOf
<1>3. ASSUME NEW j \in Jobs, Look(j), userCache' # userCache
      PROVE  \E u \in UserId : Sees(u, Seen(userCache'))
  <2>1. PICK u \in users[j], i \in DOMAIN userCache, now \in Recent!Now(Times(userCache)) :
          /\ userCache[i].id = u.id
          /\ userCache' = Compact([userCache EXCEPT ![i] = Updated(@, u, now)])
    BY <1>3 DEF Look
  <2>2. u \in TwitterUser /\ u.id \in UserId
    BY DEF IInv, JobsInv, UserMap, TwitterUser
  <2>3. i \in 1..Len(userCache)
    BY CacheFacts DEF IInv
  <2>4. Sees(u.id, Seen(userCache'))
    BY <2>1, <2>2, <2>3, LookRefines DEF IInv
  <2>5. QED  BY <2>2, <2>4
<1>4. ASSUME NEW j \in Jobs, Insert(j)
      PROVE  \E u \in UserId : Sees(u, Seen(userCache'))
  <2> DEFINE u == user[j]
  <2>1. /\ u \in TwitterUser /\ u.id \notin IdsOf(userCache) /\ u.id \in UserId
        /\ Len(userCache) < MaxUserCacheCount
    BY <1>4 DEF IInv, JobsInv, Missing, Insert, TwitterUser
  <2>2. PICK now \in Recent!Now(Times(userCache)) :
          userCache' = Compact(Append(userCache,
            [id |-> u.id, name |-> u.name, screenName |-> u.name,
             profileImage |-> u.profile_image_url, lastModified |-> now]))
    BY <1>4 DEF Insert
  <2> HIDE DEF u
  <2>3. Sees(u.id, Seen(userCache'))
    BY <2>1, <2>2, InsertRefines DEF IInv
  <2>4. QED  BY <2>1, <2>3
<1>5. ASSUME NEW j \in Jobs, Evict(j)
      PROVE  \E u \in UserId :
               /\ u \in DOMAIN Seen(userCache)
               /\ Recent!Cardinality(DOMAIN Seen(userCache)) = MaxUserCacheCount
               /\ \A v \in DOMAIN Seen(userCache) : Seen(userCache)[u] <= Seen(userCache)[v]
               /\ Seen(userCache') =
                    Recent!Compact([v \in DOMAIN Seen(userCache) \ {u} |-> Seen(userCache)[v]])
  <2>1. /\ Len(userCache) >= MaxUserCacheCount
        /\ userCache' = Compact(Front([userCache EXCEPT ![MinIndex] = Last(userCache)]))
    BY <1>5 DEF Evict
  <2>2. /\ MinIndex \in 1..Len(userCache)
        /\ \A k \in 1..Len(userCache) :
             userCache[MinIndex].lastModified <= userCache[k].lastModified
    BY <2>1, MinIndexIsOldest, CacheAssumption, CacheFacts DEF IInv
  <2> DEFINE m == MinIndex
  <2> HIDE DEF m
  <2>3. /\ m \in 1..Len(userCache)
        /\ \A k \in 1..Len(userCache) : userCache[m].lastModified <= userCache[k].lastModified
        /\ userCache' = Compact(Front([userCache EXCEPT ![m] = Last(userCache)]))
    BY <2>1, <2>2 DEF m
  <2>4. QED  BY <2>1, <2>3, EvictRefines DEF IInv
<1>6. QED
  BY <1>1, <1>2, <1>3, <1>4, <1>5 DEF Next, vars, Begin, Lock, Unlock

\* The slice of users, with its swaps and its times, implements what the cache
\* is for: room is made only if there is none, and then by a user who was not
\* seen for the longest time.
THEOREM CacheRemembersRecent == Spec => RemembersRecent
<1> DEFINE S == SeenOf(userCache, Ids)
<1>1. IInv => S = Seen(userCache)
  BY IdsAreIdsOf DEF IInv, Seen
<1>2. IInv' => S' = Seen(userCache')
  <2>1. IInv' => S' = SeenOf(userCache', IdsOf(userCache'))
    BY IdsAreIdsOf DEF IInv, IdsOf
  <2>2. QED  BY <2>1 DEF Seen
<1>3. Init => Recent!Init
  <2>1. SUFFICES ASSUME Init PROVE S = [u \in {} |-> 0]
    BY DEF Recent!Init, SeenOf
  <2>2. Ids = {}
    BY <2>1 DEF Init, Ids
  <2>3. QED  BY <2>2 DEF SeenOf
<1>4. IInv /\ IInv' /\ [Next]_vars => [Recent!Next]_S
  <2>1. SUFFICES ASSUME IInv, IInv', [Next]_vars PROVE S' = S \/ Recent!Next
    OBVIOUS
  <2> HIDE DEF S
  <2>2. CASE S' = S
    BY <2>2
  <2>3. CASE S' = [u \in {} |-> 0]
    BY <2>3 DEF S, SeenOf, Recent!Next, Recent!ForgetAll
  <2>4. ASSUME NEW u \in UserId, Sees(u, Seen(userCache')) PROVE Recent!Next
    <3>1. /\ u \in DOMAIN S \/ Recent!Cardinality(DOMAIN S) < MaxUserCacheCount
          /\ \E n \in Recent!Now({S[v] : v \in DOMAIN S}) :
               S' = Recent!Compact([v \in DOMAIN S \cup {u} |-> IF v = u THEN n ELSE S[v]])
      BY <2>1, <2>4, <1>1, <1>2, Zenon DEF Sees
    <3>2. Recent!See(u)
      BY <3>1, Zenon DEF S, SeenOf, Recent!See
    <3>3. QED  BY <3>2, Zenon DEF Recent!Next
  <2>5. ASSUME NEW u \in UserId,
               u \in DOMAIN S, Recent!Cardinality(DOMAIN S) = MaxUserCacheCount,
               \A v \in DOMAIN S : S[u] <= S[v],
               S' = Recent!Compact([v \in DOMAIN S \ {u} |-> S[v]])
        PROVE  Recent!Next
    <3>1. Recent!Forget(u)
      BY <2>5, Zenon DEF S, SeenOf, Recent!Forget
    <3>2. QED  BY <3>1, Zenon DEF Recent!Next
  <2>6. QED
    BY <2>1, <2>2, <2>3, <2>4, <2>5, <1>1, <1>2, StepRefines, Zenon
<1>5. IInv /\ IInv' /\ [Next]_vars =>
        [Recent!Next]_[u \in Ids |->
                         LET i == CHOOSE i \in DOMAIN userCache : userCache[i].id = u
                         IN  userCache[i].lastModified]
  BY <1>4 DEF SeenOf
<1>6. QED
  BY <1>3, <1>5, Invariance, PTL DEF Spec, RemembersRecent, Recent!Spec
=============================================================================

------------------------------ MODULE UserCache ------------------------------
(***************************************************************************)
(* Account.userCache: a slice of at most MaxUserCacheCount users, under    *)
(* userCacheLock.  Goroutines of Account.UserCache, one for each answer    *)
(* that had users, put users in; the last handler to leave empties it;     *)
(* Account.GetUserCache looks for a user.                                  *)
(*                                                                         *)
(* A goroutine holds the lock for all users of its answer.  Its steps are  *)
(* those a goroutine without the lock could get between.                   *)
(*                                                                         *)
(* Abstracted: users without the fields that are read, which are skipped;  *)
(* the user_update packets of known users, whose goroutines touch no entry *)
(* of the cache; the time, of which the order is kept (RecentUsers).       *)
(***************************************************************************)
EXTENDS Naturals, Sequences, FiniteSets, SequencesExt

CONSTANTS
  UserId,             \* ids of users
  Name,               \* names, and the screen names they are stored as
  Image,              \* values of profile_image_url
  Jobs,               \* goroutines of Account.UserCache
  MaxUserCacheCount,
  Nobody,             \* no holder of userCacheLock
  NoUser              \* no user to insert

ASSUME CacheAssumption ==
  /\ MaxUserCacheCount \in Nat \ {0}
  /\ Nobody \notin Jobs
  /\ NoUser \notin [id : UserId, name : Name, profile_image_url : Image]

VARIABLES
  userCache,
  userCacheLock,
  pc,     \* where each goroutine is
  users,  \* the users it has still to range over
  user,   \* the one it is about to insert
  told    \* history: the name of each user in the cache when last seen

jobVars == <<pc, users, user>>
vars == <<userCache, userCacheLock, jobVars, told>>

\* A user of an answer: of TwitterUser, what the loop reads.
TwitterUser == [id : UserId, name : Name, profile_image_url : Image]

\* The map of an answer, which has one user for each id.
UserMap ==
  {S \in SUBSET TwitterUser : \A u, v \in S : u.id = v.id => u = v}

Entry ==
  [id : UserId, name : Name, screenName : Name, profileImage : Image,
   lastModified : 1..MaxUserCacheCount]

Ids == {userCache[i].id : i \in DOMAIN userCache}
Times(cache) == {cache[i].lastModified : i \in DOMAIN cache}

\* Every variable has its type, the lock is held by who is between Lock and
\* the deferred Unlock, there are no more users than there may be, and none
\* twice.
TypeOK ==
  /\ userCache \in Seq(Entry)
  /\ Len(userCache) <= MaxUserCacheCount
  /\ IsInjective([i \in DOMAIN userCache |-> userCache[i].id])
  /\ userCacheLock \in Jobs \cup {Nobody}
  /\ pc \in [Jobs -> {"idle", "lock", "range", "insert"}]
  /\ \A j \in Jobs : pc[j] \in {"range", "insert"} <=> userCacheLock = j
  /\ users \in [Jobs -> UserMap]
  /\ user \in [Jobs -> TwitterUser \cup {NoUser}]
  /\ \A j \in Jobs : pc[j] = "insert" <=> user[j] # NoUser
  /\ told \in [Ids -> Name]

Init ==
  /\ userCache = <<>>
  /\ userCacheLock = Nobody
  /\ pc = [j \in Jobs |-> "idle"]
  /\ users = [j \in Jobs |-> {}]
  /\ user = [j \in Jobs |-> NoUser]
  /\ told = [u \in {} |-> NoUser]

-----------------------------------------------------------------------------
(* Time.                                                                   *)

Recent == INSTANCE RecentUsers WITH
  Room <- MaxUserCacheCount,
  seen <- [u \in Ids |->
             LET i == CHOOSE i \in DOMAIN userCache : userCache[i].id = u
             IN  userCache[i].lastModified]

\* The cache with its times as small as may be.
Compact(cache) ==
  [i \in DOMAIN cache |->
     [cache[i] EXCEPT !.lastModified = Recent!Rank(Times(cache), @)]]

-----------------------------------------------------------------------------
(* Account.UserCache.                                                      *)

\* refreshThread starts a goroutine with the users of an answer.
Begin(j) ==
  /\ pc[j] = "idle" /\ pc' = [pc EXCEPT ![j] = "lock"]
  /\ \E S \in UserMap \ {{}} : users' = [users EXCEPT ![j] = S]
  /\ UNCHANGED <<userCache, userCacheLock, user, told>>

\* Lock, if the lock were one for readers.
LockShared(j) ==
  /\ pc[j] = "lock" /\ pc' = [pc EXCEPT ![j] = "range"]
  /\ userCacheLock' = j
  /\ UNCHANGED <<userCache, users, user, told>>

Lock(j) ==
  /\ pc[j] = "lock" /\ pc' = [pc EXCEPT ![j] = "range"]
  /\ userCacheLock = Nobody /\ userCacheLock' = j
  /\ UNCHANGED <<userCache, users, user, told>>

\* Changed, if screenName were read from where it is.
ChangedElsewhere(entry, u) ==
  \/ entry.name = u.name
  \/ entry.profileImage # u.profile_image_url

\* A known user was seen: lastModified is set, and if the test for a change
\* says so, what there is to know.  As screenName is taken from the name, the
\* test holds of every user: either the names are equal or one differs.
Changed(entry, u) ==
  \/ entry.name = u.name
  \/ entry.screenName # u.name
  \/ entry.profileImage # u.profile_image_url

Updated(entry, u, now) ==
  IF Changed(entry, u)
  THEN [id |-> u.id, name |-> u.name, screenName |-> u.name,
        profileImage |-> u.profile_image_url, lastModified |-> now]
  ELSE [entry EXCEPT !.lastModified = now]

\* The loop takes a user, in no order, and looks for an entry.
Look(j) ==
  /\ pc[j] = "range"
  /\ \E u \in users[j] :
       /\ users' = [users EXCEPT ![j] = @ \ {u}]
       /\ \/ /\ u.id \notin Ids
             /\ pc' = [pc EXCEPT ![j] = "insert"]
             /\ user' = [user EXCEPT ![j] = u]
             /\ UNCHANGED <<userCache, told>>
          \/ \E i \in DOMAIN userCache, now \in Recent!Now(Times(userCache)) :
               /\ userCache[i].id = u.id
               /\ userCache' =
                    Compact([userCache EXCEPT ![i] = Updated(@, u, now)])
               /\ told' = [told EXCEPT ![u.id] = u.name]
               /\ UNCHANGED <<pc, user>>
  /\ UNCHANGED userCacheLock

\* MinIndex, if Before were After.
MaxIndex ==
  CHOOSE i \in DOMAIN userCache :
    \A k \in DOMAIN userCache :
      userCache[i].lastModified >= userCache[k].lastModified

\* The first of the entries modified the longest ago.
MinIndex ==
  CHOOSE i \in DOMAIN userCache :
    \A k \in DOMAIN userCache :
      /\ userCache[i].lastModified <= userCache[k].lastModified
      /\ userCache[i].lastModified = userCache[k].lastModified => i <= k

\* There is no room: the last entry takes the place of the oldest.
Evict(j) ==
  /\ pc[j] = "insert"
  /\ Len(userCache) >= MaxUserCacheCount
  /\ userCache' =
       Compact(Front([userCache EXCEPT ![MinIndex] = Last(userCache)]))
  /\ told' = Restrict(told, Ids')
  /\ UNCHANGED <<userCacheLock, jobVars>>

\* There is room: a new entry.
Insert(j) ==
  /\ pc[j] = "insert" /\ pc' = [pc EXCEPT ![j] = "range"]
  /\ Len(userCache) < MaxUserCacheCount
  /\ LET u == user[j]
     IN  /\ \E now \in Recent!Now(Times(userCache)) :
              userCache' =
                Compact(Append(userCache,
                  [id |-> u.id, name |-> u.name, screenName |-> u.name,
                   profileImage |-> u.profile_image_url,
                   lastModified |-> now]))
         /\ told' = [v \in Ids \cup {u.id} |->
                       IF v = u.id THEN u.name ELSE told[v]]
  /\ user' = [user EXCEPT ![j] = NoUser]
  /\ UNCHANGED <<userCacheLock, users>>

\* The deferred Unlock.
Unlock(j) ==
  /\ pc[j] = "range" /\ users[j] = {} /\ pc' = [pc EXCEPT ![j] = "idle"]
  /\ userCacheLock' = Nobody
  /\ UNCHANGED <<userCache, users, user, told>>

-----------------------------------------------------------------------------
(* The rest of the account.                                                *)

\* The last handler leaves.  Goroutines that were started before may still
\* be about to lock.
Clear ==
  /\ userCacheLock = Nobody
  /\ userCache' = <<>> /\ told' = Restrict(told, {})
  /\ UNCHANGED <<userCacheLock, jobVars>>

\* What GetUserCache may return for a screen name: the first match, or
\* nothing.
GetUserCache(findScreenName) ==
  {userCache[i].id : i \in
     {i \in DOMAIN userCache :
        /\ userCache[i].screenName = findScreenName
        /\ \A k \in 1 .. i - 1 : userCache[k].screenName # findScreenName}}

-----------------------------------------------------------------------------
Next ==
  \/ Clear
  \/ \E j \in Jobs :
       \/ Begin(j) \/ Lock(j) \/ Look(j) \/ Evict(j) \/ Insert(j) \/ Unlock(j)

Spec == Init /\ [][Next]_vars

-----------------------------------------------------------------------------
(* Properties.                                                             *)

\* The slice with its swaps remembers who was seen last: it loses a user only
\* when it is full, and then one unseen for the longest time, or when the
\* session is over.
RemembersRecent == Recent!Spec

\* A name leads to a user who had it when last seen, although a known user's
\* entry is only rewritten if the test for a change says so.
LookupIsCurrent ==
  \A n \in Name : \A u \in GetUserCache(n) : told[u] = n
=============================================================================

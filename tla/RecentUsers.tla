----------------------------- MODULE RecentUsers -----------------------------
(***************************************************************************)
(* What Account.userCache is for: it remembers the users that were seen    *)
(* last, up to a number of them.  Room is made only when there is none, and*)
(* by a user unseen for the longest time.                                  *)
(*                                                                         *)
(* A time is a number, equal for users seen before the clock moved.  Only  *)
(* the order of the times counts, so they are kept as small as may be.     *)
(***************************************************************************)
EXTENDS Naturals, FiniteSets

CONSTANTS
  UserId,  \* ids of users
  Room     \* the number of users there is room for

VARIABLE seen  \* for each user remembered, when the user was last seen

\* The place of a time among the times.
Rank(times, time) == Cardinality({x \in times : x <= time})

Compact(f) == [u \in DOMAIN f |-> Rank({f[v] : v \in DOMAIN f}, f[u])]

\* The times that the clock may tell, if the latest of some times was now:
\* it has moved or it has not.
Now(times) ==
  {n \in times : \A x \in times : x <= n} \cup {Cardinality(times) + 1}

Init == seen = [u \in {} |-> 0]

\* A user is seen, again or with room left.
See(u) ==
  /\ u \in DOMAIN seen \/ Cardinality(DOMAIN seen) < Room
  /\ \E now \in Now({seen[v] : v \in DOMAIN seen}) :
       seen' = Compact([v \in DOMAIN seen \cup {u} |->
                          IF v = u THEN now ELSE seen[v]])

\* With no room left, a user unseen for the longest time is forgotten.
Forget(u) ==
  /\ u \in DOMAIN seen
  /\ Cardinality(DOMAIN seen) = Room
  /\ \A v \in DOMAIN seen : seen[u] <= seen[v]
  /\ seen' = Compact([v \in DOMAIN seen \ {u} |-> seen[v]])

\* The session is over.
ForgetAll == seen' = [u \in {} |-> 0]

Next == ForgetAll \/ \E u \in UserId : See(u) \/ Forget(u)

Spec == Init /\ [][Next]_seen
=============================================================================

--------------------------- MODULE PolledTimelines ---------------------------
(***************************************************************************)
(* What AddConnectionAndWait promises for the streams of one account: the  *)
(* clients come and go one at a time, the first one has each timeline      *)
(* polled by a thread of its own, which is the same for as long as there is*)
(* a client, and with the last one gone all the threads are told to end.   *)
(***************************************************************************)
CONSTANTS
  Handlers,   \* one for each client
  TimeLines,  \* the account's timelines
  Threads,    \* what may poll a timeline
  None        \* no thread

VARIABLES
  clients,  \* the handlers of the clients that stream
  poller,   \* the thread that polls each timeline, or None
  ending    \* threads of earlier sessions, which were told to end

vars == <<clients, poller, ending>>

Idle == [tl \in TimeLines |-> None]

Init == clients = {} /\ poller = Idle /\ ending = {}

\* The first client's timelines get a thread each, and none that is ending.
Join(h) ==
  /\ h \notin clients
  /\ clients' = clients \cup {h}
  /\ \/ /\ clients = {}
        /\ poller' \in [TimeLines -> Threads \ ending]
        /\ \A a, b \in TimeLines : poller'[a] = poller'[b] => a = b
     \/ clients # {} /\ poller' = poller
  /\ ending' = ending

Leave(h) ==
  /\ h \in clients
  /\ clients' = clients \ {h}
  /\ \/ /\ clients' = {}
        /\ poller' = Idle
        /\ ending' = ending \cup {poller[tl] : tl \in TimeLines}
     \/ clients' # {} /\ UNCHANGED <<poller, ending>>

End(t) ==
  /\ t \in ending
  /\ ending' = ending \ {t}
  /\ UNCHANGED <<clients, poller>>

Next == (\E h \in Handlers : Join(h) \/ Leave(h)) \/ \E t \in Threads : End(t)

Spec == Init /\ [][Next]_vars
=============================================================================

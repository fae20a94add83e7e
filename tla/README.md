# StreamingRespiratorServer in TLA+

StreamingRespiratorServer gives Twitter clients back the user stream that Twitter
shut down. It polls three timelines of an account with the account's cookies and
pushes what it finds to every client that has opened a stream; it also stands
between the clients and `api.twitter.com`, as a web server, as an HTTP proxy and
as an intercepting HTTPS proxy, so that it can add to the stream what a call causes.

The modules below are translated from the Go sources in `src/`. `PROJECT.json`
lists the components, the runs, the mutants of the code that the properties
detect, the lines each definition stands for, the hazards and the theorems.

## The system

| Component | State | Operations | Properties that make it right |
|---|---|---|---|
| Streaming sessions, `account.go:143-222` | the list of connections, `connectionsLock`; the user cache, `userCacheLock` | a handler joins, sends the friends, waits, leaves; the first starts the timelines, the last stops them and empties the cache | the timelines poll exactly while there is a client; a timeline polls once; whoever leaves has left in the end |
| Timeline polling, `timeline.go` | `runningCtxCancel`; the thread's cursor and `isFirstRefresh` | `Start`, `Stop`, `refreshThread`, `update` | a stopped thread ends; nothing is lost or given twice by a failed refresh; old items are not taken for new ones; the waits keep within the quota |
| Timeline parsers, `timeline-*.go`, `twitter-*.go` | none | JSON to a cursor, packets and users | the cursor passes exactly what was given; packets are sorted |
| Connection, `connection.go` | `closed`, `writeLock`, the keep-alive timer | `Send`, `sendInner`, `keepAlive` | one write at a time; at most one that begins once the handler has returned, and none after it; the goroutines end with the connection |
| Broadcast, `account.go:246-292`, `packet.go`, `bytes-pool.go` | buffers and the pool | `newPacket`, `Account.Send`, `Release` | every packet goes to every connection; a buffer has one owner |
| Intercepting proxy, `server-https.go` | the client's TLS reader, one pipe and one writer for each request | read a request, start a handler, copy its answer | an answer follows a whole one; every request answered; no goroutine left in a pipe |
| API handlers, `server-handle-api.go`, `packet*.go` | none of their own; the pool; the request's body, while it is in the client's reader | forward a call; `destroy`, `retweet`, `update` and direct messages add packets, some by goroutines that ask again | one header for each answer; a handler that is overtaken touches nothing of the next request |
| User cache, `account.go:335-461` | at most 500 users | look-up, update, eviction, `user_update` | no user twice; the oldest goes first |
| Verification, `account.go:106-141` | a verdict and its time, `verifiedLock` | three tries with pauses under the lock, the verdict kept for a minute | nobody is let in on an old verdict; who waits gets one |
| Relay, `server-write.go:73-147`, `server-https.go:162-187` | two directions, read deadlines, a context | `copy`, `copyOneway`, `readerWithContext` | only an idle tunnel is cut; both directions end together |
| Plain proxy, `server.go:96-204`; websockets | the connection to the remote and its reader | forward requests one by one | an answer belongs to its request; the client does not wait in vain |
| Listener, `hyper-sock.go` | `handshaked`, the connection behind, the first six bytes | tell TLS from plain | no byte is lost, repeated or misplaced |
| Routing and authentication, `server*.go` | none | choose the handler, check the password, find the account, go over to HTTP/2 | the right account |
| Start-up, codecs, logging | configuration | | |

The components meet in these ways. A handler goroutine (net/http's, or one of the
intercepting proxy's) calls `AddConnectionAndWait`, which starts and stops the refresh
threads, after `VerifyCredentials` has let it in. A refresh thread starts goroutines for `Account.Send` and `Account.UserCache`
and never waits for them. `Account.Send` copies the list of connections under the read
lock and starts a goroutine for each connection, and that one a goroutine for each
packet, each of which calls `Connection.Send`. `UserCache`, the API handlers and the
friends timer send packets too. All packets live in buffers of one pool. A connection
of a client passes from the sniffing listener to net/http, from there request by request
to `ServeHTTP`, and in the end perhaps to the plain proxy, a tunnel, the intercepting
proxy or a stream, which keeps it until it is closed.

What is hard here: goroutines that nobody waits for and that hold what they read
earlier (a list, a buffer, a decoded answer, a timer); contexts that are discarded
(`account.go:175`) or never done (requests read by `http.ReadRequest`); timers that are
stopped while their callbacks run; two locks taken one inside the other; an unbuffered
channel that must be used exactly once; readers that are exchanged under whoever reads;
deadlines that one direction sets for the other; waits computed from another's clock.

## The modules

Every module has the code's names. Its header says what is abstracted.

**StreamSession** models the handlers in `AddConnectionAndWait`, the refresh threads
and the goroutines of `UserCache` at the grain of the two locks. `pc[h]` says where
handler `h` is: `LockToJoin` takes `connectionsLock` and tests `Len() == 0`,
`StartNext` starts one timeline, `Push` appends and unlocks, and so on to `ClearCache`.
`running[tl]` is `runningCtxCancel`, as the thread it would cancel. **PolledTimelines** is
the abstract specification: clients come and go one at a time, the first has each timeline
polled by a thread, the last has them end. StreamSession implements it (`OneSessionAtATime`)
with `clients` mapped to the list of connections and the threads to what a reader of the
list sees, who waits for the lock. The timelines are
started and stopped in any order, where the code has one order: every property then
holds for that order too. Handlers and threads are identities that are reused, so that
there is no bound on sessions.

**Connection** models one connection with everyone who calls `sendInner`: goroutines
of `Account.Send`, the chain of `sendFriends`, `keepAlive`. The steps of `sendInner`
are the test of `closed`, the lock, the select, the write's beginning and end, the failure path. `writer`
is chosen at the start: net/http's response writer, whose server cancels the context,
or the intercepting proxy's, whose context is never done. The data race on `tmrFriends`
(`account.go:193` and `:205`) is a choice: `Stop` acts on the current timer or on an
earlier one.

**Broadcast** models buffers from `newPacket` to `Release`, and the two levels of
goroutines of `Account.Send`. `sync.Pool` may return any buffer in it, or a new one;
a buffer nobody refers to stands for a new one.

**MitmProxy** models the loop of `handleProxyHttpsMitm` and the handlers it starts,
with the pipe and the unbuffered status channel between them. A handler is one of six
kinds, by how it answers and what it starts: a removal, a retweet, an update whose text
is a direct message, another update, any other call, the stream. `head` says that it was
asked with HEAD, so that `Response.Write` wants none of its body (`Brief`) and the loop may
leave it behind; `short`, that it answers without the body that its Content-Length
announces. `unread` is the body of the request while it is still in the client's reader:
`Identify` (the search for the account) or `Upstream` may read it, and what nobody reads, or
what a form has beyond 10 MB, is taken for the next request. `errand` is the goroutine that a handler leaves behind, which asks Twitter for a
status (`Inquire`) or sends a packet (`Tell`).

**TimelineFeed** models what a timeline hands to `Account.Send`: the items Twitter has,
the requests with a cursor, the parsers, and sessions that come and go. `timeline` is
chosen at the start and with it the parser. `opened`, `origin` and `lost` are history variables.

**UserCache** models the slice of users under its lock, with the steps of a goroutine
that holds it: look for a user, evict, insert. Times are kept as ranks, equal for users
seen before the clock moved, so that behaviours are not bounded. **RecentUsers** is the
abstract specification, a map from users to the time each was last seen, that forgets
only when it is full and only a user unseen for the longest time. UserCache implements
it (`RemembersRecent`) with `seen` mapped to the `lastModified` of each user's entry.

**VerifyCredentials** models the handlers that ask for a verdict: the lock, the verdict
kept for `Expires` ticks, three tries and the pauses between them. `confirmed` is a
history variable, the time since Twitter last said yes. **RefreshWait** models one thread's
requests against a window of Twitter's quota: `Wait` is the arithmetic of
`TimeLine.update`, with whole seconds, the spread over what remains, `ReduceApiCall`, and
a clock that differs by `Skew`; an answer may be used late, get lost, or find the quota
spent by others. **Pacing** composes the two on one clock: the thread runs exactly while a
verified handler is connected, as the first connection starts it and the last stops it.

**HyperConn** models the listener's connection: `Handshake` reads up to six bytes, tells
TLS from plain HTTP and puts a buffered connection in front; `Read` gives the buffer
and then drops it. Bytes are their places, and arrive in pieces of any length.
**Routing** has no state: `ServeHTTP`'s tests, both authentications, the mux and the search
for the account, as operators on a request. **ProxyTunnel** models the loop of the plain
proxy, which dials anew for each request, and its one reader that is reset to the new
connection. An answer that is not the end of its exchange, being interim or without a
length, leaves the client waiting (`unended`). **Relay** models `copy`: a goroutine for each direction, the read deadlines
that each extends for the other, the shared context, ends that leave or stop reading.
**ClientConnection** composes the four: a connection is sniffed, served request by
request, and perhaps taken over by the proxy, a tunnel, the intercepting proxy (MitmProxy),
a stream (Connection) or x/net's server of HTTP/2, each of which begins in its own initial
state. Of HTTP/2 only its beginning and its end are steps: its requests come to `Mux`,
which keeps no state.

`MC*` modules give model values and, for Broadcast and UserCache, symmetry; `*Proofs`
modules hold the theorems.
Definitions whose comment begins with the name of another one and "if" are mutants:
plausible slips in the code, used to show that each property can fail.

### What could follow

* A **Stream** specification that says what one client is promised (the items posted
  while it is connected, each once), and `Account.Send` over Connection shown to implement
  what the code keeps of it: no order, and no promise when a thread outlives its session.
* The buffer of a request body, which goes back to the pool before it is filled
  (`server-handle-api.go:215`), and the packets of `user_update`: the code promises nothing
  that a model could hold it to.
* An abstract specification of the intercepting proxy, one request answered at a time,
  that `MitmProxy` implements but for a removal that fails and for HEAD.
* The rest of what liveness needs below fairness: that of `RelayReturns`, and that a
  step that the proofs count is always possible until it is taken.

## The runs

There is one passing run for each component or composition, which checks its safety and
its liveness together, and one run for each property that the code refutes. The runs
`ClientConnection` and `Pacing` reach the modules that they compose.

| Run | Question | Bounds |
|---|---|---|
| `StreamSession` | Do sessions follow one another as PolledTimelines has them, through every race of joining and leaving? Can the two locks block someone for ever, does a stopped thread end? | 2 handlers, 1 timeline, 2 threads |
| `Connection` | Are writes exclusive, and is one that begins too late the last? Do keep-alive, friends timer and handler end? | 1 goroutine of `Account.Send`, either writer |
| `Connection_closed` | Does a closed connection end its handler? **No**, under the proxy. | the same |
| `Connection_keepalive` | Are keep-alives sent again and again? **No**, once. | the same |
| `Broadcast` | Does every packet go to every connection, and do concurrent calls keep their buffers apart? | 2 calls, 2 connections, 3 buffers, 2 packets |
| `Broadcast_released` | Are buffers released after the sends? **No.** | 1 call, 1 connection |
| `MitmProxy` | Does a status always come, is an answer whole before the next, is a handler that was overtaken harmless, is every API call answered that deletes nothing? | 2 slots, all six kinds, answers of at most 2 chunks |
| `MitmProxy_destroy` | And those that delete? **No**, if the upstream fails. | calls that delete |
| `UserCache` | Is a user forgotten only for want of room, and the right one; is a name current? | 3 users, 2 names, room for 2, 2 goroutines |
| `TimelineFeed` | Order, gaps, duplicates, old items, and does an item arrive? | 1 session, 4 items, pages of 2 |
| `ClientConnection` | From the first byte to the end: are bytes kept, do the proxy's answers match and come while they are whole, is a tunnel cut only if idle, does it end in both directions? | 9 bytes, slices of 1, 4 or 9; 3 requests of the proxy; deadlines of 3 ticks |
| `Pacing` | Is nobody let in on an old verdict, does who waits get one, is the thread seldom refused? | 2 handlers; a verdict lasts 2 ticks, a pause 1; a window of 6 ticks, 3 seconds, with 3 requests; shortest wait 2, wait after an error 4; the clock 1 ahead, an answer used within 1 |

Two handlers are one that leaves last and one that joins at that moment; two threads let
the thread of an earlier session live on while its successor runs. That the safety
holds for more handlers, timelines and threads is proved. In a connection the
friends timer, `keepAlive` and one goroutine of `Account.Send` make three callers of
`sendInner`: one holds the lock, one waits for it and one has not yet read `closed`; the
safety is proved for any number. Two calls and three buffers suffice for a buffer to be
handed from one call to another while a third is in the pool. Two slots let a handler
that outlives its request meet the next; of two chunks one may be read and one not. A cache with room for
two of three users is full, evicts the first or the last entry and meets equal times.
Pages of 2 with 4 items give answers that are
empty, short, full and too short; one session is enough, as sessions share only the
items Twitter has, which may be posted before a session starts.

Nine bytes are more than the six that the listener peeks at, so that the first
read may take fewer than six, exactly six with more waiting, or the rest through
the buffer and beyond it with slices shorter than the buffer, not dividing it, and longer
than all. Three requests of the proxy let a connection, its reader and what the reader
holds too much be those of the request before and of the one before that. Three ticks of
patience let a direction read between two ticks of the other's deadline. For the pacing
a window holds several waits, a verdict expires while another handler waits for the lock,
and a second is longer than a tick, so that rounding shows. The clock is ahead, as this is
when polls fall between its reset and Twitter's; the types are proved for any
difference.

`CHECK_DEADLOCK FALSE` stands where a system may stop: a connection that is over, a
proxy connection that has ended or hangs, a Twitter with no more items and no more
session. The sessions of StreamSession, the calls of Broadcast and the clock of Pacing
never stop.

### What the four refuted properties show

* `connection.go:27`, "this connection is closed": `chanClosed` is made and waited for,
  and never closed. Under the intercepting proxy the handler stays for ever, its
  connection is listed for ever, and the timelines poll for nobody.
* `connection.go:89`, "its role is to send keep-alive packets": the timer fires once.
* `account.go:246`, "released after they were sent": `wg` waits for goroutines that only
  start the sends.
* `server-handle-api.go:209`, "ok = false => internal server error": `tunnelAndGetResponse`
  has answered already, and the second `WriteHeader` blocks on the channel for ever.

### What the models show besides

Modelled as the code has it, with nothing in the repository that states the contrary
closely enough for a run:

* `server.go:50`: `StripPrefix` takes the slash that `handleApi` looks for, so that in the
  web-server mode of `readme.md:55-57` every call ends with 500 (`Mux`).
* `server.go:107`: the reader that `Hijack` returns is dropped with what the client had
  sent on (`swallowed`). `server.go:158`: if the dial fails, the 502 goes to a nil
  connection, and only the recovered panic closes the client's. `server.go:127`: a
  request that cannot be read, but for the end, leaves the remote connection open.
  `server.go:195`: an answer with no length never ends for the client, and
  `server.go:187`: an interim answer (100 Continue, 103) is taken for the whole, so that the
  answer proper is not read and the client waits with its connection open (`unended`, which
  `AnswersInTurn` and `ProxyAnswers` exempt).
* `connection.go:69-73`: the handler may return between the select and the write, as it
  does not take `writeLock`. One write may so begin on a response that is over
  (`LateWriteIsTheLast`: it is the last).
* `server-https.go:148-153`: for HEAD `Response.Write` returns without waiting for the
  handler, and the next request is read while it still runs (`OvertakenIsHarmless`). That of
  a HEAD for the stream never ends.
* `server-write.go:39-43`, `server-handle-api.go:203`: Twitter's Content-Length is copied to
  an answer with another body: that of a direct message that was sent has none, nor has a 304.
  `Response.Write` fails, and the connection ends with the client there (`CopyFails`).
* `server.go:58`: a request with `Upgrade: h2c` passes `checkAuth` and has its connection
  taken over; the later requests of that connection come to the mux and not to `ServeHTTP`.
* `hyper-sock.go:72`: a first piece of fewer than six bytes is refused, and those bytes are
  dropped (`Refused`). `hyper-sock.go:34-39`: `Close` and `Addr` of the listener call themselves.
* `server-websocket.go`: the dialled address has lost its port, so that a websocket never opens.
* `server-write.go`: a direction that ends cuts the other, also after a half-close, and a
  write has no deadline, so that an end that stops reading holds the relay (`RelayReturns`
  exempts it).
* `packet.go:33`: `newPacketFromReader` keeps an answer only if it broke off;
  `server-handle-api.go:252`, `:156`, `server-util.go:24`, `account.go:296` have tests turned
  round in the same manner. A retweet is therefore not shown, and some removals name status 0.
* `server-https.go:98`: the size test reads `Content-Type` and has no effect: of a form
  of more than 10 MB the rest is taken for the next request. A form update whose account the header names is read once; a multipart one is forwarded empty.

## Fairness

Goroutines are scheduled (weak fairness of their steps). `sync.Mutex` and
`sync.RWMutex` hand a lock to a waiter that has waited long (strong fairness where one
is taken). Timers expire. An upstream request ends: the transport has a
`ResponseHeaderTimeout`, a cancelled context ends those of the timelines, and the
body of a friends list is assumed to end (nothing in the code bounds it). A write to
a client ends: main's `WriteTimeout` bounds it under net/http; under the intercepting
proxy it is an assumption. net/http notices that a client is gone, or that a write has
failed, and cancels the context. Twitter may fail any number of times, but not for
ever (strong fairness of `Refresh`). No client owes a request or a departure, nobody
owes a packet, and `CloseNotify` owes no value.

In the relay each direction writes what it has read, or fails to when the target is
gone (weak fairness), and notices that its source or the context is over (strong
fairness, as bytes that arrive take turns with it); no end owes a byte, and a dial is
answered or times out. In the plain proxy the loop goes on (weak fairness of
`ProxyLoop`): dial, write and answer end, in success or failure. This is an assumption on
remotes and clients, as no read there has a deadline: a remote that accepts and stays
silent, or a client that holds its body back for a 100 Continue, stops the loop. So is in the
intercepting proxy that the body of a request, and of Twitter's answer, comes to its end.
A deadline's expiry is not fair
in either: `RelayReturns` holds without it. In Pacing the clock ticks, requests and
pauses of a verification end, `verifiedLock` is handed on (strong fairness), and the
thread uses an answer within `MaxLatency` ticks, which the tick's guard enforces: `refused`
is bounded only because an answer's headers are not arbitrarily old.

## The proofs

All theorems hold for every value of the constants under the assumption named in each
module (the constants are of their types and the special values are distinct).

* **StreamSessionProofs.** `TimelinesFollowConnections` and `OneLiveThread` are not
  inductive. The invariant adds what is true while the lock is held: the holder is the
  only critical handler, `todo` holds the timelines not yet started (none of which has
  a thread) or not yet stopped, a handler is in the list exactly from `Push` to
  `LockToLeave`, and a thread with a live context is the one its timeline would cancel.
  The invariant gives the refinement: `Push`, which ends the starting, is `Join`;
  `LockToLeave`, which begins the stopping, is `Leave`; the end of a thread that was told
  to stop is `End`; every other step, the turns of both loops among them, is a stutter
  (`OneSessionAtATime`). `TimelinesFollowConnections` is part of it and stated for itself.
* **ConnectionProofs.** `writeLock` is held by exactly the caller between lock and
  unlock, which gives exclusion. The handler leaves only when the context is done, after
  which the select has no default: of those past it there is one, who holds the lock, and
  nobody joins it (`LateWriteIsTheLast`).
  `ClosedWakesKeepAlive`: whoever finds the connection closed resets the timer, so that
  `keepAlive` is never left asleep. `OneFriendsChain`: the timer runs only while nobody asks
  for friends. `ClosedFallsSilent` and `FriendsChainWanes` count the steps that are left.
* **BroadcastProofs.** Ownership: each buffer is at most once in the pool, one in a
  packet is not in the pool, and no two packets have one buffer. `Get` takes a buffer
  that no packet has; `Release` returns buffers that no other call has. Delivery
  (`FanInv`): a goroutine has started what is before its next packet, and a call that
  releases has a goroutine for every connection of its list, all past their last packet.
  `NothingSentTwice`: a connection is listed once, so a list that was read has it once, and what
  was started is what its goroutine has passed.
* **MitmProxyProofs.** The pipe of the current request is closed only by a handler that
  has returned, or by the loop when it is done with it. `EveryWaitHasItsPartner` says who is
  still to come to the status or to the pipe, with two exceptions, a removal that failed and
  the user stream; `Settled`, what a handler has written when it returns. They give that a
  handler the loop has left behind waits for nobody (`OvertakenIsHarmless`), and that the end
  of the pipe is the end of the answer (`WholeAnswers`). `RequestProceeds` counts what is left
  of a request, at most `MaxChunks + 6` steps; `RemovalHangs` says that the first exception is
  for good: the handler stays at its second `WriteHeader`, and the loop at the pipe once it
  has come there (if the client was gone before, the loop may end without it).
* **TimelineFeedProofs.** For each thread: what it gave lies between its first cursor
  and its cursor, once, in order, and complete but for what answers left out. An answer,
  if there is one, holds the newest item and only items after the cursor
  (`AnswerFacts`), its list of packets each of those shown once (`PacketList`), so that
  appending it keeps all four. `OneOldItem` follows, as the first cursor is no older
  than the session: only the item at that cursor can be old. `OneAnswerSuffices`: an answer
  with a cursor brings the thread to the newest item there is, since an empty one means that it
  was there, and by `Complete` all before it is given.
* **UserCacheProofs.** Who inserts has found no entry with its user's id and holds the
  lock, so ids stay distinct; `name` and `screenName` are equal in every entry, so the
  inverted test for a change is always true, and a known user's name is always
  rewritten. For the refinement, making the times small keeps their order, and
  removing an entry by a swap loses just the oldest: each step is a step of
  RecentUsers or leaves `seen` alone.
* **PacingProofs.** While there is a verdict that lets in, Twitter's last yes is no older than the verdict
  (`confirmed <= age`), hence younger than `Expires` when it is used. The wait is bounded
  by two windows, as seconds that are rounded up to a window of whole seconds stay in it.
  `RefusedSeldom`: Twitter refuses only if nothing of its window is left. A thread that has
  seen this (it took the last request itself, or was refused) waits for the end of the
  window on its own clock, so that it asks again only in the last `Skew` ticks, and one
  `TLWaitMin` further in with each refusal (`AskIsLate`, `WakeIsLate`, `AnswerTells`).
  `HolderProceeds` counts what the holder of `verifiedLock` has left, in steps and ticks.
* **ClientConnectionProofs.** One invariant for each part and one (`Staged`) for who has
  the connection. What readers got and the buffer are together the bytes taken
  (`BytesInOrder`, kept as cutting and appending are associative); a request, its
  connection, the reader and the answer have one number (`AnswersInTurn`); a deadline
  that has run out means that no direction has read since it was set (`OnlyIdleIsCut`). Each
  step of the composition is a step of one part and leaves the others alone.
  `EveryRequestComesUp` counts the loop's steps until it is done with a request, five for each
  one before it, whatever the answers are: what was asked is what is done with, is served, or
  waits. Who then has no answer has an unended one before it, or no connection.

Only model-checked: everything under fairness (`LeaverLeaves`, `StoppedThreadEnds`,
`KeepAliveExits`, `ClosedGoesQuiet`, `FriendsTimerDies`, `ClosedEndsServed`,
`StatusArrives`, `HandlerDrains`, `ApiAnswered`, `ItemArrives`, `ProxyAnswers`,
`RelayReturns`, `WaiterAnswered`), which is out of the prover's reach. For most of them the
safety that they rest on is proved: that nothing puts the end off and each step brings
it nearer (`ClosedWakesKeepAlive`, `ClosedFallsSilent`, `FriendsChainWanes`,
`RequestProceeds`, `OneAnswerSuffices`, `EveryRequestComesUp`, `HolderProceeds`). What fairness
adds, and TLC alone checks, is that these steps are taken. Every safety property of a passing
run is proved. The properties that no run checks are defined where they are proved.

## Not modelled

Configuration, certificates and start-up run once and in sequence. The JSON codecs
convert single values that the models treat as opaque. Logging has no effect. Of the
listener, the methods that only pass a call on; of HTTP/2, how its requests share a
connection; of a websocket, what would follow a dial that
never succeeds; of the API handlers, how a body is encoded again and the buffer it is put
in; of the user cache, the `user_update` packets and the request of `GetUserId`; of the pool,
its other users. A panic in a goroutine, which would end the process, is not modelled;
nor are the bytes of requests and answers. The refresh threads of StreamSession, TimelineFeed
and Pacing are the same code seen three times: its life, what it gives, and when it asks.

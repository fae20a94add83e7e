------------------------ MODULE ClientConnectionProofs ------------------------
(* Safety of a client's connection, for any number of bytes, requests and  *)
(* ticks: what sniffing, the plain proxy and the relay each keep, and that *)
(* their composition keeps it.                                             *)
EXTENDS ClientConnection, FiniteSetTheorems, SequenceTheorems, TLAPS

-----------------------------------------------------------------------------
(* HyperConn.                                                              *)

LEMMA SeqWidens ==
  ASSUME NEW S, NEW T, S \subseteq T, NEW s \in Seq(S)
  PROVE  s \in Seq(T)
OBVIOUS

LEMMA CutRejoins ==
  ASSUME NEW S, NEW g \in Seq(S), NEW s \in Seq(S), NEW n \in 0..Len(s)
  PROVE  (g \o SubSeq(s, 1, n)) \o SubSeq(s, n + 1, Len(s)) = g \o s
<1> DEFINE l == SubSeq(s, 1, n)  r == SubSeq(s, n + 1, Len(s))
<1>1. l \in Seq(S) /\ r \in Seq(S)
  OBVIOUS
<1>2. l \o r = s
  <2>1. 1 \in 1..(Len(s) + 1) /\ n \in (1 - 1)..Len(s) /\ Len(s) \in n..Len(s)
    OBVIOUS
  <2>2. SubSeq(s, 1, n) \o SubSeq(s, n + 1, Len(s)) = SubSeq(s, 1, Len(s))
    BY <2>1, ConcatAdjacentSubSeq
  <2>3. QED  BY <2>2, SubSeqFull
<1> HIDE DEF l, r
<1>3. (g \o l) \o r = g \o (l \o r)
  BY <1>1, ConcatAssociative, SMTT(30)
<1>4. QED  BY <1>2, <1>3 DEF l, r

\* The next m bytes after the first t.
LEMMA BytesAfter ==
  ASSUME NEW t \in Nat, NEW m \in Nat
  PROVE  /\ Bytes(t + 1, t + m) \in Seq((t + 1)..(t + m))
         /\ Len(Bytes(t + 1, t + m)) = m
         /\ \A i \in 1..m : Bytes(t + 1, t + m)[i] = t + i
<1>1. t + m - (t + 1) + 1 = m
  OBVIOUS
<1>2. Bytes(t + 1, t + m) = [i \in 1..m |-> t + 1 + i - 1]
  BY <1>1 DEF Bytes
<1>3. \A i \in 1..m : t + 1 + i - 1 = t + i /\ t + i \in (t + 1)..(t + m)
  OBVIOUS
<1>4. \A i \in 1..m : Bytes(t + 1, t + m)[i] = t + i
  BY <1>2, <1>3
<1> DEFINE f == Bytes(t + 1, t + m)
<1>5. f \in [1..m -> (t + 1)..(t + m)]
  BY <1>2, <1>3
<1> HIDE DEF f
<1>6. f \in Seq((t + 1)..(t + m)) /\ Len(f) = m
  BY <1>5
<1>7. QED  BY <1>4, <1>6 DEF f

LEMMA BytesFirst ==
  ASSUME NEW m \in Nat
  PROVE  /\ Bytes(1, m) \in Seq(1..m)
         /\ Len(Bytes(1, m)) = m
         /\ \A i \in 1..m : Bytes(1, m)[i] = i
<1>1. 0 + 1 = 1 /\ 0 + m = m /\ \A i \in 1..m : 0 + i = i
  OBVIOUS
<1>2. /\ Bytes(0 + 1, 0 + m) \in Seq((0 + 1)..(0 + m))
      /\ Len(Bytes(0 + 1, 0 + m)) = m
      /\ \A i \in 1..m : Bytes(0 + 1, 0 + m)[i] = 0 + i
  BY BytesAfter, 0 \in Nat
<1>3. QED  BY <1>1, <1>2

LEMMA BytesAppend ==
  ASSUME NEW t \in Nat, NEW m \in Nat
  PROVE  Bytes(1, t) \o Bytes(t + 1, t + m) = Bytes(1, t + m)
<1> DEFINE l == Bytes(1, t)  r == Bytes(t + 1, t + m)  s == Bytes(1, t + m)
<1>1. /\ l \in Seq(1..t) /\ Len(l) = t
      /\ \A i \in 1..t : l[i] = i
  BY BytesFirst
<1>2. /\ r \in Seq((t + 1)..(t + m)) /\ Len(r) = m
      /\ \A i \in 1..m : r[i] = t + i
  BY BytesAfter
<1>3. /\ s \in Seq(1..(t + m)) /\ Len(s) = t + m
      /\ \A i \in 1..(t + m) : s[i] = i
  BY BytesFirst, t + m \in Nat
<1> HIDE DEF l, r, s
<1>4. l \in Seq(Nat) /\ r \in Seq(Nat) /\ s \in Seq(Nat)
  BY <1>1, <1>2, <1>3
<1>5. /\ l \o r \in Seq(Nat) /\ Len(l \o r) = t + m
      /\ \A i \in 1..(t + m) : (l \o r)[i] = IF i <= t THEN l[i] ELSE r[i - t]
  <2>1. /\ l \o r \in Seq(Nat) /\ Len(l \o r) = Len(l) + Len(r)
        /\ \A i \in 1..(Len(l) + Len(r)) :
             (l \o r)[i] = IF i <= Len(l) THEN l[i] ELSE r[i - Len(l)]
    BY <1>4, ConcatProperties, Zenon
  <2>2. Len(l) = t /\ Len(r) = m
    BY <1>1, <1>2
  <2>3. QED  BY <2>1, <2>2, Zenon
<1>6. ASSUME NEW i \in 1..(t + m) PROVE (l \o r)[i] = i
  <2>1. i \in Int /\ (i <= t \/ i > t)
    OBVIOUS
  <2>2. CASE i <= t
    BY <2>2, <1>1, <1>5
  <2>3. CASE i > t
    <3>1. i - t \in 1..m /\ ~(i <= t) /\ t + (i - t) = i
      BY <2>3
    <3>2. QED  BY <3>1, <1>2, <1>5
  <2>4. QED  BY <2>1, <2>2, <2>3
<1>7. l \o r = s
  BY <1>3, <1>4, <1>5, <1>6, SeqEqual
<1>8. QED  BY <1>7 DEF l, r, s

\* Where the connection stands, beside its types.
SniffShape ==
  /\ ~handshaked => conn = "accepted" /\ taken = 0 /\ given = <<>>
  /\ conn = "accepted" => inner = "none" /\ given = <<>>
  /\ conn # "accepted" => handshaked

SniffInv == SniffTypeOK /\ SniffShape /\ BytesInOrder

LEMMA SniffInitHolds == SniffInit => SniffInv
<1>1. SUFFICES ASSUME SniffInit PROVE SniffInv
  OBVIOUS
<1>2. <<>> \in Seq(1..Opening)
  OBVIOUS
<1>3. ~handshaked /\ SniffShape
  BY <1>1 DEF SniffInit, SniffShape
<1>4. SniffTypeOK
  <2>1. arrived \in 0..Opening /\ taken \in 0..arrived
    BY <1>1, HyperAssumption DEF SniffInit
  <2>2. QED  BY <1>1, <1>2, <2>1, Zenon DEF SniffInit, SniffTypeOK
<1>5. QED  BY <1>3, <1>4 DEF SniffInv, BytesInOrder

LEMMA HandshakeKeeps ==
  ASSUME SniffInv, Handshake
  PROVE  SniffInv'
<1> USE HyperAssumption DEF SniffInv, SniffTypeOK, SniffShape, Peeked
<1>1. arrived \in Nat /\ taken = 0 /\ given = <<>> /\ conn = "accepted"
      /\ inner = "none" /\ buff = <<>>
  BY DEF Handshake
<1>2. taken' = Least(Peeked, arrived) /\ handshaked'
      /\ UNCHANGED <<speaksTls, arrived, given>>
  BY DEF Handshake
<1>3. taken' \in 0..arrived'
  BY <1>1, <1>2 DEF Least
<1>4. CASE taken' < Peeked
  <2>1. UNCHANGED <<conn, inner, buff>>
    BY <1>4 DEF Handshake
  <2>2. QED  BY <1>1, <1>2, <1>3, <2>1 DEF BytesInOrder, Refused
<1>5. CASE ~(taken' < Peeked)
  <2>1. /\ inner' = "buffered" /\ buff' = Bytes(1, Peeked)
        /\ conn' = IF speaksTls THEN "tls" ELSE "inner"
    BY <1>5 DEF Handshake
  <2>2. taken' = Peeked
    BY <1>1, <1>2, <1>5 DEF Least
  <2>3. Bytes(1, 6) \in Seq(1..6) /\ Len(Bytes(1, 6)) = 6
    BY BytesFirst
  <2>4. buff' \in Seq(1..6) /\ Len(buff') = 6
    BY <2>1, <2>3
  <2>5. buff' \in Seq(1..Opening) /\ buff' # <<>>
    <3>1. Opening \in Nat /\ 6 \in Nat /\ 6 <= Opening
      OBVIOUS
    <3>2. Bytes(1, 6) \in Seq(1..Opening)
      <4>1. \A m, n \in Nat : m <= n => \A b \in Seq(1..m) : b \in Seq(1..n)
        BY SeqWidens
      <4>2. \A b \in Seq(1..6) : b \in Seq(1..Opening)
        BY <4>1, <3>1, Zenon
      <4>3. QED  BY <4>2, <2>3, Zenon
    <3>3. Len(<<>>) # 6
      OBVIOUS
    <3>4. QED  BY <2>1, <2>4, <3>2, <3>3, Zenon DEF Peeked
  <2>6. given' \o buff' = Bytes(1, taken')
    BY <1>1, <1>2, <2>1, <2>2, <2>4
  <2>7. QED  BY <1>1, <1>2, <1>3, <2>1, <2>5, <2>6 DEF BytesInOrder, Refused
<1>6. QED  BY <1>4, <1>5

LEMMA ReadBufferedKeeps ==
  ASSUME SniffInv, NEW b \in Sizes, ReadBuffered(b)
  PROVE  SniffInv'
<1> DEFINE n    == Least(b, Len(buff))
           more == Least(b - n, arrived - taken)
           got  == Bytes(taken + 1, taken + more)
<1>1. b \in Nat \ {0} /\ Opening \in Nat /\ arrived \in 0..Opening
      /\ taken \in 0..arrived
      /\ buff \in Seq(1..Opening) /\ given \in Seq(1..Opening)
  BY HyperAssumption DEF SniffInv, SniffTypeOK
<1>2. /\ inner = "buffered" /\ (n < b => more > 0)
      /\ given' = given \o SubSeq(buff, 1, n) \o got
      /\ buff' = SubSeq(buff, n + 1, Len(buff))
      /\ inner' = IF buff' = <<>> THEN "accepted" ELSE "buffered"
      /\ taken' = taken + more
      /\ UNCHANGED <<speaksTls, arrived, handshaked, conn>>
  BY DEF ReadBuffered, Rest
<1>3. conn # "accepted" /\ handshaked /\ ~Refused
  BY <1>2 DEF SniffInv, SniffShape, Refused
<1>4. given \o buff = Bytes(1, taken) /\ (conn = "tls" <=> speaksTls)
  BY <1>3 DEF SniffInv, BytesInOrder
<1>5. n \in Nat /\ n <= Len(buff) /\ n <= b /\ Len(buff) \in Nat
  BY <1>1 DEF Least
<1>6. more \in Nat /\ taken + more <= arrived
  BY <1>1, <1>5 DEF Least
<1>7. got \in Seq((taken + 1)..(taken + more)) /\ Len(got) = more
  BY <1>1, <1>6, BytesAfter
<1>8. got \in Seq(1..Opening)
  <2>1. (taken + 1)..(taken + more) \subseteq 1..Opening
    BY <1>1, <1>6
  <2>2. \A s \in Seq((taken + 1)..(taken + more)) : s \in Seq(1..Opening)
    BY <2>1, SeqWidens
  <2>3. QED  BY <2>2, <1>7, Zenon
<1> HIDE DEF n, more, got
<1>9. SubSeq(buff, 1, n) \in Seq(1..Opening)
      /\ SubSeq(buff, n + 1, Len(buff)) \in Seq(1..Opening)
  BY <1>1, <1>5, SMTT(30)
<1>10. given' \in Seq(1..Opening) /\ buff' \in Seq(1..Opening)
  BY <1>1, <1>2, <1>8, <1>9, SMTT(30)
<1>11. given' \o buff' = Bytes(1, taken')
  <2>1. CASE n = Len(buff)
    <3>1. SubSeq(buff, 1, n) = buff
      BY <2>1, <1>1
    <3>2. buff' = <<>>
      BY <2>1, <1>1, <1>2
    <3>3. given' \o buff' = given'
      BY <3>2, <1>10
    <3>4. given' = Bytes(1, taken) \o got
      BY <3>1, <1>2, <1>4
    <3>5. taken \in Nat
      BY <1>1
    <3>6. Bytes(1, taken) \o got = Bytes(1, taken + more)
      BY <3>5, <1>6, BytesAppend DEF got
    <3>7. QED  BY <3>3, <3>4, <3>6, <1>2
  <2>2. CASE n # Len(buff)
    <3>1. n = b /\ more = 0
      BY <2>2, <1>1, <1>5, <1>6 DEF n, more, Least
    <3>2. got = <<>>
      BY <3>1, <1>7
    <3>3. given' = given \o SubSeq(buff, 1, n)
      BY <3>2, <1>1, <1>2, <1>9
    <3>4. given' \o buff' = given \o buff
      <4>1. n \in 0..Len(buff)
        BY <1>5
      <4>2. (given \o SubSeq(buff, 1, n)) \o SubSeq(buff, n + 1, Len(buff)) = given \o buff
        BY <4>1, <1>1, CutRejoins
      <4>3. QED  BY <4>2, <3>3, <1>2
    <3>5. QED  BY <3>1, <3>4, <1>1, <1>2, <1>4
  <2>3. QED  BY <2>1, <2>2
<1>12. SniffTypeOK'
  <2>1. taken' \in 0..arrived' /\ arrived' \in 0..Opening
    BY <1>1, <1>2, <1>6
  <2>2. inner' \in {"buffered", "accepted"} /\ (inner' = "buffered" <=> buff' # <<>>)
    BY <1>2
  <2>3. QED  BY <2>1, <2>2, <1>2, <1>10 DEF SniffInv, SniffTypeOK
<1>13. QED
  BY <1>2, <1>3, <1>4, <1>11, <1>12
  DEF SniffInv, SniffShape, BytesInOrder, Refused

LEMMA ReadAcceptedKeeps ==
  ASSUME SniffInv, NEW b \in Sizes, ReadAccepted(b)
  PROVE  SniffInv'
<1> DEFINE more == Least(b, arrived - taken)
           got  == Bytes(taken + 1, taken + more)
<1>1. b \in Nat \ {0} /\ Opening \in Nat /\ arrived \in 0..Opening
      /\ taken \in 0..arrived
      /\ buff \in Seq(1..Opening) /\ given \in Seq(1..Opening)
  BY HyperAssumption DEF SniffInv, SniffTypeOK
<1>2. /\ inner = "accepted" /\ more > 0
      /\ given' = given \o got
      /\ taken' = taken + more
      /\ UNCHANGED <<speaksTls, arrived, handshaked, conn, inner, buff>>
  BY DEF ReadAccepted
<1>3. conn # "accepted" /\ handshaked /\ ~Refused /\ buff = <<>>
  BY <1>2 DEF SniffInv, SniffShape, Refused, SniffTypeOK
<1>4. given = Bytes(1, taken) /\ (conn = "tls" <=> speaksTls)
  BY <1>1, <1>3 DEF SniffInv, BytesInOrder
<1>5. more \in Nat /\ taken + more <= arrived
  BY <1>1 DEF Least
<1>6. got \in Seq((taken + 1)..(taken + more))
  BY <1>1, <1>5, BytesAfter
<1>7. got \in Seq(1..Opening)
  BY <1>1, <1>5, <1>6
<1>8. given' = Bytes(1, taken')
  <2>1. taken \in Nat
    BY <1>1
  <2>2. Bytes(1, taken) \o got = Bytes(1, taken + more)
    BY <2>1, <1>5, BytesAppend
  <2>3. QED  BY <2>2, <1>2, <1>4
<1> HIDE DEF more, got
<1>9. given' \in Seq(1..Opening)
  BY <1>1, <1>2, <1>7
<1>10. SniffTypeOK'
  BY <1>1, <1>2, <1>5, <1>9 DEF SniffInv, SniffTypeOK
<1>11. given' \o buff' = Bytes(1, taken')
  BY <1>2, <1>3, <1>8, <1>9
<1>12. QED
  BY <1>2, <1>3, <1>4, <1>10, <1>11
  DEF SniffInv, SniffShape, BytesInOrder, Refused

LEMMA SniffKeeps ==
  ASSUME SniffInv, SniffStep
  PROVE  SniffInv'
<1>1. CASE Arrive
  BY <1>1, HyperAssumption DEF SniffInv, SniffTypeOK, SniffShape, BytesInOrder,
     Refused, Arrive
<1>2. QED
  BY <1>1, HandshakeKeeps, ReadBufferedKeeps, ReadAcceptedKeeps DEF SniffStep

-----------------------------------------------------------------------------
(* ProxyTunnel.                                                            *)

LEMMA AtMostOne ==
  ASSUME NEW S, NEW x, S \subseteq {x}
  PROVE  Cardinality(S) <= 1
<1>1. CASE S = {}
  BY <1>1, FS_EmptySet
<1>2. CASE S = {x}
  BY <1>2, FS_Singleton
<1>3. QED  BY <1>1, <1>2

\* The loop's requests, connections and answers are in step: it serves the
\* requests in turn, those that wait are the next ones, and the answers that
\* were given are those to the requests before.
InStep ==
  /\ asked = serving + Len(queue)
  /\ \A i \in 1..Len(queue) : queue[i] = serving + i
  /\ ~unended /\ loop \in {"dial", "write", "answer", "copy"} => serving = Len(answers) + 1
  /\ ~unended /\ loop = "next" => serving = Len(answers)

ProxyShape ==
  /\ open \subseteq {remote}
  /\ loop # "off" => serving \in Numbers
  /\ loop \in {"write", "answer", "copy"} => reader = serving
  /\ loop = "copy" => answer = serving
  /\ loop = "off" => asked = 0 /\ serving = 0 /\ queue = <<>> /\ answers = <<>> /\ ~unended
  /\ ~swallowed => InStep

ProxyInv == ProxyTypeOK /\ ProxyShape /\ AnswersInTurn

LEMMA ProxyInitHolds == ProxyInit => ProxyInv
<1>1. SUFFICES ASSUME ProxyInit PROVE ProxyInv
  OBVIOUS
<1>2. /\ loop = "off" /\ serving = 0 /\ answer = 0 /\ asked = 0
      /\ queue = <<>> /\ answers = <<>> /\ swallowed = FALSE /\ unended = FALSE
      /\ remote = 0 /\ open = {} /\ reader = 0 /\ surplus = FALSE
  BY <1>1 DEF ProxyInit
<1>3. Cardinality(open) <= 1
  BY <1>2, AtMostOne
<1>4. ProxyTypeOK
  <2>1. <<>> \in Seq(Numbers) /\ 0 \in 0..MaxRequests
    BY ProxyAssumption
  <2>2. QED  BY <1>2, <1>3, <2>1, Zenon DEF ProxyTypeOK
<1>5. ProxyShape /\ AnswersInTurn
  BY <1>2 DEF ProxyShape, InStep, AnswersInTurn
<1>6. QED  BY <1>4, <1>5 DEF ProxyInv

\* No step leaves a connection open but the current one.
LEMMA OpenIsRemote ==
  ASSUME ProxyInv, ProxyStep
  PROVE  open' \subseteq {remote'} /\ Cardinality(open') <= 1
<1>1. open' \subseteq {remote'}
  BY DEF ProxyInv, ProxyShape, ProxyStep, ProxyLoop, ProxyBegin, Ask, NoRequest,
     NextRequest, Websocket, Dial, DialFails, Forward, RemoteFails, ReadAnswer,
     CopyAnswer, End, dialVars, clientVars
<1>2. QED  BY <1>1, AtMostOne

LEMMA ClientKeeps ==
  ASSUME ProxyInv, ProxyBegin \/ Ask
  PROVE  ProxyInv'
<1> USE ProxyAssumption DEF Numbers
<1>1. open' \subseteq {remote'} /\ Cardinality(open') <= 1
  BY OpenIsRemote DEF ProxyStep
<1>2. CASE ProxyBegin
  <2>1. /\ loop = "off" /\ loop' = "dial" /\ serving' = 1
        /\ swallowed' \in BOOLEAN /\ (swallowed' => MaxRequests > 1)
        /\ asked' = IF swallowed' THEN 2 ELSE 1
        /\ UNCHANGED <<answer, remote, open, reader, surplus, queue, answers, unended>>
    BY <1>2 DEF ProxyBegin, dialVars
  <2>2. queue = <<>> /\ answers = <<>> /\ ~unended
    BY <2>1 DEF ProxyInv, ProxyShape
  <2>4. asked' \in 0..MaxRequests /\ serving' \in 0..MaxRequests
    BY <2>1
  <2>5. ProxyTypeOK'
    BY <1>1, <2>1, <2>4, Zenon DEF ProxyInv, ProxyTypeOK
  <2>6. InStep' \/ swallowed'
    BY <2>1, <2>2 DEF InStep
  <2>7. QED  BY <1>1, <2>1, <2>2, <2>5, <2>6 DEF ProxyInv, ProxyShape, AnswersInTurn
<1>3. CASE Ask
  <2>1. /\ loop \notin {"off", "ended"} /\ asked < MaxRequests
        /\ asked' = asked + 1 /\ queue' = Append(queue, asked + 1)
        /\ UNCHANGED <<loop, serving, answer, remote, open, reader, surplus,
                       swallowed, answers, unended>>
    BY <1>3 DEF Ask, dialVars
  <2>2. queue \in Seq(Numbers) /\ asked \in 0..MaxRequests /\ serving \in 0..MaxRequests
    BY DEF ProxyInv, ProxyTypeOK
  <2>3. asked' \in 0..MaxRequests /\ asked + 1 \in Numbers
    BY <2>1, <2>2
  <2>4. /\ queue' \in Seq(Numbers) /\ Len(queue') = Len(queue) + 1
        /\ \A i \in 1..Len(queue) : queue'[i] = queue[i]
        /\ queue'[Len(queue) + 1] = asked + 1
    BY <2>1, <2>2, <2>3
  <2>5. ProxyTypeOK'
    BY <1>1, <2>1, <2>3, <2>4, Zenon DEF ProxyInv, ProxyTypeOK
  <2>6. ASSUME ~swallowed PROVE InStep'
    <3>1. /\ asked = serving + Len(queue)
          /\ \A i \in 1..Len(queue) : queue[i] = serving + i
          /\ ~unended /\ loop \in {"dial", "write", "answer", "copy"} => serving = Len(answers) + 1
          /\ ~unended /\ loop = "next" => serving = Len(answers)
      BY <2>1, <2>6 DEF ProxyInv, ProxyShape, InStep
    <3>2. asked' = serving' + Len(queue')
      BY <2>1, <2>2, <2>4, <3>1
    <3>3. \A i \in 1..Len(queue') : queue'[i] = serving' + i
      BY <2>1, <2>2, <2>4, <3>1
    <3>4. QED  BY <2>1, <3>1, <3>2, <3>3 DEF InStep
  <2>7. QED  BY <1>1, <2>1, <2>5, <2>6 DEF ProxyInv, ProxyShape, AnswersInTurn
<1>4. QED  BY <1>2, <1>3

\* The loop is over: what the client has got is what it had got.
LEMMA EndKeeps ==
  ASSUME ProxyInv, NoRequest \/ Websocket \/ DialFails \/ RemoteFails
  PROVE  ProxyInv'
<1>1. open' \subseteq {remote'} /\ Cardinality(open') <= 1
  BY OpenIsRemote DEF ProxyStep, ProxyLoop
<1>2. /\ loop # "off" /\ loop' = "ended" /\ open' \subseteq open /\ remote' \in {0, remote}
      /\ UNCHANGED <<serving, answer, reader, surplus, asked, queue, swallowed,
                     answers, unended>>
  BY DEF NoRequest, Websocket, DialFails, RemoteFails, End, clientVars
<1>3. remote' \in 0..MaxRequests /\ open' \subseteq Numbers
  BY <1>2, ProxyAssumption DEF ProxyInv, ProxyTypeOK
<1>4. ProxyTypeOK'
  BY <1>1, <1>2, <1>3, Zenon DEF ProxyInv, ProxyTypeOK
<1>5. ~swallowed' => InStep'
  BY <1>2 DEF ProxyInv, ProxyShape, InStep
<1>6. QED  BY <1>1, <1>2, <1>4, <1>5 DEF ProxyInv, ProxyShape, AnswersInTurn

LEMMA NextRequestKeeps ==
  ASSUME ProxyInv, NextRequest
  PROVE  ProxyInv'
<1> USE ProxyAssumption DEF Numbers
<1>1. open' \subseteq {remote'} /\ Cardinality(open') <= 1
  BY OpenIsRemote DEF ProxyStep, ProxyLoop
<1>2. /\ loop = "next" /\ queue # <<>> /\ loop' = "dial"
      /\ serving' = Head(queue) /\ queue' = Tail(queue)
      /\ reader' = remote /\ surplus' = FALSE
      /\ UNCHANGED <<answer, remote, open, asked, swallowed, answers, unended>>
  BY DEF NextRequest, ResetReader
<1>3. /\ queue \in Seq(Numbers) /\ serving \in 0..MaxRequests
      /\ asked \in 0..MaxRequests /\ remote \in 0..MaxRequests
  BY DEF ProxyInv, ProxyTypeOK
<1>4. /\ queue' \in Seq(Numbers) /\ Len(queue') = Len(queue) - 1 /\ Len(queue) > 0
      /\ serving' = queue[1] /\ serving' \in Numbers /\ serving' \in 0..MaxRequests
      /\ \A i \in 1..Len(queue') : queue'[i] = queue[i + 1]
  BY <1>2, <1>3
<1>5. ProxyTypeOK'
  BY <1>1, <1>2, <1>3, <1>4, Zenon DEF ProxyInv, ProxyTypeOK
<1>6. ASSUME ~swallowed PROVE InStep'
  <2>1. /\ asked = serving + Len(queue)
        /\ \A i \in 1..Len(queue) : queue[i] = serving + i
        /\ ~unended => serving = Len(answers)
    BY <1>2, <1>6 DEF ProxyInv, ProxyShape, InStep
  <2>2. serving' = serving + 1
    BY <1>3, <1>4, <2>1
  <2>3. asked' = serving' + Len(queue')
    BY <1>2, <1>3, <1>4, <2>1, <2>2
  <2>4. \A i \in 1..Len(queue') : queue'[i] = serving' + i
    BY <1>3, <1>4, <2>1, <2>2
  <2>5. QED  BY <1>2, <2>1, <2>2, <2>3, <2>4 DEF InStep
<1>7. QED  BY <1>1, <1>2, <1>4, <1>5, <1>6 DEF ProxyInv, ProxyShape, AnswersInTurn

LEMMA ServeKeeps ==
  ASSUME ProxyInv, Dial \/ Forward \/ ReadAnswer
  PROVE  ProxyInv'
<1> USE ProxyAssumption DEF Numbers
<1>1. open' \subseteq {remote'} /\ Cardinality(open') <= 1
  BY OpenIsRemote DEF ProxyStep, ProxyLoop
<1>2. UNCHANGED <<serving, asked, queue, swallowed, answers, unended>>
  BY DEF Dial, Forward, ReadAnswer, clientVars
<1>3. ~swallowed' => InStep'
  <2>1. loop \in {"dial", "write", "answer"} /\ loop' \in {"write", "answer", "copy"}
    BY DEF Dial, Forward, ReadAnswer
  <2>2. QED  BY <1>2, <2>1 DEF ProxyInv, ProxyShape, InStep
<1>4. CASE Dial
  <2>1. /\ loop = "dial" /\ loop' = "write" /\ remote' = serving
        /\ open' = (open \ {remote}) \cup {serving}
        /\ reader' = serving /\ surplus' = FALSE /\ answer' = answer
    BY <1>4 DEF Dial, ResetReader
  <2>2. serving \in Numbers /\ open' = {serving}
    BY <2>1 DEF ProxyInv, ProxyShape
  <2>3. serving \in 0..MaxRequests /\ open' \subseteq Numbers
    BY <2>2
  <2>4. ProxyTypeOK'
    BY <1>1, <1>2, <2>1, <2>2, <2>3, Zenon DEF ProxyInv, ProxyTypeOK
  <2>5. QED
    BY <1>1, <1>2, <1>3, <2>1, <2>4 DEF ProxyInv, ProxyShape, AnswersInTurn
<1>5. CASE Forward
  <2>1. loop = "write" /\ loop' = "answer" /\ UNCHANGED <<answer, dialVars>>
    BY <1>5 DEF Forward
  <2>2. ProxyTypeOK'
    BY <1>1, <1>2, <2>1, Zenon DEF ProxyInv, ProxyTypeOK, dialVars
  <2>3. reader = serving
    BY <2>1 DEF ProxyInv, ProxyShape
  <2>4. QED
    BY <1>1, <1>2, <1>3, <2>1, <2>2, <2>3
    DEF ProxyInv, ProxyShape, AnswersInTurn, dialVars
<1>6. CASE ReadAnswer
  <2>1. /\ loop = "answer" /\ loop' = "copy" /\ answer' = reader
        /\ surplus' \in BOOLEAN
        /\ UNCHANGED <<remote, open, reader>>
    BY <1>6 DEF ReadAnswer
  <2>2. reader = serving
    BY <2>1 DEF ProxyInv, ProxyShape
  <2>3. QED
    BY <1>1, <1>2, <1>3, <2>1, <2>2 DEF ProxyInv, ProxyTypeOK, ProxyShape, AnswersInTurn
<1>7. QED  BY <1>4, <1>5, <1>6

\* The answer that is copied is the one to the request that is served, which
\* comes after those that were answered.
LEMMA CopyAnswerKeeps ==
  ASSUME ProxyInv, CopyAnswer
  PROVE  ProxyInv'
<1> USE ProxyAssumption DEF Numbers
<1>1. open' \subseteq {remote'} /\ Cardinality(open') <= 1
  BY OpenIsRemote DEF ProxyStep, ProxyLoop
<1>2. /\ loop = "copy" /\ loop' = "next"
      /\ UNCHANGED <<serving, answer, remote, open, reader, surplus, asked, queue, swallowed>>
      /\ \/ ~unended /\ answers' = Append(answers, answer) /\ unended' = unended
         \/ unended' = TRUE /\ answers' = answers
  BY DEF CopyAnswer, dialVars
<1>3. answers \in Seq(Numbers) /\ answer = serving /\ open = {remote} /\ remote = serving
  BY <1>2 DEF ProxyInv, ProxyShape, ProxyTypeOK
<1>4. answer \in Numbers
  BY <1>3 DEF ProxyInv, ProxyTypeOK
<1>5. CASE unended' = TRUE /\ answers' = answers
  <2>1. ProxyTypeOK'
    BY <1>1, <1>2, <1>5, Zenon DEF ProxyInv, ProxyTypeOK
  <2>2. QED  BY <1>1, <1>2, <1>5, <2>1 DEF ProxyInv, ProxyShape, InStep, AnswersInTurn
<1>6. CASE ~unended /\ answers' = Append(answers, answer) /\ unended' = unended
  <2>1. /\ answers' \in Seq(Numbers) /\ Len(answers') = Len(answers) + 1
        /\ \A i \in 1..Len(answers) : answers'[i] = answers[i]
        /\ answers'[Len(answers) + 1] = answer
    BY <1>3, <1>4, <1>6
  <2>2. ProxyTypeOK'
    BY <1>1, <1>2, <1>6, <2>1, Zenon DEF ProxyInv, ProxyTypeOK
  <2>3. ASSUME ~swallowed
        PROVE  InStep' /\ \A i \in 1..Len(answers') : answers'[i] = i
    <3>1. InStep /\ serving = Len(answers) + 1 /\ \A i \in 1..Len(answers) : answers[i] = i
      BY <1>2, <1>6, <2>3 DEF ProxyInv, ProxyShape, InStep, AnswersInTurn
    <3>2. \A i \in 1..Len(answers') : answers'[i] = i
      BY <1>3, <2>1, <3>1
    <3>3. InStep'
      BY <1>2, <2>1, <3>1 DEF InStep
    <3>4. QED  BY <3>2, <3>3
  <2>4. QED  BY <1>1, <1>2, <2>2, <2>3 DEF ProxyInv, ProxyShape, AnswersInTurn
<1>7. QED  BY <1>2, <1>5, <1>6

LEMMA ProxyKeeps ==
  ASSUME ProxyInv, ProxyStep
  PROVE  ProxyInv'
BY ClientKeeps, EndKeeps, NextRequestKeeps, ServeKeeps, CopyAnswerKeeps
DEF ProxyStep, ProxyLoop

-----------------------------------------------------------------------------
(* Relay.                                                                  *)

\* A direction that waits has at least the time that is not yet over since a
\* byte came in either direction.
Granted(d) == way[d] = "read" => deadline[Source[d]] + quiet >= Patience

RelayShape ==
  /\ relay # "copy" => \A d \in Directions : way[d] = "ended"
  /\ relay \in {"off", "dial"} => quiet = 0 /\ deadline = [e \in Ends |-> Patience] /\ ~cancelled
  /\ \A d \in Directions : Granted(d)

RelayInv == RelayTypeOK /\ RelayShape

LEMMA EndsOfWays ==
  /\ Directions = {"up", "down"} /\ Ends = {"client", "remote"}
  /\ \A d \in Directions : Source[d] \in Ends /\ Target[d] \in Ends /\ Source[d] # Target[d]
  /\ \A d, f \in Directions : d # f => Source[f] = Target[d]
BY DEF Directions, Ends, Source, Target

LEMMA RelayInitHolds == RelayInit => RelayInv
<1>1. SUFFICES ASSUME RelayInit PROVE RelayInv
  OBVIOUS
<1>2. deadline \in [Ends -> 0..Patience] /\ quiet \in 0..Patience
  BY <1>1, RelayAssumption DEF RelayInit
<1>3. RelayTypeOK
  BY <1>1, <1>2, Zenon DEF RelayInit, RelayTypeOK
<1>4. RelayShape
  BY <1>1 DEF RelayInit, RelayShape, Granted
<1>5. QED  BY <1>3, <1>4 DEF RelayInv

\* What no direction does: the ends, the time, the beginning and the end.
LEMMA EndsKeep ==
  ASSUME RelayInv, NEW e \in Ends, EndStep(e)
  PROVE  RelayInv'
<1>1. /\ UNCHANGED <<relay, way, cancelled, deadline, quiet>>
      /\ waiting' \in [Ends -> BOOLEAN]
      /\ peer' \in [Ends -> {"there", "stalled", "gone"}]
  BY DEF RelayInv, RelayTypeOK, EndStep, Sends, Stalls, Leaves, wayVars
<1>2. RelayTypeOK'
  BY <1>1, Zenon DEF RelayInv, RelayTypeOK
<1>3. RelayShape'
  BY <1>1 DEF RelayInv, RelayShape, Granted
<1>4. QED  BY <1>2, <1>3 DEF RelayInv

LEMMA TickKeeps ==
  ASSUME RelayInv, Tick
  PROVE  RelayInv'
<1>1. /\ relay = "copy"
      /\ deadline' = [e \in Ends |-> Less(deadline[e])]
      /\ quiet' = IF quiet < Patience THEN quiet + 1 ELSE quiet
      /\ UNCHANGED <<relay, peer, way, cancelled, waiting>>
  BY DEF Tick
<1>2. deadline \in [Ends -> 0..Patience] /\ quiet \in 0..Patience /\ Patience \in Nat
  BY RelayAssumption DEF RelayInv, RelayTypeOK
<1>3. \A e \in Ends : deadline'[e] \in 0..Patience /\ deadline'[e] + 1 >= deadline[e]
  BY <1>1, <1>2 DEF Less
<1>4. deadline' \in [Ends -> 0..Patience] /\ quiet' \in 0..Patience
  BY <1>1, <1>2, <1>3
<1>5. RelayTypeOK'
  BY <1>1, <1>4, Zenon DEF RelayInv, RelayTypeOK
<1>6. ASSUME NEW d \in Directions PROVE Granted(d)'
  <2>1. Source[d] \in Ends
    BY EndsOfWays
  <2>2. Granted(d)
    BY DEF RelayInv, RelayShape
  <2>3. deadline[Source[d]] \in 0..Patience /\ deadline'[Source[d]] \in 0..Patience
        /\ deadline'[Source[d]] + 1 >= deadline[Source[d]]
    BY <1>2, <1>3, <2>1
  <2>4. Source' = Source
    BY DEF Source
  <2>5. QED  BY <1>1, <1>2, <2>2, <2>3, <2>4 DEF Granted
<1>7. QED  BY <1>1, <1>5, <1>6 DEF RelayInv, RelayShape

LEMMA BeginKeeps ==
  ASSUME RelayInv, RelayBegin \/ Established \/ NotEstablished \/ Return
  PROVE  RelayInv'
<1> USE RelayAssumption, EndsOfWays
<1>1. CASE RelayBegin
  BY <1>1 DEF RelayBegin, wayVars, RelayInv, RelayTypeOK, RelayShape, Granted
<1>2. CASE Established
  <2>1. /\ relay = "dial" /\ relay' = "copy" /\ way' = [d \in Directions |-> "read"]
        /\ UNCHANGED <<cancelled, deadline, waiting, peer, quiet>>
    BY <1>2 DEF Established
  <2>2. /\ \A d \in Directions : way'[d] = "read"
        /\ way' \in [Directions -> {"read", "write", "ended"}]
        /\ cancelled = FALSE /\ quiet = 0 /\ deadline = [e \in Ends |-> Patience]
    BY <2>1 DEF RelayInv, RelayTypeOK, RelayShape
  <2>3. RelayTypeOK'
    BY <2>1, <2>2 DEF RelayInv, RelayTypeOK
  <2>4. QED  BY <2>1, <2>2, <2>3 DEF RelayInv, RelayShape, Granted
<1>3. CASE NotEstablished
  BY <1>3 DEF NotEstablished, wayVars, RelayInv, RelayTypeOK, RelayShape, Granted
<1>4. CASE Return
  BY <1>4 DEF Return, wayVars, RelayInv, RelayTypeOK, RelayShape, Granted
<1>5. QED  BY <1>1, <1>2, <1>3, <1>4

LEMMA EndWayKeeps ==
  ASSUME RelayInv, NEW d \in Directions, way[d] # "ended", EndWay(d)
  PROVE  RelayInv'
<1>1. /\ way' = [way EXCEPT ![d] = "ended"] /\ cancelled' = TRUE
      /\ UNCHANGED <<relay, peer, deadline, waiting, quiet>>
  BY DEF EndWay
<1>2. way \in [Directions -> {"read", "write", "ended"}] /\ relay = "copy"
  BY DEF RelayInv, RelayTypeOK, RelayShape
<1>3. /\ way' \in [Directions -> {"read", "write", "ended"}] /\ way'[d] = "ended"
      /\ \A f \in Directions : way'[f] = "read" => way[f] = "read"
  BY <1>1, <1>2
<1>4. RelayTypeOK'
  BY <1>1, <1>3, Zenon DEF RelayInv, RelayTypeOK
<1>5. QED  BY <1>1, <1>2, <1>3, <1>4 DEF RelayInv, RelayShape, Granted

LEMMA WayKeeps ==
  ASSUME RelayInv, NEW d \in Directions, WayStep(d)
  PROVE  RelayInv'
<1>1. /\ way \in [Directions -> {"read", "write", "ended"}] /\ Patience \in Nat
      /\ deadline \in [Ends -> 0..Patience] /\ waiting \in [Ends -> BOOLEAN]
      /\ quiet \in 0..Patience
  BY RelayAssumption DEF RelayInv, RelayTypeOK
<1>2. CASE Take(d)
  <2>1. /\ relay = "copy" /\ way[d] = "read"
        /\ waiting' = [waiting EXCEPT ![Source[d]] = FALSE]
        /\ way' = [way EXCEPT ![d] = "write"]
        /\ deadline' = [deadline EXCEPT ![Target[d]] = Patience]
        /\ quiet' = 0 /\ UNCHANGED <<relay, peer, cancelled>>
    BY <1>2 DEF Take, Extend
  <2>2. /\ waiting' \in [Ends -> BOOLEAN]
        /\ deadline' \in [Ends -> 0..Patience]
        /\ way' \in [Directions -> {"read", "write", "ended"}]
        /\ quiet' \in 0..Patience
    <3>1. waiting' \in [Ends -> BOOLEAN]
      BY <1>1, <2>1, Zenon
    <3>2. Patience \in 0..Patience /\ quiet' \in 0..Patience
      BY <1>1, <2>1
    <3>3. deadline' \in [Ends -> 0..Patience]
      BY <1>1, <2>1, <3>2, Zenon
    <3>4. way' \in [Directions -> {"read", "write", "ended"}]
      BY <1>1, <2>1
    <3>5. QED  BY <3>1, <3>2, <3>3, <3>4
  <2>3. \A g \in Directions : way'[g] = "ended" <=> way[g] = "ended"
    BY <1>1, <2>1
  <2>4. RelayTypeOK'
    BY <2>1, <2>2, <2>3, Zenon DEF RelayInv, RelayTypeOK
  <2>5. ASSUME NEW g \in Directions PROVE Granted(g)'
    <3>1. CASE g = d
      BY <3>1, <1>1, <2>1 DEF Granted
    <3>2. CASE g # d
      <4>1. Source[g] = Target[d] /\ Target[d] \in Ends
        BY <3>2, EndsOfWays
      <4>2. deadline'[Source[g]] = Patience
        BY <4>1, <1>1, <2>1
      <4>3. QED  BY <4>2, <1>1, <2>1 DEF Granted, Source
    <3>3. QED  BY <3>1, <3>2
  <2>6. QED  BY <2>1, <2>4, <2>5 DEF RelayInv, RelayShape
<1>3. CASE Write(d)
  <2>1. /\ way[d] = "write"
        /\ way' = [way EXCEPT ![d] = "read"]
        /\ deadline' = [deadline EXCEPT ![Source[d]] = Patience]
        /\ UNCHANGED <<relay, peer, cancelled, waiting, quiet>>
    BY <1>3 DEF Write
  <2>2. relay = "copy"
    BY <2>1 DEF RelayInv, RelayShape
  <2>3. /\ deadline' \in [Ends -> 0..Patience]
        /\ way' \in [Directions -> {"read", "write", "ended"}]
    <3>1. Patience \in 0..Patience
      BY <1>1
    <3>2. deadline' \in [Ends -> 0..Patience]
      BY <1>1, <2>1, <3>1, Zenon
    <3>3. way' \in [Directions -> {"read", "write", "ended"}]
      BY <1>1, <2>1
    <3>4. QED  BY <3>2, <3>3
  <2>4. \A g \in Directions : way'[g] = "ended" <=> way[g] = "ended"
    BY <1>1, <2>1
  <2>5. RelayTypeOK'
    BY <2>1, <2>3, <2>4, Zenon DEF RelayInv, RelayTypeOK
  <2>6. ASSUME NEW g \in Directions PROVE Granted(g)'
    <3>1. Source[g] \in Ends /\ Source[d] \in Ends /\ Source' = Source
      BY EndsOfWays DEF Source
    <3>2. deadline'[Source[g]] \in {Patience, deadline[Source[g]]}
          /\ (g = d => deadline'[Source[g]] = Patience)
      BY <1>1, <2>1, <3>1
    <3>3. g # d => way'[g] = way[g]
      BY <1>1, <2>1
    <3>4. Granted(g)
      BY DEF RelayInv, RelayShape
    <3>5. deadline[Source[g]] \in 0..Patience
      BY <1>1, <3>1
    <3>6. QED  BY <1>1, <2>1, <3>1, <3>2, <3>3, <3>4, <3>5 DEF Granted
  <2>7. QED  BY <2>1, <2>2, <2>5, <2>6 DEF RelayInv, RelayShape
<1>4. CASE WriteFails(d) \/ ReadOver(d) \/ ReadTimesOut(d)
  <2>1. way[d] # "ended" /\ EndWay(d)
    BY <1>4 DEF WriteFails, ReadOver, ReadTimesOut
  <2>2. QED  BY <2>1, EndWayKeeps
<1>5. QED  BY <1>2, <1>3, <1>4 DEF WayStep

LEMMA RelayKeeps ==
  ASSUME RelayInv, RelayStep
  PROVE  RelayInv'
BY EndsKeep, TickKeeps, BeginKeeps, WayKeeps DEF RelayStep

\* The deadline of a direction that waits is over only if its grant is.
LEMMA CutIsIdle ==
  ASSUME RelayInv, NEW d \in Directions, ReadTimesOut(d)
  PROVE  quiet = Patience
<1>1. way[d] = "read" /\ deadline[Source[d]] = 0
  BY DEF ReadTimesOut
<1>2. deadline[Source[d]] + quiet >= Patience
  BY <1>1 DEF RelayInv, RelayShape, Granted
<1>3. QED  BY <1>1, <1>2, RelayAssumption DEF RelayInv, RelayTypeOK

-----------------------------------------------------------------------------
(* The composition.                                                        *)

\* The conjuncts of TypeOK that relate the stage with the parts.
Staged ==
  /\ stage \in {"sniff", "idle", "serve", "proxy", "tunnel", "mitm", "stream",
                "h2", "closed"}
  /\ request \in Requests \cup {None}
  /\ request # None <=> stage = "serve"
  /\ loop # "off" => stage \in {"proxy", "closed"}
  /\ relay # "off" => stage \in {"tunnel", "closed"}
  /\ stage \notin {"sniff", "closed"} => Len(given) = Opening

IInv == Staged /\ SniffInv /\ ProxyInv /\ RelayInv

LEMMA InvTypeOK == IInv => TypeOK
BY DEF IInv, Staged, SniffInv, ProxyInv, RelayInv, TypeOK

\* A part that has not the connection stays as it is.
LEMMA SniffRests == SniffInv /\ UNCHANGED sniffVars => SniffInv'
BY DEF sniffVars, SniffInv, SniffTypeOK, SniffShape, BytesInOrder, Refused

LEMMA ProxyRests == ProxyInv /\ UNCHANGED proxyVars => ProxyInv'
BY DEF proxyVars, dialVars, clientVars, ProxyInv, ProxyTypeOK, ProxyShape, InStep,
   AnswersInTurn

LEMMA RelayRests == RelayInv /\ UNCHANGED relayVars => RelayInv'
BY DEF relayVars, wayVars, RelayInv, RelayTypeOK, RelayShape, Granted

LEMMA InitHolds == Init => IInv
<1>1. SUFFICES ASSUME Init PROVE IInv
  OBVIOUS
<1>2. SniffInv /\ ProxyInv /\ RelayInv
  BY <1>1, SniffInitHolds, ProxyInitHolds, RelayInitHolds DEF Init
<1>3. Staged
  BY <1>1, ClientAssumption DEF Init, ProxyInit, RelayInit, Staged
<1>4. QED  BY <1>2, <1>3 DEF IInv

\* Each step is one of a single part, or of none.
LEMMA PartsKeep ==
  ASSUME IInv, [Next]_vars
  PROVE  SniffInv' /\ ProxyInv' /\ RelayInv'
<1>1. SniffInv /\ ProxyInv /\ RelayInv
  BY DEF IInv
<1>2. SniffStep \/ UNCHANGED sniffVars
  BY DEF Next, vars, Sniff, Receive, CloseIdle, Answer, Takeover, ToProxy,
     ToTunnel, ToOther, Proxy, Tunnel, OtherOver
<1>3. ProxyStep \/ UNCHANGED proxyVars
  BY DEF Next, vars, Sniff, Receive, CloseIdle, Answer, ToProxy, ToTunnel,
     ToOther, Proxy, Tunnel, OtherOver, ProxyStep
<1>4. RelayStep \/ UNCHANGED relayVars
  BY DEF Next, vars, Sniff, Receive, CloseIdle, Answer, ToProxy, ToTunnel,
     ToOther, Proxy, Tunnel, OtherOver, RelayStep
<1>5. QED
  BY <1>1, <1>2, <1>3, <1>4, SniffKeeps, SniffRests, ProxyKeeps, ProxyRests,
     RelayKeeps, RelayRests

LEMMA StagedKeeps ==
  ASSUME IInv, [Next]_vars
  PROVE  Staged'
<1> USE ClientAssumption DEF IInv, Staged
<1>1. CASE Sniff
  BY <1>1 DEF Sniff, proxyVars, relayVars
<1>2. CASE Receive \/ CloseIdle \/ Answer
  BY <1>2 DEF Receive, CloseIdle, Answer, sniffVars, proxyVars, relayVars
<1>3. CASE ToProxy
  BY <1>3 DEF ToProxy, Takeover, relayVars, sniffVars
<1>4. CASE ToTunnel
  BY <1>4 DEF ToTunnel, Takeover, proxyVars, sniffVars
<1>5. CASE ToOther
  BY <1>5 DEF ToOther, Takeover, proxyVars, relayVars, sniffVars
<1>6. CASE Proxy
  BY <1>6 DEF Proxy, sniffVars, relayVars
<1>7. CASE Tunnel
  BY <1>7 DEF Tunnel, sniffVars, proxyVars
<1>8. CASE OtherOver
  BY <1>8 DEF OtherOver, sniffVars, proxyVars, relayVars
<1>9. CASE UNCHANGED vars
  BY <1>9 DEF vars, sniffVars, proxyVars, relayVars
<1>10. QED
  BY <1>1, <1>2, <1>3, <1>4, <1>5, <1>6, <1>7, <1>8, <1>9 DEF Next

LEMMA NextKeeps == IInv /\ [Next]_vars => IInv'
BY PartsKeep, StagedKeeps DEF IInv

LEMMA InvHolds == Spec => []IInv
BY InitHolds, NextKeeps, PTL DEF Spec

\* Every variable of a client's connection has its type, and a part of the
\* program has begun only if it has the connection or had it last.
THEOREM TypesHold == Spec => []TypeOK
BY InvHolds, InvTypeOK, PTL

\* What hyperConn has read from the network to tell TLS from HTTP is given to
\* the reader after it, in order, and no byte is lost or given twice.
THEOREM BytesAreKept == Spec => []BytesInOrder
<1>1. IInv => BytesInOrder
  BY DEF IInv, SniffInv
<1>2. QED  BY <1>1, InvHolds, PTL

\* handleProxyTunnel gives the n-th answer to the n-th request, whatever the
\* remotes send after theirs and whenever the client sends the next request.
THEOREM AnswersAreInTurn == Spec => []AnswersInTurn
<1>1. IInv => AnswersInTurn
  BY DEF IInv, ProxyInv
<1>2. QED  BY <1>1, InvHolds, PTL

\* copyOneway gives up its read for want of bytes only if none came for the
\* whole time in either direction.
THEOREM IdleOnlyIsCut == Spec => OnlyIdleIsCut
<1>1. IInv => (\A d \in Directions : ReadTimesOut(d) => quiet = Patience)
  BY CutIsIdle DEF IInv
<1>2. QED  BY <1>1, InvHolds, PTL DEF OnlyIdleIsCut

-----------------------------------------------------------------------------
(* What makes ProxyAnswers true, step by step.                             *)

\* What handleProxyTunnel has still to do for the request it serves.
Remaining ==
  CASE loop = "dial" -> 4 [] loop = "write" -> 3 [] loop = "answer" -> 2
    [] loop = "copy" -> 1 [] OTHER -> 0

\* The steps until the loop is done with the i-th request, five for each of
\* the requests that come before it.
StepsTo(i) ==
  IF loop = "ended" \/ i < serving THEN 0 ELSE 5 * (i - serving) + Remaining

\* A request that the client has sent comes up and is done with, whatever the
\* answers are: each step of the loop brings this nearer or ends the connection,
\* and no step of anyone else puts it off.  Then it is answered to its end,
\* unless the connection is closed, or an answer was interim or had no length.
EveryRequestComesUp ==
  [][\A i \in Numbers : i <= asked /\ ~swallowed =>
       /\ StepsTo(i) \in 0..(5 * MaxRequests)
       /\ StepsTo(i) = 0 => StepsTo(i)' = 0
       /\ StepsTo(i) = 0 => loop = "ended" \/ unended \/ i <= Len(answers)
       /\ StepsTo(i) > 0 => IF loop' = loop THEN StepsTo(i)' = StepsTo(i)
                                            ELSE StepsTo(i)' < StepsTo(i)]_vars

\* The requests that were sent are those the loop is done with, the one that
\* is served and those that wait.
LEMMA RequestsInStep ==
  ASSUME ProxyInv, loop \notin {"off", "ended"}, ~swallowed
  PROVE  /\ Len(answers) \in Nat /\ Len(queue) \in Nat
         /\ serving \in Numbers /\ asked \in 0..MaxRequests
         /\ asked = serving + Len(queue)
         /\ ~unended => serving = Len(answers) + (IF loop = "next" THEN 0 ELSE 1)
<1>1. /\ Len(answers) \in Nat /\ Len(queue) \in Nat /\ asked \in 0..MaxRequests
      /\ loop \in {"dial", "write", "answer", "copy", "next"}
  BY DEF ProxyInv, ProxyTypeOK
<1>2. serving \in Numbers /\ InStep
  BY DEF ProxyInv, ProxyShape
<1>3. QED  BY <1>1, <1>2 DEF InStep, Numbers, ProxyAssumption

LEMMA StepsBounded ==
  ASSUME ProxyInv, NEW i \in Numbers, i <= asked, ~swallowed
  PROVE  /\ StepsTo(i) \in 0..(5 * MaxRequests)
         /\ StepsTo(i) = 0 => loop = "ended" \/ unended \/ i <= Len(answers)
<1>1. CASE loop = "ended"
  BY <1>1, ProxyAssumption DEF StepsTo
<1>2. CASE loop # "ended"
  <2>1. loop # "off"
    BY DEF ProxyInv, ProxyShape, Numbers
  <2>2. /\ serving \in 1..MaxRequests /\ Len(answers) \in Nat /\ i \in 1..MaxRequests
        /\ ~unended => serving = Len(answers) + (IF loop = "next" THEN 0 ELSE 1)
    BY <1>2, <2>1, RequestsInStep DEF Numbers
  <2>3. CASE i < serving
    BY <2>2, <2>3, ProxyAssumption DEF StepsTo
  <2>4. CASE ~(i < serving)
    <3>1. /\ Remaining \in 0..4 /\ (Remaining = 0 => loop = "next")
          /\ StepsTo(i) = 5 * (i - serving) + Remaining
      BY <1>2, <2>1, <2>4 DEF Remaining, StepsTo, ProxyInv, ProxyTypeOK
    <3>2. i - serving \in 0..(MaxRequests - 1)
      BY <2>2, <2>4, ProxyAssumption
    <3>3. StepsTo(i) = 0 => i = serving /\ loop = "next"
      BY <2>2, <3>1, <3>2
    <3>4. QED  BY <2>2, <3>1, <3>2, <3>3, ProxyAssumption
  <2>5. QED  BY <2>3, <2>4
<1>3. QED  BY <1>1, <1>2

\* Serving a request is four steps, taking up the next one is a fifth.
LEMMA LoopNears ==
  ASSUME ProxyInv, ProxyStep, NEW i \in Numbers, i <= asked, ~swallowed
  PROVE  /\ StepsTo(i) = 0 => StepsTo(i)' = 0
         /\ StepsTo(i) > 0 => IF loop' = loop THEN StepsTo(i)' = StepsTo(i)
                                              ELSE StepsTo(i)' < StepsTo(i)
<1> USE DEF Numbers
<1>1. loop # "off"
  BY DEF ProxyInv, ProxyShape
<1>2. CASE loop = "ended"
  <2>1. loop' = "ended"
    BY <1>2
    DEF ProxyStep, ProxyLoop, ProxyBegin, Ask, NoRequest, NextRequest, Websocket,
        Dial, DialFails, Forward, RemoteFails, ReadAnswer, CopyAnswer
  <2>2. QED  BY <1>2, <2>1 DEF StepsTo
<1>3. CASE loop # "ended"
  <2>1. /\ serving \in 1..MaxRequests /\ Len(queue) \in Nat
        /\ asked = serving + Len(queue)
    BY <1>1, <1>3, RequestsInStep
  <2>2. /\ StepsTo(i) \in Nat /\ Remaining \in 0..4
        /\ ~(i < serving) => StepsTo(i) = 5 * (i - serving) + Remaining
    BY <1>3, StepsBounded DEF StepsTo, Remaining
  <2>3. CASE Ask
    <3>1. UNCHANGED <<loop, serving>>
      BY <2>3 DEF Ask
    <3>2. QED  BY <3>1, <2>2 DEF StepsTo, Remaining
  <2>4. CASE NextRequest
    <3>1. /\ loop = "next" /\ loop' = "dial" /\ serving' = queue[1] /\ Len(queue) > 0
      BY <2>1, <2>4 DEF NextRequest, ProxyInv, ProxyTypeOK
    <3>2. serving' = serving + 1
      BY <2>1, <3>1 DEF ProxyInv, ProxyShape, InStep
    <3>3. Remaining = 0 /\ Remaining' = 4
      BY <3>1 DEF Remaining
    <3>4. StepsTo(i)' = IF i < serving + 1 THEN 0 ELSE 5 * (i - (serving + 1)) + 4
      BY <3>1, <3>2, <3>3 DEF StepsTo
    <3>5. StepsTo(i) = IF i < serving THEN 0 ELSE 5 * (i - serving)
      BY <1>3, <2>1, <3>3 DEF StepsTo
    <3>6. QED  BY <2>1, <3>1, <3>4, <3>5
  <2>5. CASE Dial \/ Forward \/ ReadAnswer \/ CopyAnswer
    <3>1. /\ serving' = serving /\ loop' # loop /\ loop' # "ended"
          /\ Remaining' = Remaining - 1 /\ Remaining \in 1..4
      BY <2>5 DEF Dial, Forward, ReadAnswer, CopyAnswer, clientVars, Remaining
    <3>2. StepsTo(i)' = IF i < serving THEN 0 ELSE 5 * (i - serving) + Remaining'
      BY <3>1 DEF StepsTo
    <3>3. StepsTo(i) = IF i < serving THEN 0 ELSE 5 * (i - serving) + Remaining
      BY <1>3 DEF StepsTo
    <3>4. QED  BY <2>1, <3>1, <3>2, <3>3
  <2>6. CASE Websocket \/ DialFails \/ RemoteFails \/ NoRequest
    <3>1. loop' = "ended"
      BY <2>6 DEF Websocket, DialFails, RemoteFails, NoRequest, End
    <3>2. StepsTo(i)' = 0
      BY <3>1 DEF StepsTo
    <3>3. QED  BY <1>3, <2>2, <3>1, <3>2
  <2>7. ~ProxyBegin
    BY <1>1 DEF ProxyBegin
  <2>8. QED
    BY <2>3, <2>4, <2>5, <2>6, <2>7 DEF ProxyStep, ProxyLoop
<1>4. QED  BY <1>2, <1>3

\* The plain proxy is done with a request after at most 5 * MaxRequests steps
\* of handleProxyTunnel, every step that is taken is one of them, and a client
\* that waits after them waits for the rest of an answer that is not over.
THEOREM RequestsComeUp == Spec => EveryRequestComesUp
<1> DEFINE Nears ==
      \A i \in Numbers : i <= asked /\ ~swallowed =>
        /\ StepsTo(i) \in 0..(5 * MaxRequests)
        /\ StepsTo(i) = 0 => StepsTo(i)' = 0
        /\ StepsTo(i) = 0 => loop = "ended" \/ unended \/ i <= Len(answers)
        /\ StepsTo(i) > 0 => IF loop' = loop THEN StepsTo(i)' = StepsTo(i)
                                             ELSE StepsTo(i)' < StepsTo(i)
<1>1. ASSUME IInv, Next PROVE Nears
  <2>1. ProxyInv
    BY <1>1 DEF IInv
  <2>2. ProxyStep \/ UNCHANGED proxyVars
    BY <1>1 DEF Next, Sniff, Receive, CloseIdle, Answer, ToProxy, ToTunnel,
       ToOther, Proxy, Tunnel, OtherOver, ProxyStep
  <2>3. SUFFICES ASSUME NEW i \in Numbers, i <= asked, ~swallowed
                 PROVE  /\ StepsTo(i) \in 0..(5 * MaxRequests)
                        /\ StepsTo(i) = 0 => StepsTo(i)' = 0
                        /\ StepsTo(i) = 0 =>
                             loop = "ended" \/ unended \/ i <= Len(answers)
                        /\ StepsTo(i) > 0 =>
                             IF loop' = loop THEN StepsTo(i)' = StepsTo(i)
                                             ELSE StepsTo(i)' < StepsTo(i)
    OBVIOUS
  <2>4. CASE ProxyStep
    BY <2>1, <2>3, <2>4, LoopNears, StepsBounded
  <2>5. CASE UNCHANGED proxyVars
    <3>1. UNCHANGED <<loop, serving>>
      BY <2>5 DEF proxyVars
    <3>2. StepsTo(i)' = StepsTo(i) /\ loop' = loop
      BY <3>1 DEF StepsTo, Remaining
    <3>3. QED  BY <2>1, <2>3, <3>2, StepsBounded
  <2>6. QED  BY <2>2, <2>4, <2>5
<1>2. IInv /\ [Next]_vars => [Nears]_vars
  BY <1>1
<1>3. Spec => [][Nears]_vars
  BY <1>2, InvHolds, PTL DEF Spec
<1>4. QED  BY <1>3 DEF EveryRequestComesUp
=============================================================================

--------------------------- MODULE LifelineProofs ---------------------------
(***************************************************************************)
(* Proofs, for any lists of resolvers and servers, any answers and any     *)
(* streams with a proper header, that the C client leaves open only the    *)
(* sockets of tunnels it was asked for, and that no byte for ssh or for    *)
(* the server is lost, doubled or put out of order.                        *)
(***************************************************************************)
EXTENDS Lifeline, SequenceTheorems, FiniteSetTheorems, TLAPS

-----------------------------------------------------------------------------
(***************************************************************************)
(* The inductive invariant.                                                *)
(***************************************************************************)

\* How many sockets are open beside the two of every attempt that called ssh:
\* the one of the query, and the server's while it is being greeted.
SocketInv ==
    /\ pc \in {"down", "dns"} => open <= 2 * served
    /\ pc \in {"query", "records"} => open >= 1 /\ open <= 2 * served + 1
    /\ pc \in {"helo", "skip", "local"} => open >= 2 /\ open <= 2 * served + 2
    /\ Forwarding => open >= 2 /\ open <= 2 * served + 1
    /\ pc \notin {"down", "dns"} => ri <= resolvers

\* s behind its first n bytes.
Rest(s, n) == SubSeq(s, n + 1, Len(s))

\* Nothing was forwarded yet on this connection.
Quiet == /\ tx = Empty /\ got = Empty /\ rx[Ssh] = <<>>
         /\ buf = <<>> /\ told = <<>>

\* Exactly the last c of the first n bytes of s are line ends, and nowhere among
\* them are four in a row.
Counts(s, n, c) ==
    /\ c < n /\ s[n - c] \notin LineEnds
    /\ \A j \in n - c + 1 .. n : s[j] \in LineEnds
    /\ \A k \in 4 .. n : \E j \in k - 3 .. k : s[j] \notin LineEnds

\* The bytes up to n were eaten, and countspace of them, the last ones, are line
\* ends.
Skipping(n) ==
    /\ n <= Len(said) /\ rx[Server] \o stream = Rest(said, n)
    /\ Counts(said, n, countspace)

\* The server answers as expected, and its header ends with byte n.
Header(n) == FirstFour(said, n)

\* What a socket's peer has read, and all that is on its way to it in the client.
Flow(to) == got[to] \o tx[to] \o Held(to) \o rx[Other(to)]

\* All that is for ssh, and all that is for the server.
ToSsh == Flow(Ssh) \o stream
ToServer == Flow(Server)

\* said is what a server that answers as expected sends.
Expected == said \in Streams /\ IsPrefix(Expect, said)

\* Where the bytes of the server and of ssh are, from what they said to what was
\* delivered (attempt_remote, forward_loop).
StreamInv ==
    /\ ~Connected => rx = Empty /\ stream = <<>> /\ said = <<>>
    /\ ~Forwarding => Quiet
    /\ pc # "skip" => countspace = 0
    /\ pc = "helo" => (said = <<>> \/ said \in Streams) /\ rx[Server] \o stream = said
    /\ pc \in {"skip", "local"} \/ Forwarding => Expected
    /\ pc = "skip" => \E n \in Nat : Skipping(n)
    /\ pc = "local" => \E n \in Nat : Header(n) /\ rx[Server] \o stream = Rest(said, n)
    /\ Forwarding => \E n \in Nat : /\ Header(n)
                                    /\ peer[Ssh] = "up" => ToSsh = Rest(said, n)
    /\ Forwarding /\ peer[Server] # "closed" => ToServer = told

\* The inductive invariant.
IInv == TypeOK /\ SocketInv /\ StreamInv

\* Program counters, without the names of the sockets.
LEMMA Places ==
    /\ Forwarding <=> pc \in {"poll", "ssh", "server", "write_ssh", "write_server"}
    /\ Connected <=> pc \in {"poll", "ssh", "server", "write_ssh", "write_server",
                             "helo", "skip", "local"}
  BY DEF Forwarding, Connected, Writing, Ssh, Server

\* The same two sets of places, in the state after a step.
LEMMA PlacesAfter ==
    /\ Forwarding' <=> pc' \in {"poll", "ssh", "server", "write_ssh", "write_server"}
    /\ Connected' <=> pc' \in {"poll", "ssh", "server", "write_ssh", "write_server",
                               "helo", "skip", "local"}
  BY DEF Forwarding, Connected, Writing, Ssh, Server

\* The types of the queues.
LEMMA Typed ==
    ASSUME TypeOK
    PROVE  /\ \A s \in Sockets : rx[s] \in Seq(STRING) /\ tx[s] \in Seq(STRING) /\ got[s] \in Seq(STRING)
           /\ \A s \in Sockets : Len(tx[s]) <= ROOM
           /\ buf \in Seq(STRING) /\ Len(buf) <= BUFFER
           /\ stream \in Seq(STRING) /\ said \in Seq(STRING) /\ told \in Seq(STRING)
           /\ DOMAIN rx = Sockets /\ DOMAIN tx = Sockets /\ DOMAIN got = Sockets /\ DOMAIN peer = Sockets
           /\ Ssh \in Sockets /\ Server \in Sockets
  BY DEF TypeOK, LoopTypeOK, Sockets

\* At most seven records are attempted.
LEMMA AttemptedIs ==
    ASSUME NEW answer \in Answers
    PROVE  Attempted(answer) \in 0 .. 7
<1> DEFINE D == 1 .. Len(answer)
           T == {i \in DOMAIN answer :
                    answer[i].isA /\ \A j \in 1 .. i : answer[j].isA => answer[j].ttl # 0}
<1>1. answer \in Seq(Answer) /\ Len(answer) < 8
  BY AnswersAssumption
<1>2. Len(answer) \in Nat /\ DOMAIN answer = D
  BY <1>1
<1>3. T \in SUBSET D
  BY <1>2
<1>4. Attempted(answer) = Cardinality(T)
  BY DEF Attempted
<1>5. IsFiniteSet(D) /\ Cardinality(D) = IF 1 > Len(answer) THEN 0 ELSE Len(answer) - 1 + 1
  BY <1>2, FS_Interval
<1> HIDE DEF D, T
<1>6. IsFiniteSet(T) /\ Cardinality(T) <= Cardinality(D)
  BY <1>3, <1>5, FS_Subset
<1>7. Cardinality(T) \in Nat
  BY <1>6, FS_CardinalityType
<1> QED
  BY <1>1, <1>2, <1>4, <1>5, <1>6, <1>7

\* A process goes through finitely many resolvers.
LEMMA ResolversAreFinite ==
    ASSUME NEW conf \in ResolvConfs
    PROVE  Cardinality(DOMAIN Resolvers \ Files) + Cardinality(Files) * Len(conf) \in Nat
<1> DEFINE D == DOMAIN Resolvers
<1>1. conf \in Seq(STRING) /\ Resolvers \in Seq(STRING)
  BY ListsAssumption
<1>2. Len(conf) \in Nat /\ Len(Resolvers) \in Nat /\ D = 1 .. Len(Resolvers)
  BY <1>1
<1>3. IsFiniteSet(D)
  BY <1>2, FS_Interval
<1>4. Files \in SUBSET D /\ D \ Files \in SUBSET D
  BY DEF Files
<1> HIDE DEF D
<1>5. IsFiniteSet(Files) /\ IsFiniteSet(D \ Files)
  BY <1>3, <1>4, FS_Subset
<1> DEFINE a == Cardinality(D \ Files)
           b == Cardinality(Files)
<1>6. a \in Nat /\ b \in Nat
  BY <1>5, FS_CardinalityType
<1> HIDE DEF a, b
<1>7. a + b * Len(conf) \in Nat
  BY <1>2, <1>6
<1> QED
  BY <1>7 DEF a, b, D

-----------------------------------------------------------------------------
(* Steps without a connection. *)

\* A step from a state without connection to another one that leaves the
\* connection's variables alone.
LEMMA StillQuiet ==
    ASSUME StreamInv, ~Connected, ~Connected', UNCHANGED <<heloVars, loopVars>>
    PROVE  StreamInv'
<1>1. ~Forwarding /\ ~Forwarding' /\ pc' \notin {"helo", "skip", "local"}
  BY DEF Connected
<1>2. /\ rx = Empty /\ stream = <<>> /\ said = <<>> /\ Quiet /\ countspace = 0
  BY <1>1 DEF StreamInv, Connected
<1>3. rx' = Empty /\ stream' = <<>> /\ said' = <<>> /\ countspace' = 0
  BY <1>2 DEF heloVars, loopVars
<1>4. Quiet'
  BY <1>2 DEF Quiet, heloVars, loopVars
<1> QED
  BY <1>1, <1>3, <1>4 DEF StreamInv

\* A step that drops the connection.
LEMMA Dropped ==
    ASSUME Drop, ~Connected'
    PROVE  StreamInv' /\ LoopTypeOK' /\ countspace' = 0 /\ stream' = <<>> /\ said' = <<>>
<1>1. ~Forwarding' /\ pc' \notin {"helo", "skip", "local"}
  BY DEF Connected
<1>2. /\ rx' = Empty /\ tx' = Empty /\ got' = Empty /\ peer' = [s \in Sockets |-> "up"]
      /\ buf' = <<>> /\ revents' = {} /\ told' = <<>>
      /\ countspace' = 0 /\ stream' = <<>> /\ said' = <<>>
  BY DEF Drop, Reset
<1>3. Empty \in [Sockets -> Seq(STRING)] /\ Empty[Ssh] = <<>> /\ \A s \in Sockets : Len(Empty[s]) = 0
  BY DEF Empty, Sockets
<1>4. Quiet'
  BY <1>2, <1>3 DEF Quiet
<1>5. LoopTypeOK'
  <2>1. peer' \in [Sockets -> {"up", "closed", "gone"}]
    BY <1>2
  <2>2. \A s \in Sockets : Len(tx'[s]) <= ROOM
    BY <1>2, <1>3, BufferAssumption
  <2>3. buf' \in Seq(STRING) /\ Len(buf') <= BUFFER
    BY <1>2, BufferAssumption
  <2> QED
    BY <1>2, <1>3, <2>1, <2>2, <2>3 DEF LoopTypeOK
<1> QED
  BY <1>1, <1>2, <1>4, <1>5 DEF StreamInv

\* The variables of the loop keep their types.
LEMMA LoopKept ==
    ASSUME TypeOK, UNCHANGED loopVars
    PROVE  LoopTypeOK'
  BY DEF TypeOK, LoopTypeOK, loopVars

\* procd's start of the client resets every counter, so nothing is open, served or
\* read.
LEMMA StartStep ==
    ASSUME IInv, Start
    PROVE  IInv'
<1>1. TypeOK /\ SocketInv /\ StreamInv
  BY DEF IInv
<1>2. /\ pc = "down" /\ rounds' = rounds + 1 /\ pc' = "dns" /\ ri' = 1 /\ si' = 1 /\ left' = 0
      /\ open' = 0 /\ served' = 0 /\ UNCHANGED <<heloVars, loopVars>>
  BY DEF Start
<1>3. resolvers' \in Nat
  BY ResolversAreFinite DEF Start
<1>4. ~Connected /\ ~Connected' /\ ~Forwarding'
  BY <1>2, Places, PlacesAfter
<1>5. StreamInv'
  BY <1>1, <1>2, <1>4, StillQuiet
<1>6. SocketInv'
  BY <1>2, <1>4 DEF SocketInv
<1>7. Len(Servers) \in Nat
  BY ListsAssumption
<1>8. LoopTypeOK'
  BY <1>1, <1>2, LoopKept
<1>9. stream' \in Seq(STRING) /\ said' \in Seq(STRING) /\ countspace' \in 0 .. 3 /\ rounds' \in Nat
  BY <1>1, <1>2 DEF TypeOK, heloVars
<1>10. ri' \in 1 .. resolvers' + 1 /\ si' \in 1 .. Len(Servers) + 1
  <2>1. ri' = 1 /\ si' = 1
    BY <1>2
  <2>2. 1 \in 1 .. resolvers' + 1
    <3>1. ASSUME NEW n \in Nat PROVE 1 \in 1 .. n + 1
      OBVIOUS
    <3> QED
      BY <1>3, <3>1
  <2>3. 1 \in 1 .. Len(Servers) + 1
    BY <1>7
  <2> QED
    BY <2>1, <2>2, <2>3
<1>11. TypeOK'
  <2>1. pc' = "dns" /\ left' = 0 /\ open' = 0 /\ served' = 0
    BY <1>2
  <2>2. left' \in 0 .. 7 /\ open' \in Nat /\ served' \in Nat
    BY <2>1
  <2> QED
    BY <1>3, <1>8, <1>9, <1>10, <2>1, <2>2 DEF TypeOK
<1> QED
  BY <1>5, <1>6, <1>11 DEF IInv

\* NextServer after AtServer or with a query's socket closed.
LEMMA NextServerStep ==
    ASSUME IInv, NextServer, ~Connected, ri <= resolvers,
           open' \in Nat, open' <= 2 * served
    PROVE  IInv'
<1>1. TypeOK /\ SocketInv /\ StreamInv
  BY DEF IInv
<1>2. /\ pc' = "dns" /\ UNCHANGED <<heloVars, loopVars>>
      /\ resolvers' = resolvers /\ left' = left /\ served' = served /\ rounds' = rounds
      /\ IF si < Len(Servers) THEN si' = si + 1 /\ ri' = ri ELSE si' = 1 /\ ri' = ri + 1
  BY DEF NextServer
<1>3. Len(Servers) \in Nat
  BY ListsAssumption
<1>4. ~Connected' /\ ~Forwarding'
  BY <1>2, Places, PlacesAfter
<1>5. StreamInv'
  BY <1>1, <1>2, <1>4, StillQuiet
<1>6. SocketInv'
  BY <1>2, <1>4 DEF SocketInv
<1>7. ri' \in 1 .. resolvers' + 1 /\ si' \in 1 .. Len(Servers) + 1
  BY <1>1, <1>2, <1>3 DEF TypeOK
<1>8. LoopTypeOK'
  BY <1>1, <1>2, LoopKept
<1>9. /\ stream' \in Seq(STRING) /\ said' \in Seq(STRING) /\ countspace' \in 0 .. 3
      /\ rounds' \in Nat /\ served' \in Nat /\ left' \in 0 .. 7 /\ resolvers' \in Nat
  BY <1>1, <1>2 DEF TypeOK, heloVars
<1>10. TypeOK'
  BY <1>2, <1>7, <1>8, <1>9 DEF TypeOK
<1> QED
  BY <1>5, <1>6, <1>10 DEF IInv

\* The steps that look for an address.
LEMMA DnsSteps ==
    ASSUME IInv, DnsInit \/ DnsInitFails \/ QueryFails \/ QueryAnswered \/ RecordsDone
                 \/ RemoteConnectFails
    PROVE  IInv'
<1>1. TypeOK /\ SocketInv /\ StreamInv /\ open \in Nat /\ served \in Nat
  BY DEF IInv, TypeOK
<1>2. CASE DnsInitFails
  <2>1. pc = "dns" /\ ri <= resolvers /\ open' = open /\ NextServer
    BY <1>2 DEF DnsInitFails, AtServer
  <2>2. ~Connected /\ open <= 2 * served
    BY <1>1, <2>1, Places DEF SocketInv
  <2> QED
    BY <1>1, <2>1, <2>2, NextServerStep
<1>3. CASE QueryFails \/ RecordsDone
  <2>1. pc \in {"query", "records"} /\ open' = open - 1 /\ NextServer
    BY <1>3 DEF QueryFails, RecordsDone
  <2>2. ~Connected /\ open >= 1 /\ open <= 2 * served + 1 /\ ri <= resolvers
    BY <1>1, <2>1, Places DEF SocketInv
  <2>3. open' \in Nat /\ open' <= 2 * served
    BY <1>1, <2>1, <2>2
  <2> QED
    BY <2>1, <2>2, <2>3, NextServerStep
<1>4. CASE DnsInit \/ QueryAnswered \/ RemoteConnectFails
  <2>1. /\ UNCHANGED <<heloVars, loopVars>> /\ resolvers' = resolvers /\ ri' = ri /\ si' = si
        /\ served' = served /\ rounds' = rounds /\ pc \in {"dns", "query", "records"}
        /\ pc' \in {"query", "records"}
    BY <1>4 DEF DnsInit, QueryAnswered, RemoteConnectFails, AtServer
  <2>2. ~Connected /\ ~Connected' /\ ~Forwarding'
    BY <2>1, Places, PlacesAfter
  <2>3. left' \in 0 .. 7
    <3>1. CASE DnsInit
      BY <1>1, <3>1 DEF DnsInit, TypeOK
    <3>2. CASE QueryAnswered
      BY <3>2, AttemptedIs DEF QueryAnswered
    <3>3. CASE RemoteConnectFails
      BY <1>1, <3>3 DEF RemoteConnectFails, TypeOK
    <3> QED
      BY <1>4, <3>1, <3>2, <3>3
  <2>4. open' \in Nat /\ open' >= 1 /\ open' <= 2 * served + 1 /\ ri <= resolvers
    <3>1. CASE DnsInit
      BY <1>1, <3>1 DEF DnsInit, AtServer, SocketInv
    <3>2. CASE QueryAnswered \/ RemoteConnectFails
      <4>1. open' = open /\ pc \in {"query", "records"}
        BY <3>2 DEF QueryAnswered, RemoteConnectFails
      <4> QED
        BY <1>1, <4>1 DEF SocketInv
    <3> QED
      BY <1>4, <3>1, <3>2
  <2>5. StreamInv'
    BY <1>1, <2>1, <2>2, StillQuiet
  <2>6. SocketInv'
    BY <2>1, <2>2, <2>4 DEF SocketInv
  <2>7. LoopTypeOK'
    BY <1>1, <2>1, LoopKept
  <2>8. /\ stream' \in Seq(STRING) /\ said' \in Seq(STRING) /\ countspace' \in 0 .. 3
        /\ rounds' \in Nat /\ served' \in Nat /\ resolvers' \in Nat
        /\ ri' \in 1 .. resolvers' + 1 /\ si' \in 1 .. Len(Servers) + 1
    BY <1>1, <2>1 DEF TypeOK, heloVars
  <2>9. TypeOK'
    BY <2>1, <2>3, <2>4, <2>7, <2>8 DEF TypeOK
  <2> QED
    BY <2>5, <2>6, <2>9 DEF IInv
<1> QED
  BY <1>2, <1>3, <1>4

\* The steps that drop the connection: the process ends, an attempt is given up,
\* ssh cannot be called, or a tunnel ends.
LEMMA DropSteps ==
    ASSUME IInv, ServerHeloFails \/ SkipHeaderFails \/ LocalConnectFails \/ ForwardEnds
                 \/ ForwardKills \/ Finish
    PROVE  IInv'
<1>1. TypeOK /\ SocketInv /\ open \in Nat /\ served \in Nat
  BY DEF IInv, TypeOK
<1>2. /\ Drop /\ resolvers' = resolvers /\ ri' = ri /\ si' = si /\ left' = left
      /\ rounds' = rounds /\ pc' \in {"down", "records"}
  BY DEF ServerHeloFails, SkipHeaderFails, LocalConnectFails, ForwardEnds, ForwardKills, Finish,
         Exit, GiveUp, callVars
<1>3. ~Connected' /\ ~Forwarding'
  BY <1>2, PlacesAfter
<1>4. StreamInv' /\ LoopTypeOK' /\ countspace' = 0 /\ stream' = <<>> /\ said' = <<>>
  BY <1>2, <1>3, Dropped
<1>5. /\ open' \in Nat /\ served' \in Nat
      /\ pc' = "down" => open' = 0 /\ served' = 0
      /\ pc' = "records" => open' >= 1 /\ open' <= 2 * served' + 1 /\ ri <= resolvers
  <2>1. CASE ServerHeloFails \/ SkipHeaderFails
    <3>1. pc \in {"helo", "skip"} /\ open' = open - 1 /\ served' = served /\ pc' = "records"
      BY <2>1 DEF ServerHeloFails, SkipHeaderFails, GiveUp
    <3>2. open >= 2 /\ open <= 2 * served + 2 /\ ri <= resolvers
      BY <1>1, <3>1 DEF SocketInv
    <3> QED
      BY <1>1, <3>1, <3>2
  <2>2. CASE LocalConnectFails
    <3>1. pc = "local" /\ open' \in {open, open + 1} /\ served' = served + 1 /\ pc' = "records"
      BY <2>2 DEF LocalConnectFails
    <3>2. open >= 2 /\ open <= 2 * served + 2 /\ ri <= resolvers
      BY <1>1, <3>1 DEF SocketInv
    <3> QED
      BY <1>1, <3>1, <3>2
  <2>3. CASE ForwardEnds
    <3>1. Forwarding /\ open' = open /\ served' = served /\ pc' = "records"
      BY <2>3 DEF ForwardEnds, LoopReturns, Forwarding, Sockets, callVars
    <3>2. open >= 2 /\ open <= 2 * served + 1 /\ ri <= resolvers
      BY <1>1, <3>1, Places DEF SocketInv
    <3> QED
      BY <1>1, <3>1, <3>2
  <2>4. CASE ForwardKills \/ Finish
    <3>1. pc' = "down" /\ open' = 0 /\ served' = 0
      BY <2>4 DEF ForwardKills, Finish, Exit
    <3> QED
      BY <3>1
  <2> QED
    BY <2>1, <2>2, <2>3, <2>4
<1>6. SocketInv'
  <2>1. ri' = ri /\ resolvers' = resolvers
    BY <1>2
  <2>2. CASE pc' = "down"
    <3>1. open' = 0 /\ served' = 0
      BY <1>5, <2>2
    <3>2. open' <= 2 * served'
      BY <3>1
    <3> QED
      BY <1>3, <2>2, <3>2 DEF SocketInv
  <2>3. CASE pc' = "records"
    BY <1>3, <1>5, <2>1, <2>3 DEF SocketInv
  <2> QED
    BY <1>2, <2>2, <2>3
<1>7. TypeOK'
  <2>1. resolvers' \in Nat /\ ri' \in 1 .. resolvers' + 1 /\ si' \in 1 .. Len(Servers) + 1
        /\ left' \in 0 .. 7 /\ rounds' \in Nat
    BY <1>1, <1>2 DEF TypeOK
  <2>2. stream' \in Seq(STRING) /\ said' \in Seq(STRING) /\ countspace' \in 0 .. 3
    BY <1>4
  <2> QED
    BY <1>2, <1>4, <1>5, <2>1, <2>2 DEF TypeOK
<1> QED
  BY <1>4, <1>6, <1>7 DEF IInv

-----------------------------------------------------------------------------
(* The header. *)

\* A step that changes only one socket's queue keeps the types of the queues.
LEMMA QueueTyped ==
    ASSUME NEW f \in [Sockets -> Seq(STRING)], NEW s \in Sockets, NEW q \in Seq(STRING)
    PROVE  /\ [f EXCEPT ![s] = q] \in [Sockets -> Seq(STRING)]
           /\ [f EXCEPT ![s] = q][s] = q
           /\ \A r \in Sockets : r # s => [f EXCEPT ![s] = q][r] = f[r]
  OBVIOUS

\* What is left of a stream after its first n bytes, byte by byte (lifeline.c:208-221
\* skips them).
LEMMA RestTyped ==
    ASSUME NEW s \in Seq(STRING), NEW n \in Nat, n <= Len(s)
    PROVE  /\ Rest(s, n) \in Seq(STRING) /\ Len(Rest(s, n)) = Len(s) - n
           /\ \A i \in 1 .. Len(s) - n : Rest(s, n)[i] = s[n + i]
<1> DEFINE x == SubSeq(s, n + 1, Len(s))
<1>1. n + 1 \in Int /\ Len(s) \in Int /\ \A i \in n + 1 .. Len(s) : s[i] \in STRING
  OBVIOUS
<1>2. /\ x \in Seq(STRING) /\ Len(x) = IF n + 1 <= Len(s) THEN Len(s) - (n + 1) + 1 ELSE 0
      /\ \A i \in 1 .. Len(s) - (n + 1) + 1 : x[i] = s[n + 1 + i - 1]
  BY <1>1, SubSeqProperties
<1> HIDE DEF x
<1>3. Len(x) = Len(s) - n
  BY <1>2
<1>4. ASSUME NEW i \in 1 .. Len(s) - n PROVE x[i] = s[n + i]
  <2>1. i \in 1 .. Len(s) - (n + 1) + 1 /\ n + 1 + i - 1 = n + i
    OBVIOUS
  <2> QED
    BY <1>2, <2>1
<1> QED
  BY <1>2, <1>3, <1>4 DEF Rest, x

\* The m bytes of s behind the first n are the first ones of q, and the rest of
\* q and w are behind them.
Continues(s, n, q, w, m) ==
    /\ n + m <= Len(s) /\ Rest(q, m) \o w = Rest(s, n + m)
    /\ \A i \in 1 .. m : q[i] = s[n + i]

\* What is behind the first m bytes of what is behind the first n.
LEMMA RestOfRest ==
    ASSUME NEW s \in Seq(STRING), NEW n \in Nat, NEW q \in Seq(STRING), NEW w \in Seq(STRING),
           n <= Len(s), q \o w = Rest(s, n), NEW m \in Nat, m <= Len(q)
    PROVE  Continues(s, n, q, w, m)
<1>1. /\ Len(Rest(s, n)) = Len(s) - n
      /\ \A i \in 1 .. Len(s) - n : Rest(s, n)[i] = s[n + i]
  BY RestTyped
<1> DEFINE c == q \o w
           x == Rest(q, m)
           d == x \o w
           y == Rest(s, n + m)
<1>2. /\ Len(c) = Len(q) + Len(w)
      /\ \A i \in 1 .. Len(q) + Len(w) : c[i] = IF i <= Len(q) THEN q[i] ELSE w[i - Len(q)]
  BY ConcatProperties
<1>3. /\ x \in Seq(STRING) /\ Len(x) = Len(q) - m
      /\ \A i \in 1 .. Len(q) - m : x[i] = q[m + i]
  BY RestTyped
<1> HIDE DEF x
<1>4. /\ d \in Seq(STRING) /\ Len(d) = Len(x) + Len(w)
      /\ \A i \in 1 .. Len(x) + Len(w) : d[i] = IF i <= Len(x) THEN x[i] ELSE w[i - Len(x)]
  BY <1>3, ConcatProperties
<1>5. c = Rest(s, n)
  OBVIOUS
<1> HIDE DEF c, d
<1>6. Len(q) + Len(w) = Len(s) - n /\ Len(q) \in Nat /\ Len(w) \in Nat /\ Len(s) \in Nat
  <2>1. Len(c) = Len(s) - n /\ Len(c) = Len(q) + Len(w)
    BY <1>1, <1>2, <1>5
  <2>2. Len(q) \in Nat /\ Len(w) \in Nat /\ Len(s) \in Nat
    OBVIOUS
  <2>3. Len(q) + Len(w) = Len(s) - n
    BY <2>1
  <2> QED
    BY <2>2, <2>3
<1>7. n + m \in Nat /\ n + m <= Len(s)
  BY <1>6
<1>8. /\ y \in Seq(STRING) /\ Len(y) = Len(s) - (n + m)
      /\ \A i \in 1 .. Len(s) - (n + m) : y[i] = s[n + m + i]
  BY <1>7, RestTyped
<1> HIDE DEF y
<1>9. \A i \in 1 .. Len(s) - n : c[i] = s[n + i]
  BY <1>1, <1>5
<1>10. ASSUME NEW i \in 1 .. m PROVE q[i] = s[n + i]
  <2>1. i \in 1 .. Len(q) + Len(w) /\ i <= Len(q) /\ i \in 1 .. Len(s) - n
    BY <1>6
  <2> QED
    BY <1>2, <1>9, <2>1
<1>11. Len(d) = Len(s) - (n + m)
  BY <1>3, <1>4, <1>6
<1>12. ASSUME NEW i \in 1 .. Len(s) - (n + m) PROVE d[i] = y[i]
  <2> DEFINE j == m + i
  <2>1. j \in 1 .. Len(s) - n /\ j \in 1 .. Len(q) + Len(w) /\ n + j = n + m + i
        /\ i \in 1 .. Len(x) + Len(w)
    BY <1>3, <1>6
  <2>2. c[j] = s[n + m + i] /\ y[i] = s[n + m + i]
    BY <1>8, <1>9, <2>1
  <2>3. c[j] = IF j <= Len(q) THEN q[j] ELSE w[j - Len(q)]
    BY <1>2, <2>1
  <2>4. d[i] = IF i <= Len(x) THEN x[i] ELSE w[i - Len(x)]
    BY <1>4, <2>1
  <2>5. (i <= Len(x) <=> j <= Len(q)) /\ j - Len(q) = i - Len(x)
    BY <1>3, <1>6
  <2>6. i <= Len(x) => x[i] = q[j]
    BY <1>3, <1>6
  <2> QED
    BY <2>2, <2>3, <2>4, <2>5, <2>6
<1>13. d = y
  BY <1>4, <1>8, <1>11, <1>12, SeqEqual
<1> QED
  BY <1>7, <1>10, <1>13 DEF d, y, x, Continues

\* remote_connect has a socket to greet.
LEMMA RemoteConnectStep ==
    ASSUME IInv, RemoteConnect
    PROVE  IInv'
<1>1. TypeOK /\ SocketInv /\ StreamInv /\ open \in Nat /\ served \in Nat /\ left \in 0 .. 7
  BY DEF IInv, TypeOK
<1>2. /\ pc = "records" /\ left > 0 /\ left' = left - 1 /\ pc' = "helo" /\ open' = open + 1
      /\ resolvers' = resolvers /\ ri' = ri /\ si' = si /\ served' = served /\ rounds' = rounds
      /\ countspace' = countspace /\ rx' = rx /\ tx' = tx /\ buf' = buf /\ revents' = revents
      /\ got' = got /\ told' = told
  BY DEF RemoteConnect
<1>3. ~Connected /\ ~Forwarding /\ ~Forwarding' /\ Connected'
  BY <1>2, Places, PlacesAfter
<1>4. rx = Empty /\ stream = <<>> /\ said = <<>> /\ Quiet /\ countspace = 0
  BY <1>1, <1>2, <1>3 DEF StreamInv
<1>5. /\ (said' = <<>> \/ said' \in Streams) /\ stream' = said'
      /\ peer' \in [Sockets -> {"up", "closed", "gone"}]
  <2>1. peer \in [Sockets -> {"up", "closed", "gone"}]
    BY <1>1 DEF TypeOK, LoopTypeOK
  <2>2. CASE \E s \in Streams : stream' = s /\ said' = s /\ UNCHANGED peer
    BY <2>1, <2>2
  <2>3. CASE peer' = [peer EXCEPT ![Server] = "closed"] /\ UNCHANGED <<stream, said>>
    BY <1>4, <2>1, <2>3
  <2> QED
    BY <2>2, <2>3 DEF RemoteConnect
<1>6. said' \in Seq(STRING) /\ stream' \in Seq(STRING)
  <2>1. \A s \in Streams : s \in Seq(STRING)
    BY StreamsAssumption
  <2>2. said' = <<>> => said' \in Seq(STRING)
    OBVIOUS
  <2> QED
    BY <1>5, <2>1, <2>2
<1>7. rx'[Server] \o stream' = said'
  <2>1. rx'[Server] = <<>>
    BY <1>2, <1>4 DEF Empty, Sockets
  <2> QED
    BY <1>5, <1>6, <2>1
<1>8. Quiet'
  BY <1>2, <1>4 DEF Quiet
<1>9. StreamInv'
  BY <1>2, <1>3, <1>4, <1>5, <1>7, <1>8 DEF StreamInv
<1>10. SocketInv'
  <2>1. open >= 1 /\ open <= 2 * served + 1 /\ ri <= resolvers
    BY <1>1, <1>2 DEF SocketInv
  <2>2. open' >= 2 /\ open' <= 2 * served' + 2
    BY <1>1, <1>2, <2>1
  <2> QED
    BY <1>2, <1>3, <2>1, <2>2 DEF SocketInv
<1>11. LoopTypeOK'
  BY <1>1, <1>2, <1>5 DEF TypeOK, LoopTypeOK
<1>12. open' \in Nat /\ left' \in 0 .. 7
  BY <1>1, <1>2
<1>13. TypeOK'
  BY <1>1, <1>2, <1>3, <1>6, <1>11, <1>12 DEF TypeOK
<1> QED
  BY <1>9, <1>10, <1>13 DEF IInv

\* What the server has sent up to the end of the expected status line has no
\* line end in it.
LEMMA ExpectedStart ==
    ASSUME NEW s \in Seq(STRING), IsPrefix(Expect, s)
    PROVE  /\ Len(Expect) \in Nat /\ Len(Expect) > 0 /\ Len(Expect) <= Len(s)
           /\ \A j \in 1 .. Len(Expect) : s[j] \notin LineEnds
<1>1. Expect \in Seq(STRING) /\ Expect # <<>> /\ \A j \in 1 .. Len(Expect) : Expect[j] \notin LineEnds
  BY StreamsAssumption, HeaderAssumption
<1>2. Len(Expect) \in Nat /\ Len(Expect) > 0
  BY <1>1
<1>3. Len(Expect) <= Len(s) /\ SubSeq(Expect, 1, Len(Expect)) = SubSeq(s, 1, Len(Expect))
  BY DEF IsPrefix
<1> DEFINE e == Len(Expect)
           x == SubSeq(Expect, 1, e)
           y == SubSeq(s, 1, e)
<1>4. 1 \in Int /\ e \in Int /\ (\A i \in 1 .. e : Expect[i] \in STRING) /\ \A i \in 1 .. e : s[i] \in STRING
  BY <1>1, <1>2, <1>3
<1>5. \A i \in 1 .. e - 1 + 1 : x[i] = Expect[1 + i - 1]
  BY <1>4, SubSeqProperties
<1>6. \A i \in 1 .. e - 1 + 1 : y[i] = s[1 + i - 1]
  BY <1>4, SubSeqProperties
<1>7. x = y
  BY <1>3
<1> HIDE DEF x, y
<1>8. ASSUME NEW j \in 1 .. e PROVE s[j] = Expect[j]
  <2>1. j \in 1 .. e - 1 + 1 /\ 1 + j - 1 = j
    BY <1>2
  <2> QED
    BY <1>5, <1>6, <1>7, <2>1
<1> QED
  BY <1>1, <1>2, <1>3, <1>8

\* The status line was read.
LEMMA ServerHeloStep ==
    ASSUME IInv, ServerHelo
    PROVE  IInv'
<1>1. TypeOK /\ SocketInv /\ StreamInv /\ open \in Nat /\ served \in Nat
  BY DEF IInv, TypeOK
<1> DEFINE e == Len(Expect)
           q == rx[Server]
<1>2. /\ pc = "helo" /\ IsPrefix(Expect, q) /\ pc' = "skip"
      /\ rx' = [rx EXCEPT ![Server] = SubSeq(q, e + 1, Len(q))]
      /\ UNCHANGED <<callVars, heloVars, tx, peer, buf, revents, got, told>>
  BY DEF ServerHelo
<1>3. ~Forwarding /\ ~Forwarding' /\ Connected'
  BY <1>2, Places, PlacesAfter
<1>4. /\ rx \in [Sockets -> Seq(STRING)] /\ q \in Seq(STRING) /\ Server \in Sockets /\ Ssh \in Sockets
      /\ stream \in Seq(STRING) /\ said \in Seq(STRING) /\ Ssh # Server
  BY <1>1, Typed DEF TypeOK, LoopTypeOK, Ssh, Server
<1>5. /\ (said = <<>> \/ said \in Streams) /\ q \o stream = said /\ Quiet
  BY <1>1, <1>2, <1>3 DEF StreamInv
<1> HIDE DEF q
<1>6. e \in Nat /\ e > 0 /\ e <= Len(q) /\ \A j \in 1 .. e : q[j] \notin LineEnds
  BY <1>2, <1>4, ExpectedStart
<1>7. q \o stream = Rest(said, 0) /\ 0 <= Len(said)
  <2>1. Rest(said, 0) = said
    BY <1>4 DEF Rest
  <2> QED
    BY <1>4, <1>5, <2>1
<1> HIDE DEF e
<1>8. 0 + e <= Len(said) /\ Rest(q, e) \o stream = Rest(said, 0 + e) /\ \A i \in 1 .. e : q[i] = said[0 + i]
  <2>1. /\ said \in Seq(STRING) /\ 0 \in Nat /\ q \in Seq(STRING) /\ stream \in Seq(STRING)
        /\ 0 <= Len(said) /\ q \o stream = Rest(said, 0) /\ e \in Nat /\ e <= Len(q)
    BY <1>4, <1>6, <1>7
  <2>2. Continues(said, 0, q, stream, e)
    BY <2>1, RestOfRest
  <2> QED
    BY <2>2 DEF Continues
<1>9. e <= Len(said) /\ Rest(q, e) \o stream = Rest(said, e) /\ \A i \in 1 .. e : q[i] = said[i]
  BY <1>6, <1>8
<1>10. Rest(q, e) \in Seq(STRING)
  BY <1>4, <1>6, RestTyped
<1>11. rx' = [rx EXCEPT ![Server] = Rest(q, e)]
  BY <1>2 DEF Rest
<1>12. rx' \in [Sockets -> Seq(STRING)] /\ rx'[Server] = Rest(q, e) /\ rx'[Ssh] = rx[Ssh]
  BY <1>4, <1>10, <1>11, QueueTyped
<1>13. said \in Streams
  <2>1. Len(said) > 0
    BY <1>4, <1>6, <1>9
  <2> QED
    BY <1>5, <2>1
<1>14. IsPrefix(Expect, said)
  <2>1. SubSeq(q, 1, e) = SubSeq(said, 1, e)
    <3>1. 1 \in Int /\ e \in Int /\ (\A i \in 1 .. e : q[i] \in STRING) /\ \A i \in 1 .. e : said[i] \in STRING
      BY <1>4, <1>6, <1>9
    <3> DEFINE x == SubSeq(q, 1, e)
               y == SubSeq(said, 1, e)
    <3>2. /\ x \in Seq(STRING) /\ Len(x) = IF 1 <= e THEN e - 1 + 1 ELSE 0
          /\ \A i \in 1 .. e - 1 + 1 : x[i] = q[1 + i - 1]
      BY <3>1, SubSeqProperties
    <3>3. /\ y \in Seq(STRING) /\ Len(y) = IF 1 <= e THEN e - 1 + 1 ELSE 0
          /\ \A i \in 1 .. e - 1 + 1 : y[i] = said[1 + i - 1]
      BY <3>1, SubSeqProperties
    <3> HIDE DEF x, y
    <3>4. ASSUME NEW i \in 1 .. e PROVE x[i] = y[i]
      <4>1. i \in 1 .. e - 1 + 1 /\ 1 + i - 1 = i
        BY <1>6
      <4> QED
        BY <1>9, <3>2, <3>3, <4>1
    <3>5. Len(x) = e /\ Len(y) = e
      BY <1>6, <3>2, <3>3
    <3>6. x = y
      BY <3>2, <3>3, <3>4, <3>5, SeqEqual
    <3> QED
      BY <3>6 DEF x, y
  <2>2. SubSeq(Expect, 1, e) = SubSeq(q, 1, e)
    BY <1>2 DEF IsPrefix, e
  <2> QED
    BY <1>9, <2>1, <2>2 DEF IsPrefix, e
<1>15. /\ said' = said /\ stream' = stream /\ countspace' = countspace /\ tx' = tx /\ got' = got
       /\ peer' = peer /\ buf' = buf /\ told' = told /\ revents' = revents
       /\ resolvers' = resolvers /\ ri' = ri /\ si' = si /\ left' = left /\ open' = open
       /\ served' = served /\ rounds' = rounds
  BY <1>2 DEF callVars, heloVars
<1>16. countspace = 0
  BY <1>1, <1>2 DEF StreamInv
<1>17. Skipping(e)'
  <2>1. rx'[Server] \o stream' = Rest(said', e)
    BY <1>9, <1>12, <1>15
  <2>2. said[e] \notin LineEnds /\ \A k \in 4 .. e : said[k] \notin LineEnds
    BY <1>6, <1>9
  <2>3. \A k \in 4 .. e : \E j \in k - 3 .. k : said[j] \notin LineEnds
    <3> SUFFICES ASSUME NEW k \in 4 .. e PROVE \E j \in k - 3 .. k : said[j] \notin LineEnds
      OBVIOUS
    <3>1. k \in k - 3 .. k
      BY <1>6
    <3> QED
      BY <2>2, <3>1
  <2>4. Counts(said, e, 0)
    BY <1>6, <2>2, <2>3 DEF Counts
  <2> QED
    BY <1>9, <1>15, <1>16, <2>1, <2>4 DEF Skipping
<1>18. Quiet'
  BY <1>5, <1>12, <1>15 DEF Quiet
<1>19. Expected'
  BY <1>13, <1>14, <1>15 DEF Expected
<1>20. StreamInv'
  BY <1>2, <1>3, <1>6, <1>17, <1>18, <1>19 DEF StreamInv
<1>21. SocketInv'
  BY <1>1, <1>2, <1>3, <1>15 DEF SocketInv
<1>22. LoopTypeOK'
  BY <1>1, <1>12, <1>15 DEF TypeOK, LoopTypeOK
<1>23. TypeOK'
  BY <1>1, <1>3, <1>15, <1>22 DEF TypeOK
<1> QED
  BY <1>20, <1>21, <1>23 DEF IInv

\* One more byte: the count of line ends goes on, begins anew, or is complete.
LEMMA CountStep ==
    ASSUME NEW s \in Seq(STRING), NEW n \in Nat, NEW c \in 0 .. 3, n + 1 <= Len(s),
           Counts(s, n, c)
    PROVE  /\ s[n + 1] \in LineEnds /\ c = 3 => FirstFour(s, n + 1)
           /\ s[n + 1] \in LineEnds /\ c < 3 => Counts(s, n + 1, c + 1)
           /\ s[n + 1] \notin LineEnds => Counts(s, n + 1, 0)
<1> USE DEF Counts
<1>1. ASSUME s[n + 1] \in LineEnds, c = 3 PROVE FirstFour(s, n + 1)
  <2>1. n + 1 \in 4 .. Len(s)
    BY <1>1
  <2>2. ASSUME NEW j \in n + 1 - 3 .. n + 1 PROVE s[j] \in LineEnds
    <3>1. j = n + 1 \/ j \in n - c + 1 .. n
      BY <1>1
    <3> QED
      BY <1>1, <3>1
  <2>3. \A k \in 4 .. n + 1 - 1 : \E j \in k - 3 .. k : s[j] \notin LineEnds
    <3>1. n + 1 - 1 = n
      OBVIOUS
    <3> QED
      BY <3>1
  <2> QED
    BY <2>1, <2>2, <2>3 DEF FirstFour
<1>2. ASSUME s[n + 1] \in LineEnds, c < 3
      PROVE  Counts(s, n + 1, c + 1)
  <2>1. ASSUME NEW j \in n - c + 1 .. n + 1 PROVE s[j] \in LineEnds
    <3>1. j = n + 1 \/ j \in n - c + 1 .. n
      OBVIOUS
    <3> QED
      BY <1>2, <3>1
  <2>2. ASSUME NEW k \in 4 .. n + 1 PROVE \E j \in k - 3 .. k : s[j] \notin LineEnds
    <3>1. k \in 4 .. n \/ k = n + 1
      OBVIOUS
    <3>2. k = n + 1 => n - c \in k - 3 .. k
      BY <1>2
    <3> QED
      BY <3>1, <3>2
  <2>3. n + 1 - (c + 1) = n - c /\ c + 1 < n + 1
    OBVIOUS
  <2> QED
    BY <2>1, <2>2, <2>3
<1>3. ASSUME s[n + 1] \notin LineEnds
      PROVE  Counts(s, n + 1, 0)
  <2>1. ASSUME NEW k \in 4 .. n + 1 PROVE \E j \in k - 3 .. k : s[j] \notin LineEnds
    <3>1. k \in 4 .. n \/ k = n + 1
      OBVIOUS
    <3>2. k = n + 1 => n + 1 \in k - 3 .. k
      OBVIOUS
    <3> QED
      BY <1>3, <3>1, <3>2
  <2> QED
    BY <1>3, <2>1
<1> QED
  BY <1>1, <1>2, <1>3

\* One byte of the header was eaten.
LEMMA SkipHeaderStep ==
    ASSUME IInv, SkipHeader
    PROVE  IInv'
<1>1. TypeOK /\ SocketInv /\ StreamInv /\ open \in Nat /\ served \in Nat
  BY DEF IInv, TypeOK
<1> DEFINE q == rx[Server]
           b == Head(q)
           c == countspace
<1>2. /\ pc = "skip" /\ q # <<>> /\ rx' = [rx EXCEPT ![Server] = Tail(q)]
      /\ UNCHANGED <<callVars, stream, said, tx, peer, buf, revents, got, told>>
      /\ IF Counted(b) > 3 THEN pc' = "local" /\ countspace' = 0
                           ELSE countspace' = Counted(b) /\ pc' = pc
  BY DEF SkipHeader, HeaderDone
<1>3. Counted(b) = IF b \in LineEnds THEN c + 1 ELSE 0
  BY DEF Counted
<1>4. pc' \in {"skip", "local"} /\ ~Forwarding /\ ~Forwarding' /\ Connected'
  BY <1>2, Places, PlacesAfter
<1>5. /\ rx \in [Sockets -> Seq(STRING)] /\ q \in Seq(STRING) /\ Server \in Sockets /\ Ssh \in Sockets
      /\ stream \in Seq(STRING) /\ said \in Seq(STRING) /\ Ssh # Server /\ c \in 0 .. 3
  BY <1>1, Typed DEF TypeOK, LoopTypeOK, Ssh, Server
<1>6. PICK n \in Nat : Skipping(n)
  BY <1>1, <1>2 DEF StreamInv
<1>7. Quiet /\ Expected
  BY <1>1, <1>2, <1>4 DEF StreamInv
<1>8. /\ n <= Len(said) /\ q \o stream = Rest(said, n)
      /\ Counts(said, n, c)
  BY <1>6 DEF Skipping
<1> HIDE DEF q
<1>9. 1 <= Len(q) /\ Tail(q) = Rest(q, 1) /\ b = q[1]
  BY <1>2, <1>5 DEF Rest
<1>10. Continues(said, n, q, stream, 1)
  <2>1. n <= Len(said) /\ q \o stream = Rest(said, n) /\ 1 \in Nat /\ 1 <= Len(q)
    BY <1>8, <1>9
  <2> QED
    BY <1>5, <2>1, RestOfRest
<1>11. n + 1 <= Len(said) /\ Rest(q, 1) \o stream = Rest(said, n + 1) /\ said[n + 1] = b
  BY <1>9, <1>10 DEF Continues
<1>12. Rest(q, 1) \in Seq(STRING)
  BY <1>5, <1>9, RestTyped
<1>13. rx' \in [Sockets -> Seq(STRING)] /\ rx'[Server] = Rest(q, 1) /\ rx'[Ssh] = rx[Ssh]
  BY <1>2, <1>5, <1>9, <1>12, QueueTyped
<1>14. /\ said' = said /\ stream' = stream /\ tx' = tx /\ got' = got
       /\ peer' = peer /\ buf' = buf /\ told' = told /\ revents' = revents
       /\ resolvers' = resolvers /\ ri' = ri /\ si' = si /\ left' = left /\ open' = open
       /\ served' = served /\ rounds' = rounds
  BY <1>2 DEF callVars
<1>15. rx'[Server] \o stream' = Rest(said', n + 1) /\ n + 1 <= Len(said') /\ n + 1 \in Nat
  BY <1>11, <1>13, <1>14
<1> HIDE DEF b, c
<1>16. /\ b \in LineEnds /\ c = 3 => FirstFour(said, n + 1)
       /\ b \in LineEnds /\ c < 3 => Counts(said, n + 1, c + 1)
       /\ b \notin LineEnds => Counts(said, n + 1, 0)
  BY <1>5, <1>8, <1>11, CountStep
<1>17. /\ countspace' \in 0 .. 3 /\ (pc' # "skip" => countspace' = 0)
       /\ pc' = "skip" => Skipping(n + 1)'
       /\ pc' = "local" => Header(n + 1)'
  <2>1. CASE b \in LineEnds /\ c = 3
    <3>1. pc' = "local" /\ countspace' = 0
      BY <1>2, <1>3, <2>1
    <3> QED
      BY <1>14, <1>16, <2>1, <3>1 DEF Header
  <2>2. CASE b \in LineEnds /\ c < 3
    <3>1. pc' = "skip" /\ countspace' = c + 1 /\ countspace' \in 0 .. 3
      BY <1>2, <1>3, <1>5, <2>2
    <3>2. Counts(said', n + 1, countspace')
      BY <1>14, <1>16, <2>2, <3>1
    <3> QED
      BY <1>15, <3>1, <3>2 DEF Skipping
  <2>3. CASE b \notin LineEnds
    <3>1. pc' = "skip" /\ countspace' = 0
      BY <1>2, <1>3, <2>3
    <3>2. Counts(said', n + 1, countspace')
      BY <1>14, <1>16, <2>3, <3>1
    <3> QED
      BY <1>15, <3>1, <3>2 DEF Skipping
  <2> QED
    BY <1>5, <2>1, <2>2, <2>3
<1>18. Quiet'
  BY <1>7, <1>13, <1>14 DEF Quiet
<1>19. Expected'
  BY <1>7, <1>14 DEF Expected
<1>20. StreamInv'
  BY <1>4, <1>15, <1>17, <1>18, <1>19 DEF StreamInv
<1>21. SocketInv'
  BY <1>1, <1>2, <1>4, <1>14 DEF SocketInv
<1>22. LoopTypeOK'
  BY <1>1, <1>13, <1>14 DEF TypeOK, LoopTypeOK
<1>23. TypeOK'
  BY <1>1, <1>4, <1>14, <1>17, <1>22 DEF TypeOK
<1> QED
  BY <1>20, <1>21, <1>23 DEF IInv

\* The tunnel begins with nothing sent and all of what follows the header to come.
LEMMA LocalConnectStep ==
    ASSUME IInv, LocalConnect
    PROVE  IInv'
<1>1. TypeOK /\ SocketInv /\ StreamInv /\ open \in Nat /\ served \in Nat
  BY DEF IInv, TypeOK
<1>2. /\ pc = "local" /\ pc' = "poll" /\ open' = open + 1 /\ served' = served + 1
      /\ resolvers' = resolvers /\ ri' = ri /\ si' = si /\ left' = left /\ rounds' = rounds
      /\ UNCHANGED <<heloVars, loopVars>>
  BY DEF LocalConnect
<1>3. ~Forwarding /\ Forwarding' /\ Connected'
  BY <1>2, Places, PlacesAfter
<1>4. /\ said' = said /\ stream' = stream /\ countspace' = countspace /\ tx' = tx /\ got' = got
      /\ peer' = peer /\ buf' = buf /\ told' = told /\ revents' = revents /\ rx' = rx
  BY <1>2 DEF heloVars, loopVars
<1>5. Quiet /\ Expected /\ countspace = 0
  BY <1>1, <1>2, <1>3 DEF StreamInv
<1>6. PICK n \in Nat : Header(n) /\ rx[Server] \o stream = Rest(said, n)
  BY <1>1, <1>2 DEF StreamInv
<1>7. /\ tx[Ssh] = <<>> /\ tx[Server] = <<>> /\ got[Ssh] = <<>> /\ got[Server] = <<>>
      /\ rx[Ssh] = <<>> /\ told = <<>>
  BY <1>5 DEF Quiet, Empty, Sockets
<1>8. Held(Ssh)' = <<>> /\ Held(Server)' = <<>>
  BY <1>2 DEF Held, Writing, Ssh, Server
<1>9. rx[Server] \in Seq(STRING) /\ stream \in Seq(STRING)
  BY <1>1, Typed
<1>10. ToSsh' = Rest(said', n)
  <2>1. ToSsh' = got'[Ssh] \o tx'[Ssh] \o Held(Ssh)' \o rx'[Server] \o stream'
    BY DEF ToSsh, Flow, Other, Ssh, Server
  <2>2. ToSsh' = <<>> \o <<>> \o <<>> \o rx[Server] \o stream
    BY <1>4, <1>7, <1>8, <2>1
  <2>3. <<>> \o <<>> \o <<>> \o rx[Server] = rx[Server]
    BY <1>9
  <2> QED
    BY <1>4, <1>6, <2>2, <2>3
<1>11. ToServer' = told'
  <2>1. ToServer' = got'[Server] \o tx'[Server] \o Held(Server)' \o rx'[Ssh]
    BY DEF ToServer, Flow, Other, Ssh, Server
  <2>2. ToServer' = <<>> \o <<>> \o <<>> \o <<>>
    BY <1>4, <1>7, <1>8, <2>1
  <2> QED
    BY <1>4, <1>7, <2>2
<1>12. Header(n)' /\ Expected'
  BY <1>4, <1>5, <1>6 DEF Header, Expected
<1>13. StreamInv'
  BY <1>2, <1>3, <1>4, <1>5, <1>10, <1>11, <1>12 DEF StreamInv
<1>14. SocketInv'
  <2>1. open >= 2 /\ open <= 2 * served + 2 /\ ri <= resolvers
    BY <1>1, <1>2 DEF SocketInv
  <2>2. open' >= 2 /\ open' <= 2 * served' + 1
    BY <1>1, <1>2, <2>1
  <2> QED
    BY <1>2, <1>3, <2>1, <2>2 DEF SocketInv
<1>15. LoopTypeOK'
  BY <1>1, <1>2, LoopKept
<1>16. TypeOK'
  <2>1. open' \in Nat /\ served' \in Nat
    BY <1>1, <1>2
  <2> QED
    BY <1>1, <1>2, <1>3, <1>4, <1>15, <2>1 DEF TypeOK
<1> QED
  BY <1>13, <1>14, <1>16 DEF IInv

-----------------------------------------------------------------------------
(* The loop. *)

\* It does not matter which of three queues are put together first.
Associates(a, b, c) == (a \o b) \o c = a \o (b \o c)

\* Concatenation of strings of bytes.
LEMMA Assoc ==
    ASSUME NEW a \in Seq(STRING), NEW b \in Seq(STRING), NEW c \in Seq(STRING)
    PROVE  /\ Associates(a, b, c) /\ a \o b \in Seq(STRING) /\ b \o c \in Seq(STRING)
           /\ a \o <<>> = a
<1>1. (a \o b) \o c = a \o (b \o c)
  BY ConcatAssociative
<1> QED
  BY <1>1 DEF Associates

\* A queue is its first n bytes and the rest.
LEMMA Split ==
    ASSUME NEW q \in Seq(STRING), NEW n \in Nat, n <= Len(q)
    PROVE  /\ SubSeq(q, 1, n) \in Seq(STRING) /\ Len(SubSeq(q, 1, n)) = n
           /\ SubSeq(q, 1, n) \o Rest(q, n) = q
<1>1. Len(q) \in Nat
  OBVIOUS
<1>2. 1 \in 1 .. Len(q) + 1 /\ n \in 1 - 1 .. Len(q) /\ Len(q) \in n .. Len(q)
  BY <1>1
<1>3. SubSeq(q, 1, n) \o SubSeq(q, n + 1, Len(q)) = SubSeq(q, 1, Len(q))
  BY <1>2, ConcatAdjacentSubSeq
<1>4. SubSeq(q, 1, Len(q)) = q
  BY SubSeqFull
<1>5. SubSeq(q, 1, n) \in Seq(STRING) /\ Len(SubSeq(q, 1, n)) = n
  <2>1. 1 \in Int /\ n \in Int /\ \A i \in 1 .. n : q[i] \in STRING
    BY <1>1
  <2> DEFINE x == SubSeq(q, 1, n)
  <2>2. x \in Seq(STRING) /\ Len(x) = IF 1 <= n THEN n - 1 + 1 ELSE 0
    BY <2>1, SubSeqProperties
  <2> HIDE DEF x
  <2>3. Len(x) = n
    BY <2>2
  <2> QED
    BY <2>2, <2>3 DEF x
<1> QED
  BY <1>3, <1>4, <1>5 DEF Rest

\* Four queues one behind the other.
Line(a, b, c, d) == a \o b \o c \o d

\* h and then r are q.
Joined(h, r, q) == h \o r = q

\* splice reads: the first bytes of the queue become the bytes held.
LEMMA ReadKeeps ==
    ASSUME NEW a \in Seq(STRING), NEW b \in Seq(STRING), NEW q \in Seq(STRING),
           NEW h \in Seq(STRING), NEW r \in Seq(STRING), Joined(h, r, q)
    PROVE  Line(a, b, <<>>, q) = Line(a, b, h, r)
<1> DEFINE ab == a \o b
<1>1. ab \in Seq(STRING)
  BY Assoc
<1> HIDE DEF ab
<1>2. ab \o <<>> = ab /\ Associates(ab, h, r)
  BY <1>1, Assoc
<1> QED
  BY <1>2 DEF ab, Associates, Line, Joined

\* splice writes: the first bytes held become the last ones in the socket.
LEMMA WriteKeeps ==
    ASSUME NEW a \in Seq(STRING), NEW b \in Seq(STRING), NEW q \in Seq(STRING),
           NEW h \in Seq(STRING), NEW p \in Seq(STRING), NEW r \in Seq(STRING), Joined(p, r, h)
    PROVE  Line(a, b, h, q) = Line(a, b \o p, r, q)
<1> DEFINE ab == a \o b
<1>1. ab \in Seq(STRING) /\ Associates(a, b, p)
  BY Assoc
<1> HIDE DEF ab
<1>2. Associates(ab, p, r)
  BY <1>1, Assoc
<1> QED
  BY <1>1, <1>2 DEF ab, Associates, Line, Joined

\* The peer reads all that is in the socket.
LEMMA PeerReadKeeps ==
    ASSUME NEW a \in Seq(STRING), NEW b \in Seq(STRING), NEW h, NEW q
    PROVE  Line(a, b, h, q) = Line(a \o b, <<>>, h, q) /\ a \o b \in Seq(STRING)
<1> DEFINE ab == a \o b
<1>1. ab \in Seq(STRING)
  BY Assoc
<1> HIDE DEF ab
<1>2. ab \o <<>> = ab
  BY <1>1
<1> QED
  BY <1>1, <1>2 DEF ab, Line

\* More bytes arrive from the server, behind f.
LEMMA ArriveKeeps ==
    ASSUME NEW f \in Seq(STRING), NEW q \in Seq(STRING), NEW w \in Seq(STRING),
           NEW p \in Seq(STRING), NEW r \in Seq(STRING), Joined(p, r, w)
    PROVE  Joined(f \o (q \o p), r, (f \o q) \o w) /\ Joined(q \o p, r, q \o w)
<1>1. Associates(q, p, r) /\ q \o p \in Seq(STRING) /\ f \o q \in Seq(STRING)
  BY Assoc
<1>2. Associates(f, q, p)
  BY Assoc
<1>3. ((f \o q) \o p) \o r = (f \o q) \o (p \o r)
  <2> DEFINE g == f \o q
  <2>1. g \in Seq(STRING)
    BY <1>1
  <2> HIDE DEF g
  <2>2. Associates(g, p, r)
    BY <2>1, Assoc
  <2> QED
    BY <2>2 DEF g, Associates
<1> QED
  BY <1>1, <1>2, <1>3 DEF Associates, Joined

\* ssh sends one more byte, behind f.
LEMMA SendKeeps ==
    ASSUME NEW f \in Seq(STRING), NEW q \in Seq(STRING), NEW b \in STRING
    PROVE  Joined(f, Append(q, b), Append(f \o q, b))
<1> DEFINE u == <<b>>
<1>1. u \in Seq(STRING) /\ Append(q, b) = q \o u
  <2>1. u \in Seq(STRING)
    <3>1. ASSUME NEW S, NEW c \in S PROVE <<c>> \in Seq(S)
      OBVIOUS
    <3> QED
      BY <3>1
  <2>2. Append(q, b) = q \o u
    BY AppendIsConcat
  <2> QED
    BY <2>1, <2>2
<1>2. f \o q \in Seq(STRING)
  BY Assoc
<1> DEFINE g == f \o q
<1>3. g \in Seq(STRING)
  BY <1>2
<1> HIDE DEF g
<1>4. Append(g, b) = g \o u
  BY <1>3, AppendIsConcat
<1> HIDE DEF u
<1>5. Associates(f, q, u)
  BY <1>1, Assoc
<1> QED
  BY <1>1, <1>4, <1>5 DEF Associates, Joined, g

\* A step of a tunnel that changes neither the attempts nor the header, and after
\* which no open direction has lost or gained a byte.
LEMMA StaysForwarding ==
    ASSUME IInv, Forwarding, Forwarding', UNCHANGED <<callVars, countspace, said>>,
           LoopTypeOK', stream' \in Seq(STRING),
           peer'[Ssh] = "up" => peer[Ssh] = "up" /\ ToSsh' = ToSsh,
           peer'[Server] # "closed" =>
               peer[Server] # "closed" /\ (ToServer = told => ToServer' = told')
    PROVE  IInv'
<1>1. TypeOK /\ SocketInv /\ StreamInv
  BY DEF IInv
<1>2. /\ said' = said /\ countspace' = countspace
      /\ resolvers' = resolvers /\ ri' = ri /\ si' = si /\ left' = left /\ open' = open
      /\ served' = served /\ rounds' = rounds
  BY DEF callVars
<1>3. /\ Connected' /\ pc \notin {"down", "dns", "query", "records", "helo", "skip", "local"}
      /\ pc' \notin {"down", "dns", "query", "records", "helo", "skip", "local"}
  BY Places, PlacesAfter
<1>4. PICK n \in Nat : Header(n) /\ (peer[Ssh] = "up" => ToSsh = Rest(said, n))
  BY <1>1 DEF StreamInv
<1>5. countspace = 0 /\ Expected /\ (peer[Server] # "closed" => ToServer = told)
  BY <1>1, <1>3 DEF StreamInv
<1>6. Header(n)' /\ Expected' /\ countspace' = 0
  BY <1>2, <1>4, <1>5 DEF Header, Expected
<1>7. peer'[Ssh] = "up" => ToSsh' = Rest(said', n)
  BY <1>2, <1>4
<1>8. peer'[Server] # "closed" => ToServer' = told'
  BY <1>5
<1>9. (\E k \in Nat : Header(k) /\ (peer[Ssh] = "up" => ToSsh = Rest(said, k)))'
  BY <1>6, <1>7
<1>10. StreamInv'
  BY <1>3, <1>6, <1>8, <1>9 DEF StreamInv
<1>11. SocketInv'
  BY <1>1, <1>2, <1>3 DEF SocketInv
<1>12. TypeOK'
  BY <1>1, <1>2, <1>3 DEF TypeOK
<1> QED
  BY <1>10, <1>11, <1>12 DEF IInv

\* The types of what is on its way to a socket.
LEMMA FlowTyped ==
    ASSUME TypeOK, NEW to \in Sockets
    PROVE  /\ Other(to) \in Sockets /\ Other(to) # to /\ Other(Other(to)) = to
           /\ got[to] \in Seq(STRING) /\ tx[to] \in Seq(STRING) /\ Held(to) \in Seq(STRING)
           /\ rx[to] \in Seq(STRING) /\ rx[Other(to)] \in Seq(STRING)
           /\ Len(tx[to]) \in Nat /\ Len(tx[to]) <= ROOM
<1>1. Other(to) \in Sockets /\ Other(to) # to /\ Other(Other(to)) = to
  BY DEF Sockets, Other, Ssh, Server
<1>2. Held(to) \in Seq(STRING)
  <2>1. buf \in Seq(STRING) /\ <<>> \in Seq(STRING)
    BY Typed
  <2> QED
    BY <2>1 DEF Held
<1> QED
  BY <1>1, <1>2, Typed

\* splice reads from s.
LEMMA SpliceReadStep ==
    ASSUME TypeOK, NEW s \in Sockets, SpliceRead(s)
    PROVE  LoopTypeOK' /\ \A to \in Sockets : Flow(to)' = Flow(to)
<1> DEFINE q == rx[s]
           n == IF Len(q) < BUFFER THEN Len(q) ELSE BUFFER
           o == Other(s)
<1>1. /\ pc = s /\ q # <<>> /\ buf' = SubSeq(q, 1, n)
      /\ rx' = [rx EXCEPT ![s] = SubSeq(q, n + 1, Len(q))]
      /\ pc' = Writing(o) /\ tx' = tx /\ peer' = peer /\ revents' = revents /\ got' = got
      /\ told' = told
  BY DEF SpliceRead
<1>2. /\ o \in Sockets /\ o # s /\ Other(o) = s /\ q \in Seq(STRING)
      /\ got[o] \in Seq(STRING) /\ tx[o] \in Seq(STRING)
  BY FlowTyped
<1>3. Held(s) = <<>> /\ Held(o) = <<>> /\ Held(s)' = <<>> /\ Held(o)' = buf'
  BY <1>1, <1>2 DEF Held, Writing, Sockets, Ssh, Server, Other
<1> HIDE DEF q, o
<1>4. n \in Nat /\ n <= Len(q) /\ n <= BUFFER
  BY <1>2, BufferAssumption
<1> HIDE DEF n
<1>5. buf' \in Seq(STRING) /\ Len(buf') = n /\ buf' \o Rest(q, n) = q /\ Rest(q, n) \in Seq(STRING)
  BY <1>1, <1>2, <1>4, Split, RestTyped
<1>6. rx \in [Sockets -> Seq(STRING)] /\ rx' = [rx EXCEPT ![s] = Rest(q, n)]
  BY <1>1 DEF TypeOK, LoopTypeOK, Rest
<1>7. rx' \in [Sockets -> Seq(STRING)] /\ rx'[s] = Rest(q, n) /\ rx'[o] = rx[o]
  BY <1>2, <1>5, <1>6, QueueTyped
<1>8. Flow(o)' = Flow(o)
  <2>1. Flow(o) = got[o] \o tx[o] \o <<>> \o q
    BY <1>2, <1>3 DEF Flow, q
  <2>2. Flow(o)' = got[o] \o tx[o] \o buf' \o Rest(q, n)
    <3>1. Flow(o)' = got'[o] \o tx'[o] \o Held(o)' \o rx'[Other(o)]
      BY DEF Flow
    <3> QED
      BY <1>1, <1>2, <1>3, <1>7, <3>1
  <2> DEFINE a == got[o]
             b == tx[o]
             h == buf'
             r == Rest(q, n)
  <2>3. /\ a \in Seq(STRING) /\ b \in Seq(STRING) /\ h \in Seq(STRING) /\ r \in Seq(STRING)
        /\ q \in Seq(STRING) /\ Joined(h, r, q)
    BY <1>2, <1>5 DEF Joined
  <2> HIDE DEF a, b, h, r
  <2>4. Line(a, b, <<>>, q) = Line(a, b, h, r)
    BY ONLY <2>3, ReadKeeps
  <2> QED
    BY <2>1, <2>2, <2>4 DEF a, b, h, r, Line
<1>9. Flow(s)' = Flow(s)
  <2>1. Flow(s)' = got'[s] \o tx'[s] \o Held(s)' \o rx'[Other(s)]
    BY DEF Flow
  <2> QED
    BY <1>1, <1>3, <1>7, <2>1 DEF Flow, o
<1>10. Sockets = {s, o}
  BY DEF Sockets, o, Other, Ssh, Server
<1>11. LoopTypeOK'
  BY <1>1, <1>4, <1>5, <1>7 DEF TypeOK, LoopTypeOK
<1> QED
  BY <1>8, <1>9, <1>10, <1>11

\* splice writes what it read from s, as far as the other socket has room.
LEMMA SpliceWriteStep ==
    ASSUME TypeOK, NEW s \in Sockets, SpliceWrite(s)
    PROVE  LoopTypeOK' /\ Forwarding' /\ \A to \in Sockets : Flow(to)' = Flow(to)
<1> DEFINE o == Other(s)
           free == ROOM - Len(tx[o])
           n == IF Len(buf) < free THEN Len(buf) ELSE free
<1>1. /\ pc = Writing(o) /\ n > 0
      /\ tx' = [tx EXCEPT ![o] = tx[o] \o SubSeq(buf, 1, n)]
      /\ buf' = SubSeq(buf, n + 1, Len(buf))
      /\ pc' = IF buf' = <<>> THEN After(s) ELSE pc
      /\ rx' = rx /\ peer' = peer /\ revents' = revents /\ got' = got /\ told' = told
  BY DEF SpliceWrite
<1>2. /\ o \in Sockets /\ o # s /\ Other(o) = s /\ rx[s] \in Seq(STRING) /\ Other(s) = o
      /\ got[o] \in Seq(STRING) /\ tx[o] \in Seq(STRING) /\ Len(tx[o]) \in Nat /\ Len(tx[o]) <= ROOM
  BY FlowTyped
<1>3. buf \in Seq(STRING) /\ Len(buf) \in Nat /\ Len(buf) <= BUFFER
  BY Typed
<1>4. Held(s) = <<>> /\ Held(o) = buf /\ Held(s)' = <<>> /\ Held(o)' = buf' /\ Forwarding'
  BY <1>1, <1>2 DEF Held, Writing, Sockets, Ssh, Server, Other, After, Forwarding
<1> HIDE DEF o
<1>5. n \in Nat /\ n <= Len(buf) /\ Len(tx[o]) + n <= ROOM
  <2>1. n > 0 /\ Len(buf) \in Nat /\ ROOM \in Nat /\ Len(tx[o]) \in Nat /\ Len(tx[o]) <= ROOM
    BY <1>1, <1>2, <1>3, BufferAssumption
  <2> DEFINE l == Len(tx[o])
             k == Len(buf)
  <2>2. l \in Nat /\ k \in Nat /\ l <= ROOM
    BY <2>1
  <2>3. n = IF k < ROOM - l THEN k ELSE ROOM - l
    OBVIOUS
  <2> HIDE DEF l, k, n
  <2>4. n \in Nat /\ n <= k /\ l + n <= ROOM
    BY ONLY <2>1, <2>2, <2>3
  <2> QED
    BY <2>4 DEF l, k
<1> DEFINE p == SubSeq(buf, 1, n)
           r == Rest(buf, n)
<1> HIDE DEF n
<1>6. p \in Seq(STRING) /\ Len(p) = n /\ p \o r = buf
  BY <1>3, <1>5, Split
<1>7. r \in Seq(STRING) /\ Len(r) = Len(buf) - n
  BY <1>3, <1>5, RestTyped
<1>8. tx' = [tx EXCEPT ![o] = tx[o] \o p] /\ buf' = r
  BY <1>1 DEF Rest
<1> HIDE DEF p, r
<1>9. tx[o] \o p \in Seq(STRING) /\ Len(tx[o] \o p) <= ROOM
  <2>1. tx[o] \o p \in Seq(STRING) /\ Len(tx[o] \o p) = Len(tx[o]) + Len(p)
    BY ONLY <1>2, <1>6, ConcatProperties
  <2> QED
    BY <1>5, <1>6, <2>1
<1>10. tx \in [Sockets -> Seq(STRING)] /\ \A k \in Sockets : Len(tx[k]) <= ROOM
  BY DEF TypeOK, LoopTypeOK
<1>11. tx' \in [Sockets -> Seq(STRING)] /\ tx'[o] = tx[o] \o p /\ tx'[s] = tx[s]
  BY <1>2, <1>8, <1>9, <1>10, QueueTyped
<1>12. Sockets = {s, o}
  BY DEF Sockets, o, Other, Ssh, Server
<1>13. Flow(o)' = Flow(o)
  <2> DEFINE a == got[o]
             b == tx[o]
             q == rx[s]
  <2>1. Flow(o) = Line(a, b, buf, q)
    BY <1>2, <1>4 DEF Flow, Line
  <2>2. Flow(o)' = Line(a, b \o p, r, q)
    <3>1. Flow(o)' = got'[o] \o tx'[o] \o Held(o)' \o rx'[Other(o)]
      BY DEF Flow
    <3> QED
      BY <1>1, <1>2, <1>4, <1>8, <1>11, <3>1 DEF Line
  <2>3. /\ a \in Seq(STRING) /\ b \in Seq(STRING) /\ q \in Seq(STRING) /\ buf \in Seq(STRING)
        /\ p \in Seq(STRING) /\ r \in Seq(STRING) /\ Joined(p, r, buf)
    BY <1>2, <1>3, <1>6, <1>7 DEF Joined
  <2> HIDE DEF a, b, q
  <2>4. Line(a, b, buf, q) = Line(a, b \o p, r, q)
    BY ONLY <2>3, WriteKeeps
  <2> QED
    BY <2>1, <2>2, <2>4
<1>14. Flow(s)' = Flow(s)
  <2>1. Flow(s)' = got'[s] \o tx'[s] \o Held(s)' \o rx'[Other(s)]
    BY DEF Flow
  <2> QED
    BY <1>1, <1>4, <1>11, <2>1 DEF Flow
<1>15. LoopTypeOK'
  <2>1. \A k \in Sockets : Len(tx'[k]) <= ROOM
    BY <1>9, <1>10, <1>11, <1>12
  <2>2. Len(buf') <= BUFFER /\ buf' \in Seq(STRING)
    BY <1>3, <1>5, <1>7, <1>8, BufferAssumption
  <2> QED
    BY <1>1, <1>11, <2>1, <2>2 DEF TypeOK, LoopTypeOK
<1> QED
  BY <1>4, <1>12, <1>13, <1>14, <1>15

\* A step of the loop keeps it going, and every byte of a direction that is open
\* in its place.
LEMMA ForwardStep ==
    ASSUME IInv, Forward
    PROVE  IInv'
<1>1. TypeOK /\ stream \in Seq(STRING) /\ Ssh \in Sockets /\ Server \in Sockets
  BY DEF IInv, TypeOK, Sockets
<1>2. LoopStep /\ UNCHANGED <<callVars, heloVars>>
  BY DEF Forward
<1>3. /\ Forwarding /\ Forwarding' /\ LoopTypeOK' /\ peer' = peer /\ told' = told
      /\ \A to \in Sockets : peer[to] # "closed" => Flow(to)' = Flow(to)
  <2>1. CASE Poll
    <3>1. /\ pc = "poll" /\ pc' = "ssh" /\ revents' = Ready
          /\ rx' = rx /\ tx' = tx /\ peer' = peer /\ buf' = buf /\ got' = got /\ told' = told
      BY <2>1 DEF Poll, Polled, Ssh
    <3>2. Forwarding /\ Forwarding'
      BY <3>1, Places, PlacesAfter
    <3>3. LoopTypeOK'
      BY <1>1, <3>1 DEF TypeOK, LoopTypeOK, Ready
    <3>4. \A to \in Sockets : Held(to)' = Held(to)
      BY <3>1 DEF Held, Writing
    <3>5. \A to \in Sockets : Flow(to)' = Flow(to)
      BY <3>1, <3>4 DEF Flow
    <3> QED
      BY <3>1, <3>2, <3>3, <3>5
  <2>2. ASSUME NEW s \in Sockets, NotReady(s)
        PROVE  /\ Forwarding /\ Forwarding' /\ LoopTypeOK' /\ peer' = peer /\ told' = told
               /\ \A to \in Sockets : Flow(to)' = Flow(to)
    <3>1. /\ pc \in {"ssh", "server"} /\ pc' \in {"server", "poll"} /\ UNCHANGED loopVars
          /\ rx' = rx /\ tx' = tx /\ peer' = peer /\ buf' = buf /\ got' = got /\ told' = told
      BY <2>2 DEF NotReady, After, Sockets, Ssh, Server, loopVars
    <3>2. Forwarding /\ Forwarding'
      BY <3>1, Places, PlacesAfter
    <3>3. LoopTypeOK'
      BY <1>1, <3>1, LoopKept
    <3>4. \A to \in Sockets : Held(to)' = Held(to)
      BY <3>1 DEF Held, Writing
    <3>5. \A to \in Sockets : Flow(to)' = Flow(to)
      BY <3>1, <3>4 DEF Flow
    <3> QED
      BY <3>1, <3>2, <3>3, <3>5
  <2>3. ASSUME NEW s \in Sockets, SpliceRead(s)
        PROVE  /\ Forwarding /\ Forwarding' /\ LoopTypeOK' /\ peer' = peer /\ told' = told
               /\ \A to \in Sockets : Flow(to)' = Flow(to)
    <3>1. /\ pc \in {"ssh", "server"} /\ pc' \in {"write_ssh", "write_server"}
          /\ peer' = peer /\ told' = told
      BY <2>3 DEF SpliceRead, Writing, Sockets, Ssh, Server
    <3>2. Forwarding /\ Forwarding'
      BY <3>1, Places, PlacesAfter
    <3> QED
      BY <1>1, <2>3, <3>1, <3>2, SpliceReadStep
  <2>4. ASSUME NEW s \in Sockets, SpliceWrite(s)
        PROVE  /\ Forwarding /\ Forwarding' /\ LoopTypeOK' /\ peer' = peer /\ told' = told
               /\ \A to \in Sockets : Flow(to)' = Flow(to)
    <3>1. pc \in {"write_ssh", "write_server"} /\ peer' = peer /\ told' = told
      BY <2>4 DEF SpliceWrite, Writing
    <3>2. Forwarding
      BY <3>1, Places
    <3> QED
      BY <1>1, <2>4, <3>1, <3>2, SpliceWriteStep
  <2>5. ASSUME NEW s \in Sockets, SpliceWriteLost(s)
        PROVE  /\ Forwarding /\ Forwarding' /\ LoopTypeOK' /\ peer' = peer /\ told' = told
               /\ \A to \in Sockets : peer[to] # "closed" => Flow(to)' = Flow(to)
    <3>1. /\ pc = Writing(Other(s)) /\ peer[Other(s)] = "closed" /\ pc' \in {"server", "poll"}
          /\ buf' = <<>> /\ rx' = rx /\ tx' = tx /\ peer' = peer /\ got' = got /\ told' = told
          /\ revents' = revents
      BY <2>5 DEF SpliceWriteLost, After, Server
    <3>2. pc \in {"write_ssh", "write_server"}
      BY <3>1 DEF Writing
    <3>3. Forwarding /\ Forwarding'
      BY <3>1, <3>2, Places, PlacesAfter
    <3>4. LoopTypeOK'
      <4>1. buf' \in Seq(STRING) /\ Len(buf') <= BUFFER
        BY <3>1, BufferAssumption
      <4> QED
        BY <1>1, <3>1, <4>1 DEF TypeOK, LoopTypeOK
    <3>5. ASSUME NEW to \in Sockets, peer[to] # "closed" PROVE Flow(to)' = Flow(to)
      <4>1. to # Other(s)
        BY <3>1, <3>5
      <4>2. to = s
        BY <4>1 DEF Sockets, Other
      <4>3. Held(to) = <<>> /\ Held(to)' = <<>>
        BY <3>1, <4>2 DEF Held, Writing, Other, Sockets, Ssh, Server
      <4>4. Flow(to)' = got'[to] \o tx'[to] \o Held(to)' \o rx'[Other(to)]
        BY DEF Flow
      <4> QED
        BY <3>1, <4>3, <4>4 DEF Flow
    <3> QED
      BY <3>1, <3>3, <3>4, <3>5
  <2> QED
    BY <1>2, <2>1, <2>2, <2>3, <2>4, <2>5 DEF LoopStep
<1>4. UNCHANGED <<callVars, countspace, said>> /\ stream' = stream
  BY <1>2 DEF heloVars
<1>5. peer'[Ssh] = "up" => peer[Ssh] = "up" /\ ToSsh' = ToSsh
  <2> SUFFICES ASSUME peer'[Ssh] = "up" PROVE peer[Ssh] = "up" /\ ToSsh' = ToSsh
    OBVIOUS
  <2>1. peer[Ssh] = "up" /\ Flow(Ssh)' = Flow(Ssh)
    BY <1>1, <1>3
  <2> QED
    BY <1>4, <2>1 DEF ToSsh
<1>6. peer'[Server] # "closed" =>
          peer[Server] # "closed" /\ (ToServer = told => ToServer' = told')
  <2> SUFFICES ASSUME peer'[Server] # "closed"
               PROVE  peer[Server] # "closed" /\ (ToServer = told => ToServer' = told')
    OBVIOUS
  <2>1. peer[Server] # "closed" /\ Flow(Server)' = Flow(Server)
    BY <1>1, <1>3
  <2> QED
    BY <1>3, <2>1 DEF ToServer
<1> QED
  BY <1>1, <1>3, <1>4, <1>5, <1>6, StaysForwarding

-----------------------------------------------------------------------------
(* The peers. *)

\* A peer closes its end, is gone, or is given up by the kernel.
LEMMA PeerChanges ==
    ASSUME IInv, Connected, NEW s \in Sockets, NEW v \in {"closed", "gone"},
           peer[s] # "closed", peer' = [peer EXCEPT ![s] = v],
           UNCHANGED <<pc, rx, tx, buf, revents, got, told, callVars, heloVars>>
    PROVE  IInv'
<1>1. TypeOK /\ SocketInv /\ StreamInv /\ peer \in [Sockets -> {"up", "closed", "gone"}]
      /\ Ssh \in Sockets /\ Server \in Sockets
  BY DEF IInv, TypeOK, LoopTypeOK, Sockets
<1>2. /\ pc' = pc /\ rx' = rx /\ tx' = tx /\ buf' = buf /\ revents' = revents /\ got' = got
      /\ told' = told /\ said' = said /\ stream' = stream /\ countspace' = countspace
      /\ resolvers' = resolvers /\ ri' = ri /\ si' = si /\ left' = left /\ open' = open
      /\ served' = served /\ rounds' = rounds
  BY DEF callVars, heloVars
<1>3. Forwarding' = Forwarding /\ Connected' = Connected
  BY <1>2 DEF Forwarding, Connected
<1>4. peer' \in [Sockets -> {"up", "closed", "gone"}]
  BY <1>1
<1>5. LoopTypeOK'
  BY <1>1, <1>2, <1>4 DEF TypeOK, LoopTypeOK
<1>6. CASE Forwarding
  <2>1. \A to \in Sockets : Held(to)' = Held(to)
    BY <1>2 DEF Held
  <2>2. \A to \in Sockets : Flow(to)' = Flow(to)
    BY <1>2, <2>1 DEF Flow
  <2>3. ToSsh' = ToSsh /\ ToServer' = ToServer
    BY <1>1, <1>2, <2>2 DEF ToSsh, ToServer
  <2>4. peer'[Ssh] = "up" => peer[Ssh] = "up"
    BY <1>1
  <2>5. peer'[Server] # "closed" => peer[Server] # "closed"
    BY <1>1
  <2>6. UNCHANGED <<callVars, countspace, said>> /\ Forwarding' /\ stream' \in Seq(STRING)
    BY <1>1, <1>2, <1>3, <1>6 DEF TypeOK
  <2> QED
    BY <1>2, <1>5, <1>6, <2>3, <2>4, <2>5, <2>6, StaysForwarding
<1>7. CASE ~Forwarding
  <2>1. Quiet'
    BY <1>1, <1>2, <1>7 DEF StreamInv, Quiet
  <2>2. \A n \in Nat : Skipping(n)' = Skipping(n) /\ Header(n)' = Header(n)
    BY <1>2 DEF Skipping, Header
  <2>3. Expected' = Expected
    BY <1>2 DEF Expected
  <2>4. StreamInv'
    <3>1. /\ ~Connected => rx = Empty /\ stream = <<>> /\ said = <<>>
          /\ pc # "skip" => countspace = 0
          /\ pc = "helo" => (said = <<>> \/ said \in Streams) /\ rx[Server] \o stream = said
          /\ pc \in {"skip", "local"} => Expected
      BY <1>1 DEF StreamInv
    <3>2. pc' = "skip" => \E n \in Nat : Skipping(n)'
      BY <1>1, <1>2, <2>2 DEF StreamInv
    <3>3. pc' = "local" => \E n \in Nat : Header(n)' /\ rx'[Server] \o stream' = Rest(said', n)
      BY <1>1, <1>2, <2>2 DEF StreamInv
    <3> QED
      BY <1>2, <1>3, <1>7, <2>1, <2>3, <3>1, <3>2, <3>3 DEF StreamInv
  <2>5. SocketInv'
    BY <1>1, <1>2, <1>3 DEF SocketInv
  <2>6. TypeOK'
    BY <1>1, <1>2, <1>3, <1>5 DEF TypeOK
  <2> QED
    BY <2>4, <2>5, <2>6 DEF IInv
<1> QED
  BY <1>6, <1>7

\* A peer reads what is in its socket.
LEMMA PeerReadsStep ==
    ASSUME IInv, Forwarding, NEW s \in Sockets, PeerReads(s), UNCHANGED <<callVars, heloVars>>
    PROVE  IInv'
<1>1. TypeOK /\ Ssh \in Sockets /\ Server \in Sockets /\ stream \in Seq(STRING)
  BY DEF IInv, TypeOK, Sockets
<1> DEFINE a == got[s]
           b == tx[s]
           ab == a \o b
<1>2. /\ got' = [got EXCEPT ![s] = ab] /\ tx' = [tx EXCEPT ![s] = <<>>]
      /\ pc' = pc /\ rx' = rx /\ peer' = peer /\ buf' = buf /\ revents' = revents /\ told' = told
  BY DEF PeerReads
<1>3. a \in Seq(STRING) /\ b \in Seq(STRING)
  BY <1>1, FlowTyped
<1>4. got \in [Sockets -> Seq(STRING)] /\ tx \in [Sockets -> Seq(STRING)]
  BY <1>1 DEF TypeOK, LoopTypeOK
<1>5. Flow(s) = Line(a, b, Held(s), rx[Other(s)])
  BY DEF Flow, Line
<1> HIDE DEF a, b
<1>6. ASSUME NEW h, NEW q PROVE Line(a, b, h, q) = Line(ab, <<>>, h, q)
  BY ONLY <1>3, PeerReadKeeps
<1>7. ab \in Seq(STRING) /\ <<>> \in Seq(STRING)
  BY <1>3, Assoc
<1> HIDE DEF ab
<1>8. /\ got' \in [Sockets -> Seq(STRING)] /\ got'[s] = ab
      /\ \A k \in Sockets : k # s => got'[k] = got[k]
  BY <1>2, <1>4, <1>7, QueueTyped
<1>9. /\ tx' \in [Sockets -> Seq(STRING)] /\ tx'[s] = <<>>
      /\ \A k \in Sockets : k # s => tx'[k] = tx[k]
  BY <1>2, <1>4, <1>7, QueueTyped
<1>10. \A k \in Sockets : Held(k)' = Held(k)
  BY <1>2 DEF Held
<1>11. ASSUME NEW k \in Sockets PROVE Flow(k)' = Flow(k)
  <2>1. Flow(k)' = Line(got'[k], tx'[k], Held(k)', rx'[Other(k)])
    BY DEF Flow, Line
  <2>2. CASE k = s
    <3>1. Flow(k)' = Line(ab, <<>>, Held(s), rx[Other(s)])
      BY <1>2, <1>8, <1>9, <1>10, <2>1, <2>2
    <3> QED
      BY <1>5, <1>6, <2>2, <3>1
  <2>3. CASE k # s
    <3>1. Flow(k)' = Line(got[k], tx[k], Held(k), rx[Other(k)])
      BY <1>2, <1>8, <1>9, <1>10, <2>1, <2>3
    <3> QED
      BY <3>1 DEF Flow, Line
  <2> QED
    BY <2>2, <2>3
<1>12. LoopTypeOK'
  <2>1. \A k \in Sockets : Len(tx'[k]) <= ROOM
    <3>1. \A k \in Sockets : Len(tx[k]) <= ROOM
      BY <1>1 DEF TypeOK, LoopTypeOK
    <3>2. Len(tx'[s]) <= ROOM
      BY <1>9, BufferAssumption
    <3> QED
      BY <1>9, <3>1, <3>2
  <2> QED
    BY <1>1, <1>2, <1>8, <1>9, <2>1, SMTT(60) DEF TypeOK, LoopTypeOK
<1>13. UNCHANGED <<callVars, countspace, said>> /\ stream' = stream
  BY DEF heloVars
<1>14. ToSsh' = ToSsh /\ ToServer' = ToServer
  BY <1>1, <1>11, <1>13 DEF ToSsh, ToServer
<1>15. Forwarding'
  BY <1>2 DEF Forwarding
<1> QED
  BY <1>1, <1>2, <1>12, <1>13, <1>14, <1>15, StaysForwarding

\* ssh sends a byte.
LEMMA SshSendsStep ==
    ASSUME IInv, Forwarding, NEW b \in STRING, SshSends(b), UNCHANGED <<callVars, heloVars>>
    PROVE  IInv'
<1>1. TypeOK /\ Ssh \in Sockets /\ Server \in Sockets /\ stream \in Seq(STRING) /\ Ssh # Server
  BY DEF IInv, TypeOK, Sockets, Ssh, Server
<1> DEFINE q == rx[Ssh]
           f == got[Server] \o tx[Server] \o Held(Server)
<1>2. /\ rx' = [rx EXCEPT ![Ssh] = Append(q, b)] /\ told' = Append(told, b)
      /\ pc' = pc /\ tx' = tx /\ peer' = peer /\ buf' = buf /\ revents' = revents /\ got' = got
  BY DEF SshSends
<1>3. /\ q \in Seq(STRING) /\ got[Server] \in Seq(STRING) /\ tx[Server] \in Seq(STRING)
      /\ Held(Server) \in Seq(STRING)
  BY <1>1, FlowTyped
<1>4. f \in Seq(STRING)
  <2> DEFINE g == got[Server] \o tx[Server]
  <2>1. g \in Seq(STRING)
    BY <1>3, Assoc
  <2> HIDE DEF g
  <2>2. g \o Held(Server) \in Seq(STRING)
    BY <1>3, <2>1, Assoc
  <2> QED
    BY <2>2 DEF g
<1>5. Other(Server) = Ssh /\ Other(Ssh) = Server
  BY DEF Other, Ssh, Server
<1>6. ToServer = f \o q
  BY <1>5 DEF ToServer, Flow
<1>7. \A k \in Sockets : Held(k)' = Held(k)
  BY <1>2 DEF Held
<1>8. rx \in [Sockets -> Seq(STRING)] /\ told \in Seq(STRING) /\ Append(q, b) \in Seq(STRING)
      /\ Append(told, b) \in Seq(STRING)
  BY <1>1, <1>3 DEF TypeOK, LoopTypeOK
<1> HIDE DEF q
<1>9. rx' \in [Sockets -> Seq(STRING)] /\ rx'[Ssh] = Append(q, b) /\ rx'[Server] = rx[Server]
  BY <1>1, <1>2, <1>8, QueueTyped
<1>10. ToServer' = f \o Append(q, b)
  <2>1. ToServer' = got'[Server] \o tx'[Server] \o Held(Server)' \o rx'[Ssh]
    BY <1>5 DEF ToServer, Flow
  <2> QED
    BY <1>1, <1>2, <1>7, <1>9, <2>1
<1> HIDE DEF f
<1>11. ToServer = told => ToServer' = told'
  <2>1. Joined(f, Append(q, b), Append(f \o q, b))
    BY <1>3, <1>4, SendKeeps
  <2> QED
    BY <1>2, <1>6, <1>10, <2>1 DEF Joined
<1>12. UNCHANGED <<callVars, countspace, said>> /\ stream' = stream
  BY DEF heloVars
<1>13. ToSsh' = ToSsh
  <2>1. Flow(Ssh)' = got'[Ssh] \o tx'[Ssh] \o Held(Ssh)' \o rx'[Server]
    BY <1>5 DEF Flow
  <2>2. Flow(Ssh)' = Flow(Ssh)
    BY <1>1, <1>2, <1>5, <1>7, <1>9, <2>1 DEF Flow
  <2> QED
    BY <1>12, <2>2 DEF ToSsh
<1>14. LoopTypeOK'
  BY <1>1, <1>2, <1>8, <1>9 DEF TypeOK, LoopTypeOK
<1>15. Forwarding'
  BY <1>2 DEF Forwarding
<1> QED
  BY <1>1, <1>2, <1>11, <1>12, <1>13, <1>14, <1>15, StaysForwarding

\* Bytes of the server arrive, while it is greeted or in the tunnel.
LEMMA ArriveStep ==
    ASSUME IInv, Arrive
    PROVE  IInv'
<1>1. /\ TypeOK /\ SocketInv /\ StreamInv /\ Ssh \in Sockets /\ Server \in Sockets
      /\ stream \in Seq(STRING) /\ said \in Seq(STRING) /\ Ssh # Server
  BY DEF IInv, TypeOK, Sockets, Ssh, Server
<1> DEFINE q == rx[Server]
<1>2. PICK n \in 1 .. Len(stream) :
          /\ rx' = [rx EXCEPT ![Server] = q \o SubSeq(stream, 1, n)]
          /\ stream' = SubSeq(stream, n + 1, Len(stream))
  BY DEF Arrive
<1>3. /\ Connected /\ pc' = pc /\ tx' = tx /\ peer' = peer /\ buf' = buf /\ revents' = revents
      /\ got' = got /\ told' = told /\ said' = said /\ countspace' = countspace
      /\ resolvers' = resolvers /\ ri' = ri /\ si' = si /\ left' = left /\ open' = open
      /\ served' = served /\ rounds' = rounds /\ UNCHANGED callVars
  BY DEF Arrive, callVars
<1> DEFINE p == SubSeq(stream, 1, n)
           r == Rest(stream, n)
<1>4. n \in Nat /\ n <= Len(stream)
  BY <1>1
<1>5. p \in Seq(STRING) /\ r \in Seq(STRING) /\ Joined(p, r, stream)
  BY <1>1, <1>4, Split, RestTyped DEF Joined
<1>6. rx' = [rx EXCEPT ![Server] = q \o p] /\ stream' = r
  BY <1>2 DEF Rest
<1> HIDE DEF p, r
<1>7. q \in Seq(STRING) /\ rx \in [Sockets -> Seq(STRING)]
  BY <1>1, Typed DEF TypeOK, LoopTypeOK
<1> HIDE DEF q
<1>8. q \o p \in Seq(STRING)
  BY <1>5, <1>7, Assoc
<1>9. rx' \in [Sockets -> Seq(STRING)] /\ rx'[Server] = q \o p /\ rx'[Ssh] = rx[Ssh]
  BY <1>1, <1>6, <1>7, <1>8, QueueTyped
<1>10. ASSUME NEW f \in Seq(STRING)
       PROVE  Joined(f \o (q \o p), r, (f \o q) \o stream) /\ Joined(q \o p, r, q \o stream)
  BY ONLY <1>1, <1>5, <1>7, <1>10, ArriveKeeps
<1>11. rx'[Server] \o stream' = rx[Server] \o stream
  <2>1. Joined(q \o p, r, q \o stream)
    BY <1>7, <1>10
  <2> QED
    BY <1>6, <1>9, <2>1 DEF Joined, q
<1>12. LoopTypeOK'
  BY <1>1, <1>3, <1>9 DEF TypeOK, LoopTypeOK
<1>13. stream' \in Seq(STRING)
  BY <1>5, <1>6
<1>14. Forwarding' = Forwarding /\ Connected'
  BY <1>3 DEF Forwarding, Connected
<1>15. CASE Forwarding
  <2>1. Other(Server) = Ssh /\ Other(Ssh) = Server
    BY DEF Other, Ssh, Server
  <2>2. \A k \in Sockets : Held(k)' = Held(k)
    BY <1>3 DEF Held
  <2> DEFINE f == got[Ssh] \o tx[Ssh] \o Held(Ssh)
  <2>3. f \in Seq(STRING)
    <3>1. got[Ssh] \in Seq(STRING) /\ tx[Ssh] \in Seq(STRING) /\ Held(Ssh) \in Seq(STRING)
      BY <1>1, FlowTyped
    <3> DEFINE g == got[Ssh] \o tx[Ssh]
    <3>2. g \in Seq(STRING)
      BY <3>1, Assoc
    <3> HIDE DEF g
    <3>3. g \o Held(Ssh) \in Seq(STRING)
      BY <3>1, <3>2, Assoc
    <3> QED
      BY <3>3 DEF g
  <2>4. ToSsh = (f \o q) \o stream
    BY <2>1 DEF ToSsh, Flow, q
  <2>5. ToSsh' = (f \o (q \o p)) \o r
    <3>1. ToSsh' = (got'[Ssh] \o tx'[Ssh] \o Held(Ssh)' \o rx'[Server]) \o stream'
      BY <2>1 DEF ToSsh, Flow
    <3> QED
      BY <1>1, <1>3, <1>6, <1>9, <2>2, <3>1
  <2> HIDE DEF f
  <2>6. ToSsh' = ToSsh
    <3>1. Joined(f \o (q \o p), r, (f \o q) \o stream)
      BY <1>10, <2>3
    <3> QED
      BY <2>4, <2>5, <3>1 DEF Joined
  <2>7. ToServer' = ToServer
    <3>1. ToServer' = got'[Server] \o tx'[Server] \o Held(Server)' \o rx'[Ssh]
      BY <2>1 DEF ToServer, Flow
    <3> QED
      BY <1>1, <1>3, <1>9, <2>1, <2>2, <3>1 DEF ToServer, Flow
  <2>8. UNCHANGED <<callVars, countspace, said>> /\ Forwarding'
    BY <1>3, <1>14, <1>15
  <2> QED
    BY <1>3, <1>12, <1>13, <1>15, <2>6, <2>7, <2>8, StaysForwarding
<1>16. CASE ~Forwarding
  <2>1. Quiet'
    BY <1>1, <1>3, <1>9, <1>16 DEF StreamInv, Quiet
  <2>2. \A k \in Nat : Skipping(k)' = Skipping(k) /\ Header(k)' = Header(k)
    BY <1>3, <1>11 DEF Skipping, Header
  <2>3. Expected' = Expected
    BY <1>3 DEF Expected
  <2>4. StreamInv'
    <3>1. /\ pc # "skip" => countspace = 0
          /\ pc = "helo" => (said = <<>> \/ said \in Streams) /\ rx[Server] \o stream = said
          /\ pc \in {"skip", "local"} => Expected
      BY <1>1 DEF StreamInv
    <3>2. pc' = "skip" => \E k \in Nat : Skipping(k)'
      BY <1>1, <1>3, <2>2 DEF StreamInv
    <3>3. pc' = "local" => \E k \in Nat : Header(k)' /\ rx'[Server] \o stream' = Rest(said', k)
      BY <1>1, <1>3, <1>11, <2>2 DEF StreamInv
    <3>4. pc' = "helo" => (said' = <<>> \/ said' \in Streams) /\ rx'[Server] \o stream' = said'
      BY <1>3, <1>11, <3>1
    <3> QED
      BY <1>3, <1>14, <1>16, <2>1, <2>3, <3>1, <3>2, <3>3, <3>4 DEF StreamInv
  <2>5. SocketInv'
    BY <1>1, <1>3, <1>14 DEF SocketInv
  <2>6. TypeOK'
    BY <1>1, <1>3, <1>12, <1>13, <1>14 DEF TypeOK
  <2> QED
    BY <2>4, <2>5, <2>6 DEF IInv
<1> QED
  BY <1>15, <1>16

-----------------------------------------------------------------------------
(***************************************************************************)
(* Where the client stops eating is where HTTP says the header ends.       *)
(***************************************************************************)

\* A sequence of four is made of its elements.
LEMMA FourIs ==
    ASSUME NEW S, NEW x \in Seq(S), Len(x) = 4
    PROVE  x = <<x[1], x[2], x[3], x[4]>>
<1> DEFINE y == <<x[1], x[2], x[3], x[4]>>
<1>1. x[1] \in S /\ x[2] \in S /\ x[3] \in S /\ x[4] \in S
  <2>1. \A i \in 1 .. 4 : x[i] \in S
    BY ElementOfSeq
  <2> QED
    BY <2>1
<1>2. y \in Seq(S) /\ Len(y) = 4
  BY <1>1
<1>3. ASSUME NEW i \in 1 .. 4 PROVE x[i] = y[i]
  <2>1. i = 1 \/ i = 2 \/ i = 3 \/ i = 4
    OBVIOUS
  <2>2. y[1] = x[1] /\ y[2] = x[2] /\ y[3] = x[3] /\ y[4] = x[4]
    OBVIOUS
  <2> HIDE DEF y
  <2> QED
    BY <2>1, <2>2
<1> HIDE DEF y
<1>4. x = y
  BY <1>2, <1>3, SeqEqual
<1> QED
  BY <1>4 DEF y

\* The four bytes of an empty line and the end of the line before it.
Blank == <<"cr", "lf", "cr", "lf">>
BlankAt(s, i) == s[i - 3] = "cr" /\ s[i - 2] = "lf" /\ s[i - 1] = "cr" /\ s[i] = "lf"

\* How HeaderEnd recognises one.
LEMMA BlankIs ==
    ASSUME NEW s \in Seq(STRING), NEW i \in 4 .. Len(s)
    PROVE  SubSeq(s, i - 3, i) = Blank <=> BlankAt(s, i)
<1> DEFINE x == SubSeq(s, i - 3, i)
           m == i - 3
<1>1. m \in Int /\ i \in Int /\ Len(s) \in Nat /\ \A k \in m .. i : s[k] \in STRING
  OBVIOUS
<1>2. /\ x \in Seq(STRING) /\ Len(x) = IF m <= i THEN i - m + 1 ELSE 0
      /\ \A k \in 1 .. i - m + 1 : x[k] = s[m + k - 1]
  BY <1>1, SubSeqProperties
<1> HIDE DEF x
<1>3. Len(x) = 4
  BY <1>2
<1>4. x[1] = s[i - 3] /\ x[2] = s[i - 2] /\ x[3] = s[i - 1] /\ x[4] = s[i]
  <2>1. ASSUME NEW k \in 1 .. 4 PROVE x[k] = s[m + k - 1]
    BY <1>2
  <2>2. m + 1 - 1 = i - 3 /\ m + 2 - 1 = i - 2 /\ m + 3 - 1 = i - 1 /\ m + 4 - 1 = i
    OBVIOUS
  <2> HIDE DEF m
  <2>3. x[1] = s[m + 1 - 1] /\ x[2] = s[m + 2 - 1] /\ x[3] = s[m + 3 - 1] /\ x[4] = s[m + 4 - 1]
    BY <2>1
  <2> QED
    BY <2>2, <2>3
<1>5. x = <<x[1], x[2], x[3], x[4]>>
  BY <1>2, <1>3, FourIs
<1>6. ASSUME BlankAt(s, i) PROVE x = Blank
  BY <1>4, <1>5, <1>6 DEF BlankAt, Blank
<1>7. ASSUME x = Blank PROVE BlankAt(s, i)
  BY <1>4, <1>7 DEF BlankAt, Blank
<1> QED
  BY <1>6, <1>7 DEF x

\* With proper line ends, the first four line ends in a row are the first empty
\* line.
LEMMA FirstFourIsHeaderEnd ==
    ASSUME NEW s \in Streams, IsPrefix(Expect, s), NEW n \in Nat, FirstFour(s, n)
    PROVE  HeaderEnd(s) = n
<1>1. s \in Seq(STRING)
  BY StreamsAssumption
<1>2. s[1] \notin LineEnds /\ Len(s) \in Nat
  <2>1. Len(Expect) \in Nat /\ Len(Expect) > 0 /\ \A j \in 1 .. Len(Expect) : s[j] \notin LineEnds
    BY <1>1, ExpectedStart
  <2>2. 1 \in 1 .. Len(Expect)
    BY <2>1
  <2> QED
    BY <1>1, <2>1, <2>2
<1>3. /\ n \in 4 .. Len(s) /\ \A j \in n - 3 .. n : s[j] \in LineEnds
      /\ \A k \in 4 .. n - 1 : \E j \in k - 3 .. k : s[j] \notin LineEnds
  BY DEF FirstFour
<1>4. \A j \in 2 .. n : s[j] = "lf" <=> s[j - 1] = "cr"
  BY <1>3, HeaderAssumption
<1>5. /\ s[n - 3] \in LineEnds /\ s[n - 2] \in LineEnds
      /\ s[n - 1] \in LineEnds /\ s[n] \in LineEnds
  BY <1>3
<1>6. n - 3 # 1
  BY <1>2, <1>5
<1>7. s[n - 3] = "cr"
  <2> SUFFICES ASSUME s[n - 3] = "lf" PROVE FALSE
    BY <1>5 DEF LineEnds
  <2>1. n - 3 \in 2 .. n /\ n - 3 - 1 = n - 4
    BY <1>3, <1>6
  <2>2. s[n - 4] = "cr"
    BY <1>4, <2>1
  <2>3. n - 1 \in 4 .. n - 1
    BY <1>3, <1>6
  <2>4. PICK j \in n - 1 - 3 .. n - 1 : s[j] \notin LineEnds
    BY <1>3, <2>3
  <2>5. j = n - 4 \/ j \in n - 3 .. n
    BY <1>3
  <2> QED
    BY <1>3, <2>2, <2>4, <2>5 DEF LineEnds
<1>8. s[n - 2] = "lf"
  <2>1. n - 2 \in 2 .. n /\ n - 2 - 1 = n - 3
    BY <1>3
  <2> QED
    BY <1>4, <1>7, <2>1
<1>9. s[n - 1] = "cr"
  <2>1. n - 1 \in 2 .. n /\ n - 1 - 1 = n - 2
    BY <1>3
  <2>2. s[n - 1] # "lf"
    BY <1>4, <1>8, <2>1
  <2> QED
    BY <1>5, <2>2 DEF LineEnds
<1>10. s[n] = "lf"
  <2>1. n \in 2 .. n
    BY <1>3
  <2> QED
    BY <1>4, <1>9, <2>1
<1>11. BlankAt(s, n)
  BY <1>7, <1>8, <1>9, <1>10 DEF BlankAt
<1>12. ASSUME NEW k \in 4 .. n - 1 PROVE ~BlankAt(s, k)
  <2>1. PICK j \in k - 3 .. k : s[j] \notin LineEnds
    BY <1>3
  <2>2. j = k - 3 \/ j = k - 2 \/ j = k - 1 \/ j = k
    OBVIOUS
  <2> QED
    BY <2>1, <2>2 DEF BlankAt, LineEnds
<1> DEFINE P(i) == /\ SubSeq(s, i - 3, i) = Blank
                   /\ \A j \in 4 .. i - 1 : SubSeq(s, j - 3, j) # Blank
<1>13. \A i \in 4 .. Len(s) : SubSeq(s, i - 3, i) = Blank <=> BlankAt(s, i)
  BY <1>1, BlankIs
<1>14. P(n)
  <2>1. \A j \in 4 .. n - 1 : j \in 4 .. Len(s)
    BY <1>2, <1>3
  <2> QED
    BY <1>3, <1>11, <1>12, <1>13, <2>1
<1>15. ASSUME NEW i \in 4 .. Len(s), P(i) PROVE i = n
  <2>1. BlankAt(s, i)
    BY <1>13, <1>15
  <2>2. ~(i < n)
    <3>1. i < n => i \in 4 .. n - 1
      BY <1>3
    <3> QED
      BY <1>12, <2>1, <3>1
  <2>3. ~(i > n)
    <3>1. i > n => n \in 4 .. i - 1
      BY <1>3
    <3> QED
      BY <1>14, <1>15, <3>1
  <2> QED
    BY <2>2, <2>3
<1>16. HeaderEnd(s) = CHOOSE i \in 4 .. Len(s) : P(i)
  BY DEF HeaderEnd, Blank
<1> HIDE DEF P
<1> QED
  BY <1>3, <1>14, <1>15, <1>16

-----------------------------------------------------------------------------
\* Nothing is open and nothing connected when the process has not been started.
LEMMA InvInit == Init => IInv
<1> SUFFICES ASSUME Init PROVE IInv
  OBVIOUS
<1>1. /\ pc = "down" /\ resolvers = 0 /\ ri = 1 /\ si = 1 /\ left = 0
      /\ open = 0 /\ served = 0 /\ rounds = 0
      /\ countspace = 0 /\ stream = <<>> /\ said = <<>>
      /\ rx = Empty /\ tx = Empty /\ got = Empty /\ peer = [s \in Sockets |-> "up"]
      /\ buf = <<>> /\ revents = {} /\ told = <<>>
  BY DEF Init, Idle
<1>2. ~Connected /\ ~Forwarding
  BY <1>1, Places
<1>3. Empty \in [Sockets -> Seq(STRING)] /\ Empty[Ssh] = <<>> /\ \A s \in Sockets : Len(Empty[s]) = 0
  BY DEF Empty, Sockets
<1>4. Quiet
  BY <1>1, <1>3 DEF Quiet
<1>5. StreamInv
  BY <1>1, <1>2, <1>4 DEF StreamInv
<1>6. SocketInv
  <2>1. open <= 2 * served
    BY <1>1
  <2> QED
    BY <1>1, <1>2, <2>1 DEF SocketInv
<1>7. LoopTypeOK
  <2>1. \A s \in Sockets : Len(tx[s]) <= ROOM
    BY <1>1, <1>3, BufferAssumption
  <2>2. buf \in Seq(STRING) /\ Len(buf) <= BUFFER
    BY <1>1, BufferAssumption
  <2>3. peer \in [Sockets -> {"up", "closed", "gone"}]
    BY <1>1
  <2> QED
    BY <1>1, <1>3, <2>1, <2>2, <2>3 DEF LoopTypeOK
<1>8. TypeOK
  <2>1. Len(Servers) \in Nat
    BY ListsAssumption
  <2>2. si \in 1 .. Len(Servers) + 1 /\ ri \in 1 .. resolvers + 1
    BY <1>1, <2>1
  <2>3. stream \in Seq(STRING) /\ said \in Seq(STRING) /\ countspace \in 0 .. 3 /\ left \in 0 .. 7
    BY <1>1
  <2>4. open \in Nat /\ served \in Nat /\ rounds \in Nat /\ resolvers \in Nat
    BY <1>1
  <2> QED
    BY <1>1, <1>7, <2>2, <2>3, <2>4 DEF TypeOK
<1> QED
  BY <1>5, <1>6, <1>8 DEF IInv

\* The steps of ssh, the server and the network.
LEMMA PeersStep ==
    ASSUME IInv, Peers
    PROVE  IInv'
<1>1. Ssh \in Sockets /\ Server \in Sockets /\ TypeOK
  BY DEF Sockets, IInv
<1>2. CASE Arrive
  BY <1>2, ArriveStep
<1>3. CASE SshReads
  BY <1>1, <1>3, PeerReadsStep DEF SshReads
<1>4. CASE ServerReads
  BY <1>1, <1>4, PeerReadsStep DEF ServerReads
<1>5. CASE ServerDies
  <2>1. /\ Connected /\ peer[Server] # "closed" /\ peer' = [peer EXCEPT ![Server] = "closed"]
        /\ UNCHANGED <<pc, rx, tx, buf, revents, got, told, callVars, heloVars>>
    BY <1>5 DEF ServerDies, Keepalive
  <2> QED
    BY <1>1, <2>1, PeerChanges
<1>6. CASE Forwarding /\ PeerCloses(Ssh) /\ UNCHANGED <<callVars, heloVars>>
  <2>1. /\ Connected /\ peer[Ssh] # "closed" /\ peer' = [peer EXCEPT ![Ssh] = "closed"]
        /\ UNCHANGED <<pc, rx, tx, buf, revents, got, told, callVars, heloVars>>
    BY <1>6 DEF PeerCloses, Connected
  <2> QED
    BY <1>1, <2>1, PeerChanges
<1>7. CASE /\ Forwarding /\ Len(told) < Len(SshSays) /\ SshSends(SshSays[Len(told) + 1])
           /\ UNCHANGED <<callVars, heloVars>>
  <2>1. SshSays \in Seq(STRING) /\ told \in Seq(STRING)
    BY <1>1, StreamsAssumption DEF TypeOK, LoopTypeOK
  <2>2. Len(told) + 1 \in 1 .. Len(SshSays)
    BY <1>7, <2>1
  <2>3. SshSays[Len(told) + 1] \in STRING
    BY <2>1, <2>2
  <2>4. PICK b \in STRING : b = SshSays[Len(told) + 1]
    BY <2>3
  <2>5. SshSends(b)
    BY <1>7, <2>4 DEF SshSends
  <2> QED
    BY <1>7, <2>5, SshSendsStep
<1>8. CASE Connected /\ PeerCloses(Server) /\ UNCHANGED <<callVars, heloVars>>
  <2>1. /\ Connected /\ peer[Server] # "closed" /\ peer' = [peer EXCEPT ![Server] = "closed"]
        /\ UNCHANGED <<pc, rx, tx, buf, revents, got, told, callVars, heloVars>>
    BY <1>8 DEF PeerCloses
  <2> QED
    BY <1>1, <2>1, PeerChanges
<1>9. CASE Connected /\ ServerGone /\ UNCHANGED <<callVars, heloVars>>
  <2>1. /\ Connected /\ peer[Server] # "closed" /\ peer' = [peer EXCEPT ![Server] = "gone"]
        /\ UNCHANGED <<pc, rx, tx, buf, revents, got, told, callVars, heloVars>>
    BY <1>9 DEF ServerGone
  <2> QED
    BY <1>1, <2>1, PeerChanges
<1> QED
  BY <1>2, <1>3, <1>4, <1>5, <1>6, <1>7, <1>8, <1>9 DEF Peers

\* A step that changes nothing.
LEMMA StutterStep ==
    ASSUME IInv, UNCHANGED vars
    PROVE  IInv'
<1>1. TypeOK /\ SocketInv /\ StreamInv
  BY DEF IInv
<1>2. /\ pc' = pc /\ rx' = rx /\ tx' = tx /\ buf' = buf /\ revents' = revents /\ got' = got
      /\ told' = told /\ said' = said /\ stream' = stream /\ countspace' = countspace
      /\ resolvers' = resolvers /\ ri' = ri /\ si' = si /\ left' = left /\ open' = open
      /\ served' = served /\ rounds' = rounds /\ peer' = peer
  BY DEF vars, callVars, heloVars, loopVars
<1>3. Connected' = Connected /\ Forwarding' = Forwarding
  BY <1>2 DEF Connected, Forwarding
<1>4. LoopTypeOK'
  BY <1>1, LoopKept DEF vars
<1>5. TypeOK'
  BY <1>1, <1>2, <1>3, <1>4 DEF TypeOK
<1>6. SocketInv'
  BY <1>1, <1>2, <1>3 DEF SocketInv
<1>7. StreamInv'
  <2>1. Held(Ssh)' = Held(Ssh) /\ Held(Server)' = Held(Server)
    BY <1>2 DEF Held
  <2>2. ToSsh' = ToSsh /\ ToServer' = ToServer
    BY <1>2, <2>1 DEF ToSsh, ToServer, Flow
  <2>3. \A n \in Nat : Skipping(n)' = Skipping(n) /\ Header(n)' = Header(n)
    BY <1>2 DEF Skipping, Header
  <2>4. Expected' = Expected /\ Quiet' = Quiet
    BY <1>2 DEF Expected, Quiet
  <2>5. pc' = "skip" => \E n \in Nat : Skipping(n)'
    BY <1>1, <1>2, <2>3 DEF StreamInv
  <2>6. pc' = "local" => \E n \in Nat : Header(n)' /\ rx'[Server] \o stream' = Rest(said', n)
    BY <1>1, <1>2, <2>3 DEF StreamInv
  <2>7. Forwarding' => \E n \in Nat : Header(n)' /\ (peer'[Ssh] = "up" => ToSsh' = Rest(said', n))
    BY <1>1, <1>2, <1>3, <2>2, <2>3 DEF StreamInv
  <2>8. Forwarding' /\ peer'[Server] # "closed" => ToServer' = told'
    BY <1>1, <1>2, <1>3, <2>2 DEF StreamInv
  <2>9. /\ ~Connected' => rx' = Empty /\ stream' = <<>> /\ said' = <<>>
        /\ ~Forwarding' => Quiet'
        /\ pc' # "skip" => countspace' = 0
        /\ pc' = "helo" => (said' = <<>> \/ said' \in Streams) /\ rx'[Server] \o stream' = said'
        /\ pc' \in {"skip", "local"} \/ Forwarding' => Expected'
    BY <1>1, <1>2, <1>3, <2>4 DEF StreamInv
  <2> QED
    BY <2>5, <2>6, <2>7, <2>8, <2>9 DEF StreamInv
<1> QED
  BY <1>5, <1>6, <1>7 DEF IInv

\* Every step keeps the invariant.
LEMMA Invariance == IInv /\ [Next]_vars => IInv'
<1> SUFFICES ASSUME IInv, [Next]_vars PROVE IInv'
  OBVIOUS
<1>1. CASE Start
  BY <1>1, StartStep
<1>2. CASE ForwardKills
  BY <1>2, DropSteps
<1>3. CASE Peers
  BY <1>3, PeersStep
<1>4. CASE UNCHANGED vars
  BY <1>4, StutterStep
<1>5. CASE Client
  <2>1. CASE DnsInit \/ DnsInitFails \/ QueryFails \/ QueryAnswered \/ RecordsDone \/ RemoteConnectFails
    BY <2>1, DnsSteps
  <2>2. CASE RemoteConnect
    BY <2>2, RemoteConnectStep
  <2>3. CASE ServerHeloFails \/ SkipHeaderFails \/ LocalConnectFails \/ ForwardEnds \/ Finish
    BY <2>3, DropSteps
  <2>4. CASE ServerHelo
    BY <2>4, ServerHeloStep
  <2>5. CASE SkipHeader
    BY <2>5, SkipHeaderStep
  <2>6. CASE LocalConnect
    BY <2>6, LocalConnectStep
  <2>7. CASE Forward
    BY <2>7, ForwardStep
  <2> QED
    BY <1>5, <2>1, <2>2, <2>3, <2>4, <2>5, <2>6, <2>7 DEF Client
<1> QED
  BY <1>1, <1>2, <1>3, <1>4, <1>5 DEF Next

\* The invariant says what NoFrameEaten does.
LEMMA InvGivesFrames == IInv => NoFrameEaten
<1> SUFFICES ASSUME IInv, Forwarding
             PROVE  /\ peer[Ssh] = "up" =>
                          got[Ssh] \o tx[Ssh] \o Held(Ssh) \o rx[Server] \o stream
                              = SubSeq(said, HeaderEnd(said) + 1, Len(said))
                    /\ peer[Server] # "closed" =>
                          got[Server] \o tx[Server] \o Held(Server) \o rx[Ssh] = told
  BY DEF NoFrameEaten
<1>1. StreamInv
  BY DEF IInv
<1>2. PICK n \in Nat : Header(n) /\ (peer[Ssh] = "up" => ToSsh = Rest(said, n))
  BY <1>1 DEF StreamInv
<1>3. Expected /\ (peer[Server] # "closed" => ToServer = told)
  BY <1>1 DEF StreamInv
<1>4. HeaderEnd(said) = n
  BY <1>2, <1>3, FirstFourIsHeaderEnd DEF Header, Expected
<1>5. Other(Ssh) = Server /\ Other(Server) = Ssh
  BY DEF Other, Ssh, Server
<1>6. ToSsh = got[Ssh] \o tx[Ssh] \o Held(Ssh) \o rx[Server] \o stream
  BY <1>5 DEF ToSsh, Flow
<1>7. ToServer = got[Server] \o tx[Server] \o Held(Server) \o rx[Ssh]
  BY <1>5 DEF ToServer, Flow
<1>8. Rest(said, n) = SubSeq(said, HeaderEnd(said) + 1, Len(said))
  BY <1>4 DEF Rest
<1> QED
  BY <1>2, <1>3, <1>6, <1>7, <1>8

\* The invariant says what LeaksOnlyServed does.
LEMMA InvGivesLeaks == IInv => LeaksOnlyServed
<1> SUFFICES ASSUME IInv PROVE LeaksOnlyServed
  OBVIOUS
<1>1. TypeOK /\ SocketInv /\ open \in Nat /\ served \in Nat
  BY DEF IInv, TypeOK
<1>2. pc = "dns" => open <= 2 * served
  BY <1>1 DEF SocketInv
<1>3. Forwarding \/ pc \in {"down", "dns", "query", "records", "helo", "skip", "local"}
  BY <1>1 DEF TypeOK, Connected
<1>4. open <= 2 * served \/ open <= 2 * served + 1 \/ open <= 2 * served + 2
  BY <1>1, <1>3 DEF SocketInv
<1>5. open <= 2 * served + 2
  BY <1>1, <1>4
<1> QED
  BY <1>2, <1>5 DEF LeaksOnlyServed

\* The invariant holds in every state of the client, whatever the network does.
THEOREM Inductive == Spec => []IInv
  BY InvInit, Invariance, PTL DEF Spec

\* The counters of main, attempt_dns and attempt_remote stay in their ranges, no
\* more is held than splice's buffer takes, and no socket takes more than it has
\* room for.
THEOREM TypeCorrect == Spec => []TypeOK
<1>1. IInv => TypeOK
  BY DEF IInv
<1> QED
  BY <1>1, Inductive, PTL

\* attempt_dns and attempt_remote close what they opened unless ssh was called:
\* however many resolvers, names and records there are, and whichever calls
\* fail, the sockets a process holds are bounded by the tunnels it was asked for.
THEOREM OnlyServedLeak == Spec => []LeaksOnlyServed
  BY Inductive, InvGivesLeaks, PTL

\* attempt_remote and forward_loop: for every stream whose header has proper line
\* ends, every size of buffer and socket and every way the bytes are cut up, ssh
\* gets exactly what follows the header, and the server exactly what ssh says.
THEOREM FramesArrive == Spec => []NoFrameEaten
  BY Inductive, InvGivesFrames, PTL
=============================================================================

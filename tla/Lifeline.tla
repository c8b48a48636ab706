------------------------------ MODULE Lifeline ------------------------------
(***************************************************************************)
(* packages/lifeline: the C client.  One process tries every resolver,     *)
(* every server name and every address it gets, one after the other, and   *)
(* exits; procd starts it again.  A server that wants a tunnel answers     *)
(* with an HTTP header, of which the client eats every byte and no more,   *)
(* and from then on ForwardLoop copies between the server and ssh.         *)
(*                                                                         *)
(* A byte is a symbol: "cr", "lf", those of the status line the client     *)
(* expects, "h" (other header bytes) or "s" (other bytes for ssh).         *)
(***************************************************************************)
EXTENDS ForwardLoop

CONSTANTS Resolvers,   \* DNS_RESOLVERS
          ResolvConfs, \* what /etc/resolv.conf may list
          Servers,     \* LIFELINE_SERVERS
          Answers,     \* what a DNS server may answer
          Streams,     \* what a lifeline server may send
          SshSays,     \* what ssh sends
          Expect,      \* "HTTP/1.1 101 Switching Protocols"
          MaxRounds    \* bound on the runs of the process

\* An answer record: an A record of class IN or something else.
Answer == [isA : BOOLEAN, ttl : Nat]

ASSUME ListsAssumption == /\ Resolvers \in Seq(STRING) /\ Servers \in Seq(STRING)
                          /\ \A conf \in ResolvConfs : conf \in Seq(STRING)
ASSUME AnswersAssumption == \A a \in Answers : a \in Seq(Answer) /\ Len(a) < 8

\* The bytes that attempt_remote counts.
LineEnds == {"cr", "lf"}

\* The first four line ends in a row in s are the bytes up to i.
FirstFour(s, i) ==
    /\ i \in 4 .. Len(s) /\ \A j \in i - 3 .. i : s[j] \in LineEnds
    /\ \A k \in 4 .. i - 1 : \E j \in k - 3 .. k : s[j] \notin LineEnds

\* A server that answers as expected ends the lines of its header with cr lf.
ASSUME HeaderAssumption ==
    /\ Expect # <<>> /\ \A j \in 1 .. Len(Expect) : Expect[j] \notin LineEnds
    /\ \A s \in Streams : \A i \in 4 .. Len(s) :
          IsPrefix(Expect, s) /\ FirstFour(s, i) => \A j \in 2 .. i : s[j] = "lf" <=> s[j - 1] = "cr"
ASSUME StreamsAssumption == /\ MaxRounds \in Nat
                            /\ \A s \in Streams \union {Expect, SshSays} : s \in Seq(STRING)

VARIABLES resolvers, \* the number of resolvers this process will go through
          ri, si,    \* the resolver and the server it is at
          left,      \* number of records still to be attempted
          countspace,
          open,      \* open sockets
          served,    \* attempts that got as far as calling ssh
          rounds,
          stream,    \* what the server has still to send
          said       \* history: all the server sends on this connection

callVars == <<resolvers, ri, si, left, open, served, rounds>>
heloVars == <<countspace, stream, said>>
vars == <<pc, callVars, heloVars, loopVars>>

\* A connection to a server is in use.
Connected == Forwarding \/ pc \in {"helo", "skip", "local"}

TypeOK ==
    /\ Connected \/ pc \in {"down", "dns", "query", "records"}
    /\ LoopTypeOK
    /\ resolvers \in Nat
    /\ ri \in 1 .. resolvers + 1
    /\ si \in 1 .. Len(Servers) + 1
    /\ left \in 0 .. 7
    /\ stream \in Seq(STRING) /\ said \in Seq(STRING)
    /\ countspace \in 0 .. 3
    /\ open \in Nat /\ served \in Nat /\ rounds \in Nat

Init ==
    /\ pc = "down" /\ resolvers = 0 /\ ri = 1 /\ si = 1 /\ left = 0
    /\ open = 0 /\ served = 0 /\ rounds = 0
    /\ countspace = 0 /\ stream = <<>> /\ said = <<>>
    /\ Idle

-----------------------------------------------------------------------------
\* The entries of DNS_RESOLVERS that name a file.
Files == {i \in DOMAIN Resolvers : Resolvers[i] = "/etc/resolv.conf"}

\* main goes through DNS_RESOLVERS; an entry that is a file stands for what the
\* file lists (nothing if it cannot be read).
Start ==
    /\ pc = "down" /\ rounds < MaxRounds
    /\ rounds' = rounds + 1
    /\ \E conf \in ResolvConfs :
          resolvers' = Cardinality(DOMAIN Resolvers \ Files) + Cardinality(Files) * Len(conf)
    /\ pc' = "dns" /\ ri' = 1 /\ si' = 1 /\ left' = 0
    /\ open' = 0 /\ served' = 0
    /\ UNCHANGED <<heloVars, loopVars>>

\* The connection is no longer looked at.
Drop == countspace' = 0 /\ stream' = <<>> /\ said' = <<>> /\ Reset

\* The process ends, and the kernel closes its sockets.
Exit == /\ pc' = "down" /\ open' = 0 /\ served' = 0
        /\ Drop
        /\ UNCHANGED <<resolvers, ri, si, left, rounds>>

\* attempt_dns goes on to the next server name, or to the next resolver.
NextServer ==
    /\ pc' = "dns"
    /\ IF si < Len(Servers) THEN si' = si + 1 /\ UNCHANGED ri
                            ELSE si' = 1 /\ ri' = ri + 1
    /\ UNCHANGED <<resolvers, left, served, rounds, heloVars, loopVars>>

AtServer == pc = "dns" /\ ri <= resolvers

DnsInit ==
    /\ AtServer
    /\ pc' = "query" /\ open' = open + 1
    /\ UNCHANGED <<resolvers, ri, si, left, served, rounds, heloVars, loopVars>>

DnsInitFails == AtServer /\ NextServer /\ UNCHANGED open

\* Mutant: the socket of a failed query stays open.
QueryFails_Leak == pc = "query" /\ NextServer /\ UNCHANGED open

\* dns_request or dns_receive fails: nothing in time, another sender or id, no
\* answer.
QueryFails == pc = "query" /\ NextServer /\ open' = open - 1

\* dns_receive keeps the A records; attempt_dns goes through them up to one
\* whose time to live is 0, which it takes for the end of the list.
Attempted(answer) ==
    Cardinality({i \in DOMAIN answer :
                    answer[i].isA /\ \A j \in 1 .. i : answer[j].isA => answer[j].ttl # 0})

QueryAnswered ==
    /\ pc = "query"
    /\ \E answer \in Answers : answer # <<>> /\ left' = Attempted(answer)
    /\ pc' = "records"
    /\ UNCHANGED <<resolvers, ri, si, open, served, rounds, heloVars, loopVars>>

RecordsDone == pc = "records" /\ left = 0 /\ NextServer /\ open' = open - 1

\* remote_connect: the connection is up, or it was refused, which poll reports
\* like a connection and which the next recv finds closed.  The helo is sent.
RemoteConnect ==
    /\ pc = "records" /\ left > 0
    /\ left' = left - 1
    /\ \/ \E s \in Streams : stream' = s /\ said' = s /\ UNCHANGED peer
       \/ peer' = [peer EXCEPT ![Server] = "closed"] /\ UNCHANGED <<stream, said>>
    /\ pc' = "helo" /\ open' = open + 1
    /\ UNCHANGED <<resolvers, ri, si, served, rounds, countspace,
                   rx, tx, buf, revents, got, told>>

\* No socket, or no answer in five seconds.
RemoteConnectFails ==
    /\ pc = "records" /\ left > 0
    /\ left' = left - 1
    /\ UNCHANGED <<pc, resolvers, ri, si, open, served, rounds, heloVars, loopVars>>

\* The socket is closed and attempt_remote returns.
GiveUp == /\ pc' = "records" /\ open' = open - 1
          /\ Drop
          /\ UNCHANGED <<resolvers, ri, si, left, served, rounds>>

\* The server's status line: one recv, which must return all of it.
ServerHeloFails ==
    /\ pc = "helo" /\ Server \in Ready
    /\ ~IsPrefix(Expect, rx[Server])
    /\ GiveUp

ServerHelo ==
    /\ pc = "helo" /\ IsPrefix(Expect, rx[Server])
    /\ rx' = [rx EXCEPT ![Server] = SubSeq(@, Len(Expect) + 1, Len(@))]
    /\ pc' = "skip"
    /\ UNCHANGED <<callVars, heloVars, tx, peer, buf, revents, got, told>>

\* Mutant: the count of line ends is not reset by a header byte.
Counted_NoReset(b) == IF b \in LineEnds THEN countspace + 1 ELSE countspace

\* countspace after one more byte.
Counted(b) == IF b \in LineEnds THEN countspace + 1 ELSE 0

\* Mutant: five line ends are needed.
HeaderDone_Five(n) == n > 4

HeaderDone(n) == n > 3

\* The headers are eaten byte by byte, up to four line ends in a row.
SkipHeader ==
    /\ pc = "skip" /\ rx[Server] # <<>>
    /\ rx' = [rx EXCEPT ![Server] = Tail(@)]
    /\ LET n == Counted(Head(rx[Server]))
       IN  IF HeaderDone(n) THEN pc' = "local" /\ countspace' = 0
                            ELSE countspace' = n /\ UNCHANGED pc
    /\ UNCHANGED <<callVars, stream, said, tx, peer, buf, revents, got, told>>

SkipHeaderFails == pc = "skip" /\ rx[Server] = <<>> /\ peer[Server] = "closed" /\ GiveUp

\* local_connect
LocalConnect ==
    /\ pc = "local"
    /\ pc' = "poll" /\ open' = open + 1 /\ served' = served + 1
    /\ UNCHANGED <<resolvers, ri, si, left, rounds, heloVars, loopVars>>

\* Neither the server's socket nor, if connect failed, the new one is closed.
LocalConnectFails ==
    /\ pc = "local"
    /\ open' \in {open, open + 1}
    /\ pc' = "records" /\ served' = served + 1
    /\ Drop
    /\ UNCHANGED <<resolvers, ri, si, left, rounds>>

Forward == LoopStep /\ UNCHANGED <<callVars, heloVars>>

\* Both sockets stay open.
ForwardEnds == LoopReturns /\ pc' = "records" /\ Drop /\ UNCHANGED callVars

ForwardKills == LoopExits /\ Exit

\* All resolvers are through: sleep, "we're leaking sockets somewhere, lets just
\* exit".
Finish == pc = "dns" /\ ri > resolvers /\ Exit

Client == \/ DnsInit \/ DnsInitFails \/ QueryFails \/ QueryAnswered \/ RecordsDone
          \/ RemoteConnect \/ RemoteConnectFails \/ ServerHeloFails \/ ServerHelo
          \/ SkipHeader \/ SkipHeaderFails \/ LocalConnect \/ LocalConnectFails
          \/ Forward \/ ForwardEnds \/ Finish

-----------------------------------------------------------------------------
\* Bytes arrive in pieces of any size; the server may close in between.
Arrive ==
    /\ Connected /\ peer[Server] = "up"
    /\ \E n \in 1 .. Len(stream) :
          /\ rx' = [rx EXCEPT ![Server] = @ \o SubSeq(stream, 1, n)]
          /\ stream' = SubSeq(stream, n + 1, Len(stream))
    /\ UNCHANGED <<pc, callVars, countspace, said, tx, peer, buf, revents, got, told>>

\* The sockets' peers, whatever the client does.
SshReads == Forwarding /\ PeerReads(Ssh) /\ UNCHANGED <<callVars, heloVars>>
ServerReads == Forwarding /\ PeerReads(Server) /\ UNCHANGED <<callVars, heloVars>>
ServerDies == Connected /\ Keepalive /\ UNCHANGED <<callVars, heloVars>>

Peers ==
    \/ Arrive \/ SshReads \/ ServerReads \/ ServerDies
    \/ /\ \/ Forwarding /\ PeerCloses(Ssh)
          \/ Forwarding /\ Len(told) < Len(SshSays) /\ SshSends(SshSays[Len(told) + 1])
          \/ Connected /\ PeerCloses(Server)
          \/ Connected /\ ServerGone
       /\ UNCHANGED <<callVars, heloVars>>

Next == Start \/ Client \/ ForwardKills \/ Peers

\* A step of the process does not wait forever (each call that may has a
\* timeout, or is a read or write guarded by what it waits for); ssh and the
\* server go on reading; the kernel notices a server that is gone.
Spec == /\ Init /\ [][Next]_vars
        /\ WF_vars(Client) /\ WF_vars(SshReads) /\ WF_vars(ServerReads) /\ WF_vars(ServerDies)

-----------------------------------------------------------------------------
\* Where HTTP says a header ends: after the first empty line.
HeaderEnd(s) ==
    CHOOSE i \in 4 .. Len(s) :
        /\ SubSeq(s, i - 3, i) = <<"cr", "lf", "cr", "lf">>
        /\ \A j \in 4 .. i - 1 : SubSeq(s, j - 3, j) # <<"cr", "lf", "cr", "lf">>

\* What splice holds on its way to a socket.
Held(to) == IF pc = Writing(to) THEN buf ELSE <<>>

\* attempt_remote: "we don't want to eat ssh frames".  However the server's
\* bytes are cut up on their way, ssh gets what follows the header from its
\* first byte on, in order and with nothing of the header before it; and the
\* server gets what ssh says, however often the copying has to wait for room.
NoFrameEaten ==
    Forwarding =>
        /\ peer[Ssh] = "up" =>
              got[Ssh] \o tx[Ssh] \o Held(Ssh) \o rx[Server] \o stream
                  = SubSeq(said, HeaderEnd(said) + 1, Len(said))
        /\ peer[Server] # "closed" =>
              got[Server] \o tx[Server] \o Held(Server) \o rx[Ssh] = told

\* attempt_dns, attempt_remote: an attempt that does not get as far as calling
\* ssh leaves no socket open, whichever step of it fails; so what a process
\* holds is bounded by the tunnels it was asked for.
LeaksOnlyServed ==
    /\ pc = "dns" => open <= 2 * served
    /\ open <= 2 * served + 2

\* remote_connect's keepalive: a server that is gone without a word does not
\* hold the client, which waits for it without a timeout of its own in recv, in
\* poll or in write.
GoneIsNoticed == (Connected /\ peer[Server] = "gone") ~> ~Connected

\* forward_loop: as long as both peers go on reading, what either of them sends
\* gets to the other, or the tunnel ends; the loop never waits for one side
\* while only the other one could help it.
BytesAreForwarded ==
    \A s \in Sockets :
        (Forwarding /\ rx[s] # <<>>)
            ~> (~Forwarding \/ (rx[s] = <<>> /\ Held(Other(s)) = <<>> /\ tx[Other(s)] = <<>>))

=============================================================================

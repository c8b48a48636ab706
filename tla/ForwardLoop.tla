---------------------------- MODULE ForwardLoop ----------------------------
(***************************************************************************)
(* forward_loop and splice of packages/lifeline/lifeline.c: one thread     *)
(* copies both ways between ssh's socket and the server's, with blocking   *)
(* reads and writes, and returns as soon as one side is at its end.        *)
(***************************************************************************)
EXTENDS Integers, SequencesExt

CONSTANTS BUFFER, \* sizeof(buf) in splice
          ROOM    \* bytes a socket takes before a write blocks

ASSUME BufferAssumption == BUFFER \in Nat \ {0} /\ ROOM \in Nat \ {0}

VARIABLES pc,
          rx,      \* per socket: what has arrived and was not read
          tx,      \* per socket: what was written and the peer has not read
          peer,    \* per socket: "up", "closed" (or broken), or "gone" without a word
          buf,     \* what splice has read and still has to write
          revents, \* the sockets that the last poll reported
          got,     \* history: per socket, what the peer has read
          told     \* history: what ssh has sent

loopVars == <<rx, tx, peer, buf, revents, got, told>>

Ssh == "ssh"
Server == "server"
Sockets == {Ssh, Server}
Other(s) == IF s = Ssh THEN Server ELSE Ssh

\* The program counter in the loop: at poll, at one of the two revents, in
\* one of the two writes.
Writing(to) == IF to = Ssh THEN "write_ssh" ELSE "write_server"
Forwarding == pc \in {"poll", Ssh, Server, Writing(Ssh), Writing(Server)}

LoopTypeOK ==
    /\ \A q \in {rx, tx, got} : q \in [Sockets -> Seq(STRING)]
    /\ peer \in [Sockets -> {"up", "closed", "gone"}]
    /\ \A s \in Sockets : Len(tx[s]) <= ROOM
    /\ buf \in Seq(STRING) /\ Len(buf) <= BUFFER
    /\ revents \subseteq Sockets
    /\ told \in Seq(STRING)

Empty == [s \in Sockets |-> <<>>]

\* No connection is in use.  What lies in sockets that were left open is never
\* read again.
Idle == /\ rx = Empty /\ tx = Empty /\ got = Empty
        /\ peer = [s \in Sockets |-> "up"]
        /\ buf = <<>> /\ revents = {} /\ told = <<>>

Reset == /\ rx' = Empty /\ tx' = Empty /\ got' = Empty
         /\ peer' = [s \in Sockets |-> "up"]
         /\ buf' = <<>> /\ revents' = {} /\ told' = <<>>

-----------------------------------------------------------------------------
Ready == {s \in Sockets : rx[s] # <<>> \/ peer[s] = "closed"}

\* Mutant: the events of the second socket are not asked for.
Polled_First == Ready \ {Server}

\* What poll can report.
Polled == Ready

\* poll waits without a timeout.
Poll ==
    /\ pc = "poll"
    /\ Polled # {} /\ revents' = Polled
    /\ pc' = Ssh
    /\ UNCHANGED <<rx, tx, peer, buf, got, told>>

\* ssh's socket is looked at first, then the server's, then poll again.
After(s) == IF s = Ssh THEN Server ELSE "poll"

NotReady(s) == /\ pc = s /\ s \notin revents
               /\ pc' = After(s)
               /\ UNCHANGED loopVars

SpliceRead(s) ==
    /\ pc = s /\ s \in revents /\ rx[s] # <<>>
    /\ LET n == IF Len(rx[s]) < BUFFER THEN Len(rx[s]) ELSE BUFFER
       IN  /\ buf' = SubSeq(rx[s], 1, n)
           /\ rx' = [rx EXCEPT ![s] = SubSeq(@, n + 1, Len(@))]
    /\ pc' = Writing(Other(s))
    /\ UNCHANGED <<tx, peer, revents, got, told>>

\* The blocking write goes on as the socket has room, until all is taken.
SpliceWrite(s) ==
    LET to == Other(s)
        free == ROOM - Len(tx[to])
        n == IF Len(buf) < free THEN Len(buf) ELSE free
    IN  /\ pc = Writing(to) /\ peer[to] # "closed" /\ n > 0
        /\ tx' = [tx EXCEPT ![to] = @ \o SubSeq(buf, 1, n)]
        /\ buf' = SubSeq(buf, n + 1, Len(buf))
        /\ pc' = IF buf' = <<>> THEN After(s) ELSE pc
        /\ UNCHANGED <<rx, peer, revents, got, told>>

\* The kernel still takes what is written to a connection the peer has closed,
\* and answers with a reset that the next write meets.
SpliceWriteLost(s) ==
    /\ pc = Writing(Other(s)) /\ peer[Other(s)] = "closed"
    /\ buf' = <<>> /\ pc' = After(s)
    /\ UNCHANGED <<rx, tx, peer, revents, got, told>>

LoopStep == Poll \/ \E s \in Sockets : \/ NotReady(s) \/ SpliceRead(s)
                                       \/ SpliceWrite(s) \/ SpliceWriteLost(s)

\* read or write returns 0 or -1: the peer has closed or reset the connection
\* (a reset drops what was not read).
LoopReturns ==
    \E s \in Sockets : \/ pc = s /\ s \in revents /\ peer[s] = "closed"
                       \/ pc = Writing(s) /\ peer[s] = "closed"

\* exit after a failing poll, or SIGPIPE in a write.
LoopExits == pc = "poll" \/ \E s \in Sockets : pc = Writing(s) /\ peer[s] = "closed"

-----------------------------------------------------------------------------
\* The peers and the network between.
PeerReads(s) ==
    /\ tx[s] # <<>> /\ peer[s] = "up"
    /\ got' = [got EXCEPT ![s] = @ \o tx[s]]
    /\ tx' = [tx EXCEPT ![s] = <<>>]
    /\ UNCHANGED <<pc, rx, peer, buf, revents, told>>

PeerCloses(s) ==
    /\ peer[s] = "up"
    /\ peer' = [peer EXCEPT ![s] = "closed"]
    /\ UNCHANGED <<pc, rx, tx, buf, revents, got, told>>

SshSends(b) ==
    /\ peer[Ssh] = "up" /\ Len(rx[Ssh]) < ROOM
    /\ rx' = [rx EXCEPT ![Ssh] = Append(@, b)] /\ told' = Append(told, b)
    /\ UNCHANGED <<pc, tx, peer, buf, revents, got>>

\* The server loses power, or the way to it is cut.
ServerGone ==
    /\ peer[Server] = "up"
    /\ peer' = [peer EXCEPT ![Server] = "gone"]
    /\ UNCHANGED <<pc, rx, tx, buf, revents, got, told>>

\* Mutant: SO_KEEPALIVE is not set, and nothing asks a silent server for a sign
\* of life while there is nothing to retransmit.
Keepalive_Off ==
    /\ peer[Server] = "gone" /\ tx[Server] # <<>>
    /\ peer' = [peer EXCEPT ![Server] = "closed"]
    /\ UNCHANGED <<pc, rx, tx, buf, revents, got, told>>

\* SO_KEEPALIVE: ten unanswered probes, or the retransmissions of what is in
\* flight, end the connection.
Keepalive ==
    /\ peer[Server] = "gone"
    /\ peer' = [peer EXCEPT ![Server] = "closed"]
    /\ UNCHANGED <<pc, rx, tx, buf, revents, got, told>>

=============================================================================

----------------------------- MODULE Lifeline1 ------------------------------
(***************************************************************************)
(* lifeline1/mod.rs: the client that keeps calling the lifeline servers so *)
(* that one of them can open a tunnel to the router's ssh port.            *)
(*                                                                         *)
(* main resolves all names, then calls the addresses one after the other;  *)
(* each call (remote) runs an event loop of its own until its future is    *)
(* done.  Three of its phases are raced against a timeout by select2,      *)
(* which polls the socket first.  What happens once the two copies run is  *)
(* CopyWithDeadline; here a tunnel just ends at some time, or does not.    *)
(***************************************************************************)
EXTENDS Integers, Sequences

CONSTANTS Names,           \* LIFELINE1_SERVERS
          Ips,             \* addresses the names may resolve to
          ConnectTimeout,  \* 1 s, for the server and for the local ssh port
          SafetyTimeout,   \* 7800 s
          SleepTime,       \* 1 s
          ReadSize,        \* 1024
          MaxStream,       \* bound on the bytes waiting in the socket
          MaxFaults        \* bound on the event loops and timers that cannot be made

ASSUME NamesAssumption == Names \in Seq(STRING)
ASSUME TimesAssumption == /\ ConnectTimeout \in Nat /\ SafetyTimeout \in Nat
                          /\ SleepTime \in Nat
                          /\ ReadSize \in Nat \ {0}
                          /\ MaxStream \in Nat /\ MaxFaults \in Nat

VARIABLES pc,        \* what the client is waiting for
          next,      \* index of the name to resolve
          queue,     \* addresses still to be called in this round
          target,    \* the address being called, if any
          elapsed,   \* time since the client began to wait
          link,      \* the connection to the server
          arrived,   \* bytes of the server waiting in the socket
          ssh,       \* the connection to the local ssh port
          faults

vars == <<pc, next, queue, target, elapsed, link, arrived, ssh, faults>>

Address == [name : 1 .. Len(Names), ip : Ips]

Link == {"none", "pending", "refused", "up", "closed", "broken"}

TypeOK ==
    /\ pc \in {"down", "resolve", "call", "connect", "wait", "local", "tunnel", "sleep"}
    /\ next \in 1 .. Len(Names) + 1
    /\ queue \in Seq(Address)
    /\ target \in {<<>>} \cup {<<a>> : a \in Address}
    /\ elapsed \in Nat
    /\ link \in Link /\ ssh \in Link
    /\ arrived \in Nat /\ faults \in Nat

Init ==
    /\ pc = "down" /\ next = 1
    /\ queue = <<>> /\ target = <<>>
    /\ elapsed = 0
    /\ link = "none" /\ ssh = "none"
    /\ arrived = 0 /\ faults = 0

-----------------------------------------------------------------------------
\* The client waits for something else: the timeout of that wait starts.
Await(what) == pc' = what /\ elapsed' = 0

Disconnect == /\ target' = <<>>
              /\ link' = "none" /\ ssh' = "none"
              /\ arrived' = 0

\* The future of remote is done: its sockets are dropped and main goes on.
EndCall == /\ Await("call")
           /\ Disconnect
           /\ UNCHANGED <<next, queue, faults>>

\* procd runs the program.
Start ==
    /\ pc = "down"
    /\ Await("resolve")
    /\ next' = 1 /\ queue' = <<>>
    /\ Disconnect
    /\ UNCHANGED faults

\* Timeout::new(..).unwrap() panics, after connecting or before calling the
\* local ssh port: the program ends.
TimerFails ==
    /\ \/ pc = "connect" /\ link \in {"up", "closed"}
       \/ pc = "wait" /\ (arrived > 0 \/ link = "closed")
    /\ faults < MaxFaults /\ faults' = faults + 1
    /\ Await("down")
    /\ queue' = <<>>
    /\ Disconnect
    /\ UNCHANGED next

\* Mutant: the loop over the names goes one too far.
Resolve_OffByOne ==
    /\ pc = "resolve" /\ next <= Len(Names) + 1
    /\ next' = next + 1
    /\ UNCHANGED <<pc, queue, target, elapsed, link, arrived, ssh, faults>>

\* resolve: all addresses of the name go to the queue, none if it fails.
Resolve ==
    /\ pc = "resolve" /\ next <= Len(Names)
    /\ \E found \in {<<>>} \cup {<<ip>> : ip \in Ips} \cup {p \in Ips \X Ips : p[1] # p[2]} :
         queue' = queue \o [i \in DOMAIN found |-> [name |-> next, ip |-> found[i]]]
    /\ next' = next + 1
    /\ UNCHANGED <<pc, target, elapsed, link, arrived, ssh, faults>>

Resolved ==
    /\ pc = "resolve" /\ next > Len(Names)
    /\ Await("call")
    /\ UNCHANGED <<next, queue, target, link, arrived, ssh, faults>>

\* remote begins to connect; or the event loop or the timeout cannot be made and
\* remote returns an error, which is only logged.
Call ==
    /\ pc = "call" /\ queue # <<>>
    /\ queue' = Tail(queue)
    /\ \/ /\ Await("connect")
          /\ target' = <<Head(queue)>>
          /\ link' = "pending"
          /\ UNCHANGED faults
       \/ /\ faults < MaxFaults /\ faults' = faults + 1
          /\ UNCHANGED <<pc, elapsed, target, link>>
    /\ UNCHANGED <<next, arrived, ssh>>

\* The server accepted: the helo is written, perhaps only in part, and the
\* answer awaited (nothing is assumed of what a server makes of it).
Greet ==
    /\ pc = "connect" /\ link \in {"up", "closed"}
    /\ Await("wait")
    /\ UNCHANGED <<next, queue, target, link, arrived, ssh, faults>>

\* The connection was refused or the helo cannot be written.
ConnectFails ==
    /\ pc = "connect" /\ link \in {"refused", "broken"}
    /\ EndCall

\* Mutant: main returns when a call ends without a tunnel.
ConnectTimesOut_Return ==
    /\ pc = "connect" /\ link = "pending" /\ elapsed >= ConnectTimeout
    /\ Await("sleep")
    /\ queue' = <<>>
    /\ Disconnect
    /\ UNCHANGED <<next, faults>>

ConnectTimesOut ==
    /\ pc = "connect" /\ link = "pending" /\ elapsed >= ConnectTimeout
    /\ EndCall

\* The first read takes what is there, at most ReadSize bytes, and forgets it;
\* end-of-file is a read of no bytes.  Then the local ssh port is called.
FirstRead ==
    /\ pc = "wait"
    /\ arrived > 0 \/ link = "closed"
    /\ LET n == IF arrived < ReadSize THEN arrived ELSE ReadSize
       IN  arrived' = arrived - n
    /\ Await("local")
    /\ ssh' = "pending"
    /\ UNCHANGED <<next, queue, target, link, faults>>

ReadFails ==
    /\ pc = "wait" /\ link = "broken" /\ arrived = 0
    /\ EndCall

\* Mutant: there is no timeout beside the keepalive.
SafetyReset_Never ==
    /\ pc = "wait" /\ link = "broken" /\ arrived = 0 /\ elapsed >= SafetyTimeout
    /\ EndCall

\* "additional timeout ... because i don't trust SO_KEEPALIVE"
SafetyReset ==
    /\ pc = "wait" /\ link = "up" /\ arrived = 0 /\ elapsed >= SafetyTimeout
    /\ EndCall

LocalConnected ==
    /\ pc = "local" /\ ssh = "up"
    /\ Await("tunnel")
    /\ UNCHANGED <<next, queue, target, link, arrived, ssh, faults>>

LocalFails ==
    /\ pc = "local"
    /\ ssh = "refused" \/ (ssh = "pending" /\ elapsed >= ConnectTimeout)
    /\ EndCall

\* One of the two copies is done, in whatever way.
TunnelEnds == pc = "tunnel" /\ EndCall

RoundEnds ==
    /\ pc = "call" /\ queue = <<>>
    /\ Await("sleep")
    /\ UNCHANGED <<next, queue, target, link, arrived, ssh, faults>>

\* thread::sleep, and the loop begins again.
NextRound ==
    /\ pc = "sleep" /\ elapsed >= SleepTime
    /\ Await("resolve")
    /\ next' = 1
    /\ UNCHANGED <<queue, target, link, arrived, ssh, faults>>

ClientStep ==
    \/ Start \/ Resolve \/ Resolved \/ Call \/ Greet \/ ConnectFails \/ ConnectTimesOut
    \/ FirstRead \/ ReadFails \/ SafetyReset \/ LocalConnected \/ LocalFails
    \/ RoundEnds \/ NextRound

-----------------------------------------------------------------------------
(* The servers, the local ssh port and the clock. *)

Limit == CASE pc \in {"connect", "local"} -> ConnectTimeout
           [] pc = "wait"  -> SafetyTimeout
           [] pc = "sleep" -> SleepTime
           [] OTHER        -> 0

Tick ==
    /\ elapsed < Limit
    /\ elapsed' = elapsed + 1
    /\ UNCHANGED <<pc, next, queue, target, link, arrived, ssh, faults>>

ServerAnswers ==
    /\ \/ link = "pending" /\ link' \in {"up", "refused"}
       \/ link = "up" /\ link' \in {"closed", "broken"}
    /\ UNCHANGED <<pc, next, queue, target, elapsed, arrived, ssh, faults>>

\* The header, and what follows it, arrive in pieces of any size.
ServerSends ==
    /\ pc = "wait" /\ link = "up"
    /\ \E n \in arrived + 1 .. MaxStream : arrived' = n
    /\ UNCHANGED <<pc, next, queue, target, elapsed, link, ssh, faults>>

SshAnswers ==
    /\ ssh = "pending"
    /\ ssh' \in {"up", "refused"}
    /\ UNCHANGED <<pc, next, queue, target, elapsed, link, arrived, faults>>

Next == ClientStep \/ TunnelEnds \/ TimerFails
        \/ Tick \/ ServerAnswers \/ ServerSends \/ SshAnswers

Spec == Init /\ [][Next]_vars

\* The event loop handles what is ready, resolving a name ends (the resolver has
\* timeouts of its own), procd respawns without limit, and time passes.  Nothing
\* is assumed of the servers, and nothing of a tunnel.
LiveSpec == Spec /\ WF_vars(ClientStep) /\ WF_vars(Tick)

-----------------------------------------------------------------------------
\* main and remote: the router does not get stuck on a server.  Unless a tunnel
\* stays open, new rounds begin again and again, whether servers refuse, answer
\* nothing, accept and stay silent, close early or break the connection.
KeepsCalling == []<>(pc # "tunnel") => []<>(pc = "resolve")

\* main: every address resolved in a round gets its call in that round, however
\* the calls before it ended.
EveryAddressIsCalled ==
    []<>(pc # "tunnel") =>
        \A a \in Address :
            (\E i \in DOMAIN queue : queue[i] = a) /\ faults = MaxFaults ~> target = <<a>>

=============================================================================

-------------------------- MODULE CopyWithDeadline --------------------------
(***************************************************************************)
(* lifeline1/copy.rs: the future that copies one direction of a tunnel,    *)
(* and the task that drives the two copies of a tunnel joined by select2.  *)
(*                                                                         *)
(* The task sleeps until something it registered for happens, then polls   *)
(* the copies in order; each poll checks its timer once and then reads and *)
(* writes until a socket would block.  The clock, the peers and the        *)
(* sockets' buffers go on meanwhile.                                       *)
(*                                                                         *)
(* From tokio-core (external): a timer wakes the task only if it was       *)
(* polled since it was last reset; resetting it drops the registration.    *)
(* From futures (external): polling a timer that could not be created      *)
(* (None) is ready at once.                                                *)
(*                                                                         *)
(* Byte i of a direction's stream is the number i, counted from where the  *)
(* copy begins (behind what remote's first read took).                     *)
(***************************************************************************)
EXTENDS Integers, Sequences

CONSTANTS Copies,    \* the copies of the tunnel, in the order select2 polls them
          BufSize,   \* 2048
          Deadline,  \* 60 seconds
          MaxBytes,  \* bound on the bytes a peer sends, per direction
          MaxRoom,   \* free space of an empty socket buffer
          MaxClock   \* bound on the clock

ASSUME CopiesAssumption == Copies # <<>> /\ Copies \in Seq(STRING)

Dirs == {Copies[i] : i \in DOMAIN Copies}

ASSUME SizesAssumption == /\ BufSize \in Nat \ {0} /\ Deadline \in Nat
                          /\ MaxBytes \in [Dirs -> Nat] /\ MaxRoom \in Nat /\ MaxClock \in Nat

VARIABLES clock,
          sent,   \* per direction: bytes the peer has sent so far
          eof,    \* per direction: the peer has closed its side
          room,   \* per direction: bytes the sink's socket would take
          copy,   \* the CopyWithDeadline of each direction
          out,    \* per direction: the bytes handed to the sink
          last,   \* history: when the copy last read or wrote
          task    \* the task that polls the copies

copyVars == <<clock, sent, eof, room, copy, out, last, task>>

\* consumed counts the bytes taken off the stream; buf[1 .. cap] is what the
\* last read returned, of which pos bytes are written.
Copy == [status     : {"running", "eof", "deadline", "error"},
         readDone   : BOOLEAN,
         consumed   : Nat,
         buf        : Seq(Nat),
         pos        : Nat,
         amt        : Nat,
         timer      : BOOLEAN,   \* FALSE: Timeout::new failed
         when       : Nat,
         registered : BOOLEAN,   \* the timer will wake the task
         parked     : {"no", "read", "write"}]

Task == [pc : {"asleep", "timer", "read", "write", "ended"},
         at : 1 .. Len(Copies)]

CopyTypeOK ==
    /\ clock \in Nat
    /\ sent \in [Dirs -> Nat] /\ eof \in [Dirs -> BOOLEAN] /\ room \in [Dirs -> Nat]
    /\ copy \in [Dirs -> Copy]
    /\ out \in [Dirs -> Seq(Nat)]
    /\ last \in [Dirs -> Nat]
    /\ task \in Task

\* copy_with_deadline, created at time t.
NewCopy(t, timer) ==
    [status |-> "running", readDone |-> FALSE, consumed |-> 0, buf |-> <<>>,
     pos |-> 0, amt |-> 0, timer |-> timer, when |-> t + Deadline,
     registered |-> FALSE, parked |-> "no"]

-----------------------------------------------------------------------------
\* The copy that is being polled.
At == Copies[task.at]

Cap(d) == Len(copy[d].buf)

Available(d) == sent[d] - copy[d].consumed

\* Mutant: traffic does not push the deadline back.
Reset_Never(c) == c

\* timeout.reset: a new deadline, and nobody is registered for it.
Reset(c) == [c EXCEPT !.when = clock + Deadline, !.registered = FALSE]

\* A copy is ready: select2 is done and drops the other copy.
End(d, status) ==
    /\ copy' = [copy EXCEPT ![d].status = status]
    /\ task' = [task EXCEPT !.pc = "ended"]

\* Mutant: select2 goes on to a third copy.
Park_OffByOne(d, on) ==
    /\ copy' = [copy EXCEPT ![d].parked = on]
    /\ task' = IF task.at <= Len(Copies) THEN [pc |-> "timer", at |-> task.at + 1]
                                         ELSE [pc |-> "asleep", at |-> 1]

\* A socket would block: poll returns NotReady and select2 polls the next copy.
Park(d, on) ==
    /\ copy' = [copy EXCEPT ![d].parked = on]
    /\ task' = IF task.at < Len(Copies) THEN [pc |-> "timer", at |-> task.at + 1]
                                        ELSE [pc |-> "asleep", at |-> 1]

Goto(pc) == task' = [task EXCEPT !.pc = pc]

\* What wakes the sleeping task.
WakesTask(d) ==
    \/ copy[d].parked = "read"  /\ (Available(d) > 0 \/ eof[d])
    \/ copy[d].parked = "write" /\ room[d] > 0
    \/ copy[d].registered /\ copy[d].when <= clock

Wake ==
    /\ task.pc = "asleep"
    /\ \E d \in Dirs : WakesTask(d)
    /\ task' = [pc |-> "timer", at |-> 1]
    /\ UNCHANGED <<clock, sent, eof, room, copy, out, last>>

\* Mutant: a deadline that has passed is ignored.
Expired_Ignored(c) == ~c.timer

\* timeout.poll() is Ready.
Expired(c) == ~c.timer \/ c.when <= clock

\* poll begins: the timer.
PollTimer ==
    /\ task.pc = "timer"
    /\ LET d == At
       IN  IF Expired(copy[d])
           THEN End(d, "deadline")
           ELSE /\ copy' = [copy EXCEPT ![d].registered = TRUE, ![d].parked = "no"]
                /\ Goto("read")
    /\ UNCHANGED <<clock, sent, eof, room, out, last>>

\* Mutant: a read that does not fill the buffer counts as the last one.
LastRead_Short(n) == n < BufSize

LastRead(n) == n = 0

\* What a read of n bytes leaves behind; one of none only marks the end.
AfterRead(c, n) ==
    IF n = 0 THEN [Reset(c) EXCEPT !.readDone = LastRead(n)]
             ELSE [Reset(c) EXCEPT !.readDone = LastRead(n), !.pos = 0, !.consumed = @ + n,
                                   !.buf = [i \in 1 .. n |-> c.consumed + i]]

\* The top of the loop: read if the buffer is empty.
PollRead ==
    /\ task.pc = "read"
    /\ LET d == At
           n == IF Available(d) < BufSize THEN Available(d) ELSE BufSize
           mustRead == copy[d].pos = Cap(d) /\ ~copy[d].readDone
       IN  \/ /\ ~mustRead
              /\ Goto("write")
              /\ UNCHANGED <<copy, last>>
           \/ /\ mustRead /\ (n > 0 \/ eof[d])
              /\ copy' = [copy EXCEPT ![d] = AfterRead(@, n)]
              /\ last' = [last EXCEPT ![d] = clock]
              /\ Goto("write")
           \/ /\ mustRead /\ n = 0 /\ ~eof[d]
              /\ Park(d, "read")
              /\ UNCHANGED last
    /\ UNCHANGED <<clock, sent, eof, room, out>>

\* Mutant: the byte that a short write took last is written once more.
Written_Less(c, n) == IF c.pos + n = Len(c.buf) THEN Len(c.buf) ELSE c.pos + n - 1

\* pos after a write that took n bytes
Written(c, n) == c.pos + n

\* What a write of n bytes leaves behind.
AfterWrite(c, n) == [Reset(c) EXCEPT !.pos = Written(c, n), !.amt = @ + n]

\* Mutant: poll returns when the buffer is written, without having found the
\* reader empty.
GoRound_Return(d) == Park(d, "no")

\* The loop starts over.
GoRound(d) == Goto("read") /\ UNCHANGED copy

\* The rest of the loop: write what is in the buffer; at its end either finish
\* (TcpStream::flush does nothing) or go round again.
PollWrite ==
    /\ task.pc = "write"
    /\ LET d == At
           left == Cap(d) - copy[d].pos
           n == IF room[d] < left THEN room[d] ELSE left
       IN  \/ /\ n > 0
              /\ copy' = [copy EXCEPT ![d] = AfterWrite(@, n)]
              /\ out' = [out EXCEPT ![d] = @ \o SubSeq(copy[d].buf, copy[d].pos + 1,
                                                       copy[d].pos + n)]
              /\ room' = [room EXCEPT ![d] = @ - n]
              /\ last' = [last EXCEPT ![d] = clock]
              /\ UNCHANGED task
           \/ /\ left > 0 /\ room[d] = 0
              /\ Park(d, "write")
              /\ UNCHANGED <<room, out, last>>
           \/ /\ left = 0 /\ copy[d].readDone
              /\ End(d, "eof")
              /\ UNCHANGED <<room, out, last>>
           \/ /\ left = 0 /\ ~copy[d].readDone
              /\ GoRound(d)
              /\ UNCHANGED <<room, out, last>>
    /\ UNCHANGED <<clock, sent, eof>>

\* A read or a write fails, or a write takes no byte.
PollFails ==
    /\ task.pc \in {"read", "write"}
    /\ LET d == At
       IN  /\ IF task.pc = "write" THEN copy[d].pos < Cap(d)
                                   ELSE copy[d].pos = Cap(d) /\ ~copy[d].readDone
           /\ End(d, "error")
    /\ UNCHANGED <<clock, sent, eof, room, out, last>>

TaskStep == Wake \/ PollTimer \/ PollRead \/ PollWrite \/ PollFails

-----------------------------------------------------------------------------
(* The peers, the kernel and the clock. *)

Send(d) ==
    /\ ~eof[d] /\ sent[d] < MaxBytes[d]
    /\ sent' = [sent EXCEPT ![d] = @ + 1]
    /\ UNCHANGED <<clock, eof, room, copy, out, last, task>>

Shut(d) ==
    /\ ~eof[d]
    /\ eof' = [eof EXCEPT ![d] = TRUE]
    /\ UNCHANGED <<clock, sent, room, copy, out, last, task>>

Drain(d) ==
    /\ room[d] < MaxRoom
    /\ room' = [room EXCEPT ![d] = @ + 1]
    /\ UNCHANGED <<clock, sent, eof, copy, out, last, task>>

SecondPasses ==
    /\ clock < MaxClock
    /\ clock' = clock + 1
    /\ UNCHANGED <<sent, eof, room, copy, out, last, task>>

\* Once a copy is ready, select2 drops both, and the sockets with them.
PeerStep == /\ task.pc # "ended"
            /\ SecondPasses \/ \E d \in Dirs : Send(d) \/ Shut(d) \/ Drain(d)

=============================================================================

------------------------------- MODULE Tunnel -------------------------------
(***************************************************************************)
(* One tunnel: the two copies of CopyWithDeadline from the moment remote   *)
(* creates them.                                                           *)
(***************************************************************************)
EXTENDS CopyWithDeadline

CONSTANT TimerMayFail    \* whether Timeout::new can fail

ASSUME TimerAssumption == TimerMayFail \in BOOLEAN

TypeOK == CopyTypeOK

Init ==
    /\ clock = 0
    /\ sent = [d \in Dirs |-> 0]
    /\ eof = [d \in Dirs |-> FALSE]
    /\ room = [d \in Dirs |-> MaxRoom]
    /\ \E timer \in [Dirs -> {TRUE, ~TimerMayFail}] :
         copy = [d \in Dirs |-> NewCopy(0, timer[d])]
    /\ out = [d \in Dirs |-> <<>>]
    /\ last = [d \in Dirs |-> 0]
    /\ task = [pc |-> "timer", at |-> 1]

Next == TaskStep \/ PeerStep

Spec == Init /\ [][Next]_copyVars

\* The reactor runs the task whenever it was woken, and time passes.
LiveSpec == /\ Spec
            /\ WF_copyVars(TaskStep)
            /\ WF_copyVars(task.pc # "ended" /\ SecondPasses)

-----------------------------------------------------------------------------
\* CopyWithDeadline::poll: the sink gets the bytes of the stream in order, each
\* once and none left out, however reads and writes are cut up; the future counts
\* exactly the bytes it wrote; and a copy that ends at end-of-file has handed
\* over everything its peer sent.
CopiesInOrder ==
    \A d \in Dirs : /\ \A i \in 1 .. Len(out[d]) : out[d][i] = i
                    /\ copy[d].amt = Len(out[d])
                    /\ copy[d].status = "eof" => eof[d] /\ Len(out[d]) = sent[d]

\* What the tunnel promises, seen from outside.
Pipe == INSTANCE BytePipe
           WITH shut <- eof, delivered <- out,
                state <- [d \in Dirs |-> CASE copy[d].status = "running" -> "open"
                                          [] copy[d].status = "eof" -> "finished"
                                          [] OTHER -> "broken"]

\* copy_with_deadline: "This future will only complete once the reader has hit
\* EOF and all bytes have been written": with the deadline and errors as the
\* only other ends, each direction of the tunnel is a BytePipe, whatever the
\* other direction and the timers do.
ImplementsPipe == Pipe!Spec

\* CopyWithDeadline::poll: the deadline ends a copy only after its direction was
\* idle for the whole deadline; traffic in between pushes it back.
DeadlineMeansIdle ==
    \A d \in Dirs : copy[d].status = "deadline" /\ copy[d].timer =>
        last[d] + Deadline <= clock

\* No wake-up is lost while a copy waits for a socket: again and again the copy
\* has caught up with its peer (a peer pauses: it sends at most MaxBytes), unless
\* the sink takes nothing or the tunnel has ended.
BytesArrive ==
    \A d \in Dirs :
        []<>(Len(out[d]) = sent[d] \/ task.pc = "ended" \/ room[d] = 0)

\* A copy that waits with its timer registered does not wait beyond the
\* deadline: the tunnel ends, or traffic sets the timer anew.  (A timer that was
\* reset after it was polled is not registered, and then ends nothing by itself.)
RegisteredDeadlineEnds ==
    \A d \in Dirs :
        task.pc = "asleep" /\ copy[d].registered /\ copy[d].when <= MaxClock
            ~> task.pc = "ended" \/ ~copy[d].registered

=============================================================================

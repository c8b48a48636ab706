---------------------------- MODULE TunnelProofs ----------------------------
(***************************************************************************)
(* Proofs, for any buffer, deadline and number of bytes, of the safety     *)
(* properties of Tunnel, and that it implements BytePipe.                  *)
(***************************************************************************)
EXTENDS Tunnel, SequenceTheorems, TLAPS

\* The copy that is being polled is one of the tunnel's copies.
LEMMA AtIsDir == TypeOK => At \in Dirs
  BY CopiesAssumption DEF TypeOK, CopyTypeOK, Task, At, Dirs

\* The buffer has room for a byte.
LEMMA SizeTypes == BufSize \in Nat \ {0} /\ Deadline \in Nat /\ MaxRoom \in Nat
  BY SizesAssumption

\* Two copies that were just made are of their types.
LEMMA TypeInit == Init => TypeOK
<1> SUFFICES ASSUME Init PROVE TypeOK
  OBVIOUS
<1>1. copy \in [Dirs -> Copy]
  <2>1. ASSUME NEW b \in BOOLEAN PROVE NewCopy(0, b) \in Copy
    BY SizeTypes DEF NewCopy, Copy
  <2>2. PICK timer \in [Dirs -> {TRUE, ~TimerMayFail}] :
           copy = [d \in Dirs |-> NewCopy(0, timer[d])]
    BY DEF Init
  <2>3. \A d \in Dirs : timer[d] \in BOOLEAN
    BY <2>2
  <2> QED
    BY <2>1, <2>2, <2>3
<1>2. task \in Task
  BY CopiesAssumption DEF Init, Task
<1> QED
  BY <1>1, <1>2, SizeTypes DEF Init, TypeOK, CopyTypeOK

\* A sequence of consecutive numbers, as a read returns them.
LEMMA ReadIsSeq ==
    ASSUME NEW n \in Nat, NEW c \in Nat
    PROVE  /\ [i \in 1 .. n |-> c + i] \in Seq(Nat)
           /\ Len([i \in 1 .. n |-> c + i]) = n
<1>1. [i \in 1 .. n |-> c + i] \in [1 .. n -> Nat]
  OBVIOUS
<1> QED
  BY <1>1, SeqDef

\* n elements of a sequence, behind its first p.
LEMMA PieceOfSeq ==
    ASSUME NEW S, NEW s \in Seq(S), NEW p \in Nat, NEW n \in Nat, p + n <= Len(s)
    PROVE  /\ SubSeq(s, p + 1, p + n) \in Seq(S)
           /\ Len(SubSeq(s, p + 1, p + n)) = n
           /\ \A i \in 1 .. n : SubSeq(s, p + 1, p + n)[i] = s[p + i]
<1>1. Len(s) \in Nat /\ \A i \in 1 .. Len(s) : s[i] \in S
  OBVIOUS
<1>2. p + 1 \in Int /\ p + n \in Int /\ \A i \in p + 1 .. p + n : s[i] \in S
  BY <1>1
<1> QED
  BY <1>2, SubSeqProperties

\* timeout.reset changes nothing but the timer.
LEMMA ResetIsCopy ==
    ASSUME NEW c \in Copy, clock \in Nat
    PROVE  /\ Reset(c) \in Copy
           /\ Reset(c).when = clock + Deadline /\ Reset(c).timer = c.timer
           /\ Reset(c).status = c.status /\ Reset(c).readDone = c.readDone
           /\ Reset(c).consumed = c.consumed /\ Reset(c).buf = c.buf
           /\ Reset(c).pos = c.pos /\ Reset(c).amt = c.amt
<1>1. clock + Deadline \in Nat
  BY SizeTypes
<1>2. ASSUME NEW w \in Nat,
             NEW r, r = [c EXCEPT !.when = w, !.registered = FALSE]
      PROVE  /\ r \in Copy
             /\ r.when = w /\ r.timer = c.timer /\ r.status = c.status
             /\ r.readDone = c.readDone /\ r.consumed = c.consumed /\ r.buf = c.buf
             /\ r.pos = c.pos /\ r.amt = c.amt
  BY <1>2 DEF Copy
<1> QED
  BY <1>1, <1>2 DEF Reset

\* What a read leaves behind.
LEMMA AfterReadIsCopy ==
    ASSUME NEW c \in Copy, clock \in Nat, NEW n \in Nat
    PROVE  /\ AfterRead(c, n) \in Copy
           /\ AfterRead(c, n).when = clock + Deadline /\ AfterRead(c, n).timer = c.timer
           /\ AfterRead(c, n).status = c.status /\ AfterRead(c, n).amt = c.amt
           /\ AfterRead(c, n).readDone <=> n = 0
           /\ AfterRead(c, n).consumed = c.consumed + n
           /\ n = 0 => AfterRead(c, n).buf = c.buf /\ AfterRead(c, n).pos = c.pos
           /\ n > 0 => /\ AfterRead(c, n).buf = [i \in 1 .. n |-> c.consumed + i]
                       /\ AfterRead(c, n).pos = 0
<1> DEFINE r == Reset(c)
<1>1. /\ r \in Copy /\ r.when = clock + Deadline /\ r.timer = c.timer
      /\ r.status = c.status /\ r.consumed = c.consumed
      /\ r.buf = c.buf /\ r.pos = c.pos /\ r.amt = c.amt
  BY ResetIsCopy
<1>2. c.consumed \in Nat
  BY DEF Copy
<1> HIDE DEF r
<1>3. CASE n = 0
  <2>1. AfterRead(c, n) = [r EXCEPT !.readDone = TRUE]
    BY <1>3 DEF AfterRead, LastRead, r
  <2>2. ASSUME NEW a, a = [r EXCEPT !.readDone = TRUE]
        PROVE  /\ a \in Copy /\ a.when = r.when /\ a.timer = r.timer /\ a.status = r.status
               /\ a.amt = r.amt /\ a.readDone /\ a.consumed = r.consumed
               /\ a.buf = r.buf /\ a.pos = r.pos
    BY <1>1, <2>2 DEF Copy
  <2> QED
    BY <1>1, <1>2, <1>3, <2>1, <2>2
<1>4. CASE n > 0
  <2> DEFINE b == [i \in 1 .. n |-> c.consumed + i]
  <2>1. b \in Seq(Nat) /\ c.consumed + n \in Nat
    BY <1>2, ReadIsSeq
  <2>2. AfterRead(c, n) = [r EXCEPT !.readDone = LastRead(n), !.pos = 0, !.consumed = @ + n,
                                    !.buf = b]
    BY <1>4 DEF AfterRead, r
  <2>3. LastRead(n) = FALSE
    BY <1>4 DEF LastRead
  <2> HIDE DEF b
  <2>4. ASSUME NEW a, NEW m \in Nat,
               a = [r EXCEPT !.readDone = FALSE, !.pos = 0, !.consumed = @ + n, !.buf = b],
               m = r.consumed + n
        PROVE  /\ a \in Copy /\ a.when = r.when /\ a.timer = r.timer /\ a.status = r.status
               /\ a.amt = r.amt /\ ~a.readDone /\ a.consumed = m
               /\ a.buf = b /\ a.pos = 0
    BY <1>1, <2>1, <2>4 DEF Copy
  <2>5. AfterRead(c, n).buf = [i \in 1 .. n |-> c.consumed + i]
    BY <1>1, <2>1, <2>2, <2>3, <2>4 DEF b
  <2>6. LET a == AfterRead(c, n)
        IN  /\ a \in Copy /\ a.when = r.when /\ a.timer = r.timer /\ a.status = r.status
            /\ a.amt = r.amt /\ ~a.readDone /\ a.consumed = c.consumed + n /\ a.pos = 0
    BY <1>1, <2>1, <2>2, <2>3, <2>4
  <2> QED
    BY <1>1, <1>4, <2>5, <2>6
<1> QED
  BY <1>3, <1>4

-----------------------------------------------------------------------------
(***************************************************************************)
(* The steps of the task, said in terms of what they do to the copies.     *)
(***************************************************************************)

\* Nothing changed but the status and what a copy waits for.
SameData(c, e) ==
    /\ e.readDone = c.readDone /\ e.consumed = c.consumed /\ e.buf = c.buf
    /\ e.pos = c.pos /\ e.amt = c.amt /\ e.timer = c.timer /\ e.when = c.when

\* A step that copies nothing and ends nothing.
Waits == /\ UNCHANGED <<clock, sent, eof, room, out, last>>
         /\ \A d \in Dirs : SameData(copy[d], copy'[d]) /\ copy'[d].status = copy[d].status
         /\ task'.pc # "ended"

\* One copy ends, and the tunnel with it.
Ends(s) == /\ UNCHANGED <<clock, sent, eof, room, out, last>>
           /\ \A d \in Dirs : /\ SameData(copy[d], copy'[d])
                              /\ d # At => copy'[d].status = copy[d].status
           /\ copy'[At].status = s
           /\ task'.pc = "ended"

\* A read of n bytes, 0 at the end of the stream.
Reads(n) == /\ UNCHANGED <<clock, sent, eof, room, out>>
            /\ copy[At].pos = Cap(At) /\ ~copy[At].readDone
            /\ n <= Available(At) /\ (n = 0 => eof[At] /\ Available(At) = 0)
            /\ copy' = [copy EXCEPT ![At] = AfterRead(@, n)]
            /\ last' = [last EXCEPT ![At] = clock]
            /\ task'.pc # "ended"

\* A write of n bytes.
Writes(n) == /\ UNCHANGED <<clock, sent, eof, task>>
             /\ n > 0 /\ n <= Cap(At) - copy[At].pos
             /\ copy' = [copy EXCEPT ![At] = AfterWrite(@, n)]
             /\ out' = [out EXCEPT ![At] = @ \o SubSeq(copy[At].buf, copy[At].pos + 1,
                                                       copy[At].pos + n)]
             /\ last' = [last EXCEPT ![At] = clock]

\* A write of n bytes moves pos, counts them, and sets the deadline anew (copy.rs,
\* poll).
LEMMA AfterWriteIsCopy ==
    ASSUME NEW c \in Copy, clock \in Nat, NEW n \in Nat
    PROVE  LET a == AfterWrite(c, n)
           IN  /\ a \in Copy
               /\ a.when = clock + Deadline /\ a.timer = c.timer
               /\ a.status = c.status /\ a.amt = c.amt + n
               /\ a.readDone = c.readDone /\ a.consumed = c.consumed
               /\ a.buf = c.buf /\ a.pos = c.pos + n
<1> DEFINE r == Reset(c)
<1>1. /\ r \in Copy /\ r.when = clock + Deadline /\ r.timer = c.timer
      /\ r.status = c.status /\ r.consumed = c.consumed /\ r.readDone = c.readDone
      /\ r.buf = c.buf /\ r.pos = c.pos /\ r.amt = c.amt
  BY ResetIsCopy
<1>2. c.pos \in Nat /\ c.amt \in Nat
  BY DEF Copy
<1> DEFINE p == c.pos + n
<1> DEFINE m == c.amt + n
<1>3. p \in Nat /\ m \in Nat
  BY <1>2
<1>4. AfterWrite(c, n) = [r EXCEPT !.pos = p, !.amt = m]
  BY <1>1 DEF AfterWrite, Written
<1> HIDE DEF r, p, m
<1>5. LET a == AfterWrite(c, n)
      IN  /\ a \in Copy /\ a.when = r.when /\ a.timer = r.timer /\ a.status = r.status
          /\ a.amt = m /\ a.readDone = r.readDone /\ a.consumed = r.consumed
          /\ a.buf = r.buf /\ a.pos = p
  BY <1>1, <1>3, <1>4 DEF Copy
<1> QED
  BY <1>1, <1>5 DEF p, m

\* Parking a copy, or registering its timer, is a wait.
LEMMA ParkWaits ==
    ASSUME TypeOK, NEW on \in {"no", "read", "write"}, Park(At, on),
           UNCHANGED <<clock, sent, eof, room, out, last>>
    PROVE  Waits /\ TypeOK'
<1>1. At \in Dirs /\ copy \in [Dirs -> Copy] /\ task \in Task
  BY AtIsDir DEF TypeOK, CopyTypeOK
<1>2. copy' = [copy EXCEPT ![At].parked = on]
  BY DEF Park
<1>3. copy' \in [Dirs -> Copy]
  BY <1>1, <1>2, ZenonT(60) DEF Copy
<1>4. \A d \in Dirs : SameData(copy[d], copy'[d]) /\ copy'[d].status = copy[d].status
  BY <1>1, <1>2 DEF Copy, SameData
<1>5. task' \in Task /\ task'.pc # "ended"
  BY <1>1, CopiesAssumption DEF Park, Task
<1> QED
  BY <1>3, <1>4, <1>5 DEF Waits, TypeOK, CopyTypeOK

\* Ending a copy changes its status, ends the task and leaves the rest alone.
LEMMA EndEnds ==
    ASSUME TypeOK, NEW s \in {"eof", "deadline", "error"}, End(At, s),
           UNCHANGED <<clock, sent, eof, room, out, last>>
    PROVE  Ends(s) /\ TypeOK'
<1>1. At \in Dirs /\ copy \in [Dirs -> Copy] /\ task \in Task
  BY AtIsDir DEF TypeOK, CopyTypeOK
<1>2. copy' = [copy EXCEPT ![At].status = s]
  BY DEF End
<1>3. copy' \in [Dirs -> Copy]
  BY <1>1, <1>2, ZenonT(60) DEF Copy
<1>4. \A d \in Dirs : /\ SameData(copy[d], copy'[d])
                      /\ d # At => copy'[d].status = copy[d].status
  BY <1>1, <1>2 DEF Copy, SameData
<1>5. copy'[At].status = s
  BY <1>1, <1>2 DEF Copy
<1>6. task' \in Task /\ task'.pc = "ended"
  BY <1>1, CopiesAssumption DEF End, Task
<1>7. Ends(s)
  BY <1>4, <1>5, <1>6 DEF Ends
<1> QED
  BY <1>3, <1>6, <1>7 DEF TypeOK, CopyTypeOK

\* What one step of the system does.
LEMMA StepKinds ==
    ASSUME TypeOK, Next,
           copy[At].consumed <= sent[At], copy[At].pos <= Cap(At)
    PROVE  /\ TypeOK'
           /\ task.pc # "ended"
           /\ \/ Waits
              \/ Ends("deadline") /\ Expired(copy[At])
              \/ Ends("eof") /\ copy[At].readDone /\ copy[At].pos = Cap(At)
              \/ Ends("error")
              \/ \E n \in Nat : Reads(n)
              \/ \E n \in Nat : Writes(n)
              \/ PeerStep
<1>1. /\ At \in Dirs /\ copy \in [Dirs -> Copy] /\ task \in Task /\ clock \in Nat
      /\ sent \in [Dirs -> Nat] /\ eof \in [Dirs -> BOOLEAN] /\ room \in [Dirs -> Nat]
      /\ out \in [Dirs -> Seq(Nat)] /\ last \in [Dirs -> Nat]
  BY AtIsDir DEF TypeOK, CopyTypeOK
<1>2. /\ copy[At] \in Copy /\ copy[At].pos \in Nat /\ copy[At].consumed \in Nat
      /\ copy[At].buf \in Seq(Nat)
  BY <1>1 DEF Copy
<1>3. Cap(At) \in Nat
  BY <1>2 DEF Cap
<1>4. \A s \in {"timer", "read", "write", "ended"} : [task EXCEPT !.pc = s] \in Task
  BY <1>1 DEF Task
<1>5. CASE Wake
  <2>1. task' \in Task /\ task'.pc # "ended"
    BY <1>5, CopiesAssumption DEF Wake, Task
  <2>2. Waits
    BY <1>5, <2>1 DEF Wake, Waits, SameData
  <2> QED
    BY <1>1, <1>5, <2>1, <2>2 DEF Wake, TypeOK, CopyTypeOK
<1>6. CASE PollTimer
  <2>1. CASE Expired(copy[At])
    <3>1. End(At, "deadline") /\ UNCHANGED <<clock, sent, eof, room, out, last>>
      BY <1>6, <2>1 DEF PollTimer
    <3> QED
      BY <1>6, <2>1, <3>1, EndEnds DEF PollTimer
  <2>2. CASE ~Expired(copy[At])
    <3>1. /\ copy' = [copy EXCEPT ![At].registered = TRUE, ![At].parked = "no"]
          /\ task' = [task EXCEPT !.pc = "read"]
          /\ UNCHANGED <<clock, sent, eof, room, out, last>>
      BY <1>6, <2>2 DEF PollTimer, Goto
    <3>2. ASSUME NEW c \in Copy, NEW e, e = [c EXCEPT !.registered = TRUE, !.parked = "no"]
          PROVE  e \in Copy /\ SameData(c, e) /\ e.status = c.status
      BY <3>2 DEF Copy, SameData
    <3>3. /\ copy' \in [Dirs -> Copy]
          /\ \A d \in Dirs : SameData(copy[d], copy'[d]) /\ copy'[d].status = copy[d].status
      <4>1. copy' = [copy EXCEPT ![At] = [copy[At] EXCEPT !.registered = TRUE, !.parked = "no"]]
        BY <1>1, <3>1
      <4>2. copy'[At] = [copy[At] EXCEPT !.registered = TRUE, !.parked = "no"]
        BY <1>1, <4>1
      <4>3. /\ copy'[At] \in Copy /\ SameData(copy[At], copy'[At])
            /\ copy'[At].status = copy[At].status
        BY <1>2, <3>2, <4>2
      <4>4. \A d \in Dirs : d # At => copy'[d] = copy[d]
        BY <1>1, <4>1
      <4>5. copy' = [d \in Dirs |-> copy'[d]]
        BY <1>1, <4>1
      <4> QED
        BY <1>1, <4>3, <4>4, <4>5 DEF SameData
    <3>4. task' \in Task /\ task'.pc # "ended"
      BY <1>1, <1>4, <3>1 DEF Task
    <3>5. Waits
      BY <3>1, <3>3, <3>4 DEF Waits
    <3> QED
      BY <1>1, <1>6, <3>1, <3>3, <3>4, <3>5 DEF PollTimer, TypeOK, CopyTypeOK
  <2> QED
    BY <2>1, <2>2
<1>7. CASE PollRead
  <2> DEFINE n == IF Available(At) < BufSize THEN Available(At) ELSE BufSize
  <2> DEFINE mustRead == copy[At].pos = Cap(At) /\ ~copy[At].readDone
  <2>0. task.pc = "read" /\ UNCHANGED <<clock, sent, eof, room, out>>
    BY <1>7 DEF PollRead
  <2>1. CASE Goto("write") /\ UNCHANGED <<copy, last>>
    <3>1. task' \in Task /\ task'.pc # "ended"
      BY <1>1, <1>4, <2>1 DEF Goto, Task
    <3>2. Waits
      BY <2>0, <2>1, <3>1 DEF Waits, SameData
    <3> QED
      BY <1>1, <2>0, <2>1, <3>1, <3>2 DEF TypeOK, CopyTypeOK
  <2>2. CASE /\ mustRead /\ (n > 0 \/ eof[At])
             /\ copy' = [copy EXCEPT ![At] = AfterRead(@, n)]
             /\ last' = [last EXCEPT ![At] = clock]
             /\ Goto("write")
    <3>1. n \in Nat /\ n <= Available(At) /\ (n = 0 => Available(At) = 0)
      BY <1>1, <1>2, SizeTypes DEF Available
    <3>2. task' \in Task /\ task'.pc # "ended"
      BY <1>1, <1>4, <2>2 DEF Goto, Task
    <3>3. Reads(n)
      BY <2>0, <2>2, <3>1, <3>2 DEF Reads
    <3>4. AfterRead(copy[At], n) \in Copy
      BY <1>1, <1>2, <3>1, AfterReadIsCopy
    <3> HIDE DEF n
    <3>5. copy' \in [Dirs -> Copy] /\ last' \in [Dirs -> Nat]
      BY <1>1, <2>2, <3>4
    <3> QED
      BY <1>1, <2>0, <3>1, <3>2, <3>3, <3>5 DEF TypeOK, CopyTypeOK
  <2>3. CASE Park(At, "read") /\ UNCHANGED last
    BY <2>0, <2>3, ParkWaits
  <2> QED
    BY <1>7, <2>1, <2>2, <2>3 DEF PollRead
<1>8. CASE PollWrite
  <2> DEFINE left == Cap(At) - copy[At].pos
  <2> DEFINE n == IF room[At] < left THEN room[At] ELSE left
  <2>0. task.pc = "write" /\ UNCHANGED <<clock, sent, eof>>
    BY <1>8 DEF PollWrite
  <2>1. left \in Nat /\ n \in Nat /\ n <= left
    BY <1>1, <1>2, <1>3
  <2>2. CASE /\ n > 0
             /\ copy' = [copy EXCEPT ![At] = AfterWrite(@, n)]
             /\ out' = [out EXCEPT ![At] = @ \o SubSeq(copy[At].buf, copy[At].pos + 1,
                                                       copy[At].pos + n)]
             /\ room' = [room EXCEPT ![At] = @ - n]
             /\ last' = [last EXCEPT ![At] = clock]
             /\ UNCHANGED task
    <3>2. AfterWrite(copy[At], n) \in Copy
      BY <1>1, <1>2, <2>1, AfterWriteIsCopy
    <3>3. Writes(n)
      BY <2>0, <2>1, <2>2 DEF Writes
    <3>4. room[At] - n \in Nat
      BY <1>1, <1>2, <1>3
    <3> DEFINE piece == SubSeq(copy[At].buf, copy[At].pos + 1, copy[At].pos + n)
    <3>5. out[At] \o piece \in Seq(Nat)
      <4>1. piece \in Seq(Nat)
        <5>1. copy[At].pos + n <= Len(copy[At].buf)
          BY <1>2, <1>3, <2>1 DEF Cap
        <5> HIDE DEF n
        <5> QED
          BY <1>2, <2>1, <5>1, PieceOfSeq
      <4> QED
        BY <1>1, <4>1, ConcatProperties
    <3> HIDE DEF n, piece
    <3>6. copy' \in [Dirs -> Copy]
      BY <1>1, <2>2, <3>2
    <3>7. out' \in [Dirs -> Seq(Nat)]
      BY <1>1, <2>2, <3>5 DEF piece
    <3>8. room' \in [Dirs -> Nat] /\ last' \in [Dirs -> Nat]
      BY <1>1, <2>2, <3>4
    <3> QED
      BY <1>1, <2>0, <2>1, <2>2, <3>3, <3>6, <3>7, <3>8 DEF TypeOK, CopyTypeOK
  <2>3. CASE Park(At, "write") /\ UNCHANGED <<room, out, last>>
    BY <2>0, <2>3, ParkWaits
  <2>4. CASE /\ left = 0 /\ copy[At].readDone
             /\ End(At, "eof") /\ UNCHANGED <<room, out, last>>
    BY <1>2, <1>3, <2>0, <2>4, EndEnds
  <2>5. CASE GoRound(At) /\ UNCHANGED <<room, out, last>>
    <3>1. task' \in Task /\ task'.pc # "ended"
      BY <1>1, <1>4, <2>5 DEF GoRound, Goto, Task
    <3>2. Waits
      BY <2>0, <2>5, <3>1 DEF Waits, SameData, GoRound
    <3> QED
      BY <1>1, <2>0, <2>5, <3>1, <3>2 DEF TypeOK, CopyTypeOK, GoRound
  <2> QED
    BY <1>8, <2>2, <2>3, <2>4, <2>5 DEF PollWrite
<1>9. CASE PollFails
  BY <1>9, EndEnds DEF PollFails
<1>10. CASE PeerStep
  <2>1. CASE SecondPasses
    BY <1>1, <1>10, <2>1 DEF PeerStep, SecondPasses, TypeOK, CopyTypeOK
  <2>2. ASSUME NEW d \in Dirs, Send(d)
        PROVE  TypeOK'
    BY <1>1, <2>2 DEF Send, TypeOK, CopyTypeOK
  <2>3. ASSUME NEW d \in Dirs, Shut(d)
        PROVE  TypeOK'
    BY <1>1, <2>3 DEF Shut, TypeOK, CopyTypeOK
  <2>4. ASSUME NEW d \in Dirs, Drain(d)
        PROVE  TypeOK'
    BY <1>1, <2>4 DEF Drain, TypeOK, CopyTypeOK
  <2> QED
    BY <1>10, <2>1, <2>2, <2>3, <2>4 DEF PeerStep
<1> QED
  BY <1>5, <1>6, <1>7, <1>8, <1>9, <1>10 DEF Next, TaskStep

-----------------------------------------------------------------------------
(***************************************************************************)
(* The inductive invariant.                                                *)
(***************************************************************************)

\* The elements of q are the numbers from k + 1 on.
Counts(q, k) == \A i \in 1 .. Len(q) : q[i] = k + i

\* A copy c of a stream of which s bytes were sent (all of them if e) and o was
\* handed over: the buffer holds the last bytes that were read, and all that was
\* read and is not left in the buffer was written.
Stream(c, s, e, o) ==
    /\ c.consumed <= s /\ Len(c.buf) <= c.consumed /\ c.pos <= Len(c.buf)
    /\ Counts(c.buf, c.consumed - Len(c.buf))
    /\ Len(o) = c.consumed - Len(c.buf) + c.pos
    /\ Counts(o, 0)
    /\ c.amt = Len(o)
    /\ c.readDone => e /\ c.consumed = s
    /\ c.status = "eof" => c.readDone /\ c.pos = Len(c.buf)

\* Every copy is at its place in its stream.
StreamInv == \A d \in Dirs : Stream(copy[d], sent[d], eof[d], out[d])

\* The deadline is counted from the last traffic, and only a timer that is due
\* ends a copy with it.
TimerInv ==
    \A d \in Dirs :
        /\ copy[d].when = last[d] + Deadline
        /\ copy[d].status = "deadline" /\ copy[d].timer => copy[d].when <= clock

\* A copy that is ready ends the task.
EndInv == \A d \in Dirs : copy[d].status # "running" => task.pc = "ended"

\* The inductive invariant.
IInv == TypeOK /\ StreamInv /\ TimerInv /\ EndInv

\* A new tunnel has copied nothing and its deadline is a full one away.
LEMMA InvInit == Init => IInv
<1> SUFFICES ASSUME Init PROVE IInv
  OBVIOUS
<1>1. TypeOK
  BY TypeInit
<1>2. PICK timer \in [Dirs -> {TRUE, ~TimerMayFail}] :
         copy = [d \in Dirs |-> NewCopy(0, timer[d])]
  BY DEF Init
<1>3. ASSUME NEW d \in Dirs
      PROVE  /\ copy[d].consumed = 0 /\ copy[d].buf = <<>> /\ copy[d].pos = 0
             /\ copy[d].amt = 0 /\ copy[d].readDone = FALSE /\ copy[d].status = "running"
             /\ copy[d].when = 0 + Deadline
  BY <1>2 DEF NewCopy
<1>4. ASSUME NEW d \in Dirs PROVE Stream(copy[d], sent[d], eof[d], out[d])
  <2>1. out[d] = <<>> /\ sent[d] = 0 /\ Len(<<>>) = 0
    BY DEF Init
  <2>2. ASSUME NEW c, NEW o, o = <<>>, c.consumed = 0, c.buf = <<>>, c.pos = 0, c.amt = 0,
               c.readDone = FALSE, c.status = "running", NEW f
        PROVE  Stream(c, 0, f, o)
    <3>1. Len(<<>>) = 0 /\ Counts(o, 0) /\ Counts(c.buf, 0)
      BY <2>2 DEF Counts
    <3>2. Len(c.buf) = 0 /\ Len(o) = 0
      BY <2>2, <3>1, Zenon
    <3>3. 0 - 0 = 0 /\ 0 + 0 = 0 /\ 0 <= 0
      OBVIOUS
    <3> QED
      BY <2>2, <3>1, <3>2, <3>3, Zenon DEF Stream
  <2> QED
    BY <1>3, <2>1, <2>2
<1>5. TimerInv
  BY <1>3, SizeTypes DEF Init, TimerInv
<1>6. EndInv
  BY <1>3 DEF EndInv
<1> QED
  BY <1>1, <1>4, <1>5, <1>6 DEF IInv, StreamInv

\* A copy that changes no data keeps its place in the stream.
LEMMA StreamKept ==
    ASSUME NEW c, NEW e, NEW s, NEW f, NEW o, Stream(c, s, f, o),
           SameData(c, e), e.status = "eof" => c.readDone /\ c.pos = Len(c.buf)
    PROVE  Stream(e, s, f, o)
  BY DEF Stream, SameData

\* A read into the empty buffer takes the next bytes of the stream, or finds its end.
LEMMA StreamRead ==
    ASSUME NEW c \in Copy, NEW s \in Nat, NEW f \in BOOLEAN, NEW o \in Seq(Nat),
           Stream(c, s, f, o), clock \in Nat, NEW n \in Nat,
           c.pos = Len(c.buf), ~c.readDone, n <= s - c.consumed,
           n = 0 => f /\ s - c.consumed = 0
    PROVE  Stream(AfterRead(c, n), s, f, o)
<1> DEFINE a == AfterRead(c, n)
<1>1. /\ a.status = c.status /\ a.amt = c.amt /\ (a.readDone <=> n = 0)
      /\ a.consumed = c.consumed + n
      /\ n = 0 => a.buf = c.buf /\ a.pos = c.pos
      /\ n > 0 => a.buf = [i \in 1 .. n |-> c.consumed + i] /\ a.pos = 0
  BY AfterReadIsCopy
<1>2. /\ c.consumed \in Nat /\ c.pos \in Nat /\ c.amt \in Nat /\ c.buf \in Seq(Nat)
      /\ Len(c.buf) \in Nat
  BY DEF Copy
<1>3. c.status # "eof"
  BY DEF Stream
<1> HIDE DEF a
<1>4. CASE n = 0
  <2>1. a.consumed = c.consumed /\ a.buf = c.buf /\ a.pos = c.pos
    BY <1>1, <1>2, <1>4
  <2>2. f /\ c.consumed = s
    BY <1>2, <1>4
  <2> QED
    BY <1>1, <1>3, <2>1, <2>2 DEF Stream, a
<1>5. CASE n > 0
  <2>1. a.buf = [i \in 1 .. n |-> c.consumed + i] /\ Len(a.buf) = n /\ a.pos = 0 /\ ~a.readDone
    BY <1>1, <1>2, <1>5, ReadIsSeq
  <2>2. Counts(a.buf, a.consumed - Len(a.buf))
    BY <1>1, <1>2, <2>1 DEF Counts
  <2>3. /\ a.consumed <= s /\ Len(a.buf) <= a.consumed /\ a.pos <= Len(a.buf)
        /\ Len(o) = a.consumed - Len(a.buf) + a.pos
    BY <1>1, <1>2, <1>5, <2>1, SMTT(60) DEF Stream
  <2> QED
    BY <1>1, <1>3, <2>1, <2>2, <2>3 DEF Stream, a
<1> QED
  BY <1>4, <1>5

\* Writing the next n bytes of the buffer b, of which p are written, keeps what
\* was handed over in order.
LEMMA WriteExtends ==
    ASSUME NEW o \in Seq(Nat), NEW b \in Seq(Nat), NEW k \in Nat, NEW p \in Nat, NEW n \in Nat,
           p + n <= Len(b), Len(o) = k - Len(b) + p, Counts(o, 0), Counts(b, k - Len(b))
    PROVE  /\ Len(o \o SubSeq(b, p + 1, p + n)) = Len(o) + n
           /\ Counts(o \o SubSeq(b, p + 1, p + n), 0)
<1> DEFINE piece == SubSeq(b, p + 1, p + n)
           w == o \o piece
<1>1. /\ piece \in Seq(Nat) /\ Len(piece) = n
      /\ \A i \in 1 .. n : piece[i] = b[p + i]
  BY PieceOfSeq
<1>2. w = o \o piece
  OBVIOUS
<1> HIDE DEF piece, w
<1>3. /\ Len(w) = Len(o) + n
      /\ \A i \in 1 .. Len(o) + n : w[i] = IF i <= Len(o) THEN o[i] ELSE piece[i - Len(o)]
  <2>1. /\ Len(o \o piece) = Len(o) + Len(piece)
        /\ \A i \in 1 .. Len(o) + Len(piece) :
              (o \o piece)[i] = IF i <= Len(o) THEN o[i] ELSE piece[i - Len(o)]
    BY <1>1, ConcatProperties
  <2> QED
    BY <1>1, <1>2, <2>1, Zenon
<1>4. Len(o) \in Nat /\ Len(b) \in Nat
  OBVIOUS
<1>5. ASSUME NEW i \in 1 .. Len(o) + n PROVE w[i] = 0 + i
  <2>1. CASE i <= Len(o)
    BY <1>3, <1>4, <2>1, SMTT(60) DEF Counts
  <2>2. CASE i > Len(o)
    <3> DEFINE j == i - Len(o)
    <3>1. j \in 1 .. n
      BY <1>4, <2>2
    <3>2. w[i] = piece[j]
      BY <1>3, <1>4, <2>2
    <3>3. p + j \in 1 .. Len(b)
      BY <1>4, <3>1
    <3>4. w[i] = b[p + j]
      BY <1>1, <3>1, <3>2
    <3>5. w[i] = k - Len(b) + (p + j)
      BY <3>3, <3>4 DEF Counts
    <3> QED
      BY <1>4, <3>5
  <2> QED
    BY <1>4, <2>1, <2>2
<1>6. Counts(w, 0)
  BY <1>3, <1>5 DEF Counts
<1> QED
  BY <1>3, <1>6 DEF piece, w

\* A write, be it of a part of the buffer, appends the next bytes to what went out.
LEMMA StreamWrite ==
    ASSUME NEW c \in Copy, NEW s \in Nat, NEW f \in BOOLEAN, NEW o \in Seq(Nat),
           Stream(c, s, f, o), clock \in Nat, NEW n \in Nat, n > 0,
           n <= Len(c.buf) - c.pos
    PROVE  Stream(AfterWrite(c, n), s, f, o \o SubSeq(c.buf, c.pos + 1, c.pos + n))
<1> DEFINE a == AfterWrite(c, n)
           w == o \o SubSeq(c.buf, c.pos + 1, c.pos + n)
<1>1. /\ a.status = c.status /\ a.amt = c.amt + n /\ a.readDone = c.readDone
      /\ a.consumed = c.consumed /\ a.buf = c.buf /\ a.pos = c.pos + n
  BY AfterWriteIsCopy
<1> DEFINE k == c.consumed
           p == c.pos
           b == c.buf
<1>2. k \in Nat /\ p \in Nat /\ b \in Seq(Nat)
  BY DEF Copy
<1>3. /\ Len(o) = k - Len(b) + p
      /\ Counts(o, 0) /\ Counts(b, k - Len(b))
      /\ c.amt = Len(o) /\ (c.status = "eof" => p = Len(b))
      /\ n <= Len(b) - p /\ w = o \o SubSeq(b, p + 1, p + n)
  BY DEF Stream
<1>4. a.consumed = k /\ a.buf = b /\ a.pos = p + n
  BY <1>1
<1> HIDE DEF a, w, k, p, b
<1>5. Len(b) \in Nat /\ Len(o) \in Nat /\ p + n <= Len(b) /\ c.status # "eof"
  BY <1>2, <1>3
<1>6. Len(w) = Len(o) + n /\ Counts(w, 0)
  <2>1. /\ p + n <= Len(b) /\ Len(o) = k - Len(b) + p /\ Counts(o, 0) /\ Counts(b, k - Len(b))
    BY <1>3, <1>5
  <2>2. /\ Len(o \o SubSeq(b, p + 1, p + n)) = Len(o) + n
        /\ Counts(o \o SubSeq(b, p + 1, p + n), 0)
    BY <1>2, <2>1, WriteExtends
  <2> QED
    BY <1>3, <2>2, Zenon
<1>7. a.pos <= Len(a.buf) /\ Len(w) = a.consumed - Len(a.buf) + a.pos /\ a.amt = Len(w)
  <2>1. Len(w) = k - Len(b) + (p + n)
    BY <1>2, <1>3, <1>5, <1>6
  <2> QED
    BY <1>1, <1>3, <1>4, <1>5, <1>6, <2>1
<1>8. /\ a.consumed <= s /\ Len(a.buf) <= a.consumed /\ (a.readDone => f /\ a.consumed = s)
      /\ Counts(a.buf, a.consumed - Len(a.buf))
  BY <1>1 DEF Stream
<1>9. Stream(a, s, f, w)
  BY <1>1, <1>5, <1>6, <1>7, <1>8 DEF Stream
<1> QED
  BY <1>9 DEF a, w

\* Every step of the task and of its peers keeps the invariant.
LEMMA InvStep == IInv /\ [Next]_copyVars => IInv'
<1> SUFFICES ASSUME IInv, [Next]_copyVars PROVE IInv'
  OBVIOUS
<1>1. /\ TypeOK /\ At \in Dirs /\ copy \in [Dirs -> Copy] /\ clock \in Nat
      /\ sent \in [Dirs -> Nat] /\ eof \in [Dirs -> BOOLEAN]
      /\ out \in [Dirs -> Seq(Nat)] /\ last \in [Dirs -> Nat]
  BY AtIsDir DEF IInv, TypeOK, CopyTypeOK
<1>2. CASE UNCHANGED copyVars
  BY <1>2 DEF IInv, TypeOK, CopyTypeOK, StreamInv, TimerInv, EndInv, copyVars, Cap
<1>3. CASE Next
  <2>1. \A d \in Dirs : Stream(copy[d], sent[d], eof[d], out[d])
    BY DEF IInv, StreamInv
  <2>2. copy[At].consumed <= sent[At] /\ copy[At].pos <= Cap(At)
    BY <1>1, <2>1 DEF Stream, Cap
  <2>3. /\ TypeOK' /\ task.pc # "ended"
        /\ \/ Waits
           \/ Ends("deadline") /\ Expired(copy[At])
           \/ Ends("eof") /\ copy[At].readDone /\ copy[At].pos = Cap(At)
           \/ Ends("error")
           \/ \E n \in Nat : Reads(n)
           \/ \E n \in Nat : Writes(n)
           \/ PeerStep
    BY <1>1, <1>3, <2>2, StepKinds
  <2>4. \A d \in Dirs : copy[d].status = "running"
    BY <2>3 DEF IInv, EndInv
  <2>5. \A d \in Dirs : copy[d].when = last[d] + Deadline
    BY DEF IInv, TimerInv
  <2>6. CASE Waits
    <3>1. StreamInv'
      BY <2>1, <2>4, <2>6, StreamKept DEF Waits, StreamInv
    <3>2. TimerInv'
      BY <2>4, <2>5, <2>6 DEF Waits, SameData, TimerInv
    <3>3. EndInv'
      BY <2>4, <2>6 DEF Waits, EndInv
    <3> QED
      BY <2>3, <3>1, <3>2, <3>3 DEF IInv
  <2>7. ASSUME NEW s \in {"deadline", "eof", "error"}, Ends(s),
               s = "deadline" => Expired(copy[At]),
               s = "eof" => copy[At].readDone /\ copy[At].pos = Cap(At)
        PROVE  IInv'
    <3>1. StreamInv'
      <4> SUFFICES ASSUME NEW d \in Dirs
                   PROVE  Stream(copy'[d], sent[d], eof[d], out[d])
        BY <2>7 DEF Ends, StreamInv
      <4>1. SameData(copy[d], copy'[d])
        BY <2>7 DEF Ends
      <4>2. copy'[d].status = "eof" => copy[d].readDone /\ copy[d].pos = Len(copy[d].buf)
        BY <2>4, <2>7 DEF Ends, Cap
      <4> QED
        BY <2>1, <4>1, <4>2, StreamKept
    <3>2. TimerInv'
      <4> SUFFICES ASSUME NEW d \in Dirs
                   PROVE  /\ copy'[d].when = last[d] + Deadline
                          /\ copy'[d].status = "deadline" /\ copy'[d].timer
                                => copy'[d].when <= clock
        BY <2>7 DEF Ends, TimerInv
      <4>1. copy'[d].when = copy[d].when /\ copy'[d].timer = copy[d].timer
        BY <2>7 DEF Ends, SameData
      <4>2. copy'[d].status = "deadline" => d = At /\ s = "deadline"
        BY <2>4, <2>7 DEF Ends
      <4> QED
        BY <2>5, <2>7, <4>1, <4>2 DEF Expired
    <3>3. EndInv'
      BY <2>7 DEF Ends, EndInv
    <3> QED
      BY <2>3, <3>1, <3>2, <3>3 DEF IInv
  <2>8. ASSUME NEW n \in Nat, Reads(n)
        PROVE  IInv'
    <3> DEFINE a == AfterRead(copy[At], n)
    <3>1. /\ copy'[At] = a /\ last'[At] = clock
          /\ \A d \in Dirs : d # At => copy'[d] = copy[d] /\ last'[d] = last[d]
          /\ UNCHANGED <<clock, sent, eof, out>>
      BY <1>1, <2>8 DEF Reads
    <3>2. copy[At] \in Copy /\ Stream(copy[At], sent[At], eof[At], out[At])
      BY <1>1, <2>1
    <3>3. a.when = clock + Deadline /\ a.status = copy[At].status
      BY <1>1, <3>2, AfterReadIsCopy
    <3>4. Stream(a, sent[At], eof[At], out[At])
      <4>1. /\ sent[At] \in Nat /\ eof[At] \in BOOLEAN /\ out[At] \in Seq(Nat)
            /\ copy[At].pos = Len(copy[At].buf) /\ ~copy[At].readDone
            /\ n <= sent[At] - copy[At].consumed
            /\ n = 0 => eof[At] /\ sent[At] - copy[At].consumed = 0
        BY <1>1, <2>8 DEF Reads, Cap, Available
      <4> QED
        BY <1>1, <3>2, <4>1, StreamRead
    <3> HIDE DEF a
    <3>5. StreamInv'
      BY <1>1, <2>1, <3>1, <3>4 DEF StreamInv
    <3>6. TimerInv'
      BY <1>1, <2>4, <2>5, <3>1, <3>3 DEF TimerInv
    <3>7. EndInv'
      BY <1>1, <2>4, <3>1, <3>3 DEF EndInv
    <3> QED
      BY <2>3, <3>5, <3>6, <3>7 DEF IInv
  <2>9. ASSUME NEW n \in Nat, Writes(n)
        PROVE  IInv'
    <3> DEFINE a == AfterWrite(copy[At], n)
               w == out[At] \o SubSeq(copy[At].buf, copy[At].pos + 1, copy[At].pos + n)
    <3>1. /\ copy'[At] = a /\ last'[At] = clock /\ out'[At] = w
          /\ \A d \in Dirs : d # At => /\ copy'[d] = copy[d] /\ last'[d] = last[d]
                                       /\ out'[d] = out[d]
          /\ UNCHANGED <<clock, sent, eof>>
      BY <1>1, <2>9 DEF Writes
    <3>2. copy[At] \in Copy /\ Stream(copy[At], sent[At], eof[At], out[At])
      BY <1>1, <2>1
    <3>3. a.when = clock + Deadline /\ a.status = copy[At].status
      BY <1>1, <3>2, AfterWriteIsCopy
    <3>4. Stream(a, sent[At], eof[At], w)
      <4>1. /\ sent[At] \in Nat /\ eof[At] \in BOOLEAN /\ out[At] \in Seq(Nat)
            /\ n > 0 /\ n <= Len(copy[At].buf) - copy[At].pos
        BY <1>1, <2>9 DEF Writes, Cap
      <4> QED
        BY <1>1, <3>2, <4>1, StreamWrite
    <3> HIDE DEF a, w
    <3>5. StreamInv'
      BY <1>1, <2>1, <3>1, <3>4 DEF StreamInv
    <3>6. TimerInv'
      BY <1>1, <2>4, <2>5, <3>1, <3>3 DEF TimerInv
    <3>7. EndInv'
      BY <1>1, <2>4, <3>1, <3>3 DEF EndInv
    <3> QED
      BY <2>3, <3>5, <3>6, <3>7 DEF IInv
  <2>10. CASE PeerStep
    <3>1. UNCHANGED <<out, copy, last>>
      BY <2>10 DEF PeerStep, SecondPasses, Send, Shut, Drain
    <3>2. EndInv' /\ TimerInv'
      BY <2>4, <2>5, <3>1 DEF EndInv, TimerInv
    <3>3. ASSUME NEW d \in Dirs
          PROVE  Stream(copy[d], sent'[d], eof'[d], out[d])
      <4>1. /\ sent'[d] >= sent[d] /\ (eof[d] => eof'[d] /\ sent'[d] = sent[d])
        <5>1. CASE SecondPasses
          BY <1>1, <5>1 DEF SecondPasses
        <5>2. ASSUME NEW e \in Dirs, Send(e)
              PROVE  sent'[d] >= sent[d] /\ (eof[d] => eof'[d] /\ sent'[d] = sent[d])
          <6>1. /\ ~eof[e] /\ eof' = eof /\ sent'[e] = sent[e] + 1 /\ (d # e => sent'[d] = sent[d])
            BY <1>1, <5>2 DEF Send
          <6> QED
            BY <1>1, <6>1
        <5>3. ASSUME NEW e \in Dirs, Shut(e)
              PROVE  sent'[d] >= sent[d] /\ (eof[d] => eof'[d] /\ sent'[d] = sent[d])
          BY <1>1, <5>3 DEF Shut
        <5>4. ASSUME NEW e \in Dirs, Drain(e)
              PROVE  sent'[d] >= sent[d] /\ (eof[d] => eof'[d] /\ sent'[d] = sent[d])
          BY <1>1, <5>4 DEF Drain
        <5> QED
          BY <2>10, <5>1, <5>2, <5>3, <5>4 DEF PeerStep
      <4>2. sent'[d] \in Nat /\ copy[d].consumed \in Nat
        BY <1>1, <2>3 DEF TypeOK, CopyTypeOK, Copy
      <4> QED
        BY <1>1, <2>1, <4>1, <4>2 DEF Stream
    <3> QED
      BY <2>3, <3>1, <3>2, <3>3 DEF IInv, StreamInv
  <2> QED
    BY <2>3, <2>6, <2>7, <2>8, <2>9, <2>10
<1> QED
  BY <1>2, <1>3

\* The invariant holds in every state.
LEMMA Invariance == Spec => []IInv
  BY InvInit, InvStep, PTL DEF Spec

\* CopyWithDeadline: its buffer, positions, counters and timers keep their types
\* and the task only ever polls a copy there is, for tunnels of any number of
\* copies.
THEOREM TypeCorrect == Spec => []TypeOK
<1>1. IInv => TypeOK
  BY DEF IInv
<1> QED
  BY Invariance, <1>1, PTL

\* CopyWithDeadline::poll: whatever the size of the buffer and however reads and
\* writes are cut up, the sink gets every byte once and in order, and all of them
\* before the copy ends at end-of-file.
THEOREM InOrder == Spec => []CopiesInOrder
<1>1. ASSUME IInv, NEW d \in Dirs
      PROVE  /\ \A i \in 1 .. Len(out[d]) : out[d][i] = i
             /\ copy[d].amt = Len(out[d])
             /\ copy[d].status = "eof" => eof[d] /\ Len(out[d]) = sent[d]
  <2>1. /\ Stream(copy[d], sent[d], eof[d], out[d]) /\ copy[d] \in Copy
        /\ out[d] \in Seq(Nat) /\ sent[d] \in Nat
    BY <1>1 DEF IInv, StreamInv, TypeOK, CopyTypeOK
  <2>2. \A i \in 1 .. Len(out[d]) : out[d][i] = i
    BY <2>1 DEF Stream, Counts
  <2>3. copy[d].consumed \in Nat /\ Len(copy[d].buf) \in Nat
    BY <2>1 DEF Copy
  <2>4. copy[d].status = "eof" => Len(out[d]) = sent[d]
    <3> SUFFICES ASSUME copy[d].status = "eof" PROVE Len(out[d]) = sent[d]
      OBVIOUS
    <3>1. /\ copy[d].pos = Len(copy[d].buf) /\ copy[d].consumed = sent[d]
          /\ Len(out[d]) = copy[d].consumed - Len(copy[d].buf) + copy[d].pos
      BY <2>1 DEF Stream
    <3> QED
      BY <2>1, <2>3, <3>1
  <2> QED
    BY <2>1, <2>2, <2>4 DEF Stream
<1>2. IInv => CopiesInOrder
  BY <1>1 DEF CopiesInOrder
<1> QED
  BY Invariance, <1>2, PTL

\* CopyWithDeadline::poll: for any deadline, a copy whose timer could be created
\* ends at the deadline only when nothing was read or written for that long.
THEOREM IdleAtDeadline == Spec => []DeadlineMeansIdle
<1>1. IInv => DeadlineMeansIdle
  BY DEF IInv, TimerInv, DeadlineMeansIdle
<1> QED
  BY Invariance, <1>1, PTL

-----------------------------------------------------------------------------
(***************************************************************************)
(* The tunnel implements BytePipe.                                         *)
(***************************************************************************)

\* The state of the pipe that a copy stands for.
PipeState(c) == CASE c.status = "running" -> "open"
                  [] c.status = "eof" -> "finished"
                  [] OTHER -> "broken"

\* A new tunnel is an empty pipe in each direction.
LEMMA PipeInit == Init => Pipe!Init
<1> SUFFICES ASSUME Init PROVE Pipe!Init
  OBVIOUS
<1>1. PICK timer \in [Dirs -> {TRUE, ~TimerMayFail}] :
         copy = [d \in Dirs |-> NewCopy(0, timer[d])]
  BY DEF Init
<1>2. \A d \in Dirs : copy[d].status = "running"
  BY <1>1 DEF NewCopy
<1> QED
  BY <1>2 DEF Init, Pipe!Init

\* Every step of the tunnel is a step of the pipe or leaves it alone.
LEMMA PipeStep == IInv /\ IInv' /\ [Next]_copyVars => [Pipe!Next]_(Pipe!pipeVars)
<1> SUFFICES ASSUME IInv, IInv', Next PROVE [Pipe!Next]_(Pipe!pipeVars)
  BY DEF copyVars, Pipe!pipeVars
<1> DEFINE state == [d \in Dirs |-> PipeState(copy[d])]
<1>1. /\ TypeOK /\ At \in Dirs /\ copy \in [Dirs -> Copy]
      /\ sent \in [Dirs -> Nat] /\ eof \in [Dirs -> BOOLEAN] /\ out \in [Dirs -> Seq(Nat)]
      /\ \A d \in Dirs : Stream(copy[d], sent[d], eof[d], out[d])
  BY AtIsDir DEF IInv, StreamInv, TypeOK, CopyTypeOK
<1>2. copy[At].consumed <= sent[At] /\ copy[At].pos <= Cap(At)
  BY <1>1 DEF Stream, Cap
<1>3. /\ TypeOK' /\ task.pc # "ended"
      /\ \/ Waits
         \/ Ends("deadline") /\ Expired(copy[At])
         \/ Ends("eof") /\ copy[At].readDone /\ copy[At].pos = Cap(At)
         \/ Ends("error")
         \/ \E n \in Nat : Reads(n)
         \/ \E n \in Nat : Writes(n)
         \/ PeerStep
  BY <1>1, <1>2, StepKinds
<1>4. \A d \in Dirs : copy[d].status = "running"
  BY <1>3 DEF IInv, EndInv
<1>5. \A d \in Dirs : state[d] = "open"
  BY <1>4 DEF PipeState
<1>6. ASSUME \A d \in Dirs : copy'[d].status = copy[d].status
      PROVE  state' = state
  BY <1>6 DEF PipeState
<1>7. ASSUME NEW d \in Dirs, Pipe!Step(d)
      PROVE  Pipe!Next
  BY <1>5, <1>7 DEF Pipe!Next, PipeState
<1>8. CASE Waits
  BY <1>6, <1>8 DEF Waits, Pipe!pipeVars, PipeState
<1>9. ASSUME NEW s \in {"deadline", "error"}, Ends(s)
      PROVE  Pipe!Next
  <2>1. state' = [state EXCEPT ![At] = "broken"]
    BY <1>1, <1>4, <1>9 DEF Ends, PipeState
  <2>2. PICK d \in Dirs : d = At
    BY <1>1
  <2>3. Pipe!Break(d)
    BY <1>9, <2>1, <2>2 DEF Ends, Pipe!Break, PipeState
  <2> QED
    BY <1>7, <2>3 DEF Pipe!Step
<1>10. CASE Ends("eof") /\ copy[At].readDone /\ copy[At].pos = Cap(At)
  <2>1. state' = [state EXCEPT ![At] = "finished"]
    BY <1>1, <1>4, <1>10 DEF Ends, PipeState
  <2>2. eof[At] /\ Len(out[At]) = sent[At]
    <3>1. /\ copy[At].consumed = sent[At] /\ eof[At] /\ copy[At].pos = Len(copy[At].buf)
          /\ Len(out[At]) = copy[At].consumed - Len(copy[At].buf) + copy[At].pos
      BY <1>1, <1>10 DEF Stream, Cap
    <3>2. sent[At] \in Nat /\ Len(copy[At].buf) \in Nat
      BY <1>1 DEF Copy
    <3> QED
      BY <3>1, <3>2
  <2>3. PICK d \in Dirs : d = At
    BY <1>1
  <2>4. Pipe!Finish(d)
    BY <1>10, <2>1, <2>2, <2>3 DEF Ends, Pipe!Finish, PipeState
  <2> QED
    BY <1>7, <2>4 DEF Pipe!Step
<1>11. ASSUME NEW n \in Nat, Reads(n)
       PROVE  UNCHANGED Pipe!pipeVars
  <2>1. AfterRead(copy[At], n).status = copy[At].status
    BY <1>1, AfterReadIsCopy DEF TypeOK, CopyTypeOK
  <2>2. \A d \in Dirs : copy'[d].status = copy[d].status
    BY <1>1, <1>11, <2>1 DEF Reads
  <2> QED
    BY <1>6, <1>11, <2>2 DEF Reads, Pipe!pipeVars, PipeState
<1>12. ASSUME NEW n \in Nat, Writes(n)
       PROVE  Pipe!Next
  <2>1. AfterWrite(copy[At], n).status = copy[At].status
    BY <1>1, AfterWriteIsCopy DEF TypeOK, CopyTypeOK
  <2>2. \A d \in Dirs : copy'[d].status = copy[d].status
    BY <1>1, <1>12, <2>1 DEF Writes
  <2>3. /\ Stream(copy'[At], sent'[At], eof'[At], out'[At]) /\ sent' = sent
        /\ out'[At] \in Seq(Nat) /\ copy'[At] \in Copy
    BY <1>1, <1>12 DEF IInv, StreamInv, TypeOK, CopyTypeOK, Writes
  <2> DEFINE N == Len(out'[At])
  <2>4. N \in Nat /\ out'[At] = [i \in 1 .. N |-> i]
    <3>1. N \in Nat /\ out'[At] \in [1 .. N -> Nat]
      BY <2>3
    <3>2. \A i \in 1 .. N : out'[At][i] = i
      BY <2>3 DEF Stream, Counts
    <3> QED
      BY <3>1, <3>2
  <2>5. N <= sent[At]
    <3>1. /\ N = copy'[At].consumed - Len(copy'[At].buf) + copy'[At].pos
          /\ copy'[At].consumed <= sent[At] /\ copy'[At].pos <= Len(copy'[At].buf)
      BY <2>3 DEF Stream
    <3>2. copy'[At].consumed \in Nat /\ Len(copy'[At].buf) \in Nat /\ copy'[At].pos \in Nat
      BY <2>3 DEF Copy
    <3> QED
      BY <1>1, <3>1, <3>2, SMTT(60)
  <2>6. N >= Len(out[At]) + 1
    <3>1. AfterWrite(copy[At], n).amt = copy[At].amt + n /\ copy'[At].amt = AfterWrite(copy[At], n).amt
      BY <1>1, <1>12, AfterWriteIsCopy DEF Writes, TypeOK, CopyTypeOK
    <3>2. copy'[At].amt = N /\ copy[At].amt = Len(out[At])
      BY <1>1, <2>3 DEF Stream
    <3>3. n >= 1 /\ Len(out[At]) \in Nat
      BY <1>1, <1>12 DEF Writes
    <3> QED
      BY <3>1, <3>2, <3>3
  <2>7. out' = [out EXCEPT ![At] = [i \in 1 .. N |-> i]]
    <3>1. /\ out' = [out EXCEPT ![At] = out'[At]]
      BY <1>1, <1>12 DEF Writes
    <3> QED
      BY <2>4, <3>1, Zenon
  <2>8. N \in Len(out[At]) + 1 .. sent[At]
    BY <1>1, <2>4, <2>5, <2>6
  <2> HIDE DEF N
  <2>9. Pipe!Deliver(At)
    BY <1>6, <1>12, <2>2, <2>7, <2>8 DEF Writes, Pipe!Deliver, PipeState
  <2> QED
    BY <1>1, <1>7, <2>9 DEF Pipe!Step
<1>13. CASE PeerStep
  <2>1. UNCHANGED <<copy, out>>
    BY <1>13 DEF PeerStep, SecondPasses, Send, Shut, Drain
  <2>2. state' = state
    BY <2>1
  <2>3. ASSUME NEW d \in Dirs, Send(d)
        PROVE  Pipe!Next
    <3>1. Pipe!Send(d)
      BY <2>1, <2>3 DEF Send, Pipe!Send
    <3> QED
      BY <1>7, <3>1 DEF Pipe!Step
  <2>4. ASSUME NEW d \in Dirs, Shut(d)
        PROVE  Pipe!Next
    <3>1. Pipe!Shut(d)
      BY <2>1, <2>4 DEF Shut, Pipe!Shut
    <3> QED
      BY <1>7, <3>1 DEF Pipe!Step
  <2>5. CASE SecondPasses \/ \E d \in Dirs : Drain(d)
    BY <2>1, <2>5 DEF SecondPasses, Drain, Pipe!pipeVars
  <2> QED
    BY <1>13, <2>3, <2>4, <2>5 DEF PeerStep
<1> QED
  BY <1>3, <1>8, <1>9, <1>10, <1>11, <1>12, <1>13

\* copy_with_deadline and select2: each direction of a tunnel, seen from
\* outside, is a BytePipe: it only ever delivers the next bytes of what was sent,
\* is finished only after all of them, and ends with the other direction.
THEOREM Refinement == Spec => ImplementsPipe
  BY PipeInit, PipeStep, Invariance, PTL DEF Spec, Pipe!Spec, ImplementsPipe
=============================================================================

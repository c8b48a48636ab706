-------------------------- MODULE Lifeline1Proofs ---------------------------
(***************************************************************************)
(* Proof, for any list of server names, any set of addresses and any       *)
(* timeouts, of the type correctness of the Rust client.                   *)
(***************************************************************************)
EXTENDS Lifeline1, SequenceTheorems, TLAPS

\* What resolve may find for a name: nothing, one address or two different ones.
Found == {<<>>} \cup {<<ip>> : ip \in Ips} \cup {p \in Ips \X Ips : p[1] # p[2]}

\* An entry of the queue for each address found.
Entries(found, n) == [i \in DOMAIN found |-> [name |-> n, ip |-> found[i]]]

\* The addresses found for a name are addresses to call.
LEMMA EntriesTyped ==
    ASSUME NEW found \in Found, NEW n \in 1 .. Len(Names)
    PROVE  Entries(found, n) \in Seq(Address)
<1>1. found \in Seq(Ips)
  <2>1. CASE found = <<>>
    BY <2>1
  <2>2. CASE \E ip \in Ips : found = <<ip>>
    BY <2>2
  <2>3. CASE found \in Ips \X Ips
    <3>1. PICK a \in Ips, b \in Ips : found = <<a, b>>
      BY <2>3
    <3> QED
      BY <3>1
  <2> QED
    BY <2>1, <2>2, <2>3 DEF Found
<1>2. Len(found) \in Nat /\ DOMAIN found = 1 .. Len(found) /\ \A i \in 1 .. Len(found) : found[i] \in Ips
  BY <1>1
<1>3. \A i \in 1 .. Len(found) : [name |-> n, ip |-> found[i]] \in Address
  BY <1>2 DEF Address
<1>4. Entries(found, n) \in [1 .. Len(found) -> Address]
  BY <1>2, <1>3 DEF Entries
<1> QED
  BY <1>2, <1>4, SeqDef

\* The client starts well typed.
LEMMA TypeInit == Init => TypeOK
<1>1. Len(Names) \in Nat
  BY NamesAssumption
<1> QED
  BY <1>1 DEF Init, TypeOK, Link

\* The steps that end a call or the program.
LEMMA EndSteps ==
    ASSUME TypeOK,
           \/ Start \/ TimerFails \/ ConnectFails \/ ConnectTimesOut \/ ReadFails \/ SafetyReset
           \/ LocalFails \/ TunnelEnds
    PROVE  TypeOK'
<1>1. Len(Names) \in Nat
  BY NamesAssumption
<1>2. /\ pc' \in {"down", "resolve", "call"} /\ elapsed' = 0
      /\ target' = <<>> /\ link' = "none" /\ ssh' = "none" /\ arrived' = 0
  BY DEF Start, TimerFails, ConnectFails, ConnectTimesOut, ReadFails, SafetyReset, LocalFails,
         TunnelEnds, EndCall, Await, Disconnect
<1>3. queue' = <<>> \/ queue' = queue
  BY DEF Start, TimerFails, ConnectFails, ConnectTimesOut, ReadFails, SafetyReset, LocalFails,
         TunnelEnds, EndCall
<1>4. next' = 1 \/ next' = next
  BY DEF Start, TimerFails, ConnectFails, ConnectTimesOut, ReadFails, SafetyReset, LocalFails,
         TunnelEnds, EndCall
<1>5. faults' = faults \/ faults' = faults + 1
  BY DEF Start, TimerFails, ConnectFails, ConnectTimesOut, ReadFails, SafetyReset, LocalFails,
         TunnelEnds, EndCall
<1>6. next' \in 1 .. Len(Names) + 1 /\ queue' \in Seq(Address) /\ faults' \in Nat
  <2>1. next \in 1 .. Len(Names) + 1 /\ queue \in Seq(Address) /\ faults \in Nat
    BY DEF TypeOK
  <2>2. queue' \in Seq(Address)
    BY <1>3, <2>1, EmptySeq
  <2>3. next' \in 1 .. Len(Names) + 1
    BY <1>1, <1>4, <2>1
  <2> QED
    BY <1>5, <2>1, <2>2, <2>3
<1>7. link' \in Link /\ ssh' \in Link /\ arrived' \in Nat /\ elapsed' \in Nat
  BY <1>2 DEF Link
<1> QED
  BY <1>2, <1>6, <1>7 DEF TypeOK

\* The steps that only wait for something else.
LEMMA AwaitSteps ==
    ASSUME TypeOK, Resolved \/ Greet \/ LocalConnected \/ RoundEnds \/ NextRound
    PROVE  TypeOK'
<1>1. Len(Names) \in Nat
  BY NamesAssumption
<1>2. /\ pc' \in {"call", "wait", "tunnel", "sleep", "resolve"} /\ elapsed' = 0
      /\ next' = next \/ next' = 1
      /\ UNCHANGED <<queue, target, link, arrived, ssh, faults>>
  BY DEF Resolved, Greet, LocalConnected, RoundEnds, NextRound, Await
<1>3. next' \in 1 .. Len(Names) + 1 /\ elapsed' \in Nat
  BY <1>1, <1>2 DEF TypeOK
<1> QED
  BY <1>2, <1>3 DEF TypeOK

\* resolve puts entries for names of the list into the queue.
LEMMA ResolveStep ==
    ASSUME TypeOK, Resolve
    PROVE  TypeOK'
<1>1. Len(Names) \in Nat
  BY NamesAssumption
<1>2. /\ next \in 1 .. Len(Names) /\ next' = next + 1
      /\ UNCHANGED <<pc, target, elapsed, link, arrived, ssh, faults>>
  BY <1>1 DEF Resolve, TypeOK
<1>3. PICK found \in Found : queue' = queue \o Entries(found, next)
  BY DEF Resolve, Found, Entries
<1>4. Entries(found, next) \in Seq(Address) /\ queue \in Seq(Address)
  BY <1>2, EntriesTyped DEF TypeOK
<1>5. queue' \in Seq(Address)
  BY <1>3, <1>4, ConcatProperties
<1>6. next' \in 1 .. Len(Names) + 1
  BY <1>1, <1>2
<1> QED
  BY <1>2, <1>5, <1>6 DEF TypeOK

\* A call takes the first entry of the queue.
LEMMA CallStep ==
    ASSUME TypeOK, Call
    PROVE  TypeOK'
<1>1. queue \in Seq(Address) /\ queue # <<>> /\ queue' = Tail(queue)
  BY DEF TypeOK, Call
<1>2. Head(queue) \in Address /\ Tail(queue) \in Seq(Address)
  BY <1>1, HeadTailProperties
<1>3. \/ pc' = "connect" /\ elapsed' = 0 /\ target' = <<Head(queue)>> /\ link' = "pending"
         /\ faults' = faults
      \/ faults' = faults + 1 /\ UNCHANGED <<pc, elapsed, target, link>>
  BY DEF Call, Await
<1>4. UNCHANGED <<next, arrived, ssh>>
  BY DEF Call
<1> QED
  BY <1>1, <1>2, <1>3, <1>4 DEF TypeOK, Link

\* The first read takes no more than there is.
LEMMA FirstReadStep ==
    ASSUME TypeOK, FirstRead
    PROVE  TypeOK'
<1>1. arrived \in Nat /\ ReadSize \in Nat
  BY TimesAssumption DEF TypeOK
<1>2. /\ arrived' = arrived - (IF arrived < ReadSize THEN arrived ELSE ReadSize)
      /\ pc' = "local" /\ elapsed' = 0 /\ ssh' = "pending"
      /\ UNCHANGED <<next, queue, target, link, faults>>
  BY DEF FirstRead, Await
<1>3. arrived' \in Nat
  BY <1>1, <1>2
<1> QED
  BY <1>2, <1>3 DEF TypeOK, Link

\* The servers, ssh and the clock.
LEMMA AroundSteps ==
    ASSUME TypeOK, Tick \/ ServerAnswers \/ ServerSends \/ SshAnswers
    PROVE  TypeOK'
<1>1. CASE Tick
  BY <1>1 DEF Tick, TypeOK
<1>2. CASE ServerAnswers
  BY <1>2 DEF ServerAnswers, TypeOK, Link
<1>3. CASE ServerSends
  <2>1. arrived' \in Nat
    BY <1>3, TimesAssumption DEF ServerSends, TypeOK
  <2> QED
    BY <1>3, <2>1 DEF ServerSends, TypeOK
<1>4. CASE SshAnswers
  BY <1>4 DEF SshAnswers, TypeOK, Link
<1> QED
  BY <1>1, <1>2, <1>3, <1>4

\* main and remote: the index of the name stays within the list and its end, only
\* addresses resolved from the list are queued and called, and the first read
\* never takes more bytes than the socket has.
THEOREM TypeCorrect == Spec => []TypeOK
<1>1. TypeOK /\ [Next]_vars => TypeOK'
  <2> SUFFICES ASSUME TypeOK, [Next]_vars PROVE TypeOK'
    OBVIOUS
  <2>1. CASE UNCHANGED vars
    BY <2>1 DEF vars, TypeOK
  <2>2. CASE \/ Start \/ TimerFails \/ ConnectFails \/ ConnectTimesOut \/ ReadFails
             \/ SafetyReset \/ LocalFails \/ TunnelEnds
    BY <2>2, EndSteps
  <2>3. CASE Resolved \/ Greet \/ LocalConnected \/ RoundEnds \/ NextRound
    BY <2>3, AwaitSteps
  <2>4. CASE Resolve
    BY <2>4, ResolveStep
  <2>5. CASE Call
    BY <2>5, CallStep
  <2>6. CASE FirstRead
    BY <2>6, FirstReadStep
  <2>7. CASE Tick \/ ServerAnswers \/ ServerSends \/ SshAnswers
    BY <2>7, AroundSteps
  <2> QED
    BY <2>1, <2>2, <2>3, <2>4, <2>5, <2>6, <2>7 DEF Next, ClientStep
<1> QED
  BY TypeInit, <1>1, PTL DEF Spec
=============================================================================

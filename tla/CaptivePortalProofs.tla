------------------------- MODULE CaptivePortalProofs ------------------------
(***************************************************************************)
(* Proofs, for every value of the constants, of the safety properties of   *)
(* CaptivePortal.                                                          *)
(***************************************************************************)
EXTENDS CaptivePortal, SequenceTheorems, WellFoundedInduction, TLAPS

\* t is s without its element at k.
Without(s, k, t) ==
    /\ Len(t) = Len(s) - 1
    /\ \A i \in 1 .. Len(t) : t[i] = IF i < k THEN s[i] ELSE s[i + 1]

\* iptables -D on a chain that has the rule removes the first one equal to it.
LEMMA RemoveFirstIs ==
    ASSUME NEW S, NEW s \in Seq(S), NEW e, \E i \in 1 .. Len(s) : s[i] = e
    PROVE  \E k \in 1 .. Len(s) :
              /\ s[k] = e /\ \A i \in 1 .. Len(s) : s[i] = e => k <= i
              /\ RemoveFirst(s, e) \in Seq(S) /\ Without(s, k, RemoveFirst(s, e))
<1> DEFINE I == {i \in 1 .. Len(s) : s[i] = e}
           k == Min(I)
           t == RemoveAt(s, k)
<1>1. PICK m \in I : \A i \in I : m <= i
  <2>1. I \subseteq Nat /\ I # {}
    OBVIOUS
  <2>2. PICK m \in I : \A i \in I : ~ (<<i, m>> \in OpToRel(<, Nat))
    BY <2>1, WFMin, NatLessThanWellFounded
  <2>3. m \in I /\ \A i \in I : i \in Nat /\ m \in Nat => ~ (i < m)
    <3>1. \A i : i \in Nat /\ m \in Nat /\ i < m => <<i, m>> \in OpToRel(<, Nat)
      BY Zenon DEF OpToRel
    <3> QED
      BY <2>2, <3>1, Zenon
  <2> QED
    BY <2>1, <2>3
<1>2. k \in I
  BY <1>1 DEF Min
<1>3. RemoveFirst(s, e) = t
  BY <1>2 DEF RemoveFirst, SelectInSeq
<1> HIDE DEF k
<1>4. /\ t \in Seq(S)
      /\ Len(t) = Len(s) - 1
      /\ \A i \in 1 .. Len(t) : t[i] = IF i < k THEN s[i] ELSE s[i + 1]
  <2> DEFINE a == SubSeq(s, 1, k - 1)
             b == SubSeq(s, k + 1, Len(s))
  <2>1. Len(s) \in Nat /\ k \in 1 .. Len(s)
    BY <1>2, LenProperties
  <2>2. a \in Seq(S) /\ Len(a) = k - 1 /\ \A i \in 1 .. k - 1 : a[i] = s[i]
    BY <2>1, SubSeqProperties
  <2>3. b \in Seq(S) /\ Len(b) = Len(s) - k /\ \A i \in 1 .. Len(s) - k : b[i] = s[k + i]
    BY <2>1, SubSeqProperties
  <2> HIDE DEF a, b
  <2>4. t = a \o b
    BY DEF RemoveAt, a, b
  <2> HIDE DEF t
  <2>5. /\ t \in Seq(S)
        /\ Len(t) = Len(a) + Len(b)
        /\ \A i \in 1 .. Len(a) + Len(b) :
              t[i] = IF i <= Len(a) THEN a[i] ELSE b[i - Len(a)]
    BY <2>2, <2>3, <2>4, ConcatProperties
  <2>6. ASSUME NEW i \in 1 .. Len(t)
        PROVE  t[i] = IF i < k THEN s[i] ELSE s[i + 1]
    <3>1. CASE i < k
      <4>1. i \in 1 .. Len(a) + Len(b) /\ i <= Len(a) /\ i \in 1 .. k - 1
        BY <3>1, <2>1, <2>2, <2>3, <2>5
      <4> QED
        BY <3>1, <4>1, <2>2, <2>5
    <3>2. CASE i >= k
      <4>1. t[i] = b[i - (k - 1)] /\ i - (k - 1) \in 1 .. Len(s) - k
        BY <3>2, <2>1, <2>2, <2>3, <2>5
      <4>2. b[i - (k - 1)] = s[k + (i - (k - 1))]
        BY <4>1, <2>3
      <4>3. k + (i - (k - 1)) = i + 1
        BY <2>1
      <4> QED
        BY <4>1, <4>2, <4>3, <3>2, <2>1
    <3> QED
      BY <3>1, <3>2, <2>1
  <2> QED
    BY <2>1, <2>2, <2>3, <2>5, <2>6
<1>5. \A i \in 1 .. Len(s) : s[i] = e => k <= i
  BY <1>1, <1>2 DEF Min, k
<1> HIDE DEF t
<1>6. k \in 1 .. Len(s) /\ s[k] = e
  BY <1>2
<1> HIDE DEF I
<1> QED
  BY <1>3, <1>4, <1>5, <1>6 DEF Without

\* iptables -D on a chain: nothing new appears, and only rules equal to the
\* deleted one can disappear.
LEMMA RemoveFirstFacts ==
    ASSUME NEW S, NEW s \in Seq(S), NEW e
    PROVE  /\ RemoveFirst(s, e) \in Seq(S)
           /\ \A i \in DOMAIN RemoveFirst(s, e) :
                 \E j \in DOMAIN s : RemoveFirst(s, e)[i] = s[j]
           /\ \A j \in DOMAIN s : s[j] # e =>
                 \E i \in DOMAIN RemoveFirst(s, e) : RemoveFirst(s, e)[i] = s[j]
<1>1. CASE ~ \E i \in 1 .. Len(s) : s[i] = e
  BY <1>1 DEF RemoveFirst
<1>2. CASE \E i \in 1 .. Len(s) : s[i] = e
  <2> DEFINE t == RemoveFirst(s, e)
  <2>1. PICK k \in 1 .. Len(s) : s[k] = e /\ t \in Seq(S) /\ Without(s, k, t)
    BY <1>2, RemoveFirstIs
  <2> HIDE DEF t
  <2>2. /\ Len(t) = Len(s) - 1 /\ Len(s) \in Nat
        /\ \A i \in 1 .. Len(t) : t[i] = IF i < k THEN s[i] ELSE s[i + 1]
    BY <2>1, LenProperties DEF Without
  <2>3. \A i \in DOMAIN t : \E j \in DOMAIN s : t[i] = s[j]
    BY <2>1, <2>2
  <2>4. ASSUME NEW j \in DOMAIN s, s[j] # e
        PROVE  \E i \in DOMAIN t : t[i] = s[j]
    <3>1. j # k /\ j \in 1 .. Len(s) /\ k \in 1 .. Len(s)
      BY <2>1, <2>4
    <3>2. CASE j < k
      BY <2>1, <2>2, <3>1, <3>2
    <3>3. CASE j > k
      <4>1. j - 1 \in 1 .. Len(t) /\ t[j - 1] = s[j]
        BY <2>2, <3>1, <3>3
      <4> QED
        BY <2>1, <4>1
    <3> QED
      BY <3>1, <3>2, <3>3
  <2> QED
    BY <2>1, <2>3, <2>4 DEF t
<1> QED
  BY <1>1, <1>2

-----------------------------------------------------------------------------
(***************************************************************************)
(* The inductive invariant, in three parts on top of TypeOK.               *)
(***************************************************************************)

\* The handler's connection stays its own, and its request until it is handled;
\* the device its address resolves to is among those that held it, and so is the
\* one that was looked up.
HandlerInv ==
    /\ Busy => conn[loop.c].state = "handled"
    /\ \A c \in Conns : conn[c].state = "handled" =>
          neigh[conn[c].ip] \in conn[c].held \cup {NoMac}
    /\ loop.pc \in {"authorize", "stamp", "append", "notify"} => "tos" \in Req.query
    /\ loop.pc \in {"stamp", "append", "notify"} => loop.mac \in conn[loop.c].held

\* Timestamps lie in the past, and every rule in the chain was appended.
StampInv ==
    /\ loop.pc = "append" => loop.ts <= now
    /\ \A a \in appended : a.ts <= now
    /\ \A i \in DOMAIN chain : Parses(chain[i]) =>
          \E a \in appended : a.mac = chain[i].mac /\ a.ts = chain[i].ts
    /\ loop.pc = "notify" => \E a \in appended : a.mac = loop.mac /\ a.ts <= now

\* The clock shows the seconds that passed and those it was stepped by, now and
\* whenever it was read.
ClockInv ==
    /\ now = uptime + stepped
    /\ loop.pc = "append" => loop.ts = loop.since + loop.stepped
    /\ \A a \in appended : a.ts = a.since + a.stepped

\* A check is about to delete only a rule that Sentry wrote and that expired.
CheckInv ==
    \A k \in Checkers :
        /\ check[k].pc # "idle" => MinValidTime <= check[k].valid
        /\ check[k].pc = "delete" =>
              /\ Parses(Head(check[k].rules))
              /\ Head(check[k].rules).ts + check[k].valid < now

\* The inductive invariant.
IInv == /\ TypeOK
        /\ HandlerInv /\ PortalSeesHolder
        /\ StampInv /\ ClockInv /\ MessageAfterRule
        /\ CheckInv

USE DEF vars, routerVars, sentryVars, historyVars, accessVars

\* Every step is one of the actions, and the actions of one component leave the
\* other's variables alone.
LEMMA StepCases ==
    ASSUME [Next]_vars
    PROVE  \/ UNCHANGED vars
           \/ /\ UNCHANGED accessVars
              /\ \/ Start \/ LookupMac \/ StampRule \/ AppendRule \/ AppendRuleFails
                 \/ Notify \/ NotifyFails \/ DispatchPortal \/ FetchPortal
                 \/ HandlerPanics \/ ProxyReferer \/ Redirect
                 \/ \E c \in Conns, req \in Requests : Send(c, req)
                 \/ \E c \in Conns : Receive(c) \/ Answer(c) \/ Hangup(c)
                 \/ \E c \in Conns, ip \in Ips : Connect(c, ip)
                 \/ \E ip \in Ips, mac \in Macs : Rebind(ip, mac)
                 \/ /\ UNCHANGED sentryVars
                    /\ Tick \/ StepClock \/ \E ip \in Ips : Evict(ip)
           \/ /\ UNCHANGED sentryVars
              /\ \/ WriteValidFile
                 \/ \E k \in Checkers : List(k) \/ ListFails(k) \/ Examine(k)
                                         \/ Delete(k) \/ DeleteFails(k) \/ Finish(k)
  BY Zenon DEF Next, SentryNext, Around, AccessNext, Handle, CheckStep

\* The constant records the service starts from are well typed.
LEMMA ConstantTypes ==
    /\ SomeIp \in Ips /\ NoRequest \in Request
    /\ IdleLoop \in Loop /\ IdleLoop.pc = "idle"
    /\ DownLoop \in Loop /\ DownLoop.pc = "down"
    /\ \A ip \in Ips : FreeConn(ip) \in Conn /\ FreeConn(ip).state = "free"
    /\ NoCheck \in Check /\ NoCheck.pc = "idle"
    /\ \A result \in {"ok", "err"} : [NoCheck EXCEPT !.result = result] \in Check
<1>1. SomeIp \in Ips /\ (CHOOSE c \in Conns : TRUE) \in Conns
  BY SomeConnAssumption DEF SomeIp
<1>2. IdleLoop \in Loop /\ IdleLoop.pc = "idle" /\ NoRequest \in Request
  BY <1>1 DEF IdleLoop, Loop, NoRequest, Request, MacOrNone
<1>3. DownLoop \in Loop /\ DownLoop.pc = "down"
  BY <1>2 DEF DownLoop, IdleLoop, Loop
<1>4. \A ip \in Ips : FreeConn(ip) \in Conn /\ FreeConn(ip).state = "free"
  BY <1>2 DEF FreeConn, Conn, MacOrNone
<1>5. NoCheck \in Check /\ NoCheck.pc = "idle"
  BY EmptySeq DEF NoCheck, Check
<1>6. \A result \in {"ok", "err"} : [NoCheck EXCEPT !.result = result] \in Check
  BY <1>5 DEF NoCheck, Check
<1> QED
  BY <1>1, <1>2, <1>3, <1>4, <1>5, <1>6

\* Every variable keeps its type, whatever the sizes of the constants.
LEMMA TypeInit == Init => TypeOK
<1> SUFFICES ASSUME Init PROVE TypeOK
  OBVIOUS
<1>1. RouterTypeOK
  <2>1. ForeignRule \in Rule
    BY DEF ForeignRule, Rule, MacOrNone
  <2>2. <<>> \in Seq(Rule) /\ <<ForeignRule>> \in Seq(Rule)
    BY <2>1
  <2> QED
    BY <2>2 DEF Init, RouterInit, RouterTypeOK, MacOrNone
<1>2. SentryTypeOK
  BY ConstantTypes DEF Init, SentryInit, SentryTypeOK
<1>3. AccessTypeOK
  BY ConstantTypes DEF Init, AccessInit, AccessTypeOK
<1> QED
  BY <1>1, <1>2, <1>3 DEF TypeOK

\* A step keeps the types.
LEMMA TypeStep == TypeOK /\ [Next]_vars => TypeOK'
<1> SUFFICES ASSUME TypeOK, [Next]_vars PROVE TypeOK'
  OBVIOUS
<1> USE DEF TypeOK
<1>1. CASE UNCHANGED vars
  BY <1>1 DEF RouterTypeOK, SentryTypeOK, AccessTypeOK
<1>2. ASSUME UNCHANGED accessVars
      PROVE  AccessTypeOK'
  BY <1>2 DEF AccessTypeOK
<1>3. ASSUME UNCHANGED sentryVars
      PROVE  SentryTypeOK'
  BY <1>3 DEF SentryTypeOK
<1>4. ASSUME UNCHANGED routerVars
      PROVE  RouterTypeOK'
  BY <1>4 DEF RouterTypeOK
<1>5. CASE Start /\ UNCHANGED accessVars
  BY <1>5, <1>2, <1>4, ConstantTypes DEF Start, SentryTypeOK
<1>6. CASE LookupMac /\ UNCHANGED accessVars
  <2>1. \A mac \in IpToMac(HandledIp) : mac \in MacOrNone
    BY DEF IpToMac, HandledIp, SentryTypeOK, RouterTypeOK, Loop, Conn, MacOrNone
  <2>2. loop' \in Loop
    BY <1>6, <2>1 DEF LookupMac, SentryTypeOK, Loop, MacOrNone
  <2> QED
    BY <1>6, <1>2, <1>4, <2>2 DEF LookupMac, SentryTypeOK
<1>7. CASE StampRule /\ UNCHANGED accessVars
  <2>1. loop' \in Loop
    BY <1>7 DEF StampRule, SentryTypeOK, RouterTypeOK, Loop
  <2> QED
    BY <1>7, <1>2, <1>4, <2>1 DEF StampRule, SentryTypeOK
<1>8. CASE AppendRule /\ UNCHANGED accessVars
  <2>1. /\ loop.mac \in MacOrNone /\ loop.ts \in Nat /\ loop.since \in Nat
        /\ loop.stepped \in Nat /\ uptime \in Nat
    BY <1>8 DEF AppendRule, SentryTypeOK, RouterTypeOK, Loop
  <2>2. loop' \in Loop
    BY <1>8, <2>1 DEF AppendRule, SentryTypeOK, Loop
  <2>3. appended' \in SUBSET Appended
    BY <1>8, <2>1 DEF AppendRule, SentryTypeOK, Appended
  <2>4. [mac |-> loop.mac, ts |-> loop.ts] \in Rule
    BY <2>1 DEF Rule
  <2>5. chain' \in Seq(Rule)
    BY <1>8, <2>4, AppendProperties DEF AppendRule, IptablesAppend, RouterTypeOK
  <2> QED
    BY <1>8, <1>2, <2>2, <2>3, <2>5 DEF AppendRule, SentryTypeOK, RouterTypeOK
<1>9. CASE AppendRuleFails /\ UNCHANGED accessVars
  <2>1. loop' \in Loop
    BY <1>9 DEF AppendRuleFails, SentryTypeOK, Loop
  <2> QED
    BY <1>9, <1>2, <2>1 DEF AppendRuleFails, IptablesFault, SentryTypeOK, RouterTypeOK
<1>10. CASE Notify /\ UNCHANGED accessVars
  <2>1. loop' \in Loop
    BY <1>10 DEF Notify, SentryTypeOK, Loop
  <2>2. HandledIp \in Ips /\ loop.mac \in MacOrNone /\ now \in Nat
    BY <1>10 DEF Notify, HandledIp, SentryTypeOK, RouterTypeOK, Loop, Conn
  <2>3. accepted' \in SUBSET Accepted
    BY <1>10, <2>2 DEF Notify, SentryTypeOK, Accepted
  <2> QED
    BY <1>10, <1>2, <1>4, <2>1, <2>3 DEF Notify, SentryTypeOK
<1>11. CASE (NotifyFails \/ DispatchPortal) /\ UNCHANGED accessVars
  <2>1. loop' \in Loop
    BY <1>11 DEF NotifyFails, DispatchPortal, SentryTypeOK, Loop
  <2> QED
    BY <1>11, <1>2, <1>4, <2>1 DEF NotifyFails, DispatchPortal, SentryTypeOK
<1>12. CASE FetchPortal /\ UNCHANGED accessVars
  <2>1. \A mac \in IpToMac(HandledIp) : mac \in MacOrNone
    BY DEF IpToMac, HandledIp, SentryTypeOK, RouterTypeOK, Loop, Conn, MacOrNone
  <2>2. conn' \in [Conns -> Conn]
    <3>1. conn[loop.c] \in Conn
      BY DEF SentryTypeOK, Loop
    <3>2. \A mac \in MacOrNone :
             [conn[loop.c] EXCEPT !.state = "fetching", !.req = NoRequest, !.hdr = mac] \in Conn
      BY <3>1, ConstantTypes DEF Conn
    <3>3. \A mac \in MacOrNone :
             [conn EXCEPT ![loop.c] = [@ EXCEPT !.state = "fetching", !.req = NoRequest,
                                                !.hdr = mac]] \in [Conns -> Conn]
      BY <3>2 DEF SentryTypeOK
    <3>4. Panic => conn' \in [Conns -> Conn]
      BY ConstantTypes DEF Panic
    <3> QED
      BY <1>12, <2>1, <3>3, <3>4 DEF FetchPortal
  <2>3. loop' \in {IdleLoop, DownLoop}
    BY <1>12 DEF FetchPortal, Panic
  <2> QED
    BY <1>12, <1>2, <1>4, <2>2, <2>3, ConstantTypes DEF FetchPortal, SentryTypeOK
<1>p. CASE HandlerPanics /\ UNCHANGED accessVars
  <2>1. conn' \in [Conns -> Conn] /\ loop' = DownLoop
    BY <1>p, ConstantTypes DEF HandlerPanics, Panic
  <2>2. faults' \in Nat
    BY <1>p DEF HandlerPanics, IptablesFault, RouterTypeOK
  <2> QED
    BY <1>p, <1>2, <2>1, <2>2, ConstantTypes DEF HandlerPanics, SentryTypeOK, RouterTypeOK
<1>13. CASE (ProxyReferer \/ Redirect) /\ UNCHANGED accessVars
  <2>1. conn' \in [Conns -> Conn]
    <3>1. conn[loop.c] \in Conn
      BY DEF SentryTypeOK, Loop
    <3>2. [conn[loop.c] EXCEPT !.state = "proxying", !.req = NoRequest, !.held = {}] \in Conn
      BY <3>1, ConstantTypes DEF Conn
    <3>3. ProxyReferer => conn' \in [Conns -> Conn]
      BY <3>2 DEF ProxyReferer, SentryTypeOK
    <3>4. Redirect => conn' \in [Conns -> Conn]
      BY ConstantTypes DEF Redirect, Close, SentryTypeOK
    <3> QED
      BY <1>13, <3>3, <3>4
  <2> QED
    BY <1>13, <1>2, <1>4, <2>1, ConstantTypes DEF ProxyReferer, Redirect, SentryTypeOK
<1>r. ASSUME NEW c \in Conns, Receive(c), UNCHANGED accessVars
      PROVE  TypeOK'
  <2>1. loop' \in Loop
    BY <1>r, ConstantTypes DEF Receive, Loop
  <2>2. {neigh[conn[c].ip]} \ {NoMac} \in SUBSET Macs
    BY DEF RouterTypeOK, SentryTypeOK, Conn, MacOrNone
  <2>3. conn' \in [Conns -> Conn]
    BY <1>r, <2>2 DEF Receive, SentryTypeOK, Conn
  <2> QED
    BY <1>r, <1>2, <1>4, <2>1, <2>3 DEF Receive, SentryTypeOK
<1>14. ASSUME NEW c \in Conns, NEW req \in Requests, Send(c, req), UNCHANGED accessVars
       PROVE  TypeOK'
  <2>1. req \in Request
    BY RequestsAssumption
  <2>2. conn' \in [Conns -> Conn]
    BY <1>14, <2>1 DEF Send, SentryTypeOK, Conn
  <2> QED
    BY <1>14, <1>2, <1>4, <2>2 DEF Send, SentryTypeOK
<1>15. ASSUME NEW c \in Conns, Answer(c) \/ Hangup(c), UNCHANGED accessVars
       PROVE  TypeOK'
  BY <1>15, <1>2, <1>4, ConstantTypes DEF Answer, Hangup, Close, SentryTypeOK
<1>16. ASSUME NEW c \in Conns, NEW ip \in Ips, Connect(c, ip), UNCHANGED accessVars
       PROVE  TypeOK'
  <2>1. [FreeConn(ip) EXCEPT !.state = "open", !.dev = neigh[ip]] \in Conn
    BY ConstantTypes DEF RouterTypeOK, Conn, MacOrNone
  <2>2. conn' \in [Conns -> Conn]
    BY <1>16, <2>1 DEF Connect, SentryTypeOK
  <2> QED
    BY <1>16, <1>2, <1>4, <2>2 DEF Connect, SentryTypeOK
<1>17. ASSUME NEW ip \in Ips, NEW mac \in Macs, Rebind(ip, mac), UNCHANGED accessVars
       PROVE  TypeOK'
  <2>1. \A c \in Conns : [conn[c] EXCEPT !.held = @ \cup {mac}] \in Conn
    BY DEF SentryTypeOK, Conn
  <2>2. conn' \in [Conns -> Conn]
    BY <1>17, <2>1 DEF Rebind, SentryTypeOK
  <2>3. RouterTypeOK'
    BY <1>17 DEF Rebind, Bind, RouterTypeOK, MacOrNone
  <2> QED
    BY <1>17, <1>2, <2>2, <2>3 DEF Rebind, SentryTypeOK
<1>18. CASE Tick /\ UNCHANGED <<sentryVars, accessVars>>
  BY <1>18, <1>2, <1>3 DEF Tick, RouterTypeOK
<1>19. CASE StepClock /\ UNCHANGED <<sentryVars, accessVars>>
  BY <1>19, <1>2, <1>3, BoundsAssumption DEF StepClock, RouterTypeOK
<1>20. ASSUME NEW ip \in Ips, Evict(ip), UNCHANGED <<sentryVars, accessVars>>
       PROVE  TypeOK'
  BY <1>20, <1>2, <1>3 DEF Evict, RouterTypeOK, MacOrNone
<1>21. CASE WriteValidFile /\ UNCHANGED sentryVars
  BY <1>21, <1>3, <1>4 DEF WriteValidFile, AccessTypeOK
<1>22. ASSUME NEW k \in Checkers, List(k), UNCHANGED sentryVars
       PROVE  TypeOK'
  <2>1. ReadValidTime(validFile) \in Int
    BY ValidTimeAssumption DEF ReadValidTime, ValidFile, AccessTypeOK
  <2> QED
    BY <1>22, <1>3, <1>4, <2>1 DEF List, AccessTypeOK, RouterTypeOK, Check
<1>23. ASSUME NEW k \in Checkers, Finish(k), UNCHANGED sentryVars
       PROVE  TypeOK'
  BY <1>23, <1>3, <1>4, ConstantTypes DEF Finish, Return, NoCheck, AccessTypeOK
<1>24. ASSUME NEW k \in Checkers, ListFails(k) \/ DeleteFails(k), UNCHANGED sentryVars
       PROVE  TypeOK'
  <2>1. RouterTypeOK'
    BY <1>24 DEF ListFails, DeleteFails, IptablesFault, RouterTypeOK
  <2> QED
    BY <1>24, <1>3, <2>1, ConstantTypes
    DEF ListFails, DeleteFails, Return, NoCheck, AccessTypeOK
<1>25. ASSUME NEW k \in Checkers, Examine(k), UNCHANGED sentryVars
       PROVE  TypeOK'
  <2>1. Tail(check[k].rules) \in Seq(Rule)
    BY <1>25, HeadTailProperties DEF Examine, AccessTypeOK, Check
  <2> QED
    BY <1>25, <1>3, <1>4, <2>1, ZenonT(60) DEF Examine, AccessTypeOK, Check
<1>26. ASSUME NEW k \in Checkers, Delete(k), UNCHANGED sentryVars
       PROVE  TypeOK'
  <2>1. Tail(check[k].rules) \in Seq(Rule)
    BY <1>26, HeadTailProperties DEF Delete, AccessTypeOK, Check
  <2>2. AccessTypeOK'
    BY <1>26, <2>1 DEF Delete, AccessTypeOK, Check
  <2>3. chain' \in Seq(Rule)
    BY <1>26, RemoveFirstFacts DEF Delete, IptablesDelete, RouterTypeOK
  <2> QED
    BY <1>26, <1>3, <2>2, <2>3 DEF Delete, RouterTypeOK
<1> QED
  BY StepCases, <1>1, <1>5, <1>6, <1>7, <1>8, <1>9, <1>10, <1>11, <1>12, <1>p, <1>13, <1>r,
     <1>14, <1>15, <1>16, <1>17, <1>18, <1>19, <1>20, <1>21, <1>22, <1>23, <1>24, <1>25, <1>26

\* Every variable keeps its type, for every set of devices, addresses,
\* connections and checks, and every bound.
THEOREM TypeCorrect == Spec => []TypeOK
  BY TypeInit, TypeStep, PTL DEF Spec

-----------------------------------------------------------------------------
(***************************************************************************)
(* Who gets access.                                                        *)
(***************************************************************************)

\* The part of it about requests and devices.
ConsentInv == HandlerInv /\ PortalSeesHolder

\* It holds at the start: the loop is down and no connection is open.
LEMMA ConsentInit == Init => ConsentInv
<1> SUFFICES ASSUME Init PROVE ConsentInv
  OBVIOUS
<1>1. loop.pc = "down" /\ \A c \in Conns : conn[c].state = "free"
  BY ConstantTypes DEF Init, SentryInit
<1> QED
  BY <1>1 DEF ConsentInv, HandlerInv, Busy, PortalSeesHolder

\* A step keeps it.
LEMMA ConsentStep == TypeOK /\ ConsentInv /\ [Next]_vars => ConsentInv'
<1> SUFFICES ASSUME TypeOK, ConsentInv, [Next]_vars PROVE ConsentInv'
  OBVIOUS
<1>t. /\ loop \in Loop /\ conn \in [Conns -> Conn] /\ neigh \in [Ips -> MacOrNone]
      /\ loop.c \in Conns
  BY DEF TypeOK, SentryTypeOK, RouterTypeOK, Loop
<1> USE DEF ConsentInv
\* A panic, or the process that starts again.
<1>d. ASSUME ~ Busy', \A c \in Conns : conn'[c].state = "free"
      PROVE  ConsentInv'
  BY <1>d DEF HandlerInv, PortalSeesHolder, Busy
\* The handler goes on, and the connections stay as they are.
<1>l. ASSUME UNCHANGED <<conn, neigh>>, loop' \in Loop, loop'.c = loop.c, Busy,
             loop'.pc \in {"append", "notify"} => loop.pc \in {"stamp", "append"},
             loop'.pc \in {"append", "notify"} => loop'.mac = loop.mac,
             loop'.pc \in {"append", "notify", "dispatch", "portal"}
      PROVE  ConsentInv'
  <2>1. conn'[loop'.c] = conn[loop.c]
    BY <1>l
  <2>2. HandlerInv'
    BY <1>l, <2>1 DEF HandlerInv, Busy, Req
  <2> QED
    BY <1>l, <2>2 DEF PortalSeesHolder
\* The handler returns, and its connection is no longer handled.
<1>i. ASSUME UNCHANGED neigh, loop' = IdleLoop,
             \A c \in Conns \ {loop.c} : conn'[c] = conn[c],
             conn'[loop.c].state \in {"free", "fetching", "proxying"},
             conn'[loop.c].state = "fetching" => conn'[loop.c].hdr \in conn'[loop.c].held
      PROVE  ConsentInv'
  <2>1. HandlerInv'
    BY <1>i, ConstantTypes DEF HandlerInv, Busy
  <2>2. PortalSeesHolder'
    BY <1>i DEF PortalSeesHolder
  <2> QED
    BY <2>1, <2>2
\* Something happens to a connection that is not handled.
<1>o. ASSUME UNCHANGED <<loop, neigh>>, NEW d \in Conns, conn[d].state # "handled",
             \A c \in Conns \ {d} : conn'[c] = conn[c],
             conn'[d].state \in {"free", "open", "asking"}
      PROVE  ConsentInv'
  <2>1. Busy => d # loop.c
    BY <1>o DEF HandlerInv
  <2>2. HandlerInv'
    BY <1>o, <1>t, <2>1 DEF HandlerInv, Busy, Req
  <2>3. PortalSeesHolder'
    BY <1>o DEF PortalSeesHolder
  <2> QED
    BY <2>2, <2>3
<1>1. CASE UNCHANGED <<neigh, sentryVars>>
  BY <1>1 DEF HandlerInv, Busy, Req, PortalSeesHolder
<1>2. CASE Start
  BY <1>2, ConstantTypes DEF Start, HandlerInv, Busy, PortalSeesHolder
<1>3. CASE LookupMac
  <2>1. PICK mac \in IpToMac(HandledIp) :
          loop' = [loop EXCEPT !.pc = IF mac = NoMac THEN "dispatch" ELSE "stamp", !.mac = mac]
    BY <1>3 DEF LookupMac
  <2>2. /\ loop'.pc \in {"dispatch", "stamp"} /\ loop'.c = loop.c
        /\ loop'.pc = "stamp" => loop'.mac = mac /\ mac # NoMac
    BY <1>t, <2>1 DEF Loop
  <2>3. /\ conn[loop.c].state = "handled" /\ "tos" \in Req.query
        /\ mac \in conn[loop.c].held \cup {NoMac}
    BY <1>3, <1>t DEF LookupMac, IpToMac, HandledIp, HandlerInv, Busy
  <2>4. UNCHANGED <<conn, neigh>> /\ conn'[loop'.c] = conn[loop.c]
    BY <1>3, <2>2 DEF LookupMac
  <2>5. HandlerInv'
    BY <2>2, <2>3, <2>4 DEF HandlerInv, Busy, Req
  <2> QED
    BY <2>4, <2>5 DEF PortalSeesHolder
<1>4. CASE StampRule \/ AppendRule
  <2>1. /\ loop' \in Loop /\ loop'.c = loop.c /\ loop'.mac = loop.mac /\ Busy
        /\ loop.pc \in {"stamp", "append"} /\ loop'.pc \in {"append", "notify"}
    BY <1>4, <1>t, TypeStep DEF StampRule, AppendRule, Loop, Busy, TypeOK, SentryTypeOK
  <2>2. UNCHANGED <<conn, neigh>>
    BY <1>4 DEF StampRule, AppendRule
  <2> QED
    BY <2>1, <2>2, <1>l
<1>6. CASE AppendRuleFails \/ Notify \/ NotifyFails \/ DispatchPortal
  <2>1. loop' \in Loop /\ loop'.c = loop.c /\ loop'.pc \in {"dispatch", "portal"} /\ Busy
    BY <1>6, <1>t DEF AppendRuleFails, Notify, NotifyFails, DispatchPortal, Loop, Busy
  <2>2. UNCHANGED <<conn, neigh>>
    BY <1>6 DEF AppendRuleFails, Notify, NotifyFails, DispatchPortal
  <2> QED
    BY <2>1, <2>2, <1>l
<1>7. CASE FetchPortal
  <2>1. PICK mac \in IpToMac(HandledIp) :
          \/ /\ mac # NoMac
             /\ conn' = [conn EXCEPT ![loop.c] = [@ EXCEPT !.state = "fetching",
                                                           !.req = NoRequest,
                                                           !.hdr = mac]]
             /\ loop' = IdleLoop
          \/ /\ mac = NoMac
             /\ Panic
    BY <1>7 DEF FetchPortal
  <2>2. mac \in conn[loop.c].held \cup {NoMac}
    BY <1>7, <1>t DEF FetchPortal, IpToMac, HandledIp, HandlerInv, Busy
  <2>3. CASE Panic
    BY <2>3, <1>d, ConstantTypes DEF Panic, Busy
  <2>4. CASE /\ mac # NoMac
             /\ conn' = [conn EXCEPT ![loop.c] = [@ EXCEPT !.state = "fetching",
                                                           !.req = NoRequest,
                                                           !.hdr = mac]]
             /\ loop' = IdleLoop
    <3>1. /\ conn'[loop.c].state = "fetching" /\ conn'[loop.c].hdr = mac
          /\ conn'[loop.c].held = conn[loop.c].held
      BY <1>t, <2>4 DEF Conn
    <3>2. \A c \in Conns \ {loop.c} : conn'[c] = conn[c]
      BY <1>t, <2>4
    <3>3. UNCHANGED neigh /\ mac \in conn[loop.c].held
      BY <1>7, <2>2, <2>4 DEF FetchPortal
    <3> QED
      BY <2>4, <3>1, <3>2, <3>3, <1>i
  <2> QED
    BY <2>1, <2>3, <2>4
<1>p. CASE HandlerPanics
  BY <1>p, <1>d, ConstantTypes DEF HandlerPanics, Panic, Busy
<1>8. CASE ProxyReferer \/ Redirect
  <2>1. /\ conn'[loop.c].state \in {"free", "proxying"}
        /\ \A c \in Conns \ {loop.c} : conn'[c] = conn[c]
        /\ UNCHANGED neigh /\ loop' = IdleLoop
    BY <1>8, <1>t, ConstantTypes DEF ProxyReferer, Redirect, Close, Conn
  <2> QED
    BY <2>1, <1>i
<1>10. ASSUME NEW c \in Conns, Receive(c)
       PROVE  ConsentInv'
  <2>1. /\ loop'.c = c /\ UNCHANGED neigh
        /\ loop'.pc = IF ContainsSecret(conn[c].req.query) THEN "authorize" ELSE "dispatch"
    BY <1>10, ConstantTypes DEF Receive, Loop
  <2>2. /\ conn'[c].state = "handled" /\ conn'[c].ip = conn[c].ip
        /\ conn'[c].req = conn[c].req
        /\ conn'[c].held = {neigh[conn[c].ip]} \ {NoMac}
        /\ \A d \in Conns \ {c} : conn'[d] = conn[d]
    BY <1>10, <1>t DEF Receive, Conn
  <2>3. HandlerInv'
    BY <2>1, <2>2 DEF HandlerInv, Busy, Req, ContainsSecret
  <2>4. PortalSeesHolder'
    BY <2>2 DEF PortalSeesHolder
  <2> QED
    BY <2>3, <2>4
<1>11. ASSUME NEW c \in Conns, Answer(c) \/ Hangup(c)
       PROVE  ConsentInv'
  <2>1. /\ UNCHANGED <<neigh, loop>> /\ conn[c].state # "handled"
        /\ conn'[c].state = "free" /\ \A d \in Conns \ {c} : conn'[d] = conn[d]
    BY <1>11, <1>t, ConstantTypes DEF Answer, Hangup, Close
  <2> QED
    BY <2>1, <1>o
<1>12. ASSUME NEW c \in Conns, NEW ip \in Ips, Connect(c, ip)
       PROVE  ConsentInv'
  <2>1. /\ UNCHANGED <<neigh, loop>> /\ conn[c].state # "handled"
        /\ conn'[c].state = "open" /\ \A d \in Conns \ {c} : conn'[d] = conn[d]
    BY <1>12, <1>t, ConstantTypes DEF Connect, Conn
  <2> QED
    BY <2>1, <1>o
<1>13. ASSUME NEW c \in Conns, NEW req \in Requests, Send(c, req)
       PROVE  ConsentInv'
  <2>1. /\ UNCHANGED <<neigh, loop>> /\ conn[c].state # "handled"
        /\ conn'[c].state = "asking" /\ \A d \in Conns \ {c} : conn'[d] = conn[d]
    BY <1>13, <1>t DEF Send, Conn
  <2> QED
    BY <2>1, <1>o
<1>14. ASSUME NEW ip \in Ips, NEW mac \in Macs, Rebind(ip, mac)
       PROVE  ConsentInv'
  <2>1. /\ loop' = loop /\ neigh' = [neigh EXCEPT ![ip] = mac]
        /\ \A c \in Conns :
              conn'[c] = IF conn[c].state = "handled" /\ conn[c].ip = ip
                         THEN [conn[c] EXCEPT !.held = @ \cup {mac}]
                         ELSE conn[c]
    BY <1>14 DEF Rebind, Bind
  <2>2. \A c \in Conns :
           /\ conn'[c].state = conn[c].state /\ conn'[c].ip = conn[c].ip
           /\ conn'[c].req = conn[c].req /\ conn'[c].hdr = conn[c].hdr
           /\ conn[c].held \subseteq conn'[c].held
           /\ conn[c].state = "handled" /\ conn[c].ip = ip => mac \in conn'[c].held
    <3> SUFFICES ASSUME NEW c \in Conns
                 PROVE  /\ conn'[c].state = conn[c].state /\ conn'[c].ip = conn[c].ip
                        /\ conn'[c].req = conn[c].req /\ conn'[c].hdr = conn[c].hdr
                        /\ conn[c].held \subseteq conn'[c].held
                        /\ conn[c].state = "handled" /\ conn[c].ip = ip
                              => mac \in conn'[c].held
      OBVIOUS
    <3> DEFINE x == conn[c]
               y == [x EXCEPT !.held = @ \cup {mac}]
    <3>1. x \in Conn /\ conn'[c] \in {x, y} /\ (x.state = "handled" /\ x.ip = ip => conn'[c] = y)
      BY <1>t, <2>1
    <3> HIDE DEF x
    <3>2. /\ y.state = x.state /\ y.ip = x.ip /\ y.req = x.req /\ y.hdr = x.hdr
          /\ y.held = x.held \cup {mac}
      BY <3>1 DEF Conn
    <3> HIDE DEF y
    <3> QED
      BY <3>1, <3>2 DEF x
  <2>3. ASSUME NEW c \in Conns, conn'[c].state = "handled"
        PROVE  neigh'[conn'[c].ip] \in conn'[c].held \cup {NoMac}
    <3>1. conn[c].ip \in Ips /\ neigh[conn[c].ip] \in conn[c].held \cup {NoMac}
      BY <1>t, <2>2, <2>3 DEF HandlerInv, Conn
    <3>2. CASE conn[c].ip = ip
      BY <1>t, <2>1, <2>2, <2>3, <3>2
    <3>3. CASE conn[c].ip # ip
      BY <1>t, <2>1, <2>2, <3>1, <3>3
    <3> QED
      BY <3>2, <3>3
  <2>4. HandlerInv'
    BY <1>t, <2>1, <2>2, <2>3 DEF HandlerInv, Busy, Req
  <2>5. PortalSeesHolder'
    BY <2>2 DEF PortalSeesHolder
  <2> QED
    BY <2>4, <2>5
<1>15. ASSUME NEW ip \in Ips, Evict(ip), UNCHANGED sentryVars
       PROVE  ConsentInv'
  <2>1. \A i \in Ips : neigh'[i] \in {neigh[i], NoMac}
    BY <1>15, <1>t DEF Evict
  <2>2. \A c \in Conns : conn[c].ip \in Ips
    BY <1>t DEF Conn
  <2> QED
    BY <1>15, <2>1, <2>2 DEF HandlerInv, Busy, Req, PortalSeesHolder
<1>16. CASE /\ UNCHANGED sentryVars
            /\ \/ Tick \/ StepClock \/ WriteValidFile
               \/ \E k \in Checkers : List(k) \/ ListFails(k) \/ Examine(k)
                                       \/ Delete(k) \/ DeleteFails(k) \/ Finish(k)
  BY <1>16, <1>1 DEF Tick, StepClock, WriteValidFile, List, ListFails, Examine,
                     Delete, DeleteFails, Finish
<1> QED
  BY StepCases, <1>1, <1>2, <1>3, <1>4, <1>6, <1>7, <1>p, <1>8, <1>10, <1>11,
     <1>12, <1>13, <1>14, <1>15, <1>16

-----------------------------------------------------------------------------
(***************************************************************************)
(* When access begins and ends.                                            *)
(***************************************************************************)

\* The part of it about rules and times.
TimeInv == StampInv /\ ClockInv /\ MessageAfterRule /\ CheckInv

\* It holds at the start: nothing was appended and no check runs.
LEMMA TimeInit == Init => TimeInv
<1> SUFFICES ASSUME Init PROVE TimeInv
  OBVIOUS
<1>1. /\ loop.pc = "down" /\ appended = {} /\ accepted = {}
      /\ \A k \in Checkers : check[k].pc = "idle"
      /\ uptime = 0 /\ now = 0 /\ stepped = 0
  BY ConstantTypes DEF Init, SentryInit, AccessInit, RouterInit
<1>2. \A i \in DOMAIN chain : ~ Parses(chain[i])
  <2>1. CASE chain = <<>>
    BY <2>1
  <2>2. CASE chain = <<ForeignRule>>
    BY <2>2 DEF Parses, ForeignRule
  <2> QED
    BY <2>1, <2>2 DEF Init, RouterInit
<1> QED
  BY <1>1, <1>2 DEF TimeInv, StampInv, ClockInv, MessageAfterRule, CheckInv

\* The clock never runs backwards.
LEMMA ClockMonotone == TypeOK /\ [Next]_vars => now' \in Nat /\ now <= now'
<1> SUFFICES ASSUME TypeOK, [Next]_vars PROVE now <= now'
  BY TypeStep DEF TypeOK, RouterTypeOK
<1>1. now \in Nat
  BY DEF TypeOK, RouterTypeOK
<1>2. UNCHANGED now \/ Tick \/ StepClock
  BY StepCases DEF Start, LookupMac, StampRule, AppendRule, AppendRuleFails, Notify,
     NotifyFails, DispatchPortal, FetchPortal, HandlerPanics, ProxyReferer, Redirect, Send,
     Receive, Answer, Hangup, Connect, Rebind, Bind, Evict, WriteValidFile, List, ListFails, Examine,
     Delete, DeleteFails, Finish
<1> QED
  BY <1>1, <1>2, BoundsAssumption DEF Tick, StepClock

\* A step of Sentry, of the clock or of the network keeps what checks rely on.
LEMMA CheckStepInv == TypeOK /\ CheckInv /\ [Next]_vars => CheckInv'
<1> SUFFICES ASSUME TypeOK, CheckInv, [Next]_vars, NEW k \in Checkers
             PROVE  /\ check'[k].pc # "idle" => MinValidTime <= check'[k].valid
                    /\ check'[k].pc = "delete" =>
                          /\ Parses(Head(check'[k].rules))
                          /\ Head(check'[k].rules).ts + check'[k].valid < now'
  BY DEF CheckInv, Parses
<1>1. now \in Nat /\ now' \in Nat /\ now <= now'
  BY ClockMonotone DEF TypeOK, RouterTypeOK
<1>2. check \in [Checkers -> Check] /\ \A c \in Checkers : check[c].pc = "delete" => check[c].rules # <<>>
  BY DEF TypeOK, AccessTypeOK
<1>3. CASE check'[k] = check[k]
  <2>1. ASSUME check[k].pc = "delete"
        PROVE  Head(check[k].rules).ts \in Int /\ check[k].valid \in Int
    <3>1. Head(check[k].rules) \in Rule
      BY <1>2, <2>1, HeadTailProperties DEF Check
    <3> QED
      BY <3>1, <1>2 DEF Rule, Check
  <2> QED
    BY <1>1, <1>3, <2>1 DEF CheckInv
<1>4. CASE List(k)
  <2>1. MinValidTime <= ReadValidTime(validFile)
    BY ValidTimeAssumption DEF TypeOK, AccessTypeOK
  <2> QED
    BY <1>4, <1>2, <2>1 DEF List
<1>5. CASE ListFails(k) \/ DeleteFails(k) \/ Finish(k)
  BY <1>5, <1>2 DEF ListFails, DeleteFails, Finish, Return, NoCheck
<1>6. CASE Examine(k)
  BY <1>6, <1>2 DEF Examine, IsExpired, CheckInv, Check
<1>7. CASE Delete(k)
  BY <1>7, <1>2 DEF Delete, CheckInv, Check
<1>8. ASSUME NEW c \in Checkers, c # k,
             List(c) \/ ListFails(c) \/ Examine(c) \/ Delete(c) \/ DeleteFails(c) \/ Finish(c)
      PROVE  check'[k] = check[k]
  BY <1>8, <1>2 DEF List, ListFails, Examine, Delete, DeleteFails, Finish, Return
<1> QED
  BY StepCases, <1>3, <1>4, <1>5, <1>6, <1>7, <1>8 DEF WriteValidFile

\* What each step may do to the stamps: a stamp is read from the clock, a rule
\* is appended with the stamp that was read, rules and messages only refer to
\* what was appended before.
LEMMA StampStep == TypeOK /\ TimeInv /\ [Next]_vars
                     => StampInv' /\ ClockInv' /\ MessageAfterRule'
<1> SUFFICES ASSUME TypeOK, TimeInv, [Next]_vars
             PROVE  StampInv' /\ ClockInv' /\ MessageAfterRule'
  OBVIOUS
<1>t. /\ loop \in Loop /\ chain \in Seq(Rule) /\ appended \subseteq Appended
      /\ accepted \subseteq Accepted /\ now \in Nat /\ uptime \in Nat /\ stepped \in Nat
  BY DEF TypeOK, SentryTypeOK, RouterTypeOK
<1>n. now' \in Nat /\ now <= now'
  BY ClockMonotone
<1> USE DEF TimeInv
<1>1. ASSUME UNCHANGED <<now, uptime, stepped, appended, accepted>>,
             loop'.pc \notin {"append", "notify"},
             \A i \in DOMAIN chain' : \E j \in DOMAIN chain : chain'[i] = chain[j]
      PROVE  StampInv' /\ ClockInv' /\ MessageAfterRule'
  BY <1>1 DEF StampInv, ClockInv, MessageAfterRule, Parses
<1>2. ASSUME UNCHANGED <<now, uptime, stepped, loop, appended, accepted>>,
             \A i \in DOMAIN chain' : \E j \in DOMAIN chain : chain'[i] = chain[j]
      PROVE  StampInv' /\ ClockInv' /\ MessageAfterRule'
  BY <1>2 DEF StampInv, ClockInv, MessageAfterRule, Parses
<1>3. CASE Start \/ FetchPortal \/ HandlerPanics \/ ProxyReferer \/ Redirect
  <2>1. UNCHANGED <<chain, now, uptime, stepped, appended, accepted>> /\ loop'.pc \in {"idle", "down"}
    BY <1>3, ConstantTypes DEF Start, FetchPortal, HandlerPanics, Panic, ProxyReferer,
       Redirect
  <2> QED
    BY <2>1, <1>1
<1>4. CASE LookupMac \/ AppendRuleFails \/ NotifyFails \/ DispatchPortal
  <2>1. UNCHANGED <<chain, now, uptime, stepped, appended, accepted>>
        /\ loop'.pc \in {"dispatch", "stamp", "portal"}
    BY <1>4, <1>t DEF LookupMac, AppendRuleFails, NotifyFails, DispatchPortal, Loop
  <2> QED
    BY <2>1, <1>1
<1>5. CASE StampRule
  BY <1>5, <1>t DEF StampRule, StampInv, ClockInv, MessageAfterRule, Loop, Parses
<1>6. CASE AppendRule
  <2> DEFINE a == [mac |-> loop.mac, ts |-> loop.ts, since |-> loop.since,
                   stepped |-> loop.stepped, at |-> uptime]
  <2>1. /\ a \in appended' /\ appended' = appended \cup {a}
        /\ a.mac = loop.mac /\ a.ts = loop.ts /\ a.since = loop.since
        /\ a.stepped = loop.stepped
        /\ loop.ts <= now /\ loop.ts = loop.since + loop.stepped
        /\ UNCHANGED <<now, uptime, stepped, accepted>>
        /\ loop'.pc = "notify" /\ loop'.mac = loop.mac
    BY <1>6, <1>t DEF AppendRule, StampInv, ClockInv, Loop
  <2> HIDE DEF a
  <2>2. [mac |-> loop.mac, ts |-> loop.ts] \in Rule
    BY <1>t DEF Loop, Rule
  <2>3. /\ DOMAIN chain' = 1 .. Len(chain) + 1
        /\ \A i \in 1 .. Len(chain) : chain'[i] = chain[i]
        /\ chain'[Len(chain) + 1] = [mac |-> loop.mac, ts |-> loop.ts]
        /\ DOMAIN chain = 1 .. Len(chain) /\ Len(chain) \in Nat
    BY <1>6, <1>t, <2>2, AppendProperties, LenProperties DEF AppendRule, IptablesAppend
  <2>4. \A i \in DOMAIN chain' : Parses(chain'[i]) =>
           \E b \in appended' : b.mac = chain'[i].mac /\ b.ts = chain'[i].ts
    <3> SUFFICES ASSUME NEW i \in DOMAIN chain', Parses(chain'[i])
                 PROVE  \E b \in appended' : b.mac = chain'[i].mac /\ b.ts = chain'[i].ts
      OBVIOUS
    <3>1. CASE i \in 1 .. Len(chain)
      BY <3>1, <2>1, <2>3 DEF StampInv, Parses
    <3>2. CASE i = Len(chain) + 1
      BY <3>2, <2>1, <2>3
    <3> QED
      BY <3>1, <3>2, <2>3
  <2>5. StampInv'
    BY <2>1, <2>4 DEF StampInv, Parses
  <2>6. ClockInv'
    <3>1. now' = uptime' + stepped' /\ loop'.pc # "append"
      BY <2>1 DEF ClockInv
    <3>2. \A b \in appended' : b.ts = b.since + b.stepped
      BY <2>1 DEF ClockInv
    <3> QED
      BY <3>1, <3>2 DEF ClockInv
  <2>7. MessageAfterRule'
    BY <2>1 DEF MessageAfterRule
  <2> QED
    BY <2>5, <2>6, <2>7
<1>7. CASE Notify
  <2>1. /\ UNCHANGED <<chain, now, uptime, stepped, appended>> /\ loop'.pc = "dispatch"
        /\ accepted' = accepted \cup {[ip |-> HandledIp, mac |-> loop.mac, ts |-> now]}
        /\ \E a \in appended : a.mac = loop.mac /\ a.ts <= now
    BY <1>7, <1>t DEF Notify, StampInv, Loop
  <2> QED
    BY <2>1 DEF StampInv, ClockInv, MessageAfterRule, Parses
<1>8. ASSUME NEW c \in Conns, Receive(c)
      PROVE  StampInv' /\ ClockInv' /\ MessageAfterRule'
  <2>1. UNCHANGED <<chain, now, uptime, stepped, appended, accepted>>
        /\ loop'.pc \in {"authorize", "dispatch"}
    BY <1>8, ConstantTypes DEF Receive, Loop
  <2> QED
    BY <2>1, <1>1
<1>9. CASE (Tick \/ StepClock) /\ UNCHANGED sentryVars
  <2>1. /\ UNCHANGED <<chain, loop, appended, accepted>>
        /\ now' = uptime' + stepped'
    <3>1. now = uptime + stepped
      BY DEF ClockInv
    <3>2. CASE Tick
      BY <1>t, <3>1, <3>2, <1>9 DEF Tick
    <3>3. CASE StepClock
      <4>1. PICK n \in 1 .. MaxStepped - stepped : now' = now + n /\ stepped' = stepped + n
        BY <3>3 DEF StepClock
      <4> QED
        BY <1>t, <3>1, <3>3, <4>1, <1>9, BoundsAssumption DEF StepClock
    <3> QED
      BY <1>9, <3>2, <3>3
  <2>2. \A a \in appended : a.ts \in Nat
    BY <1>t DEF Appended
  <2>3. StampInv'
    BY <1>t, <1>n, <2>1, <2>2 DEF StampInv, Parses, Loop
  <2>4. ClockInv' /\ MessageAfterRule'
    BY <2>1 DEF ClockInv, MessageAfterRule
  <2> QED
    BY <2>3, <2>4
<1>10. CASE \/ \E c \in Conns : Answer(c) \/ Hangup(c)
            \/ \E c \in Conns, ip \in Ips : Connect(c, ip)
            \/ \E c \in Conns, req \in Requests : Send(c, req)
            \/ \E ip \in Ips, mac \in Macs : Rebind(ip, mac)
            \/ (\E ip \in Ips : Evict(ip)) /\ UNCHANGED sentryVars
  <2>1. UNCHANGED <<chain, now, uptime, stepped, loop, appended, accepted>>
    BY <1>10 DEF Answer, Hangup, Connect, Send, Rebind, Bind, Evict
  <2> QED
    BY <2>1, <1>2
<1>11. CASE /\ UNCHANGED sentryVars
            /\ \/ WriteValidFile
               \/ \E k \in Checkers : List(k) \/ ListFails(k) \/ Examine(k)
                                       \/ DeleteFails(k) \/ Finish(k)
  <2>1. UNCHANGED <<chain, now, uptime, stepped, loop, appended, accepted>>
    BY <1>11 DEF WriteValidFile, List, ListFails, Examine, DeleteFails, Finish
  <2> QED
    BY <2>1, <1>2
<1>12. ASSUME NEW k \in Checkers, Delete(k), UNCHANGED sentryVars
       PROVE  StampInv' /\ ClockInv' /\ MessageAfterRule'
  <2>1. \A i \in DOMAIN chain' : \E j \in DOMAIN chain : chain'[i] = chain[j]
    BY <1>12, <1>t, RemoveFirstFacts DEF Delete, IptablesDelete
  <2> QED
    BY <1>12, <2>1, <1>2 DEF Delete
<1> QED
  BY StepCases, <1>2, <1>3, <1>4, <1>5, <1>6, <1>7, <1>8, <1>9, <1>10, <1>11, <1>12

\* The whole invariant.
LEMMA Invariant == Spec => []IInv
<1>1. TypeOK /\ TimeInv /\ [Next]_vars => TimeInv'
  BY StampStep, CheckStepInv DEF TimeInv
<1>2. Spec => [](TypeOK /\ ConsentInv /\ TimeInv)
  BY TypeInit, TypeStep, ConsentInit, ConsentStep, TimeInit, <1>1, PTL DEF Spec
<1>3. TypeOK /\ ConsentInv /\ TimeInv => IInv
  BY DEF IInv, ConsentInv, TimeInv
<1> QED
  BY <1>2, <1>3, PTL

\* Sentry::fetch_portal: the portal is told of a device that had the address of
\* the request while it was handled, although entries vanish and addresses move
\* between the two lookups of the MAC.
THEOREM Holder == Spec => []PortalSeesHolder
  BY Invariant, PTL DEF IInv

\* Each /sentry/accept message follows the append of a rule for its device.
THEOREM Messages == Spec => []MessageAfterRule
  BY Invariant, PTL DEF IInv

\* What happens to the set of rules in a step: it changes only when Sentry
\* appends one, or when a check deletes one that expired.
LEMMA ChainStep ==
    ASSUME IInv, [Next]_vars, chain' # chain
    PROVE  \/ /\ AppendRule
              /\ UNCHANGED now
           \/ \E k \in Checkers :
                /\ Delete(k)
                /\ UNCHANGED <<now, uptime, stepped, sentryVars>>
                /\ Parses(Head(check[k].rules))
                /\ Head(check[k].rules) \in Rule
                /\ Head(check[k].rules).ts + check[k].valid < now
                /\ MinValidTime <= check[k].valid /\ check[k].valid \in Int
                /\ ToRuleSpec(Head(check[k].rules)) = Head(check[k].rules)
                /\ check'[k] # check[k]
<1>1. AppendRule \/ \E k \in Checkers : Delete(k) /\ UNCHANGED sentryVars
  BY StepCases DEF Start, LookupMac, StampRule, AppendRuleFails, Notify,
     NotifyFails, DispatchPortal, FetchPortal, HandlerPanics, ProxyReferer, Redirect, Send, Receive,
     Answer, Hangup, Connect, Rebind, Bind, Evict, Tick, StepClock, WriteValidFile, List,
     ListFails, Examine, DeleteFails, Finish
<1>2. CASE AppendRule
  BY <1>2 DEF AppendRule
<1>3. ASSUME NEW k \in Checkers, Delete(k), UNCHANGED sentryVars
      PROVE  /\ UNCHANGED <<now, uptime, stepped, sentryVars>>
             /\ Parses(Head(check[k].rules))
             /\ Head(check[k].rules) \in Rule
             /\ Head(check[k].rules).ts + check[k].valid < now
             /\ MinValidTime <= check[k].valid /\ check[k].valid \in Int
             /\ ToRuleSpec(Head(check[k].rules)) = Head(check[k].rules)
             /\ check'[k] # check[k]
  <2>1. check[k].pc = "delete" /\ check[k] \in Check /\ check[k].rules # <<>>
    BY <1>3 DEF Delete, IInv, TypeOK, AccessTypeOK
  <2>2. Head(check[k].rules) \in Rule
    BY <2>1, HeadTailProperties DEF Check
  <2>3. /\ Head(check[k].rules).ts + check[k].valid < now
        /\ MinValidTime <= check[k].valid /\ check[k].valid \in Int
        /\ Parses(Head(check[k].rules))
    BY <2>1 DEF IInv, CheckInv, Check
  <2>4. ToRuleSpec(Head(check[k].rules)) = Head(check[k].rules)
    BY <2>2 DEF ToRuleSpec, Rule
  <2>5. check'[k].pc = "loop"
    BY <1>3 DEF Delete, IInv, TypeOK, AccessTypeOK, Check
  <2> QED
    BY <1>3, <2>1, <2>2, <2>3, <2>4, <2>5 DEF Delete
<1> QED
  BY <1>1, <1>2, <1>3

\* Deleting a rule specification removes at most the rules equal to it.
LEMMA DeleteFacts ==
    ASSUME chain \in Seq(Rule), NEW rule, IptablesDelete(rule)
    PROVE  /\ ToSet(chain') \subseteq ToSet(chain)
           /\ ToSet(chain) \ ToSet(chain') \subseteq {rule}
<1>1. /\ \A i \in DOMAIN chain' : \E j \in DOMAIN chain : chain'[i] = chain[j]
      /\ \A j \in DOMAIN chain : chain[j] # rule =>
            \E i \in DOMAIN chain' : chain'[i] = chain[j]
  BY RemoveFirstFacts DEF IptablesDelete
<1> QED
  BY <1>1 DEF ToSet

\* Appending adds the rule to those in the chain.
LEMMA AppendFacts ==
    ASSUME chain \in Seq(Rule), NEW rule \in Rule, IptablesAppend(rule)
    PROVE  ToSet(chain') = ToSet(chain) \cup {rule}
<1>1. /\ DOMAIN chain' = 1 .. Len(chain) + 1
      /\ \A i \in 1 .. Len(chain) : chain'[i] = chain[i]
      /\ chain'[Len(chain) + 1] = rule
      /\ DOMAIN chain = 1 .. Len(chain) /\ Len(chain) \in Nat
  BY AppendProperties, LenProperties DEF IptablesAppend
<1>2. ASSUME NEW x \in ToSet(chain') PROVE x \in ToSet(chain) \cup {rule}
  <2>1. PICK i \in 1 .. Len(chain) + 1 : x = chain'[i]
    BY <1>1 DEF ToSet
  <2>2. i \in 1 .. Len(chain) \/ i = Len(chain) + 1
    BY <1>1
  <2> QED
    BY <2>1, <2>2, <1>1 DEF ToSet
<1>3. ASSUME NEW x \in ToSet(chain) PROVE x \in ToSet(chain')
  <2>1. PICK i \in 1 .. Len(chain) : x = chain[i]
    BY <1>1 DEF ToSet
  <2>2. i \in DOMAIN chain' /\ chain'[i] = x
    BY <1>1, <2>1
  <2> QED
    BY <2>2 DEF ToSet
<1>4. rule \in ToSet(chain')
  <2>1. Len(chain) + 1 \in DOMAIN chain'
    BY <1>1
  <2> QED
    BY <2>1, <1>1 DEF ToSet
<1> QED
  BY <1>2, <1>3, <1>4

-----------------------------------------------------------------------------
(***************************************************************************)
(* A check that runs alone finds every rule it listed.                     *)
(***************************************************************************)

\* f takes the places of s, in their order, to places of t with the same rules.
Places(f, s, t) ==
    /\ f \in [1 .. Len(s) -> 1 .. Len(t)]
    /\ \A i, j \in 1 .. Len(s) : i < j => f[i] < f[j]
    /\ \A i \in 1 .. Len(s) : s[i] = t[f[i]]

\* The rules s are all in t, in their order: equal ones as often.
Within(s, t) == \E f : Places(f, s, t)

\* While no command has failed, what a lone check has still to look at is in the
\* chain, and it has not given up.
LoneInv ==
    faults = 0 => \A c \in Checkers : Alone(c) =>
        check[c].result # "err" /\ Within(check[c].rules, chain)

\* A chain is within itself.
LEMMA WithinItself ==
    ASSUME NEW s \in Seq(Rule)
    PROVE  Within(s, s)
<1> DEFINE f == [i \in 1 .. Len(s) |-> i]
<1>1. Len(s) \in Nat
  OBVIOUS
<1>2. Places(f, s, s)
  BY <1>1 DEF Places
<1> QED
  BY <1>2 DEF Within

\* Nothing is within every chain.
LEMMA EmptyWithin ==
    ASSUME NEW t \in Seq(Rule)
    PROVE  Within(<<>>, t)
<1> DEFINE f == [i \in 1 .. 0 |-> 1]
<1>1. Len(<<>>) = 0
  OBVIOUS
<1>2. f \in [1 .. 0 -> 1 .. Len(t)] /\ \A i \in 1 .. 0 : FALSE
  OBVIOUS
<1> HIDE DEF f
<1>3. Places(f, <<>>, t)
  BY <1>1, <1>2 DEF Places
<1> QED
  BY <1>3 DEF Within

\* Appending a rule leaves what was listed in the chain.
LEMMA AppendWithin ==
    ASSUME NEW s \in Seq(Rule), NEW t \in Seq(Rule), NEW rule \in Rule, Within(s, t)
    PROVE  Within(s, Append(t, rule))
<1>1. PICK f : Places(f, s, t)
  BY DEF Within
<1> DEFINE u == Append(t, rule)
<1>2. Len(t) \in Nat /\ Len(u) = Len(t) + 1 /\ \A i \in 1 .. Len(t) : u[i] = t[i]
  BY AppendProperties
<1> HIDE DEF u
<1>3. f \in [1 .. Len(s) -> 1 .. Len(u)] /\ \A i \in 1 .. Len(s) : f[i] \in 1 .. Len(t)
  BY <1>1, <1>2, SMTT(60) DEF Places
<1>4. Places(f, s, u)
  BY <1>1, <1>2, <1>3 DEF Places
<1> QED
  BY <1>4 DEF Within, u

\* The rule looked at next is in the chain.
LEMMA HeadWithin ==
    ASSUME NEW s \in Seq(Rule), NEW t \in Seq(Rule), Within(s, t), s # <<>>
    PROVE  Head(s) \in ToSet(t)
<1>1. PICK f : Places(f, s, t)
  BY DEF Within
<1>2. 1 \in 1 .. Len(s) /\ Head(s) = s[1]
  OBVIOUS
<1>3. f[1] \in 1 .. Len(t) /\ s[1] = t[f[1]]
  BY <1>1, <1>2 DEF Places
<1> QED
  BY <1>2, <1>3 DEF ToSet

\* So are the ones behind it.
LEMMA TailWithin ==
    ASSUME NEW s \in Seq(Rule), NEW t \in Seq(Rule), Within(s, t), s # <<>>
    PROVE  Within(Tail(s), t)
<1>1. PICK f : Places(f, s, t)
  BY DEF Within
<1> DEFINE u == Tail(s)
           g == [i \in 1 .. Len(u) |-> f[i + 1]]
<1>2. /\ Len(s) \in Nat /\ Len(u) = Len(s) - 1 /\ Len(t) \in Nat
      /\ \A i \in 1 .. Len(u) : u[i] = s[i + 1]
  BY HeadTailProperties
<1> HIDE DEF u
<1>3. \A i \in 1 .. Len(u) : i + 1 \in 1 .. Len(s)
  BY <1>2
<1>4. g \in [1 .. Len(u) -> 1 .. Len(t)] /\ \A i \in 1 .. Len(u) : g[i] = f[i + 1]
  BY <1>1, <1>3 DEF Places
<1> HIDE DEF g
<1>5. \A i, j \in 1 .. Len(u) : i < j => g[i] < g[j]
  BY <1>1, <1>2, <1>3, <1>4 DEF Places
<1>6. \A i \in 1 .. Len(u) : u[i] = t[g[i]]
  BY <1>1, <1>2, <1>3, <1>4, SMTT(60) DEF Places
<1>7. Places(g, u, t)
  BY <1>4, <1>5, <1>6 DEF Places
<1> QED
  BY <1>7 DEF Within, u

\* And they are after the rule looked at was deleted, although it is the first
\* equal one in the chain that iptables -D removes.
LEMMA DeleteWithin ==
    ASSUME NEW s \in Seq(Rule), NEW t \in Seq(Rule), Within(s, t), s # <<>>
    PROVE  Within(Tail(s), RemoveFirst(t, Head(s)))
<1>1. PICK f : Places(f, s, t)
  BY DEF Within
<1> DEFINE u == Tail(s)
           e == Head(s)
           v == RemoveFirst(t, e)
           g == [i \in 1 .. Len(u) |-> f[i + 1] - 1]
<1>2. /\ Len(s) \in Nat /\ Len(u) = Len(s) - 1 /\ Len(t) \in Nat
      /\ \A i \in 1 .. Len(u) : u[i] = s[i + 1]
  BY HeadTailProperties
<1>3. 1 \in 1 .. Len(s) /\ e = s[1]
  OBVIOUS
<1> HIDE DEF u, e
<1>4. /\ \A i \in 1 .. Len(s) : f[i] \in 1 .. Len(t) /\ s[i] = t[f[i]]
      /\ \A i, j \in 1 .. Len(s) : i < j => f[i] < f[j]
  BY <1>1 DEF Places
<1>5. f[1] \in 1 .. Len(t) /\ t[f[1]] = e
  BY <1>3, <1>4
<1>6. PICK k \in 1 .. Len(t) : /\ \A i \in 1 .. Len(t) : t[i] = e => k <= i
                              /\ Without(t, k, v)
  BY <1>5, RemoveFirstIs
<1> HIDE DEF v
<1>7. k <= f[1]
  BY <1>5, <1>6
<1>8. Len(v) = Len(t) - 1 /\ \A i \in 1 .. Len(v) : v[i] = IF i < k THEN t[i] ELSE t[i + 1]
  BY <1>6 DEF Without
<1>9. ASSUME NEW i \in 1 .. Len(u)
      PROVE  i + 1 \in 1 .. Len(s) /\ f[i + 1] \in 1 .. Len(t) /\ k < f[i + 1]
  <2>1. i + 1 \in 1 .. Len(s) /\ 1 < i + 1
    BY <1>2
  <2>2. f[1] < f[i + 1] /\ f[i + 1] \in 1 .. Len(t)
    BY <1>3, <1>4, <2>1
  <2> QED
    BY <1>5, <1>7, <2>1, <2>2
<1>10. ASSUME NEW i \in 1 .. Len(u)
       PROVE  g[i] = f[i + 1] - 1 /\ g[i] \in 1 .. Len(v) /\ v[g[i]] = u[i]
  <2>1. g[i] = f[i + 1] - 1
    OBVIOUS
  <2> DEFINE m == f[i + 1]
  <2>2. m \in 1 .. Len(t) /\ k < m /\ i + 1 \in 1 .. Len(s)
    BY <1>9
  <2>3. s[i + 1] = t[m] /\ u[i] = s[i + 1]
    BY <1>2, <1>4, <2>2
  <2> HIDE DEF m
  <2>4. m - 1 \in 1 .. Len(v) /\ ~(m - 1 < k) /\ m - 1 + 1 = m
    BY <1>2, <1>8, <2>2
  <2>5. v[m - 1] = t[m]
    BY <1>8, <2>4
  <2> QED
    BY <2>1, <2>3, <2>4, <2>5 DEF m
<1>11. g \in [1 .. Len(u) -> 1 .. Len(v)]
  BY <1>10
<1> HIDE DEF g
<1>12. ASSUME NEW i \in 1 .. Len(u), NEW j \in 1 .. Len(u), i < j PROVE g[i] < g[j]
  <2>1. f[i + 1] < f[j + 1] /\ f[i + 1] \in Int /\ f[j + 1] \in Int
    BY <1>2, <1>4, <1>9, <1>12
  <2>2. g[i] = f[i + 1] - 1 /\ g[j] = f[j + 1] - 1
    BY <1>10
  <2> QED
    BY <2>1, <2>2
<1>13. Places(g, u, v)
  BY <1>10, <1>11, <1>12 DEF Places
<1> QED
  BY <1>13 DEF Within, u, v, e

\* At the start no check has listed anything.
LEMMA LoneInit == Init => LoneInv
<1> SUFFICES ASSUME Init, NEW c \in Checkers
             PROVE  check[c].result # "err" /\ Within(check[c].rules, chain)
  BY DEF LoneInv
<1>1. check[c].result = "none" /\ check[c].rules = <<>>
  BY DEF Init, AccessInit, NoCheck
<1>2. chain \in Seq(Rule)
  BY TypeInit DEF TypeOK, RouterTypeOK
<1> QED
  BY <1>1, <1>2, EmptyWithin

\* Only the check itself takes rules away.
LEMMA LoneStep == TypeOK /\ LoneInv /\ [Next]_vars => LoneInv'
<1> SUFFICES ASSUME TypeOK, LoneInv, [Next]_vars, faults' = 0,
                    NEW c \in Checkers, Alone(c)'
             PROVE  check'[c].result # "err" /\ Within(check'[c].rules, chain')
  BY DEF LoneInv
<1>1. /\ chain \in Seq(Rule) /\ loop \in Loop /\ faults \in Nat
      /\ check \in [Checkers -> Check] /\ check[c] \in Check /\ check[c].rules \in Seq(Rule)
  BY DEF TypeOK, RouterTypeOK, SentryTypeOK, AccessTypeOK, Check
<1>2. chain' \in Seq(Rule)
  BY TypeStep DEF TypeOK, RouterTypeOK
<1>3. ASSUME NEW d \in Checkers, d # c
      PROVE  ~(List(d) \/ ListFails(d) \/ Examine(d) \/ Delete(d) \/ DeleteFails(d) \/ Finish(d))
  <2>1. check'[d].pc = "idle" /\ check'[d].result = "none"
    BY <1>3 DEF Alone, NoCheck
  <2>2. check \in [Checkers -> Check] /\ check[d] \in [pc : {"idle", "loop", "delete"},
               rules : Seq(Rule), valid : Int, result : {"none", "ok", "err"}]
    BY <1>1 DEF Check
  <2>3. ~List(d)
    BY <2>1, <2>2 DEF List
  <2>4. ~ListFails(d) /\ ~DeleteFails(d) /\ ~Finish(d)
    BY <2>1, <2>2 DEF ListFails, DeleteFails, Finish, Return, NoCheck
  <2>5. ~Examine(d)
    <3>1. ASSUME Examine(d) PROVE check'[d].pc \in {"loop", "delete"}
      BY <2>2, <3>1 DEF Examine
    <3> QED
      BY <2>1, <3>1
  <2>6. ~Delete(d)
    BY <2>1, <2>2 DEF Delete
  <2> QED
    BY <2>3, <2>4, <2>5, <2>6
<1>4. faults = 0 /\ UNCHANGED faults
  <2>1. faults' = faults \/ faults' = faults + 1
    BY StepCases DEF Start, LookupMac, StampRule, AppendRule, AppendRuleFails, Notify,
       NotifyFails, DispatchPortal, FetchPortal, HandlerPanics, ProxyReferer, Redirect, Send, Receive,
       Answer, Hangup, Connect, Rebind, Bind, Evict, Tick, StepClock, WriteValidFile, List,
       ListFails, Examine, Delete, DeleteFails, Finish, IptablesFault
  <2> QED
    BY <1>1, <2>1
<1>5. check[c].result # "err" /\ Within(check[c].rules, chain)
  <2>1. ASSUME NEW d \in Checkers \ {c} PROVE check[d] = check'[d]
    BY <1>1, <1>3, StepCases DEF Start, LookupMac, StampRule, AppendRule, AppendRuleFails, Notify,
       NotifyFails, DispatchPortal, FetchPortal, HandlerPanics, ProxyReferer, Redirect, Send, Receive,
       Answer, Hangup, Connect, Rebind, Bind, Evict, Tick, StepClock, WriteValidFile, List,
       ListFails, Examine, Delete, DeleteFails, Finish, Return, accessVars
  <2>2. Alone(c)
    BY <2>1 DEF Alone
  <2> QED
    BY <1>4, <2>2 DEF LoneInv
<1>6. CASE UNCHANGED <<chain, check>>
  BY <1>5, <1>6
<1>7. CASE AppendRule /\ UNCHANGED accessVars
  <2>1. [mac |-> loop.mac, ts |-> loop.ts] \in Rule
    BY <1>1 DEF Loop, Rule
  <2>2. chain' = Append(chain, [mac |-> loop.mac, ts |-> loop.ts]) /\ check' = check
    BY <1>7 DEF AppendRule, IptablesAppend
  <2>3. Within(check[c].rules, chain')
    BY <1>1, <1>5, <2>1, <2>2, AppendWithin
  <2> QED
    BY <1>5, <2>2, <2>3
<1>8. CASE List(c)
  <2>1. check'[c].rules = chain /\ check'[c].result = "none" /\ chain' = chain
    BY <1>1, <1>8 DEF List
  <2> QED
    BY <1>1, <2>1, WithinItself
<1>9. CASE Finish(c)
  <2>1. check'[c].rules = <<>> /\ check'[c].result = "ok" /\ chain' = chain
    BY <1>1, <1>9 DEF Finish, Return, NoCheck
  <2> QED
    BY <1>1, <2>1, EmptyWithin
<1>10. CASE ListFails(c)
  <2>1. faults' = faults + 1
    BY <1>10 DEF ListFails, IptablesFault
  <2> QED
    BY <1>4, <2>1
<1>11. CASE Examine(c)
  <2>1. /\ check[c].rules # <<>> /\ chain' = chain /\ check'[c].result = check[c].result
        /\ check'[c].rules \in {check[c].rules, Tail(check[c].rules)}
    BY <1>1, <1>11 DEF Examine, Check
  <2>2. Within(Tail(check[c].rules), chain)
    BY <1>1, <1>5, <2>1, TailWithin
  <2> QED
    BY <1>5, <2>1, <2>2
<1>12. ASSUME check[c].pc = "delete"
       PROVE  /\ check[c].rules # <<>> /\ Head(check[c].rules) \in ToSet(chain)
              /\ ToRuleSpec(Head(check[c].rules)) = Head(check[c].rules)
  <2>1. check[c].rules # <<>>
    BY <1>12 DEF TypeOK, AccessTypeOK
  <2>2. Head(check[c].rules) \in Rule
    BY <1>1, <2>1, HeadTailProperties
  <2>3. Head(check[c].rules) \in ToSet(chain)
    BY <1>1, <1>5, <2>1, HeadWithin
  <2> QED
    BY <2>1, <2>2, <2>3 DEF ToRuleSpec, Rule
<1>13. CASE Delete(c)
  <2>1. check[c].pc = "delete"
    BY <1>13 DEF Delete
  <2>2. /\ chain' = RemoveFirst(chain, Head(check[c].rules))
        /\ check'[c].rules = Tail(check[c].rules) /\ check'[c].result = check[c].result
    BY <1>1, <1>12, <1>13, <2>1 DEF Delete, IptablesDelete, Check
  <2>3. Within(Tail(check[c].rules), chain')
    BY <1>1, <1>5, <1>12, <2>1, <2>2, DeleteWithin
  <2> QED
    BY <1>5, <2>2, <2>3
<1>14. CASE DeleteFails(c)
  <2>1. check[c].pc = "delete"
    BY <1>14 DEF DeleteFails
  <2>2. IptablesHas(ToRuleSpec(Head(check[c].rules)))
    BY <1>12, <2>1 DEF IptablesHas
  <2>3. faults' = faults + 1
    BY <1>14, <2>2 DEF DeleteFails, IptablesFault
  <2> QED
    BY <1>4, <2>3
<1>15. \/ UNCHANGED <<chain, check>>
       \/ AppendRule /\ UNCHANGED accessVars
       \/ List(c) \/ ListFails(c) \/ Examine(c) \/ Delete(c) \/ DeleteFails(c) \/ Finish(c)
  BY <1>3, StepCases DEF Start, LookupMac, StampRule, AppendRuleFails, Notify,
     NotifyFails, DispatchPortal, FetchPortal, HandlerPanics, ProxyReferer, Redirect, Send, Receive,
     Answer, Hangup, Connect, Rebind, Bind, Evict, Tick, StepClock, WriteValidFile
<1> QED
  BY <1>6, <1>7, <1>8, <1>9, <1>10, <1>11, <1>13, <1>14, <1>15

\* check_for_expired: however many rules Sentry appends between its commands, and
\* however many of them are equal, a check that has the chain to itself finds each
\* rule it deletes and never gives up.
THEOREM LoneCheck == Spec => []LoneCheckSucceeds
<1>1. LoneInv => LoneCheckSucceeds
  BY DEF LoneInv, LoneCheckSucceeds
<1> QED
  BY TypeInit, TypeStep, LoneInit, LoneStep, <1>1, PTL DEF Spec

-----------------------------------------------------------------------------
(***************************************************************************)
(* Whom an access is given to, and how long it lasts.                      *)
(***************************************************************************)

\* Sentry::authorize_client: whatever happens to addresses, entries and
\* connections between its commands, a rule is added only while a request that
\* accepts the terms is handled, for a device that had the address meanwhile.
THEOREM Consent == Spec => AccessFollowsConsent
<1> DEFINE Justified == Appends => /\ "tos" \in Req.query
                                   /\ Last(chain').mac \in conn[loop.c].held
<1>1. IInv /\ [Next]_vars => [Justified]_vars
  <2> SUFFICES ASSUME IInv, [Next]_vars, Len(chain') > Len(chain)
               PROVE  "tos" \in Req.query /\ Last(chain').mac \in conn[loop.c].held
    BY DEF Appends
  <2>1. chain \in Seq(Rule) /\ Len(chain) \in Nat /\ loop \in Loop
    BY LenProperties DEF IInv, TypeOK, RouterTypeOK, SentryTypeOK
  <2>2. CASE AppendRule
    <3>1. "tos" \in Req.query /\ loop.mac \in conn[loop.c].held
      BY <2>2 DEF AppendRule, IInv, HandlerInv
    <3> DEFINE rule == [mac |-> loop.mac, ts |-> loop.ts]
    <3>2. rule \in Rule /\ rule.mac = loop.mac
      BY <2>1 DEF Loop, Rule
    <3> HIDE DEF rule
    <3>3. chain' = Append(chain, rule)
      BY <2>2 DEF AppendRule, IptablesAppend, rule
    <3>4. Len(chain') = Len(chain) + 1 /\ chain'[Len(chain) + 1] = rule
      BY <2>1, <3>2, <3>3, AppendProperties
    <3>5. Last(chain') = rule
      BY <3>4 DEF Last
    <3> QED
      BY <3>1, <3>2, <3>5
  <2>3. ASSUME NEW k \in Checkers, Delete(k)
        PROVE  FALSE
    <3> DEFINE rule == ToRuleSpec(Head(check[k].rules))
    <3>1. (\E i \in 1 .. Len(chain) : chain[i] = rule) /\ chain' = RemoveFirst(chain, rule)
      BY <2>1, <2>3 DEF Delete, IptablesHas, IptablesDelete, ToSet
    <3> HIDE DEF rule
    <3>2. Len(chain') = Len(chain) - 1
      BY <2>1, <3>1, RemoveFirstIs DEF Without
    <3> QED
      BY <2>1, <3>2
  <2> QED
    BY ChainStep, <2>2, <2>3, <2>1
<1>2. Spec => [][Justified]_vars
  BY Invariant, <1>1, PTL DEF Spec
<1> QED
  BY <1>2 DEF AccessFollowsConsent

\* access_control: however the clock is stepped, an access ends only through a
\* check, and only after it lasted longer than the valid time this check read,
\* less the time the append took and the seconds the clock was stepped by.
THEOREM FullTime == Spec => FullAccessTime
<1> DEFINE Lasted(r, k) ==
             /\ Appendings(r) # {}
             /\ \A a \in Appendings(r) :
                  uptime - a.at > check[k].valid - (a.at - a.since) - (stepped - a.stepped)
           Ended == \A r \in ToSet(chain) \ ToSet(chain') :
                      \E k \in Advancing : Lasted(r, k)
<1>1. IInv /\ [Next]_vars => [Ended]_vars
  <2> SUFFICES ASSUME IInv, [Next]_vars, NEW r \in ToSet(chain) \ ToSet(chain')
               PROVE  \E k \in Advancing : Lasted(r, k)
    OBVIOUS
  <2>1. /\ chain \in Seq(Rule) /\ loop \in Loop /\ appended \subseteq Appended
        /\ now \in Nat /\ uptime \in Nat /\ stepped \in Nat
    BY DEF IInv, TypeOK, RouterTypeOK, SentryTypeOK
  <2>2. CASE AppendRule
    <3>1. [mac |-> loop.mac, ts |-> loop.ts] \in Rule
      BY <2>1 DEF Loop, Rule
    <3> QED
      BY <2>2, <2>1, <3>1, AppendFacts DEF AppendRule
  <2>3. ASSUME NEW k \in Checkers, Delete(k), Parses(Head(check[k].rules)),
               Head(check[k].rules).ts + check[k].valid < now, check[k].valid \in Int,
               ToRuleSpec(Head(check[k].rules)) = Head(check[k].rules),
               check'[k] # check[k]
        PROVE  \E c \in Advancing : Lasted(r, c)
    <3>1. k \in Advancing
      BY <2>3 DEF Advancing
    <3>2. r = Head(check[k].rules)
      BY <2>1, <2>3, DeleteFacts DEF Delete
    <3>3. PICK i \in DOMAIN chain : chain[i] = r
      BY DEF ToSet
    <3>4. Appendings(r) # {}
      BY <2>3, <3>2, <3>3 DEF IInv, StampInv, Appendings
    <3>5. ASSUME NEW a \in Appendings(r)
          PROVE  uptime - a.at > check[k].valid - (a.at - a.since) - (stepped - a.stepped)
      <4>1. /\ a \in appended /\ a.ts = r.ts
            /\ a.ts \in Nat /\ a.since \in Nat /\ a.stepped \in Nat /\ a.at \in Nat
        BY <2>1 DEF Appendings, Appended
      <4>2. now = uptime + stepped /\ a.ts = a.since + a.stepped
        BY <4>1 DEF IInv, ClockInv
      <4>3. a.ts + check[k].valid < now
        BY <2>3, <3>2, <4>1
      <4> DEFINE v == check[k].valid
                 b == a.since
                 p == a.stepped
                 t == a.at
      <4>4. /\ uptime \in Int /\ stepped \in Int /\ v \in Int
            /\ b \in Int /\ p \in Int /\ t \in Int /\ b + p + v < uptime + stepped
        BY <2>1, <2>3, <4>1, <4>2, <4>3
      <4> HIDE DEF v, b, p, t
      <4>5. uptime - t > v - (t - b) - (stepped - p)
        BY <4>4
      <4> QED
        BY <4>5 DEF v, b, p, t
    <3> QED
      BY <3>1, <3>4, <3>5
  <2> HIDE DEF Lasted
  <2> QED
    BY ChainStep, <2>2, <2>3
<1>2. Spec => [][Ended]_vars
  BY Invariant, <1>1, PTL DEF Spec
<1> QED
  BY <1>2 DEF FullAccessTime

-----------------------------------------------------------------------------
(***************************************************************************)
(* The chain implements Admission.                                         *)
(***************************************************************************)

\* Sentry and the checks together keep the promise of Admission: every grant is
\* dated in the past, and none ends before its valid time is over.
THEOREM Refinement == Spec => ImplementsAdmission
<1>1. Init => Promise!Init
  <2> SUFFICES ASSUME Init PROVE Grants = {} /\ now = 0
    BY DEF Promise!Init
  <2>1. CASE chain = <<>>
    BY <2>1 DEF Grants, Init, RouterInit
  <2>2. CASE chain = <<ForeignRule>>
    BY <2>2 DEF Grants, Init, RouterInit, ForeignRule, Parses
  <2> QED
    BY <2>1, <2>2 DEF Init, RouterInit
<1>2. IInv /\ IInv' /\ [Next]_vars => [Promise!Next]_<<Grants, now>>
  <2> SUFFICES ASSUME IInv, IInv', [Next]_vars
               PROVE  [Promise!Next]_<<Grants, now>>
    OBVIOUS
  <2>1. chain \in Seq(Rule) /\ chain' \in Seq(Rule) /\ loop \in Loop /\ now \in Nat
    BY DEF IInv, TypeOK, RouterTypeOK, SentryTypeOK
  <2>2. /\ Grants = {r \in ToSet(chain) : Parses(r)}
        /\ Grants' = {r \in ToSet(chain') : Parses(r)}
    BY <2>1 DEF Grants, ToSet, Parses
  <2>3. CASE chain' = chain
    <3>1. Grants' = Grants
      BY <2>3 DEF Grants, Parses
    <3>2. now' \in Nat /\ now <= now'
      BY ClockMonotone DEF IInv
    <3>3. now' = now \/ Promise!Advance
      BY <2>1, <3>1, <3>2 DEF Promise!Advance
    <3> QED
      BY <3>1, <3>3 DEF Promise!Next
  <2>4. CASE AppendRule /\ UNCHANGED now
    <3> DEFINE g == [mac |-> loop.mac, ts |-> loop.ts]
    <3>1. loop.mac \in Macs
      <4>1. loop.mac \in conn[loop.c].held
        BY <2>4 DEF AppendRule, IInv, HandlerInv
      <4>2. conn[loop.c].held \subseteq Macs
        BY <2>1 DEF IInv, TypeOK, SentryTypeOK, Loop, Conn
      <4> QED
        BY <4>1, <4>2
    <3>2. loop.ts \in 0 .. now
      BY <2>1, <2>4 DEF AppendRule, IInv, StampInv, Loop
    <3>3. g \in Rule /\ Parses(g)
      BY <3>1, <3>2, <2>1, NoMacAssumption DEF Rule, MacOrNone, Parses, Loop
    <3>4. ToSet(chain') = ToSet(chain) \cup {g}
      BY <2>1, <2>4, <3>3, AppendFacts DEF AppendRule
    <3>5. Grants' = Grants \cup {g}
      BY <2>2, <3>3, <3>4
    <3> QED
      BY <2>4, <3>1, <3>2, <3>5 DEF Promise!Next, Promise!Grant
  <2>5. ASSUME NEW k \in Checkers, Delete(k), UNCHANGED now,
               Parses(Head(check[k].rules)), Head(check[k].rules) \in Rule,
               Head(check[k].rules).ts + check[k].valid < now,
               MinValidTime <= check[k].valid, check[k].valid \in Int,
               ToRuleSpec(Head(check[k].rules)) = Head(check[k].rules)
        PROVE  [Promise!Next]_<<Grants, now>>
    <3> DEFINE g == Head(check[k].rules)
    <3>1. /\ ToSet(chain') \subseteq ToSet(chain)
          /\ ToSet(chain) \ ToSet(chain') \subseteq {g}
      BY <2>1, <2>5, DeleteFacts DEF Delete
    <3>2. g \in Grants
      BY <2>2, <2>5 DEF Delete, IptablesHas
    <3>v. g.ts + MinValidTime < now
      BY <2>1, <2>5, ValidTimeAssumption DEF Rule
    <3> HIDE DEF g
    <3>3. Grants' = Grants \/ Grants' = Grants \ {g}
      BY <2>2, <3>1
    <3> QED
      BY <2>5, <3>v, <3>2, <3>3 DEF Promise!Next, Promise!Revoke
  <2> QED
    BY ChainStep, <2>3, <2>4, <2>5
<1> QED
  BY Invariant, <1>1, <1>2, PTL DEF Spec, ImplementsAdmission, Promise!Spec
=============================================================================

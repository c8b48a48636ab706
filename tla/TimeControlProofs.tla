------------------------- MODULE TimeControlProofs --------------------------
(***************************************************************************)
(* Proofs, for any schedule, calendar and number of radios and of          *)
(* overlapping checks, of the safety properties of TimeControl.            *)
(***************************************************************************)
EXTENDS TimeControl, TLAPS

-----------------------------------------------------------------------------
(* Division with remainder by any positive number: days and weeks. *)

\* A positive number times a positive number is at least the one and the other.
LEMMA ProductGrows ==
    ASSUME NEW b \in Nat, b > 0, NEW x \in Int, x > 0
    PROVE  b * x >= b /\ b * x >= x
  OBVIOUS

\* What quotient and remainder are.
LEMMA DivMod ==
    ASSUME NEW a \in Int, NEW b \in Nat, b > 0
    PROVE  /\ a \div b \in Int /\ a % b \in 0 .. b - 1
           /\ a = b * (a \div b) + (a % b)
  OBVIOUS

\* There is only one quotient, and only one remainder.
LEMMA DivModUnique ==
    ASSUME NEW b \in Nat, b > 0, NEW q \in Int, NEW r \in 0 .. b - 1,
           NEW p \in Int, NEW s \in 0 .. b - 1, b * q + r = b * p + s
    PROVE  q = p /\ r = s
<1>1. b * (q - p) = s - r /\ b * (p - q) = r - s
  OBVIOUS
<1>2. CASE q > p
  BY <1>1, <1>2, ProductGrows
<1>3. CASE q < p
  BY <1>1, <1>3, ProductGrows
<1>4. CASE q = p
  BY <1>4
<1> QED
  BY <1>2, <1>3, <1>4

\* How to find quotient and remainder.
LEMMA DivModIs ==
    ASSUME NEW a \in Int, NEW b \in Nat, b > 0, NEW q \in Int, NEW r \in 0 .. b - 1,
           a = b * q + r
    PROVE  a \div b = q /\ a % b = r
  BY DivMod, DivModUnique

\* A number below a product, split at one of its factors.
LEMMA SplitRange ==
    ASSUME NEW H \in Nat, H > 0, NEW D \in Nat, D > 0
    PROVE  /\ D * H \in Nat /\ D * H > 0
           /\ \A d \in 0 .. D - 1, h \in 0 .. H - 1 : H * d + h \in 0 .. D * H - 1
           /\ \A d \in Int, h \in 0 .. H - 1 : H * d + h \in 0 .. D * H - 1 => d \in 0 .. D - 1
<1>1. D * H \in Nat /\ D * H > 0
  BY ProductGrows
<1>2. ASSUME NEW d \in 0 .. D - 1, NEW h \in 0 .. H - 1
      PROVE  H * d + h \in 0 .. D * H - 1
  <2>1. H * (D - d) >= H /\ H * (D - d) = D * H - H * d
    BY ProductGrows
  <2>2. H * d \in Nat
    OBVIOUS
  <2> QED
    BY <1>1, <2>1, <2>2
<1>3. ASSUME NEW d \in Int, NEW h \in 0 .. H - 1, H * d + h \in 0 .. D * H - 1
      PROVE  d \in 0 .. D - 1
  <2>1. H * d \in Int
    OBVIOUS
  <2>2. d >= 0
    <3> SUFFICES ASSUME d < 0 PROVE FALSE
      OBVIOUS
    <3>1. H * (0 - d) >= H /\ H * (0 - d) = 0 - H * d
      BY ProductGrows
    <3> QED
      BY <1>3, <2>1, <3>1
  <2>3. d < D
    <3> SUFFICES ASSUME d >= D PROVE FALSE
      OBVIOUS
    <3>1. H * (d - D + 1) >= H /\ H * (d - D + 1) = H * d - D * H + H
      BY ProductGrows
    <3> QED
      BY <1>1, <1>3, <2>1, <3>1
  <2> QED
    BY <2>2, <2>3
<1> QED
  BY <1>1, <1>2, <1>3

\* The remainder by a product determines the remainder by its factor.
LEMMA ModMod ==
    ASSUME NEW H \in Nat, H > 0, NEW D \in Nat, D > 0, NEW W, W = D * H, NEW t \in Int
    PROVE  (t % W) % H = t % H
<1> DEFINE q == t \div W
           m == t % W
           e == m \div H
           f == m % H
<1>1. W \in Nat /\ W > 0
  BY SplitRange
<1>2. q \in Int /\ m \in Int /\ t = W * q + m
  BY <1>1, DivMod
<1>3. e \in Int /\ f \in 0 .. H - 1 /\ m = H * e + f
  BY <1>2, DivMod
<1> HIDE DEF q, m, e, f
<1>4. D * q + e \in Int
  BY <1>2, <1>3
<1>5. (D * H) * q = H * (D * q) /\ H * (D * q + e) = H * (D * q) + H * e
  BY <1>2, <1>3
<1>6. t = H * (D * q + e) + f
  BY <1>2, <1>3, <1>5
<1>7. t % H = f
  BY <1>3, <1>4, <1>6, DivModIs
<1> QED
  BY <1>7 DEF f, m

\* In weeks of W hours and days of H, time t is in hour h of day d.
Shows(W, H, t, d, h) == d = (t % W) \div H /\ h = t % H

\* Time t is in a day of the week and in an hour of that day.
LEMMA DayAndHour ==
    ASSUME NEW H \in Nat, H > 0, NEW D \in Nat, D > 0, NEW W, W = D * H, NEW t \in Int,
           NEW e, NEW g, Shows(W, H, t, e, g)
    PROVE  e \in 0 .. D - 1 /\ g \in 0 .. H - 1
<1> DEFINE m == t % W
<1>1. W \in Nat /\ W > 0
  BY SplitRange
<1>2. m \in 0 .. W - 1
  BY <1>1, DivMod
<1>3. e = m \div H /\ g = t % H
  BY DEF Shows
<1>4. e \in Int /\ (m % H) \in 0 .. H - 1 /\ m = H * e + (m % H)
  BY <1>1, <1>2, <1>3, DivMod
<1>5. e \in 0 .. D - 1
  BY <1>2, <1>4, SplitRange
<1> QED
  BY <1>3, <1>5, DivMod

\* Days of H hours, weeks of D days: time t shows exactly the day and the hour
\* that it is a whole number of weeks apart from.
LEMMA Calendar ==
    ASSUME NEW H \in Nat, H > 0, NEW D \in Nat, D > 0, NEW W, W = D * H, NEW t \in Int,
           NEW d \in 0 .. D - 1, NEW h \in 0 .. H - 1, NEW a, a = d * H + h - t
    PROVE  a % W = 0 <=> Shows(W, H, t, d, h)
<1> DEFINE e == (t % W) \div H
           g == t % H
<1>1. W \in Nat /\ W > 0
  BY SplitRange
<1>2. Shows(W, H, t, e, g) /\ (Shows(W, H, t, d, h) <=> d = e /\ h = g)
  BY DEF Shows
<1>3. t % W = H * e + g
  <2>1. t % W \in Int
    BY <1>1, DivMod
  <2>2. t % W = H * e + ((t % W) % H)
    BY <2>1, DivMod
  <2>3. (t % W) % H = t % H
    BY ModMod, Zenon
  <2> QED
    BY <2>2, <2>3
<1> HIDE DEF e, g
<1>4. e \in 0 .. D - 1 /\ g \in 0 .. H - 1
  BY <1>2, DayAndHour
<1> DEFINE n == H * d + h
           m == H * e + g
           q == t \div W
<1>5. n \in 0 .. W - 1 /\ m \in 0 .. W - 1 /\ a = n - t
  BY <1>4, SplitRange
<1>6. n = m <=> d = e /\ h = g
  BY <1>4, DivModUnique
<1>7. q \in Int /\ t = W * q + m
  BY <1>1, <1>3, DivMod
<1> HIDE DEF n, m, q
<1>8. ASSUME a % W = 0 PROVE n = m
  <2> DEFINE p == a \div W
  <2>1. p \in Int /\ a = W * p + 0
    BY <1>1, <1>5, <1>8, DivMod
  <2> HIDE DEF p
  <2>2. W * 0 + n = W * (p + q) + m /\ p + q \in Int
    BY <1>1, <1>5, <1>7, <2>1
  <2> QED
    BY <1>1, <1>5, <2>2, DivModUnique
<1>9. ASSUME n = m PROVE a % W = 0
  <2> DEFINE p == 0 - q
  <2>1. a = W * p + 0 /\ p \in Int /\ a \in Int /\ 0 \in 0 .. W - 1
    BY <1>1, <1>5, <1>7, <1>9
  <2> HIDE DEF p
  <2> QED
    BY <1>1, <2>1, DivModIs, SMTT(60)
<1> QED
  BY <1>2, <1>6, <1>8, <1>9

-----------------------------------------------------------------------------
\* What the file asks for now, and what a radio is set to for it.
Requested == RequestedWifiStatus(schedule, hour)

\* What change_wifi_status writes into a radio's disabled option.
Setting(req) == IF req THEN "0" ELSE "1"

\* A radio is set to what a check wants, as far as uci knows it by name.
IsSet(r, req) == flag[r] \in {"none", Setting(req)}

\* A check that has begun and not ended.
Running(k) == check[k].pc \in {"status", "request", "switch", "wifi"}

\* A check that has decided to switch.
Switching(k) == check[k].pc \in {"switch", "wifi"}

\* What a check that nobody got in the way of has found and done so far.
Progress(k) ==
    /\ check[k].pc = "request" => check[k].status = IsPubWifiEnabled
    /\ check[k].pc = "switch" =>
          \A i \in 1 .. check[k].next - 1 : IsSet(Radios[i], check[k].req)
    /\ check[k].pc = "wifi" => \A r \in RadioSet : IsSet(r, check[k].req)

\* What a check has found and done still holds, unless something got in its way.
ProgressInv == \A k \in Checkers : clean[k] \/ ~upset => Progress(k)

\* A check starts with the first radio.
StartInv == \A k \in Checkers : check[k].pc \in {"status", "request"} => check[k].next = 1

\* While a check is clean, and while nothing is upset, no two checks overlap.
AloneInv ==
    /\ \A k, j \in Checkers : clean[k] /\ Running(j) => clean[j] /\ (Running(k) => j = k)
    /\ \A k, j \in Checkers : ~upset /\ Running(k) /\ Running(j) => j = k

\* A clean check goes by what is asked for now.
FreshInv == \A k \in Checkers : clean[k] /\ Switching(k) => check[k].req = Requested

\* Once a clean check is done the configuration is as requested, and no check
\* that comes after it finds anything to do; if uci knows a radio by name.
DoneInv ==
    \A k \in Checkers : clean[k] /\ check[k].pc = "done" /\ Named # {} =>
        /\ IsPubWifiEnabled = Requested
        /\ \A j \in Checkers : ~Switching(j)

\* While nothing is upset and no check is switching, the radios that uci knows by
\* name are all in one state, and they are on the air as configured.
CalmInv ==
    ~upset /\ (\A k \in Checkers : ~Switching(k)) =>
        /\ (\A r \in RadioSet : flag[r] # "1") \/ (\A r \in Named : flag[r] = "1")
        /\ \A r \in RadioSet : live[r] = (flag[r] # "1")

\* The inductive invariant.
IInv == TypeOK /\ ProgressInv /\ StartInv /\ AloneInv /\ FreshInv /\ DoneInv /\ CalmInv

-----------------------------------------------------------------------------
(***************************************************************************)
(* What the code computes from the file is what the file says.             *)
(***************************************************************************)

\* get_current_requested_wifi_status finds the day and the hour of the local
\* calendar, for any offset and any hour.
LEMMA WantedIsRequested == TypeOK => (Wanted <=> Requested)
<1> SUFFICES ASSUME TypeOK PROVE Wanted <=> Requested
  OBVIOUS
<1> DEFINE H == HoursPerDay
           D == DaysPerWeek
           W == D * H
           o == schedule.offset
           t == hour + o
           day == LocalDay(o, hour)
           h == LocalHour(o, hour)
           Up(x, y) == \/ ~schedule.readable
                       \/ x >= Len(schedule.upTime)
                       \/ schedule.upTime[x + 1] = {}
                       \/ y \in schedule.upTime[x + 1]
<1>1. /\ H \in Nat /\ H > 0 /\ D \in Nat /\ D > 0
      /\ hour \in Nat /\ o \in Int /\ schedule.readable \in BOOLEAN
      /\ schedule.upTime \in Seq(SUBSET Nat)
  BY HoursAssumption, ScheduleAssumption DEF TypeOK, Schedule
<1>2. t \in Int /\ t = hour + o /\ W = D * H /\ day = (t % W) \div H /\ h = t % H
  BY <1>1 DEF LocalDay, LocalHour
<1>3. Requested <=> (schedule.readable /\ day + 1 <= Len(schedule.upTime) =>
                        schedule.upTime[day + 1] = {} \/ h \in schedule.upTime[day + 1])
  BY DEF Requested, RequestedWifiStatus
<1>4. Wanted <=> \E x \in 0 .. D - 1, y \in 0 .. H - 1 :
                    (x * H + y - o - hour) % W = 0 /\ Up(x, y)
  BY DEF Wanted
<1>5. ASSUME NEW x \in Nat, NEW y
      PROVE  Up(x, y) <=> (schedule.readable /\ x + 1 <= Len(schedule.upTime) =>
                              schedule.upTime[x + 1] = {} \/ y \in schedule.upTime[x + 1])
  <2>1. x + 1 <= Len(schedule.upTime) <=> ~(x >= Len(schedule.upTime))
    BY <1>1
  <2> QED
    BY <1>1, <2>1
<1> HIDE DEF H, D, W, o, t, day, h, Up
<1>6. ASSUME NEW x \in 0 .. D - 1, NEW y \in 0 .. H - 1
      PROVE  (x * H + y - o - hour) % W = 0 <=> x = day /\ y = h
  <2> DEFINE a == x * H + y - o - hour
  <2>1. x * H \in Int /\ a = x * H + y - t
    BY <1>1, <1>2
  <2>2. H \in Nat /\ H > 0 /\ D \in Nat /\ D > 0 /\ W = D * H /\ t \in Int
    BY <1>1, <1>2
  <2> HIDE DEF a
  <2>3. a % W = 0 <=> Shows(W, H, t, x, y)
    BY <2>1, <2>2, Calendar
  <2> QED
    BY <1>2, <2>3, Zenon DEF a, Shows
<1>7. day \in 0 .. D - 1 /\ h \in 0 .. H - 1
  <2>1. Shows(W, H, t, day, h)
    BY <1>2 DEF Shows
  <2> QED
    BY <1>1, <1>2, <2>1, DayAndHour
<1>8. Requested <=> Up(day, h)
  BY <1>1, <1>3, <1>5, <1>7
<1> QED
  BY <1>4, <1>6, <1>7, <1>8

\* With a radio that uci knows, a wifi whose radios are all set is enabled as set.
LEMMA SettingIsStatus ==
    ASSUME NEW req \in BOOLEAN, \A r \in RadioSet : IsSet(r, req), Named # {}
    PROVE  IsPubWifiEnabled = req
<1>1. PICK r \in RadioSet : flag[r] # "none"
  BY DEF Named
<1>2. IsPubWifiEnabled <=> req
  BY <1>1 DEF IsPubWifiEnabled, IsSet, Setting
<1> QED
  BY <1>2, Zenon DEF IsPubWifiEnabled

\* uci set changes one radio, to what is asked for or not at all, and never makes
\* or removes a name.
LEMMA UciSetFacts ==
    ASSUME TypeOK, NEW s \in RadioSet, NEW req \in BOOLEAN, UciSet(s, req)
    PROVE  /\ flag' \in [RadioSet -> {"none", "unset", "0", "1"}]
           /\ flag'[s] \in {"none", Setting(req)}
           /\ \A r \in RadioSet : r # s => flag'[r] = flag[r]
           /\ Named' = Named
<1>1. /\ flag \in [RadioSet -> {"none", "unset", "0", "1"}]
      /\ flag' = [flag EXCEPT ![s] = IF @ = "none" THEN @ ELSE Setting(req)]
  BY DEF TypeOK, UciSet, Setting
<1>2. \A r \in RadioSet : flag'[r] # "none" <=> flag[r] # "none"
  BY <1>1 DEF Setting
<1> QED
  BY <1>1, <1>2 DEF Named, Setting

-----------------------------------------------------------------------------
(***************************************************************************)
(* The inductive invariant.                                                *)
(***************************************************************************)

\* Before any check runs, the invariant holds.
LEMMA InvInit == Init => IInv
<1> SUFFICES ASSUME Init PROVE IInv
  OBVIOUS
<1>1. \A k \in Checkers : check[k] = NoCheck /\ clean[k] = FALSE
  BY DEF Init
<1>2. NoCheck \in Check /\ NoCheck.pc = "idle"
  BY DEF NoCheck, Check
<1>f. flag \in [RadioSet -> {"none", "unset"}]
  BY ConfigurationAssumption DEF Init, Configuration
<1>3. TypeOK
  BY <1>1, <1>2, <1>f DEF Init, TypeOK
<1>4. \A k \in Checkers : ~Running(k) /\ ~Switching(k) /\ Progress(k)
  BY <1>1, <1>2 DEF Running, Switching, Progress
<1>5. CalmInv
  BY <1>f DEF Init, CalmInv
<1> QED
  BY <1>1, <1>2, <1>3, <1>4, <1>5
     DEF IInv, ProgressInv, StartInv, AloneInv, FreshInv, DoneInv

\* No step leaves the types, and a check begins with the first radio.
LEMMA TypeStep == TypeOK /\ StartInv /\ [Next]_vars => TypeOK' /\ StartInv'
<1> SUFFICES ASSUME TypeOK, StartInv, [Next]_vars PROVE TypeOK' /\ StartInv'
  OBVIOUS
<1>1. /\ check \in [Checkers -> Check] /\ clean \in [Checkers -> BOOLEAN]
      /\ flag \in [RadioSet -> {"none", "unset", "0", "1"}] /\ live \in [RadioSet -> BOOLEAN]
      /\ hour \in Nat /\ faults \in Nat /\ reboots \in Nat /\ schedule \in Schedules
      /\ upset \in BOOLEAN
      /\ \A k \in Checkers : check[k].pc = "switch" => check[k].next \in DOMAIN Radios
  BY DEF TypeOK
<1>2. Disturbed => clean' \in [Checkers -> BOOLEAN]
  BY DEF Disturbed
<1>3. Fault => clean' \in [Checkers -> BOOLEAN] /\ upset' \in BOOLEAN /\ faults' \in Nat
  BY <1>1, <1>2 DEF Fault
<1>4. NoFault => clean' \in [Checkers -> BOOLEAN] /\ upset' \in BOOLEAN /\ faults' \in Nat
  BY <1>1 DEF NoFault
<1>5. CASE UNCHANGED vars
  BY <1>5 DEF vars, TypeOK, StartInv
<1>6. ASSUME NEW k \in Checkers, Begin(k)
      PROVE  TypeOK' /\ StartInv'
  <2>1. [NoCheck EXCEPT !.pc = "status"] \in Check
    BY DEF NoCheck, Check
  <2>2. /\ check' = [check EXCEPT ![k] = [NoCheck EXCEPT !.pc = "status"]]
        /\ UNCHANGED <<hour, schedule, flag, live, faults, reboots>>
    BY <1>6 DEF Begin
  <2>3. check' \in [Checkers -> Check]
    BY <1>1, <2>1, <2>2
  <2>4. clean' \in [Checkers -> BOOLEAN] /\ upset' \in BOOLEAN
    BY <1>1, <1>2, <1>6 DEF Begin
  <2>5. check'[k].pc = "status" /\ check'[k].next = 1
        /\ \A j \in Checkers : j # k => check'[j] = check[j]
    BY <1>1, <2>2 DEF NoCheck
  <2> QED
    BY <1>1, <2>2, <2>3, <2>4, <2>5 DEF TypeOK, StartInv
<1>7. ASSUME NEW k \in Checkers, ReadStatus(k)
      PROVE  TypeOK' /\ StartInv'
  <2>1. PICK s \in BOOLEAN : check' = [check EXCEPT ![k].pc = "request", ![k].status = s]
    BY <1>7 DEF ReadStatus, IsPubWifiEnabled
  <2>2. ASSUME NEW c \in Check, NEW e, e = [c EXCEPT !.pc = "request", !.status = s]
        PROVE  e \in Check /\ e.pc = "request" /\ e.next = c.next
    BY <2>2 DEF Check
  <2>3. /\ check'[k] = [check[k] EXCEPT !.pc = "request", !.status = s]
        /\ \A j \in Checkers : j # k => check'[j] = check[j]
        /\ check' = [j \in Checkers |-> check'[j]]
    BY <1>1, <2>1
  <2>4. check'[k] \in Check /\ check'[k].pc = "request" /\ check'[k].next = check[k].next
    BY <1>1, <2>2, <2>3
  <2>5. check' \in [Checkers -> Check]
    BY <1>1, <2>3, <2>4
  <2>6. /\ clean' \in [Checkers -> BOOLEAN] /\ upset' \in BOOLEAN /\ faults' \in Nat
        /\ UNCHANGED <<hour, schedule, flag, live, reboots>> /\ check[k].pc = "status"
    BY <1>3, <1>4, <1>7 DEF ReadStatus
  <2> QED
    BY <1>1, <2>3, <2>4, <2>5, <2>6 DEF TypeOK, StartInv
<1>8. ASSUME NEW k \in Checkers, ReadSchedule(k)
      PROVE  TypeOK' /\ StartInv'
  <2> DEFINE pc == IF check[k].status # Requested THEN "switch" ELSE "done"
  <2>1. Requested \in BOOLEAN
    BY DEF Requested, RequestedWifiStatus
  <2>2. check' = [check EXCEPT ![k].pc = pc, ![k].req = Requested]
    BY <1>8 DEF ReadSchedule, Requested
  <2>3. pc \in {"switch", "done"}
    OBVIOUS
  <2> HIDE DEF pc
  <2>4. ASSUME NEW c \in Check, NEW r \in BOOLEAN, NEW e, e = [c EXCEPT !.pc = pc, !.req = r]
        PROVE  e \in Check /\ e.pc = pc /\ e.next = c.next
    BY <2>3, <2>4 DEF Check
  <2>5. /\ check'[k] = [check[k] EXCEPT !.pc = pc, !.req = Requested]
        /\ \A j \in Checkers : j # k => check'[j] = check[j]
        /\ check' = [j \in Checkers |-> check'[j]]
    BY <1>1, <2>2
  <2>6. check'[k] \in Check /\ check'[k].pc = pc /\ check'[k].next = check[k].next
    BY <1>1, <2>1, <2>4, <2>5, ZenonT(60)
  <2>7. check' \in [Checkers -> Check]
    BY <1>1, <2>5, <2>6
  <2>8. /\ clean' \in [Checkers -> BOOLEAN] /\ upset' \in BOOLEAN /\ faults' \in Nat
        /\ UNCHANGED <<hour, schedule, flag, live, reboots>> /\ check[k].pc = "request"
    BY <1>4, <1>8 DEF ReadSchedule
  <2>9. check[k].next = 1 /\ 1 \in DOMAIN Radios
    BY <2>8, RadiosAssumption DEF StartInv
  <2> QED
    BY <1>1, <2>3, <2>5, <2>6, <2>7, <2>8, <2>9, ZenonT(60) DEF TypeOK, StartInv
<1>9. ASSUME NEW k \in Checkers, ChangeWifiStatus(k)
      PROVE  TypeOK' /\ StartInv'
  <2> DEFINE i == check[k].next
             succ == i + 1
             pc == IF i = Len(Radios) THEN "wifi" ELSE "switch"
  <2>1. check' = [check EXCEPT ![k].pc = pc, ![k].next = succ]
    BY <1>9 DEF ChangeWifiStatus
  <2>2. /\ i \in DOMAIN Radios /\ succ \in Nat /\ pc \in {"switch", "wifi"}
        /\ pc = "switch" => succ \in DOMAIN Radios
    BY <1>1, <1>9, RadiosAssumption DEF ChangeWifiStatus
  <2> HIDE DEF pc, i, succ
  <2>3. check[k] \in Check
    BY <1>1
  <2>4. /\ check'[k] = [check[k] EXCEPT !.pc = pc, !.next = succ]
        /\ \A j \in Checkers : j # k => check'[j] = check[j]
        /\ check' = [j \in Checkers |-> check'[j]]
    BY <1>1, <2>1
  <2>5. check'[k] \in Check /\ check'[k].pc = pc /\ check'[k].next = succ
    BY <2>2, <2>3, <2>4 DEF Check
  <2>6. check' \in [Checkers -> Check]
    BY <1>1, <2>4, <2>5
  <2>7. /\ clean' \in [Checkers -> BOOLEAN] /\ upset' \in BOOLEAN /\ faults' \in Nat
        /\ UNCHANGED <<hour, schedule, live, reboots>>
    BY <1>3, <1>4, <1>9 DEF ChangeWifiStatus
  <2>8. flag' \in [RadioSet -> {"none", "unset", "0", "1"}]
    <3>1. Radios[i] \in RadioSet /\ check[k].req \in BOOLEAN
      BY <2>2, <2>3 DEF RadioSet, Check
    <3>2. UciSet(Radios[i], check[k].req) \/ UNCHANGED flag
      BY <1>9 DEF ChangeWifiStatus, i
    <3> QED
      BY <1>1, <3>1, <3>2, UciSetFacts
  <2> QED
    BY <1>1, <2>2, <2>4, <2>5, <2>6, <2>7, <2>8 DEF TypeOK, StartInv
<1>10. ASSUME NEW k \in Checkers, ActivateChanges(k)
       PROVE  TypeOK' /\ StartInv'
  <2>1. check' = [check EXCEPT ![k].pc = "done"]
    BY <1>10 DEF ActivateChanges
  <2>2. check' \in [Checkers -> Check]
    BY <1>1, <2>1 DEF Check
  <2>3. check'[k].pc = "done" /\ \A j \in Checkers : j # k => check'[j] = check[j]
    BY <1>1, <2>1 DEF Check
  <2>4. /\ clean' \in [Checkers -> BOOLEAN] /\ upset' \in BOOLEAN /\ faults' \in Nat
        /\ UNCHANGED <<hour, schedule, flag, reboots>> /\ live' \in [RadioSet -> BOOLEAN]
    BY <1>1, <1>3, <1>4, <1>10 DEF ActivateChanges
  <2> QED
    BY <1>1, <2>2, <2>3, <2>4 DEF TypeOK, StartInv
<1>11. CASE HourPasses
  BY <1>1, <1>2, <1>11 DEF HourPasses, TypeOK, StartInv
<1>12. CASE WriteSchedule
  BY <1>1, <1>2, <1>12 DEF WriteSchedule, TypeOK, StartInv
<1>13. CASE Reboot
  <2>1. NoCheck \in Check /\ NoCheck.pc = "idle"
    BY DEF NoCheck, Check
  <2>2. \A k \in Checkers : check'[k] = NoCheck
    BY <1>13 DEF Reboot
  <2>3. check' \in [Checkers -> Check]
    BY <1>13, <2>1 DEF Reboot
  <2>4. StartInv' /\ \A k \in Checkers : check'[k].pc # "switch"
    BY <2>1, <2>2 DEF StartInv
  <2>5. /\ flag' \in [RadioSet -> {"none", "unset", "0", "1"}] /\ live' \in [RadioSet -> BOOLEAN]
        /\ UNCHANGED <<hour, schedule, faults>>
    BY <1>13 DEF Reboot
  <2>6. clean' \in [Checkers -> BOOLEAN] /\ upset' \in BOOLEAN /\ reboots' \in Nat
    <3>1. Disturbed /\ upset' = FALSE /\ reboots' = reboots + 1
      BY <1>13, Zenon DEF Reboot
    <3>2. upset' \in BOOLEAN
      BY <3>1, Zenon
    <3> QED
      BY <1>1, <1>2, <3>1, <3>2
  <2> QED
    BY <1>1, <2>3, <2>4, <2>5, <2>6 DEF TypeOK
<1> QED
  BY <1>5, <1>6, <1>7, <1>8, <1>9, <1>10, <1>11, <1>12, <1>13 DEF Next, CheckStep

\* After a command that failed, or when two checks overlap, nothing is promised.
LEMMA UpsetStep ==
    ASSUME TypeOK', StartInv', Disturbed, upset' = TRUE
    PROVE  IInv'
<1>1. \A k \in Checkers : ~clean'[k]
  BY DEF Disturbed
<1> QED
  BY <1>1 DEF IInv, ProgressInv, AloneInv, FreshInv, DoneInv, CalmInv

\* Steps outside the checks.
LEMMA WorldStep == IInv /\ (HourPasses \/ WriteSchedule \/ Reboot) => IInv'
<1> SUFFICES ASSUME IInv, HourPasses \/ WriteSchedule \/ Reboot PROVE IInv'
  OBVIOUS
<1>1. TypeOK' /\ StartInv'
  BY TypeStep DEF IInv, Next
<1>2. \A k \in Checkers : ~clean'[k]
  BY DEF HourPasses, WriteSchedule, Reboot, Disturbed
<1>3. FreshInv' /\ DoneInv'
  BY <1>2 DEF FreshInv, DoneInv
<1>4. CASE HourPasses \/ WriteSchedule
  <2>1. UNCHANGED <<flag, live, check, upset>>
    BY <1>4 DEF HourPasses, WriteSchedule
  <2>2. \A k \in Checkers : /\ Progress(k)' <=> Progress(k)
                            /\ Running(k)' <=> Running(k)
                            /\ Switching(k)' <=> Switching(k)
    BY <2>1 DEF Progress, Running, Switching, IsPubWifiEnabled, IsSet
  <2>3. ProgressInv' /\ AloneInv'
    BY <1>2, <2>1, <2>2 DEF IInv, ProgressInv, AloneInv
  <2>4. CalmInv'
    BY <2>1, <2>2 DEF IInv, CalmInv, Named
  <2> QED
    BY <1>1, <1>3, <2>3, <2>4 DEF IInv
<1>5. CASE Reboot
  <2>1. NoCheck.pc = "idle"
    BY DEF NoCheck
  <2>2. \A k \in Checkers : check'[k] = NoCheck
    BY <1>5 DEF Reboot
  <2>3. \A k \in Checkers : ~Running(k)' /\ ~Switching(k)' /\ Progress(k)'
    BY <2>1, <2>2 DEF Running, Switching, Progress
  <2>4. /\ flag' = [r \in RadioSet |-> IF r \in Named THEN "unset" ELSE "none"]
        /\ live' = [r \in RadioSet |-> TRUE]
    BY <1>5 DEF Reboot
  <2>5. CalmInv'
    BY <2>4 DEF CalmInv
  <2> QED
    BY <1>1, <1>2, <1>3, <2>3, <2>5 DEF IInv, ProgressInv, AloneInv
<1> QED
  BY <1>4, <1>5

\* A check that begins has read nothing yet.
LEMMA BeginStep == ASSUME IInv, NEW k \in Checkers, Begin(k) PROVE IInv'
<1>1. TypeOK' /\ StartInv'
  BY TypeStep DEF IInv, Next, CheckStep
<1>2. check \in [Checkers -> Check] /\ clean \in [Checkers -> BOOLEAN]
  BY DEF IInv, TypeOK
<1>3. /\ check'[k].pc = "status" /\ \A j \in Checkers : j # k => check'[j] = check[j]
      /\ UNCHANGED <<hour, schedule, flag, live>> /\ check[k].pc \in {"idle", "done"}
  BY <1>2 DEF Begin, NoCheck
<1>4. CASE ~\A j \in Checkers \ {k} : check[j].pc \in {"idle", "done"}
  BY <1>1, <1>4, UpsetStep DEF Begin
<1>5. CASE \A j \in Checkers \ {k} : check[j].pc \in {"idle", "done"}
  <2>1. /\ clean'[k] /\ \A j \in Checkers : j # k => clean'[j] = clean[j]
        /\ UNCHANGED upset
    BY <1>2, <1>5 DEF Begin
  <2>2. \A j \in Checkers : Running(j)' <=> j = k
    BY <1>3, <1>5 DEF Running
  <2>3. \A j \in Checkers : ~Switching(j)' /\ ~Switching(j)
    BY <1>3, <1>5 DEF Switching
  <2>4. \A j \in Checkers : Progress(j)'
    BY <1>3, <1>5 DEF Progress
  <2>5. ProgressInv' /\ AloneInv'
    BY <2>1, <2>2, <2>4 DEF ProgressInv, AloneInv
  <2>6. FreshInv'
    BY <2>3 DEF FreshInv
  <2>7. DoneInv'
    BY <1>3, <2>1, <2>3 DEF IInv, DoneInv, Named, Requested, IsPubWifiEnabled
  <2>8. CalmInv'
    BY <1>3, <2>1, <2>3 DEF IInv, CalmInv, Named
  <2> QED
    BY <1>1, <2>5, <2>6, <2>7, <2>8 DEF IInv
<1> QED
  BY <1>4, <1>5

\* get_wifi_status keeps the invariant: what the check then knows of the flags is what
\* they are, unless it was upset.
LEMMA ReadStatusStep == ASSUME IInv, NEW k \in Checkers, ReadStatus(k) PROVE IInv'
<1>1. TypeOK' /\ StartInv'
  BY TypeStep DEF IInv, Next, CheckStep
<1>2. check \in [Checkers -> Check] /\ clean \in [Checkers -> BOOLEAN]
  BY DEF IInv, TypeOK
<1>3. CASE Fault
  BY <1>1, <1>3, UpsetStep DEF Fault
<1>4. CASE /\ check' = [check EXCEPT ![k].pc = "request", ![k].status = IsPubWifiEnabled]
           /\ NoFault
  <2>1. UNCHANGED <<hour, schedule, flag, live, clean, upset>> /\ check[k].pc = "status"
    BY <1>4 DEF ReadStatus, NoFault
  <2>2. /\ check'[k].pc = "request" /\ check'[k].status = IsPubWifiEnabled
        /\ \A j \in Checkers : j # k => check'[j] = check[j]
    BY <1>2, <1>4 DEF Check
  <2>3. \A j \in Checkers : (Running(j)' <=> Running(j)) /\ (Switching(j)' <=> Switching(j))
    BY <2>1, <2>2 DEF Running, Switching
  <2>4. IsPubWifiEnabled' = IsPubWifiEnabled /\ Requested' = Requested
    BY <2>1 DEF IsPubWifiEnabled, Requested
  <2>5. Progress(k)'
    BY <2>2, <2>4 DEF Progress
  <2>6. \A j \in Checkers : j # k /\ Progress(j) => Progress(j)'
    BY <2>1, <2>2, <2>4 DEF Progress, IsSet
  <2>7. ProgressInv' /\ AloneInv'
    BY <2>1, <2>3, <2>5, <2>6 DEF IInv, ProgressInv, AloneInv
  <2>8. FreshInv'
    BY <2>1, <2>2, <2>3, <2>4 DEF IInv, FreshInv, Switching
  <2>9. DoneInv'
    BY <2>1, <2>2, <2>3, <2>4 DEF IInv, DoneInv, Named
  <2>10. CalmInv'
    BY <2>1, <2>3 DEF IInv, CalmInv, Named
  <2> QED
    BY <1>1, <2>7, <2>8, <2>9, <2>10 DEF IInv
<1> QED
  BY <1>3, <1>4 DEF ReadStatus

\* Reading the schedule decides whether the check switches, and to what.
LEMMA ReadScheduleStep == ASSUME IInv, NEW k \in Checkers, ReadSchedule(k) PROVE IInv'
<1>1. TypeOK' /\ StartInv'
  BY TypeStep DEF IInv, Next, CheckStep
<1>2. check \in [Checkers -> Check] /\ clean \in [Checkers -> BOOLEAN]
  BY DEF IInv, TypeOK
<1>3. UNCHANGED <<hour, schedule, flag, live, clean, upset>> /\ check[k].pc = "request"
  BY DEF ReadSchedule, NoFault
<1>4. IsPubWifiEnabled' = IsPubWifiEnabled /\ Requested' = Requested
  BY <1>3 DEF IsPubWifiEnabled, Requested
<1>5. /\ check'[k].pc = IF check[k].status # Requested THEN "switch" ELSE "done"
      /\ check'[k].req = Requested /\ check'[k].next = check[k].next
      /\ \A j \in Checkers : j # k => check'[j] = check[j]
  BY <1>2 DEF ReadSchedule, Requested, Check
<1>6. check[k].next = 1
  BY <1>3 DEF IInv, StartInv
<1>7. Running(k) /\ ~Switching(k)
  BY <1>3 DEF Running, Switching
<1>8. \A j \in Checkers : Running(j)' => Running(j)
  BY <1>5, <1>7 DEF Running
<1>9. \A j \in Checkers : j # k => (Switching(j)' <=> Switching(j))
  BY <1>5 DEF Switching
<1>10. Progress(k)'
  BY <1>5, <1>6 DEF Progress
<1>11. \A j \in Checkers : j # k /\ Progress(j) => Progress(j)'
  BY <1>3, <1>4, <1>5 DEF Progress, IsSet
<1>12. ProgressInv'
  BY <1>3, <1>10, <1>11 DEF IInv, ProgressInv
<1>13. AloneInv'
  BY <1>3, <1>8 DEF IInv, AloneInv
<1>14. FreshInv'
  BY <1>3, <1>4, <1>5, <1>9 DEF IInv, FreshInv
<1>15. clean[k] \/ ~upset => check[k].status = IsPubWifiEnabled
  BY <1>3 DEF IInv, ProgressInv, Progress
<1>16. ASSUME NEW j \in Checkers, clean[j], check'[j].pc = "done", Named # {}
       PROVE  IsPubWifiEnabled = Requested /\ \A m \in Checkers : ~Switching(m)'
  <2>1. CASE j = k
    <3>1. IsPubWifiEnabled = Requested
      BY <1>5, <1>15, <1>16, <2>1
    <3>2. \A m \in Checkers : Running(m) => m = k
      BY <1>7, <1>16, <2>1 DEF IInv, AloneInv
    <3> QED
      BY <1>9, <1>16, <2>1, <3>1, <3>2 DEF Running, Switching
  <2>2. CASE j # k
    <3>1. IsPubWifiEnabled = Requested /\ \A m \in Checkers : ~Switching(m)
      BY <1>5, <1>16, <2>2 DEF IInv, DoneInv
    <3>2. clean[k]
      BY <1>7, <1>16 DEF IInv, AloneInv
    <3>3. ~Switching(k)'
      BY <1>5, <1>15, <3>1, <3>2 DEF Switching
    <3> QED
      BY <1>9, <3>1, <3>3
  <2> QED
    BY <2>1, <2>2
<1>17. DoneInv'
  BY <1>3, <1>4, <1>16 DEF DoneInv, Named
<1>18. CalmInv'
  BY <1>3, <1>7, <1>9 DEF IInv, CalmInv, Named
<1> QED
  BY <1>1, <1>12, <1>13, <1>14, <1>17, <1>18 DEF IInv

\* A check that changes flags while nothing is upset, or while some check is
\* clean, is the only one that runs, and no clean check was done before it, if
\* uci knows a radio by name.
LEMMA SwitcherIsAlone ==
    ASSUME IInv, NEW k \in Checkers, Switching(k), NEW j \in Checkers, j # k
    PROVE  /\ clean[j] \/ ~upset => ~Running(j)
           /\ clean[j] /\ Named # {} => check[j].pc # "done"
<1>1. Running(k)
  BY DEF Switching, Running
<1> QED
  BY <1>1 DEF IInv, AloneInv, DoneInv

\* change_wifi_status sets the flag of one radio after the other, and uci may fail for
\* either.
LEMMA ChangeStep == ASSUME IInv, NEW k \in Checkers, ChangeWifiStatus(k) PROVE IInv'
<1>1. TypeOK' /\ StartInv'
  BY TypeStep DEF IInv, Next, CheckStep
<1>2. /\ check \in [Checkers -> Check] /\ clean \in [Checkers -> BOOLEAN]
      /\ flag \in [RadioSet -> {"none", "unset", "0", "1"}]
  BY DEF IInv, TypeOK
<1>3. CASE Fault
  BY <1>1, <1>3, UpsetStep DEF Fault
<1>4. CASE ~Fault
  <2> DEFINE i == check[k].next
  <2>1. /\ UNCHANGED <<hour, schedule, live, clean, upset>> /\ check[k].pc = "switch"
        /\ UciSet(Radios[i], check[k].req)
    BY <1>4 DEF ChangeWifiStatus, NoFault
  <2>2. i \in DOMAIN Radios
    BY <2>1 DEF IInv, TypeOK
  <2>3. /\ check'[k].pc = IF i = Len(Radios) THEN "wifi" ELSE "switch"
        /\ check'[k].next = i + 1 /\ check'[k].req = check[k].req
        /\ \A j \in Checkers : j # k => check'[j] = check[j]
    BY <1>2 DEF ChangeWifiStatus, Check
  <2>4. Running(k) /\ Switching(k) /\ Switching(k)'
    BY <2>1, <2>3 DEF Running, Switching
  <2>5. Requested' = Requested
    BY <2>1 DEF Requested
  <2>6. \A j \in Checkers : (Running(j)' <=> Running(j)) /\ (Switching(j)' <=> Switching(j))
    BY <2>1, <2>3 DEF Running, Switching
  <2>a. i \in 1 .. Len(Radios) /\ \A n \in 1 .. Len(Radios) : Radios[n] \in RadioSet
    BY <2>2, RadiosAssumption DEF RadioSet
  <2>b. /\ flag'[Radios[i]] \in {"none", Setting(check[k].req)}
        /\ \A r \in RadioSet : r # Radios[i] => flag'[r] = flag[r]
        /\ Named' = Named
    <3>1. check[k].req \in BOOLEAN /\ Radios[i] \in RadioSet
      BY <1>2, <2>a DEF Check
    <3> QED
      BY <2>1, <3>1, UciSetFacts DEF IInv
  <2> HIDE DEF i
  <2>7. ASSUME clean[k] \/ ~upset PROVE Progress(k)'
    <3>1. \A n \in 1 .. i - 1 : flag[Radios[n]] \in {"none", Setting(check[k].req)}
      BY <2>1, <2>7 DEF IInv, ProgressInv, Progress, IsSet, i
    <3>3. \A n \in 1 .. i : flag'[Radios[n]] \in {"none", Setting(check[k].req)}
      <4> SUFFICES ASSUME NEW n \in 1 .. i
                   PROVE  flag'[Radios[n]] \in {"none", Setting(check[k].req)}
        OBVIOUS
      <4>1. Radios[n] \in RadioSet /\ (n = i \/ n \in 1 .. i - 1)
        BY <2>a, RadiosAssumption
      <4> QED
        BY <2>b, <3>1, <4>1
    <3>4. check'[k].pc = "wifi" => \A r \in RadioSet : flag'[r] \in {"none", Setting(check[k].req)}
      <4> SUFFICES ASSUME check'[k].pc = "wifi", NEW r \in RadioSet
                   PROVE  flag'[r] \in {"none", Setting(check[k].req)}
        OBVIOUS
      <4>1. i = Len(Radios)
        BY <2>3
      <4>2. PICK n \in DOMAIN Radios : r = Radios[n]
        BY DEF RadioSet
      <4>3. n \in 1 .. i
        BY <4>1, <4>2, RadiosAssumption
      <4> QED
        BY <3>3, <4>2, <4>3
    <3>5. check'[k].next - 1 = i
      BY <2>3, <2>a
    <3>6. check'[k].pc # "request"
      BY <2>3
    <3> QED
      BY <2>3, <3>3, <3>4, <3>5, <3>6 DEF Progress, IsSet, Setting
  <2>8. ASSUME NEW j \in Checkers, j # k, clean[j] \/ ~upset
        PROVE  Progress(j)'
    <3>1. ~Running(j)'
      BY <2>4, <2>6, <2>8, SwitcherIsAlone
    <3> QED
      BY <3>1 DEF Running, Progress
  <2>9. ProgressInv'
    BY <2>1, <2>7, <2>8 DEF ProgressInv
  <2>10. AloneInv'
    BY <2>1, <2>6 DEF IInv, AloneInv
  <2>11. FreshInv'
    BY <2>1, <2>3, <2>5, <2>6 DEF IInv, FreshInv
  <2>12. DoneInv'
    <3> SUFFICES ASSUME NEW j \in Checkers, clean'[j], check'[j].pc = "done", Named # {}
                 PROVE  FALSE
      BY <2>b DEF DoneInv
    <3>1. j # k
      BY <2>3
    <3> QED
      BY <2>1, <2>3, <2>4, <3>1, SwitcherIsAlone
  <2>13. CalmInv'
    BY <2>4 DEF CalmInv
  <2> QED
    BY <1>1, <2>9, <2>10, <2>11, <2>12, <2>13 DEF IInv
<1> QED
  BY <1>3, <1>4

\* activate_changes brings the flags on the air.
LEMMA ActivateStep == ASSUME IInv, NEW k \in Checkers, ActivateChanges(k) PROVE IInv'
<1>1. TypeOK' /\ StartInv'
  BY TypeStep DEF IInv, Next, CheckStep
<1>2. check \in [Checkers -> Check] /\ clean \in [Checkers -> BOOLEAN]
  BY DEF IInv, TypeOK
<1>3. CASE Fault
  BY <1>1, <1>3, UpsetStep DEF Fault
<1>4. CASE ~Fault
  <2>1. /\ UNCHANGED <<hour, schedule, flag, clean, upset>> /\ check[k].pc = "wifi"
        /\ live' = [r \in RadioSet |-> flag[r] # "1"]
    BY <1>4 DEF ActivateChanges, NoFault
  <2>2. check'[k].pc = "done" /\ \A j \in Checkers : j # k => check'[j] = check[j]
    BY <1>2 DEF ActivateChanges, Check
  <2>3. Running(k) /\ Switching(k) /\ ~Switching(k)' /\ ~Running(k)'
    BY <2>1, <2>2 DEF Running, Switching
  <2>4. IsPubWifiEnabled' = IsPubWifiEnabled /\ Requested' = Requested
    BY <2>1 DEF IsPubWifiEnabled, Requested
  <2>5. \A j \in Checkers : j # k => /\ Running(j)' <=> Running(j)
                                     /\ Switching(j)' <=> Switching(j)
    BY <2>2 DEF Running, Switching
  <2>6. clean[k] \/ ~upset => \A r \in RadioSet : IsSet(r, check[k].req)
    BY <2>1 DEF IInv, ProgressInv, Progress
  <2>7. ProgressInv'
    <3>1. Progress(k)'
      BY <2>2 DEF Progress
    <3>2. ASSUME NEW j \in Checkers, j # k, clean[j] \/ ~upset
          PROVE  Progress(j)'
      <4>1. ~Running(j)'
        BY <2>3, <2>5, <3>2, SwitcherIsAlone
      <4> QED
        BY <4>1 DEF Running, Progress
    <3> QED
      BY <2>1, <3>1, <3>2 DEF ProgressInv
  <2>8. AloneInv'
    BY <2>1, <2>3, <2>5 DEF IInv, AloneInv
  <2>9. FreshInv'
    BY <2>1, <2>2, <2>3, <2>4, <2>5 DEF IInv, FreshInv
  <2>10. DoneInv'
    <3> SUFFICES ASSUME NEW j \in Checkers, clean[j], check'[j].pc = "done", Named # {}
                 PROVE  IsPubWifiEnabled = Requested /\ \A m \in Checkers : ~Switching(m)'
      BY <2>1, <2>4 DEF DoneInv, Named
    <3>1. j = k
      BY <2>2, <2>3, SwitcherIsAlone
    <3>2. check[k].req = Requested /\ check[k].req \in BOOLEAN
      BY <1>2, <2>3, <3>1 DEF IInv, FreshInv, Check
    <3>3. IsPubWifiEnabled = Requested
      BY <2>6, <3>1, <3>2, SettingIsStatus
    <3>4. \A m \in Checkers : ~Switching(m)'
      BY <2>3, <2>5, <3>1 DEF IInv, AloneInv, Running, Switching
    <3> QED
      BY <3>3, <3>4
  <2>11. CalmInv'
    <3> SUFFICES ASSUME ~upset
                 PROVE  /\ (\A r \in RadioSet : flag[r] # "1") \/ (\A r \in Named : flag[r] = "1")
                        /\ \A r \in RadioSet : live'[r] = (flag[r] # "1")
      BY <2>1 DEF CalmInv, Named
    <3>1. \A r \in RadioSet : flag[r] \in {"none", Setting(check[k].req)}
      BY <2>6 DEF IsSet
    <3>2. check[k].req => \A r \in RadioSet : flag[r] # "1"
      BY <3>1 DEF Setting
    <3>3. ~check[k].req => \A r \in Named : flag[r] = "1"
      BY <3>1 DEF Setting, Named
    <3> QED
      BY <2>1, <3>2, <3>3
  <2> QED
    BY <1>1, <2>7, <2>8, <2>9, <2>10, <2>11 DEF IInv
<1> QED
  BY <1>3, <1>4

\* The invariant holds in every state.
LEMMA Invariance == Spec => []IInv
<1>1. IInv /\ UNCHANGED vars => IInv'
  <2> SUFFICES ASSUME IInv, UNCHANGED vars PROVE IInv'
    OBVIOUS
  <2>1. TypeOK' /\ StartInv'
    BY TypeStep DEF IInv
  <2>2. UNCHANGED <<hour, schedule, flag, live, check, clean, upset>>
    BY DEF vars
  <2> QED
    BY <2>1, <2>2, ZenonT(60) DEF IInv, Named, IsSet, ProgressInv, AloneInv, FreshInv, DoneInv, CalmInv,
                      Progress, Running, Switching, Requested, IsPubWifiEnabled
<1>2. IInv /\ [Next]_vars => IInv'
  BY <1>1, WorldStep, BeginStep, ReadStatusStep, ReadScheduleStep, ChangeStep, ActivateStep
     DEF Next, CheckStep
<1> QED
  BY InvInit, <1>2, PTL DEF Spec

-----------------------------------------------------------------------------
\* check_public_wifi: the loop over PUBLIC_WIFI_RADIOS stays within the list, and
\* the state keeps its types, with any number of radios and of checks.
THEOREM TypeCorrect == Spec => []TypeOK
<1>1. IInv => TypeOK
  BY DEF IInv
<1> QED
  BY Invariance, <1>1, PTL

\* check_public_wifi: an undisturbed check in an up hour leaves no radio disabled,
\* for any schedule, time zone and calendar, and whatever happened before it.
THEOREM RepairsUpTime == Spec => []UpTimeIsRepaired
<1>1. ASSUME IInv, NEW k \in Checkers, check[k].pc = "done", clean[k], Wanted,
             NEW r \in RadioSet
      PROVE  flag[r] # "1"
  <2>1. CASE Named = {}
    BY <2>1 DEF Named
  <2>2. CASE Named # {}
    <3>1. IsPubWifiEnabled = Requested
      BY <1>1, <2>2 DEF IInv, DoneInv
    <3> QED
      BY <1>1, <3>1, WantedIsRequested DEF IInv, IsPubWifiEnabled
  <2> QED
    BY <2>1, <2>2
<1>2. IInv => UpTimeIsRepaired
  BY <1>1 DEF UpTimeIsRepaired
<1> QED
  BY Invariance, <1>2, PTL

\* check_public_wifi: as long as no command failed and no two checks overlapped
\* since the last power cut, an undisturbed check leaves every radio that uci knows
\* by name on the air exactly if the schedule wants it, whatever cut earlier checks
\* short.
THEOREM Settles == Spec => []SoundCheckSettlesWifi
<1>1. ASSUME IInv, ~upset, NEW k \in Checkers, check[k].pc = "done", clean[k],
             NEW r \in Named
      PROVE  live[r] = Wanted
  <2>1. IsPubWifiEnabled = Requested /\ \A j \in Checkers : ~Switching(j)
    BY <1>1 DEF IInv, DoneInv
  <2>2. /\ (\A x \in RadioSet : flag[x] # "1") \/ (\A x \in Named : flag[x] = "1")
        /\ live[r] = (flag[r] # "1")
    BY <1>1, <2>1 DEF IInv, CalmInv, Named
  <2>3. (flag[r] # "1") <=> Requested
    BY <2>1, <2>2 DEF IsPubWifiEnabled, Named
  <2>4. Wanted <=> Requested
    BY <1>1, WantedIsRequested DEF IInv
  <2> QED
    BY <2>2, <2>3, <2>4, Zenon DEF Wanted
<1>2. IInv => SoundCheckSettlesWifi
  BY <1>1 DEF SoundCheckSettlesWifi, IInv, TypeOK
<1> QED
  BY Invariance, <1>2, PTL
=============================================================================

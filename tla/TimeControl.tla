----------------------------- MODULE TimeControl ----------------------------
(***************************************************************************)
(* time_control.rs: check_public_wifi compares the state of the public     *)
(* wifi in the uci configuration with the schedule of up times and         *)
(* switches the radios.  Each command it runs (uci show, uci set per       *)
(* radio, wifi) is a step of its own; commands fail, and their results are *)
(* ignored.  A scheduler outside the repository starts the checks; two of  *)
(* them may overlap.                                                       *)
(***************************************************************************)
EXTENDS Integers, Sequences, FiniteSets

CONSTANTS Radios,       \* PUBLIC_WIFI_RADIOS, in order
          Checkers,     \* processes that run check_public_wifi
          Configurations, \* wireless configurations the router may boot with
          Schedules,    \* contents /etc/zealot.pub.tc may have
          HoursPerDay,
          DaysPerWeek,
          MaxHour,      \* bound on the hours that pass
          MaxFaults,    \* bound on the commands that fail
          MaxReboots    \* bound on the power cuts

RadioSet == {Radios[i] : i \in DOMAIN Radios}

\* For each radio the option wireless.wpublic<radio>.disabled of a configuration:
\* "none" if its public interface has no section of that name (as in the generated
\* file, whose wifi-iface sections are anonymous), "unset" if it has one (nothing
\* that the repository generates disables the public networks).
Configuration == [RadioSet -> {"none", "unset"}]

\* A content that cannot be read or parsed has readable = FALSE.  Otherwise it
\* lists the up hours of each day (perhaps of fewer days than a week has), in
\* the time zone that is offset hours ahead of UTC.
Schedule == [readable : BOOLEAN, upTime : Seq(SUBSET Nat), offset : Int]

ASSUME HoursAssumption ==
    /\ HoursPerDay \in Nat \ {0} /\ DaysPerWeek \in Nat \ {0}
    /\ MaxHour \in Nat /\ MaxFaults \in Nat /\ MaxReboots \in Nat
ASSUME ScheduleAssumption == Schedules \subseteq Schedule
ASSUME ConfigurationAssumption == Configurations \subseteq Configuration
ASSUME RadiosAssumption == Radios \in Seq(STRING) /\ Radios # <<>>

VARIABLES hour,      \* hours since some Monday, 0:00 UTC
          schedule,  \* the file
          flag,      \* uci: wireless.wpublic<radio>.disabled, staged in /tmp/.uci
          live,      \* the radios whose public network is on the air
          check,     \* local state of each run of check_public_wifi
          clean,     \* history: nothing has disturbed this check since it began
          upset,     \* history: a command failed or two checks overlapped since power-up
          faults,
          reboots

vars == <<hour, schedule, flag, live, check, clean, upset, faults, reboots>>

Check == [pc     : {"idle", "status", "request", "switch", "wifi", "done"},
          status : BOOLEAN,
          req    : BOOLEAN,
          next   : Nat]       \* index of the radio to switch

NoCheck == [pc |-> "idle", status |-> FALSE, req |-> FALSE, next |-> 1]

TypeOK ==
    /\ hour \in Nat
    /\ schedule \in Schedules
    /\ flag \in [RadioSet -> {"none", "unset", "0", "1"}]
    /\ live \in [RadioSet -> BOOLEAN]
    /\ check \in [Checkers -> Check]
    /\ \A k \in Checkers : check[k].pc = "switch" => check[k].next \in DOMAIN Radios
    /\ clean \in [Checkers -> BOOLEAN] /\ upset \in BOOLEAN
    /\ faults \in Nat
    /\ reboots \in Nat

\* The router boots with the public networks on.
Init ==
    /\ hour = 0
    /\ schedule \in Schedules
    /\ flag \in Configurations
    /\ live = [r \in RadioSet |-> TRUE]
    /\ check = [k \in Checkers |-> NoCheck]
    /\ clean = [k \in Checkers |-> FALSE] /\ upset = FALSE
    /\ faults = 0
    /\ reboots = 0

-----------------------------------------------------------------------------
(* The functions of time_control.rs. *)

\* weekday_to_index and the hour of the local time
LocalDay(offset, t) == ((t + offset) % (DaysPerWeek * HoursPerDay)) \div HoursPerDay

LocalHour(offset, t) == (t + offset) % HoursPerDay

\* Mutant: the weekday is taken from UTC, the hour from the local time.
RequestedWifiStatus_UtcDay(file, t) ==
    LET day == LocalDay(0, t) + 1
    IN  file.readable /\ day <= Len(file.upTime) =>
            \/ file.upTime[day] = {}
            \/ LocalHour(file.offset, t) \in file.upTime[day]

\* get_current_requested_wifi_status, with check_public_wifi's unwrap_or(true)
RequestedWifiStatus(file, t) ==
    LET day == LocalDay(file.offset, t) + 1
    IN  file.readable /\ day <= Len(file.upTime) =>
            \/ file.upTime[day] = {}
            \/ LocalHour(file.offset, t) \in file.upTime[day]

\* Mutant: the wifi counts as enabled while one radio is.
IsPubWifiEnabled_Any == \E r \in RadioSet : flag[r] # "1"

\* is_pub_wifi_enabled_impl: the wifi counts as disabled as soon as one radio is.
IsPubWifiEnabled == \A r \in RadioSet : flag[r] # "1"

\* The radios whose public interface is known to uci by the name that
\* time_control.rs uses.
Named == {r \in RadioSet : flag[r] # "none"}

\* uci set wireless.wpublic<radio>.disabled: uci refuses it when there is no
\* section of that name.
UciSet(r, enable) ==
    flag' = [flag EXCEPT ![r] = IF @ = "none" THEN @ ELSE IF enable THEN "0" ELSE "1"]

Disturbed == clean' = [k \in Checkers |-> FALSE]

\* A command of a check fails.
Fault == /\ faults < MaxFaults
         /\ faults' = faults + 1
         /\ upset' = TRUE
         /\ Disturbed

NoFault == UNCHANGED <<clean, upset, faults>>

-----------------------------------------------------------------------------
(* check_public_wifi *)

Begin(k) ==
    /\ check[k].pc \in {"idle", "done"}
    /\ check' = [check EXCEPT ![k] = [NoCheck EXCEPT !.pc = "status"]]
    /\ IF \A j \in Checkers \ {k} : check[j].pc \in {"idle", "done"}
       THEN clean' = [clean EXCEPT ![k] = TRUE] /\ UNCHANGED upset
       ELSE Disturbed /\ upset' = TRUE
    /\ UNCHANGED <<hour, schedule, flag, live, faults, reboots>>

\* is_pub_wifi_enabled.  If uci cannot be run the wifi counts as disabled; if it
\* runs and fails, its output is empty and the wifi counts as enabled.
ReadStatus(k) ==
    /\ check[k].pc = "status"
    /\ \/ /\ check' = [check EXCEPT ![k].pc = "request", ![k].status = IsPubWifiEnabled]
          /\ NoFault
       \/ /\ Fault
          /\ \E s \in BOOLEAN : check' = [check EXCEPT ![k].pc = "request", ![k].status = s]
    /\ UNCHANGED <<hour, schedule, flag, live, reboots>>

\* get_current_requested_wifi_status, and the comparison.
ReadSchedule(k) ==
    /\ check[k].pc = "request"
    /\ LET req == RequestedWifiStatus(schedule, hour)
       IN  check' = [check EXCEPT ![k].pc = IF check[k].status # req THEN "switch" ELSE "done",
                                  ![k].req = req]
    /\ NoFault /\ UNCHANGED <<hour, schedule, flag, live, reboots>>

\* Mutant: the loop over the radios goes one too far.
ChangeWifiStatus_OffByOne(k) ==
    /\ check[k].pc = "switch"
    /\ LET i == check[k].next
       IN  /\ UciSet(Radios[i], check[k].req)
           /\ check' = [check EXCEPT ![k].pc = IF i > Len(Radios) THEN "wifi" ELSE "switch",
                                     ![k].next = i + 1]
    /\ NoFault /\ UNCHANGED <<hour, schedule, live, reboots>>

\* change_wifi_status for the loop's next radio.  A uci that fails, or that knows
\* no section of that name, is ignored.
ChangeWifiStatus(k) ==
    /\ check[k].pc = "switch"
    /\ LET i == check[k].next
       IN  /\ \/ /\ UciSet(Radios[i], check[k].req)
                 /\ NoFault
              \/ Fault /\ UNCHANGED flag
           /\ check' = [check EXCEPT ![k].pc = IF i = Len(Radios) THEN "wifi" ELSE "switch",
                                     ![k].next = i + 1]
    /\ UNCHANGED <<hour, schedule, live, reboots>>

\* Mutant: the changes are not activated.
ActivateChanges_Never(k) ==
    /\ check[k].pc = "wifi"
    /\ check' = [check EXCEPT ![k].pc = "done"]
    /\ NoFault /\ UNCHANGED <<hour, schedule, flag, live, reboots>>

\* The `wifi` command brings the radios to the configured state, or fails.
ActivateChanges(k) ==
    /\ check[k].pc = "wifi"
    /\ \/ /\ live' = [r \in RadioSet |-> flag[r] # "1"]
          /\ NoFault
       \/ Fault /\ UNCHANGED live
    /\ check' = [check EXCEPT ![k].pc = "done"]
    /\ UNCHANGED <<hour, schedule, flag, reboots>>

-----------------------------------------------------------------------------
(* What happens around the checks. *)

HourPasses ==
    /\ hour < MaxHour
    /\ hour' = hour + 1
    /\ Disturbed
    /\ UNCHANGED <<schedule, flag, live, check, upset, faults, reboots>>

WriteSchedule ==
    /\ \E s \in Schedules \ {schedule} : schedule' = s
    /\ Disturbed
    /\ UNCHANGED <<hour, flag, live, check, upset, faults, reboots>>

\* A power cut: what uci staged is lost (it is never committed, and the root
\* file system is a tmpfs), and the generated configuration is in force again.
Reboot ==
    /\ reboots < MaxReboots
    /\ reboots' = reboots + 1
    /\ flag' = [r \in RadioSet |-> IF r \in Named THEN "unset" ELSE "none"]
    /\ live' = [r \in RadioSet |-> TRUE]
    /\ check' = [k \in Checkers |-> NoCheck]
    /\ Disturbed /\ upset' = FALSE
    /\ UNCHANGED <<hour, schedule, faults>>

CheckStep(k) == \/ Begin(k) \/ ReadStatus(k) \/ ReadSchedule(k)
                \/ ChangeWifiStatus(k) \/ ActivateChanges(k)

Next == \/ \E k \in Checkers : CheckStep(k)
        \/ HourPasses \/ WriteSchedule \/ Reboot

Spec == Init /\ [][Next]_vars

\* Checks are started again and again and run to their end; the hours pass.
LiveSpec == Spec /\ \A k \in Checkers : WF_vars(CheckStep(k))

-----------------------------------------------------------------------------
\* The state of the wifi that the schedule's text asks for, said of the local
\* calendar: the day and the hour that it is now in the schedule's time zone.
Wanted ==
    \E day \in 0 .. DaysPerWeek - 1, h \in 0 .. HoursPerDay - 1 :
        /\ (day * HoursPerDay + h - schedule.offset - hour) % (DaysPerWeek * HoursPerDay) = 0
        /\ \/ ~schedule.readable
           \/ day >= Len(schedule.upTime)
           \/ schedule.upTime[day + 1] = {}
           \/ h \in schedule.upTime[day + 1]

\* check_public_wifi: "If the status does not match, the public wifi is
\* activated/deactivated."  After a check that nothing disturbed, every radio
\* is on the air exactly if the schedule wants it, whatever earlier checks met.
CheckSettlesWifi ==
    \A k \in Checkers : check[k].pc = "done" /\ clean[k] =>
        \A r \in RadioSet : live[r] = Wanted

\* The same, for the radios that uci knows by name, while no command has failed
\* and no two checks have overlapped since the last power cut: earlier checks that
\* were caught by the end of an hour, a new schedule or a power cut half-way do no
\* harm.
SoundCheckSettlesWifi ==
    ~upset => \A k \in Checkers : check[k].pc = "done" /\ clean[k] =>
                \A r \in Named : live[r] = Wanted

\* check_public_wifi repairs at least one direction: an undisturbed check in an
\* up hour leaves no radio disabled in the configuration, even if commands
\* failed or checks overlapped before and left the radios in different states.
UpTimeIsRepaired ==
    \A k \in Checkers : check[k].pc = "done" /\ clean[k] /\ Wanted =>
        \A r \in RadioSet : flag[r] # "1"

\* Once the hour, the schedule and the power stay as they are, and no command
\* has failed and no checks have overlapped since the last power cut, the radios
\* that uci knows by name come to the state the schedule wants and keep it,
\* although an earlier check may have been caught by the end of the hour half-way.
WifiFollowsSchedule ==
    \A v \in BOOLEAN :
        <>[](Wanted = v /\ ~upset) => <>[](\A r \in Named : live[r] = v)

=============================================================================

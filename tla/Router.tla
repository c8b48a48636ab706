------------------------------- MODULE Router -------------------------------
(***************************************************************************)
(* The kernel-side state that Sentry and access_control share on the       *)
(* router: the chain "prerouting_public_rule" of the nat table, the        *)
(* neighbour table that `ip n` prints, and the clocks.  None of it is code *)
(* of the repository; it is modelled from how the services use it.         *)
(*                                                                         *)
(* A rule of the chain is a record.  The rules Sentry appends accept one   *)
(* MAC address and carry a timestamp in their comment; any other rule (one *)
(* a firewall script put there) has mac = NoMac.                           *)
(***************************************************************************)
EXTENDS Integers, SequencesExt

CONSTANTS Macs,         \* hardware addresses of the devices on the public wifi
          Ips,          \* addresses the DHCP server hands out
          NoMac,        \* no entry in the neighbour table / no mac in a rule
          MaxTime,      \* bound on the wall clock
          MaxStepped,   \* bound on the seconds NTP steps the clock by, in all
          MaxFaults     \* bound on the iptables commands that fail transiently

ASSUME NoMacAssumption == NoMac \notin Macs
ASSUME BoundsAssumption == /\ MaxTime \in Nat
                           /\ MaxStepped \in Nat
                           /\ MaxFaults \in Nat

VARIABLES chain,    \* the rules, in order
          neigh,    \* neighbour table: the MAC of each IP
          now,      \* wall clock, in seconds: what Utc::now and Local::now return
          uptime,   \* seconds that really passed
          stepped,  \* seconds NTP has stepped the wall clock by
          faults    \* how many iptables commands failed transiently

routerVars == <<chain, neigh, now, uptime, stepped, faults>>

MacOrNone == Macs \cup {NoMac}

Rule == [mac : MacOrNone, ts : Int]

ForeignRule == [mac |-> NoMac, ts |-> 0]

RouterTypeOK ==
    /\ chain \in Seq(Rule)
    /\ neigh \in [Ips -> MacOrNone]
    /\ now \in Nat
    /\ uptime \in Nat
    /\ stepped \in Nat
    /\ faults \in Nat

RouterInit ==
    /\ chain \in {<<>>, <<ForeignRule>>}
    /\ neigh = [ip \in Ips |-> NoMac]
    /\ now = 0
    /\ uptime = 0
    /\ stepped = 0
    /\ faults = 0

-----------------------------------------------------------------------------
(* The iptables commands. *)

\* iptables -A: appends, whether or not an equal rule is already there.
IptablesAppend(rule) == chain' = Append(chain, rule)

\* iptables -D with a rule specification: removes the first rule equal to it,
\* and fails when there is none.
IptablesHas(rule) == rule \in ToSet(chain)

IptablesDelete(rule) == chain' = RemoveFirst(chain, rule)

\* A command that fails though it could have been carried out, for instance
\* because another process holds the xtables lock.
IptablesFault == /\ faults < MaxFaults
                 /\ faults' = faults + 1

\* Port 80 traffic of a device is redirected to Sentry unless a rule accepts
\* its MAC address first.
Intercepted(mac) == \A i \in DOMAIN chain : chain[i].mac # mac

-----------------------------------------------------------------------------
(* What happens around the services. *)

\* One second passes.
Tick ==
    /\ now < MaxTime
    /\ now' = now + 1
    /\ uptime' = uptime + 1
    /\ UNCHANGED <<chain, neigh, stepped, faults>>

\* NTP corrects a clock that was behind (the router has no battery-backed
\* clock, so it boots with a time in the past).
StepClock ==
    /\ \E n \in 1 .. MaxStepped - stepped :
         /\ now + n <= MaxTime
         /\ now' = now + n
         /\ stepped' = stepped + n
    /\ UNCHANGED <<chain, neigh, uptime, faults>>

\* A neighbour entry fails or is collected; `ip n` then prints fewer than six
\* columns for it, or no line at all.
Evict(ip) ==
    /\ neigh[ip] # NoMac
    /\ neigh' = [neigh EXCEPT ![ip] = NoMac]
    /\ UNCHANGED <<chain, now, uptime, stepped, faults>>

\* A device answers for an address: one whose entry was gone, or one that another
\* device had (a lease that went to it, an address it took).
Bind(ip, mac) ==
    /\ neigh[ip] # mac
    /\ neigh' = [neigh EXCEPT ![ip] = mac]
    /\ UNCHANGED <<chain, now, uptime, stepped, faults>>

=============================================================================

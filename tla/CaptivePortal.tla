--------------------------- MODULE CaptivePortal ----------------------------
(***************************************************************************)
(* Sentry and access_control on one router.  They are separate processes   *)
(* and meet only in the chain: Sentry appends rules, checks delete them.   *)
(***************************************************************************)
EXTENDS Sentry, AccessControl

vars == <<routerVars, sentryVars, accessVars>>

Init == RouterInit /\ SentryInit /\ AccessInit

Around == \/ /\ \/ Tick
                \/ StepClock
                \/ \E ip \in Ips : Evict(ip)
             /\ UNCHANGED sentryVars
          \/ \E ip \in Ips, mac \in Macs : Rebind(ip, mac)

Next == \/ (SentryNext \/ Around) /\ UNCHANGED accessVars
        \/ AccessNext /\ UNCHANGED sentryVars

Spec == Init /\ [][Next]_vars

\* What the scheduling justifies.  Sentry: a handler runs to its end (the commands
\* it waits for terminate); the loop polls every connection that is ready again
\* and again, so one with a request to read is not passed over forever; procd
\* respawns without limit ("respawn 5 0 0").  Clients need not do anything: not
\* send a request, not stay, not leave.
SentryFairness ==
    /\ WF_vars(Start /\ UNCHANGED accessVars)
    /\ WF_vars(Handle /\ UNCHANGED accessVars)
    /\ \A c \in Conns : SF_vars(Receive(c) /\ UNCHANGED accessVars)

\* access_control: checks are started again and again, and run to their end.
CheckFairness == \A c \in Checkers : WF_vars(CheckStep(c) /\ UNCHANGED sentryVars)

\* Neither process needs the other one to be scheduled.
LiveSentrySpec == Spec /\ SentryFairness

LiveChecksSpec == Spec /\ CheckFairness

-----------------------------------------------------------------------------
TypeOK == RouterTypeOK /\ SentryTypeOK /\ AccessTypeOK

\* The rule that a step appends to the chain.
Appends == Len(chain') > Len(chain)

\* Sentry::authorize_client: a rule is added only while a request is handled in
\* which the user accepts the terms, and for a device that had the address of
\* that request while it was handled: not for one that had it when the
\* connection was opened, or when an earlier request was handled, although the
\* lookup of the MAC, the reading of the clock and the append are separate
\* commands, entries vanish and addresses move to other devices in between.
\* As long as the address did not move, that device is the one that asked.
AccessFollowsConsent ==
    [][Appends => /\ "tos" \in Req.query
                  /\ Last(chain').mac \in conn[loop.c].held]_vars

\* What the comment at service.rs:38 says, "If the secret is present, the client is
\* authorized": a request whose query contains the secret (the one in the X-SC
\* headers, which the accept button of the portal passes back) leads to
\* authorize_client.
SecretAuthorizes ==
    [][\A c \in Conns :
         /\ conn[c].state = "asking" /\ "secret" \in conn[c].req.query
         /\ conn'[c].state = "handled"
         => loop'.pc = "authorize"]_vars

\* Sentry::fetch_portal looks the MAC up a second time: the portal is told of a
\* device that had the address while this request was handled, whatever device
\* opened the connection or was found by authorize_client, and also after other
\* requests were handled while the answer was pending.
PortalSeesHolder ==
    \A c \in Conns : conn[c].state = "fetching" => conn[c].hdr \in conn[c].held

\* authorize_client reports an acceptance over ubus only once the rule is in
\* iptables: each message names a device for which a rule was appended, stamped
\* no later than the message.
MessageAfterRule ==
    \A m \in accepted : \E a \in appended : a.mac = m.mac /\ a.ts <= m.ts

\* The checks that a step advances, and what was appended as rule r.
Advancing == {k \in Checkers : check'[k] # check[k]}

Appendings(r) == {a \in appended : a.mac = r.mac /\ a.ts = r.ts}

\* access_control: an access ends only through a check, and only after it lasted,
\* counted in seconds that really passed since iptables appended the rule, longer
\* than the valid time this check read; what may be missing is the time from
\* reading the clock to the append, and the seconds NTP stepped the clock by in
\* between.  This holds whichever checks run, whatever the files said before, and
\* when the device accepts again and its rules are equal.
FullAccessTime ==
    [][\A r \in ToSet(chain) \ ToSet(chain') : \E k \in Advancing :
         /\ Appendings(r) # {}
         /\ \A a \in Appendings(r) :
              uptime - a.at > check[k].valid - (a.at - a.since) - (stepped - a.stepped)
      ]_vars

\* No check but c was ever started.
Alone(c) == \A d \in Checkers \ {c} : check[d] = NoCheck

\* check_for_expired: a check that has the chain to itself (no other check, no
\* failing command) never gives up, although Sentry appends rules, equal ones
\* too, between the listing and the deletions.
LoneCheckSucceeds ==
    faults = 0 => \A c \in Checkers : Alone(c) => check[c].result # "err"

\* The rule is in the chain, and expired by the configuration file as it is.
Overdue(rule) ==
    IptablesHas(rule) /\ IsExpired(rule, ReadValidTime(validFile), now)

\* check_for_expired: an expired rule does not stay in the chain (unless the file
\* changes and it is no longer expired), although a check gives up at the first
\* deletion that fails, another check may have deleted the same rule, and nothing
\* makes Sentry get on with its part.
ExpiredIsRevoked ==
    \A mac \in Macs, ts \in 0 .. MaxTime :
        LET rule == [mac |-> mac, ts |-> ts] IN Overdue(rule) ~> ~Overdue(rule)

\* sentry_main: a client that sent its request is dealt with, although handlers
\* of other requests block the loop, other clients say nothing, and a panic may
\* end the process.
RequestIsServed == \A c \in Conns : conn[c].state = "asking" ~> conn[c].state # "asking"

\* Service::call: whatever the handler meets (a missing neighbour, a failing
\* command, a panic), the loop comes back to waiting for requests.
LoopComesBack == Busy ~> loop.pc = "idle"

\* What the chain amounts to: the admissions its rules stand for.
Grants == {chain[i] : i \in {j \in DOMAIN chain : Parses(chain[j])}}

Promise == INSTANCE Admission WITH Devices <- Macs, grants <- Grants, clock <- now

\* The rules that Sentry appends and the checks delete implement Admission: a
\* grant is dated in the past and ends only when its valid time is over.
ImplementsAdmission == Promise!Spec

=============================================================================

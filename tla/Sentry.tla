------------------------------- MODULE Sentry -------------------------------
(***************************************************************************)
(* The captive portal service (sentry/mod.rs, service.rs, sentry.rs,       *)
(* ip.rs, ubus.rs, portal.rs, proxy.rs).                                   *)
(*                                                                         *)
(* One thread runs an event loop.  Service::call handles a request without *)
(* yielding to the loop, but it waits for `ip`, `iptables` and `ubus`      *)
(* commands in the middle, and what they read changes between two of them:  *)
(* an address may go to another device while its request is handled.       *)
(* Answers that come from the network (the portal, a proxied site) are     *)
(* futures: many may be pending while the loop handles other requests.     *)
(* A panic ends the process and every connection with it; procd starts it  *)
(* again.                                                                  *)
(***************************************************************************)
EXTENDS Router

CONSTANTS Conns,     \* connections the service can have at a time
          Requests,  \* the requests clients send
          MaxRules   \* bound on the length of the chain

\* What Service::call looks at in a request: the Host header, the host of the
\* Referer header ("other" if there is none), and what the query contains.
Request == [host    : {"none", "portal", "other"},
            referer : {"portal", "other"},
            query   : SUBSET {"tos", "secret"}]

ASSUME RequestsAssumption == Requests \subseteq Request
ASSUME MaxRulesAssumption == MaxRules \in Nat
ASSUME SomeConnAssumption == Conns # {} /\ Ips # {}

VARIABLES loop,      \* the event loop and the request it is handling
          conn,      \* the accepted connections
          appended,  \* history: the rules appended, when they were stamped and when appended
          accepted   \* history: the /sentry/accept messages sent over ubus

historyVars == <<appended, accepted>>

sentryVars == <<loop, conn, historyVars>>

\* pc is the command Service::call is about to run for connection c; mac and ts
\* are the locals of authorize_client (since, stepped: uptime and the seconds
\* stepped when ts was read).
Loop == [pc      : {"down", "idle", "authorize", "stamp", "append", "notify",
                    "dispatch", "portal"},
         c       : Conns,
         mac     : MacOrNone,
         ts      : Nat,
         since   : Nat,
         stepped : Nat]

\* dev is the device that opened the connection and req what it asked, until
\* Service::call returns; hdr is the address that the portal request names in its
\* X-SC headers.  held is history: the devices that had the connection's IP
\* address at some moment since the loop read the request, up to the fetch of the
\* portal.
Conn == [state : {"free", "open", "asking", "handled", "fetching", "proxying"},
         ip    : Ips,
         dev   : MacOrNone,
         req   : Request,
         held  : SUBSET Macs,
         hdr   : MacOrNone]

Appended == [mac : MacOrNone, ts : Nat, since : Nat, stepped : Nat, at : Nat]

Accepted == [ip : Ips, mac : MacOrNone, ts : Nat]

SentryTypeOK ==
    /\ loop \in Loop
    /\ conn \in [Conns -> Conn]
    /\ appended \in SUBSET Appended
    /\ accepted \in SUBSET Accepted

SomeIp == CHOOSE ip \in Ips : TRUE

NoRequest == [host |-> "none", referer |-> "other", query |-> {}]

FreeConn(ip) == [state |-> "free", ip |-> ip, dev |-> NoMac, req |-> NoRequest,
                 held |-> {}, hdr |-> NoMac]

IdleLoop == [pc |-> "idle", c |-> CHOOSE c \in Conns : TRUE,
             mac |-> NoMac, ts |-> 0, since |-> 0, stepped |-> 0]

DownLoop == [IdleLoop EXCEPT !.pc = "down"]

SentryInit ==
    /\ loop = DownLoop
    /\ conn = [c \in Conns |-> FreeConn(SomeIp)]
    /\ appended = {}
    /\ accepted = {}

Close(c) == conn' = [conn EXCEPT ![c] = FreeConn(SomeIp)]

Busy == loop.pc \notin {"down", "idle"}

HandledIp == conn[loop.c].ip

\* The request that is being handled.
Req == conn[loop.c].req

\* Sentry::contains_secret
ContainsSecret(query) == "tos" \in query

\* ip_to_mac: the first line of `ip n` for the address that has six columns.
\* None stands for a missing entry and for a failing `ip` command.
IpToMac(ip) == {neigh[ip], NoMac}

-----------------------------------------------------------------------------
(* The process. *)

\* sentry_main: binds the port and runs the loop.  procd starts it at boot and
\* whenever it has ended.
Start ==
    /\ loop.pc = "down"
    /\ loop' = IdleLoop
    /\ UNCHANGED <<routerVars, conn, historyVars>>

\* A panic unwinds through the event loop: all connections are lost.
Panic ==
    /\ loop' = DownLoop
    /\ conn' = [c \in Conns |-> FreeConn(SomeIp)]

-----------------------------------------------------------------------------
(* The clients. *)

\* A device opens a connection to port 80; the nat table decides at that moment
\* whether it ends at Sentry.
Connect(c, ip) ==
    /\ loop.pc # "down"
    /\ conn[c].state = "free"
    /\ neigh[ip] # NoMac
    /\ Intercepted(neigh[ip])
    /\ conn' = [conn EXCEPT ![c] = [FreeConn(ip) EXCEPT !.state = "open",
                                                        !.dev = neigh[ip]]]
    /\ UNCHANGED <<routerVars, loop, historyVars>>

\* Requests that may still add a rule.
Accepting == {c \in Conns : /\ conn[c].state \in {"asking", "handled"}
                            /\ ContainsSecret(conn[c].req.query)}

\* The client sends its request.  Nothing makes it send one: the service has no
\* read timeout, and a silent connection stays open.
\* (The bound: no accepting request for which MaxRules would leave no room.)
Send(c, req) ==
    /\ conn[c].state = "open"
    /\ ContainsSecret(req.query) => Len(chain) + Cardinality(Accepting) < MaxRules
    /\ conn' = [conn EXCEPT ![c].state = "asking", ![c].req = req]
    /\ UNCHANGED <<routerVars, loop, historyVars>>

\* The loop sees that the client closed the connection, or that it broke.  The
\* client may leave at any time; while its request is handled the loop does not
\* look, and what it then learns is that the connection is gone.
Hangup(c) ==
    /\ conn[c].state \in {"open", "asking", "fetching", "proxying"}
    /\ Close(c)
    /\ UNCHANGED <<routerVars, loop, historyVars>>

\* An address goes to another device, whatever connections were opened from it.
Rebind(ip, mac) ==
    /\ Bind(ip, mac)
    /\ conn' = [c \in Conns |->
                  IF conn[c].state = "handled" /\ conn[c].ip = ip
                  THEN [conn[c] EXCEPT !.held = @ \cup {mac}]
                  ELSE conn[c]]
    /\ UNCHANGED <<loop, historyVars>>

-----------------------------------------------------------------------------
(* Service::call, in the order of its commands. *)

\* The loop has read a request.  handle_authorized: a query that "contains the
\* secret" leads to authorize_client, everything else to the three handlers.
Receive(c) ==
    /\ loop.pc = "idle"
    /\ conn[c].state = "asking"
    /\ conn' = [conn EXCEPT ![c].state = "handled",
                            ![c].held = {neigh[conn[c].ip]} \ {NoMac}]
    /\ loop' = [IdleLoop EXCEPT
                   !.pc = IF ContainsSecret(conn[c].req.query) THEN "authorize"
                                                               ELSE "dispatch",
                   !.c = c]
    /\ UNCHANGED <<routerVars, historyVars>>

\* Mutant: the MAC that was looked up when the connection was accepted.
LookupMac_AtAccept ==
    /\ loop.pc = "authorize"
    /\ loop' = [loop EXCEPT !.pc = "stamp", !.mac = conn[loop.c].dev]
    /\ UNCHANGED <<routerVars, conn, historyVars>>

\* Mutant: authorize_client asks again instead of returning.
LookupMac_Retry ==
    /\ loop.pc = "authorize"
    /\ neigh[HandledIp] # NoMac
    /\ loop' = [loop EXCEPT !.pc = "stamp", !.mac = neigh[HandledIp]]
    /\ UNCHANGED <<routerVars, conn, historyVars>>

\* authorize_client: ip_to_mac, and an early return when it finds nothing.
LookupMac ==
    /\ loop.pc = "authorize"
    /\ \E mac \in IpToMac(HandledIp) :
         loop' = [loop EXCEPT !.pc = IF mac = NoMac THEN "dispatch" ELSE "stamp",
                              !.mac = mac]
    /\ UNCHANGED <<routerVars, conn, historyVars>>

\* authorize_client_in_iptables: Local::now goes into the rule's comment ...
StampRule ==
    /\ loop.pc = "stamp"
    /\ loop' = [loop EXCEPT !.pc = "append", !.ts = now, !.since = uptime,
                            !.stepped = stepped]
    /\ UNCHANGED <<routerVars, conn, historyVars>>

\* ... and iptables appends the rule.
AppendRule ==
    /\ loop.pc = "append"
    /\ IptablesAppend([mac |-> loop.mac, ts |-> loop.ts])
    /\ appended' = appended \cup {[mac |-> loop.mac, ts |-> loop.ts,
                                   since |-> loop.since, stepped |-> loop.stepped,
                                   at |-> uptime]}
    /\ loop' = [loop EXCEPT !.pc = "notify"]
    /\ UNCHANGED <<neigh, now, uptime, stepped, faults, conn, accepted>>

\* Mutant: the result of iptables is ignored.
AppendRuleFails_Ignored ==
    /\ loop.pc = "append"
    /\ IptablesFault
    /\ loop' = [loop EXCEPT !.pc = "notify"]
    /\ UNCHANGED <<chain, neigh, now, uptime, stepped, conn, historyVars>>

\* iptables fails: no message, the request is handled all the same.
AppendRuleFails ==
    /\ loop.pc = "append"
    /\ IptablesFault
    /\ loop' = [loop EXCEPT !.pc = "dispatch"]
    /\ UNCHANGED <<chain, neigh, now, uptime, stepped, conn, historyVars>>

\* send_message("/sentry/accept") with a second reading of the clock.
Notify ==
    /\ loop.pc = "notify"
    /\ accepted' = accepted \cup {[ip |-> HandledIp, mac |-> loop.mac, ts |-> now]}
    /\ loop' = [loop EXCEPT !.pc = "dispatch"]
    /\ UNCHANGED <<routerVars, conn, appended>>

\* ubus cannot be run: the message is lost, and only printed.
NotifyFails ==
    /\ loop.pc = "notify"
    /\ loop' = [loop EXCEPT !.pc = "dispatch"]
    /\ UNCHANGED <<routerVars, conn, historyVars>>

\* handle_portal: the request is for the portal's host.
DispatchPortal ==
    /\ loop.pc = "dispatch"
    /\ Req.host = "portal"
    /\ loop' = [loop EXCEPT !.pc = "portal"]
    /\ UNCHANGED <<routerVars, conn, historyVars>>

\* Mutant: the MAC that was looked up when the connection was accepted.
FetchPortal_AtAccept ==
    /\ loop.pc = "portal"
    /\ conn' = [conn EXCEPT ![loop.c] = [@ EXCEPT !.state = "fetching",
                                                  !.req = NoRequest,
                                                  !.hdr = conn[loop.c].dev]]
    /\ loop' = IdleLoop
    /\ UNCHANGED <<routerVars, historyVars>>

\* Mutant: the handler waits for the neighbour instead of panicking.
FetchPortal_Wait ==
    /\ loop.pc = "portal"
    /\ neigh[HandledIp] # NoMac
    /\ conn' = [conn EXCEPT ![loop.c] = [@ EXCEPT !.state = "fetching",
                                                  !.req = NoRequest,
                                                  !.hdr = neigh[HandledIp]]]
    /\ loop' = IdleLoop
    /\ UNCHANGED <<routerVars, historyVars>>

\* fetch_portal: ip_to_mac a second time, now with expect.
FetchPortal ==
    /\ loop.pc = "portal"
    /\ \E mac \in IpToMac(HandledIp) :
         \/ /\ mac # NoMac
            /\ conn' = [conn EXCEPT ![loop.c] = [@ EXCEPT !.state = "fetching",
                                                          !.req = NoRequest,
                                                          !.hdr = mac]]
            /\ loop' = IdleLoop
         \/ /\ mac = NoMac
            /\ Panic
    /\ UNCHANGED <<routerVars, historyVars>>

\* The other panics of a handler: iptables::new(..).unwrap() when iptables cannot
\* be run, and the expects on the URLs that handle_portal and handle_referer
\* build from the Host header.
HandlerPanics ==
    /\ \/ loop.pc = "stamp" /\ IptablesFault
       \/ /\ loop.pc = "dispatch" /\ UNCHANGED faults
          /\ \/ Req.host = "portal"
             \/ Req.host = "other" /\ Req.referer = "portal"
    /\ Panic
    /\ UNCHANGED <<chain, neigh, now, uptime, stepped, historyVars>>

\* handle_referer: a resource a portal page links to is proxied.
ProxyReferer ==
    /\ loop.pc = "dispatch"
    /\ Req.host = "other"
    /\ Req.referer = "portal"
    /\ conn' = [conn EXCEPT ![loop.c] = [@ EXCEPT !.state = "proxying",
                                                  !.req = NoRequest,
                                                  !.held = {}]]
    /\ loop' = IdleLoop
    /\ UNCHANGED <<routerVars, historyVars>>

\* handle_redirect: 302 to the portal, with Connection: close.
Redirect ==
    /\ loop.pc = "dispatch"
    /\ Req.host # "portal"
    /\ ~(Req.host = "other" /\ Req.referer = "portal")
    /\ Close(loop.c)
    /\ loop' = IdleLoop
    /\ UNCHANGED <<routerVars, historyVars>>

\* The pending future ends: the upstream answer is passed on, or the offline
\* page is served for an error.  Both close the connection.  The future is
\* polled by the loop, so it ends only while the loop is not in a handler.
Answer(c) ==
    /\ loop.pc = "idle"
    /\ conn[c].state \in {"fetching", "proxying"}
    /\ Close(c)
    /\ UNCHANGED <<routerVars, loop, historyVars>>

-----------------------------------------------------------------------------
Handle == \/ LookupMac \/ StampRule \/ AppendRule \/ AppendRuleFails
          \/ Notify \/ NotifyFails \/ DispatchPortal \/ FetchPortal
          \/ HandlerPanics \/ ProxyReferer \/ Redirect

SentryNext == \/ Start
              \/ Handle
              \/ \E c \in Conns : Receive(c) \/ Answer(c) \/ Hangup(c)
              \/ \E c \in Conns, req \in Requests : Send(c, req)
              \/ \E c \in Conns, ip \in Ips : Connect(c, ip)

=============================================================================

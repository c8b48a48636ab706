# safewrt: specifications, model checking and proofs

safewrt is an OpenWrt variant for routers with a public wifi. This directory
holds TLA+ specifications of the programs the repository adds to OpenWrt, TLC
configurations that check them on small instances, and TLAPS proofs of what they
check for instances of any size. `PROJECT.json` is the machine-readable index: components, runs,
the source lines behind each definition, findings, hazards and theorems.

## 1. Inventory

| Component | State it keeps | Operations | Meets others through | What is hard |
|---|---|---|---|---|
| **Sentry** (`sentry/*.rs`) | an event loop, the connections, pending upstream answers; rules in iptables | `Service::call` (authorize, portal, referer, redirect), upstream answers | the nat chain, `ip n`, `ubus`, upstream servers | blocking commands in the only thread, state that changes between two commands, panics that end the process |
| **access_control** | nothing between calls; the rules in iptables | `check_for_expired` | the same chain | the chain changes between the listing and the deletions; overlapping checks; a deletion that fails |
| **time_control** | uci's staged wireless settings | `check_public_wifi` | `uci`, `wifi`, a JSON schedule | ignored failures per radio, overlapping checks, hour boundaries, time zones, reboots |
| **lifeline1** (`lifeline1/mod.rs`) | the address list, one call at a time | `resolve`, `remote`, `local`, `main` | DNS, servers, the local ssh port | three timeouts against sockets, silent servers, segmentation |
| **copy_with_deadline** (`lifeline1/copy.rs`) | a buffer, a position, a timer | `poll` | two sockets, the timer, `select2` | short reads and writes, lost wake-ups, the deadline against traffic |
| **lifeline** (C) | sockets, a record list | `attempt_dns`, `attempt_remote`, `forward_loop`, `main` | DNS, servers, ssh | segmentation, leaked sockets, blocking writes in the only thread, servers that vanish |
| **tplink-safeloader** | images and tables in memory | build, extract, convert | files, MD5, the kernel's `mtdparts` | sizes at buffer and alignment boundaries, layouts that do not fit each other |
| **MD5** (`md5.c`) | a block that is not full, the length in two words | `MD5_Init`, `MD5_Update`, `MD5_Final` | tplink-safeloader | pieces across blocks, the carry of the length, the padding at the end of a block |
| **patch-cmdline** | a kernel image, mapped and shared | one pass | the image file, the build that runs it again | being killed half-way, older and longer lines, a marker at the end of the search space |
| genesis-gf, boot hook, fstools patch | generated configuration | one pass at boot | flash, `/etc` | a boot that stops half-way |
| hatch main, identity | none | dispatch by program name | flash | nothing beyond the services |

Sentry and access_control are separate processes that share the chain
`prerouting_public_rule`: the first appends a rule with a MAC address and a
timestamp, the other deletes it when it is old. Who starts `check_for_expired`
and `check_public_wifi` is not in the repository (`lib.rs` exports them), so
nothing is assumed about when checks start or whether they overlap.

## 2. Modules

| Module | Models | Built on |
|---|---|---|
| `Router` | iptables chain, neighbour table, wall clock and real time (external) | |
| `Sentry` | the captive portal process | `Router` |
| `AccessControl` | `check_for_expired`, any number at a time | `Router` |
| `CaptivePortal` | both processes on one router; properties | `Sentry`, `AccessControl` |
| `Admission` | abstract: what the two promise together | |
| `TimeControl` | `check_public_wifi` | |
| `CopyWithDeadline` | the copy future, its task, sockets, timer | |
| `Tunnel` | two copies from the moment `remote` creates them; properties | `CopyWithDeadline` |
| `BytePipe` | abstract: what each direction of a tunnel promises | |
| `Lifeline1` | the Rust client around the tunnel | |
| `ForwardLoop` | the C client's tunnel: `splice`, `forward_loop`, socket buffers, keepalive | |
| `Lifeline` | the C client; properties | `ForwardLoop` |
| `Extents` | contents of files and buffers as extents of named origins | |
| `Boards` | the table `boards[]` | |
| `Safeloader` | building, hashing, extracting and converting images; properties | `Extents`, `Boards` |
| `Md5` | buffering, length and padding of the hash | |
| `PatchCmdline` | writing the command line into a kernel image | |
| `XProofs` | theorems about `X`: `CaptivePortal`, `TimeControl`, `Tunnel`, `Lifeline1`, `Lifeline`, `Safeloader`, `Md5`, `PatchCmdline` | `X`, TLAPS |
| `MC*` | values of the constants for TLC | |

### State and actions against the code

**Sentry.** `loop.pc` is the command `Service::call` is about to run, with the
locals of `authorize_client`; one action per command, since between two commands
the rest of the router moves on: `Receive` (the request has been read;
`handle_authorized`), `LookupMac` (`ip n`), `StampRule` (`iptables::new`, the
clock), `AppendRule(Fails)`, `Notify(Fails)`, `DispatchPortal`, `FetchPortal`
(`ip n` again, which panics without an entry), `ProxyReferer`, `Redirect`.
`HandlerPanics` gathers the other `unwrap`s and `expect`s. `conn` holds
connections that are silent ("open"), have sent a request ("asking"), are handled
or have a pending upstream answer; `Answer` ends the latter. A panic clears
everything; `Start` is procd. Requests are what the handlers test: the host, the
host of the referer, and whether the query contains `tos_accepted=true` or the
secret. The look-up of the DHCP host name only adds a header and is part of
`FetchPortal`. `ip n` may give no MAC although there is an entry: it stands for a
command that fails.

Clients and the network are free. A client sends a request or never does (`Send`),
and leaves when it likes (`Hangup`); while its request is handled the loop does
not look, so a client that left then is one whose connection ends right after.
`Rebind` gives any address to any device at any moment, whatever connections were
opened from it. `held` records the devices that had a connection's address while
its request was handled: that is all a lookup of the neighbour table can promise,
and the properties say no more. It need not be the device that asked: an address
that moved between the connection and the lookup gives the access to the other
device.

**Router.** `now` is the wall clock, `uptime` the seconds that really passed, and
`stepped` those that NTP added: the router boots with a clock in the past, and
`StepClock` moves it by any number of seconds, more than once, at any moment, up
to `MaxStepped` in all.

**AccessControl.** `List` reads the valid time and the chain, then `Examine` and
`Delete` go through the listed rules; `DeleteFails` ends the check. A panic in
`iptables::new` ends it just as an error of the listing does (`ListFails`). A
caller's explicit `valid_time` acts like a file content that parses.

**TimeControl.** `Begin`, `ReadStatus`, `ReadSchedule`, one `ChangeWifiStatus` per
radio, `ActivateChanges`. A time zone is an offset in whole hours. Days and weeks
have `HoursPerDay` and `DaysPerWeek`. `Configurations` are the wireless
configurations the router may boot with: time_control addresses the sections
`wpublica` and `wpublicg` by name; `wireless.mustache` generates
sections without a name, and the tests of `time_control.rs` show a configuration
that names one of them. `uci set` on a section that does not exist is refused
(`UciSet`), and the code ignores that.

**CopyWithDeadline.** `PollTimer`, `PollRead`, `PollWrite` and `PollFails` are the
parts of `poll`; the task sleeps when the last copy is parked. External, from
tokio-core and futures: `Timeout::reset` drops the registration of the task; a
timer wakes the task only when polled after its last reset; polling `None` is
ready at once; `TcpStream::flush` does nothing; `select2` polls in order and
drops the loser. For `BytePipe`, what `out` holds is what was delivered, a copy
that ended at end-of-file is a finished direction, and the deadline and errors
are the other ends.

**Lifeline1.** `pc` is what the client waits for, `elapsed` the time since then.
`Limit` is the longest wait of each phase, so `Tick` need not count further. The
result of writing the helo is ignored, as in the code: a server that got only
part of it is one that stays silent.

**Lifeline.** The position in the three nested loops, the number of open sockets,
and the server's byte stream in symbols. A refused connection is a socket that
`recv` finds closed, as in the code, where `poll` reports it like a connection.
`LocalConnectFails` and `ForwardEnds` close nothing. Server names that are
numeric addresses do not occur in `config.h` and are left out. Of the resolvers a
process goes through, and of the records of an answer it attempts, only the
numbers are kept: what each answers is open anyway. `Drop` forgets
the contents of a connection the client no longer looks at, open or not.

**ForwardLoop.** `rx` and `tx` are what each socket holds in either direction,
`tx` up to `ROOM` bytes. `Poll` reports the sockets once; then each is looked at
in turn (`NotReady`, `SpliceRead`), and `SpliceWrite` goes on piece by piece as
the peer makes room, during which nothing else of the loop happens. A peer is up,
has closed, or is gone without a word; `Keepalive` is the kernel acting on the
socket options that `remote_connect` sets.

**Safeloader.** `Parts` is `parts[]` of `build_image`; `Listed` ends at the first
entry without a name, like all loops of the code. `PutPartition` and
`CopyPartition` are the loop bodies of `put_partitions` and
`generate_sysupgrade_image`; `Hashed` is what `put_md5` is given; `Write` is one
call of `write_partition`, `write_ff` or `fseek` in `extract_firmware` and
`convert_firmware`: the whole buffers its loop counts out, and a last chunk only if
they leave something, so that a loop that goes too far writes too much. The table
of boards is the constant `Devices`; the runs give it
all of `boards[]`, with the partitions and sizes of the source. Contents are sets of
extents (first byte, end, what they are bytes of, and how far further on there), so
that images of 16 MB are compared byte by byte. `SizeOfFirst` adds up at most eight
sizes, since `parts[]` has no more names. Of the text of the tables the length is
computed, digit by digit where `%05x` grows; what was printed is read back.
`read_file_split2` leaves a tail uninitialised; it is carried as `junk`.
`Mtdparts` is the kernel command line of `src/Makefile`.

**Md5.** `MD5_Update` is one call with its branches; `Body` gets sequences of
bytes and leaves open what the rounds compute, which no property needs: a hash
stands for the bytes it was computed from. `Body` of nothing runs away, since
its loop tests the size last.

**PatchCmdline.** `Run`, `Search`, `NotFound`, `Memset` and `Strcpy` are the
steps of `main`; `Killed` ends it after any byte of the latter two. The file is
kept between runs because the mapping is shared.

Operators named `X_Y` beside an action `X`, marked "Mutant", are wrong variants of
that action; `PROJECT.json` says which property notices each.

## 3. Runs

Run with `tlc -config X.cfg M`. Passing runs:

| cfg | Checks | Bounds, and why they are enough |
|---|---|---|
| `Sentry.cfg` | `AccessFollowsConsent`, `PortalSeesHolder`, `MessageAfterRule`, `RequestIsServed`, `LoopComesBack` | 2 devices that take one address from each other before, between and after the two lookups of a request; 2 connections, so that a handler runs while another client waits, is silent or has a pending answer; one request for each path through `Service::call`; one iptables failure, panics, one rule. Requests that do not accept must be among them: accepting ones end at `MaxRules`. No checks run here; that the configuration file may change meanwhile is nothing to Sentry |
| `Expiry.cfg` | `TypeOK`, `LoneCheckSucceeds`, `FullAccessTime`, `ImplementsAdmission`, `ExpiredIsRevoked` | 2 connections of one device that may accept twice before its first rule is in place (equal rules or not), 2 checks that may overlap, one failure; a configured valid time of 0 seconds, so that one second is enough to expire, and that second may pass or be a step of NTP |
| `Wifi.cfg` | `TypeOK`, `SoundCheckSettlesWifi`, `UpTimeIsRepaired`, `WifiFollowsSchedule` | 2 radios, 2 overlapping checks, weeks of 2 days of 2 hours, 6 hours (past the end of the week), three schedules with different offsets and lengths, one power cut, 2 failing commands; configurations that name both public interfaces, one or none |
| `Tunnel.cfg` | `TypeOK`, `CopiesInOrder`, `DeadlineMeansIdle`, `ImplementsPipe`, `BytesArrive`, `RegisteredDeadlineEnds` | 3 bytes one way over a buffer of 2 (a second read refills it) and 2 the other way, sockets that take 1; a deadline of 2 seconds of 3, so that traffic after 1 second must keep it from firing; timers that may fail |
| `Calls.cfg` | `TypeOK`, `KeepsCalling`, `EveryAddressIsCalled` | 2 names with up to 2 addresses each, short timeouts of different length, one failure |
| `Lifeline.cfg` | `TypeOK`, `NoFrameEaten`, `LeaksOnlyServed`, `GoneIsNoticed`, `BytesAreForwarded` | one resolver and the file, 1 server name, so that up to four attempts with every failure are in one process; answers with several, other and zero-TTL records; streams with one or more header lines, cut anywhere; a buffer of 2 and sockets that take 1, so that every longer copy has to wait |
| `Image.cfg` | `TypeOK`, `ExtractRestores`, `GivesUpOnlyForSize`, `SysupgradeIsWhole`, `ConvertAgrees`, `KernelFindsPartitions` | every board of the table; file sizes below, at and above the buffer of 4096 bytes and the alignment of 64 KiB, at the size of the genesis partition and above, and too large for any flash |
| `Md5.cfg` | `TypeOK`, `NothingLost`, `HashIsStandard` | blocks of 4 bytes, a length of 8 times 2: messages of up to 20 bytes pass the carry and the wrap of the high word, and pieces of up to 17 bytes are longer than both words together |
| `Patch.cfg` | `TypeOK`, `PatchReplaces`, `OnlyTheWindowChanges` | 7 images (markers at both ends of the search space, several, unaligned, none), 5 command lines (empty, longest, too long, one that contains the marker), 2 search spaces, any number of runs |

What they show, in short: with any interleaving of requests, restarts and
changes of the neighbour table, access is given only on an accepting request, to a
device that had its address meanwhile, and reported only when it was given; it
lasts its time by the clock that is stepped, and then ends; the tunnel
neither loses nor repeats nor reorders bytes and does not sleep through a socket
that is ready; the lifeline client cannot be held by a server; the C client takes
exactly the header, copies both ways while its peers read, and is not held by a
server that has vanished; images contain what went into them, hashed as the
standard says, and the kernel finds it there.

Runs in which TLC finds a violation, each a statement of the repository that the
code does not meet:

| cfg | Statement | What the code does |
|---|---|---|
| `SentrySecret.cfg` / `SecretAuthorizes` | a request with the secret is authorized (`service.rs:29` and `:38`, the sentry README, `test_sentry_phase_three`) | `contains_secret` looks for `tos_accepted=true`; the secret is never compared |
| `WifiStuck.cfg` / `CheckSettlesWifi` | a status that does not match is changed (`time_control.rs:37`) | one disabled radio counts as "disabled"; after one failed `uci` the other stays on |
| `ImageBoards.cfg` / `AssertionsNeverFail` | `-B` creates an image for the board (`tplink-safeloader.c:1531`) | several boards of the table end in an assertion |

Differences between text and code without a run of their own, although steps of
the models show them. The MAC is looked up by address after the request was read
(`sentry.rs:42`): "the client is authorized" (`service.rs:38`) need not be the
client that asked. Wall-clock times are compared (`access_control.rs:59`): an NTP
step after the stamp ends an access before "the time it takes until an access is
expired" (`:82`); `FullAccessTime` says by how much. `wireless.mustache:9` and `:29`
generate `config wifi-iface` sections without a name, so `uci set` of
`wireless.wpublica` and `wireless.wpublicg` (`time_control.rs:54-62`) is refused and,
with that configuration, nothing is ever switched: the properties of `Wifi.cfg`
are about the interfaces that are named.

Smaller ones: the deadline completes
a copy before end-of-file (`copy.rs:34`); `lifeline1/mod.rs:125` takes for granted
that the header comes in a single package; `tplink-safeloader.c:1537` offers `-j`,
which `build_image` ignores.

What the passing runs do not show although it may look so. `RegisteredDeadlineEnds`
is about timers that are registered; one that a reset left unregistered
(`copy.rs:86`) need not end a tunnel. A tunnel that ends because its timer could
not be made (`copy.rs:47`) is a broken one for `BytePipe`, which allows that.
`BytesAreForwarded` needs peers that read. `LeaksOnlyServed` and the other
properties of the C client are about answers of fewer than eight records.
`WifiFollowsSchedule` and `SoundCheckSettlesWifi` are silent once a command has
failed or checks have overlapped, until the next power cut; only
`UpTimeIsRepaired` covers what such a check leaves behind. `LoopComesBack` rests on
commands that end.

Deadlock is checked except in `Tunnel` (a tunnel ends), `Lifeline` (`MaxRounds`
runs of the process) and `Image*` (the tool ends).

### Fairness

- `CaptivePortal!LiveSentrySpec`: procd restarts without limit (`respawn 5 0 0`); a
  handler goes on (the commands it waits for end); strong fairness for `Receive` on
  each connection, which is enabled only once its client has sent a request: the
  reactor polls every readable connection again and again, and does not between
  them only while a handler runs. Nothing is assumed
  of clients (`Send`, `Hangup` and `Connect` have no fairness: one may stay silent
  for ever, and the service has no read timeout), of the neighbour table or of
  upstream servers.
- `CaptivePortal!LiveChecksSpec`: checks are started and go on. Sentry may stop
  anywhere.
- `TimeControl!LiveSpec`: checks are started and go on.
- `Lifeline!Spec`: a step of the client that can be taken is taken (what it waits
  for has a timeout, or is the guard of the step); ssh and the server read what
  they are sent; the kernel's probes end a connection to a server that is gone.
  Nothing is assumed of what servers send or when they close.
- `Tunnel!LiveSpec`: a woken task is run, time passes. Peers need not do anything.
- `Lifeline1!LiveSpec`: the client goes on where something is ready or timed out,
  name resolution ends, time passes. Servers, ssh and tunnels need not do
  anything.

## 4. Proofs

`tlapm XProofs.tla` checks the theorems of one module. Each is about the whole
`Spec` with constants of any value, from the named assumptions of the modules
only, which TLC evaluates in every run.

| Module | Theorem | States `Spec =>` |
|---|---|---|
| `CaptivePortalProofs` | `TypeCorrect` | `[]TypeOK` |
| | `Consent` | `AccessFollowsConsent` (of every step) |
| | `Holder` | `[]PortalSeesHolder` |
| | `Messages` | `[]MessageAfterRule` |
| | `FullTime` | `FullAccessTime` (of every step) |
| | `LoneCheck` | `[]LoneCheckSucceeds` |
| | `Refinement` | `ImplementsAdmission` |
| `TunnelProofs` | `TypeCorrect` | `[]TypeOK` |
| | `InOrder` | `[]CopiesInOrder` |
| | `IdleAtDeadline` | `[]DeadlineMeansIdle` |
| | `Refinement` | `ImplementsPipe` |
| `TimeControlProofs` | `TypeCorrect` | `[]TypeOK` |
| | `RepairsUpTime` | `[]UpTimeIsRepaired` |
| | `Settles` | `[]SoundCheckSettlesWifi` |
| `Md5Proofs` | `TypeCorrect` | `[]TypeOK` |
| | `UpdateLosesNothing` | `[]NothingLost` |
| | `HashOfPadded` | `[]HashIsStandard` |
| `PatchCmdlineProofs` | `TypeCorrect` | `[]TypeOK` |
| | `WindowOnly` | `[]OnlyTheWindowChanges` |
| | `PatchIsFresh` | `[]PatchReplaces` |
| `LifelineProofs` | `TypeCorrect` | `[]TypeOK` |
| | `OnlyServedLeak` | `[]LeaksOnlyServed` |
| | `FramesArrive` | `[]NoFrameEaten` |
| `Lifeline1Proofs` | `TypeCorrect` | `[]TypeOK` |
| `SafeloaderProofs` | `TypeCorrect` | `[]TypeOK` |
| | `ExtractionRestores` | `[]ExtractRestores` |
| | `ConversionAgrees` | `[]ConvertAgrees` |
| | `SysupgradeWhole` | `[]SysupgradeIsWhole` |
| | `GivesUpForSize` | `[]GivesUpOnlyForSize` |

### The arguments

In every module but `Lifeline1Proofs`, where the type invariant is inductive as it
stands, `IInv` is the inductive invariant. None of the safety properties is
inductive by itself; what has to be added, and why:

**CaptivePortal.** `HandlerInv`: while the loop is busy its connection is in state
"handled", and the device its address resolves to, if there is an entry, is in its
`held`; `Receive` starts it so, `Rebind` adds the new device and `Evict` leaves
nothing to resolve. Hence the MAC that `LookupMac` finds is in `held`, and stays
there until the rule is appended although the address moves on; and beyond
"authorize" the query has passed `contains_secret`. `AccessFollowsConsent` is then a
fact about `AppendRule`, the only step that makes the chain longer, and
`PortalSeesHolder` one about `FetchPortal`. `MessageAfterRule` needs that in
"notify" the rule for the locals has been appended, stamped no later than now.
`FullAccessTime` needs no assumption on the clock: `ClockInv` says that the wall
clock shows the time that passed and the seconds it was stepped by, now and at
every stamp, so what `IsExpired` compares is known in real seconds; `StampInv`
that every rule in the chain was appended with its stamp; and
`CheckInv` that a check deletes only what was expired by the valid time it read.
For the refinement, a step maps to
`Grant` (append), `Revoke` (a deletion of the last equal rule), `Advance` (the
clock) or a stutter (everything else, and the deletion of one of several equal
rules); `Revoke` needs that a check only deletes what was expired when examined
and that the clock does not go back.

`LoneCheckSucceeds` has to count equal rules: a check that listed one rule twice
must find it twice. It is about every check while no other was ever started and no
command has failed, however many there may be later. `LoneInv` says it without counting: there is an
order-preserving map from the rules the check has left into the chain (`Within`).
Appending to the chain keeps it, and so does `iptables -D`, although it deletes
the first equal rule and not the one the map points at: what the map sends below
that rule is not touched, and everything above moves down by one.

**Tunnel.** `Stream` relates a copy to its two sockets: the buffer holds the
bytes from `consumed - cap` on, what went out is everything before the buffer
and its first `pos` bytes, and `read_done` is set only at the end of the stream.
`AfterRead` is reached with an empty buffer only, and `AfterWrite` may take any
part of it. `TimerInv` ties the deadline to the last traffic. For `BytePipe` a
read is a stutter, a write a delivery, and the ends map to its ends.

**TimeControl.** A check is only as good as what it read: `ProgressInv` keeps,
for a check that nothing disturbed, that the status it read is still the status
and that the radios before `next` have been switched. `AloneInv` says that an
undisturbed check runs alone; `FreshInv` that it goes by the present hour and
schedule; `DoneInv` that after it no check finds anything to do, hence none can
undo it. `CalmInv` is the state between checks while nothing is upset: all
radios in one state, and on the air as configured; without it one disabled radio
would count as "disabled", which is what `WifiStuck.cfg` shows. That the code
finds the day and the hour of the local calendar, for any offset and past the end
of the week, is a lemma about remainders.

**Md5.** What was given to `body` is a run of the message from its first byte,
the front of the buffer is the run behind it, the given bytes are whole blocks
and the two words hold the length in two digits (`Kept`). `MD5_Update` keeps
it whether a piece stays in the buffer, fills it, or goes on with whole blocks
and a rest; that the carry and the shifted size make the right high word, for a
piece of any length, is a lemma about remainders.
Two words and the mark fit in a block, so the padding of `MD5_Final` needs at
most one block more, and the number of zeros is the only one below the block size
that makes the whole a number of blocks: `Padded` chooses the same.

**PatchCmdline.** Either no run has found a marker and the file is the kernel,
or there is one place `h`, the first aligned marker of the kernel, and outside of
the window behind it the file is the kernel (`Touched`). The marker in front of
the window survives, so every later search ends at `h` again, even with a command
line that contains the marker, and even if an earlier run was killed half-way:
what it left lies behind `h` and is not found first. After `memset` the window is
zero; the line with its end fits (`Fits`), so `strcpy` leaves zeros behind it.

**Lifeline.** `SocketInv` counts the sockets of the attempt beside those of
earlier tunnels. `StreamInv` follows the bytes: while the header is skipped, those
eaten are the first n bytes of the stream, the last `countspace` of them are
line ends and no four before were; then n is where the first four line ends in a
row stop (`FirstFour`). While forwarding, what the peer has read, its socket
holds, `splice` has in its hands and the other socket holds is, in this order,
what is behind byte n. The property speaks of `HeaderEnd`, the first empty line
(cr lf cr lf), and the code counts any four of cr and lf in a row. The two agree
when the header ends its lines with cr lf, which `HeaderAssumption` says about
servers that answer as expected; a header with lone line feeds would be cut
later by the code than HTTP does, and is outside of what is checked or proved.

**Safeloader.** The theorems are about any table of boards in order and files of
any size, so they cover the arithmetic that the run tries at a few sizes:
alignment, offsets from 0x1014, fills. Contents are reasoned about byte by byte:
`Proper` says that every byte has exactly one origin, and the lemmas on `Cat`,
`Slice` and `Blit` say which origin the bytes of the result have; what lies at a
place (`Holds`) stays there when something is copied elsewhere. `IInv` follows
the tool. While the image is built, the first n parts are in it at their bases
and in the table, and each fits its place in flash (`Laid`); each new part goes
behind the last, so it disturbs no earlier one, and the table grows in front of
all. `FactoryDone` replaces the 16 bytes of the hash, which are not among those
that were hashed. While files are written (`Writing`), what is there after n jobs
is known: whole partitions for -x (`Extracting`); for -z the os-image, 0xff to the
end of its place in flash, the hole that the seek leaves, the file-system, 0xff
(`Converting`). Where the sysupgrade image ends with the file-system, the two are
adjacent, and there is no hole.
While a sysupgrade image is built (`Copying`), the partitions before `i` are in
it, and every other byte is still 0xff; that no two overlap follows from the
order in flash. For `ConvertAgrees` both images are compared with the same
function from positions to origins (`Target`). `TextInv` bounds the table: a line
has at most 59 characters, there are at most eight, and 0x800 bytes are enough.
`IInv` quantifies over every byte of images of megabytes, which is too much for
TLC; it checks what follows from it, on every board.

### Assumptions worth knowing

- `Router`, `Sentry`, `AccessControl`: `NoMac` is no device; bounds are natural
  numbers; at least one connection and one address; `MinValidTime` is a lower bound
  of the valid times.
- `CopyWithDeadline`: at least one copy, a buffer of at least one byte.
- `TimeControl`: at least one radio (the code has two); schedules of any
  length, offsets in whole hours; any configuration that names some of the
  public interfaces. `Settles` is about those that it names.
- `Md5`: two length words and the end mark fit in a block, and the low word's range
  is a number of blocks (64 bytes, 2^29).
- `PatchCmdline`: the marker is not empty and shorter than `CMDLINE_MAX`; the
  mapped image reaches past the search space by `CMDLINE_MAX`; a command
  line is a C string, without NUL.
- `Safeloader`: files are not empty; in every entry of `Devices` the flash
  partitions are in order without overlap, no name is there twice, the list of
  them fits in its 0x800 bytes, and the vendor information fits in front of the
  image; there is an os-image and a file-system behind it, and where the
  sysupgrade image ends with the file-system, it is these two without a gap. The
  names of `parts[]` have at most 15 characters. TLC evaluates all of this for
  the whole of `boards[]`.
- `Lifeline`: `HeaderAssumption` above; the expected status line has no line end
  in it; answers of fewer than eight records.

### Only model-checked

- Liveness (`ExpiredIsRevoked`, `RequestIsServed`, `LoopComesBack`,
  `WifiFollowsSchedule`, `BytesArrive`, `RegisteredDeadlineEnds`, `KeepsCalling`,
  `EveryAddressIsCalled`, `GoneIsNoticed`, `BytesAreForwarded`): the prover handles
  neither fairness nor ENABLED.
- `KernelFindsPartitions`: it compares one board with one literal command line of
  `src/Makefile`. For any table the claim would have to be assumed in order to
  be proved; TLC computes it.
- What folds compute (`FlashText`, the text of the flash table): that needs
  induction over data, so the proofs take its bound from `TextAssumption`.
- What does not hold: `SecretAuthorizes`, `CheckSettlesWifi` and
  `AssertionsNeverFail`.

## 5. Not modelled

- What a round of MD5 computes; the text of pages, headers, DNS packets,
  soft-version and support-list; usage and logging.
- Integer overflow of timestamps: only values near 2^63 reach it.
- DNS answers with eight or more records (see the hazards).
- hatch `main`, the identity, genesis-gf, the boot hook, the fstools patch: single
  passes without interaction; their effects are initial states, `Start` and
  `Reboot`.
- Peers of the C client that refuse to read until they have written: with a
  single thread and blocking writes the loop then waits for good.
- What the first read of `lifeline1` takes of the stream that the copies go on
  with: `Lifeline1` and `CopyWithDeadline` are separate modules.

## 6. Where this stands

All parts of the inventory with state that several steps or actors change are
modelled; the rest are single passes (section 5). genesis-gf, for one, writes its
files in a fixed order into a file system that the next boot finds empty, and a
failing `unwrap` leaves the later ones unwritten. Every safety property of a
passing run is proved but `KernelFindsPartitions`. What would come next:

1. A composition of `Lifeline1` with its tunnel, so that what the first read
   takes and what the copies deliver are one stream.
2. DNS answers of eight records and more, which need the memory behind the array.
3. Peers of the C client that block each other by refusing to read.

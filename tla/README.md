# Hyperion VPN in TLA+

A model of Hyperion VPN (`src/crates/`), checked with TLC and proved about with
TLAPS. Hyperion reaches services on servers whose ports are closed: a client
sends one sealed UDP datagram (a knock), the server's sniffer lets the sender's
address through the firewall for a while, the client connects over TCP, and a
Noise tunnel with multiplexed streams carries the forwarded connections.

Every definition is read off the Rust code; `PROJECT.json` names the lines under
"map". Paths below leave out `src/crates/hyperion-vpn-`.

## Inventory

| Part | State it keeps | Operations | What is hard | What makes it correct |
|---|---|---|---|---|
| Knock verifier, `core/src/knock.rs` | cache of nonces with the time each was recorded | `seal`, `open`, `check_and_record` | duplicates and delays, clock skew, capacity, restart | a knock is accepted as rarely as window and cache allow; the cache is bounded |
| SPA sniffer, `server/src/sniffer.rs` | `recent_allows` | one blocking loop: receive, verify, cooldown, `nft` | the clock moves while `nft` runs; the nonce is burnt before the rest is decided | whoever is told to wait by the cooldown has an open port; `nft` calls are spaced |
| Firewall set, `server/src/firewall.rs` | none; the kernel's set | `allow` | failing `nft`, timers of elements | the port opens only for knocks, for a while |
| Tunnel pool, `core/src/client.rs` | per slot a control handle; a shared counter | `supervise`, `dial`, `open`, `forward_one`, `run_forward` | tasks interleave at every await; handles outlive tunnels | every forward ends; tunnels come back |
| Multiplexer driver, `core/src/mux.rs` | request channel, one pending request | `MuxControl::open`, `run` | the driver stops with requests queued | no request is lost or answered by another tunnel; stream limit |
| Server relay, `core/src/server.rs`, `protocol.rs` | a task per connection, a task per stream | `serve_connection`, `handle_stream` | detached handlers, handshake timeout, half-closed connections, paths that die | only listed ports are dialled, only for clients with all credentials; every task ends |
| Noise, `core/src/noise.rs` | cipher states, partly read and written frames | `connect`, `accept`, `poll_read`, `poll_write` | each side learns of the other from one message; partial reads and writes, truncation | mutual authentication; plaintext arrives unchanged, in order, or the stream fails |
| Server process, `server/src/serve.rs` | listener | `run`, `start_spa` | signal against accept, blocking thread against shutdown | stops when told |
| Daemon control, `cli-common/src/lib.rs`, `*/src/daemon.rs` | pid file | `up`, `down`, `status` | check and act far apart, stale pid files, zombies | the pid file names the daemon that runs |
| TUN mode, `client/src/tunmode.rs` | address-to-pool table | `run_managed`, `run`, `serve` | starts pools one after another before the device | connections go to the server of their address |
| Client configuration, `client/src/config.rs` | the file | `load`, `add_server`, `remove_server`, address assignment | read-modify-write without a lock; addresses assigned at load | distinct, stable fake addresses |
| Server configuration, keys, psk: `server/src/config.rs`, `core/src/keys.rs`, `psk.rs` | key file and configuration of each machine | `init`, `keygen`, `load` | two files written one after the other, daemons that keep what they loaded | after the quickstart both ends hold matching keys |
| Policy routing, `client/src/routes.rs` | none; the kernel's rules and table | the scripts `print-routes` emits | `set -e` against what is already there | a script that succeeds did all of its work |
| Packet filter, `server/src/sniffer.rs`, `core/src/packet.rs` | the socket's filter | `attach_knock_filter`, `parse_ethernet_ipv4_udp` | counted jumps, variable headers, fragments | no knock is lost, nothing else reaches the sniffer |
| Commands, `main.rs`, `paths.rs` | none | arguments, output | | |

How they interact. The client's supervisor task knocks and dials (UDP, then
TCP); the sniffer thread reads raw frames, calls the verifier and runs `nft`;
the kernel's set decides whether the TCP connect gets through. On a connection
the handshake runs, then one multiplexer driver per side; the client's forwards
talk to their driver through a channel and one-shot replies, the server's
driver hands inbound streams to handler tasks. `up` starts the program as a
child and writes its pid, `down` reads the pid and sends TERM; the process and
the commands share nothing else.

## Modules

**SpaGate** is the promise of single packet authorisation without its
mechanism: the port opens only at the price of a knock sealed for this server and
this port, each knock is spent at most `Budget` times, openings lapse. It does not
promise that the address the port opens for is the sealer's: THREAT_MODEL.md:37 has
a suppressed knock re-delivered from another one, and nothing in a knock names one.

**KnockGate** is the code behind it. `Seal` is `send_knock`; a datagram is
never taken out of `net`, so duplication, loss and delay need no actions of
their own, and nothing ties it to an address: each delivery is from any of
`Src`. One iteration of the sniffer is a Sniff step (`SniffRefused`,
`SniffIgnored`, `SniffHonoured`: from `recv` to the decision, with everything
the verifier and the two tables do on the way) and, when `nft` is started, an
Allow step (`AllowOk`, `AllowFailed`); clock ticks fall between the two.
Datagrams that fail before the cache (bad length, magic, key, version, stale)
change nothing in the code, so they are stuttering steps. `Restart` loses the
tables and keeps the kernel's set; an `nft` child may still finish. `StepClock`
sets the wall clock. `NftRefreshes` says whether adding an element that is
there restarts its timer: kernels differ, the code relies on it, and each gate run
has one kind. `timed` is a history variable, the time a source's timer was last
started. The kernel's set, its timers and the clock are external. `Ttl` is assumed positive: an
element added without a timeout would be outside the scheme.

**TunnelPool** is the pool of one server and the driver of each tunnel. A
slot's supervisor dials, publishes a handle, runs the driver, withdraws the
handle, backs off. A forward probes with the shared counter, clones the handle
under the lock and uses it later (`Fetch`, `LookEmpty`, `LookHandle`, `Send`,
`SendFailed`, `WaitFailed` are separated where another task can run between).
Sessions of a slot are numbered, which the code does not do: the numbers make
visible that a handle belongs to an earlier tunnel. `steady` is a history
variable. A grant and its refusal follow yamux's limit on streams; yamux and
the network are external, and so is a dial's outcome.

**Admission** is how a client gets a tunnel, both ends of it. `Knock` to
`KeepaliveFails` are one dial: knock, up to `RetryAttempts` connects with pauses,
keepalive set, `connect` of noise.rs. `Refuse`, `Answer`, `HandshakeTimeout`,
`TaskSeesClose` and `TaskFails` are `serve_connection` with `accept`. Each dial has a
connection of its own, whose ends see each other only while its path is alive;
`PathDies` is silent. A client may hold any of three credentials: the server's
public key (checked by the first message), a listed key (looked up by the
server after it), the pre-shared key (mixed into the second message, which only
the client checks). A party on the path may instead hold a recording of a listed
client's first message, which `accept` takes, as it keeps nothing of earlier
handshakes: the server then drives a tunnel for a peer that cannot use it. The
firewall is an instance of SpaGate, the promise that
KnockGate is proved to implement; `Others` are knocks sealed elsewhere
and delivered from any address, a re-delivered knock among them. The pre-shared key
and the public key also seal the knock, so a client without them never opens the
port with a knock of its own.

**Relay** extends it with what the tunnels carry: `Ask` to `ExchangeTimeout` and
`ClientCopies` to `AppResets` are `forward_one`, `Spawn` to `ReplyFails` and
`HandlerCopies` to `HandlerFails` are `handle_stream`. Both are tasks that outlive
the driver of their tunnel, so each has a state of its own beside `dial` and
`task`, and learns of the other's end from its half of the stream (`ClientCut`,
`ServerCut`: closed by the driver, or by the other end's drop if the path lets
that through). Of the bytes only their number is kept, upwards; `ends` records
how far each end of input has travelled. yamux and tokio's `copy_bidirectional`
are external: their steps follow from how the code uses them.

**KnockFilter** is the program `attach_knock_filter` loads, its interpreter
(external), a step per instruction, and `parse_ethernet_ipv4_udp` with the
sniffer's tests. A frame is the fields that either of the two looks at; which
frames may arrive is a constant. When attaching fails the sniffer goes on
without it. THREAT_MODEL.md:63-64 has the filter test sizes as well; it does
not, the sniffer does. What was queued between `socket` and `setsockopt` was not
filtered; the parser rejects it.

**Provision** is how the ends come to hold matching keys: `init` on both ends (key
file first, configuration after, `Cut` in between), the server's `keygen` (the public
key is printed first, the file written after, `Cut` in between), `add-server`,
`rm-server`, and the files each daemon loaded when it was started. Key pairs and
salts are numbers; the passphrase is the same everywhere, so a pre-shared key
is its salt. The operator carries what was printed from machine to machine
(`notes`, `shown`), possibly old, and possibly printed by a `keygen` that then
failed. A cut may also leave a key file without a key (0). `stage` is a history
variable: how far the quickstart has come on a host, counting commands that
reported success; an unfinished `keygen` takes it back. `Held` is what Admission calls `holds`.

**PolicyRoutes** is the two scripts of `print-routes`, a command at a time, in any
order of the servers (they come from a hash map), against the kernel's rules and
our table; the client's device comes and goes, and takes its routes with it.
`ip` refuses to add what is there and to delete what is not. IPv4 only: with an
IPv6 server address the `/32` of the script covers a whole provider's block.

**Daemon** is up, down, the pid file and the life of the process they manage,
on Linux, for either program. `Loaded`, `BindOk`, `Accepted`, `Shutdown`, `Exit`
follow `serve::run`, with the client's `run_managed` as the case without a
signal handler. `Polls` is the first poll of `shutdown_signal`, which installs the handler and may
come after an accept. `Terminate` is what TERM does at each stage. The kernel keeps
zombies until their parent is gone, unless SIGCHLD is ignored (`ignores`,
inherited from whoever runs the commands). Pids are not used twice.

**FakeIps** is the client's configuration file as a table of servers and fake
addresses. `Assigned`, `UsedUpTo`, `Resolves` and `Resolved` are
`assign_virtual_ip` and `resolve_virtual_ips`; an address is its host number in
the TUN subnet, and a section pins one, of the subnet or not (`Outside`), leaves it
out (`Absent`) or has one that does not parse (`Bad`). A terminal (`Clis`) runs one
command after another. A command is `AddPlanned` or `RemovePlanned` (read and
compute; `plan` is what it will write, the forwards it read included, so that a
forward the operator adds meanwhile is lost), then `Truncate` and `Fill`
(`fs::write`). It may be interrupted: `Abort` before the write, or where what was
written does not parse (`torn`); `Cut` where it does, and has fewer sections, a last
one without its pin, or fewer forwards. `Up` is `load` and the table of `run_managed`
(`routes`), which the daemon keeps until `Down`. The operator's editor is
external: it appends server and forward sections. `told` is a history variable, the
address `add-server` printed for a name that no `rm-server` and no cut write has
taken from the file.
The other fields of the file do not take part and are left out.

**ByteFifo** is the promise of a one-way byte stream: the receiver gets a prefix
of what the sender put in, and nothing after an end or an error.

**NoiseStream** is one direction of the encrypted stream: the writing half of
one `NoiseStream`, the bytes on the TCP connection, the reading half of the
other; the two directions share no state. `Write`, `Flush` and `Shutdown` are
`poll_write`, `poll_flush` and `poll_shutdown`, each with the number of bytes the
connection takes as its choice; a call that returns Pending has flushed a part.
`poll_read` is a loop whose next step its fields determine, and which a call
that returned Pending resumes: `Deliver`, `Fill`, `FillEnds`, `TakeLength`,
`OpenFrame`. Encryption is what it does here: a byte of a frame is known by the
frame's nonce, plaintext and its place, and decryption accepts the ciphertext of
the expected nonce and nothing else. The network may alter a byte, the writing
process may end, the connection may be reset; these are external. `starts` is a
history variable. A stream is not used again after an error, as the multiplexer
gives up on one.

## Runs

| Run | Configuration | Shows |
|---|---|---|
| gate_faults | 2 sources, 2 nonces, cache of 1, skew of 1 both ways, 1 restart, 1 clock jump, timers restart | `TypeOK`, `ReplayBudget`, `ReplaySpacing`, `ImplementsSpaGate` |
| gate_exact | 2 sources, 3 nonces, cache of 3, clients not ahead, no restart, timers run on; beside it the frames at every boundary, filter attached or not | `NeverReplayed`, `IgnoredMeansOpen`, `AllowSpacing`, `RecentOverflow`; `FilterIsExact` |
| gate_replay | as gate_faults, no restart or jump | `NeverReplayed` fails when a client's clock is ahead |
| pool | 2 slots, 2 forwards, 2 rounds, 2 sessions, backlog 1, 1 stream | `TypeOK`, `RequestsMatchSession`, `GiveUpMeansNoLiveTunnel`, `OpenTerminates`, `Recovers` |
| relay | 1 party of any credentials or with a recording, another knock from its address, 1 dial, 2 connects, 1 forward, 2 ports of which 1 is listed, 1 byte | `RelayTypeOK`, `AdmittedByKnock`, `MutuallyAuthenticated`, `DialsPermittedOnly`, `RelaysWhatIsConnected`, `EndsAreReal`, `DialsEnd`, `TasksEnd`, `RelaysEnd` |
| dead_path | as relay | `DeadPathDetected` fails at the server |
| daemon | 2 processes, 3 commands, one at a time | `TypeOK`, `Tracked`, `ClientStops` |
| daemon_down | 2 processes, 2 commands, nobody connects | `StoppedMeansGone` fails for the server |
| daemon_zombie | 2 processes, 2 commands | `UpMeansRunning` fails |
| fake_ips | 2 names, 2 assignable hosts, 1 address outside, 1 terminal with any number of commands and starts, 2 edits; 2 machines, 5 keys and salts; 3 servers on 2 addresses to route | `TypeOK`, `RoutesDistinct`, `AddressesKept`, `SequentialAssignment`, `KeepsLoadable`; `QuickstartConnects`; `SuccessIsComplete` |
| teardown | 2 servers, 2 addresses, nothing disturbs a script | `TearsDown` fails when the client was stopped first |
| noise_stream | frames of up to 2 bytes, 3 bytes written, a connection that holds 3 | `TypeOK`, `EndsBetweenFrames`, `EndMeansAll`, `ImplementsByteFifo`, `Arrives` |

Two runs explore programs beside each other whose states do not touch:
`FilteredSpec` (MCFilteredGate) the filter and the gate, `ConfigSpec`
(MCClientConfig) the table of servers, the keys and the routing scripts. In each,
one program moves while the others are as they were at first, so that the run has
the sum of their states and not the product; an invariant of one is checked in
all of its states.

Bounds. In the gate runs `Window = 1`, `Ttl = 4` and `MaxTime = 4` make the
cooldown 2 and let a nonce leave the cache while its timestamp is fresh, an
element expire after the cooldown, and a second opening follow the first.
`ReplayCap = 1` (gate_faults, 2 nonces) reaches the full cache; `RecentCap = 1` (2 sources)
reaches the pruning and the overflow; three nonces allow an honoured knock, an
ignored one and a later one from one source. The frames of the filter (`BoundaryFrames`) have every
length and field value at which one of the two decides otherwise, and a filling of
every other half word that equals the knock port. In the pool run two sessions make
handles stale, a backlog of one makes `send` wait, a limit of one stream makes
the driver reject. Three commands are enough for up, down, up and for up, up,
down; two processes for a second daemon beside the first. A subnet of five
hosts with the device on the second leaves two to assign, one on either side of the
device, and three that only the operator's sections can use; one more address lies
outside. Commands are not bounded in number; two edits put a pinned and an unpinned
section, two equal ones or a forward beside what they write, so that the file may
have more sections than there are hosts to assign. The
connection of noise_stream holds fewer bytes than the shortest frame (four), so
that every frame is written and read in pieces; a buffer of three bytes is longer
than a frame's plaintext, and three bytes make up to three frames, of which the
reader may hold parts of two.
In the relay run every set of credentials is an initial state; the second knock
opens the port for a client that could not; one dial meets every outcome, since
dials share nothing but the firewall, and one forward every state of its
tunnel, since forwards share nothing but the tunnel. A byte is enough for an end
of input that overtakes data. Five keys are those of a client and two servers
and one more, for one of them to start over. Three servers on two addresses let
a script fail on a second entry with one still to come.

The five runs that fail are disagreements with the text of the repository and
are listed under "findings": a knock accepted twice when the client's clock is
ahead (THREAT_MODEL.md:35); `down` saying "stopped" of a server that does not stop
(`cli-common/src/lib.rs:199`); `up` reporting a daemon that has exited
(`cli-common/src/lib.rs:183-187`); a server that keeps a tunnel whose path died,
as only the client sets TCP keepalive and yamux does not ping an idle
connection (ARCHITECTURE.md:165); a teardown that stops half way when the client,
and with it the device and its routes, is gone (README.md:214).

`GiveUpMeansNoLiveTunnel` has a condition, which the theorem `GiveUp` states: all
streams fit on one tunnel, and `(PoolSize - 1) * |Forwards|` is less than
`PoolSize * GraceRounds`. All forwards draw their slots from one counter, so that
others may draw every live slot between two probes of one forward; each that does
stays there, and the rounds must outlast them all. The bound is sharp: with two
slots, two rounds and four forwards (where the two sides are equal) TLC finds
"no live tunnel to server" said of a pool with a live tunnel. With the code's 20
rounds and its default of two slots it takes forty forwards at once. The run has
one stream per tunnel, less than the theorem asks for; the property holds there
too, as a slot counts as live for `steady` only while it has room.

`Tracked` is checked for commands that do not overlap (`MaxActive = 1`) and are
not interrupted. With `MaxActive = 2` it is false: two ups both find nothing
running, the second daemon fails to bind, and its pid is the one in the file.
`AddressesKept` and `KeepsLoadable` are likewise checked for one terminal: of two `add-server`
that read the same file, the second to write drops the first one's server.

## Fairness

TunnelPool's `FairSpec` has weak fairness of each supervisor, each driver and
each forward's task: the tokio runtime polls what is ready and timers fire. It
assumes that a dial ends one way or the other and that the peer's multiplexer
acknowledges streams; neither tunnels dropping nor relays ending is forced.
That a dial ends is `DialsEnd` of Admission. `Recovers` has its condition in the
property: the server is reachable (`Reachable`, strong fairness of `DialOk`), and a
bound on sessions makes the last one stay (`MaxSessions`).
Relay's `FairSpec` has weak fairness of each dial, each server task and each end of
each forward: the runtimes poll what is ready, `handshake_timeout` and
`CONNECT_EXCHANGE_TIMEOUT` fire, and the kernels end an unanswered connect and an
unanswered keepalive. An application and a target end their side once they are
told of the other's end; until then neither is forced to send or to end. Nothing
is assumed of paths, of connections that fail, of a target's answer to a dial, of
the firewall, nor of a knock being received. The server's tasks are promised to
end only while the path can tell them (`TasksEnd`, `RelaysEnd`); dead_path is the
rest.
NoiseStream's `FairSpec` has weak fairness of flushing, of closing once begun and
of reading: yamux, whose connection task is the only caller, flushes after it
writes and reads until the stream ends. Nothing is promised once the network or
the end of a process has interfered.
Daemon's `FairSpec` has weak fairness of each process and each command under
way; connections and new commands are not forced. `QuietSpec` is the same with
no connection at all. Deadlock checking is off: clocks stop at their bound,
forwards and commands end, streams are closed.

## Proofs

Every invariant and action property that a passing run checks is a theorem, and so
are both refinements: for all values of the constants that the module's assumption
admits, and under the hypotheses named with the theorem. Each argument rests on an
inductive invariant.

`KnockGateProofs` proves, for every set of sources, every finite set of nonces
and every value of the other constants (`GateAssumption`):

- `TypeCorrect`: type correctness.
- `KnockBudget`, `NoReplay`, `KnockSpacing`: how often and how soon one nonce is
  accepted.
- `CacheStaysBounded`: the cache's capacity (no run checks it besides).
- `IgnoredKnockFindsPortOpen`: a knock dropped by the cooldown finds the port open;
  with a kernel that lets timers run on, unless it comes less than a cooldown
  after the timer ran out.
- `AllowsAreSpaced`, `OverflowIsCoolingDown`: the cooldown and the growth of
  `recent_allows`.
- `GateRefinesPromise`: KnockGate, restarts included, takes steps of SpaGate only until
  the wall clock first jumps; `GateIsSpaGate`: without jumps it implements SpaGate.
- `FilterDecides`: the socket filter is exact, for every frame and port
  (`FilterAssumption`).

The argument. `ReplayBudget` is not inductive: that a nonce was accepted twice
says nothing about whether a third time is excluded. `ReplayInv` relates the
history variables to the cache and the clock. While the wall clock has not been
set, an accepted nonce is still in the cache with the time of its last
acceptance, or that was more than a window ago; its one datagram (`OneNonce`)
carries a timestamp at most a window ahead of that acceptance; and once the
budget of this life of the server is used up the timestamp is not ahead of it
at all. A second acceptance then comes more than a window after the first, when
the timestamp lies in the past, so that a third would find it stale
(`SecondAcceptance`); with no client ahead, the first already uses up the
budget. `CooldownInv` ties `recent` and `granted` to the set: an entry of age `a`
vouches for an element with at least `Ttl - a` seconds left, as a second adds to
the one what it takes from the other, and a source without an entry has its
cooldown behind it. `TimerInv` ties what an element has left
to the start of its timer; for kernels that let timers run on, `OpenInv` allows an
entry whose call found the element there, started less than `Ttl` before. `OverflowInv` says what pruning has just established while
`nft` runs, `WaitInv` that the sniffer waits on behalf of a knock it received.
The refinement maps a knock to spent when the sniffer is done with it, so that
starting `nft` is a stutter and its end is `Open` or `Waste`. `FilterInv` is what
the filter's program has found out of a frame at each of its instructions: with the
eleventh, that it is no knock or a later fragment. Assumptions beyond
`GateAssumption` are in the theorems: no client ahead and no restart for `NoReplay`,
`MaxSteps = 0` for `GateIsSpaGate`; the other claims about time exclude jumps of the
clock in the property itself.

`NoiseStreamProofs` proves, for every frame size, tag, capacity and number of
altered bytes (`StreamAssumption`):

- `TypeCorrect`: type correctness.
- `CleanEnds`: a clean end is between frames.
- `StreamRefinesByteFifo`: NoiseStream implements ByteFifo.
- `EndsComplete`: after a shutdown the end comes after all of the plaintext.

The argument. That the output is a prefix of the input is not inductive, and the
order of the bytes on the connection is not what it rests on. `StreamInv` says
of every byte that was not altered, in `write_pending`, on the connection or in
`read_raw`, that its frame was encrypted and carries the plaintext its nonce
stands for (`BytesInv`; a frame encrypted by a call that failed is exempt, as
it is never sent), and ties what was handed out to the number of frames decrypted
(`ReaderInv`). Decryption succeeds on the frame whose turn it is, so what it
yields continues the output (`OpenedChunk`). That no frame is lost whole needs no
order of bytes either, only their number: as long as the connection holds, the bytes
in `write_pending`, on the connection and in `read_raw` are as many as the frames
between `recvNonce` and `sendNonce` have (`LengthInv`; altered bytes count as any
other). When nothing is left of them, neither is a frame.

`RelayProofs` proves about Admission and Relay, for any clients, addresses, dials,
forwards, ports and bytes (`AdmissionAssumption`, `RelayAssumption`):

- `RelayTypeCorrect`: type correctness of both.
- `TunnelsAreAdmitted`: no task without a knock used up that a holder of the server's
  key and the pre-shared key sealed, from wherever it was delivered, and no tunnel
  without a listed client's first message, its own or a recorded one;
  `TunnelsAreAuthenticated`: a client that takes its tunnel for established holds all
  three credentials.
- `OnlyPermittedDialled`, `OnlyConnectedRelayed`: what is dialled and relayed.
- `HalfClosesAreReal`: the ends of input.

The argument. `AdmittedByKnock` looks at a gate that may have closed since, so
`AdmissionInv` has that every knock issued was sealed by a holder (`IssuedSealed`),
that the gate is open only at the price of one (`Paid`, `OpenByKnock`), and ties
answers and tunnels to first messages of listed keys (`AnsweredListed`,
`TunnelsAnswered`). A tunnel driven for a recording carries nothing: what is asked
on it, dialled for it or relayed needs a client that has read the answer. That a
tunnel once lost stays lost (`LostForGood`) needs that an answered connection has
left its handshake (`AnsweredServed`), that one not made yet has no task
(`UnmadeUnserved`) and that numbers of dials only grow (`ClientMoves`): without it
an end that was passed on after the loss would look untrue later. `RelayInv` then
follows a forward: `Carried` (its tunnel was answered, its client authenticated),
`Permitted` and `OkMeansReached` (the answer that is on its way, or was read, is
about a target that was dialled), `EndsInOrder`. Steps of Relay are grouped by
what they change: the client's task, the handler, an end of input, a byte.

`TunnelPoolProofs` proves, for any number of slots, forwards, rounds, streams and
sessions (`PoolAssumption`):

- `PoolTypes`: type correctness.
- `RequestsMatchSessions`: no request outlives its tunnel or is there twice.
- `GiveUp`: who gives up found no tunnel that was live throughout, under `Roomy` and
  `EnoughRounds` (above).

The argument. `PoolInv` has where a forward stands in its loop, that handles are of
the current session while a tunnel is up and withdrawn before the supervisor backs
off, that nobody holds a handle of a session to come, and that requests are of
forwards that wait for just this session (`RequestsWait`). A request leaves the
channel with the driver or with its answer; by `HandlesFresh` a later session has
another number. `GiveUp` counts: `Missed` says that a forward's probes, and the
draws until slot `i` comes up next, are at most `PoolSize - 1` for itself and for
each forward that has settled on `i` (`SearchInv`). A draw of another slot brings
`i` nearer, a draw of `i` by somebody else adds a settled forward, and settled
forwards stay while the tunnel stands, as it has room for all (`SettledStays`). A
forward through its last round would have more probes than all others allow for.

`DaemonProofs` proves, for any number of processes and commands:

- `DaemonTypes`: type correctness, and that only a serving process has the port.
- `DaemonTracked`, for `MaxActive = 1`: a daemon not told to stop is in the file.

The argument. `TrackInv` follows the one command that is under way: what it has
read or written is what the file says (`TargetIsFile`), and when an up is about to
start a daemon or a down to remove the file there is no other to lose
(`NothingToLose`). That commands run one at a time is a hypothesis: the code takes
no lock, and without it the property is false (above).

`FakeIpsProofs` proves, for every subnet, every set of names and every number of
commands and edits (`FakeIpsAssumption`):

- `ConfigTypes`: type correctness: `add-server` assigns and prints hosts of the subnet,
  whatever is pinned; a pin itself is routed as it is, in the subnet or not.
- `AssignmentIsSequential`: the k-th section without an address gets the k-th host
  that no section pins.
- `RoutesAreDistinct`: the daemon's table is one to one.
- `AddressesAreKept` and `CommandsKeepLoadable`, for one terminal (`OneTerminal`): a
  printed address stays, and a command that succeeds leaves a file that loads.

The argument. `resolve_virtual_ips` is a recursion over the sections. After k of
them the assigned addresses are the lowest free ones, as many as there were sections
to serve (`Lowest`); one more assignment takes the next (`AssignmentTakesLowest`).
The induction is over a set of numbers, and that the recursive function exists is
proved as well (`UpTo`, `RecursionExists`: the library's induction theorems take
operators, which the provers cannot instantiate). `RoutesDistinct` follows, as
pinned addresses are checked and assigned ones are not pinned. `KeepInv` says of the
file and of every plan under way that a printed address is in it and that no name or
address is there twice unless the operator did that; a cut write keeps it, as it
leaves a beginning of the plan and `told` forgets what is lost. It needs that one
command runs at a time (the code takes no lock), not that the operator's editor
waits.

`ProvisionProofs` proves `QuickstartWorks`, for any number of hosts and keys:
`ProvisionInv` says of a server the operator has listed that it has the noted
key and salt and that what its command printed is its key, and that the
notes are the client's, whatever was interrupted or generated again since. A
`keygen` prints a key the file does not have yet, and never will if it is cut: the
claim is about hosts whose last command went through, and `UnfinishedKeygens` keeps
the others from counting.

`PolicyRoutesProofs` proves `ScriptsComplete`, for every finite set of servers:
what a server is to get has been done, or the command for it is still ahead
(`PolicyInv`). `set -e` makes a command that failed the last.

Not proved, checked by TLC only: liveness under fairness and ENABLED, which are out
of the prover's reach (`OpenTerminates`, `Recovers`, `ClientStops`, `Arrives`,
`DialsEnd`, `TasksEnd`, `RelaysEnd`).

## Not modelled

Cryptography (a datagram's kind stands for what decryption finds; a credential
is held or not), key derivation and encoding, sources of the pre-shared key
other than the passphrase, parsing of addresses and of forward specifications,
command line and output, `print-firewall`'s text, `status`, the user-space IP
stack, yamux's frames and flow control, Windows and macOS. `doctor` dials once
as a supervisor does, and `run` is forwards on a pool; neither keeps state of its
own. The client's `keygen` writes a file of the operator's choice.

## Plan

1. KnockGate with SpaGate, KnockFilter, and their proofs: done.
2. TunnelPool and its proofs: done.
3. Daemon, for Linux, and its proofs: done.
4. FakeIps and its proofs: done.
5. NoiseStream with ByteFifo, and its proofs: done.
6. Admission and Relay, and the proofs of their invariants: done.
7. Provision, PolicyRoutes and their proofs: done.
8. Left: real-address mode of the client (`tunmode.rs` `run`), pre-shared keys of
   single servers, IPv6 in the routing scripts.

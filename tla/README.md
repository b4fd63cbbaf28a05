# Free-Compute, specified

TLA+ modules, TLC configurations and TLAPS proofs for the services of this
repository. Paths are relative to the repository's root; `gw/` stands for
`apps/gateway/internal/`, `sch/` for `apps/scheduler/internal/`.

1. [The system](#1-the-system)
2. [What is hard here](#2-what-is-hard-here)
3. [Modules and code](#3-modules-and-code)
4. [Runs](#4-runs)
5. [Fairness](#5-fairness)
6. [Proofs](#6-proofs)
7. [Divergences found](#7-divergences-found)
8. [What is not modelled](#8-what-is-not-modelled)
9. [Plan](#9-plan)

Run a model with `tlc -workers 2 -config MCScheduler.cfg MCScheduler`, a proof
with `tlapm SchedulerProofs.tla`. The instances are in the `.cfg` files;
`PROJECT.json` maps every definition to the lines it translates.

## 1. The system

Users rent compute on other people's machines. A **host agent** runs beside the
machine and dials out to the **gateway**, which publishes routes; a client that
connects to a route is bridged to an agent connection. Interactive sessions
stream over **WebRTC** through the gateway. A separate **scheduler service**
queues requests for resources and assigns hosts to them. A **file service** and
an **auth service** stand alone; a web frontend talks to all of them.

| Part | State | Operations | Talks to | Correct when |
|---|---|---|---|---|
| Scheduler (`sch/scheduler`) | `queue` slice, `allocations` map, one mutex | enqueue, dequeue, a cycle per tick: rank, allocate, clean up | host registry, by pointer and by call | every lease has its item; charges match leases; first come first served; no starvation; leases end |
| Host registry (`sch/host`) | `hosts` map with capacity, used amounts, heartbeat time; its own mutex | register, heartbeat, allocate, release, list available | called by hosts over HTTP and by the scheduler | a host is charged for its leases and for nothing else |
| Agent pool (`gw/tunnel/agent_pool.go`, `agent_handler.go`, `tcp.go`, `buffer_pool.go`) | per route: idle connections, waiting callers | add, take, remove idle, remove waiter, bridge | channels between the agent's handler and the caller's | a connection is in one place; nobody waits while one is idle; a used connection is not closed |
| Transfers (`gw/transfer`) | map of transfers, each with a mutex; a limiter channel | create, start, progress, chunk, complete, fail, cancel | HTTP routes of the server | the limiter counts unfinished transfers; an ended one stays ended |
| WebRTC sessions (`gw/webrtc/webrtc.go`) | map of sessions, each with a mutex; a limiter channel; deletion timers | create, offer, ICE callbacks, EndSession, shutdown | callbacks from the peer connection reenter EndSession | a slot per session, given back once; a session told to stop is deleted |
| Checkpoints (`gw/tunnel/checkpoint.go`) | snapshots per session, running size | save with eviction, delete, prune | nothing calls it yet | the running size is the size; the store stays in its bound |
| Audio buffer (`gw/audio`) | ring of bytes, two positions, a flag | write, read, clear | audio sessions | a queue of the newest unread bytes |
| Session manager (`gw/session`) | sessions, participants, links, permission requests; host table; priority heap | create, join, end, provision; allocate host; process queue | allocator | ended sessions stay ended; hosts are not overcommitted |
| Signaling rooms (`gw/tunnel/signaling.go`) | rooms with a sequence number, messages and a wake-up channel | post, poll, sweep | long polls | every poller sees every message once |
| DNS cache (`gw/tunnel/dns_cache.go`) | address and expiry per name | look up, dial, refresh | the resolver, without the lock | the bound holds; no return to an older address |
| Recordings (`gw/tunnel/session_recording.go`) | file, size and state per session | start, write a frame, stop, delete | HTTP routes | size follows the file; a stopped recording is fixed |
| UDP and WebSocket tunnels (`gw/tunnel/udp.go`, `websocket.go`) | table of upstream sockets; reassembly buffer | packets, frames, pongs, sweeps | a goroutine per direction | sockets are closed; messages are whole |
| Tailscale hosts (`gw/tunnel/server.go`) | list of hosts with the time heard; address per user | register, map, look up | host agents, HTTP routes | a host that registers is listed; a mapping is kept for its day |
| Rate limiter (`gw/ratelimit`) | bucket per key | allow, evict | HTTP middleware | no key gets more than its rate and burst |
| Accounts (`gw/auth`, `gw/admin`, users table) | maps of users, addresses and tokens; rows | register, log in, refresh, delete, roles, counters, seed, restart | database calls that may fail | maps agree; rows follow them; nobody is locked out |
| Storage (`gw/storage`) | index in memory, directory, the owner's counter | upload, overwrite, remove | quota and counter of the accounts | the counter is the sum of the index; the quota holds within a bound |
| Usage, firewall (`gw/usage`, `firewall`) | records and quotas; rules and groups | track, prune, bill; create, update, delete, assign | HTTP routes | bills do not depend on pruning; a rule is changed only by who may |
| Detector, reports, moderation, settings (`gw/security`, `moderation`, `admin`, `tunnel/report.go`) | states and threats of VMs; reports; domain | report, review, pause, resume, triage | an external classifier | a state can be accounted for; a decision is the moderator's |
| Images, keys, monitoring, gaming, input, browsing | tables and counters in memory | CRUD | HTTP routes | – |
| Host agent (`host-agent/cmd/host-agent`) | reconnection attempt, idle connections; VM processes | dial, backoff, bridge; start and stop VMs | gateway's agent endpoint | it always comes back, after a bounded delay |
| VM agent (`host-agent/internal/vmagent`) | encoder and media sessions, stream count, RTP sequence, NAL carry | start modes, encode, packetise | gateway's WebRTC endpoint | every unit of the stream is sent; counts are exact |
| File service (`apps/file-service`) | files and an index | upload, download, list, delete | disk | index and files agree |
| Auth service (`apps/auth-service`), frontend, shared types, desktop, scripts | in-memory maps; user interface | – | – | – |

Interactions: the scheduler calls the registry while holding its own mutex, the
registry never calls back. The gateway's server owns one instance of each
manager; handlers run concurrently, one goroutine per request, and meet in the
managers' mutexes and channels. The peer connection (pion) calls back into the
gateway from its own goroutines, or synchronously from inside `Close`.

## 2. What is hard here

The list, with lines and the properties that answer each entry, is under
`hazards` in `PROJECT.json`. In short:

* **Two mutexes in the scheduler.** Ranking reads host records through pointers
  collected at the start of a cycle, without the registry's mutex; a heartbeat
  can shrink a host between the ranking and the `Allocate` call, whose answer is
  dropped; a registration replaces the record the cycle still points to.
* **A hand-over between goroutines.** `add` picks a waiter under the mutex and
  sends to it after unlocking, while the waiter may be timing out.
* **Limiters that are counted, not owned.** Transfers and WebRTC sessions drain
  "a" token from a shared channel. A second drain takes somebody else's.
* **Reentry.** `pc.Close()` inside EndSession calls EndSession.
* **Late writes.** Offers, ICE callbacks and provisioning store a state without
  looking at the one they replace.
* **Running totals** (checkpoint size, charges, stream counts) that
  must follow every path, the error paths included.
* **A stream cut anywhere.** A read ends in the middle of a start code or a
  unit; a timed-out post leaves a handler behind that overlaps with the next.
* **Ring arithmetic**, saturating subtraction, shifts that overflow.
* **Two copies of one fact.** Users are in two maps and a row, files in an
  index, a directory and a counter, hosts in a registry and three indexes; a
  failed call, a restart or a write outside the mutex falls between them.
* **Work outside the lock.** The resolver is asked, a frame written, an item
  allocated and a report triaged with the mutex free, and the result stored in a
  table that has moved on.
* **Names that are used again.** A goroutine that ends deletes by address, a
  sweep by key, a DELETE by user: what goes may be the successor.

## 3. Modules and code

### HostManager, Scheduler, RequestLifecycle, MCScheduler, SchedulerProofs, RequestProofs

`HostManager` is `sch/host/manager.go`: a table from host to record (capacity,
used, whether its last heartbeat is recent). `Allocate` fails when something
does not fit, `Release` subtracts and clamps at zero, `Heartbeat` may lower a
capacity and never raises one. `Register` stores the record the body names,
charge included: `allocatedCpuCores` and `allocatedRamGb` have JSON tags and
nothing resets them, so a host may start with a charge no lease holds, or one
below zero. The ghost field `base` remembers that charge for the invariants. The constant `Steady` names hosts of which it is assumed that they
register once and never report less than they offered; `ExactAccounting` is about
them, the other properties about all hosts. `Scheduler` extends it with the queue, the allocations and
the cycle. The cycle is a small program counter, `idle → rank → commit → rank …
→ cleanup → idle`, because the scheduler's mutex is held throughout while the
registry's is taken for single calls: `Register`, `Heartbeat` and `FallSilent`
interleave between its steps. `orphan[h]` is the record the cycle still points
to after `h` was registered anew.

Abstractions and why they are sound:

* The score is abstracted to "a host that fits is ranked first". Without a
  latency budget a fitting host scores at least 40 and is always eligible; with
  one the score may be zero, so `RankNone` may also skip such an item.
* One ranking reads its records in one step although the code holds no registry
  lock. Within a cycle the capacities the cycle can see only shrink and the
  choice among fitting hosts is free, so each choice a torn read produces is
  also produced by an earlier or later atomic one.
* GPU memory is a demand of its own that is compared and never charged, as in
  the code; it is zero for an item without a GPU requirement and at least one
  otherwise. Positions, timestamps and log lines are left out.
* Time is one bit per lease (past its TTL) and one per host (heartbeat recent).
* Capacities are natural numbers. The handler takes one below zero as well; a
  fitting host of that kind may score zero, which the first abstraction leaves
  out. Sums stay far from 64 bits.

`RequestLifecycle` is the abstract specification: a request waits, is granted
once, on one host, lapses or is withdrawn, and never comes back. `Scheduler`
implements it under the mapping at the end of the module.

### AgentPool, MCAgentPool, PoolProofs

One route of `gw/tunnel/agent_pool.go` with the handlers around it. A step is
one hold of the mutex or one channel operation. `agent[c]` is where the handler
that brought connection `c` is (`arrived`, `sending`, `blocked` on done,
`returned`), `caller[t]` where the caller is. `armed` holds the context watchers
of parked connections. A hijacked request's context ends only when its handler
returns, so `WatcherFires` is enabled then. Each connection and caller lives
once: a client that comes back is another one. The handlers also count the
connections of a user, `incrementUserConns` and `decrementUserConns` in
`server.go`, but their routes (`server.go:282-285`) have no middleware that puts
a user into the request, so `UserFromContext` is nil, the count is never touched
and `MaxConnsPerUser` limits nobody; it is not modelled. A request refused
before the hijack changes nothing in the pool.

### Transfer, MCTransfer (proofs in StoreProofs)

`TransferManager` of `gw/transfer/transfer.go`, complete. `CreateTransfer` is
two steps (slot, then map); every other operation holds the transfer's mutex and
is one. Draining the limiter is merged with the state change that decides it.
`Spec` has every operation and is checked in `MCStores`; `GatewaySpec` has only
those the server's routes reach and is checked in `MCTransfer`.

### WebRTCSessions, MCWebRTCSessions, WebRTCProofs

`gw/webrtc/webrtc.go`: `place` is where a session is (being created, in the map,
deleted), `state` its stored state, `ender[e]` the goroutine inside EndSession
with the reentrant call it may be in (`nested`). `BeginWrite`/`StoreState` are
the two halves of an offer or ICE callback: everything computed before the
mutex, then the store that looks at nothing. `pc.Close()` may or may not fire
the Closed callback inside itself. `Panic` is the second `close(stopCh)`:
`Session.Mutex` has no deferred unlock there and stays locked; `net/http`
recovers the panic of a request's goroutine, on any other the process exits
(`Crash`) and starts again with empty maps.

### HostAllocator, SessionManager, MCSessions, SessionProofs

`HostAllocator` is `gw/session/allocator.go` and `scheduler.go`: the registry
with its three indexes (`byRegion`, `byClass`, `byOnline`), the ranking of
`AllocateHost`, and the queue. `processQueue` is two steps, `Pop` and the rest,
because the queue's mutex is free while it allocates; `fate[j]` is what became
of a queued session. `SessionManager` is `session.go` with `audit.go` and the
gateway's handlers over them. `creating[i]` is how far CreateSession has come
(the session is in the map before it is logged or pending), `provisioning[i]`
where the goroutine is in its five seconds, `timers` the armed deletions,
`entries` the log and `trimmed` whether it dropped one. A request for which no
host is found falls back to a session of the WebRTC server; here that is an
owner (`fallback`). `ApproveSession`, `UpdateSessionState`, the links and the
queue have no caller in the gateway and are modelled as the package offers them.

### Accounts, UserStorage, Oversight, MCAccounts, AccountProofs

`Accounts` is `gw/auth`, the users table, the seeding of `gw/admin` and the
administrator's handlers on users. `user[u]` is the struct, `users` and `emails`
the maps, `row[u]` the row, `write[w]` a `persistUser` call that has left the
mutex: first it reads the struct it points to, then it writes the row. A call to
the database may fail; `doubt` collects, for each user, the columns (the
preferences, or the others) whose last write failed or was overtaken, and the
next write of all of them settles it. `SeedAdmin` is its three steps. A restart loads the maps from the
rows. `UserStorage` extends it with one user's files: `files` is the index,
`disk` the directory, and the quota and the counter are `CheckStorageQuota` and
`AddStorageUsed` of `Accounts`, as `NewServer` installs them. An upload is
check, open, copy, index, count, with no lock between them. `drifted` names the
three known ways the counter leaves the index (a restart, which empties the
index; a removal that overlaps an overwrite; the floor at zero). `Oversight` is
the abuse detector, the reports with their triage, and the settings.

### AgentLoop, UDPClients, WebSocketBridge, SignalRooms, TailscaleHosts, MCTunnels, TunnelProofs

`AgentLoop` is the host agent's side of a tunnel: `slot[s]` walks through
`runTunnelOnce` (dial the target, dial the gateway, send the CONNECT and read
its answer, bridge) and the delay of `runTunnelLoop`; `local` and `uplink` are
the two connections, `copying` and `lingering` the goroutines between them.
Delays are integers that wrap at `2 * Word`, as `time.Duration` does, and the
first one is any of `BaseDelays`, since the configuration takes every number of
seconds.
`UDPClients` is `gw/tunnel/udp.go`: sockets have numbers, the table maps an
address to one, `stale` marks what a sweep would take. `WebSocketBridge` is
`websocket.go`: frames come from a set of kinds, a frame goes out in two steps
(header, payload) under `mu`, and of a message it is kept which frames it was
put together from. `SignalRooms` is `signaling.go`: one room, its pollers and
the sweep; a poller is `waiting` on the room's channel, `pending` on the one
nobody closes, or `woken`. `TailscaleHosts` is the gateway's list of hosts with
the agents that register, and the map from user to address. `dialViaTailscale`,
which would dial through all of them, is dead code: it refuses routes of agents
(`server.go:1915-1917`), and `openTCP` calls it for no others (`tcp.go:136-141`).

### SessionRecorder, DNSCache, RateLimit, UsageTracker, Firewall, FileStore, StoreProofs

`SessionRecorder`: a frame is looked up under the mutex and written, counted
(read and add apart) and compared with the limit without it; `overlapped` holds
the recordings on which two writers counted at once. `DNSCache`: addresses are
version numbers, so an older answer that is stored later is visible. `RateLimit`:
a request reads the clock, finds its bucket and locks it in three steps, and the
sweep judges and deletes in two; `granted[k].stray` counts the tokens taken from
a bucket already judged. `UsageTracker`: `records` is what is kept, `tracked`
everything there ever was; the clock moves with every record, so no two are
alike and a list of them is their set. `Firewall`: rules and groups, with the caller of the
last call; a refused update keeps the fields it set before the refusal.
`FileStore`: names, files and handles apart, as POSIX has them, so an upload
truncates what another call is reading and a removed file lives on unnamed. Of
a body longer than `MaxUploadSize` the copy gets as much (`letThrough`), and the
upload succeeds with it: `io.LimitReader` ends the body before
`http.MaxBytesReader` would make it fail.

### CheckpointStore, MCCheckpointStore

The lists per session are one set of snapshots numbered by save. A snapshot is
its session, size, delta flag and number; ages move as two thresholds. `Save`
is the whole handler: eviction of the globally oldest until the new entry fits,
replacement of earlier snapshots by a full one, the cut to two.

### AudioQueue, AudioBuffer

`AudioQueue` is the promise: reads return the unread bytes in order, a write
pushes out the oldest beyond `Keep`. `AudioBuffer` is the ring of
`gw/audio/audio.go` with its three write paths, and implements it with
`Keep = Size - 1`. Bytes are their positions in the stream, so a byte returned
twice or out of order is visible.

### MediaPath (proofs in StoreProofs)

The video path from `host-agent/internal/vmagent/vmagent.go` into
`HandleMediaIngest` of `gw/webrtc/webrtc.go`. `life[e]` is where an encoder
session is between `startDesktopStreaming` or `startGamingMode` and
`cleanupEncoderSession`, `reader[e]` what the goroutine on ffmpeg's output does,
`posts[e]` the packets the gateway's handlers have still to write, one entry per
request. Bytes are 0, 1 and "other", and everything derived from the stream is
an interval of positions in it: the parser's buffer is the `carry[e]` bytes up
to `pos[e]` and what the read adds; a packet says which bytes it has. So a unit
that lost a byte, kept a zero of the next start code or was put together from
two is visible. `Read` is the loop body of the goroutine: read, parse, carry,
packetise, post. A post blocks the goroutine until `Answer` or `GiveUp`; after
`GiveUp` the handler may go on. The loop of `parseNALUnits` is written as the
set of places where it finds a start code (`Found`), and what comes of them as
sets too: the units between two codes, and their packets, which `Batch` puts in
the order of their last bytes.

Abstractions: timestamps (one tick per unit) and SSRC are left out; no body
ends in a zero byte, as H.264 demands; a write to the track is a step and always
reaches its viewers.

### The MC modules

`MCStores`, `MCTunnels`, `MCSessions` and `MCAccounts` check several machines in
one run. A variable `part` chooses at the start which of them moves; the others
stay in an initial state. The machines of one such run share no state, so their
product has no behaviour that matters beyond those of its factors, and would
only multiply the states. Machines that do share state are composed for good:
`Scheduler` extends `HostManager`, `SessionManager` extends `HostAllocator`,
`UserStorage` extends `Accounts`. A machine that does not move is in a state in
which its fairness demands nothing, so the liveness of the one that moves is not
helped. `MCStores` also holds the values of its constants.

Properties that a run checks are conjunctions of the named parts of a component
(`HandedOverOnce == TypeOK /\ NoIdleWhileWaiting /\ OnePlace /\ UsedStaysOpen`);
the parts are stated, explained and, where section 6 says so, proved one by one.

## 4. Runs

Every property has a mutant: a plausible bug of the code, defined beside the
definition it replaces, under which the run finds the property violated.

| Run | Instance | Shows |
|---|---|---|
| `scheduler` | 2 hosts, one of them steady, the other re-registers, shrinks and falls silent; queue of 2; 2 requests of 2 kinds; 2 sizes of host, one that announces a charge above zero of one resource and below zero of the other | `LeasesAccounted`: a lease belongs to its queued item, no host is charged beyond what it announced and its live leases hold or owed capacity, a steady one is charged for every lease, although ranking takes no lock and Allocate's answer is dropped. `NoOvertaking`: no request passes an older one that asks for no more. `FittingRequestServed`, `OverdueLeaseReleased`, and the refinement `ImplementsLifecycle`. |
| `scheduler_priority` | 1 host, 2 priorities | violation, see section 7 |
| `pool` | 3 connections, 3 callers | `HandedOverOnce`: no idle connection beside a waiter, one place for each, none closed in use. `HandOverEnds`: every take ends, and no connection is stranded but one sent to a caller that had just given up |
| `sessions` | WebRTC: 2 sessions, 1 slot, 2 goroutines in EndSession. Session manager: 1 session, 2 people of whom one administers, 1 host, a log of 3 entries, 1 link. Queue: 3 sessions, 3 failures, 1 host | `LimiterAndMapExact`: no slot is drained twice or for another session, and only stopped sessions leave. `SessionsAccountable`. `IndexesAgree` of the three indexes. `OneFate`: a removed session does not come back with the item that is put back. `QueueIsServed`. `EndedLeaves`: what was told to stop leaves its map, a session the provisioning goroutine revived included |
| `webrtc_reentry` | as above | violation, see section 7 |
| `transfer_gateway` | 4 transfers, 2 slots, routed operations only | violation, see section 7 |
| `tunnels` | agent: 1 slot, first delays of 1, 2 and -1, the longest 5, words of 12, 3 doublings. UDP: 1 client, 4 sockets, 2 sweeps. WebSocket: 12 kinds of frame, 4 taken, 1 sent. Room: 2 pollers, 2 messages kept, 4 posts, 1 sweep. Tailscale: 2 hosts, 1 restart, 2 mappings | `BetweenAttempts`: nothing open however an attempt failed, and no delay below the shortest before the doubling leaves the word. `AlwaysReconnects`, `StopsAll`. `SocketsTracked`: at most one socket per client and one more per sweep. `MessagesWhole`: messages and frames are never mixed. `WaiterHasAll`: no post falls between a look and a wait. `MappingKept`, `StaysListed` through restarts. `WaitsEnd`: polls, stopped routes and the other half of a tunnel |
| `stores` | 3 transfers over 2 slots; checkpoints of sizes 1 and 3 in 5 units, 5 saves; ring of 5 bytes, 14 written; 2 frame writers, 2 frames, 2 recordings; usage window of 3 days, pruning from 2 records; 1 shared rule of 3, 1 group, an administrator and a moderator; 2 names, 3 look-ups, 1 entry, 1 move; 2 requests, rate 1, burst 2, 3 buckets; 2 encoders, reads of up to 16 bytes; 3 calls on a file, bodies of 1 and 3 pieces under a limit of 2 | `EndsOnce` of transfers. `UsedSizeSound` of checkpoints. `ImplementsQueue` of the ring. `RecordingSound`. `PruningKeepsBills`. `RulesKept`. `NamesSound`: no return to an older address unless look-ups crossed. `RateKept`: burst plus rate over any period, whatever the order and the sweep. `StreamSound`, `UnitsWhole` of the media path. `FilesWhole` |
| `checkpoint_delta` | 4 saves | violation, see section 7 |
| `accounts` | 2 users, 2 addresses, 2 token pairs, 1 write outside the mutex, 1 failure, 1 restart, 3 changes. Storage: 2 paths, 2 uploads at once of 3, sizes up to 2, quota 3. Detector: 2 VMs, 2 threats, 2 moderators, 1 report, 2 domains | `AccountsConsistent`: maps agree, a login has a row, no token is for ever. `UsersSurvive`: every column of a row follows its struct unless its last write failed or was overtaken, and a restart takes no user away. `AdminNotLockedOut`: the secret file never names a password that no administrator has, wherever the seeding was cut off, and one that was not leaves the file. `UsageWithinQuota`: the counter is the sum of the index, the overshoot at most one largest file less than the uploads at once. `VerdictsExplained` |
| `overwrite_charge` | the storage of `accounts` | violation, see section 7 |
| `usage_window` | 4 records | violation, see section 7 |

Bounds and why they are enough:

* `MaxRequests`, `MaxSaves`, `MaxBytes`, `MaxChanges`, `MaxFailures`,
  `MaxRestarts`, `MaxUploads`, `MaxPosted`, `MaxSwept`, `MaxSweeps`, `MaxDialled`,
  `MaxTaken`, `MaxSent`, `MaxMapped`, `MaxMoves`, `MaxTracked`, `MaxDays`,
  `MaxClock`, `MaxBuckets`, `MaxRecordings`, `MaxLinks`, `MaxLingering` and `MaxThreats` bound
  histories; `Conns`, `Callers`, `Transfers`, `Sessions`, `Jobs`, `Ids`, `Uids`
  and the other sets bound identities; nothing else is cut.
* Two hosts, a queue of two and two requests show the interference there is in a
  cycle: one host ranked, the other changed or re-registered; one item served,
  the other passed over, deleted or expired; a newcomer behind a lease.
* Three connections and three callers reach: one idle, one in flight, one used,
  with callers waiting, leaving and checking at once.
* Three transfers over two slots reach a full limiter with a refused creation
  and late endings; two sessions over one slot reach a slot passed on while the
  first owner is still being ended. Three queued sessions put one back in front
  of another, and three failures drop it.
* Sizes 1 and 3 over five units make eviction take zero, one and two snapshots;
  five saves replace, evict and refill. A ring of five meets every alignment of
  reader and writer, and fourteen bytes wrap it almost three times.
* The streams have both start codes, units that fit a packet, fill their last
  fragment and do not, and one of a single byte. Reads take every length from
  one byte, less than a start code, to more than two units; the carry's cap of
  three bytes, the shortest that holds an unfinished start code, binds in every
  longer unit; the sequence number wraps after four packets of six. One handler
  left behind is enough to overlap with the next.
* Two users fill both addresses and let one register what the other gave up;
  one writer outside the mutex and one operation inside it are the whole race of
  a row; one failure and one restart fall between any two steps, the steps of
  the seeding included. Two uploads on two paths overlap on one path, on two,
  and with a removal, and a third finds what they left.
* Two sweeps are what it takes for a goroutine to delete its successor's entry
  and for the next sweep to find the table wrong; four sockets are one more than
  they can produce. Four frames are a fragmented message with a control frame
  inside and the frame after it. Four posts overflow a room of two and refill it
  after a sweep.
* One cached name with three look-ups of two names makes every store evict, and
  two look-ups of one name cross. Two requests and one sweep show every order of
  looking a bucket up, judging and deleting it. Two writers of frames are what
  it takes to lose a count.
* Symmetry is used in `accounts` only (tokens, paths and uploads are
  interchangeable), where no property is a liveness property.
* Deadlock is not checked: each bounded history ends, and the system may stop
  when no client calls.

## 5. Fairness

* **Scheduler.** `WF(Cycle)`: the ticker keeps firing and a cycle waits only for
  mutexes held for single calls. Clients and hosts owe nothing.
* **Agent pool.** `WF` on each agent handler's and each caller's steps inside
  `add` and `take`: runnable goroutines run, and `take`'s context has a deadline.
  Agents need not come, and a bridge may last for ever.
* **Transfers.** `GatewaySpec` assumes that a creation under way finishes and
  that clients keep sending chunks, the most a client can do.
* **WebRTC.** `WF` on a goroutine inside EndSession and on the deletion timer.
  Nobody has to call EndSession.
* **Session manager.** `WF` on the provisioning goroutine and on a deletion
  timer; `WF(processQueue)`: its ticker fires until `Stop`.
* **Agent.** `WF` on each slot's step, for every wait in it has an end but the
  one for the answer to the CONNECT, whose step is disabled while the gateway is
  mute; and on a copy whose connection was closed or broke. The target, the
  gateway and the signal owe nothing.
* **UDP.** `WF` on a copying goroutine once the route stopped: its next answer
  has no listener, or its read deadline comes. While the route serves, traffic
  may keep it going for ever, and nothing is assumed.
* **WebSocket.** `WF` on delivering, writing and closing, and on reads once the
  tunnel is closed. Nobody has to send anything.
* **Rooms.** `WF` on a poller's look and on its deadline.
* **Tailscale.** `WF` on the passing of a minute and the registration of each
  agent.
* `stores` and `accounts` have no liveness property: what they model is called
  and does not run.

## 6. Proofs

The theorems hold for every value of the constants under the named assumptions
of the modules: every set of hosts, offers, reports and requests, every queue
size, every number of transfers, slots, connections, callers and sessions.

**Scheduler** (`SchedulerAssumption`, `HostAssumption`).
`TypeCorrect`, `LeasesCorrect`, `NoPhantomLoadCorrect` and `NoCreditCorrect`
prove `TypeOK`, `LeasesMatchQueue`, `NoPhantomLoad` and `NoCredit`. The inductive invariant is

    SchedulerInv == TypeOK /\ FreshIds /\ CommitReady /\ LeasesMatchQueue

`FreshIds` (ids not yet given out name no item) is needed because Enqueue writes
at `nextID`; `CommitReady` (between the ranking and the commit the item under
the cursor is still queued and a host was chosen) is what carries a fact across
the two steps of the cycle: no client can take the item away because the mutex
is held.
`NoPhantomLoad` and `NoCredit` add the arithmetic (`ChargeInv`, their
conjunction, is inductive around `SchedulerInv`): the load of a host is the
cardinality of a set of tokens, one per unit of each lease, which grows by a
demand with a lease and shrinks by as much with a release. Neither is an
equation: a host that registered again starts below its load, the clamp in
`Release` takes what is left of the announced charge, and a charge announced
below zero is lifted to zero by the first release.

`ExactAccountingCorrect` adds the lower bound for steady hosts, and with it an
equation for those that did not announce a charge below zero. Around `SchedulerInv` it needs `ExactInv`: every host
a lease or the cycle refers to is in the table (else `Allocate` would charge
nobody), the cycle's pointer to a steady host is the record in the table, and
the room the ranking saw on a steady host is still there at the commit. The last
is the heart of it: between the two steps only registrations and heartbeats can
run, which leave a steady host's room alone, so the answer of `Allocate` that
the code drops would have been a yes.

`NoOvertakingCorrect` (module `RequestProofs`) needs `OrderInv`: what the cycle
has examined and left waiting fits on none of the records the cycle sees, and
the item about to be granted asks for more than each of those, or did when it
was ranked. Every step in between only shrinks what the cycle sees; a
registration changes nothing it sees, because the cycle keeps its pointer.

`LeasesAccountedCorrect` puts the four together as the run states them.

`LifecycleCorrect` is the refinement: `Enqueue` is `Submit`, `Commit` is `Grant`,
`CleanupExpired` is `Lapse`, `Dequeue` is `Withdraw`, and every other step,
the expiry of a lease included, is a stutter.

**Transfers** (`TransferAssumption`). `TransferTypeCorrect`, `SlotsCorrect` and
`EndedStaysEndedCorrect`, together `EndsOnceCorrect`. The invariant adds that a
transfer has `limiterReleased` set exactly when it has ended, which is what lets
the second of two endings leave the limiter alone.

**Agent pool** (`PoolAssumption`: `None` is no connection).
`NoIdleWhileWaitingHolds`, `OnePlaceHolds` and `UsedStaysOpenHolds`, together
with the types `HandedOverOnceHolds`. `PoolInv` says where a connection is and
why there: `WhereBlocked` (it lies in the idle list, a channel or a caller's
hands exactly while its agent's handler is blocked on it and it is unfinished;
it was closed by nobody until then), `Alone` (in one of them, once) and
`Matched`, the heart of it: a caller is matched with at most one connection, its
channel is empty until that one arrives, and it has left the table by then, so
the send after the unlock meets an empty channel of capacity one and no second
sender.

**WebRTC sessions** (`WebRTCAssumption`: the set of ids is finite, for the
tokens are counted). `WebRTCTypeOK`, `SlotsExactHolds`, `DeletedIsStoppedHolds`,
together `LimiterAndMapExactHolds`. `WebRTCInv` adds `OneOwner` (at most one
call is past the mark and has still to drain for a session, because the channel
that marks it is closed once), `OwnerOK` (until then its session is in the map
and no timer runs) and `LifeOK` (the timer is armed for stopped and closed
sessions only). A reentrant call that finds the session alive panics before it
drains, which is why the limiter is exact even on the path of section 7.

**Allocator** (`AllocatorAssumption`). `IndexesAgreeHolds` from `AllAgree`, the
agreement host by host; `OneFateHolds` from `FateInv`: items that are held, in
the heap or popped, have sessions of their own, which are those whose fate is
open. A step of the queue leaves the registry alone and the other way round.

**Session manager** (`SessionAssumption`, with the above).
`RevivedOnlyByProvisioningHolds`, `WaitingIsPendingHolds`, `AuditExplainsHolds`,
`ListedMayBeEndedHolds`, together `SessionsAccountableHolds`. `SessionInv` adds
`Stages`: a session that waits for an approval has no host and no end, so the
end of one finds nothing to release, and the approval of one nothing to revive;
one with a host is not provisioned before it is published; an owner recorded for
the WebRTC server has no session here. `AuditExplains` is kept only while the
log is whole, which the append with its cut shows to be until it is full.

**Accounts** (module `AccountProofs`, `AccountsAssumption`).
`AccountsConsistentHolds`, `AdminNotLockedOutHolds` and `UsersSurviveHolds` rest
on `AccountsInductive`, the invariance of

    Inv == TokenInv /\ AccountInv /\ SeedInv /\ Counters

The heart of `AccountInv` is that a row is never of another account than its
struct: the address and the password of a struct never change, so a copy of it
that `persistUser` carries outside the mutex may be old, but it is of the same
account (`WriteSound`), and whenever it lands it leaves every row with the
address it had (`RowsStay`). That is why rows keep the addresses apart
(`OneRowPerEmail`) through overtaken writes, and why a restart loads maps that
agree. The preferences are written inside the mutex and follow (`PrefsFollow`);
the other columns follow too unless a write of them is under way or the last one
left a doubt (`OthersFollow`), for which the lemma `DoubtChanges` says that a
write settles or raises the doubt about its own columns alone.
`SeedInv` says what the table and the secret file hold at each point of the
seeding. Whatever was cut off, a password in the file is that of an
administrator's row; unless something was, there is nobody, or the administrator
whose password is in the file or on its way there.

**Storage** (same module, `StorageAssumption`). `UsageWithinQuotaHolds`.
`StorageInv` gives each upload what it may still add to the counter, the whole
size until it is written and the difference afterwards (`pending`); the counter
and all that is due stay under `Ceiling`, the quota and one largest file less
than the uploads at once. A check succeeds only with room for its file beside
what is counted, and each other upload has at most one largest file due.
The same bound holds of the row and of each copy on its way to it
(`WritesBounded`), or a restart would bring back more. The other half,
`UsageFollowsIndex`, equates the counter with a sum over the index and what was
indexed and not yet counted; the lemmas on sums (one term changed, a term
added) come first in the section.

**Oversight** (same module, `OversightAssumption`). `VerdictsExplainedHolds`.
The state of each VM and the threats of it are related by `Explained`, which is
inductive once it says what the property leaves open: a VM the detector has not
heard of has no threat and no order that paused it, since a process list or an
order is looked at only after its first metrics or changes its state. `TriageInv`
adds that before the first threat no moderator's action under way was begun with
the triage on, so that what it writes is what the moderator asked for, and after
it that of the moderator or another than "ignore" that the model suggested.

**Agent** (module `TunnelProofs`, `AgentAssumption`). `BetweenAttemptsHolds`.
`BackoffBounded` is the arithmetic: whatever the first delay, a delay is no
shorter than the shorter of first and maximum, as long as the doubling stays in
the word; `DelayInv` keeps with each delay the number of failures it was computed
from. `AttemptInv` adds that no connection to the gateway is there while it is
being dialled.

**UDP** (`UDPAssumption`). `SocketsTrackedHolds`. `SocketInv` counts, per
client, the `Strays`: sockets whose goroutine lives on though the table does not
list them. A sweep makes one of them. A goroutine that deletes its successor's
entry makes another and is one itself until that moment, so their number stays
below the number of sweeps.

**WebSocket** (`WebSocketAssumption`). `MessagesWholeHolds`. `BridgeInv` has a
half for each goroutine. `ReaderInv`: the fragments collected are the data
frames since the first of their message, after everything delivered, and none
of them ends the message. `WireInv`: whoever holds `mu` has written the header
that is last on the wire, and while nobody holds it the last frame is complete.

**Rooms** (`SignalAssumption`). `WaiterHasAllHolds`. `SignalInv`: messages are
numbered without a gap (`Numbered`), a poller was given all between the number
it came with and the one it polls with (`Given`), one that waits found nothing
newer (`Caught`), and lives tell the rooms of one key apart (`Lives`).

**Tailscale** (`TailscaleAssumption`). `MappingKeptHolds`.

**Checkpoints** (module `StoreProofs`, `CheckpointAssumption`).
`UsedSizeSoundHolds`. The total of some snapshots is the number of their units,
so it is additive by the theorems on finite sets (`TotalsAdd`), and every step
is a matter of which sets share nothing. `CheckpointInv` adds to the property
that the store is finite, that no snapshot is newer than the last save and that
none is larger than the store. The loop of the eviction ends with room or with
nothing left (`EvictionMakesRoom`), since the numbers of saves have a least one
that is enough.

**Recordings** (same module, `RecorderAssumption`).
`RecordingSoundHolds`. `Counted` balances what is on disk against the count, the
writers that have still to count and what one has read; `Limited` bounds an open
recording by the limit and the writers past their write, each of which will
compare and stop it.

**Firewall** (`FirewallAssumption`). `RulesKeptHolds`, from `GroupKept`: a group
lists a rule once if it was given it once, so that `DeleteRule`, which removes
the first it finds, leaves none.

**Host names** (`DNSAssumption`). `NamesSoundHolds`. `OneLooks` is about names
for which no two look-ups crossed: the one that is under way carries a version
as new as any that was dialled.

**Usage** (`UsageAssumption`). `PruningKeepsBillsHolds`: what was pruned is older
than the window, and time only moves away from it.

**Rate limiter** (`RateAssumption`). `RateKeptHolds`, an argument with a
potential. The `level` of a bucket is what it would have held at the first tick;
refilling leaves it or lowers it, a grant lowers it by one. Hence what a key was
granted and the level of its bucket together stay below the burst
(`WithinFlow`). When the sweep judges a bucket stale, so much time has passed
that all it granted has flowed in again, and a full new bucket is no gain. For
this, `StaleAfter` less twice the lag of a reading has to be long enough to fill
a bucket, once for a reading that was late when the bucket was last used and
once for one that is late now.

**Files** (`FileAssumption`). `FilesWholeHolds`. A file is named by the upload
that made it, and `Made` keeps the files of different paths apart. `CallSound`
says what a call that stayed alone can rely on: no other call writes its path,
an upload's file is the path's and holds exactly what it has written
(`WritesAlone`), and a download's file is still what it saw, of which it has
read a beginning (`ReadsAlone`). A call that begins only takes from the others
that they are alone (`BegunFields`), and a step about one path leaves the calls
and files of the others as sound as they were (`OthersSound`,
`OtherPathsSettled`). The limit of a body is any number of pieces: whole is what
`letThrough` lets through.

**Media path** (`MediaAssumption`). `StreamSoundHolds`, for every set of byte
streams, read size, MTU and cap of the carry. It rests on a chain of lemmas about
the parser and the muxer: start codes do not overlap (`CodesApart`), so units
between neighbouring codes do not (`UnitsInOrder`), nor do the fragments of one
(`FragmentsInOrder`); packets are told apart by their last bytes, and the ranks
of these are a bijection (`Places`), so a batch is in order without an induction
over it (`BatchInOrder`); and whatever the cap, the carry lies behind everything
posted (`KeptBehind`). `MediaInv` adds `InStep`: as long as no post was given up,
there is a handler exactly while the reader waits for one, and what it has still
to write lies between the track and the bytes carried.

**Audio ring** (`AudioAssumption`). `ImplementsQueueHolds` is the refinement
`AudioSpec => ImplementsQueue`. `AudioInv` says that from the reader's slot on
the ring holds the newest bytes in order (`Holds`), as many as `Available`
counts. `RingFilled` and `RingOverrun` carry this through a write that stays
behind the reader and one that runs into it; `Wraps` turns each position modulo
the ring into a case distinction, the only way the provers can follow one. The
unread bytes are then a `Run` of numbers, and runs concatenate and are cut as
the queue's `Put` and `Get` ask.

What the proofs changed in the models: `RateAssumption` asked for less, and with
readings two ticks late or more the induction failed for a reason; the
assumption now says what it takes. `FirewallAssumption` and `RecorderAssumption` say that "no rule"
is none and that writers are finitely many. `UsageFollowsIndex` and the
reassembly of `MessagesWhole` were restated without recursion, the size of some
checkpoints as the number of their units, the packets of a read as a ranked set,
the unread messages of a room as positions, and the records of a user as sets,
since tlapm has no SMT backend beside a RECURSIVE operator and no induction over
data. `MediaAssumption` names the two encoders the agent has.

Only model-checked:

* All liveness: the prover has no fairness or ENABLED.
* `UnitsWhole` of the media path. `CompleteRunsAreUnits` is not true of every
  value of the constants: sequence numbers wrap, and a handler that outlives as
  many packets as there are numbers, or as many packets in a row that handlers
  dropped, can put the beginning of one unit before the end of another. With 16
  bits in the code that takes 65536 packets; the run has 4 numbers and streams
  too short for it. `OnlyCutUnitsLost` is about where units lie in a stream put
  together from them (`Bytes`, `UnitSpan`), which is an induction over the
  stream.
* What a recursive definition computes for all inputs; none is used in a proved
  module.

## 7. Divergences found

| Run | The code | The text |
|---|---|---|
| `scheduler_priority` | `scheduleCycle` walks the queue in arrival order and reads no priority | `docs/ROADMAP.md:21` "Priority-queue based scheduling" |
| `transfer_gateway` | no chunk is accepted before `StartTransfer`, which nothing calls: after ten creations the limiter is full for good | `gw/transfer/transfer.go:307` "Auto-complete on final chunk and release the concurrency slot" |
| `webrtc_reentry` | an offer or ICE callback that was on its way makes an ended session live again; the reentrant EndSession closes `stopCh` twice and panics with the mutex held | `gw/webrtc/webrtc.go:753` "State is already Ended so the recursive call short-circuits" |
| `checkpoint_delta` | a delta save subtracts the size of a snapshot it keeps; the running size drifts below what is held | `gw/tunnel/checkpoint.go:95` "discard all prior snapshots … AND subtract their sizes" |
| `overwrite_charge` | `Upload` asks the quota for the whole size (`gw/storage/storage.go:318`) before `WriteFile` asks for the difference, so an overwrite that fits is refused | `gw/storage/storage.go:119` "only the *delta* counts against quota" |
| `usage_window` | `Track` prunes records older than thirty days, and `HandleUsage` answers for up to 365 | `gw/usage/usage.go:110` "Older records are never read" |

Worth knowing, though no text is contradicted, or where a property names the
case as its exception:

* An item whose lease lapsed keeps its place in `MaxQueueSize` until a client
  deletes it; a cycle without an available host does not clean up overdue leases
  (the premise of `OverdueLeaseReleased`); `host.ID[:8]` in a log line panics for
  a shorter id, on a goroutine nobody recovers.
* A connection delivered in the instant its caller times out stays open with its
  handler blocked (`AddedIsFinished`). A WebRTC session's `ExpiresAt` is compared
  nowhere.
* `provisionSession` stores "connecting" over an end that came within its five
  seconds (`RevivedOnlyByProvisioning` says it is the only one that does).
* A seeding of the administrator that is interrupted or fails half way leaves an
  administrator whose password is in no file, and every later start fails on the
  taken address. `AdminNeverLockedOut`, which would exclude it, does not hold;
  `AdminNotLockedOut` says what remains true, and that nothing else does it.
* `persistUser` outside the mutex writes the whole row, and an older one may
  land over a newer role (`doubt`). The next write of the row heals it; a restart
  before that brings the older role back. `DeleteUser` deletes from the maps alone
  (`gw/auth/auth.go:385-395`), so a deleted user returns with the next restart
  (`row` keeps it in `Accounts`). A restart empties the storage index and keeps
  the counter (`drifted`).
* `MaxConnsPerUser` limits nobody: the routes of the tunnels have no middleware
  that would name a user (`gw/tunnel/server.go:282-285`).
* The agent's delay is `base << attempt`, cut to the maximum after the shift:
  with thirty doublings a base above nine seconds overflows, and the delay
  vanishes or is an arbitrary shorter one. `BaseDelays` includes such bases, and
  `NeverSpins` says from which failure on it happens (`outOfRange`); the default
  of one second never gets there.
* A host registers with the charge its JSON body names, above or below zero
  (`sch/host/manager.go:25-26, 49-57, 192-202`); the field `base` keeps it, and
  `NoPhantomLoad` and `ExactAccounting` count from there.
* An upload longer than `MaxUploadSize` is cut there and answered with 201
  (`apps/file-service`, `storage.go:85`, `handler.go:92`); `FilesWhole` expects
  the cut body.
* The detector may overwrite "paused" with "flagged", and a resume clears threats
  recorded since the moderator looked: `VerdictsExplained` counts both as
  explained. Of two moderators on one report the one whose triage ends last
  decides; `DecisionIsTheModerators` is about each call.
* The answer to a CONNECT is read without a deadline: a gateway that stays mute
  holds a slot beyond the signal to stop (`StopsAll`).
* The goroutine of a swept UDP socket deletes the entry of its successor, which
  works on unknown to the table (`OpenBounded`). A room made again after a sweep
  numbers from one, and a client that polls with an old number misses messages
  (`WaiterHasAll`). A mapping made while a GET deletes an outdated one goes with
  it (`MappingKept`). A request that found its bucket before the sweep deleted it
  takes a token nobody counts (`RateKept`).
* Uploads, downloads and removals of one path of the file service that overlap
  leave mixtures; `FilesWhole` is about those that do not.
* The NAL parser carries the bytes of a cut unit without their start code, so a
  unit longer than one read (4096 bytes) never reaches the gateway, and neither
  does any other that a read happens to cut: `OnlyCutUnitsLost` says exactly
  this. A gaming stream without a media session stays counted for ever (`leaked`
  in `StreamsCounted`).

## 8. What is not modelled

Every part is listed with its reason under `components` in `PROJECT.json`.

* **Data paths and libraries**: bytes bridged, HTTP rewriting, compression,
  codecs; QEMU, tailscale, pion, SQLite; wording, logging, configuration.
* **Code nothing runs**: `ProxyCache` (nothing stores in it, and `Store` would
  dereference a nil entry), `cache.go`, the operations of `VMManager`, the
  clipboard manager (no caller registers a clipboard session, so its routes
  always fail), `ConnectionFusion`, the audio session map, `CheckQuota`,
  `Firewall.Evaluate`, `dialViaTailscale`, the connections counted per user in
  `tunnel/server.go`, `RemoveGroupFromVM`, `LookupAddr`, the network quality of
  WebRTC sessions, `MarkOffline`, the database functions for tables nothing
  fills, and the scheduler's unused allocator, queue and metrics. Where a package
  offers operations that keep its own invariants (sessions' approvals, the
  session queue, recordings' frames, checkpoints) they are modelled nevertheless,
  and the components say so.
* **Single critical sections**: images, keys, monitoring, input and browsing are
  maps in memory under one mutex, where no step of two actors can interfere. The
  answer to a gaming GET is encoded while an update may write the session's map;
  what the Go runtime does then is to end the process, and no state follows.
* **Floating point**: the bandwidth estimator computes from averages, and only
  the data channel to the client is told.
* **The VM agent's** registration, metrics, controller input and the loop that
  stands in for its tunnels; `vm-setup`.
* **Auth service, frontend, desktop shell, scripts, shared types**: TypeScript
  over maps in memory, without a step that waits with state in hand.

## 9. Plan

The plan of the project is carried out: the scheduler and registry, the agent
pool, transfers and WebRTC sessions came first, then media and audio; the
session manager with allocator and queue, the tunnels, the accounts with storage
and oversight, and the remaining stores followed, and after them the proofs of
section 6. What would add most from here, in this order:

1. `CompleteRunsAreUnits` for runs in which no more packets than there are
   sequence numbers lie between two that meet on the track.
2. `AgentLoop` composed with `AgentPool`, so that the two ends of one tunnel
   share its connections.
3. Three requests in the scheduler's run, which takes longer than the five
   minutes a run is meant to.

# A TLA+ model of FRP-Panel

FRP-Panel runs `frpc` processes on a panel host and `frps` on remote nodes, and
keeps per-node traffic totals. Each node runs an *agent*; the *panel* dials every
agent and keeps one authenticated WebSocket (the control link) open.

This directory holds TLA+ modules for the parts of the system that have a
protocol of their own, TLC configurations that check them on small instances,
and TLAPS proofs of the main properties for every value of the parameters.

## 1. Inventory

| Part | State | Operations | Hard because |
|---|---|---|---|
| Agent log, `internal/agent/wal.go` | counter, `traffic.wal` | OpenWAL, NextSeq, Append, Stream, Rotate | append fails or is torn; restart recovers the counter from readable lines; rotation under an open reader |
| Agent sampling and sessions, `internal/agent/server.go` | sessions with a bounded queue and a `ready` gate | sampleAndBroadcast, handleWS, backfill, sendWait, fanout, dispatch | replay runs beside live sampling; queue limits; timeouts |
| Panel pipeline, `internal/panel/pipeline.go`, `internal/metrics` | per node: SeqTracker, day buckets, minute aggregate, ring, last persisted watermark | InitNode, Account, flush, CommitSeq, RemoveNode | Account and flush run in two goroutines; statements fail one by one; the panel can die between them |
| Control link, `internal/panel/nodeconn.go` | connection, node snapshot, pending requests, `up` | Run, session, heartbeat, handle, request, reconcile | reconnects, late messages, replies after the timeout, sessions that outlive their context |
| Node manager, `internal/panel/nodemgr.go` | connections and their cancel functions | StartAll, Add, Restart, Remove, SyncAll, SyncNode, RotateFrpsToken, UpdateMeta | called from HTTP handlers and node goroutines at once |
| frpc supervisor, `internal/panel/frpcmgr.go` | `procs`, one file and one process per node | EnsureNode, RestartNode, StopNode, supervise, reload | the lock covers map accesses only; the process has its own life |
| Mappings, `handlers_mappings.go`, `store.go` | mappings with a version, targets with unique (node, port) | create, update, toggle, delete | optimistic lock, uniqueness, node deletion beside edits |
| Login and sessions, `auth.go`, `handlers_auth.go`, `agent/ratelimit.go` | `pwd_version`, failure windows and bans | login, change password, request check, prune | two statements per password change; pruning must not change decisions |
| Browser hub, `hub.go`, status in `app.go` | bounded queue per browser, live tunnel map | Broadcast, sendInit, markNodeOnline/Offline | pushes race the initial snapshot; drop-oldest |
| frps control, firewall, self-update, host metrics, configuration text, ports, certificates, HTTP routing, web interface, scripts | | | mostly sequential I/O and formatting |

What makes each part correct:

* **Accounting (agent log, sessions, control link, pipeline).** Every logged
  sample reaches the daily totals once; what is lost is lost for a known reason;
  watermarks never run ahead of what they stand for by more than a known amount
  and never go back; a replay ends; progress is made while a link lasts.
* **frpc supervision.** One supervisor per node that can be stopped, a file that
  agrees with the database, frpc running with that file, nothing left of a
  removed node.
* **Control link.** A request is answered by its own reply; panel, agent and
  frpc's file agree on the frps token once rotations have come to rest.
* **Mappings.** No lost update; nothing enabled on an unprobed port; no targets
  without their mapping.
* **Node sessions.** One driver per node, a driver for every registered node, a
  status that is the driver's, nothing left of a removed node.
* **Tunnel counters.** The deltas of a tunnel add up to what went through it.
* **Sessions and throttling.** A password change ends every older session;
  sweeping leaves the limiters' answers alone.
* **Browser hub.** A browser shows the node's status in the end; no browser holds
  the others up; no send on a closed channel.
* **Self-update.** The executable is always one whole, verified release, and a
  failed update can be tried again.

`PROJECT.json` lists every component and every hazard with its line.

## 2. Modules

| Module | Models | Uses |
|---|---|---|
| `Wal` | the log: counter, readable lines, a torn tail | |
| `AgentServer` | sampling, replay rounds, gate, queue, session, agent restart | `Wal` |
| `Pipeline` | tracker, Account in two steps, flush in five, panel restart, database faults | `AgentServer` (for the samples' numbers) |
| `Accounting` | the two joined by the control link; properties and invariant | `Pipeline` |
| `AccountingProofs` | theorems about `Accounting` | |
| `FrpcManager` | EnsureNode, StopNode, supervise and the panel operations that call them | |
| `FrpcManagerProofs` | theorems about `FrpcManager` | |
| `ControlLink` | handshake, requests and replies, token rotation, reconcile, SyncNode | |
| `ControlLinkProofs` | theorems about `ControlLink` | |
| `Mappings` | the mapping handlers and the transactions of the store | |
| `MappingsProofs` | theorems about `Mappings` | |
| `NodeSessions` | NodeManager's maps, NodeConn.Run, registering and deleting a node, its status | |
| `NodeSessionsProofs` | theorems about `NodeSessions` | |
| `TunnelCounters` | the tunnel half of a sample against frps's daily counters | |
| `WebSessions` | login, password change, reset, the version check | |
| `Throttle` | what the failure limiters promise: no maps, no sweeps | |
| `Limiter` | authLimiter and loginLimiter, shown to implement `Throttle` | `Throttle` |
| `LoginProofs` | theorems about `Limiter`, the refinement among them, and `WebSessions` | |
| `Hub` | Broadcast, trySend, sendInit, ServeWS, writeLoop and the browser | |
| `HubProofs` | theorems about `Hub` | |
| `SelfUpdate` | selfupdate.Run and its two callers | |
| `AgentProofs` | theorems about `SelfUpdate` and `TunnelCounters` | |
| `MC...` | small instances for TLC, one per module that a run checks | |

### Accounting

A *sample* is one tick of `sampleAndBroadcast`, named by the order in which it was
taken; `seqOf` is the number `NextSeq` gave it. Keeping the two apart is what shows
that a number can be given out twice. A line of the log is readable or not, so the
log is a set of samples and a flag for an unfinished last line.

Queue, writer goroutine and socket are one FIFO of length `SendBuffer`. Messages
without traffic are left out. Numbering and logging a sample is one step and its
broadcast another, because the replay goroutine can run in between; opening the
gate (the deferred `ready.Store`) is a step of its own for the same reason.
`Rotate` under an open round leaves the round with the replaced file (`frozen`,
`snap`), as an open file descriptor does.

On the panel, `Account` is split at the point where it has advanced the tracker but
not yet added the bytes (it writes tunnel status to MySQL in between), and `flush`
into capture, drain, health check, one step per day row, and the watermark. A
statement may succeed, fail, or take effect and still report an error. The bytes of
a sample are the sample itself, so a bucket is a set and `db` counts how often each
sample was added to `traffic_daily`.

Losses the code accepts are recorded in history variables, so that the properties
can tell them from silent ones: `cut` (a replay ended without them), `dropped` (full
queue, late message), `discarded` (a batch that was not written), `stranded` (in
memory behind the stored watermark when the panel died), and `Renumbered`.

Left out: power loss (there is no fsync), a log that cannot be read at all at
start, a rotation that fails half-way, and two sessions of one node at once
(`NodeSessions` has those, without the samples).

### FrpcManager

One node, a set of callers (HTTP handlers, node goroutines) and supervisors
numbered by `startProc`. A configuration is the number of the mapping revision it
was rendered from. Each caller runs through the steps between which `m.mu` is not
held: read the mappings, write the file, look for a supervisor, reload or start;
or take the supervisor off the record, cancel it, wait, delete the file. Nothing makes
callers wait for one another. Reading, writing (also after the file was truncated,
`Broken`) and reloading may fail; a reload may also have been carried out when its client
gives up. frpc is external: it reads its file when it starts, listens on the admin port
some time later, needs that port for itself, may exit at any time, and may outlive
StopNode's six seconds.

Overlapping callers do harm (see below), so the properties say how far it goes:
`doubled` records that an operation which ran beside another started a supervisor over one
that was on record, the only way in which one is lost; `overlapped` that the last operation
did not run alone. `FileIsCurrent`, `ReloadApplied` and `RemovedIsGone` say that whatever
overlapped before, the next operation that runs alone sets things right. `missed` and
`skipped` are reloads, reads and writes that failed.

### ControlLink

One node. The panel's side is `drv` (where `NodeConn.session` is), `nodeTok` (the
node kept by the connection), `dbTok` (the nodes table) and a set of callers, each in
RotateFrpsToken, SyncNode or UpdateMeta; the agent's side is `cfgTok` and, per session, what its
reader has still to read and is carrying out. Sessions are numbered, because a
reader of the agent finishes its restart after its session has ended; its reply is
then dropped. A reply waits in `outbox` until `handle` gives it to the request that
has its identifier, if that is still pending. A token stands for the request that
made it up, so identifiers need no variable of their own.

Every point where another goroutine may run is a step boundary: snapshot, handshake,
the database write, setNode and the rewrite of frpc's file; a database write that
reports an error may have taken effect. FrpcManager's steps inside a call are one
step here. UpdateMeta is two steps, because it puts back a copy of the whole node, its
token included. Three history flags say what the properties set aside: `crossed`
(rotations overlapped, one was given up or failed, or UpdateMeta changed the token), `raced` (a rotation or a
handshake overlapped another writer of frpc's file) and `unserved` (a rotation could
not rewrite the file). A handshake that finds nothing under way clears `crossed` and
`raced`, which is what makes the properties say that a reconnect repairs the token.

Left out: which token frps itself runs with after a failed restart, a second session
of the panel to the same node, and the frps port, which travels with the token.

### Mappings

Browsers with one request at a time each. `view` is what a browser was last shown,
`req` what its request asks for. Listing is two steps (rows, then targets); an edit is
two: the checks of validateMapping (or the read of the toggle), then one transaction
of the store, guarded by the version the browser was shown and by `uq_mt_node_port`.
Version 0 stands for a row that does not exist. `probed` is the local port the check
before the last write found listening. Whether a program listens is not state: the
check either lets a request pass or ends it. The remote port check is best effort and
left out. Deleting a mapping asks for no version, and deleting a node leaves versions
alone; `NoLostUpdate` therefore allows targets that went with their node.

### NodeSessions

One server (the address is unique in the table), rows numbered as they are inserted,
drivers (goroutines of `NodeConn.Run`) and HTTP requests. `nm.mu` is held for the maps
only: stop takes the driver out of the maps under it and cancels it afterwards (`Unmap`,
`Cancel`), start puts a driver into them and afterwards makes the pipeline's state and lets
it run (`Start`, `Begin`). Add is stop then start, and Remove is stop, then the pipeline's
state, then the row, with other requests between all of these. Stopping a driver cancels its
context and closes no socket, so a stopped driver goes on through its session:
`cancelled` is looked at only in Run's loop. Marking a node online or offline is two
steps, the column and the push. The panel starts over any table, also one that says
"online" of a node nobody is connected to.

What the properties set aside is in history variables: `blurred` (a lost write, an
earlier process or a stopped driver may have got the status wrong; cleared when the
node comes up with no stopped driver left), `stranded` (the delete failed after the
node was taken down, or the insert took effect and reported an error) and `revived` (a
session that outlived the removal, or a start that it overtook, made pipeline state again). A driver that runs for a row deleted between its insert and Add is
possible in the code and in the model; no property denies it.

### TunnelCounters

frps is external: a listing in a fixed order, a counter per proxy that starts again at
midnight or with frps, and no remote port for a proxy without a configuration block.
Such proxies share the key `tcp:0`, so within one loop each overwrites the last
reading of the one before (`Prev`). frps counts by proxy name, which has no port
(`frpcfg.go:193`), the agent by port (`server.go:555`): when a mapping's remote port is edited
(`PortEdited`, also to a port another tunnel had) the counter goes on under another key.
`carried` is what really went through, `counted` the sum of the deltas. A reset that new
traffic has hidden (`clipped`) and a tunnel whose own port was edited, or that was read
without it or by a restarted agent (`rekeyed`), are set aside: for the latter the whole day
is counted again.

### WebSessions

The user's row, a cookie per browser with the version it was issued for, and handlers
whose statements are separate steps. A password is a number, new for every change.
Signing is abstracted to cookies only the handlers can make; `dbUp` is what the panel
believes of the database, `alive` what is true. Changes and resets overlap at any
statement. `crossed` records that a password was set between another change's UPDATE and
its SELECT, until one is set outside such a gap.

### Throttle and Limiter

`Limiter` has the two maps, the time of the last sweep and the requests between their
`Blocked` and their verdict; `Throttle` has, per address, the failures that count and the
end of a ban, and nothing else. The mapping hides what a sweep has not removed yet:
`Counted` and `Until` are empty for a ban that has lapsed. `Handling < Ban` is needed: a
request decided after a ban that began later has already ended would meet a stale entry. On
the agent it holds, with a read deadline of 25 seconds against a ban of ten minutes. On the
panel nothing bounds the time a login's body takes to arrive (`panel/server.go:33` sets only
ReadHeaderTimeout), so the results leave out a login whose body takes longer than a ban.

### Hub

One node's status, browsers with one connection after the other, and the queue of each.
Broadcast holds the mutex from `Lock` to `Unlock`; trySend's three channel operations are
steps of their own, because sendInit and the writer use the same channel without the
mutex. A sample or an event is a message that only fills the queue. The browser's side
(`Applied`) is the message handler of `web/src/realtime/RealtimeProvider.tsx`. `missed` names
the browsers whose last word on the status was dropped, overtaken by their init message,
or not in the table.

The read deadline of 70 seconds is set before ReadMessage; the browser sends nothing and
no pong handler moves it (`Pong` changes only the count of pings answered, of which two fall
before the deadline), so every connection ends by it and the browser connects again.
`BrowsersCatchUp` rests on that: a pong handler that kept connections open would
leave a browser with a dropped push for good. It speaks of a status that stays (`Settled`)
and of connections that keep up (`Keeps`: no write fails, no status is dropped or left unread
at the deadline); samples, events and tunnel statuses go on being broadcast.

### SelfUpdate

Calls of Run, releases published meanwhile, and files as inodes of several pieces, since
os.WriteFile truncates and then writes and a second writer of `<target>.new` shares the
first one's inode. `Guarded` tells the agent (one call at a time, by CompareAndSwap) from
the panel (one call per request).

## 3. Runs

Bounds are constants. In the accounting runs `MaxSamples`, `MaxFaults` (failed file
operations and late messages), `MaxCrashes` and `MaxDbFaults` bound what happens;
`SendBuffer`, `MaxRounds` and `Retention` stand for 128, 24 and seven days. Two samples
are the least with which one can overtake another; two faults let a renumbered sample
meet a late one; a queue of one or two fills; two rounds let the cap end a replay. The
last sample falls on another day, so a batch has two rows. In `link` two connections let
a request outlive its session, and three tokens allow two rotations, one after or beside
the other, or beside an UpdateMeta; the callers are symmetric there and in `frpc_overlap`,
where two callers and three supervisors let two starts and a stop meet. In `mappings` two mappings compete for the one public port, two local ports
tell a probed one from another, and three versions let two edits pass between a view and
its use; the browsers are symmetric. `MaxProcs` is never what stops an operation
(`Spare`): operations that may start a supervisor begin only while one is unused.

In `node_sessions` two requests and two drivers are the least with which a stopped
driver meets its successor while another request is under way, and a third request can
follow (`MaxRequests`); the one fault can hit the list, a status write, the insert or the delete. In `agent_limiter` two addresses let one sweep for the
other, and a clock of nine leaves room for a ban, its end and the next one; the ban of
three outlasts the window of one, as on the agent. In `web_sessions` four versions allow
three changes and resets, one inside another. In `tunnels` two edits let two tunnels swap
their ports over a third, and three bytes let a counter pass its old reading after a reset. In `hub` a queue of two can
hold a push and the init message in both orders and overflow; pushes, samples, database
outages and reconnects are unbounded. One browser is enough there, as clients share
nothing but the mutex. In `agent_update` two calls, two releases and two
pieces per file let a call meet a half-written file and a newer release.

| Run | Shows |
|---|---|
| `accounting` | replay, rotation, reconnects, agent restarts, failed or torn appends, late messages and a panel that dies at any step: in order, once per panel process, only named losses, at most one sample behind the stored watermark unwritten, watermarks rise |
| `progress` | a replay ends even if the panel never reads (`sendWait`'s timer); while a link lasts and the panel reads, every logged sample is written or falls to a named loss |
| `link` | rotations and syncs over connections that break: own replies only, one token on both sides and in frpc's file |
| `mappings` | two browsers and a node deletion: no lost update, enabled ports were probed, no targets left over |
| `frpc_overlap` | two callers that overlap at every step, and failing writes and reloads: the record is of a supervisor that runs, none is lost except to two starts at once, and the next operation that runs alone sets file, frpc and a removed node right |
| `node_sessions` | registering and deleting beside the start-up list and failing calls: one driver, every row driven, exact status, nothing left over; stopped drivers return and every row gets its driver |
| `tunnels` | midnights, restarts, lost proxies and edited ports: no phantom traffic, nothing missed |
| `web_sessions` | changes and resets that overlap: a session that passes the check knows the password in force, outside the gap of `UpdatePassword`; the one who changes it stays in |
| `agent_limiter` | the limiter implements `Throttle`, and sweeps leave nothing that has lapsed |
| `hub` | no send on a closed channel, bounded queues, Broadcast never blocks, a browser is current unless its last message was lost, and then catches up |
| `agent_update` | the executable is one whole, verified release; the flag is freed |
| `claimed` | **refuted**: flush stores a watermark over a sample Account has not folded in yet, against the comment at `pipeline.go:217-218` |

### Where the code departs from what is said of it

Beside `claimed`, each of these claims of a comment is a definition of its module that TLC
refutes in seconds with the configuration named (`tlc -config <cfg> <module>`):

| Configuration (module) | Claim refuted | What the code does |
|---|---|---|
| `MCOneFrpc.cfg` (`MCFrpcManager`) | `OneFrpcPerNode`: "supervises one frpc child process per node", `frpcmgr.go:23` | two EnsureNode calls find no supervisor (line 127) and start two, of which one can never be stopped |
| `MCConverges.cfg` (`MCFrpcManager`) | `SyncConverges`: "guarantees convergence of add/remove", `nodemgr.go:262-263` | of two syncs the one that read first writes last; the file stays old until the next change |
| `MCRemoved.cfg` (`MCFrpcManager`) | `RemoveStopsFrpc`: "Remove tears a node down completely", `nodemgr.go:126` | a sync that found the row before the removal starts frpc after it |
| `MCNodesKept.cfg` (`MCNodeSessions`) | `NothingKept`: the same comment | a session that outlives the removal, or a start whose InitNode (line 85) comes after it, makes the pipeline state again |
| `MCCosmetic.cfg` (`MCControlLink`) | `EditIsCosmetic`: "used for cosmetic node edits", `nodemgr.go:297-298` | UpdateMeta puts back a copy of the node taken before a rotation stored its token |
| `MCOldSessions.cfg` (`MCWebSessions`) | `OldSessionsEnd`: "every other (old) JWT is instantly invalidated", `handlers_auth.go:107-108` | the first of two changes selects the version the second has set (`store.go:57-67`) and is given a valid session for a password that was replaced |
| `MCPortEdit.cfg` (`MCTunnelCounters`) | `DeltasAreIncrements`: "byte increments since the previous sample", `protocol.go:156-157` | after a port edit the whole day is reported again |
| `MCOfflineDeltas.cfg` (`MCTunnelCounters`) | `OfflineDeltasReal`: "Its traffic deltas are still real", `pipeline.go:99-100` | a proxy that loses its port is read under `tcp:0`, and its whole day is reported again; with two of them at every sample |
| `MCPanelUpdate.cfg` (`MCSelfUpdate`) | `TargetWhole` with `Guarded` FALSE: "the path never holds a half-written file", `selfupdate.go:79-80` | handleSelfUpdate has no flag (`handlers_misc.go:256-281`): two calls share `<target>.new`, and one renames what the other has truncated |
| `MCPongs.cfg` (`MCHub`) | `PongsHonored`: "it exists to detect close and to honor pongs", `hub.go:73-74` | a browser that answered every ping is cut off after 70 seconds |

Two more show in the exceptions of properties. A sample broadcast after the last replay
round and before the gate opens is never sent (`server.go:238`; "the next round picks it up",
`server.go:233-235`): it is one of the losses `NoSilentLoss` names, as are a batch dropped
while the database is down, over which the next flush stores its watermark
(`pipeline.go:269`), and a number given out twice after a failed or torn append
(`wal.go:40-41`). And a stopped session may announce its node offline after the next one
announced it online (`blurred`), or a reload fail for good while frpc boots (`missed`).

`OncePerPanelProcess` is what is left of exactly-once accounting when the panel dies
between a row and its watermark: once more per panel process.

**Fairness.** `ReplayEnds` assumes only that the replay goroutine runs; its timer makes
that enough. `LogReachesTotals` is conditional on `PanelReads`: the sampler finishes its
broadcast, the panel's reader and Account return, and flush runs on its ticker. Nothing is
assumed of samples being taken, connections being made, or the database being up; the
property is conditional on a link that lasts. In `node_sessions` the retry ticker, the
handlers' calls and the drivers go on and a connection that nobody pings ends; no node
has to be reachable. In `hub` goroutines go on, a read ends at its deadline and an open
browser connects again; joining and leaving wait for the mutex that every Broadcast takes, and
are strongly fair because Go's mutex hands itself to whoever has waited for more than a
millisecond. `BrowsersCatchUp` is conditional on a status that stays and on connections that
write what is queued, never on an end of broadcasts. In `agent_update` a call that runs goes on.

## 4. Proofs

`AccountingProofs` proves for all bounds (`AgentAssumption`, `PanelAssumption`)
`TypeOK`, `NoSilentLoss`, `DeliveredInOrder`, `OncePerPanelProcess`,
`CrashLosesAtMostOne`, `WatermarksOrdered` and `WatermarksRise`.

None of these is inductive. `IInv` adds: samples are numbered in order and whatever
the agent can still send is ascending and at or below its counter
(`VisibleAscending`); the replay's cursor is ahead of the queue and a replaced file is
the older end of the log (`ReplaySound`); a watermark was handed out before it is
kept (`WatermarksKnown`, which is why a restarted agent's smaller counter does no
harm beyond renumbering); a sample is in one place of the panel's memory, behind the
tracker (`MemoryDisjoint`); what is still to be accepted was counted by earlier
processes only (`CountedBefore`); while flush writes, at most one sample outside its
batch is behind the captured watermark (`ClaimsAtMostOne`); and what the panel has
not seen is in the queue, up to the cursor during a replay and altogether once the
gate is open (`ReplayCovers`). `ReplayCovers` is the core of the argument: with it,
accepting the head of the queue cannot pass over anything.

`FrpcManagerProofs` proves `RecordIsLive`, `OneSupervisor`, `FileIsCurrent`, `ReloadApplied` and
`RemovedIsGone` for any number of callers that overlap in any way, any number of changes and
any number of supervisors (`FrpcAssumption`). `RecordInv` (who is stopping which supervisor)
holds whatever overlaps. The rest of `FrpcInv` speaks of an operation that has been alone
since it began (`Alone`): what it found on record and what it read still hold when it acts on
them (`RecordKept`, `ReadKept`), and a removal leaves nothing (`RemovalCleans`). That nothing is
needed of the state it starts from is what makes the three properties say that it repairs
what overlapping operations left.

`MappingsProofs` proves `NoLostUpdate`, `EnabledWasListening` and `TargetsHaveMapping` for
any number of browsers, nodes, ports, mappings and versions (`MappingsAssumption`). `IInv`
adds that identifiers are given out in order (`IdsInOrder`), that no browser was shown a
version ahead of the row's (`VersionsRise`), and with these that a version stands for
one state (`VersionIsState`), even for a list read in two statements: a row read at a
version that still matches had no edit in between. `RequestsChecked` carries what a
request checked to its transaction.

`ControlLinkProofs` proves `OwnReply`, `TokensAgree` and `FileHasToken` for any number of
callers, sessions and tokens (`LinkAssumption`). For `OwnReply`, `LinkInv` adds that a
positive reply on its way, or in the channel of a caller that waits, is for a restart that
succeeded (`RepliesTrue`, `ChannelsTrue`). For `TokensAgree`, `Uncrossed` says what holds
while rotations have not crossed: one at most is under way, and what the agent has in hand
is its request (`OneRotation`); once it is answered, or the answer is on its way, the agent
is idle and has its token (`Answered`; a fresh token matches no old reply, `TokensUsed`);
and outside that the panel has the agent's token, or brings it with the hello_ack
(`Agreement`); an UpdateMeta that changes the token on a link that is up has crossed. Which session a request came from plays no part. For `FileHasToken`,
`Handshake` says that a handshake that met nobody at work stays alone until the link is up,
and `Unraced` that from then on a rotation has the file for itself, a sync holds the token
of the database and the session's reconcile the panel's.

`NodeSessionsProofs` proves `OneDriver`, `RowIsDriven`, `StatusExact` and `TornDown` for any
number of requests, rows, drivers and failing calls (`NodeSessionsAssumption`). `NodeInv`
adds that the maps hold drivers of their node that have neither returned nor been stopped
(`MapsLive`), that only ids which were handed out are at work (`Known`), and that pipeline
state no driver outside the maps made again belongs to a driver in the maps or to a request
that goes on to start one or to clear it (`PipeOwned`; with it, the list and the row need no
exception in `TornDown`). `StatusFollows` is the core of `StatusExact`: while no stopped driver
can still speak for the node, its status is a function of where the driver in the maps is; a
stopped driver that falls silent leaves the node marked, and a new row starts from a
status nobody has written (`Unspoken`).

`LoginProofs` proves for every window, ban and number of failures and any number of
addresses (`LimiterAssumption`) that `Limiter` implements `Throttle` (`LimiterIsThrottle`) and
that sweeps leave the maps clean (`MapsSwept`). Each action maps to one of the throttle's or to
a stutter. The one fact about the state that this needs is `OpenNotLapsed`: a ban of an
address with an undecided request began after the request was let in, so by `Handling <
Ban` it has not ended, and Fail adds to a history that still counts. `PruneKeeps` says that
a sweep changes nothing that `Counted` and `Until` show.

It also proves `ValidKnowsPassword` and `ChangerStaysIn` of `WebSessions` for any number of
browsers and versions, with changes and resets that overlap. `SessionsInv` says that every copy
of the row, in a cookie or in the hands of a login, that has the row's version has its password
unless changes crossed (`CookiesFollow`, `HandlersFollow`), and `ChangeHolds` what a change that has written the
row finds when it selects the version.

`HubProofs` proves `TypeOK` (queues within their buffer), `NeverSendsOnClosed` and
`BrowserCurrent` for any number of browsers and any buffer, where the run has one browser.
`Shape` says that a Broadcast works through clients that stay registered while it holds the
mutex, and that a channel is closed after its client has left. `Current` says that the last
message on its way that carries a status, or what the browser shows if there is none
(`Says`), is the node's status, unless a push is still to come or one was lost.

`AgentProofs` proves `TargetWhole` and `InstalledIsVerified` under `Guarded` (the agent's flag;
the panel's own update has none, and TLC refutes both for it) for any number of calls,
releases and pieces: the flag leaves one call at work (`OneCall`), the file it stages is not
the executable (`Apart`) and has what was verified in every piece written (`CallsSound`). Of
`TunnelCounters` it proves `NoPhantomTraffic` and `NothingMissed` for any set of proxies: `Owed`
says that what was counted and what is still to be read of a tunnel that kept its listing
never exceed what it carried, and are all of it unless a reset hid some; that no other
registered tunnel reads under its port (`PortsApart`) is what keeps an edit of one from touching
another. Which proxy of a
shared key was read last is a largest index, which exists by the least-number principle
(`Least`, from well-foundedness).

Every invariant and action property of the passing runs is stated by a theorem. Only
model-checked are the liveness properties (`ReplayEnds`, `LogReachesTotals`, `StoppedReturns`,
`EveryRowDriven`, `BroadcastEnds`, `BrowsersCatchUp`, `FlagFreed`), which are out of the prover's
reach.

## 5. Plan

The components with a protocol of their own are modelled and their safety properties
proved. What is left: abstract specifications of the accounting path and of the node
manager, which their modules would be shown to implement, and the case of two connected
sessions of one node in the accounting model.

## 6. Not modelled

* **Node firewall and rate limit** (`firewall.go`, `nftlimit.go`): each call lists the rules,
  computes a set difference and runs the commands; no state is kept between calls.
* **Host metrics** (`procmetrics`), **frp configuration text** (`frpcfg`), **ports,
  certificates, receipts, notification**: parsing, formatting and single system calls.
* **Latency probes, minute aggregates, rings, rollups, backups, settings, logs**: written
  by one goroutine or statement each and read for display only.
* **HTTP routing, configuration, start-up, schema, web pages and install scripts**: no
  protocol beyond what the handlers above have.
* **Power loss** (nothing is synced to disk), an unreadable log at start, which restarts
  the agent's numbering (`wal.go:50`), and a rotation of the log that fails half-way
  (`wal.go:160`).
* **Which token frps runs with** after a rotation that failed between the agent's memory,
  its file and systemctl (`frps.go:69`); `TokensAgree` compares the panel with the agent.

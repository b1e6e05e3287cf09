# Verification of draind

TLA+ models of draind, a laptop power daemon: `draind` (root) owns the
backlight, the CPU settings and suspend; one `draind-agent` per session reports
idleness and media playback over a unix socket; `draind-ctl` sends commands over
the same socket.  The models are translated from the C++ sources under
`src/src/`; `PROJECT.json` maps every definition to the lines it stands for.

## The system

| Part | State | Operations | Interacts with |
|---|---|---|---|
| Daemon (`daemon.cpp`) | `agents` (descriptor -> session, inhibits), `m_dimmed` | `setup`, `loop`, `on_line` and one handler per message, `on_disconnect`, `do_suspend` | calls all parts below; callbacks from Server, ConfigManager, HwEventMonitor |
| Server (`server.cpp`) | `m_conns`, per-connection line buffer and `is_agent` | accept, read, close, broadcast and wait for acks | epoll loop; callbacks `on_line`, `on_disconnect` |
| PowerManager | the backlight (raw), cached user brightness (percent), CPU governor and EPP | `apply`, `dim`, `undim` | sysfs, also written by the desktop |
| ConfigManager, `load_config` | profiles, `m_active`, the file | `reload`, `set_active`, `persist_active` | the file is edited by the administrator; `on_change` applies the profile |
| SessionTracker | `m_active_session_id` | `init`, `poll` | logind signals, asynchronous |
| HwEventMonitor, `run_hw_action` | queued evdev events | `poll`, the configured action | logind via systemctl |
| Agent | connection, idle monitor, MPRIS monitor | connect, `on_daemon_line`, callbacks, lock and pre-sleep commands | the daemon; the two monitors |
| InputIdleMonitor | timeouts, flags, timerfd, time of last input | `init`, `set_timeouts`, `poll`, `on_timeout` | clock, evdev, callbacks of Agent |
| WaylandIdleMonitor | two compositor notifications | `init`, `set_timeouts`, idled, resumed | compositor |
| MprisMonitor | players, who plays, `m_inhibiting` | scan, query, two signal handlers | session bus, callbacks of Agent |
| protocol, `write_line`, `LineBuffer` | the unread rest of a line, what a socket holds | encode, write, `feed` | both ends of every connection |
| JSON (`json.hpp`) | none | `parse`, `dump`, `dump_pretty` | every message and the configuration file |
| draind-ctl | none that lasts | one request, `recv_line`, exit code | the daemon |
| battery, logging, mains | none that lasts | readers and formatters | |

Hard behaviours.  Daemon and agents are single-threaded event loops, so a handler
is atomic; what interleaves is everything around it: several clients whose lines
are read in batches, descriptors that are closed and reused, logind's signals,
the user's brightness keys, the administrator's editor, buttons, suspend and
resume, and restarts of the daemon, which keep sysfs and the file but lose all
memory.  On the agent's side a timer races with input, events of two compositor
objects are dispatched from one read, and the answers to blocking D-Bus calls
overtake signals that are still queued.  Between the processes, reports and CONFIG
lines cross while either side restarts, sockets fill up in the middle of a line and
a write of the configuration file ends anywhere.

What makes each part correct: an inhibit that has been read is honoured and dies
with its connection; the dimmed flag, the brightness cache and the display agree;
agents and CPU follow the active profile; the active session converges to logind's
and gets the lock before a suspend; a client starves another only by writing without
end; a user is neither
reported idle too early nor never; the monitor's inhibit follows the players; both
processes agree once the lines between them are handled and none was lost; a message arrives as it was
sent or not at all, and an exit code of `draind-ctl` tells what the daemon did.

## Modules

| Module | Models |
|---|---|
| `PowerManager` | backlight, cache, CPU settings, both truncating conversions |
| `ConfigManager` | file, loaded profiles, active profile; a file that cannot be loaded; an active profile that is not defined; writes that fail or leave a broken file |
| `SessionTracker` | logind's seat, signals in flight, the daemon's copy |
| `Server` | connections, unread lines, the current epoll batch and the current read |
| `HwEventMonitor` | device queues, the outstanding systemctl request, the sleeping machine |
| `Daemon` | composes the five above: one action per handler, start and stop of the process, and the environment |
| `DaemonProperties`, `MCDaemon` | invariants, action properties, fairness, refinement mapping; message sets, profiles and files of the TLC instances |
| `PowerPolicy` | abstract: who is registered, who inhibits, when the display is dimmed and the machine suspended |
| `IdleTiming` | the clock and timeouts both idle monitors share |
| `InputIdleMonitor`, `IdleProperties` | the evdev idle monitor with its timerfd |
| `WaylandIdleMonitor` | the compositor's notification objects, their events and the callbacks |
| `IdleMonitor` | abstract: what `IIdleMonitor` promises the agent |
| `IdleBackends` | the backend `setup_idle_monitor` ends up with, the refinement of `IdleMonitor` by either |
| `MprisMonitor`, `MprisProperties`, `MCMpris` | the media player monitor with the session bus |
| `Agent` | the agent process, its connection, CONFIG, LOCK and the callbacks |
| `System`, `SystemProperties`, `MCSystem` | agent and daemon end to end, over two queues of lines |
| `Values` | the values of `json.hpp` and their accessors |
| `Json` | `parse` with its leniencies, `escape`, `dump`, `dump_pretty` |
| `Wire`, `WireProperties`, `MCWire` | a connection byte by byte, `draind-ctl`, the text of the configuration file; the coding of values is a parameter, which `MCWire` sets to `Json` |
| `DaemonTypeProofs`, `DaemonSafetyProofs`, `DaemonInhibitProofs`, `DaemonPolicyProofs` | TLAPS proofs about `Daemon`, the last one its refinement of `PowerPolicy` |
| `IdleBackendsProofs` | TLAPS proofs about the input monitor, and that both idle monitors refine `IdleMonitor` |
| `MprisProofs`, `SystemProofs`, `WireProofs` | TLAPS proofs about `MprisMonitor`, `System` and `Wire` |

The parts fit together through the two abstract specifications:

    InputIdleMonitor, WaylandIdleMonitor --ImplementsMonitor--> IdleMonitor \
                                                                             System
    PowerManager .. HwEventMonitor -> Daemon --ImplementsPolicy-> PowerPolicy /

`System` is `Agent` with an `IdleMonitor` on one side and `PowerPolicy` on the
other: every step of the monitor and every decision of the daemon in it is an action
of the abstract specification.  The theorems `MonitorImplemented` and `PolicyCorrect`,
and on small instances the runs `idle`, `policy` and `brightness`, show that the
detailed components take no other steps.  The composition itself (that
lines in two queues stand for connections, reads and batches of `Server`) is a
modelling decision, not a checked refinement; `Wire` checks its premise, that a line
arrives as it was sent.

### Correspondence

*Daemon.*  `EpollWait` is the head of `loop`: `poll()` of the session tracker
(`DrainBus`) and the batch of ready sources.  `AcceptClient`, `HandleClient`,
`HandleDisconnect` and `OnHwEvent` serve one source of the batch; reading a client
moves its unread lines to `lines`, and the `On...` actions handle them one by one
before anything else of the daemon runs.  Each `On...` action is the whole handler:
`OnSetProfile` includes `persist_active`, `on_change`, `apply` and the broadcast;
`OnIdleSleep` includes the lock, the broadcast and systemctl.  A message is a record
of its type and its one argument; `malformed` is a line that does not parse.
`greeted`, `wants`, `told`, `lock`, `presleep` and `predim` record what clients have
written and been sent, `stale` the records a malformed line has left behind and `blind`
a first read of the session that failed, for the properties; no guard of the daemon
reads them.

*PowerPolicy.*  The mapping in `DaemonProperties` keeps the registered descriptors
with sessions and inhibits, the tracker's session, the timeouts of the active
profile, `m_dimmed`, the request to logind and the button presses that wait, and hides
connections, reads, batches, file and brightness.  A suspend is either `SuspendFor` a
client, which needs `MaySuspend`, or `ButtonAction`, which consumes a press.  `MayDim`, `MayUndim`, `MaySuspend` are stated once, without the
code's order of early returns.

*Server.*  `inbox[fd]` is the socket's buffer, `partial` the connections where a piece
of a line waits.  `feed()` calls `read()` until EAGAIN: `ReadMore` is a `read()` after
which a client of `Busy` may write again, `Read` the last one, with which `feed()`
returns.  At EOF it returns before it extracts lines, so `Hangup` drops what was written just before the close.
`LineCloses` is `close_client` called from `on_line`, which skips `on_disconnect`.
`is_agent` is a member that the code only reads; it stays empty.

*InputIdleMonitor.*  Times are relative: `elapsed` for `mono_ms() -
m_last_event_ms`, `timer` for the time left in the timerfd.  `EpollWait` takes the
ready sources, `OnTimeout` and `OnInput` serve them in either order; `Tick` and
`UserInput` may come between.  An input served first arms the timer again, and the
timer's event is then served with nothing to read (`Drained`).

*WaylandIdleMonitor.*  `notif` holds the timeouts of `m_notif_dim` and
`m_notif_sleep`; `idled` and `age` are the compositor's side.  `DisplayDispatch` is
`wl_display_dispatch` reading what has arrived, `OnNotification` one call of a
listener; input may come between.  Destroying an object drops its events, as
libwayland does.

*IdleMonitor.*  `reported` is what has been reported and not taken back: the flags of
the input monitor, and for Wayland the objects whose `idled` has been delivered and
whose `resumed` has not.  `unread` is input the monitor has not noticed: the readable
device, or a `resumed` on its way.

*MprisMonitor.*  `owner`, `life`, `status` and `signals` are the bus.  A query
answers with the present status or fails.  `missed` (players whose query failed) and
`handed` (running players whose name another one took) are history.  `StartScan`, `ScanName`, `SetCallbacks`
are `init` and the lines of `Agent::run` after it; `Process` is one message of
`poll()`.

*Agent, System.*  `proc` is where `run()` is.  `up` and `down` are the lines not yet
handled; both are dropped when the process at the far end ends.  `Send` and `Tell` are
`write_line` as both sides use it: on a full socket the line is lost or torn, and the
caller goes on; what is written behind a torn line is read as one line with it
(`Joined`).  `failed` is history: the directions in which that has happened.
`m_inhibiting` is the member of `MprisMonitor`; `AgentStarts` chooses it, because
`init()` may find a player before the callbacks are set, and `unsaid` remembers that
this was told to nobody.  `HandleMalformed` closes the connection and leaves the record,
`fd` is the descriptor the connection has, and `OtherClientLeaves` frees a descriptor
with such a record.  `AgentReads` is
`on_daemon_line`, `MonitorReports`, `MonitorNotices` and `MediaChanges` are the
callbacks that send a line, `Handle...` the handlers of the daemon.  After
`on_daemon_disconnect` has connected again, `loop()` returns and the process exits
(`AgentReconnects`, `AgentExits`).  `clean` is history: `on_dim` was called on the
active session, and nothing since has made either side forget it.

*Json, Wire.*  A text is a sequence of characters; a string inside a value is a TLA+
string.  `ParseValue` returns the value and the position, or failure where the code
throws; `true`, `false` and `null` are recognised by their first character and skipped
unread, unknown escapes stand for themselves, and text after the value is ignored, all
as in the code.  `WriteSome` is a `write` that takes what fits, `WriteFails` the EAGAIN
on which `write_line` gives up, `Read` one `read` of `feed`, `Extract` one turn of its
loop over line ends, and `OnLine` one turn of the loop of `handle_client`, with all
that `on_line` does; neither `Read` nor another `feed` comes in between.  A peer that
has closed its end makes `feed` return before it extracts (`HandleEof`).  `OnCtl` is
`on_ctl` up to its reply; for agents, what goes back is left to `System`.  `CtlExits` is
`main` after `recv_line`, with a line or with what had come in five seconds.
`Persist` is `persist_active`, whose write may end anywhere.

### Assumptions and abstractions

* In `Daemon`, writes to an open connection succeed and a write to one that is
  closed is lost; what a partial write does to the receiver appears there as a
  malformed line, in `System` as a line that is lost, torn or joined with the next one,
  and byte by byte in `Wire`.
* A write to a closed connection raises SIGPIPE.  systemd starts the daemon with
  SIGPIPE ignored (its default); the agent may be ended by it, which is one of the
  ways of `AgentKilled`.
* sysfs writes succeed and percentages are in 0..100; `max_brightness * 100` fits
  the code's int (`BacklightWidth`).
* At most 16 sources are ready at once, so a batch is all of them.  The wait for
  acks in `broadcast_and_wait_acks` is never entered, because nobody is flagged.
* systemctl may refuse at any time.  Nothing runs while the machine is asleep.
* In `System`, time passes only when all lines are handled (`Settled`): timeouts are
  seconds, handlers milliseconds.  One agent; `NoId` stands for any other session.
  ACKs, which the agent ignores, are left out, and so is PRE_SLEEP, which is never
  sent (`bad_pre_sleep`).
* In `Json`, a double keeps its text, numbers beyond `int64_t` are left out, and the
  members of an object are written in an arbitrary but fixed order.
* The compositor sends `idled` not before an object's timeout has passed since its
  creation and since the last input.  Its death is left out.
* A media player owns one MPRIS name at a time.  Clocks saturate above all timeouts.

## Runs

| Run | Instance | Checks |
|---|---|---|
| `policy` | 2 descriptors, hello, IDLE_DIM, IDLE_SLEEP, inhibit, uninhibit, suspends, no button | `InhibitHonoured`, `ImplementsPolicy` |
| `brightness` | 1 descriptor, backlight of 7 steps, user level, profile change, idle_sleep, lock, malformed lines | `TypeOK`, `DimCacheInv`, `RecordsHaveConnections`, `UndimRestores`, `SuspendLocks`, `ImplementsPolicy` |
| `config` | 2 descriptors, 2 files (one with a dangling active profile), failing writes | `ConfigInSync`, `CpuFollowsProfile` |
| `seat` | 2 agents of 2 sessions, 2 signals in flight, first read that may fail, sleep button | `TrackerConverges`, `SuspendLocks` |
| `live` | 2 clients writing lines and pieces of lines for ever, also while they are read, sleep button, suspends, restarts | `EventuallyRead` |
| `idle` | either backend, timeouts 0, 1, 3 in every pair, 2 reconfigurations, 4 events under way | `IdleTypeOK`, `NoLostTimer`, `TimerCoversThreshold`, `NoFalseIdle`, `ImplementsMonitor`, `SleepReported` |
| `mpris` | 2 names, 3 players, 3 signals in flight, handovers, failing queries, agent restarts | `MprisTypeOK`, `PlayingConverges`, `InhibitWithdrawn` |
| `system` | 1 agent on 2 descriptors, a profile or none, sockets of 2 lines each way that may be full, malformed lines, kills, restarts, session switches, suspends | `SystemTypeOK`, `MonitorFollowsProfile`, `InhibitInSync`, `GoneAgentForgotten`, `ActivityRestores` |
| `wire` | 3 messages of an agent and 5 commands, socket buffers of 1 to 50 bytes, reads of 25 bytes, names that need escapes | `DeliveredInOrder`, `NothingLost`, `ExitCodeTruthful`, `ConfigWhole` |
| `bad_pre_sleep` | | PRE_SLEEP reaches nobody |
| `bad_mpris` | | a player that plays at start is never reported |
| `bad_reconnect` | | the agent connects again and exits |

The last three are violated: they state what a document or comment of the
repository says and the code does not do (`findings` in `PROJECT.json`).

Bounds.  Two descriptors give two clients, and reuse of a descriptor while another
client is connected.  In `policy` no button is pressed, so that every suspend has to be
one that `SuspendFor` allows; `seat` and `live` have the button.  Two signals are needed for an old value to follow a new one.
Three names of profiles give a defined, another defined and an undefined one.  The
backlight's 7 steps make both conversions truncate.  In `idle`, timeouts 1 and 3
leave room for input between dim and sleep and for a sleep timeout below the dim
timeout; four events are two `idled` and two `resumed`, the most that one idle period
sends.  In `system`, two lines up allow a report behind an inhibit or a dim and its
end, two lines down a CONFIG that is out of date when it is read.  `Worlds` keeps two of its
surroundings: an agent with an idle monitor whose sockets keep up, and one without
whose sockets fill up in either direction, where only the media reports and CONFIG
lines are lost; two descriptors let a record that was left behind stand beside the new
one or under it.  `Busy` is empty but in `live`, because a `read()` more or less makes
no difference to what a line does.  In `wire`, the
buffer sizes cut every message of the instance at every place; two messages make the
second one follow the torn first.  Processes restart for ever and connections follow
each other for ever: the only bounds are queue lengths, the messages on one
connection of `wire` and the reconfigurations of the idle monitor.  Descriptors, and
in `seat` sessions, are symmetric; in `mpris` names and players are.  Runs that check
liveness use no symmetry.

Fairness.  `FairSpec` assumes weak fairness of the daemon's own loop (`Loop`) and
nothing of clients, users or logind.  `EventuallyRead` is conditional on the machine
not staying asleep, on the button pausing now and then (`[]<>(cur # Hw)`), and on
`feed()` returning now and then (`[]<>~feeding`): `HwEventMonitor::poll` and `feed()`
read their source until it is empty, and one that never pauses starves the loop.  The
run shows that nothing else does.  `FairBackendSpec` assumes that the agent's loop serves a readable
monitor, that the compositor sends `idled` when it is due, and that time passes.
`FairSystem` assumes weak fairness of the daemon's handlers and of the agent's loop,
and strong fairness of `MonitorNotices`: every turn of the agent's loop polls the
monitor, and only the bound on `up`, or a suspend, disables the step in the model.
Its liveness properties are conditional on the machine not staying asleep.

## Proofs

For every value of the constants, under the named assumptions of the modules
(`ServerAssumption`, `BacklightAssumption`, `BacklightWidth`, `HwAssumption`,
`IdleAssumption`, `MprisAssumption`, `SystemAssumption`, `ConfigAssumption`,
`SessionAssumption`, `DaemonAssumption`, and for `Wire` the five explained below):

| Theorem | Says | Inductive invariant and why |
|---|---|---|
| `TypeCorrect` | `[]TypeOK` | `TypeOK` itself, one part per component; needs that both conversions stay in range |
| `DimCacheCorrect` | `[]DimCacheInv` | with types, and that a stopped daemon is not dimmed |
| `UndimCorrect` | `UndimRestores` | adds that the cache is the percentage of the brightness before the period, and the bound on the two truncations |
| `TrackerCorrect` | `[]TrackerConverges` | adds that the last queued signal is logind's present session, and that there is none if the first read failed and logind has not switched since |
| `CpuCorrect` | `[]CpuFollowsProfile` | itself |
| `RecordsCorrect`, `LockCorrect` | `RecordsHaveConnections`, `SuspendLocks`, whatever clients write | adds that a hello on its way to `on_hello` was written by the client that is connected now |
| `ConfigCorrect` | `[]ConfigInSync` | adds the clients whose hello is still unread or among the lines of the current read |
| `InhibitCorrect` | `InhibitHonoured` | relates what a client has written to what its record will hold once the lines of the current read, and then the unread ones, are handled |
| `IdleTypeCorrect`, `TimerCorrect`, `NoTimerLost`, `IdleReportsTrue` | `IdleTypeOK`, `TimerCoversThreshold`, `NoLostTimer`, `NoFalseIdle` | adds how long an armed timer waits before and after dim, and that input that has been read is not younger than `elapsed` says |
| `PolicyCorrect` | `ImplementsPolicy` | types, and that a daemon that does not run has neither records nor a profile, so that a start is `Boot`; every suspend is mapped to `SuspendFor` with its guard or to the press it consumes |
| `MonitorImplemented` | `ImplementsMonitor` | `BackendInv`: for the input monitor the invariant above and that input `epoll_wait` has found is still there when it is served; for the Wayland monitor that `idled` and `resumed` of a notification alternate up to what the compositor sent last, and that an idle period that has not ended is as long as its timeout |
| `MprisTypeCorrect`, `WithdrawCorrect`, `ConvergenceCorrect` | `MprisTypeOK`, `InhibitWithdrawn`, `PlayingConverges` | `MprisInv`: the last signal under way about a name or a player, or what is known if there is none, tells the truth, and the signal of a player's new name is behind that of its old one; a player whose name is about to pass to another one is in `handed` or is said to get another name behind that (`HandedOver`), and so every player taken to play has a known name, or gets one, or is in `handed` (`NameKnown`) |
| `SystemTypeCorrect`, `MonitorCorrect`, `InhibitSyncCorrect` | `SystemTypeOK`, `MonitorFollowsProfile`, `InhibitInSync` | `SystemInv`: the last CONFIG under way, or the monitor if there is none, has the timeouts of the active profile; the last inhibit or uninhibit under way, or the daemon's record if there is none and no hello either, says what the agent has announced; both for connections without a failed write that way; and what can stand in the queues and that a torn line is a failed write (`LinkInv`) |
| `WireTypeCorrect`, `OrderKept`, `NoMessageLost`, `ExitCodeTrue`, `ConfigKept` | types of `Wire`, `DeliveredInOrder`, `NothingLost`, `ExitCodeTruthful`, `ConfigWhole` | `WireInv`: what the bytes under way are made of, explained below |

Where the code breaks an agreement, the property names the exception by a history
variable and the theorem holds without a hypothesis about clients, players or sockets:
`stale` for the records `close_client` leaves behind (first observation below), `handed`
and `missed` for players that `MprisMonitor` loses track of, `unsaid` for one it has not
announced (`bad_mpris`), `failed` for lines a full socket has cost.

The agreements of `MprisMonitor` and `System` are stated for empty queues, and the
Wayland monitor keeps no state at all: in each case the invariant says what the
events under way will have done once they are handled, so that neither the bounds of
the runs on queues nor the number of players, names and profiles matter.  Both
refinements are proved with the mappings the runs use (`Policy` in
`DaemonProperties`, `Monitor` in `IdleBackends`); the initial states map to initial
states, and each action has a step that names the abstract action it maps to, or
shows that it changes nothing there.

*Wire.*  None of its four properties says anything about bytes that are still under
way, so none is inductive.  `WireInv` has a part for each direction and one for the
file.

* `UpInv` takes `m_buf`, the pipe and what `write_line` has still to write as one
  stream.  Every line in it, and every line that waits for `handle_client`, is what
  failed writes have left of some messages and then the whole text of the next one;
  behind the last line end there is what failed writes have left of all the others.
  Three counting functions witness this: `at` for the messages decoded, `v` for the
  lines that wait, `w` for the line ends in the stream, each giving the place in
  `sent` of the last message up to there.  They increase, so order and "at most once"
  follow; and while no write has failed they count up by one, so that nothing is
  missing when the stream is empty.  `write` and `read` leave the stream as it is,
  `write_line` appends to it or cuts its end off, `feed` takes its first line.
* `DownInv`: nothing goes back before the request is decoded, and what `recv_line` has
  read or will read is then the beginning of one reply and its line end.
* `FileInv`: the file is the beginning of one print of the administrator's file,
  perhaps with another active profile.

The proofs hold for every capacity of the sockets, size of the reads, number and set
of messages, and for every coding (`Encode`, `EncodePretty`, `Decode`) of which the
following is true.  A coded message has no line end and decodes to itself
(`CodingAssumption`); the beginning of a reply does not decode (`CutAssumption`); the
beginning of a printed file decodes to the whole or not at all (`FileAssumption`); what
failed writes have left, followed by a message, does not decode or decodes to one of
the messages in it (`TornAssumption`; `Torn` is the set of what they may leave).
`WireAssumption` has the ranges of the bounds.  TLC evaluates all of these for
`json.hpp` on the messages, replies and files of the run `wire`.

Only model-checked: liveness (`EventuallyRead`, `SleepReported`,
`GoneAgentForgotten`, `ActivityRestores`), which is out of the prover's reach; and that
`Json` has the properties of a coding that `Wire` assumes, which TLC shows for the
instance only: for all values it is an induction over what a recursive parser and a
recursive printer compute, which the prover does not do.

## Observations

Seen while modelling, without a run of their own:

* A malformed line closes the connection without `on_disconnect`: the record and its
  inhibits stay until the descriptor is reused by an agent that says hello, and
  suppress idle actions (`daemon.cpp:180`; `docs/protocol.md:176` says that the
  inhibits of a disconnected agent are removed).
* A CONFIG during an idle period makes the monitor forget what it has reported, and
  the next input sends no ACTIVE (`input_idle_monitor.cpp:102`, against
  `input_idle_monitor.hpp:9`; `wayland_idle_monitor.cpp:137`): the display stays
  dimmed until the next idle period ends.  `ActivityRestores` excludes it.
* An INHIBIT, UNINHIBIT or CONFIG for which the socket is full is lost or torn and never
  repeated: the two sides disagree until the next change (`agent.cpp:255`,
  `server.cpp:61`).  `InhibitInSync` and `MonitorFollowsProfile` exclude such
  connections.
* `feed()` reads until EAGAIN: a client that writes as fast as it is read keeps the
  daemon from every other source (`socket.cpp:102`).
* A player that plays when the agent starts is in `m_playing` and has no inhibit: the
  callbacks are set after `init` (`agent.cpp:62`; run `bad_mpris`).
* The active session changes while the display is dimmed: ACTIVE of a session that
  is not active is ignored and the display stays dimmed (`daemon.cpp:272`).
* The last agent disconnects while the display is dimmed: nobody is left to send
  ACTIVE and the display stays dimmed (`daemon.cpp:221`; `docs/protocol.md:176`
  says that idle state is dropped).
* IDLE_SLEEP suppressed by an inhibitor is not repeated when the inhibitor goes: the
  machine stays awake until the next idle period (`daemon.cpp:261`).
* Button events queued before a suspend are handled after the resume and may suspend
  again (`hw_event_monitor.cpp:75`).
* LOCK is sent before a suspend, but nobody waits for it: the screen may be locked
  only after the resume (`daemon.cpp:443`).
* `set_profile` on a dimmed display applies full brightness and leaves `m_dimmed`
  set; IDLE_DIM then does nothing until the next ACTIVE (`daemon.cpp:247`).
* A sole agent of an inactive session gets the LOCK (`daemon.cpp:430`; `README.md:99`
  says that `lock_cmd` only runs for the active session).
* `dim()` brightens a display that is darker than `dim_brightness_percent`.
* A sleep timeout below the dim timeout is noticed at the dim timeout
  (`input_idle_monitor.cpp:94`, under the comment "Fire at the earliest").
* A playing player that loses its name to another one and quits stays in
  `m_playing`, and the inhibit stays (`mpris_monitor.cpp:119`, against
  `mpris_monitor.hpp:12`; `InhibitWithdrawn` shows that this and a failed query are the
  only ways); one that owns two
  names and gives up one is ignored from then on (`mpris_monitor.cpp:132`).
* A message torn exactly before its line end swallows the next one: both arrive as
  one line, the text after the first value is ignored and the connection stays open
  (`socket.cpp:88`, `json.hpp:310`).
* When the compositor dies, `wl_display_dispatch` fails at once on every turn and the
  agent's loop spins (`wayland_idle_monitor.cpp`, `poll`).

## Not modelled

* `battery.hpp`: best-effort readings without state, whose estimates need 64-bit
  arithmetic that TLC does not have.
* Argument parsing, lookup and reading of the agent's configuration, logging, what
  `draind-ctl` prints, creation of the listening socket: input and output before or
  beside the loops.
* The commands the agent forks (`lock_cmd`, `pre_sleep_cmd`), and the handling of
  PRE_SLEEP, which the daemon never sends.
* How the Wayland monitor finds its globals: only that `init` succeeds or the input
  monitor is taken.

## Plan

1. Done: `PowerManager`, `ConfigManager`, `SessionTracker`, `Server`,
   `HwEventMonitor`, their composition `Daemon`, its properties and proofs;
   `InputIdleMonitor` with proofs; `MprisMonitor`.
2. Done: `WaylandIdleMonitor` and the abstract `IdleMonitor`; `PowerPolicy`; both
   refinements by TLC; `Agent` and `System`; `Json` and `Wire`.
3. Done: proofs of both refinements, of the agreements of `System`, and of
   `MprisMonitor`.
4. Done: proofs of the four properties of `Wire`, for any coding with the properties
   it assumes.
5. Left: what `PowerPolicy` and `IdleMonitor` themselves guarantee, as theorems
   about the abstract specifications that the two refinements carry over to the
   code.

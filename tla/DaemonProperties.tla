-------------------------- MODULE DaemonProperties --------------------------
(***************************************************************************)
(* What the daemon promises: invariants, action properties and liveness of *)
(* Daemon, and the statements of the documentation that the code does not  *)
(* keep.                                                                   *)
(***************************************************************************)
EXTENDS Daemon

Sources == Fds \cup {Listen, Hw}

PowerTypeOK ==
  /\ backlight \in 0 .. MaxBrightness
  /\ m_user_brightness \in Percent \cup {-1}
  /\ cpu \in [CpuKnobs -> CpuSettings \cup {KeepSetting}]
  /\ predim \in 0 .. MaxBrightness

ConfigTypeOK ==
  /\ file \in FileContent \cup {Broken}
  /\ m_config \in ProfileTable
  /\ m_active \in Names \cup {NoName}

TrackerTypeOK ==
  /\ seat \in SessionIds
  /\ m_active_session_id \in SessionIds
  /\ bus \in Seq(SessionIds)
  /\ subscribed \in BOOLEAN /\ blind \in BOOLEAN

ServerTypeOK ==
  /\ conns \subseteq Fds /\ is_agent \subseteq Fds
  /\ inbox \in [Fds -> Seq(Messages)] /\ eof \in [Fds -> BOOLEAN]
  /\ partial \subseteq Fds /\ feeding \in BOOLEAN
  /\ batch \subseteq Sources
  /\ cur \in Fds \cup {NoFd, Hw}
  /\ lines \in Seq(Messages)

HwTypeOK ==
  /\ hwq \in [HwEvents -> Nat]
  /\ request \in Requests
  /\ asleep \in BOOLEAN

AgentTypeOK ==
  /\ up \in BOOLEAN /\ m_dimmed \in BOOLEAN
  /\ agents \subseteq Fds
  /\ session \in [Fds -> SessionIds]
  /\ inhibits \in [Fds -> SUBSET Reasons]

HistoryTypeOK ==
  /\ told \in [Fds -> [dim : Nat \cup {-1}, sleep : Nat \cup {-1}]]
  /\ lock \in Fds \cup {NoFd}
  /\ presleep \subseteq Fds
  /\ greeted \in [Fds -> BOOLEAN]
  /\ wants \in [Fds -> SUBSET Reasons]
  /\ stale \subseteq Fds

\* Type invariant: every component's state stays in its declared range, among
\* it the two conversions of PowerManager (the raw value never exceeds
\* max_brightness, the cached one is a percentage).
TypeOK ==
  /\ PowerTypeOK /\ ConfigTypeOK /\ TrackerTypeOK /\ ServerTypeOK
  /\ HwTypeOK /\ AgentTypeOK /\ HistoryTypeOK

\* The daemon has handled everything the client has written.
Drained(fd) == inbox[fd] = <<>> /\ cur # fd

\* PowerManager caches the user's brightness exactly while Daemon::m_dimmed
\* says the display is dimmed: two flags in two classes that no code
\* compares, changed by idle_dim and active under different guards.
DimCacheInv == m_dimmed <=> m_user_brightness >= 0

\* A client that has said hello, and whose messages have all been handled,
\* has last been sent the timeouts of the profile that is active now, however
\* hello, set_profile and reload_config were interleaved (send_config,
\* broadcast_config).
ConfigInSync ==
  \A fd \in conns : greeted[fd] /\ Drained(fd)
                      => told[fd] = Timeouts(ActiveProfile)

\* The CPU settings written last are those of the active profile, where it
\* asks for any: every path that changes the profile applies it (on_change,
\* setup).
CpuFollowsProfile ==
  up /\ ActiveProfile # NoProfile =>
    \A k \in CpuKnobs : ActiveProfile.cpu[k] \in {KeepSetting, cpu[k]}

\* Once every signal has been handled, the daemon's copy of the active
\* session is logind's.  It is empty instead if the first read of it failed
\* and no switch has happened since, and only then (SessionTracker::init
\* subscribes before it reads; poll drains the bus).
TrackerConverges ==
  subscribed /\ bus = <<>> =>
    m_active_session_id = IF blind THEN NoSession ELSE seat

\* A client that stands for an AgentState is connected and has said hello
\* itself: a descriptor that is handed out again starts unregistered and
\* without inhibits (on_disconnect runs before close_client).  The one
\* exception is what the code leaves behind when it closes a connection over
\* a malformed line (close_client in on_line): such a record stays until the
\* next client of the descriptor says hello or leaves.
Greeted(fd) == fd \in conns /\ greeted[fd]
RecordsHaveConnections == \A fd \in agents \ stale : Greeted(fd)

\* The step in which idle_sleep gets the machine to suspend.
IdleSuspend ==
  /\ cur \in Fds /\ lines # <<>> /\ Line.type = "idle_sleep"
  /\ request = "none" /\ request' = "sleep"

\* The step in which idle_dim dims the display.
IdleDim == ~m_dimmed /\ m_dimmed'

\* The machine does not dim or suspend for idleness while a connected agent
\* of any session stands for an inhibit it has written and the daemon has
\* read (has_any_inhibit against hello, inhibit, uninhibit and reuse of the
\* descriptor).
InhibitHonoured ==
  [][IdleSuspend \/ IdleDim =>
       \A fd \in conns : Drained(fd)' => wants[fd] = {}]_vars

\* Whenever a suspend is requested, for whatever cause, and an agent of the
\* active session is registered, the LOCK sent just before goes to a record
\* of that session, and the client behind it is connected and has said hello,
\* unless a malformed line has left the record behind
\* (send_lock_to_active_agent in do_suspend; close_client in on_line).
SuspendLocks ==
  [][request = "none" /\ request' = "sleep"
       /\ (\E fd \in agents : IsActive(session[fd]))
     => /\ lock' \in agents /\ IsActive(session[lock'])
        /\ lock' \in stale \/ Greeted(lock')]_vars

\* When activity ends a dimmed period the backlight returns to what it was
\* before the period began, less at most one percent step and one raw step
\* of truncation, and is never brighter: no second dim, no profile change in
\* between replaces the cached value (on_idle_dim, on_active, dim, undim).
UndimRestores ==
  [][m_dimmed /\ ~m_dimmed' /\ up' /\ BacklightPresent =>
       /\ backlight' <= predim
       /\ (predim - backlight') * 100 < MaxBrightness + 100]_vars

\* The refinement mapping from the daemon to its policy: the timeouts of the
\* active profile stand for the whole configuration.
Setting == IF ActiveProfile = NoProfile THEN NoConfig
                                        ELSE Timeouts(ActiveProfile)

Policy == INSTANCE PowerPolicy WITH
  Clients   <- Fds,
  Ids       <- SessionIds,
  NoId      <- NoSession,
  Whys      <- Reasons,
  Settings  <- {Timeouts(p) : p \in Profiles},
  NoSetting <- NoConfig,
  Buttons   <- HwEvents,
  members   <- agents,
  active    <- m_active_session_id,
  setting   <- Setting,
  dimmed    <- m_dimmed,
  pressed   <- hwq

\* The daemon decides as PowerPolicy says: whatever clients write, however
\* their lines are split over reads and batches and connections come and go,
\* every step of the event loop is one decision of the policy or none.  So
\* it dims and undims only for the active session, and asks for a suspend
\* only for a button that was pressed or for the active session, with no
\* inhibit of anybody and a profile with a sleep timeout (on_idle_dim,
\* on_idle_sleep, on_active, the on_event callback).
ImplementsPolicy == Policy!PolicySpec

\* The event loop keeps running; nothing else is assumed to happen.
FairSpec == Spec /\ WF_vars(Loop)

\* Whatever a client writes is eventually read, or the connection or the
\* process is gone, as long as the machine does not stay suspended: a batch
\* serves every ready client, however many the others write (Daemon::loop).
\* The two premises are the two places where the code reads one source until
\* it is empty, and so for ever if the source never is: the devices
\* (HwEventMonitor::poll), and a client that writes faster than feed() reads.
EventuallyRead ==
  ([]<>~asleep /\ []<>(cur # Hw) /\ []<>~feeding) =>
    \A fd \in Fds : inbox[fd] # <<>> ~> inbox[fd] = <<>>

-----------------------------------------------------------------------------
(* Statements of the documentation that the code does not keep *)

\* docs/protocol.md: PRE_SLEEP is "Broadcast to all connected agents" before
\* a suspend.  Connection::is_agent is read and never set.
PreSleepReachesAgents ==
  [][request = "none" /\ request' = "sleep"
       => agents \cap conns \subseteq presleep']_vars
=============================================================================

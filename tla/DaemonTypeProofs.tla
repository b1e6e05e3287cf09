-------------------------- MODULE DaemonTypeProofs --------------------------
(***************************************************************************)
(* Type correctness of Daemon, and the facts about its operators and the   *)
(* frames of its actions that the other proofs rest on, for every value of *)
(* the constants that satisfies the named assumptions of the modules.      *)
(***************************************************************************)
EXTENDS DaemonProperties, TLAPS

-----------------------------------------------------------------------------
(* The conversions of PowerManager *)

\* A percentage converts to a raw value the backlight accepts, since
\* max_val * pct / 100 truncates.
LEMMA RawOfRange ==
  ASSUME NEW pct \in Percent
  PROVE  RawOf(pct) \in 0 .. MaxBrightness
<1>1. MaxBrightness \in Int /\ MaxBrightness >= 1
  BY BacklightAssumption
<1>2. MaxBrightness * pct >= 0 /\ MaxBrightness * pct <= MaxBrightness * 100
  BY <1>1 DEF Percent
<1> QED  BY <1>1, <1>2 DEF RawOf, Percent

\* A raw value reads back as a percentage.
LEMMA PercentOfRange ==
  ASSUME NEW raw \in 0 .. MaxBrightness
  PROVE  PercentOf(raw) \in Percent
<1>1. MaxBrightness \in Int /\ MaxBrightness >= 1
  BY BacklightAssumption
<1>2. raw * 100 >= 0 /\ raw * 100 <= MaxBrightness * 100
  BY <1>1
<1> QED  BY <1>1, <1>2 DEF PercentOf, Percent

\* Converting to percent and back loses less than one percent of the range
\* and one raw step, and never gains.
LEMMA RoundTrip ==
  ASSUME NEW raw \in 0 .. MaxBrightness
  PROVE  /\ RawOf(PercentOf(raw)) <= raw
         /\ (raw - RawOf(PercentOf(raw))) * 100 < MaxBrightness + 100
<1>1. MaxBrightness \in Int /\ MaxBrightness >= 1
  BY BacklightAssumption
<1> DEFINE q == (raw * 100) \div MaxBrightness
<1>2. q \in Int /\ MaxBrightness * q <= raw * 100
               /\ raw * 100 < MaxBrightness * q + MaxBrightness
  BY <1>1
<1> DEFINE s == (MaxBrightness * q) \div 100
<1>3. s \in Int /\ 100 * s <= MaxBrightness * q /\ MaxBrightness * q < 100 * s + 100
  BY <1>1, <1>2
<1> QED  BY <1>1, <1>2, <1>3 DEF RawOf, PercentOf
-----------------------------------------------------------------------------
(* Type correctness, component by component *)

\* The active profile is nullptr or one of the configured profiles.
LEMMA ActiveProfileType ==
  ASSUME NEW table \in ProfileTable, NEW name
  PROVE  Find(table, name) \in Profiles \cup {NoProfile}
BY DEF Find, Defines, ProfileTable

\* apply(), dim(), undim() and the user's keys keep PowerManager typed.
LEMMA PowerType ==
  ASSUME PowerTypeOK,
         \/ \E p \in Profiles : Apply(p) \/ Dim(p) \/ Undim(p)
         \/ \E raw \in UserLevels : UserSetsBacklight(raw)
         \/ PowerReset
         \/ UNCHANGED powerVars
  PROVE  PowerTypeOK'
<1>1. ASSUME NEW p \in Profiles, Apply(p)
      PROVE  PowerTypeOK'
  <2>1. /\ p.brightness_percent \in Percent
        /\ p.cpu \in [CpuKnobs -> CpuSettings \cup {KeepSetting}]
    BY DaemonAssumption
  <2>2. RawOf(p.brightness_percent) \in 0 .. MaxBrightness
    BY <2>1, RawOfRange
  <2>3. cpu' \in [CpuKnobs -> CpuSettings \cup {KeepSetting}]
    BY <1>1, <2>1 DEF Apply, SetCpu, PowerTypeOK
  <2> QED  BY <1>1, <2>2, <2>3 DEF Apply, SetBrightnessPercent, PowerTypeOK
<1>2. ASSUME NEW p \in Profiles, Dim(p)
      PROVE  PowerTypeOK'
  <2>1. p.brightness_percent \in Percent /\ p.dim_brightness_percent \in Percent
    BY DaemonAssumption
  <2>2. RawOf(p.dim_brightness_percent) \in 0 .. MaxBrightness
    BY <2>1, RawOfRange
  <2>3. PercentOf(backlight) \in Percent
    BY PercentOfRange DEF PowerTypeOK
  <2> QED  BY <1>2, <2>1, <2>2, <2>3
           DEF Dim, SetBrightnessPercent, GetBrightnessPercent, PowerTypeOK
<1>3. ASSUME NEW p \in Profiles, Undim(p)
      PROVE  PowerTypeOK'
  <2> DEFINE restore == IF m_user_brightness >= 0 THEN m_user_brightness
                                                  ELSE p.brightness_percent
  <2>1. restore \in Percent
    BY DaemonAssumption DEF PowerTypeOK, Percent
  <2>2. RawOf(restore) \in 0 .. MaxBrightness
    BY <2>1, RawOfRange
  <2> QED  BY <1>3, <2>2 DEF Undim, SetBrightnessPercent, PowerTypeOK
<1>4. ASSUME NEW raw \in UserLevels, UserSetsBacklight(raw)
      PROVE  PowerTypeOK'
  BY <1>4, DaemonAssumption DEF UserSetsBacklight, PowerTypeOK
<1>5. CASE PowerReset
  BY <1>5, BacklightAssumption DEF PowerReset, PowerTypeOK
<1>6. CASE UNCHANGED powerVars
  BY <1>6 DEF powerVars, PowerTypeOK
<1> QED  BY <1>1, <1>2, <1>3, <1>4, <1>5, <1>6

\* reload(), set_active() and edits of the file keep ConfigManager typed.
LEMMA ConfigType ==
  ASSUME ConfigTypeOK,
         \/ Load(file) /\ UNCHANGED file
         \/ \E name : SetActive(name)
         \/ \E f \in ConfigFiles : EditFile(f)
         \/ ConfigReset
         \/ UNCHANGED configVars
  PROVE  ConfigTypeOK'
<1>1. CASE Load(file) /\ UNCHANGED file
  BY <1>1 DEF Load, Loadable, ConfigTypeOK, FileContent
<1>2. ASSUME NEW name, SetActive(name)
      PROVE  ConfigTypeOK'
  <2>1. name \in Names
    BY <1>2 DEF SetActive, Defines
  <2>2. file' \in FileContent \cup {Broken}
    BY <1>2, <2>1 DEF SetActive, PersistActive, ConfigTypeOK, FileContent
  <2> QED  BY <1>2, <2>1, <2>2 DEF SetActive, ConfigTypeOK
<1>3. ASSUME NEW f \in ConfigFiles, EditFile(f)
      PROVE  ConfigTypeOK'
  BY <1>3, ConfigAssumption DEF EditFile, ConfigTypeOK
<1>4. CASE ConfigReset
  BY <1>4 DEF ConfigReset, ConfigTypeOK, ProfileTable
<1>5. CASE UNCHANGED configVars
  BY <1>5 DEF configVars, ConfigTypeOK
<1> QED  BY <1>1, <1>2, <1>3, <1>4, <1>5

\* poll(), init() and logind's switches keep SessionTracker typed.
LEMMA TrackerType ==
  ASSUME TrackerTypeOK,
         \/ DrainBus
         \/ TrackerStart
         \/ TrackerReset
         \/ \E id \in SessionIds : SwitchSession(id)
         \/ UNCHANGED trackerVars
  PROVE  TrackerTypeOK'
<1>1. CASE DrainBus
  BY <1>1 DEF DrainBus, TrackerTypeOK
<1>2. CASE TrackerStart
  <2>1. bus' \in {<<>>, <<seat>>}
    BY <1>2 DEF TrackerStart
  <2>2. <<>> \in Seq(SessionIds) /\ <<seat>> \in Seq(SessionIds)
    BY DEF TrackerTypeOK
  <2>3. bus' \in Seq(SessionIds)
    BY <2>1, <2>2
  <2>4. m_active_session_id' \in SessionIds /\ seat' \in SessionIds
    BY <1>2 DEF TrackerStart, TrackerTypeOK, SessionIds
  <2>5. subscribed' \in BOOLEAN /\ blind' \in BOOLEAN
    BY <1>2, Zenon DEF TrackerStart
  <2> QED  BY <2>3, <2>4, <2>5 DEF TrackerTypeOK
<1>3. CASE TrackerReset
  <2>1. bus' \in Seq(SessionIds)
    BY <1>3 DEF TrackerReset
  <2> QED  BY <1>3, <2>1, Zenon DEF TrackerReset, TrackerTypeOK, SessionIds
<1>4. ASSUME NEW id \in SessionIds, SwitchSession(id)
      PROVE  TrackerTypeOK'
  <2>1. blind' \in BOOLEAN
    BY <1>4, Zenon DEF SwitchSession
  <2> QED  BY <1>4, <2>1 DEF SwitchSession, TrackerTypeOK
<1>5. CASE UNCHANGED trackerVars
  BY <1>5 DEF trackerVars, TrackerTypeOK
<1> QED  BY <1>1, <1>2, <1>3, <1>4, <1>5

\* Every operation of Server and of its clients keeps Server typed.
LEMMA ServerType ==
  ASSUME ServerTypeOK,
         \/ \E ready \in SUBSET Sources : TakeBatch(ready)
         \/ \E fd \in Fds : \/ Accept(fd) \/ ReadMore(fd) \/ Read(fd) \/ Hangup(fd)
                            \/ ClientWritesPiece(fd) \/ ClientCloses(fd)
         \/ \E fd \in Fds, m \in Messages : ClientWrites(fd, m)
         \/ \E e \in HwEvents : HwStep(e)
         \/ AcceptFails
         \/ lines # <<>> /\ LineDone
         \/ lines # <<>> /\ cur \in Fds /\ LineCloses
         \/ ServerReset
         \/ UNCHANGED serverVars
  PROVE  ServerTypeOK'
<1>1. ASSUME NEW ready \in SUBSET Sources, TakeBatch(ready)
      PROVE  ServerTypeOK'
  BY <1>1 DEF TakeBatch, socketVars, ServerTypeOK
<1>2. ASSUME NEW fd \in Fds, Accept(fd)
      PROVE  ServerTypeOK'
  BY <1>2 DEF Accept, socketVars, ServerTypeOK
<1>3. ASSUME NEW fd \in Fds, ReadMore(fd) \/ Read(fd)
      PROVE  ServerTypeOK'
  <2>1. lines' \in Seq(Messages)
    <3>1. lines \in Seq(Messages) /\ inbox[fd] \in Seq(Messages)
      BY DEF ServerTypeOK
    <3>2. lines' = lines \o inbox[fd]
      BY <1>3 DEF ReadMore, Read
    <3> QED  BY <3>1, <3>2
  <2>2. feeding' \in BOOLEAN
    BY <1>3, Zenon DEF ReadMore, Read
  <2>3. inbox' \in [Fds -> Seq(Messages)]
    <3>1. inbox' = [inbox EXCEPT ![fd] = <<>>]
      BY <1>3 DEF ReadMore, Read
    <3> QED  BY <3>1 DEF ServerTypeOK
  <2>4. /\ UNCHANGED <<conns, is_agent, eof>>
        /\ batch' = batch \ {fd} /\ partial' = partial \ {fd}
        /\ cur' \in {fd, NoFd}
    BY <1>3, Zenon DEF ReadMore, Read
  <2> QED  BY <2>1, <2>2, <2>3, <2>4 DEF ServerTypeOK
<1>4. ASSUME NEW fd \in Fds, Hangup(fd)
      PROVE  ServerTypeOK'
  <2>1. feeding' \in BOOLEAN /\ eof' \in [Fds -> BOOLEAN]
    BY <1>4 DEF Hangup, ServerTypeOK
  <2> QED  BY <1>4, <2>1 DEF Hangup, ServerTypeOK
<1>5. ASSUME NEW fd \in Fds, ClientCloses(fd) \/ ClientWritesPiece(fd)
      PROVE  ServerTypeOK'
  BY <1>5 DEF ClientCloses, ClientWritesPiece, ServerTypeOK
<1>6. ASSUME NEW fd \in Fds, NEW m \in Messages, ClientWrites(fd, m)
      PROVE  ServerTypeOK'
  BY <1>6 DEF ClientWrites, ServerTypeOK
<1>7. ASSUME NEW e \in HwEvents, HwStep(e)
      PROVE  ServerTypeOK'
  BY <1>7 DEF HwStep, socketVars, ServerTypeOK
<1>8. CASE AcceptFails
  BY <1>8 DEF AcceptFails, socketVars, ServerTypeOK
<1>9. CASE lines # <<>> /\ LineDone
  BY <1>9 DEF LineDone, NextLine, socketVars, ServerTypeOK
<1>10. CASE lines # <<>> /\ cur \in Fds /\ LineCloses
  BY <1>10 DEF LineCloses, NextLine, ServerTypeOK
<1>11. CASE ServerReset
  <2>1. feeding' \in BOOLEAN
    BY <1>11, Zenon DEF ServerReset
  <2> QED  BY <1>11, <2>1 DEF ServerReset, ServerTypeOK
<1>12. CASE UNCHANGED serverVars
  BY <1>12 DEF serverVars, socketVars, ServerTypeOK
<1> QED  BY <1>1, <1>2, <1>3, <1>4, <1>5, <1>6, <1>7, <1>8, <1>9, <1>10,
            <1>11, <1>12

\* Queued events, requests to logind and the machine's sleep stay typed.
LEMMA HwType ==
  ASSUME HwTypeOK,
         \/ /\ \E e \in HwEvents : TakeEvent(e)
            /\ UNCHANGED <<request, asleep>> \/ \E a : RunHwAction(a)
         \/ UNCHANGED hwq /\ \E a : RunHwAction(a)
         \/ \E e \in HwEvents : Press(e)
         \/ FallAsleep \/ WakeUp \/ HwReset
         \/ UNCHANGED hwVars
  PROVE  HwTypeOK'
<1>1. ASSUME NEW a, RunHwAction(a)
      PROVE  request' \in Requests /\ asleep' \in BOOLEAN
  BY <1>1 DEF RunHwAction, HwTypeOK, Requests
<1>2. ASSUME NEW e \in HwEvents, TakeEvent(e)
      PROVE  hwq' \in [HwEvents -> Nat]
  BY <1>2 DEF TakeEvent, HwTypeOK
<1>3. ASSUME NEW e \in HwEvents, Press(e)
      PROVE  HwTypeOK'
  BY <1>3 DEF Press, HwTypeOK
<1>4. CASE FallAsleep \/ WakeUp \/ HwReset
  <2>1. hwq' \in [HwEvents -> Nat]
    BY <1>4 DEF FallAsleep, WakeUp, HwReset, HwTypeOK
  <2>2. request' \in Requests
    BY <1>4 DEF FallAsleep, WakeUp, HwReset, HwTypeOK, Requests
  <2>3. asleep' \in BOOLEAN
    BY <1>4 DEF FallAsleep, WakeUp, HwReset, HwTypeOK
  <2> QED  BY <2>1, <2>2, <2>3 DEF HwTypeOK
<1>5. CASE UNCHANGED hwVars
  BY <1>5 DEF hwVars, HwTypeOK
<1>6. CASE UNCHANGED hwq /\ \E a : RunHwAction(a)
  BY <1>1, <1>6 DEF HwTypeOK
<1>7. CASE /\ \E e \in HwEvents : TakeEvent(e)
           /\ UNCHANGED <<request, asleep>> \/ \E a : RunHwAction(a)
  BY <1>1, <1>2, <1>7 DEF HwTypeOK
<1> QED  BY <1>3, <1>4, <1>5, <1>6, <1>7

\* A line of the current read is one of the messages clients write, and
\* carries the argument its type asks for.
LEMMA LineType ==
  ASSUME ServerTypeOK, lines # <<>>
  PROVE  /\ Line \in Messages
         /\ Line.type = "hello" => Line.arg \in SessionIds
         /\ Line.type \in {"inhibit", "uninhibit"} => Line.arg \in Reasons
<1>1. Line \in Messages
  BY DEF Line, ServerTypeOK
<1> QED  BY <1>1, DaemonAssumption

\* CONFIG carries natural numbers.
LEMMA TimeoutsType ==
  ASSUME NEW p \in Profiles \cup {NoProfile}
  PROVE  /\ Timeouts(p) \in [dim : Nat \cup {-1}, sleep : Nat \cup {-1}]
         /\ Timeouts(p).dim \in Nat
<1>1. CASE p = NoProfile
  BY <1>1 DEF Timeouts
<1>2. CASE p # NoProfile
  BY <1>2, DaemonAssumption DEF Timeouts
<1> QED  BY <1>1, <1>2

-----------------------------------------------------------------------------
(* Frames: the actions that touch a component *)

\* Only setup, set_profile, reload_config and the administrator change it.
LEMMA ConfigFrame ==
  ASSUME [Next]_vars,
         ~(Start \/ Stop \/ OnSetProfile \/ OnReloadConfig
           \/ AdminEdits)
  PROVE  UNCHANGED configVars
BY
   DEF Next, Loop, Environment, OnLineAny, vars, EpollWait,
       AcceptClient, HandleClient, HandleDisconnect, OnDisconnect,
       OnHwEvent, OnMalformed, OnHello, OnIgnored, OnIdleDim,
       OnIdleSleep, OnActive, OnInhibit, OnUninhibit, OnLock, OnQuery,
       PeerWrites, PeerWritesPiece, PeerCloses, UserPresses, UserDims, SeatSwitches,
       Suspends, Resumes

\* PowerManager runs for setup, profile changes, idle_dim and active.
LEMMA PowerFrame ==
  ASSUME [Next]_vars,
         ~(Start \/ Stop \/ OnIdleDim \/ OnActive \/
           OnSetProfile \/ OnReloadConfig \/ UserDims)
  PROVE  UNCHANGED powerVars
BY
   DEF Next, Loop, Environment, OnLineAny, vars, EpollWait,
       AcceptClient, HandleClient, HandleDisconnect, OnDisconnect,
       OnHwEvent, OnMalformed, OnHello, OnIgnored, OnIdleSleep,
       OnInhibit, OnUninhibit, OnLock, OnQuery, PeerWrites,
       PeerWritesPiece, PeerCloses, UserPresses, SeatSwitches, AdminEdits, Suspends,
       Resumes

\* m_dimmed changes on idle_dim and active, and ends with the process.
LEMMA DimmedFrame ==
  ASSUME [Next]_vars,
         ~(Stop \/ OnIdleDim \/ OnActive)
  PROVE  UNCHANGED m_dimmed
BY
   DEF Start, Next, Loop, Environment, OnLineAny, vars, EpollWait,
       AcceptClient, HandleClient, HandleDisconnect, OnDisconnect,
       OnHwEvent, OnMalformed, OnHello, OnIgnored, OnIdleSleep,
       OnInhibit, OnUninhibit, OnSetProfile, OnReloadConfig, OnLock,
       OnQuery, PeerWrites, PeerWritesPiece, PeerCloses, UserPresses, UserDims,
       SeatSwitches, AdminEdits, Suspends, Resumes

\* The process starts and stops.
LEMMA UpFrame ==
  ASSUME [Next]_vars,
         ~(Start \/ Stop)
  PROVE  UNCHANGED up
BY
   DEF Next, Loop, Environment, OnLineAny, vars, EpollWait,
       AcceptClient, HandleClient, HandleDisconnect, OnDisconnect,
       OnHwEvent, OnMalformed, OnHello, OnIgnored, OnIdleDim,
       OnIdleSleep, OnActive, OnInhibit, OnUninhibit, OnSetProfile,
       OnReloadConfig, OnLock, OnQuery, PeerWrites, PeerWritesPiece, PeerCloses,
       UserPresses, UserDims, SeatSwitches, AdminEdits, Suspends,
       Resumes

\* The tracker runs at startup and at every turn of the loop.
LEMMA TrackerFrame ==
  ASSUME [Next]_vars,
         ~(Start \/ Stop \/ EpollWait \/ SeatSwitches)
  PROVE  UNCHANGED trackerVars
BY
   DEF Next, Loop, Environment, OnLineAny, vars, AcceptClient,
       HandleClient, HandleDisconnect, OnDisconnect, OnHwEvent,
       OnMalformed, OnHello, OnIgnored, OnIdleDim, OnIdleSleep,
       OnActive, OnInhibit, OnUninhibit, OnSetProfile, OnReloadConfig,
       OnLock, OnQuery, PeerWrites, PeerWritesPiece, PeerCloses, UserPresses, UserDims,
       AdminEdits, Suspends, Resumes

\* Requests to logind come from idle_sleep and from the buttons.
LEMMA HwFrame ==
  ASSUME [Next]_vars,
         ~(Stop \/ OnHwEvent \/ OnIdleSleep \/ UserPresses
           \/ Suspends \/ Resumes)
  PROVE  UNCHANGED hwVars
BY
   DEF Start, Next, Loop, Environment, OnLineAny, vars, EpollWait,
       AcceptClient, HandleClient, HandleDisconnect, OnDisconnect,
       OnMalformed, OnHello, OnIgnored, OnIdleDim, OnActive,
       OnInhibit, OnUninhibit, OnSetProfile, OnReloadConfig, OnLock,
       OnQuery, PeerWrites, PeerWritesPiece, PeerCloses, UserDims, SeatSwitches,
       AdminEdits

\* Records change on hello, inhibit, uninhibit and disconnect.
LEMMA AgentFrame ==
  ASSUME [Next]_vars,
         ~(Stop \/ OnHello \/ OnInhibit \/ OnUninhibit \/
           HandleDisconnect)
  PROVE  UNCHANGED agentVars
BY
   DEF Start, Next, Loop, Environment, OnLineAny, vars, EpollWait,
       AcceptClient, HandleClient, OnHwEvent, OnMalformed, OnIgnored,
       OnIdleDim, OnIdleSleep, OnActive, OnSetProfile, OnReloadConfig,
       OnLock, OnQuery, PeerWrites, PeerWritesPiece, PeerCloses, UserPresses, UserDims,
       SeatSwitches, AdminEdits, Suspends, Resumes

\* What clients have said changes as they write, and ends with them.
LEMMA PeerFrame ==
  ASSUME [Next]_vars,
         ~(Stop \/ PeerWrites \/ OnMalformed \/
           HandleDisconnect)
  PROVE  UNCHANGED <<greeted, wants>>
BY
   DEF peerVars, Start, Next, Loop, Environment, OnLineAny, vars, EpollWait,
       AcceptClient, HandleClient, OnHwEvent, OnHello, OnIgnored,
       OnIdleDim, OnIdleSleep, OnActive, OnInhibit, OnUninhibit,
       OnSetProfile, OnReloadConfig, OnLock, OnQuery, PeerWritesPiece, PeerCloses,
       UserPresses, UserDims, SeatSwitches, AdminEdits, Suspends,
       Resumes

\* A record is left behind by a malformed line, and replaced or erased later.
LEMMA StaleFrame ==
  ASSUME [Next]_vars,
         ~(Stop \/ OnMalformed \/ OnHello \/ HandleDisconnect)
  PROVE  UNCHANGED stale
BY
   DEF peerVars, Start, Next, Loop, Environment, OnLineAny, vars,
       EpollWait, AcceptClient, HandleClient, OnHwEvent, OnIgnored,
       OnIdleDim, OnIdleSleep, OnActive, OnInhibit, OnUninhibit,
       OnSetProfile, OnReloadConfig, OnLock, OnQuery, PeerWrites,
       PeerWritesPiece, PeerCloses, UserPresses, UserDims, SeatSwitches,
       AdminEdits, Suspends, Resumes

\* The daemon writes CONFIG, LOCK and PRE_SLEEP in these steps only, and a
\* turn of the loop begins without a LOCK and a PRE_SLEEP.
LEMMA SentFrame ==
  ASSUME [Next]_vars,
         ~(Stop \/ EpollWait \/ OnHello \/ OnMalformed \/
           HandleDisconnect \/ OnHwEvent \/ OnIdleSleep \/
           OnSetProfile \/ OnReloadConfig \/ OnLock)
  PROVE  UNCHANGED sentVars
BY
   DEF Start, Next, Loop, Environment, OnLineAny, vars,
       AcceptClient, HandleClient, OnIgnored, OnIdleDim, OnActive,
       OnInhibit, OnUninhibit, OnQuery, PeerWrites, PeerWritesPiece, PeerCloses,
       UserPresses, UserDims, SeatSwitches, AdminEdits, Suspends,
       Resumes

-----------------------------------------------------------------------------
(* Type correctness of a step *)

\* ConfigManager's part of the type invariant is kept by every step.
LEMMA ConfigStep ==
  ASSUME TypeOK, [Next]_vars
  PROVE  ConfigTypeOK'
<1>1. CASE Start
  BY <1>1, ConfigType DEF Start, TypeOK
<1>2. CASE Stop
  BY <1>2, ConfigType DEF Stop, TypeOK
<1>3. CASE OnSetProfile
  BY <1>3, ConfigType DEF OnSetProfile, TypeOK
<1>4. CASE OnReloadConfig
  BY <1>4, ConfigType DEF OnReloadConfig, TypeOK
<1>5. CASE AdminEdits
  BY <1>5, ConfigType DEF AdminEdits, TypeOK
<1> QED  BY <1>1, <1>2, <1>3, <1>4, <1>5, ConfigFrame, ConfigType DEF TypeOK

\* The active profile before and after a step.
LEMMA ActiveProfileStep ==
  ASSUME TypeOK, [Next]_vars
  PROVE  /\ ActiveProfile \in Profiles \cup {NoProfile}
         /\ ActiveProfile' \in Profiles \cup {NoProfile}
<1>1. m_config \in ProfileTable /\ m_config' \in ProfileTable
  BY ConfigStep DEF TypeOK, ConfigTypeOK
<1> QED  BY <1>1, ActiveProfileType DEF ActiveProfile

\* PowerManager's part of the type invariant is kept by every step.
LEMMA PowerStep ==
  ASSUME TypeOK, [Next]_vars
  PROVE  PowerTypeOK'
<1>1. /\ ActiveProfile # NoProfile => ActiveProfile \in Profiles
      /\ ActiveProfile' # NoProfile => ActiveProfile' \in Profiles
  BY ActiveProfileStep
<1>2. CASE Start
  BY <1>1, <1>2, PowerType DEF Start, TypeOK
<1>3. CASE Stop
  BY <1>3, PowerType DEF Stop, TypeOK
<1>4. CASE OnIdleDim
  BY <1>1, <1>4, PowerType DEF OnIdleDim, DimAllowed, TypeOK
<1>5. CASE OnActive
  BY <1>1, <1>5, PowerType DEF OnActive, TypeOK
<1>6. CASE OnSetProfile
  BY <1>1, <1>6, PowerType DEF OnSetProfile, OnChange, TypeOK
<1>7. CASE OnReloadConfig
  BY <1>1, <1>7, PowerType DEF OnReloadConfig, OnChange, TypeOK
<1>8. CASE UserDims
  BY <1>8, PowerType DEF UserDims, TypeOK
<1> QED  BY <1>2, <1>3, <1>4, <1>5, <1>6, <1>7, <1>8, PowerFrame, PowerType
         DEF TypeOK

\* SessionTracker's part of the type invariant is kept by every step.
LEMMA TrackerStep ==
  ASSUME TypeOK, [Next]_vars
  PROVE  TrackerTypeOK'
<1>1. CASE Start
  BY <1>1, TrackerType DEF Start, TypeOK
<1>2. CASE Stop
  BY <1>2, TrackerType DEF Stop, TypeOK
<1>3. CASE EpollWait
  BY <1>3, TrackerType DEF EpollWait, TypeOK
<1>4. CASE SeatSwitches
  BY <1>4, TrackerType DEF SeatSwitches, TypeOK
<1> QED  BY <1>1, <1>2, <1>3, <1>4, TrackerFrame, TrackerType DEF TypeOK

\* Server's part of the type invariant is kept by every step.
LEMMA ServerStep ==
  ASSUME TypeOK, [Next]_vars
  PROVE  ServerTypeOK'
<1>1. CASE EpollWait
  <2>1. PICK pending \in SUBSET {Listen} : TakeBatch(ReadySources(pending))
    BY <1>1 DEF EpollWait
  <2>2. ReadySources(pending) \in SUBSET Sources
    BY DEF ReadySources, ReadyClients, Sources, TypeOK, ServerTypeOK
  <2> QED  BY <2>1, <2>2, ServerType DEF TypeOK
<1>2. CASE AcceptClient \/ HandleClient \/ HandleDisconnect
  BY <1>2, ServerType
     DEF AcceptClient, HandleClient, HandleDisconnect, OnDisconnect, TypeOK
<1>3. CASE OnHwEvent
  BY <1>3, ServerType DEF OnHwEvent, TypeOK
<1>4. CASE OnMalformed
  BY <1>4, ServerType DEF OnMalformed, OnLine, TypeOK
<1>5. CASE OnLineAny /\ ~OnMalformed
  BY <1>5, ServerType
     DEF OnLineAny, OnLine, OnHello, OnIgnored, OnIdleDim, OnIdleSleep,
         OnActive, OnInhibit, OnUninhibit, OnSetProfile, OnReloadConfig,
         OnLock, OnQuery, TypeOK
<1>6. CASE PeerWrites \/ PeerWritesPiece \/ PeerCloses
  BY <1>6, ServerType DEF PeerWrites, PeerWritesPiece, PeerCloses, TypeOK
<1>7. CASE Stop
  BY <1>7, ServerType DEF Stop, TypeOK
<1>8. CASE UNCHANGED serverVars
  BY <1>8, ServerType DEF TypeOK
<1> QED  BY <1>1, <1>2, <1>3, <1>4, <1>5, <1>6, <1>7, <1>8
         DEF Next, Loop, Environment, Start, UserPresses, UserDims,
             SeatSwitches, AdminEdits, Suspends, Resumes, vars

\* HwEventMonitor's part of the type invariant is kept by every step.
LEMMA HwStepType ==
  ASSUME TypeOK, [Next]_vars
  PROVE  HwTypeOK'
<1>1. CASE Stop
  BY <1>1, HwType DEF Stop, TypeOK
<1>2. CASE OnHwEvent
  BY <1>2, HwType DEF OnHwEvent, HwStep, DoSuspend, TypeOK
<1>3. CASE OnIdleSleep
  BY <1>3, HwType DEF OnIdleSleep, DoSuspend, TypeOK
<1>4. CASE UserPresses \/ Suspends \/ Resumes
  BY <1>4, HwType DEF UserPresses, Suspends, Resumes, TypeOK
<1> QED  BY <1>1, <1>2, <1>3, <1>4, HwFrame, HwType DEF TypeOK

\* The agents' records keep their type in every step.
LEMMA AgentStep ==
  ASSUME TypeOK, [Next]_vars
  PROVE  AgentTypeOK'
<1> USE DEF AgentTypeOK
<1>1. up' \in BOOLEAN
  BY UpFrame DEF Start, Stop, TypeOK
<1>2. m_dimmed' \in BOOLEAN
  BY DimmedFrame DEF Stop, OnIdleDim, OnActive, TypeOK
<1>3. agents' \subseteq Fds /\ session' \in [Fds -> SessionIds]
        /\ inhibits' \in [Fds -> SUBSET Reasons]
  <2>1. CASE Stop
    BY <2>1 DEF Stop, SessionIds
  <2>2. CASE OnHello
    <3>1. cur \in Fds /\ Line.arg \in SessionIds
      BY <2>2, LineType DEF OnHello, OnLine, TypeOK
    <3> QED  BY <2>2, <3>1 DEF OnHello, TypeOK
  <2>3. CASE OnInhibit
    <3>1. cur \in Fds /\ Line.arg \in Reasons
      BY <2>3, LineType DEF OnInhibit, OnLine, TypeOK
    <3> QED  BY <2>3, <3>1 DEF OnInhibit, TypeOK
  <2>4. CASE OnUninhibit
    <3>1. cur \in Fds
      BY <2>4 DEF OnUninhibit, OnLine
    <3> QED  BY <2>4, <3>1 DEF OnUninhibit, TypeOK
  <2>5. CASE HandleDisconnect
    BY <2>5 DEF HandleDisconnect, OnDisconnect, Forget, TypeOK, SessionIds
  <2>6. CASE UNCHANGED agentVars
    BY <2>6 DEF agentVars, TypeOK
  <2> QED  BY <2>1, <2>2, <2>3, <2>4, <2>5, <2>6, AgentFrame
<1> QED  BY <1>1, <1>2, <1>3

\* A LOCK goes to a registered agent or nowhere.
LEMMA LockReceiversType ==
  ASSUME TypeOK
  PROVE  LockReceivers \subseteq Fds \cup {NoFd}
BY DEF LockReceivers, TypeOK, AgentTypeOK

\* The messages sent and the history variables keep their type.
LEMMA HistoryStep ==
  ASSUME TypeOK, [Next]_vars
  PROVE  HistoryTypeOK'
<1> DEFINE Config == [dim : Nat \cup {-1}, sleep : Nat \cup {-1}]
<1>1. Timeouts(ActiveProfile) \in Config /\ Timeouts(ActiveProfile') \in Config
  BY ActiveProfileStep, TimeoutsType
<1>2. NoConfig \in Config
  BY DEF NoConfig
<1>3. told' \in [Fds -> Config]
  <2>1. CASE Stop
    BY <1>2, <2>1 DEF Stop
  <2>2. CASE OnHello
    BY <1>1, <2>2 DEF OnHello, SendConfig, TypeOK, HistoryTypeOK
  <2>3. CASE OnMalformed
    BY <1>2, <2>3 DEF OnMalformed, EndHistory, TypeOK, HistoryTypeOK
  <2>4. CASE HandleDisconnect
    BY <1>2, <2>4 DEF HandleDisconnect, OnDisconnect, EndHistory, TypeOK, HistoryTypeOK
  <2>5. CASE EpollWait \/ OnHwEvent \/ OnIdleSleep \/ OnLock
    BY <2>5 DEF EpollWait, OnHwEvent, OnIdleSleep, OnLock, DoSuspend, sentVars, TypeOK,
                HistoryTypeOK
  <2>6. CASE OnSetProfile \/ OnReloadConfig
    BY <1>1, <2>6 DEF OnSetProfile, OnReloadConfig, OnChange, BroadcastConfig,
                      sentVars, TypeOK, HistoryTypeOK
  <2>7. CASE UNCHANGED sentVars
    BY <2>7 DEF sentVars, TypeOK, HistoryTypeOK
  <2> QED  BY <2>1, <2>2, <2>3, <2>4, <2>5, <2>6, <2>7, SentFrame
<1>4. lock' \in Fds \cup {NoFd} /\ presleep' \subseteq Fds
  <2>1. CASE OnHwEvent \/ OnIdleSleep \/ OnLock
    BY <2>1, LockReceiversType
       DEF OnHwEvent, OnIdleSleep, OnLock, DoSuspend, SendLock, sentVars,
           BroadcastReceivers, TypeOK, HistoryTypeOK, ServerTypeOK
  <2>2. CASE ~(OnHwEvent \/ OnIdleSleep \/ OnLock)
    BY <2>2, SentFrame
       DEF Stop, EpollWait, OnHello, OnMalformed, HandleDisconnect, OnDisconnect,
           OnSetProfile, OnReloadConfig, OnChange, EndHistory, sentVars,
           TypeOK, HistoryTypeOK
  <2> QED  BY <2>1, <2>2
<1>5. greeted' \in [Fds -> BOOLEAN]
  <2>1. CASE Stop
    BY <2>1 DEF Stop
  <2>2. CASE PeerWrites
    BY <2>2 DEF PeerWrites, TypeOK, HistoryTypeOK
  <2>3. CASE OnMalformed \/ HandleDisconnect
    BY <2>3 DEF OnMalformed, HandleDisconnect, OnDisconnect, EndHistory, TypeOK,
                HistoryTypeOK
  <2>4. CASE UNCHANGED <<greeted, wants>>
    BY <2>4 DEF TypeOK, HistoryTypeOK
  <2> QED  BY <2>1, <2>2, <2>3, <2>4, PeerFrame
<1>6. wants' \in [Fds -> SUBSET Reasons]
  <2>1. CASE Stop
    BY <2>1 DEF Stop
  <2>2. CASE PeerWrites
    <3>1. PICK fd \in Fds, m \in Messages :
            wants' = [wants EXCEPT ![fd] = WantsAfter(m, fd)]
      BY <2>2 DEF PeerWrites
    <3>2. WantsAfter(m, fd) \in SUBSET Reasons
      BY DaemonAssumption DEF WantsAfter, TypeOK, HistoryTypeOK
    <3> QED  BY <3>1, <3>2 DEF TypeOK, HistoryTypeOK
  <2>3. CASE OnMalformed \/ HandleDisconnect
    BY <2>3 DEF OnMalformed, HandleDisconnect, OnDisconnect, EndHistory, TypeOK,
                HistoryTypeOK
  <2>4. CASE UNCHANGED <<greeted, wants>>
    BY <2>4 DEF TypeOK, HistoryTypeOK
  <2> QED  BY <2>1, <2>2, <2>3, <2>4, PeerFrame
<1>7. stale' \subseteq Fds
  BY StaleFrame DEF Stop, OnMalformed, OnHello, OnLine, HandleDisconnect,
                    OnDisconnect, TypeOK, HistoryTypeOK
<1> QED  BY <1>3, <1>4, <1>5, <1>6, <1>7 DEF HistoryTypeOK

\* The initial state is well typed.
LEMMA TypeInit == Init => TypeOK
<1> SUFFICES ASSUME Init PROVE TypeOK
  OBVIOUS
<1>1. PowerTypeOK
  <2>2. cpu \in [CpuKnobs -> CpuSettings \cup {KeepSetting}]
    BY DEF Init, PowerInit
  <2>3. backlight \in 0 .. MaxBrightness /\ predim \in 0 .. MaxBrightness
    BY BacklightAssumption DEF Init, PowerInit
  <2>4. m_user_brightness \in Percent \cup {-1}
    BY DEF Init, PowerInit
  <2> QED  BY <2>2, <2>3, <2>4 DEF PowerTypeOK
<1>2. ConfigTypeOK
  BY ConfigAssumption DEF Init, ConfigInit, ConfigTypeOK, ProfileTable
<1>3. TrackerTypeOK
  <2>1. bus \in Seq(SessionIds)
    BY DEF Init, TrackerInit
  <2> QED  BY <2>1, Zenon DEF Init, TrackerInit, TrackerTypeOK, SessionIds
<1>4. ServerTypeOK
  <2>1. feeding \in BOOLEAN
    BY Zenon DEF Init, ServerInit
  <2> QED  BY <2>1 DEF Init, ServerInit, ServerTypeOK
<1>5. HwTypeOK
  <2>1. hwq \in [HwEvents -> Nat]
    BY DEF Init, HwInit
  <2>2. asleep \in BOOLEAN
    BY Zenon DEF Init, HwInit
  <2> QED  BY <2>1, <2>2 DEF Init, HwInit, HwTypeOK, Requests
<1>6. AgentTypeOK
  <2>1. up \in BOOLEAN /\ m_dimmed \in BOOLEAN
    BY Zenon DEF Init
  <2> QED  BY <2>1 DEF Init, AgentTypeOK, SessionIds
<1>7. HistoryTypeOK
  BY DEF Init, HistoryTypeOK, NoConfig
<1> QED  BY <1>1, <1>2, <1>3, <1>4, <1>5, <1>6, <1>7 DEF TypeOK

\* Every step keeps the type invariant.
LEMMA TypeStep == TypeOK /\ [Next]_vars => TypeOK'
BY ConfigStep, PowerStep, TrackerStep, ServerStep, HwStepType, AgentStep,
   HistoryStep DEF TypeOK

\* Every component of the daemon stays inside its declared state space.
THEOREM TypeCorrect == Spec => []TypeOK
BY TypeInit, TypeStep, PTL DEF Spec
=============================================================================

------------------------- MODULE DaemonSafetyProofs -------------------------
(***************************************************************************)
(* The safety properties of Daemon, each from an inductive invariant.      *)
(***************************************************************************)
EXTENDS DaemonTypeProofs

-----------------------------------------------------------------------------
(* Dimming: the cache of PowerManager and the flag of Daemon *)

\* While dimmed, the cache is the brightness before the dimmed period, as a
\* percentage: what undim() will restore.
CacheInv ==
  /\ DimCacheInv
  /\ m_dimmed /\ BacklightPresent => m_user_brightness = PercentOf(predim)

\* A daemon that has not started has nothing cached.
LEMMA CacheInit == Init => CacheInv
BY DEF Init, PowerInit, CacheInv, DimCacheInv

\* Every step keeps m_dimmed and the brightness cache in agreement.
LEMMA CacheStep ==
  ASSUME TypeOK, CacheInv, [Next]_vars
  PROVE  CacheInv'
<1> USE DEF CacheInv, DimCacheInv
<1>1. CASE Start
  BY <1>1 DEF Start, Apply, powerVars
<1>2. CASE Stop
  BY <1>2 DEF Stop, PowerReset
<1>3. CASE OnIdleDim
  <2>1. CASE DimAllowed
    <3>1. Dim(ActiveProfile) /\ m_dimmed'
      BY <1>3, <2>1 DEF OnIdleDim
    <3>2. ~m_dimmed /\ m_user_brightness < 0
      BY <2>1 DEF DimAllowed, TypeOK, PowerTypeOK, Percent
    <3>3. predim' = backlight
      BY <3>1, <3>2 DEF Dim
    <3>4. ActiveProfile.brightness_percent \in Percent
      BY <2>1, ActiveProfileStep, DaemonAssumption DEF DimAllowed
    <3>5. PercentOf(backlight) \in Percent
      BY PercentOfRange DEF TypeOK, PowerTypeOK
    <3>6. m_user_brightness' >= 0
      BY <3>1, <3>4, <3>5 DEF Dim, GetBrightnessPercent, Percent
    <3>7. BacklightPresent => m_user_brightness' = PercentOf(backlight)
      BY <3>1, <3>5 DEF Dim, GetBrightnessPercent, Percent
    <3> QED  BY <3>1, <3>3, <3>6, <3>7
  <2>2. CASE ~DimAllowed
    BY <1>3, <2>2 DEF OnIdleDim, powerVars
  <2> QED  BY <2>1, <2>2
<1>4. CASE OnActive
  BY <1>4 DEF OnActive, Undim, powerVars
<1>5. CASE OnSetProfile
  BY <1>5 DEF OnSetProfile, OnChange, Apply, powerVars
<1>6. CASE OnReloadConfig
  BY <1>6 DEF OnReloadConfig, OnChange, Apply, powerVars
<1>7. CASE UserDims
  BY <1>7 DEF UserDims, UserSetsBacklight
<1>8. CASE UNCHANGED <<powerVars, m_dimmed>>
  BY <1>8 DEF powerVars
<1> QED  BY <1>1, <1>2, <1>3, <1>4, <1>5, <1>6, <1>7, <1>8, PowerFrame,
            DimmedFrame

\* The two flags that say the display is dimmed agree in every reachable
\* state: undim() never restores a stale or missing brightness.
THEOREM DimCacheCorrect == Spec => []DimCacheInv
<1>1. CacheInv => DimCacheInv
  BY DEF CacheInv
<1> QED  BY <1>1, TypeCorrect, CacheInit, CacheStep, PTL DEF Spec

\* Activity restores the brightness of before the dimmed period up to the
\* truncation of the two conversions, whatever profile changes, dim requests
\* and brightness keys came in between.
THEOREM UndimCorrect == Spec => UndimRestores
<1> DEFINE Restored ==
      m_dimmed /\ ~m_dimmed' /\ up' /\ BacklightPresent =>
        /\ backlight' <= predim
        /\ (predim - backlight') * 100 < MaxBrightness + 100
<1>1. ASSUME TypeOK, CacheInv, [Next]_vars
      PROVE  [Restored]_vars
  <2> SUFFICES ASSUME m_dimmed, ~m_dimmed', up', BacklightPresent
               PROVE  /\ backlight' <= predim
                      /\ (predim - backlight') * 100 < MaxBrightness + 100
    OBVIOUS
  <2>1. OnActive
    BY <1>1, DimmedFrame DEF Stop, OnIdleDim
  <2>2. Undim(ActiveProfile)
    BY <2>1 DEF OnActive
  <2>3. backlight' = RawOf(PercentOf(predim))
    BY <1>1, <2>2 DEF Undim, SetBrightnessPercent, CacheInv, DimCacheInv
  <2> QED  BY <1>1, <2>3, RoundTrip DEF TypeOK, PowerTypeOK
<1> QED  BY <1>1, TypeCorrect, CacheInit, CacheStep, PTL DEF Spec, UndimRestores

-----------------------------------------------------------------------------
(* The copy of the active session *)

\* The newest signal in flight, if there is one, carries logind's value, and
\* then a switch has happened since the match was installed.
TrackerInv ==
  subscribed => IF bus = <<>> THEN TrackerConverges
                              ELSE bus[Len(bus)] = seat /\ ~blind

\* The tracker starts without a session and without signals.
LEMMA TrackerInvInit == Init => TrackerInv
BY DEF Init, TrackerInit, TrackerInv, TrackerConverges

\* Signals, draining and restarts keep the last signal the truth.
LEMMA TrackerInvStep ==
  ASSUME TypeOK, TrackerInv, [Next]_vars
  PROVE  TrackerInv'
<1> USE DEF TrackerInv, TrackerConverges
<1>1. CASE Start
  <2>1. CASE bus' = <<>>
    BY <1>1, <2>1 DEF Start, TrackerStart
  <2>2. CASE bus' # <<>>
    <3>1. bus' = <<seat>> /\ seat' = seat /\ ~blind'
      BY <1>1, <2>2 DEF Start, TrackerStart
    <3>2. bus'[Len(bus')] = seat'
      BY <3>1
    <3> QED  BY <3>1, <3>2, <2>2
  <2> QED  BY <2>1, <2>2
<1>2. CASE Stop
  BY <1>2 DEF Stop, TrackerReset
<1>3. CASE EpollWait
  BY <1>3 DEF EpollWait, DrainBus
<1>4. CASE SeatSwitches
  <2>1. PICK id \in SessionIds : SwitchSession(id)
    BY <1>4 DEF SeatSwitches
  <2>2. CASE subscribed
    <3>1. /\ bus' = Append(bus, id) /\ seat' = id /\ bus \in Seq(SessionIds)
          /\ blind' = FALSE
      BY <2>1, <2>2 DEF SwitchSession, TypeOK, TrackerTypeOK
    <3>2. bus' # <<>> /\ bus'[Len(bus')] = id
      BY <3>1
    <3> QED  BY <3>1, <3>2
  <2>3. CASE ~subscribed
    BY <2>1, <2>3 DEF SwitchSession
  <2> QED  BY <2>2, <2>3
<1>5. CASE UNCHANGED trackerVars
  BY <1>5 DEF trackerVars
<1> QED  BY <1>1, <1>2, <1>3, <1>4, <1>5, TrackerFrame

\* The daemon's copy of the active session is right once the signals are
\* handled, for any number of sessions and any number of signals in flight.
THEOREM TrackerCorrect == Spec => []TrackerConverges
<1>1. TrackerInv => TrackerConverges
  BY DEF TrackerInv, TrackerConverges
<1> QED  BY <1>1, TypeCorrect, TrackerInvInit, TrackerInvStep, PTL DEF Spec

-----------------------------------------------------------------------------
(* The CPU settings of the active profile *)

\* Before the first profile is applied there is nothing to follow.
LEMMA CpuInit == Init => CpuFollowsProfile
BY DEF Init, CpuFollowsProfile

\* PowerManager::apply writes every setting the profile names.
LEMMA CpuApply ==
  ASSUME NEW p, Apply(p)
  PROVE  \A k \in CpuKnobs : p.cpu[k] \in {KeepSetting, cpu'[k]}
BY DEF Apply, SetCpu

\* Whatever changes the active profile applies it in the same step.
LEMMA CpuStep ==
  ASSUME TypeOK, CpuFollowsProfile, [Next]_vars
  PROVE  CpuFollowsProfile'
<1> USE DEF CpuFollowsProfile
<1>1. CASE Start
  BY <1>1, CpuApply DEF Start
<1>2. CASE Stop
  BY <1>2 DEF Stop
<1>3. CASE OnSetProfile
  BY <1>3, CpuApply DEF OnSetProfile, OnChange, configVars, powerVars, ActiveProfile
<1>4. CASE OnReloadConfig
  BY <1>4, CpuApply DEF OnReloadConfig, OnChange, configVars, powerVars, ActiveProfile
<1>5. CASE AdminEdits
  BY <1>5 DEF AdminEdits, EditFile, powerVars, ActiveProfile
<1>6. CASE OnIdleDim \/ OnActive \/ UserDims
  BY <1>6 DEF OnIdleDim, OnActive, UserDims, Dim, Undim, UserSetsBacklight,
              configVars, powerVars, ActiveProfile
<1>7. CASE UNCHANGED <<powerVars, configVars, up>>
  BY <1>7 DEF powerVars, configVars, ActiveProfile
<1> QED  BY <1>1, <1>2, <1>3, <1>4, <1>5, <1>6, <1>7, PowerFrame, ConfigFrame,
            UpFrame

\* No path changes the active profile without applying its CPU settings.
THEOREM CpuCorrect == Spec => []CpuFollowsProfile
BY TypeCorrect, CpuInit, CpuStep, PTL DEF Spec

-----------------------------------------------------------------------------
(* Records and connections *)

HasHello(q) == \E i \in DOMAIN q : q[i].type = "hello"

\* A hello in a sequence is its head or in its tail.
LEMMA HasHelloTail ==
  ASSUME NEW q \in Seq(Messages), q # <<>>
  PROVE  HasHello(q) <=> Head(q).type = "hello" \/ HasHello(Tail(q))
<1>1. ASSUME HasHello(q)
      PROVE  Head(q).type = "hello" \/ HasHello(Tail(q))
  <2>1. PICK i \in DOMAIN q : q[i].type = "hello"
    BY <1>1 DEF HasHello
  <2>2. CASE i = 1
    BY <2>1, <2>2
  <2>3. CASE i # 1
    <3>1. i - 1 \in DOMAIN Tail(q) /\ Tail(q)[i - 1] = q[i]
      BY <2>1, <2>3
    <3> QED  BY <2>1, <3>1 DEF HasHello
  <2> QED  BY <2>2, <2>3
<1>2. ASSUME Head(q).type = "hello"
      PROVE  HasHello(q)
  <2>1. 1 \in DOMAIN q /\ q[1].type = "hello"
    BY <1>2
  <2> QED  BY <2>1 DEF HasHello
<1>3. ASSUME HasHello(Tail(q))
      PROVE  HasHello(q)
  <2>1. PICK i \in DOMAIN Tail(q) : Tail(q)[i].type = "hello"
    BY <1>3 DEF HasHello
  <2>2. i + 1 \in DOMAIN q /\ q[i + 1] = Tail(q)[i]
    BY <2>1
  <2> QED  BY <2>1, <2>2 DEF HasHello
<1> QED  BY <1>1, <1>2, <1>3

\* Two reads in a row have a hello if one of them has.
LEMMA HasHelloConcat ==
  ASSUME NEW q \in Seq(Messages), NEW r \in Seq(Messages)
  PROVE  HasHello(q \o r) <=> HasHello(q) \/ HasHello(r)
<1>1. ASSUME HasHello(q \o r)
      PROVE  HasHello(q) \/ HasHello(r)
  <2>1. PICK i \in DOMAIN (q \o r) : (q \o r)[i].type = "hello"
    BY <1>1 DEF HasHello
  <2>2. CASE i <= Len(q)
    <3>1. i \in DOMAIN q /\ q[i] = (q \o r)[i]
      BY <2>1, <2>2
    <3> QED  BY <2>1, <3>1 DEF HasHello
  <2>3. CASE ~(i <= Len(q))
    <3>1. i - Len(q) \in DOMAIN r /\ r[i - Len(q)] = (q \o r)[i]
      BY <2>1, <2>3
    <3> QED  BY <2>1, <3>1 DEF HasHello
  <2> QED  BY <2>2, <2>3
<1>2. ASSUME HasHello(q)
      PROVE  HasHello(q \o r)
  <2>1. PICK i \in DOMAIN q : q[i].type = "hello"
    BY <1>2 DEF HasHello
  <2>2. i \in DOMAIN (q \o r) /\ (q \o r)[i] = q[i]
    BY <2>1
  <2> QED  BY <2>1, <2>2 DEF HasHello
<1>3. ASSUME HasHello(r)
      PROVE  HasHello(q \o r)
  <2>1. PICK i \in DOMAIN r : r[i].type = "hello"
    BY <1>3 DEF HasHello
  <2>2. Len(q) + i \in DOMAIN (q \o r) /\ (q \o r)[Len(q) + i] = r[i]
    BY <2>1
  <2> QED  BY <2>1, <2>2 DEF HasHello
<1> QED  BY <1>1, <1>2, <1>3

\* A client that writes one more line has said hello if the line is one.
LEMMA HasHelloAppend ==
  ASSUME NEW q \in Seq(Messages), NEW m \in Messages
  PROVE  HasHello(Append(q, m)) <=> HasHello(q) \/ m.type = "hello"
<1>1. ASSUME HasHello(Append(q, m))
      PROVE  HasHello(q) \/ m.type = "hello"
  <2>1. PICK i \in DOMAIN Append(q, m) : Append(q, m)[i].type = "hello"
    BY <1>1 DEF HasHello
  <2>2. CASE i <= Len(q)
    <3>1. i \in DOMAIN q /\ q[i] = Append(q, m)[i]
      BY <2>1, <2>2
    <3> QED  BY <2>1, <3>1 DEF HasHello
  <2>3. CASE ~(i <= Len(q))
    BY <2>1, <2>3
  <2> QED  BY <2>2, <2>3
<1>2. ASSUME HasHello(q)
      PROVE  HasHello(Append(q, m))
  <2>1. PICK i \in DOMAIN q : q[i].type = "hello"
    BY <1>2 DEF HasHello
  <2>2. i \in DOMAIN Append(q, m) /\ Append(q, m)[i] = q[i]
    BY <2>1
  <2> QED  BY <2>1, <2>2 DEF HasHello
<1>3. ASSUME m.type = "hello"
      PROVE  HasHello(Append(q, m))
  <2>1. Len(q) + 1 \in DOMAIN Append(q, m) /\ Append(q, m)[Len(q) + 1] = m
    OBVIOUS
  <2> QED  BY <1>3, <2>1 DEF HasHello
<1> QED  BY <1>1, <1>2, <1>3

\* Every hello on its way to on_hello was written by the client that is
\* connected now; lines that outlive their connection are the exception.
RecordInv ==
  /\ RecordsHaveConnections
  /\ \A fd \in Fds : HasHello(inbox[fd]) => greeted[fd]
  /\ cur \in conns /\ HasHello(lines) => greeted[cur]
  /\ cur \notin Fds => lines = <<>>

\* No record, no connection and no line at the start.
LEMMA RecordInit == Init => RecordInv
BY DEF Init, ServerInit, RecordInv, RecordsHaveConnections, HasHello

\* Reading moves hellos from the socket to the lines of the read.
LEMMA RecordRead ==
  ASSUME TypeOK, RecordInv, NEW fd \in Fds, ReadMore(fd) \/ Read(fd),
         UNCHANGED <<agents, greeted, stale>>
  PROVE  RecordInv'
<1> USE DEF RecordInv
<1>1. /\ inbox' = [inbox EXCEPT ![fd] = <<>>]
      /\ lines' = lines \o inbox[fd]
      /\ cur' = fd \/ (lines' = <<>> /\ cur' = NoFd)
      /\ UNCHANGED conns
      /\ cur = fd \/ cur = NoFd
  BY DEF ReadMore, Read, Feeds
<1>2. inbox[fd] \in Seq(Messages) /\ lines \in Seq(Messages)
  BY DEF TypeOK, ServerTypeOK
<1>3. HasHello(lines') <=> HasHello(lines) \/ HasHello(inbox[fd])
  BY <1>1, <1>2, HasHelloConcat
<1>4. cur = NoFd => ~HasHello(lines)
  BY ServerAssumption DEF HasHello
<1>5. RecordsHaveConnections'
  BY <1>1 DEF RecordsHaveConnections, Greeted
<1>6. \A g \in Fds : HasHello(inbox'[g]) => HasHello(inbox[g])
  BY <1>1 DEF HasHello, TypeOK, ServerTypeOK
<1>7. cur' \in conns' /\ HasHello(lines') => greeted'[cur']
  BY <1>1, <1>3, <1>4, ServerAssumption DEF TypeOK, ServerTypeOK
<1>8. cur' \notin Fds => lines' = <<>>
  BY <1>1
<1> QED  BY <1>5, <1>6, <1>7, <1>8

\* Accepts, closes, hellos and malformed lines keep each record with the
\* client that said hello, or mark it as left behind.
LEMMA RecordStep ==
  ASSUME TypeOK, RecordInv, [Next]_vars
  PROVE  RecordInv'
<1> USE DEF RecordInv
<1>1. CASE Stop
  BY <1>1, ServerAssumption DEF Stop, ServerReset, RecordsHaveConnections, HasHello
<1>2. CASE EpollWait \/ Start
  <2>1. UNCHANGED <<conns, inbox, lines, cur, greeted, agents, stale>>
    BY <1>2 DEF EpollWait, Start, TakeBatch, serverVars, socketVars, agentVars, peerVars
  <2> QED  BY <2>1 DEF RecordsHaveConnections, Greeted, HasHello
<1>3. CASE AcceptClient
  <2>1. /\ UNCHANGED <<inbox, lines, cur, greeted, agents, stale>>
        /\ conns \subseteq conns' /\ (cur \in Fds => conns' = conns)
    BY <1>3, ServerAssumption
       DEF AcceptClient, AcceptFails, Accept, socketVars, agentVars, peerVars
  <2>2. cur' \in conns' /\ HasHello(lines') => greeted'[cur']
    BY <2>1, ServerAssumption DEF HasHello
  <2> QED  BY <2>1, <2>2 DEF RecordsHaveConnections, Greeted, HasHello
<1>4. CASE HandleClient
  BY <1>4, RecordRead DEF HandleClient, agentVars, peerVars
<1>5. CASE HandleDisconnect
  <2>1. PICK fd \in Fds : OnDisconnect(fd)
    BY <1>5 DEF HandleDisconnect
  <2>2. RecordsHaveConnections'
    BY <2>1 DEF OnDisconnect, Hangup, Forget, EndHistory, RecordsHaveConnections,
                Greeted, TypeOK, HistoryTypeOK, AgentTypeOK
  <2>3. \A g \in Fds : HasHello(inbox'[g]) => greeted'[g]
    BY <2>1 DEF OnDisconnect, Hangup, EndHistory, HasHello, TypeOK, ServerTypeOK,
                HistoryTypeOK
  <2>4. lines' = <<>>
    BY <2>1 DEF OnDisconnect, Hangup
  <2> QED  BY <2>2, <2>3, <2>4 DEF HasHello
<1>6. CASE OnHwEvent
  <2>1. /\ UNCHANGED <<conns, inbox, lines, greeted, agents, stale>>
        /\ cur \notin Fds /\ cur' \notin Fds
    BY <1>6, ServerAssumption DEF OnHwEvent, HwStep, socketVars, agentVars, peerVars
  <2>2. lines' = <<>>
    BY <2>1
  <2> QED  BY <2>1, <2>2 DEF RecordsHaveConnections, Greeted, HasHello
<1>7. ASSUME OnLineAny
      PROVE  /\ cur \in Fds /\ NextLine
             /\ cur' \notin Fds => lines' = <<>>
             /\ cur' \in Fds => cur' = cur
             /\ HasHello(lines') => HasHello(lines)
             /\ Line.type = "hello" => HasHello(lines)
  <2>1. cur \in Fds /\ lines # <<>> /\ NextLine
    BY <1>7 DEF OnLineAny, OnLine, OnMalformed, OnHello, OnIgnored, OnIdleDim,
                OnIdleSleep, OnActive, OnInhibit, OnUninhibit, OnSetProfile,
                OnReloadConfig, OnLock, OnQuery, LineDone, LineCloses
  <2>2. lines \in Seq(Messages)
    BY DEF TypeOK, ServerTypeOK
  <2>3. HasHello(lines) <=> Line.type = "hello" \/ HasHello(Tail(lines))
    BY <2>1, <2>2, HasHelloTail DEF Line
  <2>4. lines' = Tail(lines)
    BY <2>1 DEF NextLine
  <2>5. HasHello(lines') => HasHello(lines)
    BY <2>3, <2>4
  <2> QED  BY <2>1, <2>3, <2>5, ServerAssumption DEF NextLine
<1>8. CASE OnMalformed
  <2>1. cur \in Fds /\ LineCloses
    BY <1>8 DEF OnMalformed, OnLine
  <2>2. /\ greeted' = [greeted EXCEPT ![cur] = FALSE]
        /\ conns' = conns \ {cur}
        /\ inbox' = [inbox EXCEPT ![cur] = <<>>]
        /\ agents' = agents
        /\ stale' = IF cur \in agents THEN stale \cup {cur} ELSE stale
    BY <1>8 DEF OnMalformed, LineCloses, EndHistory, agentVars
  <2>3. RecordsHaveConnections'
    BY <2>2 DEF RecordsHaveConnections, Greeted, TypeOK, HistoryTypeOK, AgentTypeOK
  <2>4. \A g \in Fds : HasHello(inbox'[g]) => greeted'[g]
    BY <2>2 DEF HasHello, TypeOK, ServerTypeOK, HistoryTypeOK
  <2>5. cur' \notin conns'
    BY <1>7, <1>8, <2>2 DEF OnLineAny, TypeOK, ServerTypeOK
  <2> QED  BY <1>7, <1>8, <2>3, <2>4, <2>5 DEF OnLineAny
<1>9. CASE OnHello
  <2>1. /\ UNCHANGED <<conns, inbox, greeted>>
        /\ agents' = agents \cup {cur} /\ Line.type = "hello"
        /\ stale' = IF cur \in conns THEN stale \ {cur} ELSE stale \cup {cur}
    BY <1>9 DEF OnHello, OnLine, LineDone, socketVars
  <2>2. HasHello(lines)
    BY <1>7, <1>9, <2>1 DEF OnLineAny
  <2>3. RecordsHaveConnections'
    BY <2>1, <2>2 DEF RecordsHaveConnections, Greeted
  <2>4. cur' \in conns' /\ HasHello(lines') => greeted'[cur']
    BY <1>7, <1>9, <2>1, <2>2 DEF OnLineAny, TypeOK, ServerTypeOK
  <2>5. \A g \in Fds : HasHello(inbox'[g]) => greeted'[g]
    BY <2>1
  <2> QED  BY <1>7, <1>9, <2>3, <2>4, <2>5 DEF OnLineAny
<1>10. CASE OnLineAny /\ ~OnHello /\ ~OnMalformed
  <2>1. UNCHANGED <<conns, inbox, agents, greeted, stale>>
    BY <1>10
       DEF OnLineAny, OnIgnored, OnIdleDim, OnIdleSleep, OnActive, OnInhibit,
           OnUninhibit, OnSetProfile, OnReloadConfig, OnLock, OnQuery, LineDone,
           agentVars, peerVars, socketVars
  <2>2. RecordsHaveConnections'
    BY <2>1 DEF RecordsHaveConnections, Greeted
  <2>3. cur' \in conns' /\ HasHello(lines') => greeted'[cur']
    BY <1>7, <1>10, <2>1 DEF TypeOK, ServerTypeOK
  <2>4. \A g \in Fds : HasHello(inbox'[g]) => greeted'[g]
    BY <2>1
  <2> QED  BY <1>7, <1>10, <2>2, <2>3, <2>4
<1>11. CASE PeerWrites
  <2>1. PICK fd \in Fds, m \in Messages :
          /\ ClientWrites(fd, m)
          /\ greeted' = [greeted EXCEPT ![fd] = @ \/ m.type = "hello"]
    BY <1>11 DEF PeerWrites
  <2>2. UNCHANGED <<conns, lines, cur, agents, stale>>
    BY <1>11, <2>1 DEF PeerWrites, ClientWrites, agentVars
  <2>3. inbox' = [inbox EXCEPT ![fd] = Append(inbox[fd], m)]
    BY <2>1 DEF ClientWrites
  <2>4. inbox[fd] \in Seq(Messages)
    BY DEF TypeOK, ServerTypeOK
  <2>6. HasHello(Append(inbox[fd], m)) => HasHello(inbox[fd]) \/ m.type = "hello"
    BY <2>4, HasHelloAppend
  <2>7. \A g \in Fds : greeted[g] => greeted'[g]
    BY <2>1 DEF TypeOK, HistoryTypeOK
  <2>8. m.type = "hello" => greeted'[fd]
    BY <2>1 DEF TypeOK, HistoryTypeOK
  <2>9. \A g \in Fds : HasHello(inbox'[g]) => greeted'[g]
    BY <2>3, <2>6, <2>7, <2>8 DEF TypeOK, ServerTypeOK
  <2>10. RecordsHaveConnections'
    BY <2>2, <2>7 DEF RecordsHaveConnections, Greeted, TypeOK, AgentTypeOK
  <2>11. cur' \in conns' /\ HasHello(lines') => greeted'[cur']
    BY <2>2, <2>7 DEF TypeOK, ServerTypeOK
  <2> QED  BY <2>2, <2>9, <2>10, <2>11
<1>12. CASE (Environment \/ UNCHANGED vars) /\ ~PeerWrites
  <2>1. UNCHANGED <<conns, inbox, lines, cur, greeted, agents, stale>>
    BY <1>12 DEF Environment, PeerWritesPiece, PeerCloses, UserPresses, UserDims,
                 SeatSwitches, AdminEdits, Suspends, Resumes, ClientWritesPiece,
                 ClientCloses, serverVars, socketVars, agentVars, peerVars, vars
  <2> QED  BY <2>1 DEF RecordsHaveConnections, Greeted, HasHello
<1> QED  BY <1>1, <1>2, <1>3, <1>4, <1>5, <1>6, <1>8, <1>9, <1>10, <1>11, <1>12
         DEF Next, Loop

\* Whatever the clients write, every record belongs to a connected client
\* that has said hello, or was left behind by a malformed line.
THEOREM RecordsCorrect == Spec => []RecordsHaveConnections
<1>1. RecordInv => RecordsHaveConnections
  BY DEF RecordInv
<1> QED  BY <1>1, TypeCorrect, RecordInit, RecordStep, PTL DEF Spec

\* A suspend locks the active session first, if it has an agent, and only a
\* record that a malformed line left behind can keep the LOCK from it.
THEOREM LockCorrect == Spec => SuspendLocks
<1> DEFINE Locked ==
      request = "none" /\ request' = "sleep"
        /\ (\E fd \in agents : IsActive(session[fd]))
      => /\ lock' \in agents /\ IsActive(session[lock'])
         /\ lock' \in stale \/ Greeted(lock')
<1>1. ASSUME TypeOK, RecordInv, [Next]_vars
      PROVE  [Locked]_vars
  <2> SUFFICES ASSUME request = "none", request' = "sleep",
                      \E fd \in agents : IsActive(session[fd])
               PROVE  /\ lock' \in agents /\ IsActive(session[lock'])
                      /\ lock' \in stale \/ Greeted(lock')
    OBVIOUS
  <2>1. OnHwEvent \/ OnIdleSleep
    BY <1>1, HwFrame DEF Stop, HwReset, UserPresses, Press, Suspends, FallAsleep,
                         Resumes, WakeUp, hwVars
  <2>2. SendLock
    BY <2>1 DEF OnHwEvent, OnIdleSleep, DoSuspend, RunHwAction, hwVars
  <2>3. lock' \in {fd \in agents : IsActive(session[fd])}
    BY <2>2 DEF SendLock, LockReceivers
  <2> QED  BY <1>1, <2>3 DEF RecordInv, RecordsHaveConnections
<1> QED  BY <1>1, TypeCorrect, RecordInit, RecordStep, PTL DEF Spec, SuspendLocks

-----------------------------------------------------------------------------
(* CONFIG reaches every agent *)

\* A hello the client has written is still on its way to on_hello.
HelloPending(fd) == HasHello(inbox[fd]) \/ (cur = fd /\ HasHello(lines))

\* A connection has been sent the current CONFIG or none at all; one that was
\* sent it is registered; one that asked for it and has none is about to be
\* read.
SyncInv ==
  /\ ~up => agents = {}
  /\ \A fd \in Fds :
       /\ told[fd] \in {NoConfig, Timeouts(ActiveProfile)}
       /\ told[fd] # NoConfig => fd \in agents \cap conns
       /\ greeted[fd] => fd \in conns
       /\ greeted[fd] /\ told[fd] = NoConfig => HelloPending(fd)

\* Nobody has been sent a configuration at the start.
LEMMA SyncInit == Init => SyncInv
BY DEF Init, ServerInit, SyncInv

\* Handling a line other than hello keeps every other pending hello.
LEMMA HelloStaysPending ==
  ASSUME TypeOK, lines # <<>>, NextLine, UNCHANGED inbox,
         Line.type # "hello", NEW fd \in Fds, HelloPending(fd)
  PROVE  HelloPending(fd)'
<1>1. CASE HasHello(inbox[fd])
  BY <1>1 DEF HelloPending
<1>2. CASE cur = fd /\ HasHello(lines)
  <2>1. HasHello(Tail(lines))
    BY <1>2, HasHelloTail DEF Line, TypeOK, ServerTypeOK
  <2>2. Tail(lines) # <<>>
    BY <2>1 DEF HasHello
  <2> QED  BY <1>2, <2>1, <2>2 DEF NextLine, HelloPending
<1> QED  BY <1>1, <1>2 DEF HelloPending

\* Every step keeps what agents were sent equal to the active profile.
LEMMA SyncStep ==
  ASSUME TypeOK, SyncInv, [Next]_vars
  PROVE  SyncInv'
<1> USE DEF SyncInv
<1>2. CASE Stop
  BY <1>2 DEF Stop
<1>3. CASE Start
  <2>1. \A fd \in Fds : told[fd] = NoConfig /\ told'[fd] = NoConfig
    BY <1>3 DEF Start, sentVars
  <2>2. UNCHANGED <<conns, inbox, lines, cur, greeted, agents>>
    BY <1>3 DEF Start, serverVars, socketVars, peerVars, agentVars
  <2>3. \A fd \in Fds : HelloPending(fd)' = HelloPending(fd)
    BY <2>2 DEF HelloPending, HasHello
  <2> QED  BY <1>3, <2>1, <2>2, <2>3 DEF Start
<1>4. CASE EpollWait \/ OnHwEvent
  <2>1. UNCHANGED <<conns, inbox, lines, told, greeted, agents, up>>
    BY <1>4 DEF EpollWait, OnHwEvent, HwStep, TakeBatch, DoSuspend, sentVars,
                peerVars, agentVars, socketVars
  <2>2. \A fd \in Fds : cur' = fd <=> cur = fd
    BY <1>4, ServerAssumption DEF EpollWait, OnHwEvent, HwStep, TakeBatch
  <2>3. \A fd \in Fds : HelloPending(fd)' = HelloPending(fd)
    BY <2>1, <2>2 DEF HelloPending, HasHello
  <2>4. ActiveProfile' = ActiveProfile
    BY <1>4 DEF EpollWait, OnHwEvent, configVars, ActiveProfile
  <2> QED  BY <2>1, <2>3, <2>4
<1>5. CASE AcceptClient
  <2>1. UNCHANGED <<inbox, lines, cur, told, greeted, agents, up>>
    BY <1>5 DEF AcceptClient, AcceptFails, Accept, sentVars, peerVars, agentVars,
                socketVars
  <2>2. conns \subseteq conns'
    BY <1>5 DEF AcceptClient, AcceptFails, Accept
  <2>3. \A fd \in Fds : HelloPending(fd)' = HelloPending(fd)
    BY <2>1 DEF HelloPending, HasHello
  <2>4. ActiveProfile' = ActiveProfile
    BY <1>5 DEF AcceptClient, configVars, ActiveProfile
  <2> QED  BY <2>1, <2>2, <2>3, <2>4
<1>6. CASE HandleClient
  <2>1. PICK fd \in Fds : ReadMore(fd) \/ Read(fd)
    BY <1>6 DEF HandleClient
  <2>2. UNCHANGED <<conns, told, greeted, agents, up>>
    BY <1>6, <2>1 DEF HandleClient, ReadMore, Read, sentVars, peerVars, agentVars
  <2>3. ASSUME NEW g \in Fds, HelloPending(g)
        PROVE  HelloPending(g)'
    <3>1. /\ inbox' = [inbox EXCEPT ![fd] = <<>>]
          /\ lines' = lines \o inbox[fd]
          /\ cur' = fd \/ lines' = <<>>
          /\ cur = fd \/ cur = NoFd
      BY <2>1 DEF ReadMore, Read, Feeds
    <3>2. inbox[fd] \in Seq(Messages) /\ lines \in Seq(Messages)
      BY DEF TypeOK, ServerTypeOK
    <3>3. HasHello(lines') <=> HasHello(lines) \/ HasHello(inbox[fd])
      BY <3>1, <3>2, HasHelloConcat
    <3>4. CASE g = fd
      <4>1. HasHello(lines')
        BY <2>3, <3>3, <3>4 DEF HelloPending
      <4>2. lines' # <<>>
        BY <4>1 DEF HasHello
      <4> QED  BY <3>1, <3>4, <4>1, <4>2 DEF HelloPending
    <3>5. CASE g # fd
      <4>1. HasHello(inbox[g])
        BY <2>3, <3>1, <3>5, ServerAssumption DEF HelloPending
      <4> QED  BY <3>1, <3>5, <4>1 DEF HelloPending, TypeOK, ServerTypeOK
    <3> QED  BY <3>4, <3>5
  <2>4. ActiveProfile' = ActiveProfile
    BY <1>6 DEF HandleClient, configVars, ActiveProfile
  <2> QED  BY <2>2, <2>3, <2>4
<1>7. CASE HandleDisconnect
  <2>1. PICK fd \in Fds : OnDisconnect(fd)
    BY <1>7 DEF HandleDisconnect
  <2>2. \A g \in Fds \ {fd} : HelloPending(g) => HelloPending(g)'
    BY <2>1, ServerAssumption
       DEF OnDisconnect, Hangup, Feeds, HelloPending, TypeOK, ServerTypeOK
  <2>3. ActiveProfile' = ActiveProfile
    BY <2>1 DEF OnDisconnect, configVars, ActiveProfile
  <2> QED  BY <2>1, <2>2, <2>3
           DEF OnDisconnect, Hangup, Forget, EndHistory, TypeOK, HistoryTypeOK
<1>8. CASE OnMalformed
  <2>1. \A g \in Fds \ {cur} : HelloPending(g) => HelloPending(g)'
    BY <1>8 DEF OnMalformed, OnLine, LineCloses, HelloPending, TypeOK, ServerTypeOK
  <2>2. ActiveProfile' = ActiveProfile
    BY <1>8 DEF OnMalformed, configVars, ActiveProfile
  <2>3. cur \in Fds
    BY <1>8 DEF OnMalformed, OnLine
  <2> QED  BY <1>8, <2>1, <2>2, <2>3
           DEF OnMalformed, LineCloses, EndHistory, agentVars, TypeOK, HistoryTypeOK
<1>9. CASE OnHello
  <2>1. cur \in Fds /\ up
    BY <1>9 DEF OnHello, OnLine, Running
  <2>2. \A g \in Fds \ {cur} : HelloPending(g) => HelloPending(g)'
    BY <1>9 DEF OnHello, LineDone, NextLine, socketVars, HelloPending, TypeOK,
                ServerTypeOK
  <2>3. ActiveProfile' = ActiveProfile
    BY <1>9 DEF OnHello, configVars, ActiveProfile
  <2>4. UNCHANGED <<conns, greeted, up>>
    BY <1>9 DEF OnHello, LineDone, peerVars
  <2>5. Timeouts(ActiveProfile) # NoConfig
    BY ActiveProfileStep, TimeoutsType DEF NoConfig
  <2>6. CASE cur \in conns
    <3>1. told' = [told EXCEPT ![cur] = Timeouts(ActiveProfile)]
      BY <1>9, <2>6 DEF OnHello, SendConfig
    <3> QED  BY <1>9, <2>1, <2>2, <2>3, <2>4, <2>5, <2>6, <3>1
             DEF OnHello, TypeOK, HistoryTypeOK
  <2>7. CASE cur \notin conns
    <3>1. told' = told
      BY <1>9, <2>7 DEF OnHello, SendConfig
    <3> QED  BY <1>9, <2>1, <2>2, <2>3, <2>4, <2>7, <3>1 DEF OnHello
  <2> QED  BY <2>6, <2>7
<1>10. CASE OnLineAny /\ ~OnHello /\ ~OnMalformed
  <2>1. /\ lines # <<>> /\ Line.type # "hello" /\ LineDone
        /\ UNCHANGED <<agents, greeted, up>>
    BY <1>10 DEF OnLineAny, OnLine, OnIgnored, OnIdleDim, OnIdleSleep, OnActive,
                 OnInhibit, OnUninhibit, OnSetProfile, OnReloadConfig, OnLock,
                 OnQuery, agentVars, peerVars, AgentTypes
  <2>2. \A g \in Fds : HelloPending(g) => HelloPending(g)'
    BY <2>1, HelloStaysPending DEF LineDone, socketVars
  <2>3. \/ told' = told /\ ActiveProfile' = ActiveProfile
        \/ BroadcastConfig
    BY <1>10 DEF OnLineAny, OnIgnored, OnIdleDim, OnIdleSleep, OnActive,
                 OnInhibit, OnUninhibit, OnSetProfile, OnReloadConfig, OnLock,
                 OnQuery, OnChange, DoSuspend, sentVars, configVars, ActiveProfile
  <2>4. CASE told' = told /\ ActiveProfile' = ActiveProfile
    BY <2>1, <2>2, <2>4 DEF LineDone
  <2>5. CASE BroadcastConfig
    <3>1. Timeouts(ActiveProfile') # NoConfig
      BY ActiveProfileStep, TimeoutsType DEF NoConfig
    <3> QED  BY <2>1, <2>2, <2>5, <3>1 DEF BroadcastConfig, LineDone
  <2> QED  BY <2>3, <2>4, <2>5
<1>11. CASE PeerWrites
  <2>1. PICK fd \in Fds, m \in Messages :
          /\ ClientWrites(fd, m)
          /\ greeted' = [greeted EXCEPT ![fd] = @ \/ m.type = "hello"]
    BY <1>11 DEF PeerWrites
  <2>2. UNCHANGED <<conns, told, agents, up, cur, lines>>
    BY <1>11, <2>1 DEF PeerWrites, ClientWrites, sentVars, agentVars
  <2>3. ActiveProfile' = ActiveProfile
    BY <1>11 DEF PeerWrites, configVars, ActiveProfile
  <2>4. /\ inbox[fd] \in Seq(Messages)
        /\ inbox' = [inbox EXCEPT ![fd] = Append(inbox[fd], m)]
        /\ fd \in conns
    BY <2>1 DEF ClientWrites, TypeOK, ServerTypeOK
  <2>5. HasHello(inbox[fd]) \/ m.type = "hello" => HasHello(Append(inbox[fd], m))
    BY <2>4, HasHelloAppend
  <2>6. \A g \in Fds : HelloPending(g) \/ (g = fd /\ m.type = "hello")
                         => HelloPending(g)'
    BY <2>2, <2>4, <2>5 DEF HelloPending, TypeOK, ServerTypeOK
  <2>7. \A g \in Fds : greeted'[g] => greeted[g] \/ (g = fd /\ m.type = "hello")
    BY <2>1 DEF TypeOK, HistoryTypeOK
  <2> QED  BY <2>2, <2>3, <2>4, <2>6, <2>7
<1>12. CASE (Environment \/ UNCHANGED vars) /\ ~PeerWrites
  <2>1. UNCHANGED <<conns, inbox, lines, cur, told, greeted, agents, up>>
    BY <1>12 DEF Environment, PeerWritesPiece, PeerCloses, UserPresses, UserDims,
                 SeatSwitches, AdminEdits, Suspends, Resumes, ClientWritesPiece,
                 ClientCloses, serverVars, socketVars, sentVars, peerVars,
                 agentVars, vars
  <2>2. ActiveProfile' = ActiveProfile
    BY <1>12 DEF Environment, PeerWritesPiece, PeerCloses, UserPresses, UserDims,
                 SeatSwitches, AdminEdits, EditFile, Suspends, Resumes, configVars, vars,
                 ActiveProfile
  <2>3. \A fd \in Fds : HelloPending(fd)' = HelloPending(fd)
    BY <2>1 DEF HelloPending, HasHello
  <2> QED  BY <2>1, <2>2, <2>3
<1> QED  BY <1>2, <1>3, <1>4, <1>5, <1>6, <1>7, <1>8, <1>9, <1>10, <1>11, <1>12
         DEF Next, Loop

\* Every agent whose messages have been handled knows the timeouts of the
\* active profile, for any number of agents, profiles and pending messages.
THEOREM ConfigCorrect == Spec => []ConfigInSync
<1>1. SyncInv /\ TypeOK => ConfigInSync
  BY DEF SyncInv, ConfigInSync, Drained, HelloPending, HasHello, TypeOK,
         ServerTypeOK
<1> QED  BY <1>1, TypeCorrect, SyncInit, SyncStep, PTL DEF Spec
=============================================================================

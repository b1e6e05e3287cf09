----------------------------- MODULE MprisProofs -----------------------------
(***************************************************************************)
(* For any number of players, names and signals under way: MprisMonitor    *)
(* knows who plays once the signals have been processed, and an inhibit it *)
(* has sent then stands for a player that plays, or for one it could not   *)
(* query or that has lost its name to another.                             *)
(*                                                                         *)
(* PlayingConverges speaks of an empty queue and is not inductive: answers *)
(* to calls overtake signals, so what is known may be newer than the       *)
(* signal at the head of the queue.  The invariant says that the last      *)
(* signal about a name or a player, or what is known if there is none,     *)
(* tells the truth (OwnersUnderWay, StatusUnderWay).  A signal about an    *)
(* old name of a player must not make the monitor forget a player that has *)
(* a new one: MovesInOrder says that the signal of the new name is behind. *)
(* A player that is known without a name is what keeps an inhibit up: it   *)
(* was handed over, or a name of its is announced (HandedOver, NameKnown). *)
(***************************************************************************)
EXTENDS MprisProperties, TLAPS

OwnerAt(i, n)  == signals[i].kind = "owner" /\ signals[i].name = n
StatusAt(i, p) == signals[i].kind = "status" /\ signals[i].player = p

NoOwnerSignal(n)  == \A i \in DOMAIN signals : ~OwnerAt(i, n)
NoStatusSignal(p) == \A i \in DOMAIN signals : ~StatusAt(i, p)

\* Signal k is the last one about the name, about the player.
LastOwner(k, n) ==
  /\ k \in DOMAIN signals /\ OwnerAt(k, n)
  /\ \A i \in DOMAIN signals : i > k => ~OwnerAt(i, n)
LastStatus(k, p) ==
  /\ k \in DOMAIN signals /\ StatusAt(k, p)
  /\ \A i \in DOMAIN signals : i > k => ~StatusAt(i, p)

\* Before init nothing is known, and names are looked up once.
PhaseInv ==
  /\ phase # "scan" => scan = {}
  /\ phase = "off" => /\ signals = <<>> /\ m_unique_to_wk = {}
                      /\ m_wk_to_unique = [n \in Names |-> NoPlayer]
  /\ \A n \in scan : m_wk_to_unique[n] = NoPlayer

\* The bus: an owner is connected and owns one name.
BusInv ==
  \A n \in Names : owner[n] # NoPlayer =>
    /\ life[owner[n]] = "up"
    /\ \A m \in Names : owner[m] = owner[n] => m = n

OwnersUnderWay ==
  phase # "off" => \A n \in Names :
    \/ NoOwnerSignal(n) /\ (n \notin scan => m_wk_to_unique[n] = owner[n])
    \/ \E k \in DOMAIN signals : LastOwner(k, n) /\ signals[k].player = owner[n]

\* Behind signal h the player that owns n now is said to lose m, then to own n.
Moves(h, m, n) ==
  \E i, j \in DOMAIN signals :
    /\ h < i /\ i < j
    /\ OwnerAt(i, m) /\ signals[i].player # owner[n]
    /\ OwnerAt(j, n)

MovesInOrder ==
  phase # "off" => \A m, n \in Names :
    m # n /\ owner[n] # NoPlayer =>
      /\ m_wk_to_unique[m] = owner[n] => Moves(0, m, n)
      /\ \A h \in DOMAIN signals :
           OwnerAt(h, m) /\ signals[h].player = owner[n] => Moves(h, m, n)

OwnersKnown ==
  phase # "off" => \A n \in Names \ scan :
    owner[n] # NoPlayer /\ NoOwnerSignal(n) => owner[n] \in m_unique_to_wk

\* The status of one player, known or under way.
StatusOK(p) ==
  \/ /\ NoStatusSignal(p)
     /\ p \in m_unique_to_wk \ missed => (p \in m_playing <=> status[p])
  \/ \E k \in DOMAIN signals : LastStatus(k, p) /\ signals[k].playing = status[p]

StatusUnderWay == \A p \in Players : StatusOK(p)

\* Player p has name n as far as is known after signal h, and signal j is the
\* next one about n, which gives it to another player.
Holds(h, n, p) ==
  \/ h = 0 /\ m_wk_to_unique[n] = p
  \/ h \in DOMAIN signals /\ OwnerAt(h, n) /\ signals[h].player = p
TakenAt(h, j, n, p) ==
  /\ j \in DOMAIN signals /\ j > h
  /\ OwnerAt(j, n) /\ signals[j].player \notin {NoPlayer, p}
  /\ \A i \in DOMAIN signals : h < i /\ i < j => ~OwnerAt(i, n)

\* Behind signal h player p is said to own a name.
NamedBehind(h, p) ==
  \E k \in DOMAIN signals :
    k > h /\ signals[k].kind = "owner" /\ signals[k].player = p

HandedOver ==
  phase # "off" => \A n \in Names, p \in Players, h, j \in Nat :
    Holds(h, n, p) /\ TakenAt(h, j, n, p) => p \in handed \/ NamedBehind(j, p)

NameKnown ==
  /\ m_playing \subseteq m_unique_to_wk
  /\ phase # "off" => \A p \in m_unique_to_wk \ handed :
       (\E n \in Names : m_wk_to_unique[n] = p) \/ NamedBehind(0, p)

\* What the daemon was told is what set_player_playing last decided.
SentInv ==
  /\ m_inhibiting <=> m_playing # {}
  /\ sent => m_inhibiting /\ phase = "run"

MprisInv ==
  /\ MprisTypeOK /\ PhaseInv /\ BusInv /\ SentInv
  /\ OwnersUnderWay /\ MovesInOrder /\ OwnersKnown /\ StatusUnderWay
  /\ HandedOver /\ NameKnown
-----------------------------------------------------------------------------
(* The queue of signals *)

\* A signal is put at the end.
LEMMA SignalAppended ==
  ASSUME MprisTypeOK, NEW s \in Signal, signals' = Append(signals, s)
  PROVE  /\ signals' \in Seq(Signal)
         /\ DOMAIN signals' = DOMAIN signals \cup {Len(signals) + 1}
         /\ signals'[Len(signals) + 1] = s
         /\ Len(signals) + 1 \in Nat
         /\ \A i \in DOMAIN signals :
              i \in Nat /\ i > 0 /\ i < Len(signals) + 1
                /\ signals'[i] = signals[i]
BY DEF MprisTypeOK

\* The first signal is taken and the others move up.
LEMMA SignalTaken ==
  ASSUME MprisTypeOK, signals # <<>>, signals' = Tail(signals)
  PROVE  /\ signals' \in Seq(Signal)
         /\ 1 \in DOMAIN signals /\ Head(signals) = signals[1]
         /\ Head(signals) \in Signal
         /\ \A i \in DOMAIN signals' : /\ i \in Nat /\ i > 0
                                       /\ i + 1 \in DOMAIN signals
                                       /\ signals'[i] = signals[i + 1]
         /\ \A i \in DOMAIN signals : /\ i \in Nat /\ i > 0
                                      /\ i # 1 => /\ i - 1 \in DOMAIN signals'
                                                  /\ signals'[i - 1] = signals[i]
BY DEF MprisTypeOK

\* The two kinds of signals and what they carry.
LEMMA SignalTypes ==
  /\ \A n \in Names, p \in Players \cup {NoPlayer} :
       /\ OwnerSignal(n, p) \in Signal
       /\ OwnerSignal(n, p).kind = "owner"
       /\ OwnerSignal(n, p).name = n /\ OwnerSignal(n, p).player = p
  /\ \A p \in Players, b \in BOOLEAN :
       /\ StatusSignal(p, b) \in Signal
       /\ StatusSignal(p, b).kind = "status"
       /\ StatusSignal(p, b).player = p /\ StatusSignal(p, b).playing = b
  /\ \A s \in Signal :
       /\ s.kind \in {"owner", "status"}
       /\ s.kind = "owner" => s.name \in Names
                              /\ s.player \in Players \cup {NoPlayer}
       /\ s.kind = "status" => s.player \in Players /\ s.playing \in BOOLEAN
BY DEF OwnerSignal, StatusSignal, Signal

-----------------------------------------------------------------------------
(* What the steps do *)

\* add_player: the query tells the truth about the new player, or fails.
LEMMA AddEffect ==
  ASSUME MprisTypeOK, NEW n \in Names, NEW p \in Players, AddPlayer(n, p)
  PROVE  /\ m_wk_to_unique' = [m_wk_to_unique EXCEPT ![n] = p]
         /\ m_unique_to_wk' = m_unique_to_wk \cup {p}
         /\ m_playing' \subseteq Players /\ missed' \subseteq Players
         /\ \A q \in Players : q # p => /\ q \in m_playing' <=> q \in m_playing
                                        /\ q \in missed' <=> q \in missed
         /\ p \notin missed' => (p \in m_playing' <=> status[p])
BY DEF AddPlayer, QueryPlaybackStatus, SetPlayerPlaying, MprisTypeOK

\* remove_player: the owner of the name is forgotten, the others are not.
LEMMA RemoveEffect ==
  ASSUME MprisTypeOK, NEW n \in Names, RemovePlayer(n)
  PROVE  /\ m_wk_to_unique' = [m_wk_to_unique EXCEPT ![n] = NoPlayer]
         /\ m_unique_to_wk' = m_unique_to_wk \ {m_wk_to_unique[n]}
         /\ m_playing' = m_playing \ {m_wk_to_unique[n]}
         /\ UNCHANGED missed
<1>1. CASE m_wk_to_unique[n] = NoPlayer
  <2>1. UNCHANGED <<m_wk_to_unique, m_unique_to_wk, m_playing, missed>>
    BY <1>1 DEF RemovePlayer
  <2>2. NoPlayer \notin m_unique_to_wk /\ NoPlayer \notin m_playing
    BY MprisAssumption DEF MprisTypeOK
  <2>3. m_wk_to_unique = [m_wk_to_unique EXCEPT ![n] = NoPlayer]
    BY <1>1 DEF MprisTypeOK
  <2> QED  BY <1>1, <2>1, <2>2, <2>3
<1>2. CASE m_wk_to_unique[n] # NoPlayer
  BY <1>2 DEF RemovePlayer, SetPlayerPlaying
<1> QED  BY <1>1, <1>2

\* The steps of the bus: a name changes hands, a player changes its status,
\* or one that owns no name leaves.
BusStep ==
  \/ \E p \in Players, n \in Names : PlayerClaims(p, n)
  \/ \E n \in Names : PlayerReleases(n)
  \/ \E p \in Players : PlayerQuits(p) \/ PlayerToggles(p)

NameChangesHands(n, p) ==
  /\ owner' = [owner EXCEPT ![n] = p]
  /\ Emit(OwnerSignal(n, p))
  /\ p # NoPlayer => \A m \in Names : owner[m] # p
  /\ handed' = IF phase = "off" \/ p = NoPlayer THEN handed
               ELSE (handed \ {p}) \cup ({owner[n]} \ {NoPlayer})
  /\ UNCHANGED status

StatusChanges(p) ==
  /\ status' = [status EXCEPT ![p] = ~@]
  /\ Emit(StatusSignal(p, ~status[p]))
  /\ UNCHANGED <<owner, handed>>

LEMMA BusEffect ==
  ASSUME MprisTypeOK, BusInv, BusStep
  PROVE  /\ UNCHANGED monitorVars
         /\ \/ \E n \in Names, p \in Players \cup {NoPlayer} :
                 NameChangesHands(n, p)
            \/ \E p \in Players : StatusChanges(p)
            \/ UNCHANGED <<owner, signals, status, handed>>
<1>1. ASSUME NEW p \in Players, NEW n \in Names, PlayerClaims(p, n)
      PROVE  UNCHANGED monitorVars /\ NameChangesHands(n, p)
  <2>1. p # NoPlayer
    BY MprisAssumption
  <2> QED  BY <1>1, <2>1 DEF PlayerClaims, NameChangesHands
<1>2. ASSUME NEW n \in Names, PlayerReleases(n)
      PROVE  UNCHANGED monitorVars /\ NameChangesHands(n, NoPlayer)
  BY <1>2 DEF PlayerReleases, NameChangesHands
<1>3. ASSUME NEW p \in Players, PlayerQuits(p)
      PROVE  /\ UNCHANGED monitorVars
             /\ \/ \E n \in Names : NameChangesHands(n, NoPlayer)
                \/ UNCHANGED <<owner, signals, status, handed>>
  <2>1. UNCHANGED <<monitorVars, status, handed>>
    BY <1>3 DEF PlayerQuits
  <2>2. ASSUME NEW n \in Names, owner[n] = p, Emit(OwnerSignal(n, NoPlayer))
        PROVE  NameChangesHands(n, NoPlayer)
    <3>1. \A m \in Names : owner[m] = p => m = n
      BY <2>2, MprisAssumption DEF BusInv
    <3>2. owner' = [m \in Names |-> IF owner[m] = p THEN NoPlayer ELSE owner[m]]
      BY <1>3 DEF PlayerQuits
    <3>3. owner' = [owner EXCEPT ![n] = NoPlayer]
      BY <2>2, <3>1, <3>2 DEF MprisTypeOK
    <3> QED  BY <2>1, <2>2, <3>3 DEF NameChangesHands
  <2>3. ASSUME \A n \in Names : owner[n] # p, UNCHANGED signals
        PROVE  UNCHANGED <<owner, signals, status, handed>>
    BY <1>3, <2>1, <2>3 DEF PlayerQuits, MprisTypeOK
  <2> QED  BY <1>3, <2>1, <2>2, <2>3 DEF PlayerQuits
<1>4. ASSUME NEW p \in Players, PlayerToggles(p)
      PROVE  UNCHANGED monitorVars /\ StatusChanges(p)
  BY <1>4 DEF PlayerToggles, StatusChanges
<1> QED  BY <1>1, <1>2, <1>3, <1>4 DEF BusStep

\* The steps of the specification.
LEMMA MprisCases ==
  ASSUME [MprisNext]_mprisVars
  PROVE  \/ StartScan \/ \E n \in Names : ScanName(n)
         \/ SetCallbacks \/ Process \/ Restart \/ BusStep
         \/ UNCHANGED mprisVars
BY DEF MprisNext, BusStep

-----------------------------------------------------------------------------
(* Types *)

LEMMA EmitType ==
  ASSUME MprisTypeOK, NEW s \in Signal, Emit(s)
  PROVE  signals' \in Seq(Signal)
BY SignalAppended DEF Emit, MprisTypeOK

LEMMA MprisTypeStep ==
  ASSUME MprisTypeOK, [MprisNext]_mprisVars
  PROVE  MprisTypeOK'
<1>1. ASSUME NEW playing, playing \subseteq Players, SetPlayerPlaying(playing)
      PROVE  (m_playing \subseteq Players /\ m_inhibiting \in BOOLEAN
                /\ sent \in BOOLEAN)'
  BY <1>1 DEF SetPlayerPlaying, MprisTypeOK
<1>2. ASSUME NEW n \in Names, NEW p \in Players, AddPlayer(n, p)
      PROVE  (m_inhibiting \in BOOLEAN /\ sent \in BOOLEAN)'
  <2>1. QueryPlaybackStatus(p)
    BY <1>2 DEF AddPlayer
  <2>2. CASE UNCHANGED <<m_playing, m_inhibiting, sent>>
    BY <2>2 DEF MprisTypeOK
  <2>3. CASE SetPlayerPlaying(IF status[p] THEN m_playing \cup {p}
                                           ELSE m_playing \ {p})
    BY <1>1, <2>3 DEF MprisTypeOK
  <2> QED  BY <2>1, <2>2, <2>3 DEF QueryPlaybackStatus
<1>3. ASSUME NEW n \in Names, RemovePlayer(n)
      PROVE  (m_inhibiting \in BOOLEAN /\ sent \in BOOLEAN)'
  <2>1. CASE UNCHANGED <<m_inhibiting, sent>>
    BY <2>1 DEF MprisTypeOK
  <2>2. CASE SetPlayerPlaying(m_playing \ {m_wk_to_unique[n]})
    BY <1>1, <2>2 DEF MprisTypeOK
  <2> QED  BY <1>3, <2>1, <2>2 DEF RemovePlayer
<1>4. CASE StartScan
  BY <1>4 DEF StartScan, busVars, MprisTypeOK
<1>5. ASSUME NEW n \in Names, ScanName(n)
      PROVE  MprisTypeOK'
  <2>1. /\ scan' \subseteq Names
        /\ UNCHANGED <<phase, owner, life, status, signals, handed>>
    BY <1>5 DEF ScanName, busVars, MprisTypeOK
  <2>2. CASE owner[n] = NoPlayer
    BY <1>5, <2>1, <2>2 DEF ScanName, MprisTypeOK
  <2>3. CASE owner[n] # NoPlayer
    <3>1. owner[n] \in Players /\ AddPlayer(n, owner[n])
      BY <1>5, <2>3 DEF ScanName, MprisTypeOK
    <3>2. (m_inhibiting \in BOOLEAN /\ sent \in BOOLEAN)'
      BY <1>2, <3>1
    <3>3. /\ (m_wk_to_unique \in [Names -> Players \cup {NoPlayer}])'
          /\ (m_unique_to_wk \subseteq Players /\ m_playing \subseteq Players)'
          /\ (missed \subseteq Players)'
      BY <3>1, AddEffect DEF MprisTypeOK
    <3> QED  BY <2>1, <3>2, <3>3 DEF MprisTypeOK
  <2> QED  BY <2>2, <2>3
<1>6. CASE SetCallbacks
  BY <1>6 DEF SetCallbacks, busVars, MprisTypeOK
<1>7. CASE Process
  <2> DEFINE s == Head(signals)
  <2>1. /\ UNCHANGED <<scan, phase, owner, life, status, handed>>
        /\ signals # <<>> /\ signals' = Tail(signals)
    BY <1>7 DEF Process
  <2>2. s \in Signal /\ signals' \in Seq(Signal)
    BY <2>1, SignalTaken
  <2> HIDE DEF s
  <2>3. CASE HandleNameOwnerChanged(s) /\ s.player # NoPlayer
    <3>1. s.name \in Names /\ s.player \in Players /\ AddPlayer(s.name, s.player)
      BY <2>2, <2>3, SignalTypes DEF HandleNameOwnerChanged
    <3>2. (m_inhibiting \in BOOLEAN /\ sent \in BOOLEAN)'
      BY <1>2, <3>1
    <3>3. /\ (m_wk_to_unique \in [Names -> Players \cup {NoPlayer}])'
          /\ (m_unique_to_wk \subseteq Players /\ m_playing \subseteq Players)'
          /\ (missed \subseteq Players)'
      BY <3>1, AddEffect DEF MprisTypeOK
    <3> QED  BY <2>1, <2>2, <3>2, <3>3 DEF MprisTypeOK
  <2>4. CASE HandleNameOwnerChanged(s) /\ s.player = NoPlayer
    <3>1. s.name \in Names /\ RemovePlayer(s.name)
      BY <2>2, <2>4, SignalTypes DEF HandleNameOwnerChanged
    <3>2. (m_inhibiting \in BOOLEAN /\ sent \in BOOLEAN)'
      BY <1>3, <3>1
    <3>3. /\ (m_wk_to_unique \in [Names -> Players \cup {NoPlayer}])'
          /\ (m_unique_to_wk \subseteq Players /\ m_playing \subseteq Players)'
          /\ (missed \subseteq Players)'
      BY <3>1, RemoveEffect DEF MprisTypeOK
    <3> QED  BY <2>1, <2>2, <3>2, <3>3 DEF MprisTypeOK
  <2>5. CASE HandlePropertiesChanged(s)
    <3>1. UNCHANGED <<m_wk_to_unique, m_unique_to_wk>>
      BY <2>5 DEF HandlePropertiesChanged
    <3>2. CASE UNCHANGED <<m_playing, m_inhibiting, sent, missed>>
      BY <2>1, <2>2, <3>1, <3>2 DEF MprisTypeOK
    <3>3. CASE /\ SetPlayerPlaying(IF s.playing THEN m_playing \cup {s.player}
                                                ELSE m_playing \ {s.player})
               /\ missed' = missed \ {s.player} /\ s.kind = "status"
      <4>1. (m_playing \subseteq Players /\ m_inhibiting \in BOOLEAN
               /\ sent \in BOOLEAN)'
        <5>1. s.player \in Players
          BY <2>2, <3>3, SignalTypes
        <5>2. (IF s.playing THEN m_playing \cup {s.player}
                            ELSE m_playing \ {s.player}) \subseteq Players
          BY <5>1 DEF MprisTypeOK
        <5> QED  BY <1>1, <3>3, <5>2
      <4> QED  BY <2>1, <2>2, <3>1, <3>3, <4>1 DEF MprisTypeOK
    <3> QED  BY <2>5, <3>2, <3>3 DEF HandlePropertiesChanged
  <2> QED  BY <1>7, <2>3, <2>4, <2>5 DEF Process, s
<1>8. CASE Restart
  <2>1. signals' \in Seq(Signal)
    BY <1>8 DEF Restart
  <2> QED  BY <1>8, <2>1 DEF Restart, MprisTypeOK
<1>9. CASE BusStep
  <2>1. UNCHANGED monitorVars
    BY <1>9 DEF BusStep, PlayerClaims, PlayerReleases, PlayerQuits, PlayerToggles
  <2>2. signals' \in Seq(Signal)
    BY <1>9, EmitType, SignalTypes
    DEF BusStep, PlayerClaims, PlayerReleases, PlayerQuits, PlayerToggles,
        MprisTypeOK
  <2>3. /\ owner' \in [Names -> Players \cup {NoPlayer}]
        /\ life' \in [Players -> {"new", "up", "gone"}]
    BY <1>9
    DEF BusStep, PlayerClaims, PlayerReleases, PlayerQuits, PlayerToggles,
        MprisTypeOK
  <2>4. status' \in [Players -> BOOLEAN]
    BY <1>9
    DEF BusStep, PlayerClaims, PlayerReleases, PlayerQuits, PlayerToggles,
        MprisTypeOK
  <2>5. handed' \subseteq Players
    BY <1>9, MprisAssumption
    DEF BusStep, PlayerClaims, PlayerReleases, PlayerQuits, PlayerToggles,
        MprisTypeOK
  <2> QED  BY <2>1, <2>2, <2>3, <2>4, <2>5 DEF monitorVars, MprisTypeOK
<1>10. CASE UNCHANGED mprisVars
  BY <1>10 DEF mprisVars, monitorVars, busVars, MprisTypeOK
<1> QED  BY <1>4, <1>5, <1>6, <1>7, <1>8, <1>9, <1>10, MprisCases

-----------------------------------------------------------------------------
(* Phases, the bus, and what was sent *)

\* What a step of scan_existing_players leaves known of names and players.
LEMMA ScanEffect ==
  ASSUME MprisTypeOK, PhaseInv, NEW n \in Names, ScanName(n)
  PROVE  /\ phase = "scan" /\ n \in scan /\ scan' = scan \ {n}
         /\ UNCHANGED <<phase, owner, life, status, signals, handed>>
         /\ m_wk_to_unique' = [m_wk_to_unique EXCEPT ![n] = owner[n]]
         /\ m_unique_to_wk' = m_unique_to_wk \cup ({owner[n]} \ {NoPlayer})
         /\ m_playing' \subseteq m_playing \cup m_unique_to_wk'
<1>1. /\ phase = "scan" /\ n \in scan /\ scan' = scan \ {n}
      /\ UNCHANGED <<phase, owner, life, status, signals, handed>>
  BY DEF ScanName, busVars
<1>2. CASE owner[n] = NoPlayer
  <2>1. UNCHANGED <<m_wk_to_unique, m_unique_to_wk, m_playing>>
        /\ m_wk_to_unique[n] = NoPlayer
    BY <1>1, <1>2 DEF ScanName, PhaseInv
  <2> QED  BY <1>1, <1>2, <2>1 DEF MprisTypeOK
<1>3. CASE owner[n] # NoPlayer
  <2>1. owner[n] \in Players /\ AddPlayer(n, owner[n])
    BY <1>3 DEF ScanName, MprisTypeOK
  <2>2. m_playing' \subseteq m_playing \cup {owner[n]}
    BY <2>1, AddEffect DEF MprisTypeOK
  <2> QED  BY <1>1, <1>3, <2>1, <2>2, AddEffect
<1> QED  BY <1>2, <1>3

\* What a signal leaves known of names and players.
LEMMA ProcessEffect ==
  ASSUME MprisTypeOK, Process
  PROVE  /\ phase = "run" /\ signals # <<>> /\ signals' = Tail(signals)
         /\ Head(signals) \in Signal
         /\ UNCHANGED <<scan, phase, owner, life, status, handed>>
         /\ m_playing \subseteq m_unique_to_wk => m_playing' \subseteq m_unique_to_wk'
         /\ \/ /\ Head(signals).kind = "owner"
               /\ m_wk_to_unique' = [m_wk_to_unique EXCEPT
                                       ![Head(signals).name] = Head(signals).player]
               /\ m_unique_to_wk' =
                    IF Head(signals).player # NoPlayer
                    THEN m_unique_to_wk \cup {Head(signals).player}
                    ELSE m_unique_to_wk \ {m_wk_to_unique[Head(signals).name]}
            \/ /\ Head(signals).kind = "status"
               /\ UNCHANGED <<m_wk_to_unique, m_unique_to_wk>>
<1> DEFINE s == Head(signals)
<1>1. /\ phase = "run" /\ signals # <<>> /\ signals' = Tail(signals)
      /\ UNCHANGED <<scan, phase, owner, life, status, handed>>
      /\ HandleNameOwnerChanged(s) \/ HandlePropertiesChanged(s)
  BY DEF Process
<1>2. s \in Signal
  BY <1>1, SignalTaken
<1> HIDE DEF s
<1>3. CASE HandlePropertiesChanged(s)
  BY <1>1, <1>2, <1>3 DEF HandlePropertiesChanged, SetPlayerPlaying, s
<1>4. CASE HandleNameOwnerChanged(s) /\ s.player # NoPlayer
  <2>1. s.name \in Names /\ s.player \in Players /\ AddPlayer(s.name, s.player)
        /\ s.kind = "owner"
    BY <1>2, <1>4, SignalTypes DEF HandleNameOwnerChanged
  <2>2. m_playing' \subseteq m_playing \cup {s.player}
    BY <2>1, AddEffect DEF MprisTypeOK
  <2> QED  BY <1>1, <1>2, <1>4, <2>1, <2>2, AddEffect DEF s
<1>5. CASE HandleNameOwnerChanged(s) /\ s.player = NoPlayer
  <2>1. s.name \in Names /\ RemovePlayer(s.name) /\ s.kind = "owner"
    BY <1>2, <1>5, SignalTypes DEF HandleNameOwnerChanged
  <2> QED  BY <1>1, <1>2, <1>5, <2>1, RemoveEffect DEF s
<1> QED  BY <1>1, <1>3, <1>4, <1>5

LEMMA PhaseStep ==
  ASSUME MprisTypeOK, PhaseInv, BusInv, [MprisNext]_mprisVars
  PROVE  PhaseInv'
<1> USE DEF PhaseInv
<1>1. CASE StartScan
  BY <1>1 DEF StartScan, busVars
<1>2. ASSUME NEW n \in Names, ScanName(n) PROVE PhaseInv'
  BY <1>2, ScanEffect DEF MprisTypeOK
<1>3. CASE SetCallbacks
  BY <1>3 DEF SetCallbacks, busVars
<1>4. CASE Process
  BY <1>4, ProcessEffect
<1>5. CASE Restart
  BY <1>5 DEF Restart
<1>6. CASE BusStep
  BY <1>6, BusEffect DEF monitorVars, NameChangesHands, StatusChanges, Emit
<1>7. CASE UNCHANGED mprisVars
  BY <1>7 DEF mprisVars, monitorVars, busVars
<1> QED  BY <1>1, <1>2, <1>3, <1>4, <1>5, <1>6, <1>7, MprisCases

LEMMA BusInvStep ==
  ASSUME MprisTypeOK, BusInv, [MprisNext]_mprisVars
  PROVE  BusInv'
<1> USE MprisAssumption DEF BusInv, MprisTypeOK
<1>1. ASSUME NEW p \in Players, NEW n \in Names, PlayerClaims(p, n) PROVE BusInv'
  BY <1>1 DEF PlayerClaims
<1>2. ASSUME NEW n \in Names, PlayerReleases(n) PROVE BusInv'
  BY <1>2 DEF PlayerReleases
<1>3. ASSUME NEW p \in Players, PlayerQuits(p) PROVE BusInv'
  BY <1>3 DEF PlayerQuits
<1>4. CASE UNCHANGED <<owner, life>>
  BY <1>4
<1> QED
  BY <1>1, <1>2, <1>3, <1>4
  DEF MprisNext, StartScan, ScanName, SetCallbacks, Process, Restart,
      PlayerToggles, mprisVars, busVars

LEMMA SentStep ==
  ASSUME MprisTypeOK, SentInv, [MprisNext]_mprisVars
  PROVE  SentInv'
<1>1. ASSUME NEW playing, SetPlayerPlaying(playing), UNCHANGED phase
      PROVE  SentInv'
  <2>1. m_playing' = playing /\ (m_inhibiting' <=> playing # {})
    BY <1>1 DEF SetPlayerPlaying
  <2>2. CASE sent' = sent /\ (m_inhibiting' = m_inhibiting \/ phase # "run")
    BY <1>1, <2>1, <2>2 DEF SentInv
  <2>3. CASE sent' = m_inhibiting' /\ phase = "run"
    BY <1>1, <2>1, <2>3 DEF SentInv
  <2> QED  BY <1>1, <2>2, <2>3 DEF SetPlayerPlaying
<1>2. ASSUME UNCHANGED <<m_playing, m_inhibiting, sent, phase>>
      PROVE  SentInv'
  BY <1>2 DEF SentInv
<1>3. ASSUME NEW n, NEW p, AddPlayer(n, p) \/ RemovePlayer(n), UNCHANGED phase
      PROVE  SentInv'
  BY <1>1, <1>2, <1>3 DEF AddPlayer, QueryPlaybackStatus, RemovePlayer
<1>4. CASE StartScan \/ SetCallbacks
  BY <1>4 DEF StartScan, SetCallbacks, SentInv
<1>5. ASSUME NEW n \in Names, ScanName(n) PROVE SentInv'
  BY <1>2, <1>3, <1>5 DEF ScanName
<1>6. CASE Process
  BY <1>1, <1>2, <1>3, <1>6
  DEF Process, HandleNameOwnerChanged, HandlePropertiesChanged
<1>7. CASE Restart
  BY <1>7 DEF Restart, SentInv
<1>8. CASE BusStep
  BY <1>2, <1>8
  DEF BusStep, PlayerClaims, PlayerReleases, PlayerQuits, PlayerToggles,
      monitorVars
<1>9. CASE UNCHANGED mprisVars
  BY <1>2, <1>9 DEF mprisVars, monitorVars
<1> QED  BY <1>4, <1>5, <1>6, <1>7, <1>8, <1>9, MprisCases

-----------------------------------------------------------------------------
(* Who owns a name *)

\* A change of hands is announced behind what is under way.
LEMMA OwnersAnnounced ==
  ASSUME MprisTypeOK, OwnersUnderWay, phase # "off",
         UNCHANGED <<m_wk_to_unique, scan, phase>>,
         NEW x \in Names, NEW p \in Players \cup {NoPlayer},
         NameChangesHands(x, p)
  PROVE  OwnersUnderWay'
<1> DEFINE s == OwnerSignal(x, p)
<1>k. PICK k : k = Len(signals) + 1
  OBVIOUS
<1>1. signals' = Append(signals, s) /\ s \in Signal
      /\ s.kind = "owner" /\ s.name = x /\ s.player = p
  BY SignalTypes DEF NameChangesHands, Emit
<1>2. /\ DOMAIN signals' = DOMAIN signals \cup {k}
      /\ signals'[k] = s /\ k \in Nat
      /\ \A i \in DOMAIN signals : i < k /\ i \in Nat /\ signals'[i] = signals[i]
  BY <1>k, <1>1, SignalAppended
<1> HIDE DEF s
<1>3. owner'[x] = p /\ \A n \in Names : n # x => owner'[n] = owner[n]
  BY DEF NameChangesHands, MprisTypeOK
<1>4. ASSUME NEW n \in Names, n # x
      PROVE  /\ NoOwnerSignal(n) => NoOwnerSignal(n)'
             /\ \A j : LastOwner(j, n) => LastOwner(j, n)'
  BY <1>1, <1>2, <1>4 DEF NoOwnerSignal, LastOwner, OwnerAt
<1>5. LastOwner(k, x)' /\ k \in DOMAIN signals' /\ signals'[k].player = owner'[x]
  BY <1>1, <1>2, <1>3 DEF LastOwner, OwnerAt
<1>6. ASSUME NEW n \in Names, n # x
      PROVE  \/ NoOwnerSignal(n)' /\ (n \notin scan' => m_wk_to_unique'[n] = owner'[n])
             \/ \E j \in DOMAIN signals' :
                  LastOwner(j, n)' /\ signals'[j].player = owner'[n]
  BY <1>2, <1>3, <1>4, <1>6 DEF OwnersUnderWay
<1>7. \E j \in DOMAIN signals' :
        LastOwner(j, x)' /\ signals'[j].player = owner'[x]
  BY <1>5
<1> QED  BY <1>6, <1>7 DEF OwnersUnderWay

\* Signals of the other kind say nothing about names.
LEMMA StatusAnnounced ==
  ASSUME MprisTypeOK, phase # "off", NEW p \in Players, StatusChanges(p)
  PROVE  /\ DOMAIN signals' = DOMAIN signals \cup {Len(signals) + 1}
         /\ Len(signals) + 1 \in Nat
         /\ signals'[Len(signals) + 1] = StatusSignal(p, ~status[p])
         /\ StatusSignal(p, ~status[p]).kind = "status"
         /\ StatusSignal(p, ~status[p]).player = p
         /\ StatusSignal(p, ~status[p]).playing = status'[p]
         /\ \A i \in DOMAIN signals : /\ i < Len(signals) + 1 /\ i \in Nat
                                      /\ signals'[i] = signals[i]
<1>1. (~status[p]) \in BOOLEAN /\ status'[p] = ~status[p]
  BY DEF StatusChanges, MprisTypeOK
<1>2. signals' = Append(signals, StatusSignal(p, ~status[p]))
  BY DEF StatusChanges, Emit
<1>3. /\ StatusSignal(p, ~status[p]) \in Signal
      /\ StatusSignal(p, ~status[p]).kind = "status"
      /\ StatusSignal(p, ~status[p]).player = p
      /\ StatusSignal(p, ~status[p]).playing = ~status[p]
  BY <1>1, SignalTypes
<1> QED  BY <1>1, <1>2, <1>3, SignalAppended

LEMMA OwnersStep ==
  ASSUME MprisTypeOK, PhaseInv, BusInv, OwnersUnderWay, [MprisNext]_mprisVars
  PROVE  OwnersUnderWay'
<1>1. CASE StartScan
  <2>1. /\ signals' = <<>> /\ UNCHANGED <<owner, m_wk_to_unique>>
        /\ \A n \in Names : m_wk_to_unique[n] = NoPlayer
        /\ \A n \in Names : n \notin scan' => owner[n] = NoPlayer
    BY <1>1 DEF StartScan, busVars, PhaseInv
  <2> QED  BY <2>1 DEF OwnersUnderWay, NoOwnerSignal
<1>2. ASSUME NEW x \in Names, ScanName(x)
      PROVE  OwnersUnderWay'
  <2>1. /\ phase # "off" /\ scan' = scan \ {x} /\ UNCHANGED <<owner, signals>>
        /\ m_wk_to_unique'[x] = owner[x]
        /\ \A n \in Names : n # x => m_wk_to_unique'[n] = m_wk_to_unique[n]
    BY <1>2, ScanEffect DEF MprisTypeOK
  <2> QED  BY <2>1 DEF OwnersUnderWay, NoOwnerSignal, LastOwner, OwnerAt
<1>3. CASE SetCallbacks
  BY <1>3 DEF SetCallbacks, busVars, OwnersUnderWay, NoOwnerSignal, LastOwner,
              OwnerAt
<1>4. CASE Process
  <2>1. /\ signals # <<>> /\ signals' = Tail(signals) /\ phase # "off"
        /\ Head(signals) \in Signal /\ UNCHANGED <<scan, owner>>
    BY <1>4, ProcessEffect
  <2>2. /\ 1 \in DOMAIN signals /\ Head(signals) = signals[1]
        /\ \A i \in DOMAIN signals' : /\ i \in Nat /\ i > 0
                                      /\ i + 1 \in DOMAIN signals
                                      /\ signals'[i] = signals[i + 1]
        /\ \A i \in DOMAIN signals : /\ i \in Nat /\ i > 0
                                     /\ i # 1 => /\ i - 1 \in DOMAIN signals'
                                                 /\ signals'[i - 1] = signals[i]
    BY <2>1, SignalTaken
  <2> SUFFICES ASSUME NEW n \in Names
               PROVE  \/ /\ NoOwnerSignal(n)'
                         /\ n \notin scan' => m_wk_to_unique'[n] = owner'[n]
                      \/ \E k \in DOMAIN signals' :
                           LastOwner(k, n)' /\ signals'[k].player = owner'[n]
    BY DEF OwnersUnderWay
  <2>3. ~OwnerAt(1, n) => m_wk_to_unique'[n] = m_wk_to_unique[n]
    BY <1>4, <2>1, <2>2, ProcessEffect DEF OwnerAt, MprisTypeOK
  <2>4. OwnerAt(1, n) => m_wk_to_unique'[n] = signals[1].player
    BY <1>4, <2>1, <2>2, ProcessEffect DEF OwnerAt, MprisTypeOK
  <2>5. CASE NoOwnerSignal(n) /\ (n \notin scan => m_wk_to_unique[n] = owner[n])
    BY <2>1, <2>2, <2>3, <2>5 DEF NoOwnerSignal, OwnerAt
  <2>6. ASSUME NEW k \in DOMAIN signals, LastOwner(k, n),
               signals[k].player = owner[n]
        PROVE  \/ /\ NoOwnerSignal(n)'
                  /\ n \notin scan' => m_wk_to_unique'[n] = owner'[n]
               \/ \E j \in DOMAIN signals' :
                    LastOwner(j, n)' /\ signals'[j].player = owner'[n]
    <3>1. CASE k = 1
      <4>1. \A i \in DOMAIN signals' : ~OwnerAt(i, n)'
        BY <2>2, <2>6, <3>1 DEF LastOwner, OwnerAt
      <4>2. m_wk_to_unique'[n] = owner[n]
        BY <2>4, <2>6, <3>1 DEF LastOwner
      <4> QED  BY <2>1, <4>1, <4>2 DEF NoOwnerSignal
    <3>2. CASE k # 1
      <4>1. k - 1 \in DOMAIN signals' /\ signals'[k - 1] = signals[k]
        BY <2>2, <3>2
      <4>2. \A i \in DOMAIN signals' : i > k - 1 => ~OwnerAt(i, n)'
        BY <2>2, <2>6 DEF LastOwner, OwnerAt
      <4>3. LastOwner(k - 1, n)'
        BY <2>6, <4>1, <4>2 DEF LastOwner, OwnerAt
      <4> QED  BY <2>1, <2>6, <4>1, <4>3
    <3> QED  BY <3>1, <3>2
  <2> QED  BY <2>1, <2>5, <2>6 DEF OwnersUnderWay
<1>5. CASE Restart
  BY <1>5 DEF Restart, OwnersUnderWay
<1>6. CASE BusStep
  <2>1. UNCHANGED <<m_wk_to_unique, scan, phase>>
    BY <1>6, BusEffect DEF monitorVars
  <2>2. CASE phase = "off"
    BY <2>1, <2>2 DEF OwnersUnderWay
  <2>3. CASE phase # "off"
    <3>1. ASSUME NEW n \in Names, NEW p \in Players \cup {NoPlayer},
                 NameChangesHands(n, p)
          PROVE  OwnersUnderWay'
      BY <2>1, <2>3, <3>1, OwnersAnnounced
    <3>2. ASSUME NEW p \in Players, StatusChanges(p)
          PROVE  OwnersUnderWay'
      <4> DEFINE k == Len(signals) + 1
      <4>1. /\ DOMAIN signals' = DOMAIN signals \cup {k}
            /\ signals'[k].kind = "status"
            /\ \A i \in DOMAIN signals : signals'[i] = signals[i]
        BY <2>3, <3>2, StatusAnnounced
      <4> HIDE DEF k
      <4>2. UNCHANGED owner
        BY <3>2 DEF StatusChanges
      <4>3. \A n \in Names : /\ NoOwnerSignal(n) => NoOwnerSignal(n)'
                             /\ \A j : LastOwner(j, n) => LastOwner(j, n)'
        BY <4>1 DEF NoOwnerSignal, LastOwner, OwnerAt
      <4> QED  BY <2>1, <4>1, <4>2, <4>3 DEF OwnersUnderWay, LastOwner
    <3>3. CASE UNCHANGED <<owner, signals>>
      BY <2>1, <3>3 DEF OwnersUnderWay, NoOwnerSignal, LastOwner, OwnerAt
    <3> QED  BY <1>6, <3>1, <3>2, <3>3, BusEffect
  <2> QED  BY <2>2, <2>3
<1>7. CASE UNCHANGED mprisVars
  BY <1>7 DEF mprisVars, monitorVars, busVars, OwnersUnderWay, NoOwnerSignal,
              LastOwner, OwnerAt
<1> QED  BY <1>1, <1>2, <1>3, <1>4, <1>5, <1>6, <1>7, MprisCases

-----------------------------------------------------------------------------
(* Players that move to another name *)

\* A queue that grows at its end keeps the moves it announces.
LEMMA MovesKept ==
  ASSUME NEW h, NEW m, NEW n, Moves(h, m, n), owner'[n] = owner[n],
         \A i \in DOMAIN signals : i \in DOMAIN signals' /\ signals'[i] = signals[i]
  PROVE  Moves(h, m, n)'
BY DEF Moves, OwnerAt

\* The player takes its new name after the loss of the old one was announced.
LEMMA MoveAnnounced ==
  ASSUME MprisTypeOK, PhaseInv, OwnersUnderWay, MovesInOrder, phase # "off",
         UNCHANGED <<m_wk_to_unique, phase>>,
         NEW x \in Names, NEW p \in Players \cup {NoPlayer},
         NameChangesHands(x, p)
  PROVE  MovesInOrder'
<1> DEFINE s == OwnerSignal(x, p)
<1>k. PICK k : k = Len(signals) + 1
  OBVIOUS
<1>1. signals' = Append(signals, s) /\ s \in Signal
      /\ s.kind = "owner" /\ s.name = x /\ s.player = p
  BY SignalTypes DEF NameChangesHands, Emit
<1>2. /\ DOMAIN signals' = DOMAIN signals \cup {k}
      /\ signals'[k] = s /\ k \in Nat
      /\ \A i \in DOMAIN signals :
           i < k /\ i > 0 /\ i \in Nat /\ signals'[i] = signals[i]
  BY <1>k, <1>1, SignalAppended
<1> HIDE DEF s
<1>3. owner'[x] = p /\ \A n \in Names : n # x => owner'[n] = owner[n]
  BY DEF NameChangesHands, MprisTypeOK
<1>4. p # NoPlayer => \A m \in Names : owner[m] # p
  BY DEF NameChangesHands
<1> SUFFICES ASSUME NEW m \in Names, NEW n \in Names, m # n, owner'[n] # NoPlayer
             PROVE  /\ m_wk_to_unique'[m] = owner'[n] => Moves(0, m, n)'
                    /\ \A h \in DOMAIN signals' :
                         OwnerAt(h, m)' /\ signals'[h].player = owner'[n]
                           => Moves(h, m, n)'
  BY DEF MovesInOrder
<1>5. CASE n # x
  <2>1. owner'[n] = owner[n]
    BY <1>3, <1>5
  <2>2. m_wk_to_unique'[m] = owner'[n] => Moves(0, m, n)'
    BY <1>2, <2>1, MovesKept DEF MovesInOrder
  <2>3. ASSUME NEW h \in DOMAIN signals', OwnerAt(h, m)',
               signals'[h].player = owner'[n]
        PROVE  Moves(h, m, n)'
    <3>1. h # k
      BY <1>1, <1>2, <1>4, <2>1, <2>3
    <3>2. h \in DOMAIN signals /\ OwnerAt(h, m) /\ signals[h].player = owner[n]
      BY <1>2, <2>1, <2>3, <3>1 DEF OwnerAt
    <3> QED  BY <1>2, <2>1, <3>2, MovesKept DEF MovesInOrder
  <2> QED  BY <2>2, <2>3
<1>6. CASE n = x
  <2>1. owner'[n] = p /\ p # NoPlayer /\ owner[m] # p
    BY <1>3, <1>4, <1>6
  <2>2. OwnerAt(k, n)' /\ k \in DOMAIN signals'
    BY <1>1, <1>2, <1>6 DEF OwnerAt
  <2>3. ASSUME NEW i \in DOMAIN signals, OwnerAt(i, m),
               signals[i].player # p, NEW h, h < i
        PROVE  Moves(h, m, n)'
    <3>1. i \in DOMAIN signals' /\ i < k /\ OwnerAt(i, m)'
          /\ signals'[i].player # owner'[n]
      BY <1>2, <2>1, <2>3 DEF OwnerAt
    <3> QED  BY <2>2, <2>3, <3>1 DEF Moves
  <2>4. ASSUME m_wk_to_unique'[m] = owner'[n]
        PROVE  Moves(0, m, n)'
    <3>1. m_wk_to_unique[m] = p /\ m \notin scan
      BY <2>1, <2>4 DEF PhaseInv
    <3>2. PICK i \in DOMAIN signals : LastOwner(i, m) /\ signals[i].player = owner[m]
      BY <2>1, <3>1 DEF OwnersUnderWay
    <3> QED  BY <1>2, <2>1, <2>3, <3>2 DEF LastOwner
  <2>5. ASSUME NEW h \in DOMAIN signals', OwnerAt(h, m)',
               signals'[h].player = owner'[n]
        PROVE  Moves(h, m, n)'
    <3>1. h # k
      BY <1>1, <1>2, <1>6, <2>5 DEF OwnerAt
    <3>2. h \in DOMAIN signals /\ OwnerAt(h, m) /\ signals[h].player = p
      BY <1>2, <2>1, <2>5, <3>1 DEF OwnerAt
    <3>3. PICK i \in DOMAIN signals : LastOwner(i, m) /\ signals[i].player = owner[m]
      BY <3>2 DEF OwnersUnderWay, NoOwnerSignal
    <3>4. i # h /\ ~(h > i)
      BY <2>1, <3>2, <3>3 DEF LastOwner
    <3>5. h < i
      BY <1>2, <3>2, <3>4
    <3> QED  BY <2>1, <2>3, <3>3, <3>5 DEF LastOwner
  <2> QED  BY <2>4, <2>5
<1> QED  BY <1>5, <1>6

LEMMA MovesStep ==
  ASSUME MprisTypeOK, PhaseInv, BusInv, OwnersUnderWay, MovesInOrder,
         [MprisNext]_mprisVars
  PROVE  MovesInOrder'
<1>1. CASE StartScan
  <2>1. /\ signals' = <<>> /\ UNCHANGED m_wk_to_unique
        /\ \A n \in Names : m_wk_to_unique[n] = NoPlayer
    BY <1>1 DEF StartScan, busVars, PhaseInv
  <2> QED  BY <2>1 DEF MovesInOrder
<1>2. ASSUME NEW x \in Names, ScanName(x)
      PROVE  MovesInOrder'
  <2>1. /\ phase # "off" /\ UNCHANGED <<owner, signals>>
        /\ m_wk_to_unique'[x] = owner[x]
        /\ \A n \in Names : n # x => m_wk_to_unique'[n] = m_wk_to_unique[n]
    BY <1>2, ScanEffect DEF MprisTypeOK
  <2>2. \A n \in Names : n # x /\ owner[n] # NoPlayer => owner[x] # owner[n]
    BY DEF BusInv
  <2>3. \A h, m, n : Moves(h, m, n) => Moves(h, m, n)'
    BY <2>1 DEF Moves, OwnerAt
  <2> QED  BY <2>1, <2>2, <2>3 DEF MovesInOrder, OwnerAt
<1>3. CASE SetCallbacks
  BY <1>3 DEF SetCallbacks, busVars, MovesInOrder, Moves, OwnerAt
<1>4. CASE Process
  <2>1. /\ signals # <<>> /\ signals' = Tail(signals) /\ phase # "off"
        /\ Head(signals) \in Signal /\ UNCHANGED <<scan, owner>>
    BY <1>4, ProcessEffect
  <2>2. /\ 1 \in DOMAIN signals /\ Head(signals) = signals[1]
        /\ \A i \in DOMAIN signals' : /\ i \in Nat /\ i > 0
                                      /\ i + 1 \in DOMAIN signals
                                      /\ signals'[i] = signals[i + 1]
        /\ \A i \in DOMAIN signals : /\ i \in Nat /\ i > 0
                                     /\ i # 1 => /\ i - 1 \in DOMAIN signals'
                                                 /\ signals'[i - 1] = signals[i]
    BY <2>1, SignalTaken
  <2> SUFFICES ASSUME NEW m \in Names, NEW n \in Names, m # n,
                      owner[n] # NoPlayer
               PROVE  /\ m_wk_to_unique'[m] = owner[n] => Moves(0, m, n)'
                      /\ \A h \in DOMAIN signals' :
                           OwnerAt(h, m)' /\ signals'[h].player = owner[n]
                             => Moves(h, m, n)'
    BY <2>1 DEF MovesInOrder
  <2>3. ASSUME NEW h \in Nat, Moves(h + 1, m, n)
        PROVE  Moves(h, m, n)'
    <3>1. PICK i \in DOMAIN signals, j \in DOMAIN signals :
            /\ h + 1 < i /\ i < j
            /\ OwnerAt(i, m) /\ signals[i].player # owner[n]
            /\ OwnerAt(j, n)
      BY <2>3 DEF Moves
    <3>2. /\ i - 1 \in DOMAIN signals' /\ signals'[i - 1] = signals[i]
          /\ j - 1 \in DOMAIN signals' /\ signals'[j - 1] = signals[j]
          /\ h < i - 1 /\ i - 1 < j - 1
      BY <2>2, <2>3, <3>1
    <3>3. OwnerAt(i - 1, m)' /\ signals'[i - 1].player # owner'[n]
          /\ OwnerAt(j - 1, n)'
      BY <2>1, <3>1, <3>2 DEF OwnerAt
    <3> QED  BY <3>2, <3>3 DEF Moves
  <2>4. ASSUME m_wk_to_unique'[m] = owner[n]
        PROVE  Moves(0, m, n)'
    <3>1. CASE OwnerAt(1, m)
      <4>1. signals[1].player = owner[n]
        BY <1>4, <2>1, <2>2, <2>4, <3>1, ProcessEffect DEF OwnerAt, MprisTypeOK
      <4>2. Moves(1, m, n)
        BY <2>1, <2>2, <3>1, <4>1 DEF MovesInOrder
      <4> QED  BY <2>3, <4>2
    <3>2. CASE ~OwnerAt(1, m)
      <4>1. m_wk_to_unique[m] = owner[n]
        BY <1>4, <2>1, <2>2, <2>4, <3>2, ProcessEffect DEF OwnerAt, MprisTypeOK
      <4>2. Moves(0, m, n)
        BY <2>1, <4>1 DEF MovesInOrder
      <4>3. Moves(1, m, n)
        <5>1. PICK i \in DOMAIN signals, j \in DOMAIN signals :
                /\ 0 < i /\ i < j
                /\ OwnerAt(i, m) /\ signals[i].player # owner[n]
                /\ OwnerAt(j, n)
          BY <4>2 DEF Moves
        <5>2. 1 < i
          BY <2>2, <3>2, <5>1
        <5> QED  BY <5>1, <5>2 DEF Moves
      <4> QED  BY <2>3, <4>3
    <3> QED  BY <3>1, <3>2
  <2>5. ASSUME NEW h \in DOMAIN signals', OwnerAt(h, m)',
               signals'[h].player = owner[n]
        PROVE  Moves(h, m, n)'
    <3>1. h + 1 \in DOMAIN signals /\ OwnerAt(h + 1, m) /\ h \in Nat
          /\ signals[h + 1].player = owner[n]
      BY <2>2, <2>5 DEF OwnerAt
    <3>2. Moves(h + 1, m, n)
      BY <2>1, <3>1 DEF MovesInOrder
    <3> QED  BY <2>3, <3>1, <3>2
  <2> QED  BY <2>4, <2>5
<1>5. CASE Restart
  BY <1>5 DEF Restart, MovesInOrder
<1>6. CASE BusStep
  <2>1. UNCHANGED <<m_wk_to_unique, scan, phase>>
    BY <1>6, BusEffect DEF monitorVars
  <2>2. CASE phase = "off"
    BY <2>1, <2>2 DEF MovesInOrder
  <2>3. CASE phase # "off"
    <3>1. ASSUME NEW n \in Names, NEW p \in Players \cup {NoPlayer},
                 NameChangesHands(n, p)
          PROVE  MovesInOrder'
      BY <2>1, <2>3, <3>1, MoveAnnounced
    <3>2. ASSUME NEW p \in Players, StatusChanges(p)
          PROVE  MovesInOrder'
      <4>k. PICK k : k = Len(signals) + 1
        OBVIOUS
      <4>1. /\ DOMAIN signals' = DOMAIN signals \cup {k}
            /\ signals'[k].kind = "status"
            /\ \A i \in DOMAIN signals : signals'[i] = signals[i]
        BY <2>3, <3>2, <4>k, StatusAnnounced
      <4>2. UNCHANGED owner
        BY <3>2 DEF StatusChanges
      <4>3. \A h, m, n : Moves(h, m, n) => Moves(h, m, n)'
        BY <4>1, <4>2, MovesKept
      <4>4. \A m, h : h \in DOMAIN signals' /\ OwnerAt(h, m)' =>
                      /\ h \in DOMAIN signals /\ OwnerAt(h, m)
                      /\ signals'[h] = signals[h]
        BY <4>1 DEF OwnerAt
      <4> QED  BY <2>1, <4>2, <4>3, <4>4 DEF MovesInOrder
    <3>3. CASE UNCHANGED <<owner, signals>>
      BY <2>1, <3>3 DEF MovesInOrder, Moves, OwnerAt
    <3> QED  BY <1>6, <3>1, <3>2, <3>3, BusEffect
  <2> QED  BY <2>2, <2>3
<1>7. CASE UNCHANGED mprisVars
  BY <1>7 DEF mprisVars, monitorVars, busVars, MovesInOrder, Moves, OwnerAt
<1> QED  BY <1>1, <1>2, <1>3, <1>4, <1>5, <1>6, <1>7, MprisCases

-----------------------------------------------------------------------------
(* Owners are known, and their status *)

LEMMA KnownStep ==
  ASSUME MprisTypeOK, PhaseInv, BusInv, OwnersUnderWay, MovesInOrder,
         OwnersKnown, [MprisNext]_mprisVars
  PROVE  OwnersKnown'
<1>1. CASE StartScan
  BY <1>1 DEF StartScan, busVars, OwnersKnown
<1>2. ASSUME NEW x \in Names, ScanName(x)
      PROVE  OwnersKnown'
  <2>1. /\ phase # "off" /\ UNCHANGED <<owner, signals>> /\ scan' = scan \ {x}
        /\ m_unique_to_wk \subseteq m_unique_to_wk'
        /\ owner[x] # NoPlayer => owner[x] \in m_unique_to_wk'
    BY <1>2, ScanEffect
  <2> QED  BY <2>1 DEF OwnersKnown, NoOwnerSignal, OwnerAt
<1>3. CASE SetCallbacks
  BY <1>3 DEF SetCallbacks, busVars, OwnersKnown, NoOwnerSignal, OwnerAt
<1>4. CASE Process
  <2>1. /\ signals # <<>> /\ signals' = Tail(signals) /\ phase # "off"
        /\ Head(signals) \in Signal /\ UNCHANGED <<scan, owner>>
    BY <1>4, ProcessEffect
  <2>2. /\ 1 \in DOMAIN signals /\ Head(signals) = signals[1]
        /\ \A i \in DOMAIN signals : /\ i \in Nat /\ i > 0
                                     /\ i # 1 => /\ i - 1 \in DOMAIN signals'
                                                 /\ signals'[i - 1] = signals[i]
    BY <2>1, SignalTaken
  <2> SUFFICES ASSUME NEW n \in Names \ scan, owner[n] # NoPlayer,
                      NoOwnerSignal(n)'
               PROVE  owner[n] \in m_unique_to_wk'
    BY <2>1 DEF OwnersKnown
  <2>3. \A i \in DOMAIN signals : i # 1 => ~OwnerAt(i, n)
    BY <2>2 DEF NoOwnerSignal, OwnerAt
  <2>4. CASE OwnerAt(1, n)
    <3>1. signals[1].player = owner[n]
      BY <2>1, <2>2, <2>3, <2>4 DEF OwnersUnderWay, NoOwnerSignal, LastOwner
    <3> QED  BY <1>4, <2>2, <2>4, <3>1, ProcessEffect DEF OwnerAt
  <2>5. CASE ~OwnerAt(1, n)
    <3>1. NoOwnerSignal(n)
      BY <2>3, <2>5 DEF NoOwnerSignal
    <3>2. owner[n] \in m_unique_to_wk
      BY <2>1, <3>1 DEF OwnersKnown
    <3>3. \A m \in Names : m # n => m_wk_to_unique[m] # owner[n]
      BY <2>1, <3>1 DEF MovesInOrder, Moves, NoOwnerSignal
    <3>4. CASE Head(signals).kind = "owner"
      <4>1. Head(signals).name \in Names /\ Head(signals).name # n
        BY <2>1, <2>2, <2>5, <3>4, SignalTypes DEF OwnerAt
      <4>2. m_wk_to_unique[Head(signals).name] # owner[n]
        BY <3>3, <4>1
      <4> QED  BY <1>4, <3>2, <4>2, ProcessEffect
    <3>5. CASE Head(signals).kind = "status"
      BY <1>4, <3>2, <3>5, ProcessEffect
    <3> QED  BY <2>1, <3>4, <3>5, SignalTypes
  <2> QED  BY <2>4, <2>5
<1>5. CASE Restart
  BY <1>5 DEF Restart, OwnersKnown
<1>6. CASE BusStep
  <2>1. UNCHANGED <<m_unique_to_wk, scan, phase>>
    BY <1>6, BusEffect DEF monitorVars
  <2>2. CASE phase = "off"
    BY <2>1, <2>2 DEF OwnersKnown
  <2>3. CASE phase # "off"
    <3>1. ASSUME NEW x \in Names, NEW p \in Players \cup {NoPlayer},
                 NameChangesHands(x, p)
          PROVE  OwnersKnown'
      <4>k. PICK k : k = Len(signals) + 1
        OBVIOUS
      <4>1. /\ OwnerSignal(x, p) \in Signal /\ OwnerSignal(x, p).kind = "owner"
            /\ OwnerSignal(x, p).name = x
        BY SignalTypes
      <4>2. signals' = Append(signals, OwnerSignal(x, p))
        BY <2>3, <3>1 DEF NameChangesHands, Emit
      <4>3. /\ k \in DOMAIN signals' /\ signals'[k] = OwnerSignal(x, p)
            /\ \A i \in DOMAIN signals : /\ i \in DOMAIN signals'
                                         /\ signals'[i] = signals[i]
        BY <4>k, <4>1, <4>2, SignalAppended
      <4>4. ~NoOwnerSignal(x)'
        BY <4>1, <4>3 DEF NoOwnerSignal, OwnerAt
      <4>5. \A n \in Names : n # x => owner'[n] = owner[n]
        BY <3>1 DEF NameChangesHands, MprisTypeOK
      <4>6. \A n \in Names : NoOwnerSignal(n)' => NoOwnerSignal(n)
        BY <4>3 DEF NoOwnerSignal, OwnerAt
      <4> QED  BY <2>1, <4>4, <4>5, <4>6 DEF OwnersKnown
    <3>2. ASSUME NEW p \in Players, StatusChanges(p)
          PROVE  OwnersKnown'
      <4>1. \A i \in DOMAIN signals : /\ i \in DOMAIN signals'
                                      /\ signals'[i] = signals[i]
        BY <2>3, <3>2, StatusAnnounced
      <4>2. \A n \in Names : NoOwnerSignal(n)' => NoOwnerSignal(n)
        BY <4>1 DEF NoOwnerSignal, OwnerAt
      <4>3. UNCHANGED owner
        BY <3>2 DEF StatusChanges
      <4> QED  BY <2>1, <4>2, <4>3 DEF OwnersKnown
    <3>3. CASE UNCHANGED <<owner, signals>>
      BY <2>1, <3>3 DEF OwnersKnown, NoOwnerSignal, OwnerAt
    <3> QED  BY <1>6, <3>1, <3>2, <3>3, BusEffect
  <2> QED  BY <2>2, <2>3
<1>7. CASE UNCHANGED mprisVars
  BY <1>7 DEF mprisVars, monitorVars, busVars, OwnersKnown, NoOwnerSignal, OwnerAt
<1> QED  BY <1>1, <1>2, <1>3, <1>4, <1>5, <1>6, <1>7, MprisCases

\* A player that has been asked, or forgotten, or left alone.
Learnt(p) ==
  \/ p \in missed'
  \/ p \in m_playing' <=> status[p]
  \/ p \notin m_unique_to_wk'
  \/ /\ p \in m_unique_to_wk' => p \in m_unique_to_wk
     /\ p \notin missed' => p \notin missed
     /\ p \in m_playing' <=> p \in m_playing

\* What add_player, remove_player and a status signal make of each player.
LEMMA AddLearns ==
  ASSUME MprisTypeOK, NEW n \in Names, NEW q \in Players, AddPlayer(n, q),
         NEW p \in Players
  PROVE  Learnt(p)
BY AddEffect DEF Learnt

LEMMA RemoveLearns ==
  ASSUME MprisTypeOK, NEW n \in Names, RemovePlayer(n), NEW p \in Players
  PROVE  Learnt(p)
BY RemoveEffect DEF Learnt

\* Learning keeps the status of a player whose signals stay as they are.
LEMMA LearntOK ==
  ASSUME NEW p \in Players, StatusOK(p), Learnt(p), UNCHANGED status,
         \/ UNCHANGED signals
         \/ /\ NoStatusSignal(p) => NoStatusSignal(p)'
            /\ (\E k \in DOMAIN signals :
                  LastStatus(k, p) /\ signals[k].playing = status[p])
                 => \E k \in DOMAIN signals' :
                      LastStatus(k, p)' /\ signals'[k].playing = status[p]
  PROVE  StatusOK(p)'
<1>1. CASE NoStatusSignal(p)
           /\ (p \in m_unique_to_wk \ missed => (p \in m_playing <=> status[p]))
  <2>1. NoStatusSignal(p)'
    BY <1>1 DEF NoStatusSignal, StatusAt
  <2>2. (p \in m_unique_to_wk \ missed)' => (p \in m_playing' <=> status[p])
    BY <1>1 DEF Learnt
  <2> QED  BY <2>1, <2>2 DEF StatusOK
<1>2. ASSUME NEW k \in DOMAIN signals, LastStatus(k, p),
             signals[k].playing = status[p]
      PROVE  StatusOK(p)'
  <2>1. CASE UNCHANGED signals
    <3>1. LastStatus(k, p)' /\ k \in DOMAIN signals' /\ signals'[k].playing = status'[p]
      BY <1>2, <2>1 DEF LastStatus, StatusAt
    <3> QED  BY <3>1 DEF StatusOK
  <2>2. CASE \E j \in DOMAIN signals' :
               LastStatus(j, p)' /\ signals'[j].playing = status[p]
    BY <2>2 DEF StatusOK
  <2> QED  BY <1>2, <2>1, <2>2
<1> QED  BY <1>1, <1>2 DEF StatusOK

\* A status signal settles its player when it is the last one.
LEMMA StatusRead ==
  ASSUME MprisTypeOK, NEW s \in Signal, HandlePropertiesChanged(s),
         NEW p \in Players
  PROVE  /\ UNCHANGED m_unique_to_wk
         /\ p # s.player => Learnt(p)
         /\ p = s.player /\ p \in m_unique_to_wk
              => (p \in m_playing' <=> s.playing)
<1>1. UNCHANGED m_unique_to_wk /\ s.kind = "status"
  BY DEF HandlePropertiesChanged
<1>2. CASE s.player \in m_unique_to_wk
  <2>1. /\ m_playing' = IF s.playing THEN m_playing \cup {s.player}
                                     ELSE m_playing \ {s.player}
        /\ missed' = missed \ {s.player}
    BY <1>2 DEF HandlePropertiesChanged, SetPlayerPlaying
  <2>2. CASE s.playing
    BY <1>1, <2>1, <2>2 DEF Learnt
  <2>3. CASE ~s.playing
    BY <1>1, <2>1, <2>3 DEF Learnt
  <2> QED  BY <2>2, <2>3
<1>3. CASE s.player \notin m_unique_to_wk
  <2>1. UNCHANGED <<m_playing, missed>>
    BY <1>3 DEF HandlePropertiesChanged
  <2> QED  BY <1>1, <1>3, <2>1 DEF Learnt
<1> QED  BY <1>2, <1>3

LEMMA StatusStep ==
  ASSUME MprisTypeOK, PhaseInv, BusInv, StatusUnderWay, [MprisNext]_mprisVars
  PROVE  StatusUnderWay'
<1> SUFFICES ASSUME NEW p \in Players PROVE StatusOK(p)'
  BY DEF StatusUnderWay
<1>a. StatusOK(p)
  BY DEF StatusUnderWay
<1>1. ASSUME UNCHANGED <<m_unique_to_wk, m_playing, missed, status, signals>>
      PROVE  StatusOK(p)'
  BY <1>1, <1>a, LearntOK DEF Learnt
<1>2. ASSUME NEW n \in Names, ScanName(n)
      PROVE  StatusOK(p)'
  <2>1. UNCHANGED <<status, signals>>
    BY <1>2 DEF ScanName, busVars
  <2>2. CASE owner[n] = NoPlayer
    BY <1>1, <1>2, <2>1, <2>2 DEF ScanName
  <2>3. CASE owner[n] # NoPlayer
    <3>1. owner[n] \in Players /\ AddPlayer(n, owner[n])
      BY <1>2, <2>3 DEF ScanName, MprisTypeOK
    <3> QED  BY <1>a, <2>1, <3>1, AddLearns, LearntOK
  <2> QED  BY <2>2, <2>3
<1>3. CASE Process
  <2> DEFINE s == Head(signals)
  <2>1. /\ signals # <<>> /\ signals' = Tail(signals) /\ UNCHANGED status
        /\ HandleNameOwnerChanged(s) \/ HandlePropertiesChanged(s)
    BY <1>3 DEF Process
  <2>2. /\ 1 \in DOMAIN signals /\ s = signals[1] /\ s \in Signal
        /\ \A i \in DOMAIN signals' : /\ i \in Nat /\ i > 0
                                      /\ i + 1 \in DOMAIN signals
                                      /\ signals'[i] = signals[i + 1]
        /\ \A i \in DOMAIN signals : /\ i \in Nat /\ i > 0
                                     /\ i # 1 => /\ i - 1 \in DOMAIN signals'
                                                 /\ signals'[i - 1] = signals[i]
    BY <2>1, SignalTaken
  <2> HIDE DEF s
  <2>3. NoStatusSignal(p) => NoStatusSignal(p)'
    BY <2>2 DEF NoStatusSignal, StatusAt
  <2>4. ASSUME NEW k \in DOMAIN signals, LastStatus(k, p), k # 1
        PROVE  \E j \in DOMAIN signals' :
                 LastStatus(j, p)' /\ signals'[j].playing = signals[k].playing
    <3>1. k - 1 \in DOMAIN signals' /\ signals'[k - 1] = signals[k]
      BY <2>2, <2>4
    <3>2. \A i \in DOMAIN signals' : i > k - 1 => ~StatusAt(i, p)'
      BY <2>2, <2>4 DEF LastStatus, StatusAt
    <3>3. LastStatus(k - 1, p)'
      BY <2>4, <3>1, <3>2 DEF LastStatus, StatusAt
    <3> QED  BY <3>1, <3>3
  <2>5. CASE ~StatusAt(1, p)
    <3>1. Learnt(p)
      <4>1. CASE HandleNameOwnerChanged(s)
        <5>1. s.name \in Names /\ s.player \in Players \cup {NoPlayer}
          BY <2>2, <4>1, SignalTypes DEF HandleNameOwnerChanged
        <5> QED  BY <4>1, <5>1, AddLearns, RemoveLearns
                 DEF HandleNameOwnerChanged
      <4>2. CASE HandlePropertiesChanged(s)
        <5>1. s.player # p
          BY <2>2, <2>5, <4>2 DEF StatusAt, HandlePropertiesChanged
        <5> QED  BY <2>2, <4>2, <5>1, StatusRead
      <4> QED  BY <2>1, <4>1, <4>2
    <3>2. \A k : LastStatus(k, p) => k # 1
      BY <2>5 DEF LastStatus
    <3>3. (\E k \in DOMAIN signals :
             LastStatus(k, p) /\ signals[k].playing = status[p])
            => \E k \in DOMAIN signals' :
                 LastStatus(k, p)' /\ signals'[k].playing = status[p]
      <4> SUFFICES ASSUME NEW k \in DOMAIN signals, LastStatus(k, p),
                          signals[k].playing = status[p]
                   PROVE  \E j \in DOMAIN signals' :
                            LastStatus(j, p)' /\ signals'[j].playing = status[p]
        OBVIOUS
      <4>1. PICK j \in DOMAIN signals' :
              LastStatus(j, p)' /\ signals'[j].playing = signals[k].playing
        BY <2>4, <3>2
      <4> QED  BY <4>1
    <3> QED  BY <1>a, <2>1, <2>3, <3>1, <3>3, LearntOK
  <2>6. CASE StatusAt(1, p)
    <3>1. HandlePropertiesChanged(s) /\ s.player = p
      BY <2>1, <2>2, <2>6 DEF StatusAt, HandleNameOwnerChanged
    <3>2. PICK k \in DOMAIN signals :
            LastStatus(k, p) /\ signals[k].playing = status[p]
      BY <1>a, <2>2, <2>6 DEF StatusOK, NoStatusSignal
    <3>3. CASE k = 1
      <4>1. NoStatusSignal(p)'
        BY <2>2, <3>2, <3>3 DEF LastStatus, NoStatusSignal, StatusAt
      <4>2. p \in m_unique_to_wk' => (p \in m_playing' <=> s.playing)
        BY <2>2, <3>1, StatusRead
      <4>3. s.playing = status'[p]
        BY <2>1, <2>2, <3>2, <3>3
      <4>4. p \in m_unique_to_wk' => (p \in m_playing' <=> status'[p])
        BY <4>2, <4>3
      <4> QED  BY <4>1, <4>4 DEF StatusOK
    <3>4. CASE k # 1
      <4>1. PICK j \in DOMAIN signals' :
              LastStatus(j, p)' /\ signals'[j].playing = signals[k].playing
        BY <2>4, <3>2, <3>4
      <4>2. signals'[j].playing = status'[p]
        BY <2>1, <3>2, <4>1
      <4> QED  BY <4>1, <4>2 DEF StatusOK
    <3> QED  BY <3>3, <3>4
  <2> QED  BY <2>5, <2>6
<1>4. CASE Restart
  <2>1. signals' = <<>> /\ m_unique_to_wk' = {}
    BY <1>4 DEF Restart
  <2> QED  BY <2>1 DEF StatusOK, NoStatusSignal
<1>5. CASE BusStep
  <2>1. UNCHANGED <<m_unique_to_wk, m_playing, missed, phase>>
    BY <1>5, BusEffect DEF monitorVars
  <2>k. PICK k : k = Len(signals) + 1
    OBVIOUS
  <2>2. ASSUME NEW n \in Names, NEW q \in Players \cup {NoPlayer},
               NameChangesHands(n, q)
        PROVE  StatusOK(p)'
    <3>1. UNCHANGED status
      BY <2>2 DEF NameChangesHands
    <3>2. CASE phase = "off"
      BY <1>1, <2>1, <2>2, <3>1, <3>2 DEF NameChangesHands, Emit
    <3>3. CASE phase # "off"
      <4>1. OwnerSignal(n, q) \in Signal /\ OwnerSignal(n, q).kind = "owner"
        BY SignalTypes
      <4>2. signals' = Append(signals, OwnerSignal(n, q))
        BY <2>2, <3>3 DEF NameChangesHands, Emit
      <4>3. /\ DOMAIN signals' = DOMAIN signals \cup {k}
            /\ signals'[k].kind = "owner"
            /\ \A i \in DOMAIN signals : signals'[i] = signals[i]
        BY <2>k, <4>1, <4>2, SignalAppended
      <4>4. /\ NoStatusSignal(p) => NoStatusSignal(p)'
            /\ \A j : LastStatus(j, p) => LastStatus(j, p)'
        BY <4>3 DEF NoStatusSignal, LastStatus, StatusAt
      <4>5. Learnt(p)
        BY <2>1 DEF Learnt
      <4> QED  BY <1>a, <3>1, <4>3, <4>4, <4>5, LearntOK
    <3> QED  BY <3>2, <3>3
  <2>3. ASSUME NEW q \in Players, StatusChanges(q)
        PROVE  StatusOK(p)'
    <3>1. CASE phase = "off"
      <4>1. signals' = <<>> /\ m_unique_to_wk' = {}
        BY <2>1, <2>3, <3>1 DEF StatusChanges, Emit, PhaseInv
      <4> QED  BY <4>1 DEF StatusOK, NoStatusSignal
    <3>2. CASE phase # "off"
      <4>1. /\ DOMAIN signals' = DOMAIN signals \cup {k} /\ k \in Nat
            /\ signals'[k].kind = "status" /\ signals'[k].player = q
            /\ signals'[k].playing = status'[q]
            /\ \A i \in DOMAIN signals :
                 i < k /\ i \in Nat /\ signals'[i] = signals[i]
        BY <2>k, <2>3, <3>2, StatusAnnounced
      <4>2. CASE p = q
        <5>1. LastStatus(k, p)' /\ k \in DOMAIN signals'
          BY <4>1, <4>2 DEF LastStatus, StatusAt
        <5> QED  BY <4>1, <4>2, <5>1 DEF StatusOK
      <4>3. CASE p # q
        <5>1. status'[p] = status[p]
          BY <2>3, <4>3 DEF StatusChanges, MprisTypeOK
        <5>2. /\ NoStatusSignal(p) => NoStatusSignal(p)'
              /\ \A j : LastStatus(j, p) => LastStatus(j, p)'
          BY <4>1, <4>3 DEF NoStatusSignal, LastStatus, StatusAt
        <5>3. CASE NoStatusSignal(p)
                   /\ (p \in m_unique_to_wk \ missed
                         => (p \in m_playing <=> status[p]))
          BY <2>1, <5>1, <5>2, <5>3 DEF StatusOK
        <5>4. ASSUME NEW j \in DOMAIN signals, LastStatus(j, p),
                     signals[j].playing = status[p]
              PROVE  StatusOK(p)'
          <6>1. j \in DOMAIN signals' /\ LastStatus(j, p)'
                /\ signals'[j].playing = status'[p]
            BY <4>1, <5>1, <5>2, <5>4
          <6> QED  BY <6>1 DEF StatusOK
        <5> QED  BY <1>a, <5>3, <5>4 DEF StatusOK
      <4> QED  BY <4>2, <4>3
    <3> QED  BY <3>1, <3>2
  <2>4. CASE UNCHANGED <<owner, signals, status>>
    BY <1>1, <2>1, <2>4
  <2> QED  BY <1>5, <2>2, <2>3, <2>4, BusEffect
<1>6. CASE StartScan \/ SetCallbacks \/ UNCHANGED mprisVars
  BY <1>1, <1>6 DEF StartScan, SetCallbacks, mprisVars, monitorVars, busVars
<1> QED  BY <1>2, <1>3, <1>4, <1>5, <1>6, MprisCases

-----------------------------------------------------------------------------
(* Players that lose a name to another *)

\* The player whose name is taken is the owner, and is handed over.
LEMMA TakenFromOwner ==
  ASSUME MprisTypeOK, PhaseInv, OwnersUnderWay, phase # "off",
         NEW x \in Names, NEW p \in Players, NEW h \in Nat, Holds(h, x, p),
         \A i \in DOMAIN signals : h < i => ~OwnerAt(i, x)
  PROVE  owner[x] = p
<1>1. \A i \in DOMAIN signals : i \in Nat /\ i > 0
  BY DEF MprisTypeOK
<1>2. CASE NoOwnerSignal(x) /\ (x \notin scan => m_wk_to_unique[x] = owner[x])
  <2>1. m_wk_to_unique[x] = p
    BY <1>2 DEF Holds, NoOwnerSignal
  <2>2. x \notin scan
    BY <2>1, MprisAssumption DEF PhaseInv
  <2> QED  BY <1>2, <2>1, <2>2
<1>3. ASSUME NEW k \in DOMAIN signals, LastOwner(k, x), signals[k].player = owner[x]
      PROVE  owner[x] = p
  <2>1. ~(h < k) /\ OwnerAt(k, x)
    BY <1>3 DEF LastOwner
  <2>2. h \in DOMAIN signals /\ OwnerAt(h, x) /\ signals[h].player = p
    BY <1>1, <2>1 DEF Holds
  <2>3. ~(h > k)
    BY <1>3, <2>2 DEF LastOwner
  <2>4. h = k
    BY <1>1, <2>1, <2>3
  <2> QED  BY <1>3, <2>2, <2>4
<1> QED  BY <1>2, <1>3 DEF OwnersUnderWay

\* What is behind stays behind when the queue grows.
LEMMA BehindKept ==
  ASSUME NEW h, NEW p, NamedBehind(h, p),
         \A i \in DOMAIN signals : i \in DOMAIN signals' /\ signals'[i] = signals[i]
  PROVE  NamedBehind(h, p)'
BY DEF NamedBehind

\* The last signal k is new: every other pair of signals was there before.
LEMMA TakenBefore ==
  ASSUME NEW k \in Nat, DOMAIN signals' = DOMAIN signals \cup {k},
         \A i \in DOMAIN signals :
           i < k /\ i \in Nat /\ signals'[i] = signals[i],
         UNCHANGED m_wk_to_unique,
         NEW n, NEW p, NEW h \in Nat, NEW j \in Nat,
         Holds(h, n, p)', TakenAt(h, j, n, p)'
  PROVE  /\ Holds(h, n, p)
         /\ j # k => TakenAt(h, j, n, p)
<1>1. h < j /\ j <= k
  BY DEF TakenAt
<1>2. h # k
  BY <1>1
<1>3. Holds(h, n, p)
  BY <1>2 DEF Holds, OwnerAt
<1>4. ASSUME j # k PROVE TakenAt(h, j, n, p)
  BY <1>4 DEF TakenAt, OwnerAt
<1> QED  BY <1>3, <1>4

LEMMA HandOverAnnounced ==
  ASSUME MprisTypeOK, PhaseInv, OwnersUnderWay, HandedOver, phase # "off",
         UNCHANGED <<m_wk_to_unique, phase>>,
         NEW x \in Names, NEW q \in Players \cup {NoPlayer},
         NameChangesHands(x, q)
  PROVE  /\ HandedOver'
         /\ \A p : NamedBehind(0, p) => NamedBehind(0, p)'
         /\ \A p \in handed \ handed' : NamedBehind(0, p)'
<1> DEFINE s == OwnerSignal(x, q)
<1>k. PICK k : k = Len(signals) + 1
  OBVIOUS
<1>1. signals' = Append(signals, s) /\ s \in Signal
      /\ s.kind = "owner" /\ s.name = x /\ s.player = q
  BY SignalTypes DEF NameChangesHands, Emit
<1>2. /\ DOMAIN signals' = DOMAIN signals \cup {k}
      /\ signals'[k] = s /\ k \in Nat /\ k > 0
      /\ \A i \in DOMAIN signals :
           i < k /\ i > 0 /\ i \in Nat /\ signals'[i] = signals[i]
  BY <1>k, <1>1, SignalAppended
<1> HIDE DEF s
<1>3. handed' = IF q = NoPlayer THEN handed
                ELSE (handed \ {q}) \cup ({owner[x]} \ {NoPlayer})
  BY DEF NameChangesHands
<1>4. \A h \in Nat : h < k => NamedBehind(h, q)'
  BY <1>1, <1>2 DEF NamedBehind
<1>5. ASSUME NEW n \in Names, NEW p \in Players, NEW h \in Nat, NEW j \in Nat,
             Holds(h, n, p)', TakenAt(h, j, n, p)'
      PROVE  p \in handed' \/ NamedBehind(j, p)'
  <2>1. Holds(h, n, p) /\ (j # k => TakenAt(h, j, n, p))
    BY <1>2, <1>5, TakenBefore
  <2>2. CASE j = k
    <3>1. n = x /\ q # NoPlayer /\ q # p
      BY <1>1, <1>2, <1>5, <2>2 DEF TakenAt, OwnerAt
    <3>2. \A i \in DOMAIN signals : h < i => ~OwnerAt(i, n)
      BY <1>2, <1>5, <2>2 DEF TakenAt, OwnerAt
    <3>3. owner[x] = p
      BY <2>1, <3>1, <3>2, TakenFromOwner
    <3> QED  BY <1>3, <3>1, <3>3, MprisAssumption
  <2>3. CASE j # k
    <3>1. j < k
      BY <1>2, <1>5, <2>3 DEF TakenAt
    <3>2. p \in handed \/ NamedBehind(j, p)
      BY <2>1, <2>3 DEF HandedOver
    <3>3. NamedBehind(j, p) => NamedBehind(j, p)'
      BY <1>2, BehindKept
    <3>4. p = q => NamedBehind(j, p)'
      BY <1>4, <3>1
    <3> QED  BY <1>3, <3>2, <3>3, <3>4
  <2> QED  BY <2>2, <2>3
<1>6. \A p : NamedBehind(0, p) => NamedBehind(0, p)'
  BY <1>2, BehindKept
<1>7. \A p \in handed \ handed' : NamedBehind(0, p)'
  BY <1>2, <1>3, <1>4
<1> QED  BY <1>5, <1>6, <1>7 DEF HandedOver

\* A signal is read: the ones behind it move up.
LEMMA HandOverRead ==
  ASSUME MprisTypeOK, HandedOver, Process
  PROVE  /\ HandedOver'
         /\ \A p : NamedBehind(1, p) => NamedBehind(0, p)'
<1>1. /\ phase # "off" /\ signals # <<>> /\ signals' = Tail(signals)
      /\ Head(signals) \in Signal /\ UNCHANGED <<phase, handed>>
  BY ProcessEffect
<1>2. /\ 1 \in DOMAIN signals /\ Head(signals) = signals[1]
      /\ \A i \in DOMAIN signals' : /\ i \in Nat /\ i > 0
                                    /\ i + 1 \in DOMAIN signals
                                    /\ signals'[i] = signals[i + 1]
      /\ \A i \in DOMAIN signals : /\ i \in Nat /\ i > 0
                                   /\ i # 1 => /\ i - 1 \in DOMAIN signals'
                                               /\ signals'[i - 1] = signals[i]
  BY <1>1, SignalTaken
<1>3. ASSUME NEW h \in Nat, NEW p, NamedBehind(h + 1, p)
      PROVE  NamedBehind(h, p)'
  <2>1. PICK k \in DOMAIN signals :
          k > h + 1 /\ signals[k].kind = "owner" /\ signals[k].player = p
    BY <1>3 DEF NamedBehind
  <2>2. k - 1 \in DOMAIN signals' /\ signals'[k - 1] = signals[k] /\ k - 1 > h
    BY <1>2, <2>1
  <2> QED  BY <2>1, <2>2 DEF NamedBehind
<1>4. ASSUME NEW n \in Names, NEW p \in Players, NEW h \in Nat, NEW j \in Nat,
             Holds(h, n, p)', TakenAt(h, j, n, p)'
      PROVE  p \in handed' \/ NamedBehind(j, p)'
  <2>1. /\ j \in DOMAIN signals' /\ j > h
        /\ OwnerAt(j, n)' /\ signals'[j].player \notin {NoPlayer, p}
        /\ \A i \in DOMAIN signals' : h < i /\ i < j => ~OwnerAt(i, n)'
    BY <1>4 DEF TakenAt
  <2>2. /\ j + 1 \in DOMAIN signals /\ j + 1 \in Nat
        /\ OwnerAt(j + 1, n) /\ signals[j + 1].player \notin {NoPlayer, p}
    BY <1>2, <2>1 DEF OwnerAt
  <2>3. \A i \in DOMAIN signals : h + 1 < i /\ i < j + 1 => ~OwnerAt(i, n)
    <3> SUFFICES ASSUME NEW i \in DOMAIN signals, h + 1 < i, i < j + 1
                 PROVE  ~OwnerAt(i, n)
      OBVIOUS
    <3>1. i - 1 \in DOMAIN signals' /\ signals'[i - 1] = signals[i]
          /\ h < i - 1 /\ i - 1 < j
      BY <1>2
    <3>2. ~OwnerAt(i - 1, n)'
      BY <2>1, <3>1
    <3> QED  BY <3>1, <3>2 DEF OwnerAt
  <2>4. TakenAt(h + 1, j + 1, n, p)
    BY <2>1, <2>2, <2>3 DEF TakenAt
  <2>5. ASSUME NEW g \in Nat, Holds(g, n, p), TakenAt(g, j + 1, n, p)
        PROVE  p \in handed' \/ NamedBehind(j, p)'
    <3>1. p \in handed \/ NamedBehind(j + 1, p)
      BY <1>1, <2>2, <2>5 DEF HandedOver
    <3> QED  BY <1>1, <1>3, <3>1
  <2>6. CASE h # 0
    <3>1. h \in DOMAIN signals' /\ OwnerAt(h, n)' /\ signals'[h].player = p
      BY <1>4, <2>6 DEF Holds
    <3>2. Holds(h + 1, n, p)
      BY <1>2, <3>1 DEF Holds, OwnerAt
    <3> QED  BY <2>4, <2>5, <3>2
  <2>7. CASE h = 0 /\ OwnerAt(1, n)
    <3>1. m_wk_to_unique'[n] = p
      BY <1>2, <1>4, <2>7 DEF Holds
    <3>2. m_wk_to_unique'[n] = signals[1].player
      BY <1>2, <2>7, ProcessEffect DEF OwnerAt, MprisTypeOK
    <3>3. Holds(h + 1, n, p)
      BY <1>2, <2>7, <3>1, <3>2 DEF Holds
    <3> QED  BY <2>4, <2>5, <3>3
  <2>8. CASE h = 0 /\ ~OwnerAt(1, n)
    <3>1. m_wk_to_unique'[n] = p
      BY <1>2, <1>4, <2>8 DEF Holds
    <3>2. m_wk_to_unique'[n] = m_wk_to_unique[n]
      <4>1. signals[1].kind = "owner" => signals[1].name \in Names /\ signals[1].name # n
        BY <1>1, <1>2, <2>8, SignalTypes DEF OwnerAt
      <4> QED  BY <1>2, <4>1, ProcessEffect DEF MprisTypeOK
    <3>3. Holds(0, n, p)
      BY <3>1, <3>2 DEF Holds
    <3>4. \A i \in DOMAIN signals : 0 < i /\ i < j + 1 => ~OwnerAt(i, n)
      BY <1>2, <2>3, <2>8
    <3>5. TakenAt(0, j + 1, n, p)
      BY <2>2, <3>4 DEF TakenAt
    <3> QED  BY <2>5, <3>3, <3>5
  <2> QED  BY <2>6, <2>7, <2>8
<1>5. \A p : NamedBehind(1, p) => NamedBehind(0, p)'
  BY <1>3
<1> QED  BY <1>4, <1>5 DEF HandedOver

LEMMA HandOverStep ==
  ASSUME MprisTypeOK, PhaseInv, BusInv, OwnersUnderWay, HandedOver,
         [MprisNext]_mprisVars
  PROVE  HandedOver'
<1>1. ASSUME UNCHANGED <<m_wk_to_unique, signals, handed, phase>>
      PROVE  HandedOver'
  BY <1>1 DEF HandedOver, Holds, TakenAt, NamedBehind, OwnerAt
<1>2. CASE StartScan
  <2>1. signals' = <<>>
    BY <1>2 DEF StartScan, busVars, PhaseInv
  <2> QED  BY <2>1 DEF HandedOver, TakenAt
<1>3. ASSUME NEW x \in Names, ScanName(x) PROVE HandedOver'
  <2>1. /\ phase # "off" /\ UNCHANGED <<phase, owner, signals, handed>>
        /\ m_wk_to_unique'[x] = owner[x]
        /\ \A n \in Names : n # x => m_wk_to_unique'[n] = m_wk_to_unique[n]
    BY <1>3, ScanEffect DEF MprisTypeOK
  <2>2. ASSUME NEW n \in Names, NEW p \in Players, NEW h \in Nat, NEW j \in Nat,
               Holds(h, n, p)', TakenAt(h, j, n, p)'
        PROVE  p \in handed' \/ NamedBehind(j, p)'
    <3>1. TakenAt(h, j, n, p)
      BY <2>1, <2>2 DEF TakenAt, OwnerAt
    <3>2. NamedBehind(j, p) => NamedBehind(j, p)'
      BY <2>1, BehindKept
    <3>3. CASE Holds(h, n, p)
      BY <2>1, <3>1, <3>2, <3>3 DEF HandedOver
    <3>4. CASE ~Holds(h, n, p)
      <4>1. h = 0 /\ n = x /\ owner[x] = p
        BY <2>1, <2>2, <3>4 DEF Holds, OwnerAt
      <4>2. j \in DOMAIN signals /\ OwnerAt(j, x) /\ signals[j].player # p
        BY <3>1, <4>1 DEF TakenAt
      <4>3. PICK k \in DOMAIN signals :
              LastOwner(k, x) /\ signals[k].player = owner[x]
        BY <2>1, <4>2 DEF OwnersUnderWay, NoOwnerSignal
      <4>4. k # j /\ ~(j > k) /\ signals[k].kind = "owner"
        BY <4>1, <4>2, <4>3 DEF LastOwner, OwnerAt
      <4>5. j \in Nat /\ k \in Nat
        BY <4>2, <4>3 DEF MprisTypeOK
      <4>6. k > j
        BY <4>4, <4>5
      <4> QED  BY <3>2, <4>1, <4>3, <4>4, <4>6 DEF NamedBehind
    <3> QED  BY <3>3, <3>4
  <2> QED  BY <2>2 DEF HandedOver
<1>4. CASE SetCallbacks
  <2>1. phase # "off" /\ UNCHANGED <<m_wk_to_unique, signals, handed>>
    BY <1>4 DEF SetCallbacks, busVars
  <2> QED  BY <2>1 DEF HandedOver, Holds, TakenAt, NamedBehind, OwnerAt
<1>5. CASE Process
  BY <1>5, HandOverRead
<1>6. CASE Restart
  BY <1>6 DEF Restart, HandedOver
<1>7. CASE BusStep
  <2>1. UNCHANGED <<m_wk_to_unique, phase>>
    BY <1>7, BusEffect DEF monitorVars
  <2> SUFFICES ASSUME phase # "off" PROVE HandedOver'
    BY <2>1 DEF HandedOver
  <2>2. ASSUME NEW x \in Names, NEW q \in Players \cup {NoPlayer},
               NameChangesHands(x, q)
        PROVE  HandedOver'
    BY <2>1, <2>2, HandOverAnnounced
  <2>3. ASSUME NEW q \in Players, StatusChanges(q) PROVE HandedOver'
    <3>1. PICK k \in Nat :
            /\ DOMAIN signals' = DOMAIN signals \cup {k}
            /\ signals'[k].kind = "status"
            /\ \A i \in DOMAIN signals :
                 i < k /\ i \in Nat /\ signals'[i] = signals[i]
      BY <2>3, StatusAnnounced
    <3>2. UNCHANGED handed
      BY <2>3 DEF StatusChanges
    <3>3. ASSUME NEW n \in Names, NEW p \in Players, NEW h \in Nat, NEW j \in Nat,
                 Holds(h, n, p)', TakenAt(h, j, n, p)'
          PROVE  p \in handed' \/ NamedBehind(j, p)'
      <4>1. j # k
        BY <3>1, <3>3 DEF TakenAt, OwnerAt
      <4>2. Holds(h, n, p) /\ TakenAt(h, j, n, p)
        BY <2>1, <3>1, <3>3, <4>1, TakenBefore
      <4>3. p \in handed \/ NamedBehind(j, p)
        BY <4>2 DEF HandedOver
      <4> QED  BY <3>1, <3>2, <4>3, BehindKept
    <3> QED  BY <3>3 DEF HandedOver
  <2>4. CASE UNCHANGED <<owner, signals, status, handed>>
    BY <1>1, <2>1, <2>4
  <2> QED  BY <1>7, <2>2, <2>3, <2>4, BusEffect
<1>8. CASE UNCHANGED mprisVars
  BY <1>1, <1>8 DEF mprisVars, monitorVars, busVars
<1> QED  BY <1>2, <1>3, <1>4, <1>5, <1>6, <1>7, <1>8, MprisCases

LEMMA NameKnownStep ==
  ASSUME MprisTypeOK, PhaseInv, BusInv, OwnersUnderWay, HandedOver, NameKnown,
         [MprisNext]_mprisVars
  PROVE  NameKnown'
<1>a. \A p \in m_unique_to_wk : p \in Players /\ p # NoPlayer
  BY MprisAssumption DEF MprisTypeOK
<1>1. ASSUME UNCHANGED <<m_wk_to_unique, m_unique_to_wk, m_playing, signals,
                         handed>>,
             phase # "off"
      PROVE  NameKnown'
  BY <1>1 DEF NameKnown, NamedBehind
<1>2. CASE StartScan
  <2>1. m_unique_to_wk' = {} /\ m_playing' = m_playing
    BY <1>2 DEF StartScan, PhaseInv
  <2>2. m_playing \subseteq m_unique_to_wk /\ m_unique_to_wk = {}
    BY <1>2 DEF StartScan, PhaseInv, NameKnown
  <2> QED  BY <2>1, <2>2 DEF NameKnown
<1>3. ASSUME NEW x \in Names, ScanName(x) PROVE NameKnown'
  <2>1. /\ phase # "off" /\ x \in scan /\ UNCHANGED <<phase, signals, handed>>
        /\ m_wk_to_unique' = [m_wk_to_unique EXCEPT ![x] = owner[x]]
        /\ m_unique_to_wk' = m_unique_to_wk \cup ({owner[x]} \ {NoPlayer})
        /\ m_playing' \subseteq m_playing \cup m_unique_to_wk'
    BY <1>3, ScanEffect
  <2>2. m_wk_to_unique'[x] = owner[x]
        /\ \A n \in Names : n # x => m_wk_to_unique'[n] = m_wk_to_unique[n]
    BY <2>1 DEF MprisTypeOK
  <2>3. m_wk_to_unique[x] = NoPlayer
    BY <2>1 DEF PhaseInv
  <2>4. \A p : NamedBehind(0, p) => NamedBehind(0, p)'
    BY <2>1, BehindKept
  <2>5. ASSUME NEW p \in m_unique_to_wk' \ handed'
        PROVE  (\E n \in Names : m_wk_to_unique'[n] = p) \/ NamedBehind(0, p)'
    <3>1. CASE p = owner[x]
      BY <2>2, <3>1
    <3>2. CASE p # owner[x]
      <4>1. p \in m_unique_to_wk \ handed /\ p # NoPlayer
        BY <1>a, <2>1, <2>5, <3>2
      <4>2. (\E n \in Names : m_wk_to_unique[n] = p) \/ NamedBehind(0, p)
        BY <2>1, <4>1 DEF NameKnown
      <4> QED  BY <2>2, <2>3, <2>4, <4>1, <4>2
    <3> QED  BY <3>1, <3>2
  <2>6. m_playing' \subseteq m_unique_to_wk'
    BY <2>1 DEF NameKnown
  <2> QED  BY <2>5, <2>6 DEF NameKnown
<1>4. CASE SetCallbacks
  <2>1. phase # "off" /\ UNCHANGED <<m_wk_to_unique, m_unique_to_wk, m_playing,
                                     signals, handed>>
    BY <1>4 DEF SetCallbacks, busVars
  <2> QED  BY <1>1, <2>1
<1>5. CASE Process
  <2> DEFINE s == Head(signals)
  <2>1. /\ phase = "run" /\ signals # <<>> /\ s \in Signal
        /\ UNCHANGED <<phase, handed>>
        /\ m_playing' \subseteq m_unique_to_wk'
    BY <1>5, ProcessEffect DEF NameKnown
  <2>2. /\ 1 \in DOMAIN signals /\ s = signals[1]
        /\ \A i \in DOMAIN signals : i \in Nat /\ i > 0
    BY <1>5, <2>1, ProcessEffect, SignalTaken
  <2>3. \A p : NamedBehind(1, p) => NamedBehind(0, p)'
    BY <1>5, HandOverRead
  <2>4. ASSUME NEW p, NamedBehind(0, p)
        PROVE  NamedBehind(0, p)' \/ (s.kind = "owner" /\ s.player = p)
    <3>1. PICK k \in DOMAIN signals :
            signals[k].kind = "owner" /\ signals[k].player = p
      BY <2>4 DEF NamedBehind
    <3>2. CASE k = 1
      BY <2>2, <3>1, <3>2
    <3>3. CASE k # 1
      <4>1. k > 1
        BY <2>2, <3>3
      <4> QED  BY <2>3, <3>1, <4>1 DEF NamedBehind
    <3> QED  BY <3>2, <3>3
  <2>5. CASE s.kind = "status"
    <3>1. UNCHANGED <<m_wk_to_unique, m_unique_to_wk>>
      BY <1>5, <2>5, ProcessEffect
    <3> QED  BY <2>1, <2>4, <2>5, <3>1 DEF NameKnown
  <2>6. CASE s.kind = "owner"
    <3>1. s.name \in Names /\ s.player \in Players \cup {NoPlayer}
      BY <2>1, <2>6, SignalTypes
    <3>2. /\ m_wk_to_unique' = [m_wk_to_unique EXCEPT ![s.name] = s.player]
          /\ m_unique_to_wk' = IF s.player # NoPlayer
                               THEN m_unique_to_wk \cup {s.player}
                               ELSE m_unique_to_wk \ {m_wk_to_unique[s.name]}
      BY <1>5, <2>6, ProcessEffect
    <3> HIDE DEF s
    <3>3. m_wk_to_unique'[s.name] = s.player
          /\ \A n \in Names : n # s.name => m_wk_to_unique'[n] = m_wk_to_unique[n]
      BY <3>1, <3>2 DEF MprisTypeOK
    <3>4. ASSUME NEW p \in m_unique_to_wk' \ handed'
          PROVE  (\E n \in Names : m_wk_to_unique'[n] = p) \/ NamedBehind(0, p)'
      <4>1. CASE p = s.player
        BY <3>1, <3>3, <4>1
      <4>2. CASE p # s.player
        <5>1. p \in m_unique_to_wk \ handed /\ p \in Players
          BY <1>a, <2>1, <3>2, <3>4, <4>2
        <5>2. CASE NamedBehind(0, p)
          BY <2>4, <4>2, <5>2
        <5>3. ASSUME NEW n \in Names, m_wk_to_unique[n] = p, n # s.name
              PROVE  \E m \in Names : m_wk_to_unique'[m] = p
          BY <3>3, <5>3
        <5>4. CASE m_wk_to_unique[s.name] = p
          <6>1. s.player # NoPlayer
            BY <3>2, <3>4, <5>4
          <6>2. Holds(0, s.name, p)
            BY <5>4 DEF Holds
          <6>3. OwnerAt(1, s.name) /\ signals[1].player \notin {NoPlayer, p}
            BY <2>2, <2>6, <4>2, <6>1 DEF OwnerAt
          <6>4. TakenAt(0, 1, s.name, p)
            BY <2>2, <6>3 DEF TakenAt
          <6>5. NamedBehind(1, p)
            BY <2>1, <3>1, <5>1, <6>2, <6>4 DEF HandedOver
          <6> QED  BY <2>3, <6>5
        <5> QED  BY <2>1, <5>1, <5>2, <5>3, <5>4 DEF NameKnown
      <4> QED  BY <4>1, <4>2
    <3> QED  BY <2>1, <3>4 DEF NameKnown
  <2> QED  BY <2>1, <2>5, <2>6, SignalTypes
<1>6. CASE Restart
  BY <1>6 DEF Restart, NameKnown
<1>7. CASE BusStep
  <2>1. UNCHANGED <<m_wk_to_unique, m_unique_to_wk, m_playing, phase>>
    BY <1>7, BusEffect DEF monitorVars
  <2>2. CASE phase = "off"
    BY <2>1, <2>2 DEF NameKnown
  <2>3. CASE phase # "off"
    <3>1. ASSUME \A p : NamedBehind(0, p) => NamedBehind(0, p)',
                 \A p \in handed \ handed' : NamedBehind(0, p)'
          PROVE  NameKnown'
      BY <2>1, <2>3, <3>1 DEF NameKnown
    <3>2. ASSUME NEW x \in Names, NEW q \in Players \cup {NoPlayer},
                 NameChangesHands(x, q)
          PROVE  NameKnown'
      BY <2>1, <2>3, <3>1, <3>2, HandOverAnnounced
    <3>3. ASSUME NEW q \in Players, StatusChanges(q) PROVE NameKnown'
      <4>1. \A i \in DOMAIN signals : i \in DOMAIN signals' /\ signals'[i] = signals[i]
        BY <2>3, <3>3, StatusAnnounced
      <4>2. UNCHANGED handed
        BY <3>3 DEF StatusChanges
      <4> QED  BY <3>1, <4>1, <4>2, BehindKept
    <3>4. CASE UNCHANGED <<owner, signals, status, handed>>
      BY <1>1, <2>1, <2>3, <3>4
    <3> QED  BY <1>7, <3>2, <3>3, <3>4, BusEffect
  <2> QED  BY <2>2, <2>3
<1>8. CASE UNCHANGED mprisVars
  <2>1. UNCHANGED <<m_wk_to_unique, m_unique_to_wk, m_playing, signals, handed,
                    phase>>
    BY <1>8 DEF mprisVars, monitorVars, busVars
  <2> QED  BY <1>1, <2>1 DEF NameKnown
<1> QED  BY <1>2, <1>3, <1>4, <1>5, <1>6, <1>7, <1>8, MprisCases

-----------------------------------------------------------------------------
(* The theorems *)

LEMMA MprisInitial == MprisInit => MprisInv
<1> SUFFICES ASSUME MprisInit PROVE MprisInv
  OBVIOUS
<1> USE DEF MprisInit
<1>1. signals \in Seq(Signal)
  OBVIOUS
<1>2. MprisTypeOK
  BY <1>1 DEF MprisTypeOK
<1>3. PhaseInv /\ BusInv /\ SentInv
  BY DEF PhaseInv, BusInv, SentInv
<1>4. OwnersUnderWay /\ MovesInOrder /\ OwnersKnown
  BY DEF OwnersUnderWay, MovesInOrder, OwnersKnown
<1>5. StatusUnderWay
  BY DEF StatusUnderWay, StatusOK, NoStatusSignal
<1>6. HandedOver /\ NameKnown
  BY DEF HandedOver, NameKnown
<1> QED  BY <1>2, <1>3, <1>4, <1>5, <1>6 DEF MprisInv

LEMMA MprisStep == MprisInv /\ [MprisNext]_mprisVars => MprisInv'
BY MprisTypeStep, PhaseStep, BusInvStep, SentStep, OwnersStep, MovesStep,
   KnownStep, StatusStep, HandOverStep, NameKnownStep
DEF MprisInv

LEMMA MprisInvariant == MprisSpec => []MprisInv
BY MprisInitial, MprisStep, PTL DEF MprisSpec

\* The members of MprisMonitor stay in range for every set of players: an
\* empty owner never becomes a player (handle_name_owner_changed, add_player).
THEOREM MprisTypeCorrect == MprisSpec => []MprisTypeOK
<1>1. MprisInv => MprisTypeOK
  BY DEF MprisInv
<1> QED  BY <1>1, MprisInvariant, PTL

\* Once its signals are processed the monitor knows who plays, although the
\* answers to its calls overtake signals: for any number of players, names and
\* signals (scan_existing_players, handle_name_owner_changed,
\* handle_properties_changed, query_playback_status).
THEOREM ConvergenceCorrect == MprisSpec => []PlayingConverges
<1>1. MprisInv => PlayingConverges
  <2> SUFFICES ASSUME MprisInv, Settled, NEW p \in Players \ missed
               PROVE  /\ IsPlayer(p) /\ status[p] => p \in m_playing
                      /\ p \in m_playing /\ (\E n \in Names : m_wk_to_unique[n] = p)
                           => IsPlayer(p) /\ status[p]
    BY DEF PlayingConverges
  <2>1. \A n \in Names : m_wk_to_unique[n] = owner[n]
    <3>1. phase # "off" /\ scan = {} /\ DOMAIN signals = {}
      BY DEF MprisInv, Settled, PhaseInv
    <3> QED  BY <3>1 DEF MprisInv, OwnersUnderWay
  <2>2. ASSUME NEW n \in Names, owner[n] = p
        PROVE  IsPlayer(p) /\ p \in m_unique_to_wk
    <3>1. p # NoPlayer
      BY MprisAssumption
    <3>2. life[p] = "up"
      BY <2>2, <3>1 DEF MprisInv, BusInv
    <3>3. p \in m_unique_to_wk
      BY <2>2, <3>1 DEF MprisInv, Settled, PhaseInv, OwnersKnown, NoOwnerSignal
    <3> QED  BY <2>2, <3>2, <3>3 DEF IsPlayer
  <2>3. p \in m_unique_to_wk => (p \in m_playing <=> status[p])
    BY DEF MprisInv, Settled, StatusUnderWay, StatusOK, LastStatus
  <2>4. IsPlayer(p) /\ status[p] => p \in m_playing
    BY <2>2, <2>3 DEF IsPlayer
  <2>5. p \in m_playing /\ (\E n \in Names : m_wk_to_unique[n] = p)
          => IsPlayer(p) /\ status[p]
    BY <2>1, <2>2, <2>3
  <2> QED  BY <2>4, <2>5
<1> QED  BY <1>1, MprisInvariant, PTL

\* mpris_monitor.hpp: "Calls on_uninhibit when all players stop".  Once the
\* signals are processed an INHIBIT stands for a player that plays; the only
\* others it can stand for are players whose query failed and players that
\* have lost their name to another one, for any number of players, names and
\* signals (add_player, remove_player, set_player_playing).
THEOREM WithdrawCorrect == MprisSpec => []InhibitWithdrawn
<1>1. MprisInv /\ PlayingConverges => InhibitWithdrawn
  <2> SUFFICES ASSUME MprisInv, PlayingConverges, Settled, sent
               PROVE  \E p \in m_playing : \/ p \in missed \cup handed
                                           \/ IsPlayer(p) /\ status[p]
    BY DEF InhibitWithdrawn
  <2>1. PICK p \in m_playing : TRUE
    BY DEF MprisInv, SentInv
  <2>2. p \in Players /\ p \in m_unique_to_wk /\ phase # "off" /\ signals = <<>>
    BY <2>1 DEF MprisInv, MprisTypeOK, NameKnown, Settled
  <2>3. ~NamedBehind(0, p)
    BY <2>2 DEF NamedBehind
  <2>4. p \in handed \/ \E n \in Names : m_wk_to_unique[n] = p
    BY <2>2, <2>3 DEF MprisInv, NameKnown
  <2> QED  BY <2>1, <2>2, <2>4 DEF PlayingConverges
<1> QED  BY <1>1, MprisInvariant, ConvergenceCorrect, PTL
=============================================================================

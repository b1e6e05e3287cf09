---------------------------- MODULE MprisMonitor ----------------------------
(***************************************************************************)
(* The agent's MprisMonitor: which media players are playing, and whether  *)
(* the agent has asked the daemon to inhibit.  It learns of players from   *)
(* the signals of the session bus and from blocking calls (ListNames,      *)
(* GetNameOwner, PlaybackStatus).  The bus delivers the signals in one     *)
(* order; a call answers with the state at the time of the call, which may *)
(* be newer than signals that still wait to be processed.                  *)
(*                                                                         *)
(* A player is its unique bus name, which the bus never reuses; it owns    *)
(* well-known MPRIS names while it runs.                                   *)
(***************************************************************************)
EXTENDS Integers, Sequences

CONSTANTS
  Names,       \* well-known names org.mpris.MediaPlayer2.*
  Players,     \* unique bus names
  NoPlayer,    \* a name without owner
  MaxSignals   \* bound: unprocessed signals

ASSUME MprisAssumption ==
  /\ NoPlayer \notin Players
  /\ MaxSignals \in Nat

VARIABLES
  m_wk_to_unique,   \* owner known for each name, NoPlayer = absent
  m_unique_to_wk,   \* players known to own an MPRIS name
  m_playing,        \* players known to be playing
  m_inhibiting,
  scan,             \* names scan_existing_players has still to look up
  phase,            \* "off", "scan" (inside init) or "run" (callbacks set)
  sent,             \* what the agent last told the daemon: inhibited or not
  owner,            \* external: the owner of each name
  life,             \* external: "new", "up" or "gone"
  status,           \* external: the player's PlaybackStatus is Playing
  signals,          \* external: signals not yet processed
  missed,           \* history: players whose last status query failed
  handed            \* history: players that have lost their name directly to
                    \* another one in front of the monitor, and taken none since

monitorVars == <<m_wk_to_unique, m_unique_to_wk, m_playing, m_inhibiting,
                 scan, phase, sent, missed>>
busVars     == <<owner, life, status, signals, handed>>
mprisVars   == <<monitorVars, busVars>>

-----------------------------------------------------------------------------
OwnerSignal(n, p)  == [kind |-> "owner", name |-> n, player |-> p]
StatusSignal(p, b) == [kind |-> "status", player |-> p, playing |-> b]
Signal == [kind : {"owner"}, name : Names, player : Players \cup {NoPlayer}]
            \cup [kind : {"status"}, player : Players, playing : BOOLEAN]

\* Signals are broadcast only to a connection that has a match rule.
Emit(s) == signals' = IF phase = "off" THEN signals ELSE Append(signals, s)

\* set_player_playing: INHIBIT and UNINHIBIT go out on a change of "any
\* player plays", and only once Agent::run has set the callbacks.
SetPlayerPlaying(playing) ==
  /\ m_playing' = playing
  /\ m_inhibiting' = (playing # {})
  /\ sent' = IF m_inhibiting' # m_inhibiting /\ phase = "run"
             THEN m_inhibiting' ELSE sent

\* Mutation of QueryPlaybackStatus: a player that appears is not queried.
QueryLater(p) ==
  /\ UNCHANGED <<m_playing, m_inhibiting, sent>>
  /\ missed' = missed \ {p}

\* query_playback_status: the answer, or an error that changes nothing.
QueryPlaybackStatus(p) ==
  \/ /\ life[p] = "up"
     /\ SetPlayerPlaying(IF status[p] THEN m_playing \cup {p}
                                      ELSE m_playing \ {p})
     /\ missed' = missed \ {p}
  \/ /\ UNCHANGED <<m_playing, m_inhibiting, sent>>
     /\ missed' = missed \cup {p}

\* The entry of a previous owner of the name stays in the other two sets.
AddPlayer(n, p) ==
  /\ m_wk_to_unique' = [m_wk_to_unique EXCEPT ![n] = p]
  /\ m_unique_to_wk' = m_unique_to_wk \cup {p}
  /\ QueryPlaybackStatus(p)

\* Mutation of RemovePlayer: a player that goes while it plays is not told to
\* have stopped.
RemoveSilently(n) ==
  IF m_wk_to_unique[n] = NoPlayer
  THEN UNCHANGED <<m_wk_to_unique, m_unique_to_wk, m_playing, m_inhibiting,
                   sent, missed>>
  ELSE /\ m_wk_to_unique' = [m_wk_to_unique EXCEPT ![n] = NoPlayer]
       /\ m_unique_to_wk' = m_unique_to_wk \ {m_wk_to_unique[n]}
       /\ UNCHANGED <<m_playing, m_inhibiting, sent, missed>>

RemovePlayer(n) ==
  IF m_wk_to_unique[n] = NoPlayer
  THEN UNCHANGED <<m_wk_to_unique, m_unique_to_wk, m_playing, m_inhibiting,
                   sent, missed>>
  ELSE /\ m_wk_to_unique' = [m_wk_to_unique EXCEPT ![n] = NoPlayer]
       /\ m_unique_to_wk' = m_unique_to_wk \ {m_wk_to_unique[n]}
       /\ SetPlayerPlaying(m_playing \ {m_wk_to_unique[n]})
       /\ UNCHANGED missed

-----------------------------------------------------------------------------
\* init: the match rules, then ListNames.
StartScan ==
  /\ phase = "off"
  /\ phase' = "scan"
  /\ scan' = {n \in Names : owner[n] # NoPlayer}
  /\ UNCHANGED <<m_wk_to_unique, m_unique_to_wk, m_playing, m_inhibiting, sent,
                 missed, busVars>>

\* scan_existing_players, one name: GetNameOwner, then add_player.
ScanName(n) ==
  /\ phase = "scan" /\ n \in scan
  /\ scan' = scan \ {n}
  /\ IF owner[n] = NoPlayer
     THEN UNCHANGED <<m_wk_to_unique, m_unique_to_wk, m_playing, m_inhibiting,
                      sent, missed>>
     ELSE AddPlayer(n, owner[n])
  /\ UNCHANGED <<phase, busVars>>

\* Agent::run sets the callbacks after init has returned.
SetCallbacks ==
  /\ phase = "scan" /\ scan = {}
  /\ phase' = "run"
  /\ UNCHANGED <<m_wk_to_unique, m_unique_to_wk, m_playing, m_inhibiting, scan,
                 sent, missed, busVars>>

\* Mutation of HandleNameOwnerChanged: an empty new owner is not noticed.
HandleAnyOwner(s) ==
  /\ s.kind = "owner"
  /\ m_wk_to_unique' = [m_wk_to_unique EXCEPT ![s.name] = s.player]
  /\ m_unique_to_wk' = m_unique_to_wk \cup {s.player}
  /\ UNCHANGED <<m_playing, m_inhibiting, sent, missed>>

HandleNameOwnerChanged(s) ==
  /\ s.kind = "owner"
  /\ IF s.player # NoPlayer THEN AddPlayer(s.name, s.player)
                            ELSE RemovePlayer(s.name)

\* A sender that is not a known player is ignored.
HandlePropertiesChanged(s) ==
  /\ s.kind = "status"
  /\ IF s.player \in m_unique_to_wk
     THEN /\ SetPlayerPlaying(IF s.playing THEN m_playing \cup {s.player}
                                           ELSE m_playing \ {s.player})
          /\ missed' = missed \ {s.player}
     ELSE UNCHANGED <<m_playing, m_inhibiting, sent, missed>>
  /\ UNCHANGED <<m_wk_to_unique, m_unique_to_wk>>

\* poll: sd_bus_process hands out one message after the other.
Process ==
  /\ phase = "run" /\ signals # <<>>
  /\ \/ HandleNameOwnerChanged(Head(signals))
     \/ HandlePropertiesChanged(Head(signals))
  /\ signals' = Tail(signals)
  /\ UNCHANGED <<scan, phase, owner, life, status, handed>>

\* The agent ends and is started again: a new monitor, and the daemon has
\* dropped the inhibits of the old connection.
Restart ==
  /\ phase = "run"
  /\ m_wk_to_unique' = [n \in Names |-> NoPlayer]
  /\ m_unique_to_wk' = {} /\ m_playing' = {} /\ m_inhibiting' = FALSE
  /\ phase' = "off" /\ sent' = FALSE /\ missed' = {}
  /\ signals' = <<>> /\ handed' = {}
  /\ UNCHANGED <<scan, owner, life, status>>

-----------------------------------------------------------------------------
\* The session bus and the players (not draind code).
Room == Len(signals) < MaxSignals

\* A player owns one MPRIS name at a time; it may take one that is free or,
\* as its next owner, directly from another player.
PlayerClaims(p, n) ==
  /\ life[p] \in {"new", "up"} /\ Room
  /\ \A m \in Names : owner[m] # p
  /\ life' = [life EXCEPT ![p] = "up"]
  /\ owner' = [owner EXCEPT ![n] = p]
  /\ Emit(OwnerSignal(n, p))
  /\ handed' = IF phase = "off" THEN handed
               ELSE (handed \ {p}) \cup ({owner[n]} \ {NoPlayer})
  /\ UNCHANGED <<status, monitorVars>>

PlayerReleases(n) ==
  /\ owner[n] # NoPlayer /\ Room
  /\ owner' = [owner EXCEPT ![n] = NoPlayer]
  /\ Emit(OwnerSignal(n, NoPlayer))
  /\ UNCHANGED <<life, status, handed, monitorVars>>

\* A player that quits loses its connection to the bus and its name with it.
PlayerQuits(p) ==
  /\ life[p] = "up" /\ Room
  /\ life' = [life EXCEPT ![p] = "gone"]
  /\ owner' = [n \in Names |-> IF owner[n] = p THEN NoPlayer ELSE owner[n]]
  /\ \/ \E n \in Names : owner[n] = p /\ Emit(OwnerSignal(n, NoPlayer))
     \/ (\A n \in Names : owner[n] # p) /\ UNCHANGED signals
  /\ UNCHANGED <<status, handed, monitorVars>>

PlayerToggles(p) ==
  /\ life[p] = "up" /\ Room
  /\ status' = [status EXCEPT ![p] = ~@]
  /\ Emit(StatusSignal(p, ~status[p]))
  /\ UNCHANGED <<owner, life, handed, monitorVars>>

MprisInit ==
  /\ m_wk_to_unique = [n \in Names |-> NoPlayer]
  /\ m_unique_to_wk = {} /\ m_playing = {} /\ m_inhibiting = FALSE
  /\ scan = {} /\ phase = "off" /\ sent = FALSE /\ missed = {}
  /\ owner = [n \in Names |-> NoPlayer]
  /\ life = [p \in Players |-> "new"]
  /\ status = [p \in Players |-> FALSE]
  /\ signals = <<>> /\ handed = {}

MprisNext ==
  \/ StartScan
  \/ \E n \in Names : ScanName(n)
  \/ SetCallbacks
  \/ Process
  \/ Restart
  \/ \E p \in Players, n \in Names : PlayerClaims(p, n)
  \/ \E n \in Names : PlayerReleases(n)
  \/ \E p \in Players : PlayerQuits(p)
  \/ \E p \in Players : PlayerToggles(p)

MprisSpec == MprisInit /\ [][MprisNext]_mprisVars
=============================================================================

-------------------------- MODULE MprisProperties ---------------------------
(* Correctness of the agent's media player monitor.                        *)
EXTENDS MprisMonitor

\* A media player of the session: a running owner of an MPRIS name.
IsPlayer(p) == life[p] = "up" /\ \E n \in Names : owner[n] = p

\* Nothing the bus has sent is still to be processed.
Settled == phase = "run" /\ signals = <<>>

\* Type correctness of MprisMonitor's members: an empty owner never becomes a
\* player.
MprisTypeOK ==
  /\ m_wk_to_unique \in [Names -> Players \cup {NoPlayer}]
  /\ m_unique_to_wk \subseteq Players /\ m_playing \subseteq Players
  /\ m_inhibiting \in BOOLEAN /\ sent \in BOOLEAN
  /\ scan \subseteq Names /\ phase \in {"off", "scan", "run"}
  /\ missed \subseteq Players
  /\ owner \in [Names -> Players \cup {NoPlayer}]
  /\ life \in [Players -> {"new", "up", "gone"}]
  /\ status \in [Players -> BOOLEAN]
  /\ signals \in Seq(Signal)
  /\ handed \subseteq Players

\* handle_name_owner_changed, handle_properties_changed, query: although the
\* answers to blocking calls overtake signals, once the signals have been
\* processed every player that plays is known to, and every known owner of a
\* name that is taken to play does.  Left out are players whose status query
\* failed and who have not sent a signal since.
PlayingConverges ==
  Settled => \A p \in Players \ missed :
    /\ IsPlayer(p) /\ status[p] => p \in m_playing
    /\ p \in m_playing /\ (\E n \in Names : m_wk_to_unique[n] = p)
         => IsPlayer(p) /\ status[p]

\* mpris_monitor.hpp: "Calls on_uninhibit when all players stop."  Once the
\* signals have been processed, an INHIBIT stands only while a player plays,
\* also when players stop while others start or quit while they are queried.
\* Two things may keep it up wrongly, and nothing else: a player whose query
\* failed, and one whose name another player has taken over while it ran
\* (add_player keeps the entry of the old owner, and no signal about its end
\* ever removes it).
InhibitWithdrawn ==
  Settled /\ sent =>
    \E p \in m_playing : \/ p \in missed \cup handed
                         \/ IsPlayer(p) /\ status[p]

\* mpris_monitor.hpp: "Calls on_inhibit(reason) when any player is Playing".
PlayingInhibits ==
  Settled /\ missed = {} /\ (\E p \in Players : IsPlayer(p) /\ status[p])
    => sent
=============================================================================

------------------------------ MODULE MCDaemon ------------------------------
(***************************************************************************)
(* Instances of Daemon for TLC.  Each configuration file picks the message *)
(* set and the bounds that make one group of behaviours small enough to    *)
(* explore exhaustively.                                                   *)
(***************************************************************************)
EXTENDS DaemonProperties, TLC

CONSTANTS f1, f2, s1, s2, n1, n2, n3, r1

Msg(t, a) == [type |-> t, arg |-> a]

PolicyMessages == {Msg("hello", s1), Msg("idle_dim", NoName),
                   Msg("idle_sleep", NoName), Msg("inhibit", r1),
                   Msg("uninhibit", r1)}
BrightnessMessages == {Msg("hello", s1), Msg("set_profile", n1),
                       Msg("idle_dim", NoName), Msg("active", NoName),
                       Msg("idle_sleep", NoName), Msg("lock", NoName),
                       Msg("query", NoName), Msg("malformed", NoName)}
ConfigMessages == {Msg("hello", s1), Msg("reload_config", NoName),
                   Msg("set_profile", n2)}
SeatMessages   == {Msg("hello", s1), Msg("hello", s2)}
LiveMessages   == {Msg("unknown", NoName)}
SleepMessages  == {Msg("hello", s1), Msg("idle_sleep", NoName)}

-----------------------------------------------------------------------------
Profile(b, d, s, gov, epp, lid, power) ==
  [brightness_percent |-> b, dim_brightness_percent |-> d,
   dim_timeout |-> 60, sleep_timeout |-> s,
   cpu |-> [k \in CpuKnobs |-> IF k = "governor" THEN gov ELSE epp],
   lid_close_action |-> lid, power_button_action |-> power,
   sleep_button_action |-> "suspend"]

Balanced    == Profile(70, 10, 600, "powersave", KeepSetting, "", "poweroff")
Powersave   == Profile(40, 5, 300, "powersave", "power", "suspend", "poweroff")
Performance == Profile(100, 20, 0, "performance", "performance", "", "bogus")
McProfiles  == {Balanced, Powersave, Performance}

Table(p1, p2, p3) == [n \in Names |-> CASE n = n1 -> p1 [] n = n2 -> p2
                                        [] OTHER -> p3]
File(active, table) == [active_profile |-> active, first |-> n1,
                        profiles |-> table]

\* n3 names no profile; the last file has an active profile that is missing.
Shipped   == File(NoName, Table(Balanced, Performance, NoProfile))
Dangling  == File(n3, Table(Performance, NoProfile, NoProfile))
OneFile   == {File(n1, Table(Powersave, NoProfile, NoProfile))}
SomeFiles == {Shipped, Dangling}

McCpuSettings == {"powersave", "performance", "power"}

FdSymmetry   == Permutations(Fds)
SeatSymmetry == Permutations(Fds) \cup Permutations(Sessions)
=============================================================================

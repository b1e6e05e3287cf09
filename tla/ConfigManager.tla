--------------------------- MODULE ConfigManager ----------------------------
(***************************************************************************)
(* The daemon's ConfigManager and load_config.  The configuration file is  *)
(* shared with the administrator, who may replace it at any time; the      *)
(* daemon re-reads it on reload_config and rewrites its active_profile     *)
(* field on set_profile.                                                   *)
(*                                                                         *)
(* A list of profiles is a function from names to settings: Config::find   *)
(* returns the first profile of a name, the only one that can matter.      *)
(***************************************************************************)
EXTENDS Integers

CONSTANTS
  Names,         \* profile names
  NoName,        \* the empty string
  Profiles,      \* profile settings that occur in configuration files
  NoProfile,     \* nullptr from Config::find
  ConfigFiles,   \* contents the administrator may install
  Broken         \* a file that is missing or does not parse

VARIABLES
  file,       \* /etc/draind/draind.json
  m_config,   \* profiles in memory
  m_active    \* name of the active profile in memory

configVars == <<file, m_config, m_active>>

ProfileTable == [Names -> Profiles \cup {NoProfile}]

FileContent == [active_profile : Names \cup {NoName},
                first          : Names,
                profiles       : ProfileTable]

Defines(table, name) == name \in Names /\ table[name] # NoProfile

\* A file that parses names its first profile, unless it has none at all.
ASSUME ConfigAssumption ==
  /\ NoName \notin Names
  /\ NoProfile \notin Profiles
  /\ Broken \notin FileContent
  /\ ConfigFiles \subseteq FileContent \cup {Broken}
  /\ \A f \in ConfigFiles \ {Broken} :
       (\E n \in Names : Defines(f.profiles, n)) => Defines(f.profiles, f.first)

-----------------------------------------------------------------------------
\* load_config throws on an unreadable file and on one without profiles.
Loadable(f) == f # Broken /\ \E n \in Names : Defines(f.profiles, n)

\* Config::find, and ConfigManager::active_profile
Find(table, name) == IF Defines(table, name) THEN table[name] ELSE NoProfile
ActiveProfile     == Find(m_config, m_active)

\* The assignments of reload(); on_change is the caller's.
Load(f) ==
  /\ Loadable(f)
  /\ m_config' = f.profiles
  /\ m_active' = IF f.active_profile = NoName THEN f.first ELSE f.active_profile

\* persist_active: rewrites only the active_profile field of whatever the
\* file holds now; an unparsable or unwritable file is left alone.  The
\* file is truncated before it is written and the write is not checked, so
\* a full disk leaves an empty file behind.
PersistActive(name) ==
  \/ file # Broken /\ file' = [file EXCEPT !.active_profile = name]
  \/ file # Broken /\ file' = Broken
  \/ UNCHANGED file

SetActive(name) ==
  /\ Defines(m_config, name)
  /\ m_active' = name
  /\ PersistActive(name)
  /\ UNCHANGED m_config

\* The administrator replaces the file (not draind code).
EditFile(f) ==
  /\ file' = f
  /\ UNCHANGED <<m_config, m_active>>

ConfigInit ==
  /\ file \in ConfigFiles
  /\ m_config = [n \in Names |-> NoProfile]
  /\ m_active = NoName

ConfigReset ==
  /\ m_config' = [n \in Names |-> NoProfile]
  /\ m_active' = NoName
  /\ UNCHANGED file
=============================================================================

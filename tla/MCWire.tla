------------------------------- MODULE MCWire -------------------------------
(* Instance of Wire for TLC, with the coding of json.hpp. *)
EXTENDS WireProperties, Json

McMessages == {Msg("idle_dim"), EncodeHello("2", 1000),
               EncodeInhibit("\"a\\\n")}

\* A name with characters that are escaped, and one nobody defines.
McProfiles == {"p", "\"q\n"}
McCommands == {EncodeCtl("set_profile", name) : name \in McProfiles \cup {"z"}}
              \cup {EncodeCtl("list_inhibitors", ""),
                    EncodeCtl("reload_config", "")}
\* Every place where a message of an agent can be cut off.
McCapacities == [agent |-> 1 .. 50, ctl |-> {33, 50}]

McTorn[k \in 0 .. MaxSent - 1] ==
  IF k = 0 THEN {[text |-> <<>>, of |-> {}]}
  ELSE UNION {{[text |-> t.text \o SubSeq(Encode(m), 1, n), of |-> t.of \cup {m}] :
                 t \in McTorn[k - 1], n \in 0 .. Len(Encode(m))} :
              m \in AgentMessages}

McListing == <<Str("2: \"a\\\n"), Null>>

McRoot == Object([active_profile |-> Str("p"),
                  profiles |-> Array(<<Object([name |-> Str("p"),
                                               lid |-> Bool(TRUE),
                                               sleep |-> Num(-1)]),
                                       Object([name |-> Str("\"q\n")])>>)])
=============================================================================

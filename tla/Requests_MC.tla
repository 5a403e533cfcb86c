---------------------------- MODULE Requests_MC ----------------------------
(* Words, lines and messages for TLC.                                       *)
EXTENDS Requests

KL == "KL/0.3"
MCVersionWords == {KL}

\* "ab" begins with "a"; SET, QUIT and POWER are spelled in other ways.
MCBegins == {<<"ab", "a">>, <<"QUIT", "Q">>, <<"set", "SET">>,
             <<"power", "POWER">>, <<"POWER", "power">>,
             <<"POWER0", "POWER">>, <<"POWER1", "POWER">>,
             <<"POWER0", "power">>, <<"POWER1", "power">>}
MCRespelled == {<<"off", "OFF">>, <<"OFF", "off">>}
MCUpper == [w \in {"power"} |-> "POWER"]
MCNumber == [w \in {"0", "1", "7", "9"} |->
                CASE w = "0" -> 0 [] w = "1" -> 1 [] w = "7" -> 7 [] w = "9" -> 9]
MCCommandList == [w \in {"POWER,DIM", "DIM,KL/0.3"} |->
                     IF w = "POWER,DIM" THEN <<"POWER", "DIM">> ELSE <<"DIM", KL>>]
MCOwnCommands == [ty \in Types \ {1, 7} |->
                     IF ty = 0 THEN <<"POWER">> ELSE <<"POWER", "DIM">>]
MCOutlets == <<"POWER0", "POWER1">>
MCTemplate == <<<<"POWER", "OFF">>, <<"DIM", "0">>>>

\* Every beginning of a line, from the verb on.
Beginnings(l) == {SubSeq(l, 1, n) : n \in 1..Len(l)}

Adds == {<<"ADD", "a", "t", "7", "POWER,DIM", KL>>,
         <<"ADD", "a", "t", "7", "POWER,DIM", KL, KL>>,
         <<"ADD", "a", "t", "7", "POWER,DIM", "t", KL>>,
         <<"ADD", "a", "t", "7", "DIM,KL/0.3", KL>>,
         <<"ADD", "a", "t", "7", KL>>, <<"ADD", "a", "t", KL>>,
         <<"ADD", "ab", "t", "1", "1", KL>>,
         <<"ADD", "ab", "t", "1", KL>>,
         <<"ADD", "b", "t", "0", KL>>,
         <<"ADD", "a", "t", "9", KL>>}
Updates == {<<"UPDATE", "NAME", "a", KL, KL>>,
            <<"UPDATE", "TOPIC", "ab", "u", KL>>, <<"UPDATE", "STATE", "a", KL>>,
            <<"UPDATE", "a", "a", KL>>}
Others == {<<"set", "a", c, "ON", KL>> : c \in {"power", "DIM"}}
          \cup {<<verb, n, KL>> : verb \in {"DELETE", "STATUS", "TOGGLE"},
                                  n \in {"a", KL}}
          \cup {<<"SET", "a", "POWER", KL>>, <<"LIST", KL>>, <<"QUIT">>,
                <<"a", KL>>, <<"TOGGLE", KL>>, <<"TOGGLE", "a", "t">>}

MCLines == Adds \cup Updates \cup Others
           \cup Beginnings(<<"TRANSMIT", "t", "ON", KL>>)
           \cup Beginnings(<<"UPDATE", "NAME", "a", KL>>)

MCWord == UNION {{l[k] : k \in DOMAIN l} : l \in MCLines}

\* One property; both; both in the other order; one the state may not have
\* first; one spelled otherwise; one twice; whole states, the second with more
\* tokens than there is room for.
MCMessages == {<<<<"POWER", "ON">>>>, <<<<"POWER", "off">>>>,
               <<<<"POWER", "OFF">>, <<"DIM", "5">>>>,
               <<<<"DIM", "0">>, <<"POWER", "ON">>>>,
               <<<<"CT", "1">>, <<"DIM", "5">>>>,
               <<<<"POWER", "ON">>, <<"POWER", "OFF">>>>,
               <<<<"CT", "1">>, <<"Heap", "9">>, <<"AP", "0">>>>,
               <<<<"CT", "1">>, <<"POWER", "ON">>, <<"DIM", "5">>,
                 <<"AP", "POWER">>>>}

\* What a step depends on; the rest is what the last one answered.  Action
\* properties are checked on every step all the same.
TableAndClient == <<memory, failed>>
=============================================================================

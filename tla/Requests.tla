------------------------------ MODULE Requests ------------------------------
(***************************************************************************)
(* What one line from a client does and what it is answered:                *)
(* parse_server_request of src/server.c with the handlers it calls, and the *)
(* MQTT callback, which changes the states STATUS shows.                    *)
(*                                                                         *)
(* A line is the sequence of its words.  What the code can tell about a     *)
(* word is given by the constants: what it begins with, its number, whether *)
(* get_protocol_version accepts it.  Each request runs in the section, so   *)
(* it is one step.  Staging and the database are in DeviceTable; here the   *)
(* fields of a deleted device are cleared at once.                          *)
(*                                                                         *)
(* A definition marked "Slip" is a plausible mistake in the definition that *)
(* follows it.                                                              *)
(***************************************************************************)
EXTENDS StateJson, FiniteSets, Functions

CONSTANTS
    MaxDev,       \* conf->max_dev_count
    Word,         \* what strtok finds between spaces, so never empty
    Lines,        \* the lines clients send
    Messages,     \* the messages on stat/<topic>/RESULT, as pairs
    Begins,       \* <<w, v>>: w is longer than v and begins with it, or differs
                  \* from it in upper and lower case
    VersionWords, \* words like KL/0.3
    Number,       \* Number[w]: the number w begins with, for words that do
    CommandList,  \* CommandList[w]: w split at commas, for words with commas
    OwnCommands,  \* OwnCommands[ty]: DEV_TYPE<ty>_CMDS, split at commas
    Outlets,      \* POWER0, POWER1, ...
    Upper,        \* Upper[w]: w in upper case, for words that are not
    Template,     \* DEV_STATE_TMPL
    FullLen,      \* pairs in a message of DV_STATE_TMPL_LEN bytes
    ArgLen,       \* ARG_LEN
    Free          \* an empty slot

Verbs == {"TRANSMIT", "TOGGLE", "SET", "ADD", "DELETE", "UPDATE", "LIST",
          "STATUS", "Q"}
Slots == 1..MaxDev
Types == 0..7

ASSUME RequestAssumption ==
    /\ MaxDev \in Nat \ {0}
    /\ ArgLen \in Nat \ {0}
    /\ \A w \in DOMAIN Number : Number[w] \in Int
    /\ Empty \notin Word
    /\ \A l \in Lines : l \in Seq(Word) /\ Len(l) > 0
    /\ \A m \in Messages \cup {Template} : List(m) /\ Len(m) > 0
    /\ \A w \in DOMAIN CommandList : List(CommandList[w])
    /\ List(Outlets) /\ Len(Outlets) > 0
    /\ \A ty \in Types \ {1, 7} : List(OwnCommands[ty]) /\ Len(OwnCommands[ty]) > 0

VARIABLES
    memory,     \* memory[i]: name, topic, type, state and commands, or Free
    failed,     \* client->error is not MQTT_OK, which nothing clears
    line,       \* the line answered in the last step, if one was
    answer,     \* the code of its answer
    shown,      \* what the answer lists: command and value, or devices
    sent        \* what the MQTT client has queued for it

vars == <<memory, failed, line, answer, shown, sent>>

----------------------------------------------------------------------------
(* Words.                                                                   *)

Matches(w, v) == w = v \/ <<w, v>> \in Begins

\* Both ways, so of equal length.
Equal(v, w) == Matches(v, w) /\ Matches(w, v)

\* strtok(tmp, " "): at most ARG_LEN words are kept, the rest is not looked at.
Kept(l) == SubSeq(l, 1, IF Len(l) < ArgLen THEN Len(l) ELSE ArgLen)

\* A word that is not there is empty.
Arg(l, k) == IF k <= Len(Kept(l)) THEN l[k] ELSE Empty

\* strncasecmp(req_args[0], verb, strlen(verb)).
Is(l, verb) == Matches(Arg(l, 1), verb)

atoi(w) == IF w \in DOMAIN Number THEN Number[w] ELSE 0
TypeNumber(l) == atoi(Arg(l, 4))

\* Slip (VersionIsNoArgument): the list of commands is not counted.
AddWordsPlain(l) == 5

\* ADD_ARGB when the type has a list of commands, else ADD_ARGA.
AddWords(l) == IF TypeNumber(l) \in {1, 7} THEN 6 ELSE 5

WordsNeeded(l, verb) ==
    CASE verb = "TRANSMIT" -> 4
      [] verb = "TOGGLE" -> 3
      [] verb = "SET" -> 5
      [] verb = "ADD" -> AddWords(l)
      [] verb = "DELETE" -> 3
      [] verb = "UPDATE" -> 4
      [] verb = "LIST" -> 2
      [] verb = "STATUS" -> 3

Enough(l, verb) == Len(Kept(l)) >= WordsNeeded(l, verb)

\* get_protocol_version of the last word kept.
Versioned(l) == Arg(l, Len(Kept(l))) \in VersionWords

\* The line reaches the handler of its verb.
Accepted(l, verb) == Is(l, verb) /\ Enough(l, verb) /\ Versioned(l)

----------------------------------------------------------------------------
(* Devices.                                                                 *)

Occupied == {i \in Slots : memory[i] # Free}

\* A free slot's name is empty and begins with no word.
Named(arg) == {i \in Occupied : Matches(memory[i].name, arg)}

\* The first slot whose name begins with the argument.
Reached(arg) == CHOOSE i \in Named(arg) : \A j \in Named(arg) : i <= j

FirstFree == CHOOSE i \in Slots \ Occupied : \A j \in Slots \ Occupied : i <= j

\* Slip (AddedIsReached): only the very same name is a duplicate.
CanAddExact(n, ty) ==
    /\ ty \in Types
    /\ \A i \in Occupied : memory[i].name # n
    /\ Occupied # Slots

\* A free slot is found before the duplicate, but the duplicate counts.
CanAdd(n, ty) == ty \in Types /\ Named(n) = {} /\ Occupied # Slots

\* powerstrip_cmnd_cat makes POWER0 to POWER<count>.
Commands(ty, list) ==
    CASE ty = 1 -> [k \in 1..1 + atoi(list) |-> Outlets[k]]
      [] ty = 7 -> IF list \in DOMAIN CommandList THEN CommandList[list]
                                                 ELSE <<list>>
      [] OTHER -> OwnCommands[ty]

\* An empty list accepts everything.
verify_command(cmd, cmnds) ==
    cmnds # <<>> => \E k \in DOMAIN cmnds : Equal(cmd, cmnds[k])

----------------------------------------------------------------------------
(* The MQTT client: what is queued for a request is a first part of what it *)
(* asks for.  The client may fail by it (full buffer) or by the refresher.  *)

Subscribe(t) == <<"subscribe", t>>
Unsubscribe(t) == <<"unsubscribe", t>>

convert_to_upper(w) == IF w \in DOMAIN Upper THEN Upper[w] ELSE w

\* prepare_topic writes the last part of the topic in upper case.
Publish(t, cmd, payload) == <<"publish", t, convert_to_upper(cmd), payload>>

\* What the hub itself puts into a message or into the table; versions begin with
\* KL.
OwnWords == {"publish", "subscribe", "unsubscribe", "TOGGLE", "/STATE", Empty}
            \cup Range(Outlets)
            \cup UNION {Range(OwnCommands[ty]) : ty \in Types \ {1, 7}}
ASSUME OwnWordAssumption ==
    \A w \in OwnWords : w \notin VersionWords /\ convert_to_upper(w) \notin VersionWords

Queue(calls) ==
    \E k \in 0..Len(calls) :
        /\ failed => k = 0
        /\ sent' = SubSeq(calls, 1, k)
        /\ failed' \in BOOLEAN
        /\ failed \/ k < Len(calls) => failed'

Answer(l, code) == line' = l /\ answer' = code

\* An answer without a list, to a request that calls no MQTT function.
Say(l, code) ==
    /\ Answer(l, code)
    /\ shown' = <<>>
    /\ sent' = <<>>
    /\ UNCHANGED <<memory, failed>>

----------------------------------------------------------------------------
(* parse_server_request.                                                    *)

\* Not a request, too few words, or the last one is not a version.
Refuse(l) ==
    \/ (\A verb \in Verbs : ~Is(l, verb)) /\ Say(l, 400)
    \/ \E verb \in Verbs \ {"Q"} :
           /\ Is(l, verb)
           /\ \/ ~Enough(l, verb) /\ Say(l, 409)
              \/ Enough(l, verb) /\ ~Versioned(l) /\ Say(l, 406)

\* The connection is closed after the answer.
Quit(l) == Is(l, "Q") /\ Say(l, 207)

\* Slip (QueuedOrTold): looks at client->error before it calls mqtt_publish.
FailedBefore == failed

FailedAfter == failed'

\* The only handler that looks at client->error.
Transmit(l) ==
    /\ Accepted(l, "TRANSMIT")
    /\ Queue(<<Publish(Arg(l, 2), Empty, Arg(l, 3))>>)
    /\ Answer(l, IF FailedAfter THEN 500 ELSE 205)
    /\ shown' = <<>>
    /\ UNCHANGED memory

\* A request about a device no name matches.
NoSuchDevice(l) ==
    \/ \E verb \in {"TOGGLE", "SET", "STATUS"} :
           Accepted(l, verb) /\ Named(Arg(l, 2)) = {} /\ Say(l, 404)
    \/ Accepted(l, "DELETE") /\ Named(Arg(l, 2)) = {} /\ Say(l, 402)

\* POWER0 is every outlet of a powerstrip.
toggle_dev_power(l) ==
    /\ Accepted(l, "TOGGLE") /\ Named(Arg(l, 2)) # {}
    /\ LET d == memory[Reached(Arg(l, 2))]
       IN  Queue(<<Publish(d.topic,
                           IF d.type = 1 THEN Outlets[1] ELSE OwnCommands[0][1],
                           "TOGGLE")>>)
    /\ Answer(l, 200)
    /\ shown' = <<>>
    /\ UNCHANGED memory

change_dev_state(l) ==
    /\ Accepted(l, "SET") /\ Named(Arg(l, 2)) # {}
    /\ LET d == memory[Reached(Arg(l, 2))]
       IN  IF verify_command(Arg(l, 3), d.cmnds)
           THEN /\ Queue(<<Publish(d.topic, Arg(l, 3), Arg(l, 4))>>)
                /\ Answer(l, 201)
                /\ shown' = <<>>
                /\ UNCHANGED memory
           ELSE Say(l, 405)

NewDevice(l) ==
    [name |-> Arg(l, 2), topic |-> Arg(l, 3), type |-> TypeNumber(l),
     state |-> Template, cmnds |-> Commands(TypeNumber(l), Arg(l, 5))]

\* A slot with a device is told from a free one, and there is a name for every
\* outlet of a powerstrip.
ASSUME AddAssumption ==
    \A l \in Lines :
        /\ Accepted(l, "ADD") /\ TypeNumber(l) \in Types => NewDevice(l) # Free
        /\ Accepted(l, "ADD") /\ TypeNumber(l) = 1
           => 1..1 + atoi(Arg(l, 5)) \subseteq DOMAIN Outlets

\* A full table, a duplicate and a type out of range get the same answer.
add_device(l) ==
    /\ Accepted(l, "ADD")
    /\ IF CanAdd(Arg(l, 2), TypeNumber(l))
       THEN /\ memory' = [memory EXCEPT ![FirstFree] = NewDevice(l)]
            /\ Queue(<<Subscribe(Arg(l, 3)),
                       Publish(Arg(l, 3), "/STATE", Empty)>>)
            /\ Answer(l, 202)
            /\ shown' = <<>>
       ELSE Say(l, 403)

delete_device(l) ==
    /\ Accepted(l, "DELETE") /\ Named(Arg(l, 2)) # {}
    /\ LET i == Reached(Arg(l, 2))
       IN  /\ memory' = [memory EXCEPT ![i] = Free]
           /\ Queue(<<Unsubscribe(memory[i].topic)>>)
    /\ Answer(l, 203)
    /\ shown' = <<>>

----------------------------------------------------------------------------
(* UPDATE.  Four words are enough for it, but NAME and TOPIC use a fifth.   *)

\* Slip (TypeOK): takes the word after it, which may not be there.
NewValueNext(l) == Arg(l, 5)

NewValue(l) == Arg(l, 4)

update_name(l) ==
    /\ Equal(Arg(l, 2), "NAME")
    /\ memory' = [memory EXCEPT ![Reached(Arg(l, 3))].name = NewValue(l)]
    /\ sent' = <<>>
    /\ Answer(l, 208)
    /\ UNCHANGED failed

update_topic(l) ==
    /\ Equal(Arg(l, 2), "TOPIC")
    /\ LET i == Reached(Arg(l, 3))
       IN  /\ memory' = [memory EXCEPT ![i].topic = NewValue(l)]
           /\ Queue(<<Publish(memory[i].topic, "/TOPIC", NewValue(l)),
                      Unsubscribe(memory[i].topic), Subscribe(NewValue(l))>>)
    /\ Answer(l, 209)

\* The new state comes later, in a message.
update_state(l) ==
    /\ Equal(Arg(l, 2), "STATE")
    /\ Queue(<<Publish(memory[Reached(Arg(l, 3))].topic, "/STATE", Empty)>>)
    /\ Answer(l, 210)
    /\ UNCHANGED memory

update_device(l) ==
    /\ Accepted(l, "UPDATE")
    /\ IF \A what \in {"NAME", "TOPIC", "STATE"} : ~Equal(Arg(l, 2), what)
       THEN Say(l, 405)
       ELSE IF Named(Arg(l, 3)) = {}
            THEN Say(l, 404)
            ELSE /\ update_name(l) \/ update_topic(l) \/ update_state(l)
                 /\ shown' = <<>>

----------------------------------------------------------------------------
(* LIST and STATUS.                                                         *)

dump_devices(l) ==
    /\ Accepted(l, "LIST")
    /\ Answer(l, 204)
    /\ shown' = SelectSeq([i \in Slots |->
           IF memory[i] = Free THEN <<>>
           ELSE <<memory[i].name, memory[i].topic, memory[i].type>>],
           LAMBDA d : d # <<>>)
    /\ sent' = <<>>
    /\ UNCHANGED <<memory, failed>>

\* One buffer takes the value of each command in turn.  What a lookup does not
\* overwrite is still there for the next command.
StatusLines(d) ==
    LET elem[k \in 0..Len(d.cmnds)] ==
            IF k = 0 THEN Empty
            ELSE find_jsmn_str(elem[k - 1], d.cmnds[k], d.state)
    IN  [k \in 1..Len(d.cmnds) |-> <<d.cmnds[k], elem[k]>>]

get_dev_state(l) ==
    /\ Accepted(l, "STATUS") /\ Named(Arg(l, 2)) # {}
    /\ Answer(l, 206)
    /\ shown' = StatusLines(memory[Reached(Arg(l, 2))])
    /\ sent' = <<>>
    /\ UNCHANGED <<memory, failed>>

----------------------------------------------------------------------------
(* The MQTT callback: a message as long as the template replaces the state, *)
(* a shorter one is merged into it.                                         *)

Updated(s, m) == IF Len(m) < FullLen THEN replace_jsmn_property(s, m) ELSE m

NoRequest == line' = <<>> /\ answer' = 0 /\ shown' = <<>> /\ sent' = <<>>

\* The first slot with the topic takes it.
publish_kl_callback(i, m) ==
    /\ i \in Occupied
    /\ \A j \in Occupied : j < i => memory[j].topic # memory[i].topic
    /\ memory' = [memory EXCEPT ![i].state = Updated(@, m)]
    /\ NoRequest
    /\ UNCHANGED failed

\* The refresher finds the broker gone, or an acknowledgement it cannot place.
ClientFails ==
    /\ failed' = TRUE
    /\ NoRequest
    /\ UNCHANGED memory

----------------------------------------------------------------------------
Init ==
    /\ memory = [i \in Slots |-> Free]
    /\ failed = FALSE
    /\ line = <<>>
    /\ answer = 0
    /\ shown = <<>>
    /\ sent = <<>>

parse_server_request(l) ==
    \/ Refuse(l)
    \/ Quit(l)
    \/ Transmit(l)
    \/ NoSuchDevice(l)
    \/ toggle_dev_power(l)
    \/ change_dev_state(l)
    \/ add_device(l)
    \/ delete_device(l)
    \/ update_device(l)
    \/ dump_devices(l)
    \/ get_dev_state(l)

Next ==
    \/ \E l \in Lines : parse_server_request(l)
    \/ \E i \in Slots, m \in Messages : publish_kl_callback(i, m)
    \/ ClientFails

Spec == Init /\ [][Next]_vars

----------------------------------------------------------------------------
Codes == {0, 200, 201, 202, 203, 204, 205, 206, 207, 208, 209, 210,
          400, 402, 403, 404, 405, 406, 409, 500}

\* A slot is free or has a device of a known type with a state; the codes 401,
\* 407 and 408 of the README are never answered.
TypeOK ==
    /\ \A i \in Occupied :
           /\ DOMAIN memory[i] = {"name", "topic", "type", "state", "cmnds"}
           /\ memory[i].name # Empty
           /\ memory[i].topic # Empty
           /\ memory[i].type \in Types
           /\ Len(memory[i].state) > 0
    /\ failed \in BOOLEAN
    /\ line \in Lines \cup {<<>>}
    /\ answer \in Codes

\* A device that was just added is the one its name reaches: whatever was added,
\* deleted and renamed before, no slot above or below takes its requests.
Target == Reached(Arg(line, 2))

AddedIsReached ==
    [][answer' = 202 => memory'[Target'] # memory[Target']]_vars

\* The words a handler writes to the table, names, topics and commands, and those
\* it sends to the broker come from in front of the version: a command in upper
\* case, a list of commands split at its commas.  Nor is the version read as the
\* number of a type or of outlets.  UPDATE is left out: its count of words is one
\* too low for NAME and TOPIC, and "UPDATE NAME a KL/0.3" names a device KL/0.3.
DeviceWords(d) == {d.name, d.topic} \cup Range(d.cmnds)
Words(mem) == UNION {DeviceWords(mem[i]) : i \in {j \in Slots : mem[j] # Free}}
SentWords == UNION {Range(sent[k]) : k \in DOMAIN sent}

Listed(w) == IF w \in DOMAIN CommandList THEN Range(CommandList[w]) ELSE {}

\* The last word ADD reads for a device of type ty.
LastRead(ty) == IF ty \in {1, 7} THEN 5 ELSE 4

VersionIsNoArgument ==
    [][/\ ~Is(line', "UPDATE") =>
             \A w \in VersionWords :
                 w \in Words(memory') \cup SentWords' =>
                     \/ w \in Words(memory)
                     \/ \E k \in 1..Len(Kept(line')) - 1 :
                            w \in {line'[k], convert_to_upper(line'[k])}
                                     \cup Listed(line'[k])
       /\ answer' = 202 =>
             LastRead(memory'[Target'].type) < Len(Kept(line'))]_vars

\* What an answer 2xx says was done has been queued for the broker, all of it, or
\* the client has failed and TRANSMIT does not answer 2xx.
Calls(code) ==
    CASE code \in {200, 201, 203, 205, 210} -> 1
      [] code = 202 -> 2
      [] code = 209 -> 3
      [] OTHER -> 0

QueuedOrTold ==
    [][Len(sent') = Calls(answer') \/ (failed' /\ answer' # 205)]_vars

\* A message overrides the state's properties if it names them in their order,
\* the text of each has as many tokens as there is room for, and the state has
\* no property twice.  Whatever the message, a property it does not name stays,
\* and one it names has the old value or the message's.
MessageMerged ==
    [][answer' = 0 =>
        \A i \in Slots, m \in Messages :
           /\ Len(m) < FullLen
           /\ NoneTwice(m)
           /\ publish_kl_callback(i, m)
           => LET s == memory[i].state
              IN  /\ /\ Parsed(s) /\ Parsed(m)
                     /\ NoneTwice(s) /\ InOrder(s, m)
                     => memory'[i].state = Override(s, m)
                  /\ \A k \in DOMAIN s :
                         memory'[i].state[k] \in {s[k], Override(s, m)[k]}]_vars

\* STATUS shows for every command the value of its property, if the state has
\* all of them, has none of their names for a value, and has no more tokens
\* than there is room for.
Shows(d, cmd, value) ==
    \E j \in DOMAIN d.state : Same(d.state[j][1], cmd) /\ d.state[j][2] = value

StatusShowsOwn ==
    [][answer' = 206 =>
          LET d == memory[Reached(Arg(line', 2))]
          IN  /\ Parsed(d.state)
              /\ \A k \in DOMAIN d.cmnds, j \in DOMAIN d.state :
                     ~Same(d.state[j][2], d.cmnds[k])
              /\ \A k \in DOMAIN d.cmnds : \E j \in DOMAIN d.state :
                     Same(d.state[j][1], d.cmnds[k])
              => /\ DOMAIN shown' = DOMAIN d.cmnds
                 /\ \A k \in DOMAIN d.cmnds :
                        /\ shown'[k][1] = d.cmnds[k]
                        /\ Shows(d, d.cmnds[k], shown'[k][2])]_vars
=============================================================================

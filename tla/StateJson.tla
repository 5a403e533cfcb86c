----------------------------- MODULE StateJson -----------------------------
(***************************************************************************)
(* src/statejson.c: looking a property up in a device's state, and merging  *)
(* a message into it.  A state or a message is the sequence of its tokens'  *)
(* pairs <<property, value>>, in the order of the text.  Messages are valid *)
(* JSON with one pair at least, and values that are objects do not occur.   *)
(*                                                                         *)
(* A definition marked "Slip" is a plausible mistake in the definition that *)
(* follows it.                                                              *)
(***************************************************************************)
EXTENDS Integers, Sequences

CONSTANTS
    Respelled,  \* pairs of words that differ in upper and lower case only
    TokLen,     \* TOK_LEN, the tokens jsmn_parse has room for
    Empty,      \* the empty string
    Junk        \* what lies in the token after the last one

ASSUME TokLenAssumption == TokLen \in Nat \ {0}

\* strncasecmp over equal lengths, as jsoneq does.
Same(v, w) == v = w \/ <<v, w>> \in Respelled

\* Words are equal but for upper and lower case both ways and through others.
ASSUME RespelledAssumption ==
    \A p, q \in Respelled :
        Same(p[2], p[1]) /\ (p[2] = q[1] => Same(p[1], q[2]))

List(s) == Len(s) \in Nat /\ DOMAIN s = 1..Len(s)

\* Token k of a text: 0 is the object, then properties and values alternate.
TokenAt(s, k) ==
    IF k > 2 * Len(s) THEN Junk
    ELSE IF k % 2 = 1 THEN s[(k + 1) \div 2][1] ELSE s[k \div 2][2]

\* jsmn_parse fails on more tokens than it has room for.
Parsed(s) == 2 * Len(s) + 1 <= TokLen

\* Where find_jsmn_str stops: at the first token that is the word looked for,
\* which may be a value as well as a property.
Hits(s, w) == {k \in 1..2 * Len(s) : Parsed(s) /\ Same(TokenAt(s, k), w)}

First(ks) == CHOOSE k \in ks : \A other \in ks : k <= other

\* Slip (StatusShowsOwn): copies the token found and not the one after it.
find_jsmn_self(dst, w, s) ==
    IF Hits(s, w) = {} THEN dst ELSE TokenAt(s, First(Hits(s, w)))

\* The result goes to dst, which keeps what it has when nothing is found.
find_jsmn_str(dst, w, s) ==
    IF Hits(s, w) = {} THEN dst ELSE TokenAt(s, First(Hits(s, w)) + 1)

\* The pair of the message that is looked for at pair i of the state: one
\* more than the pairs met before i, for the message only goes on at a match.
Sought(s, m) ==
    LET j[i \in 1..Len(s) + 1] ==
            IF i = 1 THEN 1
            ELSE IF j[i - 1] <= Len(m) /\ Same(s[i - 1][1], m[j[i - 1]][1])
                 THEN j[i - 1] + 1
                 ELSE j[i - 1]
    IN  j

\* Slip (MessageMerged): the pair looked for moves on with every pair passed.
EachInTurn(s, m, i) ==
    /\ i <= Len(m)
    /\ Same(s[i][1], m[i][1])

\* Pair i of the state meets its pair of the message.
Met(s, m, i) ==
    /\ Sought(s, m)[i] <= Len(m)
    /\ Same(s[i][1], m[Sought(s, m)[i]][1])

\* When the message does not fit, its first tokens are there all the same, and
\* the walk ends at its first match.
Usable(m) == IF Parsed(m) THEN m ELSE SubSeq(m, 1, 1)

\* Values equal but for upper and lower case are left as they are.
Merge(s, m) ==
    [i \in 1..Len(s) |->
        IF Met(s, m, i) /\ ~Same(s[i][2], m[Sought(s, m)[i]][2])
        THEN <<s[i][1], m[Sought(s, m)[i]][2]>>
        ELSE s[i]]

replace_jsmn_property(s, m) == IF Parsed(s) THEN Merge(s, Usable(m)) ELSE s

----------------------------------------------------------------------------
(* The reference the merge is compared with.                                *)

NoneTwice(s) == \A i, j \in DOMAIN s : Same(s[i][1], s[j][1]) => i = j

\* The message's properties appear in the state, in the same order.
InOrder(s, m) ==
    \E at \in [1..Len(m) -> 1..Len(s)] :
        /\ \A i, j \in 1..Len(m) : i < j => at[i] < at[j]
        /\ \A j \in 1..Len(m) : Same(s[at[j]][1], m[j][1])

\* Each property of the message takes the message's value.
Override(s, m) ==
    [i \in 1..Len(s) |->
        IF \E j \in 1..Len(m) : /\ Same(s[i][1], m[j][1])
                                /\ ~Same(s[i][2], m[j][2])
        THEN <<s[i][1], m[CHOOSE j \in 1..Len(m) :
                              Same(s[i][1], m[j][1])][2]>>
        ELSE s[i]]
=============================================================================

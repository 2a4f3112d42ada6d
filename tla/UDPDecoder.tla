----------------------------- MODULE UDPDecoder -----------------------------
(***************************************************************************)
(* UDPDecoder: an automaton that reads a datagram byte by byte, whose      *)
(* edges store what they recognise in the member controls, and translate,  *)
(* which makes the message.  controls outlives a datagram that was         *)
(* malformed.  Bytes are those of UDPEncoder.                              *)
(***************************************************************************)
EXTENDS UDPEncoder

CONSTANTS
    NameLimit,  \* longest author that Message::setAuthor takes: 20
    TextLimit   \* longest text that Message::setText takes: 60000

ASSUME LimitsAssumption == NameLimit \in Nat /\ TextLimit \in Nat

\* isprint of the C locale, where a negative char is not printable.
Printable == (32 .. 126) \cup Words
NameChars == IdStart \cup Digits \cup {Minus, Dot}

\* What saveString finds behind the datagram if no byte of it is zero: the
\* copy ends somewhere beyond.
Beyond == -1

\* The lambdas that follow the type byte on the way to the final state.  The
\* states of a type are the numbers of the lambdas passed; CONFIRM is
\* <<"CONFIRM", 0>>, CNF_ID_1 is <<"CONFIRM", 1>>, CNF_ID_2 <<"CONFIRM", 2>>.
Paths ==
    LET id == <<"tautology", "saveID">>
        text == <<"saveDispName", "scanZero", "saveContent", "scanZero">>
    IN  [CONFIRM |-> id,
         PING |-> id,
         REPLY |-> id \o <<"saveStatus", "tautology", "saveReplyID",
                           "saveContent", "scanZero">>,
         MSG |-> id \o text,
         ERR |-> id \o text,
         BYE |-> id \o <<"saveDispName", "scanZero">>,
         JOIN |-> id \o <<"saveChannel", "scanZero", "saveDispName", "scanZero">>,
         AUTH |-> id \o <<"saveUsername", "scanZero", "saveDispName", "scanZero",
                          "saveSecret", "scanZero">>]

states ==
    {<<"INIT", 0>>}
      \cup UNION {{<<t, n>> : n \in 0 .. Len(Paths[t])} : t \in DOMAIN Paths}

\* A state entered by one of these has an edge to itself as well.
Loops == [saveContent |-> Printable, saveDispName |-> Printable,
          saveUsername |-> NameChars, saveSecret |-> NameChars,
          saveChannel |-> NameChars]

Accepts(lambda, c) ==
    CASE lambda \in {"tautology", "saveID", "saveReplyID"} -> TRUE
      [] lambda = "scanZero" -> c = NUL
      [] lambda = "saveStatus" -> c \in {0, 1}
      [] lambda = "saveChannel" -> c \in NameChars
      [] OTHER -> c \in Printable

----------------------------------------------------------------------------
(* The lambdas' effect on controls, at position i of datagram d. *)

NoControls == [messageID |-> 0, replyID |-> 0, status |-> 0, dispName |-> <<>>,
               channelID |-> <<>>, content |-> <<>>, secret |-> <<>>,
               username |-> <<>>]

SaveString(d, i) ==
    IF \E z \in i .. Len(d) : d[z] = NUL
    THEN SubSeq(d, i, Min({z \in i .. Len(d) : d[z] = NUL}) - 1)
    ELSE Append(SubSeq(d, i, Len(d)), Beyond)

\* A plausible fault: the two bytes are taken as they lie in memory.
ReadIDUnswapped(d, i) == d[i] * 256 + d[i - 1]

\* ntohs of the two bytes that end at i.
ReadID(d, i) == d[i - 1] * 256 + d[i]

\* A plausible fault: an accepted REPLY leaves the status as it was.
SavedOnce(ctl, lambda, d, i) ==
    CASE lambda = "saveID" -> [ctl EXCEPT !.messageID = ReadID(d, i)]
      [] lambda = "saveReplyID" -> [ctl EXCEPT !.replyID = ReadID(d, i)]
      [] lambda = "saveStatus" /\ d[i] = 1 -> [ctl EXCEPT !.status = 1]
      [] lambda = "saveContent" -> [ctl EXCEPT !.content = SaveString(d, i)]
      [] lambda \in {"saveSecret", "saveUsername"} ->
            [ctl EXCEPT !.secret = SaveString(d, i)]
      [] lambda \in {"saveDispName", "saveChannel"} ->
            [ctl EXCEPT !.dispName = SaveString(d, i)]
      [] OTHER -> ctl

\* The user name goes to secret, and the channel to dispName.
Saved(ctl, lambda, d, i) ==
    CASE lambda = "saveID" -> [ctl EXCEPT !.messageID = ReadID(d, i)]
      [] lambda = "saveReplyID" -> [ctl EXCEPT !.replyID = ReadID(d, i)]
      [] lambda = "saveStatus" -> [ctl EXCEPT !.status = d[i]]
      [] lambda = "saveContent" -> [ctl EXCEPT !.content = SaveString(d, i)]
      [] lambda \in {"saveSecret", "saveUsername"} ->
            [ctl EXCEPT !.secret = SaveString(d, i)]
      [] lambda \in {"saveDispName", "saveChannel"} ->
            [ctl EXCEPT !.dispName = SaveString(d, i)]
      [] OTHER -> ctl

----------------------------------------------------------------------------
(* decode: the automaton over the whole datagram.  A run is the type and   *)
(* the number of lambdas passed, controls, and whether it has stopped.     *)

Start(ctl) == [type |-> "INIT", passed |-> 0, controls |-> ctl, stopped |-> FALSE]

FromInit(run, c) ==
    IF \E t \in DOMAIN Paths : Codes[t] = c
    THEN [run EXCEPT !.type = CHOOSE t \in DOMAIN Paths : Codes[t] = c]
    ELSE [run EXCEPT !.stopped = TRUE]

\* A state entered by a lambda of Loops takes the byte itself, any other is
\* left by the lambda that follows; a final state has no edge.
Take(run, d, i) ==
    LET path == Paths[run.type]
        entered == IF run.passed = 0 THEN "INIT" ELSE path[run.passed]
    IN  IF entered \in DOMAIN Loops /\ d[i] \in Loops[entered]
        THEN run
        ELSE IF run.passed < Len(path) /\ Accepts(path[run.passed + 1], d[i])
        THEN [type |-> run.type, passed |-> run.passed + 1, stopped |-> FALSE,
              controls |-> Saved(run.controls, path[run.passed + 1], d, i)]
        ELSE [run EXCEPT !.stopped = TRUE]

\* One byte; nothing follows the break.
Step(run, d, i) ==
    IF run.stopped THEN run
    ELSE IF run.type = "INIT" THEN FromInit(run, d[i]) ELSE Take(run, d, i)

Automaton(ctl, d) ==
    LET run[i \in 0 .. Len(d)] ==
            IF i = 0 THEN Start(ctl) ELSE Step(run[i - 1], d, i)
    IN  run[Len(d)]

output(run) == <<run.type, run.passed>>

translationMap == [s \in {<<t, Len(Paths[t])>> : t \in DOMAIN Paths} |-> s[1]]

Terminal(run) == output(run) \in DOMAIN translationMap

----------------------------------------------------------------------------
(* translate. *)

Blank == [type |-> "NONE", id |-> NoId, ref |-> 0, ok |-> FALSE,
          author |-> <<>>, text |-> <<>>]

\* The fields that translate sets for each type; a JOIN takes its text from
\* channelID and an AUTH its author from username, which nobody stores.
Author(run) ==
    CASE run.type \in {"MSG", "ERR", "BYE", "JOIN"} -> run.controls.dispName
      [] run.type = "AUTH" -> run.controls.username
      [] OTHER -> <<>>
Text(run) ==
    CASE run.type \in {"REPLY", "MSG", "ERR"} -> run.controls.content
      [] run.type = "JOIN" -> run.controls.channelID
      [] run.type = "AUTH" -> run.controls.secret
      [] OTHER -> <<>>

Filled(run) ==
    [type |-> translationMap[output(run)], id |-> run.controls.messageID,
     ref |-> IF run.type = "REPLY" THEN run.controls.replyID ELSE 0,
     ok |-> run.type = "REPLY" /\ run.controls.status = 1,
     author |-> Author(run), text |-> Text(run)]

\* setAuthor or setText throws: the message is malformed but keeps what was
\* set before.  Only a JOIN sets its text first.
Malformed(m) ==
    [m EXCEPT !.type = "ERR_INTERNAL", !.text = <<>>,
              !.author = IF Len(@) > NameLimit THEN <<>> ELSE @]

Translated(run) ==
    IF ~Terminal(run) THEN Malformed(Blank)
    ELSE IF Len(Author(run)) > NameLimit \/ Len(Text(run)) > TextLimit
    THEN Malformed(Filled(run))
    ELSE Filled(run)

\* controls is cleared by a message, and kept by a malformed datagram.
ControlsAfter(run) ==
    IF Translated(run).type = "ERR_INTERNAL" THEN run.controls ELSE NoControls

=============================================================================

---------------------------- MODULE CommandLine ----------------------------
(***************************************************************************)
(* The command line of main, as the option parser reads it: one argument   *)
(* per step, from argv or from a file that "@file" includes.               *)
(*                                                                         *)
(* An argument is a record with its text and its shape: "at" (@file),      *)
(* "ddash" (--), "long" (--name or --name=arg), "dash" (- and one or more  *)
(* option characters; numeric if what follows the dash looks like a        *)
(* number) or "plain".  All options but -h take one value.                 *)
(***************************************************************************)
EXTENDS Integers, SequencesExt

CONSTANTS
    Argvs,           \* the command lines
    Files,           \* contents of the files that exist, by name
    Literals,        \* the unsigned numbers that a text begins with, by text
    MaxIncludeDepth  \* 8 unless the configuration says otherwise

ASSUME DepthAssumption == MaxIncludeDepth \in Nat
ASSUME LiteralsAssumption == \A text \in DOMAIN Literals : Literals[text] \in Nat

VARIABLES
    argv,   \* the command line
    parser  \* Parser, ParseResult, the options' counters and their targets

\* The parameters of main: all their names begin with a dash, so that they are
\* options, and none is positional.
Names == [protocol |-> {"--protocol", "-t"}, hostname |-> {"--hostname", "-s"},
          port |-> {"--port", "-p"}, retransmissions |-> {"--retransmissions", "-r"},
          timeout |-> {"--timeout", "-d"}]
Options == DOMAIN Names
HelpNames == {"--help", "-h"}
Required == {"protocol", "hostname"}
Protocols == {"tcp", "udp"}
Absent == [port |-> 4567, retransmissions |-> 3, timeout |-> 250]
Largest == [port |-> 65535, retransmissions |-> 255, timeout |-> 65535]

Blank == [protocol |-> "", hostname |-> "", port |-> 0, retransmissions |-> 0,
          timeout |-> 0]

Init ==
    /\ argv \in Argvs
    /\ parser = [done |-> FALSE, frames |-> <<argv>>, ignoring |-> FALSE,
                 group |-> <<>>, active |-> "none", current |-> [o \in Options |-> 0],
                 assigned |-> {}, targets |-> Blank,
                 errors |-> {}, ignored |-> FALSE, exit |-> FALSE]

----------------------------------------------------------------------------
(* The parts of Parser and Option. *)

FindOption(name) == {o \in Options : name \in Names[o]}

AddError(p, code) == [p EXCEPT !.errors = @ \cup {code}]
RequestExit(p) == [AddError(p, "EXIT_REQUESTED") EXCEPT !.exit = TRUE]

\* parse_int: none if there is no number, a minus sign, or too large a number;
\* what follows the number is not looked at.
ParseInt(text, limit) ==
    IF text \in DOMAIN Literals /\ Literals[text] <= limit THEN {Literals[text]} ELSE {}

Converted(o, text) ==
    IF o \in DOMAIN Largest THEN ParseInt(text, Largest[o]) ELSE {text}

WillAcceptArgument(p) == p.active # "none" /\ p.current[p.active] < 1
NeedsMoreArguments(p) == p.active # "none" /\ p.current[p.active] < 1

\* What is not a choice counts for the option, but not for its target.
Chosen(o, text) == o = "protocol" => text \in Protocols
Counted(p, o, text) ==
    [p EXCEPT !.current[o] = @ + 1,
              !.assigned = IF Chosen(o, text) THEN @ \cup {o} ELSE @]

SetValue(p, o, text) ==
    LET counted == Counted(p, o, text)
    IN  IF ~Chosen(o, text) THEN AddError(counted, "INVALID_CHOICE")
        ELSE IF Converted(o, text) = {} THEN AddError(counted, "CONVERSION_ERROR")
        ELSE [counted EXCEPT !.targets[o] = CHOOSE v \in Converted(o, text) : TRUE]

\* A plausible fault: an option without its value is closed silently.
CloseOptionSilently(p) == [p EXCEPT !.active = "none"]

CloseOption(p) ==
    [IF NeedsMoreArguments(p) THEN AddError(p, "MISSING_ARGUMENT") ELSE p
        EXCEPT !.active = "none"]

\* An option that gets its value after "=" stays the active one.
StartOption(p, name, arg) ==
    LET closed == CloseOption(p)
        found == FindOption(name)
    IN  CASE name \in HelpNames ->
                RequestExit(IF arg = "" THEN closed ELSE AddError(closed, "FLAG_PARAMETER"))
          [] found = {} /\ name \notin HelpNames -> AddError(closed, "UNKNOWN_OPTION")
          [] OTHER ->
                LET o == CHOOSE o \in found : TRUE
                    started == [closed EXCEPT !.active = o, !.current[o] = 0]
                IN  IF arg = "" THEN started ELSE SetValue(started, o, arg)

\* A negative number is a value if the active option takes one, and free if
\* there is no active option, since no option is a digit.
ArgumentType(p, a) ==
    CASE p.ignoring -> "free"
      [] ~p.ignoring /\ a.shape \in {"at", "ddash", "long"} -> a.shape
      [] ~p.ignoring /\ a.shape = "plain" ->
            IF WillAcceptArgument(p) THEN "value" ELSE "free"
      [] OTHER ->
            CASE a.numeric /\ WillAcceptArgument(p) -> "value"
              [] a.numeric /\ p.active = "none" -> "free"
              [] OTHER -> "dash"

----------------------------------------------------------------------------
(* The loop of Parser::parse; the last frame is the innermost stream. *)

Reading == ~parser.done /\ parser.frames # <<>> /\ parser.group = <<>>
Stream == Last(parser.frames)

\* A plausible fault: the stream is looked at, but not advanced.
NotConsumed(p) == p

Consumed(p) == [p EXCEPT !.frames[Len(p.frames)] = Tail(@)]

\* After an option or a value, an exit ends the innermost loop.
Returning(p) == IF p.exit THEN [p EXCEPT !.frames = Front(@)] ELSE p

Argument(type) ==
    Reading /\ Stream # <<>> /\ ArgumentType(parser, Head(Stream)) = type

\* A plausible fault: one file too many is opened.
TooDeepLater(p) == Len(p.frames) - 1 > MaxIncludeDepth + 1

TooDeep(p) == Len(p.frames) - 1 > MaxIncludeDepth

\* A file that cannot be opened has no arguments.
Include ==
    /\ Argument("at")
    /\ LET file == Head(Stream).file
       IN  parser' = IF TooDeep(parser)
                     THEN AddError([parser EXCEPT !.frames = <<>>], "INCLUDE_TOO_DEEP")
                     ELSE IF file \in DOMAIN Files
                     THEN [Consumed(parser) EXCEPT !.frames = Append(@, Files[file])]
                     ELSE Consumed(parser)
    /\ UNCHANGED argv

EndOfOptions ==
    /\ Argument("ddash")
    /\ parser' = [Consumed(parser) EXCEPT !.ignoring = TRUE]
    /\ UNCHANGED argv

\* There are no positional parameters to take it.
FreeArgument ==
    /\ Argument("free")
    /\ parser' = [Consumed(parser) EXCEPT !.ignored = TRUE]
    /\ UNCHANGED argv

LongOption ==
    /\ Argument("long")
    /\ parser' = Returning(StartOption(Consumed(parser), Head(Stream).name,
                                       Head(Stream).arg))
    /\ UNCHANGED argv

\* The characters of the argument wait in the group.
DashOptions ==
    /\ Argument("dash")
    /\ parser' = [Consumed(parser) EXCEPT !.group = Head(Stream).names]
    /\ UNCHANGED argv

\* Each of them starts an option; an exit counts only behind the last.
DashOption ==
    /\ parser.group # <<>>
    /\ LET p == [StartOption(parser, Head(parser.group), "") EXCEPT !.group = Tail(@)]
       IN  parser' = IF p.group = <<>> THEN Returning(p) ELSE p
    /\ UNCHANGED argv

OptionValue ==
    /\ Argument("value")
    /\ LET p == SetValue(Consumed(parser), parser.active, Head(Stream).text)
       IN  parser' = Returning(IF WillAcceptArgument(p) THEN p ELSE CloseOption(p))
    /\ UNCHANGED argv

EndOfStream ==
    /\ Reading /\ Stream = <<>> /\ argv # <<>>
    /\ parser' = [parser EXCEPT !.frames = Front(@)]
    /\ UNCHANGED argv

\* Without arguments, parse_args shows the help: some are required.
NoArguments ==
    /\ Reading /\ argv = <<>>
    /\ parser' = [RequestExit(parser) EXCEPT !.frames = <<>>, !.done = TRUE]
    /\ UNCHANGED argv

\* A plausible fault: the default replaces what was given.
DefaultedAlways(p) ==
    [p EXCEPT !.targets = [o \in Options |-> IF o \in DOMAIN Absent THEN Absent[o] ELSE @[o]]]

\* assignDefaultValues
Defaulted(p) ==
    [p EXCEPT !.targets = [o \in Options |->
        IF o \in DOMAIN Absent \ p.assigned THEN Absent[o] ELSE @[o]]]

Missing(p) == Required \ p.assigned

\* The last option is closed; unless the parser exits, what was not given is
\* filled in, or missed.
Finish ==
    /\ ~parser.done /\ parser.frames = <<>> /\ parser.group = <<>>
    /\ LET p == [CloseOption(parser) EXCEPT !.done = TRUE]
       IN  parser' = IF p.exit THEN p
                     ELSE IF Missing(p) = {} THEN Defaulted(p)
                     ELSE AddError(Defaulted(p), "MISSING_OPTION")
    /\ UNCHANGED argv

Parse ==
    \/ Include \/ EndOfOptions \/ FreeArgument \/ LongOption
    \/ DashOptions \/ DashOption \/ OptionValue \/ EndOfStream \/ NoArguments \/ Finish

\* ParseResult::operator bool
Accepted ==
    parser.done /\ parser.errors = {} /\ ~parser.ignored /\ ~parser.exit

----------------------------------------------------------------------------
(* What the parser should make of a command line, read as a whole. *)

Arguments == UNION {Range(s) : s \in Argvs \cup Range(Files)}

\* What looks like a number begins with a digit or a point, as no option does.
ASSUME ArgumentsAssumption ==
    /\ \A s \in Argvs \cup Range(Files) : s \in Seq(Arguments)
    /\ \A a \in Arguments :
         /\ a.shape \in {"at", "ddash", "long", "dash", "plain"}
         /\ a.shape = "dash" =>
              /\ a.names \in Seq(Range(a.names)) \ {<<>>} /\ a.numeric \in BOOLEAN
              /\ a.numeric => a.names[1] \notin HelpNames /\ FindOption(a.names[1]) = {}

Gone == [shape |-> "gone"]
Deep == [shape |-> "deep"]

\* The arguments with every file in its place, after a mark.
Replaced(a, content) ==
    IF a.shape = "at" THEN <<Gone>> \o content[a.file] ELSE <<a>>
Spread(s, content) == FlattenSeq([i \in DOMAIN s |-> Replaced(s[i], content)])

\* What a file stands for where files may still be nested to a depth.
FileNames == {a.file : a \in {a \in Arguments : a.shape = "at"}}
Included[depth \in 0 .. MaxIncludeDepth + 1] ==
    [f \in FileNames |-> IF depth = 0 THEN <<Deep>>
                         ELSE IF f \notin DOMAIN Files THEN <<>>
                         ELSE Spread(Files[f], Included[depth - 1])]
Expanded(s) == Spread(s, Included[MaxIncludeDepth + 1])

\* "--" may only be the last argument.
Strip(s) == FlattenSeq([i \in DOMAIN s |-> IF s[i].shape = "gone" THEN <<>> ELSE <<s[i]>>])
Body(s) == Strip(IF s # <<>> /\ Last(s).shape = "ddash" THEN Front(s) ELSE s)

\* An argument gives a value to an option: it is the option with its value, or
\* the option, with the value in the argument behind it.
NameOf(a) == IF a.shape = "long" THEN a.name
             ELSE IF a.shape = "dash" /\ Len(a.names) = 1 THEN a.names[1] ELSE ""
OptionOf(a) == CHOOSE o \in FindOption(NameOf(a)) : TRUE
IsStart(a) == FindOption(NameOf(a)) # {} /\ (a.shape = "long" => a.arg = "")
IsWhole(a) == FindOption(NameOf(a)) # {} /\ a.shape = "long" /\ a.arg # ""
IsText(a) == a.shape = "plain" \/ (a.shape = "dash" /\ a.numeric)

Assignments(b) == {i \in DOMAIN b : IsStart(b[i]) \/ IsWhole(b[i])}
TextAt(b, i) == IF IsWhole(b[i]) THEN b[i].arg ELSE b[i + 1].text

Valid(o, text) ==
    /\ o = "protocol" => text \in Protocols
    /\ o \in DOMAIN Largest => text \in DOMAIN Literals /\ Literals[text] \in 0 .. Largest[o]
Value(o, text) == IF o \in DOMAIN Largest THEN Literals[text] ELSE text

WellFormed(b) ==
    /\ \A i \in DOMAIN b :
         \/ IsWhole(b[i])
         \/ IsStart(b[i]) /\ i < Len(b) /\ IsText(b[i + 1])
         \/ IsText(b[i]) /\ i > 1 /\ IsStart(b[i - 1])
    /\ \A i \in Assignments(b) : Valid(OptionOf(b[i]), TextAt(b, i))
    /\ Required \subseteq {OptionOf(b[i]) : i \in Assignments(b)}

\* The last assignment to each option counts.
Given(b, o) ==
    LET at == {i \in Assignments(b) : OptionOf(b[i]) = o}
    IN  IF at = {} THEN Absent[o] ELSE Value(o, TextAt(b, Max(at)))

----------------------------------------------------------------------------
(* Properties. *)

\* However the arguments follow each other and whatever files they include,
\* the parser accepts exactly the sequences of options with one valid value
\* each, the required ones among them (parser_impl.h:143-244).
AcceptsGrammar ==
    parser.done => (Accepted <=> WellFormed(Body(Expanded(argv))))

\* The configuration of an accepted command line: the value given last, in its
\* range, and the default of main where none was given (option_impl.h:200).
ConfigAsGiven ==
    Accepted => \A o \in Options : parser.targets[o] = Given(Body(Expanded(argv)), o)

=============================================================================

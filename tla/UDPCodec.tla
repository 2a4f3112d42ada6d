------------------------------ MODULE UDPCodec ------------------------------
(***************************************************************************)
(* A UDPEncoder and a UDPDecoder, called in any order: their state between *)
(* calls, and what the last call was given and returned.  The decoder is   *)
(* fed with datagrams of a server, whole or broken, and with what the      *)
(* encoder made.                                                           *)
(***************************************************************************)
EXTENDS UDPDecoder, SequencesExt

CONSTANTS
    Sendings,   \* messages that are encoded, with config at that moment
    Datagrams,  \* datagrams of the server
    MaxCounter  \* bound: messages that get an ID from the counter

ASSUME CounterAssumption == MaxCounter \in Nat

\* An encoder is never asked for an ERR_INTERNAL; IDs have two bytes, and a
\* socket delivers bytes.
ASSUME SendingsAssumption ==
    \A s \in Sendings :
        /\ s.message \in [type : DOMAIN Codes, id : 0 .. NoId, ref : 0 .. NoId,
                          author : Seq(Chars), text : Seq(Chars)]
        /\ s.config \in [username : Seq(Chars), secret : Seq(Chars), channel : Seq(Chars)]
ASSUME DatagramsAssumption == Datagrams \subseteq Seq(0 .. 255)

VARIABLES
    counter,   \* UDPEncoder::messageID
    controls,  \* UDPDecoder::controls
    last       \* the last call

vars == <<counter, controls, last>>

Init == counter = 0 /\ controls = NoControls /\ last = [op |-> "none"]

Encode(m, config) ==
    /\ m.id = NoId => counter < MaxCounter
    /\ last' = [op |-> "encode", message |-> m, config |-> config,
                counter |-> counter, bytes |-> EncodeBinary(m, config, counter)]
    /\ counter' = CounterAfter(m, counter)
    /\ UNCHANGED controls

Decode(d) ==
    LET run == Automaton(controls, d)
    IN  /\ last' = [op |-> "decode", datagram |-> d, output |-> output(run),
                    message |-> Translated(run)]
        /\ controls' = ControlsAfter(run)
        /\ UNCHANGED counter

\* The other end: what was encoded last is decoded.
Deliver ==
    /\ last.op = "encode"
    /\ LET run == Automaton(controls, last.bytes)
       IN  /\ last' = [op |-> "deliver", of |-> last, output |-> output(run),
                     message |-> Translated(run)]
           /\ controls' = ControlsAfter(run)
           /\ UNCHANGED counter

Next ==
    \/ \E s \in Sendings : Encode(s.message, s.config)
    \/ \E d \in Datagrams : Decode(d)
    \/ Deliver

Spec == Init /\ [][Next]_vars

----------------------------------------------------------------------------
(* The layouts, as the header of the encoder describes them. *)

Swapped(n) == (n % 256) * 256 + n \div 256
Word(n) == <<n \div 256, n % 256>>

\* At most three strings, each ended by a zero.
Ended(ss, k) == IF k <= Len(ss) THEN Append(ss[k], NUL) ELSE <<>>
Strings(ss) == Ended(ss, 1) \o (Ended(ss, 2) \o Ended(ss, 3))

\* The strings that follow the IDs, of a message sent with this config.
Fields(m, config) ==
    CASE m.type \in {"MSG", "ERR"} -> <<m.author, m.text>>
      [] m.type = "AUTH" -> <<config.username, m.author, config.secret>>
      [] m.type = "JOIN" -> <<config.channel, m.author>>
      [] m.type = "BYE" -> <<m.author>>
      [] OTHER -> <<>>

\* Own IDs leave with their bytes swapped, those of the server as they came.
OnWire(m, n) == IF m.type = "CONFIRM" THEN m.ref
                ELSE Swapped(IF m.id = NoId THEN n ELSE m.id)
Layout(m, config, n) ==
    <<Codes[m.type]>> \o Word(OnWire(m, n)) \o Strings(Fields(m, config))

\* What the alphabet of a field allows: its first character, and the others.
FieldChars(type) ==
    LET free == <<Printable, Printable>>
        name == <<NameChars, NameChars>>
        mixed == <<Printable, NameChars>>
    IN  CASE type \in {"MSG", "ERR"} -> <<free, free>>
          [] type = "AUTH" -> <<mixed, free, mixed>>
          [] type = "JOIN" -> <<name, free>>
          [] type \in {"BYE", "REPLY"} -> <<free>>
          [] OTHER -> <<>>
Allowed(s, chars) ==
    s # <<>> /\ s[1] \in chars[1] /\ \A i \in 2 .. Len(s) : s[i] \in chars[2]

\* The author and the text of a message among its strings, as the decoder
\* gives them to its caller: a channel and a user name are not given.
NamePart(type, f) == CASE type \in {"MSG", "ERR", "BYE"} -> f[1]
                       [] type = "JOIN" -> f[2]
                       [] OTHER -> <<>>
TextPart(type, f) == CASE type = "REPLY" -> f[1]
                       [] type \in {"MSG", "ERR"} -> f[2]
                       [] type = "AUTH" -> f[3]
                       [] OTHER -> <<>>

\* Where the string that begins at position i of a datagram is ended: at its
\* first zero, or beyond the datagram.
End(d, i) == Min({z \in i .. Len(d) : d[z] = NUL} \cup {Len(d) + 1})

\* The ends of the first three strings from position i on, and the strings.
Ends(d, i) ==
    LET first == End(d, i)
        second == End(d, first + 1)
    IN  <<first, second, End(d, second + 1)>>
Cut(d, i) ==
    [k \in 1 .. 3 |-> SubSeq(d, IF k = 1 THEN i ELSE Ends(d, i)[k - 1] + 1,
                             Ends(d, i)[k] - 1)]

\* A datagram holds a message of a type if the message's bytes are a prefix
\* of it; what follows them is ignored.
Header(type) == IF type = "REPLY" THEN 6 ELSE 3
Holds(d, type) ==
    LET n == Len(FieldChars(type))
        from == Header(type) + 1
    IN  /\ Len(d) >= Header(type) /\ d[1] = Codes[type]
        /\ type = "REPLY" => d[4] \in {0, 1}
        /\ \A k \in 1 .. n : /\ Ends(d, from)[k] <= Len(d)
                             /\ Allowed(Cut(d, from)[k], FieldChars(type)[k])
Read(d, type) ==
    LET f == Cut(d, Header(type) + 1)
        reply == type = "REPLY"
    IN  [type |-> type, id |-> 256 * d[2] + d[3],
         ref |-> IF reply THEN 256 * d[5] + d[6] ELSE 0, ok |-> reply /\ d[4] = 1,
         author |-> NamePart(type, f), text |-> TextPart(type, f)]
Fits(m) == Len(m.author) <= NameLimit /\ Len(m.text) <= TextLimit

----------------------------------------------------------------------------
(* Properties. *)

\* Type invariant: the counter stays in its bound, the automaton ends in one of
\* its states, and what the decoder keeps between calls are IDs, a status and
\* strings of the datagrams it read.
TypeOK ==
    /\ counter \in 0 .. MaxCounter
    /\ controls.messageID \in 0 .. NoId /\ controls.replyID \in 0 .. NoId
    /\ controls.status \in {0, 1}
    /\ controls.channelID = <<>> /\ controls.username = <<>>
    /\ last.op \in {"decode", "deliver"} => last.output \in states
    /\ \A s \in {controls.dispName, controls.content, controls.secret} :
            s # <<>> => Head(s) \in Printable

\* A datagram is read as the message that the documented layout finds in it,
\* whatever the automaton kept of the broken datagrams before (controls of
\* UDPDecoder, UDP_decoder.cpp:408), and as malformed if it holds none or one
\* of its strings is too long for a Message.
DecodesLayout ==
    last.op = "decode" =>
        LET d == last.datagram
            types == {t \in DOMAIN Paths : Holds(d, t)}
        IN  IF \E t \in types : Fits(Read(d, t))
            THEN \E t \in types : last.message = Read(d, t)
            ELSE last.message.type = "ERR_INTERNAL"

\* encodeBinary produces the documented layout, and what the user typed stays
\* as it is even where it looks like a substitution of the format language,
\* since the iterator skips what it has inserted (UDP_encoder.cpp:200).
\* A REPLY and a message without a type are not sent at all.
EncodesLayout ==
    last.op = "encode" =>
        last.bytes = IF last.message.type \in {"REPLY", "NONE"} THEN <<>>
                     ELSE Layout(last.message, last.config, last.counter)

\* What one end encodes, the other end decodes: the type, the texts, and the
\* ID with its bytes swapped, unless a text is empty, too long or has a
\* character that the automaton has no edge for; then it is malformed, or cut
\* short at a zero of its own (isprint in UDP_decoder.cpp:70, Message::setText).
RoundTrip ==
    last.op = "deliver" =>
        LET m == last.of.message
            f == Fields(m, last.of.config)
            sent == [type |-> m.type, id |-> OnWire(m, last.of.counter), ref |-> 0,
                     ok |-> FALSE, author |-> NamePart(m.type, f),
                     text |-> TextPart(m.type, f)]
        IN  IF /\ last.of.bytes # <<>>
               /\ \A k \in DOMAIN f : Allowed(f[k], FieldChars(m.type)[k])
               /\ Fits(sent)
            THEN last.message = sent
            ELSE \/ last.message.type = "ERR_INTERNAL"
                 \/ \E k \in DOMAIN f : NUL \in Range(f[k])

=============================================================================

# Verification of the IPK25 chat client

TLA+ models of the chat client in `src/`, TLC configurations that check them,
and theorems checked by TLAPS. The reference is the code; where a doc, a
comment or a text of the program says something else, a run shows the
disagreement.

## 1. Inventory of the system

The client is one single-threaded process. `main` parses options, installs a
SIGINT handler and runs a `TCPFSM` or a `UDPFSM` until its automaton reaches END.

| component | state it keeps | operations | interacts with |
|---|---|---|---|
| `UDPFSM` (`fsm/UDP_fsm.*`) | `state`, `messages` (one input, one output), `stack` (queue for retransmission) | constructor (the lambdas and edges), `run`, `exit` | everything below; SIGINT calls `exit` |
| `Node`, `Edge` (`fsm/node.hpp`, `edge.hpp`) | edges, in order | `next`, `accept`: first lambda that returns true wins | called once per pass |
| `UDPEncoder` | static `messageID` (uint16_t) | `encodeBinary`, `getID` | reads the `Message` and `config` |
| `UDPDecoder` | `controls`, output state | `decode`, `translate` | gives `run` a `Message` |
| `IOHandler`, `config` | username, secret, channel, display name, timeouts | `readMessage`, `printMessage` | stdin; writes `config` |
| `UDPSender/Receiver/Transceiver` | one shared socket, destination port | `send`, `receive`, `init` | resolver, network |
| `TCPFSM` (`fsm/TCP_fsm.*`) | `state`, `messages`, `awaitsResponse`, `timestamp` | constructor, `run`, `exit` | as above, over TCP |
| `TCPEncoder`, `TCPDecoder` | none | `encode` (placeholder rewriting), `decode` (regular expressions) | `config` |
| `TCPSender/Receiver/Transceiver`, base classes | one socket, shared by two objects | connect, send, recv, close | network |
| `main` | the global `fsm` | SIGINT handler, `try`/`catch` around `run` | signal against loop |
| `lib/argumentum`, `test/`, `assets/` | | | vendored parser, unit tests, diagrams |

Hard behaviours: the order in which edges are tried; messages sent before the
automaton is asked; SIGINT between any two steps of a pass; lost, repeated and
late datagrams against retransmission timers; an ID counter that wraps and
whose largest value means "none"; IDs in two byte orders; configuration that
changes while a message waits; end of stdin; resolver failures; a TCP stream
without framing. `PROJECT.json` lists each hazard at its line.

What makes each component correct:

* **UDPFSM**: the queue agrees with the state; no message is sent more often
  than allowed, lost without reason, overtaken, or retransmitted under another
  ID; a session opens only on the answer to AUTH; MSG and PING are confirmed at
  once; what is queued is eventually given up.
* **UDPEncoder**: IDs stay two bytes and are given once.
* **UDPDecoder**: a well-formed datagram yields its fields, anything else an
  error, without leftovers of an earlier one.
* **TCPFSM**: an awaited response and the state agree; the session ends on BYE
  or ERR; waiting ends.
* **TCPEncoder/Decoder, stream**: encoding terminates; the messages of the
  stream come out once, whole and in order.
* **Sockets, `main`**: one open socket in the loop, shared by both sides; a signal
  never meets a client that is gone.
* **`argumentum`** as `main` uses it: exactly the command lines of the grammar are
  accepted, with the values given or the defaults.

## 2. Modules

Each name is a module of this directory; lower ones use the ones above them.

| module | models | used by |
|---|---|---|
| `ChatSession` | the abstract life of a session, which both clients implement | `UDPClient`, `TCPClient` |
| `UDPClient`, `MCUDPClient` | `UDPFSM`: loop, edges, queue, SIGINT, clock | runs `udp_*` |
| `TCPClient` | `TCPFSM`: loop, edges, `awaitsResponse`, end of stdin, SIGINT | runs `tcp_client`, `tcp_eof`, `tcp_join_wait` |
| `UDPEncoder`, `UDPDecoder` | the two automata over bytes, as functions | `UDPCodec` |
| `UDPCodec`, `MCUDPCodec` | an encoder and a decoder called in any order, with the state each keeps | run `udp_codec` |
| `TCPWire`, `MCTCPWire` | the placeholder loop of `TCPEncoder`, the cut stream, `TCPDecoder` | run `tcp_wire` |
| `CommandLine` | the option parser, one argument a step, and a group of short options one by one | `Process` |
| `Process`, `MCProcess` | `main` from the command line to the exit status; sockets; SIGINT | run `main` |
| `UDPClientProofs` | type, queue, budget and action properties of `UDPClient`, and that it implements `ChatSession` | |
| `TCPClientProofs` | the invariants and action properties of `TCPClient`, and that it implements `ChatSession` | |
| `TCPWireProofs` | lemmas about the texts of `TCPWire` (concatenation, splits, what the expressions find); its types, what `encode` returns, and that a whole line arrives | `TCPStreamProofs` |
| `TCPStreamProofs` | the stream of `TCPWire`, wherever it is cut | |
| `SequenceLemmas` | concatenation, functions by recursion, sequences of sequences | `UDPCodecProofs`, `CommandLineProofs` |
| `UDPCodecProofs` | what the two automata of UDP compute, and that one reads what the other writes | |
| `CommandLineProofs` | lemmas only: the parser follows the grammar, an action at a time | `ProcessProofs` |
| `ProcessProofs` | the accepted command lines and their configuration, the types, the ports, the socket and the global pointer of `Process` | |

The split follows what the parts share. The automata (`UDPClient`, `TCPClient`)
see messages, and never bytes, descriptors or ports. The codecs see bytes. In
`Process` a pass of the loop is reduced to "sends, receives or ends", so that
the life of the socket and of the global pointer can be interleaved with signals
and failures. `ChatSession` is the abstract specification of both automata; the
layouts (`Layout`, `Holds`) are that of the codecs; the grammar (`WellFormed`) is
that of the parser.

Every safety property of a passing run but `EncodesExpanded` is also proved. What
is left: liveness stays with TLC (section 7 says why), and section 9 lists what
is not modelled.

## 3. `UDPClient`

### Variables

| variable | code |
|---|---|
| `pc` | the place in one iteration of `UDPFSM::run`: `"poll"` (poll and the stdin block), `"socket"` (receive block), `"fsm"` (one call of `Node::next`), `"stopped"` |
| `state` | `UDPFSM::state` |
| `input`, `output` | `messages.input()`, `messages.output()`: type, ID, reference, status |
| `stack` | `UDPFSM::stack`: type, ID, `left` (`retransmissions`), `age` (ticks since `timestamp`), and the history `tries`, `arg` |
| `nextID` | `UDPEncoder::messageID` |
| `config` | `config::username` with `secret`, and `config::channel` |
| `eof` | `std::cin` met its end and stays failed |
| `bound` | the socket has a port, which the first `sendto` gives it |
| `sent` | the datagrams of the last step |

### Actions

One action per lambda, named after what it does (`AuthMinus` is
`auth_authminus_nan_authminus_yes`), each the conjunction of `TakeEdge(rule)`
and its effect on queue and encoder. `TakeEdge` is `Node::next`: it picks the
first lambda of the state's edges that returns true (`Fires`, `Accepts`,
`Edges`), goes to the edge's target, clears the messages, and stops the loop in
END. `NoEdge` is the branch where no edge was taken, including the lambdas
that clear the messages and then return false (`ClearsAnyway`); they clear
`this->messages`, while later lambdas still read the copy that `next` was given.
`IdlePass` is a pass with nothing to look at.

The stdin block is `NoCommand`, `LocalCommand`, `RefusedCommand`, `ReadCommand`
and `ReadEof` (the end of stdin, noticed only where the empty MSG it reads fails:
the resolver, or a display name of more than 20 characters); the receive block is `NoDatagram` and `Receive`; `SigInt` is the
handler, between any two steps and inside `poll`, which it may end; `Tick` is
the clock; `ResolveFails` is the exception of `gethostbyname` in a lambda.

### What is abstracted

Text, display names and printing. A username with its secret, and a channel,
are one member of `Args`. A datagram received is any message that `decode` can
return, with server IDs from `ServerIds` and any reference; nothing is assumed
of the server or the network, so losses, repetitions, reordering and
misbehaviour are included. A CONFIRM that the client sends is the datagram with
the ID it echoes. Time is counted in ticks, and `Timeout` is the number of them
after which `isExpired`; `age` stops there, since only that comparison reads it.
`tries` and `arg` are history variables: no guard reads them.

SIGINT strikes between the three steps of a pass, not inside one: inside, it
is a data race on `messages`, the queue and the allocator. `recvfrom`
interrupted and the destination port that follows the last datagram are in
`Process`.

### The abstract session

`SessionImplemented` instantiates `ChatSession` with `phase` the state of the
automaton, `request` the AUTH or JOIN in the queue, and `running` false once the
loop is left. Every step of the client is then a step of `ChatSession` or a
stutter: whatever the network loses, repeats or delays, a session is opened only
by an answer to what was asked, at most one request is open, a JOIN is not
forgotten without its answer, and nothing leads out of END. A confirmed AUTH
without its REPLY is `GiveUp` of the request, and a late JOIN is `Suspend` and
`Resume`.

## 4. `TCPClient`

The same program shape over a connection, without a queue: a pass of
`TCPFSM::run` goes through `"poll"`, `"socket"`, `"timer"` and `"fsm"`, and a
pass that found END through `"last"`, the final sleep.

| variable | code |
|---|---|
| `pc`, `state`, `input`, `output` | as in `UDPClient`; of an output only its type is kept |
| `awaitsResponse` | `TCPFSM::awaitsResponse` |
| `late` | the age of `timestamp` exceeds five seconds |
| `stdin` | `"open"`; after the failure of `getline`, `"ended"`, or `"readable"` when `poll` keeps reporting POLLIN (a file at once, a terminal when something is typed after its end) |
| `sent`, `wire` | history: the type sent by the last step, and the types sent so far |
| `endedBy` | history: the type of the server's message on which the session ended, unless the client answered it with a farewell |

Each lambda is an action again (`NReplyAuth` is `nreply_auth`). `AnyReplyErr`
sends what is in `output`: `anyreply_err` puts its ERR into `this->messages`, but
encodes the output of its parameter, the copy that `Node::next` was given
(`TCP_fsm.cpp:138`, `node.hpp:136`), which is nothing unless the user typed
something or SIGINT struck in the same pass. `ReadEof` and
`ReadEofAgain` are the `catch` branch with `exit()` and `continue`, which returns
to `poll` without socket, timer or automaton; `Timer` is the five second check
and the assignment to `timestamp` that follows it in every pass; `Stall` is a
pass that takes that long. `Receive` replaces the input by whatever `decode`
returns, NONE included. `Dies` is the end of the process inside a pass: an
exception of `decode`, or SIGPIPE.

`SessionImplemented` is the same refinement as above; here the request is the
AUTH of state AUTH or the JOIN that `awaitsResponse` stands for. How the stream
is cut into chunks, and `encode`, are in `TCPWire`.

## 5. The codecs and the process

### `UDPEncoder`, `UDPDecoder`, `UDPCodec`

`EncodeBinary` is `encodeBinary`: the format of the type (`udpMessageFormats`)
is rewritten in place by the automaton of the format language, whose edges are
`Successors` and whose accepting lambdas insert a value and move the iterator
behind it; `Group` is one scan, `Rewritten` one round of the loop.
`Automaton(controls, d)` is `decode`: `Step` is one pass of its loop, and `Take` its
move within a type, in the order of the edges (`Paths`), with what the lambdas
store; `Translated` is `translate`, which makes a message of a terminal state and
an `ERR_INTERNAL` of any other.

`UDPCodec` holds what survives a call: `counter` (`UDPEncoder::messageID`),
`controls` (`UDPDecoder::controls`, which a malformed datagram does not reset),
and `last`, the last call with its result. `Encode`, `Decode` and `Deliver` (the
other end decodes what was encoded last) come in any order. The properties
compare the automata with the layouts documented in the header of the encoder,
written independently of the code: `Layout` puts type, ID and strings together,
`Holds` and `Read` cut a datagram at its zeros (`End`, `Cut`). The assumptions say
that an ERR_INTERNAL is never encoded, that an ID has two bytes, and that a
datagram is a sequence of bytes.

### `TCPWire`

A text is a sequence over `Symbols`: the words of the formats (`Fixed`) and any
others, the space, CR, LF, and the braces, which are called `LB` and `RB`. `Typed`
is what other clients encode, `Announced` what the server says of its own accord;
their assumptions say only which types each side uses and that what a type has
no use for is empty. `Encode` starts from the format of a type, each `Substitute` is a round of the
loop in `TCPEncoder::encode`, and `SendOff` is its return; `job` is that call.
The server passes a MSG on or writes a message of its own (`Announce`); `stream`
is what the kernel holds, and `Receive(n)` is one `recv` of any length and the
`decode` of that piece alone. `Decoded` is each regular expression, as the
possible splits of a line, with the limits of `Message`: what is too long ends
the program (`crashed`). `sent` is a history variable.

A content such as `{MessageContent}` is rewritten for ever in the code
(`TCP_encoder.cpp:43`) and may grow; the model includes such values in its
instance. `EncodesLine` is about values without placeholders. `EncodesExpanded` and
`EncodeEnds` take all values but two kinds: those with a brace that opens no
placeholder (`Braced`), since one might come about where values meet, and those
that lead back to themselves (`Circular`), which are the ones that do not end.

### `CommandLine`, `Process`

`parser` is the record of `Parser`, `ParseResult`, the counters of the options
and the variables they are bound to; each action is a branch of `Parser::parse`
(`Include`, `LongOption`, `OptionValue`, ...), `frames` the stack of included
files, `group` what is left of an argument such as `-tr` (`DashOptions` reads it,
each `DashOption` starts an option), and `Finish` what follows the loop: closing, defaults, missing options.

The grammar is stated without any of this. `Expanded` puts the contents of every
file in its place (`Included`, by recursion on how deep files may still be
nested), behind a mark `Gone`; a file that is too deep stands for `Deep`, which
no grammar allows. `Body` drops the marks and a last `--`, behind which not
even an empty file may come. `WellFormed` says that each argument is an option
with its value, or an option before its value, or the value behind one, that the
values are valid and the required options there; `Given` is the last value of an
option. `ArgumentsAssumption` says that arguments have one of five shapes, and
that one that looks like a number begins with no option character: `isNumberLike`
wants a digit or a point there, and no option of `main` is one.

`Process` goes on from an accepted command line: `Create` makes the client,
`OpenSocket` to `SwapPort` are `Transceiver::init` in its order, `Poll`, `Say`,
`Receive`, `Follow` the loop, and `Leave` to `Return` the end of `run` and of
`main`. `receiver` and `sender` are the two objects that share a descriptor,
`open` the open descriptors, `fsm` the global pointer, which `exit(1)` leaves
behind as `"destroyed"`. SIGINT is raised between any two steps
(`SignalBye`, `SignalFails`, `SignalTooLate`, `SignalIgnored`), and ends the
system call it hits (`Interrupted`).

## 6. Model checking

`TCPClient` needs no constants and is checked as it is; `MCUDPClient` gives TLC the module; the configurations give the constants.

| run | checks | shows |
|---|---|---|
| `udp_safety` | the invariants and action properties below | they hold in every interleaving |
| `udp_liveness` | `QueueDrains` | left alone, the client gives up every queued message, or stops, or holds a CONFIRM that no edge takes |
| `udp_auth_reply`, `udp_join_reply`, `udp_command_data`, `udp_sent_msg` | one sentence of the documentation each | a counterexample: section 8 |
| `tcp_client` | the TCP invariants and action properties below, `HandsEmpty` | they hold in every reachable state; left alone, the client disposes of every message |
| `tcp_eof`, `tcp_join_wait` | one sentence of the documentation each | a counterexample: section 8 |
| `udp_codec` | `TypeOK`, `DecodesLayout`, `EncodesLayout`, `RoundTrip` | both automata follow the documented layout, whatever earlier calls left behind |
| `tcp_wire` | `TypeOK`, `EncodesLine`, `EncodesExpanded`, `EncodeEnds`, `DeliveredWasSent`, `WholeLineDelivered`, `ShortNamesSurvive` | encoding ends with the documented line, typed placeholders filled in; a stream cut anywhere yields only what was sent, in order, and whole lines arrive |
| `main` | `TypeOK`, `AcceptsGrammar`, `ConfigAsGiven`, `ParsingEnds`, `SentToPeer`, `OneSocket`, `SignalsMeetLiveClient` | the accepted command lines and their configuration; one open socket in the loop, the right port on the wire, no signal to a destroyed client after a normal end |

UDP invariants: `TypeOK`; `QueueShape` (nothing queued before AUTH, at most one AUTH
and nothing else during it, no AUTH after it, a JOIN alone and first, and in JOIN
it is there); `RetransmissionBudget` (no message is transmitted more than 1 +
`-r` times, counting what is still allowed to it); `NothingLeftOver` (what a pass
leaves to the next).

UDP action properties: `RetiredOnlyByAnswer` (nothing unanswered with
retransmissions left is dropped, changed or overtaken), `SessionOpensOnReply`,
`ConfirmedPromptly`, `RetransmitsPending`, `LoneByeEnds` (a BYE that is alone in
its pass ends the session), and the refinement `SessionImplemented`.

TCP: `TypeOK`; `AwaitsMeansJoin` (a response is awaited in JOIN and, while the
session goes on, nowhere else); `NothingLeftOver`; `WireBacksState` (the AUTH and
JOIN behind a state, and any output, were sent, and END has a farewell of the
client or was entered on an ERR, a BYE or an unasked REPLY of the server);
`ErrIsFinal` (in END, and after an ERR, nothing but SIGINT's BYE is sent, anew or
again; an ERR leads to END); `OpensOnReply`;
`LoneFarewellEnds` (a BYE or ERR that is alone in its pass ends the session);
`SessionImplemented`.

**Bounds.** `TCPClient` has none: `wire` is a set of types, so TLC visits all of
its 9458 states. In `UDPClient`, `ByteBase = 2` makes a byte one bit and a message ID two: four
IDs, of which 1 and 2 are each other's byte swap, 0 and 3 are their own, 3 is
the "no ID" value, and the counter wraps within a short run; a base of 256
repeats these cases. `MaxQueue = 2` stops the *user* from typing while two
messages wait, so the queue holds a JOIN with a MSG behind it, two MSGs, and
duplicates of an ID after a wrap; the code has no bound. `Retransmissions = 2`
lets a JOIN be charged, sent again and charged again (with 1, `JoinAgain` never
fires); `Timeout = 1` suffices because only expired or not is ever asked.
`ServerIds = {0, 3}` has an ordinary ID and the sentinel. The liveness run uses
one retransmission.

`MCUDPCodec` has strings of at most six characters with `NameLimit` and `TextLimit`
five, so that a string meets and exceeds a limit (20 and 60000 in the code);
they include the empty one, a newline, and one that looks like a placeholder.
Every broken datagram leaves something different in `controls`. `MaxCounter = 1`
lets one ID be drawn; widths are the real ones, and the wrap is checked in
`UDPClient`. `MCTCPWire` has names of up to four and texts of up to five symbols
around limits of three and six, and `MaxMessages = 2`, so that a piece can hold
the end of one line and the beginning of the next; its texts contain the words
that begin or divide a line, a name and a content that are each other's
placeholders, and values that lead through two others to an unknown one. `MCProcess` reads every command line of at most two
arguments of a set of 25, and those with `-t X -s host` and at most two more at
any place: missing, repeated, invalid and included values, files that include
themselves. `MaxIncludeDepth = 1` (8 in the code) lets a file be too deep;
`Origins` are the configured port and another whose bytes differ;
`MaxSignals = 2` allows a second SIGINT while the first one's consequences run.

**Fairness.** `FairSpec` has weak fairness on `Loop`, the client's own steps, since
`poll` returns after 100 ms (TCP: 200 ms) at the latest, and on `Tick`, since time
passes. This assumes that input comes in whole lines, as from a terminal:
`getline` waits for the rest of a line it has begun. The user, datagrams, signals and the resolver owe nothing. A client can be kept from
giving up for ever by datagrams that keep arriving, so liveness is stated under
silence of the environment, `<>[][Loop \/ Tick]_vars`; in `TCPClient`,
`<>[][Loop]_vars`, where even `Stall` is the environment's.

In `TCPWire`, `Substitute` and `SendOff` are weakly fair: they are a loop of the
program without a call that blocks. In `Process`, `Main` is weakly fair;
`ParsingEnds` is the only property that uses it, and parsing does not block. Nothing
is assumed of signals, the peer or the server.

`CHECK_DEADLOCK` stays on: a stopped client stutters by `Terminated`, an ended
process by `Over`, and the codecs can always be called again.

## 7. Proofs

`UDPClientProofs` proves, for every byte size of at least two, every number of
retransmissions, positive timeout, queue bound, argument set and set of server
IDs (the named assumptions of `UDPClient`):

| theorem | statement |
|---|---|
| `TypeCorrect` | `Spec => []TypeOK` |
| `QueueShapeHolds` | `Spec => []QueueShape` |
| `RetransmissionBudgetHolds` | `Spec => []RetransmissionBudget` |
| `NothingLeftOverHolds` | `Spec => []NothingLeftOver` |
| `RetiredOnlyByAnswerHolds` | `Spec => RetiredOnlyByAnswer` |
| `SessionOpensOnReplyHolds` | `Spec => SessionOpensOnReply` |
| `ConfirmedPromptlyHolds` | `Spec => ConfirmedPromptly` |
| `RetransmitsPendingHolds` | `Spec => RetransmitsPending` |
| `LoneByeEndsHolds` | `Spec => LoneByeEnds` |

The inductive invariant is `TypeOK /\ QueueShape /\ RetransmissionBudget`.
`TypeOK` is inductive alone. `QueueShape` needs it. `RetransmissionBudget` needs
both: a REPLY to a JOIN must take away the only JOIN, which is `QueueShape`,
and its second conjunct (a JOIN waiting in OPEN has an attempt in hand) is the
strengthening that makes the first one inductive. The action properties follow
from one step under these invariants.

Two facts carry the argument. `EraseAtFacts` says what `erase_if` keeps: every
element outside the set, no further back than before, and nothing else; it
rests on a count of the positions kept (`CountUpTo`, `NthFacts`, `NthOnto`).
`EdgeTaken` and `EarlierEdges` turn the ordered table of edges into what a taken
edge says of the state, and what it says of the edges before it: a
retransmission is charged only after exhausted messages were removed, and the
confirmations come before everything that could swallow a MSG or PING.

`UDPClientProofs` also proves `SessionImplementedHolds`, the refinement, under the
same assumptions: the initial state maps to that of `ChatSession`, and each
action to one of its steps or to a stutter. It needs `QueueShape`: that the queue
holds at most one AUTH or JOIN is what makes `request` a function of the queue,
and what is erased from it is found by `EraseAtFacts`.

`TCPClientProofs` proves, without assumptions, since `TCPClient` has no constants:
`TypeCorrect`, `AwaitsMeansJoinHolds`, `NothingLeftOverHolds`, `WireBacksStateHolds`,
`ErrIsFinalHolds`, `OpensOnReplyHolds`, `LoneFarewellEndsHolds` and
`SessionImplementedHolds`, each of the property of that name. TLC settles them as
well; the proofs say why they hold. `EdgeMoves` reads the table of edges once, as
seven moves of a session; `OtherSteps` says that nothing else moves it.
`TypeOK` together with each of the three other invariants is inductive.
`ErrIsFinal` needs `EndIsLast`: no pass looks at a message in END, and only END
has sent an ERR. `LoneFarewellEnds` needs that some edge fires
(`FarewellEdges`, `SomeEdgeFires`), and from the moves that none but the two
edges to END accepts a farewell alone.

`ProcessProofs` proves `AcceptsGrammarHolds` and `ConfigAsGivenHolds` for all command
lines and files whose arguments are as `ArgumentsAssumption` says, of any length
and number, and every limit on their depth. `AcceptsGrammar` speaks only of a
parser that is done, so it is not inductive. `ParserLine` is: with `E` the
expanded command line, the parser is one of

* `Going`, without an error: what it has read, `D`, and what the open files still
  stand for (`Remains`, the innermost first) make up `E`, and the parser `Tracks`
  what `D` is without its marks. That is: the part so far is `Sound`; the options
  assigned and their targets are those of its assignments (`Known`); and an
  option that waits for its value (`Pending`) is the active one. `Within` says
  the same of a parser that has taken a short option and not yet started it;
* `Lost`, with an error, or in a group that cannot end without one
  (`Fruitless`), and `E` is not well formed;
* `Right`: done without an error, `E` is well formed, and the targets are `Given`.

One error is enough because nothing that follows can mend it (`Hopeless`). The depth is exact because each open file
stands for its contents at the depth that is left there. `CommandLineProofs`
has the lemmas: the grammar read an argument at a time, and for each action
that it keeps `ParserLine`.

`ProcessProofs` also proves `OneSocketHolds`, `SignalsMeetLiveClientHolds`, `TypeOKHolds` and
`SentToPeerHolds` for all command lines, files, numbers of signals, and ports in
the range of `config::port`. `SocketLife` says what `init` has reached by each
stage, and is inductive because nothing but `socket()` makes a descriptor and
only the end closes it; `PointerLife` says that a destroyed object means status
1. Neither says anything of the parser. `ProcessType` does: it adds to `TypeOK` that
files are nested no deeper than allowed and that every numeric target, given or
by default, is in the range of its variable. `PortLife` needs that range, since
bytes are swapped by `/` and `%`: it says in which order the bytes of the port are
at each stage, and that a signal changes the stage and not the port. The
assumptions are that a literal of the command line is a number, and that a
datagram comes from a port of two bytes.

`TCPWireProofs` and `TCPStreamProofs` prove, for every set of symbols with the
words of the formats in it, all messages and configurations over them, of any
length and number, and all limits:

| theorem | statement | inductive invariant |
|---|---|---|
| `TypeOKHolds` | `Spec => []TypeOK` | `WireType` |
| `EncodesLineHolds` | `Spec => []EncodesLine` | `WireType`, `Encoded` |
| `WholeLineDeliveredHolds` | `Spec => WholeLineDelivered` | `WireType` |
| `DeliveredWasSentHolds` | `Spec => []DeliveredWasSent` | `WireType`, `StreamInv` |
| `ShortNamesSurviveHolds` | `Spec => []ShortNamesSurvive` | `WireType`, `StreamInv` |

`WireType` gives every text its symbols and what is delivered its limits. `Encoded`
says which texts `encode` goes through (`Stages`): with values that have no
placeholder of their own, the leftmost placeholder is always the next one of the
format (`StagesFollow`), since none comes about where two parts meet
(`NoPlaceholders`); `EncodesLine` alone speaks of the end and says nothing of a
round. `WholeLineDelivered` follows from `LineDecoded`: a line with one reading
matches the expression of its own type, in one way, and no other.

`DeliveredWasSent` is not inductive, since it says nothing of what is still in the
stream. `StreamInv` does: there are cuts of the stream between the lines that were
sent (`Aligned`), so that what is left is an end of one line and whole lines after
it, and the delivered messages come from lines before the first cut (`Traced`).
`AlignedReceive` moves the cuts at a `recv`, and `PieceDecoded` says that a piece
decodes to nothing or to a message whose whole line it holds: a piece that begins
inside a line would have to find the header of a type there, and may not, as no
text has its words. That is also why decode does not throw: its limits are
those of the line.

`UDPCodecProofs` proves all four properties of `UDPCodec` for all limits of `Message`,
all texts of whatever length, all datagrams of bytes, and any bound on the
counter:

| theorem | statement | inductive invariant |
|---|---|---|
| `EncodesLayoutHolds` | `Spec => []EncodesLayout` | `Sent` |
| `TypeOKHolds` | `Spec => []TypeOK` | `Known` |
| `DecodesLayoutHolds` | `Spec => []DecodesLayout` | `Known` |
| `RoundTripHolds` | `Spec => []RoundTrip` | `Known` |

`Sent` says that the counter is in its range and that a remembered call was given
a message of its type and returned what `EncodeBinary` computes. `Known` adds
that the controls have their types (`ControlsType`), and that what was decoded is
the result of a run that began with such controls. The four properties are
about the last call, and say of themselves nothing of the next one.

The rest is what the two functions compute. `Recursion` (in
`SequenceLemmas`) says that a function defined by recursion between two numbers
exists, and `Induction` proves facts about it: it looks for the least exception in a set of numbers, so that it needs
no operator as a parameter, which the provers could not instantiate.

For the encoder, `EdgeCases` reads the table of edges, and gives for each kind of
group of a format where the scan ends and in which state. `Written` says that
after so many rounds a format is done up to a rest, whatever was inserted before
it: a round replaces one part and moves behind what replaced it, so that the rest
is scanned as it was. Part after part, `Encoded` computes `EncodeBinary` for
every type; it is empty for REPLY, whose format names `Result`, which no value
has.

For the decoder, `Decoded` says that a run ends in the final state of a type if and
only if the datagram holds a message (`Holds`): the lambda that begins a string is
passed at the first character, stays until the zero (`End`), and so on, string
after string; a run that has stopped, or is beyond its last lambda, yields
nothing. The fields that `translate` takes from the controls were all set in the
same run (`Decodes`): this is why nothing left over from a malformed datagram is
seen again, and why `DecodesAll` speaks of all controls (`Kept`). `RunKept` shows their
types.

`RoundTrip` then needs no automaton: `LayoutHolds` and `LayoutRead` say that `Holds`
and `Read` find in a layout what `Layout` put there, as no string that the
decoder allows has a zero of its own.

Only model-checked:

* `QueueDrains`, `HandsEmpty`, `EncodeEnds` and `ParsingEnds`: liveness under fairness is
  beyond the prover.
* `EncodesExpanded`: how placeholders inside values are filled is a recursion over
  how deep they are nested.
* The counterexamples of section 8.

## 8. Where code and documentation disagree

Each is a run that TLC must find violated; `PROJECT.json` quotes the sentence.

* `AuthReplyHandled`: REPLY references are compared in the wrong byte order, so
  only an AUTH whose ID reads the same in both orders (as the first, 0, does)
  can succeed.
* `JoinReplyHandled`: a REPLY in JOIN counts only once the JOIN has expired.
* `CommandDataSent`: a retransmission carries the arguments of a later command.
* `SentMsgQueued`: a MSG sent in a pass that takes another edge is not queued.
* `EofCloses`: at the end of a file as stdin, BYE is sent again and again.
* `JoinTimesOut`: the five seconds of a TCP JOIN restart in every pass.

Seen while modelling, but without a run of their own:

* `anyreply_err` never sends its ERR (`TCP_fsm.cpp:138`), which the comment above it
  promises: a REPLY that nothing asked for ends the TCP session without a word,
  or sends a MSG typed in the same pass a second time. Hence `endedBy` in
  `WireBacksState`, and in `ErrIsFinal` only what follows END;
* a late REPLY to a JOIN ends the session as "unexpected" (`UDP_fsm.cpp:417`); a
  message is erased in the pass after its last retransmission (`:298`); a CONFIRM
  that no edge takes stops every timeout (`:548`), which is why `QueueDrains`
  excepts it;
* SIGINT's BYE is sent and then forgotten when an earlier edge fires in the same
  pass (`UDP_fsm.cpp`, `TCP_fsm.cpp:50`), and the server's BYE when a command was
  typed in it: hence "lone" in `LoneByeEnds` and `LoneFarewellEnds`;
* a typed `{Secret}` is sent as the secret over TCP, which `EncodesExpanded` states
  and the comment at `TCP_encoder.cpp:15` leaves open; with the display name
  `{MessageContent}`, the content `{DisplayName}` is encoded for ever, though line
  42 says that the loop ends: hence `Circular` in `EncodeEnds`;
* a SIGINT between `setSocket` and `init` sends BYE to the byte-swapped port
  (`sender.cpp:140`), the exception of `SentToPeer`;
* a SIGINT after `exit(1)` has begun calls a destroyed object (`main.cpp:26,72`),
  the exception of `SignalsMeetLiveClient`; `recvfrom` interrupted by one ends
  the client with status 1; and an exception or SIGPIPE inside the handler ends
  the process;
* a MSG that arrives in pieces is lost without notice, and a piece that begins
  inside a text is read like any other: hence the conditions of
  `DeliveredWasSent`.

Not a run: `README.md:37` gives `--timeout` in seconds, `main.cpp:37` and
`StackElement::isExpired` in milliseconds; the model's ticks have no unit.

## 9. Not modelled

* Commands, groups, positional and forwarded parameters of `argumentum`, which
  `main` does not define, and the formatting of help and errors, which is output.
* The regular expressions of `IOHandler::readMessage` and `printMessage`. What a line
  turns into (a message, a local command, a refusal) is in the clients.
* Constructors, initiations, getters and setters of the socket classes that only
  unit tests call; `UDPSender::receive` and `TCPSender::receive`.
* A `recv` that fills its buffer to the last byte, and what lies behind a string
  that runs beyond a datagram: undefined contents, one symbol in `UDPDecoder`.
* What `std::cin` reads ahead of the line it returns, while `poll` watches the
  descriptor: further lines of a pipe come late (`TCP_fsm.cpp:208`), which the
  models allow.
* SIGINT inside one statement: a data race on the queue and the allocator, with no
  outcome a model could enumerate.
* A server of its own. `UDPClient` and `TCPClient` accept any message at any time,
  which includes what any server and network does; the server is not part of the
  repository, so that end-to-end delivery would be a property of an invention.
* Unit tests, diagrams and assets, which were read as documentation.

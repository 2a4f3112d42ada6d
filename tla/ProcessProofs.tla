--------------------------- MODULE ProcessProofs ---------------------------
(***************************************************************************)
(* Theorems about Process, for all command lines, files, ports of the      *)
(* server and numbers of signals: which command lines are accepted and     *)
(* what they configure, the types, the ports, the socket, and the client   *)
(* that a signal meets.                                                    *)
(***************************************************************************)
EXTENDS Process, CommandLineProofs

-----------------------------------------------------------------------------
(* The command line *)

\* Only main reads the command line, and only while it parses.
LEMMA ParserAlone ==
    ASSUME [Next]_vars PROVE ReadArguments \/ UNCHANGED <<argv, parser>>
BY DEF vars, clientVars, Next, Main, Step, Over, Reject, Accept, Create,
       HostnameMissing, OpenSocket, Resolve, Connect, ConnectionFails, Share,
       SwapPort, Poll, Say, ResolveAgainFails, Receive, Follow, ReceiveStream,
       PeerResets, BrokenPipe, Leave, RunReturns, Reset, Exit, Return,
       SignalIgnored, SignalBye, SignalFails, SignalTooLate

LEMMA ParserLineHolds == Spec => []ParserLine
<1>1. ProcessInit => ParserLine
  BY LineBegins DEF ProcessInit
<1>2. ParserLine /\ [Next]_vars => ParserLine'
  <2> SUFFICES ASSUME ParserLine, [Next]_vars PROVE ParserLine'
    OBVIOUS
  <2>1. CASE ReadArguments
    BY <2>1, LineGoesOn DEF ReadArguments
  <2>2. CASE UNCHANGED <<argv, parser>>
    BY <2>2 DEF ParserLine, ParserOK
  <2> QED  BY <2>1, <2>2, ParserAlone
<1> QED  BY <1>1, <1>2, PTL DEF Spec

\* Whatever the arguments and the files that they include, in each other and too
\* deep, the parser accepts a command line if and only if it is well formed when
\* it is read as a whole (parser_impl.h:143-244).
THEOREM AcceptsGrammarHolds == Spec => []AcceptsGrammar
<1>1. ParserLine => AcceptsGrammar
  BY LineEnds DEF AcceptsGrammar
<1> QED  BY <1>1, ParserLineHolds, PTL

\* What main is configured with, of any command line that is accepted, is the
\* value that each option was given last, or its default (option_impl.h:200).
THEOREM ConfigAsGivenHolds == Spec => []ConfigAsGiven
<1>1. ParserLine => ConfigAsGiven
  BY LineEnds DEF ConfigAsGiven
<1> QED  BY <1>1, ParserLineHolds, PTL

-----------------------------------------------------------------------------
(* The global pointer *)

\* The object behind the pointer is gone only once main has called exit(1), and
\* from there the process only ends.
PointerLife ==
    /\ fsm = "destroyed" => stage \in {"exiting", "over", "undefined"} /\ status = 1
    /\ stage = "undefined" => status = 1

LEMMA PointerLifeHolds == Spec => []PointerLife
<1>1. ProcessInit => PointerLife
  BY DEF ProcessInit, PointerLife
<1>2. PointerLife /\ [Next]_vars => PointerLife'
  <2> SUFFICES ASSUME PointerLife, [Next]_vars PROVE PointerLife'
    OBVIOUS
  <2> USE DEF PointerLife, Step, Ended, Raise, clientVars
  <2>1. CASE ReadArguments \/ Reject \/ Accept \/ Create
    BY <2>1 DEF ReadArguments, Reject, Accept, Create
  <2>2. CASE HostnameMissing \/ OpenSocket \/ Resolve \/ Connect \/ ConnectionFails
    BY <2>2 DEF HostnameMissing, OpenSocket, Resolve, Connect, ConnectionFails
  <2>3. CASE Share \/ SwapPort \/ Poll \/ Say \/ ResolveAgainFails
    BY <2>3 DEF Share, SwapPort, Poll, Say, ResolveAgainFails
  <2>4. CASE Receive \/ Follow \/ ReceiveStream \/ PeerResets \/ BrokenPipe \/ Leave
    BY <2>4 DEF Receive, Follow, ReceiveStream, PeerResets, BrokenPipe, Leave
  <2>5. CASE RunReturns \/ Reset \/ Exit \/ Return
    BY <2>5 DEF RunReturns, Reset, Exit, Return
  <2>6. CASE SignalIgnored \/ SignalBye \/ SignalFails \/ SignalTooLate
    BY <2>6 DEF SignalIgnored, SignalBye, SignalFails, SignalTooLate, Interrupted
  <2>7. CASE UNCHANGED vars
    BY <2>7 DEF vars
  <2> QED  BY <2>1, <2>2, <2>3, <2>4, <2>5, <2>6, <2>7 DEF Next, Main, Over
<1> QED  BY <1>1, <1>2, PTL DEF Spec

\* Whenever SIGINT strikes, however often, the handler meets a live client or an
\* empty pointer, unless an exception has already made main exit with status 1.
THEOREM SignalsMeetLiveClientHolds == Spec => []SignalsMeetLiveClient
<1>1. PointerLife => SignalsMeetLiveClient
  BY DEF PointerLife, SignalsMeetLiveClient
<1> QED  BY <1>1, PointerLifeHolds, PTL

-----------------------------------------------------------------------------
(* The shared socket *)

\* What init has reached by each stage: a descriptor that is open if there is
\* one, a connection, and the same descriptor on both sides.
SocketLife ==
    /\ "socket" \in DOMAIN receiver /\ "socket" \in DOMAIN sender
    /\ stage \in {"resolving", "connecting", "sharing", "swapping"} \cup Looping
         => receiver.socket \in open \cup {None}
    /\ stage \in {"swapping"} \cup Looping => sender.socket = receiver.socket
    /\ stage \in Looping => receiver.socket # None
    /\ kind = "tcp" /\ stage \in {"sharing", "swapping"} \cup Looping => link # "none"

LEMMA SocketLifeHolds == Spec => []SocketLife
<1>1. ProcessInit => SocketLife
  BY DEF ProcessInit, SocketLife, Looping
<1>2. SocketLife /\ [Next]_vars => SocketLife'
  <2> SUFFICES ASSUME SocketLife, [Next]_vars PROVE SocketLife'
    OBVIOUS
  <2> USE DEF SocketLife, Looping, Step, Ended, Raise, clientVars, kind
  <2>1. CASE ReadArguments \/ Reject \/ Accept \/ Create
    BY <2>1 DEF ReadArguments, Reject, Accept, Create
  <2>2. CASE HostnameMissing \/ Resolve \/ Connect \/ ConnectionFails
    BY <2>2 DEF HostnameMissing, Resolve, Connect, ConnectionFails
  <2>3. CASE OpenSocket
    BY <2>3 DEF OpenSocket
  <2>4. CASE Share
    BY <2>4 DEF Share
  <2>5. CASE SwapPort
    BY <2>5 DEF SwapPort, HasSocket
  <2>6. CASE Poll \/ Say \/ ResolveAgainFails \/ ReceiveStream \/ PeerResets
    BY <2>6 DEF Poll, Say, ResolveAgainFails, ReceiveStream, PeerResets
  <2>7. CASE Receive \/ Follow
    BY <2>7 DEF Receive, Follow
  <2>8. CASE BrokenPipe \/ Leave \/ RunReturns \/ Reset \/ Exit \/ Return
    BY <2>8 DEF BrokenPipe, Leave, RunReturns, Reset, Exit, Return
  <2>9. CASE SignalIgnored \/ SignalBye \/ SignalFails \/ SignalTooLate
    BY <2>9 DEF SignalIgnored, SignalBye, SignalFails, SignalTooLate, Interrupted
  <2>10. CASE UNCHANGED vars
    BY <2>10 DEF vars
  <2> QED  BY <2>1, <2>2, <2>3, <2>4, <2>5, <2>6, <2>7, <2>8, <2>9, <2>10
           DEF Next, Main, Over
<1> QED  BY <1>1, <1>2, PTL DEF Spec

\* The loop never polls, reads or writes a descriptor that is closed or was never
\* made, on whichever side of the Transceiver, also after a signal.
THEOREM OneSocketHolds == Spec => []OneSocket
<1>1. SocketLife => OneSocket
  BY DEF SocketLife, OneSocket, Looping
<1> QED  BY <1>1, SocketLifeHolds, PTL

-----------------------------------------------------------------------------
(* The types, and the port *)

ProcessType ==
    /\ TypeOK /\ ParserOK
    /\ {"socket", "port"} \subseteq DOMAIN receiver
    /\ {"socket", "port"} \subseteq DOMAIN sender

LEMMA ProcessTypeHolds == Spec => []ProcessType
<1>1. ProcessInit => ProcessType
  <2> SUFFICES ASSUME ProcessInit PROVE ProcessType
    OBVIOUS
  <2>1. ParserOK
    BY LineBegins DEF ProcessInit, ParserLine
  <2> QED  BY <2>1, SignalAssumption
           DEF ProcessInit, ProcessType, TypeOK, ParserOK, ParserType, Stages, Stdin,
               Socket, None
<1>2. ProcessType /\ [Next]_vars => ProcessType'
  <2> SUFFICES ASSUME ProcessType, [Next]_vars PROVE ProcessType'
    OBVIOUS
  <2>1. ParserOK'
    <3>1. CASE ReadArguments
      BY <3>1, ParseKeeps DEF ReadArguments, ProcessType
    <3>2. CASE UNCHANGED parser
      BY <3>2 DEF ProcessType, ParserOK
    <3> QED  BY <3>1, <3>2, ParserAlone
  <2>2. /\ {"socket", "port"} \subseteq DOMAIN receiver'
        /\ {"socket", "port"} \subseteq DOMAIN sender'
        /\ {receiver'.socket, sender'.socket} \subseteq {Socket, None}
        /\ stage' \in Stages /\ fsm' \in {"null", "alive", "destroyed"}
        /\ open' \subseteq {Stdin, 1, 2, Socket}
        /\ signals' \in 0 .. MaxSignals
    <3> USE DEF ProcessType, TypeOK, Step, Ended, clientVars, Stages, Stdin, Socket, None
    <3>1. CASE ReadArguments \/ Reject \/ Accept
      BY <3>1 DEF ReadArguments, Reject, Accept
    <3>10. CASE Create
      BY <3>10 DEF Create
    <3>2. CASE HostnameMissing \/ Resolve \/ Connect \/ ConnectionFails
      BY <3>2 DEF HostnameMissing, Resolve, Connect, ConnectionFails
    <3>3. CASE OpenSocket
      BY <3>3 DEF OpenSocket
    <3>4. CASE Share \/ SwapPort
      BY <3>4 DEF Share, SwapPort
    <3>5. CASE Poll \/ Say \/ ResolveAgainFails \/ ReceiveStream \/ PeerResets
      BY <3>5 DEF Poll, Say, ResolveAgainFails, ReceiveStream, PeerResets
    <3>6. CASE Receive \/ Follow
      BY <3>6 DEF Receive, Follow
    <3>7. CASE BrokenPipe \/ Leave \/ RunReturns \/ Reset \/ Exit \/ Return
      BY <3>7 DEF BrokenPipe, Leave, RunReturns, Reset, Exit, Return, Closed
    <3>8. CASE SignalIgnored \/ SignalBye \/ SignalFails \/ SignalTooLate
      BY <3>8, SignalAssumption
         DEF SignalIgnored, SignalBye, SignalFails, SignalTooLate, Interrupted, Raise
    <3>9. CASE UNCHANGED vars
      BY <3>9 DEF vars
    <3> QED  BY <3>1, <3>2, <3>3, <3>4, <3>5, <3>6, <3>7, <3>8, <3>9, <3>10
             DEF Next, Main, Over
  <2> QED  BY <2>1, <2>2 DEF ProcessType, TypeOK, ParserOK, ParserType
<1> QED  BY <1>1, <1>2, PTL DEF Spec

\* The types hold with any command line: the parser never leaves a frame too
\* many, and every numeric target is in the range of its variable of main, from
\* the option or from the default.
THEOREM TypeOKHolds == Spec => []TypeOK
<1>1. ProcessType => TypeOK
  BY DEF ProcessType
<1> QED  BY <1>1, ProcessTypeHolds, PTL

BeforeSocket == {"parsing", "creating", "opening", "resolving", "connecting", "sharing"}
BeforeSwap == {"opening", "resolving", "connecting", "sharing", "swapping"}

\* The port of the sender is that of the peer, until the last step of init as a
\* number, and from then on in network order.
PortLife ==
    /\ stage \in BeforeSocket => sender.socket = None
    /\ stage \in BeforeSwap => peer \in 0 .. Largest.port /\ sender.port = peer
    /\ stage \notin {"swapping"} \cup Ended /\ sender.socket # None =>
          peer \in 0 .. Largest.port /\ sender.port = htons(peer)
    /\ stage = "received" => receiver.port \in 0 .. Largest.port
    /\ wire.socket # None /\ wire.at # "swapping" =>
          peer \in 0 .. Largest.port /\ wire.port = htons(peer)

LEMMA PortLifeHolds == Spec => []PortLife
<1>1. ProcessInit => PortLife
  BY DEF ProcessInit, PortLife, Ended, BeforeSocket, BeforeSwap, Silent
<1>2. ProcessType /\ PortLife /\ [Next]_vars => PortLife'
  <2> SUFFICES ASSUME ProcessType, PortLife, [Next]_vars PROVE PortLife'
    OBVIOUS
  <2> USE DEF PortLife, BeforeSocket, BeforeSwap, Step, Ended, Raise, clientVars, Silent
  <2>0. /\ {"socket", "port"} \subseteq DOMAIN receiver
        /\ {"socket", "port"} \subseteq DOMAIN sender
    BY DEF ProcessType
  <2>1. CASE ReadArguments \/ Reject \/ Accept
    BY <2>1 DEF ReadArguments, Reject, Accept
  <2>2. CASE Create
    <3>1. parser.targets.port \in 0 .. Largest.port
      BY OptionNames DEF ProcessType, TypeOK
    <3> QED  BY <2>2, <3>1 DEF Create
  <2>3. CASE HostnameMissing
    BY <2>3 DEF HostnameMissing
  <2>17. CASE Resolve
    BY <2>17 DEF Resolve
  <2>15. CASE Connect \/ ConnectionFails
    BY <2>15 DEF Connect, ConnectionFails
  <2>4. CASE OpenSocket
    BY <2>0, <2>4 DEF OpenSocket
  <2>5. CASE Share
    BY <2>0, <2>5 DEF Share
  <2>6. CASE SwapPort
    BY <2>0, <2>6 DEF SwapPort, HasSocket
  <2>7. CASE Poll \/ ResolveAgainFails \/ ReceiveStream \/ PeerResets
    BY <2>7 DEF Poll, ResolveAgainFails, ReceiveStream, PeerResets
  <2>8. CASE Say
    BY <2>8 DEF Say, Sent
  <2>9. CASE Receive
    BY <2>0, <2>9, OriginsAssumption DEF Receive
  <2>10. CASE Follow
    BY <2>0, <2>10 DEF Follow
  <2>11. CASE BrokenPipe \/ Leave \/ RunReturns \/ Reset \/ Exit \/ Return
    BY <2>11 DEF BrokenPipe, Leave, RunReturns, Reset, Exit, Return
  <2>12. CASE SignalIgnored
    BY <2>12 DEF SignalIgnored
  <2>16. CASE SignalFails
    BY <2>16 DEF SignalFails
  <2>18. CASE SignalTooLate
    BY <2>18 DEF SignalTooLate
  <2>13. CASE SignalBye
    BY <2>13 DEF SignalBye, Interrupted, Sent
  <2>14. CASE UNCHANGED vars
    BY <2>14 DEF vars
  <2> QED  BY <2>1, <2>2, <2>3, <2>4, <2>5, <2>6, <2>7, <2>8, <2>9, <2>10, <2>11,
              <2>12, <2>13, <2>14, <2>15, <2>16, <2>17, <2>18 DEF Next, Main, Over
<1> QED  BY <1>1, <1>2, ProcessTypeHolds, PTL DEF Spec

LEMMA NetworkOrder ==
    ASSUME NEW n \in 0 .. Largest.port
    PROVE  htons(n) % 256 = n \div 256 /\ htons(n) \div 256 = n % 256
<1>1. n \in Nat /\ n <= 65535
  BY DEF Largest
<1> QED  BY <1>1 DEF htons

\* Whatever ports the server answers from, and whenever a signal makes the client
\* say BYE, a datagram goes to the peer, its port in network order, except in the
\* one step of init that has the socket and not yet the port.
THEOREM SentToPeerHolds == Spec => []SentToPeer
<1>1. PortLife => SentToPeer
  BY NetworkOrder DEF PortLife, SentToPeer
<1> QED  BY <1>1, PortLifeHolds, PTL

============================================================================

------------------------------ MODULE Process ------------------------------
(***************************************************************************)
(* The process around the automaton: main, from the command line to the    *)
(* exit status, the one socket that the Receiver and the Sender of a       *)
(* Transceiver share, and SIGINT, whose handler calls exit() of the client *)
(* between any two steps.                                                  *)
(*                                                                         *)
(* The automata are in UDPClient and TCPClient; here a pass of the loop    *)
(* sends something, receives something, or ends.                           *)
(***************************************************************************)
EXTENDS CommandLine

CONSTANTS
    Origins,    \* ports from which the server's datagrams come
    MaxSignals  \* bound: SIGINTs in the life of the process

ASSUME SignalAssumption == MaxSignals \in Nat
ASSUME OriginsAssumption == Origins \subseteq 0 .. Largest.port

VARIABLES
    stage,     \* where main, run or init is
    fsm,       \* the global pointer: "null", "alive", or "destroyed" behind it
    receiver,  \* Receiver: socket and port
    sender,    \* Sender: socket and port, as it is put into an address
    open,      \* open descriptors
    peer,      \* the configured port, or that of the last datagram
    wire,      \* what the last step handed to the kernel
    link,      \* the TCP connection: "none", "up", "reset"
    status,    \* exit status, once it is known
    signals    \* how often SIGINT has been raised

clientVars == <<fsm, receiver, sender, open, peer>>
vars == <<argv, parser, stage, clientVars, wire, link, status, signals>>

Stdin == 0
Socket == 3   \* the descriptor that socket() returns
None == -1

Stages == {"parsing", "creating", "opening", "resolving", "connecting",
           "sharing", "swapping", "loop", "polling", "receiving", "received",
           "leaving", "resetting", "returning", "caught", "exiting",
           "over", "killed", "undefined", "aborted"}
Looping == {"loop", "polling", "receiving", "received"}
Ended == {"over", "killed", "undefined", "aborted"}

kind == parser.targets.protocol

\* A plausible fault: a port in the byte order of the host.
htonsForgotten(n) == n

htons(n) == (n % 256) * 256 + n \div 256

Silent == [socket |-> None, port |-> None, at |-> "none"]
Sent == [socket |-> sender.socket, port |-> sender.port, at |-> stage]

ProcessInit ==
    /\ Init
    /\ stage = "parsing" /\ fsm = "null"
    /\ receiver = [socket |-> None, port |-> None] /\ sender = receiver
    /\ open = {Stdin, 1, 2} /\ peer = None
    /\ wire = Silent /\ link = "none" /\ status = None /\ signals = 0

\* A step of the main program that sends nothing.
Step(from, to) == stage = from /\ stage' = to /\ wire' = Silent
                    /\ UNCHANGED <<argv, parser, signals>>

----------------------------------------------------------------------------
(* main, up to run. *)

ReadArguments ==
    /\ stage = "parsing" /\ Parse
    /\ wire' = Silent /\ UNCHANGED <<stage, clientVars, link, status, signals>>

Reject ==
    /\ parser.done /\ ~Accepted
    /\ Step("parsing", "over")
    /\ status' = 1
    /\ UNCHANGED <<clientVars, link>>

Accept ==
    /\ Accepted
    /\ Step("parsing", "creating")
    /\ UNCHANGED <<clientVars, link, status>>

\* The options leave no protocol but these two.  The pointer is assigned last.
Create ==
    /\ Step("creating", "opening")
    /\ fsm' = "alive"
    /\ receiver' = [socket |-> None, port |-> parser.targets.port]
    /\ sender' = receiver'
    /\ peer' = parser.targets.port
    /\ UNCHANGED <<open, link, status>>

----------------------------------------------------------------------------
(* Transceiver::init *)

\* An empty host name is a legal option value.
HostnameMissing ==
    /\ parser.targets.hostname = ""
    /\ Step("opening", "caught")
    /\ UNCHANGED <<clientVars, link, status>>

\* Nobody looks at the result of socket().
OpenSocket ==
    /\ parser.targets.hostname # ""
    /\ Step("opening", "resolving")
    /\ \E s \in {Socket, None} :
         /\ receiver' = [receiver EXCEPT !.socket = s]
         /\ open' = open \cup ({s} \ {None})
    /\ UNCHANGED <<fsm, sender, peer, link, status>>

Resolve ==
    /\ \/ Step("resolving", IF kind = "tcp" THEN "connecting" ELSE "sharing")
       \/ Step("resolving", "caught")
    /\ UNCHANGED <<clientVars, link, status>>

Connect ==
    /\ receiver.socket # None
    /\ Step("connecting", "sharing")
    /\ link' = "up"
    /\ UNCHANGED <<clientVars, status>>

ConnectionFails ==
    /\ Step("connecting", "caught")
    /\ open' = open \ {receiver.socket}
    /\ UNCHANGED <<fsm, receiver, sender, peer, link, status>>

Share ==
    /\ Step("sharing", "swapping")
    /\ sender' = [sender EXCEPT !.socket = receiver.socket]
    /\ UNCHANGED <<fsm, receiver, open, peer, link, status>>

\* A plausible fault: a socket that could not be made is not noticed.
AnySocket(s) == TRUE

HasSocket(s) == s.socket # None

\* Sender::init(CONNECT_ONLY): from here on the port is in network order.
SwapPort ==
    /\ IF HasSocket(sender)
       THEN /\ Step("swapping", "loop")
            /\ sender' = [sender EXCEPT !.port = htons(@)]
       ELSE Step("swapping", "caught") /\ UNCHANGED sender
    /\ UNCHANGED <<fsm, receiver, open, peer, link, status>>

----------------------------------------------------------------------------
(* run *)

Poll ==
    /\ \/ Step("loop", "polling")
       \/ Step("polling", "loop")
       \/ Step("polling", "receiving")
    /\ UNCHANGED <<clientVars, link, status>>

\* A command, a CONFIRM, a retransmission, a farewell.
Say ==
    /\ stage = "loop" /\ stage' = "loop" /\ wire' = Sent
    /\ UNCHANGED <<argv, parser, clientVars, link, status, signals>>

\* UDPSender::send resolves the host each time; the stdin block catches it.
ResolveAgainFails ==
    /\ kind = "udp"
    /\ \/ Step("loop", "loop")
       \/ Step("loop", "caught")
    /\ UNCHANGED <<clientVars, link, status>>

\* The destination follows in two steps.
Receive ==
    /\ kind = "udp"
    /\ Step("receiving", "received")
    /\ \E p \in Origins : receiver' = [receiver EXCEPT !.port = p]
    /\ UNCHANGED <<fsm, sender, open, peer, link, status>>

Follow ==
    /\ Step("received", "loop")
    /\ sender' = [sender EXCEPT !.port = htons(receiver.port)]
    /\ peer' = receiver.port
    /\ UNCHANGED <<fsm, receiver, open, link, status>>

\* Of the decoders, only that of TCP lets an exception of Message pass.
ReceiveStream ==
    /\ kind = "tcp"
    /\ \/ Step("receiving", "loop")
       \/ Step("receiving", "caught")
    /\ UNCHANGED <<clientVars, link, status>>

PeerResets ==
    /\ link = "up" /\ stage \notin Ended
    /\ link' = "reset"
    /\ wire' = Silent
    /\ UNCHANGED <<argv, parser, stage, clientVars, status, signals>>

\* SIGPIPE is neither handled nor ignored: a send on a reset connection may end
\* the process.
BrokenPipe ==
    /\ link = "reset" /\ sender.socket \in open
    /\ Step("loop", "killed")
    /\ UNCHANGED <<clientVars, link, status>>

\* The automaton is in END.
Leave ==
    /\ Step("loop", "leaving")
    /\ UNCHANGED <<clientVars, link, status>>

\* TCPFSM::run closes the socket and the standard input itself.
RunReturns ==
    /\ Step("leaving", "resetting")
    /\ open' = IF kind = "tcp" THEN open \ {receiver.socket, Stdin} ELSE open
    /\ UNCHANGED <<fsm, receiver, sender, peer, link, status>>

----------------------------------------------------------------------------
(* The end of main. *)

\* The destructors close the socket, several times.
Closed == open \ {receiver.socket, sender.socket}

\* A plausible fault: the object is left to the destructor of the pointer.
ResetForgotten ==
    /\ Step("resetting", "returning")
    /\ fsm' = "destroyed"
    /\ open' = Closed
    /\ status' = 0
    /\ UNCHANGED <<receiver, sender, peer, link>>

\* fsm.reset() empties the pointer before it destroys the object.
Reset ==
    /\ Step("resetting", "returning")
    /\ fsm' = "null"
    /\ open' = Closed
    /\ status' = 0
    /\ UNCHANGED <<receiver, sender, peer, link>>

\* exit(1) in the catch block destroys the object behind the pointer.
Exit ==
    /\ Step("caught", "exiting")
    /\ fsm' = "destroyed"
    /\ open' = Closed
    /\ status' = 1
    /\ UNCHANGED <<receiver, sender, peer, link>>

Return ==
    /\ \/ Step("returning", "over")
       \/ Step("exiting", "over")
    /\ UNCHANGED <<clientVars, link, status>>

----------------------------------------------------------------------------
(* SIGINT *)

\* What the handler interrupts: poll and connect fail, recvfrom throws, recv
\* finds nothing.
Interrupted ==
    CASE stage = "polling" -> "leaving"
      [] stage = "connecting" -> "caught"
      [] stage = "receiving" -> IF kind = "udp" THEN "caught" ELSE "loop"
      [] OTHER -> stage

Raise == stage \notin Ended /\ signals < MaxSignals /\ signals' = signals + 1

\* Not counted, since it changes nothing.
SignalIgnored ==
    /\ fsm = "null" /\ stage \notin Ended
    /\ wire' = Silent
    /\ UNCHANGED <<argv, parser, stage, clientVars, link, status, signals>>

\* exit() sends BYE, on whatever socket the sender has.
SignalBye ==
    /\ Raise /\ fsm = "alive"
    /\ wire' = Sent /\ stage' = Interrupted
    /\ open' = IF stage = "connecting" THEN open \ {receiver.socket} ELSE open
    /\ UNCHANGED <<argv, parser, fsm, receiver, sender, peer, link, status>>

\* exit() throws through the handler, or is hit by SIGPIPE.
SignalFails ==
    /\ Raise /\ fsm = "alive"
    /\ \/ kind = "udp" /\ stage' = "aborted"
       \/ link = "reset" /\ sender.socket \in open /\ stage' = "killed"
    /\ wire' = Silent
    /\ UNCHANGED <<argv, parser, clientVars, link, status>>

\* The pointer is not empty, but its object is gone.
SignalTooLate ==
    /\ Raise /\ fsm = "destroyed"
    /\ stage' = "undefined"
    /\ wire' = Silent
    /\ UNCHANGED <<argv, parser, clientVars, link, status>>

Over == stage \in Ended /\ UNCHANGED vars

Main ==
    \/ ReadArguments \/ Reject \/ Accept \/ Create
    \/ HostnameMissing \/ OpenSocket \/ Resolve \/ Connect \/ ConnectionFails
    \/ Share \/ SwapPort
    \/ Poll \/ Say \/ ResolveAgainFails \/ Receive \/ Follow \/ ReceiveStream
    \/ Leave \/ RunReturns \/ Reset \/ Exit \/ Return

Next ==
    \/ Main \/ PeerResets \/ BrokenPipe
    \/ SignalIgnored \/ SignalBye \/ SignalFails \/ SignalTooLate
    \/ Over

\* The program itself always goes on.
Spec == ProcessInit /\ [][Next]_vars /\ WF_vars(Main)

----------------------------------------------------------------------------
(* Properties. *)

\* Type invariant, with the bound on nested files.
TypeOK ==
    /\ stage \in Stages /\ fsm \in {"null", "alive", "destroyed"}
    /\ Len(parser.frames) <= MaxIncludeDepth + 2
    /\ parser.active \in Options \cup {"none"}
    /\ \A o \in DOMAIN Largest : parser.targets[o] \in 0 .. Largest[o]
    /\ {receiver.socket, sender.socket} \subseteq {Socket, None}
    /\ open \subseteq {Stdin, 1, 2, Socket}
    /\ signals \in 0 .. MaxSignals

\* The parser comes to an end with every command line, also when a file
\* includes itself (parser_impl.h:360-374).
ParsingEnds == stage = "parsing" ~> parser.done

\* A datagram that leaves on the shared socket goes to the configured port, or
\* to the one the server has answered from, in network byte order
\* (UDP_fsm.cpp:526, sender.cpp:140).  The exception is the BYE of a SIGINT
\* between the last two steps of init, which goes to the swapped port.
SentToPeer ==
    kind = "udp" /\ wire.socket # None /\ wire.at # "swapping" =>
        wire.port % 256 = peer \div 256 /\ wire.port \div 256 = peer % 256

\* In the loop, what is polled, received from and sent to is one open socket,
\* with a port of the peer (receiver.cpp:111, UDP_transceiver.cpp:48-54).
OneSocket ==
    stage \in Looping =>
        /\ sender.socket = receiver.socket
        /\ sender.socket \in open
        /\ kind = "tcp" => link # "none"

\* The handler calls a destroyed object only after an exception has made main
\* call exit(1) (main.cpp:26, 67, 72).
SignalsMeetLiveClient == stage = "undefined" => status = 1

=============================================================================

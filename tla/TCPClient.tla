------------------------------ MODULE TCPClient ------------------------------
(***************************************************************************)
(* The TCP variant of the IPK25 chat client (TCPFSM): its main loop and    *)
(* the ordered edges of its automaton.  The user, the connection with the  *)
(* server behind it, the clock and signals are the environment.            *)
(*                                                                         *)
(* One iteration of TCPFSM::run is four steps, told apart by pc:           *)
(*   "poll"    waiting in poll, then the stdin block;                      *)
(*   "socket"  the block that receives and decodes one chunk;              *)
(*   "timer"   the check of the awaited response;                          *)
(*   "fsm"     one call of Node::next and what follows it;                 *)
(* and "last" is the sleep of a pass that found the state END.  SIGINT and *)
(* delays fall between any two of them.                                    *)
(***************************************************************************)
EXTENDS Integers, Sequences

States == {"START", "AUTH", "OPEN", "JOIN", "END"}
Commands == {"AUTH", "JOIN", "MSG"}
ServerTypes == {"REPLY", "AUTH", "JOIN", "MSG", "ERR", "BYE"}

\* What TCPDecoder::decode can hand to the loop.  A chunk that matches no
\* format, and the empty chunk of a closed connection, are a NONE.
NoInput == [type |-> "NONE", ok |-> FALSE]
Inputs == {NoInput} \cup [type : ServerTypes \ {"REPLY"}, ok : {FALSE}]
                    \cup [type : {"REPLY"}, ok : BOOLEAN]

Outputs == Commands \cup {"NONE", "BYE"}

VARIABLES
    pc,              \* where TCPFSM::run is, or "stopped" once it has left
    state,           \* TCPFSM::state
    input,           \* messages.input()
    output,          \* the type of messages.output()
    awaitsResponse,  \* TCPFSM::awaitsResponse
    late,            \* more than five seconds have passed since timestamp
    stdin,           \* "open"; then std::cin has failed, for good: "ended",
                     \* or "readable" when poll reports POLLIN all the same
    sent,            \* history: the type of the message sent by the last step
    wire,            \* history: the types of the messages sent so far
    endedBy          \* history: the type of the server's message that ended the
                     \* session, unless the client answered it with a farewell

vars == <<pc, state, input, output, awaitsResponse, late, stdin, sent, wire, endedBy>>

\* timestamp starts at the epoch, which is more than five seconds ago.
Init ==
    /\ pc = "poll"
    /\ state = "START"
    /\ input = NoInput
    /\ output = "NONE"
    /\ awaitsResponse = FALSE
    /\ late = TRUE
    /\ stdin = "open"
    /\ sent = "NONE"
    /\ wire = {}
    /\ endedBy = "NONE"

\* A message of type NONE has no format: its encoding is empty.
Send(type) == sent' = type /\ wire' = wire \cup ({type} \ {"NONE"})
SendNothing == sent' = "NONE" /\ UNCHANGED wire

ClearOutputOnly == output' = "NONE" /\ UNCHANGED input  \* fault: half a clear
ClearMessages == input' = NoInput /\ output' = "NONE"

ExitWithErr == input' = NoInput /\ output' = "ERR" /\ Send("ERR")  \* fault
\* TCPFSM::exit: the messages are dropped for a BYE, which is sent.
Exit == input' = NoInput /\ output' = "BYE" /\ Send("BYE")

In(type) == input.type = type
Out(type) == output = type

(***************************************************************************)
(* The automaton                                                           *)
(***************************************************************************)

AnyReply == In("REPLY")  \* fault: the status is not read
PositiveReply == In("REPLY") /\ input.ok

\* The lambdas of the constructor: when each of them returns true.
Accepts(rule) ==
    \/ rule = "nan_auth" /\ Out("AUTH") /\ In("NONE")
    \/ rule = "errbye_nan" /\ Out("NONE") /\ (In("ERR") \/ In("BYE"))
    \/ rule = "nan_bye" /\ Out("BYE") /\ In("NONE")
    \/ rule = "nreply_auth" /\ In("REPLY") /\ ~input.ok
    \/ rule = "reply_nan" /\ PositiveReply
    \/ rule = "msg_err" /\ In("MSG")
    \/ rule = "nan_join" /\ Out("JOIN")
    \/ rule = "nan_msg" /\ In("NONE") /\ Out("MSG")
    \/ rule = "msg_nan" /\ In("MSG") /\ Out("NONE")
    \/ rule = "anyreply_err" /\ In("REPLY")
    \/ rule = "anyreply_nan" /\ In("REPLY")

\* NodeStates: for each state its edges' lambdas in the order they are called,
\* each with the edge's target.
Edges ==
  [START |-> << <<"nan_auth", "AUTH">>, <<"nan_bye", "END">>, <<"errbye_nan", "END">> >>,
   AUTH  |-> << <<"reply_nan", "OPEN">>, <<"errbye_nan", "END">>, <<"nan_bye", "END">>,
                <<"msg_err", "END">>, <<"nreply_auth", "AUTH">> >>,
   OPEN  |-> << <<"nan_join", "JOIN">>, <<"msg_nan", "OPEN">>, <<"nan_msg", "OPEN">>,
                <<"errbye_nan", "END">>, <<"nan_bye", "END">>, <<"anyreply_err", "END">> >>,
   JOIN  |-> << <<"msg_nan", "JOIN">>, <<"anyreply_nan", "OPEN">>,
                <<"nan_bye", "END">>, <<"errbye_nan", "END">> >>,
   END   |-> <<>>]

\* Node::next: the first lambda that returns true decides.
NoByeInJoinFires(i) ==  \* fault: JOIN has no edge for nan_bye
    /\ Accepts(Edges[state][i][1])
    /\ \A j \in 1 .. i - 1 : ~Accepts(Edges[state][j][1])
    /\ state = "JOIN" => Edges[state][i][1] # "nan_bye"
Fires(i) ==
    /\ Accepts(Edges[state][i][1])
    /\ \A j \in 1 .. i - 1 : ~Accepts(Edges[state][j][1])

\* The automaton is consulted only when there is a message to look at.
InputOnlyFsmRuns == ~In("NONE")  \* fault: the output alone does not count
FsmRuns == ~In("NONE") \/ ~Out("NONE")

\* What the pass does once its state is known: it is the last one in END.
AfterOldState(next) == IF state = "END" THEN "last" ELSE "poll"  \* fault: too early
AfterPass(next) == IF next = "END" THEN "last" ELSE "poll"

\* Take the edge of this lambda; each of them has cleared the messages, and the
\* loop ends when the state is END.
TakeEdge(rule) ==
    /\ pc = "fsm"
    /\ FsmRuns
    /\ \E i \in DOMAIN Edges[state] :
         /\ Edges[state][i][1] = rule
         /\ Fires(i)
         /\ state' = Edges[state][i][2]
         /\ pc' = AfterPass(Edges[state][i][2])
    /\ ClearMessages
    /\ UNCHANGED <<late, stdin>>

(***************************************************************************)
(* One action per lambda: what it does when it returns true                *)
(***************************************************************************)

NanAuth == TakeEdge("nan_auth") /\ SendNothing /\ UNCHANGED <<awaitsResponse, endedBy>>

ErrByeNan ==
    /\ TakeEdge("errbye_nan")
    /\ endedBy' = input.type
    /\ SendNothing
    /\ UNCHANGED awaitsResponse

NanBye == TakeEdge("nan_bye") /\ SendNothing /\ UNCHANGED <<awaitsResponse, endedBy>>

\* A negative REPLY is answered with the AUTH in config, unasked.
NReplyAuth ==
    /\ TakeEdge("nreply_auth")
    /\ Send("AUTH")
    /\ UNCHANGED <<awaitsResponse, endedBy>>

ReplyNan ==
    /\ TakeEdge("reply_nan")
    /\ awaitsResponse' = FALSE
    /\ SendNothing
    /\ UNCHANGED endedBy

MsgErr ==
    /\ TakeEdge("msg_err")
    /\ Send("ERR")
    /\ UNCHANGED <<awaitsResponse, endedBy>>

NanJoinNotAwaited ==  \* fault: awaitsResponse is not set
    TakeEdge("nan_join") /\ SendNothing /\ UNCHANGED <<awaitsResponse, endedBy>>
NanJoin ==
    /\ TakeEdge("nan_join")
    /\ awaitsResponse' = TRUE
    /\ SendNothing
    /\ UNCHANGED endedBy

NanMsg == TakeEdge("nan_msg") /\ SendNothing /\ UNCHANGED <<awaitsResponse, endedBy>>

MsgNan == TakeEdge("msg_nan") /\ SendNothing /\ UNCHANGED <<awaitsResponse, endedBy>>

\* The ERR is put into messages of the client and cleared with them; sent is the
\* output in the copy that Node::next was given: nothing, or once more what the
\* user typed, or the BYE of a signal.
AnyReplyErr ==
    /\ TakeEdge("anyreply_err")
    /\ Send(output)
    /\ endedBy' = input.type
    /\ UNCHANGED awaitsResponse

AnyReplyNanStillAwaits ==  \* fault: awaitsResponse is not reset
    TakeEdge("anyreply_nan") /\ SendNothing /\ UNCHANGED <<awaitsResponse, endedBy>>
AnyReplyNan ==
    /\ TakeEdge("anyreply_nan")
    /\ awaitsResponse' = FALSE
    /\ SendNothing
    /\ UNCHANGED endedBy

EdgeStep ==
    \/ NanAuth \/ ErrByeNan \/ NanBye \/ NReplyAuth \/ ReplyNan \/ MsgErr
    \/ NanJoin \/ NanMsg \/ MsgNan \/ AnyReplyErr \/ AnyReplyNan

\* Node::next found no edge: "Unexpected message" is printed, and both messages
\* are dropped.
NoEdge ==
    /\ pc = "fsm"
    /\ FsmRuns
    /\ ~ \E i \in DOMAIN Edges[state] : Fires(i)
    /\ pc' = "poll"
    /\ ClearMessages
    /\ SendNothing
    /\ UNCHANGED <<state, awaitsResponse, late, stdin, endedBy>>

\* Nothing to look at: the loop skips the automaton.
IdlePass ==
    /\ pc = "fsm"
    /\ ~FsmRuns
    /\ pc' = "poll"
    /\ SendNothing
    /\ UNCHANGED <<state, input, output, awaitsResponse, late, stdin, endedBy>>

\* The state is END: after the sleep the loop is over.
Leave ==
    /\ pc = "last"
    /\ pc' = "stopped"
    /\ SendNothing
    /\ UNCHANGED <<state, input, output, awaitsResponse, late, stdin, endedBy>>

(***************************************************************************)
(* The stdin and socket blocks, the timer, signals and time                *)
(***************************************************************************)

\* poll reported no input line, or readMessage refused the line.
NoCommand ==
    /\ pc = "poll" /\ stdin # "readable"
    /\ pc' = "socket"
    /\ SendNothing
    /\ UNCHANGED <<state, input, output, awaitsResponse, late, stdin, endedBy>>

\* /rename and /help come back from readMessage as a message of type NONE.
LocalCommand ==
    /\ pc = "poll" /\ stdin = "open"
    /\ pc' = "socket"
    /\ output' = "NONE"
    /\ SendNothing
    /\ UNCHANGED <<state, input, awaitsResponse, late, stdin, endedBy>>

\* The message is sent before the automaton is asked.
ReadCommandUnsent ==  \* fault: sending is left to the automaton
    /\ pc = "poll" /\ stdin = "open"
    /\ pc' = "socket"
    /\ output' \in Commands
    /\ SendNothing
    /\ UNCHANGED <<state, input, awaitsResponse, late, stdin, endedBy>>
ReadCommand ==
    /\ pc = "poll" /\ stdin = "open"
    /\ pc' = "socket"
    /\ \E type \in Commands : output' = type /\ Send(type)
    /\ UNCHANGED <<state, input, awaitsResponse, late, stdin, endedBy>>

\* getline fails: exit(), and the loop continues before it looks at the socket,
\* the timer or the automaton.  A file or /dev/null keeps reporting POLLIN; a
\* terminal falls silent.
ReadEof ==
    /\ pc = "poll" /\ stdin = "open"
    /\ stdin' \in {"ended", "readable"}
    /\ Exit
    /\ UNCHANGED <<pc, state, awaitsResponse, late, endedBy>>

\* The same in every later iteration that finds POLLIN.
ReadEofAgain ==
    /\ pc = "poll" /\ stdin = "readable"
    /\ Exit
    /\ UNCHANGED <<pc, state, awaitsResponse, late, stdin, endedBy>>

\* Something is typed at a terminal whose end was read: std::cin has failed and
\* never takes it, so that poll reports it from now on.
TypeAfterEof ==
    /\ pc = "poll" /\ stdin = "ended"
    /\ stdin' = "readable"
    /\ SendNothing
    /\ UNCHANGED <<pc, state, input, output, awaitsResponse, late, endedBy>>

NoChunk ==
    /\ pc = "socket"
    /\ pc' = "timer"
    /\ SendNothing
    /\ UNCHANGED <<state, input, output, awaitsResponse, late, stdin, endedBy>>

\* A chunk arrived: whatever the input was, it is replaced.
Receive ==
    /\ pc = "socket"
    /\ pc' = "timer"
    /\ input' \in Inputs
    /\ SendNothing
    /\ UNCHANGED <<state, output, awaitsResponse, late, stdin, endedBy>>

\* The age of timestamp is compared with five seconds while a response is
\* awaited; then timestamp is set to now, in every pass.
Timer ==
    /\ pc = "timer"
    /\ pc' = "fsm"
    /\ late' = FALSE
    /\ IF awaitsResponse /\ late THEN Exit ELSE SendNothing /\ UNCHANGED <<input, output>>
    /\ UNCHANGED <<state, awaitsResponse, stdin, endedBy>>

\* This pass takes more than five seconds: the process was suspended, the clock
\* was set, or getline waited for the rest of a line.
Stall ==
    /\ pc # "stopped" /\ ~late
    /\ late' = TRUE
    /\ SendNothing
    /\ UNCHANGED <<pc, state, input, output, awaitsResponse, stdin, endedBy>>

\* SIGINT: the handler calls exit().  Inside poll, the interrupted system call
\* then ends the loop.
SigInt ==
    /\ pc # "stopped"
    /\ Exit
    /\ pc' = pc \/ (pc = "poll" /\ pc' = "stopped")
    /\ UNCHANGED <<state, awaitsResponse, late, stdin, endedBy>>

\* The process ends on the spot: decode throws on an author or a text that is
\* too long, and no handler is in run; or a send, which SIGINT can make at any
\* time, raises SIGPIPE on a connection that was reset.
Dies ==
    /\ pc # "stopped"
    /\ pc' = "stopped"
    /\ SendNothing
    /\ UNCHANGED <<state, input, output, awaitsResponse, late, stdin, endedBy>>

Terminated == pc = "stopped" /\ UNCHANGED vars

\* The client left alone: no user, no chunk, no signal, no delay.
Loop == NoCommand \/ ReadEofAgain \/ NoChunk \/ Timer \/ EdgeStep \/ NoEdge
          \/ IdlePass \/ Leave

User == LocalCommand \/ ReadCommand \/ ReadEof \/ TypeAfterEof

Next == Loop \/ User \/ Receive \/ Stall \/ SigInt \/ Dies \/ Terminated

Spec == Init /\ [][Next]_vars

\* poll returns after 200 ms and the loop goes on; the user, the server, delays
\* and signals owe nothing.
FairSpec == Spec /\ WF_vars(Loop)

(***************************************************************************)
(* Properties                                                              *)
(***************************************************************************)

\* Every variable has its type.
TypeOK ==
    /\ pc \in {"poll", "socket", "timer", "fsm", "last", "stopped"}
    /\ state \in States
    /\ input \in Inputs
    /\ output \in Outputs
    /\ awaitsResponse \in BOOLEAN
    /\ late \in BOOLEAN
    /\ stdin \in {"open", "ended", "readable"}
    /\ sent \in Commands \cup {"NONE", "ERR", "BYE"}
    /\ wire \subseteq Commands \cup {"ERR", "BYE"}
    /\ endedBy \in {"NONE", "ERR", "BYE", "REPLY"}

\* A response is awaited in JOIN, always, and in no other state of a session
\* that goes on: the timer neither cuts an open session short nor spares a JOIN.
AwaitsMeansJoin ==
    /\ state = "JOIN" => awaitsResponse
    /\ awaitsResponse => state \in {"JOIN", "END"}

\* What a pass leaves to the next: no input, and no output but the BYE of exit()
\* and only if SIGINT or the end of stdin came after the automaton was asked.
NothingLeftOver ==
    /\ pc \in {"poll", "socket"} => In("NONE")
    /\ pc = "poll" => output \in {"NONE", "BYE"}

\* The automaton never runs ahead of the connection: the AUTH of an open session
\* and the JOIN of a waiting one were sent, so was every output it looks at, and
\* the client leaves a session only with a BYE or ERR of its own, or because the
\* server sent one, or a REPLY that nothing had asked for.
WireBacksState ==
    /\ state \notin {"START", "END"} => "AUTH" \in wire
    /\ state = "JOIN" => "JOIN" \in wire
    /\ state = "END" => endedBy # "NONE" \/ wire \cap {"BYE", "ERR"} # {}
    /\ ~Out("NONE") => output \in wire

\* A session that is over is over: an ERR is sent on the way to END only, and
\* once it was sent, or the state is END for another reason, nothing more is said,
\* neither anew nor again, but the BYE of a SIGINT in the last sleep.
ErrIsFinal ==
    [][/\ state = "END" \/ "ERR" \in wire => sent' \in {"NONE", "BYE"}
       /\ "ERR" \in wire' => state' = "END"]_vars

\* The session opens only from AUTH, when the automaton looks at a positive REPLY.
OpensOnReply ==
    [][state \notin {"OPEN", "JOIN"} /\ state' \in {"OPEN", "JOIN"}
         => state = "AUTH" /\ In("REPLY") /\ input.ok]_vars

\* A farewell that the automaton finds alone ends the session in every state:
\* the BYE of exit() after SIGINT, a timeout or the end of stdin, and the
\* server's ERR or BYE.
LoneFarewellEnds ==
    [][/\ pc = "fsm" /\ pc' \notin {"fsm", "stopped"}
       /\ \/ Out("BYE") /\ In("NONE")
          \/ Out("NONE") /\ (In("ERR") \/ In("BYE"))
       => state' = "END"]_vars

\* If the user, the server and signals fall silent, no message stays in hand,
\* unless the client stopped or stdin keeps reporting its end.
HandsEmpty ==
    <>[][Loop]_vars =>
        <>[]((In("NONE") /\ Out("NONE")) \/ pc = "stopped" \/ stdin = "readable")

\* What TCPClient shows of a session.
Request ==
    IF state = "AUTH" THEN "AUTH"
    ELSE IF awaitsResponse /\ state # "END" THEN "JOIN" ELSE "none"
Running == pc # "stopped"

Session == INSTANCE ChatSession WITH phase <- state, request <- Request, running <- Running

\* The TCP client is a chat session: it asks one thing at a time, opens only on
\* the answer to what is asked, and once it stopped, or is in END, stays there.
SessionImplemented == Session!Spec

(***************************************************************************)
(* What the documentation says of the program                              *)
(***************************************************************************)

\* "the connection is ... properly closed from the server or client side by
\* sending BYE message": after the BYE that the end of stdin sends, the client
\* stops.
EofCloses == stdin # "open" ~> pc = "stopped"

\* "check if the timeout has expired": a client left alone does not wait for the
\* response to its JOIN for ever.
JoinTimesOut ==
    <>[][Loop]_vars => []<>(state # "JOIN" \/ pc = "stopped")

=============================================================================

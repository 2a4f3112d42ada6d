------------------------------ MODULE UDPClient ------------------------------
(***************************************************************************)
(* The UDP variant of the IPK25 chat client (UDPFSM): its main loop, the   *)
(* ordered edges of its queue automaton, the retransmission queue, and the *)
(* encoder's message counter.  The user, the network with the server       *)
(* behind it, the clock, the resolver and SIGINT are the environment.      *)
(*                                                                         *)
(* One iteration of UDPFSM::run is three steps, told apart by pc:          *)
(*   "poll"    waiting in poll, then the stdin block;                      *)
(*   "socket"  the block that receives and decodes one datagram;           *)
(*   "fsm"     one call of Node::next and what follows it.                 *)
(* SIGINT and the passing of time fall between any two of them.            *)
(***************************************************************************)
EXTENDS Integers, Sequences, FiniteSets

CONSTANTS
    ByteBase,         \* values of a byte: 256; a message ID is two bytes
    Retransmissions,  \* config::retransmissions (-r)
    Timeout,          \* config::timeout (-d), in clock ticks
    MaxQueue,         \* bound: nobody types while this many messages wait
    Args,             \* arguments a user can give to /auth and /join
    DefaultArg,       \* config's username, secret and channel at start
    NoArg,            \* what a datagram without such an argument carries
    ServerIds         \* IDs the server gives to messages of its own

ASSUME ByteBaseAssumption == ByteBase \in Nat /\ ByteBase >= 2
ASSUME RetransmissionsAssumption == Retransmissions \in Nat
ASSUME TimeoutAssumption == Timeout \in Nat /\ Timeout > 0
ASSUME MaxQueueAssumption == MaxQueue \in Nat

\* Message IDs are uint16_t; the largest one doubles as "no ID yet".
IdSpace == ByteBase * ByteBase
Ids == 0 .. IdSpace - 1
Sentinel == IdSpace - 1

ASSUME ServerIdsAssumption == ServerIds \subseteq Ids

\* ntohs on a uint16_t: the client's own IDs leave with their bytes swapped
\* (htons, then most significant byte first), the server echoes the bytes,
\* and the decoder reads them most significant byte first.
ByteSwap(n) == (n % ByteBase) * ByteBase + n \div ByteBase

States == {"START", "AUTH", "OPEN", "JOIN", "END"}
Commands == {"AUTH", "JOIN", "MSG"}
ServerTypes == {"CONFIRM", "REPLY", "AUTH", "JOIN", "MSG", "ERR", "BYE", "PING"}

NoInput == [type |-> "NONE", id |-> Sentinel, ref |-> 0, ok |-> FALSE]
NoOutput == [type |-> "NONE", id |-> Sentinel]
Bye == [type |-> "BYE", id |-> Sentinel]

\* What UDPDecoder::decode can hand to the loop.  A CONFIRM carries the ID it
\* confirms in its own ID field; a malformed datagram becomes an ERR that
\* never got an ID.
ServerMessages ==
    [type : {"CONFIRM"}, id : Ids, ref : {0}, ok : {FALSE}]
      \cup [type : {"REPLY"}, id : ServerIds, ref : Ids, ok : BOOLEAN]
      \cup [type : ServerTypes \ {"CONFIRM", "REPLY"}, id : ServerIds,
            ref : {0}, ok : {FALSE}]
      \cup {[type |-> "ERR", id |-> Sentinel, ref |-> 0, ok |-> FALSE]}

\* What messages.input() and messages.output() can hold.
Inputs == ServerMessages \cup {NoInput}
Outputs == [type : Commands, id : Ids] \cup {NoOutput, Bye}

\* UDPFSM::StackElement.  age counts the ticks since timestamp, up to Timeout;
\* tries (how often the message was handed to send) and arg (the argument the
\* user gave with it) are history.
Element == [type : Commands, id : Ids, left : 0 .. Retransmissions,
            age : 0 .. Timeout, tries : Nat,
            arg : Args \cup {DefaultArg, NoArg}]

\* A datagram of the client, the ID of a CONFIRM being its reference.
Datagrams == [type : Commands \cup {"CONFIRM", "ERR", "BYE"}, id : Ids,
              arg : Args \cup {DefaultArg, NoArg}]

VARIABLES
    pc,      \* where UDPFSM::run is, or "stopped" once it has left the loop
    state,   \* UDPFSM::state
    input,   \* messages.input()
    output,  \* messages.output()
    stack,   \* UDPFSM::stack
    nextID,  \* UDPEncoder::messageID
    config,  \* config::username and secret, config::channel
    eof,     \* std::cin has met its end and stays failed
    bound,   \* the kernel gave the socket a port: something was sent
    sent     \* the datagrams the last step sent

vars == <<pc, state, input, output, stack, nextID, config, eof, bound, sent>>

Init ==
    /\ pc = "poll"
    /\ state = "START"
    /\ input = NoInput
    /\ output = NoOutput
    /\ stack = <<>>
    /\ nextID = 0
    /\ config = [type \in {"AUTH", "JOIN"} |-> DefaultArg]
    /\ eof = FALSE
    /\ bound = FALSE
    /\ sent = {}

(***************************************************************************)
(* Encoding and sending                                                    *)
(***************************************************************************)

\* UDPEncoder::encodeBinary reads and increments messageID only for a message
\* that has no ID.
FreshEncodedId(id) == nextID  \* fault: every encoding takes a new ID
EncodedId(id) == IF id = Sentinel THEN nextID ELSE id
UnwrappedNextIdAfter(id) ==  \* fault: the counter is wider than uint16_t
    IF id = Sentinel THEN nextID + 1 ELSE nextID
NextIdAfter(id) == IF id = Sentinel THEN (nextID + 1) % IdSpace ELSE nextID

Datagram(type, id, arg) == [type |-> type, id |-> id, arg |-> arg]

\* AUTH and JOIN are encoded from config, not from the message.
CurrentArg(cfg, type) == IF type \in DOMAIN cfg THEN cfg[type] ELSE NoArg

\* Encode and send a message: type and ID as in the Message object.
Send(type, id) ==
    /\ sent' = {Datagram(type, EncodedId(id), CurrentArg(config, type))}
    /\ nextID' = NextIdAfter(id)
    /\ bound' = TRUE

SendNothing == sent' = {} /\ UNCHANGED <<nextID, bound>>

\* The CONFIRM of the input: it echoes the input's ID as its reference, and
\* consumes a counter value when the input has none.
FreshSendConfirm == Send("CONFIRM", Sentinel)  \* fault: the ID is not echoed
SendConfirm ==
    /\ sent' = {Datagram("CONFIRM", input.id, NoArg)}
    /\ nextID' = NextIdAfter(input.id)
    /\ bound' = TRUE

ClearInputOnly == input' = NoInput /\ UNCHANGED output  \* fault: half a clear
ClearMessages == input' = NoInput /\ output' = NoOutput

(***************************************************************************)
(* The queue                                                               *)
(***************************************************************************)

\* A message enters the queue just after the stdin block sent it once.
NewElement(out) ==
    [type |-> out.type, id |-> out.id, left |-> Retransmissions, age |-> 0,
     tries |-> 1, arg |-> CurrentArg(config, out.type)]

OfType(type) == {i \in DOMAIN stack : stack[i].type = type}
IsExpired(e) == e.age >= Timeout
HasRetransmissions(e) == e.left # 0
Expired(type) == {i \in OfType(type) : IsExpired(stack[i])}
Exhausted == {i \in DOMAIN stack : ~HasRetransmissions(stack[i])}
Retriable(type) == {i \in OfType(type) : HasRetransmissions(stack[i])}
WithId(id) == {i \in DOMAIN stack : stack[i].id = id}

First(S) == CHOOSE i \in S : \A j \in S : i <= j

DecrementClockOnly(e) == [e EXCEPT !.age = 0]  \* fault: no charge
Decrement(e) == [e EXCEPT !.left = IF @ > 0 THEN @ - 1 ELSE 0, !.age = 0]

\* erase and erase_if: s without the positions in S, in the same order.
Nth(K, k) == CHOOSE i \in K : Cardinality({j \in K : j <= i}) = k
EraseAt(s, S) ==
    LET keep == DOMAIN s \ S
    IN  [k \in 1 .. Cardinality(keep) |-> s[Nth(keep, k)]]

(***************************************************************************)
(* The automaton                                                           *)
(***************************************************************************)

In(type) == input.type = type
Out(type) == output.type = type

\* The queue positions an answer names.  CONFIRM is matched through ntohs in
\* OPEN; REPLY, and the CONFIRM of a JOIN, are compared as decoded.
UnswappedConfirmedMsg == WithId(input.id)  \* fault: ntohs forgotten
ConfirmedMsg == WithId(ByteSwap(input.id))
ConfirmedJoin == WithId(input.id)
RepliedAny == DOMAIN stack  \* fault: any REPLY answers what waits
Replied == WithId(input.ref)

UnsolicitedReply == input.ref >= nextID

\* The lambdas of the constructor: when each of them returns true.
Accepts(rule) ==
    \/ rule = "empty_auth_nan_auth_no" /\ stack = <<>> /\ Out("AUTH") /\ In("NONE")
    \/ rule = "none_none_errbye_nan_no" /\ Out("NONE") /\ (In("ERR") \/ In("BYE"))
    \/ rule = "none_none_nan_bye_no" /\ Out("BYE") /\ In("NONE")
    \/ rule = "auth_authminus_nan_authminus_yes" /\ In("NONE") /\ Expired("AUTH") # {}
    \/ rule = "auth_none_nreply_nan_no" /\ In("REPLY") /\ ~input.ok
    \/ rule = "authzero_none_nan_nan_no" /\ In("NONE") /\ Exhausted # {}
    \/ rule = "auth_empty_reply_confirm_no" /\ In("REPLY") /\ input.ok /\ Replied # {}
    \/ rule = "none_none_msg_err_no" /\ In("MSG")
    \/ rule = "none_none_msg_confirm_no" /\ In("MSG")
    \/ rule = "none_msg_nan_msg_no" /\ Out("MSG")
    \/ rule = "msg_msgminus_nan_msgminus_yes" /\ In("NONE") /\ Expired("MSG") # {}
    \/ rule = "msg_none_confirm_nan_no" /\ In("CONFIRM") /\ ConfirmedMsg # {}
    \/ rule = "none_none_ping_confirm_no" /\ In("PING")
    \/ rule = "msgjoinzero_none_nan_nan_no" /\ In("NONE") /\ Exhausted # {}
    \/ rule = "empty_join_nan_join_no" /\ stack = <<>> /\ Out("JOIN")
    \/ rule = "join_join_nan_join_no" /\ In("NONE") /\ Retriable("JOIN") # {}
    \/ rule = "join_join_confirm_nan_no" /\ In("CONFIRM") /\ ConfirmedJoin # {}
    \/ rule = "join_joinminus_nan_nan_yes" /\ In("NONE") /\ Expired("JOIN") # {}
    \/ rule = "join_none_reply_confirm_no" /\ In("REPLY") /\ Expired("JOIN") # {}
    \/ rule = "none_none_anyreply_err_no" /\ In("REPLY") /\ UnsolicitedReply

\* The lambdas that clear the messages even when they return false.  Node::next
\* works on a copy, so the lambdas after them still see the messages.
ClearsAnyway(rule) ==
    \/ /\ rule \in {"auth_authminus_nan_authminus_yes", "authzero_none_nan_nan_no",
                    "msg_msgminus_nan_msgminus_yes", "msgjoinzero_none_nan_nan_no",
                    "join_joinminus_nan_nan_yes"}
       /\ In("NONE")
    \/ rule = "msg_none_confirm_nan_no" /\ In("CONFIRM")

\* The lambdas that send a datagram when they return true.
Sending == {"none_none_errbye_nan_no", "auth_authminus_nan_authminus_yes",
            "auth_none_nreply_nan_no", "auth_empty_reply_confirm_no",
            "none_none_msg_err_no", "none_none_msg_confirm_no",
            "msg_msgminus_nan_msgminus_yes", "none_none_ping_confirm_no",
            "join_join_nan_join_no", "join_none_reply_confirm_no",
            "none_none_anyreply_err_no"}

\* NodeStates: for each state its edges' lambdas in the order they are called,
\* each with the edge's target.
Edges ==
  [START |-> << <<"empty_auth_nan_auth_no", "AUTH">>,
                <<"none_none_nan_bye_no", "END">>,
                <<"none_none_errbye_nan_no", "END">> >>,
   AUTH  |-> << <<"auth_empty_reply_confirm_no", "OPEN">>,
                <<"none_none_errbye_nan_no", "END">>,
                <<"none_none_nan_bye_no", "END">>,
                <<"none_none_msg_err_no", "END">>,
                <<"authzero_none_nan_nan_no", "AUTH">>,
                <<"auth_authminus_nan_authminus_yes", "AUTH">>,
                <<"auth_none_nreply_nan_no", "AUTH">>,
                <<"empty_auth_nan_auth_no", "AUTH">> >>,
   OPEN  |-> << <<"empty_join_nan_join_no", "JOIN">>,
                <<"join_join_nan_join_no", "JOIN">>,
                <<"msgjoinzero_none_nan_nan_no", "OPEN">>,
                <<"msg_msgminus_nan_msgminus_yes", "OPEN">>,
                <<"none_none_msg_confirm_no", "OPEN">>,
                <<"none_none_ping_confirm_no", "OPEN">>,
                <<"none_msg_nan_msg_no", "OPEN">>,
                <<"msg_none_confirm_nan_no", "OPEN">>,
                <<"none_none_errbye_nan_no", "END">>,
                <<"none_none_nan_bye_no", "END">>,
                <<"none_none_anyreply_err_no", "END">> >>,
   JOIN  |-> << <<"none_none_msg_confirm_no", "JOIN">>,
                <<"none_none_ping_confirm_no", "JOIN">>,
                <<"join_join_confirm_nan_no", "JOIN">>,
                <<"join_joinminus_nan_nan_yes", "OPEN">>,
                <<"join_none_reply_confirm_no", "OPEN">>,
                <<"none_none_nan_bye_no", "END">>,
                <<"none_none_errbye_nan_no", "END">> >>,
   END   |-> <<>>]

\* Node::next: the first lambda that returns true decides.
Fires(i) ==
    /\ Accepts(Edges[state][i][1])
    /\ \A j \in 1 .. i - 1 : ~Accepts(Edges[state][j][1])

\* The FSM is consulted only when there is something to look at.
OutputIgnoredFsmRuns == stack # <<>> \/ ~In("NONE")  \* fault: as it says
MessageOnlyFsmRuns == ~In("NONE") \/ ~Out("NONE")  \* fault: no timeouts
FsmRuns == stack # <<>> \/ ~In("NONE") \/ ~Out("NONE")

\* Take the edge of this lambda; every lambda that returns true has cleared
\* the messages, and the loop ends when the state is END.
TakeEdge(rule) ==
    /\ pc = "fsm"
    /\ FsmRuns
    /\ \E i \in DOMAIN Edges[state] :
         /\ Edges[state][i][1] = rule
         /\ Fires(i)
         /\ state' = Edges[state][i][2]
         /\ pc' = IF Edges[state][i][2] = "END" THEN "stopped" ELSE "poll"
    /\ ClearMessages
    /\ UNCHANGED <<config, eof>>

(***************************************************************************)
(* One action per lambda: what it does when it returns true                *)
(***************************************************************************)

EmptyAuth ==
    /\ TakeEdge("empty_auth_nan_auth_no")
    /\ stack' = <<NewElement(output)>>
    /\ SendNothing

ErrBye ==
    /\ TakeEdge("none_none_errbye_nan_no")
    /\ SendConfirm
    /\ UNCHANGED stack

NanBye ==
    /\ TakeEdge("none_none_nan_bye_no")
    /\ SendNothing
    /\ UNCHANGED stack

\* Send the message at position i again and restart its clock.
Retransmit(i) ==
    /\ Send(stack[i].type, stack[i].id)
    /\ stack' = [stack EXCEPT ![i] = [Decrement(stack[i]) EXCEPT
                                        !.tries = stack[i].tries + 1]]

AuthMinus ==
    /\ TakeEdge("auth_authminus_nan_authminus_yes")
    /\ Retransmit(First(Expired("AUTH")))

NegativeReply ==
    /\ TakeEdge("auth_none_nreply_nan_no")
    /\ stack' = EraseAt(stack, Replied)
    /\ SendConfirm

AuthZero ==
    /\ TakeEdge("authzero_none_nan_nan_no")
    /\ stack' = EraseAt(stack, Exhausted)
    /\ SendNothing

PositiveReplyKeepsAuth ==  \* fault: the AUTH is not erased
    /\ TakeEdge("auth_empty_reply_confirm_no")
    /\ SendConfirm
    /\ UNCHANGED stack

PositiveReply ==
    /\ TakeEdge("auth_empty_reply_confirm_no")
    /\ stack' = EraseAt(stack, {First(Replied)})
    /\ SendConfirm

MsgErr ==
    /\ TakeEdge("none_none_msg_err_no")
    /\ Send("ERR", Sentinel)
    /\ UNCHANGED stack

MsgConfirm ==
    /\ TakeEdge("none_none_msg_confirm_no")
    /\ SendConfirm
    /\ UNCHANGED stack

QueueMsg ==
    /\ TakeEdge("none_msg_nan_msg_no")
    /\ stack' = Append(stack, NewElement(output))
    /\ SendNothing

MsgMinus ==
    /\ TakeEdge("msg_msgminus_nan_msgminus_yes")
    /\ Retransmit(First(Expired("MSG")))

MsgConfirmed ==
    /\ TakeEdge("msg_none_confirm_nan_no")
    /\ stack' = EraseAt(stack, ConfirmedMsg)
    /\ SendNothing

PingConfirm ==
    /\ TakeEdge("none_none_ping_confirm_no")
    /\ SendConfirm
    /\ UNCHANGED stack

MsgJoinZero ==
    /\ TakeEdge("msgjoinzero_none_nan_nan_no")
    /\ stack' = EraseAt(stack, Exhausted)
    /\ SendNothing

EmptyJoin ==
    /\ TakeEdge("empty_join_nan_join_no")
    /\ stack' = <<NewElement(output)>>
    /\ SendNothing

\* The JOIN is sent again; its budget and clock were updated by JoinMinus.
JoinAgain ==
    /\ TakeEdge("join_join_nan_join_no")
    /\ LET i == First(Retriable("JOIN"))
       IN  /\ Send("JOIN", stack[i].id)
           /\ stack' = [stack EXCEPT ![i].tries = @ + 1]

JoinConfirmed ==
    /\ TakeEdge("join_join_confirm_nan_no")
    /\ SendNothing
    /\ UNCHANGED stack

JoinMinus ==
    /\ TakeEdge("join_joinminus_nan_nan_yes")
    /\ LET i == First(Expired("JOIN"))
       IN  stack' = [stack EXCEPT ![i] = Decrement(stack[i])]
    /\ SendNothing

JoinReply ==
    /\ TakeEdge("join_none_reply_confirm_no")
    /\ stack' = EraseAt(stack, {First(Expired("JOIN"))})
    /\ SendConfirm

AnyReplyErr ==
    /\ TakeEdge("none_none_anyreply_err_no")
    /\ Send("ERR", Sentinel)
    /\ UNCHANGED stack

EdgeStep ==
    \/ EmptyAuth \/ ErrBye \/ NanBye \/ AuthMinus \/ NegativeReply
    \/ AuthZero \/ PositiveReply \/ MsgErr \/ MsgConfirm \/ QueueMsg
    \/ MsgMinus \/ MsgConfirmed \/ PingConfirm \/ MsgJoinZero \/ EmptyJoin
    \/ JoinAgain \/ JoinConfirmed \/ JoinMinus \/ JoinReply \/ AnyReplyErr

\* Node::next found no edge.  "Unexpected message" is printed and the messages
\* cleared, except that an input CONFIRM alone is kept for the next iteration.
NoEdge ==
    /\ pc = "fsm"
    /\ FsmRuns
    /\ \A i \in DOMAIN Edges[state] : ~Accepts(Edges[state][i][1])
    /\ IF \/ input.type \notin {"NONE", "CONFIRM"}
          \/ ~Out("NONE")
          \/ \E i \in DOMAIN Edges[state] : ClearsAnyway(Edges[state][i][1])
       THEN ClearMessages
       ELSE UNCHANGED <<input, output>>
    /\ pc' = "poll"
    /\ SendNothing
    /\ UNCHANGED <<state, stack, config, eof>>

\* Nothing to look at: the loop skips the FSM.
IdlePass ==
    /\ pc = "fsm"
    /\ ~FsmRuns
    /\ pc' = "poll"
    /\ SendNothing
    /\ UNCHANGED <<state, input, output, stack, config, eof>>

\* Resolving the host name failed in a lambda: the exception leaves run, and
\* main prints it and exits.
ResolveFails ==
    /\ pc = "fsm"
    /\ FsmRuns
    /\ \E i \in DOMAIN Edges[state] : Fires(i) /\ Edges[state][i][1] \in Sending
    /\ pc' = "stopped"
    /\ SendNothing
    /\ UNCHANGED <<state, input, output, stack, config, eof>>

(***************************************************************************)
(* The stdin and socket blocks, signals and time                           *)
(***************************************************************************)

\* poll reported no input line, or readMessage refused the line.
NoCommand ==
    /\ pc = "poll"
    /\ pc' = "socket"
    /\ SendNothing
    /\ UNCHANGED <<state, input, output, stack, config, eof>>

\* /rename and /help come back from readMessage as a message of type NONE.
LocalCommand ==
    /\ pc = "poll" /\ ~eof
    /\ pc' = "socket"
    /\ output' = NoOutput
    /\ SendNothing
    /\ UNCHANGED <<state, input, stack, config, eof>>

\* readMessage stores the arguments in config before setAuthor refuses a display
\* name that /rename, or the /auth itself, made too long.
RefusedCommand ==
    /\ pc = "poll" /\ ~eof
    /\ pc' = "socket"
    /\ \E type \in {"AUTH", "JOIN"}, arg \in Args :
         config' = [config EXCEPT ![type] = arg]
    /\ SendNothing
    /\ UNCHANGED <<state, input, output, stack, eof>>

\* The message is encoded, with the next ID, and sent before the FSM is asked.
\* A resolver failure is caught after the ID is set: the FSM will see the
\* message as if it had been sent.
ReadCommand ==
    /\ pc = "poll" /\ ~eof
    /\ Len(stack) < MaxQueue
    /\ pc' = "socket"
    /\ \E type \in Commands, arg \in Args, resolved \in BOOLEAN :
         /\ config' = IF type = "MSG" THEN config ELSE [config EXCEPT ![type] = arg]
         /\ nextID' = NextIdAfter(Sentinel)
         /\ output' = [type |-> type, id |-> (nextID' + Sentinel) % IdSpace]
         /\ sent' = IF resolved
                    THEN {Datagram(type, nextID, CurrentArg(config', type))}
                    ELSE {}
         /\ bound' = (bound \/ resolved)
    /\ UNCHANGED <<state, input, stack, eof>>

\* getline is not tested: at the end of stdin, and on every POLLIN after it, the
\* line is empty and reads as a MSG.  The end of stdin is noticed only where that
\* MSG fails: the resolver does not find the host, after the MSG was encoded, or
\* setAuthor refuses the display name, before it was.  exit() then drops the
\* messages and sends BYE, and the loop continues, unless the resolver fails
\* there and the exception ends the program.
ReadEof ==
    /\ pc = "poll"
    /\ Len(stack) < MaxQueue
    /\ eof' = TRUE
    /\ \/ /\ pc' = "socket"
          /\ Send("MSG", Sentinel)
          /\ output' = [type |-> "MSG", id |-> (nextID' + Sentinel) % IdSpace]
          /\ UNCHANGED input
       \/ /\ input' = NoInput
          /\ output' = Bye
          /\ \E encoded \in {0, 1} :
               /\ nextID' = (nextID + encoded + 1) % IdSpace
               /\ \/ /\ pc' = "poll"
                     /\ sent' = {Datagram("BYE", (nextID + encoded) % IdSpace, NoArg)}
                     /\ bound' = TRUE
                  \/ /\ pc' = "stopped"
                     /\ sent' = {}
                     /\ UNCHANGED bound
    /\ UNCHANGED <<state, stack, config>>

NoDatagram ==
    /\ pc = "socket"
    /\ pc' = "fsm"
    /\ SendNothing
    /\ UNCHANGED <<state, input, output, stack, config, eof>>

\* A datagram arrived: whatever the input was, it is replaced.
Receive ==
    /\ pc = "socket"
    /\ bound
    /\ pc' = "fsm"
    /\ input' \in ServerMessages
    /\ SendNothing
    /\ UNCHANGED <<state, output, stack, config, eof>>

\* SIGINT: the handler calls exit(), which drops the messages and sends BYE.
\* Inside poll, the interrupted system call then ends the loop.
SigInt ==
    /\ pc # "stopped"
    /\ input' = NoInput
    /\ output' = Bye
    /\ Send("BYE", Sentinel)
    /\ pc' = pc \/ (pc = "poll" /\ pc' = "stopped")
    /\ UNCHANGED <<state, stack, config, eof>>

Tick ==
    /\ pc # "stopped"
    /\ \E i \in DOMAIN stack : ~IsExpired(stack[i])
    /\ stack' = [i \in DOMAIN stack |->
                   IF IsExpired(stack[i]) THEN stack[i]
                   ELSE [stack[i] EXCEPT !.age = @ + 1]]
    /\ SendNothing
    /\ UNCHANGED <<pc, state, input, output, config, eof>>

\* main has returned.
Terminated == pc = "stopped" /\ UNCHANGED vars

\* The client left alone: no user, no datagram, no signal, no failure.
Loop == NoCommand \/ NoDatagram \/ EdgeStep \/ NoEdge \/ IdlePass

User == LocalCommand \/ RefusedCommand \/ ReadCommand \/ ReadEof

Next == Loop \/ User \/ Receive \/ SigInt \/ ResolveFails \/ Tick \/ Terminated

Spec == Init /\ [][Next]_vars

\* The loop keeps running and the clock keeps going; the user, the network and
\* signals owe nothing.
FairSpec == Spec /\ WF_vars(Loop) /\ WF_vars(Tick)

(***************************************************************************)
(* Properties                                                              *)
(***************************************************************************)

\* Every variable has its type: message IDs and the counter stay uint16_t, a
\* queued message is one the user can type, only BYE has an output without ID.
TypeOK ==
    /\ pc \in {"poll", "socket", "fsm", "stopped"}
    /\ state \in States
    /\ input \in Inputs
    /\ output \in Outputs
    /\ stack \in Seq(Element)
    /\ nextID \in Ids
    /\ config \in [{"AUTH", "JOIN"} -> Args \cup {DefaultArg}]
    /\ eof \in BOOLEAN
    /\ bound \in BOOLEAN
    /\ sent \in SUBSET Datagrams

\* The queue and the state agree: nothing waits before authentication starts,
\* at most one AUTH waits during it and nothing else does, no AUTH survives it,
\* a JOIN is alone at the front, and in JOIN the request is there.  The lambdas
\* that answer a REPLY look for an ID and never for a type, and rely on this.
QueueShape ==
    /\ state = "START" => stack = <<>>
    /\ state = "AUTH" => Len(stack) <= 1
    /\ \A i \in DOMAIN stack :
         /\ stack[i].type = "AUTH" => state \in {"AUTH", "END"}
         /\ stack[i].type # "AUTH" => state # "AUTH"
         /\ stack[i].type = "JOIN" => i = 1
    /\ state = "JOIN" => stack # <<>> /\ stack[1].type = "JOIN"

\* A message is sent at most once and retransmitted at most Retransmissions
\* times (-r, "Maximum number of UDP retransmissions"), counting what is still
\* allowed to it.  A JOIN is charged when it expires, in JOIN, and sent again
\* from OPEN, so one that waits in OPEN has an attempt in hand.
RetransmissionBudget ==
    \A i \in DOMAIN stack :
        LET e == stack[i]
        IN  /\ e.tries + e.left <= 1 + Retransmissions
            /\ e.type = "JOIN" /\ state = "OPEN" /\ e.left > 0
                 => e.tries + e.left <= Retransmissions

\* What a pass of the loop leaves to the next: no input but a CONFIRM that no
\* edge took, and that never in OPEN; no output but the BYE of a signal.
NothingLeftOver ==
    pc = "poll" =>
        /\ input.type \in {"NONE", "CONFIRM"}
        /\ In("CONFIRM") => state # "OPEN"
        /\ output.type \in {"NONE", "BYE"}

\* The answers that may retire a queued message: its CONFIRM in OPEN, its REPLY
\* in AUTH, and for a JOIN any REPLY in JOIN.
Answered(e) ==
    \/ state = "OPEN" /\ In("CONFIRM") /\ ByteSwap(input.id) = e.id
    \/ state = "AUTH" /\ In("REPLY") /\ input.ref = e.id
    \/ state = "JOIN" /\ In("REPLY") /\ e.type = "JOIN"

SameMessage(e, f) == e.type = f.type /\ e.id = f.id /\ e.arg = f.arg

\* A queued message that was not answered and has retransmissions left is never
\* dropped, overwritten or overtaken, whatever the loop does to its neighbours.
RetiredOnlyByAnswer ==
    [][\A i \in DOMAIN stack :
          HasRetransmissions(stack[i]) /\ ~Answered(stack[i]) =>
            \E j \in DOMAIN stack' : j <= i /\ SameMessage(stack'[j], stack[i])]_vars

\* The session opens only on a positive REPLY to the AUTH that is waiting, and
\* opens with an empty queue.
SessionOpensOnReply ==
    [][state \notin {"OPEN", "JOIN"} /\ state' \in {"OPEN", "JOIN"} =>
          /\ state = "AUTH" /\ In("REPLY") /\ input.ok
          /\ \E i \in DOMAIN stack : stack[i].type = "AUTH" /\ stack[i].id = input.ref
          /\ stack' = <<>>]_vars

\* In OPEN and JOIN, the pass that looks at a MSG or PING confirms it under the
\* ID it came with, whatever the user typed and whatever expired meanwhile; only
\* a /join typed into an empty queue goes first.
ConfirmedPromptly ==
    [][/\ pc = "fsm" /\ pc' = "poll"
       /\ state \in {"OPEN", "JOIN"}
       /\ input.type \in {"MSG", "PING"}
       /\ ~(state = "OPEN" /\ stack = <<>> /\ Out("JOIN"))
       => Datagram("CONFIRM", input.id, NoArg) \in sent']_vars

\* Every command the automaton sends repeats a message that waits in the queue,
\* under the ID it was first sent with, unless that ID is the "no ID" value.
RetransmitsPending ==
    [][pc = "fsm" =>
         \A d \in sent' : d.type \in Commands =>
           \E i \in DOMAIN stack : /\ stack[i].type = d.type
                                   /\ stack[i].id \in {d.id, Sentinel}]_vars

\* A BYE of exit() that the automaton finds without an input ends the session in
\* every state, unless a timeout is due first or a JOIN waits in OPEN to be sent
\* again: nothing else can keep the client running after its farewell.
LoneByeEnds ==
    [][/\ pc = "fsm" /\ pc' # "fsm"
       /\ Out("BYE") /\ In("NONE")
       /\ \A i \in DOMAIN stack :
            /\ HasRetransmissions(stack[i]) /\ ~IsExpired(stack[i])
            /\ state = "OPEN" => stack[i].type # "JOIN"
       => state' = "END"]_vars

\* If the user, the network and signals fall silent, every queued message is
\* eventually given up, unless the client stops or holds a CONFIRM that no edge
\* took, which blocks every timeout.
QueueDrains ==
    <>[][Loop \/ Tick]_vars =>
        <>[](stack = <<>> \/ pc = "stopped" \/ In("CONFIRM"))

\* What UDPClient shows of a session.
Request ==
    IF stack # <<>> /\ state # "END" /\ stack[1].type # "MSG" THEN stack[1].type
    ELSE "none"
Running == pc # "stopped"

Session == INSTANCE ChatSession WITH phase <- state, request <- Request, running <- Running

\* The UDP client is a chat session: it asks one thing at a time, opens only on
\* the answer to what is asked, and once it stopped, or is in END, stays there.
SessionImplemented == Session!Spec

(***************************************************************************)
(* What the documentation says of the program                              *)
(***************************************************************************)

\* "/auth ... Sends AUTH message ... (and correctly handles the Reply message)":
\* a positive REPLY to the waiting AUTH opens the session.
AuthReplyHandled ==
    [][/\ pc = "fsm" /\ pc' = "poll" /\ state = "AUTH"
       /\ In("REPLY") /\ input.ok
       /\ WithId(ByteSwap(input.ref)) # {}
       => state' = "OPEN"]_vars

\* "/join ... Sends JOIN message ... (and correctly handles the Reply message)":
\* a REPLY to the waiting JOIN ends the wait.
JoinReplyHandled ==
    [][/\ pc = "fsm" /\ pc' = "poll" /\ state = "JOIN"
       /\ In("REPLY")
       /\ ByteSwap(input.ref) = stack[1].id
       => state' = "OPEN"]_vars

\* "Sends AUTH message with the data provided from the command": what is sent
\* for a command carries the arguments given with it.
CommandDataSent ==
    [][pc = "fsm" =>
         \A d \in sent' : d.type \in Commands =>
           \E i \in DOMAIN stack : stack[i].type = d.type /\ stack[i].arg = d.arg]_vars

\* "it is uncertain whether the message arrives or not.  Such inconveniences are
\* resolved within application with retransmissions": a MSG sent in OPEN is
\* queued for retransmission.
SentMsgQueued ==
    [][/\ pc = "fsm" /\ pc' = "poll" /\ state = "OPEN" /\ Out("MSG")
       => \E i \in DOMAIN stack' : stack'[i].type = "MSG" /\ stack'[i].id = output.id]_vars

=============================================================================

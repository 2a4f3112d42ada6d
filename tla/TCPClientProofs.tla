--------------------------- MODULE TCPClientProofs ---------------------------
(***************************************************************************)
(* Theorems about TCPClient.  Its state space is finite and TLC visits all *)
(* of it; the proofs say why the invariants hold: which edges lead to a    *)
(* state, and what each of them needs.                                     *)
(***************************************************************************)
EXTENDS TCPClient, WellFoundedInduction, TLAPS

-----------------------------------------------------------------------------
(* The table of edges *)

\* A taken edge is one of the state's, its lambda returned true, and the
\* messages are cleared.
LEMMA EdgeTaken ==
    ASSUME NEW rule, TakeEdge(rule)
    PROVE  /\ pc = "fsm"
           /\ \E i \in DOMAIN Edges[state] :
                /\ Edges[state][i][1] = rule
                /\ Fires(i)
                /\ state' = Edges[state][i][2]
                /\ pc' = AfterPass(state')
           /\ Accepts(rule)
           /\ input' = NoInput /\ output' = "NONE"
           /\ late' = late /\ stdin' = stdin
BY DEF TakeEdge, Fires, ClearMessages

\* From where each lambda leads to where.
LEMMA EdgeFrom ==
    ASSUME NEW rule, TakeEdge(rule), state \in States
    PROVE  /\ rule = "nan_auth" => state = "START" /\ state' = "AUTH"
           /\ rule = "reply_nan" => state = "AUTH" /\ state' = "OPEN"
           /\ rule = "nreply_auth" => state = "AUTH" /\ state' = "AUTH"
           /\ rule = "msg_err" => state = "AUTH" /\ state' = "END"
           /\ rule = "nan_join" => state = "OPEN" /\ state' = "JOIN"
           /\ rule = "nan_msg" => state = "OPEN" /\ state' = "OPEN"
           /\ rule = "anyreply_err" => state = "OPEN" /\ state' = "END"
           /\ rule = "msg_nan" => state \in {"OPEN", "JOIN"} /\ state' = state
           /\ rule = "anyreply_nan" => state = "JOIN" /\ state' = "OPEN"
           /\ rule \in {"nan_bye", "errbye_nan"} => state # "END" /\ state' = "END"
<1>1. PICK i \in DOMAIN Edges[state] :
        Edges[state][i][1] = rule /\ state' = Edges[state][i][2]
  BY DEF TakeEdge
<1>2. CASE state = "START"
  BY <1>1, <1>2 DEF Edges
<1>3. CASE state = "AUTH"
  BY <1>1, <1>3 DEF Edges
<1>4. CASE state = "OPEN"
  BY <1>1, <1>4 DEF Edges
<1>5. CASE state = "JOIN"
  BY <1>1, <1>5 DEF Edges
<1>6. CASE state = "END"
  BY <1>1, <1>6 DEF Edges
<1> QED  BY <1>2, <1>3, <1>4, <1>5, <1>6 DEF States

-----------------------------------------------------------------------------
(* What a step can do *)

\* The edges as moves of the session: what each needs of the messages, and what
\* it does to the awaited response and to what was sent.
Opening ==
    /\ state = "START" /\ state' = "AUTH" /\ Out("AUTH") /\ In("NONE")
    /\ SendNothing /\ UNCHANGED <<awaitsResponse, endedBy>>
Admitted ==
    /\ state = "AUTH" /\ state' = "OPEN" /\ PositiveReply
    /\ awaitsResponse' = FALSE /\ SendNothing /\ UNCHANGED endedBy
Retried ==
    /\ state = "AUTH" /\ state' = "AUTH" /\ In("REPLY") /\ Send("AUTH")
    /\ UNCHANGED <<awaitsResponse, endedBy>>
Joining ==
    /\ state = "OPEN" /\ state' = "JOIN" /\ Out("JOIN")
    /\ awaitsResponse' = TRUE /\ SendNothing /\ UNCHANGED endedBy
Joined ==
    /\ state = "JOIN" /\ state' = "OPEN" /\ In("REPLY")
    /\ awaitsResponse' = FALSE /\ SendNothing /\ UNCHANGED endedBy
Talking ==
    /\ state \in {"OPEN", "JOIN"} /\ state' = state /\ (In("MSG") \/ Out("MSG"))
    /\ SendNothing /\ UNCHANGED <<awaitsResponse, endedBy>>
Ending ==
    /\ state # "END" /\ state' = "END" /\ awaitsResponse' = awaitsResponse
    /\ \/ /\ endedBy' = input.type /\ endedBy' \in {"ERR", "BYE", "REPLY"}
          /\ SendNothing \/ Send(output)
       \/ endedBy' = endedBy /\ SendNothing /\ Out("BYE")
       \/ endedBy' = endedBy /\ Send("ERR")

\* A step of the automaton is one of these moves, and leaves no message.
LEMMA EdgeMoves ==
    ASSUME EdgeStep, state \in States
    PROVE  /\ pc = "fsm" /\ state # "END" /\ state' \in States
           /\ pc' = IF state' = "END" THEN "last" ELSE "poll"
           /\ input' = NoInput /\ output' = "NONE"
           /\ late' = late /\ stdin' = stdin
           /\ \/ Opening \/ Admitted \/ Retried \/ Joining \/ Joined \/ Talking \/ Ending
<1>1. CASE NanAuth
  BY <1>1, EdgeTaken, EdgeFrom DEF NanAuth, Accepts, AfterPass, Opening, States
<1>2. CASE ErrByeNan
  BY <1>2, EdgeTaken, EdgeFrom DEF ErrByeNan, Accepts, In, AfterPass, Ending, States
<1>3. CASE NanBye
  BY <1>3, EdgeTaken, EdgeFrom DEF NanBye, Accepts, In, AfterPass, Ending, States
<1>4. CASE NReplyAuth
  BY <1>4, EdgeTaken, EdgeFrom DEF NReplyAuth, Accepts, AfterPass, Retried, States
<1>5. CASE ReplyNan
  BY <1>5, EdgeTaken, EdgeFrom DEF ReplyNan, Accepts, AfterPass, Admitted, States
<1>6. CASE MsgErr
  BY <1>6, EdgeTaken, EdgeFrom DEF MsgErr, Accepts, In, AfterPass, Ending, States
<1>7. CASE NanJoin
  BY <1>7, EdgeTaken, EdgeFrom DEF NanJoin, Accepts, AfterPass, Joining, States
<1>8. CASE NanMsg
  BY <1>8, EdgeTaken, EdgeFrom DEF NanMsg, Accepts, AfterPass, Talking, States
<1>9. CASE MsgNan
  BY <1>9, EdgeTaken, EdgeFrom DEF MsgNan, Accepts, AfterPass, Talking, States
<1>10. CASE AnyReplyErr
  BY <1>10, EdgeTaken, EdgeFrom DEF AnyReplyErr, Accepts, In, AfterPass, Ending, States
<1>11. CASE AnyReplyNan
  BY <1>11, EdgeTaken, EdgeFrom DEF AnyReplyNan, Accepts, AfterPass, Joined, States
<1> QED  BY <1>1, <1>2, <1>3, <1>4, <1>5, <1>6, <1>7, <1>8, <1>9, <1>10, <1>11
            DEF EdgeStep

\* No other step moves the session; an output is cleared, kept, or sent, and a
\* stopped client stays stopped.
LEMMA OtherSteps ==
    ASSUME [Next]_vars, ~EdgeStep
    PROVE  /\ state' = state /\ awaitsResponse' = awaitsResponse /\ endedBy' = endedBy
           /\ wire \subseteq wire' /\ wire' \subseteq wire \cup Commands \cup {"BYE"}
           /\ sent' \in Commands \cup {"NONE", "BYE", sent}
           /\ pc # "poll" => sent' \in {"NONE", "BYE"} \/ UNCHANGED vars
           /\ output' \in {"NONE", output} \/ output' \in wire'
           /\ pc \in {"last", "stopped"} => pc' \in {"last", "stopped"}
           /\ pc = "stopped" => pc' = "stopped"
<1> USE DEF Send, SendNothing, Exit, Commands
<1>1. CASE Loop
  BY <1>1 DEF Loop, NoCommand, ReadEofAgain, NoChunk, Timer, NoEdge, IdlePass, Leave,
              ClearMessages
<1>2. CASE User
  BY <1>2 DEF User, LocalCommand, ReadCommand, ReadEof, TypeAfterEof
<1>3. CASE Receive \/ Stall \/ SigInt \/ Dies
  BY <1>3 DEF Receive, Stall, SigInt, Dies
<1>4. CASE UNCHANGED vars
  BY <1>4 DEF vars
<1> QED  BY <1>1, <1>2, <1>3, <1>4 DEF Next, Terminated

-----------------------------------------------------------------------------
(* The invariants *)

LEMMA InitInvariants ==
    Init => TypeOK /\ AwaitsMeansJoin /\ NothingLeftOver /\ WireBacksState
<1>1. Init => TypeOK
  <2>1. NoInput \in Inputs /\ "NONE" \in Outputs
    BY DEF Inputs, Outputs
  <2> QED  BY <2>1 DEF Init, TypeOK, States
<1>2. Init => AwaitsMeansJoin
  BY DEF Init, AwaitsMeansJoin
<1>3. Init => NothingLeftOver /\ WireBacksState
  BY DEF Init, NothingLeftOver, WireBacksState, In, Out, NoInput
<1> QED  BY <1>1, <1>2, <1>3

LEMMA TypeStep == TypeOK /\ [Next]_vars => TypeOK'
<1> SUFFICES ASSUME TypeOK, [Next]_vars PROVE TypeOK'
  OBVIOUS
<1> USE DEF TypeOK
<1>1. NoInput \in Inputs /\ "NONE" \in Outputs /\ "BYE" \in Outputs
      /\ Commands \subseteq Outputs
  BY DEF Inputs, Outputs
<1>2. CASE EdgeStep
  <2>1. /\ wire' \subseteq Commands \cup {"ERR", "BYE"}
        /\ sent' \in Commands \cup {"NONE", "ERR", "BYE"}
    BY <1>2, EdgeMoves DEF Opening, Admitted, Retried, Joining, Joined, Talking, Ending,
                           Send, SendNothing, Commands, Outputs
  <2>2. awaitsResponse' \in BOOLEAN /\ endedBy' \in {"NONE", "ERR", "BYE", "REPLY"}
    BY <1>2, EdgeMoves DEF Opening, Admitted, Retried, Joining, Joined, Talking, Ending
  <2> QED  BY <1>1, <1>2, <2>1, <2>2, EdgeMoves
<1>3. CASE ~EdgeStep
  <2>1. /\ state' \in States /\ awaitsResponse' \in BOOLEAN
        /\ endedBy' \in {"NONE", "ERR", "BYE", "REPLY"}
        /\ wire' \subseteq Commands \cup {"ERR", "BYE"}
        /\ sent' \in Commands \cup {"NONE", "ERR", "BYE"}
    BY <1>3, OtherSteps
  <2> USE DEF Send, SendNothing, Exit
  <2>2. CASE Loop
    BY <1>1, <1>3, <2>1, <2>2 DEF Loop, NoCommand, ReadEofAgain, NoChunk, Timer, NoEdge,
                                  IdlePass, Leave, ClearMessages
  <2>3. CASE User
    BY <1>1, <2>1, <2>3 DEF User, LocalCommand, ReadCommand, ReadEof, TypeAfterEof
  <2>4. CASE Receive \/ Stall \/ SigInt \/ Dies
    BY <1>1, <2>1, <2>4 DEF Receive, Stall, SigInt, Dies
  <2>5. CASE UNCHANGED vars
    BY <2>5 DEF vars
  <2> QED  BY <2>2, <2>3, <2>4, <2>5 DEF Next, Terminated
<1> QED  BY <1>2, <1>3

\* Every value that a variable takes is one that the program can hold: what is
\* typed, received, substituted by exit() or left by a lambda.
THEOREM TypeCorrect == Spec => []TypeOK
BY InitInvariants, TypeStep, PTL DEF Spec

\* The timer's flag is set by the only edge into JOIN and reset by the only edge
\* out of it that does not end the session, so that it always agrees with the
\* state (TCP_fsm.cpp:100-120).
THEOREM AwaitsMeansJoinHolds == Spec => []AwaitsMeansJoin
<1>1. TypeOK /\ AwaitsMeansJoin /\ [Next]_vars => AwaitsMeansJoin'
  <2> SUFFICES ASSUME TypeOK, AwaitsMeansJoin, [Next]_vars PROVE AwaitsMeansJoin'
    OBVIOUS
  <2>1. CASE EdgeStep
    <3> USE DEF AwaitsMeansJoin
    <3>1. CASE Opening \/ Retried \/ Talking
      BY <3>1 DEF Opening, Retried, Talking
    <3>2. CASE Admitted \/ Joining \/ Joined
      BY <3>2 DEF Admitted, Joining, Joined
    <3>3. CASE Ending
      BY <3>3 DEF Ending
    <3> QED  BY <2>1, <3>1, <3>2, <3>3, EdgeMoves DEF TypeOK
  <2>2. CASE ~EdgeStep
    BY <2>2, OtherSteps DEF AwaitsMeansJoin
  <2> QED  BY <2>1, <2>2
<1> QED  BY <1>1, InitInvariants, TypeCorrect, PTL DEF Spec

\* Every way through the automaton, with an edge, without one, or past it when
\* there is nothing to look at, leaves both messages empty; only exit() puts one
\* there between two passes.
THEOREM NothingLeftOverHolds == Spec => []NothingLeftOver
<1>1. TypeOK /\ NothingLeftOver /\ [Next]_vars => NothingLeftOver'
  <2> SUFFICES ASSUME TypeOK, NothingLeftOver, [Next]_vars PROVE NothingLeftOver'
    OBVIOUS
  <2> USE DEF NothingLeftOver, In
  <2>1. NoInput.type = "NONE"
    BY DEF NoInput
  <2>2. CASE EdgeStep
    BY <2>1, <2>2, EdgeMoves DEF TypeOK
  <2>3. CASE Loop /\ ~EdgeStep
    BY <2>1, <2>3 DEF Loop, NoCommand, ReadEofAgain, NoChunk, Timer, NoEdge, IdlePass,
                      Leave, ClearMessages, Exit, FsmRuns, Out
  <2>4. CASE User
    BY <2>1, <2>4 DEF User, LocalCommand, ReadCommand, ReadEof, TypeAfterEof, Exit
  <2>5. CASE Receive \/ Stall \/ SigInt \/ Dies
    BY <2>1, <2>5 DEF Receive, Stall, SigInt, Dies, Exit
  <2>6. CASE UNCHANGED vars
    BY <2>6 DEF vars
  <2> QED  BY <2>2, <2>3, <2>4, <2>5, <2>6 DEF Next, Terminated
<1> QED  BY <1>1, InitInvariants, TypeCorrect, PTL DEF Spec

\* A message is in the output only after it was sent, and an edge into AUTH or
\* JOIN looks at the output: so the state never claims what the server was not
\* told, and END is entered after a farewell, or on what the server said last.
THEOREM WireBacksStateHolds == Spec => []WireBacksState
<1>1. TypeOK /\ WireBacksState /\ [Next]_vars => WireBacksState'
  <2> SUFFICES ASSUME TypeOK, WireBacksState, [Next]_vars PROVE WireBacksState'
    OBVIOUS
  <2>1. CASE EdgeStep
    BY <2>1, EdgeMoves DEF TypeOK, WireBacksState, Opening, Admitted, Retried, Joining,
                           Joined, Talking, Ending, Send, SendNothing, Out
  <2>2. CASE ~EdgeStep
    BY <2>2, OtherSteps DEF WireBacksState, Out
  <2> QED  BY <2>1, <2>2
<1> QED  BY <1>1, InitInvariants, TypeCorrect, PTL DEF Spec

-----------------------------------------------------------------------------
(* What a step may never do *)

\* The loop looks at no message in END, and only END has sent an ERR.
EndIsLast ==
    /\ state = "END" => pc \in {"last", "stopped"}
    /\ "ERR" \in wire => state = "END"

LEMMA EndIsLastHolds == Spec => []EndIsLast
<1>1. Init => EndIsLast
  BY DEF Init, EndIsLast
<1>2. TypeOK /\ EndIsLast /\ [Next]_vars => EndIsLast'
  <2> SUFFICES ASSUME TypeOK, EndIsLast, [Next]_vars PROVE EndIsLast'
    OBVIOUS
  <2>1. CASE EdgeStep
    BY <2>1, EdgeMoves DEF TypeOK, EndIsLast, Opening, Admitted, Retried, Joining,
                           Joined, Talking, Ending, Send, SendNothing, Outputs, Commands
  <2>2. CASE ~EdgeStep
    BY <2>2, OtherSteps DEF EndIsLast, Commands
  <2> QED  BY <2>1, <2>2
<1> QED  BY <1>1, <1>2, TypeCorrect, PTL DEF Spec

\* In END, and an ERR leads there, the automaton is never asked again and nothing
\* is read from the user: only SIGINT can still send, and it sends BYE.
THEOREM ErrIsFinalHolds == Spec => ErrIsFinal
<1>1. TypeOK /\ EndIsLast /\ EndIsLast' /\ [Next]_vars
        => [/\ state = "END" \/ "ERR" \in wire => sent' \in {"NONE", "BYE"}
            /\ "ERR" \in wire' => state' = "END"]_vars
  <2> SUFFICES ASSUME TypeOK, EndIsLast, EndIsLast', [Next]_vars, ~UNCHANGED vars
               PROVE  /\ state = "END" \/ "ERR" \in wire => sent' \in {"NONE", "BYE"}
                      /\ "ERR" \in wire' => state' = "END"
    OBVIOUS
  <2>1. CASE EdgeStep
    BY <2>1, EdgeMoves DEF TypeOK, EndIsLast
  <2>2. CASE ~EdgeStep
    BY <2>2, OtherSteps DEF EndIsLast
  <2> QED  BY <2>1, <2>2
<1> QED  BY <1>1, TypeCorrect, EndIsLastHolds, PTL DEF Spec, ErrIsFinal

\* No sequence of commands, replies and signals opens the session but a positive
\* REPLY that the automaton looks at in AUTH.
THEOREM OpensOnReplyHolds == Spec => OpensOnReply
<1>1. TypeOK /\ [Next]_vars
        => [state \notin {"OPEN", "JOIN"} /\ state' \in {"OPEN", "JOIN"}
              => state = "AUTH" /\ In("REPLY") /\ input.ok]_vars
  <2> SUFFICES ASSUME TypeOK, [Next]_vars,
                      state \notin {"OPEN", "JOIN"}, state' \in {"OPEN", "JOIN"}
               PROVE  state = "AUTH" /\ In("REPLY") /\ input.ok
    OBVIOUS
  <2>1. EdgeStep
    BY OtherSteps
  <2> QED  BY <2>1, EdgeMoves DEF TypeOK, Opening, Admitted, Retried, Joining, Joined,
                                  Talking, Ending, PositiveReply
<1> QED  BY <1>1, TypeCorrect, PTL DEF Spec, OpensOnReply

\* Every state but END has an edge for the BYE of exit(), and one for the ERR and
\* the BYE of the server.
LEMMA FarewellEdges ==
    ASSUME NEW rule \in {"nan_bye", "errbye_nan"}, state \in States, state # "END"
    PROVE  /\ \E n \in Nat : DOMAIN Edges[state] = 1 .. n
           /\ \E i \in DOMAIN Edges[state] : Edges[state][i][1] = rule
<1>1. CASE state = "START"
  <2>1. /\ DOMAIN Edges[state] = 1 .. 3
        /\ Edges[state][2][1] = "nan_bye" /\ Edges[state][3][1] = "errbye_nan"
    BY <1>1 DEF Edges
  <2>2. 2 \in 1 .. 3 /\ 3 \in 1 .. 3 /\ 3 \in Nat
    OBVIOUS
  <2> QED  BY <2>1, <2>2
<1>2. CASE state = "AUTH"
  <2>1. /\ DOMAIN Edges[state] = 1 .. 5
        /\ Edges[state][3][1] = "nan_bye" /\ Edges[state][2][1] = "errbye_nan"
    BY <1>2 DEF Edges
  <2>2. 2 \in 1 .. 5 /\ 3 \in 1 .. 5 /\ 5 \in Nat
    OBVIOUS
  <2> QED  BY <2>1, <2>2
<1>3. CASE state = "OPEN"
  <2>1. /\ DOMAIN Edges[state] = 1 .. 6
        /\ Edges[state][5][1] = "nan_bye" /\ Edges[state][4][1] = "errbye_nan"
    BY <1>3 DEF Edges
  <2>2. 4 \in 1 .. 6 /\ 5 \in 1 .. 6 /\ 6 \in Nat
    OBVIOUS
  <2> QED  BY <2>1, <2>2
<1>4. CASE state = "JOIN"
  <2>1. /\ DOMAIN Edges[state] = 1 .. 4
        /\ Edges[state][3][1] = "nan_bye" /\ Edges[state][4][1] = "errbye_nan"
    BY <1>4 DEF Edges
  <2>2. 3 \in 1 .. 4 /\ 4 \in 1 .. 4 /\ 4 \in Nat
    OBVIOUS
  <2> QED  BY <2>1, <2>2
<1> QED  BY <1>1, <1>2, <1>3, <1>4 DEF States

\* Where some lambda of the state returns true, one of them is the first.
LEMMA SomeEdgeFires ==
    ASSUME NEW n \in Nat, DOMAIN Edges[state] = 1 .. n,
           NEW k \in DOMAIN Edges[state], Accepts(Edges[state][k][1])
    PROVE  \E i \in DOMAIN Edges[state] : Fires(i)
<1> DEFINE T == {i \in DOMAIN Edges[state] : Accepts(Edges[state][i][1])}
<1>1. T \in SUBSET Nat /\ k \in T
  OBVIOUS
<1>2. PICK m \in T : \A i \in T : ~ (<<i, m>> \in OpToRel(<, Nat))
  BY <1>1, NatLessThanWellFounded, WFMin
<1>3. \A i \in T : ~ (i < m)
  BY <1>1, <1>2 DEF OpToRel
<1>4. \A j \in 1 .. m - 1 : ~Accepts(Edges[state][j][1])
  <2> SUFFICES ASSUME NEW j \in 1 .. m - 1, Accepts(Edges[state][j][1]) PROVE FALSE
    OBVIOUS
  <2>1. m \in Nat /\ j \in 1 .. m /\ j < m
    BY <1>1
  <2>2. j \in T
    BY <2>1
  <2> QED  BY <1>3, <2>1, <2>2
<1> QED  BY <1>4 DEF Fires

\* A farewell that is alone in its pass meets no edge that takes it for something
\* else, in no state, and no state lets it fall: the session ends.
THEOREM LoneFarewellEndsHolds == Spec => LoneFarewellEnds
<1>1. TypeOK /\ EndIsLast /\ [Next]_vars
        => [/\ pc = "fsm" /\ pc' \notin {"fsm", "stopped"}
            /\ \/ Out("BYE") /\ In("NONE")
               \/ Out("NONE") /\ (In("ERR") \/ In("BYE"))
            => state' = "END"]_vars
  <2> SUFFICES ASSUME TypeOK, EndIsLast, [Next]_vars,
                      pc = "fsm", pc' \notin {"fsm", "stopped"},
                      \/ Out("BYE") /\ In("NONE")
                      \/ Out("NONE") /\ (In("ERR") \/ In("BYE"))
               PROVE  state' = "END"
    OBVIOUS
  <2>1. state \in States /\ state # "END"
    BY DEF TypeOK, EndIsLast
  <2>2. PICK rule \in {"nan_bye", "errbye_nan"} : Accepts(rule)
    BY DEF Accepts
  <2>3. \E i \in DOMAIN Edges[state] : Fires(i)
    <3>1. PICK n \in Nat : DOMAIN Edges[state] = 1 .. n
      BY <2>1, FarewellEdges
    <3>2. PICK k \in DOMAIN Edges[state] : Edges[state][k][1] = rule
      BY <2>1, FarewellEdges
    <3>3. Accepts(Edges[state][k][1])
      BY <2>2, <3>2
    <3> QED  BY <3>1, <3>3, SomeEdgeFires
  <2>4. FsmRuns
    BY DEF FsmRuns, In, Out
  <2>5. EdgeStep
    BY <2>3, <2>4 DEF Next, Loop, User, NoCommand, ReadEofAgain, NoChunk, Timer, NoEdge,
                      IdlePass, Leave, LocalCommand, ReadCommand, ReadEof, TypeAfterEof,
                      Receive, Stall, SigInt, Dies, Terminated, vars
  <2> QED  BY <2>1, <2>5, EdgeMoves DEF Opening, Admitted, Retried, Joining, Joined,
                                        Talking, Ending, PositiveReply, In, Out
<1> QED  BY <1>1, TypeCorrect, EndIsLastHolds, PTL DEF Spec, LoneFarewellEnds

-----------------------------------------------------------------------------
(* The refinement *)

\* The TCP client keeps what a chat session promises: the moves of its automaton
\* are those of ChatSession, and nothing else moves it but the end of the loop.
THEOREM SessionImplementedHolds == Spec => SessionImplemented
<1>1. Init => Session!Init
  BY DEF Init, Session!Init, Request, Running
<1>2. TypeOK /\ AwaitsMeansJoin /\ [Next]_vars => [Session!Next]_(Session!session)
  <2> SUFFICES ASSUME TypeOK, AwaitsMeansJoin, [Next]_vars
               PROVE  [Session!Next]_(Session!session)
    OBVIOUS
  <2> USE DEF AwaitsMeansJoin, Request, Session!Next
  <2>1. CASE EdgeStep
    <3>1. state \in States /\ Running /\ (state' # "END" => Running')
      BY <2>1, EdgeMoves DEF TypeOK, Running
    <3>2. CASE Opening
      BY <3>1, <3>2 DEF Opening, Session!Ask
    <3>3. CASE Admitted
      BY <3>1, <3>3 DEF Admitted, Session!Answer
    <3>4. CASE Joining
      BY <3>1, <3>4 DEF Joining, Session!Ask
    <3>5. CASE Joined
      BY <3>1, <3>5 DEF Joined, Session!Answer
    <3>6. CASE Ending
      BY <3>1, <3>6 DEF Ending, Session!Leave, Running
    <3>7. CASE Retried \/ Talking
      BY <3>1, <3>7 DEF Retried, Talking, Session!session, Running
    <3> QED  BY <2>1, <3>1, <3>2, <3>3, <3>4, <3>5, <3>6, <3>7, EdgeMoves
  <2>2. CASE ~EdgeStep
    BY <2>2, OtherSteps DEF Session!Stop, Session!session, Running
  <2> QED  BY <2>1, <2>2
<1> QED  BY <1>1, <1>2, TypeCorrect, AwaitsMeansJoinHolds, PTL
         DEF Spec, SessionImplemented, Session!Spec

==============================================================================

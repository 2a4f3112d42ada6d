---------------------------- MODULE ChatSession ----------------------------
(***************************************************************************)
(* What both variants of the client promise about a session, whatever the  *)
(* transport loses, repeats or delays: the states of the automaton, at     *)
(* most one request (AUTH or JOIN) waiting for its answer, and whether the *)
(* client still runs.  UDPClient and TCPClient implement this module.      *)
(***************************************************************************)

VARIABLES
    phase,    \* the state of the automaton
    request,  \* the request that waits for an answer, or "none"
    running   \* the client has not left its loop

session == <<phase, request, running>>

Init == phase = "START" /\ request = "none" /\ running = TRUE

\* The user asks to be authenticated, or to join a channel.
Ask ==
    /\ running /\ request = "none"
    /\ \/ phase \in {"START", "AUTH"} /\ phase' = "AUTH"
       \/ phase = "OPEN" /\ phase' = "JOIN"
    /\ request' = phase'
    /\ UNCHANGED running

\* Only an answer to what was asked opens the session, or opens it again.
Answer ==
    /\ running /\ request = phase
    /\ phase' = "OPEN"
    /\ request' = "none"
    /\ UNCHANGED running

\* The request is refused, confirmed without an answer, or its retransmissions
\* are used up.  In JOIN, nothing but the answer or the end takes it away.
GiveUp ==
    /\ running /\ request # "none" /\ phase \in {"AUTH", "OPEN"}
    /\ request' = "none"
    /\ UNCHANGED <<phase, running>>

\* A JOIN that is late leaves the session open until it is sent again.
Suspend ==
    /\ running /\ phase = "JOIN"
    /\ phase' = "OPEN"
    /\ UNCHANGED <<request, running>>

Resume ==
    /\ running /\ phase = "OPEN" /\ request = "JOIN"
    /\ phase' = "JOIN"
    /\ UNCHANGED <<request, running>>

\* A farewell or an error ends the session; the loop stops with it or later.
Leave ==
    /\ running /\ phase # "END"
    /\ phase' = "END"
    /\ request' = "none"
    /\ running' \in BOOLEAN

Stop == running /\ running' = FALSE /\ UNCHANGED <<phase, request>>

Next == Ask \/ Answer \/ GiveUp \/ Suspend \/ Resume \/ Leave \/ Stop

Spec == Init /\ [][Next]_session

=============================================================================

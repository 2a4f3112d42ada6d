--------------------------- MODULE UDPClientProofs ---------------------------
(***************************************************************************)
(* Theorems about UDPClient, for every size of the byte, every retry       *)
(* budget, timeout, queue bound and set of arguments and server IDs: its   *)
(* types, its queue, its action properties, and that it implements         *)
(* ChatSession.                                                            *)
(***************************************************************************)
EXTENDS UDPClient, FiniteSetTheorems, WellFoundedInduction, TLAPS

-----------------------------------------------------------------------------
(* Message IDs *)

\* There are at least four IDs; the counter, and the ID a message is encoded
\* with, stay among them.
LEMMA IdFacts ==
    /\ IdSpace \in Nat /\ IdSpace >= 4
    /\ Sentinel \in Ids
    /\ 0 \in Ids
    /\ \A n \in Int : n % IdSpace \in Ids
<1>1. IdSpace \in Nat /\ IdSpace >= 4
  <2>1. ByteBase \in Nat /\ ByteBase >= 2
    BY ByteBaseAssumption
  <2>2. \A b \in Nat : b >= 2 => b * b \in Nat /\ b * b >= 4
    OBVIOUS
  <2> QED  BY <2>1, <2>2 DEF IdSpace
<1>2. \A n \in Int : n % IdSpace \in 0 .. IdSpace - 1
  BY <1>1
<1> QED  BY <1>1, <1>2 DEF Ids, Sentinel

-----------------------------------------------------------------------------
(* Erasing from the queue *)

\* A non-empty set of numbers has a least element.
LEMMA LeastNat ==
    ASSUME NEW T \in SUBSET Nat, T # {}
    PROVE  \E m \in T : \A n \in T : m <= n
<1>1. PICK m \in T : \A n \in T : ~ (<<n, m>> \in OpToRel(<, Nat))
  BY NatLessThanWellFounded, WFMin
<1>2. \A n \in T : ~ (n < m)
  BY <1>1 DEF OpToRel
<1> QED  BY <1>2

\* find_if: First picks the least position.
LEMMA FirstFacts ==
    ASSUME NEW S \in SUBSET Nat, S # {}
    PROVE  First(S) \in S /\ \A j \in S : First(S) <= j
BY LeastNat DEF First

\* Counting the elements of K up to m, one number at a time.
LEMMA CountUpTo ==
    ASSUME NEW n \in Nat, NEW K, \A x \in K : x \in 1 .. n, NEW m \in Nat
    PROVE  /\ IsFiniteSet({j \in K : j <= m})
           /\ Cardinality({j \in K : j <= m}) \in Nat
           /\ Cardinality({j \in K : j <= m}) <= m
           /\ Cardinality({j \in K : j <= m}) <= Cardinality(K)
           /\ m > 0 => Cardinality({j \in K : j <= m}) =
                         IF m \in K THEN Cardinality({j \in K : j <= m - 1}) + 1
                         ELSE Cardinality({j \in K : j <= m - 1})
<1> DEFINE C(i) == {j \in K : j <= i}
<1>0. \A x \in K : x \in Nat /\ x > 0 /\ x <= n
  OBVIOUS
<1>1. IsFiniteSet(K)
  <2>1. K \in SUBSET (1 .. n)
    OBVIOUS
  <2>2. IsFiniteSet(1 .. n)
    BY FS_Interval, 1 \in Int, n \in Int
  <2> QED  BY <2>1, <2>2, FS_Subset
<1>2. \A i \in Nat : IsFiniteSet(C(i)) /\ Cardinality(C(i)) \in Nat
                       /\ Cardinality(C(i)) <= Cardinality(K)
  <2> SUFFICES ASSUME NEW i \in Nat
               PROVE  IsFiniteSet(C(i)) /\ Cardinality(C(i)) \in Nat
                        /\ Cardinality(C(i)) <= Cardinality(K)
    OBVIOUS
  <2>1. C(i) \in SUBSET K
    OBVIOUS
  <2>2. IsFiniteSet(C(i)) /\ Cardinality(C(i)) <= Cardinality(K)
    BY <1>1, <2>1, FS_Subset
  <2> QED  BY <2>2, FS_CardinalityType
<1>3. Cardinality(C(m)) <= m
  <2>1. C(m) \in SUBSET (1 .. m)
    BY <1>0
  <2>2. IsFiniteSet(1 .. m) /\ Cardinality(1 .. m) = m
    BY FS_Interval, 1 \in Int, m \in Int
  <2> QED  BY <2>1, <2>2, FS_Subset
<1>4. ASSUME m > 0
      PROVE  Cardinality(C(m)) = IF m \in K THEN Cardinality(C(m - 1)) + 1
                                 ELSE Cardinality(C(m - 1))
  <2>1. CASE m \in K
    <3>1. C(m) = C(m - 1) \cup {m} /\ m \notin C(m - 1)
      <4>1. \A x \in K : x <= m <=> x <= m - 1 \/ x = m
        BY <1>0
      <4>2. ~ (m <= m - 1)
        OBVIOUS
      <4> QED  BY <2>1, <4>1, <4>2
    <3>2. IsFiniteSet(C(m - 1))
      <4>1. m - 1 \in Nat
        BY <1>4
      <4> QED  BY <1>2, <4>1
    <3> HIDE DEF C
    <3> QED  BY <2>1, <3>1, <3>2, FS_AddElement
  <2>2. CASE m \notin K
    <3>1. C(m) = C(m - 1)
      <4>1. \A x \in K : x <= m <=> x <= m - 1
        BY <1>0, <1>4, <2>2
      <4> QED  BY <4>1
    <3> QED  BY <2>2, <3>1
  <2> QED  BY <2>1, <2>2
<1> QED  BY <1>2, <1>3, <1>4

\* Nth(K, k) is the k-th element of K, and no smaller than k.
LEMMA NthFacts ==
    ASSUME NEW n \in Nat, NEW K, \A x \in K : x \in 1 .. n, NEW k \in 1 .. Cardinality(K)
    PROVE  /\ Nth(K, k) \in K
           /\ Cardinality({j \in K : j <= Nth(K, k)}) = k
           /\ k <= Nth(K, k)
<1> DEFINE C(i) == Cardinality({j \in K : j <= i})
           T == {m \in Nat : C(m) >= k}
<1>0. \A x \in K : x \in Nat /\ x > 0 /\ x <= n
  OBVIOUS
<1>1. C(n) = Cardinality(K) /\ C(n) \in Nat
  <2>1. {j \in K : j <= n} = K
    BY <1>0
  <2> QED  BY <2>1, CountUpTo
<1>2. T # {}
  <2>1. n \in T
    BY <1>1
  <2> QED  BY <2>1
<1>3. PICK m \in T : \A i \in T : m <= i
  BY <1>2, LeastNat
<1>4. C(0) = 0
  <2>1. {j \in K : j <= 0} = {}
    BY <1>0
  <2> QED  BY <2>1, FS_EmptySet
<1>5. m \in Nat /\ C(m) >= k
  OBVIOUS
<1>6. m > 0
  BY <1>4, <1>5
<1>7. m - 1 \in Nat /\ C(m - 1) \in Nat /\ C(m) \in Nat /\ C(m - 1) < k
  <2>1. m - 1 \in Nat
    BY <1>5, <1>6
  <2>2. C(m - 1) \in Nat /\ C(m) \in Nat
    BY <1>5, <2>1, CountUpTo
  <2>3. m - 1 \notin T
    BY <1>3, <1>5
  <2> QED  BY <2>1, <2>2, <2>3
<1>8. C(m) = IF m \in K THEN C(m - 1) + 1 ELSE C(m - 1)
  BY <1>5, <1>6, CountUpTo
<1>9. m \in K /\ C(m) = k
  BY <1>5, <1>7, <1>8
<1>10. Nth(K, k) \in K /\ C(Nth(K, k)) = k
  BY <1>9 DEF Nth
<1>11. k <= Nth(K, k)
  <2>1. Nth(K, k) \in Nat
    BY <1>0, <1>10
  <2>2. C(Nth(K, k)) <= Nth(K, k)
    BY <2>1, CountUpTo
  <2> QED  BY <1>10, <2>2
<1> QED  BY <1>10, <1>11

\* Every element of K is the k-th for the number k of elements up to it.
LEMMA NthOnto ==
    ASSUME NEW n \in Nat, NEW K, \A x \in K : x \in 1 .. n, NEW i \in K
    PROVE  \E k \in 1 .. Cardinality(K) : k <= i /\ Nth(K, k) = i
<1> DEFINE C(m) == Cardinality({j \in K : j <= m})
<1>0. \A x \in K : x \in Nat /\ x > 0 /\ x <= n
  OBVIOUS
<1>1. IsFiniteSet(K)
  <2>1. K \in SUBSET (1 .. n)
    OBVIOUS
  <2>2. IsFiniteSet(1 .. n)
    BY FS_Interval, 1 \in Int, n \in Int
  <2> QED  BY <2>1, <2>2, FS_Subset
<1>2. i \in Nat /\ i > 0 /\ i - 1 \in Nat
  BY <1>0
<1>3. C(i) \in 1 .. Cardinality(K) /\ C(i) <= i
  <2>1. C(i - 1) \in Nat /\ C(i) \in Nat /\ C(i) <= Cardinality(K) /\ C(i) <= i
    BY <1>2, CountUpTo
  <2>2. C(i) = C(i - 1) + 1
    BY <1>2, CountUpTo
  <2>3. Cardinality(K) \in Nat
    BY <1>1, FS_CardinalityType
  <2> QED  BY <2>1, <2>2, <2>3
<1>4. Nth(K, C(i)) \in K /\ C(Nth(K, C(i))) = C(i)
  BY <1>3, NthFacts
<1>5. ASSUME NEW a \in K, NEW b \in K, a < b
      PROVE  C(a) < C(b)
  <2>1. a \in Nat /\ b \in Nat /\ b > 0 /\ b - 1 \in Nat /\ a <= b - 1
    BY <1>0, <1>5
  <2>2. C(b) = C(b - 1) + 1 /\ C(b - 1) \in Nat /\ C(a) \in Nat
    BY <1>5, <2>1, CountUpTo
  <2>3. C(a) <= C(b - 1)
    <3>1. {j \in K : j <= a} \in SUBSET {j \in K : j <= b - 1}
      <4>1. \A j \in K : j <= a => j <= b - 1
        BY <1>0, <2>1
      <4> QED  BY <4>1
    <3>2. IsFiniteSet({j \in K : j <= b - 1})
      BY <2>1, CountUpTo
    <3> QED  BY <3>1, <3>2, FS_Subset
  <2> QED  BY <2>2, <2>3
<1>6. Nth(K, C(i)) = i
  <2>1. C(i) \in Nat
    BY <1>3
  <2>2. ~ (Nth(K, C(i)) < i) /\ ~ (i < Nth(K, C(i)))
    <3>1. ~ (C(i) < C(i))
      BY <2>1
    <3> HIDE DEF C
    <3> QED  BY <1>4, <1>5, <3>1
  <2>3. Nth(K, C(i)) \in Nat /\ i \in Nat
    BY <1>0, <1>2, <1>4
  <2> HIDE DEF C
  <2> QED  BY <2>2, <2>3
<1> QED  BY <1>3, <1>6

\* erase_if keeps exactly the elements outside S, never moves one to a later
\* position, and makes no new ones.
LEMMA EraseAtFacts ==
    ASSUME NEW T, NEW s \in Seq(T), NEW S
    PROVE  /\ EraseAt(s, S) \in Seq(T)
           /\ \A k \in DOMAIN EraseAt(s, S) :
                 \E i \in DOMAIN s \ S : k <= i /\ EraseAt(s, S)[k] = s[i]
           /\ \A i \in DOMAIN s \ S :
                 \E k \in DOMAIN EraseAt(s, S) : k <= i /\ EraseAt(s, S)[k] = s[i]
<1> DEFINE keep == DOMAIN s \ S
           r == EraseAt(s, S)
<1>1. Len(s) \in Nat /\ DOMAIN s = 1 .. Len(s) /\ \A x \in keep : x \in 1 .. Len(s)
  OBVIOUS
<1>2. IsFiniteSet(keep) /\ Cardinality(keep) \in Nat
  <2>1. IsFiniteSet(1 .. Len(s))
    BY <1>1, FS_Interval, 1 \in Int, Len(s) \in Int
  <2>2. keep \in SUBSET (1 .. Len(s))
    BY <1>1
  <2> QED  BY <2>1, <2>2, FS_Subset, FS_CardinalityType
<1>3. r = [k \in 1 .. Cardinality(keep) |-> s[Nth(keep, k)]]
  BY DEF EraseAt
<1>4. ASSUME NEW k \in 1 .. Cardinality(keep)
      PROVE  Nth(keep, k) \in keep /\ k <= Nth(keep, k)
  BY <1>1, NthFacts
<1>5. \A i \in keep : \E k \in 1 .. Cardinality(keep) : k <= i /\ Nth(keep, k) = i
  BY <1>1, NthOnto
<1>6. \A i \in keep : s[i] \in T
  BY <1>1
<1> HIDE DEF keep, r
<1>7. r \in Seq(T)
  <2>1. \A k \in 1 .. Cardinality(keep) : s[Nth(keep, k)] \in T
    BY <1>4, <1>6
  <2> QED  BY <1>2, <1>3, <2>1
<1>8. DOMAIN r = 1 .. Cardinality(keep)
  BY <1>3
<1>9. \A k \in DOMAIN r : \E i \in keep : k <= i /\ r[k] = s[i]
  BY <1>3, <1>4, <1>8
<1>10. \A i \in keep : \E k \in DOMAIN r : k <= i /\ r[k] = s[i]
  BY <1>3, <1>5, <1>8
<1> QED  BY <1>7, <1>9, <1>10 DEF keep, r

-----------------------------------------------------------------------------
(* Type correctness *)

\* Encoding and sending a message keeps the counter a message ID.
LEMMA SendType ==
    ASSUME TypeOK,
           NEW type \in Commands \cup {"CONFIRM", "ERR", "BYE"}, NEW id \in Ids,
           Send(type, id)
    PROVE  nextID' \in Ids /\ bound' \in BOOLEAN /\ sent' \in SUBSET Datagrams
<1>1. nextID' \in Ids
  <2>1. nextID \in Int
    BY IdFacts DEF TypeOK, Ids
  <2>2. (nextID + 1) % IdSpace \in Ids
    BY <2>1, IdFacts
  <2> QED  BY <2>2 DEF Send, NextIdAfter, TypeOK
<1>2. EncodedId(id) \in Ids
  BY DEF EncodedId, TypeOK
<1>3. CurrentArg(config, type) \in Args \cup {DefaultArg, NoArg}
  BY DEF CurrentArg, TypeOK
<1> QED  BY <1>1, <1>2, <1>3 DEF Send, Datagram, Datagrams

\* Whatever the input is, its IDs are IDs.
LEMMA InputFacts ==
    ASSUME NEW m \in Inputs
    PROVE  m.id \in Ids /\ m.ref \in Ids /\ m.ok \in BOOLEAN
<1>1. CASE m \in [type : {"CONFIRM"}, id : Ids, ref : {0}, ok : {FALSE}]
  BY <1>1, IdFacts
<1>2. CASE m \in [type : {"REPLY"}, id : ServerIds, ref : Ids, ok : BOOLEAN]
  BY <1>2, ServerIdsAssumption
<1>3. CASE m \in [type : ServerTypes \ {"CONFIRM", "REPLY"}, id : ServerIds,
                  ref : {0}, ok : {FALSE}]
  BY <1>3, IdFacts, ServerIdsAssumption
<1>4. CASE m = [type |-> "ERR", id |-> Sentinel, ref |-> 0, ok |-> FALSE]
  BY <1>4, IdFacts
<1>5. CASE m = NoInput
  BY <1>5, IdFacts DEF NoInput
<1> QED  BY <1>1, <1>2, <1>3, <1>4, <1>5 DEF Inputs, ServerMessages

\* So does the CONFIRM of the input.
LEMMA SendConfirmType ==
    ASSUME TypeOK, SendConfirm
    PROVE  nextID' \in Ids /\ bound' \in BOOLEAN /\ sent' \in SUBSET Datagrams
<1>1. input.id \in Ids
  BY InputFacts DEF TypeOK
<1>2. nextID' \in Ids
  <2>1. nextID \in Int
    BY IdFacts DEF TypeOK, Ids
  <2>2. (nextID + 1) % IdSpace \in Ids
    BY <2>1, IdFacts
  <2> QED  BY <2>2 DEF SendConfirm, NextIdAfter, TypeOK
<1> QED  BY <1>1, <1>2 DEF SendConfirm, Datagram, Datagrams

\* And sending nothing.
LEMMA SendNothingType ==
    ASSUME TypeOK, SendNothing
    PROVE  nextID' \in Ids /\ bound' \in BOOLEAN /\ sent' \in SUBSET Datagrams
BY DEF TypeOK, SendNothing

\* Every target of an edge is a state.
LEMMA EdgeTargets ==
    \A s \in States : \A i \in DOMAIN Edges[s] : Edges[s][i][2] \in States
<1>1. \A i \in DOMAIN Edges["START"] : Edges["START"][i][2] \in States
  BY DEF Edges, States
<1>2. \A i \in DOMAIN Edges["AUTH"] : Edges["AUTH"][i][2] \in States
  BY DEF Edges, States
<1>3. \A i \in DOMAIN Edges["OPEN"] : Edges["OPEN"][i][2] \in States
  BY DEF Edges, States
<1>4. \A i \in DOMAIN Edges["JOIN"] : Edges["JOIN"][i][2] \in States
  BY DEF Edges, States
<1>5. \A i \in DOMAIN Edges["END"] : Edges["END"][i][2] \in States
  BY DEF Edges, States
<1> QED  BY <1>1, <1>2, <1>3, <1>4, <1>5 DEF States

\* Taking an edge keeps everything but the queue and the encoder typed.
LEMMA TakeEdgeType ==
    ASSUME TypeOK, NEW rule, TakeEdge(rule)
    PROVE  /\ pc' \in {"poll", "socket", "fsm", "stopped"}
           /\ state' \in States
           /\ input' \in Inputs
           /\ output' \in Outputs
           /\ config' \in [{"AUTH", "JOIN"} -> Args \cup {DefaultArg}]
           /\ eof' \in BOOLEAN
<1>1. state' \in States
  BY EdgeTargets DEF TakeEdge, TypeOK
<1>2. pc' \in {"poll", "socket", "fsm", "stopped"}
  BY DEF TakeEdge
<1> QED  BY <1>1, <1>2 DEF TakeEdge, ClearMessages, TypeOK, Inputs, Outputs

\* What the queue holds after one of its elements changed.
LEMMA NewElementType ==
    ASSUME TypeOK, output.type \in Commands
    PROVE  NewElement(output) \in Element
<1>1. output.id \in Ids
  BY DEF TypeOK, Outputs, NoOutput, Bye, Commands
<1>2. CurrentArg(config, output.type) \in Args \cup {DefaultArg, NoArg}
  BY DEF CurrentArg, TypeOK
<1> QED  BY <1>1, <1>2, RetransmissionsAssumption, TimeoutAssumption
         DEF NewElement, Element

LEMMA DecrementType ==
    ASSUME NEW e \in Element
    PROVE  /\ Decrement(e) \in Element
           /\ [Decrement(e) EXCEPT !.tries = e.tries + 1] \in Element
<1>1. /\ e.left \in 0 .. Retransmissions
      /\ e.tries \in Nat
  BY DEF Element
<1>2. (IF e.left > 0 THEN e.left - 1 ELSE 0) \in 0 .. Retransmissions
  BY <1>1, RetransmissionsAssumption
<1>3. 0 \in 0 .. Timeout
  BY TimeoutAssumption
<1>4. Decrement(e) \in Element
  BY <1>2, <1>3 DEF Decrement, Element
<1>5. e.tries + 1 \in Nat
  BY <1>1
<1> QED  BY <1>4, <1>5 DEF Element

\* Putting a typed element in place of another keeps the queue a queue.
LEMMA ReplaceType ==
    ASSUME NEW s \in Seq(Element), NEW i \in DOMAIN s, NEW e \in Element
    PROVE  [s EXCEPT ![i] = e] \in Seq(Element)
OBVIOUS

\* The positions the lambdas look for are positions of the queue.
LEMMA FoundIsPosition ==
    ASSUME TypeOK, NEW S \in SUBSET DOMAIN stack, S # {}
    PROVE  First(S) \in S /\ First(S) \in DOMAIN stack /\ stack[First(S)] \in Element
<1>1. S \in SUBSET Nat
  BY DEF TypeOK
<1>2. First(S) \in S
  BY <1>1, FirstFacts
<1> QED  BY <1>2 DEF TypeOK

-----------------------------------------------------------------------------
(* The edges *)

\* The edge a lambda belongs to: from which states it can be taken, and where
\* it leads.  No edge leaves END.
LEMMA EdgeTaken ==
    ASSUME TypeOK, NEW rule, TakeEdge(rule)
    PROVE  /\ Accepts(rule)
           /\ \/ /\ state = "START"
                 /\ \/ rule = "empty_auth_nan_auth_no" /\ state' = "AUTH"
                    \/ rule \in {"none_none_nan_bye_no", "none_none_errbye_nan_no"}
                         /\ state' = "END"
              \/ /\ state = "AUTH"
                 /\ \/ rule = "auth_empty_reply_confirm_no" /\ state' = "OPEN"
                    \/ rule \in {"none_none_errbye_nan_no", "none_none_nan_bye_no",
                                 "none_none_msg_err_no"} /\ state' = "END"
                    \/ rule \in {"authzero_none_nan_nan_no",
                                 "auth_authminus_nan_authminus_yes",
                                 "auth_none_nreply_nan_no", "empty_auth_nan_auth_no"}
                         /\ state' = "AUTH"
              \/ /\ state = "OPEN"
                 /\ \/ rule \in {"empty_join_nan_join_no", "join_join_nan_join_no"}
                         /\ state' = "JOIN"
                    \/ rule \in {"msgjoinzero_none_nan_nan_no",
                                 "msg_msgminus_nan_msgminus_yes",
                                 "none_none_msg_confirm_no", "none_none_ping_confirm_no",
                                 "none_msg_nan_msg_no", "msg_none_confirm_nan_no"}
                         /\ state' = "OPEN"
                    \/ rule \in {"none_none_errbye_nan_no", "none_none_nan_bye_no",
                                 "none_none_anyreply_err_no"} /\ state' = "END"
              \/ /\ state = "JOIN"
                 /\ \/ rule \in {"none_none_msg_confirm_no", "none_none_ping_confirm_no",
                                 "join_join_confirm_nan_no"} /\ state' = "JOIN"
                    \/ rule \in {"join_joinminus_nan_nan_yes",
                                 "join_none_reply_confirm_no"} /\ state' = "OPEN"
                    \/ rule \in {"none_none_nan_bye_no", "none_none_errbye_nan_no"}
                         /\ state' = "END"
<1>1. PICK i \in DOMAIN Edges[state] :
        /\ Edges[state][i][1] = rule
        /\ Accepts(Edges[state][i][1])
        /\ state' = Edges[state][i][2]
  BY DEF TakeEdge, Fires
<1>2. Accepts(rule)
  BY <1>1
<1>3. CASE state = "START"
  <2>1. i \in 1 .. 3
    BY <1>1, <1>3 DEF Edges
  <2> QED  BY <1>1, <1>2, <1>3, <2>1 DEF Edges
<1>4. CASE state = "AUTH"
  <2>1. i \in 1 .. 8
    BY <1>1, <1>4 DEF Edges
  <2> QED  BY <1>1, <1>2, <1>4, <2>1 DEF Edges
<1>5. CASE state = "OPEN"
  <2>1. i \in 1 .. 11
    BY <1>1, <1>5 DEF Edges
  <2> QED  BY <1>1, <1>2, <1>5, <2>1 DEF Edges
<1>6. CASE state = "JOIN"
  <2>1. i \in 1 .. 7
    BY <1>1, <1>6 DEF Edges
  <2> QED  BY <1>1, <1>2, <1>6, <2>1 DEF Edges
<1>7. CASE state = "END"
  BY <1>1, <1>7 DEF Edges
<1> QED  BY <1>3, <1>4, <1>5, <1>6, <1>7 DEF TypeOK, States

\* What the order of the edges adds: a retransmission comes after the removal of
\* what is exhausted, and in OPEN and JOIN the confirmations of MSG and PING come
\* before everything but the edges of a JOIN and of the clock.
LEMMA EarlierEdges ==
    ASSUME NEW rule, TakeEdge(rule)
    PROVE  /\ state = "AUTH" /\ rule = "auth_authminus_nan_authminus_yes"
                => ~Accepts("authzero_none_nan_nan_no")
           /\ state = "OPEN" /\ rule = "msg_msgminus_nan_msgminus_yes"
                => ~Accepts("msgjoinzero_none_nan_nan_no")
           /\ state = "OPEN" /\ rule \in {"none_msg_nan_msg_no", "msg_none_confirm_nan_no",
                                          "none_none_errbye_nan_no", "none_none_nan_bye_no",
                                          "none_none_anyreply_err_no"}
                => /\ ~Accepts("none_none_msg_confirm_no")
                   /\ ~Accepts("none_none_ping_confirm_no")
           /\ state = "JOIN" /\ rule \notin {"none_none_msg_confirm_no",
                                             "none_none_ping_confirm_no"}
                => /\ ~Accepts("none_none_msg_confirm_no")
                   /\ ~Accepts("none_none_ping_confirm_no")
<1>1. PICK i \in DOMAIN Edges[state] :
        /\ Edges[state][i][1] = rule
        /\ \A j \in 1 .. i - 1 : ~Accepts(Edges[state][j][1])
  BY DEF TakeEdge, Fires
<1>2. ASSUME state = "AUTH", rule = "auth_authminus_nan_authminus_yes"
      PROVE  ~Accepts("authzero_none_nan_nan_no")
  <2>1. i \in 1 .. 8
    BY <1>1, <1>2 DEF Edges
  <2>2. i = 6
    BY <1>1, <1>2, <2>1 DEF Edges
  <2> QED  BY <1>1, <1>2, <2>2, 5 \in 1 .. 6 - 1 DEF Edges
<1>3. ASSUME state = "OPEN", rule = "msg_msgminus_nan_msgminus_yes"
      PROVE  ~Accepts("msgjoinzero_none_nan_nan_no")
  <2>1. i \in 1 .. 11
    BY <1>1, <1>3 DEF Edges
  <2>2. i = 4
    BY <1>1, <1>3, <2>1 DEF Edges
  <2> QED  BY <1>1, <1>3, <2>2, 3 \in 1 .. 4 - 1 DEF Edges
<1>4. ASSUME state = "OPEN",
             rule \in {"none_msg_nan_msg_no", "msg_none_confirm_nan_no",
                       "none_none_errbye_nan_no", "none_none_nan_bye_no",
                       "none_none_anyreply_err_no"}
      PROVE  /\ ~Accepts("none_none_msg_confirm_no")
             /\ ~Accepts("none_none_ping_confirm_no")
  <2>1. i \in 1 .. 11
    BY <1>1, <1>4 DEF Edges
  <2>2. i >= 7
    BY <1>1, <1>4, <2>1 DEF Edges
  <2>3. 5 \in 1 .. i - 1 /\ 6 \in 1 .. i - 1
    BY <2>1, <2>2
  <2> QED  BY <1>1, <1>4, <2>3 DEF Edges
<1>5. ASSUME state = "JOIN",
             rule \notin {"none_none_msg_confirm_no", "none_none_ping_confirm_no"}
      PROVE  /\ ~Accepts("none_none_msg_confirm_no")
             /\ ~Accepts("none_none_ping_confirm_no")
  <2>1. i \in 1 .. 7
    BY <1>1, <1>5 DEF Edges
  <2>2. i >= 3
    BY <1>1, <1>5, <2>1 DEF Edges
  <2>3. 1 \in 1 .. i - 1 /\ 2 \in 1 .. i - 1
    BY <2>1, <2>2
  <2> QED  BY <1>1, <1>5, <2>3 DEF Edges
<1> QED  BY <1>2, <1>3, <1>4, <1>5

-----------------------------------------------------------------------------
(* Type correctness of a step *)

\* A lambda that sends, or queues, something keeps the queue and the encoder typed.
LEMMA RetransmitType ==
    ASSUME TypeOK, NEW i \in DOMAIN stack, Retransmit(i)
    PROVE  /\ stack' \in Seq(Element)
           /\ nextID' \in Ids /\ bound' \in BOOLEAN /\ sent' \in SUBSET Datagrams
<1>1. stack[i] \in Element /\ stack[i].type \in Commands /\ stack[i].id \in Ids
  <2>1. stack[i] \in Element
    BY DEF TypeOK
  <2> QED  BY <2>1 DEF Element
<1>2. stack' \in Seq(Element)
  BY <1>1, DecrementType, ReplaceType DEF Retransmit, TypeOK
<1>3. nextID' \in Ids /\ bound' \in BOOLEAN /\ sent' \in SUBSET Datagrams
  BY <1>1, SendType DEF Retransmit
<1> QED  BY <1>2, <1>3

LEMMA EdgeStepType ==
    ASSUME TypeOK, EdgeStep
    PROVE  TypeOK'
<1> DEFINE Rest == /\ stack' \in Seq(Element)
                   /\ nextID' \in Ids /\ bound' \in BOOLEAN /\ sent' \in SUBSET Datagrams
<1>1. SUFFICES Rest
  <2>1. \E rule : TakeEdge(rule)
    BY DEF EdgeStep, EmptyAuth, ErrBye, NanBye, AuthMinus, NegativeReply, AuthZero,
           PositiveReply, MsgErr, MsgConfirm, QueueMsg, MsgMinus, MsgConfirmed,
           PingConfirm, MsgJoinZero, EmptyJoin, JoinAgain, JoinConfirmed, JoinMinus,
           JoinReply, AnyReplyErr
  <2> QED  BY <2>1, TakeEdgeType DEF TypeOK
<1>2. \A S : EraseAt(stack, S) \in Seq(Element)
  BY EraseAtFacts DEF TypeOK
<1>3. stack \in Seq(Element) /\ "ERR" \in Commands \cup {"CONFIRM", "ERR", "BYE"}
        /\ Sentinel \in Ids
  BY IdFacts DEF TypeOK
<1>4. CASE EmptyAuth
  <2>1. output.type \in Commands
    BY <1>4, EdgeTaken DEF EmptyAuth, Accepts, Out, Commands
  <2> QED  BY <1>4, <2>1, NewElementType, SendNothingType DEF EmptyAuth
<1>5. CASE ErrBye
  BY <1>3, <1>5, SendConfirmType DEF ErrBye
<1>6. CASE NanBye
  BY <1>3, <1>6, SendNothingType DEF NanBye
<1>7. CASE AuthMinus
  <2>1. Expired("AUTH") # {}
    BY <1>7, EdgeTaken DEF AuthMinus, Accepts
  <2>2. First(Expired("AUTH")) \in DOMAIN stack
    BY <2>1, FoundIsPosition DEF Expired, OfType
  <2> QED  BY <1>7, <2>2, RetransmitType DEF AuthMinus
<1>8. CASE NegativeReply
  BY <1>2, <1>8, SendConfirmType DEF NegativeReply
<1>9. CASE AuthZero
  BY <1>2, <1>9, SendNothingType DEF AuthZero
<1>10. CASE PositiveReply
  BY <1>2, <1>10, SendConfirmType DEF PositiveReply
<1>11. CASE MsgErr
  BY <1>3, <1>11, SendType DEF MsgErr
<1>12. CASE MsgConfirm
  BY <1>3, <1>12, SendConfirmType DEF MsgConfirm
<1>13. CASE QueueMsg
  <2>1. output.type \in Commands
    BY <1>13, EdgeTaken DEF QueueMsg, Accepts, Out, Commands
  <2> QED  BY <1>3, <1>13, <2>1, NewElementType, SendNothingType DEF QueueMsg
<1>14. CASE MsgMinus
  <2>1. Expired("MSG") # {}
    BY <1>14, EdgeTaken DEF MsgMinus, Accepts
  <2>2. First(Expired("MSG")) \in DOMAIN stack
    BY <2>1, FoundIsPosition DEF Expired, OfType
  <2> QED  BY <1>14, <2>2, RetransmitType DEF MsgMinus
<1>15. CASE MsgConfirmed
  BY <1>2, <1>15, SendNothingType DEF MsgConfirmed
<1>16. CASE PingConfirm
  BY <1>3, <1>16, SendConfirmType DEF PingConfirm
<1>17. CASE MsgJoinZero
  BY <1>2, <1>17, SendNothingType DEF MsgJoinZero
<1>18. CASE EmptyJoin
  <2>1. output.type \in Commands
    BY <1>18, EdgeTaken DEF EmptyJoin, Accepts, Out, Commands
  <2> QED  BY <1>18, <2>1, NewElementType, SendNothingType DEF EmptyJoin
<1>19. CASE JoinAgain
  <2> DEFINE i == First(Retriable("JOIN"))
  <2>1. Retriable("JOIN") # {}
    BY <1>19, EdgeTaken DEF JoinAgain, Accepts
  <2>2. i \in DOMAIN stack /\ stack[i] \in Element
    BY <2>1, FoundIsPosition DEF Retriable, OfType
  <2> HIDE DEF i
  <2>3. stack[i].id \in Ids /\ stack[i].tries + 1 \in Nat
    BY <2>2 DEF Element
  <2>4. [stack[i] EXCEPT !.tries = stack[i].tries + 1] \in Element
    BY <2>2, <2>3 DEF Element
  <2>5. stack' = [stack EXCEPT ![i] = [stack[i] EXCEPT !.tries = stack[i].tries + 1]]
    BY <1>19 DEF JoinAgain, i
  <2>6. stack' \in Seq(Element)
    BY <1>3, <2>2, <2>4, <2>5, ReplaceType
  <2>7. Send("JOIN", stack[i].id) /\ "JOIN" \in Commands
    BY <1>19 DEF JoinAgain, i, Commands
  <2> QED  BY <2>3, <2>6, <2>7, SendType
<1>20. CASE JoinConfirmed
  BY <1>3, <1>20, SendNothingType DEF JoinConfirmed
<1>21. CASE JoinMinus
  <2> DEFINE i == First(Expired("JOIN"))
  <2>1. Expired("JOIN") # {}
    BY <1>21, EdgeTaken DEF JoinMinus, Accepts
  <2>2. i \in DOMAIN stack /\ stack[i] \in Element
    BY <2>1, FoundIsPosition DEF Expired, OfType
  <2>3. stack' = [stack EXCEPT ![i] = Decrement(stack[i])] /\ SendNothing
    BY <1>21 DEF JoinMinus
  <2> HIDE DEF i
  <2>4. stack' \in Seq(Element)
    BY <1>3, <2>2, <2>3, DecrementType, ReplaceType
  <2> QED  BY <2>3, <2>4, SendNothingType
<1>22. CASE JoinReply
  BY <1>2, <1>22, SendConfirmType DEF JoinReply
<1>23. CASE AnyReplyErr
  BY <1>3, <1>23, SendType DEF AnyReplyErr
<1> QED  BY <1>4, <1>5, <1>6, <1>7, <1>8, <1>9, <1>10, <1>11, <1>12, <1>13, <1>14,
            <1>15, <1>16, <1>17, <1>18, <1>19, <1>20, <1>21, <1>22, <1>23 DEF EdgeStep

\* The other steps.
LEMMA NextType ==
    ASSUME TypeOK, [Next]_vars
    PROVE  TypeOK'
<1>1. CASE EdgeStep
  BY <1>1, EdgeStepType
<1>2. CASE NoEdge
  <2>1. input' \in Inputs /\ output' \in Outputs
    BY <1>2 DEF NoEdge, ClearMessages, TypeOK, Inputs, Outputs
  <2> QED  BY <1>2, <2>1, SendNothingType DEF NoEdge, TypeOK
<1>3. CASE IdlePass \/ ResolveFails \/ NoCommand \/ NoDatagram
  BY <1>3, SendNothingType DEF IdlePass, ResolveFails, NoCommand, NoDatagram, TypeOK
<1>4. CASE LocalCommand
  BY <1>4, SendNothingType DEF LocalCommand, TypeOK, Outputs
<1>5. CASE RefusedCommand
  <2>1. config' \in [{"AUTH", "JOIN"} -> Args \cup {DefaultArg}]
    BY <1>5 DEF RefusedCommand, TypeOK
  <2> QED  BY <1>5, <2>1, SendNothingType DEF RefusedCommand, TypeOK
<1>6. CASE ReadCommand
  <2>1. PICK type \in Commands, arg \in Args, resolved \in BOOLEAN :
          /\ config' = IF type = "MSG" THEN config ELSE [config EXCEPT ![type] = arg]
          /\ nextID' = NextIdAfter(Sentinel)
          /\ output' = [type |-> type, id |-> (nextID' + Sentinel) % IdSpace]
          /\ sent' = IF resolved
                     THEN {Datagram(type, nextID, CurrentArg(config', type))}
                     ELSE {}
          /\ bound' = (bound \/ resolved)
    BY <1>6 DEF ReadCommand
  <2>2. config' \in [{"AUTH", "JOIN"} -> Args \cup {DefaultArg}]
    BY <2>1 DEF TypeOK
  <2>3. nextID' \in Ids
    <3>1. nextID \in Int
      BY IdFacts DEF TypeOK, Ids
    <3>2. (nextID + 1) % IdSpace \in Ids
      BY <3>1, IdFacts
    <3> QED  BY <2>1, <3>2 DEF NextIdAfter
  <2>4. output' \in Outputs
    <3>1. nextID' + Sentinel \in Int
      BY <2>3, IdFacts DEF Ids
    <3>2. (nextID' + Sentinel) % IdSpace \in Ids
      BY <3>1, IdFacts
    <3> QED  BY <2>1, <3>2 DEF Outputs
  <2>5. sent' \in SUBSET Datagrams
    <3>1. CurrentArg(config', type) \in Args \cup {DefaultArg, NoArg}
      BY <2>2 DEF CurrentArg
    <3>2. Datagram(type, nextID, CurrentArg(config', type)) \in Datagrams
      BY <3>1 DEF Datagram, Datagrams, TypeOK
    <3> QED  BY <2>1, <3>2
  <2>6. bound' \in BOOLEAN
    BY <2>1 DEF TypeOK
  <2> QED  BY <1>6, <2>2, <2>3, <2>4, <2>5, <2>6 DEF ReadCommand, TypeOK
<1>7. CASE ReadEof
  <2>0. nextID \in Int /\ Sentinel \in Ids
    BY IdFacts DEF TypeOK, Ids
  <2>2. CASE /\ pc' = "socket"
             /\ Send("MSG", Sentinel)
             /\ output' = [type |-> "MSG", id |-> (nextID' + Sentinel) % IdSpace]
             /\ UNCHANGED input
    <3>1. nextID' \in Ids /\ bound' \in BOOLEAN /\ sent' \in SUBSET Datagrams
      BY <2>0, <2>2, SendType, "MSG" \in Commands DEF Commands
    <3>2. nextID' + Sentinel \in Int
      BY <3>1, IdFacts DEF Ids
    <3>3. (nextID' + Sentinel) % IdSpace \in Ids
      BY <3>2, IdFacts
    <3>4. output' \in Outputs
      BY <2>2, <3>3 DEF Outputs, Commands
    <3> QED  BY <1>7, <2>2, <3>1, <3>4 DEF ReadEof, TypeOK
  <2>3. CASE /\ input' = NoInput
             /\ output' = Bye
             /\ \E encoded \in {0, 1} :
                  /\ nextID' = (nextID + encoded + 1) % IdSpace
                  /\ \/ /\ pc' = "poll"
                        /\ sent' = {Datagram("BYE", (nextID + encoded) % IdSpace, NoArg)}
                        /\ bound' = TRUE
                     \/ /\ pc' = "stopped"
                        /\ sent' = {}
                        /\ UNCHANGED bound
    <3>1. PICK encoded \in {0, 1} :
             /\ nextID' = (nextID + encoded + 1) % IdSpace
             /\ sent' \in {{}, {Datagram("BYE", (nextID + encoded) % IdSpace, NoArg)}}
             /\ bound' \in BOOLEAN /\ pc' \in {"poll", "stopped"}
      BY <2>3 DEF TypeOK
    <3>2. nextID + encoded + 1 \in Int /\ nextID + encoded \in Int
      BY <2>0 DEF Ids
    <3>3. nextID' \in Ids /\ (nextID + encoded) % IdSpace \in Ids
      BY <3>1, <3>2, IdFacts
    <3>4. sent' \in SUBSET Datagrams
      BY <3>1, <3>3 DEF Datagram, Datagrams
    <3>5. input' \in Inputs /\ output' \in Outputs
      BY <2>3 DEF Inputs, Outputs
    <3> QED  BY <1>7, <3>1, <3>3, <3>4, <3>5 DEF ReadEof, TypeOK
  <2> QED  BY <1>7, <2>2, <2>3 DEF ReadEof
<1>8. CASE Receive
  <2>1. input' \in Inputs
    BY <1>8 DEF Receive, Inputs
  <2> QED  BY <1>8, <2>1, SendNothingType DEF Receive, TypeOK
<1>9. CASE SigInt
  <2>1. nextID' \in Ids /\ bound' \in BOOLEAN /\ sent' \in SUBSET Datagrams
    BY <1>9, SendType, IdFacts DEF SigInt
  <2>2. input' \in Inputs /\ output' \in Outputs
    BY <1>9 DEF SigInt, Inputs, Outputs
  <2> QED  BY <1>9, <2>1, <2>2 DEF SigInt, TypeOK
<1>10. CASE Tick
  <2>1. \A i \in DOMAIN stack : ~IsExpired(stack[i])
            => [stack[i] EXCEPT !.age = stack[i].age + 1] \in Element
    <3> SUFFICES ASSUME NEW e \in Element, ~IsExpired(e)
                 PROVE  [e EXCEPT !.age = e.age + 1] \in Element
      BY DEF TypeOK
    <3>1. e.age \in 0 .. Timeout /\ ~(e.age >= Timeout)
      BY DEF Element, IsExpired
    <3>2. e.age + 1 \in 0 .. Timeout
      BY <3>1, TimeoutAssumption
    <3> QED  BY <3>2 DEF Element
  <2>2. \A i \in DOMAIN stack : (IF IsExpired(stack[i]) THEN stack[i]
                                 ELSE [stack[i] EXCEPT !.age = @ + 1]) \in Element
    BY <2>1 DEF TypeOK
  <2>3. stack' \in Seq(Element)
    <3> DEFINE aged(i) == IF IsExpired(stack[i]) THEN stack[i]
                          ELSE [stack[i] EXCEPT !.age = @ + 1]
    <3>1. stack' = [i \in 1 .. Len(stack) |-> aged(i)]
      BY <1>10 DEF Tick, TypeOK
    <3>2. \A i \in 1 .. Len(stack) : aged(i) \in Element
      BY <2>2 DEF TypeOK
    <3>3. Len(stack) \in Nat
      BY DEF TypeOK
    <3> HIDE DEF aged
    <3> QED  BY <3>1, <3>2, <3>3
  <2> QED  BY <1>10, <2>3, SendNothingType DEF Tick, TypeOK
<1>11. CASE Terminated \/ UNCHANGED vars
  BY <1>11 DEF Terminated, vars, TypeOK
<1> QED  BY <1>1, <1>2, <1>3, <1>4, <1>5, <1>6, <1>7, <1>8, <1>9, <1>10, <1>11
         DEF Next, Loop, User

\* The initial state is typed.
LEMMA InitType == Init => TypeOK
<1> SUFFICES ASSUME Init PROVE TypeOK
  OBVIOUS
<1>1. stack \in Seq(Element)
  BY DEF Init
<1>2. config \in [{"AUTH", "JOIN"} -> Args \cup {DefaultArg}]
  BY DEF Init
<1>3. input \in Inputs /\ output \in Outputs /\ sent \in SUBSET Datagrams
  BY DEF Init, Inputs, Outputs
<1> QED  BY <1>1, <1>2, <1>3, IdFacts DEF Init, TypeOK, States

\* Every reachable state is typed: in particular messageID and every ID stay
\* uint16_t (UDPEncoder::encodeBinary), a queued message never has more
\* retransmissions than were configured, and only a command is queued.
THEOREM TypeCorrect == Spec => []TypeOK
<1>1. Init => TypeOK
  BY InitType
<1>2. TypeOK /\ [Next]_vars => TypeOK'
  BY NextType
<1> QED  BY <1>1, <1>2, PTL DEF Spec

-----------------------------------------------------------------------------
(* The queue and the state agree *)

\* A message keeps its type and place in this step.
SameTypes ==
    /\ Len(stack') = Len(stack)
    /\ \A i \in DOMAIN stack : stack'[i].type = stack[i].type

\* The shape survives a step that changes no type, unless the step enters AUTH,
\* OPEN or JOIN from a state that promises less.
LEMMA SameTypesShape ==
    ASSUME TypeOK, TypeOK', QueueShape, SameTypes,
           \/ state' \in {state, "END"}
           \/ state = "JOIN" /\ state' = "OPEN"
           \/ state = "OPEN" /\ state' = "JOIN" /\ OfType("JOIN") # {}
    PROVE  QueueShape'
<1>1. DOMAIN stack = 1 .. Len(stack) /\ DOMAIN stack' = 1 .. Len(stack)
        /\ Len(stack) \in Nat
  BY DEF TypeOK, SameTypes
<1>2. state' = "START" => stack' = <<>>
  BY <1>1 DEF QueueShape, SameTypes, TypeOK
<1>3. state' = "AUTH" => Len(stack') <= 1
  BY DEF QueueShape, SameTypes
<1>4. \A i \in DOMAIN stack' :
         /\ stack'[i].type = "AUTH" => state' \in {"AUTH", "END"}
         /\ stack'[i].type # "AUTH" => state' # "AUTH"
         /\ stack'[i].type = "JOIN" => i = 1
  BY <1>1 DEF QueueShape, SameTypes
<1>5. state' = "JOIN" => stack' # <<>> /\ stack'[1].type = "JOIN"
  <2> SUFFICES ASSUME state' = "JOIN" PROVE 1 \in DOMAIN stack /\ stack[1].type = "JOIN"
    BY <1>1 DEF SameTypes
  <2>1. CASE state = "JOIN"
    BY <1>1, <2>1 DEF QueueShape, TypeOK
  <2>2. CASE state # "JOIN"
    <3>1. PICK i \in DOMAIN stack : stack[i].type = "JOIN"
      BY <2>2 DEF OfType
    <3> QED  BY <1>1, <3>1 DEF QueueShape
  <2> QED  BY <2>1, <2>2
<1> QED  BY <1>2, <1>3, <1>4, <1>5 DEF QueueShape

\* Erasing keeps it, in the two states that erase and stay.
LEMMA ErasedShape ==
    ASSUME TypeOK, QueueShape, NEW S, stack' = EraseAt(stack, S),
           state \in {"AUTH", "OPEN"}, state' = state
    PROVE  QueueShape'
<1>1. stack' \in Seq(Element)
  BY EraseAtFacts DEF TypeOK
<1>2. \A k \in DOMAIN stack' : \E i \in DOMAIN stack : k <= i /\ stack'[k] = stack[i]
  BY EraseAtFacts DEF TypeOK
<1>3. /\ DOMAIN stack = 1 .. Len(stack) /\ Len(stack) \in Nat
      /\ DOMAIN stack' = 1 .. Len(stack') /\ Len(stack') \in Nat
  BY <1>1 DEF TypeOK
<1>4. state = "AUTH" => Len(stack') <= 1
  <2> SUFFICES ASSUME state = "AUTH", Len(stack') > 1 PROVE FALSE
    BY <1>3
  <2>1. 2 \in DOMAIN stack'
    BY <1>3
  <2>2. PICK i \in DOMAIN stack : 2 <= i
    BY <1>2, <2>1
  <2> QED  BY <1>3, <2>2 DEF QueueShape
<1>5. \A k \in DOMAIN stack' :
         /\ stack'[k].type = "AUTH" => state' \in {"AUTH", "END"}
         /\ stack'[k].type # "AUTH" => state' # "AUTH"
         /\ stack'[k].type = "JOIN" => k = 1
  BY <1>2, <1>3 DEF QueueShape
<1> QED  BY <1>4, <1>5 DEF QueueShape

\* In AUTH, erasing the one message there may be empties the queue.
LEMMA ErasedInAuth ==
    ASSUME TypeOK, QueueShape, state = "AUTH", Replied # {}
    PROVE  EraseAt(stack, {First(Replied)}) = <<>>
<1> DEFINE r == EraseAt(stack, {First(Replied)})
<1>1. First(Replied) \in DOMAIN stack
  BY FoundIsPosition DEF Replied, WithId
<1>2. DOMAIN stack = 1 .. Len(stack) /\ Len(stack) \in Nat /\ Len(stack) <= 1
  BY DEF TypeOK, QueueShape
<1>3. DOMAIN stack \ {First(Replied)} = {}
  BY <1>1, <1>2
<1>4. r \in Seq(Element) /\ \A k \in DOMAIN r : \E i \in DOMAIN stack \ {First(Replied)} : TRUE
  BY EraseAtFacts DEF TypeOK
<1> HIDE DEF r
<1>5. r = <<>>
  <2>1. DOMAIN r = {}
    BY <1>3, <1>4
  <2>2. Len(r) \in Nat /\ DOMAIN r = 1 .. Len(r)
    BY <1>4
  <2>3. Len(r) = 0
    <3>1. ~ (1 \in 1 .. Len(r))
      BY <2>1, <2>2
    <3> QED  BY <2>2, <3>1
  <2> QED  BY <1>4, <2>3
<1> QED  BY <1>5 DEF r

LEMMA EdgeStepShape ==
    ASSUME TypeOK, TypeOK', QueueShape, EdgeStep
    PROVE  QueueShape'
<1>1. DOMAIN stack = 1 .. Len(stack) /\ Len(stack) \in Nat /\ stack \in Seq(Element)
  BY DEF TypeOK
<1>2. stack' = stack => SameTypes
  BY DEF SameTypes
<1>3. \A i \in DOMAIN stack : Retransmit(i) => SameTypes
  BY <1>1 DEF SameTypes, Retransmit, Decrement, Element
<1>4. CASE EmptyAuth
  <2>1. state' = "AUTH" /\ Out("AUTH")
    BY <1>4, EdgeTaken DEF EmptyAuth, Accepts
  <2>2. stack' = <<NewElement(output)>> /\ NewElement(output).type = "AUTH"
    BY <1>4, <2>1 DEF EmptyAuth, NewElement, Out
  <2> QED  BY <2>1, <2>2 DEF QueueShape
<1>5. CASE ErrBye
  <2>1. state' = "END" /\ stack' = stack
    BY <1>5, EdgeTaken DEF ErrBye
  <2> QED  BY <1>2, <2>1, SameTypesShape
<1>6. CASE NanBye
  <2>1. state' = "END" /\ stack' = stack
    BY <1>6, EdgeTaken DEF NanBye
  <2> QED  BY <1>2, <2>1, SameTypesShape
<1>7. CASE AuthMinus
  <2>1. Expired("AUTH") # {} /\ state' = state
    BY <1>7, EdgeTaken DEF AuthMinus, Accepts
  <2>2. First(Expired("AUTH")) \in DOMAIN stack
    BY <2>1, FoundIsPosition DEF Expired, OfType
  <2> QED  BY <1>3, <1>7, <2>1, <2>2, SameTypesShape DEF AuthMinus
<1>8. CASE NegativeReply
  <2>1. state \in {"AUTH", "OPEN"} /\ state' = state
    BY <1>8, EdgeTaken DEF NegativeReply
  <2> QED  BY <1>8, <2>1, ErasedShape DEF NegativeReply
<1>9. CASE AuthZero
  <2>1. state \in {"AUTH", "OPEN"} /\ state' = state
    BY <1>9, EdgeTaken DEF AuthZero
  <2> QED  BY <1>9, <2>1, ErasedShape DEF AuthZero
<1>10. CASE PositiveReply
  <2>1. state = "AUTH" /\ state' = "OPEN" /\ Replied # {}
    BY <1>10, EdgeTaken DEF PositiveReply, Accepts
  <2>2. stack' = <<>>
    BY <1>10, <2>1, ErasedInAuth DEF PositiveReply
  <2> QED  BY <2>1, <2>2 DEF QueueShape
<1>11. CASE MsgErr
  <2>1. state' = "END" /\ stack' = stack
    BY <1>11, EdgeTaken DEF MsgErr
  <2> QED  BY <1>2, <2>1, SameTypesShape
<1>12. CASE MsgConfirm
  <2>1. state' = state /\ stack' = stack
    BY <1>12, EdgeTaken DEF MsgConfirm
  <2> QED  BY <1>2, <2>1, SameTypesShape
<1>13. CASE QueueMsg
  <2>1. state = "OPEN" /\ state' = "OPEN" /\ Out("MSG")
    BY <1>13, EdgeTaken DEF QueueMsg, Accepts
  <2>2. stack' = Append(stack, NewElement(output)) /\ NewElement(output).type = "MSG"
    BY <1>13, <2>1 DEF QueueMsg, NewElement, Out
  <2>3. DOMAIN stack' = 1 .. Len(stack) + 1
    BY <1>1, <2>2
  <2>4. \A i \in DOMAIN stack' :
          stack'[i] = IF i = Len(stack) + 1 THEN NewElement(output) ELSE stack[i]
    BY <1>1, <2>2, <2>3
  <2>5. \A i \in DOMAIN stack' : i # Len(stack) + 1 => i \in DOMAIN stack
    BY <1>1, <2>3
  <2>6. \A i \in DOMAIN stack' : /\ stack'[i].type # "AUTH"
                                 /\ stack'[i].type = "JOIN" => i = 1
    BY <2>1, <2>2, <2>4, <2>5 DEF QueueShape
  <2> QED  BY <2>1, <2>6 DEF QueueShape
<1>14. CASE MsgMinus
  <2>1. Expired("MSG") # {} /\ state' = state
    BY <1>14, EdgeTaken DEF MsgMinus, Accepts
  <2>2. First(Expired("MSG")) \in DOMAIN stack
    BY <2>1, FoundIsPosition DEF Expired, OfType
  <2> QED  BY <1>3, <1>14, <2>1, <2>2, SameTypesShape DEF MsgMinus
<1>15. CASE MsgConfirmed
  <2>1. state \in {"AUTH", "OPEN"} /\ state' = state
    BY <1>15, EdgeTaken DEF MsgConfirmed
  <2> QED  BY <1>15, <2>1, ErasedShape DEF MsgConfirmed
<1>16. CASE PingConfirm
  <2>1. state' = state /\ stack' = stack
    BY <1>16, EdgeTaken DEF PingConfirm
  <2> QED  BY <1>2, <2>1, SameTypesShape
<1>17. CASE MsgJoinZero
  <2>1. state \in {"AUTH", "OPEN"} /\ state' = state
    BY <1>17, EdgeTaken DEF MsgJoinZero
  <2> QED  BY <1>17, <2>1, ErasedShape DEF MsgJoinZero
<1>18. CASE EmptyJoin
  <2>1. state' = "JOIN" /\ Out("JOIN")
    BY <1>18, EdgeTaken DEF EmptyJoin, Accepts
  <2>2. stack' = <<NewElement(output)>> /\ NewElement(output).type = "JOIN"
    BY <1>18, <2>1 DEF EmptyJoin, NewElement, Out
  <2> QED  BY <2>1, <2>2 DEF QueueShape
<1>19. CASE JoinAgain
  <2>1. state = "OPEN" /\ state' = "JOIN" /\ Retriable("JOIN") # {}
    BY <1>19, EdgeTaken DEF JoinAgain, Accepts
  <2>2. stack' = [stack EXCEPT ![First(Retriable("JOIN"))].tries = @ + 1]
    BY <1>19 DEF JoinAgain
  <2>3. SameTypes
    BY <1>1, <2>2 DEF SameTypes, Element
  <2>4. OfType("JOIN") # {}
    BY <2>1 DEF Retriable
  <2> QED  BY <2>1, <2>3, <2>4, SameTypesShape
<1>20. CASE JoinConfirmed
  <2>1. state' = state /\ stack' = stack
    BY <1>20, EdgeTaken DEF JoinConfirmed
  <2> QED  BY <1>2, <2>1, SameTypesShape
<1>21. CASE JoinMinus
  <2>1. state = "JOIN" /\ state' = "OPEN"
    BY <1>21, EdgeTaken DEF JoinMinus
  <2>2. SameTypes
    BY <1>1, <1>21 DEF JoinMinus, SameTypes, Decrement, Element
  <2> QED  BY <2>1, <2>2, SameTypesShape
<1>22. CASE JoinReply
  <2>1. state = "JOIN" /\ state' = "OPEN"
    BY <1>22, EdgeTaken DEF JoinReply
  <2>2. \A k \in DOMAIN stack' : \E i \in DOMAIN stack : k <= i /\ stack'[k] = stack[i]
    BY <1>1, <1>22, EraseAtFacts DEF JoinReply
  <2>3. DOMAIN stack' = 1 .. Len(stack')
    BY DEF TypeOK
  <2>4. \A k \in DOMAIN stack' : /\ stack'[k].type # "AUTH"
                                 /\ stack'[k].type = "JOIN" => k = 1
    BY <1>1, <2>1, <2>2, <2>3 DEF QueueShape
  <2> QED  BY <2>1, <2>4 DEF QueueShape
<1>23. CASE AnyReplyErr
  <2>1. state' = "END" /\ stack' = stack
    BY <1>23, EdgeTaken DEF AnyReplyErr
  <2> QED  BY <1>2, <2>1, SameTypesShape
<1> QED  BY <1>4, <1>5, <1>6, <1>7, <1>8, <1>9, <1>10, <1>11, <1>12, <1>13, <1>14,
            <1>15, <1>16, <1>17, <1>18, <1>19, <1>20, <1>21, <1>22, <1>23 DEF EdgeStep

\* Every other step leaves the state alone, and of the queue at most the clocks
\* change.
LEMMA OtherSteps ==
    ASSUME TypeOK, [Next]_vars, ~EdgeStep
    PROVE  /\ state' = state
           /\ Len(stack') = Len(stack)
           /\ \A i \in DOMAIN stack :
                /\ stack'[i].type = stack[i].type
                /\ stack'[i].id = stack[i].id
                /\ stack'[i].arg = stack[i].arg
                /\ stack'[i].left = stack[i].left
                /\ stack'[i].tries = stack[i].tries
<1>1. CASE Tick
  <2>1. stack \in Seq(Element) /\ DOMAIN stack = 1 .. Len(stack) /\ Len(stack) \in Nat
    BY DEF TypeOK
  <2>2. \A i \in DOMAIN stack : stack'[i] = IF IsExpired(stack[i]) THEN stack[i]
                                            ELSE [stack[i] EXCEPT !.age = @ + 1]
    BY <1>1 DEF Tick
  <2>3. Len(stack') = Len(stack)
    BY <1>1, <2>1 DEF Tick
  <2>4. \A i \in DOMAIN stack : stack[i] \in Element
    BY <2>1
  <2> QED  BY <1>1, <2>2, <2>3, <2>4 DEF Tick, Element
<1>2. CASE ~Tick
  <2>1. state' = state /\ stack' = stack
    BY <1>2 DEF Next, Loop, User, NoEdge, IdlePass, ResolveFails, NoCommand, NoDatagram,
                LocalCommand, RefusedCommand, ReadCommand, ReadEof, Receive, SigInt,
                Terminated, vars
  <2> QED  BY <2>1
<1> QED  BY <1>1, <1>2

LEMMA NextShape ==
    ASSUME TypeOK, TypeOK', QueueShape, [Next]_vars
    PROVE  QueueShape'
<1>1. CASE EdgeStep
  BY <1>1, EdgeStepShape
<1>2. CASE ~EdgeStep
  <2>1. SameTypes /\ state' = state
    BY <1>2, OtherSteps DEF SameTypes
  <2> QED  BY <2>1, SameTypesShape
<1> QED  BY <1>1, <1>2

\* The queue always has the shape the lambdas rely on, whatever mixture of
\* expired, confirmed and refused messages went through it.
THEOREM QueueShapeHolds == Spec => []QueueShape
<1>1. Init => QueueShape
  BY DEF Init, QueueShape
<1>2. TypeOK /\ TypeOK' /\ QueueShape /\ [Next]_vars => QueueShape'
  BY NextShape
<1> QED  BY <1>1, <1>2, TypeCorrect, PTL DEF Spec

-----------------------------------------------------------------------------
(* The retransmission budget *)

\* The budget of one element of the queue, when the client is in state st.
WithinBudget(e, st) ==
    /\ e.tries + e.left <= 1 + Retransmissions
    /\ e.type = "JOIN" /\ st = "OPEN" /\ e.left > 0
         => e.tries + e.left <= Retransmissions

\* Charging a retransmission keeps the sum of the attempts made and left.
LEMMA ChargedBudget ==
    ASSUME NEW e \in Element, e.tries + e.left <= 1 + Retransmissions
    PROVE  /\ e.left > 0 => [Decrement(e) EXCEPT !.tries = e.tries + 1].tries
                              + [Decrement(e) EXCEPT !.tries = e.tries + 1].left
                                <= 1 + Retransmissions
           /\ WithinBudget(Decrement(e), "OPEN")
<1>1. e.left \in Nat /\ e.tries \in Nat
  BY RetransmissionsAssumption DEF Element
<1>2. /\ Decrement(e).left = IF e.left > 0 THEN e.left - 1 ELSE 0
      /\ Decrement(e).tries = e.tries
      /\ [Decrement(e) EXCEPT !.tries = e.tries + 1].tries = e.tries + 1
      /\ [Decrement(e) EXCEPT !.tries = e.tries + 1].left = Decrement(e).left
  BY DEF Decrement, Element
<1> QED  BY <1>1, <1>2, RetransmissionsAssumption DEF WithinBudget

\* A retransmission outside JOIN finds budget left.
LEMMA RetransmitBudget ==
    ASSUME TypeOK, RetransmissionBudget, NEW i \in DOMAIN stack, Retransmit(i),
           Exhausted = {}, stack[i].type # "JOIN", state' = state
    PROVE  RetransmissionBudget'
<1>1. stack[i] \in Element /\ stack \in Seq(Element)
  BY DEF TypeOK
<1>2. stack[i].left > 0
  <2>1. stack[i].left \in Nat
    BY <1>1, RetransmissionsAssumption DEF Element
  <2>2. stack[i].left # 0
    BY DEF Exhausted, HasRetransmissions
  <2> QED  BY <2>1, <2>2
<1> DEFINE e == [Decrement(stack[i]) EXCEPT !.tries = stack[i].tries + 1]
<1>3. e.tries + e.left <= 1 + Retransmissions
  BY <1>1, <1>2, ChargedBudget DEF RetransmissionBudget
<1>4. e.type # "JOIN"
  BY <1>1 DEF Decrement, Element
<1>5. DOMAIN stack' = DOMAIN stack /\ stack' = [stack EXCEPT ![i] = e]
  BY DEF Retransmit
<1> HIDE DEF e
<1>6. \A j \in DOMAIN stack' : j = i \/ stack'[j] = stack[j]
  BY <1>5
<1>7. stack'[i] = e
  BY <1>5
<1> QED  BY <1>3, <1>4, <1>5, <1>6, <1>7 DEF RetransmissionBudget

\* A message is charged nothing for the transmission that queues it.
LEMMA NewBudget ==
    ASSUME NEW out
    PROVE  NewElement(out).tries + NewElement(out).left <= 1 + Retransmissions
BY RetransmissionsAssumption DEF NewElement

\* Nothing that leaves the queue smaller, or takes a JOIN out of OPEN, spends
\* anything.
LEMMA FewerBudget ==
    ASSUME RetransmissionBudget,
           \A k \in DOMAIN stack' : \E i \in DOMAIN stack : stack'[k] = stack[i],
           state' = state \/ state' # "OPEN"
    PROVE  RetransmissionBudget'
BY DEF RetransmissionBudget

LEMMA EdgeStepBudget ==
    ASSUME TypeOK, TypeOK', QueueShape, QueueShape', RetransmissionBudget, EdgeStep
    PROVE  RetransmissionBudget'
<1>0. stack \in Seq(Element) /\ DOMAIN stack = 1 .. Len(stack) /\ Len(stack) \in Nat
  BY DEF TypeOK
<1>1. \A S : \A k \in DOMAIN EraseAt(stack, S) :
        \E i \in DOMAIN stack : EraseAt(stack, S)[k] = stack[i]
  BY <1>0, EraseAtFacts
<1>2. stack' = stack => \A k \in DOMAIN stack' : \E i \in DOMAIN stack : stack'[k] = stack[i]
  OBVIOUS
<1>3. CASE ErrBye \/ NanBye \/ MsgErr \/ MsgConfirm \/ PingConfirm \/ JoinConfirmed
             \/ AnyReplyErr
  <2>1. stack' = stack /\ (state' = state \/ state' # "OPEN")
    BY <1>3, EdgeTaken DEF ErrBye, NanBye, MsgErr, MsgConfirm, PingConfirm,
                           JoinConfirmed, AnyReplyErr
  <2> QED  BY <1>2, <2>1, FewerBudget
<1>4. CASE NegativeReply \/ AuthZero \/ MsgConfirmed \/ MsgJoinZero
  <2>1. state' = state
    BY <1>4, EdgeTaken DEF NegativeReply, AuthZero, MsgConfirmed, MsgJoinZero
  <2>2. \E S : stack' = EraseAt(stack, S)
    BY <1>4 DEF NegativeReply, AuthZero, MsgConfirmed, MsgJoinZero
  <2> QED  BY <1>1, <2>1, <2>2, FewerBudget
<1>5. CASE PositiveReply
  <2>1. state = "AUTH" /\ Replied # {}
    BY <1>5, EdgeTaken DEF PositiveReply, Accepts
  <2>2. stack' = <<>>
    BY <1>5, <2>1, ErasedInAuth DEF PositiveReply
  <2> QED  BY <2>2 DEF RetransmissionBudget
<1>6. CASE JoinReply
  <2> DEFINE i == First(Expired("JOIN"))
  <2>1. state = "JOIN" /\ Expired("JOIN") # {}
    BY <1>6, EdgeTaken DEF JoinReply, Accepts
  <2>2. i \in DOMAIN stack /\ stack[i].type = "JOIN"
    BY <2>1, FoundIsPosition DEF Expired, OfType
  <2>3. stack' = EraseAt(stack, {i})
    BY <1>6 DEF JoinReply
  <2> HIDE DEF i
  <2>4. \A k \in DOMAIN stack' : \E j \in DOMAIN stack \ {i} : stack'[k] = stack[j]
    BY <1>0, <2>3, EraseAtFacts
  <2>5. \A j \in DOMAIN stack \ {i} : stack[j].type # "JOIN"
    BY <2>2 DEF QueueShape
  <2> QED  BY <2>4, <2>5 DEF RetransmissionBudget
<1>7. CASE EmptyAuth
  <2>1. Out("AUTH") /\ state' = "AUTH" /\ stack' = <<NewElement(output)>>
    BY <1>7, EdgeTaken DEF EmptyAuth, Accepts
  <2>2. \A k \in DOMAIN stack' : stack'[k] = NewElement(output)
    BY <2>1
  <2> QED  BY <2>1, <2>2, NewBudget DEF RetransmissionBudget
<1>8. CASE EmptyJoin
  <2>1. state' = "JOIN" /\ stack' = <<NewElement(output)>>
    BY <1>8, EdgeTaken DEF EmptyJoin
  <2>2. \A k \in DOMAIN stack' : stack'[k] = NewElement(output)
    BY <2>1
  <2> QED  BY <2>1, <2>2, NewBudget DEF RetransmissionBudget
<1>9. CASE QueueMsg
  <2>1. state' = state /\ Out("MSG") /\ stack' = Append(stack, NewElement(output))
    BY <1>9, EdgeTaken DEF QueueMsg, Accepts
  <2>2. \A k \in DOMAIN stack' :
          \/ stack'[k] = NewElement(output)
          \/ \E i \in DOMAIN stack : stack'[k] = stack[i]
    BY <1>0, <2>1
  <2>3. NewElement(output).type = "MSG"
    BY <2>1 DEF NewElement, Out
  <2> QED  BY <2>1, <2>2, <2>3, NewBudget DEF RetransmissionBudget
<1>10. CASE AuthMinus
  <2>1. Expired("AUTH") # {} /\ In("NONE") /\ state' = state /\ state = "AUTH"
    BY <1>10, EdgeTaken DEF AuthMinus, Accepts
  <2>2. Exhausted = {}
    BY <1>10, <2>1, EarlierEdges DEF AuthMinus, Accepts
  <2>3. First(Expired("AUTH")) \in DOMAIN stack
          /\ stack[First(Expired("AUTH"))].type # "JOIN"
    BY <2>1, FoundIsPosition DEF Expired, OfType
  <2> QED  BY <1>10, <2>1, <2>2, <2>3, RetransmitBudget DEF AuthMinus
<1>11. CASE MsgMinus
  <2>1. Expired("MSG") # {} /\ In("NONE") /\ state' = state /\ state = "OPEN"
    BY <1>11, EdgeTaken DEF MsgMinus, Accepts
  <2>2. Exhausted = {}
    BY <1>11, <2>1, EarlierEdges DEF MsgMinus, Accepts
  <2>3. First(Expired("MSG")) \in DOMAIN stack
          /\ stack[First(Expired("MSG"))].type # "JOIN"
    BY <2>1, FoundIsPosition DEF Expired, OfType
  <2> QED  BY <1>11, <2>1, <2>2, <2>3, RetransmitBudget DEF MsgMinus
<1>12. CASE JoinAgain
  <2> DEFINE i == First(Retriable("JOIN"))
  <2>1. state = "OPEN" /\ state' = "JOIN" /\ Retriable("JOIN") # {}
    BY <1>12, EdgeTaken DEF JoinAgain, Accepts
  <2>2. i \in DOMAIN stack /\ stack[i] \in Element
          /\ stack[i].type = "JOIN" /\ HasRetransmissions(stack[i])
    BY <2>1, FoundIsPosition DEF Retriable, OfType
  <2>3. stack' = [stack EXCEPT ![i].tries = @ + 1]
    BY <1>12 DEF JoinAgain
  <2> HIDE DEF i
  <2>4. stack[i].left \in Nat /\ stack[i].tries \in Nat /\ stack[i].left > 0
    BY <2>2, RetransmissionsAssumption DEF Element, HasRetransmissions
  <2>5. stack[i].tries + stack[i].left <= Retransmissions
    BY <2>1, <2>2, <2>4 DEF RetransmissionBudget
  <2>6. stack'[i].tries = stack[i].tries + 1 /\ stack'[i].left = stack[i].left
    BY <2>2, <2>3 DEF Element
  <2>7. \A j \in DOMAIN stack' : j \in DOMAIN stack /\ (j = i \/ stack'[j] = stack[j])
    BY <2>3
  <2>8. stack'[i].tries + stack'[i].left <= 1 + Retransmissions
    BY <2>4, <2>5, <2>6, RetransmissionsAssumption
  <2> QED  BY <2>1, <2>7, <2>8 DEF RetransmissionBudget
<1>13. CASE JoinMinus
  <2> DEFINE i == First(Expired("JOIN"))
  <2>1. state = "JOIN" /\ Expired("JOIN") # {}
    BY <1>13, EdgeTaken DEF JoinMinus, Accepts
  <2>2. i \in DOMAIN stack /\ stack[i] \in Element /\ stack[i].type = "JOIN"
    BY <2>1, FoundIsPosition DEF Expired, OfType
  <2>3. stack' = [stack EXCEPT ![i] = Decrement(stack[i])]
    BY <1>13 DEF JoinMinus
  <2> HIDE DEF i
  <2>4. \A j \in DOMAIN stack' : j \in DOMAIN stack /\ (j = i \/ stack'[j] = stack[j])
    BY <2>3
  <2>5. stack'[i] = Decrement(stack[i]) /\ WithinBudget(Decrement(stack[i]), "OPEN")
    BY <2>2, <2>3, ChargedBudget DEF RetransmissionBudget
  <2>6. \A j \in DOMAIN stack : j # i => stack[j].type # "JOIN"
    BY <2>2 DEF QueueShape
  <2> QED  BY <2>4, <2>5, <2>6 DEF RetransmissionBudget, WithinBudget
<1> QED  BY <1>3, <1>4, <1>5, <1>6, <1>7, <1>8, <1>9, <1>10, <1>11, <1>12, <1>13
         DEF EdgeStep

LEMMA NextBudget ==
    ASSUME TypeOK, TypeOK', QueueShape, QueueShape', RetransmissionBudget, [Next]_vars
    PROVE  RetransmissionBudget'
<1>1. CASE EdgeStep
  BY <1>1, EdgeStepBudget
<1>2. CASE ~EdgeStep
  <2>1. DOMAIN stack' = DOMAIN stack
    BY <1>2, OtherSteps DEF TypeOK
  <2> QED  BY <1>2, <2>1, OtherSteps DEF RetransmissionBudget
<1> QED  BY <1>1, <1>2

\* No message is sent more than once plus the configured number of
\* retransmissions (-r), however its timeouts interleave with the rest.
THEOREM RetransmissionBudgetHolds == Spec => []RetransmissionBudget
<1>1. Init => RetransmissionBudget
  BY DEF Init, RetransmissionBudget
<1>2. TypeOK /\ TypeOK' /\ QueueShape /\ QueueShape' /\ RetransmissionBudget /\ [Next]_vars
        => RetransmissionBudget'
  BY NextBudget
<1> QED  BY <1>1, <1>2, TypeCorrect, QueueShapeHolds, PTL DEF Spec

-----------------------------------------------------------------------------
(* What a pass leaves behind *)

LEMMA NextLeavesNothing ==
    ASSUME TypeOK, NothingLeftOver, [Next]_vars
    PROVE  NothingLeftOver'
<1>1. CASE EdgeStep
  <2>1. \E rule : TakeEdge(rule)
    BY <1>1 DEF EdgeStep, EmptyAuth, ErrBye, NanBye, AuthMinus, NegativeReply, AuthZero,
           PositiveReply, MsgErr, MsgConfirm, QueueMsg, MsgMinus, MsgConfirmed,
           PingConfirm, MsgJoinZero, EmptyJoin, JoinAgain, JoinConfirmed, JoinMinus,
           JoinReply, AnyReplyErr
  <2>2. input' = NoInput /\ output' = NoOutput
    BY <2>1 DEF TakeEdge, ClearMessages
  <2> QED  BY <2>2 DEF NothingLeftOver, NoInput, NoOutput, In
<1>2. CASE NoEdge
  <2>1. CASE input' = NoInput /\ output' = NoOutput
    BY <2>1 DEF NothingLeftOver, NoInput, NoOutput, In
  <2>2. CASE ~(input' = NoInput /\ output' = NoOutput)
    <3>1. /\ input.type \in {"NONE", "CONFIRM"} /\ Out("NONE")
          /\ \A i \in DOMAIN Edges[state] : ~ClearsAnyway(Edges[state][i][1])
          /\ input' = input /\ output' = output /\ state' = state
      BY <1>2, <2>2 DEF NoEdge, ClearMessages
    <3>2. ASSUME In("CONFIRM"), state = "OPEN" PROVE FALSE
      <4>1. 8 \in DOMAIN Edges["OPEN"] /\ Edges["OPEN"][8][1] = "msg_none_confirm_nan_no"
        BY DEF Edges
      <4>2. ClearsAnyway("msg_none_confirm_nan_no")
        BY <3>2 DEF ClearsAnyway
      <4> QED  BY <3>1, <3>2, <4>1, <4>2
    <3> QED  BY <3>1, <3>2 DEF NothingLeftOver, In, Out
  <2> QED  BY <2>1, <2>2
<1>3. CASE IdlePass
  BY <1>3 DEF IdlePass, FsmRuns, NothingLeftOver, In, Out
<1>4. CASE SigInt
  BY <1>4 DEF SigInt, NothingLeftOver, NoInput, Bye, In
<1>5. CASE ReadEof
  BY <1>5 DEF ReadEof, NothingLeftOver, NoInput, Bye, In
<1>6. CASE ResolveFails \/ NoCommand \/ NoDatagram \/ LocalCommand \/ RefusedCommand
             \/ ReadCommand \/ Receive
  BY <1>6 DEF ResolveFails, NoCommand, NoDatagram, LocalCommand, RefusedCommand,
              ReadCommand, Receive, NothingLeftOver
<1>7. CASE Tick \/ Terminated \/ UNCHANGED vars
  BY <1>7 DEF Tick, Terminated, vars, NothingLeftOver, In
<1> QED  BY <1>1, <1>2, <1>3, <1>4, <1>5, <1>6, <1>7 DEF Next, Loop, User

\* The next pass starts with nothing to look at but a CONFIRM no edge took, and
\* in OPEN with no input at all, so its timeouts can run.
THEOREM NothingLeftOverHolds == Spec => []NothingLeftOver
<1>1. Init => NothingLeftOver
  BY DEF Init, NothingLeftOver, NoInput, NoOutput, In
<1>2. TypeOK /\ NothingLeftOver /\ [Next]_vars => NothingLeftOver'
  BY NextLeavesNothing
<1> QED  BY <1>1, <1>2, TypeCorrect, PTL DEF Spec

-----------------------------------------------------------------------------
(* Opening the session *)

LEMMA OpensOnReply ==
    ASSUME TypeOK, QueueShape, [Next]_vars,
           state \notin {"OPEN", "JOIN"}, state' \in {"OPEN", "JOIN"}
    PROVE  /\ state = "AUTH" /\ In("REPLY") /\ input.ok
           /\ \E i \in DOMAIN stack : stack[i].type = "AUTH" /\ stack[i].id = input.ref
           /\ stack' = <<>>
<1>1. EdgeStep
  BY OtherSteps
<1>2. PositiveReply
  BY <1>1, EdgeTaken
     DEF EdgeStep, EmptyAuth, ErrBye, NanBye, AuthMinus, NegativeReply, AuthZero,
         PositiveReply, MsgErr, MsgConfirm, QueueMsg, MsgMinus, MsgConfirmed,
         PingConfirm, MsgJoinZero, EmptyJoin, JoinAgain, JoinConfirmed, JoinMinus,
         JoinReply, AnyReplyErr
<1>3. state = "AUTH" /\ In("REPLY") /\ input.ok /\ Replied # {}
  BY <1>2, EdgeTaken DEF PositiveReply, Accepts
<1>4. PICK i \in DOMAIN stack : stack[i].id = input.ref
  BY <1>3 DEF Replied, WithId
<1>5. stack[i].type = "AUTH"
  BY <1>3 DEF QueueShape
<1>6. stack' = <<>>
  BY <1>2, <1>3, ErasedInAuth DEF PositiveReply
<1> QED  BY <1>3, <1>4, <1>5, <1>6

\* No REPLY, timeout or command other than a positive REPLY to the AUTH in the
\* queue opens the session, and nothing queued before survives it.
THEOREM SessionOpensOnReplyHolds == Spec => SessionOpensOnReply
<1>1. TypeOK /\ QueueShape /\ [Next]_vars =>
        (state \notin {"OPEN", "JOIN"} /\ state' \in {"OPEN", "JOIN"} =>
          /\ state = "AUTH" /\ In("REPLY") /\ input.ok
          /\ \E i \in DOMAIN stack : stack[i].type = "AUTH" /\ stack[i].id = input.ref
          /\ stack' = <<>>)
  BY OpensOnReply
<1> QED  BY <1>1, TypeCorrect, QueueShapeHolds, PTL DEF Spec, SessionOpensOnReply

-----------------------------------------------------------------------------
(* Confirmations and retransmissions *)

LEMMA PassConfirms ==
    ASSUME TypeOK, [Next]_vars, pc = "fsm", pc' = "poll", state \in {"OPEN", "JOIN"},
           input.type \in {"MSG", "PING"},
           ~(state = "OPEN" /\ stack = <<>> /\ Out("JOIN"))
    PROVE  Datagram("CONFIRM", input.id, NoArg) \in sent'
<1>1. \/ Accepts("none_none_msg_confirm_no")
      \/ Accepts("none_none_ping_confirm_no")
  BY DEF Accepts, In
<1>2. CASE EdgeStep
  <2>1. MsgConfirm \/ PingConfirm
    <3> SUFFICES ASSUME NEW rule, TakeEdge(rule)
                 PROVE  rule \in {"none_none_msg_confirm_no", "none_none_ping_confirm_no"}
      BY <1>2 DEF EdgeStep, EmptyAuth, ErrBye, NanBye, AuthMinus, NegativeReply, AuthZero,
           PositiveReply, MsgErr, MsgConfirm, QueueMsg, MsgMinus, MsgConfirmed,
           PingConfirm, MsgJoinZero, EmptyJoin, JoinAgain, JoinConfirmed, JoinMinus,
           JoinReply, AnyReplyErr
    <3>1. CASE state = "JOIN"
      BY <1>1, <3>1, EarlierEdges
    <3>2. CASE state = "OPEN"
      <4>1. rule \notin {"empty_join_nan_join_no", "join_join_nan_join_no",
                         "msgjoinzero_none_nan_nan_no", "msg_msgminus_nan_msgminus_yes"}
        BY <3>2, EdgeTaken DEF Accepts, In
      <4>2. rule \notin {"none_msg_nan_msg_no", "msg_none_confirm_nan_no",
                         "none_none_errbye_nan_no", "none_none_nan_bye_no",
                         "none_none_anyreply_err_no"}
        BY <1>1, <3>2, EarlierEdges
      <4> QED  BY <3>2, <4>1, <4>2, EdgeTaken
    <3> QED  BY <3>1, <3>2
  <2> QED  BY <2>1 DEF MsgConfirm, PingConfirm, SendConfirm
<1>3. CASE NoEdge
  <2>1. /\ 5 \in DOMAIN Edges["OPEN"] /\ Edges["OPEN"][5][1] = "none_none_msg_confirm_no"
        /\ 6 \in DOMAIN Edges["OPEN"] /\ Edges["OPEN"][6][1] = "none_none_ping_confirm_no"
        /\ 1 \in DOMAIN Edges["JOIN"] /\ Edges["JOIN"][1][1] = "none_none_msg_confirm_no"
        /\ 2 \in DOMAIN Edges["JOIN"] /\ Edges["JOIN"][2][1] = "none_none_ping_confirm_no"
    BY DEF Edges
  <2>2. \A i \in DOMAIN Edges[state] : ~Accepts(Edges[state][i][1])
    BY <1>3 DEF NoEdge
  <2> QED  BY <1>1, <2>1, <2>2
<1>4. CASE IdlePass
  BY <1>4 DEF IdlePass, FsmRuns, In
<1>5. CASE ~EdgeStep /\ ~NoEdge /\ ~IdlePass
  BY <1>5 DEF Next, Loop, User, ResolveFails, NoCommand, NoDatagram, LocalCommand,
              RefusedCommand, ReadCommand, ReadEof, Receive, SigInt, Tick, Terminated, vars
<1> QED  BY <1>2, <1>3, <1>4, <1>5

\* A MSG or PING of the server is confirmed, under its own ID, by the first pass
\* that looks at it: no expired timer and no command of the user delays it.
THEOREM ConfirmedPromptlyHolds == Spec => ConfirmedPromptly
<1>1. TypeOK /\ [Next]_vars =>
        (/\ pc = "fsm" /\ pc' = "poll"
         /\ state \in {"OPEN", "JOIN"}
         /\ input.type \in {"MSG", "PING"}
         /\ ~(state = "OPEN" /\ stack = <<>> /\ Out("JOIN"))
         => Datagram("CONFIRM", input.id, NoArg) \in sent')
  BY PassConfirms
<1> QED  BY <1>1, TypeCorrect, PTL DEF Spec, ConfirmedPromptly

LEMMA SendsPending ==
    ASSUME TypeOK, [Next]_vars, pc = "fsm", ~UNCHANGED vars,
           NEW d \in sent', d.type \in Commands
    PROVE  \E i \in DOMAIN stack : stack[i].type = d.type /\ stack[i].id \in {d.id, Sentinel}
<1> DEFINE Repeats(i) == /\ stack[i].type = d.type
                         /\ stack[i].id \in {d.id, Sentinel}
<1>1. ASSUME NEW i \in DOMAIN stack, Send(stack[i].type, stack[i].id)
      PROVE  Repeats(i)
  BY <1>1 DEF Send, Datagram, EncodedId
<1>2. CASE AuthMinus \/ MsgMinus
  <2>1. PICK type \in {"AUTH", "MSG"} :
          Expired(type) # {} /\ Retransmit(First(Expired(type)))
    BY <1>2, EdgeTaken DEF AuthMinus, MsgMinus, Accepts
  <2>2. First(Expired(type)) \in DOMAIN stack
    BY <2>1, FoundIsPosition DEF Expired, OfType
  <2> QED  BY <1>1, <2>1, <2>2 DEF Retransmit
<1>3. CASE JoinAgain
  <2>1. Retriable("JOIN") # {}
    BY <1>3, EdgeTaken DEF JoinAgain, Accepts
  <2>2. /\ First(Retriable("JOIN")) \in DOMAIN stack
        /\ stack[First(Retriable("JOIN"))].type = "JOIN"
    BY <2>1, FoundIsPosition DEF Retriable, OfType
  <2> QED  BY <1>1, <1>3, <2>2 DEF JoinAgain
<1>4. CASE ErrBye \/ NegativeReply \/ PositiveReply \/ MsgConfirm \/ PingConfirm \/ JoinReply
  <2>1. d.type = "CONFIRM"
    BY <1>4 DEF ErrBye, NegativeReply, PositiveReply, MsgConfirm, PingConfirm, JoinReply,
                SendConfirm, Datagram
  <2> QED  BY <2>1 DEF Commands
<1>5. CASE MsgErr \/ AnyReplyErr
  BY <1>5 DEF MsgErr, AnyReplyErr, Send, Datagram, Commands
<1>6. CASE EmptyAuth \/ NanBye \/ AuthZero \/ QueueMsg \/ MsgConfirmed \/ MsgJoinZero
             \/ EmptyJoin \/ JoinConfirmed \/ JoinMinus
  BY <1>6 DEF EmptyAuth, NanBye, AuthZero, QueueMsg, MsgConfirmed, MsgJoinZero,
              EmptyJoin, JoinConfirmed, JoinMinus, SendNothing
<1>7. CASE SigInt
  BY <1>7 DEF SigInt, Send, Datagram, Commands
<1>8. CASE ~EdgeStep /\ ~SigInt
  <2>1. sent' = {}
    BY <1>8 DEF Next, Loop, User, NoEdge, IdlePass, ResolveFails, NoCommand, NoDatagram,
           LocalCommand, RefusedCommand, ReadCommand, ReadEof, Receive, Tick, Terminated,
           SendNothing
  <2> QED  BY <2>1
<1> QED  BY <1>2, <1>3, <1>4, <1>5, <1>6, <1>7, <1>8 DEF EdgeStep

\* What the automaton sends again is a message that waits in the queue, under the
\* ID the server has seen it with, even after messageID wrapped.
THEOREM RetransmitsPendingHolds == Spec => RetransmitsPending
<1>1. TypeOK /\ [Next]_vars /\ ~UNCHANGED vars =>
        (pc = "fsm" =>
           \A d \in sent' : d.type \in Commands =>
             \E i \in DOMAIN stack : /\ stack[i].type = d.type
                                     /\ stack[i].id \in {d.id, Sentinel})
  BY SendsPending
<1> QED  BY <1>1, TypeCorrect, PTL DEF Spec, RetransmitsPending

-----------------------------------------------------------------------------
(* No message is lost *)

\* Message e is still in the queue after this step, not behind position i.
Stays(e, i) == \E j \in DOMAIN stack' : j <= i /\ SameMessage(stack'[j], e)

\* It stays when the positions before and at its own keep their messages,
LEMMA StaysInPlace ==
    ASSUME TypeOK, NEW i \in DOMAIN stack, i \in DOMAIN stack',
           stack'[i].type = stack[i].type, stack'[i].id = stack[i].id,
           stack'[i].arg = stack[i].arg
    PROVE  Stays(stack[i], i)
<1>1. i <= i
  BY DEF TypeOK
<1> QED  BY <1>1 DEF Stays, SameMessage

\* or when others are erased.
LEMMA StaysOnErase ==
    ASSUME TypeOK, NEW S, NEW i \in DOMAIN stack, i \notin S, stack' = EraseAt(stack, S)
    PROVE  Stays(stack[i], i)
BY EraseAtFacts DEF TypeOK, Stays, SameMessage

LEMMA EdgeStepKeeps ==
    ASSUME TypeOK, QueueShape, EdgeStep,
           NEW i \in DOMAIN stack, HasRetransmissions(stack[i]), ~Answered(stack[i])
    PROVE  Stays(stack[i], i)
<1>0. /\ stack \in Seq(Element) /\ DOMAIN stack = 1 .. Len(stack) /\ Len(stack) \in Nat
      /\ stack[i] \in Element
  BY DEF TypeOK
<1>1. ASSUME NEW k \in DOMAIN stack, NEW e, e.type = stack[k].type, e.id = stack[k].id,
             e.arg = stack[k].arg, stack' = [stack EXCEPT ![k] = e]
      PROVE  Stays(stack[i], i)
  <2>1. i \in DOMAIN stack' /\ stack'[i] = IF i = k THEN e ELSE stack[i]
    BY <1>1
  <2> QED  BY <1>1, <2>1, StaysInPlace
<1>2. ASSUME NEW e \in Element
      PROVE  /\ Decrement(e).type = e.type /\ Decrement(e).id = e.id
             /\ Decrement(e).arg = e.arg
             /\ LET f == [Decrement(e) EXCEPT !.tries = e.tries + 1]
                IN  f.type = e.type /\ f.id = e.id /\ f.arg = e.arg
  BY DEF Decrement, Element
<1>3. ASSUME NEW k \in DOMAIN stack, Retransmit(k) PROVE Stays(stack[i], i)
  <2>1. stack[k] \in Element
    BY <1>0
  <2> QED  BY <1>1, <1>2, <1>3, <2>1 DEF Retransmit
<1>4. CASE ErrBye \/ NanBye \/ MsgErr \/ MsgConfirm \/ PingConfirm \/ JoinConfirmed
             \/ AnyReplyErr
  <2>1. stack' = stack
    BY <1>4 DEF ErrBye, NanBye, MsgErr, MsgConfirm, PingConfirm, JoinConfirmed, AnyReplyErr
  <2> QED  BY <2>1, StaysInPlace
<1>5. CASE EmptyAuth \/ EmptyJoin
  <2>1. stack = <<>>
    BY <1>5, EdgeTaken DEF EmptyAuth, EmptyJoin, Accepts
  <2> QED  BY <2>1
<1>6. CASE QueueMsg
  <2>1. stack' = Append(stack, NewElement(output))
    BY <1>6 DEF QueueMsg
  <2>2. i \in DOMAIN stack' /\ stack'[i] = stack[i]
    BY <1>0, <2>1
  <2> QED  BY <2>2, StaysInPlace
<1>7. CASE AuthMinus
  <2>1. Expired("AUTH") # {}
    BY <1>7, EdgeTaken DEF AuthMinus, Accepts
  <2>2. First(Expired("AUTH")) \in DOMAIN stack
    BY <2>1, FoundIsPosition DEF Expired, OfType
  <2> QED  BY <1>3, <1>7, <2>2 DEF AuthMinus
<1>8. CASE MsgMinus
  <2>1. Expired("MSG") # {}
    BY <1>8, EdgeTaken DEF MsgMinus, Accepts
  <2>2. First(Expired("MSG")) \in DOMAIN stack
    BY <2>1, FoundIsPosition DEF Expired, OfType
  <2> QED  BY <1>3, <1>8, <2>2 DEF MsgMinus
<1>9. CASE NegativeReply
  <2>1. state = "AUTH" /\ In("REPLY") /\ stack' = EraseAt(stack, Replied)
    BY <1>9, EdgeTaken DEF NegativeReply, Accepts
  <2>2. i \notin Replied
    BY <2>1 DEF Replied, WithId, Answered
  <2> QED  BY <2>1, <2>2, StaysOnErase
<1>10. CASE AuthZero \/ MsgJoinZero
  <2>1. stack' = EraseAt(stack, Exhausted)
    BY <1>10 DEF AuthZero, MsgJoinZero
  <2>2. i \notin Exhausted
    BY DEF Exhausted
  <2> QED  BY <2>1, <2>2, StaysOnErase
<1>11. CASE PositiveReply
  <2>1. state = "AUTH" /\ In("REPLY") /\ Replied # {}
          /\ stack' = EraseAt(stack, {First(Replied)})
    BY <1>11, EdgeTaken DEF PositiveReply, Accepts
  <2>2. i # First(Replied)
    BY <2>1, FoundIsPosition DEF Replied, WithId, Answered
  <2> QED  BY <2>1, <2>2, StaysOnErase
<1>12. CASE MsgConfirmed
  <2>1. state = "OPEN" /\ In("CONFIRM") /\ stack' = EraseAt(stack, ConfirmedMsg)
    BY <1>12, EdgeTaken DEF MsgConfirmed, Accepts
  <2>2. i \notin ConfirmedMsg
    BY <2>1 DEF ConfirmedMsg, WithId, Answered
  <2> QED  BY <2>1, <2>2, StaysOnErase
<1>13. CASE JoinReply
  <2>1. state = "JOIN" /\ In("REPLY") /\ Expired("JOIN") # {}
          /\ stack' = EraseAt(stack, {First(Expired("JOIN"))})
    BY <1>13, EdgeTaken DEF JoinReply, Accepts
  <2>2. stack[First(Expired("JOIN"))].type = "JOIN"
    BY <2>1, FoundIsPosition DEF Expired, OfType
  <2>3. i # First(Expired("JOIN"))
    BY <2>1, <2>2 DEF Answered
  <2> QED  BY <2>1, <2>3, StaysOnErase
<1>14. CASE JoinMinus
  <2> DEFINE k == First(Expired("JOIN"))
  <2>1. Expired("JOIN") # {}
    BY <1>14, EdgeTaken DEF JoinMinus, Accepts
  <2>2. k \in DOMAIN stack /\ stack[k] \in Element
    BY <2>1, FoundIsPosition DEF Expired, OfType
  <2>3. stack' = [stack EXCEPT ![k] = Decrement(stack[k])]
    BY <1>14 DEF JoinMinus
  <2> HIDE DEF k
  <2> QED  BY <1>1, <1>2, <2>2, <2>3
<1>15. CASE JoinAgain
  <2> DEFINE k == First(Retriable("JOIN"))
             e == [stack[k] EXCEPT !.tries = @ + 1]
  <2>1. Retriable("JOIN") # {}
    BY <1>15, EdgeTaken DEF JoinAgain, Accepts
  <2>2. k \in DOMAIN stack /\ stack[k] \in Element
    BY <2>1, FoundIsPosition DEF Retriable, OfType
  <2>3. stack' = [stack EXCEPT ![k] = e]
    BY <1>15 DEF JoinAgain
  <2>4. e.type = stack[k].type /\ e.id = stack[k].id /\ e.arg = stack[k].arg
    BY <2>2 DEF Element
  <2> HIDE DEF k, e
  <2> QED  BY <1>1, <2>2, <2>3, <2>4
<1> QED  BY <1>4, <1>5, <1>6, <1>7, <1>8, <1>9, <1>10, <1>11, <1>12, <1>13, <1>14,
            <1>15 DEF EdgeStep

LEMMA NextKeeps ==
    ASSUME TypeOK, QueueShape, [Next]_vars,
           NEW i \in DOMAIN stack, HasRetransmissions(stack[i]), ~Answered(stack[i])
    PROVE  Stays(stack[i], i)
<1>1. CASE EdgeStep
  BY <1>1, EdgeStepKeeps
<1>2. CASE ~EdgeStep
  <2>1. i \in DOMAIN stack'
    <3>1. CASE Tick
      BY <3>1 DEF Tick
    <3>2. CASE ~Tick
      BY <1>2, <3>2
         DEF Next, Loop, User, NoEdge, IdlePass, ResolveFails, NoCommand, NoDatagram,
             LocalCommand, RefusedCommand, ReadCommand, ReadEof, Receive, SigInt,
             Terminated, vars
    <3> QED  BY <3>1, <3>2
  <2> QED  BY <1>2, <2>1, OtherSteps, StaysInPlace
<1> QED  BY <1>1, <1>2

\* What the user typed is not lost: a message leaves the queue only because it was
\* answered or its retransmissions are used up, never because of a neighbour.
THEOREM RetiredOnlyByAnswerHolds == Spec => RetiredOnlyByAnswer
<1>1. TypeOK /\ QueueShape /\ [Next]_vars =>
        \A i \in DOMAIN stack :
          HasRetransmissions(stack[i]) /\ ~Answered(stack[i]) =>
            \E j \in DOMAIN stack' : j <= i /\ SameMessage(stack'[j], stack[i])
  BY NextKeeps DEF Stays
<1> QED  BY <1>1, TypeCorrect, QueueShapeHolds, PTL DEF Spec, RetiredOnlyByAnswer

-----------------------------------------------------------------------------
(* The farewell *)

\* A BYE without an input, while nothing in the queue is due: no lambda but that
\* of the BYE and, outside its only edge, that of a repeated JOIN returns true.
LEMMA LoneByeAccepts ==
    ASSUME Out("BYE"), In("NONE"),
           \A i \in DOMAIN stack :
             /\ HasRetransmissions(stack[i]) /\ ~IsExpired(stack[i])
             /\ state = "OPEN" => stack[i].type # "JOIN",
           NEW rule, Accepts(rule)
    PROVE  \/ rule = "none_none_nan_bye_no"
           \/ rule = "join_join_nan_join_no" /\ state # "OPEN"
<1>1. Exhausted = {} /\ \A type : Expired(type) = {}
  BY DEF Exhausted, Expired, OfType
<1>2. state = "OPEN" => Retriable("JOIN") = {}
  BY DEF Retriable, OfType
<1> QED  BY <1>1, <1>2 DEF Accepts, In, Out

\* Every state but END has the edge of a BYE, and only OPEN that of a repeated JOIN.
LEMMA ByeEdges ==
    ASSUME state \in States
    PROVE  /\ state # "END" => \E i \in DOMAIN Edges[state] :
                                  Edges[state][i][1] = "none_none_nan_bye_no"
           /\ state # "OPEN" => \A i \in DOMAIN Edges[state] :
                                  Edges[state][i][1] # "join_join_nan_join_no"
<1>1. CASE state = "START"
  <2>1. DOMAIN Edges[state] = 1 .. 3 /\ Edges[state][2][1] = "none_none_nan_bye_no"
    BY <1>1 DEF Edges
  <2>2. \A i \in 1 .. 3 : Edges[state][i][1] # "join_join_nan_join_no"
    BY <1>1 DEF Edges
  <2> QED  BY <2>1, <2>2, 2 \in 1 .. 3
<1>2. CASE state = "AUTH"
  <2>1. DOMAIN Edges[state] = 1 .. 8 /\ Edges[state][3][1] = "none_none_nan_bye_no"
    BY <1>2 DEF Edges
  <2>2. \A i \in 1 .. 8 : Edges[state][i][1] # "join_join_nan_join_no"
    BY <1>2 DEF Edges
  <2> QED  BY <2>1, <2>2, 3 \in 1 .. 8
<1>3. CASE state = "OPEN"
  <2>1. DOMAIN Edges[state] = 1 .. 11 /\ Edges[state][10][1] = "none_none_nan_bye_no"
    BY <1>3 DEF Edges
  <2> QED  BY <1>3, <2>1, 10 \in 1 .. 11
<1>4. CASE state = "JOIN"
  <2>1. DOMAIN Edges[state] = 1 .. 7 /\ Edges[state][6][1] = "none_none_nan_bye_no"
    BY <1>4 DEF Edges
  <2>2. \A i \in 1 .. 7 : Edges[state][i][1] # "join_join_nan_join_no"
    BY <1>4 DEF Edges
  <2> QED  BY <2>1, <2>2, 6 \in 1 .. 7
<1>5. CASE state = "END"
  BY <1>5 DEF Edges
<1> QED  BY <1>1, <1>2, <1>3, <1>4, <1>5 DEF States

\* In the pass that looks at such a BYE.
LEMMA LoneByeEndsPass ==
    ASSUME TypeOK, [Next]_vars, pc = "fsm", pc' # "fsm", Out("BYE"), In("NONE"),
           \A i \in DOMAIN stack :
             /\ HasRetransmissions(stack[i]) /\ ~IsExpired(stack[i])
             /\ state = "OPEN" => stack[i].type # "JOIN"
    PROVE  state' = "END"
<1>1. CASE EdgeStep
  <2>1. PICK rule : TakeEdge(rule)
    BY <1>1 DEF EdgeStep, EmptyAuth, ErrBye, NanBye, AuthMinus, NegativeReply, AuthZero,
                PositiveReply, MsgErr, MsgConfirm, QueueMsg, MsgMinus, MsgConfirmed,
                PingConfirm, MsgJoinZero, EmptyJoin, JoinAgain, JoinConfirmed, JoinMinus,
                JoinReply, AnyReplyErr
  <2>2. Accepts(rule)
    BY <2>1, EdgeTaken
  <2>3. \/ rule = "none_none_nan_bye_no"
        \/ rule = "join_join_nan_join_no" /\ state # "OPEN"
    BY <2>2, LoneByeAccepts
  <2> QED  BY <2>1, <2>3, EdgeTaken
<1>2. CASE ~EdgeStep /\ state # "END"
  <2>1. PICK i \in DOMAIN Edges[state] : Edges[state][i][1] = "none_none_nan_bye_no"
    BY <1>2, ByeEdges DEF TypeOK
  <2>2. Accepts(Edges[state][i][1])
    BY <2>1 DEF Accepts
  <2>3. FsmRuns
    BY DEF FsmRuns, Out
  <2>4. ~NoEdge /\ ~IdlePass
    BY <2>2, <2>3 DEF NoEdge, IdlePass
  <2>5. ~ResolveFails
    <3>1. SUFFICES ASSUME NEW j \in DOMAIN Edges[state], Fires(j),
                          Edges[state][j][1] \in Sending
                   PROVE  FALSE
      BY DEF ResolveFails
    <3>2. Accepts(Edges[state][j][1])
      BY <3>1 DEF Fires
    <3>3. \/ Edges[state][j][1] = "none_none_nan_bye_no"
          \/ Edges[state][j][1] = "join_join_nan_join_no" /\ state # "OPEN"
      BY <3>2, LoneByeAccepts
    <3> QED  BY <3>1, <3>3, ByeEdges DEF Sending, TypeOK
  <2> QED  BY <1>2, <2>4, <2>5
           DEF Next, Loop, User, NoCommand, NoDatagram, LocalCommand, RefusedCommand,
               ReadCommand, ReadEof, Receive, SigInt, Tick, Terminated, vars
<1>3. CASE ~EdgeStep /\ state = "END"
  BY <1>3, OtherSteps
<1> QED  BY <1>1, <1>2, <1>3

\* Once exit() has left its BYE and nothing else is due, no edge and no missing
\* edge, no failing resolver and no second signal keeps the client in its session.
THEOREM LoneByeEndsHolds == Spec => LoneByeEnds
<1>1. TypeOK /\ [Next]_vars =>
        (/\ pc = "fsm" /\ pc' # "fsm"
         /\ Out("BYE") /\ In("NONE")
         /\ \A i \in DOMAIN stack :
              /\ HasRetransmissions(stack[i]) /\ ~IsExpired(stack[i])
              /\ state = "OPEN" => stack[i].type # "JOIN"
         => state' = "END")
  BY LoneByeEndsPass
<1> QED  BY <1>1, TypeCorrect, PTL DEF Spec, LoneByeEnds

-----------------------------------------------------------------------------
(* The session *)

\* The shape of the queue decides what is asked: in AUTH the queue is the request,
\* in JOIN there always is one, in OPEN there is none or a JOIN at the front.
LEMMA RequestFacts ==
    ASSUME TypeOK, QueueShape
    PROVE  /\ state = "START" => Request = "none"
           /\ state = "AUTH" => Request = IF stack = <<>> THEN "none" ELSE "AUTH"
           /\ state = "OPEN" => Request = IF stack # <<>> /\ stack[1].type = "JOIN"
                                          THEN "JOIN" ELSE "none"
           /\ state = "JOIN" => Request = "JOIN"
           /\ state = "END" => Request = "none"
<1>1. stack # <<>> => 1 \in DOMAIN stack /\ stack[1].type \in Commands
  <2>1. stack # <<>> => 1 \in DOMAIN stack /\ stack[1] \in Element
    BY DEF TypeOK
  <2> QED  BY <2>1 DEF Element
<1> QED  BY <1>1 DEF Request, QueueShape, Commands

\* The same of the state a step leads to.
LEMMA NextRequestFacts ==
    ASSUME TypeOK', QueueShape'
    PROVE  /\ state' = "AUTH" => Request' = IF stack' = <<>> THEN "none" ELSE "AUTH"
           /\ state' = "OPEN" => Request' = IF stack' # <<>> /\ stack'[1].type = "JOIN"
                                            THEN "JOIN" ELSE "none"
           /\ state' = "JOIN" => Request' = "JOIN"
           /\ state' = "END" => Request' = "none"
<1>1. stack' # <<>> => 1 \in DOMAIN stack' /\ stack'[1].type \in Commands
  <2>1. stack' # <<>> => 1 \in DOMAIN stack' /\ stack'[1] \in Element
    BY DEF TypeOK
  <2> QED  BY <2>1 DEF Element
<1> QED  BY <1>1 DEF Request, QueueShape, Commands

\* A step that keeps the types in the queue, and the state, keeps the request.
LEMMA SameRequest ==
    ASSUME TypeOK, TypeOK', SameTypes, state' = state
    PROVE  Request' = Request
<1>1. /\ stack \in Seq(Element) /\ DOMAIN stack = 1 .. Len(stack) /\ Len(stack) \in Nat
      /\ stack' \in Seq(Element)
  BY DEF TypeOK
<1>2. stack' = <<>> <=> stack = <<>>
  BY <1>1 DEF SameTypes
<1>3. stack # <<>> => 1 \in DOMAIN stack
  BY <1>1
<1> QED  BY <1>2, <1>3 DEF SameTypes, Request

\* Erasing from the queue asks nothing new.
LEMMA ErasedRequest ==
    ASSUME TypeOK, TypeOK', QueueShape, QueueShape', NEW S, stack' = EraseAt(stack, S),
           state \in {"AUTH", "OPEN"}, state' = state
    PROVE  Request' \in {Request, "none"}
<1>1. \A k \in DOMAIN stack' : \E i \in DOMAIN stack : k <= i /\ stack'[k] = stack[i]
  BY EraseAtFacts DEF TypeOK
<1>2. stack' # <<>> => 1 \in DOMAIN stack'
  BY DEF TypeOK
<1>3. DOMAIN stack = 1 .. Len(stack) /\ Len(stack) \in Nat
  BY DEF TypeOK
<1>4. CASE state = "AUTH"
  <2>1. stack' # <<>> => stack # <<>>
    BY <1>1, <1>2
  <2> QED  BY <1>4, <2>1, RequestFacts, NextRequestFacts
<1>5. CASE state = "OPEN"
  <2>1. stack' # <<>> /\ stack'[1].type = "JOIN" => stack # <<>> /\ stack[1].type = "JOIN"
    BY <1>1, <1>2 DEF QueueShape
  <2> QED  BY <1>5, <2>1, RequestFacts, NextRequestFacts
<1> QED  BY <1>4, <1>5

-----------------------------------------------------------------------------
(* Steps of the automaton *)

\* Taking an edge happens while the client runs, and stops it only in END.
LEMMA EdgeRunning ==
    ASSUME TypeOK, EdgeStep
    PROVE  /\ Running
           /\ state # "END"
           /\ state' # "END" => Running'
           /\ Running' \in BOOLEAN
<1>1. PICK rule : TakeEdge(rule)
  BY DEF EdgeStep, EmptyAuth, ErrBye, NanBye, AuthMinus, NegativeReply, AuthZero,
         PositiveReply, MsgErr, MsgConfirm, QueueMsg, MsgMinus, MsgConfirmed,
         PingConfirm, MsgJoinZero, EmptyJoin, JoinAgain, JoinConfirmed, JoinMinus,
         JoinReply, AnyReplyErr
<1>2. state # "END"
  BY <1>1, EdgeTaken
<1> QED  BY <1>1, <1>2 DEF TakeEdge, Running

LEMMA EdgeStepSession ==
    ASSUME TypeOK, TypeOK', QueueShape, QueueShape', EdgeStep
    PROVE  [Session!Next]_(Session!session)
<1>1. /\ DOMAIN stack = 1 .. Len(stack) /\ Len(stack) \in Nat /\ stack \in Seq(Element)
      /\ Running /\ Running' \in BOOLEAN /\ state # "END" /\ (state' # "END" => Running')
  BY EdgeRunning DEF TypeOK
<1>2. ASSUME state' = "END"
      PROVE  Session!Leave
  BY <1>1, <1>2, NextRequestFacts DEF Session!Leave
<1>3. ASSUME state' = state, Request' = Request
      PROVE  UNCHANGED Session!session
  <2>1. Running' = Running
    BY <1>1, <1>3 DEF Running
  <2> QED  BY <1>3, <2>1 DEF Session!session
<1>4. ASSUME state \in {"AUTH", "OPEN"}, state' = state, Request' = "none", Request # "none"
      PROVE  Session!GiveUp
  BY <1>1, <1>4 DEF Session!GiveUp, Running
<1>5. ASSUME state \in {"AUTH", "OPEN"}, state' = state, NEW S, stack' = EraseAt(stack, S)
      PROVE  Session!GiveUp \/ UNCHANGED Session!session
  BY <1>3, <1>4, <1>5, ErasedRequest
<1>6. ASSUME state' = state, SameTypes
      PROVE  UNCHANGED Session!session
  BY <1>3, <1>6, SameRequest
<1>7. \A i \in DOMAIN stack : Retransmit(i) => SameTypes
  BY <1>1 DEF SameTypes, Retransmit, Decrement, Element
<1>8. stack' = stack => SameTypes
  BY DEF SameTypes
<1>10. CASE EmptyAuth
  <2>1. state \in {"START", "AUTH"} /\ state' = "AUTH" /\ stack = <<>>
    BY <1>10, EdgeTaken DEF EmptyAuth, Accepts
  <2>2. Request = "none" /\ Request' = "AUTH"
    <3>1. stack' # <<>>
      BY <1>10 DEF EmptyAuth
    <3> QED  BY <2>1, <3>1, RequestFacts, NextRequestFacts
  <2> QED  BY <1>1, <2>1, <2>2 DEF Session!Next, Session!Ask, Running
<1>11. CASE ErrBye \/ NanBye \/ MsgErr \/ AnyReplyErr
  <2>1. state' = "END"
    BY <1>11, EdgeTaken DEF ErrBye, NanBye, MsgErr, AnyReplyErr
  <2> QED  BY <1>2, <2>1 DEF Session!Next
<1>12. CASE AuthMinus
  <2>1. Expired("AUTH") # {} /\ state' = state
    BY <1>12, EdgeTaken DEF AuthMinus, Accepts
  <2>2. First(Expired("AUTH")) \in DOMAIN stack
    BY <2>1, FoundIsPosition DEF Expired, OfType
  <2> QED  BY <1>6, <1>7, <1>12, <2>1, <2>2 DEF AuthMinus
<1>13. CASE MsgMinus
  <2>1. Expired("MSG") # {} /\ state' = state
    BY <1>13, EdgeTaken DEF MsgMinus, Accepts
  <2>2. First(Expired("MSG")) \in DOMAIN stack
    BY <2>1, FoundIsPosition DEF Expired, OfType
  <2> QED  BY <1>6, <1>7, <1>13, <2>1, <2>2 DEF MsgMinus
<1>14. CASE NegativeReply \/ AuthZero \/ MsgConfirmed \/ MsgJoinZero
  <2>1. state \in {"AUTH", "OPEN"} /\ state' = state
    BY <1>14, EdgeTaken DEF NegativeReply, AuthZero, MsgConfirmed, MsgJoinZero
  <2>2. \E S : stack' = EraseAt(stack, S)
    BY <1>14 DEF NegativeReply, AuthZero, MsgConfirmed, MsgJoinZero
  <2> QED  BY <1>5, <2>1, <2>2 DEF Session!Next
<1>15. CASE PositiveReply
  <2>1. state = "AUTH" /\ state' = "OPEN" /\ Replied # {}
    BY <1>15, EdgeTaken DEF PositiveReply, Accepts
  <2>2. stack' = <<>>
    BY <1>15, <2>1, ErasedInAuth DEF PositiveReply
  <2>3. stack # <<>>
    BY <2>1 DEF Replied, WithId
  <2>4. Request = "AUTH" /\ Request' = "none"
    BY <2>1, <2>2, <2>3, RequestFacts, NextRequestFacts
  <2> QED  BY <1>1, <2>1, <2>4 DEF Session!Next, Session!Answer, Running
<1>16. CASE MsgConfirm \/ PingConfirm \/ JoinConfirmed
  <2>1. state' = state /\ stack' = stack
    BY <1>16, EdgeTaken DEF MsgConfirm, PingConfirm, JoinConfirmed
  <2> QED  BY <1>6, <1>8, <2>1
<1>17. CASE QueueMsg
  <2>1. state = "OPEN" /\ state' = "OPEN" /\ Out("MSG")
    BY <1>17, EdgeTaken DEF QueueMsg, Accepts
  <2>2. stack' = Append(stack, NewElement(output)) /\ NewElement(output).type = "MSG"
    BY <1>17, <2>1 DEF QueueMsg, NewElement, Out
  <2>3. stack' # <<>> /\ stack'[1] = IF stack = <<>> THEN NewElement(output) ELSE stack[1]
    BY <1>1, <2>2
  <2>4. Request' = Request
    BY <2>1, <2>2, <2>3, RequestFacts, NextRequestFacts
  <2> QED  BY <1>3, <2>1, <2>4
<1>18. CASE EmptyJoin
  <2>1. state = "OPEN" /\ state' = "JOIN" /\ stack = <<>>
    BY <1>18, EdgeTaken DEF EmptyJoin, Accepts
  <2>2. Request = "none" /\ Request' = "JOIN"
    BY <2>1, RequestFacts, NextRequestFacts
  <2> QED  BY <1>1, <2>1, <2>2 DEF Session!Next, Session!Ask, Running
<1>19. CASE JoinAgain
  <2>1. state = "OPEN" /\ state' = "JOIN" /\ Retriable("JOIN") # {}
    BY <1>19, EdgeTaken DEF JoinAgain, Accepts
  <2>2. PICK i \in DOMAIN stack : stack[i].type = "JOIN"
    BY <2>1 DEF Retriable, OfType
  <2>3. Request = "JOIN" /\ Request' = "JOIN"
    BY <2>1, <2>2, RequestFacts, NextRequestFacts DEF QueueShape
  <2> QED  BY <1>1, <2>1, <2>3 DEF Session!Next, Session!Resume, Running
<1>20. CASE JoinMinus
  <2>1. state = "JOIN" /\ state' = "OPEN"
    BY <1>20, EdgeTaken DEF JoinMinus
  <2>2. SameTypes
    BY <1>1, <1>20 DEF JoinMinus, SameTypes, Decrement, Element
  <2>3. stack # <<>> /\ stack[1].type = "JOIN"
    BY <2>1 DEF QueueShape
  <2>4. stack' # <<>> /\ stack'[1].type = "JOIN"
    BY <1>1, <2>2, <2>3 DEF SameTypes
  <2>5. Request = "JOIN" /\ Request' = "JOIN"
    BY <2>1, <2>4, RequestFacts, NextRequestFacts
  <2> QED  BY <1>1, <2>1, <2>5 DEF Session!Next, Session!Suspend, Running
<1>21. CASE JoinReply
  <2>1. state = "JOIN" /\ state' = "OPEN" /\ Expired("JOIN") # {}
    BY <1>21, EdgeTaken DEF JoinReply, Accepts
  <2>2. stack[First(Expired("JOIN"))].type = "JOIN" /\ First(Expired("JOIN")) \in DOMAIN stack
    BY <2>1, FoundIsPosition DEF Expired, OfType
  <2>3. First(Expired("JOIN")) = 1
    BY <2>2 DEF QueueShape
  <2>4. stack' = EraseAt(stack, {1})
    BY <1>21, <2>3 DEF JoinReply
  <2>5. \A k \in DOMAIN stack' : \E i \in DOMAIN stack \ {1} : stack'[k] = stack[i]
    BY <1>1, <2>4, EraseAtFacts
  <2>6. stack' # <<>> => 1 \in DOMAIN stack'
    BY DEF TypeOK
  <2>7. stack' # <<>> => stack'[1].type # "JOIN"
    BY <2>5, <2>6 DEF QueueShape
  <2>8. Request = "JOIN" /\ Request' = "none"
    BY <2>1, <2>7, RequestFacts, NextRequestFacts
  <2> QED  BY <1>1, <2>1, <2>8 DEF Session!Next, Session!Answer, Running
<1> QED  BY <1>10, <1>11, <1>12, <1>13, <1>14, <1>15, <1>16, <1>17, <1>18, <1>19,
            <1>20, <1>21 DEF EdgeStep

-----------------------------------------------------------------------------
(* The refinement *)

\* Every other step leaves the session alone, or stops the client for good.
LEMMA OtherStepsSession ==
    ASSUME TypeOK, TypeOK', [Next]_vars, ~EdgeStep
    PROVE  [Session!Next]_(Session!session)
<1>1. state' = state /\ SameTypes
  BY OtherSteps DEF SameTypes
<1>2. Request' = Request
  BY <1>1, SameRequest
<1>3. pc = "stopped" => pc' = "stopped"
  BY DEF Next, Loop, User, NoEdge, IdlePass, ResolveFails, NoCommand, NoDatagram,
         LocalCommand, RefusedCommand, ReadCommand, ReadEof, Receive, SigInt, Tick,
         Terminated, vars
<1>4. CASE pc # "stopped" /\ pc' = "stopped"
  BY <1>1, <1>2, <1>4 DEF Session!Next, Session!Stop, Running
<1>5. CASE pc = "stopped" \/ pc' # "stopped"
  BY <1>1, <1>2, <1>3, <1>5 DEF Session!session, Running
<1> QED  BY <1>4, <1>5

\* The UDP client keeps what a chat session promises, through every timeout,
\* retransmission, repeated or unasked answer: at most one request waits, only its
\* answer opens the session, and a client that stopped stays stopped.
THEOREM SessionImplementedHolds == Spec => SessionImplemented
<1>1. Init => Session!Init
  BY DEF Init, Session!Init, Request, Running
<1>2. TypeOK /\ TypeOK' /\ QueueShape /\ QueueShape' /\ [Next]_vars
        => [Session!Next]_(Session!session)
  BY EdgeStepSession, OtherStepsSession
<1> QED  BY <1>1, <1>2, TypeCorrect, QueueShapeHolds, PTL
         DEF Spec, SessionImplemented, Session!Spec

=============================================================================

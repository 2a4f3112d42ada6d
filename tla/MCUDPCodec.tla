----------------------------- MODULE MCUDPCodec -----------------------------
\* A small instance of UDPCodec: strings of at most six characters, among them
\* the empty one, one with a newline, one that is too long and one that looks
\* like a substitution; whole datagrams, their prefixes and their extensions.
EXTENDS UDPCodec

Joe == <<106, 111, 101>>
Looks == Sub(Ess, Secret)
Newline == <<106, 10>>
Bang == <<33, 106>>

Msg(type, id, ref, author, text) ==
    [type |-> type, id |-> id, ref |-> ref, author |-> author, text |-> text]

Plain == [username |-> Joe, secret |-> Joe, channel |-> Joe]
Odd == [username |-> Bang, secret |-> Looks, channel |-> <<45, 46>>]

MCSendings ==
    [message : {Msg("MSG", id, 0, Joe, text) : id \in {1, NoId}, text \in {Looks, Newline}}
                 \cup {Msg("MSG", 258, 0, Bang, <<>>), Msg("ERR", 258, 0, Looks, Bang),
                       Msg("AUTH", 2, 0, Looks, <<>>), Msg("JOIN", NoId, 0, Joe, <<>>),
                       Msg("BYE", 256, 0, Joe, <<>>), Msg("CONFIRM", NoId, 513, <<>>, <<>>),
                       Msg("PING", 256, 0, <<>>, <<>>), Msg("REPLY", 3, 4, <<>>, Joe),
                       Msg("NONE", NoId, 0, <<>>, <<>>)},
     config : {Plain}]
      \cup [message : {Msg("AUTH", NoId, 0, Joe, <<>>), Msg("AUTH", 2, 0, Bang, <<>>)},
            config : {Plain, Odd}]
      \cup [message : {Msg("MSG", 258, 0, Joe, <<106, 0, 106>>)}, config : {Plain}]
      \cup {[message |-> Msg("JOIN", 2, 0, Joe, <<>>), config |-> Odd]}

Valid ==
    {<<0, 1, 2>>, <<253, 0, 7>>, <<255, 0, 0>> \o Joe \o <<0>>}
      \cup {<<1, 0, 1, s, 2, 0>> \o Joe \o <<0>> : s \in {0, 1}}
      \cup {<<4, 0, 1>> \o Bang \o <<0>> \o Joe \o <<0>>,
            <<2, 1, 0>> \o Bang \o <<0>> \o Joe \o <<0>> \o Joe \o <<0>>,
            <<3, 0, 9>> \o Joe \o <<0>> \o Bang \o <<0>>}

\* Most of what is broken leaves something behind in controls.
Broken ==
    {<<>>, <<42, 0, 0>>, <<253, 0>>, <<1, 0, 1, 2>>, <<1, 0, 1, 1>>,
     <<1, 0, 1, 1, 2, 0, 0>>, <<1, 0, 1, 0, 2, 0>> \o Joe,
     <<4, 0, 1>> \o Joe \o <<0>> \o Newline \o <<0>>,
     <<254, 0, 1>> \o Joe \o Joe \o <<0>> \o Joe \o <<0>>,
     <<4, 0, 1>> \o Joe \o <<0>> \o Joe \o Joe \o <<0>>,
     <<3, 0, 1>> \o Bang \o <<0>> \o Joe \o <<0>>,
     <<2, 0, 1>> \o Bang \o <<0>> \o Newline}

MCDatagrams ==
    Valid \cup Broken
      \cup {d \o <<4, 0>> : d \in {<<0, 1, 2>>, <<255, 0, 0>> \o Joe \o <<0>>}}
=============================================================================

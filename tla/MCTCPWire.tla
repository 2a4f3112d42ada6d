----------------------------- MODULE MCTCPWire -----------------------------
\* Short texts for TCPWire: empty, with a placeholder, a name and a content that
\* stand for each other, placeholders that lead from value to value, with the
\* words that begin or divide a line, and a name that is too long.
EXTENDS TCPWire

MCSymbols == Fixed \cup {"joe", "pass", "hall", "hi", "other", "this", "it", "you", "a",
                         "b", "-", "no", "ok", "srv"}

Joe == <<"joe">>
Config == [username |-> Joe, secret |-> <<"pass">>, channel |-> <<"hall">>]
Message(type, author, text) ==
    [type |-> type, author |-> author, text |-> text, ok |-> FALSE]

MCTyped ==
    {[message |-> Message("MSG", Joe, text), config |-> Config] :
        text \in {<<"hi">>, <<>>, <<"LB", "Secret", "RB">>}}
      \cup {[message |-> Message(t, Joe, <<>>), config |-> Config] : t \in {"AUTH", "BYE"}}
      \cup {[message |-> Message("MSG", <<"LB", "MessageContent", "RB">>,
                                 <<"LB", "DisplayName", "RB">>), config |-> Config],
            [message |-> Message("JOIN", <<"LB", "Secret", "RB">>, <<>>),
             config |-> [Config EXCEPT !.channel = <<"a", "LB", "DisplayName", "RB", "b">>,
                                       !.secret = <<"LB", "other", "RB">>]]}

MCAnnounced ==
    {Message("MSG", Joe, text) : text \in {<<"this", "SP", "IS", "SP", "it">>,
                                           <<"IS">>, <<"BYE", "SP", "FROM", "SP", "you">>}}
      \cup {Message("ERR", <<"a", "SP", "b">>, <<"no">>),
            Message("MSG", <<"a", "-", "b", "-">>, <<"hi">>),
            [type |-> "REPLY", author |-> <<>>, ok |-> TRUE,
             text |-> <<"it", "SP", "IS", "SP", "ok">>],
            Message("BYE", <<"srv">>, <<>>)}
=============================================================================

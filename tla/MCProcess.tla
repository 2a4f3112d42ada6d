----------------------------- MODULE MCProcess -----------------------------
(* Command lines around "-t udp -s host" and "-t tcp -s host", with up to   *)
(* two more arguments at any place, and all short ones.                     *)
EXTENDS Process

plain(t) == [text |-> t, shape |-> "plain"]
dash(n) == [text |-> n, shape |-> "dash", numeric |-> FALSE, names |-> <<n>>]
many(t, ns) == [text |-> t, shape |-> "dash", numeric |-> FALSE, names |-> ns]
minus(t) == [text |-> t, shape |-> "dash", numeric |-> TRUE, names |-> <<t>>]
long(n, a) == [text |-> n, shape |-> "long", name |-> n, arg |-> a]
at(f) == [text |-> f, shape |-> "at", file |-> f]
ddash == [text |-> "--", shape |-> "ddash"]

MCFiles == "args" :> <<dash("-p"), plain("80")>> @@ "half" :> <<dash("-r")>>
           @@ "self" :> <<at("self")>> @@ "outer" :> <<at("args")>>
           @@ "deep" :> <<at("outer")>> @@ "end" :> <<dash("-h"), ddash>>
MCLiterals == "80" :> 80 @@ "300" :> 300 @@ "70000" :> 70000

More == {plain("80"), plain("300"), plain("70000"), plain(""), plain("udp"),
         dash("-p"), dash("-r"), dash("-s"), dash("-t"), dash("-h"), dash("-x"),
         minus("-5"), many("-rp", <<"-r", "-p">>), ddash,
         long("--port", "80"), long("--port", ""), long("--help", "80"),
         long("--protocol", "sctp"),
         at("args"), at("half"), at("self"), at("outer"), at("deep"), at("end"), at("none")}
Extra == {<<>>} \cup {<<a>> : a \in More} \cup {<<a, b>> : a, b \in More}

Base(t) == <<dash("-t"), plain(t), dash("-s"), plain("host")>>
MCArgvs ==
    Extra \cup {SubSeq(Base(t), 1, i) \o e \o SubSeq(Base(t), i + 1, 4) :
                  t \in {"tcp", "udp"}, i \in 0 .. 4, e \in Extra}
=============================================================================

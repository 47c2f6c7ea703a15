----------------------------- MODULE MCHttpStream -----------------------------
(* HttpStream on small instances: lengths that fit in 7 bits end at 1 and  *)
(* length bytes have two values, so that payloads of 1, 3 and 4 bytes take *)
(* the three forms of a length.                                            *)
EXTENDS HttpStream, TLC

MCByte == 0..255

Request(query, crlf, headers, body) ==
    [kind |-> "request", query |-> query, crlf |-> crlf, headers |-> headers, body |-> body]
Frame(opcode, masked, payload) ==
    [kind |-> "frame", opcode |-> opcode, masked |-> masked, payload |-> payload]

Get == Request(TRUE, TRUE, <<>>, <<>>)
Bare == Request(FALSE, FALSE, <<>>, <<>>)
Post == Request(FALSE, TRUE, <<<<<<88>>, <<>>>>, <<<<76>>, <<50>>>>>>, <<71, 10>>)
Last == Request(FALSE, FALSE, <<<<<<67>>, <<99>>>>, <<<<76>>, <<48>>>>>>, <<>>)
Unknown == Request(FALSE, TRUE, <<<<<<108>>, <<50>>>>>>, <<71, 10>>)
Upgrade == Request(FALSE, TRUE, <<<<<<85>>, <<119>>>>>>, <<>>)

Plains == {<<a, b, c>> : a, b \in {Get, Bare, Post, Last}, c \in {Bare, Post}} \cup {<<a, Unknown>> : a \in {Get, Post}}
Sockets == {<<Upgrade, Frame(9, TRUE, <<3, 5, 6, 0>>), Frame(1, TRUE, <<1, 2, 3>>), Frame(8, FALSE, <<2>>)>>,
            <<Last, Upgrade, Frame(9, TRUE, <<6>>)>>,
            <<Get, Upgrade, Frame(1, FALSE, <<1, 1>>), Frame(9, FALSE, <<>>)>>}
MCScripts == Plains \cup Sockets
===============================================================================

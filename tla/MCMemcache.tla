----------------------------- MODULE MCMemcache -----------------------------
(* Memcache connections on small scripts.                                  *)
EXTENDS Memcache

CONSTANTS c1, c2

Req(line) == [line |-> line, data |-> <<>>]

StoreReq(line, body) == [line |-> line, data |-> body \o CRLF]

A == <<"a">>
B == <<"b">>
C == <<"c">>

\* A body that looks like a command, and bytes with no line end.
Sly == <<<<"delete", "k">>, CR, LF>>
Long == [i \in 1..(MaxLine + 1) |-> A]

FirstClient == {
    <<StoreReq(<<"set", "k", "0", "0", "2">>, <<A, B>>), Req(<<"gets", "k">>)>>,
    <<StoreReq(<<"add", "k", "0", "0", "3", "noreply">>, Sly), Req(<<"get", "k">>)>>,
    <<StoreReq(<<"ms", "k", "1", "T1", "c">>, <<A>>), Req(<<"md", "k", "C1">>)>>,
    <<StoreReq(<<"cas", "k", "0", "2", "1", "1">>, <<A>>), Req(<<"mg", "k", "v", "q">>)>>,
    <<StoreReq(<<"set", "k", "0", "0", "1">>, <<A, A>>), Req(<<"mg", "k", "x">>)>>,
    <<StoreReq(<<"ms", "k", "0", "MX">>, <<>>), Req(<<"quit">>), Req(<<"version">>)>>,
    <<Req(<<"mn">>), Req(<<"version">>), [line |-> <<"stats">>, data |-> Long]>>
}

SecondClient == {
    <<StoreReq(<<"set", "k", "0", "1", "2">>, <<B, A>>), Req(<<"mg", "k", "T-1">>)>>,
    <<StoreReq(<<"ms", "k", "1", "C1", "q">>, <<B>>), Req(<<"delete", "k">>)>>,
    <<StoreReq(<<"replace", "k", "0", "0", "1">>, <<C>>), Req(<<"mg", "k", "T9", "v">>)>>
}

TwoClients == [c \in {c1, c2} |-> IF c = c1 THEN FirstClient ELSE SecondClient]
=============================================================================

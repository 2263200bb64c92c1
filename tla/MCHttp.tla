------------------------------- MODULE MCHttp -------------------------------
(* A process and an HTTP client on small instances.                        *)
EXTENDS Http

CONSTANTS ssd, hdd

PoolDirs == <<ssd, hdd>>

\* h/a, h/%2f, h/i (the index file) and H/a, which is h/a to a virtual host.
FileA == <<"h", "/", "a">>
FilePercent == <<"h", "/", "%", "2", "f">>
FileIndex == <<"h", "/", "i">>
FileUpper == <<"H", "/", "a">>

Trees == <<{FileA, FilePercent}, {FileUpper, FileIndex}>>

Contents == [f \in {FileA, FilePercent, FileIndex, FileUpper} |->
               CASE f = FileA -> "abc" [] f = FilePercent -> "d" [] f = FileUpper -> "efg"
                 [] OTHER -> ""]

Hosts == {<<"h">>}

Lengths == [c \in {"", "d", "abc", "efg", "xyz"} |->
              CASE c = "" -> 0 [] c = "d" -> 1 [] OTHER -> 3]

PathKeys == [vhost |-> FALSE, keep_query |-> FALSE, strip |-> FALSE, index |-> <<"i">>]
HostKeys == [PathKeys EXCEPT !.vhost = TRUE]
BareKeys == [PathKeys EXCEPT !.strip = TRUE, !.keep_query = TRUE, !.index = <<>>]

\* Requests: of a file, of a target, with a Range.
Get(target) == [method |-> "get", file |-> Nothing, host |-> <<"H", ":", "2">>, target |-> target,
                range |-> <<>>, inm |-> "none", close |-> FALSE]
GetFile(f) == [Get(<<>>) EXCEPT !.file = f]
Ranged(words) == [GetFile(FileA) EXCEPT !.range = <<"bytes=">> \o words]
HeadOf(r) == [r EXCEPT !.method = "head"]
Closing(r) == [r EXCEPT !.close = TRUE]
IfHeld(r) == [r EXCEPT !.inm = "held"]

Scripts == {
    <<GetFile(FileA), IfHeld(GetFile(FileA))>>,
    <<GetFile(FilePercent), Closing(HeadOf(GetFile(FileUpper))),
      Get(<<"/", "h", "/", "x", "/", ".", ".", "/">>)>>,
    <<Get(<<"/", "/", "h", "/", ".", "/", "%", "e">>), Ranged(<<"1", "-", "9">>)>>,
    <<Ranged(<<"-", "9">>), Ranged(<<"3", "-">>), Closing(Ranged(<<"2", "-", "1">>))>>,
    <<Ranged(<<"-", "0">>), Ranged(<<"0", "-", ",", "2">>), Ranged(<<"1", "-", "1">>)>>,
    <<[GetFile(FileIndex) EXCEPT !.range = <<"bytes=", "-", "2">>],
      [Get(<<>>) EXCEPT !.method = "other"]>>,
    <<[GetFile(FileA) EXCEPT !.inm = "*"], [Get(<<"/">>) EXCEPT !.host = <<".">>],
      [Get(<<>>) EXCEPT !.method = "bad"]>>
}

Quiet == [net |-> "async", opt |-> PathKeys, events |-> {}, starts |-> 1, puts |-> {},
          script |-> <<>>, tls |-> FALSE, sni |-> <<>>]

Stores == {[key |-> <<"/", "h", "/", "a">>, content |-> "xyz"]}

SmallStores == {[key |-> <<"/", "h", "/", "a">>, content |-> "d"]}

\* Clients of a process that just runs, under each of the key options ...
Browsing == {[Quiet EXCEPT !.opt = o, !.script = s, !.events = {"park", "read"}] :
                o \in {PathKeys, HostKeys, BareKeys}, s \in Scripts}

\* ... over TLS, and while memcache clients store and the process stops ...
Busy == {[Quiet EXCEPT !.script = s, !.tls = TRUE, !.sni = n] :
            s \in Scripts, n \in {<<"H">>, <<"a">>}}
        \cup {[Quiet EXCEPT !.script = <<GetFile(FileA), IfHeld(GetFile(FileA)),
                                         Closing(IfHeld(HeadOf(GetFile(FileA))))>>,
                            !.puts = Stores, !.events = {"signal"}]}

\* ... and processes in trouble, with no client.
Troubled == {[Quiet EXCEPT !.net = n, !.starts = 2, !.puts = Stores, !.events = e] :
                n \in {"async", "blocking"},
                e \in {{"crash", "remove", "user"}, {"signal", "source", "worker", "accept"},
                       {"open", "listen", "tls", "signal"}}}
            \cup {[Quiet EXCEPT !.starts = 2, !.puts = SmallStores,
                                !.events = {"crash", "walk", "scratch", "drop"}]}

AllSetups == Browsing \cup Busy \cup Troubled

\* A client revalidates after the process has started again.
Restarted == {[Quiet EXCEPT !.starts = 2,
                            !.script = <<Get(<<"/", "h", "/", "a">>),
                                         IfHeld(Get(<<"/", "h", "/", "a">>))>>,
                            !.puts = Stores \cup {[key |-> <<"/", "h", "/", "a">>, content |-> "abc"]},
                            !.events = {"crash"}]}

BlockingOnly == {[Quiet EXCEPT !.net = "blocking", !.events = {"signal"}]}

Interrupted == {[Quiet EXCEPT !.starts = 2, !.events = {"crash", "walk"}]}

Racing == {[Quiet EXCEPT !.events = {"user", "user_during_prep"}]}
=============================================================================

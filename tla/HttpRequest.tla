---------------------------- MODULE HttpRequest ----------------------------
(***************************************************************************)
(* What an HTTP request asks for: the byte range of http/request.cpp and   *)
(* the key of http/key_derivation.cpp, which the source loader shares.     *)
(*                                                                         *)
(* A path or a host is a sequence of characters.  A Range header is a      *)
(* sequence of words; the words in Digits are numbers of Offset's width.   *)
(***************************************************************************)
EXTENDS Integers, SequencesExt

CONSTANT Nothing   \* std::nullopt

\* to_u64: the words that are 64-bit numbers, with their values.
Digits == [w \in {"0", "1", "2", "3", "9"} |->
             CASE w = "0" -> 0 [] w = "1" -> 1 [] w = "2" -> 2 [] w = "3" -> 3 [] w = "9" -> 9]

IsNumber(words) == Len(words) = 1 /\ words[1] \in DOMAIN Digits

Number(words) == Digits[words[1]]

\* The part of s before the first c, and the part from there on.
Before(s, c) == IF Contains(s, c) THEN SubSeq(s, 1, SelectInSeq(s, LAMBDA x : x = c) - 1) ELSE s

From(s, c) == SubSeq(s, Len(Before(s, c)) + 1, Len(s))

Suffix(n) == [kind |-> "suffix", a |-> n, b |-> 0]
Open(a) == [kind |-> "from", a |-> a, b |-> 0]
Closed(a, b) == [kind |-> "closed", a |-> a, b |-> b]

\* Only the bytes unit and a single range are understood; anything else is
\* ignored, as if there were no header.
parse_range(value) ==
    LET spec == Tail(value)
        lo == Before(spec, "-")
        hi == Tail(From(spec, "-"))
    IN IF value = <<>> \/ value[1] # "bytes=" \/ Contains(spec, ",") \/ ~Contains(spec, "-")
       THEN Nothing
       ELSE IF lo = <<>>
       THEN IF IsNumber(hi) /\ Number(hi) # 0 THEN Suffix(Number(hi)) ELSE Nothing
       ELSE IF ~IsNumber(lo) THEN Nothing
       ELSE IF hi = <<>> THEN Open(Number(lo))
       ELSE IF IsNumber(hi) /\ Number(hi) >= Number(lo) THEN Closed(Number(lo), Number(hi))
       ELSE Nothing

LeastOf(a, b) == IF a <= b THEN a ELSE b

resolve_past_end(r, size) ==
    CASE r.kind = "closed" ->
           IF r.a >= size THEN Nothing ELSE [off |-> r.a, len |-> r.b - r.a + 1]
      [] r.kind = "from" -> IF r.a >= size THEN Nothing ELSE [off |-> r.a, len |-> size - r.a]
      [] OTHER ->
           IF size = 0 THEN Nothing
           ELSE [off |-> size - LeastOf(r.a, size), len |-> LeastOf(r.a, size)]

\* The bytes of an object of that size, or Nothing: 416.
resolve_range(r, size) ==
    CASE r.kind = "closed" ->
           IF r.a >= size THEN Nothing
           ELSE [off |-> r.a, len |-> LeastOf(r.b, size - 1) - r.a + 1]
      [] r.kind = "from" -> IF r.a >= size THEN Nothing ELSE [off |-> r.a, len |-> size - r.a]
      [] OTHER ->
           IF size = 0 THEN Nothing
           ELSE [off |-> size - LeastOf(r.a, size), len |-> LeastOf(r.a, size)]

----------------------------------------------------------------------------
(* Keys.                                                                   *)

\* hexval, and the characters this instance spells in hexadecimal.
hexval == [c \in {"2", "3", "5", "e", "f", "E", "F"} |->
             CASE c = "2" -> 2 [] c = "3" -> 3 [] c = "5" -> 5
               [] c \in {"e", "E"} -> 14 [] OTHER -> 15]

Code == [c \in {"%", ".", "/", "?"} |->
           CASE c = "%" -> <<"2", "5">> [] c = "." -> <<"2", "e">>
             [] c = "/" -> <<"2", "f">> [] c = "?" -> <<"3", "f">>]

Char(hi, lo) ==
    LET same == {c \in DOMAIN Code : hexval[Code[c][1]] = hexval[hi]
                                      /\ hexval[Code[c][2]] = hexval[lo]}
    IN IF same = {} THEN "other" ELSE CHOOSE c \in same : TRUE

\* A percent sign that no two hexadecimal digits follow stands for itself.
percent_decode(s) ==
    LET escape(i) == /\ s[i] = "%" /\ i + 2 <= Len(s)
                     /\ s[i + 1] \in DOMAIN hexval /\ s[i + 2] \in DOMAIN hexval
        rest[i \in 1..(Len(s) + 1)] ==
            IF i > Len(s) THEN <<>>
            ELSE IF escape(i) THEN <<Char(s[i + 1], s[i + 2])>> \o rest[i + 3]
            ELSE <<s[i]>> \o rest[i + 1]
    IN rest[1]

\* One segment of a path: ".." drops the last one kept, "." and an empty one
\* are dropped.
Segment(stack, seg) ==
    IF seg = <<".", ".">> THEN (IF stack = <<>> THEN stack ELSE Front(stack))
    ELSE IF seg \in {<<>>, <<".">>} THEN stack
    ELSE Append(stack, seg)

canonical_path(path, decode) ==
    LET chars == (IF decode THEN percent_decode(path) ELSE path) \o <<"/">>
        read(acc, c) == IF c = "/" THEN [stack |-> Segment(acc.stack, acc.seg), seg |-> <<>>]
                        ELSE [acc EXCEPT !.seg = Append(@, c)]
        stack == FoldLeft(read, [stack |-> <<>>, seg |-> <<>>], chars).stack
    IN IF stack = <<>> THEN <<"/">>
       ELSE FlattenSeq([i \in DOMAIN stack |-> <<"/">> \o stack[i]])

\* tolower, on the letters of this instance.
lower(s) == [i \in DOMAIN s |-> IF s[i] = "H" THEN "h" ELSE s[i]]

\* Without port and trailing dots, in lower case.
normalize_host(host) ==
    LET h == Before(host, ":")
        kept == {i \in DOMAIN h : h[i] # "."}
        n == IF kept = {} THEN 0 ELSE CHOOSE i \in kept : \A j \in kept : j <= i
    IN lower(SubSeq(h, 1, n))

\* The key of a request for a URI.  A path that ends in a slash names a
\* directory, and opt.index its index file.
derive_key(host, uri, opt) ==
    LET u == Before(uri, "#")
        path_part == Before(u, "?")
        directory == path_part = <<>> \/ Last(path_part) = "/"
        file == IF directory THEN path_part \o opt.index ELSE path_part
        key == canonical_path(file, TRUE) \o (IF opt.keep_query THEN From(u, "?") ELSE <<>>)
    IN IF opt.vhost
       THEN IF normalize_host(host) = <<>> THEN Nothing ELSE normalize_host(host) \o key
       ELSE IF opt.strip THEN Tail(key) ELSE key

relpath_decoded(relpath, opt) ==
    LET host == Before(relpath, "/")
        rest == From(relpath, "/")
        key == canonical_path(<<"/">> \o relpath, TRUE)
    IN IF opt.vhost
       THEN normalize_host(host) \o (IF rest = <<>> THEN <<"/">> ELSE canonical_path(rest, TRUE))
       ELSE IF opt.strip THEN Tail(key) ELSE key

\* The key of a file of a source tree: names on disk are literal.
derive_key_from_relpath(relpath, opt) ==
    LET host == Before(relpath, "/")
        rest == From(relpath, "/")
        key == canonical_path(<<"/">> \o relpath, FALSE)
    IN IF opt.vhost
       THEN normalize_host(host) \o (IF rest = <<>> THEN <<"/">> ELSE canonical_path(rest, FALSE))
       ELSE IF opt.strip THEN Tail(key) ELSE key
=============================================================================

---------------------------- MODULE MemcacheText ----------------------------
(***************************************************************************)
(* The memcache text protocol of protocol/memcache/protocol.cpp: how a     *)
(* command line becomes a command, and how an exptime becomes an expiry.   *)
(*                                                                         *)
(* A connection carries a sequence of cells.  A cell is a sequence of      *)
(* words: a command line without its end, or a single word that stands for *)
(* a carriage return, a line feed or a byte of data.  Numbers are the      *)
(* words in Numeral.                                                       *)
(***************************************************************************)
EXTENDS Integers, Sequences, FiniteSets

CONSTANTS
    RelativeMax,   \* the longest exptime that is relative (30 days)
    Width          \* the width in bits of an expiry (32)

ASSUME TextConfig == RelativeMax \in Nat /\ Width \in Nat \ {0}

CR == <<"cr">>
LF == <<"lf">>
CRLF == <<CR, LF>>

\* to_int: the words that are numbers, with their values.
Numeral == [w \in {"0", "1", "2", "3", "9"} |->
              CASE w = "0" -> 0 [] w = "1" -> 1 [] w = "2" -> 2 [] w = "3" -> 3 [] w = "9" -> 9]

\* The flags of a meta command: those without an argument, and T, C and M.  O and
\* F, whose arguments only come back in the reply or in the item's flags, are left
\* out; a line has at most one flag of each kind.
PlainFlags == {"v", "f", "s", "t", "c", "k", "q"}
TtlFlag == [w \in {"T-1", "T0", "T1", "T9"} |->
              CASE w = "T-1" -> -1 [] w = "T0" -> 0 [] w = "T1" -> 1 [] w = "T9" -> 9]
CasFlag == [w \in {"C1", "C2"} |-> IF w = "C1" THEN 1 ELSE 2]
ModeFlag == [w \in {"MS", "ME", "MR", "MX"} |->
               CASE w = "MS" -> "set" [] w = "ME" -> "add" [] w = "MR" -> "replace" [] w = "MX" -> "other"]

NoTtl == [given |-> FALSE, ttl |-> 0]

\* A parsed command, classic or meta.  mode is what a storage command asks of
\* the key; has_cas, that it names the CAS the key must have; quiet is noreply
\* or the flag q; value and rf_cas, that a reply carries the value or the CAS.
NoCommand == [verb |-> "none", key |-> "", bytes |-> 0, mode |-> "set", expires |-> NoTtl,
              has_cas |-> FALSE, cas |-> 0, quiet |-> FALSE, value |-> FALSE, rf_cas |-> FALSE]

BadCommand == [NoCommand EXCEPT !.verb = "bad"]
BadMeta == [NoCommand EXCEPT !.verb = "badmeta"]

Numbers(tok, i, j) == \A a \in i..j : tok[a] \in DOMAIN Numeral

Storage(tok, mode, noreply) ==
    [NoCommand EXCEPT !.verb = "store", !.key = tok[2], !.mode = mode, !.quiet = noreply,
                      !.expires = [given |-> TRUE, ttl |-> Numeral[tok[4]]],
                      !.bytes = Numeral[tok[5]]]

parse_command(tok) ==
    LET n == Len(tok)
        verb == IF n = 0 THEN "" ELSE tok[1]
        noreply(i) == n >= i /\ tok[i] = "noreply"
    IN CASE verb \in {"get", "gets"} /\ n >= 2 ->
              [NoCommand EXCEPT !.verb = "get", !.key = tok[2], !.value = TRUE,
                                !.rf_cas = (verb = "gets")]
         [] verb = "delete" /\ n >= 2 ->
              [NoCommand EXCEPT !.verb = "delete", !.key = tok[2], !.quiet = noreply(3)]
         [] verb \in {"set", "add", "replace"} /\ n >= 5 /\ Numbers(tok, 3, 5) ->
              Storage(tok, verb, noreply(6))
         [] verb = "cas" /\ n >= 6 /\ Numbers(tok, 3, 6) ->
              [Storage(tok, "set", noreply(7)) EXCEPT !.has_cas = TRUE, !.cas = Numeral[tok[6]]]
         [] verb \in {"version", "quit", "stats"} -> [NoCommand EXCEPT !.verb = verb]
         [] OTHER -> BadCommand

IsMeta(tok) == Len(tok) > 0 /\ tok[1] \in {"mn", "mg", "ms", "md"}

parse_meta(tok) ==
    LET n == Len(tok)
        first == IF tok[1] = "ms" THEN 4 ELSE 3
        flags == {tok[i] : i \in first..n}
        among(table) == flags \cap DOMAIN table
        arg(table, default) ==
            IF among(table) = {} THEN default ELSE table[CHOOSE w \in among(table) : TRUE]
    IN CASE tok[1] = "mn" -> [NoCommand EXCEPT !.verb = "mn"]
         [] \/ n < 2
            \/ tok[1] = "ms" /\ (n < 3 \/ ~Numbers(tok, 3, 3))
            \/ ~(flags \subseteq PlainFlags \cup DOMAIN TtlFlag \cup DOMAIN CasFlag
                                \cup DOMAIN ModeFlag) -> BadMeta
         [] OTHER ->
              [verb |-> tok[1], key |-> tok[2],
               bytes |-> IF tok[1] = "ms" THEN Numeral[tok[3]] ELSE 0,
               mode |-> arg(ModeFlag, "set"),
               expires |-> [given |-> among(TtlFlag) # {}, ttl |-> arg(TtlFlag, 0)],
               has_cas |-> among(CasFlag) # {}, cas |-> arg(CasFlag, 0),
               quiet |-> "q" \in flags, value |-> "v" \in flags, rf_cas |-> "c" \in flags]

UInt(n) == n % (2 ^ Width)

AbsoluteFromMax(exptime, now) ==
    IF exptime = 0 THEN 0 ELSE IF exptime >= RelativeMax THEN exptime ELSE UInt(now + exptime)

\* 0 = never; a long exptime is a point in time; any other counts from now.
exptime_to_expiry(exptime, now) ==
    IF exptime = 0 THEN 0 ELSE IF exptime > RelativeMax THEN exptime ELSE UInt(now + exptime)

\* The expiry a meta command's T asks for: its 64 bits are cut to Width.
MetaExpiry(e, now) ==
    IF ~e.given \/ e.ttl = 0 THEN 0
    ELSE IF e.ttl < 0 THEN 1
    ELSE exptime_to_expiry(UInt(e.ttl), now)
=============================================================================

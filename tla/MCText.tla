------------------------------- MODULE MCText -------------------------------
(* The text algorithms for TLC: Url and SimHash, one of them in a behaviour. *)
EXTENDS Url, SimHash, TLC

Plain(path, query) ==
    [scheme |-> "http", upper |-> FALSE, user |-> FALSE, name |-> "h", port |-> "",
     rooted |-> TRUE, path |-> path, query |-> query, lone |-> FALSE, frag |-> FALSE]

\* Parameter 9 is a tracking parameter.
Tracking == {9}
Queries == {<<>>, <<<<1, 2>>, <<2, 1>>>>, <<<<1, 1>>, <<1, 2>>>>}

Insert(path, i, segs) == SubSeq(path, 1, i) \o segs \o SubSeq(path, i + 1, Len(path))

\* Other spellings of a URL with a plain path.
Spellings(u) ==
    {u, [u EXCEPT !.upper = TRUE], [u EXCEPT !.user = TRUE], [u EXCEPT !.port = "80"],
     [u EXCEPT !.frag = TRUE], [u EXCEPT !.query = Reverse(@)],
     [u EXCEPT !.query = Append(@, <<9, 1>>)], [u EXCEPT !.path = Append(@, "")],
     [u EXCEPT !.path = <<"..">> \o @]}
    \cup {[u EXCEPT !.path = Insert(@, i, segs)] :
             i \in 0..Len(u.path), segs \in {<<".">>, <<"">>, <<"a", "..">>}}

Same == UNION {Spellings(Plain(p, q)) \X Spellings(Plain(p, q)) :
                  p \in {<<>>, <<"a">>, <<"a", "b">>}, q \in Queries}

\* One URL of any path, and some that are rejected sooner or later.
Paths == UNION {[1..n -> {"a", "", ".", ".."}] : n \in 0..5}
Odd == LET u == Plain(<<"a">>, <<>>)
       IN  {[u EXCEPT !.name = "", !.port = "80"], [u EXCEPT !.name = "", !.port = "8080"],
            [u EXCEPT !.scheme = "https", !.port = "80"], [u EXCEPT !.scheme = "ftp"],
            [u EXCEPT !.scheme = "mailto"], [u EXCEPT !.scheme = ""],
            [u EXCEPT !.scheme = "", !.name = "", !.port = "80"],
            [u EXCEPT !.scheme = "", !.name = "", !.user = TRUE],
            [u EXCEPT !.scheme = "", !.name = "", !.port = "80", !.path = <<>>],
            [u EXCEPT !.lone = TRUE],
            [u EXCEPT !.scheme = "", !.name = ""],
            [u EXCEPT !.scheme = "", !.name = "", !.rooted = FALSE],
            [u EXCEPT !.scheme = "", !.name = "", !.rooted = FALSE, !.path = <<>>],
            [u EXCEPT !.scheme = "", !.name = "", !.path = <<>>, !.frag = TRUE]}
Lists == Same \cup {<<Plain(p, <<>>)>> : p \in Paths}
         \cup {<<u>> : u \in Odd} \cup {<<u, Plain(<<"b">>, <<>>)>> : u \in Odd}
Pages == {Plain(<<"b", "c">>, <<<<1, 1>>>>), Plain(<<>>, <<>>)}

\* A word of one char of three bytes is a token, one of two short ones is not.
Alphabet == {"x", "w", " "}
Letters == {"x", "w"}
Utf8 == [c \in Alphabet |-> IF c = "w" THEN 3 ELSE 1]
Contents == UNION {[1..n -> Alphabet] : n \in 0..6}
AllWords == SUBSET Bits
Hash(token) ==
    {b \in Bits : \/ b = 0 /\ token[1] = "w"
                  \/ b = 1 /\ Len(token) % 2 = 1
                  \/ b = 2 /\ token[Len(token)] = "x"}

UrlIdle == /\ from = "seeds" /\ base = Plain(<<>>, <<>>) /\ given = <<>>
           /\ stage = "done" /\ rest = <<>> /\ found = <<>> /\ keys = {}
SimIdle == /\ text = <<>> /\ other = {} /\ step = "done" /\ pos = 0
           /\ current = <<>> /\ tokens = <<>> /\ votes = [b \in Bits |-> 0]
           /\ fingerprint = {} /\ xor = {} /\ count = 0 /\ similar = "yes"

TextInit == (UrlInit /\ SimIdle) \/ (SimInit /\ UrlIdle)
TextNext == \/ UrlNext /\ UNCHANGED simVars
            \/ SimNext /\ UNCHANGED urlVars
TextSpec == TextInit /\ [][TextNext]_<<urlVars, simVars>>
=============================================================================

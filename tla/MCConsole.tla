----------------------------- MODULE MCConsole -----------------------------
(* Small instances of Console for TLC: one worker and one seeding process.   *)
EXTENDS Console, TLC

CONSTANTS a, b, c, A, w1, s1, p1, p2

TwoProcs == (w1 :> p1) @@ (s1 :> p2)

Batch(urls) == [urls |-> urls, prio |-> 0, depth |-> 0]

\* Two pages of one host and a URL that IsSeen refuses, which is in a batch behind
\* the second page and a link of it.
OneHost == (a :> A) @@ (b :> A) @@ (c :> A)
DeadLink == (a :> <<>>) @@ (b :> <<c>>) @@ (c :> <<>>)
TwoBatches == {Batch(<<a, b>>), Batch(<<b, c>>)}
=============================================================================

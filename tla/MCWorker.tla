------------------------------ MODULE MCWorker ------------------------------
(* Small instances of Worker for TLC: pages, contents and fingerprints. *)
EXTENDS Worker, Integers, TLC

CONSTANTS w1, w2, p, q, r, c, d, e

\* Fingerprints are numbers, near if at most one apart.  The content d is a
\* near-duplicate of c and of e, which are not near-duplicates of each other.
Fingerprints == 0..2
NextToEachOther ==
    {<<g, h>> \in Fingerprints \X Fingerprints : g - h \in -1..1}
Chain == (c :> 0) @@ (d :> 1) @@ (e :> 2)

\* Every page with a content of its own.
Different == (p :> c) @@ (q :> d) @@ (r :> e)
\* Two copies of one page.
Copied == (p :> c) @@ (q :> c)

Alike == Permutations({w1, w2})
=============================================================================

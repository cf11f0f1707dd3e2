------------------------------- MODULE MCSite -------------------------------
(* Small sites, fleets and seeds for the runs of Frontier and Listing. *)
EXTENDS TLC

CONSTANTS a, b,        \* URLs
          A, B,        \* hosts
          w1, w2, s1,  \* worker loops and a seed handler
          p1, p2, p3   \* processes

Seed(urls, prio, depth) == [urls |-> urls, prio |-> prio, depth |-> depth]

\* Two pages on two hosts that link to each other.
TwoHosts == (a :> A) @@ (b :> B)
Mutual == (a :> <<b>>) @@ (b :> <<a>>)

\* One host.
OneHost == (a :> A) @@ (b :> A)
NoLinks == (a :> <<>>) @@ (b :> <<>>)

SeedA == {Seed(<<a>>, 0, 0)}
SeedEach == {Seed(<<a>>, 1, 0), Seed(<<b>>, 0, 0)}
DeepSeeds == {Seed(<<a>>, 1, 0), Seed(<<b>>, 0, 3)}

\* One worker and one seeding process.
OneWorker == (w1 :> p1) @@ (s1 :> p2)
\* Two workers, each a process of its own, and one seeding process.
Fleet == (w1 :> p1) @@ (w2 :> p2) @@ (s1 :> p3)
=============================================================================

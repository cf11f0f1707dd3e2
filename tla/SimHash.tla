------------------------------ MODULE SimHash ------------------------------
(***************************************************************************)
(* How a page is compared with a stored one (dedup/simhash.go): its text   *)
(* is split into tokens, the hash of each votes on every bit of the        *)
(* fingerprint, and the distance to the stored fingerprint is counted bit  *)
(* by bit.  A word of bits is the set of the bits that are 1.              *)
(***************************************************************************)
EXTENDS Integers, Sequences, FiniteSets

CONSTANTS
    Chars,
    Alphanumeric,  \* letters and digits
    Bytes,         \* char |-> the length of its UTF-8 form
    Width,         \* 64
    HashOf(_),     \* FNV-1a of a token
    Threshold,     \* DefaultSimilarityThreshold: 3
    Texts,         \* page contents, in lower case
    Stored         \* fingerprints to compare with

Bits == 0..(Width - 1)
ASSUME SimHashAssumption ==
    /\ Alphanumeric \subseteq Chars /\ Bytes \in [Chars -> Nat \ {0}]
    /\ Width \in Nat /\ Threshold \in Nat
    /\ Texts \subseteq Seq(Chars) /\ Stored \subseteq SUBSET Bits

VARIABLES
    text, other,      \* the content, and the fingerprint it is compared with
    step,             \* "read", "vote", "count", "done"
    pos,              \* how many chars, later how many tokens were processed
    current, tokens,
    votes, fingerprint,
    xor, count,
    similar           \* "?", then "yes" or "no"
simVars == <<text, other, step, pos, current, tokens, votes, fingerprint, xor, count,
             similar>>

SimInit ==
    /\ text \in Texts /\ other \in Stored
    /\ step = "read" /\ pos = 0
    /\ current = <<>> /\ tokens = <<>>
    /\ votes = [b \in Bits |-> 0] /\ fingerprint = {}
    /\ xor = {} /\ count = 0 /\ similar = "?"

-----------------------------------------------------------------------------
(* tokenize *)

\* The bytes of a token, up to 3, which is all that matters.
Size(token) ==
    IF Len(token) > 2 THEN 3
    ELSE IF Len(token) = 2 THEN Bytes[token[1]] + Bytes[token[2]]
    ELSE IF Len(token) = 1 THEN Bytes[token[1]] ELSE 0

\* Mutant: tokens of two bytes count.
KeepShort(token) == IF Size(token) >= 2 THEN Append(tokens, token) ELSE tokens

Keep(token) == IF Size(token) > 2 THEN Append(tokens, token) ELSE tokens

ReadChar ==
    /\ step = "read" /\ pos < Len(text)
    /\ LET c == text[pos + 1]
       IN  IF c \in Alphanumeric
           THEN current' = Append(current, c) /\ UNCHANGED tokens
           ELSE current' = <<>> /\ tokens' = Keep(current)
    /\ pos' = pos + 1
    /\ UNCHANGED <<text, other, step, votes, fingerprint, xor, count, similar>>

LastToken ==
    /\ step = "read" /\ pos = Len(text)
    /\ tokens' = Keep(current) /\ current' = <<>>
    /\ step' = "vote" /\ pos' = 0
    /\ UNCHANGED <<text, other, votes, fingerprint, xor, count, similar>>

-----------------------------------------------------------------------------
(* SimHash *)

\* Mutant: a bit that is 0 does not vote.
VoteForOnly ==
    /\ step = "vote" /\ pos < Len(tokens)
    /\ votes' = [b \in Bits |-> IF b \in HashOf(tokens[pos + 1])
                                THEN votes[b] + 1 ELSE votes[b]]
    /\ pos' = pos + 1
    /\ UNCHANGED <<text, other, step, current, tokens, fingerprint, xor, count, similar>>

Vote ==
    /\ step = "vote" /\ pos < Len(tokens)
    /\ votes' = [b \in Bits |-> IF b \in HashOf(tokens[pos + 1])
                                THEN votes[b] + 1 ELSE votes[b] - 1]
    /\ pos' = pos + 1
    /\ UNCHANGED <<text, other, step, current, tokens, fingerprint, xor, count, similar>>

\* The fingerprint of a text without tokens is 0.  HammingDistance starts with
\* the bits in which it differs from the other.
Fingerprint ==
    /\ step = "vote" /\ pos = Len(tokens)
    /\ fingerprint' = {b \in Bits : votes[b] > 0}
    /\ xor' = (fingerprint' \ other) \cup (other \ fingerprint')
    /\ step' = "count"
    /\ UNCHANGED <<text, other, pos, current, tokens, votes, count, similar>>

-----------------------------------------------------------------------------
(* HammingDistance and IsSimilar *)

\* Mutant: xor >>= 1 instead.
CountShift ==
    /\ step = "count" /\ xor # {}
    /\ xor' = {b - 1 : b \in xor \ {0}}
    /\ count' = count + 1
    /\ UNCHANGED <<text, other, step, pos, current, tokens, votes, fingerprint, similar>>

\* xor &= xor - 1 clears the lowest bit that is set.
CountBit ==
    /\ step = "count" /\ xor # {}
    /\ \E b \in xor : (\A c \in xor : b <= c) /\ xor' = xor \ {b}
    /\ count' = count + 1
    /\ UNCHANGED <<text, other, step, pos, current, tokens, votes, fingerprint, similar>>

Compare ==
    /\ step = "count" /\ xor = {}
    /\ similar' = IF count <= Threshold THEN "yes" ELSE "no"
    /\ step' = "done"
    /\ UNCHANGED <<text, other, pos, current, tokens, votes, fingerprint, xor, count>>

SimNext == ReadChar \/ LastToken \/ Vote \/ Fingerprint \/ CountBit \/ Compare
SimSpec == SimInit /\ [][SimNext]_simVars

(******************************* Properties *******************************)

\* The words of the text: its longest runs of letters and digits, from i to j.
IsRun(i, j) ==
    /\ i <= j /\ \A k \in i..j : text[k] \in Alphanumeric
    /\ i = 1 \/ text[i - 1] \notin Alphanumeric
    /\ j = Len(text) \/ text[j + 1] \notin Alphanumeric
LongWords == {r \in (DOMAIN text) \X (DOMAIN text) :
                 IsRun(r[1], r[2]) /\ Size(SubSeq(text, r[1], r[2])) > 2}

\* The tokens are the words of the text of more than two bytes, in their order,
\* the one that ends with the text included.
TokensAreWords ==
    step # "read" =>
        /\ Len(tokens) = Cardinality(LongWords)
        /\ \A r \in LongWords :
             tokens[Cardinality({q \in LongWords : q[1] <= r[1]})] =
                SubSeq(text, r[1], r[2])

\* How many of the first n tokens have bit b.
Supporters(b, n) == {k \in 1..n : b \in HashOf(tokens[k])}

\* The fingerprint is the vote of all tokens, whatever their order: a bit is 1 if
\* most of them have it, and 0 on a tie, or if there is none.  All pages without
\* words thus have the fingerprint 0.
MajorityRules ==
    step \in {"count", "done"} =>
        fingerprint = {b \in Bits : 2 * Cardinality(Supporters(b, Len(tokens))) > Len(tokens)}

\* The count is the number of bits that differ, and decides: below the threshold
\* two pages are near-duplicates, above it they are not.  At the threshold itself the
\* code says yes (simhash.go:57,61) and docs/DESIGN.md:216, "< 3 bits", no.
SimilarIsNear ==
    step = "done" =>
        LET distance == Cardinality((fingerprint \ other) \cup (other \ fingerprint))
        IN  /\ count = distance
            /\ distance < Threshold => similar = "yes"
            /\ distance > Threshold => similar = "no"
=============================================================================

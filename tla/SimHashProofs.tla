--------------------------- MODULE SimHashProofs ---------------------------
(* Theorems about SimHash, for every text, hash function, width and bound.  *)
EXTENDS SimHash, FiniteSetTheorems, SequenceTheorems, TLAPS

SymDiff == (fingerprint \ other) \cup (other \ fingerprint)

\* The strengthening: while the tokens vote, the votes on a bit are those for it
\* less those against it; while the bits are counted, those that are left and
\* those that were counted are the bits that differ.
VotesInv ==
    /\ tokens \in Seq(Seq(Chars)) /\ current \in Seq(Chars)
    /\ text \in Seq(Chars) /\ pos \in Nat
    /\ step \in {"read", "vote", "count", "done"}
    /\ votes \in [Bits -> Int]
    /\ step = "read" => votes = [b \in Bits |-> 0]
    /\ step = "vote" =>
         /\ pos <= Len(tokens)
         /\ \A b \in Bits : votes[b] = 2 * Cardinality(Supporters(b, pos)) - pos
    /\ MajorityRules

CountInv ==
    /\ other \subseteq Bits /\ fingerprint \subseteq Bits /\ count \in Nat
    /\ step \in {"read", "vote"} => count = 0
    /\ step = "count" => xor \subseteq Bits /\ count + Cardinality(xor) = Cardinality(SymDiff)
    /\ SimilarIsNear

\* A token more: one supporter more, or the same ones.
LEMMA OneMore ==
  ASSUME NEW b, NEW n \in Nat
  PROVE  /\ Cardinality(Supporters(b, n)) \in Nat
         /\ Cardinality(Supporters(b, n + 1)) =
              Cardinality(Supporters(b, n)) + IF b \in HashOf(tokens[n + 1]) THEN 1 ELSE 0
<1>1. IsFiniteSet(Supporters(b, n))
  <2>1. IsFiniteSet(1..n) /\ Supporters(b, n) \subseteq 1..n
    BY FS_Interval DEF Supporters
  <2> QED  BY <2>1, FS_Subset
<1>2. n + 1 \notin Supporters(b, n)
  BY DEF Supporters
<1>3. CASE b \in HashOf(tokens[n + 1])
  <2>1. Supporters(b, n + 1) = Supporters(b, n) \cup {n + 1}
    BY <1>3 DEF Supporters
  <2> QED  BY <1>1, <1>2, <1>3, <2>1, FS_AddElement, FS_CardinalityType
<1>4. CASE b \notin HashOf(tokens[n + 1])
  <2>1. \A k \in 1..(n + 1) : k \in 1..n \/ k = n + 1
    OBVIOUS
  <2>2. Supporters(b, n + 1) = Supporters(b, n)
    BY <1>4, <2>1 DEF Supporters
  <2> QED  BY <1>1, <1>4, <2>2, FS_CardinalityType
<1> QED  BY <1>3, <1>4

LEMMA KeepsType ==
  ASSUME tokens \in Seq(Seq(Chars)), current \in Seq(Chars)
  PROVE  Keep(current) \in Seq(Seq(Chars))
<1>1. Append(tokens, current) \in Seq(Seq(Chars))
  BY AppendProperties
<1> QED  BY <1>1, Zenon DEF Keep

LEMMA VotesStep ==
  ASSUME SimHashAssumption, VotesInv, [SimNext]_simVars
  PROVE  VotesInv'
<1> USE DEF VotesInv
<1>1. CASE ReadChar
  <2>1. pos + 1 \in DOMAIN text
    BY <1>1 DEF ReadChar
  <2>2. text[pos + 1] \in Chars
    BY <2>1
  <2>3. Append(current, text[pos + 1]) \in Seq(Chars) /\ <<>> \in Seq(Chars)
    BY <2>2
  <2>4. current' \in Seq(Chars) /\ tokens' \in Seq(Seq(Chars))
    BY <1>1, <2>3, KeepsType DEF ReadChar
  <2>5. step = "read" /\ step' = "read" /\ votes' = votes /\ text' = text /\ pos' \in Nat
    BY <1>1 DEF ReadChar
  <2> QED  BY <2>4, <2>5 DEF MajorityRules
<1>2. CASE LastToken
  <2>1. step = "read" /\ step' = "vote" /\ votes' = votes /\ text' = text /\ pos' = 0
        /\ current' = <<>> /\ tokens' = Keep(current)
    BY <1>2 DEF LastToken
  <2>2. current' \in Seq(Chars) /\ tokens' \in Seq(Seq(Chars))
    BY <2>1, KeepsType, EmptySeq
  <2>3. \A b \in Bits : Supporters(b, 0)' = {}
    BY DEF Supporters
  <2>4. \A b \in Bits : Supporters(b, pos)' = {}
    BY <2>1, <2>3 DEF Supporters
  <2>5. ASSUME NEW b \in Bits
        PROVE  votes'[b] = 2 * Cardinality(Supporters(b, pos)') - pos'
    <3>1. votes'[b] = 0
      BY <2>1
    <3>2. Cardinality(Supporters(b, pos)') = 0
      BY <2>4, FS_EmptySet
    <3> QED  BY <2>1, <3>1, <3>2
  <2>6. pos' <= Len(tokens')
    BY <2>1, <2>2, LenProperties
  <2> QED  BY <2>1, <2>2, <2>5, <2>6 DEF MajorityRules
<1>3. CASE Vote
  <2>1. /\ step = "vote" /\ pos < Len(tokens)
        /\ votes' = [b \in Bits |-> IF b \in HashOf(tokens[pos + 1])
                                    THEN votes[b] + 1 ELSE votes[b] - 1]
        /\ pos' = pos + 1
        /\ UNCHANGED <<text, step, current, tokens>>
    BY <1>3 DEF Vote
  <2>2. ASSUME NEW b \in Bits
        PROVE  /\ votes'[b] = 2 * Cardinality(Supporters(b, pos + 1)) - (pos + 1)
               /\ votes'[b] \in Int
    <3>1. /\ Cardinality(Supporters(b, pos)) \in Nat
          /\ Cardinality(Supporters(b, pos + 1)) =
               Cardinality(Supporters(b, pos)) + IF b \in HashOf(tokens[pos + 1]) THEN 1 ELSE 0
      BY OneMore
    <3>2. votes[b] = 2 * Cardinality(Supporters(b, pos)) - pos /\ votes[b] \in Int
      BY <2>1
    <3>3. CASE b \in HashOf(tokens[pos + 1])
      BY <2>1, <3>1, <3>2, <3>3
    <3>4. CASE b \notin HashOf(tokens[pos + 1])
      BY <2>1, <3>1, <3>2, <3>4
    <3> QED  BY <3>3, <3>4
  <2>3. pos' <= Len(tokens') /\ pos' \in Nat
    BY <2>1
  <2>4. votes' \in [Bits -> Int]
    BY <2>1, <2>2
  <2>5. \A b \in Bits : Supporters(b, pos)' = Supporters(b, pos + 1)
    BY <2>1 DEF Supporters
  <2>6. \A b \in Bits : votes'[b] = 2 * Cardinality(Supporters(b, pos)') - pos'
    BY <2>1, <2>2, <2>5
  <2> QED  BY <2>1, <2>3, <2>4, <2>6 DEF MajorityRules
<1>4. CASE Fingerprint
  <2>1. pos = Len(tokens) /\ step' = "count" /\ UNCHANGED <<text, pos, current, tokens, votes>>
        /\ step = "vote" /\ fingerprint' = {b \in Bits : votes[b] > 0}
    BY <1>4 DEF Fingerprint
  <2>2. ASSUME NEW b \in Bits
        PROVE  votes[b] > 0 <=> 2 * Cardinality(Supporters(b, Len(tokens))) > Len(tokens)
    <3>1. Cardinality(Supporters(b, pos)) \in Nat
      BY OneMore
    <3> QED  BY <2>1, <3>1
  <2>3. MajorityRules'
    BY <2>1, <2>2 DEF MajorityRules, Supporters
  <2> QED  BY <2>1, <2>3
<1>5. CASE CountBit \/ Compare
  <2>1. step = "count" /\ step' \in {"count", "done"}
        /\ UNCHANGED <<text, pos, current, tokens, votes, fingerprint>>
    BY <1>5 DEF CountBit, Compare
  <2>2. MajorityRules'
    BY <2>1 DEF MajorityRules, Supporters
  <2> QED  BY <2>1, <2>2
<1>6. CASE UNCHANGED simVars
  <2>1. UNCHANGED <<text, step, pos, current, tokens, votes, fingerprint>>
    BY <1>6 DEF simVars
  <2>2. MajorityRules' /\ \A b \in Bits : Supporters(b, pos)' = Supporters(b, pos)
    BY <2>1 DEF MajorityRules, Supporters
  <2> QED  BY <2>1, <2>2
<1> QED  BY <1>1, <1>2, <1>3, <1>4, <1>5, <1>6 DEF SimNext

\* MajorityRules holds of every text and every hash function: the fingerprint is
\* the majority vote of the tokens, whatever their number and order.
THEOREM FingerprintIsMajority == SimSpec => []MajorityRules
<1>1. SimInit => VotesInv
  BY SimHashAssumption, EmptySeq DEF SimInit, VotesInv, MajorityRules, SimHashAssumption
<1>2. VotesInv /\ [SimNext]_simVars => VotesInv'
  BY VotesStep, SimHashAssumption
<1>3. VotesInv => MajorityRules
  BY DEF VotesInv
<1> QED  BY <1>1, <1>2, <1>3, PTL DEF SimSpec

LEMMA CountStep ==
  ASSUME SimHashAssumption, CountInv, [SimNext]_simVars
  PROVE  CountInv'
<1> USE DEF CountInv
<1>1. IsFiniteSet(Bits)
  BY FS_Interval DEF Bits, SimHashAssumption
<1>2. CASE ReadChar \/ LastToken \/ Vote
  BY <1>2 DEF ReadChar, LastToken, Vote, SimilarIsNear
<1>3. CASE Fingerprint
  <2>1. IsFiniteSet(SymDiff') /\ SymDiff' \subseteq Bits /\ xor' = SymDiff' /\ count' = 0
    BY <1>1, <1>3, FS_Subset DEF Fingerprint, SymDiff
  <2>2. Cardinality(SymDiff') \in Nat
    BY <2>1, FS_CardinalityType
  <2>3. step' = "count" /\ other' = other /\ fingerprint' \subseteq Bits
    BY <1>3 DEF Fingerprint
  <2>4. count' + Cardinality(xor') = Cardinality(SymDiff')
    BY <2>1, <2>2
  <2> QED  BY <2>1, <2>3, <2>4 DEF SimilarIsNear
<1>4. CASE CountBit
  <2>1. PICK b \in xor : xor' = xor \ {b}
    BY <1>4 DEF CountBit
  <2>2. IsFiniteSet(xor) /\ step = "count" /\ step' = "count" /\ SymDiff' = SymDiff
    BY <1>1, <1>4, FS_Subset DEF CountBit, SymDiff
  <2>3. Cardinality(xor') = Cardinality(xor) - 1 /\ Cardinality(xor) \in Nat
    BY <2>1, <2>2, FS_RemoveElement, FS_CardinalityType
  <2> QED  BY <1>4, <2>1, <2>2, <2>3 DEF CountBit, SimilarIsNear
<1>5. CASE Compare
  <2>1. count = Cardinality(SymDiff)
    BY <1>5, FS_EmptySet DEF Compare
  <2> QED  BY <1>5, <2>1 DEF Compare, SimilarIsNear, SymDiff
<1>6. CASE UNCHANGED simVars
  BY <1>6 DEF simVars, SimilarIsNear, SymDiff
<1> QED  BY <1>2, <1>3, <1>4, <1>5, <1>6 DEF SimNext

\* SimilarIsNear holds of every width and threshold: clearing the lowest bit until
\* none is left counts the bits in which two fingerprints differ.
THEOREM DistanceIsExact == SimSpec => []SimilarIsNear
<1>1. SimInit => CountInv
  BY SimHashAssumption DEF SimInit, CountInv, SimilarIsNear, SimHashAssumption
<1>2. CountInv /\ [SimNext]_simVars => CountInv'
  BY CountStep, SimHashAssumption
<1>3. CountInv => SimilarIsNear
  BY DEF CountInv
<1> QED  BY <1>1, <1>2, <1>3, PTL DEF SimSpec

-----------------------------------------------------------------------------
(* The tokens are the words *)

\* The words that ended before the char at p, and the place of a word among all.
ReadBefore(p) == {r \in LongWords : r[2] < p}
Rank(r) == Cardinality({q \in LongWords : q[1] <= r[1]})

\* These tokens are the words that ended before p, in their order.
AreWordsBefore(toks, p) ==
    /\ Len(toks) = Cardinality(ReadBefore(p))
    /\ \A r \in ReadBefore(p) : /\ Rank(r) \in 1..Len(toks)
                                /\ toks[Rank(r)] = SubSeq(text, r[1], r[2])

\* The strengthening: current is the longest run of letters and digits that ends
\* with the char read last, and the tokens are the words before it.
ReadInv ==
    step = "read" =>
        /\ pos <= Len(text) /\ Len(current) <= pos
        /\ \A k \in 1..Len(current) :
             /\ current[k] = text[pos - Len(current) + k]
             /\ text[pos - Len(current) + k] \in Alphanumeric
        /\ Len(current) = pos \/ text[pos - Len(current)] \notin Alphanumeric
        /\ AreWordsBefore(tokens, pos)
WordsInv ==
    /\ tokens \in Seq(Seq(Chars)) /\ current \in Seq(Chars)
    /\ text \in Seq(Chars) /\ pos \in Nat
    /\ ReadInv /\ TokensAreWords

\* Two runs are in the same order by where they start and by where they end.
LEMMA RunsInOrder ==
  ASSUME text \in Seq(Chars),
         NEW i \in DOMAIN text, NEW j \in DOMAIN text, IsRun(i, j),
         NEW k \in DOMAIN text, NEW l \in DOMAIN text, IsRun(k, l)
  PROVE  i <= k <=> j <= l
<1>1. /\ i \in 1..Len(text) /\ j \in 1..Len(text) /\ k \in 1..Len(text) /\ l \in 1..Len(text)
      /\ Len(text) \in Nat
  BY LenProperties
<1>2. ASSUME i <= k, l < j PROVE FALSE
  <2>1. l + 1 \in i..j /\ l # Len(text)
    BY <1>1, <1>2 DEF IsRun
  <2> QED  BY <2>1 DEF IsRun
<1>3. ASSUME j <= l, k < i PROVE FALSE
  <2>1. i - 1 \in k..l /\ i # 1
    BY <1>1, <1>3 DEF IsRun
  <2> QED  BY <2>1 DEF IsRun
<1> QED  BY <1>1, <1>2, <1>3

LEMMA FinitelyManyWords ==
  ASSUME text \in Seq(Chars)
  PROVE  IsFiniteSet(LongWords)
<1>1. DOMAIN text = 1..Len(text) /\ Len(text) \in Nat
  BY LenProperties
<1>2. IsFiniteSet(DOMAIN text)
  BY <1>1, FS_Interval
<1>3. IsFiniteSet((DOMAIN text) \X (DOMAIN text))
  BY <1>2, FS_Product
<1> QED  BY <1>3, FS_Subset DEF LongWords

\* The words up to one of them, by where they start, are those by where they end.
LEMMA RankIsCount ==
  ASSUME text \in Seq(Chars), NEW r \in LongWords
  PROVE  Rank(r) = Cardinality(ReadBefore(r[2] + 1))
<1>1. \A q \in LongWords : q[1] <= r[1] <=> q[2] <= r[2]
  BY RunsInOrder DEF LongWords
<1>2. \A q \in LongWords : q[2] \in Nat /\ r[2] \in Nat
  BY LenProperties DEF LongWords
<1>3. {q \in LongWords : q[1] <= r[1]} = ReadBefore(r[2] + 1)
  BY <1>1, <1>2 DEF ReadBefore
<1> QED  BY <1>3 DEF Rank

\* The char read last is the last one of its run.
RunEnds == pos < Len(text) => text[pos + 1] \notin Alphanumeric

\* What current is, when a char that is not part of a word follows or the text ends:
\* one more word that ended before the next char, if it is long enough.
LEMMA CurrentIsWord ==
  ASSUME WordsInv, step = "read", Len(current) > 0, RunEnds,
         NEW first, first = pos - Len(current) + 1
  PROVE  /\ first \in DOMAIN text /\ pos \in DOMAIN text /\ IsRun(first, pos)
         /\ SubSeq(text, first, pos) = current
<1>1. /\ Len(text) \in Nat /\ Len(current) \in Nat \ {0}
      /\ pos \in Nat /\ pos <= Len(text) /\ Len(current) <= pos
  BY LenProperties DEF WordsInv, ReadInv
<1>2. first \in 1..Len(text) /\ pos \in 1..Len(text) /\ first <= pos
  BY <1>1
<1>3. \A k \in 1..Len(current) :
         current[k] = text[first + k - 1] /\ text[first + k - 1] \in Alphanumeric
  BY <1>1 DEF WordsInv, ReadInv
<1>4. /\ first = 1 \/ text[first - 1] \notin Alphanumeric
      /\ pos = Len(text) \/ text[pos + 1] \notin Alphanumeric
  <2>1. first = 1 \/ text[first - 1] \notin Alphanumeric
    BY <1>1 DEF WordsInv, ReadInv
  <2>2. pos = Len(text) \/ text[pos + 1] \notin Alphanumeric
    BY <1>1 DEF RunEnds
  <2> QED  BY <2>1, <2>2
<1>5. ASSUME NEW k \in first..pos PROVE text[k] \in Alphanumeric
  <2>1. k - first + 1 \in 1..Len(current) /\ first + (k - first + 1) - 1 = k
    BY <1>1
  <2> QED  BY <1>3, <2>1
<1>6. SubSeq(text, first, pos) = current
  <2>1. \A k \in first..pos : text[k] \in Chars
    BY <1>1, <1>2, ElementOfSeq DEF WordsInv
  <2>2. /\ SubSeq(text, first, pos) \in Seq(Chars)
        /\ Len(SubSeq(text, first, pos)) = Len(current)
        /\ \A k \in 1..Len(current) : SubSeq(text, first, pos)[k] = text[first + k - 1]
    BY <1>1, <1>2, <2>1, SubSeqProperties
  <2> QED  BY <1>3, <2>2, SeqEqual DEF WordsInv
<1>7. IsRun(first, pos)
  BY <1>2, <1>4, <1>5 DEF IsRun
<1>8. DOMAIN text = 1..Len(text)
  BY LenProperties DEF WordsInv
<1> QED  BY <1>2, <1>6, <1>7, <1>8

\* Keep at the end of a run: the tokens are the words up to and including it.
LEMMA KeepIsWords ==
  ASSUME WordsInv, step = "read", RunEnds
  PROVE  AreWordsBefore(Keep(current), pos + 1)
<1> DEFINE first == pos - Len(current) + 1
           w == <<first, pos>>
<1>1. /\ Len(text) \in Nat /\ Len(current) \in Nat
      /\ pos \in Nat /\ pos <= Len(text) /\ Len(current) <= pos
      /\ text \in Seq(Chars) /\ tokens \in Seq(Seq(Chars)) /\ current \in Seq(Chars)
      /\ Len(tokens) \in Nat
  BY LenProperties DEF WordsInv, ReadInv
<1>2. AreWordsBefore(tokens, pos)
  BY DEF WordsInv, ReadInv
<1>3. \A r \in LongWords : r[2] \in 1..Len(text)
  BY <1>1 DEF LongWords
<1>4. ReadBefore(pos) \subseteq ReadBefore(pos + 1)
      /\ \A r \in ReadBefore(pos + 1) : r \notin ReadBefore(pos) => r[2] = pos
  BY <1>1, <1>3 DEF ReadBefore
<1>5. ASSUME NEW r \in LongWords, r[2] = pos
      PROVE  Len(current) > 0 /\ r = w
  <2>1. /\ r = <<r[1], r[2]>> /\ r[1] \in DOMAIN text /\ r[2] \in DOMAIN text
        /\ IsRun(r[1], r[2])
    BY DEF LongWords
  <2>2. text[pos] \in Alphanumeric /\ pos # 0
    <3>1. pos \in 1..Len(text) /\ pos \in r[1]..r[2]
      BY <1>1, <1>5, <2>1 DEF IsRun
    <3> QED  BY <1>1, <2>1, <3>1 DEF IsRun
  <2>3. Len(current) > 0
    BY <1>1, <2>2 DEF WordsInv, ReadInv
  <2>4. first \in DOMAIN text /\ pos \in DOMAIN text /\ IsRun(first, pos)
    BY <2>3, CurrentIsWord
  <2>5. r[1] <= first <=> r[2] <= pos
    BY <1>1, <2>1, <2>4, RunsInOrder
  <2>6. first <= r[1] <=> pos <= r[2]
    BY <1>1, <2>1, <2>4, RunsInOrder
  <2>7. r[1] = first
    BY <1>1, <1>5, <2>1, <2>5, <2>6
  <2> QED  BY <1>5, <2>1, <2>3, <2>7
<1>6. CASE Len(current) > 0 /\ Size(current) > 2
  <2>1. w \in LongWords /\ w[2] = pos /\ SubSeq(text, w[1], w[2]) = current
    <3>1. /\ first \in DOMAIN text /\ pos \in DOMAIN text /\ IsRun(first, pos)
          /\ SubSeq(text, first, pos) = current
      BY <1>6, CurrentIsWord
    <3> HIDE DEF first
    <3> QED  BY <1>6, <3>1 DEF LongWords
  <2>2. ReadBefore(pos + 1) = ReadBefore(pos) \cup {w} /\ w \notin ReadBefore(pos)
    <3> HIDE DEF w
    <3>1. w \in ReadBefore(pos + 1) /\ w \notin ReadBefore(pos)
      BY <1>1, <2>1 DEF ReadBefore
    <3>2. \A r \in ReadBefore(pos + 1) : r \notin ReadBefore(pos) => r = w
      BY <1>4, <1>5 DEF ReadBefore
    <3> QED  BY <1>4, <3>1, <3>2
  <2>3. IsFiniteSet(ReadBefore(pos))
    BY <1>1, FinitelyManyWords, FS_Subset DEF ReadBefore
  <2>4. Cardinality(ReadBefore(pos + 1)) = Len(tokens) + 1
    BY <1>2, <2>2, <2>3, FS_AddElement DEF AreWordsBefore
  <2>5. Rank(w) = Len(tokens) + 1
    BY <1>1, <2>1, <2>4, RankIsCount
  <2>6. /\ Keep(current) = Append(tokens, current)
        /\ Len(Keep(current)) = Len(tokens) + 1
        /\ \A i \in 1..Len(tokens) : Keep(current)[i] = tokens[i]
        /\ Keep(current)[Len(tokens) + 1] = current
    <3>1. Keep(current) = Append(tokens, current)
      BY <1>6 DEF Keep
    <3>2. /\ Len(Append(tokens, current)) = Len(tokens) + 1
          /\ \A i \in 1..Len(tokens) : Append(tokens, current)[i] = tokens[i]
          /\ Append(tokens, current)[Len(tokens) + 1] = current
      BY <1>1, AppendProperties
    <3> QED  BY <3>1, <3>2
  <2>7. ASSUME NEW r \in ReadBefore(pos + 1)
        PROVE  Rank(r) \in 1..Len(Keep(current))
               /\ Keep(current)[Rank(r)] = SubSeq(text, r[1], r[2])
    <3>1. CASE r = w
      <4> HIDE DEF w
      <4> QED  BY <1>1, <2>1, <2>5, <2>6, <3>1
    <3>2. CASE r \in ReadBefore(pos)
      <4>1. Rank(r) \in 1..Len(tokens) /\ tokens[Rank(r)] = SubSeq(text, r[1], r[2])
        BY <1>2, <3>2 DEF AreWordsBefore
      <4> QED  BY <1>1, <2>6, <4>1
    <3> QED  BY <2>2, <3>1, <3>2
  <2> QED  BY <2>4, <2>6, <2>7 DEF AreWordsBefore
<1>7. CASE ~(Len(current) > 0 /\ Size(current) > 2)
  <2>1. Keep(current) = tokens
    <3>1. ~(Size(current) > 2)
      BY <1>1, <1>7 DEF Size
    <3> QED  BY <3>1 DEF Keep
  <2>2. ASSUME NEW r \in LongWords, r[2] = pos PROVE FALSE
    <3>1. Len(current) > 0 /\ r[1] = first /\ r[2] = pos
      BY <1>5, <2>2
    <3>2. SubSeq(text, r[1], r[2]) = current
      BY <3>1, CurrentIsWord
    <3> QED  BY <1>7, <3>1, <3>2 DEF LongWords
  <2>3. ReadBefore(pos + 1) = ReadBefore(pos)
    BY <1>4, <2>2 DEF ReadBefore
  <2> QED  BY <1>2, <2>1, <2>3 DEF AreWordsBefore
<1> QED  BY <1>6, <1>7

\* The words depend on nothing but the text.
LEMMA SameWords ==
  ASSUME text' = text
  PROVE  /\ LongWords' = LongWords
         /\ \A toks, p : AreWordsBefore(toks, p) <=> AreWordsBefore(toks, p)'
<1>1. \A i, j : IsRun(i, j)' <=> IsRun(i, j)
  BY Zenon DEF IsRun
<1>2. LongWords' = LongWords
  BY <1>1 DEF LongWords
<1>3. \A r, p : Rank(r)' = Rank(r) /\ ReadBefore(p)' = ReadBefore(p)
  BY <1>2, Zenon DEF Rank, ReadBefore
<1> QED  BY <1>2, <1>3, Zenon DEF AreWordsBefore

LEMMA ReadCharKeeps ==
  ASSUME SimHashAssumption, WordsInv, ReadChar, tokens' \in Seq(Seq(Chars)),
         current' \in Seq(Chars)
  PROVE  ReadInv'
<1>1. /\ step = "read" /\ step' = "read" /\ text' = text /\ pos' = pos + 1
      /\ pos \in Nat /\ Len(text) \in Nat /\ pos < Len(text) /\ Len(current) \in Nat
      /\ Len(current) <= pos /\ current \in Seq(Chars) /\ tokens \in Seq(Seq(Chars))
  BY LenProperties DEF WordsInv, ReadInv, ReadChar
<1>2. AreWordsBefore(tokens, pos)
  BY <1>1 DEF WordsInv, ReadInv
<1>3. AreWordsBefore(tokens', pos + 1) => AreWordsBefore(tokens, pos)'
  BY <1>1, SameWords, Zenon
<1>4. CASE text[pos + 1] \in Alphanumeric
  <2>1. current' = Append(current, text[pos + 1]) /\ tokens' = tokens
    BY <1>4 DEF ReadChar
  <2>2. text[pos + 1] \in Chars
    BY <1>1, ElementOfSeq DEF WordsInv
  <2>3. /\ Len(current') = Len(current) + 1
        /\ \A k \in 1..Len(current) : current'[k] = current[k]
        /\ current'[Len(current) + 1] = text[pos + 1]
    BY <1>1, <2>1, <2>2, AppendProperties
  <2>4. ASSUME NEW k \in 1..Len(current')
        PROVE  /\ current'[k] = text[pos' - Len(current') + k]
               /\ text[pos' - Len(current') + k] \in Alphanumeric
    <3>1. pos' - Len(current') = pos - Len(current)
      BY <1>1, <2>3
    <3>2. CASE k = Len(current) + 1
      BY <1>1, <1>4, <2>3, <3>1, <3>2
    <3>3. CASE k \in 1..Len(current)
      BY <1>1, <2>3, <3>1, <3>3 DEF WordsInv, ReadInv
    <3> QED  BY <1>1, <2>3, <3>2, <3>3
  <2>5. Len(current') = pos' \/ text[pos' - Len(current')] \notin Alphanumeric
    <3>1. pos' - Len(current') = pos - Len(current)
      BY <1>1, <2>3
    <3>2. Len(current) = pos \/ text[pos - Len(current)] \notin Alphanumeric
      BY <1>1 DEF WordsInv, ReadInv
    <3> QED  BY <1>1, <2>3, <3>1, <3>2
  <2>6. ReadBefore(pos + 1) = ReadBefore(pos)
    <3>1. ASSUME NEW r \in LongWords, r[2] = pos PROVE FALSE
      BY <1>1, <1>4, <3>1 DEF LongWords, IsRun
    <3>2. \A r \in LongWords : r[2] \in Nat
      BY LenProperties DEF WordsInv, LongWords
    <3> QED  BY <1>1, <3>1, <3>2 DEF ReadBefore
  <2>7. AreWordsBefore(tokens, pos + 1)
    BY <1>2, <2>6 DEF AreWordsBefore
  <2>8. pos' <= Len(text') /\ Len(current') <= pos'
    BY <1>1, <2>3
  <2> QED  BY <1>1, <1>3, <2>1, <2>4, <2>5, <2>7, <2>8 DEF ReadInv
<1>5. CASE text[pos + 1] \notin Alphanumeric
  <2>1. current' = <<>> /\ tokens' = Keep(current)
    BY <1>5 DEF ReadChar
  <2>2. AreWordsBefore(tokens', pos + 1)
    BY <1>1, <1>5, <2>1, KeepIsWords DEF RunEnds
  <2>3. Len(current') = 0
    BY <2>1, EmptySeq
  <2>4. /\ pos' <= Len(text') /\ Len(current') <= pos'
        /\ text'[pos' - Len(current')] \notin Alphanumeric
    BY <1>1, <1>5, <2>3
  <2> QED  BY <1>1, <1>3, <2>2, <2>3, <2>4 DEF ReadInv
<1> QED  BY <1>4, <1>5

LEMMA LastTokenKeeps ==
  ASSUME WordsInv, LastToken
  PROVE  TokensAreWords'
<1>1. /\ step = "read" /\ text' = text /\ pos = Len(text) /\ tokens' = Keep(current)
      /\ pos \in Nat /\ text \in Seq(Chars)
  BY DEF LastToken, WordsInv
<1>2. AreWordsBefore(Keep(current), pos + 1)
  BY <1>1, KeepIsWords DEF RunEnds
<1>3. ReadBefore(pos + 1) = LongWords
  <2>1. \A r \in LongWords : r[2] \in 1..Len(text)
    BY <1>1, LenProperties DEF LongWords
  <2> QED  BY <1>1, <2>1 DEF ReadBefore
<1>4. LongWords' = LongWords
  BY <1>1, SameWords
<1>5. /\ Len(tokens') = Cardinality(LongWords)
      /\ \A r \in LongWords :
           tokens'[Cardinality({q \in LongWords : q[1] <= r[1]})] = SubSeq(text, r[1], r[2])
  BY <1>1, <1>2, <1>3 DEF AreWordsBefore, Rank
<1> QED  BY <1>1, <1>4, <1>5 DEF TokensAreWords

LEMMA WordsStep ==
  ASSUME SimHashAssumption, VotesInv, VotesInv', WordsInv, [SimNext]_simVars
  PROVE  WordsInv'
<1>1. CASE ReadChar
  <2>1. ReadInv'
    BY <1>1, ReadCharKeeps DEF VotesInv
  <2>2. TokensAreWords'
    BY <1>1 DEF ReadChar, TokensAreWords
  <2> QED  BY <2>1, <2>2 DEF WordsInv, VotesInv
<1>2. CASE LastToken
  BY <1>2, LastTokenKeeps DEF LastToken, WordsInv, VotesInv, ReadInv
<1>3. CASE Vote \/ Fingerprint \/ CountBit \/ Compare
  <2>1. step # "read" /\ step' # "read" /\ text' = text /\ tokens' = tokens
    BY <1>3 DEF Vote, Fingerprint, CountBit, Compare
  <2>2. TokensAreWords'
    BY <2>1, SameWords DEF WordsInv, TokensAreWords
  <2> QED  BY <2>1, <2>2 DEF WordsInv, VotesInv, ReadInv
<1>4. CASE UNCHANGED simVars
  <2>1. UNCHANGED <<text, step, pos, current, tokens>>
    BY <1>4 DEF simVars
  <2>2. TokensAreWords'
    BY <2>1, SameWords DEF WordsInv, TokensAreWords
  <2>3. AreWordsBefore(tokens, pos)' <=> AreWordsBefore(tokens, pos)
    BY <2>1, SameWords, Zenon
  <2>4. ReadInv'
    BY <2>1, <2>3 DEF WordsInv, ReadInv
  <2> QED  BY <2>1, <2>2, <2>4 DEF WordsInv, VotesInv
<1> QED  BY <1>1, <1>2, <1>3, <1>4 DEF SimNext

\* TokensAreWords holds of every text: tokenize yields exactly the runs of letters and
\* digits of more than two bytes, in their order and without losing the last one.
THEOREM EveryWordIsAToken == SimSpec => []TokensAreWords
<1>1. ASSUME SimInit PROVE VotesInv /\ WordsInv
  <2>1. VotesInv
    BY <1>1, SimHashAssumption, EmptySeq
       DEF SimInit, VotesInv, MajorityRules, SimHashAssumption
  <2>2. ReadBefore(0) = {}
    <3>1. \A r \in LongWords : r[2] \in 1..Len(text)
      BY <2>1, LenProperties DEF LongWords, VotesInv
    <3> QED  BY <3>1 DEF ReadBefore
  <2>3. AreWordsBefore(<<>>, 0)
    BY <2>2, EmptySeq, FS_EmptySet DEF AreWordsBefore
  <2>4. ReadInv
    BY <1>1, <2>1, <2>3, EmptySeq, LenProperties DEF SimInit, ReadInv, VotesInv
  <2> QED  BY <1>1, <2>1, <2>4 DEF SimInit, WordsInv, VotesInv, TokensAreWords
<1>2. VotesInv /\ WordsInv /\ [SimNext]_simVars => VotesInv' /\ WordsInv'
  BY VotesStep, WordsStep, SimHashAssumption
<1>3. WordsInv => TokensAreWords
  BY DEF WordsInv
<1> QED  BY <1>1, <1>2, <1>3, PTL DEF SimSpec
=============================================================================

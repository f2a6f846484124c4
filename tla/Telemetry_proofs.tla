--------------------------- MODULE Telemetry_proofs ---------------------------

(***************************************************************************)
(* From the producers to the rollups, for any producers, jobs, clocks and   *)
(* policies: the types of what is emitted, captured and counted; what       *)
(* truncation leaves of a text; the percentiles of a summary and the        *)
(* durations of spans; what filters and pages of a snapshot hold; that      *)
(* conversations do not disturb each other; that hosted calls stay whole;   *)
(* and that the metrics agree with the rollups.                             *)
(***************************************************************************)
EXTENDS Telemetry, WellFoundedInduction, FiniteSetTheorems, SequenceTheorems, TLAPS

(***************************************************************************)
(* Percentiles                                                             *)
(***************************************************************************)

\* The rank of a percentile in n > 0 samples is a position, and the least one with
\* p percent of the positions at or below it.
LEMMA RankIsNearest ==
  ASSUME NEW p \in Quantiles, NEW n \in Nat, n > 0
  PROVE  /\ Rank(p, n) \in 1..n
         /\ 100 * Rank(p, n) >= p * n
         /\ 100 * (Rank(p, n) - 1) < p * n
  <1>1. CASE p = 50
    BY <1>1 DEF Rank
  <1>2. CASE p = 90
    BY <1>2 DEF Rank
  <1>3. CASE p = 95
    BY <1>3 DEF Rank
  <1>4. CASE p = 99
    BY <1>4 DEF Rank
  <1> QED
    BY <1>1, <1>2, <1>3, <1>4 DEF Quantiles

\* The saturating subtraction and the upper bound of the code never change the rank.
LEMMA RankIndexIsRank ==
  ASSUME NEW p \in Quantiles, NEW n \in Nat, n > 0
  PROVE  RankIndex(p, n) + 1 = Rank(p, n)
  <1>1. Rank(p, n) \in 1..n
    BY RankIsNearest
  <1>2. Monus(Rank(p, n), 1) = Rank(p, n) - 1
    BY <1>1 DEF Monus
  <1> QED
    BY <1>1, <1>2 DEF RankIndex

\* "Percentiles use the nearest-rank method on the sorted sample set" (insights.rs:26):
\* for any sorted samples the percentile is one of them, at least p percent of the
\* samples are at or below its place, less than p percent are before it, and those
\* before and after it are not on the other side of it.
THEOREM PercentileIsNearestRank ==
  ASSUME NEW p \in Quantiles,
         NEW sorted \in Seq(Nat), sorted # <<>>,
         \A i, j \in DOMAIN sorted : i <= j => sorted[i] <= sorted[j]
  PROVE  \E r \in DOMAIN sorted :
           /\ Percentile(sorted, p) = sorted[r]
           /\ 100 * r >= p * Len(sorted)
           /\ 100 * (r - 1) < p * Len(sorted)
           /\ \A i \in DOMAIN sorted :
                /\ i <= r => sorted[i] <= Percentile(sorted, p)
                /\ i >= r => sorted[i] >= Percentile(sorted, p)
  <1> DEFINE n == Len(sorted)
             r == Rank(p, n)
  <1>1. n \in Nat /\ n > 0 /\ DOMAIN sorted = 1..n
    OBVIOUS
  <1>2. r \in DOMAIN sorted /\ 100 * r >= p * n /\ 100 * (r - 1) < p * n
    BY <1>1, RankIsNearest
  <1>3. Percentile(sorted, p) = sorted[r]
    BY <1>1, RankIndexIsRank DEF Percentile
  <1>4. \A i \in DOMAIN sorted : (i <= r => sorted[i] <= sorted[r])
                                  /\ (i >= r => sorted[i] >= sorted[r])
    <2> SUFFICES ASSUME NEW i \in DOMAIN sorted
                 PROVE  (i <= r => sorted[i] <= sorted[r]) /\ (i >= r => sorted[i] >= sorted[r])
      OBVIOUS
    <2>1. sorted[i] \in Nat /\ sorted[r] \in Nat
      BY <1>2
    <2> QED
      BY <1>2, <2>1
  <1> HIDE DEF r
  <1> QED
    BY <1>2, <1>3, <1>4

(***************************************************************************)
(* Induction, and functions defined by recursion                           *)
(***************************************************************************)

\* Any set of numbers has a least one.
LEMMA Least ==
  ASSUME NEW T, T \subseteq Nat, T # {}
  PROVE  \E x \in T : \A y \in T : x <= y
  <1> DEFINE R == OpToRel(<, Nat)
  <1>1. IsWellFoundedOn(R, Nat)
    BY NatLessThanWellFounded
  <1>2. \A x, y \in Nat : x < y => <<x, y>> \in R
    BY DEF OpToRel
  <1> HIDE DEF R
  <1>3. PICK x \in T : \A y \in T : ~(<<y, x>> \in R)
    BY <1>1, WFMin
  <1>4. ASSUME NEW y \in T PROVE x <= y
    <2>1. x \in Nat /\ y \in Nat
      OBVIOUS
    <2>2. ~(y < x)
      BY <1>2, <1>3, <2>1
    <2> QED
      BY <2>1, <2>2
  <1> QED
    BY <1>4

\* A set that has 0 and, with a number, the next one up to m, has all up to m.
LEMMA Upwards ==
  ASSUME NEW m \in Nat, NEW P, 0 \in P, \A k \in 1..m : k - 1 \in P => k \in P
  PROVE  \A k \in 0..m : k \in P
  <1> DEFINE B == {k \in 0..m : k \notin P}
  <1>1. SUFFICES ASSUME B # {} PROVE FALSE
    OBVIOUS
  <1>2. PICK n \in B : \A k \in B : n <= k
    <2>1. B \subseteq Nat
      OBVIOUS
    <2> HIDE DEF B
    <2> QED
      BY <1>1, <2>1, Least
  <1>3. n \in 1..m /\ n \notin P
    OBVIOUS
  <1>4. n - 1 \notin P
    BY <1>3
  <1>5. n - 1 \in B
    BY <1>3, <1>4
  <1> HIDE DEF B
  <1>6. n <= n - 1
    BY <1>2, <1>5
  <1> QED
    BY <1>3, <1>6

\* f starts with base and goes on by step.
Steps(m, S)              == [1..m -> [S -> S]]
Follows(f, m, S, base, step) ==
  /\ f \in [0..m -> S]
  /\ f[0] = base
  /\ \A k \in 1..m : f[k] = step[k][f[k - 1]]

\* There is a function that does.
LEMMA Recursion ==
  ASSUME NEW m \in Nat, NEW S, NEW base \in S, NEW step \in Steps(m, S)
  PROVE  \E f : Follows(f, m, S, base, step)
  <1> DEFINE P == {n \in 0..m : \E f \in [0..n -> S] :
                     f[0] = base /\ \A k \in 1..n : f[k] = step[k][f[k - 1]]}
  <1>1. 0 \in P
    <2> DEFINE f == [k \in 0..0 |-> base]
    <2>1. f \in [0..0 -> S] /\ f[0] = base /\ \A k \in 1..0 : f[k] = step[k][f[k - 1]]
      OBVIOUS
    <2> HIDE DEF f
    <2> QED
      BY <2>1
  <1>2. ASSUME NEW n \in 1..m, n - 1 \in P PROVE n \in P
    <2>1. PICK f \in [0..(n - 1) -> S] :
            f[0] = base /\ \A k \in 1..(n - 1) : f[k] = step[k][f[k - 1]]
      BY <1>2
    <2> DEFINE next == step[n][f[n - 1]]
               g    == [k \in 0..n |-> IF k = n THEN next ELSE f[k]]
    <2>2. next \in S
      BY <2>1 DEF Steps
    <2> HIDE DEF next
    <2>3. g \in [0..n -> S]
      BY <2>2
    <2>4. g[0] = base
      BY <2>1
    <2>5. ASSUME NEW k \in 1..n PROVE g[k] = step[k][g[k - 1]]
      <3>1. CASE k = n
        <4>1. g[k] = next /\ g[k - 1] = f[n - 1]
          BY <3>1
        <4> QED
          BY <3>1, <4>1 DEF next
      <3>2. CASE k # n
        <4>1. k \in 1..(n - 1) /\ g[k] = f[k] /\ g[k - 1] = f[k - 1]
          BY <3>2
        <4> QED
          BY <2>1, <4>1
      <3> QED
        BY <3>1, <3>2
    <2> HIDE DEF g
    <2> QED
      BY <2>3, <2>4, <2>5
  <1>3. m \in 0..m
    OBVIOUS
  <1>4. m \in P
    <2> HIDE DEF P
    <2> QED
      BY <1>1, <1>2, <1>3, Upwards
  <1> QED
    BY <1>4 DEF Follows

(***************************************************************************)
(* Truncation                                                              *)
(***************************************************************************)

\* How many bytes each number of characters has.
LEMMA BytesStep ==
  ASSUME NEW text, IsText(text)
  PROVE  /\ Len(text) \in Nat /\ text \in Seq(Range(text)) /\ DOMAIN text = 1..Len(text)
         /\ Bytes(text, 0) = 0
         /\ \A k \in 1..Len(text) :
              /\ Bytes(text, k) = Bytes(text, k - 1) + text[k].width
              /\ text[k].width \in Nat \ {0}
         /\ \A k \in 0..Len(text) : Bytes(text, k) \in Nat
  <1>1. /\ text \in Seq(Range(text)) /\ Len(text) \in Nat /\ DOMAIN text = 1..Len(text)
        /\ \A k \in 1..Len(text) : text[k].width \in Nat \ {0}
    BY DEF IsText, IsSequence
  <1> DEFINE m    == Len(text)
             step == [k \in 1..m |-> [x \in Nat |-> x + text[k].width]]
             Is(f) == f = [k \in 0..m |-> IF k = 0 THEN 0 ELSE f[k - 1] + text[k].width]
             bytes == CHOOSE f : Is(f)
  <1>2. step \in Steps(m, Nat)
    BY <1>1 DEF Steps
  <1>3. PICK f : Follows(f, m, Nat, 0, step)
    <2> HIDE DEF step, m
    <2>1. m \in Nat /\ 0 \in Nat
      BY <1>1 DEF m
    <2> QED
      BY <1>2, <2>1, Recursion
  <1>4. Is(f)
    <2>1. ASSUME NEW k \in 1..m PROVE f[k] = f[k - 1] + text[k].width
      <3>1. f[k - 1] \in Nat /\ f[k] = step[k][f[k - 1]]
        BY <1>1, <1>3, k - 1 \in 0..m DEF Follows
      <3>2. step[k][f[k - 1]] = f[k - 1] + text[k].width
        BY <3>1
      <3> HIDE DEF step
      <3> QED
        BY <3>1, <3>2
    <2>2. f = [k \in 0..m |-> f[k]]
      BY <1>3 DEF Follows
    <2>3. \A k \in 0..m : f[k] = IF k = 0 THEN 0 ELSE f[k - 1] + text[k].width
      BY <1>1, <1>3, <2>1 DEF Follows
    <2> QED
      BY <2>2, <2>3
  <1>5. Is(bytes)
    BY <1>4
  <1>6. \A n : Bytes(text, n) = bytes[n]
    BY DEF Bytes
  <1> HIDE DEF bytes
  <1>7. bytes[0] = 0 /\ \A k \in 1..m : bytes[k] = bytes[k - 1] + text[k].width
    BY <1>1, <1>5
  <1>8. \A k \in 0..m : bytes[k] \in Nat
    <2> DEFINE P == {k \in 0..m : bytes[k] \in Nat}
    <2>1. 0 \in P
      BY <1>1, <1>7
    <2>2. ASSUME NEW k \in 1..m, k - 1 \in P PROVE k \in P
      BY <1>1, <1>7, <2>2
    <2>3. \A k \in 0..m : k \in P
      <3> HIDE DEF P
      <3> QED
        BY <1>1, <2>1, <2>2, Upwards
    <2> QED
      BY <2>3
  <1> QED
    BY <1>1, <1>6, <1>7, <1>8

\* More characters have more bytes.
LEMMA BytesGrow ==
  ASSUME NEW text, IsText(text), NEW k \in 0..Len(text), NEW l \in 0..Len(text), k < l
  PROVE  Bytes(text, k) < Bytes(text, l)
  <1> DEFINE m == Len(text)
             P == {n \in 0..m : k < n => Bytes(text, k) < Bytes(text, n)}
  <1>1. m \in Nat /\ k \in Nat /\ \A n \in 0..m : Bytes(text, n) \in Nat
    BY BytesStep
  <1>2. 0 \in P
    BY <1>1
  <1>3. ASSUME NEW n \in 1..m, n - 1 \in P PROVE n \in P
    <2>1. /\ Bytes(text, n) = Bytes(text, n - 1) + text[n].width
          /\ text[n].width \in Nat \ {0}
      BY BytesStep
    <2>2. Bytes(text, n) \in Nat /\ Bytes(text, n - 1) \in Nat /\ Bytes(text, k) \in Nat
      BY <1>1
    <2>3. CASE k < n - 1
      BY <1>3, <2>1, <2>2, <2>3
    <2>4. CASE k = n - 1
      BY <2>1, <2>2, <2>4
    <2>5. CASE ~(k < n)
      BY <2>5
    <2> QED
      BY <1>1, <2>3, <2>4, <2>5
  <1>4. l \in P
    <2> HIDE DEF P
    <2> QED
      BY <1>1, <1>2, <1>3, Upwards
  <1> QED
    BY <1>4

\* The loop of truncate_utf8 goes back to the last boundary.
LEMMA EndIsLastBoundary ==
  ASSUME NEW text, IsText(text), NEW max \in Nat
  PROVE  LET end == TruncateEnd(text, max) IN
         /\ end \in 0..max /\ IsCharBoundary(text, end)
         /\ \A b \in 0..max : IsCharBoundary(text, b) => b <= end
  <1> DEFINE Boundary == {e \in 0..max : IsCharBoundary(text, e)}
             step  == [k \in 1..max |-> [x \in Nat |-> IF k \in Boundary THEN k ELSE x]]
             Is(f) == f = [e \in 0..max |-> IF e = 0 \/ IsCharBoundary(text, e)
                                              THEN e ELSE f[e - 1]]
             back  == CHOOSE f : Is(f)
  <1>1. PICK f : Follows(f, max, Nat, 0, step)
    <2>1. step \in Steps(max, Nat) /\ 0 \in Nat
      BY DEF Steps
    <2> HIDE DEF step
    <2> QED
      BY <2>1, Recursion
  <1>2. Is(f)
    <2>1. ASSUME NEW k \in 1..max
          PROVE  f[k] = IF IsCharBoundary(text, k) THEN k ELSE f[k - 1]
      <3>1. f[k - 1] \in Nat /\ f[k] = step[k][f[k - 1]]
        BY <1>1, k - 1 \in 0..max DEF Follows
      <3>2. step[k][f[k - 1]] = IF k \in Boundary THEN k ELSE f[k - 1]
        BY <3>1
      <3>3. k \in Boundary <=> IsCharBoundary(text, k)
        OBVIOUS
      <3> HIDE DEF step, Boundary
      <3> QED
        BY <3>1, <3>2, <3>3
    <2>2. \A k \in 0..max : f[k] = IF k = 0 \/ IsCharBoundary(text, k) THEN k ELSE f[k - 1]
      BY <1>1, <2>1 DEF Follows
    <2>3. f = [k \in 0..max |-> f[k]]
      BY <1>1 DEF Follows
    <2> QED
      BY <2>2, <2>3
  <1>3. Is(back)
    BY <1>2
  <1>4. TruncateEnd(text, max) = back[max]
    BY DEF TruncateEnd
  <1>5. IsCharBoundary(text, 0)
    <2>1. 0 \in 0..Len(text) /\ Bytes(text, 0) = 0
      BY BytesStep
    <2> QED
      BY <2>1 DEF IsCharBoundary
  <1> HIDE DEF back
  <1>6. \A e \in 0..max : back[e] = IF e = 0 \/ IsCharBoundary(text, e) THEN e ELSE back[e - 1]
    BY <1>3
  <1> DEFINE P == {e \in 0..max : /\ back[e] \in 0..e /\ IsCharBoundary(text, back[e])
                                  /\ \A b \in 0..e : IsCharBoundary(text, b) => b <= back[e]}
  <1>7. 0 \in P
    <2>1. back[0] = 0
      BY <1>6
    <2> QED
      BY <1>5, <2>1
  <1>8. ASSUME NEW e \in 1..max, e - 1 \in P PROVE e \in P
    <2>1. CASE IsCharBoundary(text, e)
      <3>1. back[e] = e
        BY <1>6, <2>1
      <3> QED
        BY <2>1, <3>1
    <2>2. CASE ~IsCharBoundary(text, e)
      <3>1. back[e] = back[e - 1]
        BY <1>6, <2>2
      <3>2. /\ back[e - 1] \in 0..(e - 1) /\ IsCharBoundary(text, back[e - 1])
            /\ \A b \in 0..(e - 1) : IsCharBoundary(text, b) => b <= back[e - 1]
        BY <1>8
      <3>3. ASSUME NEW b \in 0..e, IsCharBoundary(text, b) PROVE b <= back[e - 1]
        <4>1. b # e
          BY <2>2, <3>3
        <4> QED
          BY <3>2, <3>3, <4>1
      <3> QED
        BY <3>1, <3>2, <3>3
    <2> QED
      BY <2>1, <2>2
  <1>9. max \in P
    <2>1. max \in 0..max
      OBVIOUS
    <2> HIDE DEF P
    <2> QED
      BY <1>7, <1>8, <2>1, Upwards
  <1> QED
    BY <1>4, <1>9

\* "Truncate at a character boundary" (event.rs, truncate_utf8): for any text and any
\* limit, what is left is the longest prefix that fits, and it is marked truncated
\* just if it is not all.
THEOREM TruncateIsLongestPrefix ==
  ASSUME NEW text, IsText(text), NEW max \in Nat
  PROVE  LET cut == Truncate(text, max) IN
         /\ IsPrefix(cut.text, text)
         /\ \A n \in 0..Len(text) : n <= Len(cut.text) <=> Bytes(text, n) <= max
         /\ cut.truncated <=> cut.text # text
  <1> DEFINE m   == Len(text)
             end == TruncateEnd(text, max)
             cut == Truncate(text, max)
  <1>1. m \in Nat /\ text \in Seq(Range(text)) /\ \A n \in 0..m : Bytes(text, n) \in Nat
    BY BytesStep
  <1>2. \A k, l \in 0..m : k < l => Bytes(text, k) < Bytes(text, l)
    BY BytesGrow
  <1>3. CASE Bytes(text, m) <= max
    <2>1. cut.text = text /\ cut.truncated = FALSE
      BY <1>3 DEF Truncate
    <2>2. \A n \in 0..m : n <= m /\ Bytes(text, n) <= max
      <3>1. ASSUME NEW n \in 0..m PROVE n <= m /\ Bytes(text, n) <= max
        <4>1. n = m \/ n < m
          BY <1>1
        <4>2. Bytes(text, n) <= Bytes(text, m)
          BY <1>1, <1>2, <4>1
        <4> QED
          BY <1>1, <1>3, <4>2
      <3> QED
        BY <3>1
    <2>3. IsPrefix(text, text)
      BY <1>1 DEF IsPrefix
    <2> HIDE DEF cut
    <2>4. /\ IsPrefix(cut.text, text)
          /\ \A n \in 0..Len(text) : n <= Len(cut.text) <=> Bytes(text, n) <= max
          /\ cut.truncated <=> cut.text # text
      BY <2>1, <2>2, <2>3
    <2> QED
      BY <2>4 DEF cut
  <1>4. CASE ~(Bytes(text, m) <= max)
    <2>1. /\ end \in 0..max /\ IsCharBoundary(text, end)
          /\ \A b \in 0..max : IsCharBoundary(text, b) => b <= end
      BY EndIsLastBoundary
    <2> DEFINE c == CHOOSE n \in 0..m : Bytes(text, n) = end
    <2> HIDE DEF end
    <2>2. c \in 0..m /\ Bytes(text, c) = end
      BY <2>1 DEF IsCharBoundary
    <2>3. cut.text = SubSeq(text, 1, c) /\ cut.truncated = TRUE
      BY <1>4, <2>1 DEF Truncate, end
    <2> HIDE DEF c, cut
    <2>4. Len(SubSeq(text, 1, c)) = c
      BY <1>1, <2>2
    <2>5. ASSUME NEW n \in 0..m PROVE n <= c <=> Bytes(text, n) <= max
      <3>1. ASSUME n <= c PROVE Bytes(text, n) <= max
        <4>1. Bytes(text, n) <= Bytes(text, c)
          BY <1>1, <1>2, <2>2, <3>1
        <4> QED
          BY <1>1, <2>1, <2>2, <4>1
      <3>2. ASSUME ~(n <= c) PROVE ~(Bytes(text, n) <= max)
        <4>1. end < Bytes(text, n)
          BY <1>1, <1>2, <2>2, <3>2
        <4>2. IsCharBoundary(text, Bytes(text, n))
          BY DEF IsCharBoundary
        <4> QED
          BY <1>1, <2>1, <4>1, <4>2
      <3> QED
        BY <3>1, <3>2
    <2>6. c < m
      BY <1>1, <1>4, <2>2, <2>5
    <2>7. SubSeq(text, 1, c) # text
      <3>1. Len(text) # c
        BY <1>1, <2>2, <2>6
      <3> QED
        BY <2>4, <3>1
    <2>8. IsPrefix(SubSeq(text, 1, c), text)
      BY <1>1, <2>2, <2>4 DEF IsPrefix
    <2>9. /\ IsPrefix(cut.text, text)
          /\ \A n \in 0..Len(text) : n <= Len(cut.text) <=> Bytes(text, n) <= max
          /\ cut.truncated <=> cut.text # text
      BY <2>3, <2>4, <2>5, <2>7, <2>8
    <2> QED
      BY <2>9 DEF cut
  <1> QED
    BY <1>3, <1>4

(***************************************************************************)
(* What the producers emit                                                 *)
(***************************************************************************)

\* The hosted calls of a payload are a sequence, each the call of an item that is hosted.
LEMMA HostedCallsType ==
  ASSUME NEW payload, payload.output = None \/ IsSequence(payload.output)
  PROVE  \E C : /\ HostedCalls(payload) \in Seq(C)
                /\ \A call \in C : payload.output # None /\ \E i \in DOMAIN payload.output :
                     /\ IsHosted(payload.output[i])
                     /\ call.call_id = HostedCallId(payload.output[i], i)
  <1> DEFINE items       == IF payload.output = None THEN <<>> ELSE payload.output
             Call(index) ==
               [tool_name   |-> items[index].type[1],
                call_id     |-> HostedCallId(items[index], index),
                args_json   |-> CompactJsonSubset(items[index], InputKeys),
                result_json |-> CompactJsonSubset(items[index], OutputKeys)]
             m     == Len(items)
             C     == {Call(n) : n \in {k \in 1..m : IsHosted(items[k])}}
             Is(f) == f = [n \in 0..m |-> IF n = 0 THEN <<>>
                                          ELSE IF IsHosted(items[n])
                                            THEN Append(f[n - 1], Call(n))
                                          ELSE f[n - 1]]
             calls == CHOOSE f : Is(f)
             step  == [n \in 1..m |-> [s \in Seq(C) |->
                         IF IsHosted(items[n]) THEN Append(s, Call(n)) ELSE s]]
  <1>1. m \in Nat
    BY DEF IsSequence
  <1>2. HostedCalls(payload) = calls[m]
    BY DEF HostedCalls
  <1>12. \A n \in 1..m : payload.output # None /\ n \in DOMAIN payload.output
                          /\ items[n] = payload.output[n]
                          /\ Call(n).call_id = HostedCallId(payload.output[n], n)
    <2>1. payload.output = None => m = 0
      OBVIOUS
    <2>2. payload.output # None => m = Len(payload.output) /\ DOMAIN payload.output = 1..m
      BY DEF IsSequence
    <2> QED
      BY <2>1, <2>2
  <1> HIDE DEF m, Call, items
  <1>13. \A call \in C : payload.output # None /\ \E i \in DOMAIN payload.output :
           /\ IsHosted(payload.output[i])
           /\ call.call_id = HostedCallId(payload.output[i], i)
    BY <1>12
  <1>3. \A n \in 1..m : IsHosted(items[n]) => Call(n) \in C
    OBVIOUS
  <1> HIDE DEF C
  <1>4. step \in Steps(m, Seq(C)) /\ <<>> \in Seq(C)
    BY <1>3 DEF Steps
  <1>5. PICK f : Follows(f, m, Seq(C), <<>>, step)
    <2> HIDE DEF step
    <2> QED
      BY <1>1, <1>4, Recursion
  <1>6. Is(f)
    <2>1. ASSUME NEW n \in 1..m
          PROVE  f[n] = IF IsHosted(items[n]) THEN Append(f[n - 1], Call(n)) ELSE f[n - 1]
      <3>1. f[n - 1] \in Seq(C) /\ f[n] = step[n][f[n - 1]]
        BY <1>1, <1>5, n - 1 \in 0..m DEF Follows
      <3>2. step[n][f[n - 1]] =
              IF IsHosted(items[n]) THEN Append(f[n - 1], Call(n)) ELSE f[n - 1]
        BY <3>1
      <3> HIDE DEF step
      <3> QED
        BY <3>1, <3>2
    <2>2. f = [n \in 0..m |-> f[n]]
      BY <1>5 DEF Follows
    <2>3. \A n \in 0..m : f[n] = IF n = 0 THEN <<>>
                                 ELSE IF IsHosted(items[n]) THEN Append(f[n - 1], Call(n))
                                 ELSE f[n - 1]
      <3>1. f[0] = <<>>
        BY <1>5 DEF Follows
      <3>2. \A n \in 0..m : n = 0 \/ n \in 1..m
        BY <1>1
      <3> QED
        BY <2>1, <3>1, <3>2
    <2> QED
      BY <2>2, <2>3
  <1>7. Is(calls)
    BY <1>6
  <1>8. \A n \in 0..m : calls[n] = IF n = 0 THEN <<>>
                                   ELSE IF IsHosted(items[n]) THEN Append(calls[n - 1], Call(n))
                                   ELSE calls[n - 1]
    <2> HIDE DEF calls
    <2> QED
      BY <1>7
  <1> HIDE DEF calls
  <1> DEFINE P == {n \in 0..m : calls[n] \in Seq(C)}
  <1>9. 0 \in P
    <2>1. 0 \in 0..m
      BY <1>1
    <2>2. calls[0] = <<>>
      BY <1>8, <2>1, Zenon
    <2> QED
      BY <1>4, <2>1, <2>2
  <1>10. ASSUME NEW n \in 1..m, n - 1 \in P PROVE n \in P
    <2>1. calls[n - 1] \in Seq(C) /\ n \in 0..m
      BY <1>1, <1>10
    <2>2. calls[n] = IF IsHosted(items[n]) THEN Append(calls[n - 1], Call(n)) ELSE calls[n - 1]
      BY <1>1, <1>8, <2>1
    <2>3. IsHosted(items[n]) => Append(calls[n - 1], Call(n)) \in Seq(C)
      BY <1>3, <2>1
    <2> QED
      BY <2>1, <2>2, <2>3
  <1>11. m \in P
    <2>1. m \in 0..m
      BY <1>1
    <2> HIDE DEF P
    <2> QED
      BY <1>1, <1>9, <1>10, <2>1, Upwards
  <1> QED
    BY <1>2, <1>11, <1>13

\* An event a producer has to emit.
IsEvent(e) ==
  /\ e = [kind |-> e.kind, conversation |-> e.conversation, call |-> e.call, data |-> e.data]
  /\ e.kind \in EventKind
  /\ \A f \in TokenField \cap DOMAIN e.data :
       e.kind = "prompt.completed" => e.data[f] \in Nat
  /\ "duration_ms" \in DOMAIN e.data =>
       e.kind \in TimedKind \cup SearchKind /\ e.data.duration_ms \in Nat
  /\ "error_class" \in DOMAIN e.data => e.data.error_class # None
  /\ "payload" \in DOMAIN e.data =>
       "whole" \in DOMAIN e.data /\ e.data.payload = Scrubbed(e.data.whole)

LEMMA HostedEventsType ==
  ASSUME NEW v, NEW response, NEW payload,
         payload.output = None \/ IsSequence(payload.output)
  PROVE  /\ IsSequence(HostedEvents(v, response, payload))
         /\ \A e \in Range(HostedEvents(v, response, payload)) : IsEvent(e)
  <1> DEFINE calls == HostedCalls(payload)
             rid   == IF response # None THEN response ELSE payload.id
             rest  == IF rid = None THEN <<>> ELSE [response_id |-> rid]
             Data(call, text) ==
               Extend([tool_name |-> call.tool_name, payload |-> Scrubbed(text),
                       whole |-> text], rest)
             Event(kind, call, text) ==
               [kind |-> kind, conversation |-> v, call |-> call.call_id,
                data |-> Data(call, text)]
             events == HostedEvents(v, response, payload)
  <1>1. Len(calls) \in Nat
    BY HostedCallsType
  <1> HIDE DEF calls
  <1>2. events = [n \in 1..(2 * Len(calls)) |->
                    LET call == calls[(n + 1) \div 2] IN
                    IF n % 2 = 1 THEN Event("tool.hosted_invoked", call, call.args_json)
                    ELSE Event("tool.hosted_completed", call, call.result_json)]
    BY DEF HostedEvents, calls
  <1>3. \A text, call :
          /\ DOMAIN Data(call, text) \in
               SUBSET {"tool_name", "payload", "whole", "response_id"}
          /\ "whole" \in DOMAIN Data(call, text)
          /\ Data(call, text).payload = Scrubbed(Data(call, text).whole)
    BY DEF Extend
  <1> HIDE DEF events, Data
  <1>4. \A kind \in HostedKind : \A text, call : IsEvent(Event(kind, call, text))
    <2> SUFFICES ASSUME NEW kind \in HostedKind, NEW text, NEW call
                 PROVE  IsEvent(Event(kind, call, text))
      OBVIOUS
    <2>1. kind \in EventKind
      BY DEF HostedKind, EventKind, ToolKind
    <2>2. "duration_ms" \notin DOMAIN Data(call, text) /\ "error_class" \notin DOMAIN Data(call, text)
      BY <1>3
    <2>3. kind # "prompt.completed"
      BY DEF HostedKind
    <2> QED
      BY <1>3, <2>1, <2>2, <2>3 DEF IsEvent
  <1>5. ASSUME NEW n \in DOMAIN events PROVE IsEvent(events[n])
    <2>1. "tool.hosted_invoked" \in HostedKind /\ "tool.hosted_completed" \in HostedKind
      BY DEF HostedKind
    <2> DEFINE call == calls[(n + 1) \div 2]
    <2>2. events[n] = IF n % 2 = 1
                        THEN Event("tool.hosted_invoked", call, call.args_json)
                        ELSE Event("tool.hosted_completed", call, call.result_json)
      BY <1>2
    <2> HIDE DEF call, Event
    <2> QED
      BY <1>4, <2>1, <2>2
  <1>6. IsSequence(events)
    <2>1. 2 * Len(calls) \in Nat /\ DOMAIN events = 1..(2 * Len(calls))
      BY <1>1, <1>2
    <2>2. events = [n \in 1..(2 * Len(calls)) |-> events[n]]
      BY <1>2
    <2>3. \A n \in DOMAIN events : events[n] \in Range(events)
      BY DEF Range
    <2> QED
      BY <2>1, <2>2, <2>3 DEF IsSequence
  <1> QED
    BY <1>5, <1>6 DEF Range, events

LEMMA AgentEventsType ==
  ASSUME NEW job, AgentJob(job)
  PROVE  /\ IsSequence(AgentEvents(job))
         /\ \A e \in Range(AgentEvents(job)) : IsEvent(e)
  <1> DEFINE events  == job.events
             Made(e) == IF "whole" \in DOMAIN e.data
                          THEN [e EXCEPT !.data =
                                  Extend([payload |-> Scrubbed(e.data.whole)], @)]
                          ELSE e
             made    == AgentEvents(job)
  <1>1. IsSequence(events)
    BY DEF AgentJob
  <1>2. made = [i \in DOMAIN events |-> Made(events[i])]
    BY DEF AgentEvents
  <1>3. ASSUME NEW e \in Range(events) PROVE IsEvent(Made(e))
    <2>1. /\ e = [kind |-> e.kind, conversation |-> e.conversation, call |-> e.call,
                  data |-> e.data]
          /\ e.kind \in EventKind
          /\ "payload" \notin DOMAIN e.data
          /\ \A f \in TokenField \cap DOMAIN e.data : e.data[f] \in Nat
          /\ "duration_ms" \in DOMAIN e.data =>
               e.kind \in TimedKind \cup SearchKind /\ e.data.duration_ms \in Nat
          /\ "error_class" \in DOMAIN e.data => e.data.error_class # None
      BY DEF AgentJob
    <2>2. CASE "whole" \notin DOMAIN e.data
      BY <2>1, <2>2 DEF IsEvent
    <2>3. CASE "whole" \in DOMAIN e.data
      <3> DEFINE data == Extend([payload |-> Scrubbed(e.data.whole)], e.data)
      <3>1. /\ DOMAIN data = {"payload"} \cup DOMAIN e.data
            /\ data.payload = Scrubbed(e.data.whole)
            /\ \A f \in DOMAIN e.data : data[f] = e.data[f]
        BY <2>1 DEF Extend
      <3> HIDE DEF data
      <3>2. Made(e) = [kind |-> e.kind, conversation |-> e.conversation, call |-> e.call,
                       data |-> data]
        BY <2>1, <2>3 DEF data
      <3>3. \A f \in TokenField : f # "payload"
        BY DEF TokenField
      <3> HIDE DEF Made
      <3>4. IsEvent([kind |-> e.kind, conversation |-> e.conversation, call |-> e.call,
                     data |-> data])
        <4>1. \A f \in TokenField \cap DOMAIN data : data[f] \in Nat
          BY <2>1, <3>1, <3>3
        <4>2. "duration_ms" \in DOMAIN data =>
                e.kind \in TimedKind \cup SearchKind /\ data.duration_ms \in Nat
          BY <2>1, <3>1
        <4>3. "whole" \in DOMAIN data /\ data.payload = Scrubbed(data.whole)
          BY <2>3, <3>1
        <4>4. "error_class" \in DOMAIN data => data.error_class # None
          BY <2>1, <3>1
        <4> QED
          BY <2>1, <4>1, <4>2, <4>3, <4>4 DEF IsEvent
      <3> QED
        BY <3>2, <3>4
    <2> QED
      BY <2>2, <2>3
  <1> HIDE DEF Made, made
  <1>4. \A i \in DOMAIN events : events[i] \in Range(events)
    BY DEF Range
  <1>5. \A e \in Range(made) : IsEvent(e)
    BY <1>2, <1>3, <1>4 DEF Range
  <1>6. IsSequence(made)
    <2>1. Len(events) \in Nat /\ DOMAIN made = 1..Len(events)
      BY <1>1, <1>2 DEF IsSequence
    <2>2. made = [i \in 1..Len(events) |-> made[i]]
      BY <1>2, <2>1
    <2>3. \A i \in DOMAIN made : made[i] \in Range(made)
      BY DEF Range
    <2> QED
      BY <2>1, <2>2, <2>3 DEF IsSequence
  <1> QED
    BY <1>5, <1>6 DEF made

\* A script is a sequence of events.
LEMMA ScriptType ==
  /\ \A job \in Jobs : Script(job) \in Seq(Unstamped)
  /\ \A e \in Unstamped : IsEvent(e)
  <1>1. ASSUME NEW job \in Jobs
        PROVE  IsSequence(Script(job)) /\ \A e \in Range(Script(job)) : IsEvent(e)
    <2>1. CASE "payload" \in DOMAIN job
      <3>1. PayloadJob(job)
        BY <2>1, JobsAssumption
      <3> QED
        BY <2>1, <3>1, HostedEventsType DEF PayloadJob, Script
    <2>2. CASE "payload" \notin DOMAIN job
      <3>1. AgentJob(job)
        BY <2>2, JobsAssumption
      <3> QED
        BY <2>2, <3>1, AgentEventsType DEF Script
    <2> QED
      BY <2>1, <2>2
  <1>2. ASSUME NEW job \in Jobs PROVE Script(job) \in Seq(Unstamped)
    <2>1. Script(job) \in Seq(Range(Script(job)))
      BY <1>1 DEF IsSequence
    <2>2. Range(Script(job)) \subseteq Unstamped
      BY DEF Unstamped
    <2> HIDE DEF Script, Unstamped
    <2> QED
      BY <2>1, <2>2
  <1> QED
    BY <1>1, <1>2 DEF Unstamped

(***************************************************************************)
(* Types, and the event stream                                             *)
(***************************************************************************)

\* What a producer may put into an envelope is typed apart from the stream.
ProducerTypes ==
  /\ wall \in Walls
  /\ todo \subseteq Jobs
  /\ script \in [Producer -> Seq(Unstamped)]
  /\ shared \in BOOLEAN

LEMMA ProducersInit == Init => ProducerTypes
  <1> SUFFICES ASSUME Init PROVE ProducerTypes
    OBVIOUS
  <1>1. todo \subseteq Jobs
    BY DEF Init, Jobs
  <1>2. script \in [Producer -> Seq(Unstamped)]
    <2>1. <<>> \in Seq(Unstamped)
      OBVIOUS
    <2> QED
      BY <2>1 DEF Init
  <1>3. wall \in Walls /\ shared \in BOOLEAN
    BY DEF Init
  <1> QED
    BY <1>1, <1>2, <1>3 DEF ProducerTypes

LEMMA ProducersStep ==
  ASSUME ProducerTypes, [Next]_vars
  PROVE  ProducerTypes'
  <1> USE DEF ProducerTypes
  <1>1. CASE UNCHANGED vars
    BY <1>1 DEF vars
  <1>2. ASSUME NEW p \in Producer, Start(p) PROVE ProducerTypes'
    <2>1. PICK job \in todo :
            /\ todo' = todo \ {job}
            /\ script' = [script EXCEPT ![p] = Script(job)]
            /\ shared' = (shared \/ \E q \in Producer \ {p} :
                                      KeysOf(q) \cap Keys(Script(job)) # {})
            /\ UNCHANGED wall
      BY <1>2 DEF Start
    <2>2. Script(job) \in Seq(Unstamped)
      BY ScriptType
    <2>3. shared' \in BOOLEAN
      BY <2>1
    <2> QED
      BY <2>1, <2>2, <2>3
  <1>3. ASSUME NEW p \in Producer, Build(p) PROVE ProducerTypes'
    <2>1. script[p] \in Seq(Unstamped) /\ script[p] # <<>>
      BY <1>3 DEF Build
    <2>2. Tail(script[p]) \in Seq(Unstamped)
      BY <2>1
    <2> QED
      BY <1>3, <2>2 DEF Build
  <1>4. ASSUME NEW p \in Producer, Capture(p) \/ EmitMetrics(p) PROVE ProducerTypes'
    BY <1>4 DEF Capture, EmitMetrics
  <1> QED
    BY <1>1, <1>2, <1>3, <1>4 DEF Next

\* What is built is an event of a script and the time of the wall clock.
LEMMA BuildIsStream ==
  ASSUME ProducerTypes, Stream!TypeOK, NEW p \in Producer, Build(p)
  PROVE  Stream!BuildSome(p)
  <1> DEFINE body == [event |-> Head(script[p]), at |-> wall[tick]]
  <1>1. Stream!Build(p, body)
    BY DEF Build
  <1>2. body \in [event : Unstamped, at : Nat]
    <2>1. script[p] \in Seq(Unstamped) /\ script[p] # <<>>
      BY DEF Build, ProducerTypes
    <2>2. Head(script[p]) \in Unstamped
      BY <2>1
    <2>3. wall[tick] \in Nat
      BY WallsAssumption DEF Build, ProducerTypes
    <2> QED
      BY <2>2, <2>3
  <1> HIDE DEF body
  <1>3. built'[p] = [body |-> body, by |-> p, tick |-> tick, seen |-> Len(Stream!wire)]
    BY <1>1 DEF Stream!Build, Stream!TypeOK
  <1>4. built'[p] \in Stream!Event
    <2>1. tick \in Nat /\ Stream!wire \in Seq(Stream!Event)
      BY DEF Stream!TypeOK, Stream!wire
    <2>2. Len(Stream!wire) \in Nat
      BY <2>1
    <2> QED
      BY <1>2, <1>3, <2>1, <2>2 DEF Stream!Event
  <1>5. built'[p] # None
    BY <1>4, NoneAssumption
  <1>6. built'[p].body = body
    BY <1>3
  <1> QED
    BY <1>1, <1>2, <1>5, <1>6 DEF Stream!BuildSome

LEMMA StepIsStream ==
  ASSUME ProducerTypes, Stream!TypeOK, [Next]_vars
  PROVE  [Stream!Next]_streamVars
  <1>1. CASE UNCHANGED vars
    BY <1>1 DEF vars
  <1>2. ASSUME NEW p \in Producer, Start(p) \/ EmitMetrics(p) PROVE UNCHANGED streamVars
    BY <1>2 DEF Start, EmitMetrics
  <1>3. ASSUME NEW p \in Producer, Build(p) PROVE Stream!Next
    BY <1>3, BuildIsStream DEF Stream!Next
  <1>4. ASSUME NEW p \in Producer, Capture(p) PROVE Stream!Next
    BY <1>4 DEF Stream!Next, Capture
  <1> QED
    BY <1>1, <1>2, <1>3, <1>4 DEF Next

\* What an event of the stream carries.
LEMMA DecodedType ==
  ASSUME NEW e \in Stream!Event
  PROVE  LET d == Decoded(e) IN
         /\ d = [kind |-> e.body.event.kind, conversation |-> e.body.event.conversation,
                 call |-> e.body.event.call, data |-> e.body.event.data,
                 tick |-> e.tick, at |-> e.body.at]
         /\ e.body.event \in Unstamped /\ IsEvent(e.body.event)
         /\ d.tick = e.tick /\ d.at \in Nat
  <1>1. e.body.event \in Unstamped /\ e.body.at \in Nat
    BY DEF Stream!Event
  <1>2. IsEvent(e.body.event)
    BY <1>1, ScriptType
  <1> DEFINE b == e.body.event
  <1>3. b = [kind |-> b.kind, conversation |-> b.conversation, call |-> b.call, data |-> b.data]
    BY <1>2 DEF IsEvent
  <1> HIDE DEF b
  <1>4. \A x : Extend([kind |-> b.kind, conversation |-> b.conversation, call |-> b.call,
                       data |-> b.data], [tick |-> e.tick, at |-> e.body.at]) =
               [kind |-> b.kind, conversation |-> b.conversation, call |-> b.call,
                data |-> b.data, tick |-> e.tick, at |-> e.body.at]
    BY DEF Extend
  <1>5. Decoded(e) = [kind |-> b.kind, conversation |-> b.conversation, call |-> b.call,
                      data |-> b.data, tick |-> e.tick, at |-> e.body.at]
    BY <1>3, <1>4 DEF Decoded, b
  <1> QED
    BY <1>1, <1>2, <1>5 DEF b

\* What is counted of an event is a number.
LEMMA RecordedType ==
  ASSUME NEW e \in Stream!Event
  PROVE  \A m \in DOMAIN Recorded(Decoded(e)) : Recorded(Decoded(e))[m] \in Nat
  <1> DEFINE d == Decoded(e)
             counters == {<<f, Labels(d)>> : f \in TokenCounters(d)}
  <1>1. d.kind = e.body.event.kind /\ d.data = e.body.event.data /\ IsEvent(e.body.event)
    BY DecodedType
  <1> HIDE DEF d
  <1>2. \A f \in TokenCounters(d) : d.data[f] \in Nat
    BY <1>1 DEF IsEvent, TokenCounters
  <1>3. \A m \in counters : d.data[m[1]] \in Nat
    BY <1>2
  <1>4. \A m \in DOMAIN Recorded(d) : Recorded(d)[m] = IF m \in counters THEN d.data[m[1]] ELSE 1
    BY DEF Recorded
  <1> HIDE DEF counters
  <1> QED
    BY <1>3, <1>4 DEF d

LEMMA StreamTypes ==
  ASSUME Stream!TypeOK, [Stream!Next]_streamVars
  PROVE  Stream!TypeOK'
  <1> USE DEF Stream!TypeOK
  <1>1. CASE UNCHANGED streamVars
    BY <1>1 DEF streamVars
  <1>2. CASE Stream!Clear
    BY <1>2 DEF Stream!Clear, Stream!wire
  <1>3. ASSUME NEW p \in Producer, Stream!Capture(p) PROVE Stream!TypeOK'
    <2>1. built[p] \in Stream!Event
      BY <1>3 DEF Stream!Capture
    <2>2. Append(buffer, built[p]) \in Seq(Stream!Event)
      BY <2>1
    <2> QED
      BY <1>3, <2>2 DEF Stream!Capture
  <1>4. ASSUME NEW p \in Producer, Stream!BuildSome(p) PROVE Stream!TypeOK'
    <2> DEFINE new == [body |-> built'[p].body, by |-> p, tick |-> tick,
                       seen |-> Len(Stream!wire)]
    <2>1. built' = [built EXCEPT ![p] = new]
      BY <1>4 DEF Stream!BuildSome, Stream!Build
    <2>2. Stream!wire \in Seq(Stream!Event)
      BY DEF Stream!wire
    <2>3. Len(Stream!wire) \in Nat
      BY <2>2
    <2>4. new \in Stream!Event
      BY <1>4, <2>3 DEF Stream!BuildSome, Stream!Event
    <2> HIDE DEF new
    <2>5. built' \in [Producer -> Stream!Event \cup {None}]
      BY <2>1, <2>4
    <2>6. tick' \in Nat /\ UNCHANGED <<buffer, cleared>>
      BY <1>4 DEF Stream!BuildSome, Stream!Build
    <2> QED
      BY <2>5, <2>6
  <1> QED
    BY <1>1, <1>2, <1>3, <1>4 DEF Stream!Next

\* What is counted, and what is still to be.
MetricTypes ==
  /\ counting \in [Producer -> Stream!Event \cup {None}]
  /\ \A m \in DOMAIN metrics : metrics[m] \in Nat

TypeInv == ProducerTypes /\ Stream!TypeOK /\ MetricTypes

LEMMA TypesInit == Init => TypeInv
  <1> SUFFICES ASSUME Init PROVE TypeInv
    OBVIOUS
  <1>1. ProducerTypes
    BY ProducersInit
  <1>2. Stream!TypeOK
    BY DEF Init, Stream!Init, Stream!TypeOK
  <1>3. MetricTypes
    BY DEF Init, MetricTypes
  <1> QED
    BY <1>1, <1>2, <1>3 DEF TypeInv

LEMMA TypesStep ==
  ASSUME TypeInv, [Next]_vars
  PROVE  TypeInv'
  <1>1. ProducerTypes'
    BY ProducersStep DEF TypeInv
  <1>2. [Stream!Next]_streamVars
    BY StepIsStream DEF TypeInv
  <1>3. Stream!TypeOK'
    BY <1>2, StreamTypes DEF TypeInv
  <1>4. MetricTypes'
    <2> USE DEF MetricTypes, TypeInv
    <2>1. CASE UNCHANGED vars
      BY <2>1 DEF vars
    <2>2. ASSUME NEW p \in Producer, Start(p) \/ Build(p) PROVE MetricTypes'
      BY <2>2 DEF Start, Build
    <2>3. ASSUME NEW p \in Producer, Capture(p) PROVE MetricTypes'
      <3>1. built[p] \in Stream!Event \cup {None}
        BY DEF Stream!TypeOK
      <3> QED
        BY <2>3, <3>1 DEF Capture
    <2>4. ASSUME NEW p \in Producer, EmitMetrics(p) PROVE MetricTypes'
      <3> DEFINE new == Recorded(Decoded(counting[p]))
      <3>1. /\ counting[p] \in Stream!Event
            /\ metrics' = metrics (+) new
            /\ counting' = [counting EXCEPT ![p] = None]
        BY <2>4 DEF EmitMetrics
      <3>2. \A m \in DOMAIN new : new[m] \in Nat
        BY <3>1, RecordedType
      <3> HIDE DEF new
      <3>3. metrics' = [m \in DOMAIN metrics \cup DOMAIN new |->
                          (IF m \in DOMAIN metrics THEN metrics[m] ELSE 0)
                            + (IF m \in DOMAIN new THEN new[m] ELSE 0)]
        BY <3>1 DEF (+)
      <3>4. \A m \in DOMAIN metrics' : metrics'[m] \in Nat
        BY <3>2, <3>3
      <3>5. counting' \in [Producer -> Stream!Event \cup {None}]
        BY <3>1
      <3> QED
        BY <3>4, <3>5
    <2> QED
      BY <2>1, <2>2, <2>3, <2>4 DEF Next
  <1> QED
    BY <1>1, <1>3, <1>4 DEF TypeInv

LEMMA TypesHold == Spec => []TypeInv
  BY TypesInit, TypesStep, PTL DEF Spec

\* What the variables hold; an event captured is of one of the kinds of event.rs.
THEOREM Typing == Spec => []TypeOK
  <1>1. ASSUME TypeInv PROVE TypeOK
    <2>1. ASSUME NEW i \in DOMAIN Captured PROVE Captured[i].kind \in EventKind
      <3>1. buffer[i] \in Stream!Event /\ Captured[i] = Decoded(buffer[i])
        BY <1>1 DEF TypeInv, Stream!TypeOK, Captured
      <3> DEFINE b == buffer[i].body.event
      <3>2. Captured[i].kind = b.kind /\ IsEvent(b)
        BY <3>1, DecodedType
      <3> HIDE DEF b
      <3> QED
        BY <3>2 DEF IsEvent
    <2> QED
      BY <1>1, <2>1 DEF TypeInv, ProducerTypes, MetricTypes, TypeOK
  <1> QED
    BY <1>1, TypesHold, PTL

\* The text of an event is the longest prefix of the redacted text that fits into the
\* limit, marked truncated if that is not all, for any policy and any limit: what is
\* emitted was scrubbed whole.
THEOREM PayloadsArePrefixes == Spec => []PayloadsAreLongestPrefixes
  <1>1. ASSUME TypeInv PROVE PayloadsAreLongestPrefixes
    <2> SUFFICES ASSUME NEW e \in Emitted, "payload" \in DOMAIN e.data
                 PROVE  LET all  == Redact(e.data.whole)
                            kept == e.data.payload.text
                        IN  /\ IsPrefix(kept, all)
                            /\ \A n \in 0..Len(all) :
                                 n <= Len(kept) <=> Bytes(all, n) <= PayloadTruncateBytes
                            /\ e.data.payload.truncated <=> kept # all
      BY DEF PayloadsAreLongestPrefixes
    <2>1. PICK x \in Stream!Event : e = Decoded(x)
      <3>1. \A y \in Range(buffer) : y \in Stream!Event
        BY <1>1 DEF TypeInv, Stream!TypeOK, Range
      <3>2. \A p \in Producer : built[p] # None => built[p] \in Stream!Event
        BY <1>1 DEF TypeInv, Stream!TypeOK
      <3> QED
        BY <3>1, <3>2 DEF Emitted
    <2> DEFINE b == x.body.event
    <2>2. e.data = b.data /\ b \in Unstamped /\ IsEvent(b)
      BY <2>1, DecodedType
    <2> HIDE DEF b
    <2>3. "whole" \in DOMAIN b.data /\ b.data.payload = Scrubbed(b.data.whole)
      BY <2>2 DEF IsEvent
    <2>4. IsText(Redact(b.data.whole))
      BY <2>2, <2>3, RedactAssumption
    <2>5. PayloadTruncateBytes \in Nat
      BY TruncateAssumption
    <2> QED
      BY <2>2, <2>3, <2>4, <2>5, TruncateIsLongestPrefix DEF Scrubbed
  <1> QED
    BY <1>1, TypesHold, PTL

(***************************************************************************)
(* Durations                                                               *)
(***************************************************************************)

\* The ends of a span are among the first events of the snapshot: an invocation and, if
\* it is closed, a later terminal event with its key.
IsSpan(span, events, n) ==
  \E i \in 1..n :
    /\ span.ends[1] = events[i]
    /\ span.ends[1].kind \in InvokeKind
    /\ Key(span.ends[1]) = span.key
    /\ \/ Len(span.ends) = 1
       \/ /\ Len(span.ends) = 2
          /\ \E j \in (i + 1)..n : span.ends[2] = events[j]
          /\ span.ends[2].kind \in TerminalKind
          /\ Key(span.ends[2]) = span.key

\* spans and index, in the course of the pass.
IsPassState(acc, events, last) ==
  /\ acc = [spans |-> acc.spans, index |-> acc.index]
  /\ acc.spans \in Seq(Range(acc.spans))
  /\ \A n \in DOMAIN acc.spans :
       /\ acc.spans[n] = [key |-> acc.spans[n].key, ends |-> acc.spans[n].ends]
       /\ acc.spans[n].ends \in Seq(Range(acc.spans[n].ends))
       /\ IsSpan(acc.spans[n], events, last)
  /\ \A k \in DOMAIN acc.index :
       acc.index[k] \in DOMAIN acc.spans /\ acc.spans[acc.index[k]].key = k

LEMMA PassStep ==
  ASSUME NEW events, NEW last \in Nat \ {0}, NEW acc, IsPassState(acc, events, last - 1)
  PROVE  IsPassState(TakeUp(acc, events[last]), events, last)
  <1> DEFINE n == Len(acc.spans)
             e == events[last]
  <1>0. \A span : IsSpan(span, events, last - 1) => IsSpan(span, events, last)
    <2> SUFFICES ASSUME NEW span, IsSpan(span, events, last - 1)
                 PROVE  IsSpan(span, events, last)
      OBVIOUS
    <2>1. /\ \A i \in 1..(last - 1) : i \in 1..last
          /\ \A i \in 1..(last - 1), j \in Nat : j \in (i + 1)..(last - 1) => j \in (i + 1)..last
      OBVIOUS
    <2> QED
      BY <2>1 DEF IsSpan
  <1> SUFFICES IsPassState(TakeUp(acc, e), events, last)
    OBVIOUS
  <1> HIDE DEF e
  <1>1. n \in Nat /\ DOMAIN acc.spans = 1..n
    BY DEF IsPassState
  <1>2. CASE e.kind \in InvokeKind
    <2> DEFINE new   == [key |-> Key(e), ends |-> <<e>>]
               spans == Append(acc.spans, new)
               index == [k \in DOMAIN acc.index \cup {Key(e)} |->
                           IF k = Key(e) THEN n + 1 ELSE acc.index[k]]
    <2>1. TakeUp(acc, e) = [spans |-> spans, index |-> index]
      BY <1>2 DEF TakeUp, OpenSpan
    <2>2. /\ DOMAIN spans = 1..(n + 1) /\ spans[n + 1] = new
          /\ \A i \in 1..n : spans[i] = acc.spans[i]
          /\ spans \in Seq(Range(spans))
      <3>1. acc.spans \in Seq(Range(acc.spans) \cup {new})
        BY DEF IsPassState
      <3>2. spans \in Seq(Range(acc.spans) \cup {new})
        BY <3>1
      <3>3. DOMAIN spans = 1..(n + 1) /\ spans[n + 1] = new
            /\ \A i \in 1..n : spans[i] = acc.spans[i]
        BY <1>1, <3>1
      <3>4. spans \in Seq(Range(spans))
        <4>1. spans = [i \in 1..(n + 1) |-> spans[i]]
          BY <3>2, <3>3
        <4>2. \A i \in 1..(n + 1) : spans[i] \in Range(spans)
          BY <3>3 DEF Range
        <4> HIDE DEF spans
        <4> QED
          BY <1>1, <4>1, <4>2
      <3> QED
        BY <3>3, <3>4
    <2>3. new.ends \in Seq(Range(new.ends)) /\ IsSpan(new, events, last)
      <3>1. <<e>> \in Seq(Range(<<e>>)) /\ Len(<<e>>) = 1 /\ <<e>>[1] = e
        BY DEF Range
      <3>2. last \in 1..last /\ e = events[last]
        BY DEF e
      <3> QED
        BY <1>2, <3>1, <3>2 DEF IsSpan
    <2>4. \A i \in 1..(n + 1) :
            /\ spans[i] = [key |-> spans[i].key, ends |-> spans[i].ends]
            /\ spans[i].ends \in Seq(Range(spans[i].ends))
            /\ IsSpan(spans[i], events, last)
      <3> SUFFICES ASSUME NEW i \in 1..(n + 1)
                   PROVE  /\ spans[i] = [key |-> spans[i].key, ends |-> spans[i].ends]
                          /\ spans[i].ends \in Seq(Range(spans[i].ends))
                          /\ IsSpan(spans[i], events, last)
        OBVIOUS
      <3>1. CASE i = n + 1
        BY <2>2, <2>3, <3>1
      <3>2. CASE i # n + 1
        <4>1. i \in 1..n
          BY <1>1, <3>2
        <4> HIDE DEF spans
        <4> QED
          BY <1>0, <1>1, <2>2, <4>1 DEF IsPassState
      <3> QED
        BY <3>1, <3>2
    <2>5. \A k \in DOMAIN index : index[k] \in DOMAIN spans /\ spans[index[k]].key = k
      <3> SUFFICES ASSUME NEW k \in DOMAIN index
                   PROVE  index[k] \in DOMAIN spans /\ spans[index[k]].key = k
        OBVIOUS
      <3>1. CASE k = Key(e)
        <4>1. index[k] = n + 1 /\ n + 1 \in 1..(n + 1)
          BY <1>1, <3>1
        <4> HIDE DEF index, spans
        <4> QED
          BY <2>2, <3>1, <4>1
      <3>2. CASE k # Key(e)
        <4>1. k \in DOMAIN acc.index /\ index[k] = acc.index[k]
          BY <3>2
        <4>2. acc.index[k] \in 1..n /\ acc.spans[acc.index[k]].key = k
          BY <1>1, <4>1 DEF IsPassState
        <4> HIDE DEF index, spans
        <4> QED
          BY <1>1, <2>2, <4>1, <4>2
      <3> QED
        BY <3>1, <3>2
    <2> HIDE DEF spans, index
    <2> QED
      BY <2>1, <2>2, <2>4, <2>5 DEF IsPassState
  <1>3. CASE /\ e.kind \notin InvokeKind /\ e.kind \in TerminalKind
             /\ Key(e) \in DOMAIN acc.index
    <2> DEFINE i     == acc.index[Key(e)]
               old   == acc.spans[i]
               new   == [key |-> old.key, ends |-> <<old.ends[1], e>>]
               spans == [acc.spans EXCEPT ![i] = new]
    <2>1. i \in 1..n /\ old.key = Key(e) /\ old = [key |-> old.key, ends |-> old.ends]
      BY <1>1, <1>3 DEF IsPassState
    <2> HIDE DEF i
    <2>2. TakeUp(acc, e) = [spans |-> spans, index |-> acc.index]
      <3>1. acc = [spans |-> acc.spans, index |-> acc.index]
        BY DEF IsPassState
      <3>2. TakeUp(acc, e) = [acc EXCEPT !.spans[i].ends = <<@[1], e>>]
        BY <1>3 DEF TakeUp, CloseSpan, i
      <3>3. [acc EXCEPT !.spans[i].ends = <<@[1], e>>] =
              [acc EXCEPT !.spans = [acc.spans EXCEPT ![i] =
                 [acc.spans[i] EXCEPT !.ends = <<acc.spans[i].ends[1], e>>]]]
        BY <1>1, <2>1, <3>1
      <3>4. [acc.spans[i] EXCEPT !.ends = <<acc.spans[i].ends[1], e>>] = new
        BY <2>1
      <3> QED
        BY <3>1, <3>2, <3>3, <3>4
    <2>3. /\ DOMAIN spans = 1..n /\ spans[i] = new
          /\ \A j \in 1..n : j # i => spans[j] = acc.spans[j]
          /\ spans \in Seq(Range(spans))
      <3>1. DOMAIN spans = 1..n /\ spans[i] = new
            /\ \A j \in 1..n : j # i => spans[j] = acc.spans[j]
        BY <1>1, <2>1
      <3>2. spans = [j \in 1..n |-> spans[j]]
        BY <1>1
      <3>3. \A j \in 1..n : spans[j] \in Range(spans)
        BY <3>1 DEF Range
      <3> HIDE DEF spans
      <3>4. spans \in Seq(Range(spans))
        BY <1>1, <3>2, <3>3
      <3> QED
        BY <3>1, <3>4
    <2>4. new.ends \in Seq(Range(new.ends)) /\ IsSpan(new, events, last)
      <3>1. IsSpan(old, events, last - 1)
        BY <1>1, <2>1 DEF IsPassState
      <3>2. <<old.ends[1], e>> \in Seq(Range(<<old.ends[1], e>>))
        BY DEF Range
      <3>3. PICK i0 \in 1..(last - 1) :
              /\ old.ends[1] = events[i0]
              /\ old.ends[1].kind \in InvokeKind
              /\ Key(old.ends[1]) = old.key
        BY <3>1 DEF IsSpan
      <3>4. i0 \in 1..last /\ last \in (i0 + 1)..last /\ e = events[last]
        BY <3>3 DEF e
      <3> QED
        BY <1>3, <2>1, <3>2, <3>3, <3>4 DEF IsSpan
    <2> HIDE DEF new, spans
    <2>5. \A j \in 1..n :
            /\ spans[j] = [key |-> spans[j].key, ends |-> spans[j].ends]
            /\ spans[j].ends \in Seq(Range(spans[j].ends))
            /\ IsSpan(spans[j], events, last)
            /\ spans[j].key = acc.spans[j].key
      <3> SUFFICES ASSUME NEW j \in 1..n
                   PROVE  /\ spans[j] = [key |-> spans[j].key, ends |-> spans[j].ends]
                          /\ spans[j].ends \in Seq(Range(spans[j].ends))
                          /\ IsSpan(spans[j], events, last)
                          /\ spans[j].key = acc.spans[j].key
        OBVIOUS
      <3>1. CASE j = i
        <4>1. new = [key |-> new.key, ends |-> new.ends] /\ new.key = acc.spans[j].key
          BY <3>1 DEF new
        <4> QED
          BY <2>3, <2>4, <3>1, <4>1
      <3>2. CASE j # i
        BY <1>0, <1>1, <2>3, <3>2 DEF IsPassState
      <3> QED
        BY <3>1, <3>2
    <2>6. \A k \in DOMAIN acc.index :
            acc.index[k] \in 1..n /\ spans[acc.index[k]].key = k
      BY <1>1, <2>5 DEF IsPassState
    <2> QED
      BY <2>2, <2>3, <2>5, <2>6 DEF IsPassState
  <1>4. CASE /\ e.kind \notin InvokeKind
             /\ ~(e.kind \in TerminalKind /\ Key(e) \in DOMAIN acc.index)
    <2>1. TakeUp(acc, e) = acc
      BY <1>4 DEF TakeUp, CloseSpan
    <2> QED
      BY <1>0, <2>1 DEF IsPassState
  <1> QED
    BY <1>2, <1>3, <1>4

\* What the pass has after each event.
IsPass(f, events, m) ==
  f = [n \in 0..m |-> IF n = 0 THEN NoSpans ELSE TakeUp(f[n - 1], events[n])]

LEMMA PassExists ==
  ASSUME NEW events, NEW m \in Nat
  PROVE  \E f : IsPass(f, events, m)
  <1> DEFINE P == {n \in 0..m : \E f : IsPass(f, events, n)}
  <1>1. 0 \in P
    <2> DEFINE f == [n \in 0..0 |-> NoSpans]
    <2>1. IsPass(f, events, 0)
      BY DEF IsPass
    <2> HIDE DEF f
    <2> QED
      BY <2>1
  <1>2. ASSUME NEW n \in 1..m, n - 1 \in P PROVE n \in P
    <2>1. PICK f : IsPass(f, events, n - 1)
      BY <1>2
    <2> DEFINE g == [k \in 0..n |-> IF k = n THEN TakeUp(f[n - 1], events[n]) ELSE f[k]]
               h == [k \in 0..n |-> IF k = 0 THEN NoSpans ELSE TakeUp(g[k - 1], events[k])]
    <2>2. ASSUME NEW k \in 0..n PROVE g[k] = h[k]
      <3>1. CASE k = n
        BY <3>1
      <3>2. CASE k # n
        <4>1. k \in 0..(n - 1) /\ g[k] = f[k]
          BY <3>2
        <4>2. f[k] = IF k = 0 THEN NoSpans ELSE TakeUp(f[k - 1], events[k])
          BY <2>1, <4>1 DEF IsPass
        <4>3. k # 0 => g[k - 1] = f[k - 1]
          BY <3>2
        <4> QED
          BY <4>1, <4>2, <4>3
      <3> QED
        BY <3>1, <3>2
    <2>3. g = h
      <3>1. g = [k \in 0..n |-> g[k]] /\ h = [k \in 0..n |-> h[k]]
        OBVIOUS
      <3> HIDE DEF g, h
      <3> QED
        BY <2>2, <3>1
    <2>4. IsPass(g, events, n)
      BY <2>3 DEF IsPass
    <2> QED
      BY <2>4
  <1>3. m \in 0..m
    OBVIOUS
  <1>4. m \in P
    <2> HIDE DEF P
    <2> QED
      BY <1>1, <1>2, <1>3, Upwards
  <1> QED
    BY <1>4

\* The pass over a sequence of events, after each of them.
LEMMA PassStates ==
  ASSUME NEW events, IsSequence(events)
  PROVE  \E f : /\ f[0] = NoSpans
                /\ \A n \in 1..Len(events) : f[n] = TakeUp(f[n - 1], events[n])
                /\ \A n \in 0..Len(events) : IsPassState(f[n], events, n)
                /\ Spans(events) = f[Len(events)].spans
  <1> DEFINE m     == Len(events)
             after == CHOOSE f : IsPass(f, events, m)
  <1>1. m \in Nat
    BY DEF IsSequence
  <1>2. Spans(events) = after[m].spans
    BY DEF Spans, IsPass
  <1>3. \E f : IsPass(f, events, m)
    BY <1>1, PassExists
  <1>4. IsPass(after, events, m)
    BY <1>3
  <1> HIDE DEF after, m
  <1>5. \A n \in 0..m : after[n] = IF n = 0 THEN NoSpans ELSE TakeUp(after[n - 1], events[n])
    BY <1>4 DEF IsPass
  <1>6. after[0] = NoSpans
    <2>1. 0 \in 0..m
      BY <1>1
    <2> QED
      BY <1>5, <2>1, Zenon
  <1>7. \A n \in 1..m : after[n] = TakeUp(after[n - 1], events[n])
    <2> SUFFICES ASSUME NEW n \in 1..m PROVE after[n] = TakeUp(after[n - 1], events[n])
      OBVIOUS
    <2>1. n \in 0..m /\ n # 0
      BY <1>1
    <2> QED
      BY <1>5, <2>1
  <1> DEFINE P == {n \in 0..m : IsPassState(after[n], events, n)}
  <1>8. 0 \in P
    <2>1. 0 \in 0..m
      BY <1>1
    <2>2. IsPassState(NoSpans, events, 0)
      BY DEF IsPassState, NoSpans
    <2> QED
      BY <1>6, <2>1, <2>2
  <1>9. ASSUME NEW n \in 1..m, n - 1 \in P PROVE n \in P
    <2>1. n \in 0..m
      BY <1>1
    <2>2. IsPassState(after[n - 1], events, n - 1) /\ n \in Nat \ {0}
      BY <1>9
    <2> QED
      BY <1>7, <2>1, <2>2, PassStep
  <1>10. \A n \in 0..m : n \in P
    <2> HIDE DEF P
    <2> QED
      BY <1>1, <1>8, <1>9, Upwards
  <1>11. \A n \in 0..m : IsPassState(after[n], events, n)
    BY <1>10
  <1> QED
    BY <1>2, <1>6, <1>7, <1>11 DEF m

\* The spans of a snapshot are made of its events.
LEMMA SpansAreSpans ==
  ASSUME NEW events, IsSequence(events)
  PROVE  /\ IsSequence(Spans(events))
         /\ \A span \in Range(Spans(events)) :
              /\ IsSpan(span, events, Len(events))
              /\ span.ends \in Seq(Range(span.ends))
  <1> DEFINE m == Len(events)
  <1>1. m \in 0..m
    BY DEF IsSequence
  <1>2. PICK f : /\ \A n \in 0..m : IsPassState(f[n], events, n)
                 /\ Spans(events) = f[m].spans
    BY PassStates
  <1> HIDE DEF m
  <1>3. IsPassState(f[m], events, m)
    BY <1>1, <1>2
  <1>4. IsSequence(Spans(events))
    BY <1>2, <1>3 DEF IsPassState, IsSequence
  <1>5. ASSUME NEW span \in Range(Spans(events))
        PROVE  IsSpan(span, events, m) /\ span.ends \in Seq(Range(span.ends))
    <2>1. PICK n \in DOMAIN f[m].spans : span = f[m].spans[n]
      BY <1>2 DEF Range
    <2> QED
      BY <1>3, <2>1 DEF IsPassState
  <1> QED
    BY <1>4, <1>5 DEF m

\* The two instances of EventStream say the same.
Proofs == INSTANCE EventStream_proofs WITH Body <- [event : Unstamped, at : Nat]

LEMMA SameStream == Proofs!Spec <=> Stream!Spec
  BY DEF Proofs!Spec, Proofs!Init, Proofs!Next, Proofs!Clear, Proofs!Capture,
         Proofs!BuildSome, Proofs!Build, Proofs!wire, Proofs!streamVars,
         Stream!Spec, Stream!Init, Stream!Next, Stream!Clear, Stream!Capture,
         Stream!BuildSome, Stream!Build, Stream!wire, Stream!streamVars

LEMMA TicksHold == Spec => []Stream!TicksAccountedFor
  <1>1. None \notin Proofs!Event
    BY NoneAssumption DEF Stream!Event, Proofs!Event
  <1>2. Proofs!Spec => []Proofs!TicksAccountedFor
    BY <1>1, Proofs!Accounting
  <1>3. Proofs!TicksAccountedFor => Stream!TicksAccountedFor
    BY DEF Stream!TicksAccountedFor, Proofs!TicksAccountedFor, Stream!wire, Proofs!wire
  <1>4. Init => Stream!Init
    BY DEF Init
  <1>5. TypeInv /\ [Next]_vars => [Stream!Next]_(Stream!streamVars)
    BY StepIsStream DEF TypeInv, streamVars, Stream!streamVars
  <1>6. Spec => Stream!Spec
    BY <1>4, <1>5, TypesHold, PTL DEF Spec, Stream!Spec
  <1> QED
    BY <1>2, <1>3, <1>6, SameStream, PTL

\* A snapshot is what is left of the buffer from some place on.
LEMMA SnapshotPlaces ==
  ASSUME TypeInv, NEW s \in Snapshots
  PROVE  /\ IsSequence(s)
         /\ \E n \in 0..Len(buffer) :
              /\ Len(s) = Len(buffer) - n
              /\ \A i \in 1..Len(s) : /\ n + i \in DOMAIN buffer
                                      /\ buffer[n + i] \in Stream!Event
                                      /\ s[i] = Decoded(buffer[n + i])
  <1>1. buffer \in Seq(Stream!Event) /\ cleared \in Seq(Stream!Event)
    BY DEF TypeInv, Stream!TypeOK
  <1>2. PICK n \in 1..(Len(buffer) + 1) : s = SubSeq(Captured, n, Len(buffer))
    BY DEF Snapshots
  <1>3. /\ Len(buffer) \in Nat
        /\ Captured \in Seq({Decoded(e) : e \in Stream!Event})
        /\ Len(Captured) = Len(buffer)
        /\ \A i \in 1..Len(buffer) : Captured[i] = Decoded(buffer[i])
    <2>1. Len(buffer) \in Nat /\ DOMAIN buffer = 1..Len(buffer)
      BY <1>1
    <2>2. Captured = [i \in 1..Len(buffer) |-> Decoded(buffer[i])]
      BY <2>1 DEF Captured
    <2>3. \A i \in 1..Len(buffer) : buffer[i] \in Stream!Event
      BY <1>1
    <2> QED
      BY <2>1, <2>2, <2>3
  <1> DEFINE l == Len(buffer) - n + 1
  <1>4. /\ l \in Nat
        /\ s = [i \in 1..l |-> Captured[n + i - 1]]
        /\ \A i \in 1..l : n + i - 1 \in 1..Len(buffer)
    BY <1>2, <1>3
  <1> HIDE DEF l
  <1>5. DOMAIN s = 1..l /\ \A i \in 1..l : s[i] = Decoded(buffer[n + i - 1])
    BY <1>3, <1>4
  <1>6. \A i \in 1..l : buffer[n + i - 1] \in Stream!Event
    BY <1>1, <1>4
  <1>7. IsSequence(s) /\ Len(s) = l
    <2>1. \A i \in 1..l : s[i] \in Range(s)
      BY <1>5 DEF Range
    <2>2. s = [i \in 1..l |-> s[i]]
      BY <1>4
    <2>3. l \in Nat
      BY <1>4
    <2> QED
      BY <2>1, <2>2, <2>3 DEF IsSequence
  <1>8. n - 1 \in 0..Len(buffer) /\ Len(s) = Len(buffer) - (n - 1)
    BY <1>2, <1>3, <1>7 DEF l
  <1>9. ASSUME NEW i \in 1..Len(s)
        PROVE  /\ (n - 1) + i \in DOMAIN buffer
               /\ buffer[(n - 1) + i] \in Stream!Event
               /\ s[i] = Decoded(buffer[(n - 1) + i])
    <2>1. i \in 1..l /\ (n - 1) + i = n + i - 1 /\ DOMAIN buffer = 1..Len(buffer)
      BY <1>1, <1>2, <1>7
    <2> QED
      BY <1>4, <1>5, <1>6, <2>1
  <1> QED
    BY <1>7, <1>8, <1>9

\* A snapshot holds events that were captured, each with a tick of its own.
LEMMA SnapshotTicks ==
  ASSUME TypeInv, Stream!TicksAccountedFor, NEW s \in Snapshots
  PROVE  /\ IsSequence(s)
         /\ \A i \in DOMAIN s : \E e \in Stream!Event : s[i] = Decoded(e)
         /\ \A i, j \in DOMAIN s : s[i].tick = s[j].tick => i = j
  <1>1. buffer \in Seq(Stream!Event) /\ cleared \in Seq(Stream!Event)
    BY DEF TypeInv, Stream!TypeOK
  <1>2. IsSequence(s) /\ DOMAIN s = 1..Len(s) /\ Len(s) \in Nat
    BY SnapshotPlaces DEF IsSequence
  <1>3. PICK n \in 0..Len(buffer) :
          /\ Len(s) = Len(buffer) - n
          /\ \A i \in 1..Len(s) : /\ n + i \in DOMAIN buffer
                                  /\ buffer[n + i] \in Stream!Event
                                  /\ s[i] = Decoded(buffer[n + i])
    BY SnapshotPlaces
  <1>4. ASSUME NEW i \in DOMAIN s, NEW j \in DOMAIN s, s[i].tick = s[j].tick PROVE i = j
    <2> DEFINE c == Len(cleared)
    <2>1. \A k \in DOMAIN buffer : c + k \in DOMAIN Stream!wire /\ Stream!wire[c + k] = buffer[k]
      BY <1>1 DEF Stream!wire
    <2>2. s[i].tick = buffer[n + i].tick /\ s[j].tick = buffer[n + j].tick
      BY <1>2, <1>3, DecodedType
    <2>3. c \in Nat /\ n + i \in DOMAIN buffer /\ n + j \in DOMAIN buffer
      BY <1>1, <1>2, <1>3
    <2> HIDE DEF c
    <2>4. c + (n + i) = c + (n + j)
      <3>1. Stream!wire[c + (n + i)].tick = Stream!wire[c + (n + j)].tick
        BY <1>4, <2>1, <2>2, <2>3
      <3>2. c + (n + i) \in DOMAIN Stream!wire /\ c + (n + j) \in DOMAIN Stream!wire
        BY <2>1, <2>3
      <3> QED
        BY <3>1, <3>2 DEF Stream!TicksAccountedFor
    <2> QED
      BY <1>2, <1>3, <2>3, <2>4
  <1> QED
    BY <1>2, <1>3, <1>4

\* The wall clock at a tick is that of the event with the tick.
LEMMA MillisAreOwn ==
  ASSUME NEW s, IsSequence(s), NEW i \in DOMAIN s,
         \A j \in DOMAIN s : s[j].tick = s[i].tick => j = i
  PROVE  MillisAtTick(s, s[i].conversation, s[i].tick) = s[i].at
  <1> DEFINE at == {j \in DOMAIN s : s[j].conversation = s[i].conversation
                                     /\ s[j].tick = s[i].tick}
  <1>1. at = {i}
    OBVIOUS
  <1>2. Min({i}) = i
    <2>1. i \in Nat
      BY DEF IsSequence
    <2> QED
      BY <2>1 DEF Min
  <1> QED
    BY <1>1, <1>2 DEF MillisAtTick

\* The duration of a span is the one its terminal event is stamped with, or else what
\* the wall clock says has passed between its ends, and unknown if the clock was set
\* back, whatever the clock does and the producers are: no other event shares the ticks
\* the ends are looked up by.
THEOREM DurationsOfSpans == Spec => []DurationsAreOwn
  <1>1. ASSUME TypeInv, Stream!TicksAccountedFor PROVE DurationsAreOwn
    <2> SUFFICES ASSUME NEW s \in Snapshots, NEW span \in Range(Spans(s))
                 PROVE  LET first    == span.ends[1]
                            last     == Last(span.ends)
                            stamped  == "duration_ms" \in DOMAIN last.data
                            duration == SpanDuration(s, span)
                        IN  IF Outcome(span) = "pending" THEN duration = None
                            ELSE IF stamped THEN duration = last.data.duration_ms
                            ELSE IF last.at < first.at THEN duration = None
                            ELSE first.at + duration = last.at
      BY DEF DurationsAreOwn
    <2>1. /\ IsSequence(s)
          /\ \A i \in DOMAIN s : \E e \in Stream!Event : s[i] = Decoded(e)
          /\ \A i, j \in DOMAIN s : s[i].tick = s[j].tick => i = j
      BY <1>1, SnapshotTicks
    <2>2. IsSpan(span, s, Len(s)) /\ DOMAIN s = 1..Len(s)
      BY <2>1, SpansAreSpans DEF IsSequence
    <2>3. CASE Len(span.ends) = 1
      BY <2>3 DEF Outcome, SpanDuration
    <2>4. CASE Len(span.ends) # 1
      <3> DEFINE first == span.ends[1]
                 last  == span.ends[2]
      <3>1. /\ Len(span.ends) = 2 /\ Last(span.ends) = last
            /\ last.kind \in TerminalKind
            /\ last.conversation = first.conversation
        BY <2>2, <2>4 DEF IsSpan, Key, Last
      <3>2. PICK i \in DOMAIN s : first = s[i]
        BY <2>2 DEF IsSpan
      <3>3. PICK j \in DOMAIN s : last = s[j]
        BY <2>2, <2>4 DEF IsSpan
      <3> HIDE DEF first, last
      <3>4. MillisAtTick(s, first.conversation, first.tick) = first.at
        BY <2>1, <3>2, MillisAreOwn
      <3>5. MillisAtTick(s, first.conversation, last.tick) = last.at
        BY <2>1, <3>1, <3>3, MillisAreOwn
      <3>6. first.at \in Nat /\ last.at \in Nat
        BY <2>1, <3>2, <3>3, DecodedType
      <3>7. first.at # None /\ last.at # None
        BY <3>6, NoneAssumption
      <3>8. "duration_ms" \in DOMAIN last.data => last.kind \in CompletedKind
        <4>1. PICK e \in Stream!Event : last = Decoded(e)
          BY <2>1, <3>3
        <4> DEFINE b == e.body.event
        <4>2. last.data = b.data /\ last.kind = b.kind /\ IsEvent(b)
          BY <4>1, DecodedType
        <4> HIDE DEF b
        <4> QED
          BY <3>1, <4>2
          DEF IsEvent, TimedKind, SearchKind, TerminalKind, CompletedKind
      <3>9. Outcome(span) # "pending"
        BY <3>1 DEF Outcome, last, TerminalKind, CompletedKind
      <3>10. SpanDuration(s, span) =
               IF "duration_ms" \in DOMAIN last.data THEN last.data.duration_ms
               ELSE IF last.at < first.at THEN None
               ELSE last.at - first.at
        BY <2>4, <3>4, <3>5, <3>7, <3>8 DEF SpanDuration, first, last
      <3> QED
        BY <3>1, <3>6, <3>9, <3>10 DEF first
    <2> QED
      BY <2>3, <2>4
  <1> QED
    BY <1>1, TypesHold, TicksHold, PTL

(***************************************************************************)
(* Numbers of elements, and the sequences that are picked out of others    *)
(***************************************************************************)

\* If of any two elements the set of one is within that of the other and lacks the
\* other, elements are numbered by the sizes of their sets.
LEMMA Numbering ==
  ASSUME NEW T, IsFiniteSet(T), NEW up \in [T -> SUBSET T],
         \A i \in T : i \in up[i],
         \A i, j \in T : i # j => \/ up[i] \subseteq up[j] /\ j \notin up[i]
                                  \/ up[j] \subseteq up[i] /\ i \notin up[j]
  PROVE  /\ Cardinality(T) \in Nat
         /\ \A i \in T : Cardinality(up[i]) \in 1..Cardinality(T)
         /\ \A i, j \in T : j \in up[i] <=> Cardinality(up[j]) <= Cardinality(up[i])
         /\ \A n \in 1..Cardinality(T) : \E i \in T : Cardinality(up[i]) = n
  <1> DEFINE N == Cardinality(T)
             r == [i \in T |-> Cardinality(up[i])]
  <1>1. N \in Nat
    BY FS_CardinalityType
  <1>2. ASSUME NEW i \in T PROVE IsFiniteSet(up[i]) /\ r[i] \in 1..N
    <2>1. up[i] \in SUBSET T
      OBVIOUS
    <2>2. IsFiniteSet(up[i]) /\ Cardinality(up[i]) <= N
      BY <2>1, FS_Subset
    <2>3. Cardinality(up[i]) \in Nat /\ Cardinality(up[i]) # 0
      BY <2>2, FS_CardinalityType, FS_EmptySet
    <2> QED
      BY <1>1, <2>2, <2>3
  <1>3. ASSUME NEW i \in T, NEW j \in T, up[i] \subseteq up[j], j \notin up[i]
        PROVE  r[i] < r[j]
    <2>1. up[i] # up[j]
      BY <1>3
    <2>2. r[i] <= r[j] /\ r[i] # r[j]
      BY <1>2, <1>3, <2>1, FS_Subset
    <2> QED
      BY <1>2, <2>2
  <1>4. ASSUME NEW i \in T, NEW j \in T PROVE j \in up[i] <=> r[j] <= r[i]
    <2>1. r[i] \in Nat /\ r[j] \in Nat
      BY <1>2
    <2>2. CASE i = j
      BY <2>1, <2>2
    <2>3. CASE i # j /\ up[i] \subseteq up[j] /\ j \notin up[i]
      <3>1. r[i] < r[j]
        BY <1>3, <2>3
      <3> HIDE DEF r
      <3> QED
        BY <2>1, <2>3, <3>1
    <2>4. CASE i # j /\ up[j] \subseteq up[i] /\ i \notin up[j]
      <3>1. r[j] < r[i]
        BY <1>3, <2>4
      <3> HIDE DEF r
      <3> QED
        BY <2>1, <2>4, <3>1
    <2> QED
      BY <2>2, <2>3, <2>4
  <1>5. ASSUME NEW n \in 1..N PROVE \E i \in T : r[i] = n
    <2>1. r \in [T -> 1..N]
      BY <1>2
    <2>2. ASSUME NEW i \in T, NEW j \in T, r[i] = r[j] PROVE i = j
      <3>1. r[i] \in Nat /\ r[j] \in Nat
        BY <1>2
      <3>2. ~(r[i] < r[j]) /\ ~(r[j] < r[i])
        BY <2>2, <3>1
      <3> HIDE DEF r
      <3> QED
        BY <1>3, <3>2
    <2> HIDE DEF r
    <2>3. r \in Injection(T, 1..N)
      BY <2>1, <2>2 DEF Injection, IsInjective
    <2>4. IsFiniteSet(1..N) /\ Cardinality(1..N) = N
      BY <1>1, FS_Interval
    <2>5. r \in Surjection(T, 1..N)
      BY <2>3, <2>4, FS_Injection
    <2> QED
      BY <2>5 DEF Surjection
  <1> QED
    BY <1>1, <1>2, <1>4, <1>5

\* The numbers up to i.
UpTo(T, i) == {j \in T : j <= i}

\* Places and the numbers they get: g is their list in ascending order.
IsList(g, T) ==
  /\ g \in [1..Cardinality(T) -> T]
  /\ \A n \in 1..Cardinality(T) : Cardinality(UpTo(T, g[n])) = n
  /\ \A i \in T : /\ Cardinality(UpTo(T, i)) \in 1..Cardinality(T)
                  /\ g[Cardinality(UpTo(T, i))] = i
  /\ \A m, n \in 1..Cardinality(T) : m <= n <=> g[m] <= g[n]

LEMMA Selection ==
  ASSUME NEW T \in SUBSET Nat, IsFiniteSet(T)
  PROVE  /\ Cardinality(T) \in Nat
         /\ \E g : /\ IsList(g, T)
                   /\ \A seq : Select(seq, T) = [n \in 1..Cardinality(T) |-> seq[g[n]]]
  <1> DEFINE N  == Cardinality(T)
             up == [i \in T |-> UpTo(T, i)]
             g  == [n \in 1..N |-> CHOOSE i \in T : Cardinality(UpTo(T, i)) = n]
  <1>1. up \in [T -> SUBSET T] /\ \A i \in T : i \in up[i]
    BY DEF UpTo
  <1>2. \A i, j \in T : i # j => \/ up[i] \subseteq up[j] /\ j \notin up[i]
                                 \/ up[j] \subseteq up[i] /\ i \notin up[j]
    <2> SUFFICES ASSUME NEW i \in T, NEW j \in T, i # j
                 PROVE  \/ UpTo(T, i) \subseteq UpTo(T, j) /\ j \notin UpTo(T, i)
                        \/ UpTo(T, j) \subseteq UpTo(T, i) /\ i \notin UpTo(T, j)
      OBVIOUS
    <2>1. \A k \in T : k \in Nat
      OBVIOUS
    <2>2. \A k, l \in T : k < l => /\ UpTo(T, k) \subseteq UpTo(T, l)
                                   /\ l \notin UpTo(T, k)
      <3> SUFFICES ASSUME NEW k \in T, NEW l \in T, k < l
                   PROVE  UpTo(T, k) \subseteq UpTo(T, l) /\ l \notin UpTo(T, k)
        OBVIOUS
      <3>1. k \in Nat /\ l \in Nat
        BY <2>1
      <3>2. ~(l <= k)
        BY <3>1
      <3>3. \A x \in T : x <= k => x <= l
        BY <2>1, <3>1
      <3> QED
        BY <3>2, <3>3 DEF UpTo
    <2>3. i < j \/ j < i
      BY <2>1
    <2> QED
      BY <2>2, <2>3
  <1>3. /\ N \in Nat
        /\ \A i \in T : Cardinality(up[i]) \in 1..N
        /\ \A i, j \in T : j \in up[i] <=> Cardinality(up[j]) <= Cardinality(up[i])
        /\ \A n \in 1..N : \E i \in T : Cardinality(up[i]) = n
    <2> HIDE DEF up
    <2> QED
      BY <1>1, <1>2, Numbering
  <1>4. /\ \A i \in T : Cardinality(UpTo(T, i)) \in 1..N
        /\ \A i, j \in T : j <= i <=> Cardinality(UpTo(T, j)) <= Cardinality(UpTo(T, i))
        /\ \A n \in 1..N : \E i \in T : Cardinality(UpTo(T, i)) = n
    <2>1. \A i \in T : up[i] = UpTo(T, i)
      OBVIOUS
    <2>2. \A i, j \in T : j \in UpTo(T, i) <=> j <= i
      BY DEF UpTo
    <2> HIDE DEF up
    <2> QED
      BY <1>3, <2>1, <2>2
  <1>5. \A n \in 1..N : g[n] \in T /\ Cardinality(UpTo(T, g[n])) = n
    BY <1>4
  <1>6. g \in [1..N -> T]
    BY <1>5
  <1>7. \A seq : Select(seq, T) = [n \in 1..N |-> seq[g[n]]]
    BY DEF Select, UpTo
  <1> HIDE DEF g, N
  <1>8. ASSUME NEW m \in 1..N, NEW n \in 1..N PROVE m <= n <=> g[m] <= g[n]
    <2>1. /\ g[m] \in T /\ Cardinality(UpTo(T, g[m])) = m
          /\ g[n] \in T /\ Cardinality(UpTo(T, g[n])) = n
      BY <1>5
    <2>2. g[m] <= g[n] <=> Cardinality(UpTo(T, g[m])) <= Cardinality(UpTo(T, g[n]))
      BY <1>4, <2>1
    <2> QED
      BY <2>1, <2>2
  <1>9. ASSUME NEW i \in T
        PROVE  Cardinality(UpTo(T, i)) \in 1..N /\ g[Cardinality(UpTo(T, i))] = i
    <2> DEFINE n == Cardinality(UpTo(T, i))
    <2>1. n \in 1..N
      BY <1>4
    <2>2. g[n] \in T /\ Cardinality(UpTo(T, g[n])) = n
      BY <1>5, <2>1
    <2> HIDE DEF n
    <2>3. i <= g[n] /\ g[n] <= i
      <3>1. Cardinality(UpTo(T, i)) = n /\ n <= n
        BY <1>3, <2>1 DEF n
      <3> QED
        BY <1>4, <2>2, <3>1
    <2>4. i \in Nat /\ g[n] \in Nat
      BY <2>2
    <2>5. g[n] = i
      BY <2>3, <2>4
    <2> QED
      BY <2>1, <2>5 DEF n
  <1>10. IsList(g, T)
    BY <1>5, <1>6, <1>8, <1>9 DEF IsList, N
  <1> QED
    BY <1>3, <1>7, <1>10 DEF N

(***************************************************************************)
(* Sums, however their elements are taken up                               *)
(***************************************************************************)

\* Of some subsets of a finite set one has no other below it.
LEMMA Minimal ==
  ASSUME NEW S, IsFiniteSet(S), NEW F, F \subseteq SUBSET S, F # {}
  PROVE  \E R \in F : \A Q \in F : Q \subseteq R => Q = R
  <1> DEFINE D == FiniteSubsetsOf(S)
             O == StrictSubsetOrdering(S)
  <1>1. IsWellFoundedOn(O, D)
    BY FS_StrictSubsetOrderingWellFounded
  <1>2. F \subseteq D
    BY FS_Subset DEF FiniteSubsetsOf
  <1>3. \A Q, R \in F : Q \subseteq R /\ Q # R => <<Q, R>> \in O
    BY DEF StrictSubsetOrdering
  <1> HIDE DEF D, O
  <1>4. PICK R \in F : \A Q \in F : ~(<<Q, R>> \in O)
    BY <1>1, <1>2, WFMin
  <1> QED
    BY <1>3, <1>4

\* The order in which a sum takes up the elements of a set.
Taken(S) == CHOOSE x \in S : TRUE

\* g sums up f over the subsets of S.
IsSum(g, f, S) ==
  g = [s \in SUBSET S |-> IF s = {} THEN 0 ELSE f[Taken(s)] + g[s \ {Taken(s)}]]

LEMMA SumDef ==
  ASSUME NEW f, NEW S
  PROVE  SumFunctionOnSet(f, S) = (CHOOSE g : IsSum(g, f, S))[S]
  BY DEF SumFunctionOnSet, FoldFunctionOnSet, MapThenFoldSet, IsSum, Taken

LEMMA SumUnique ==
  ASSUME NEW f, NEW S, IsFiniteSet(S), NEW R \in SUBSET S,
         NEW g, NEW h, IsSum(g, f, S), IsSum(h, f, R)
  PROVE  g[R] = h[R]
  <1> DEFINE F == {s \in SUBSET R : g[s] # h[s]}
  <1>1. SUFFICES ASSUME F # {} PROVE FALSE
    OBVIOUS
  <1>2. IsFiniteSet(R) /\ F \subseteq SUBSET R
    BY FS_Subset
  <1>3. PICK s \in F : \A q \in F : q \subseteq s => q = s
    <2> HIDE DEF F
    <2> QED
      BY <1>1, <1>2, Minimal
  <1>4. s \in SUBSET R /\ s \in SUBSET S
    OBVIOUS
  <1>5. s = {} => g[s] = 0 /\ h[s] = 0
    BY <1>4 DEF IsSum
  <1>6. ASSUME s # {} PROVE g[s] = h[s]
    <2> DEFINE q == s \ {Taken(s)}
    <2>1. Taken(s) \in s
      BY <1>6 DEF Taken
    <2>2. q \in SUBSET R /\ q \subseteq s /\ q # s
      BY <2>1
    <2>3. g[q] = h[q]
      BY <1>3, <2>2
    <2>4. g[s] = f[Taken(s)] + g[q] /\ h[s] = f[Taken(s)] + h[q]
      BY <1>4, <1>6 DEF IsSum
    <2> QED
      BY <2>3, <2>4
  <1> QED
    BY <1>5, <1>6

LEMMA SumExists ==
  ASSUME NEW f, NEW S, IsFiniteSet(S)
  PROVE  \E g : IsSum(g, f, S)
  <1> DEFINE SumsTo(s) == SumFunctionOnSet(f, s)
             F == {s \in SUBSET S : ~ \E g : IsSum(g, f, s)}
  <1>1. SUFFICES ASSUME F # {} PROVE FALSE
    OBVIOUS
  <1>2. PICK R \in F : \A q \in F : q \subseteq R => q = R
    <2>1. F \subseteq SUBSET S
      OBVIOUS
    <2> HIDE DEF F
    <2> QED
      BY <1>1, <2>1, Minimal
  <1> DEFINE h == [s \in SUBSET R |-> IF s = {} THEN 0 ELSE f[Taken(s)] + SumsTo(s \ {Taken(s)})]
  <1>3. ASSUME NEW q \in SUBSET R, q # R
        PROVE  h[q] = SumsTo(q)
    <2>1. q \in SUBSET S /\ \E g : IsSum(g, f, q)
      <3>1. q \in SUBSET S
        OBVIOUS
      <3>2. q \notin F
        <4> HIDE DEF F, h
        <4> QED
          BY <1>2, <1>3
      <3> QED
        BY <3>1, <3>2
    <2> DEFINE g == CHOOSE g : IsSum(g, f, q)
    <2>2. IsSum(g, f, q) /\ SumsTo(q) = g[q]
      BY <2>1, SumDef
    <2> HIDE DEF g, SumsTo
    <2>3. q = {} => h[q] = 0 /\ g[q] = 0
      BY <2>2 DEF IsSum
    <2>4. ASSUME q # {} PROVE h[q] = g[q]
      <3> DEFINE r == q \ {Taken(q)}
      <3>1. Taken(q) \in q
        BY <2>4 DEF Taken
      <3>2. r \in SUBSET R /\ r # R /\ r \in SUBSET q /\ r \in SUBSET S
        BY <3>1
      <3>3. \E k : IsSum(k, f, r)
        BY <1>2, <3>2
      <3> DEFINE k == CHOOSE k : IsSum(k, f, r)
      <3>4. IsSum(k, f, r) /\ SumsTo(r) = k[r]
        BY <3>3, SumDef DEF SumsTo
      <3> HIDE DEF k
      <3>5. IsFiniteSet(q)
        BY <2>1, FS_Subset
      <3>6. g[r] = SumsTo(r)
        BY <2>2, <3>2, <3>4, <3>5, SumUnique
      <3>7. g[q] = f[Taken(q)] + g[r]
        BY <2>2, <2>4 DEF IsSum
      <3>8. h[q] = f[Taken(q)] + SumsTo(r)
        BY <2>4
      <3> QED
        BY <3>6, <3>7, <3>8
    <2> QED
      BY <2>2, <2>3, <2>4
  <1>4. ASSUME NEW s \in SUBSET R, s # {}
        PROVE  SumsTo(s \ {Taken(s)}) = h[s \ {Taken(s)}]
    <2>1. Taken(s) \in s
      BY <1>4 DEF Taken
    <2>2. s \ {Taken(s)} \in SUBSET R /\ s \ {Taken(s)} # R
      BY <2>1
    <2> HIDE DEF h, SumsTo
    <2> QED
      BY <1>3, <2>2
  <1>5. h = [s \in SUBSET R |-> IF s = {} THEN 0 ELSE f[Taken(s)] + h[s \ {Taken(s)}]]
    <2> DEFINE e == [s \in SUBSET R |-> IF s = {} THEN 0 ELSE f[Taken(s)] + h[s \ {Taken(s)}]]
    <2>1. ASSUME NEW s \in SUBSET R PROVE h[s] = e[s]
      <3>1. CASE s = {}
        BY <3>1
      <3>2. CASE s # {}
        <4>1. h[s] = f[Taken(s)] + SumsTo(s \ {Taken(s)})
          BY <3>2
        <4>2. e[s] = f[Taken(s)] + h[s \ {Taken(s)}]
          BY <3>2
        <4> HIDE DEF h, e, SumsTo
        <4> QED
          BY <1>4, <3>2, <4>1, <4>2
      <3> QED
        BY <3>1, <3>2
    <2>2. DOMAIN h = SUBSET R /\ DOMAIN e = SUBSET R
      OBVIOUS
    <2>3. h = [s \in DOMAIN h |-> h[s]] /\ e = [s \in DOMAIN e |-> e[s]]
      OBVIOUS
    <2> HIDE DEF h, e
    <2>4. h = e
      BY <2>1, <2>2, <2>3
    <2> QED
      BY <2>4 DEF e
  <1>6. IsSum(h, f, R)
    BY <1>5 DEF IsSum
  <1> QED
    BY <1>2, <1>6

\* A sum over no elements, and one more than that over the rest.
LEMMA SumUnfolds ==
  ASSUME NEW f, NEW S, IsFiniteSet(S)
  PROVE  /\ SumFunctionOnSet(f, {}) = 0
         /\ S # {} => SumFunctionOnSet(f, S) =
                        f[Taken(S)] + SumFunctionOnSet(f, S \ {Taken(S)})
  <1> DEFINE G(s) == CHOOSE g : IsSum(g, f, s)
  <1>1. ASSUME NEW s, IsFiniteSet(s)
        PROVE  IsSum(G(s), f, s) /\ SumFunctionOnSet(f, s) = G(s)[s]
    BY <1>1, SumExists, SumDef
  <1> HIDE DEF G
  <1>2. SumFunctionOnSet(f, {}) = 0
    BY <1>1, FS_EmptySet DEF IsSum
  <1>3. ASSUME S # {}
        PROVE  SumFunctionOnSet(f, S) = f[Taken(S)] + SumFunctionOnSet(f, S \ {Taken(S)})
    <2> DEFINE R == S \ {Taken(S)}
    <2>1. IsFiniteSet(R) /\ R \in SUBSET S
      BY FS_Subset
    <2>2. IsSum(G(S), f, S) /\ IsSum(G(R), f, R)
      BY <1>1, <2>1
    <2>3. G(S)[R] = G(R)[R]
      BY <2>1, <2>2, SumUnique
    <2>4. G(S)[S] = f[Taken(S)] + G(S)[R]
      BY <1>3, <2>2 DEF IsSum
    <2> QED
      BY <1>1, <2>1, <2>3, <2>4
  <1> QED
    BY <1>2, <1>3

\* Sums of numbers are numbers, and depend on the numbers alone.
LEMMA SumType ==
  ASSUME NEW f, NEW S, IsFiniteSet(S), \A x \in S : f[x] \in Nat
  PROVE  SumFunctionOnSet(f, S) \in Nat
  <1> DEFINE SumsTo(s) == SumFunctionOnSet(f, s)
             F == {s \in SUBSET S : SumsTo(s) \notin Nat}
  <1>1. SUFFICES ASSUME F # {} PROVE FALSE
    OBVIOUS
  <1>2. PICK R \in F : \A q \in F : q \subseteq R => q = R
    <2>1. F \subseteq SUBSET S
      OBVIOUS
    <2> HIDE DEF F
    <2> QED
      BY <1>1, <2>1, Minimal
  <1>3. IsFiniteSet(R) /\ R \in SUBSET S
    BY FS_Subset
  <1>4. R # {} /\ SumsTo(R) = f[Taken(R)] + SumsTo(R \ {Taken(R)})
    <2>1. SumsTo({}) = 0 /\ (R # {} => SumsTo(R) = f[Taken(R)] + SumsTo(R \ {Taken(R)}))
      BY <1>3, SumUnfolds
    <2>2. SumsTo(R) \notin Nat /\ 0 \in Nat
      OBVIOUS
    <2> HIDE DEF SumsTo, F
    <2>3. R # {}
      BY <2>1, <2>2
    <2> QED
      BY <2>1, <2>3
  <1>5. Taken(R) \in R
    BY <1>4 DEF Taken
  <1>6. R \ {Taken(R)} \in SUBSET S /\ R \ {Taken(R)} \notin F
    BY <1>2, <1>3, <1>5
  <1> HIDE DEF SumsTo
  <1> QED
    BY <1>3, <1>4, <1>5, <1>6

LEMMA SumAgrees ==
  ASSUME NEW f, NEW g, NEW S, IsFiniteSet(S), \A x \in S : f[x] = g[x]
  PROVE  SumFunctionOnSet(f, S) = SumFunctionOnSet(g, S)
  <1> DEFINE A(s) == SumFunctionOnSet(f, s)
             B(s) == SumFunctionOnSet(g, s)
             F == {s \in SUBSET S : A(s) # B(s)}
  <1>1. SUFFICES ASSUME F # {} PROVE FALSE
    OBVIOUS
  <1>2. PICK R \in F : \A q \in F : q \subseteq R => q = R
    <2>1. F \subseteq SUBSET S
      OBVIOUS
    <2> HIDE DEF F
    <2> QED
      BY <1>1, <2>1, Minimal
  <1>3. IsFiniteSet(R) /\ R \in SUBSET S
    BY FS_Subset
  <1>4. /\ R # {}
        /\ A(R) = f[Taken(R)] + A(R \ {Taken(R)})
        /\ B(R) = g[Taken(R)] + B(R \ {Taken(R)})
    BY <1>3, SumUnfolds
  <1>5. Taken(R) \in R
    BY <1>4 DEF Taken
  <1>6. R \ {Taken(R)} \in SUBSET S /\ R \ {Taken(R)} \notin F
    BY <1>2, <1>3, <1>5
  <1> HIDE DEF A, B
  <1> QED
    BY <1>3, <1>4, <1>5, <1>6

\* Whichever element is taken first.
LEMMA SumRemoves ==
  ASSUME NEW f, NEW S, IsFiniteSet(S), \A x \in S : f[x] \in Nat
  PROVE  \A x \in S : SumFunctionOnSet(f, S) = f[x] + SumFunctionOnSet(f, S \ {x})
  <1> DEFINE SumsTo(s) == SumFunctionOnSet(f, s)
             Holds(s) == \A x \in s : SumsTo(s) = f[x] + SumsTo(s \ {x})
             F == {s \in SUBSET S : ~Holds(s)}
  <1>1. SUFFICES ASSUME F # {} PROVE FALSE
    OBVIOUS
  <1>2. PICK R \in F : \A q \in F : q \subseteq R => q = R
    <2>1. F \subseteq SUBSET S
      OBVIOUS
    <2> HIDE DEF F
    <2> QED
      BY <1>1, <2>1, Minimal
  <1>3. R \in SUBSET S /\ ~Holds(R)
    OBVIOUS
  <1>4. ASSUME NEW q \in SUBSET R, q # R PROVE Holds(q)
    <2>1. q \in SUBSET S
      BY <1>3
    <2>2. q \notin F
      <3> HIDE DEF F, Holds
      <3> QED
        BY <1>2, <1>4
    <2> QED
      BY <2>1, <2>2
  <1> DEFINE y == Taken(R)
  <1>5. \A q \in SUBSET S : IsFiniteSet(q) /\ SumsTo(q) \in Nat
    BY FS_Subset, SumType
  <1>6. PICK x \in R : SumsTo(R) # f[x] + SumsTo(R \ {x})
    BY <1>3
  <1>7. y \in R /\ SumsTo(R) = f[y] + SumsTo(R \ {y})
    BY <1>3, <1>5, SumUnfolds DEF Taken
  <1> HIDE DEF SumsTo, F, y
  <1>8. x # y
    BY <1>6, <1>7
  <1>9. SumsTo(R \ {y}) = f[x] + SumsTo((R \ {y}) \ {x})
    BY <1>4, <1>7, <1>8
  <1>10. SumsTo(R \ {x}) = f[y] + SumsTo((R \ {x}) \ {y})
    BY <1>4, <1>7, <1>8
  <1>11. (R \ {y}) \ {x} = (R \ {x}) \ {y} /\ (R \ {x}) \ {y} \in SUBSET S
    BY <1>3
  <1>12. f[x] \in Nat /\ f[y] \in Nat /\ SumsTo((R \ {x}) \ {y}) \in Nat
    BY <1>3, <1>5, <1>7, <1>11
  <1> DEFINE rest == SumsTo((R \ {x}) \ {y})
  <1>13. SumsTo(R) = f[y] + (f[x] + rest) /\ SumsTo(R \ {x}) = f[y] + rest
    BY <1>7, <1>9, <1>10, <1>11
  <1> HIDE DEF rest
  <1>14. \A a, b, c \in Nat : b + (a + c) = a + (b + c)
    OBVIOUS
  <1>15. f[y] + (f[x] + rest) = f[x] + (f[y] + rest)
    BY ONLY <1>12, <1>14 DEF rest
  <1> QED
    BY ONLY <1>6, <1>13, <1>15

LEMMA DisjointSum ==
  ASSUME NEW A, IsFiniteSet(A), NEW B, IsFiniteSet(B), A \cap B = {}
  PROVE  Cardinality(A \cup B) = Cardinality(A) + Cardinality(B)
  <1>1. Cardinality(A \cap B) = 0
    BY FS_EmptySet
  <1>2. Cardinality(A) \in Nat /\ Cardinality(B) \in Nat
    BY FS_CardinalityType
  <1>3. Cardinality(A \cup B) = Cardinality(A) + Cardinality(B) - Cardinality(A \cap B)
    BY FS_Union
  <1> QED
    BY <1>1, <1>2, <1>3

\* How many elements have each of some values, by key.
Sizes(D, key, C) == [c \in C |-> Cardinality({i \in D : key[i] = c})]

\* Counted by something they have, elements are counted once.
LEMMA Partition ==
  ASSUME NEW D, IsFiniteSet(D), NEW key, NEW C, IsFiniteSet(C), \A i \in D : key[i] \in C
  PROVE  SumFunctionOnSet(Sizes(D, key, C), C) = Cardinality(D)
  <1> DEFINE f      == Sizes(D, key, C)
             In(s)  == {i \in D : key[i] \in s}
             Sum(s) == SumFunctionOnSet(f, s)
             F      == {s \in SUBSET C : Sum(s) # Cardinality(In(s))}
  <1>1. SUFFICES ASSUME F # {} PROVE FALSE
    <2>1. C \in SUBSET C /\ In(C) = D
      OBVIOUS
    <2> QED
      BY <2>1
  <1>2. PICK R \in F : \A q \in F : q \subseteq R => q = R
    <2>1. F \subseteq SUBSET C
      OBVIOUS
    <2> HIDE DEF F
    <2> QED
      BY <1>1, <2>1, Minimal
  <1>3. R \in SUBSET C /\ Sum(R) # Cardinality(In(R)) /\ IsFiniteSet(R)
    BY FS_Subset
  <1>4. R # {}
    <2>1. Sum({}) = 0 /\ In({}) = {} /\ Cardinality({}) = 0
      BY FS_EmptySet, SumUnfolds
    <2> HIDE DEF Sum, In
    <2> QED
      BY <1>3, <2>1
  <1> DEFINE x == Taken(R)
             Q == R \ {x}
  <1>5. x \in R
    BY <1>4 DEF Taken
  <1>6. Sum(R) = f[x] + Sum(Q)
    BY <1>3, <1>4, SumUnfolds
  <1> HIDE DEF x
  <1>7. Sum(Q) = Cardinality(In(Q))
    <2>1. Q \in SUBSET C /\ Q # R
      BY <1>3, <1>5
    <2>2. Q \notin F
      <3> HIDE DEF F
      <3> QED
        BY <1>2, <2>1
    <2> QED
      BY <2>1, <2>2
  <1>8. Cardinality(In(R)) = Cardinality(In({x})) + Cardinality(In(Q))
    <2>1. In(R) = In({x}) \cup In(Q) /\ In({x}) \cap In(Q) = {}
      BY <1>5
    <2>2. IsFiniteSet(In({x})) /\ IsFiniteSet(In(Q))
      BY FS_Subset
    <2> HIDE DEF In, Q
    <2> QED
      BY <2>1, <2>2, DisjointSum
  <1>9. f[x] = Cardinality(In({x}))
    <2>1. {i \in D : key[i] = x} = In({x})
      OBVIOUS
    <2> QED
      BY <1>3, <1>5, <2>1 DEF Sizes
  <1> HIDE DEF f, In, Sum, Q
  <1> QED
    BY <1>3, <1>6, <1>7, <1>8, <1>9

(***************************************************************************)
(* Queries                                                                 *)
(***************************************************************************)

\* A sequence has the length of its list of places.
LEMMA SequencePlaces ==
  ASSUME NEW s, IsSequence(s)
  PROVE  /\ Len(s) \in Nat /\ DOMAIN s = 1..Len(s)
         /\ IsFiniteSet(DOMAIN s) /\ Cardinality(DOMAIN s) = Len(s)
         /\ \A T \in SUBSET DOMAIN s :
              T \in SUBSET Nat /\ IsFiniteSet(T) /\ Cardinality(T) \in Nat
  <1>1. Len(s) \in Nat /\ DOMAIN s = 1..Len(s)
    BY DEF IsSequence
  <1>2. IsFiniteSet(DOMAIN s) /\ Cardinality(DOMAIN s) = Len(s)
    <2>1. \A n \in Nat : IsFiniteSet(1..n) /\ Cardinality(1..n) = n
      <3> SUFFICES ASSUME NEW n \in Nat PROVE IsFiniteSet(1..n) /\ Cardinality(1..n) = n
        OBVIOUS
      <3>1. 1 \in Int /\ n \in Int
        OBVIOUS
      <3>2. IsFiniteSet(1..n) /\ Cardinality(1..n) = IF 1 > n THEN 0 ELSE n - 1 + 1
        BY <3>1, FS_Interval
      <3> QED
        BY <3>2
    <2> QED
      BY <1>1, <2>1
  <1>3. ASSUME NEW T \in SUBSET DOMAIN s
        PROVE  T \in SUBSET Nat /\ IsFiniteSet(T) /\ Cardinality(T) \in Nat
    <2>1. IsFiniteSet(T)
      BY <1>2, FS_Subset
    <2> QED
      BY <1>1, <2>1, FS_CardinalityType
  <1> QED
    BY <1>1, <1>2, <1>3

\* As many are selected as there are places.
LEMMA SelectedLength ==
  ASSUME NEW s, IsSequence(s), NEW T \in SUBSET DOMAIN s
  PROVE  Len(Select(s, T)) = Cardinality(T)
  <1>1. Cardinality(T) \in Nat
    BY SequencePlaces
  <1>2. DOMAIN Select(s, T) = 1..Cardinality(T)
    BY DEF Select
  <1>3. \E n \in Nat : DOMAIN Select(s, T) = 1..n
    BY <1>1, <1>2
  <1> QED
    BY <1>1 DEF Select

\* Predicates one at a time.
LEMMA MatchesOne ==
  ASSUME NEW e, NEW v
  PROVE  /\ Matches([conversation_id |-> v], e) <=> e.conversation = v
         /\ Matches([kind |-> v], e) <=> e.kind = v
         /\ Matches([min_tick |-> v], e) <=> e.tick >= v
         /\ Matches([max_tick |-> v], e) <=> e.tick <= v
  BY DEF Matches, FilteredScalar

\* Pages cover any snapshot of events with ticks.
LEMMA PagesCover ==
  ASSUME NEW s, IsSequence(s), \A i \in DOMAIN s : s[i].tick \in Nat, tick \in Nat
  PROVE  LET Size(filter) == Len(Filter(s, filter)) IN
         /\ \A n \in 1..tick :
              Size([max_tick |-> n - 1]) + Size([min_tick |-> n]) = Len(s)
         /\ \A k \in DOMAIN CountByKind(s) : Size([kind |-> k]) = CountByKind(s)[k]
         /\ SumFunction(CountByKind(s)) = Len(s)
         /\ SumFunction([c \in Conversations(s) |-> Size([conversation_id |-> c])]) = Len(s)
         /\ \A n \in 0..Len(s) : SubSeq(s, 1, Len(s) - n) \o Latest(s, n) = s
  <1> DEFINE Size(filter) == Len(Filter(s, filter))
             D == DOMAIN s
  <1>1. /\ Len(s) \in Nat /\ D = 1..Len(s) /\ IsFiniteSet(D) /\ Cardinality(D) = Len(s)
        /\ \A T \in SUBSET D : IsFiniteSet(T) /\ Cardinality(T) \in Nat
    BY SequencePlaces
  <1>2. \A filter : Size(filter) = Cardinality({i \in D : Matches(filter, s[i])})
    BY SelectedLength DEF Filter
  <1> HIDE DEF Size
  <1>3. ASSUME NEW n \in 1..tick
        PROVE  Size([max_tick |-> n - 1]) + Size([min_tick |-> n]) = Len(s)
    <2> DEFINE A == {i \in D : s[i].tick <= n - 1}
               B == {i \in D : s[i].tick >= n}
    <2>1. Size([max_tick |-> n - 1]) = Cardinality(A) /\ Size([min_tick |-> n]) = Cardinality(B)
      BY <1>2, MatchesOne
    <2>2. A \cup B = D /\ A \cap B = {}
      <3>1. \A i \in D : s[i].tick <= n - 1 <=> ~(s[i].tick >= n)
        OBVIOUS
      <3> QED
        BY <3>1
    <2>3. /\ IsFiniteSet(A) /\ IsFiniteSet(B)
          /\ Cardinality(A) \in Nat /\ Cardinality(B) \in Nat
      BY <1>1
    <2> HIDE DEF A, B, D
    <2>4. Cardinality(D) = Cardinality(A) + Cardinality(B)
      BY <2>2, <2>3, DisjointSum
    <2> QED
      BY <1>1, <2>1, <2>4
  <1>4. ASSUME NEW k \in DOMAIN CountByKind(s)
        PROVE  Size([kind |-> k]) = CountByKind(s)[k]
    BY <1>2, MatchesOne DEF CountByKind
  <1>5. ASSUME NEW key, NEW C, C = {key[i] : i \in D}
        PROVE  SumFunctionOnSet(Sizes(D, key, C), C) = Len(s)
    <2>1. IsFiniteSet(C)
      <3> DEFINE f == [i \in D |-> key[i]]
      <3>1. f \in Surjection(D, C)
        BY <1>5 DEF Surjection
      <3> QED
        BY <1>1, <3>1, FS_Surjection
    <2>2. \A i \in D : key[i] \in C
      BY <1>5
    <2> HIDE DEF D
    <2> QED
      BY <1>1, <2>1, <2>2, Partition
  <1>6. SumFunction(CountByKind(s)) = Len(s)
    <2> DEFINE key == [i \in D |-> s[i].kind]
               C   == {key[i] : i \in D}
    <2>1. CountByKind(s) = Sizes(D, key, C) /\ DOMAIN CountByKind(s) = C
      BY DEF CountByKind, Sizes
    <2> HIDE DEF key, D
    <2> QED
      BY <1>5, <2>1 DEF SumFunction
  <1>7. SumFunction([c \in Conversations(s) |-> Size([conversation_id |-> c])]) = Len(s)
    <2> DEFINE key   == [i \in D |-> s[i].conversation]
               C     == {key[i] : i \in D}
               sizes == [c \in Conversations(s) |-> Size([conversation_id |-> c])]
    <2>1. Conversations(s) = C
      BY DEF Conversations
    <2>2. \A c \in C : Size([conversation_id |-> c]) = Cardinality({i \in D : key[i] = c})
      <3>1. \A c : {i \in D : Matches([conversation_id |-> c], s[i])} = {i \in D : key[i] = c}
        BY MatchesOne
      <3> QED
        BY <1>2, <3>1
    <2> HIDE DEF key, D, C
    <2>3. sizes = Sizes(D, key, C) /\ DOMAIN sizes = C
      BY <2>1, <2>2 DEF Sizes
    <2> HIDE DEF sizes
    <2>4. SumFunction(sizes) = Len(s)
      BY <1>5, <2>3 DEF SumFunction, C
    <2> QED
      BY <2>4 DEF sizes
  <1>8. ASSUME NEW n \in 0..Len(s)
        PROVE  SubSeq(s, 1, Len(s) - n) \o Latest(s, n) = s
    <2> DEFINE l == Len(s)
    <2>1. s \in Seq(Range(s)) /\ l \in Nat /\ n \in 0..l
      BY <1>1 DEF IsSequence
    <2>2. Latest(s, n) = SubSeq(s, l - n + 1, l)
      <3>1. CASE n < l
        BY <3>1 DEF Latest
      <3>2. CASE n = l
        BY <2>1, <3>2 DEF Latest
      <3> QED
        BY <2>1, <3>1, <3>2
    <2> HIDE DEF l
    <2>3. SubSeq(s, 1, l - n) \o SubSeq(s, l - n + 1, l) = s
      <3> DEFINE m == l - n
      <3>1. m \in 0..l /\ Len(s) = l
        BY <2>1 DEF l
      <3> HIDE DEF m
      <3>2. SubSeq(s, 1, m) \o SubSeq(s, m + 1, l) = SubSeq(s, 1, l)
        BY <2>1, <3>1, ConcatAdjacentSubSeq
      <3>3. SubSeq(s, 1, l) = s
        BY <2>1, <3>1, SubSeqFull
      <3> QED
        BY <3>2, <3>3 DEF m
    <2> QED
      BY <2>2, <2>3 DEF l
  <1> QED
    BY <1>3, <1>4, <1>6, <1>7, <1>8 DEF Size

(***************************************************************************)
(* Calls that producers have apart                                         *)
(***************************************************************************)

\* The key of what Decoded makes of an event.
KeyOf(e) == <<e.body.event.conversation, e.body.event.call>>

\* Producers that share no key take up no key of another one, so that the events of a
\* call are captured in the order of their ticks.
KeysApart == \A p, q \in Producer : p # q => KeysOf(p) \cap KeysOf(q) = {}

BuiltAfterCaptured ==
  \A p \in Producer : built[p] # None =>
    \A i \in DOMAIN buffer : KeyOf(buffer[i]) = KeyOf(built[p]) => buffer[i].tick < built[p].tick

CapturedInOrder ==
  \A i, j \in DOMAIN buffer :
    i < j /\ KeyOf(buffer[i]) = KeyOf(buffer[j]) => buffer[i].tick < buffer[j].tick

TicksBelow ==
  /\ \A i \in DOMAIN buffer : buffer[i].tick < tick
  /\ \A p \in Producer : built[p] # None => built[p].tick < tick

CallsInv == TicksBelow /\ (~shared => KeysApart /\ BuiltAfterCaptured /\ CapturedInOrder)

\* What a step does to the keys of producers.
LEMMA KeysStep ==
  ASSUME TypeInv, NEW p \in Producer
  PROVE  /\ Start(p) =>
              /\ \A q \in Producer \ {p} : KeysOf(q)' = KeysOf(q)
              /\ \E job \in todo : /\ script' = [script EXCEPT ![p] = Script(job)]
                                   /\ KeysOf(p)' = Keys(Script(job))
                                   /\ shared' = (shared \/ \E q \in Producer \ {p} :
                                                   KeysOf(q) \cap Keys(Script(job)) # {})
         /\ Build(p) =>
              /\ \A q \in Producer \ {p} : KeysOf(q)' = KeysOf(q)
              /\ KeysOf(p)' \subseteq KeysOf(p)
         /\ Capture(p) =>
              /\ \A q \in Producer \ {p} : KeysOf(q)' = KeysOf(q)
              /\ KeysOf(p)' \subseteq KeysOf(p)
              /\ KeyOf(built[p]) \in KeysOf(p)
         /\ EmitMetrics(p) => \A q \in Producer : KeysOf(q)' = KeysOf(q)
  <1>1. /\ script \in [Producer -> Seq(Unstamped)]
        /\ built \in [Producer -> Stream!Event \cup {None}]
    BY DEF TypeInv, ProducerTypes, Stream!TypeOK
  <1>2. ASSUME Start(p)
        PROVE  /\ \A q \in Producer \ {p} : KeysOf(q)' = KeysOf(q)
               /\ \E job \in todo : /\ script' = [script EXCEPT ![p] = Script(job)]
                                    /\ KeysOf(p)' = Keys(Script(job))
                                    /\ shared' = (shared \/ \E q \in Producer \ {p} :
                                                    KeysOf(q) \cap Keys(Script(job)) # {})
    <2>1. PICK job \in todo :
            /\ script' = [script EXCEPT ![p] = Script(job)]
            /\ shared' = (shared \/ \E q \in Producer \ {p} :
                            KeysOf(q) \cap Keys(Script(job)) # {})
            /\ UNCHANGED built
      BY <1>2 DEF Start, streamVars
    <2>2. built[p] = None
      BY <1>2 DEF Start, Idle
    <2>3. script'[p] = Script(job) /\ built'[p] = None
      BY <1>1, <2>1, <2>2
    <2>4. KeysOf(p)' = Keys(Script(job))
      BY <2>3 DEF KeysOf
    <2>5. \A q \in Producer \ {p} : script'[q] = script[q] /\ built'[q] = built[q]
      BY <1>1, <2>1
    <2> QED
      BY <2>1, <2>4, <2>5 DEF KeysOf
  <1>3. ASSUME Build(p)
        PROVE  /\ \A q \in Producer \ {p} : KeysOf(q)' = KeysOf(q)
               /\ KeysOf(p)' \subseteq KeysOf(p)
    <2> DEFINE body == [event |-> Head(script[p]), at |-> wall[tick]]
               new  == [body |-> body, by |-> p, tick |-> tick, seen |-> Len(Stream!wire)]
    <2>1. /\ script[p] # <<>> /\ script' = [script EXCEPT ![p] = Tail(@)]
          /\ built[p] = None /\ built' = [built EXCEPT ![p] = new]
      BY <1>3 DEF Build, Stream!Build
    <2>2. built'[p] = new /\ script'[p] = Tail(script[p])
      BY <1>1, <2>1
    <2>3. \A q \in Producer \ {p} : script'[q] = script[q] /\ built'[q] = built[q]
      BY <1>1, <2>1
    <2>4. new.body.event = Head(script[p])
      OBVIOUS
    <2> HIDE DEF new
    <2>5. Keys(Tail(script[p])) \subseteq Keys(script[p])
      <3>1. script[p] \in Seq(Unstamped)
        BY <1>1
      <3>2. \A i \in DOMAIN Tail(script[p]) :
              i + 1 \in DOMAIN script[p] /\ Tail(script[p])[i] = script[p][i + 1]
        BY <2>1, <3>1
      <3> QED
        BY <3>2 DEF Keys
    <2>6. Keys(<<Head(script[p])>>) \subseteq Keys(script[p])
      <3>1. 1 \in DOMAIN script[p] /\ Head(script[p]) = script[p][1]
        BY <1>1, <2>1
      <3>2. Keys(<<script[p][1]>>) = {<<script[p][1].conversation, script[p][1].call>>}
        BY DEF Keys
      <3> QED
        BY <3>1, <3>2 DEF Keys
    <2>7. KeysOf(p)' \subseteq Keys(Tail(script[p])) \cup Keys(<<Head(script[p])>>)
      BY <2>2, <2>4 DEF KeysOf
    <2>8. Keys(script[p]) \subseteq KeysOf(p)
      BY DEF KeysOf
    <2>9. \A q \in Producer \ {p} : KeysOf(q)' = KeysOf(q)
      BY <2>3 DEF KeysOf
    <2> QED
      BY <2>5, <2>6, <2>7, <2>8, <2>9
  <1>4. ASSUME Capture(p)
        PROVE  /\ \A q \in Producer \ {p} : KeysOf(q)' = KeysOf(q)
               /\ KeysOf(p)' \subseteq KeysOf(p)
               /\ KeyOf(built[p]) \in KeysOf(p)
    <2>1. built[p] # None /\ built' = [built EXCEPT ![p] = None] /\ script' = script
      BY <1>4 DEF Capture, Stream!Capture
    <2>2. built'[p] = None /\ \A q \in Producer \ {p} : built'[q] = built[q]
      BY <1>1, <2>1
    <2>3. KeyOf(built[p]) \in Keys(<<built[p].body.event>>)
      BY DEF Keys, KeyOf
    <2> QED
      BY <2>1, <2>2, <2>3 DEF KeysOf
  <1>5. ASSUME EmitMetrics(p) PROVE \A q \in Producer : KeysOf(q)' = KeysOf(q)
    BY <1>5 DEF EmitMetrics, streamVars, KeysOf
  <1> QED
    BY <1>2, <1>3, <1>4, <1>5

LEMMA CallsInit == Init => CallsInv
  <1> SUFFICES ASSUME Init PROVE CallsInv
    OBVIOUS
  <1>1. /\ buffer = <<>> /\ script = [p \in Producer |-> <<>>]
        /\ built = [p \in Producer |-> None]
    BY DEF Init, Stream!Init
  <1>2. \A p \in Producer : KeysOf(p) = {}
    BY <1>1 DEF KeysOf, Keys
  <1> QED
    BY <1>1, <1>2
    DEF CallsInv, TicksBelow, KeysApart, BuiltAfterCaptured, CapturedInOrder

LEMMA CallsStep ==
  ASSUME TypeInv, CallsInv, [Next]_vars
  PROVE  CallsInv'
  <1>1. /\ built \in [Producer -> Stream!Event \cup {None}]
        /\ buffer \in Seq(Stream!Event) /\ tick \in Nat
        /\ shared \in BOOLEAN
    BY DEF TypeInv, ProducerTypes, Stream!TypeOK
  <1>2. /\ \A i \in DOMAIN buffer : buffer[i].tick \in Nat
        /\ \A p \in Producer : built[p] # None => built[p].tick \in Nat
    <2>1. \A e \in Stream!Event : e.tick \in Nat
      BY DEF Stream!Event
    <2> QED
      BY <1>1, <2>1
  <1>3. CASE UNCHANGED vars
    BY <1>3 DEF CallsInv, TicksBelow, KeysApart, BuiltAfterCaptured, CapturedInOrder,
                KeysOf, vars, streamVars
  <1>4. ASSUME NEW p \in Producer, EmitMetrics(p) PROVE CallsInv'
    <2>1. UNCHANGED <<tick, built, buffer, shared>> /\ \A q \in Producer : KeysOf(q)' = KeysOf(q)
      BY <1>4, KeysStep DEF EmitMetrics, streamVars
    <2> QED
      BY <2>1 DEF CallsInv, TicksBelow, KeysApart, BuiltAfterCaptured, CapturedInOrder
  <1>5. ASSUME NEW p \in Producer, Start(p) PROVE CallsInv'
    <2>1. UNCHANGED <<tick, built, buffer>>
      BY <1>5 DEF Start, streamVars
    <2>2. PICK job \in todo :
            /\ KeysOf(p)' = Keys(Script(job))
            /\ shared' = (shared \/ \E q \in Producer \ {p} :
                            KeysOf(q) \cap Keys(Script(job)) # {})
      BY <1>5, KeysStep
    <2>3. \A q \in Producer \ {p} : KeysOf(q)' = KeysOf(q)
      BY <1>5, KeysStep
    <2>4. ASSUME ~shared' PROVE ~shared /\ KeysApart'
      <3>1. ~shared /\ \A q \in Producer \ {p} : KeysOf(q) \cap KeysOf(p)' = {}
        BY <2>2, <2>4
      <3>2. KeysApart
        BY <3>1 DEF CallsInv
      <3>3. ASSUME NEW q \in Producer, NEW r \in Producer, q # r
            PROVE  KeysOf(q)' \cap KeysOf(r)' = {}
        <4>1. CASE q = p
          BY <2>3, <3>1, <3>3, <4>1
        <4>2. CASE r = p
          BY <2>3, <3>1, <3>3, <4>2
        <4>3. CASE q # p /\ r # p
          BY <2>3, <3>2, <3>3, <4>3 DEF KeysApart
        <4> QED
          BY <4>1, <4>2, <4>3
      <3> QED
        BY <3>1, <3>3 DEF KeysApart
    <2> QED
      BY <2>1, <2>4 DEF CallsInv, TicksBelow, BuiltAfterCaptured, CapturedInOrder
  <1>6. ASSUME NEW p \in Producer, Build(p) PROVE CallsInv'
    <2>1. /\ UNCHANGED <<buffer, shared>> /\ tick' = tick + 1
          /\ \A q \in Producer \ {p} : built'[q] = built[q]
          /\ built'[p].tick = tick
      BY <1>1, <1>6 DEF Build, Stream!Build
    <2>2. KeysApart => KeysApart'
      <3>1. \A q \in Producer : KeysOf(q)' \subseteq KeysOf(q)
        BY <1>6, KeysStep
      <3> QED
        BY <3>1 DEF KeysApart
    <2>3. TicksBelow'
      BY <1>1, <1>2, <2>1 DEF CallsInv, TicksBelow
    <2>4. BuiltAfterCaptured => BuiltAfterCaptured'
      BY <2>1 DEF CallsInv, TicksBelow, BuiltAfterCaptured
    <2>5. CapturedInOrder => CapturedInOrder'
      BY <2>1 DEF CapturedInOrder
    <2> QED
      BY <2>1, <2>2, <2>3, <2>4, <2>5 DEF CallsInv
  <1>7. ASSUME NEW p \in Producer, Capture(p) PROVE CallsInv'
    <2> DEFINE n == Len(buffer) + 1
               e == built[p]
    <2>1. /\ UNCHANGED <<tick, shared>> /\ e # None
          /\ built'[p] = None /\ \A q \in Producer \ {p} : built'[q] = built[q]
          /\ buffer' = Append(buffer, e)
      BY <1>1, <1>7 DEF Capture, Stream!Capture
    <2>2. /\ n \in Nat /\ n \notin DOMAIN buffer /\ DOMAIN buffer' = DOMAIN buffer \cup {n}
          /\ buffer'[n] = e /\ \A i \in DOMAIN buffer : buffer'[i] = buffer[i] /\ i < n
      BY <1>1, <2>1
    <2>3. KeyOf(e) \in KeysOf(p) /\ \A q \in Producer : KeysOf(q)' \subseteq KeysOf(q)
      BY <1>7, KeysStep
    <2> HIDE DEF n, e
    <2>4. TicksBelow'
      BY <2>1, <2>2 DEF CallsInv, TicksBelow, e
    <2>5. KeysApart => KeysApart'
      BY <2>3 DEF KeysApart
    <2>6. ASSUME KeysApart, BuiltAfterCaptured PROVE BuiltAfterCaptured'
      <3> SUFFICES ASSUME NEW q \in Producer, built'[q] # None, NEW i \in DOMAIN buffer',
                          KeyOf(buffer'[i]) = KeyOf(built'[q])
                   PROVE  buffer'[i].tick < built'[q].tick
        BY DEF BuiltAfterCaptured, KeyOf
      <3>1. q # p /\ built'[q] = built[q]
        BY <2>1
      <3>2. KeyOf(built[q]) \in KeysOf(q)
        BY <3>1 DEF KeysOf, Keys, KeyOf
      <3>3. i # n
        BY <2>2, <2>3, <2>6, <3>1, <3>2 DEF KeysApart
      <3>4. i \in DOMAIN buffer /\ buffer'[i] = buffer[i]
        BY <2>2, <3>3
      <3> QED
        BY <2>6, <3>1, <3>4 DEF BuiltAfterCaptured
    <2>7. ASSUME BuiltAfterCaptured, CapturedInOrder PROVE CapturedInOrder'
      <3> SUFFICES ASSUME NEW i \in DOMAIN buffer', NEW j \in DOMAIN buffer', i < j,
                          KeyOf(buffer'[i]) = KeyOf(buffer'[j])
                   PROVE  buffer'[i].tick < buffer'[j].tick
        BY DEF CapturedInOrder, KeyOf
      <3>1. i \in DOMAIN buffer /\ buffer'[i] = buffer[i]
        <4>1. \A k \in DOMAIN buffer : k \in Nat /\ k < n
          BY <1>1, <2>2
        <4> QED
          BY <2>2, <4>1
      <3>2. CASE j = n
        BY <2>1, <2>2, <2>7, <3>1, <3>2 DEF BuiltAfterCaptured, e
      <3>3. CASE j # n
        BY <2>2, <2>7, <3>1, <3>3 DEF CapturedInOrder
      <3> QED
        BY <3>2, <3>3
    <2> QED
      BY <2>1, <2>4, <2>5, <2>6, <2>7 DEF CallsInv
  <1> QED
    BY <1>3, <1>4, <1>5, <1>6, <1>7 DEF Next

LEMMA CallsHold == Spec => []CallsInv
  BY CallsInit, CallsStep, TypesHold, PTL DEF Spec

\* The events of a call are in a snapshot in the order of their ticks.
LEMMA SnapshotOrder ==
  ASSUME TypeInv, CallsInv, NEW s \in Snapshots
  PROVE  /\ \A i \in DOMAIN s : s[i].tick \in Nat /\ s[i].kind \in EventKind
         /\ ~shared => \A i, j \in DOMAIN s :
                         i < j /\ Key(s[i]) = Key(s[j]) => s[i].tick < s[j].tick
  <1>1. IsSequence(s) /\ DOMAIN s = 1..Len(s) /\ Len(s) \in Nat
    BY SnapshotPlaces DEF IsSequence
  <1>2. PICK n \in 0..Len(buffer) :
          \A i \in 1..Len(s) : /\ n + i \in DOMAIN buffer
                               /\ buffer[n + i] \in Stream!Event
                               /\ s[i] = Decoded(buffer[n + i])
    BY SnapshotPlaces
  <1>3. \A e \in Stream!Event : /\ Decoded(e).tick = e.tick /\ e.tick \in Nat
                                /\ Key(Decoded(e)) = KeyOf(e)
                                /\ Decoded(e).kind \in EventKind
    <2> SUFFICES ASSUME NEW e \in Stream!Event
                 PROVE  /\ Decoded(e).tick = e.tick /\ e.tick \in Nat
                        /\ Key(Decoded(e)) = KeyOf(e)
                        /\ Decoded(e).kind \in EventKind
      OBVIOUS
    <2>1. e.tick \in Nat
      BY DEF Stream!Event
    <2> DEFINE b == e.body.event
    <2>2. /\ Decoded(e) = [kind |-> b.kind, conversation |-> b.conversation, call |-> b.call,
                           data |-> b.data, tick |-> e.tick, at |-> e.body.at]
          /\ IsEvent(b)
      BY DecodedType
    <2>3. KeyOf(e) = <<b.conversation, b.call>>
      BY DEF KeyOf
    <2> HIDE DEF b
    <2> QED
      BY <2>1, <2>2, <2>3 DEF Key, IsEvent
  <1>4. ASSUME ~shared, NEW i \in DOMAIN s, NEW j \in DOMAIN s, i < j, Key(s[i]) = Key(s[j])
        PROVE  s[i].tick < s[j].tick
    <2>1. n + i < n + j
      BY <1>1, <1>4
    <2> QED
      BY <1>1, <1>2, <1>3, <1>4, <2>1 DEF CallsInv, CapturedInOrder
  <1> QED
    BY <1>1, <1>2, <1>3, <1>4

\* Every kind of a call surfaces its id, and no other kind has one.
LEMMA CallIdSurfaces ==
  ASSUME NEW e, e.kind \in EventKind
  PROVE  ScalarField(e, "call_id") = ToolCallId(e)
  <1>1. "call_id" \in Surfaced(e.kind) <=> e.kind \in ToolKind
    BY DEF Surfaced, EventKind, PromptKind, ToolKind, HostedKind, MemoryKind, ComposeKind,
           SessionKind, SearchKind
  <1> QED
    BY <1>1 DEF ScalarField, ToolCallId

\* A filter by conversation and call id finds exactly the events of that call, and a
\* window from the first to the last tick of its span keeps both ends of it, unless two
\* producers were at work on that call at once; pages cover a snapshot and no event is in
\* two.  So it is for any producers, jobs, clocks and snapshots.
THEOREM QueriesMissNothing == Spec => []QueriesAreExact
  <1>1. ASSUME TypeInv, CallsInv PROVE PagesCoverSnapshot
    <2>1. \A s \in Snapshots : IsSequence(s) /\ \A i \in DOMAIN s : s[i].tick \in Nat
      BY <1>1, SnapshotPlaces, SnapshotOrder
    <2>2. tick \in Nat
      BY <1>1 DEF TypeInv, Stream!TypeOK
    <2> QED
      BY <2>1, <2>2, PagesCover DEF PagesCoverSnapshot
  <1>2. ASSUME TypeInv, CallsInv PROVE FiltersFindCalls
    <2> SUFFICES ASSUME NEW s \in Snapshots, NEW span \in Range(Spans(s))
                 PROVE  LET call  == [conversation_id |-> span.ends[1].conversation,
                                      call_id |-> ToolCallId(span.ends[1])]
                            ticks == [min_tick |-> span.ends[1].tick,
                                      max_tick |-> Last(span.ends).tick]
                        IN  /\ Filter(s, call) =
                                 Select(s, {i \in DOMAIN s :
                                              /\ s[i].conversation = call.conversation_id
                                              /\ ToolCallId(s[i]) = call.call_id})
                            /\ ~shared => Range(span.ends) \subseteq
                                            Range(Filter(s, Extend(call, ticks)))
      BY DEF FiltersFindCalls
    <2> DEFINE first == span.ends[1]
               last  == Last(span.ends)
               call  == [conversation_id |-> first.conversation,
                         call_id |-> ToolCallId(first)]
               ticks == [min_tick |-> first.tick, max_tick |-> last.tick]
               both  == Extend(call, ticks)
    <2>1. /\ IsSequence(s) /\ DOMAIN s = 1..Len(s)
          /\ \A i \in DOMAIN s : s[i].tick \in Nat /\ s[i].kind \in EventKind
          /\ ~shared => \A i, j \in DOMAIN s :
                          i < j /\ Key(s[i]) = Key(s[j]) => s[i].tick < s[j].tick
      BY <1>2, SnapshotPlaces, SnapshotOrder DEF IsSequence
    <2>2. IsSpan(span, s, Len(s)) /\ span.ends \in Seq(Range(span.ends))
      BY <2>1, SpansAreSpans
    <2>3. \A c, v, e : Matches([conversation_id |-> c, call_id |-> v], e) <=>
                         e.conversation = c /\ ScalarField(e, "call_id") = v
      BY DEF Matches, FilteredScalar
    <2>4. \A i \in DOMAIN s : Matches(call, s[i]) <=>
            s[i].conversation = first.conversation /\ ToolCallId(s[i]) = ToolCallId(first)
      BY <2>1, <2>3, CallIdSurfaces
    <2>5. \A c, v, a, b, e :
            Matches(Extend([conversation_id |-> c, call_id |-> v],
                           [min_tick |-> a, max_tick |-> b]), e) <=>
              /\ e.conversation = c /\ ScalarField(e, "call_id") = v
              /\ e.tick >= a /\ e.tick <= b
      <3>1. \A c, v, a, b : Extend([conversation_id |-> c, call_id |-> v],
                                   [min_tick |-> a, max_tick |-> b]) =
              [conversation_id |-> c, call_id |-> v, min_tick |-> a, max_tick |-> b]
        BY DEF Extend
      <3>2. \A c, v, a, b, e :
              Matches([conversation_id |-> c, call_id |-> v, min_tick |-> a, max_tick |-> b], e)
                <=> /\ e.conversation = c /\ ScalarField(e, "call_id") = v
                    /\ e.tick >= a /\ e.tick <= b
        BY DEF Matches, FilteredScalar
      <3> SUFFICES ASSUME NEW c, NEW v, NEW a, NEW b, NEW e
                   PROVE  Matches(Extend([conversation_id |-> c, call_id |-> v],
                                         [min_tick |-> a, max_tick |-> b]), e) <=>
                            /\ e.conversation = c /\ ScalarField(e, "call_id") = v
                            /\ e.tick >= a /\ e.tick <= b
        OBVIOUS
      <3> DEFINE x == Extend([conversation_id |-> c, call_id |-> v],
                             [min_tick |-> a, max_tick |-> b])
                 y == [conversation_id |-> c, call_id |-> v, min_tick |-> a, max_tick |-> b]
      <3>3. x = y
        BY <3>1
      <3>4. Matches(y, e) <=> /\ e.conversation = c /\ ScalarField(e, "call_id") = v
                              /\ e.tick >= a /\ e.tick <= b
        BY <3>2
      <3> HIDE DEF x, y
      <3>5. Matches(x, e) <=> /\ e.conversation = c /\ ScalarField(e, "call_id") = v
                              /\ e.tick >= a /\ e.tick <= b
        BY <3>3, <3>4
      <3> QED
        BY <3>5 DEF x
    <2>6. \A i \in DOMAIN s : Matches(both, s[i]) <=>
            /\ s[i].conversation = first.conversation /\ ToolCallId(s[i]) = ToolCallId(first)
            /\ s[i].tick >= first.tick /\ s[i].tick <= last.tick
      BY <2>1, <2>5, CallIdSurfaces
    <2> HIDE DEF call, both
    <2>7. Filter(s, call) = Select(s, {i \in DOMAIN s :
                                         /\ s[i].conversation = first.conversation
                                         /\ ToolCallId(s[i]) = ToolCallId(first)})
      <3>1. {i \in DOMAIN s : Matches(call, s[i])} =
              {i \in DOMAIN s : /\ s[i].conversation = first.conversation
                                /\ ToolCallId(s[i]) = ToolCallId(first)}
        BY <2>4
      <3> QED
        BY <3>1 DEF Filter
    <2>8. ASSUME ~shared PROVE Range(span.ends) \subseteq Range(Filter(s, both))
      <3>1. PICK i \in DOMAIN s :
              /\ first = s[i] /\ first.kind \in InvokeKind /\ Key(first) = span.key
              /\ \/ Len(span.ends) = 1
                 \/ /\ Len(span.ends) = 2
                    /\ \E j \in (i + 1)..Len(s) : span.ends[2] = s[j]
                    /\ span.ends[2].kind \in TerminalKind
                    /\ Key(span.ends[2]) = span.key
        BY <2>1, <2>2 DEF IsSpan
      <3>2. ASSUME NEW k \in DOMAIN s, Matches(both, s[k]) PROVE s[k] \in Range(Filter(s, both))
        <4> DEFINE T == {m \in DOMAIN s : Matches(both, s[m])}
        <4>1. T \in SUBSET Nat /\ IsFiniteSet(T)
          BY <2>1, SequencePlaces
        <4>2. k \in T
          BY <3>2
        <4> HIDE DEF T
        <4>3. PICK g : IsList(g, T) /\ \A q : Select(q, T) = [n \in 1..Cardinality(T) |-> q[g[n]]]
          BY <4>1, Selection
        <4> DEFINE n == Cardinality(UpTo(T, k))
        <4>4. n \in 1..Cardinality(T) /\ g[n] = k
          BY <4>2, <4>3 DEF IsList
        <4>5. n \in DOMAIN Select(s, T) /\ Select(s, T)[n] = s[k]
          <5>1. Select(s, T) = [m \in 1..Cardinality(T) |-> s[g[m]]]
            BY <4>3
          <5> HIDE DEF n
          <5> QED
            BY <4>4, <5>1
        <4> HIDE DEF n
        <4>6. s[k] \in Range(Select(s, T))
          BY <4>5 DEF Range
        <4> QED
          BY <4>6 DEF T, Filter
      <3>3. i \in Nat /\ first.tick \in Nat
        BY <2>1, <3>1
      <3>4. CASE Len(span.ends) = 1
        <4>1. last = first /\ Range(span.ends) = {first}
          BY <2>2, <3>4 DEF Last, Range
        <4>2. Matches(both, s[i])
          BY <2>6, <3>1, <3>3, <4>1
        <4> QED
          BY <3>1, <3>2, <4>1, <4>2
      <3>5. CASE Len(span.ends) = 2
        <4>1. last = span.ends[2] /\ Range(span.ends) = {first, last}
          BY <2>2, <3>5 DEF Last, Range
        <4>2. PICK j \in (i + 1)..Len(s) : last = s[j]
          BY <3>1, <3>5, <4>1
        <4>3. j \in DOMAIN s /\ i < j
          BY <2>1, <3>1, <3>3
        <4>4. last.kind \in TerminalKind /\ Key(last) = Key(first)
          BY <3>1, <3>5, <4>1
        <4> HIDE DEF first, last
        <4>5. first.tick < last.tick /\ last.tick \in Nat
          BY <2>1, <2>8, <3>1, <4>2, <4>3, <4>4
        <4>6. last.conversation = first.conversation /\ ToolCallId(last) = ToolCallId(first)
          BY <3>1, <4>4 DEF Key, ToolCallId, InvokeKind, TerminalKind, CompletedKind, ToolKind,
                            HostedKind
        <4>7. Matches(both, s[i]) /\ Matches(both, s[j])
          BY <2>6, <3>1, <3>3, <4>2, <4>3, <4>5, <4>6
        <4> QED
          BY <3>1, <3>2, <4>1, <4>2, <4>3, <4>7
      <3> QED
        BY <3>1, <3>4, <3>5
    <2> QED
      BY <2>7, <2>8 DEF call, both
  <1>3. TypeInv /\ CallsInv => QueriesAreExact
    BY <1>1, <1>2 DEF QueriesAreExact
  <1> QED
    BY <1>3, TypesHold, CallsHold, PTL

(***************************************************************************)
(* Latencies                                                               *)
(***************************************************************************)

\* Samples at or below a value.
Below(samples, v) == {i \in DOMAIN samples : samples[i] <= v}

\* What Sorted makes of samples is ascending, made of them, and has each of them at the
\* place of its rank.
LEMMA SortedRanks ==
  ASSUME NEW samples \in Seq(Nat)
  PROVE  /\ Sorted(samples) \in Seq(Nat)
         /\ Len(Sorted(samples)) = Len(samples)
         /\ Range(Sorted(samples)) = Range(samples)
         /\ \A m, n \in 1..Len(samples) : m <= n => Sorted(samples)[m] <= Sorted(samples)[n]
         /\ \A n \in 1..Len(samples) :
              /\ Cardinality(Below(samples, Sorted(samples)[n])) >= n
              /\ \A v \in Range(samples) :
                   v < Sorted(samples)[n] => Cardinality(Below(samples, v)) < n
  <1> DEFINE D  == DOMAIN samples
             N  == Len(samples)
             To(i) == {j \in D : \/ samples[j] < samples[i]
                                 \/ samples[j] = samples[i] /\ j <= i}
             up == [i \in D |-> To(i)]
             at == [n \in D |-> CHOOSE i \in D : Cardinality(To(i)) = n]
             sorted == Sorted(samples)
  <1>1. /\ N \in Nat /\ D = 1..N /\ \A i \in D : samples[i] \in Nat /\ i \in Nat
        /\ IsFiniteSet(D) /\ Cardinality(D) = N
    <2>1. IsSequence(samples)
      BY DEF IsSequence, Range
    <2> QED
      BY <2>1, SequencePlaces
  <1>2. sorted = [n \in D |-> samples[at[n]]]
    BY DEF Sorted
  <1>3. up \in [D -> SUBSET D] /\ \A i \in D : i \in up[i]
    BY <1>1
  <1>4. ASSUME NEW i \in D, NEW j \in D, i # j
        PROVE  \/ up[i] \subseteq up[j] /\ j \notin up[i]
               \/ up[j] \subseteq up[i] /\ i \notin up[j]
    <2>1. \A k, l \in D : samples[k] < samples[l] \/ (samples[k] = samples[l] /\ k < l)
            => up[k] \subseteq up[l] /\ l \notin up[k]
      <3> SUFFICES ASSUME NEW k \in D, NEW l \in D,
                          samples[k] < samples[l] \/ (samples[k] = samples[l] /\ k < l)
                   PROVE  up[k] \subseteq up[l] /\ l \notin up[k]
        OBVIOUS
      <3>1. \A x \in D : x \in up[k] <=> samples[x] < samples[k] \/ (samples[x] = samples[k] /\ x <= k)
        OBVIOUS
      <3>2. \A x \in D : x \in up[l] <=> samples[x] < samples[l] \/ (samples[x] = samples[l] /\ x <= l)
        OBVIOUS
      <3>3. up[k] \subseteq D
        OBVIOUS
      <3> HIDE DEF up, D
      <3>4. ASSUME NEW x \in up[k] PROVE x \in up[l]
        BY <1>1, <3>1, <3>2, <3>3
      <3>5. l \notin up[k]
        BY <1>1, <3>1
      <3> QED
        BY <3>4, <3>5
    <2>2. \/ samples[i] < samples[j] \/ (samples[i] = samples[j] /\ i < j)
          \/ samples[j] < samples[i] \/ (samples[j] = samples[i] /\ j < i)
      BY <1>1, <1>4
    <2> HIDE DEF up
    <2> QED
      BY <2>1, <2>2
  <1>5. \A i, j \in D : j \in up[i] => samples[j] <= samples[i]
    BY <1>1
  <1>6. \A i, j \in D : samples[j] < samples[i] => j \in up[i]
    BY <1>1
  <1> HIDE DEF up
  <1>7. /\ \A i \in D : Cardinality(up[i]) \in 1..N
        /\ \A i, j \in D : j \in up[i] <=> Cardinality(up[j]) <= Cardinality(up[i])
        /\ \A n \in 1..N : \E i \in D : Cardinality(up[i]) = n
    BY <1>1, <1>3, <1>4, Numbering
  <1>8. \A n \in 1..N : at[n] \in D /\ Cardinality(up[at[n]]) = n
    <2>1. \A i \in D : up[i] = To(i)
      BY DEF up
    <2> HIDE DEF To
    <2>2. \A n \in 1..N : at[n] = CHOOSE i \in D : Cardinality(To(i)) = n
      BY <1>1
    <2>3. \A n \in 1..N : \E i \in D : Cardinality(To(i)) = n
      BY <1>7, <2>1
    <2>4. \A n \in 1..N : at[n] \in D /\ Cardinality(To(at[n])) = n
      BY <2>2, <2>3
    <2> QED
      BY <2>1, <2>4
  <1>9. \A i \in D : \E n \in 1..N : samples[i] = samples[at[n]]
    <2> SUFFICES ASSUME NEW i \in D PROVE \E n \in 1..N : samples[i] = samples[at[n]]
      OBVIOUS
    <2> DEFINE n == Cardinality(up[i])
    <2>1. n \in 1..N
      BY <1>7
    <2>2. at[n] \in D /\ Cardinality(up[at[n]]) = n
      BY <1>8, <2>1
    <2>3. n <= n
      BY <1>1, <2>1
    <2> HIDE DEF at
    <2>4. i \in up[at[n]] /\ at[n] \in up[i]
      BY <1>7, <2>2, <2>3
    <2>5. samples[i] <= samples[at[n]] /\ samples[at[n]] <= samples[i]
      BY <1>5, <2>2, <2>4
    <2>6. samples[i] = samples[at[n]]
      BY <1>1, <2>2, <2>5
    <2> QED
      BY <2>1, <2>6
  <1> HIDE DEF at
  <1>10. sorted \in Seq(Nat) /\ Len(sorted) = N
    BY <1>1, <1>2, <1>8
  <1>11. Range(sorted) = Range(samples)
    <2>1. \A n \in D : sorted[n] = samples[at[n]] /\ at[n] \in D
      BY <1>1, <1>2, <1>8
    <2>2. DOMAIN sorted = D
      BY <1>2
    <2> HIDE DEF sorted, D
    <2>3. \A i \in D : \E n \in D : samples[i] = sorted[n]
      BY <1>1, <1>9, <2>1
    <2> QED
      <3>1. Range(sorted) = {sorted[n] : n \in D} /\ Range(samples) = {samples[n] : n \in D}
        BY <2>2 DEF Range, D
      <3>2. ASSUME NEW v \in Range(sorted) PROVE v \in Range(samples)
        <4>1. PICK n \in D : v = sorted[n]
          BY <3>1
        <4> QED
          BY <2>1, <3>1, <4>1
      <3>3. ASSUME NEW v \in Range(samples) PROVE v \in Range(sorted)
        <4>1. PICK n \in D : v = samples[n]
          BY <3>1
        <4> QED
          BY <2>3, <3>1, <4>1
      <3> QED
        BY <3>2, <3>3
  <1>12. ASSUME NEW m \in 1..N, NEW n \in 1..N, m <= n PROVE sorted[m] <= sorted[n]
    <2>1. at[m] \in up[at[n]]
      BY <1>7, <1>8, <1>12
    <2> QED
      BY <1>1, <1>2, <1>5, <1>8, <2>1
  <1>13. ASSUME NEW n \in 1..N
         PROVE  /\ Cardinality(Below(samples, sorted[n])) >= n
                /\ \A v \in Range(samples) :
                     v < sorted[n] => Cardinality(Below(samples, v)) < n
    <2> DEFINE B(v) == Below(samples, v)
               i    == at[n]
    <2>1. i \in D /\ sorted[n] = samples[i] /\ Cardinality(up[i]) = n
      BY <1>1, <1>2, <1>8
    <2>2. \A v : IsFiniteSet(B(v)) /\ Cardinality(B(v)) \in Nat
      <3>1. \A v : B(v) \in SUBSET D
        BY DEF Below
      <3> HIDE DEF B, D
      <3> QED
        BY <1>1, <3>1, FS_Subset, FS_CardinalityType
    <2>3. IsFiniteSet(up[i]) /\ up[i] \in SUBSET D
      BY <1>1, <1>3, <2>1, FS_Subset
    <2> HIDE DEF i
    <2>4. Cardinality(up[i]) <= Cardinality(B(sorted[n]))
      <3>1. up[i] \in SUBSET B(sorted[n])
        BY <1>5, <2>1, <2>3 DEF Below
      <3> HIDE DEF B
      <3> QED
        BY <2>2, <3>1, FS_Subset
    <2>5. ASSUME NEW v \in Range(samples), v < sorted[n] PROVE Cardinality(B(v)) < n
      <3>1. v \in Nat
        BY <1>1 DEF Range
      <3>2. B(v) \in SUBSET up[i] /\ i \notin B(v)
        BY <1>1, <1>6, <2>1, <2>5, <3>1 DEF Below
      <3>3. i \in up[i]
        BY <1>3, <2>1
      <3> HIDE DEF B
      <3>4. Cardinality(B(v)) <= n /\ Cardinality(B(v)) # n
        BY <2>1, <2>3, <3>2, <3>3, FS_Subset
      <3> QED
        BY <1>1, <2>2, <3>4
    <2> QED
      BY <1>1, <2>1, <2>2, <2>4, <2>5
  <1> QED
    BY <1>10, <1>11, <1>12, <1>13

\* A sum of numbers lies between as many of the least and of the greatest of them.
LEMMA SumBounds ==
  ASSUME NEW f, NEW S, IsFiniteSet(S), NEW lo \in Nat, NEW hi \in Nat,
         \A x \in S : f[x] \in Nat /\ lo <= f[x] /\ f[x] <= hi
  PROVE  /\ Cardinality(S) * lo <= SumFunctionOnSet(f, S)
         /\ SumFunctionOnSet(f, S) <= Cardinality(S) * hi
  <1> DEFINE SumsTo(s) == SumFunctionOnSet(f, s)
             Holds(s)  == Cardinality(s) * lo <= SumsTo(s) /\ SumsTo(s) <= Cardinality(s) * hi
             F == {s \in SUBSET S : ~Holds(s)}
  <1>1. SUFFICES ASSUME F # {} PROVE FALSE
    BY S \in SUBSET S
  <1>2. PICK R \in F : \A q \in F : q \subseteq R => q = R
    <2>1. F \subseteq SUBSET S
      OBVIOUS
    <2> HIDE DEF F
    <2> QED
      BY <1>1, <2>1, Minimal
  <1>3. R \in SUBSET S /\ ~Holds(R)
    OBVIOUS
  <1>4. \A q \in SUBSET S : IsFiniteSet(q) /\ SumsTo(q) \in Nat /\ Cardinality(q) \in Nat
    BY FS_Subset, FS_CardinalityType, SumType
  <1>5. R # {}
    <2>1. SumsTo({}) = 0 /\ Cardinality({}) = 0
      BY FS_EmptySet, SumUnfolds
    <2>2. Holds({})
      BY <2>1
    <2> HIDE DEF Holds
    <2> QED
      BY <1>3, <2>2
  <1> DEFINE x == Taken(R)
             Q == R \ {x}
             c == Cardinality(Q)
  <1>6. x \in R /\ SumsTo(R) = f[x] + SumsTo(Q)
    BY <1>4, <1>5, SumUnfolds DEF Taken
  <1> HIDE DEF x
  <1>7. Q \in SUBSET S /\ Cardinality(R) = c + 1
    <2>1. Q \in SUBSET S /\ R = Q \cup {x} /\ x \notin Q
      BY <1>3, <1>6
    <2> HIDE DEF Q
    <2> QED
      BY <1>4, <2>1, FS_AddElement
  <1>8. Holds(Q)
    <2>1. Q \notin F
      <3>1. Q \subseteq R /\ Q # R
        BY <1>6
      <3> HIDE DEF F, Q
      <3> QED
        BY <1>2, <3>1
    <2> QED
      BY <1>7, <2>1
  <1>9. c \in Nat /\ SumsTo(Q) \in Nat /\ f[x] \in Nat /\ lo <= f[x] /\ f[x] <= hi
    BY <1>3, <1>4, <1>6, <1>7
  <1> HIDE DEF SumsTo, c, Q
  <1>10. (c + 1) * lo = c * lo + lo /\ (c + 1) * hi = c * hi + hi
    BY <1>9
  <1>11. c * lo \in Nat /\ c * hi \in Nat
    BY <1>9
  <1>12. c * lo <= SumsTo(Q) /\ SumsTo(Q) <= c * hi
    BY <1>8 DEF c
  <1>13. Holds(R)
    BY <1>6, <1>7, <1>9, <1>10, <1>11, <1>12
  <1> QED
    BY <1>3, <1>13

\* A quotient lies between them, then.
LEMMA MeanBounds ==
  ASSUME NEW n \in Nat, n > 0, NEW t \in Nat, NEW lo \in Nat, NEW hi \in Nat,
         n * lo <= t, t <= n * hi
  PROVE  lo <= t \div n /\ t \div n <= hi
  <1> DEFINE q == t \div n
  <1>1. q \in Nat /\ n * q <= t /\ t < n * q + n
    OBVIOUS
  <1> HIDE DEF q
  <1>2. ASSUME q < lo PROVE FALSE
    <2>1. PICK d \in Nat : lo = q + 1 + d
      <3>1. lo - q - 1 \in Nat /\ lo = q + 1 + (lo - q - 1)
        BY <1>1, <1>2
      <3> QED
        BY <3>1
    <2>2. n * lo = n * q + n + n * d /\ n * d \in Nat /\ n * q \in Nat
      BY <1>1, <2>1
    <2> QED
      BY <1>1, <2>2
  <1>3. ASSUME hi < q PROVE FALSE
    <2>1. PICK d \in Nat : q = hi + 1 + d
      <3>1. q - hi - 1 \in Nat /\ q = hi + 1 + (q - hi - 1)
        BY <1>1, <1>3
      <3> QED
        BY <3>1
    <2>2. n * q = n * hi + n + n * d /\ n * d \in Nat /\ n * hi \in Nat
      BY <2>1
    <2> QED
      BY <1>1, <2>2
  <1> QED
    BY <1>1, <1>2, <1>3 DEF q

\* The percentile is the nearest rank.
LEMMA PercentileOfSamples ==
  ASSUME NEW p \in Quantiles, NEW samples \in Seq(Nat), samples # <<>>
  PROVE  Percentile(Sorted(samples), p) = NearestRank(samples, p)
  <1> DEFINE N == Len(samples)
             r == Rank(p, N)
             sorted == Sorted(samples)
             Near == {v \in Range(samples) : 100 * Cardinality(Below(samples, v)) >= p * N}
             c(v) == Cardinality(Below(samples, v))
  <1>1. N \in Nat /\ N > 0 /\ p \in Nat
    BY DEF Quantiles
  <1>2. r \in 1..N /\ 100 * r >= p * N /\ 100 * (r - 1) < p * N
    BY <1>1, RankIsNearest
  <1>3. /\ sorted \in Seq(Nat) /\ Len(sorted) = N /\ Range(sorted) = Range(samples)
        /\ \A n \in 1..N : /\ c(sorted[n]) >= n
                           /\ \A v \in Range(samples) : v < sorted[n] => c(v) < n
    BY SortedRanks
  <1>4. Percentile(sorted, p) = sorted[r]
    BY <1>1, <1>3, RankIndexIsRank DEF Percentile
  <1>5. NearestRank(samples, p) = Min(Near)
    BY DEF NearestRank, Below
  <1>6. \A v : c(v) \in Nat
    <2>1. IsSequence(samples)
      BY DEF IsSequence, Range
    <2> QED
      BY <2>1, SequencePlaces DEF Below
  <1>7. \A v \in Range(samples) : v \in Nat
    BY DEF Range
  <1> HIDE DEF r, sorted, c
  <1>8. sorted[r] \in Range(samples)
    <2>1. r \in DOMAIN sorted
      BY <1>2, <1>3
    <2>2. sorted[r] \in Range(sorted)
      BY <2>1 DEF Range
    <2> QED
      BY <1>3, <2>2
  <1>9. p * N \in Nat
    BY <1>1
  <1>10. \A v \in Range(samples) : v \in Near <=> 100 * c(v) >= p * N
    BY DEF c
  <1> HIDE DEF N, Near
  <1>11. sorted[r] \in Near
    <2>1. 100 * c(sorted[r]) >= 100 * r
      BY <1>2, <1>3, <1>6
    <2>2. 100 * c(sorted[r]) \in Nat /\ 100 * r \in Nat
      BY <1>1, <1>2, <1>6
    <2> QED
      BY <1>2, <1>8, <1>9, <1>10, <2>1, <2>2
  <1>12. ASSUME NEW v \in Near PROVE sorted[r] <= v
    <2>1. v \in Range(samples)
      BY DEF Near
    <2>2. 100 * c(v) >= p * N
      BY <1>10, <2>1
    <2>3. ~(c(v) < r)
      <3>1. ASSUME c(v) < r PROVE FALSE
        <4>1. 100 * c(v) <= 100 * (r - 1)
          BY <1>1, <1>2, <1>6, <3>1
        <4>2. 100 * c(v) \in Nat /\ 100 * (r - 1) \in Nat
          BY <1>1, <1>2, <1>6
        <4> QED
          BY <1>2, <1>9, <2>2, <4>1, <4>2
      <3> QED
        BY <3>1
    <2>4. ~(v < sorted[r])
      BY <1>2, <1>3, <2>1, <2>3
    <2> QED
      BY <1>7, <1>8, <2>1, <2>4
  <1>13. Min(Near) = sorted[r]
    <2>1. Near \subseteq Nat
      BY <1>7 DEF Near
    <2>2. \A v \in Near : v \in Nat /\ sorted[r] <= v
      BY <1>12, <2>1
    <2>3. \A v \in Near : (\A w \in Near : v <= w) => v = sorted[r]
      BY <1>11, <2>2
    <2>4. Min(Near) = CHOOSE v \in Near : \A w \in Near : v <= w
      BY DEF Min
    <2> QED
      BY <1>11, <2>2, <2>3, <2>4
  <1> QED
    BY <1>4, <1>5, <1>13 DEF sorted

\* A summary of any samples.
LEMMA SummaryOfSamples ==
  ASSUME NEW samples \in Seq(Nat), samples # <<>>
  PROVE  LET summary == LatencySummary(samples) IN
         /\ \A p \in Quantiles : summary.at[p] = NearestRank(samples, p)
         /\ summary.min <= summary.mean /\ summary.mean <= summary.max
  <1> DEFINE n == Len(samples)
             sorted == Sorted(samples)
             summary == LatencySummary(samples)
             D == DOMAIN samples
  <1>1. n \in Nat /\ n > 0 /\ n # 0
    OBVIOUS
  <1>2. /\ summary.min = sorted[1] /\ summary.max = sorted[n]
        /\ summary.mean = Total(samples) \div n
        /\ \A p \in Quantiles : summary.at[p] = Percentile(sorted, p)
    BY <1>1 DEF LatencySummary
  <1>3. /\ sorted \in Seq(Nat) /\ Len(sorted) = n /\ Range(sorted) = Range(samples)
        /\ \A k, l \in 1..n : k <= l => sorted[k] <= sorted[l]
    BY SortedRanks
  <1>4. sorted[1] \in Nat /\ sorted[n] \in Nat
    BY <1>1, <1>3
  <1>5. \A i \in D : /\ samples[i] \in Nat
                     /\ sorted[1] <= samples[i] /\ samples[i] <= sorted[n]
    <2> SUFFICES ASSUME NEW i \in D
                 PROVE  /\ samples[i] \in Nat
                        /\ sorted[1] <= samples[i] /\ samples[i] <= sorted[n]
      OBVIOUS
    <2>1. samples[i] \in Range(sorted)
      BY <1>3 DEF Range
    <2>2. PICK k \in 1..n : samples[i] = sorted[k]
      BY <1>3, <2>1 DEF Range
    <2>3. 1 \in 1..n /\ n \in 1..n /\ 1 <= k /\ k <= n /\ samples[i] \in Nat
      BY <1>1
    <2>4. sorted[1] <= sorted[k] /\ sorted[k] <= sorted[n]
      BY <1>3, <2>3
    <2> QED
      BY <2>2, <2>3, <2>4
  <1>6. IsFiniteSet(D) /\ Cardinality(D) = n
    <2>1. IsSequence(samples)
      BY DEF IsSequence, Range
    <2> QED
      BY <2>1, SequencePlaces
  <1> DEFINE t == Total(samples)
  <1>7. t = SumFunctionOnSet(samples, D)
    BY DEF Total, SumFunction
  <1>8. t \in Nat
    BY <1>5, <1>6, <1>7, SumType
  <1> HIDE DEF n, sorted, D, t
  <1>9. n * sorted[1] <= t /\ t <= n * sorted[n]
    BY <1>4, <1>5, <1>6, <1>7, SumBounds
  <1>10. sorted[1] <= t \div n /\ t \div n <= sorted[n]
    BY <1>1, <1>4, <1>8, <1>9, MeanBounds
  <1>11. \A p \in Quantiles : Percentile(sorted, p) = NearestRank(samples, p)
    BY PercentileOfSamples DEF sorted
  <1> HIDE DEF summary
  <1>12. /\ \A p \in Quantiles : summary.at[p] = NearestRank(samples, p)
         /\ summary.min <= summary.mean /\ summary.mean <= summary.max
    BY <1>2, <1>10, <1>11 DEF t
  <1> QED
    BY <1>12 DEF summary

\* The summary of a kind whose duration is not read is empty.
LEMMA UntimedSummary ==
  ASSUME NEW s, NEW k, k \notin TimedKind
  PROVE  Latency(s, k).count = 0
  <1> DEFINE none == {}
             v    == Values(s, none, "duration_ms")
  <1>1. TimedKind \cap {k} = none
    OBVIOUS
  <1>2. {i \in DOMAIN s : s[i].kind \in none /\ "duration_ms" \in DOMAIN s[i].data} = {}
    OBVIOUS
  <1>3. Cardinality({}) = 0
    BY FS_EmptySet
  <1>4. Select(s, {}) = <<>>
    BY <1>3 DEF Select
  <1>5. v = [i \in DOMAIN <<>> |-> <<>>[i].data["duration_ms"]]
    BY <1>2, <1>4 DEF Values
  <1>6. Len(v) = 0
    BY <1>5
  <1>7. Latency(s, k) = LatencySummary(v)
    BY <1>1 DEF Latency
  <1> HIDE DEF v
  <1> QED
    BY <1>6, <1>7 DEF LatencySummary

\* "Percentiles use the nearest-rank method" (insights.rs:26): for completed prompts,
\* calls and turns, whatever a snapshot holds, the percentiles are the nearest ranks of
\* its samples, and the mean lies between the extremes.  The summary of the other kinds
\* that have durations is empty: duration_ms_of (insights.rs:524) does not read them.
THEOREM LatenciesAreNearestRanks == Spec => []LatencyIsNearestRank
  <1>1. ASSUME TypeInv PROVE LatencyIsNearestRank
    <2> SUFFICES ASSUME NEW s \in Snapshots, NEW k \in TimedKind,
                        Values(s, {k}, "duration_ms") # <<>>
                 PROVE  LET samples == Values(s, {k}, "duration_ms")
                            summary == Latency(s, k)
                        IN  /\ \A p \in Quantiles : summary.at[p] = NearestRank(samples, p)
                            /\ summary.min <= summary.mean /\ summary.mean <= summary.max
      BY UntimedSummary DEF LatencyIsNearestRank
    <2> DEFINE samples == Values(s, {k}, "duration_ms")
               T == {i \in DOMAIN s : s[i].kind \in {k} /\ "duration_ms" \in DOMAIN s[i].data}
    <2>1. TimedKind \cap {k} = {k}
      OBVIOUS
    <2>2. Latency(s, k) = LatencySummary(samples)
      BY <2>1 DEF Latency
    <2>3. \A i \in T : s[i].data["duration_ms"] \in Nat
      <3> SUFFICES ASSUME NEW i \in T PROVE s[i].data["duration_ms"] \in Nat
        OBVIOUS
      <3>1. PICK e \in Stream!Event : s[i] = Decoded(e)
        <4>1. i \in 1..Len(s)
          BY <1>1, SnapshotPlaces DEF IsSequence
        <4> QED
          BY <1>1, <4>1, SnapshotPlaces
      <3> DEFINE b == e.body.event
      <3>2. s[i].data = b.data /\ IsEvent(b)
        BY <3>1, DecodedType
      <3> HIDE DEF b
      <3> QED
        BY <3>2 DEF IsEvent
    <2>4. T \in SUBSET Nat /\ IsFiniteSet(T) /\ Cardinality(T) \in Nat
      BY <1>1, SnapshotPlaces, SequencePlaces
    <2>5. samples \in Seq(Nat)
      <3> DEFINE N == Cardinality(T)
                 having == Select(s, T)
      <3>1. PICK g : IsList(g, T) /\ \A q : Select(q, T) = [n \in 1..N |-> q[g[n]]]
        BY <2>4, Selection
      <3>2. having = [n \in 1..N |-> s[g[n]]] /\ \A n \in 1..N : g[n] \in T
        BY <3>1 DEF IsList
      <3>3. samples = [n \in DOMAIN having |-> having[n].data["duration_ms"]]
        BY DEF Values
      <3> HIDE DEF samples, having, T
      <3>4. samples = [n \in 1..N |-> s[g[n]].data["duration_ms"]]
        BY <3>2, <3>3
      <3>5. N \in Nat
        BY <2>4
      <3>6. \A n \in 1..N : s[g[n]].data["duration_ms"] \in Nat
        BY <2>3, <3>2
      <3> HIDE DEF N
      <3> QED
        BY <3>4, <3>5, <3>6
    <2> HIDE DEF samples
    <2>6. samples # <<>>
      BY DEF samples
    <2>7. /\ \A p \in Quantiles : LatencySummary(samples).at[p] = NearestRank(samples, p)
          /\ LatencySummary(samples).min <= LatencySummary(samples).mean
          /\ LatencySummary(samples).mean <= LatencySummary(samples).max
      BY <2>5, <2>6, SummaryOfSamples
    <2> QED
      BY <2>2, <2>7 DEF samples
  <1> QED
    BY <1>1, TypesHold, PTL

(***************************************************************************)
(* Conversations                                                           *)
(***************************************************************************)

\* h enumerates the places in S in ascending order.
Ascends(h, m, S) ==
  /\ m \in Nat
  /\ h \in [1..m -> S]
  /\ \A i \in S : \E n \in 1..m : h[n] = i
  /\ \A k, n \in 1..m : k < n => h[k] < h[n]

\* Such an enumeration is what Select goes by.
LEMMA AscendingSelection ==
  ASSUME NEW S \in SUBSET Nat, NEW m, NEW h, Ascends(h, m, S), NEW q
  PROVE  Select(q, S) = [n \in 1..m |-> q[h[n]]]
  <1>1. /\ m \in Nat /\ h \in [1..m -> S] /\ \A i \in S : \E n \in 1..m : h[n] = i
        /\ \A k, n \in 1..m : k < n => h[k] < h[n]
        /\ \A n \in 1..m : h[n] \in Nat
    BY DEF Ascends
  <1>2. \A k, n \in 1..m : (k <= n <=> h[k] <= h[n]) /\ (h[k] = h[n] => k = n)
    <2> SUFFICES ASSUME NEW k \in 1..m, NEW n \in 1..m
                 PROVE  (k <= n <=> h[k] <= h[n]) /\ (h[k] = h[n] => k = n)
      OBVIOUS
    <2>1. k < n => h[k] < h[n]
      BY <1>1
    <2>2. n < k => h[n] < h[k]
      BY <1>1
    <2>3. h[k] \in Nat /\ h[n] \in Nat
      BY <1>1
    <2> QED
      BY <2>1, <2>2, <2>3
  <1>3. ASSUME NEW n \in 0..m
        PROVE  /\ IsFiniteSet({h[k] : k \in 1..n})
               /\ Cardinality({h[k] : k \in 1..n}) = n
    <2> DEFINE I == {h[k] : k \in 1..n}
               f == [k \in 1..n |-> h[k]]
    <2>1. f \in [1..n -> I] /\ \A x \in I : \E k \in 1..n : f[k] = x
      OBVIOUS
    <2>2. \A k, l \in 1..n : f[k] = f[l] => k = l
      BY <1>1, <1>2
    <2> HIDE DEF f, I
    <2>3. f \in Bijection(1..n, I)
      BY <2>1, <2>2 DEF Bijection, Injection, IsInjective, Surjection
    <2>4. ExistsBijection(1..n, I)
      BY <2>3 DEF ExistsBijection
    <2>5. n \in Nat
      BY <1>1
    <2> QED
      BY <2>4, <2>5, FS_CountingElements, FS_NatBijection DEF I
  <1>4. IsFiniteSet(S) /\ Cardinality(S) = m
    <2>1. ASSUME NEW i PROVE i \in S <=> \E k \in 1..m : i = h[k]
      BY <1>1
    <2>2. S = {h[k] : k \in 1..m}
      BY <2>1
    <2>3. m \in 0..m
      BY <1>1
    <2> QED
      BY <1>3, <2>2, <2>3
  <1>5. ASSUME NEW n \in 1..m PROVE Cardinality(UpTo(S, h[n])) = n
    <2>1. UpTo(S, h[n]) = {h[k] : k \in 1..n}
      <3>1. ASSUME NEW i \in UpTo(S, h[n]) PROVE \E k \in 1..n : i = h[k]
        <4>1. PICK k \in 1..m : h[k] = i
          BY <1>1 DEF UpTo
        <4>2. h[k] <= h[n]
          BY <4>1 DEF UpTo
        <4>3. k <= n
          BY <1>2, <4>2
        <4> QED
          BY <4>1, <4>3
      <3>2. ASSUME NEW k \in 1..n PROVE h[k] \in UpTo(S, h[n])
        <4>1. k \in 1..m /\ k <= n
          BY <1>1
        <4>2. h[k] \in S /\ h[k] <= h[n]
          BY <1>1, <1>2, <4>1
        <4> QED
          BY <4>2 DEF UpTo
      <3> QED
        BY <3>1, <3>2
    <2>2. n \in 0..m
      BY <1>1
    <2> QED
      BY <1>3, <2>1, <2>2
  <1>6. PICK g : IsList(g, S) /\ \A p : Select(p, S) = [n \in 1..Cardinality(S) |-> p[g[n]]]
    BY <1>4, Selection
  <1>7. \A n \in 1..m : g[n] = h[n]
    <2> SUFFICES ASSUME NEW n \in 1..m PROVE g[n] = h[n]
      OBVIOUS
    <2>1. h[n] \in S
      BY <1>1
    <2>2. g[Cardinality(UpTo(S, h[n]))] = h[n]
      BY <1>6, <2>1 DEF IsList
    <2> QED
      BY <1>5, <2>2
  <1>8. Select(q, S) = [n \in 1..m |-> q[g[n]]]
    BY <1>4, <1>6
  <1> QED
    BY <1>7, <1>8

\* What an event does to the spans and the index: an invocation, ...
LEMMA Opening ==
  ASSUME NEW events, NEW last, NEW acc, IsPassState(acc, events, last), NEW e, e.kind \in InvokeKind
  PROVE  LET n == Len(acc.spans)  next == TakeUp(acc, e) IN
         /\ n \in Nat /\ DOMAIN acc.spans = 1..n
         /\ DOMAIN next.spans = 1..(n + 1) /\ Len(next.spans) = n + 1
         /\ \A i \in 1..n : next.spans[i] = acc.spans[i]
         /\ next.spans[n + 1] = [key |-> Key(e), ends |-> <<e>>]
         /\ DOMAIN next.index = DOMAIN acc.index \cup {Key(e)}
         /\ next.index[Key(e)] = n + 1
         /\ \A k \in DOMAIN acc.index : k # Key(e) => next.index[k] = acc.index[k]
  <1> DEFINE n   == Len(acc.spans)
             new == [key |-> Key(e), ends |-> <<e>>]
             spans == Append(acc.spans, new)
             index == [k \in DOMAIN acc.index \cup {Key(e)} |->
                         IF k = Key(e) THEN n + 1 ELSE acc.index[k]]
  <1>1. n \in Nat /\ DOMAIN acc.spans = 1..n /\ acc.spans \in Seq(Range(acc.spans))
    BY DEF IsPassState
  <1>2. TakeUp(acc, e) = [spans |-> spans, index |-> index]
    BY DEF TakeUp, OpenSpan
  <1> DEFINE K == Key(e)
  <1>3. TakeUp(acc, e).spans = spans /\ TakeUp(acc, e).index = index
    BY <1>2
  <1>4. DOMAIN index = DOMAIN acc.index \cup {K} /\ index[K] = n + 1
        /\ \A k \in DOMAIN acc.index : k # K => index[k] = acc.index[k]
    OBVIOUS
  <1> HIDE DEF new, index, K
  <1>5. /\ DOMAIN spans = 1..(n + 1) /\ Len(spans) = n + 1
        /\ \A i \in 1..n : spans[i] = acc.spans[i]
        /\ spans[n + 1] = new
    BY <1>1
  <1> HIDE DEF spans, n
  <1> QED
    BY <1>1, <1>3, <1>4, <1>5 DEF new, n, K

\* ... a terminal event of a span, ...
LEMMA Closing ==
  ASSUME NEW events, NEW last, NEW acc, IsPassState(acc, events, last), NEW e,
         e.kind \notin InvokeKind, e.kind \in TerminalKind, Key(e) \in DOMAIN acc.index
  PROVE  LET n == Len(acc.spans)  next == TakeUp(acc, e)  m == acc.index[Key(e)] IN
         /\ n \in Nat /\ DOMAIN acc.spans = 1..n /\ m \in 1..n
         /\ DOMAIN next.spans = 1..n /\ Len(next.spans) = n
         /\ \A i \in 1..n : i # m => next.spans[i] = acc.spans[i]
         /\ next.spans[m] = [key |-> acc.spans[m].key, ends |-> <<acc.spans[m].ends[1], e>>]
         /\ next.index = acc.index
  <1> DEFINE n     == Len(acc.spans)
             m     == acc.index[Key(e)]
             old   == acc.spans[m]
             new   == [key |-> old.key, ends |-> <<old.ends[1], e>>]
             spans == [acc.spans EXCEPT ![m] = new]
  <1>1. /\ n \in Nat /\ DOMAIN acc.spans = 1..n /\ m \in 1..n
        /\ acc = [spans |-> acc.spans, index |-> acc.index]
        /\ old = [key |-> old.key, ends |-> old.ends]
    BY DEF IsPassState
  <1>2. TakeUp(acc, e) = [acc EXCEPT !.spans[m].ends = <<@[1], e>>]
    BY DEF TakeUp, CloseSpan
  <1>3. [old EXCEPT !.ends = <<old.ends[1], e>>] = new
    BY <1>1
  <1>4. [acc EXCEPT !.spans[m].ends = <<@[1], e>>] = [spans |-> spans, index |-> acc.index]
    <2> HIDE DEF n, m
    <2>1. [acc EXCEPT !.spans[m].ends = <<@[1], e>>] =
            [acc EXCEPT !.spans = [acc.spans EXCEPT ![m] =
               [acc.spans[m] EXCEPT !.ends = <<acc.spans[m].ends[1], e>>]]]
      BY <1>1
    <2>2. [acc.spans EXCEPT ![m] = [acc.spans[m] EXCEPT !.ends = <<acc.spans[m].ends[1], e>>]] =
            spans
      BY <1>3
    <2> HIDE DEF spans, new
    <2>3. acc = [spans |-> acc.spans, index |-> acc.index]
      BY <1>1
    <2>4. [acc EXCEPT !.spans = spans] = [spans |-> spans, index |-> acc.index]
      BY <2>3
    <2> QED
      BY <2>1, <2>2, <2>4
  <1>5. TakeUp(acc, e).spans = spans /\ TakeUp(acc, e).index = acc.index
    BY <1>2, <1>4
  <1> HIDE DEF new
  <1>6. /\ DOMAIN spans = 1..n /\ spans[m] = new
        /\ \A i \in 1..n : i # m => spans[i] = acc.spans[i]
    BY <1>1
  <1>7. Len(spans) = n
    BY <1>1, <1>6
  <1> HIDE DEF spans, n, m
  <1> QED
    BY <1>1, <1>5, <1>6, <1>7 DEF new, n, m

\* ... or another one.
LEMMA Passing ==
  ASSUME NEW acc, NEW e, e.kind \notin InvokeKind,
         ~(e.kind \in TerminalKind /\ Key(e) \in DOMAIN acc.index)
  PROVE  TakeUp(acc, e) = acc
  BY DEF TakeUp, CloseSpan

\* The spans of a conversation.
Mine(spans, c) == {n \in DOMAIN spans : spans[n].ends[1].conversation = c}

\* What b knows is what a knows of a conversation.
IsShare(b, a, c) ==
  /\ DOMAIN b.index = {k \in DOMAIN a.index : k[1] = c}
  /\ \E h : /\ Ascends(h, Len(b.spans), Mine(a.spans, c))
            /\ \A n \in 1..Len(b.spans) : b.spans[n] = a.spans[h[n]]
            /\ \A k \in DOMAIN b.index : h[b.index[k]] = a.index[k]

\* Whose span a key leads to.
LEMMA OwnSpans ==
  ASSUME NEW events, NEW last, NEW acc, IsPassState(acc, events, last), NEW c
  PROVE  \A k \in DOMAIN acc.index : acc.index[k] \in Mine(acc.spans, c) <=> k[1] = c
  <1> SUFFICES ASSUME NEW k \in DOMAIN acc.index
               PROVE  acc.index[k] \in Mine(acc.spans, c) <=> k[1] = c
    OBVIOUS
  <1> DEFINE n == acc.index[k]
             first == acc.spans[n].ends[1]
  <1>1. n \in DOMAIN acc.spans /\ acc.spans[n].key = k /\ IsSpan(acc.spans[n], events, last)
    BY DEF IsPassState
  <1>2. Key(first) = k
    BY <1>1 DEF IsSpan
  <1>3. k[1] = first.conversation
    BY <1>2 DEF Key
  <1> QED
    BY <1>1, <1>3 DEF Mine

\* An event of another conversation is nothing to b.
LEMMA ShareOfOthers ==
  ASSUME NEW events, NEW last, NEW a, IsPassState(a, events, last), NEW b, NEW c,
         IsShare(b, a, c), NEW e, e.conversation # c
  PROVE  IsShare(b, TakeUp(a, e), c)
  <1> DEFINE n == Len(a.spans)
             next == TakeUp(a, e)
             K == Key(e)
  <1>1. PICK h : /\ Ascends(h, Len(b.spans), Mine(a.spans, c))
                 /\ \A i \in 1..Len(b.spans) : b.spans[i] = a.spans[h[i]]
                 /\ \A k \in DOMAIN b.index : h[b.index[k]] = a.index[k]
    BY DEF IsShare
  <1>2. K[1] # c
    BY DEF Key
  <1>3. Mine(a.spans, c) \subseteq DOMAIN a.spans
    BY DEF Mine
  <1>4. h \in [1..Len(b.spans) -> Mine(a.spans, c)]
    BY <1>1 DEF Ascends
  <1>5. SUFFICES /\ {k \in DOMAIN next.index : k[1] = c} = {k \in DOMAIN a.index : k[1] = c}
                 /\ \A k \in DOMAIN a.index : k[1] = c => next.index[k] = a.index[k]
                 /\ Mine(next.spans, c) = Mine(a.spans, c)
                 /\ \A i \in Mine(a.spans, c) : next.spans[i] = a.spans[i]
    <2> HIDE DEF next, K
    <2>1. DOMAIN b.index = {k \in DOMAIN a.index : k[1] = c}
      BY DEF IsShare
    <2>2. DOMAIN b.index = {k \in DOMAIN next.index : k[1] = c}
      BY <1>5, <2>1
    <2>3. \A k \in DOMAIN b.index : h[b.index[k]] = next.index[k]
      BY <1>1, <1>5, <2>1
    <2>4. \A i \in 1..Len(b.spans) : b.spans[i] = next.spans[h[i]]
      BY <1>1, <1>4, <1>5
    <2>5. Ascends(h, Len(b.spans), Mine(next.spans, c))
      BY <1>1, <1>5
    <2> QED
      BY <2>2, <2>3, <2>4, <2>5 DEF IsShare, next
  <1>6. CASE e.kind \in InvokeKind
    <2>1. /\ n \in Nat /\ DOMAIN a.spans = 1..n
          /\ DOMAIN next.spans = 1..(n + 1)
          /\ \A i \in 1..n : next.spans[i] = a.spans[i]
          /\ next.spans[n + 1] = [key |-> K, ends |-> <<e>>]
          /\ DOMAIN next.index = DOMAIN a.index \cup {K}
          /\ \A k \in DOMAIN a.index : k # K => next.index[k] = a.index[k]
      BY <1>6, Opening
    <2>2. next.spans[n + 1].ends[1] = e
      BY <2>1
    <2> HIDE DEF next, n, K
    <2>3. ASSUME NEW i PROVE i \in Mine(next.spans, c) <=> i \in Mine(a.spans, c)
      <3>1. CASE i = n + 1
        BY <2>1, <2>2, <3>1 DEF Mine
      <3>2. CASE i # n + 1
        <4>1. i \in 1..(n + 1) <=> i \in 1..n
          BY <2>1, <3>2
        <4> QED
          BY <2>1, <4>1 DEF Mine
      <3> QED
        BY <3>1, <3>2
    <2>4. Mine(next.spans, c) = Mine(a.spans, c)
      BY <2>3
    <2>5. \A i \in Mine(a.spans, c) : next.spans[i] = a.spans[i]
      BY <1>3, <2>1
    <2> QED
      BY <1>2, <2>1, <2>4, <2>5
  <1>7. CASE e.kind \notin InvokeKind /\ e.kind \in TerminalKind /\ K \in DOMAIN a.index
    <2> DEFINE m == a.index[K]
    <2>1. /\ n \in Nat /\ DOMAIN a.spans = 1..n /\ m \in 1..n
          /\ DOMAIN next.spans = 1..n
          /\ \A i \in 1..n : i # m => next.spans[i] = a.spans[i]
          /\ next.spans[m] = [key |-> a.spans[m].key, ends |-> <<a.spans[m].ends[1], e>>]
          /\ next.index = a.index
      BY <1>7, Closing
    <2>2. next.spans[m].ends[1] = a.spans[m].ends[1]
      BY <2>1
    <2>3. m \notin Mine(a.spans, c)
      BY <1>2, <1>7, OwnSpans
    <2> HIDE DEF next, n, K, m
    <2>4. \A i \in 1..n : next.spans[i].ends[1] = a.spans[i].ends[1]
      BY <2>1, <2>2
    <2>5. Mine(next.spans, c) = Mine(a.spans, c)
      BY <2>1, <2>4 DEF Mine
    <2>6. \A i \in Mine(a.spans, c) : next.spans[i] = a.spans[i]
      BY <1>3, <2>1, <2>3
    <2> QED
      BY <2>1, <2>5, <2>6
  <1>8. CASE e.kind \notin InvokeKind /\ ~(e.kind \in TerminalKind /\ K \in DOMAIN a.index)
    <2>1. next = a
      BY <1>8, Passing
    <2> HIDE DEF next
    <2> QED
      BY <2>1
  <1> QED
    BY <1>6, <1>7, <1>8

\* An event of the conversation is taken up alike.
LEMMA ShareOfOwn ==
  ASSUME NEW events, NEW last, NEW a, IsPassState(a, events, last),
         NEW owns, NEW lastOwn, NEW b, IsPassState(b, owns, lastOwn), NEW c,
         IsShare(b, a, c), NEW e, e.conversation = c
  PROVE  IsShare(TakeUp(b, e), TakeUp(a, e), c)
  <1> DEFINE n == Len(a.spans)
             m == Len(b.spans)
             A == TakeUp(a, e)
             B == TakeUp(b, e)
             K == Key(e)
             S == Mine(a.spans, c)
             T == Mine(A.spans, c)
  <1>1. PICK h : /\ Ascends(h, m, S)
                 /\ \A i \in 1..m : b.spans[i] = a.spans[h[i]]
                 /\ \A k \in DOMAIN b.index : h[b.index[k]] = a.index[k]
    BY DEF IsShare
  <1>2. K[1] = c
    BY DEF Key
  <1>3. DOMAIN b.index = {k \in DOMAIN a.index : k[1] = c}
    BY DEF IsShare
  <1>4. S \subseteq DOMAIN a.spans
    BY DEF Mine
  <1>5. /\ m \in Nat /\ h \in [1..m -> S]
        /\ \A i \in S : \E j \in 1..m : h[j] = i
        /\ \A k, j \in 1..m : k < j => h[k] < h[j]
    BY <1>1 DEF Ascends
  <1>6. \A k \in DOMAIN b.index : b.index[k] \in 1..m
    BY DEF IsPassState
  <1>7. CASE e.kind \in InvokeKind
    <2>1. /\ n \in Nat /\ DOMAIN a.spans = 1..n
          /\ DOMAIN A.spans = 1..(n + 1)
          /\ \A i \in 1..n : A.spans[i] = a.spans[i]
          /\ A.spans[n + 1] = [key |-> K, ends |-> <<e>>]
          /\ DOMAIN A.index = DOMAIN a.index \cup {K}
          /\ A.index[K] = n + 1
          /\ \A k \in DOMAIN a.index : k # K => A.index[k] = a.index[k]
      BY <1>7, Opening
    <2>2. /\ Len(B.spans) = m + 1
          /\ \A i \in 1..m : B.spans[i] = b.spans[i]
          /\ B.spans[m + 1] = [key |-> K, ends |-> <<e>>]
          /\ DOMAIN B.index = DOMAIN b.index \cup {K}
          /\ B.index[K] = m + 1
          /\ \A k \in DOMAIN b.index : k # K => B.index[k] = b.index[k]
      BY <1>7, Opening
    <2>3. A.spans[n + 1].ends[1].conversation = c
      BY <2>1
    <2> DEFINE g == [i \in 1..(m + 1) |-> IF i = m + 1 THEN n + 1 ELSE h[i]]
    <2> HIDE DEF n, m, A, B, K, S
    <2>4. ASSUME NEW i PROVE i \in T <=> i \in S \cup {n + 1}
      <3>1. CASE i = n + 1
        BY <2>1, <2>3, <3>1 DEF Mine
      <3>2. CASE i # n + 1
        <4>1. i \in 1..(n + 1) <=> i \in 1..n
          BY <2>1, <3>2
        <4> QED
          BY <2>1, <3>2, <4>1 DEF Mine, S
      <3> QED
        BY <3>1, <3>2
    <2>5. T = S \cup {n + 1}
      BY <2>4
    <2> HIDE DEF T
    <2>6. /\ \A i \in 1..m : g[i] = h[i] /\ i \in 1..(m + 1)
          /\ g[m + 1] = n + 1 /\ m + 1 \in 1..(m + 1)
          /\ \A i \in 1..(m + 1) : i = m + 1 \/ i \in 1..m
          /\ g = [i \in 1..(m + 1) |-> g[i]]
      BY <1>5
    <2> HIDE DEF g
    <2>7. Ascends(g, m + 1, T)
      <3>1. \A i \in 1..(m + 1) : g[i] \in T
        BY <1>5, <2>5, <2>6
      <3>2. ASSUME NEW i \in T PROVE \E j \in 1..(m + 1) : g[j] = i
        BY <1>5, <2>5, <2>6
      <3>3. ASSUME NEW k \in 1..(m + 1), NEW j \in 1..(m + 1), k < j PROVE g[k] < g[j]
        <4>1. k \in 1..m
          BY <1>5, <3>3
        <4>2. CASE j = m + 1
          <5>1. h[k] \in 1..n
            BY <1>4, <1>5, <2>1, <4>1
          <5>2. h[k] < n + 1
            BY <2>1, <5>1
          <5> QED
            BY <2>6, <4>1, <4>2, <5>2
        <4>3. CASE j \in 1..m
          BY <1>5, <2>6, <3>3, <4>1, <4>3
        <4> QED
          BY <2>6, <4>2, <4>3
      <3>4. g \in [1..(m + 1) -> T]
        BY <2>6, <3>1
      <3>5. m + 1 \in Nat
        BY <1>5
      <3> QED
        BY <3>2, <3>3, <3>4, <3>5 DEF Ascends
    <2>8. ASSUME NEW i \in 1..(m + 1) PROVE B.spans[i] = A.spans[g[i]]
      <3>1. CASE i = m + 1
        BY <2>1, <2>2, <2>6, <3>1
      <3>2. CASE i \in 1..m
        <4>1. h[i] \in 1..n
          BY <1>4, <1>5, <2>1, <3>2
        <4>2. B.spans[i] = b.spans[i] /\ b.spans[i] = a.spans[h[i]] /\ g[i] = h[i]
          BY <1>1, <2>2, <2>6, <3>2
        <4>3. A.spans[h[i]] = a.spans[h[i]]
          BY <2>1, <4>1
        <4> QED
          BY <4>2, <4>3
      <3> QED
        BY <2>6, <3>1, <3>2
    <2>9. ASSUME NEW k \in DOMAIN B.index PROVE g[B.index[k]] = A.index[k]
      <3>1. CASE k = K
        BY <2>1, <2>2, <2>6, <3>1
      <3>2. CASE k # K
        <4>1. k \in DOMAIN b.index /\ k \in DOMAIN a.index
          BY <1>3, <2>2, <3>2
        <4>2. B.index[k] = b.index[k] /\ A.index[k] = a.index[k]
          BY <2>1, <2>2, <3>2, <4>1
        <4>3. g[b.index[k]] = h[b.index[k]]
          BY <1>6, <2>6, <4>1
        <4> QED
          BY <1>1, <4>1, <4>2, <4>3
      <3> QED
        BY <3>1, <3>2
    <2>10. DOMAIN B.index = {k \in DOMAIN A.index : k[1] = c}
      BY <1>2, <1>3, <2>1, <2>2
    <2> QED
      BY <2>2, <2>7, <2>8, <2>9, <2>10 DEF IsShare, A, B, T
  <1>8. CASE e.kind \notin InvokeKind /\ e.kind \in TerminalKind /\ K \in DOMAIN a.index
    <2> DEFINE p == a.index[K]
               q == b.index[K]
    <2>1. /\ n \in Nat /\ DOMAIN a.spans = 1..n /\ p \in 1..n
          /\ DOMAIN A.spans = 1..n
          /\ \A i \in 1..n : i # p => A.spans[i] = a.spans[i]
          /\ A.spans[p] = [key |-> a.spans[p].key, ends |-> <<a.spans[p].ends[1], e>>]
          /\ A.index = a.index
      BY <1>8, Closing
    <2>2. K \in DOMAIN b.index
      BY <1>2, <1>3, <1>8
    <2>3. /\ q \in 1..m /\ Len(B.spans) = m
          /\ \A i \in 1..m : i # q => B.spans[i] = b.spans[i]
          /\ B.spans[q] = [key |-> b.spans[q].key, ends |-> <<b.spans[q].ends[1], e>>]
          /\ B.index = b.index
      BY <1>8, <2>2, Closing
    <2>4. A.spans[p].ends[1] = a.spans[p].ends[1]
      BY <2>1
    <2>5. h[q] = p
      BY <1>1, <2>2
    <2> HIDE DEF n, m, A, B, K, S, p, q
    <2>6. T = S
      <3>1. \A i \in 1..n : A.spans[i].ends[1] = a.spans[i].ends[1]
        BY <2>1, <2>4
      <3> QED
        BY <2>1, <3>1 DEF Mine, S
    <2> HIDE DEF T
    <2>7. ASSUME NEW i \in 1..m PROVE B.spans[i] = A.spans[h[i]]
      <3>1. b.spans[i] = a.spans[h[i]] /\ h[i] \in 1..n
        BY <1>1, <1>4, <1>5, <2>1
      <3>2. CASE i = q
        BY <2>1, <2>3, <2>5, <3>1, <3>2
      <3>3. CASE i # q
        <4>1. h[i] # p
          <5>1. i < q \/ q < i
            BY <1>5, <2>3, <3>3
          <5>2. h[i] < h[q] \/ h[q] < h[i]
            BY <1>5, <2>3, <5>1
          <5>3. h[i] \in Nat /\ h[q] \in Nat
            BY <2>1, <2>5, <3>1
          <5> QED
            BY <2>5, <5>2, <5>3
        <4> QED
          BY <2>1, <2>3, <3>1, <3>3, <4>1
      <3> QED
        BY <3>2, <3>3
    <2>8. Ascends(h, m, T)
      BY <1>1, <2>6
    <2> QED
      BY <1>1, <1>3, <2>1, <2>3, <2>7, <2>8 DEF IsShare, A, B, T
  <1>9. CASE e.kind \notin InvokeKind /\ ~(e.kind \in TerminalKind /\ K \in DOMAIN a.index)
    <2>1. A = a
      BY <1>9, Passing
    <2>2. ~(e.kind \in TerminalKind /\ K \in DOMAIN b.index)
      BY <1>3, <1>9
    <2>3. B = b
      BY <1>9, <2>2, Passing
    <2> QED
      BY <2>1, <2>3
  <1> QED
    BY <1>7, <1>8, <1>9

\* The events of a conversation.
OwnPlaces(events, c) == {i \in DOMAIN events : events[i].conversation = c}

\* Any sequence of events: the spans of a conversation are those of its own events.
LEMMA SpansOfConversation ==
  ASSUME NEW s, IsSequence(s), NEW c
  PROVE  /\ IsSequence(Select(s, OwnPlaces(s, c)))
         /\ Spans(Select(s, OwnPlaces(s, c))) = Select(Spans(s), Mine(Spans(s), c))
  <1> DEFINE N   == Len(s)
             T   == OwnPlaces(s, c)
             M   == Cardinality(T)
             own == Select(s, T)
             at(n) == Cardinality(UpTo(T, n))
  <1>1. N \in Nat /\ DOMAIN s = 1..N
    BY SequencePlaces
  <1>2. T \in SUBSET Nat /\ T \in SUBSET (1..N) /\ IsFiniteSet(T) /\ M \in Nat
    <2>1. T \in SUBSET DOMAIN s
      BY DEF OwnPlaces
    <2> QED
      BY <1>1, <2>1, SequencePlaces
  <1>3. \A i \in 1..N : i \in T <=> s[i].conversation = c
    BY <1>1 DEF OwnPlaces
  <1> HIDE DEF N, T
  <1>4. PICK g : IsList(g, T) /\ \A q : Select(q, T) = [n \in 1..M |-> q[g[n]]]
    BY <1>2, Selection
  <1>5. own = [n \in 1..M |-> s[g[n]]]
    BY <1>4
  <1> HIDE DEF own, M
  <1>6. IsSequence(own) /\ Len(own) = M
    <2>1. DOMAIN own = 1..M
      BY <1>5
    <2>2. own = [n \in 1..M |-> own[n]] /\ \A n \in 1..M : own[n] \in Range(own)
      BY <1>5, <2>1 DEF Range
    <2> QED
      BY <1>2, <2>1, <2>2 DEF IsSequence
  <1>6a. \A i \in T : i \in Nat /\ 1 <= i /\ i <= N
    BY <1>1, <1>2
  <1>7. at(0) = 0 /\ at(N) = M
    <2>1. UpTo(T, 0) = {}
      BY <1>6a DEF UpTo
    <2>2. UpTo(T, N) = T
      <3>1. \A i : i \in UpTo(T, N) <=> i \in T
        BY <1>6a DEF UpTo
      <3> QED
        BY <3>1
    <2> QED
      BY <2>1, <2>2, FS_EmptySet DEF M
  <1>8. \A n \in 0..N : IsFiniteSet(UpTo(T, n)) /\ at(n) \in Nat /\ at(n) <= M
    <2> SUFFICES ASSUME NEW n \in 0..N
                 PROVE  IsFiniteSet(UpTo(T, n)) /\ at(n) \in Nat /\ at(n) <= M
      OBVIOUS
    <2>1. UpTo(T, n) \in SUBSET T
      BY DEF UpTo
    <2>2. IsFiniteSet(UpTo(T, n)) /\ at(n) <= M
      BY <1>2, <2>1, FS_Subset DEF M
    <2> QED
      BY <2>2, FS_CardinalityType
  <1>9. ASSUME NEW n \in 1..N, n \notin T PROVE at(n) = at(n - 1)
    <2>1. \A i \in T : i <= n <=> i <= n - 1
      BY <1>1, <1>9, <1>6a
    <2>2. \A i : i \in UpTo(T, n) <=> i \in UpTo(T, n - 1)
      BY <2>1 DEF UpTo
    <2>3. UpTo(T, n) = UpTo(T, n - 1)
      BY <2>2
    <2> QED
      BY <2>3
  <1>10. ASSUME NEW n \in 1..N, n \in T
         PROVE  at(n) = at(n - 1) + 1 /\ at(n) \in 1..M /\ own[at(n)] = s[n]
    <2>1. UpTo(T, n) = UpTo(T, n - 1) \cup {n} /\ n \notin UpTo(T, n - 1)
      <3>1. \A i \in T : i <= n <=> i <= n - 1 \/ i = n
        BY <1>1, <1>6a
      <3>2. \A i : i \in UpTo(T, n) <=> i \in UpTo(T, n - 1) \cup {n}
        BY <1>10, <3>1 DEF UpTo
      <3>3. ~(n <= n - 1)
        BY <1>1
      <3> QED
        BY <3>2, <3>3 DEF UpTo
    <2>2. n - 1 \in 0..N
      BY <1>1
    <2>3. at(n) = at(n - 1) + 1
      BY <1>8, <2>1, <2>2, FS_AddElement
    <2>4. at(n) \in 1..M /\ g[at(n)] = n
      BY <1>4, <1>10 DEF IsList, M
    <2> HIDE DEF at
    <2>5. own[at(n)] = s[n]
      BY <1>5, <2>4
    <2> QED
      BY <2>3, <2>4, <2>5
  <1>11. PICK a : /\ a[0] = NoSpans
                  /\ \A n \in 1..N : a[n] = TakeUp(a[n - 1], s[n])
                  /\ \A n \in 0..N : IsPassState(a[n], s, n)
                  /\ Spans(s) = a[N].spans
    BY PassStates DEF N
  <1>12. PICK b : /\ b[0] = NoSpans
                  /\ \A n \in 1..M : b[n] = TakeUp(b[n - 1], own[n])
                  /\ \A n \in 0..M : IsPassState(b[n], own, n)
                  /\ Spans(own) = b[M].spans
    BY <1>6, PassStates
  <1> DEFINE P == {n \in 0..N : IsShare(b[at(n)], a[n], c)}
  <1> HIDE DEF at
  <1>13. 0 \in P
    <2>1. IsShare(NoSpans, NoSpans, c)
      <3> DEFINE h == [i \in 1..0 |-> 0]
      <3>1. Mine(NoSpans.spans, c) = {} /\ Len(NoSpans.spans) = 0
        BY DEF Mine, NoSpans
      <3>2. Ascends(h, 0, {})
        BY DEF Ascends
      <3>3. DOMAIN NoSpans.index = {}
        BY DEF NoSpans
      <3> HIDE DEF h
      <3>4. \A n \in 1..0 : NoSpans.spans[n] = NoSpans.spans[h[n]]
        OBVIOUS
      <3> QED
        BY <3>1, <3>2, <3>3, <3>4 DEF IsShare
    <2>2. 0 \in 0..N
      BY <1>1
    <2> QED
      BY <1>7, <1>11, <1>12, <2>1, <2>2
  <1>14. ASSUME NEW n \in 1..N, n - 1 \in P PROVE n \in P
    <2>1. /\ n \in 0..N /\ n - 1 \in 0..N
          /\ IsShare(b[at(n - 1)], a[n - 1], c)
          /\ a[n] = TakeUp(a[n - 1], s[n])
          /\ IsPassState(a[n - 1], s, n - 1)
      BY <1>1, <1>11, <1>14
    <2>2. CASE n \notin T
      <3>1. s[n].conversation # c
        BY <1>3, <2>2
      <3>2. IsShare(b[at(n - 1)], TakeUp(a[n - 1], s[n]), c)
        BY <2>1, <3>1, ShareOfOthers
      <3> QED
        BY <1>9, <2>1, <2>2, <3>2
    <2>3. CASE n \in T
      <3> DEFINE k == at(n)
      <3>1. s[n].conversation = c
        BY <1>3, <2>3
      <3>2. k \in 1..M /\ k - 1 = at(n - 1) /\ own[k] = s[n]
        BY <1>8, <1>10, <2>1, <2>3
      <3> HIDE DEF k
      <3>3. k - 1 \in 0..M
        BY <1>2, <3>2
      <3>4. IsPassState(b[k - 1], own, k - 1) /\ b[k] = TakeUp(b[k - 1], s[n])
        BY <1>12, <3>2, <3>3
      <3>5. IsShare(TakeUp(b[k - 1], s[n]), TakeUp(a[n - 1], s[n]), c)
        BY <2>1, <3>1, <3>2, <3>4, ShareOfOwn
      <3> QED
        BY <2>1, <3>4, <3>5 DEF k
    <2> QED
      BY <2>2, <2>3
  <1>15. IsShare(b[M], a[N], c)
    <2>1. N \in 0..N
      BY <1>1
    <2>2. N \in P
      <3> HIDE DEF P
      <3> QED
        BY <1>1, <1>13, <1>14, <2>1, Upwards
    <2> QED
      BY <1>7, <2>2
  <1>16. Spans(own) = Select(Spans(s), Mine(Spans(s), c))
    <2> DEFINE all  == Spans(s)
               mine == Spans(own)
               S    == Mine(all, c)
    <2>1. PICK h : Ascends(h, Len(mine), S) /\ \A n \in 1..Len(mine) : mine[n] = all[h[n]]
      BY <1>11, <1>12, <1>15 DEF IsShare
    <2>2. IsSequence(all) /\ IsSequence(mine)
      BY <1>6, SpansAreSpans
    <2>3. S \in SUBSET Nat
      BY <2>2 DEF Mine, IsSequence
    <2> HIDE DEF all, mine, S
    <2>4. Select(all, S) = [n \in 1..Len(mine) |-> all[h[n]]]
      BY <2>1, <2>3, AscendingSelection
    <2>5. mine = [n \in 1..Len(mine) |-> mine[n]]
      BY <2>2 DEF IsSequence
    <2>6. Select(all, S) = mine
      BY <2>1, <2>4, <2>5
    <2> QED
      BY <2>6 DEF all, mine, S
  <1> QED
    BY <1>6, <1>16 DEF own, T

\* The ends of a span are found by their ticks where no two events share one.
LEMMA SpanMillis ==
  ASSUME NEW s, IsSequence(s), \A i, j \in DOMAIN s : s[i].tick = s[j].tick => i = j,
         NEW span \in Range(Spans(s))
  PROVE  LET c == span.ends[1].conversation IN
         /\ MillisAtTick(s, c, span.ends[1].tick) = span.ends[1].at
         /\ Len(span.ends) # 1 => MillisAtTick(s, c, span.ends[2].tick) = span.ends[2].at
  <1>1. IsSpan(span, s, Len(s)) /\ DOMAIN s = 1..Len(s) /\ Len(s) \in Nat
    BY SpansAreSpans DEF IsSequence
  <1>2. PICK i \in DOMAIN s :
          /\ span.ends[1] = s[i]
          /\ \/ Len(span.ends) = 1
             \/ /\ \E j \in (i + 1)..Len(s) : span.ends[2] = s[j]
                /\ Key(span.ends[2]) = Key(span.ends[1])
    BY <1>1 DEF IsSpan
  <1>3. MillisAtTick(s, s[i].conversation, s[i].tick) = s[i].at
    BY MillisAreOwn
  <1>4. ASSUME Len(span.ends) # 1
        PROVE  MillisAtTick(s, s[i].conversation, span.ends[2].tick) = span.ends[2].at
    <2>1. PICK j \in (i + 1)..Len(s) : span.ends[2] = s[j]
      BY <1>2, <1>4
    <2>2. j \in DOMAIN s
      BY <1>1, <2>1
    <2>3. s[j].conversation = s[i].conversation
      BY <1>2, <1>4, <2>1 DEF Key
    <2>4. MillisAtTick(s, s[j].conversation, s[j].tick) = s[j].at
      BY <2>2, MillisAreOwn
    <2> QED
      BY <2>1, <2>3, <2>4
  <1> QED
    BY <1>2, <1>3, <1>4

\* What insights say of a conversation they say as well of the snapshot that a filter by
\* conversation_id leaves, whatever producers write into one stream: the spans are found
\* by conversation and call id, and the clock by ticks that no two events share.
THEOREM ConversationsStayApart == Spec => []ConversationsAreIndependent
  <1>1. ASSUME TypeInv, Stream!TicksAccountedFor PROVE ConversationsAreIndependent
    <2> SUFFICES ASSUME NEW s \in Snapshots, NEW c \in Conversations(s)
                 PROVE  LET own  == Filter(s, [conversation_id |-> c])
                            all  == Spans(s)
                            mine == Select(all, {n \in DOMAIN all :
                                                   all[n].ends[1].conversation = c})
                        IN  /\ mine = Spans(own)
                            /\ \A span \in Range(mine) :
                                 SpanDuration(s, span) = SpanDuration(own, span)
                            /\ IF c \in DOMAIN CostByConversation(s)
                                 THEN CostByConversation(s)[c] = PromptStats(own).cost
                                 ELSE PromptStats(own).cost = 0
      BY DEF ConversationsAreIndependent
    <2> DEFINE T    == OwnPlaces(s, c)
               own  == Select(s, T)
               all  == Spans(s)
               mine == Select(all, Mine(all, c))
    <2>1. IsSequence(s) /\ \A i, j \in DOMAIN s : s[i].tick = s[j].tick => i = j
      BY <1>1, SnapshotTicks
    <2>2. Filter(s, [conversation_id |-> c]) = own
      BY MatchesOne DEF Filter, OwnPlaces
    <2>3. IsSequence(own) /\ Spans(own) = mine
      BY <2>1, SpansOfConversation
    <2>4. T \in SUBSET DOMAIN s /\ T \in SUBSET Nat /\ IsFiniteSet(T) /\ Cardinality(T) \in Nat
      <3>1. T \in SUBSET DOMAIN s
        BY DEF OwnPlaces
      <3> QED
        BY <2>1, <3>1, SequencePlaces
    <2>5. \A i, j \in DOMAIN own : own[i].tick = own[j].tick => i = j
      <3> HIDE DEF T, own
      <3>1. PICK g : IsList(g, T) /\ \A q : Select(q, T) = [n \in 1..Cardinality(T) |-> q[g[n]]]
        BY <2>4, Selection
      <3>2. own = [n \in 1..Cardinality(T) |-> s[g[n]]]
        BY <3>1 DEF own
      <3> DEFINE M == Cardinality(T)
      <3>3. \A n \in 1..M : g[n] \in DOMAIN s /\ Cardinality(UpTo(T, g[n])) = n
        BY <2>4, <3>1 DEF IsList
      <3> HIDE DEF M
      <3> SUFFICES ASSUME NEW i \in 1..M, NEW j \in 1..M, own[i].tick = own[j].tick
                   PROVE  i = j
        BY <3>2 DEF M
      <3>4. g[i] = g[j]
        BY <2>1, <3>2, <3>3 DEF M
      <3> QED
        BY <3>3, <3>4
    <2> HIDE DEF own, T
    <2>6. ASSUME NEW span \in Range(mine) PROVE SpanDuration(s, span) = SpanDuration(own, span)
      <3>1. span \in Range(Spans(own))
        BY <2>3
      <3>2. span \in Range(Spans(s))
        <4> DEFINE S == Mine(all, c)
        <4>1. IsSequence(all)
          BY <2>1, SpansAreSpans
        <4>2. S \in SUBSET DOMAIN all
          BY DEF Mine
        <4>3. S \in SUBSET Nat /\ IsFiniteSet(S)
          BY <4>1, <4>2, SequencePlaces
        <4> HIDE DEF S, all
        <4>4. PICK h : /\ IsList(h, S)
                       /\ \A q : Select(q, S) = [n \in 1..Cardinality(S) |-> q[h[n]]]
          BY <4>3, Selection
        <4>5. Select(all, S) = [n \in 1..Cardinality(S) |-> all[h[n]]]
          BY <4>4
        <4>6. \A n \in 1..Cardinality(S) : h[n] \in DOMAIN all
          BY <4>2, <4>4 DEF IsList
        <4>7. span \in Range(Select(all, S))
          BY <2>6 DEF S
        <4>8. PICK n \in 1..Cardinality(S) : span = all[h[n]]
          BY <4>5, <4>7 DEF Range
        <4> QED
          BY <4>6, <4>8 DEF Range, all
      <3>3. LET d == span.ends[1].conversation IN
            /\ MillisAtTick(s, d, span.ends[1].tick) = MillisAtTick(own, d, span.ends[1].tick)
            /\ Len(span.ends) # 1 =>
                 MillisAtTick(s, d, span.ends[2].tick) = MillisAtTick(own, d, span.ends[2].tick)
        BY <2>1, <2>3, <2>5, <3>1, <3>2, SpanMillis
      <3> HIDE DEF mine
      <3> QED
        BY <3>3 DEF SpanDuration
    <2>7. IF c \in DOMAIN CostByConversation(s)
            THEN CostByConversation(s)[c] = PromptStats(own).cost
            ELSE PromptStats(own).cost = 0
      <3> DEFINE Priced(d) == Values(Select(s, OwnPlaces(s, d)), {"prompt.completed"}, "cost_usd")
      <3>1. CostByConversation(s) =
              [d \in {d \in Conversations(s) : Priced(d) # <<>>} |-> Total(Priced(d))]
        BY DEF CostByConversation, OwnPlaces
      <3>2. PromptStats(own).cost = Total(Priced(c))
        BY DEF PromptStats, own, T
      <3>3. Total(<<>>) = 0
        <4>1. SumFunctionOnSet(<<>>, {}) = 0
          BY FS_EmptySet, SumUnfolds
        <4>2. DOMAIN <<>> = {}
          OBVIOUS
        <4> QED
          BY <4>1, <4>2 DEF Total, SumFunction
      <3> HIDE DEF Priced
      <3>4. CASE Priced(c) = <<>>
        <4>1. c \notin DOMAIN CostByConversation(s)
          BY <3>1, <3>4
        <4> QED
          BY <3>2, <3>3, <3>4, <4>1
      <3>5. CASE Priced(c) # <<>>
        <4>1. c \in DOMAIN CostByConversation(s) /\ CostByConversation(s)[c] = Total(Priced(c))
          BY <3>1, <3>5
        <4> QED
          BY <3>2, <4>1
      <3> QED
        BY <3>4, <3>5
    <2> QED
      BY <2>2, <2>3, <2>6, <2>7 DEF Mine
  <1> QED
    BY <1>1, TypesHold, TicksHold, PTL

(***************************************************************************)
(* Hosted calls                                                            *)
(***************************************************************************)

\* A completion that belongs to an invocation.
Matched(d, e) ==
  /\ d.kind = "tool.hosted_invoked" /\ e.kind = "tool.hosted_completed"
  /\ Key(d) = Key(e)
  /\ ScalarField(d, "response_id") = ScalarField(e, "response_id")
  /\ ScalarField(d, "tool_name") = ScalarField(e, "tool_name")

\* Nothing of the call of e is in the log from place m to n.
Quiet(log, e, m, n) ==
  \A k \in DOMAIN log : m <= k /\ k <= n => ~(log[k].kind \in ToolKind /\ Key(log[k]) = Key(e))

\* A whole call: the completion is the next event of the call after the invocation.
Whole(log, i, j) ==
  i < j /\ Matched(log[i], log[j]) /\ Quiet(log, log[j], i + 1, j - 1)

\* A call whose completion is the next event of it that will be captured.
Awaits(log, i, queue) ==
  /\ queue # <<>>
  /\ Matched(log[i], queue[1])
  /\ Quiet(log, queue[1], i + 1, Len(log))

Silent(queue) == \A n \in DOMAIN queue : queue[n].kind \notin HostedKind

Paired(queue) ==
  \E m \in Nat : Len(queue) = 2 * m /\ \A n \in 1..m : Matched(queue[2 * n - 1], queue[2 * n])

\* What producers are about to emit continues the log: a producer has no hosted calls,
\* or whole ones, or first the completion of a call in the log; and every hosted call
\* in the log is whole or awaits such a completion.
HostedState(log, queues) ==
  /\ \A p \in Producer :
       \/ Silent(queues[p])
       \/ Paired(queues[p])
       \/ /\ \E i \in DOMAIN log : Awaits(log, i, queues[p])
          /\ Paired(Tail(queues[p]))
  /\ \A i \in DOMAIN log : log[i].kind = "tool.hosted_invoked" =>
       \/ \E j \in DOMAIN log : Whole(log, i, j)
       \/ \E p \in Producer : Awaits(log, i, queues[p])
  /\ \A j \in DOMAIN log : log[j].kind = "tool.hosted_completed" =>
       \E i \in DOMAIN log : Whole(log, i, j)

\* What has been captured, and what each producer emits next, before it is stamped.
Logged == [i \in DOMAIN buffer |-> buffer[i].body.event]

Queues ==
  [p \in Producer |->
     (IF built[p] = None THEN <<>> ELSE <<built[p].body.event>>) \o script[p]]

HostedInv == ~shared => HostedState(Logged, Queues)

\* Where an event of a payload comes from.
LEMMA HostedOrigin ==
  ASSUME NEW v, NEW response, NEW payload,
         payload.output = None \/ IsSequence(payload.output),
         NEW e \in Range(HostedEvents(v, response, payload))
  PROVE  /\ e.kind \in HostedKind /\ e.conversation = v
         /\ payload.output # None
         /\ \E i \in DOMAIN payload.output :
              IsHosted(payload.output[i]) /\ e.call = HostedCallId(payload.output[i], i)
  <1> DEFINE calls == HostedCalls(payload)
             events == HostedEvents(v, response, payload)
  <1>1. PICK C : /\ calls \in Seq(C)
                 /\ \A call \in C : payload.output # None /\ \E i \in DOMAIN payload.output :
                      /\ IsHosted(payload.output[i])
                      /\ call.call_id = HostedCallId(payload.output[i], i)
    BY HostedCallsType
  <1>2. DOMAIN events = 1..(2 * Len(calls))
    BY DEF HostedEvents
  <1>3. PICK n \in 1..(2 * Len(calls)) : e = events[n]
    BY <1>2 DEF Range
  <1> DEFINE call == calls[(n + 1) \div 2]
  <1>4. e.kind \in HostedKind /\ e.conversation = v /\ e.call = call.call_id
    BY <1>3 DEF HostedEvents, HostedKind
  <1>5. (n + 1) \div 2 \in 1..Len(calls)
    <2>1. Len(calls) \in Nat
      BY <1>1
    <2> HIDE DEF calls
    <2> QED
      BY <2>1
  <1>6. call \in C
    BY <1>1, <1>5
  <1> QED
    BY <1>1, <1>4, <1>6

\* The events of a payload are whole calls.
LEMMA HostedPaired ==
  ASSUME NEW v, NEW response, NEW payload,
         payload.output = None \/ IsSequence(payload.output)
  PROVE  Paired(HostedEvents(v, response, payload))
  <1> DEFINE calls  == HostedCalls(payload)
             events == HostedEvents(v, response, payload)
             m      == Len(calls)
             rid    == IF response # None THEN response ELSE payload.id
             rest   == IF rid = None THEN <<>> ELSE [response_id |-> rid]
             Event(kind, call, text) ==
               [kind |-> kind, conversation |-> v, call |-> call.call_id,
                data |-> Extend([tool_name |-> call.tool_name, payload |-> Scrubbed(text),
                                 whole |-> text], rest)]
  <1>1. m \in Nat
    BY HostedCallsType
  <1> HIDE DEF calls
  <1>2. events = [n \in 1..(2 * m) |->
                    LET call == calls[(n + 1) \div 2] IN
                    IF n % 2 = 1 THEN Event("tool.hosted_invoked", call, call.args_json)
                    ELSE Event("tool.hosted_completed", call, call.result_json)]
    BY DEF HostedEvents, calls
  <1> HIDE DEF m, rest
  <1>3. Len(events) = 2 * m
    BY <1>1, <1>2
  <1>4. \A call, text, more :
          Matched(Event("tool.hosted_invoked", call, text),
                  Event("tool.hosted_completed", call, more))
    <2> SUFFICES ASSUME NEW call, NEW text, NEW more
                 PROVE  Matched(Event("tool.hosted_invoked", call, text),
                                Event("tool.hosted_completed", call, more))
      OBVIOUS
    <2> DEFINE Data(t) == Extend([tool_name |-> call.tool_name, payload |-> Scrubbed(t),
                                  whole |-> t], rest)
               d == Event("tool.hosted_invoked", call, text)
               e == Event("tool.hosted_completed", call, more)
    <2>1. \A t : /\ DOMAIN Data(t) = {"tool_name", "payload", "whole"} \cup DOMAIN rest
                 /\ Data(t)["tool_name"] = call.tool_name
                 /\ \A f \in DOMAIN rest \ {"tool_name", "payload", "whole"} : Data(t)[f] = rest[f]
      BY DEF Extend
    <2> HIDE DEF Data
    <2>2. /\ d.kind = "tool.hosted_invoked" /\ e.kind = "tool.hosted_completed"
          /\ Key(d) = Key(e) /\ d.data = Data(text) /\ e.data = Data(more)
      BY DEF Key, Data
    <2>3. Surfaced(d.kind) = Surfaced(e.kind)
      BY <2>2 DEF Surfaced, HostedKind
    <2> HIDE DEF d, e, Event
    <2>4. ASSUME NEW f \in {"tool_name", "response_id"}
          PROVE  ScalarField(d, f) = ScalarField(e, f)
      <3>1. f \in DOMAIN d.data <=> f \in DOMAIN e.data
        BY <2>1, <2>2
      <3>2. f \in DOMAIN d.data => d.data[f] = e.data[f]
        BY <2>1, <2>2
      <3>3. d.kind # "compose.retry_attempt" /\ e.kind # "compose.retry_attempt" /\ f # "call_id"
        BY <2>2
      <3> QED
        BY <2>3, <3>1, <3>2, <3>3 DEF ScalarField
    <2>5. Matched(d, e)
      BY <2>2, <2>4 DEF Matched
    <2> QED
      BY <2>5 DEF d, e
  <1>5. ASSUME NEW n \in 1..m PROVE Matched(events[2 * n - 1], events[2 * n])
    <2>1. /\ 2 * n - 1 \in 1..(2 * m) /\ 2 * n \in 1..(2 * m)
          /\ (2 * n - 1) % 2 = 1 /\ (2 * n) % 2 # 1
          /\ ((2 * n - 1) + 1) \div 2 = n /\ (2 * n + 1) \div 2 = n
      BY <1>1
    <2> HIDE DEF Event
    <2>2. /\ events[2 * n - 1] = Event("tool.hosted_invoked", calls[n], calls[n].args_json)
          /\ events[2 * n] = Event("tool.hosted_completed", calls[n], calls[n].result_json)
      BY <1>2, <2>1
    <2> QED
      BY <1>4, <2>2
  <1> QED
    BY <1>1, <1>3, <1>5 DEF Paired

\* The first call of paired events, and the others.
LEMMA PairedTails ==
  ASSUME NEW U, NEW q \in Seq(U), Paired(q), q # <<>>
  PROVE  /\ Matched(q[1], Tail(q)[1]) /\ Tail(q) # <<>>
         /\ Paired(Tail(Tail(q)))
  <1>1. PICK m \in Nat :
          Len(q) = 2 * m /\ \A n \in 1..m : Matched(q[2 * n - 1], q[2 * n])
    BY DEF Paired
  <1>2. m # 0
    BY <1>1
  <1> DEFINE r == Tail(q)
             t == Tail(r)
  <1>3. r \in Seq(U) /\ Len(r) = 2 * m - 1 /\ \A n \in 1..(2 * m - 1) : r[n] = q[n + 1]
    BY <1>1
  <1> HIDE DEF r
  <1>4. r # <<>>
    BY <1>2, <1>3
  <1>5. Len(t) = 2 * (m - 1) /\ \A n \in 1..(2 * m - 2) : t[n] = r[n + 1]
    BY <1>3, <1>4
  <1> HIDE DEF t
  <1>6. \A n \in 1..(2 * m - 2) : t[n] = q[n + 2]
    <2> SUFFICES ASSUME NEW n \in 1..(2 * m - 2) PROVE t[n] = q[n + 2]
      OBVIOUS
    <2>1. n + 1 \in 1..(2 * m - 1) /\ (n + 1) + 1 = n + 2
      OBVIOUS
    <2> QED
      BY <1>3, <1>5, <2>1
  <1>7. Matched(q[1], r[1])
    <2>1. 1 \in 1..m /\ 2 * 1 - 1 = 1 /\ 2 * 1 = 2
      BY <1>2
    <2>2. Matched(q[1], q[2])
      BY <1>1, <2>1
    <2>3. 1 \in 1..(2 * m - 1) /\ 1 + 1 = 2
      BY <1>2
    <2> QED
      BY <1>3, <2>2, <2>3
  <1>8. ASSUME NEW n \in 1..(m - 1) PROVE Matched(t[2 * n - 1], t[2 * n])
    <2>1. /\ n + 1 \in 1..m /\ 2 * (n + 1) - 1 = (2 * n - 1) + 2 /\ 2 * (n + 1) = 2 * n + 2
          /\ 2 * n - 1 \in 1..(2 * m - 2) /\ 2 * n \in 1..(2 * m - 2)
      OBVIOUS
    <2>2. Matched(q[(2 * n - 1) + 2], q[2 * n + 2])
      BY <1>1, <2>1
    <2> QED
      BY <1>6, <2>1, <2>2
  <1>9. m - 1 \in Nat
    BY <1>2
  <1> QED
    BY <1>4, <1>5, <1>7, <1>8, <1>9 DEF Paired, r, t

\* A producer that has nothing to emit takes up other events.
LEMMA QueueFilled ==
  ASSUME NEW log, NEW queues, DOMAIN queues = Producer, HostedState(log, queues),
         NEW p \in Producer, queues[p] = <<>>, NEW events, Silent(events) \/ Paired(events)
  PROVE  HostedState(log, [queues EXCEPT ![p] = events])
  <1> DEFINE next == [queues EXCEPT ![p] = events]
  <1>1. next[p] = events /\ \A q \in Producer : q # p => next[q] = queues[q]
    OBVIOUS
  <1>2. \A i : ~Awaits(log, i, queues[p])
    BY DEF Awaits
  <1> HIDE DEF next
  <1>3. \A q \in Producer : \/ Silent(next[q])
                            \/ Paired(next[q])
                            \/ /\ \E i \in DOMAIN log : Awaits(log, i, next[q])
                               /\ Paired(Tail(next[q]))
    BY <1>1 DEF HostedState
  <1>4. \A i \in DOMAIN log : log[i].kind = "tool.hosted_invoked" =>
          \/ \E j \in DOMAIN log : Whole(log, i, j)
          \/ \E q \in Producer : Awaits(log, i, next[q])
    BY <1>1, <1>2 DEF HostedState
  <1>5. \A j \in DOMAIN log : log[j].kind = "tool.hosted_completed" =>
          \E i \in DOMAIN log : Whole(log, i, j)
    BY DEF HostedState
  <1> QED
    BY <1>3, <1>4, <1>5 DEF HostedState, next

\* An event that is captured, if nothing else of its call is about to be.
LEMMA QueueTaken ==
  ASSUME NEW U, NEW log \in Seq(U), NEW queues \in [Producer -> Seq(U)],
         HostedState(log, queues), NEW p \in Producer, queues[p] # <<>>,
         \A q \in Producer : q # p /\ queues[q] # <<>> => Key(queues[q][1]) # Key(queues[p][1])
  PROVE  HostedState(Append(log, queues[p][1]), [queues EXCEPT ![p] = Tail(@)])
  <1> DEFINE e    == queues[p][1]
             n    == Len(log)
             next == [queues EXCEPT ![p] = Tail(@)]
             now  == Append(log, e)
  <1>1. /\ n \in Nat /\ DOMAIN log = 1..n /\ DOMAIN now = 1..(n + 1) /\ Len(now) = n + 1
        /\ now[n + 1] = e /\ \A i \in 1..n : now[i] = log[i]
    <2>1. e \in U
      OBVIOUS
    <2> HIDE DEF e
    <2> QED
      BY <2>1
  <1>2. /\ next[p] = Tail(queues[p])
        /\ \A q \in Producer : q # p => next[q] = queues[q]
    OBVIOUS
  <1>3. queues[p] \in Seq(U)
    OBVIOUS
  <1> HIDE DEF next, now, n
  <1>4. \A i, j \in 1..n : Whole(log, i, j) => Whole(now, i, j)
    <2> SUFFICES ASSUME NEW i \in 1..n, NEW j \in 1..n, Whole(log, i, j) PROVE Whole(now, i, j)
      OBVIOUS
    <2>1. Quiet(now, now[j], i + 1, j - 1)
      <3> SUFFICES ASSUME NEW k \in 1..(n + 1), i + 1 <= k, k <= j - 1
                   PROVE  ~(now[k].kind \in ToolKind /\ Key(now[k]) = Key(now[j]))
        BY <1>1 DEF Quiet
      <3>1. k \in 1..n
        BY <1>1
      <3> QED
        BY <1>1, <3>1 DEF Whole, Quiet
    <2> QED
      BY <1>1, <2>1 DEF Whole
  <1>5. \A q \in Producer : q # p => \A i \in 1..n :
          Awaits(log, i, queues[q]) => Awaits(now, i, next[q])
    <2> SUFFICES ASSUME NEW q \in Producer, q # p, NEW i \in 1..n, Awaits(log, i, queues[q])
                 PROVE  Awaits(now, i, queues[q])
      BY <1>2
    <2>1. queues[q] # <<>> /\ Key(e) # Key(queues[q][1])
      BY DEF Awaits
    <2>2. Quiet(now, queues[q][1], i + 1, n + 1)
      <3> SUFFICES ASSUME NEW k \in 1..(n + 1), i + 1 <= k
                   PROVE  ~(now[k].kind \in ToolKind /\ Key(now[k]) = Key(queues[q][1]))
        BY <1>1 DEF Quiet
      <3>1. CASE k = n + 1
        BY <1>1, <2>1, <3>1
      <3>2. CASE k # n + 1
        <4>1. k \in 1..n /\ k <= n
          BY <1>1, <3>2
        <4> QED
          BY <1>1, <4>1 DEF Awaits, Quiet, n
      <3> QED
        BY <3>1, <3>2
    <2> QED
      BY <1>1, <2>1, <2>2 DEF Awaits
  <1>6. \A i \in 1..n : Awaits(log, i, queues[p]) => Whole(now, i, n + 1)
    <2> SUFFICES ASSUME NEW i \in 1..n, Awaits(log, i, queues[p]) PROVE Whole(now, i, n + 1)
      OBVIOUS
    <2>1. Quiet(now, e, i + 1, (n + 1) - 1)
      <3> SUFFICES ASSUME NEW k \in 1..(n + 1), i + 1 <= k, k <= (n + 1) - 1
                   PROVE  ~(now[k].kind \in ToolKind /\ Key(now[k]) = Key(e))
        BY <1>1 DEF Quiet
      <3>1. k \in 1..n /\ k <= n
        BY <1>1
      <3> QED
        BY <1>1, <3>1 DEF Awaits, Quiet, n
    <2> QED
      BY <1>1, <2>1 DEF Awaits, Whole
  <1>6a. ASSUME NEW i \in 1..n, log[i].kind = "tool.hosted_invoked", ~Awaits(log, i, queues[p])
         PROVE  \/ \E j \in DOMAIN now : Whole(now, i, j)
                \/ \E q \in Producer : Awaits(now, i, next[q])
    <2>1. CASE \E j \in DOMAIN log : Whole(log, i, j)
      <3>1. PICK j \in 1..n : Whole(log, i, j)
        BY <1>1, <2>1
      <3>2. Whole(now, i, j) /\ j \in DOMAIN now
        BY <1>1, <1>4, <3>1
      <3> QED
        BY <3>2
    <2>2. CASE \E q \in Producer : Awaits(log, i, queues[q])
      <3>1. PICK q \in Producer : Awaits(log, i, queues[q])
        BY <2>2
      <3>2. q # p
        BY <1>6a, <3>1
      <3> QED
        BY <1>5, <3>1, <3>2
    <2>3. i \in DOMAIN log
      BY <1>1
    <2> QED
      BY <1>6a, <2>1, <2>2, <2>3 DEF HostedState
  <1>7. CASE e.kind \notin HostedKind /\ Silent(queues[p])
    <2>1. Silent(next[p])
      <3>1. \A k \in DOMAIN Tail(queues[p]) :
              k + 1 \in DOMAIN queues[p] /\ Tail(queues[p])[k] = queues[p][k + 1]
        BY <1>3
      <3> QED
        BY <1>2, <1>7, <3>1 DEF Silent
    <2>2. \A i : ~Awaits(log, i, queues[p])
      BY <1>7 DEF Awaits, Matched, HostedKind
    <2>3. e.kind # "tool.hosted_invoked" /\ e.kind # "tool.hosted_completed"
      BY <1>7 DEF HostedKind
    <2>4. ASSUME NEW q \in Producer
          PROVE  \/ Silent(next[q]) \/ Paired(next[q])
                 \/ (\E i \in DOMAIN now : Awaits(now, i, next[q])) /\ Paired(Tail(next[q]))
      <3>1. CASE q = p
        BY <2>1, <3>1
      <3>2. CASE q # p
        BY <1>1, <1>2, <1>5, <3>2 DEF HostedState
      <3> QED
        BY <3>1, <3>2
    <2>5. ASSUME NEW i \in DOMAIN now, now[i].kind = "tool.hosted_invoked"
          PROVE  \/ \E j \in DOMAIN now : Whole(now, i, j)
                 \/ \E q \in Producer : Awaits(now, i, next[q])
      <3>1. i \in 1..n /\ log[i].kind = "tool.hosted_invoked"
        BY <1>1, <2>3, <2>5
      <3> QED
        BY <1>6a, <2>2, <3>1
    <2>6. ASSUME NEW j \in DOMAIN now, now[j].kind = "tool.hosted_completed"
          PROVE  \E i \in DOMAIN now : Whole(now, i, j)
      <3>1. j \in 1..n /\ log[j].kind = "tool.hosted_completed"
        BY <1>1, <2>3, <2>6
      <3> QED
        BY <1>1, <1>4, <3>1 DEF HostedState
    <2> QED
      BY <2>4, <2>5, <2>6 DEF HostedState, now, next
  <1>8. CASE Paired(queues[p])
    <2>1. Matched(e, next[p][1]) /\ next[p] # <<>> /\ Paired(Tail(next[p]))
      BY <1>2, <1>3, <1>8, PairedTails
    <2>2. e.kind = "tool.hosted_invoked" /\ \A i : ~Awaits(log, i, queues[p])
      BY <2>1 DEF Awaits, Matched
    <2>3. Awaits(now, n + 1, next[p])
      <3>1. Quiet(now, next[p][1], (n + 1) + 1, n + 1)
        BY <1>1 DEF Quiet
      <3> QED
        BY <1>1, <2>1, <3>1 DEF Awaits
    <2>4. ASSUME NEW q \in Producer
          PROVE  \/ Silent(next[q]) \/ Paired(next[q])
                 \/ (\E i \in DOMAIN now : Awaits(now, i, next[q])) /\ Paired(Tail(next[q]))
      <3>1. CASE q = p
        BY <1>1, <2>1, <2>3, <3>1
      <3>2. CASE q # p
        BY <1>1, <1>2, <1>5, <3>2 DEF HostedState
      <3> QED
        BY <3>1, <3>2
    <2>5. ASSUME NEW i \in DOMAIN now, now[i].kind = "tool.hosted_invoked"
          PROVE  \/ \E j \in DOMAIN now : Whole(now, i, j)
                 \/ \E q \in Producer : Awaits(now, i, next[q])
      <3>1. CASE i = n + 1
        BY <2>3, <3>1
      <3>2. CASE i # n + 1
        <4>1. i \in 1..n /\ log[i].kind = "tool.hosted_invoked"
          BY <1>1, <2>5, <3>2
        <4> QED
          BY <1>6a, <2>2, <4>1
      <3> QED
        BY <3>1, <3>2
    <2>6. ASSUME NEW j \in DOMAIN now, now[j].kind = "tool.hosted_completed"
          PROVE  \E i \in DOMAIN now : Whole(now, i, j)
      <3>1. j \in 1..n /\ log[j].kind = "tool.hosted_completed"
        BY <1>1, <2>2, <2>6
      <3> QED
        BY <1>1, <1>4, <3>1 DEF HostedState
    <2> QED
      BY <2>4, <2>5, <2>6 DEF HostedState, now, next
  <1>9. CASE (\E i \in DOMAIN log : Awaits(log, i, queues[p])) /\ Paired(Tail(queues[p]))
    <2>1. PICK i \in 1..n : Awaits(log, i, queues[p])
      BY <1>1, <1>9
    <2>2. e.kind = "tool.hosted_completed" /\ Whole(now, i, n + 1)
      BY <1>6, <2>1 DEF Awaits, Matched
    <2>3. n + 1 \in DOMAIN now
      BY <1>1
    <2>4. ASSUME NEW q \in Producer
          PROVE  \/ Silent(next[q]) \/ Paired(next[q])
                 \/ (\E k \in DOMAIN now : Awaits(now, k, next[q])) /\ Paired(Tail(next[q]))
      <3>1. CASE q = p
        BY <1>2, <1>9, <3>1
      <3>2. CASE q # p
        BY <1>1, <1>2, <1>5, <3>2 DEF HostedState
      <3> QED
        BY <3>1, <3>2
    <2>5. ASSUME NEW k \in DOMAIN now, now[k].kind = "tool.hosted_invoked"
          PROVE  \/ \E j \in DOMAIN now : Whole(now, k, j)
                 \/ \E q \in Producer : Awaits(now, k, next[q])
      <3>1. k \in 1..n /\ log[k].kind = "tool.hosted_invoked"
        <4>1. "tool.hosted_invoked" # "tool.hosted_completed"
          OBVIOUS
        <4>2. k # n + 1
          BY <1>1, <2>2, <2>5, <4>1
        <4>3. k \in 1..(n + 1) /\ n \in Nat
          BY <1>1
        <4>4. k \in 1..n
          BY <4>2, <4>3
        <4> QED
          BY <1>1, <2>5, <4>4
      <3>2. CASE Awaits(log, k, queues[p])
        BY <1>6, <2>3, <3>1, <3>2
      <3>3. CASE ~Awaits(log, k, queues[p])
        BY <1>6a, <3>1, <3>3
      <3> QED
        BY <3>2, <3>3
    <2>6. ASSUME NEW j \in DOMAIN now, now[j].kind = "tool.hosted_completed"
          PROVE  \E k \in DOMAIN now : Whole(now, k, j)
      <3>1. CASE j = n + 1
        BY <1>1, <2>2, <3>1
      <3>2. CASE j # n + 1
        <4>1. j \in 1..n /\ log[j].kind = "tool.hosted_completed"
          BY <1>1, <2>6, <3>2
        <4> QED
          BY <1>1, <1>4, <4>1 DEF HostedState
      <3> QED
        BY <3>1, <3>2
    <2> QED
      BY <2>4, <2>5, <2>6 DEF HostedState, now, next
  <1>10. Silent(queues[p]) => e.kind \notin HostedKind
    <2>1. 1 \in DOMAIN queues[p]
      BY <1>3
    <2> QED
      BY <2>1 DEF Silent
  <1> QED
    BY <1>7, <1>8, <1>9, <1>10 DEF HostedState

LEMMA HostedInit == Init => HostedInv
  <1> SUFFICES ASSUME Init PROVE HostedInv
    OBVIOUS
  <1>1. /\ buffer = <<>> /\ script = [p \in Producer |-> <<>>]
        /\ built = [p \in Producer |-> None]
    BY DEF Init, Stream!Init
  <1>2. DOMAIN Logged = {}
    BY <1>1 DEF Logged
  <1>3. \A p \in Producer : Queues[p] = <<>>
    BY <1>1 DEF Queues
  <1>4. Silent(<<>>)
    BY DEF Silent
  <1> QED
    BY <1>2, <1>3, <1>4 DEF HostedInv, HostedState

\* What steps do to the log and the queues.
LEMMA QueuesStep ==
  ASSUME TypeInv, NEW p \in Producer
  PROVE  /\ Logged \in Seq(Unstamped) /\ Queues \in [Producer -> Seq(Unstamped)]
         /\ \A q \in Producer : Queues[q] # <<>> => Key(Queues[q][1]) \in KeysOf(q)
         /\ Start(p) =>
              /\ Logged' = Logged /\ Queues[p] = <<>>
              /\ \E job \in Jobs : Queues' = [Queues EXCEPT ![p] = Script(job)]
         /\ Build(p) => Logged' = Logged /\ Queues' = Queues
         /\ Capture(p) =>
              /\ Queues[p] # <<>>
              /\ Logged' = Append(Logged, Queues[p][1])
              /\ Queues' = [Queues EXCEPT ![p] = Tail(@)]
         /\ EmitMetrics(p) => Logged' = Logged /\ Queues' = Queues
  <1> DEFINE First(q) == IF built[q] = None THEN <<>> ELSE <<built[q].body.event>>
  <1>1. /\ script \in [Producer -> Seq(Unstamped)]
        /\ built \in [Producer -> Stream!Event \cup {None}]
        /\ buffer \in Seq(Stream!Event)
        /\ \A e \in Stream!Event : e.body.event \in Unstamped
    <2>1. \A e \in Stream!Event : e.body.event \in Unstamped
      BY DecodedType
    <2> QED
      BY <2>1 DEF TypeInv, ProducerTypes, Stream!TypeOK
  <1>2. Queues = [q \in Producer |-> First(q) \o script[q]]
    BY DEF Queues
  <1>3. /\ \A q \in Producer : First(q) \in Seq(Unstamped)
        /\ Queues \in [Producer -> Seq(Unstamped)]
    <2>1. ASSUME NEW q \in Producer PROVE First(q) \in Seq(Unstamped)
      BY <1>1
    <2> HIDE DEF First
    <2>2. ASSUME NEW q \in Producer PROVE First(q) \o script[q] \in Seq(Unstamped)
      BY <1>1, <2>1
    <2> QED
      BY <1>2, <2>1, <2>2
  <1>4. Logged \in Seq(Unstamped) /\ Len(Logged) = Len(buffer)
    <2>1. Len(buffer) \in Nat /\ DOMAIN buffer = 1..Len(buffer)
      BY <1>1
    <2>2. \A i \in 1..Len(buffer) : buffer[i].body.event \in Unstamped
      BY <1>1, <2>1
    <2>3. Logged = [i \in 1..Len(buffer) |-> buffer[i].body.event]
      BY <2>1 DEF Logged
    <2> QED
      BY <2>1, <2>2, <2>3
  <1>5. ASSUME NEW q \in Producer, Queues[q] # <<>> PROVE Key(Queues[q][1]) \in KeysOf(q)
    <2>1. CASE built[q] = None
      <3>1. Queues[q] = script[q] /\ script[q] \in Seq(Unstamped)
        BY <1>1, <1>2, <2>1
      <3>2. 1 \in DOMAIN script[q]
        BY <1>5, <3>1
      <3>3. Key(script[q][1]) \in Keys(script[q])
        BY <3>2 DEF Keys, Key
      <3> QED
        BY <3>1, <3>3 DEF KeysOf
    <2>2. CASE built[q] # None
      <3> DEFINE e == built[q].body.event
      <3>1. Queues[q] = <<e>> \o script[q]
        BY <1>2, <2>2
      <3>2. e \in Unstamped /\ script[q] \in Seq(Unstamped)
        BY <1>1, <2>2
      <3> HIDE DEF e
      <3>3. Queues[q][1] = e
        BY <3>1, <3>2
      <3>4. Key(e) \in Keys(<<e>>)
        BY DEF Keys, Key
      <3> QED
        BY <2>2, <3>3, <3>4 DEF KeysOf, e
    <2> QED
      BY <2>1, <2>2
  <1>6. ASSUME Start(p)
        PROVE  /\ Logged' = Logged /\ Queues[p] = <<>>
               /\ \E job \in Jobs : Queues' = [Queues EXCEPT ![p] = Script(job)]
    <2>1. PICK job \in todo : script' = [script EXCEPT ![p] = Script(job)]
      BY <1>6 DEF Start
    <2>2. /\ UNCHANGED <<built, buffer>> /\ script[p] = <<>> /\ built[p] = None
          /\ job \in Jobs
      BY <1>6 DEF Start, Idle, streamVars, TypeInv, ProducerTypes
    <2>3. Script(job) \in Seq(Unstamped)
      BY <2>2, ScriptType
    <2>4. ASSUME NEW q \in Producer
          PROVE  Queues'[q] = [Queues EXCEPT ![p] = Script(job)][q]
      <3>1. CASE q = p
        BY <1>1, <1>2, <2>1, <2>2, <2>3, <3>1 DEF Queues
      <3>2. CASE q # p
        BY <1>1, <1>2, <2>1, <2>2, <3>2 DEF Queues
      <3> QED
        BY <3>1, <3>2
    <2>5. Queues' = [Queues EXCEPT ![p] = Script(job)]
      <3>1. Queues' = [q \in Producer |-> Queues'[q]]
        BY DEF Queues
      <3>2. DOMAIN Queues = Producer
        BY <1>2
      <3> QED
        BY <2>4, <3>1, <3>2
    <2>6. Queues[p] = <<>>
      BY <1>2, <2>2
    <2> QED
      BY <2>2, <2>5, <2>6 DEF Logged
  <1>7. ASSUME Build(p) PROVE Logged' = Logged /\ Queues' = Queues
    <2> DEFINE head == Head(script[p])
               new  == [body |-> [event |-> head, at |-> wall[tick]], by |-> p,
                        tick |-> tick, seen |-> Len(Stream!wire)]
    <2>1. /\ script[p] # <<>> /\ script' = [script EXCEPT ![p] = Tail(@)]
          /\ built[p] = None /\ built' = [built EXCEPT ![p] = new]
          /\ UNCHANGED buffer
      BY <1>7 DEF Build, Stream!Build
    <2>2. /\ built'[p] = new /\ script'[p] = Tail(script[p])
          /\ \A q \in Producer : q # p => built'[q] = built[q] /\ script'[q] = script[q]
      BY <1>1, <2>1
    <2>3. built'[p] # None
      <3>1. Stream!BuildSome(p)
        BY <1>7, BuildIsStream DEF TypeInv
      <3> QED
        BY <3>1 DEF Stream!BuildSome
    <2>4. new.body.event = head
      OBVIOUS
    <2> HIDE DEF new
    <2>5. <<head>> \o Tail(script[p]) = <<>> \o script[p]
      BY <1>1, <2>1
    <2>6. ASSUME NEW q \in Producer PROVE Queues'[q] = Queues[q]
      <3>1. CASE q = p
        <4>1. Queues'[p] = <<head>> \o Tail(script[p])
          BY <2>2, <2>3, <2>4 DEF Queues
        <4>2. Queues[p] = <<>> \o script[p]
          BY <1>2, <2>1
        <4> QED
          BY <2>5, <3>1, <4>1, <4>2
      <3>2. CASE q # p
        BY <2>2, <3>2 DEF Queues
      <3> QED
        BY <3>1, <3>2
    <2>7. Queues' = Queues
      <3>1. Queues' = [q \in Producer |-> Queues'[q]] /\ Queues = [q \in Producer |-> Queues[q]]
        BY DEF Queues
      <3> QED
        BY <2>6, <3>1
    <2> QED
      BY <2>1, <2>7 DEF Logged
  <1>8. ASSUME Capture(p)
        PROVE  /\ Queues[p] # <<>>
               /\ Logged' = Append(Logged, Queues[p][1])
               /\ Queues' = [Queues EXCEPT ![p] = Tail(@)]
    <2> DEFINE e == built[p]
               b == e.body.event
    <2>1. /\ e # None /\ built' = [built EXCEPT ![p] = None] /\ script' = script
          /\ buffer' = Append(buffer, e)
      BY <1>8 DEF Capture, Stream!Capture
    <2>2. /\ built'[p] = None /\ \A q \in Producer : q # p => built'[q] = built[q]
          /\ e \in Stream!Event /\ b \in Unstamped
      BY <1>1, <2>1
    <2>3. Queues[p] = <<b>> \o script[p]
      BY <1>2, <2>1
    <2> HIDE DEF e, b
    <2>4. Queues[p] # <<>> /\ Queues[p][1] = b /\ Tail(Queues[p]) = script[p]
      BY <1>1, <2>2, <2>3
    <2>5. ASSUME NEW q \in Producer PROVE Queues'[q] = [Queues EXCEPT ![p] = Tail(@)][q]
      <3>1. CASE q = p
        <4>1. Queues'[p] = <<>> \o script[p]
          BY <2>1, <2>2 DEF Queues
        <4> QED
          BY <1>1, <1>3, <2>4, <3>1, <4>1
      <3>2. CASE q # p
        <4>1. Queues'[q] = Queues[q]
          <5>1. built'[q] = built[q] /\ script'[q] = script[q]
            BY <2>1, <2>2, <3>2
          <5> QED
            BY <5>1 DEF Queues
        <4>2. [Queues EXCEPT ![p] = Tail(@)][q] = Queues[q]
          BY <1>2, <3>2
        <4> QED
          BY <4>1, <4>2
      <3> QED
        BY <3>1, <3>2
    <2>6. Queues' = [Queues EXCEPT ![p] = Tail(@)]
      <3>1. Queues' = [q \in Producer |-> Queues'[q]]
        BY DEF Queues
      <3>2. DOMAIN Queues = Producer
        BY <1>2
      <3> QED
        BY <2>5, <3>1, <3>2
    <2>7. Logged' = Append(Logged, b)
      <3> DEFINE n == Len(buffer)
      <3>1. /\ n \in Nat /\ DOMAIN buffer = 1..n /\ DOMAIN buffer' = 1..(n + 1)
            /\ buffer'[n + 1] = e /\ \A i \in 1..n : buffer'[i] = buffer[i]
        BY <1>1, <2>1, <2>2
      <3>2. Logged' = [i \in 1..(n + 1) |-> buffer'[i].body.event]
        BY <3>1 DEF Logged
      <3>3. \A i \in 1..n : Logged[i] = buffer[i].body.event
        BY <3>1 DEF Logged
      <3> HIDE DEF n
      <3>4. ASSUME NEW i \in 1..(n + 1) PROVE Logged'[i] = Append(Logged, b)[i]
        <4>1. Len(Logged) = n
          BY <1>4 DEF n
        <4>2. CASE i = n + 1
          BY <1>4, <2>2, <3>1, <3>2, <4>1, <4>2 DEF b
        <4>3. CASE i # n + 1
          <5>1. i \in 1..n
            BY <3>1, <4>3
          <5>2. Append(Logged, b)[i] = Logged[i]
            BY <1>4, <2>2, <4>1, <5>1
          <5> QED
            BY <3>1, <3>2, <3>3, <5>1, <5>2
        <4> QED
          BY <4>2, <4>3
      <3>5. Append(Logged, b) = [i \in 1..(n + 1) |-> Append(Logged, b)[i]]
        <4> DEFINE all == Append(Logged, b)
        <4>1. all \in Seq(Unstamped) /\ Len(all) = n + 1
          BY <1>4, <2>2 DEF n
        <4> HIDE DEF all
        <4>2. all = [i \in 1..(n + 1) |-> all[i]]
          BY <4>1
        <4> QED
          BY <4>2 DEF all
      <3>6. Logged' = [i \in 1..(n + 1) |-> Logged'[i]]
        BY <3>2
      <3> QED
        BY <3>4, <3>5, <3>6
    <2> QED
      BY <2>4, <2>6, <2>7
  <1>9. ASSUME EmitMetrics(p) PROVE Logged' = Logged /\ Queues' = Queues
    BY <1>9 DEF EmitMetrics, streamVars, Logged, Queues
  <1> QED
    BY <1>3, <1>4, <1>5, <1>6, <1>7, <1>8, <1>9

\* Where an event of an agent comes from.
LEMMA AgentOrigin ==
  ASSUME NEW job, AgentJob(job), NEW i \in DOMAIN AgentEvents(job)
  PROVE  /\ i \in DOMAIN job.events /\ job.events[i] \in Range(job.events)
         /\ job.events[i].kind \notin HostedKind
         /\ AgentEvents(job)[i].kind = job.events[i].kind
         /\ AgentEvents(job)[i].conversation = job.events[i].conversation
         /\ AgentEvents(job)[i].call = job.events[i].call
  <1> DEFINE e == job.events[i]
             data == Extend([payload |-> Scrubbed(e.data.whole)], e.data)
  <1>1. i \in DOMAIN job.events /\ e \in Range(job.events)
    BY DEF AgentEvents, Range
  <1>2. AgentEvents(job)[i] = IF "whole" \in DOMAIN e.data THEN [e EXCEPT !.data = data] ELSE e
    BY <1>1 DEF AgentEvents
  <1>3. /\ e = [kind |-> e.kind, conversation |-> e.conversation, call |-> e.call,
                data |-> e.data]
        /\ e.kind \notin HostedKind
    BY <1>1 DEF AgentJob
  <1> HIDE DEF data, e
  <1>4. LET next == [e EXCEPT !.data = data] IN
        next.kind = e.kind /\ next.conversation = e.conversation /\ next.call = e.call
    BY <1>3
  <1> QED
    BY <1>1, <1>2, <1>3, <1>4 DEF e

\* A script has no hosted calls, or whole ones.
LEMMA ScriptHosted ==
  ASSUME NEW job \in Jobs
  PROVE  Silent(Script(job)) \/ Paired(Script(job))
  <1>1. CASE "payload" \in DOMAIN job
    <2>1. PayloadJob(job)
      BY <1>1, JobsAssumption
    <2> QED
      BY <1>1, <2>1, HostedPaired DEF PayloadJob, Script
  <1>2. CASE "payload" \notin DOMAIN job
    <2>1. AgentJob(job)
      BY <1>2, JobsAssumption
    <2>2. \A i \in DOMAIN AgentEvents(job) : AgentEvents(job)[i].kind \notin HostedKind
      BY <2>1, AgentOrigin
    <2> QED
      BY <1>2, <2>2 DEF Silent, Script
  <1> QED
    BY <1>1, <1>2

LEMMA HostedStep ==
  ASSUME TypeInv, CallsInv, HostedInv, [Next]_vars
  PROVE  HostedInv'
  <1> SUFFICES ASSUME ~shared' PROVE HostedState(Logged', Queues')
    BY DEF HostedInv, HostedState, Awaits, Whole, Quiet
  <1>1. ~shared
    BY DEF Next, Start, Build, Capture, EmitMetrics, vars
  <1>2. HostedState(Logged, Queues) /\ KeysApart
    BY <1>1 DEF HostedInv, CallsInv
  <1>3. CASE UNCHANGED vars
    <2>1. Logged' = Logged /\ Queues' = Queues
      BY <1>3 DEF vars, streamVars, Logged, Queues
    <2> QED
      BY <1>2, <2>1
  <1>4. ASSUME NEW p \in Producer, Build(p) \/ EmitMetrics(p)
        PROVE  HostedState(Logged', Queues')
    <2>1. Logged' = Logged /\ Queues' = Queues
      BY <1>4, QueuesStep
    <2> QED
      BY <1>2, <2>1
  <1>5. ASSUME NEW p \in Producer, Start(p) PROVE HostedState(Logged', Queues')
    <2>1. /\ Logged' = Logged /\ Queues[p] = <<>> /\ DOMAIN Queues = Producer
          /\ \E job \in Jobs : Queues' = [Queues EXCEPT ![p] = Script(job)]
      BY <1>5, QueuesStep DEF Queues
    <2>2. PICK job \in Jobs : Queues' = [Queues EXCEPT ![p] = Script(job)]
      BY <2>1
    <2>3. Silent(Script(job)) \/ Paired(Script(job))
      BY ScriptHosted
    <2>4. HostedState(Logged, [Queues EXCEPT ![p] = Script(job)])
      BY <1>2, <2>1, <2>3, QueueFilled
    <2> QED
      BY <2>1, <2>2, <2>4
  <1>6. ASSUME NEW p \in Producer, Capture(p) PROVE HostedState(Logged', Queues')
    <2>1. /\ Logged \in Seq(Unstamped) /\ Queues \in [Producer -> Seq(Unstamped)]
          /\ \A q \in Producer : Queues[q] # <<>> => Key(Queues[q][1]) \in KeysOf(q)
          /\ Queues[p] # <<>>
          /\ Logged' = Append(Logged, Queues[p][1])
          /\ Queues' = [Queues EXCEPT ![p] = Tail(@)]
      BY <1>6, QueuesStep
    <2>2. \A q \in Producer :
            q # p /\ Queues[q] # <<>> => Key(Queues[q][1]) # Key(Queues[p][1])
      BY <1>2, <2>1 DEF KeysApart
    <2>3. HostedState(Append(Logged, Queues[p][1]), [Queues EXCEPT ![p] = Tail(@)])
      BY <1>2, <2>1, <2>2, QueueTaken
    <2> QED
      BY <2>1, <2>3
  <1> QED
    BY <1>3, <1>4, <1>5, <1>6 DEF Next

LEMMA HostedHold == Spec => []HostedInv
  BY HostedInit, HostedStep, TypesHold, CallsHold, PTL DEF Spec

\* A log whose hosted calls are whole, and apart from the calls of agents.
IsTidy(s) ==
  /\ \A i \in DOMAIN s : s[i].kind = "tool.hosted_invoked" => \E j \in DOMAIN s : Whole(s, i, j)
  /\ \A j \in DOMAIN s : s[j].kind = "tool.hosted_completed" =>
       \E i \in DOMAIN s : Whole(s, i, j)
  /\ \A i, j \in DOMAIN s :
       s[i].kind \in HostedKind /\ s[j].kind \in ToolKind /\ Key(s[i]) = Key(s[j])
         => s[j].kind \in HostedKind

\* The span at m is opened at i: it awaits the next event of its call, if it is a hosted
\* one, or is closed by what belongs to it; and the index leads to the last one of a call.
IsOpenedAt(acc, s, n, m, i) ==
  LET span == acc.spans[m]  k == Key(s[i]) IN
  /\ s[i].kind \in InvokeKind
  /\ span.ends[1] = s[i] /\ span.key = k
  /\ s[i].kind \in HostedKind =>
       \/ /\ Quiet(s, s[i], i + 1, n)
          /\ k \in DOMAIN acc.index /\ acc.index[k] = m
       \/ \E j \in DOMAIN s : span.ends = <<s[i], s[j]>> /\ Matched(s[i], s[j])
  /\ k \in DOMAIN acc.index /\ acc.index[k] = m =>
       \A l \in DOMAIN s : i < l /\ l <= n => ~(s[l].kind \in InvokeKind /\ Key(s[l]) = k)

SpansAreTidy(acc, s, n) ==
  \A m \in DOMAIN acc.spans : \E i \in DOMAIN s : i <= n /\ IsOpenedAt(acc, s, n, m, i)

LEMMA KindsOfTools ==
  /\ InvokeKind \subseteq ToolKind /\ TerminalKind \subseteq ToolKind
  /\ ToolKind \subseteq InvokeKind \cup TerminalKind
  /\ InvokeKind \cap TerminalKind = {}
  /\ HostedKind \cap InvokeKind = {"tool.hosted_invoked"}
  /\ HostedKind \cap TerminalKind = {"tool.hosted_completed"}
  BY DEF InvokeKind, TerminalKind, CompletedKind, ToolKind, HostedKind

\* The event of the call after an invocation that is hosted completes it.
LEMMA NextOfCall ==
  ASSUME NEW s, IsSequence(s), IsTidy(s), NEW i \in DOMAIN s, NEW n \in DOMAIN s, i < n,
         s[i].kind \in HostedKind, s[i].kind \in InvokeKind, Quiet(s, s[i], i + 1, n - 1),
         s[n].kind \in ToolKind, Key(s[n]) = Key(s[i])
  PROVE  Matched(s[i], s[n])
  <1>1. DOMAIN s = 1..Len(s) /\ Len(s) \in Nat
    BY DEF IsSequence
  <1>2. PICK j \in DOMAIN s : Whole(s, i, j)
    BY KindsOfTools DEF IsTidy
  <1>3. /\ i < j /\ Matched(s[i], s[j]) /\ Quiet(s, s[j], i + 1, j - 1)
        /\ Key(s[i]) = Key(s[j]) /\ s[j].kind \in ToolKind
    BY <1>2 DEF Whole, Matched, ToolKind, HostedKind
  <1>4. ~(j < n)
    <2> SUFFICES ASSUME j < n PROVE FALSE
      OBVIOUS
    <2>1. i + 1 <= j /\ j <= n - 1
      BY <1>1, <1>3
    <2> QED
      BY <1>3, <2>1 DEF Quiet
  <1>5. ~(n < j)
    <2> SUFFICES ASSUME n < j PROVE FALSE
      OBVIOUS
    <2>1. i + 1 <= n /\ n <= j - 1
      BY <1>1
    <2> QED
      BY <1>3, <2>1 DEF Quiet
  <1>6. j = n
    BY <1>1, <1>4, <1>5
  <1> QED
    BY <1>3, <1>6

\* A completion belongs to the invocation of the call that comes last before it.
LEMMA LastOfCall ==
  ASSUME NEW s, IsSequence(s), IsTidy(s), NEW i \in DOMAIN s, NEW n \in DOMAIN s, i < n,
         s[i].kind \in HostedKind, s[i].kind \in InvokeKind,
         \A l \in DOMAIN s : i < l /\ l <= n - 1 =>
                               ~(s[l].kind \in InvokeKind /\ Key(s[l]) = Key(s[i])),
         s[n].kind \in TerminalKind, Key(s[n]) = Key(s[i])
  PROVE  Matched(s[i], s[n])
  <1>1. DOMAIN s = 1..Len(s) /\ Len(s) \in Nat
    BY DEF IsSequence
  <1>2. s[n].kind = "tool.hosted_completed"
    <2>1. s[n].kind \in ToolKind
      BY KindsOfTools
    <2>2. s[n].kind \in HostedKind
      BY <2>1 DEF IsTidy
    <2> QED
      BY <2>2, KindsOfTools
  <1>3. PICK h \in DOMAIN s : Whole(s, h, n)
    BY <1>2 DEF IsTidy
  <1>4. /\ h < n /\ Matched(s[h], s[n]) /\ Quiet(s, s[n], h + 1, n - 1)
        /\ Key(s[h]) = Key(s[n]) /\ s[h].kind \in InvokeKind
    BY <1>3 DEF Whole, Matched, InvokeKind
  <1>5. ~(i < h)
    <2> SUFFICES ASSUME i < h PROVE FALSE
      OBVIOUS
    <2>1. h <= n - 1
      BY <1>1, <1>4
    <2> QED
      BY <1>4, <2>1
  <1>6. ~(h < i)
    <2> SUFFICES ASSUME h < i PROVE FALSE
      OBVIOUS
    <2>1. h + 1 <= i /\ i <= n - 1 /\ s[i].kind \in ToolKind
      BY <1>1, KindsOfTools
    <2> QED
      BY <1>4, <2>1 DEF Quiet
  <1>7. h = i
    BY <1>1, <1>5, <1>6
  <1> QED
    BY <1>4, <1>7

LEMMA TidyStep ==
  ASSUME NEW s, IsSequence(s), IsTidy(s), NEW n \in DOMAIN s,
         NEW acc, IsPassState(acc, s, n - 1), SpansAreTidy(acc, s, n - 1)
  PROVE  SpansAreTidy(TakeUp(acc, s[n]), s, n)
  <1> DEFINE e    == s[n]
             k    == Key(e)
             next == TakeUp(acc, e)
  <1>1. DOMAIN s = 1..Len(s) /\ Len(s) \in Nat
    BY DEF IsSequence
  <1>2. /\ \A l \in DOMAIN acc.index : acc.index[l] \in DOMAIN acc.spans
                                     /\ acc.spans[acc.index[l]].key = l
    BY DEF IsPassState
  <1> HIDE DEF next
  \* A hosted span that awaits its end gets it from e, if e is of its call.
  <1>3. ASSUME NEW m \in DOMAIN acc.spans, NEW i \in DOMAIN s, i <= n - 1,
               IsOpenedAt(acc, s, n - 1, m, i), s[i].kind \in HostedKind,
               Quiet(s, s[i], i + 1, n - 1), ~Quiet(s, s[i], i + 1, n)
        PROVE  e.kind \in TerminalKind /\ k = Key(s[i]) /\ Matched(s[i], e)
    <2>1. e.kind \in ToolKind /\ k = Key(s[i])
      <3>1. PICK l \in DOMAIN s : i + 1 <= l /\ l <= n /\ s[l].kind \in ToolKind
                                  /\ Key(s[l]) = Key(s[i])
        BY <1>3 DEF Quiet
      <3>2. ~(l <= n - 1)
        BY <1>3, <3>1 DEF Quiet
      <3>3. l = n
        BY <1>1, <3>1, <3>2
      <3> QED
        BY <3>1, <3>3
    <2>2. Matched(s[i], e)
      <3>1. i < n /\ s[i].kind \in InvokeKind
        BY <1>1, <1>3 DEF IsOpenedAt
      <3> QED
        BY <1>3, <2>1, <3>1, NextOfCall
    <2>3. e.kind \in TerminalKind
      BY <2>2 DEF Matched, TerminalKind, CompletedKind
    <2> QED
      BY <2>1, <2>2, <2>3
  \* A span that is left as it is, and the index as well.
  <1>4. ASSUME NEW m \in DOMAIN acc.spans, next.spans[m] = acc.spans[m],
               NEW i \in DOMAIN s, i <= n - 1, IsOpenedAt(acc, s, n - 1, m, i),
               (/\ s[i].kind \in HostedKind /\ Quiet(s, s[i], i + 1, n - 1)
                /\ Key(s[i]) \in DOMAIN acc.index /\ acc.index[Key(s[i])] = m)
                 => Quiet(s, s[i], i + 1, n),
               \A l \in DOMAIN acc.index : l # k => l \in DOMAIN next.index
                                                    /\ next.index[l] = acc.index[l],
               \A l \in DOMAIN next.index : l # k => l \in DOMAIN acc.index,
               \/ next.index = acc.index /\ e.kind \notin InvokeKind
               \/ e.kind \in InvokeKind /\ (k \in DOMAIN next.index => next.index[k] # m)
        PROVE  IsOpenedAt(next, s, n, m, i)
    <2> DEFINE K == Key(s[i])
    <2>1. /\ s[i].kind \in InvokeKind
          /\ acc.spans[m].ends[1] = s[i] /\ acc.spans[m].key = K
          /\ s[i].kind \in HostedKind =>
               \/ /\ Quiet(s, s[i], i + 1, n - 1)
                  /\ K \in DOMAIN acc.index /\ acc.index[K] = m
               \/ \E j \in DOMAIN s : acc.spans[m].ends = <<s[i], s[j]>> /\ Matched(s[i], s[j])
          /\ K \in DOMAIN acc.index /\ acc.index[K] = m =>
               \A l \in DOMAIN s : i < l /\ l <= n - 1 =>
                                     ~(s[l].kind \in InvokeKind /\ Key(s[l]) = K)
      BY <1>4 DEF IsOpenedAt
    <2>2. Quiet(s, s[i], i + 1, n) => ~(e.kind \in InvokeKind /\ k = K)
      <3> SUFFICES ASSUME Quiet(s, s[i], i + 1, n), e.kind \in InvokeKind, k = K PROVE FALSE
        OBVIOUS
      <3>1. i + 1 <= n /\ n <= n /\ e.kind \in ToolKind
        BY <1>1, <1>4, KindsOfTools
      <3> QED
        BY <3>1 DEF Quiet
    <2> HIDE DEF K, k, e
    <2>3. s[i].kind \in HostedKind =>
            \/ /\ Quiet(s, s[i], i + 1, n)
               /\ K \in DOMAIN next.index /\ next.index[K] = m
            \/ \E j \in DOMAIN s : next.spans[m].ends = <<s[i], s[j]>> /\ Matched(s[i], s[j])
      <3> SUFFICES ASSUME s[i].kind \in HostedKind, Quiet(s, s[i], i + 1, n - 1),
                          K \in DOMAIN acc.index, acc.index[K] = m
                   PROVE  /\ Quiet(s, s[i], i + 1, n)
                          /\ K \in DOMAIN next.index /\ next.index[K] = m
        BY <1>4, <2>1
      <3>1. Quiet(s, s[i], i + 1, n)
        BY <1>4 DEF K
      <3> QED
        BY <1>4, <2>2, <3>1
    <2>4. ASSUME K \in DOMAIN next.index, next.index[K] = m
          PROVE  \A l \in DOMAIN s : i < l /\ l <= n =>
                                       ~(s[l].kind \in InvokeKind /\ Key(s[l]) = K)
      <3>1. K \in DOMAIN acc.index /\ acc.index[K] = m /\ ~(e.kind \in InvokeKind /\ k = K)
        BY <1>4, <2>4
      <3> SUFFICES ASSUME NEW l \in DOMAIN s, i < l, l <= n
                   PROVE  ~(s[l].kind \in InvokeKind /\ Key(s[l]) = K)
        OBVIOUS
      <3>2. l = n \/ l <= n - 1
        BY <1>1
      <3> QED
        BY <2>1, <3>1, <3>2 DEF e, k
    <2> QED
      BY <1>4, <2>1, <2>3, <2>4 DEF IsOpenedAt, K
  <1>5. CASE e.kind \in InvokeKind
    <2> DEFINE c == Len(acc.spans)
    <2>1. /\ c \in Nat /\ DOMAIN acc.spans = 1..c
          /\ DOMAIN next.spans = 1..(c + 1)
          /\ \A i \in 1..c : next.spans[i] = acc.spans[i]
          /\ next.spans[c + 1] = [key |-> k, ends |-> <<e>>]
          /\ DOMAIN next.index = DOMAIN acc.index \cup {k}
          /\ next.index[k] = c + 1
          /\ \A l \in DOMAIN acc.index : l # k => next.index[l] = acc.index[l]
      BY <1>5, Opening DEF next
    <2> HIDE DEF c
    <2>2. ASSUME NEW m \in 1..c PROVE \E i \in DOMAIN s : i <= n /\ IsOpenedAt(next, s, n, m, i)
      <3>1. PICK i \in DOMAIN s : i <= n - 1 /\ IsOpenedAt(acc, s, n - 1, m, i)
        BY <2>1 DEF SpansAreTidy
      <3>2. s[i].kind \in HostedKind /\ Quiet(s, s[i], i + 1, n - 1) => Quiet(s, s[i], i + 1, n)
        BY <1>3, <1>5, <2>1, <3>1, KindsOfTools
      <3>3. m # c + 1
        BY <2>1
      <3>4. /\ next.spans[m] = acc.spans[m] /\ m \in DOMAIN acc.spans
            /\ \A l \in DOMAIN acc.index : l # k => l \in DOMAIN next.index
                                                    /\ next.index[l] = acc.index[l]
            /\ \A l \in DOMAIN next.index : l # k => l \in DOMAIN acc.index
            /\ e.kind \in InvokeKind /\ next.index[k] # m
        BY <1>5, <2>1, <3>3
      <3> HIDE DEF k, e
      <3>5. IsOpenedAt(next, s, n, m, i)
        BY <1>4, <3>1, <3>2, <3>4
      <3>6. i <= n
        BY <1>1, <3>1
      <3> QED
        BY <3>5, <3>6
    <2>3. IsOpenedAt(next, s, n, c + 1, n)
      <3>1. Quiet(s, e, n + 1, n)
        BY <1>1 DEF Quiet
      <3>2. \A l \in DOMAIN s : ~(n < l /\ l <= n)
        BY <1>1
      <3>3. next.spans[c + 1].ends[1] = e /\ next.spans[c + 1].key = k
        BY <2>1
      <3> QED
        BY <1>5, <2>1, <3>1, <3>2, <3>3 DEF IsOpenedAt
    <2>4. \A m \in 1..(c + 1) : m \in 1..c \/ m = c + 1
      BY <2>1
    <2>5. n <= n
      BY <1>1
    <2>6. SpansAreTidy(next, s, n)
      BY <2>1, <2>2, <2>3, <2>4, <2>5 DEF SpansAreTidy
    <2> QED
      BY <2>6 DEF next
  <1>6. CASE e.kind \notin InvokeKind /\ e.kind \in TerminalKind /\ k \in DOMAIN acc.index
    <2> DEFINE c == Len(acc.spans)
               p == acc.index[k]
    <2>1. /\ c \in Nat /\ DOMAIN acc.spans = 1..c /\ p \in 1..c
          /\ DOMAIN next.spans = 1..c
          /\ \A i \in 1..c : i # p => next.spans[i] = acc.spans[i]
          /\ next.spans[p] = [key |-> acc.spans[p].key, ends |-> <<acc.spans[p].ends[1], e>>]
          /\ next.index = acc.index
      BY <1>6, Closing DEF next
    <2> HIDE DEF c
    <2>2. ASSUME NEW m \in 1..c PROVE \E i \in DOMAIN s : i <= n /\ IsOpenedAt(next, s, n, m, i)
      <3>1. PICK i \in DOMAIN s : i <= n - 1 /\ IsOpenedAt(acc, s, n - 1, m, i)
        BY <2>1 DEF SpansAreTidy
      <3>2. i <= n /\ i < n
        BY <1>1, <3>1
      <3>3. CASE m # p
        <4>1. ASSUME s[i].kind \in HostedKind, Quiet(s, s[i], i + 1, n - 1),
                     acc.index[Key(s[i])] = m
              PROVE  Quiet(s, s[i], i + 1, n)
          <5> SUFFICES ASSUME ~Quiet(s, s[i], i + 1, n) PROVE FALSE
            OBVIOUS
          <5>1. k = Key(s[i])
            BY <1>3, <2>1, <3>1, <4>1
          <5> QED
            BY <3>3, <4>1, <5>1
        <4>2. /\ next.spans[m] = acc.spans[m] /\ m \in DOMAIN acc.spans
              /\ next.index = acc.index /\ e.kind \notin InvokeKind
          BY <1>6, <2>1, <3>3
        <4> HIDE DEF k, e
        <4>3. IsOpenedAt(next, s, n, m, i)
          BY <1>4, <3>1, <4>1, <4>2
        <4> QED
          BY <3>2, <4>3
      <3>4. CASE m = p
        <4>1. /\ s[i].kind \in InvokeKind
              /\ acc.spans[m].ends[1] = s[i] /\ acc.spans[m].key = Key(s[i])
              /\ acc.spans[m].key = k
              /\ \A l \in DOMAIN s : i < l /\ l <= n - 1 =>
                                       ~(s[l].kind \in InvokeKind /\ Key(s[l]) = Key(s[i]))
          BY <1>2, <1>6, <3>1, <3>4 DEF IsOpenedAt
        <4>2. s[i].kind \in HostedKind => Matched(s[i], e)
          BY <1>6, <3>2, <4>1, LastOfCall
        <4>3. \A l \in DOMAIN s : i < l /\ l <= n =>
                                    ~(s[l].kind \in InvokeKind /\ Key(s[l]) = Key(s[i]))
          <5> SUFFICES ASSUME NEW l \in DOMAIN s, i < l, l <= n
                       PROVE  ~(s[l].kind \in InvokeKind /\ Key(s[l]) = Key(s[i]))
            OBVIOUS
          <5>1. l = n \/ l <= n - 1
            BY <1>1
          <5> QED
            BY <1>6, <4>1, <5>1
        <4>4. next.spans[m].ends = <<s[i], e>> /\ next.spans[m].key = Key(s[i])
          BY <2>1, <3>4, <4>1
        <4>5. IsOpenedAt(next, s, n, m, i)
          <5>1. next.spans[m].ends[1] = s[i]
            BY <4>4
          <5> QED
            BY <4>1, <4>2, <4>3, <4>4, <5>1 DEF IsOpenedAt
        <4> QED
          BY <3>2, <4>5
      <3> QED
        BY <3>3, <3>4
    <2>3. SpansAreTidy(next, s, n)
      BY <2>1, <2>2 DEF SpansAreTidy
    <2> QED
      BY <2>3 DEF next
  <1>7. CASE e.kind \notin InvokeKind /\ ~(e.kind \in TerminalKind /\ k \in DOMAIN acc.index)
    <2>1. next = acc
      BY <1>7, Passing DEF next
    <2>2. ASSUME NEW m \in DOMAIN acc.spans
          PROVE  \E i \in DOMAIN s : i <= n /\ IsOpenedAt(next, s, n, m, i)
      <3>1. PICK i \in DOMAIN s : i <= n - 1 /\ IsOpenedAt(acc, s, n - 1, m, i)
        BY DEF SpansAreTidy
      <3>2. i <= n
        BY <1>1, <3>1
      <3>3. (/\ s[i].kind \in HostedKind /\ Quiet(s, s[i], i + 1, n - 1)
             /\ Key(s[i]) \in DOMAIN acc.index)
              => Quiet(s, s[i], i + 1, n)
        BY <1>3, <1>7, <3>1
      <3> HIDE DEF k, e
      <3>4. IsOpenedAt(next, s, n, m, i)
        BY <1>4, <1>7, <2>1, <3>1, <3>3
      <3> QED
        BY <3>2, <3>4
    <2>3. SpansAreTidy(next, s, n)
      BY <2>1, <2>2 DEF SpansAreTidy
    <2> QED
      BY <2>3 DEF next
  <1> QED
    BY <1>5, <1>6, <1>7

\* Every hosted span of a log whose hosted calls are whole is whole.
LEMMA TidySpans ==
  ASSUME NEW s, IsSequence(s), IsTidy(s)
  PROVE  \A span \in Range(Spans(s)) : span.ends[1].kind \in HostedKind =>
           \E j \in DOMAIN s : /\ span.ends = <<span.ends[1], s[j]>>
                               /\ Matched(span.ends[1], s[j])
  <1> DEFINE m == Len(s)
  <1>1. m \in Nat /\ DOMAIN s = 1..m
    BY DEF IsSequence
  <1>2. PICK f : /\ f[0] = NoSpans
                 /\ \A n \in 1..m : f[n] = TakeUp(f[n - 1], s[n])
                 /\ \A n \in 0..m : IsPassState(f[n], s, n)
                 /\ Spans(s) = f[m].spans
    BY PassStates
  <1> HIDE DEF m
  <1> DEFINE P == {n \in 0..m : SpansAreTidy(f[n], s, n)}
  <1>3. 0 \in P
    <2>1. DOMAIN f[0].spans = {}
      BY <1>2 DEF NoSpans
    <2> QED
      BY <1>1, <2>1 DEF SpansAreTidy
  <1>4. ASSUME NEW n \in 1..m, n - 1 \in P PROVE n \in P
    <2>1. n \in DOMAIN s /\ n \in 0..m /\ n - 1 \in 0..m
      BY <1>1
    <2>2. IsPassState(f[n - 1], s, n - 1) /\ SpansAreTidy(f[n - 1], s, n - 1)
      BY <1>2, <1>4, <2>1
    <2>3. SpansAreTidy(TakeUp(f[n - 1], s[n]), s, n)
      BY <2>1, <2>2, TidyStep
    <2> QED
      BY <1>2, <2>1, <2>3
  <1>5. \A n \in 0..m : n \in P
    <2> HIDE DEF P
    <2> QED
      BY <1>1, <1>3, <1>4, Upwards
  <1>6. SpansAreTidy(f[m], s, m)
    <2>1. m \in 0..m
      BY <1>1
    <2> QED
      BY <1>5, <2>1
  <1> SUFFICES ASSUME NEW span \in Range(Spans(s)), span.ends[1].kind \in HostedKind
               PROVE  \E j \in DOMAIN s : /\ span.ends = <<span.ends[1], s[j]>>
                                          /\ Matched(span.ends[1], s[j])
    OBVIOUS
  <1>7. PICK q \in DOMAIN f[m].spans : span = f[m].spans[q]
    BY <1>2 DEF Range
  <1>8. PICK i \in DOMAIN s : IsOpenedAt(f[m], s, m, q, i)
    BY <1>6, <1>7 DEF SpansAreTidy
  <1>9. span.ends[1] = s[i] /\ s[i].kind \in InvokeKind /\ s[i].kind \in HostedKind
    BY <1>7, <1>8 DEF IsOpenedAt
  <1>10. ~Quiet(s, s[i], i + 1, m)
    <2> SUFFICES ASSUME Quiet(s, s[i], i + 1, m) PROVE FALSE
      OBVIOUS
    <2>1. PICK j \in DOMAIN s : Whole(s, i, j)
      BY <1>9, KindsOfTools DEF IsTidy
    <2>2. i < j /\ s[j].kind \in ToolKind /\ Key(s[j]) = Key(s[i])
      BY <2>1 DEF Whole, Matched, ToolKind, HostedKind
    <2>3. i + 1 <= j /\ j <= m
      BY <1>1, <2>2
    <2> QED
      BY <2>2, <2>3 DEF Quiet
  <1> QED
    BY <1>7, <1>8, <1>9, <1>10 DEF IsOpenedAt

\* No agent makes an event of a call that is reported as a hosted one.
LEMMA ApartFromAgents ==
  ASSUME NEW d \in Unstamped, NEW e \in Unstamped,
         d.kind \in HostedKind, e.kind \in ToolKind, Key(d) = Key(e)
  PROVE  e.kind \in HostedKind
  <1>1. d.conversation = e.conversation /\ d.call = e.call
    BY DEF Key
  <1>2. PICK job \in Jobs : d \in Range(Script(job))
    BY DEF Unstamped
  <1>3. PICK other \in Jobs : e \in Range(Script(other))
    BY DEF Unstamped
  <1>4. "payload" \in DOMAIN job
    <2> SUFFICES ASSUME "payload" \notin DOMAIN job PROVE FALSE
      OBVIOUS
    <2>1. AgentJob(job) /\ Script(job) = AgentEvents(job)
      BY JobsAssumption DEF Script
    <2>2. PICK i \in DOMAIN AgentEvents(job) : d = AgentEvents(job)[i]
      BY <1>2, <2>1 DEF Range
    <2> QED
      BY <2>1, <2>2, AgentOrigin
  <1>5. PICK i \in DOMAIN job.payload.output :
          /\ job.payload.output # None
          /\ IsHosted(job.payload.output[i])
          /\ d.conversation = job.conversation
          /\ d.call = HostedCallId(job.payload.output[i], i)
    <2>1. /\ job.payload.output = None \/ IsSequence(job.payload.output)
          /\ d \in Range(HostedEvents(job.conversation, job.response, job.payload))
      BY <1>2, <1>4, JobsAssumption DEF PayloadJob, Script
    <2> QED
      BY <2>1, HostedOrigin
  <1>6. CASE "payload" \in DOMAIN other
    <2>1. /\ other.payload.output = None \/ IsSequence(other.payload.output)
          /\ e \in Range(HostedEvents(other.conversation, other.response, other.payload))
      BY <1>3, <1>6, JobsAssumption DEF PayloadJob, Script
    <2> QED
      BY <2>1, HostedOrigin
  <1>7. CASE "payload" \notin DOMAIN other
    <2>1. AgentJob(other) /\ Script(other) = AgentEvents(other)
      BY <1>7, JobsAssumption DEF Script
    <2>2. PICK n \in DOMAIN AgentEvents(other) : e = AgentEvents(other)[n]
      BY <1>3, <2>1 DEF Range
    <2> DEFINE a == other.events[n]
    <2>3. /\ a \in Range(other.events)
          /\ a.kind = e.kind /\ a.conversation = e.conversation /\ a.call = e.call
      BY <2>1, <2>2, AgentOrigin
    <2>4. job.payload.output[i].type # None /\ job.payload.output[i].type # <<"function", "_call">>
      BY <1>5 DEF IsHosted
    <2>5. ~(/\ a.kind \in ToolKind
            /\ a.conversation = job.conversation
            /\ a.call = HostedCallId(job.payload.output[i], i))
      BY <1>4, <1>5, <1>7, <2>3, <2>4, IdsAssumption
    <2> QED
      BY <1>1, <1>5, <2>3, <2>5
  <1> QED
    BY <1>6, <1>7

\* What a stamped event keeps of the event that is stamped.
LEMMA DecodedKeeps ==
  ASSUME NEW e \in Stream!Event
  PROVE  /\ Decoded(e).kind = e.body.event.kind
         /\ Key(Decoded(e)) = Key(e.body.event)
         /\ \A f : ScalarField(Decoded(e), f) = ScalarField(e.body.event, f)
  <1> DEFINE d == Decoded(e)
             b == e.body.event
  <1>1. d = [kind |-> b.kind, conversation |-> b.conversation, call |-> b.call,
             data |-> b.data, tick |-> e.tick, at |-> e.body.at]
    BY DecodedType
  <1> HIDE DEF d, b
  <1>2. /\ d.kind = b.kind /\ d.conversation = b.conversation
        /\ d.call = b.call /\ d.data = b.data
    BY <1>1
  <1>3. Key(d) = Key(b)
    BY <1>2 DEF Key
  <1>4. \A f : ScalarField(d, f) = ScalarField(b, f)
    BY <1>2 DEF ScalarField
  <1> QED
    BY <1>2, <1>3, <1>4 DEF d, b

\* When the producers are done, what is captured is tidy.
LEMMA CapturedIsTidy ==
  ASSUME TypeInv, HostedInv, ~shared, \A p \in Producer : Idle(p)
  PROVE  IsSequence(Captured) /\ IsTidy(Captured)
  <1>1. /\ buffer \in Seq(Stream!Event)
        /\ DOMAIN Captured = DOMAIN buffer /\ DOMAIN Logged = DOMAIN buffer
    BY DEF TypeInv, Stream!TypeOK, Captured, Logged
  <1>2. IsSequence(Captured)
    <2>1. DOMAIN buffer = 1..Len(buffer) /\ Len(buffer) \in Nat
      BY <1>1
    <2>2. Captured = [i \in 1..Len(buffer) |-> Captured[i]]
      BY <2>1 DEF Captured
    <2>3. \A i \in 1..Len(buffer) : Captured[i] \in Range(Captured)
      BY <1>1, <2>1 DEF Range
    <2> QED
      BY <2>1, <2>2, <2>3 DEF IsSequence
  <1>3. \A i \in DOMAIN buffer :
          /\ Captured[i].kind = Logged[i].kind
          /\ Key(Captured[i]) = Key(Logged[i])
          /\ \A f : ScalarField(Captured[i], f) = ScalarField(Logged[i], f)
          /\ Logged[i] \in Unstamped
    <2> SUFFICES ASSUME NEW i \in DOMAIN buffer
                 PROVE  /\ Captured[i].kind = Logged[i].kind
                        /\ Key(Captured[i]) = Key(Logged[i])
                        /\ \A f : ScalarField(Captured[i], f) = ScalarField(Logged[i], f)
                        /\ Logged[i] \in Unstamped
      OBVIOUS
    <2>1. buffer[i] \in Stream!Event
      BY <1>1
    <2>2. Captured[i] = Decoded(buffer[i]) /\ Logged[i] = buffer[i].body.event
      BY DEF Captured, Logged
    <2>3. buffer[i].body.event \in Unstamped
      BY <2>1, DecodedType
    <2> QED
      BY <2>1, <2>2, <2>3, DecodedKeeps
  <1>4. \A i, j \in DOMAIN buffer : Whole(Logged, i, j) => Whole(Captured, i, j)
    <2> SUFFICES ASSUME NEW i \in DOMAIN buffer, NEW j \in DOMAIN buffer, Whole(Logged, i, j)
                 PROVE  Whole(Captured, i, j)
      OBVIOUS
    <2>1. Matched(Captured[i], Captured[j])
      BY <1>3 DEF Whole, Matched
    <2>2. Quiet(Captured, Captured[j], i + 1, j - 1)
      BY <1>1, <1>3 DEF Whole, Quiet
    <2> QED
      BY <2>1, <2>2 DEF Whole
  <1>5. \A p \in Producer : Queues[p] = <<>>
    <2> SUFFICES ASSUME NEW p \in Producer PROVE Queues[p] = <<>>
      OBVIOUS
    <2>1. Queues[p] = <<>> \o <<>>
      BY DEF Queues, Idle
    <2>2. <<>> \o <<>> = <<>>
      OBVIOUS
    <2> QED
      BY <2>1, <2>2
  <1>6. \A p \in Producer : \A i : ~Awaits(Logged, i, Queues[p])
    BY <1>5 DEF Awaits
  <1>7. HostedState(Logged, Queues)
    BY DEF HostedInv
  <1>8. \A i \in DOMAIN Captured : Captured[i].kind = "tool.hosted_invoked" =>
          \E j \in DOMAIN Captured : Whole(Captured, i, j)
    BY <1>1, <1>3, <1>4, <1>6, <1>7 DEF HostedState
  <1>9. \A j \in DOMAIN Captured : Captured[j].kind = "tool.hosted_completed" =>
          \E i \in DOMAIN Captured : Whole(Captured, i, j)
    BY <1>1, <1>3, <1>4, <1>7 DEF HostedState
  <1>10. \A i, j \in DOMAIN Captured :
           /\ Captured[i].kind \in HostedKind /\ Captured[j].kind \in ToolKind
           /\ Key(Captured[i]) = Key(Captured[j])
           => Captured[j].kind \in HostedKind
    BY <1>1, <1>3, ApartFromAgents
  <1> QED
    BY <1>2, <1>8, <1>9, <1>10 DEF IsTidy

\* Hosted calls reach their consumer whole, each completion with the invocation of its
\* own response, and no call is reported both by the agent that runs it and as a hosted
\* one, for any producers, jobs and interleaving of them: synthetic ids may come again
\* in every response, and mix no two calls up unless two producers are at work on the
\* same id of a conversation.
THEOREM HostedCallsStayWhole == Spec => []HostedCallsAreSound
  <1>1. ASSUME TypeInv PROVE NoCallReportedTwice
    <2>1. ASSUME NEW i \in DOMAIN Captured
          PROVE  \E b \in Unstamped : Captured[i].kind = b.kind /\ Key(Captured[i]) = Key(b)
      <3>1. buffer \in Seq(Stream!Event) /\ i \in DOMAIN buffer
        BY <1>1 DEF TypeInv, Stream!TypeOK, Captured
      <3>2. buffer[i] \in Stream!Event /\ Captured[i] = Decoded(buffer[i])
        BY <3>1 DEF Captured
      <3> QED
        BY <3>2, DecodedKeeps, DecodedType
    <2> QED
      BY <2>1, ApartFromAgents DEF NoCallReportedTwice
  <1>2. ASSUME TypeInv, HostedInv PROVE HostedSpansAreWhole
    <2> SUFFICES ASSUME ~shared, \A p \in Producer : Idle(p),
                        NEW span \in Range(Spans(Captured)),
                        span.ends[1].kind \in HostedKind
                 PROVE  /\ Outcome(span) = "tool.hosted_completed"
                        /\ ScalarField(span.ends[1], "response_id") =
                             ScalarField(span.ends[2], "response_id")
                        /\ ScalarField(span.ends[1], "tool_name") =
                             ScalarField(span.ends[2], "tool_name")
      BY DEF HostedSpansAreWhole
    <2>1. IsSequence(Captured) /\ IsTidy(Captured)
      BY <1>2, CapturedIsTidy
    <2>2. PICK j \in DOMAIN Captured : /\ span.ends = <<span.ends[1], Captured[j]>>
                                       /\ Matched(span.ends[1], Captured[j])
      BY <2>1, TidySpans
    <2>3. Len(span.ends) = 2 /\ span.ends[2] = Captured[j]
      BY <2>2
    <2> QED
      BY <2>2, <2>3 DEF Matched, Outcome
  <1> QED
    BY <1>1, <1>2, TypesHold, HostedHold, PTL DEF HostedCallsAreSound

(***************************************************************************)
(* Metrics                                                                 *)
(***************************************************************************)

\* A sum of sums.
LEMMA SumAdds ==
  ASSUME NEW f, NEW g, NEW h, NEW S, IsFiniteSet(S),
         \A x \in S : f[x] \in Nat /\ g[x] \in Nat /\ h[x] = f[x] + g[x]
  PROVE  SumFunctionOnSet(h, S) = SumFunctionOnSet(f, S) + SumFunctionOnSet(g, S)
  <1> DEFINE A(s) == SumFunctionOnSet(f, s)
             B(s) == SumFunctionOnSet(g, s)
             C(s) == SumFunctionOnSet(h, s)
             F == {s \in SUBSET S : C(s) # A(s) + B(s)}
  <1>1. SUFFICES ASSUME F # {} PROVE FALSE
    OBVIOUS
  <1>2. PICK R \in F : \A q \in F : q \subseteq R => q = R
    <2>1. F \subseteq SUBSET S
      OBVIOUS
    <2> HIDE DEF F
    <2> QED
      BY <1>1, <2>1, Minimal
  <1>3. IsFiniteSet(R) /\ R \in SUBSET S
    BY FS_Subset
  <1> DEFINE x == Taken(R)
             Q == R \ {x}
  <1>4. /\ A({}) = 0 /\ B({}) = 0 /\ C({}) = 0
        /\ R # {} => /\ A(R) = f[x] + A(Q)
                     /\ B(R) = g[x] + B(Q)
                     /\ C(R) = h[x] + C(Q)
    BY <1>3, SumUnfolds
  <1>5. R # {} => x \in R
    BY DEF Taken
  <1>6. \A q \in SUBSET S : A(q) \in Nat /\ B(q) \in Nat
    BY FS_Subset, SumType
  <1>7. C(R) # A(R) + B(R)
    OBVIOUS
  <1>8. R # {}
    <2>1. A({}) = 0 /\ B({}) = 0 /\ C({}) = 0
      BY <1>4
    <2> HIDE DEF A, B, C, F, x
    <2>2. C({}) = A({}) + B({})
      BY <2>1
    <2> QED
      BY <1>7, <2>2
  <1> HIDE DEF x
  <1>9. Q \in SUBSET S /\ C(Q) = A(Q) + B(Q)
    BY <1>2, <1>3, <1>5, <1>8
  <1>10. f[x] \in Nat /\ g[x] \in Nat /\ h[x] = f[x] + g[x]
    BY <1>3, <1>5, <1>8
  <1> HIDE DEF A, B, C, Q
  <1> QED
    BY <1>4, <1>6, <1>7, <1>8, <1>9, <1>10

\* Where there is nothing to be added.
LEMMA SumWithin ==
  ASSUME NEW f, NEW S, IsFiniteSet(S), NEW T \in SUBSET S,
         \A x \in S : f[x] \in Nat, \A x \in S \ T : f[x] = 0
  PROVE  SumFunctionOnSet(f, S) = SumFunctionOnSet(f, T)
  <1> DEFINE A(s) == SumFunctionOnSet(f, s)
             F == {s \in SUBSET S : A(s) # A(s \cap T)}
  <1>1. SUFFICES ASSUME F # {} PROVE FALSE
    BY S \cap T = T, S \in SUBSET S
  <1>2. PICK R \in F : \A q \in F : q \subseteq R => q = R
    <2>1. F \subseteq SUBSET S
      OBVIOUS
    <2> HIDE DEF F
    <2> QED
      BY <1>1, <2>1, Minimal
  <1>3. R \in SUBSET S /\ A(R) # A(R \cap T)
    OBVIOUS
  <1>4. PICK x \in R : x \notin T
    <2>1. R # R \cap T
      BY <1>3
    <2> HIDE DEF A, F
    <2> QED
      BY <2>1
  <1> DEFINE Q == R \ {x}
  <1>5. IsFiniteSet(R) /\ \A y \in R : f[y] \in Nat
    BY <1>3, FS_Subset
  <1>6. A(R) = f[x] + A(Q)
    BY <1>5, SumRemoves
  <1>7. Q \in SUBSET S /\ A(Q) \in Nat
    BY <1>5, FS_Subset, SumType
  <1>8. Q \cap T = R \cap T /\ f[x] = 0
    BY <1>3, <1>4
  <1>9. A(Q) = A(Q \cap T)
    <2>1. Q \subseteq R /\ Q # R
      OBVIOUS
    <2>2. Q \notin F
      <3> HIDE DEF F, Q
      <3> QED
        BY <1>2, <2>1
    <2> HIDE DEF Q, A
    <2> QED
      BY <1>7, <2>2
  <1> HIDE DEF A, Q, F
  <1>10. A(R) = A(Q)
    BY <1>6, <1>7, <1>8
  <1>11. A(R) = A(R \cap T)
    BY <1>8, <1>9, <1>10
  <1> QED
    BY <1>3, <1>11

\* Of ones, a sum is a number of elements.
LEMMA SumCounts ==
  ASSUME NEW f, NEW S, IsFiniteSet(S), NEW T \in SUBSET S,
         \A x \in T : f[x] = 1, \A x \in S \ T : f[x] = 0
  PROVE  SumFunctionOnSet(f, S) = Cardinality(T)
  <1>1. IsFiniteSet(T) /\ Cardinality(T) \in Nat
    BY FS_Subset, FS_CardinalityType
  <1>2. \A x \in S : f[x] \in Nat
    OBVIOUS
  <1>3. SumFunctionOnSet(f, S) = SumFunctionOnSet(f, T)
    BY <1>2, SumWithin
  <1>4. \A x \in T : f[x] \in Nat /\ 1 <= f[x] /\ f[x] <= 1
    OBVIOUS
  <1> DEFINE s == SumFunctionOnSet(f, T)
             c == Cardinality(T)
  <1>5. c * 1 <= s /\ s <= c * 1 /\ s \in Nat
    BY <1>1, <1>4, SumBounds, SumType
  <1> HIDE DEF s, c
  <1>6. s = c
    BY <1>1, <1>5 DEF c
  <1> QED
    BY <1>3, <1>6 DEF s, c

\* Sums that differ in one number.
LEMMA SumDiffers ==
  ASSUME NEW f, NEW g, NEW S, IsFiniteSet(S), NEW x \in S,
         \A y \in S : f[y] \in Nat /\ g[y] \in Nat,
         \A y \in S : y # x => f[y] = g[y]
  PROVE  SumFunctionOnSet(f, S) + g[x] = SumFunctionOnSet(g, S) + f[x]
  <1> DEFINE Q == S \ {x}
             a == SumFunctionOnSet(f, Q)
             b == SumFunctionOnSet(g, Q)
  <1>1. IsFiniteSet(Q)
    BY FS_Subset
  <1>2. a = b
    BY <1>1, SumAgrees
  <1>3. /\ SumFunctionOnSet(f, S) = f[x] + a
        /\ SumFunctionOnSet(g, S) = g[x] + b
    BY SumRemoves
  <1>4. a \in Nat /\ b \in Nat /\ f[x] \in Nat /\ g[x] \in Nat
    BY <1>1, SumType
  <1> HIDE DEF a, b
  <1> QED
    BY <1>2, <1>3, <1>4

\* A sum over what is picked out of a sequence.
LEMMA SumSelected ==
  ASSUME NEW T \in SUBSET Nat, IsFiniteSet(T), NEW g, IsList(g, T), NEW f, NEW v,
         \A i \in T : f[i] \in Nat,
         \A n \in 1..Cardinality(T) : v[n] = f[g[n]]
  PROVE  SumFunctionOnSet(v, 1..Cardinality(T)) = SumFunctionOnSet(f, T)
  <1> DEFINE N    == Cardinality(T)
             G(n) == {g[k] : k \in 1..n}
             P    == {n \in 0..N : SumFunctionOnSet(v, 1..n) = SumFunctionOnSet(f, G(n))}
  <1>1. /\ N \in Nat /\ g \in [1..N -> T]
        /\ \A k, n \in 1..N : g[k] = g[n] => k = n
        /\ \A i \in T : \E n \in 1..N : g[n] = i
    <2>1. N \in Nat
      BY FS_CardinalityType
    <2>2. g \in [1..N -> T] /\ \A i \in T : \E n \in 1..N : g[n] = i
      BY DEF IsList
    <2>3. \A k, n \in 1..N : g[k] = g[n] => k = n
      BY DEF IsList
    <2> QED
      BY <2>1, <2>2, <2>3
  <1> HIDE DEF N
  <1>2. ASSUME NEW n \in 0..N
        PROVE  IsFiniteSet(1..n) /\ IsFiniteSet(G(n)) /\ G(n) \in SUBSET T
    <2>1. n \in Int /\ IsFiniteSet(1..n)
      BY <1>1, FS_Interval
    <2>2. G(n) \in SUBSET T
      <3>1. \A k \in 1..n : k \in 1..N
        BY <1>1
      <3> QED
        BY <1>1, <3>1
    <2> QED
      BY <2>1, <2>2, FS_Subset
  <1>3. 0 \in P
    <2>1. 1..0 = {} /\ G(0) = {} /\ 0 \in 0..N
      BY <1>1
    <2>2. SumFunctionOnSet(v, {}) = 0 /\ SumFunctionOnSet(f, {}) = 0
      BY FS_EmptySet, SumUnfolds
    <2> HIDE DEF G
    <2> QED
      BY <2>1, <2>2
  <1>4. ASSUME NEW n \in 1..N, n - 1 \in P PROVE n \in P
    <2>1. n \in 0..N /\ n \in 1..n /\ (1..n) \ {n} = 1..(n - 1)
      BY <1>1
    <2>2. \A k \in 1..n : k \in 1..N
      BY <1>1
    <2>3. g[n] \in G(n) /\ G(n) \ {g[n]} = G(n - 1)
      <3>1. \A k \in 1..n : g[k] = g[n] => k = n
        BY <1>1, <2>2
      <3>2. \A i : i \in G(n) \ {g[n]} <=> i \in G(n - 1)
        BY <2>1, <3>1
      <3> QED
        BY <2>1, <3>2
    <2>4. \A k \in 1..n : v[k] \in Nat
      BY <1>1, <2>2 DEF N
    <2>5. \A i \in G(n) : f[i] \in Nat
      BY <1>2, <2>1
    <2> HIDE DEF G
    <2>6. SumFunctionOnSet(v, 1..n) = v[n] + SumFunctionOnSet(v, 1..(n - 1))
      <3>1. SumFunctionOnSet(v, 1..n) = v[n] + SumFunctionOnSet(v, (1..n) \ {n})
        BY <1>2, <2>1, <2>4, SumRemoves
      <3> QED
        BY <2>1, <3>1
    <2>7. SumFunctionOnSet(f, G(n)) = f[g[n]] + SumFunctionOnSet(f, G(n - 1))
      BY <1>2, <2>1, <2>3, <2>5, SumRemoves
    <2>8. v[n] = f[g[n]]
      BY DEF N
    <2> QED
      BY <1>4, <2>1, <2>6, <2>7, <2>8
  <1>5. N \in P
    <2>1. N \in 0..N
      BY <1>1
    <2> HIDE DEF P
    <2> QED
      BY <1>1, <1>3, <1>4, <2>1, Upwards
  <1>6. G(N) = T
    <2>1. N \in 0..N
      BY <1>1
    <2>2. G(N) \subseteq T
      BY <1>2, <2>1
    <2>3. T \subseteq G(N)
      BY <1>1
    <2> QED
      BY <2>2, <2>3
  <1> QED
    BY <1>5, <1>6 DEF N

IsCount(bag) == IsFiniteSet(DOMAIN bag) /\ \A m \in DOMAIN bag : bag[m] \in Nat

\* What two bags amount to.
LEMMA AmountsAdd ==
  ASSUME NEW A, NEW B, IsCount(A), IsCount(B), NEW keys
  PROVE  /\ IsCount(A (+) B)
         /\ Amount(A, keys) \in Nat /\ Amount(B, keys) \in Nat
         /\ Amount(A (+) B, keys) = Amount(A, keys) + Amount(B, keys)
  <1> DEFINE C == A (+) B
             D == DOMAIN A \cup DOMAIN B
             K == keys \cap D
             f == [m \in D |-> IF m \in DOMAIN A THEN A[m] ELSE 0]
             g == [m \in D |-> IF m \in DOMAIN B THEN B[m] ELSE 0]
  <1>1. C = [m \in D |-> (IF m \in DOMAIN A THEN A[m] ELSE 0)
                          + (IF m \in DOMAIN B THEN B[m] ELSE 0)]
    BY DEF (+)
  <1> HIDE DEF C
  <1>2. DOMAIN C = D /\ \A m \in D : /\ C[m] = f[m] + g[m]
                                     /\ f[m] \in Nat /\ g[m] \in Nat /\ C[m] \in Nat
    BY <1>1 DEF IsCount
  <1>3. /\ \A m \in DOMAIN A : f[m] = A[m]
        /\ \A m \in D \ DOMAIN A : f[m] = 0
        /\ \A m \in DOMAIN B : g[m] = B[m]
        /\ \A m \in D \ DOMAIN B : g[m] = 0
    OBVIOUS
  <1> HIDE DEF f, g
  <1>4. /\ IsFiniteSet(D) /\ IsFiniteSet(K)
        /\ IsFiniteSet(keys \cap DOMAIN A) /\ IsFiniteSet(keys \cap DOMAIN B)
    <2>1. IsFiniteSet(D)
      BY FS_Union DEF IsCount
    <2> QED
      BY <2>1, FS_Subset
  <1>5. SumFunctionOnSet(C, K) = SumFunctionOnSet(f, K) + SumFunctionOnSet(g, K)
    <2>1. \A m \in K : f[m] \in Nat /\ g[m] \in Nat /\ C[m] = f[m] + g[m]
      BY <1>2
    <2> HIDE DEF K
    <2> QED
      BY <1>4, <2>1, SumAdds
  <1>6. SumFunctionOnSet(f, K) = Amount(A, keys) /\ Amount(A, keys) \in Nat
    <2> DEFINE T == keys \cap DOMAIN A
    <2>1. /\ T \in SUBSET K /\ \A m \in K : f[m] \in Nat
          /\ \A m \in K \ T : f[m] = 0
      BY <1>2, <1>3
    <2>2. \A m \in T : f[m] = A[m] /\ A[m] \in Nat
      BY <1>3 DEF IsCount
    <2> HIDE DEF K, T
    <2>3. SumFunctionOnSet(f, K) = SumFunctionOnSet(f, T)
      BY <1>4, <2>1, SumWithin
    <2>4. /\ SumFunctionOnSet(f, T) = SumFunctionOnSet(A, T)
          /\ SumFunctionOnSet(A, T) \in Nat
      BY <1>4, <2>2, SumAgrees, SumType DEF T
    <2> QED
      BY <2>3, <2>4 DEF Amount, T
  <1>7. SumFunctionOnSet(g, K) = Amount(B, keys) /\ Amount(B, keys) \in Nat
    <2> DEFINE T == keys \cap DOMAIN B
    <2>1. /\ T \in SUBSET K /\ \A m \in K : g[m] \in Nat
          /\ \A m \in K \ T : g[m] = 0
      BY <1>2, <1>3
    <2>2. \A m \in T : g[m] = B[m] /\ B[m] \in Nat
      BY <1>3 DEF IsCount
    <2> HIDE DEF K, T
    <2>3. SumFunctionOnSet(g, K) = SumFunctionOnSet(g, T)
      BY <1>4, <2>1, SumWithin
    <2>4. /\ SumFunctionOnSet(g, T) = SumFunctionOnSet(B, T)
          /\ SumFunctionOnSet(B, T) \in Nat
      BY <1>4, <2>2, SumAgrees, SumType DEF T
    <2> QED
      BY <2>3, <2>4 DEF Amount, T
  <1>8. Amount(C, keys) = SumFunctionOnSet(C, K)
    BY <1>2 DEF Amount
  <1>9. IsCount(C)
    BY <1>2, <1>4 DEF IsCount
  <1> QED
    BY <1>5, <1>6, <1>7, <1>8, <1>9 DEF C

\* Keys of which there is one, or none.
LEMMA AmountOfOne ==
  ASSUME NEW bag, IsCount(bag), NEW keys
  PROVE  /\ keys \cap DOMAIN bag = {} => Amount(bag, keys) = 0
         /\ \A m : keys \cap DOMAIN bag = {m} => Amount(bag, keys) = bag[m]
  <1>1. keys \cap DOMAIN bag = {} => Amount(bag, keys) = 0
    BY FS_EmptySet, SumUnfolds DEF Amount
  <1>2. ASSUME NEW m, keys \cap DOMAIN bag = {m} PROVE Amount(bag, keys) = bag[m]
    <2>1. m \in DOMAIN bag /\ bag[m] \in Nat
      BY <1>2 DEF IsCount
    <2>2. IsFiniteSet({m}) /\ Taken({m}) = m /\ {m} \ {m} = {}
      BY FS_Singleton DEF Taken
    <2>3. SumFunctionOnSet(bag, {m}) = bag[m] + SumFunctionOnSet(bag, {m} \ {m})
      BY <2>2, SumUnfolds
    <2>4. SumFunctionOnSet(bag, {}) = 0
      BY FS_EmptySet, SumUnfolds
    <2>5. SumFunctionOnSet(bag, {m}) = bag[m]
      BY <2>1, <2>2, <2>3, <2>4
    <2> QED
      BY <1>2, <2>5 DEF Amount
  <1> QED
    BY <1>1, <1>2

\* The names of histograms.
HistogramName == {"duration_ms", "time_to_first_token_ms", "message_count", "byte_size"}

LEMMA NamesAreFinite == IsFiniteSet(TokenField) /\ IsFiniteSet(HistogramName)
  <1>1. \A a, b, c, d : IsFiniteSet({a, b, c, d})
    <2> SUFFICES ASSUME NEW a, NEW b, NEW c, NEW d PROVE IsFiniteSet({a, b, c, d})
      OBVIOUS
    <2>1. IsFiniteSet({a} \cup {b})
      BY FS_Singleton, FS_AddElement
    <2>2. IsFiniteSet(({a} \cup {b}) \cup {c})
      BY <2>1, FS_AddElement
    <2>3. IsFiniteSet((({a} \cup {b}) \cup {c}) \cup {d})
      BY <2>2, FS_AddElement
    <2>4. (({a} \cup {b}) \cup {c}) \cup {d} = {a, b, c, d}
      OBVIOUS
    <2> QED
      BY <2>3, <2>4
  <1> QED
    BY <1>1 DEF TokenField, HistogramName

LEMMA FiniteImage ==
  ASSUME NEW S, IsFiniteSet(S), NEW f
  PROVE  IsFiniteSet({f[x] : x \in S})
  <1> DEFINE T == {f[x] : x \in S}
             g == [x \in S |-> f[x]]
  <1>1. g \in [S -> T] /\ \A t \in T : \E x \in S : g[x] = t
    OBVIOUS
  <1> HIDE DEF T, g
  <1>2. g \in Surjection(S, T)
    BY <1>1 DEF Surjection
  <1> QED
    BY <1>2, FS_Surjection DEF T

\* The metrics of an event: a counter for each number of tokens, a value for each
\* histogram, and the count.
LEMMA MetricsOfEvent ==
  ASSUME NEW e \in Stream!Event
  PROVE  LET d == Decoded(e)  L == Labels(d)  R == Recorded(d) IN
         /\ IsCount(R)
         /\ \A m : m \in DOMAIN R <=>
              \/ \E f \in TokenCounters(d) : m = <<f, L>>
              \/ \E f \in Histograms(d) \cap DOMAIN d.data : m = <<f, L, d.data[f]>>
              \/ m = <<"events", L>>
         /\ \A f \in TokenCounters(d) : R[<<f, L>>] = d.data[f]
         /\ \A f \in Histograms(d) \cap DOMAIN d.data : R[<<f, L, d.data[f]>>] = 1
         /\ R[<<"events", L>>] = 1
         /\ TokenCounters(d) \subseteq TokenField /\ Histograms(d) \subseteq HistogramName
         /\ L.kind = d.kind
         /\ "error_class" \in DOMAIN L <=> ScalarField(d, "error_class") # None
         /\ "error_class" \in DOMAIN L => L.error_class = ScalarField(d, "error_class")
  <1> DEFINE d == Decoded(e)
             L == Labels(d)
             R == Recorded(d)
             H == Histograms(d) \cap DOMAIN d.data
             counters == {<<f, L>> : f \in TokenCounters(d)}
             values   == {<<f, L, d.data[f]>> : f \in H}
             count    == <<"events", L>>
             present  == {f \in {"model", "tool_name", "error_class"} : ScalarField(d, f) # None}
  <1>1. /\ DOMAIN R = counters \cup values \cup {count}
        /\ \A m \in DOMAIN R : R[m] = IF m \in counters THEN d.data[m[1]] ELSE 1
    BY DEF Recorded
  <1>2. TokenCounters(d) \subseteq TokenField /\ Histograms(d) \subseteq HistogramName
    BY DEF TokenCounters, Histograms, HistogramName
  <1>3. /\ DOMAIN L = present \cup {"kind"} /\ L["kind"] = d.kind
        /\ \A f \in present : L[f] = ScalarField(d, f)
    BY DEF Labels, Extend
  <1>4. \A m \in DOMAIN R : R[m] \in Nat
    BY RecordedType
  <1>5. IsFiniteSet(DOMAIN R)
    <2> DEFINE f == [x \in TokenField |-> <<x, L>>]
               h == [x \in HistogramName |-> <<x, L, d.data[x]>>]
    <2>1. IsFiniteSet(TokenCounters(d)) /\ IsFiniteSet(H)
      <3>1. H \subseteq HistogramName
        BY <1>2
      <3> QED
        BY <1>2, <3>1, NamesAreFinite, FS_Subset
    <2>2. counters = {f[x] : x \in TokenCounters(d)}
      BY <1>2
    <2>3. values = {h[x] : x \in H}
      BY <1>2
    <2> HIDE DEF f, h, counters, values, count, R, L, H
    <2>4. IsFiniteSet(counters) /\ IsFiniteSet(values)
      BY <2>1, <2>2, <2>3, FiniteImage
    <2>5. IsFiniteSet(counters \cup values)
      BY <2>4, FS_Union
    <2>6. IsFiniteSet((counters \cup values) \cup {count})
      BY <2>5, FS_AddElement
    <2> QED
      BY <1>1, <2>6
  <1> HIDE DEF R, L
  <1>6. ASSUME NEW f \in TokenCounters(d) PROVE R[<<f, L>>] = d.data[f]
    <2>1. <<f, L>> \in counters
      OBVIOUS
    <2>2. R[<<f, L>>] = d.data[<<f, L>>[1]]
      BY <1>1, <2>1
    <2> QED
      BY <2>2
  <1>7. ASSUME NEW f \in H PROVE R[<<f, L, d.data[f]>>] = 1
    <2>1. <<f, L, d.data[f]>> \in values
      OBVIOUS
    <2>2. <<f, L, d.data[f]>> \notin counters
      OBVIOUS
    <2> HIDE DEF counters, values
    <2> QED
      BY <1>1, <2>1, <2>2
  <1>8. R[count] = 1
    <2>1. "events" \notin TokenCounters(d)
      BY <1>2 DEF TokenField
    <2>2. count \notin counters
      BY <2>1
    <2> HIDE DEF counters, values, count
    <2> QED
      BY <1>1, <2>2
  <1>9. \A m : m \in DOMAIN R <=> \/ \E f \in TokenCounters(d) : m = <<f, L>>
                                  \/ \E f \in H : m = <<f, L, d.data[f]>>
                                  \/ m = <<"events", L>>
    BY <1>1
  <1>10. /\ "error_class" \in DOMAIN L <=> ScalarField(d, "error_class") # None
         /\ "error_class" \in DOMAIN L => L["error_class"] = ScalarField(d, "error_class")
    BY <1>3
  <1> HIDE DEF d
  <1> QED
    BY <1>2, <1>3, <1>4, <1>5, <1>6, <1>7, <1>8, <1>9, <1>10 DEF IsCount, d, L, R

\* What producers are about to emit amounts to, and what the metrics of what is captured
\* amount to, event by event.
Pending(keys) ==
  [p \in Producer |-> IF counting[p] = None THEN 0
                      ELSE Amount(Recorded(Decoded(counting[p])), keys)]

Recordings(keys) == [i \in DOMAIN buffer |-> Amount(Recorded(Decoded(buffer[i])), keys)]

\* An event is captured by a producer that has emitted the metrics of the one before; and
\* the metrics account for everything that is captured, whatever keys one looks at.
MetricsInv ==
  /\ IsFiniteSet(DOMAIN metrics)
  /\ \A p \in Producer : built[p] # None => counting[p] = None
  /\ \A i \in DOMAIN buffer : DOMAIN Recorded(Decoded(buffer[i])) \subseteq MetricKey
  /\ \A keys : Accounted(keys) = SumFunctionOnSet(Recordings(keys), DOMAIN buffer)

LEMMA AccountedIs ==
  ASSUME NEW keys
  PROVE  Accounted(keys) = Amount(metrics, keys) + SumFunctionOnSet(Pending(keys), Producer)
  BY DEF Accounted, Pending, SumFunction

LEMMA MetricsInit == Init => MetricsInv
  <1> SUFFICES ASSUME Init PROVE MetricsInv
    OBVIOUS
  <1>1. /\ buffer = <<>> /\ DOMAIN buffer = {} /\ DOMAIN metrics = {}
        /\ \A p \in Producer : counting[p] = None
    BY DEF Init, Stream!Init
  <1>2. ASSUME NEW keys PROVE Accounted(keys) = SumFunctionOnSet(Recordings(keys), DOMAIN buffer)
    <2>1. Amount(metrics, keys) = 0
      <3>1. keys \cap DOMAIN metrics = {}
        BY <1>1
      <3> QED
        BY <3>1, FS_EmptySet, SumUnfolds DEF Amount
    <2>2. SumFunctionOnSet(Recordings(keys), DOMAIN buffer) = 0
      BY <1>1, FS_EmptySet, SumUnfolds
    <2>3. SumFunctionOnSet(Pending(keys), Producer) = 0
      <3>1. \A p \in Producer : Pending(keys)[p] = 0
        BY <1>1 DEF Pending
      <3>2. {} \in SUBSET Producer /\ \A p \in Producer : Pending(keys)[p] \in Nat
        BY <3>1
      <3>3. SumFunctionOnSet(Pending(keys), Producer) = SumFunctionOnSet(Pending(keys), {})
        BY <3>1, <3>2, SumWithin, ProducerAssumption
      <3> QED
        BY <3>3, FS_EmptySet, SumUnfolds
    <2> QED
      BY <2>1, <2>2, <2>3, AccountedIs
  <1> QED
    BY <1>1, <1>2, FS_EmptySet DEF MetricsInv

\* What the amounts are, and that they are the same where nothing is changed.
LEMMA AmountTypes ==
  ASSUME TypeInv, IsFiniteSet(DOMAIN metrics), NEW keys
  PROVE  /\ Amount(metrics, keys) \in Nat
         /\ \A p \in Producer : Pending(keys)[p] \in Nat
         /\ SumFunctionOnSet(Pending(keys), Producer) \in Nat
         /\ \A i \in DOMAIN buffer : Recordings(keys)[i] \in Nat
  <1>1. \A e \in Stream!Event : Amount(Recorded(Decoded(e)), keys) \in Nat
    BY MetricsOfEvent, AmountsAdd
  <1>2. Amount(metrics, keys) \in Nat
    <2>1. IsCount(metrics)
      BY DEF TypeInv, MetricTypes, IsCount
    <2> QED
      BY <2>1, AmountsAdd
  <1>3. \A p \in Producer : Pending(keys)[p] \in Nat
    BY <1>1 DEF TypeInv, MetricTypes, Pending
  <1>4. \A i \in DOMAIN buffer : Recordings(keys)[i] \in Nat
    BY <1>1 DEF TypeInv, Stream!TypeOK, Recordings
  <1> QED
    BY <1>2, <1>3, <1>4, SumType, ProducerAssumption

LEMMA MetricsStep ==
  ASSUME TypeInv, TypeInv', MetricsInv, [Next]_vars
  PROVE  MetricsInv'
  <1>1. /\ buffer \in Seq(Stream!Event)
        /\ built \in [Producer -> Stream!Event \cup {None}]
        /\ counting \in [Producer -> Stream!Event \cup {None}]
        /\ counting' \in [Producer -> Stream!Event \cup {None}]
    BY DEF TypeInv, Stream!TypeOK, MetricTypes
  <1>2. /\ IsFiniteSet(DOMAIN metrics)
        /\ \A p \in Producer : built[p] # None => counting[p] = None
        /\ \A i \in DOMAIN buffer : DOMAIN Recorded(Decoded(buffer[i])) \subseteq MetricKey
        /\ \A keys : Amount(metrics, keys) + SumFunctionOnSet(Pending(keys), Producer)
                       = SumFunctionOnSet(Recordings(keys), DOMAIN buffer)
    BY AccountedIs DEF MetricsInv
  <1>3. /\ \A m : m \in MetricKey <=>
             \/ m \in DOMAIN metrics
             \/ \E p \in Producer : counting[p] # None /\ m \in DOMAIN Recorded(Decoded(counting[p]))
        /\ \A m : m \in MetricKey' <=>
             \/ m \in DOMAIN metrics'
             \/ \E p \in Producer : counting'[p] # None /\ m \in DOMAIN Recorded(Decoded(counting'[p]))
    BY <1>1 DEF MetricKey, Range
  <1>4. \A keys : /\ Amount(metrics, keys) \in Nat
                  /\ \A p \in Producer : Pending(keys)[p] \in Nat
                  /\ SumFunctionOnSet(Pending(keys), Producer) \in Nat
                  /\ \A i \in DOMAIN buffer : Recordings(keys)[i] \in Nat
    BY <1>2, AmountTypes
  <1>5. ASSUME \A keys : Amount(metrics', keys) + SumFunctionOnSet(Pending(keys)', Producer)
                           = SumFunctionOnSet(Recordings(keys)', DOMAIN buffer'),
               IsFiniteSet(DOMAIN metrics'),
               \A p \in Producer : built'[p] # None => counting'[p] = None,
               \A i \in DOMAIN buffer' : DOMAIN Recorded(Decoded(buffer'[i])) \subseteq MetricKey'
        PROVE  MetricsInv'
    <2>1. \A keys : Accounted(keys)' = Amount(metrics', keys)
                                         + SumFunctionOnSet(Pending(keys)', Producer)
      BY DEF Accounted, Pending, SumFunction
    <2> QED
      BY <1>5, <2>1 DEF MetricsInv
  <1>6. CASE UNCHANGED <<buffer, counting, metrics>>
             /\ \A p \in Producer : built'[p] # None => counting[p] = None
    <2>1. \A keys : Pending(keys)' = Pending(keys) /\ Recordings(keys)' = Recordings(keys)
      BY <1>6 DEF Pending, Recordings
    <2>2. MetricKey' = MetricKey
      BY <1>6 DEF MetricKey
    <2> QED
      BY <1>2, <1>5, <1>6, <2>1, <2>2
  <1>7. CASE UNCHANGED vars
    BY <1>2, <1>6, <1>7 DEF vars, streamVars
  <1>8. ASSUME NEW p \in Producer, Start(p) PROVE MetricsInv'
    BY <1>2, <1>6, <1>8 DEF Start, streamVars
  <1>9. ASSUME NEW p \in Producer, Build(p) PROVE MetricsInv'
    <2>1. /\ counting[p] = None /\ UNCHANGED <<buffer, counting, metrics>>
          /\ \A q \in Producer : q # p => built'[q] = built[q]
      BY <1>1, <1>9 DEF Build, Stream!Build
    <2> QED
      BY <1>2, <1>6, <2>1
  <1>10. ASSUME NEW p \in Producer, Capture(p) PROVE MetricsInv'
    <2> DEFINE e == built[p]
               n == Len(buffer)
               R == Recorded(Decoded(e))
    <2>1. /\ e # None /\ built' = [built EXCEPT ![p] = None]
          /\ buffer' = Append(buffer, e) /\ metrics' = metrics
          /\ counting' = [counting EXCEPT ![p] = e]
      BY <1>10 DEF Capture, Stream!Capture
    <2>2. e \in Stream!Event /\ counting[p] = None
      BY <1>1, <1>2, <2>1
    <2>3. /\ n \in Nat /\ DOMAIN buffer = 1..n /\ DOMAIN buffer' = 1..(n + 1)
          /\ buffer'[n + 1] = e /\ \A i \in 1..n : buffer'[i] = buffer[i]
      BY <1>1, <2>1, <2>2
    <2>4. counting'[p] = e /\ \A q \in Producer : q # p => counting'[q] = counting[q]
      BY <1>1, <2>1
    <2> HIDE DEF e, n
    <2>5. /\ \A m : m \in MetricKey => m \in MetricKey'
          /\ \A m : m \in DOMAIN R => m \in MetricKey'
      BY <1>3, <2>1, <2>2, <2>4
    <2>6. ASSUME NEW i \in DOMAIN buffer'
          PROVE  DOMAIN Recorded(Decoded(buffer'[i])) \subseteq MetricKey'
      <3>1. CASE i = n + 1
        BY <2>3, <2>5, <3>1
      <3>2. CASE i # n + 1
        <4>1. i \in DOMAIN buffer /\ buffer'[i] = buffer[i]
          BY <2>3, <3>2
        <4> QED
          BY <1>2, <2>5, <4>1
      <3> QED
        BY <3>1, <3>2
    <2>7. ASSUME NEW keys
          PROVE  Amount(metrics', keys) + SumFunctionOnSet(Pending(keys)', Producer)
                   = SumFunctionOnSet(Recordings(keys)', DOMAIN buffer')
      <3> DEFINE f == Pending(keys)
                 g == Pending(keys)'
                 r == Recordings(keys)
                 s == Recordings(keys)'
                 a == Amount(R, keys)
      <3>1. f[p] = 0 /\ g[p] = a /\ \A q \in Producer : q # p => g[q] = f[q]
        BY <2>1, <2>2, <2>4 DEF Pending
      <3>2. s[n + 1] = a /\ \A i \in 1..n : s[i] = r[i]
        <4>1. s = [i \in 1..(n + 1) |-> Amount(Recorded(Decoded(buffer'[i])), keys)]
          BY <2>3 DEF Recordings
        <4>2. r = [i \in 1..n |-> Amount(Recorded(Decoded(buffer[i])), keys)]
          BY <2>3 DEF Recordings
        <4>3. n + 1 \in 1..(n + 1) /\ \A i \in 1..n : i \in 1..(n + 1)
          BY <2>3
        <4> HIDE DEF r, s
        <4> QED
          BY <2>3, <4>1, <4>2, <4>3
      <3>3. a \in Nat
        BY <2>2, MetricsOfEvent, AmountsAdd
      <3> HIDE DEF f, g, r, s, a
      <3>4. /\ \A q \in Producer : f[q] \in Nat /\ g[q] \in Nat
            /\ \A i \in 1..n : r[i] \in Nat /\ \A j \in 1..(n + 1) : s[j] \in Nat
        <4>1. \A q \in Producer : f[q] \in Nat
          BY <1>4 DEF f
        <4>2. \A i \in 1..n : r[i] \in Nat
          BY <1>4, <2>3 DEF r
        <4>3. \A j \in 1..(n + 1) : j \in 1..n \/ j = n + 1
          BY <2>3
        <4> QED
          BY <3>1, <3>2, <3>3, <4>1, <4>2, <4>3
      <3>5. SumFunctionOnSet(g, Producer) = SumFunctionOnSet(f, Producer) + a
        <4>1. SumFunctionOnSet(f, Producer) + g[p] = SumFunctionOnSet(g, Producer) + f[p]
          BY <3>1, <3>4, SumDiffers, ProducerAssumption
        <4>2. SumFunctionOnSet(f, Producer) \in Nat /\ SumFunctionOnSet(g, Producer) \in Nat
          BY <3>4, SumType, ProducerAssumption
        <4> QED
          BY <3>1, <3>3, <4>1, <4>2
      <3>6. SumFunctionOnSet(s, 1..(n + 1)) = SumFunctionOnSet(r, 1..n) + a
        <4>1. /\ IsFiniteSet(1..(n + 1)) /\ IsFiniteSet(1..n)
              /\ n + 1 \in 1..(n + 1) /\ (1..(n + 1)) \ {n + 1} = 1..n
          <5>1. 1 \in Int /\ n \in Int /\ n + 1 \in Int
            BY <2>3
          <5>2. IsFiniteSet(1..(n + 1)) /\ IsFiniteSet(1..n)
            BY ONLY <5>1, FS_Interval
          <5>3. n + 1 \in 1..(n + 1)
            BY <2>3
          <5>4. (1..(n + 1)) \ {n + 1} = 1..n
            BY <2>3
          <5> QED
            BY <5>2, <5>3, <5>4
        <4>2. \A j \in 1..(n + 1) : s[j] \in Nat
          BY <2>3, <3>2, <3>3, <3>4
        <4>3. SumFunctionOnSet(s, 1..(n + 1)) = s[n + 1] + SumFunctionOnSet(s, (1..(n + 1)) \ {n + 1})
          BY <4>1, <4>2, SumRemoves
        <4>4. SumFunctionOnSet(s, 1..n) = SumFunctionOnSet(r, 1..n)
          BY <3>2, <4>1, SumAgrees
        <4>5. SumFunctionOnSet(r, 1..n) \in Nat
          BY <3>4, <4>1, SumType
        <4>6. SumFunctionOnSet(s, (1..(n + 1)) \ {n + 1}) = SumFunctionOnSet(r, 1..n)
          BY <4>1, <4>4
        <4> QED
          BY <3>2, <3>3, <4>3, <4>5, <4>6
      <3>7. Amount(metrics, keys) + SumFunctionOnSet(f, Producer) = SumFunctionOnSet(r, 1..n)
        BY <1>2, <2>3 DEF f, r
      <3>8. Amount(metrics, keys) \in Nat /\ SumFunctionOnSet(f, Producer) \in Nat
        BY <1>4 DEF f
      <3>9. Amount(metrics, keys) + SumFunctionOnSet(g, Producer) = SumFunctionOnSet(s, 1..(n + 1))
        BY <3>3, <3>5, <3>6, <3>7, <3>8
      <3> QED
        BY <2>1, <2>3, <3>9 DEF g, s
    <2>8. \A q \in Producer : built'[q] # None => counting'[q] = None
      BY <1>1, <1>2, <2>1, <2>4
    <2> QED
      BY <1>2, <1>5, <2>1, <2>6, <2>7, <2>8
  <1>11. ASSUME NEW p \in Producer, EmitMetrics(p) PROVE MetricsInv'
    <2> DEFINE e == counting[p]
               R == Recorded(Decoded(e))
    <2>1. /\ e # None /\ metrics' = metrics (+) R
          /\ counting' = [counting EXCEPT ![p] = None]
          /\ built' = built /\ buffer' = buffer
      BY <1>11 DEF EmitMetrics, streamVars
    <2>2. e \in Stream!Event
      BY <1>1, <2>1
    <2>3. IsCount(metrics) /\ IsCount(R)
      BY <1>2, <2>2, MetricsOfEvent DEF TypeInv, MetricTypes, IsCount
    <2>4. counting'[p] = None /\ \A q \in Producer : q # p => counting'[q] = counting[q]
      BY <1>1, <2>1
    <2>5. DOMAIN metrics' = DOMAIN metrics \cup DOMAIN R /\ IsFiniteSet(DOMAIN metrics')
      <3>1. DOMAIN (metrics (+) R) = DOMAIN metrics \cup DOMAIN R
        BY DEF (+)
      <3>2. IsCount(metrics (+) R)
        BY <2>3, AmountsAdd
      <3> QED
        BY <2>1, <3>1, <3>2 DEF IsCount
    <2>6. \A m : m \in MetricKey => m \in MetricKey'
      BY <1>3, <2>4, <2>5
    <2> HIDE DEF e
    <2>7. ASSUME NEW keys
          PROVE  Amount(metrics', keys) + SumFunctionOnSet(Pending(keys)', Producer)
                   = SumFunctionOnSet(Recordings(keys)', DOMAIN buffer')
      <3> DEFINE f == Pending(keys)
                 g == Pending(keys)'
                 a == Amount(R, keys)
      <3>1. f[p] = a /\ g[p] = 0 /\ \A q \in Producer : q # p => g[q] = f[q]
        BY <2>1, <2>2, <2>4 DEF Pending, e
      <3>2. a \in Nat /\ Amount(metrics (+) R, keys) = Amount(metrics, keys) + a
        BY <2>3, AmountsAdd
      <3> HIDE DEF f, g, a
      <3>3. \A q \in Producer : f[q] \in Nat /\ g[q] \in Nat
        <4>1. \A q \in Producer : f[q] \in Nat
          BY <1>4 DEF f
        <4> QED
          BY <3>1, <4>1
      <3>4. SumFunctionOnSet(f, Producer) = SumFunctionOnSet(g, Producer) + a
        <4>1. SumFunctionOnSet(f, Producer) + g[p] = SumFunctionOnSet(g, Producer) + f[p]
          BY <3>1, <3>3, SumDiffers, ProducerAssumption
        <4>2. SumFunctionOnSet(f, Producer) \in Nat /\ SumFunctionOnSet(g, Producer) \in Nat
          BY <3>3, SumType, ProducerAssumption
        <4> QED
          BY <3>1, <3>2, <4>1, <4>2
      <3>5. /\ Amount(metrics, keys) \in Nat
            /\ SumFunctionOnSet(f, Producer) \in Nat /\ SumFunctionOnSet(g, Producer) \in Nat
        BY <1>4, <3>3, SumType, ProducerAssumption DEF f
      <3>6. Amount(metrics, keys) + SumFunctionOnSet(f, Producer)
              = SumFunctionOnSet(Recordings(keys), DOMAIN buffer)
        BY <1>2 DEF f
      <3>7. Amount(metrics', keys) = Amount(metrics, keys) + a
        BY <2>1, <3>2
      <3>8. Amount(metrics', keys) + SumFunctionOnSet(g, Producer)
              = SumFunctionOnSet(Recordings(keys), DOMAIN buffer)
        BY <3>2, <3>4, <3>5, <3>6, <3>7
      <3>9. Recordings(keys)' = Recordings(keys)
        BY <2>1 DEF Recordings
      <3> QED
        BY <2>1, <3>8, <3>9 DEF g
    <2>8. \A q \in Producer : built'[q] # None => counting'[q] = None
      BY <1>2, <2>1, <2>4
    <2>9. \A i \in DOMAIN buffer' : DOMAIN Recorded(Decoded(buffer'[i])) \subseteq MetricKey'
      BY <1>2, <2>1, <2>6
    <2> QED
      BY <1>5, <2>5, <2>7, <2>8, <2>9
  <1> QED
    BY <1>7, <1>8, <1>9, <1>10, <1>11 DEF Next

LEMMA MetricsHold == Spec => []MetricsInv
  BY MetricsInit, MetricsStep, TypesHold, PTL DEF Spec

\* The metrics with a name.
Named(f) == {m \in MetricKey : m[1] = f}

\* The metrics of an event, by name.
LEMMA MetricsByName ==
  ASSUME NEW e \in Stream!Event
  PROVE  LET d == Decoded(e)  L == Labels(d)  H == Histograms(d) \cap DOMAIN d.data
         IN  \A m \in DOMAIN Recorded(d) :
               /\ m[2] = L
               /\ m[1] = "events" => m = <<"events", L>>
               /\ m[1] \in TokenField => m[1] \in TokenCounters(d) /\ m = <<m[1], L>>
               /\ m[1] \in HistogramName => m[1] \in H /\ m = <<m[1], L, d.data[m[1]]>>
  <1> DEFINE d == Decoded(e)
             L == Labels(d)
             R == Recorded(d)
             H == Histograms(d) \cap DOMAIN d.data
  <1>1. /\ TokenCounters(d) \subseteq TokenField /\ H \subseteq HistogramName
        /\ \A m \in DOMAIN R : \/ \E f \in TokenCounters(d) : m = <<f, L>>
                               \/ \E f \in H : m = <<f, L, d.data[f]>>
                               \/ m = <<"events", L>>
    BY MetricsOfEvent
  <1>2. /\ \A f \in TokenField : f \notin HistogramName /\ f # "events"
        /\ "events" \notin HistogramName
    BY DEF TokenField, HistogramName
  <1> HIDE DEF d, L, R, H
  <1>3. ASSUME NEW m \in DOMAIN R
        PROVE  /\ m[2] = L
               /\ m[1] = "events" => m = <<"events", L>>
               /\ m[1] \in TokenField => m[1] \in TokenCounters(d) /\ m = <<m[1], L>>
               /\ m[1] \in HistogramName => m[1] \in H /\ m = <<m[1], L, d.data[m[1]]>>
    <2>1. CASE \E f \in TokenCounters(d) : m = <<f, L>>
      BY <1>1, <1>2, <2>1
    <2>2. CASE \E f \in H : m = <<f, L, d.data[f]>>
      BY <1>1, <1>2, <2>2
    <2>3. CASE m = <<"events", L>>
      BY <1>2, <2>3
    <2> QED
      BY <1>1, <2>1, <2>2, <2>3
  <1> QED
    BY <1>3 DEF d, L, R, H

\* What is captured, and that all its metrics are among the keys.
LEMMA CapturedMetrics ==
  ASSUME TypeInv, MetricsInv
  PROVE  /\ IsSequence(Captured) /\ DOMAIN Captured = DOMAIN buffer
         /\ IsFiniteSet(DOMAIN buffer)
         /\ \A i \in DOMAIN buffer :
              /\ buffer[i] \in Stream!Event /\ Captured[i] = Decoded(buffer[i])
              /\ DOMAIN Recorded(Captured[i]) \subseteq MetricKey
  <1>1. buffer \in Seq(Stream!Event)
    BY DEF TypeInv, Stream!TypeOK
  <1>2. DOMAIN buffer = 1..Len(buffer) /\ Len(buffer) \in Nat
    BY <1>1
  <1>3. Captured = [i \in 1..Len(buffer) |-> Decoded(buffer[i])]
    BY <1>2 DEF Captured
  <1>4. DOMAIN Captured = DOMAIN buffer /\ \A i \in DOMAIN buffer : Captured[i] = Decoded(buffer[i])
    BY <1>2, <1>3
  <1>5. IsSequence(Captured)
    <2>1. Captured = [i \in 1..Len(buffer) |-> Captured[i]]
      BY <1>3
    <2>2. \A i \in 1..Len(buffer) : Captured[i] \in Range(Captured)
      BY <1>3 DEF Range
    <2> QED
      BY <1>2, <2>1, <2>2 DEF IsSequence
  <1>6. \A i \in DOMAIN buffer : buffer[i] \in Stream!Event
    BY <1>1
  <1>7. IsFiniteSet(DOMAIN buffer)
    BY <1>4, <1>5, SequencePlaces
  <1> QED
    BY <1>4, <1>5, <1>6, <1>7 DEF MetricsInv

\* If the events at some places have one metric each among the keys, and the other
\* events none, these are what the keys amount to.
LEMMA AccountedAtPlaces ==
  ASSUME TypeInv, MetricsInv, NEW keys, NEW T \in SUBSET DOMAIN Captured, NEW f,
         \A i \in DOMAIN Captured :
           keys \cap DOMAIN Recorded(Captured[i]) = {} \/ i \in T,
         \A i \in T : \E m : /\ keys \cap DOMAIN Recorded(Captured[i]) = {m}
                             /\ Recorded(Captured[i])[m] = f[i]
  PROVE  /\ \A i \in T : f[i] \in Nat
         /\ Accounted(keys) = SumFunctionOnSet(f, T)
  <1> DEFINE r == Recordings(keys)
             D == DOMAIN buffer
  <1>1. /\ DOMAIN Captured = D /\ IsFiniteSet(D) /\ T \subseteq D
        /\ \A i \in D : buffer[i] \in Stream!Event /\ Captured[i] = Decoded(buffer[i])
    BY CapturedMetrics
  <1>2. \A i \in D : r[i] = Amount(Recorded(Captured[i]), keys) /\ IsCount(Recorded(Captured[i]))
    BY <1>1, MetricsOfEvent DEF Recordings
  <1>3. \A i \in D : i \notin T => r[i] = 0
    BY <1>1, <1>2, AmountOfOne
  <1>4. ASSUME NEW i \in T PROVE r[i] = f[i] /\ f[i] \in Nat
    <2>1. PICK m : /\ keys \cap DOMAIN Recorded(Captured[i]) = {m}
                   /\ Recorded(Captured[i])[m] = f[i]
      OBVIOUS
    <2>2. i \in D /\ m \in DOMAIN Recorded(Captured[i])
      BY <1>1, <2>1
    <2>3. r[i] = Recorded(Captured[i])[m]
      BY <1>2, <2>1, <2>2, AmountOfOne
    <2> QED
      BY <1>2, <2>1, <2>2, <2>3 DEF IsCount
  <1>5. Accounted(keys) = SumFunctionOnSet(r, D)
    BY DEF MetricsInv
  <1> HIDE DEF r, D
  <1>6. \A i \in D : r[i] \in Nat
    BY <1>3, <1>4
  <1>7. SumFunctionOnSet(r, D) = SumFunctionOnSet(r, T)
    BY <1>1, <1>3, <1>6, SumWithin
  <1>8. IsFiniteSet(T)
    BY <1>1, FS_Subset
  <1>9. SumFunctionOnSet(r, T) = SumFunctionOnSet(f, T)
    BY <1>4, <1>8, SumAgrees
  <1> QED
    BY <1>4, <1>5, <1>7, <1>9

\* If each counts for one, there are as many.
LEMMA AccountedOnes ==
  ASSUME TypeInv, MetricsInv, NEW keys, NEW T \in SUBSET DOMAIN Captured,
         \A i \in DOMAIN Captured :
           keys \cap DOMAIN Recorded(Captured[i]) = {} \/ i \in T,
         \A i \in T : \E m : /\ keys \cap DOMAIN Recorded(Captured[i]) = {m}
                             /\ Recorded(Captured[i])[m] = 1
  PROVE  Accounted(keys) = Cardinality(T)
  <1> DEFINE f == [i \in T |-> 1]
  <1>1. \A i \in T : f[i] = 1
    OBVIOUS
  <1> HIDE DEF f
  <1>2. Accounted(keys) = SumFunctionOnSet(f, T)
    <2>1. \A i \in T : \E m : /\ keys \cap DOMAIN Recorded(Captured[i]) = {m}
                              /\ Recorded(Captured[i])[m] = f[i]
      BY <1>1
    <2>2. \A i \in DOMAIN Captured : keys \cap DOMAIN Recorded(Captured[i]) = {} \/ i \in T
      OBVIOUS
    <2> QED
      BY ONLY TypeInv, MetricsInv, T \in SUBSET DOMAIN Captured, <2>1, <2>2, AccountedAtPlaces
  <1>3. IsFiniteSet(T)
    BY CapturedMetrics, FS_Subset
  <1>4. SumFunctionOnSet(f, T) = Cardinality(T)
    BY <1>1, <1>3, SumCounts
  <1> QED
    BY <1>2, <1>4

\* The events of some kinds are counted.
LEMMA KindsAccounted ==
  ASSUME TypeInv, MetricsInv, NEW kinds
  PROVE  Accounted({m \in Named("events") : m[2].kind \in kinds}) = Count(Captured, kinds)
  <1> DEFINE keys == {m \in Named("events") : m[2].kind \in kinds}
             T    == {i \in DOMAIN Captured : Captured[i].kind \in kinds}
  <1>1. ASSUME NEW i \in DOMAIN Captured
        PROVE  LET d == Captured[i]  R == Recorded(d)  m == <<"events", Labels(d)>> IN
               /\ i \notin T => keys \cap DOMAIN R = {}
               /\ i \in T => keys \cap DOMAIN R = {m}
               /\ R[m] = 1
    <2> DEFINE d == Captured[i]
               R == Recorded(d)
               m == <<"events", Labels(d)>>
    <2>1. /\ buffer[i] \in Stream!Event /\ d = Decoded(buffer[i])
          /\ DOMAIN R \subseteq MetricKey
      BY CapturedMetrics
    <2>2. m \in DOMAIN R /\ R[m] = 1 /\ Labels(d).kind = d.kind
      BY <2>1, MetricsOfEvent
    <2>3. \A x \in DOMAIN R : x[2] = Labels(d) /\ (x[1] = "events" => x = m)
      BY <2>1, MetricsByName
    <2>4. m[1] = "events" /\ m[2] = Labels(d) /\ (i \in T <=> d.kind \in kinds)
      OBVIOUS
    <2> HIDE DEF R, m, d, T
    <2> QED
      BY <2>1, <2>2, <2>3, <2>4 DEF Named, d, R, m
  <1> HIDE DEF keys
  <1>2. T \in SUBSET DOMAIN Captured /\ Count(Captured, kinds) = Cardinality(T)
    BY DEF Count
  <1> HIDE DEF T
  <1>3. Accounted(keys) = Cardinality(T)
    BY <1>1, <1>2, AccountedOnes
  <1> QED
    BY <1>2, <1>3 DEF keys

\* Where the events are that have a field.
Having(s, kinds, field) == {i \in DOMAIN s : s[i].kind \in kinds /\ field \in DOMAIN s[i].data}

\* The values of a field are those of the events that have it, in their order.
LEMMA ValuesOfField ==
  ASSUME NEW s, IsSequence(s), NEW kinds, NEW field
  PROVE  LET T == Having(s, kinds, field)
             v == Values(s, kinds, field)
         IN  /\ T \in SUBSET Nat /\ IsFiniteSet(T) /\ Cardinality(T) \in Nat
             /\ DOMAIN v = 1..Cardinality(T) /\ Len(v) = Cardinality(T)
             /\ \E g : /\ IsList(g, T)
                       /\ \A n \in 1..Cardinality(T) : v[n] = s[g[n]].data[field]
  <1> DEFINE T == Having(s, kinds, field)
             v == Values(s, kinds, field)
             N == Cardinality(T)
  <1>1. T \in SUBSET DOMAIN s
    BY DEF Having
  <1>2. v = [n \in DOMAIN Select(s, T) |-> Select(s, T)[n].data[field]]
    BY DEF Values, Having
  <1> HIDE DEF T, v
  <1>3. T \in SUBSET Nat /\ IsFiniteSet(T) /\ N \in Nat
    BY <1>1, SequencePlaces
  <1>4. PICK g : IsList(g, T) /\ Select(s, T) = [n \in 1..N |-> s[g[n]]]
    BY <1>3, Selection
  <1>5. DOMAIN v = 1..N /\ \A n \in 1..N : v[n] = s[g[n]].data[field]
    BY <1>2, <1>4
  <1>6. Len(v) = N
    <2>1. \E n \in Nat : DOMAIN v = 1..n
      BY <1>3, <1>5
    <2> QED
      BY <1>2, <1>3, <1>5
  <1> QED
    BY <1>3, <1>4, <1>5, <1>6 DEF T, v

\* The tokens of a kind are counted.
LEMMA TokensAccounted ==
  ASSUME TypeInv, MetricsInv, NEW f \in TokenField
  PROVE  Accounted(Named(f)) = Total(Values(Captured, {"prompt.completed"}, f))
  <1> DEFINE keys == Named(f)
             T    == Having(Captured, {"prompt.completed"}, f)
             v    == Values(Captured, {"prompt.completed"}, f)
             c    == [i \in T |-> Captured[i].data[f]]
             N    == Cardinality(T)
  <1>1. ASSUME NEW i \in DOMAIN Captured
        PROVE  LET d == Captured[i]  R == Recorded(d)  m == <<f, Labels(d)>> IN
               /\ i \notin T => keys \cap DOMAIN R = {}
               /\ i \in T => keys \cap DOMAIN R = {m} /\ R[m] = d.data[f]
    <2> DEFINE d == Captured[i]
               R == Recorded(d)
               m == <<f, Labels(d)>>
    <2>1. /\ buffer[i] \in Stream!Event /\ d = Decoded(buffer[i])
          /\ DOMAIN R \subseteq MetricKey
      BY CapturedMetrics
    <2>2. i \in T <=> f \in TokenCounters(d)
      BY DEF TokenCounters, Having
    <2>3. f \in TokenCounters(d) => m \in DOMAIN R /\ R[m] = d.data[f]
      BY <2>1, MetricsOfEvent
    <2>4. \A x \in DOMAIN R : x[1] = f => f \in TokenCounters(d) /\ x = m
      BY <2>1, MetricsByName
    <2>5. m[1] = f
      OBVIOUS
    <2> HIDE DEF R, m, d, T
    <2> QED
      BY <2>1, <2>2, <2>3, <2>4, <2>5 DEF Named, d, R, m
  <1>2. IsSequence(Captured)
    BY CapturedMetrics
  <1>3. T \in SUBSET DOMAIN Captured
    BY DEF Having
  <1>4. /\ T \in SUBSET Nat /\ IsFiniteSet(T) /\ N \in Nat /\ DOMAIN v = 1..N
        /\ \E g : IsList(g, T) /\ \A n \in 1..N : v[n] = Captured[g[n]].data[f]
    BY <1>2, ValuesOfField
  <1>5. \A i \in T : c[i] = Captured[i].data[f]
    OBVIOUS
  <1> HIDE DEF keys, T, c, v
  <1>6. PICK g : IsList(g, T) /\ \A n \in 1..N : v[n] = Captured[g[n]].data[f]
    BY <1>4
  <1>7. (\A i \in T : c[i] \in Nat) /\ Accounted(keys) = SumFunctionOnSet(c, T)
    <2>1. \A i \in T : \E m : /\ keys \cap DOMAIN Recorded(Captured[i]) = {m}
                              /\ Recorded(Captured[i])[m] = c[i]
      BY <1>1, <1>3, <1>5
    <2>2. \A i \in DOMAIN Captured : keys \cap DOMAIN Recorded(Captured[i]) = {} \/ i \in T
      BY <1>1
    <2> QED
      BY <1>3, <2>1, <2>2, AccountedAtPlaces
  <1>8. SumFunctionOnSet(v, 1..N) = SumFunctionOnSet(c, T)
    <2>1. \A n \in 1..N : g[n] \in T /\ v[n] = c[g[n]]
      BY <1>5, <1>6 DEF IsList
    <2> QED
      BY <1>4, <1>6, <1>7, <2>1, SumSelected
  <1>9. Total(v) = SumFunctionOnSet(v, 1..N)
    BY <1>4 DEF Total, SumFunction
  <1> QED
    BY <1>7, <1>8, <1>9 DEF keys, v

\* So are the errors of a class.
LEMMA ErrorsAccounted ==
  ASSUME TypeInv, MetricsInv, NEW c \in DOMAIN ErrorsByClass(Captured)
  PROVE  Accounted({m \in Named("events") :
                      "error_class" \in DOMAIN m[2] /\ m[2].error_class = c})
           = ErrorsByClass(Captured)[c]
  <1> DEFINE keys == {m \in Named("events") :
                        "error_class" \in DOMAIN m[2] /\ m[2].error_class = c}
             T    == Having(Captured, FailureKind, "error_class")
             E    == {i \in T : Captured[i].data.error_class = c}
             v    == Values(Captured, FailureKind, "error_class")
             N    == Cardinality(T)
             P    == {n \in 1..N : v[n] = c}
  <1>1. ASSUME NEW i \in DOMAIN Captured
        PROVE  LET d == Captured[i]  R == Recorded(d)  m == <<"events", Labels(d)>> IN
               /\ i \notin E => keys \cap DOMAIN R = {}
               /\ i \in E => keys \cap DOMAIN R = {m}
               /\ R[m] = 1
    <2> DEFINE d == Captured[i]
               L == Labels(d)
               R == Recorded(d)
               m == <<"events", L>>
    <2>1. /\ buffer[i] \in Stream!Event /\ d = Decoded(buffer[i])
          /\ DOMAIN R \subseteq MetricKey
      BY CapturedMetrics
    <2>2. /\ m \in DOMAIN R /\ R[m] = 1
          /\ "error_class" \in DOMAIN L <=> ScalarField(d, "error_class") # None
          /\ "error_class" \in DOMAIN L => L.error_class = ScalarField(d, "error_class")
      BY <2>1, MetricsOfEvent
    <2>3. \A x \in DOMAIN R : x[2] = L /\ (x[1] = "events" => x = m)
      BY <2>1, MetricsByName
    <2>4. /\ d.kind \in EventKind
          /\ "error_class" \in DOMAIN d.data => d.data.error_class # None
      <3>1. /\ d.kind = buffer[i].body.event.kind /\ d.data = buffer[i].body.event.data
            /\ IsEvent(buffer[i].body.event)
        BY <2>1, DecodedType
      <3> HIDE DEF d
      <3> QED
        BY <3>1 DEF IsEvent
    <2>5. "error_class" \in Surfaced(d.kind) <=> d.kind \in FailureKind
      BY <2>4 DEF Surfaced, FailureKind, EventKind, PromptKind, ToolKind, HostedKind,
                  MemoryKind, ComposeKind, SessionKind, SearchKind
    <2>6. ScalarField(d, "error_class") =
            IF d.kind \in FailureKind /\ "error_class" \in DOMAIN d.data
              THEN d.data.error_class ELSE None
      BY <2>5 DEF ScalarField
    <2>7. i \in E <=> /\ d.kind \in FailureKind /\ "error_class" \in DOMAIN d.data
                      /\ d.data.error_class = c
      BY DEF Having
    <2>8. m[1] = "events" /\ m[2] = L
      OBVIOUS
    <2> HIDE DEF R, m, d, L, E
    <2>9. i \in E <=> "error_class" \in DOMAIN L /\ L.error_class = c
      BY <2>2, <2>4, <2>6, <2>7
    <2> QED
      BY <2>1, <2>2, <2>3, <2>8, <2>9 DEF Named, d, R, m, L
  <1>2. IsSequence(Captured)
    BY CapturedMetrics
  <1>3. T \in SUBSET DOMAIN Captured
    BY DEF Having
  <1>4. /\ T \in SUBSET Nat /\ IsFiniteSet(T) /\ N \in Nat /\ DOMAIN v = 1..N
        /\ \E g : IsList(g, T) /\ \A n \in 1..N : v[n] = Captured[g[n]].data["error_class"]
    BY <1>2, ValuesOfField
  <1>5. ErrorsByClass(Captured)[c] = Cardinality(P)
    BY <1>4 DEF ErrorsByClass, Tally
  <1>6. E \in SUBSET T /\ \A i \in T : i \in E <=> Captured[i].data.error_class = c
    OBVIOUS
  <1> HIDE DEF keys, T, E, v
  <1>7. Accounted(keys) = Cardinality(E)
    <2>1. E \in SUBSET DOMAIN Captured
      BY <1>3, <1>6
    <2> QED
      BY <1>1, <2>1, AccountedOnes
  <1>8. Cardinality(P) = Cardinality(E)
    <2>0. PICK g : IsList(g, T) /\ \A n \in 1..N : v[n] = Captured[g[n]].data.error_class
      BY <1>4
    <2> DEFINE h == [n \in P |-> g[n]]
    <2>1. /\ \A n \in 1..N : g[n] \in T
          /\ \A m, n \in 1..N : m <= n <=> g[m] <= g[n]
          /\ \A i \in T : \E n \in 1..N : g[n] = i
      BY <2>0 DEF IsList
    <2>2. \A n \in P : n \in 1..N /\ h[n] \in E /\ h[n] = g[n]
      BY <2>0, <1>6, <2>1
    <2>3. \A m, n \in P : h[m] = h[n] => m = n
      <3> SUFFICES ASSUME NEW m \in P, NEW n \in P, h[m] = h[n] PROVE m = n
        OBVIOUS
      <3>1. g[m] \in Nat /\ g[n] \in Nat /\ g[m] = g[n] /\ m \in 1..N /\ n \in 1..N
        BY <1>4, <2>1, <2>2
      <3>2. m <= n /\ n <= m
        BY <2>1, <3>1
      <3> QED
        BY <3>1, <3>2
    <2>4. \A i \in E : \E n \in P : h[n] = i
      BY <2>0, <1>6, <2>1
    <2>5. h \in [P -> E]
      BY <2>2
    <2>6. P \in SUBSET (1..N) /\ IsFiniteSet(1..N)
      <3>1. 1 \in Int /\ N \in Int
        BY <1>4
      <3>2. IsFiniteSet(1..N)
        BY ONLY <3>1, FS_Interval
      <3> QED
        BY <3>2
    <2>7. IsFiniteSet(P)
      BY <2>6, FS_Subset
    <2> HIDE DEF h, P
    <2>8. h \in Bijection(P, E)
      BY <2>3, <2>4, <2>5 DEF Bijection, Injection, Surjection, IsInjective
    <2>9. IsFiniteSet(E) /\ Cardinality(E) = Cardinality(P)
      BY <2>7, <2>8, FS_Bijection DEF ExistsBijection
    <2> QED
      BY <2>9
  <1> QED
    BY <1>5, <1>7, <1>8 DEF keys

\* And the values of a histogram, where the kind is one of those whose field is read.
LEMMA ValuesAccounted ==
  ASSUME TypeInv, MetricsInv, NEW f \in HistogramName, NEW k,
         \A d : d.kind = k => f \in Histograms(d)
  PROVE  Accounted({m \in Named(f) : m[2].kind = k}) = Len(Values(Captured, {k}, f))
  <1> DEFINE keys == {m \in Named(f) : m[2].kind = k}
             T    == Having(Captured, {k}, f)
             v    == Values(Captured, {k}, f)
  <1>1. ASSUME NEW i \in DOMAIN Captured
        PROVE  LET d == Captured[i]  R == Recorded(d)  m == <<f, Labels(d), d.data[f]>> IN
               /\ i \notin T => keys \cap DOMAIN R = {}
               /\ i \in T => keys \cap DOMAIN R = {m} /\ R[m] = 1
    <2> DEFINE d == Captured[i]
               R == Recorded(d)
               m == <<f, Labels(d), d.data[f]>>
               H == Histograms(d) \cap DOMAIN d.data
    <2>1. /\ buffer[i] \in Stream!Event /\ d = Decoded(buffer[i])
          /\ DOMAIN R \subseteq MetricKey
      BY CapturedMetrics
    <2>2. /\ f \in H => m \in DOMAIN R /\ R[m] = 1
          /\ Labels(d).kind = d.kind
      BY <2>1, MetricsOfEvent
    <2>3. \A x \in DOMAIN R : x[2] = Labels(d) /\ (x[1] = f => f \in H /\ x = m)
      BY <2>1, MetricsByName
    <2>4. m[1] = f /\ m[2] = Labels(d) /\ (i \in T <=> d.kind = k /\ f \in DOMAIN d.data)
      BY DEF Having
    <2>5. d.kind = k /\ f \in DOMAIN d.data => f \in H
      OBVIOUS
    <2>6. f \in H => f \in DOMAIN d.data
      OBVIOUS
    <2> HIDE DEF R, m, d, T, H
    <2> QED
      BY <2>1, <2>2, <2>3, <2>4, <2>5, <2>6 DEF Named, d, R, m
  <1>2. IsSequence(Captured)
    BY CapturedMetrics
  <1>3. T \in SUBSET DOMAIN Captured /\ Len(v) = Cardinality(T)
    <2>1. T \in SUBSET DOMAIN Captured
      BY DEF Having
    <2> QED
      BY <1>2, <2>1, ValuesOfField
  <1> HIDE DEF keys, T, v
  <1>4. Accounted(keys) = Cardinality(T)
    <2>1. \A i \in DOMAIN Captured : keys \cap DOMAIN Recorded(Captured[i]) = {} \/ i \in T
      BY <1>1
    <2>2. \A i \in T : \E m : /\ keys \cap DOMAIN Recorded(Captured[i]) = {m}
                              /\ Recorded(Captured[i])[m] = 1
      BY <1>1, <1>3
    <2> QED
      BY <1>3, <2>1, <2>2, AccountedOnes
  <1> QED
    BY <1>3, <1>4 DEF keys, v

\* Only one kind has a time to the first token.
LEMMA FirstTokensAccounted ==
  ASSUME TypeInv, MetricsInv
  PROVE  Accounted(Named("time_to_first_token_ms"))
           = Len(Values(Captured, {"prompt.completed"}, "time_to_first_token_ms"))
  <1> DEFINE f    == "time_to_first_token_ms"
             k    == "prompt.completed"
             keys == Named(f)
             T    == Having(Captured, {k}, f)
             v    == Values(Captured, {k}, f)
  <1>1. ASSUME NEW i \in DOMAIN Captured
        PROVE  LET d == Captured[i]  R == Recorded(d)  m == <<f, Labels(d), d.data[f]>> IN
               /\ i \notin T => keys \cap DOMAIN R = {}
               /\ i \in T => keys \cap DOMAIN R = {m} /\ R[m] = 1
    <2> DEFINE d == Captured[i]
               R == Recorded(d)
               m == <<f, Labels(d), d.data[f]>>
               H == Histograms(d) \cap DOMAIN d.data
    <2>1. /\ buffer[i] \in Stream!Event /\ d = Decoded(buffer[i])
          /\ DOMAIN R \subseteq MetricKey
      BY CapturedMetrics
    <2>2. f \in H => m \in DOMAIN R /\ R[m] = 1
      BY <2>1, MetricsOfEvent
    <2>3. f \in HistogramName
      BY DEF HistogramName
    <2>4. \A x \in DOMAIN R : x[1] = f => f \in H /\ x = m
      <3> HIDE DEF f
      <3> QED
        BY <2>1, <2>3, MetricsByName
    <2>5. m[1] = f /\ (i \in T <=> d.kind = k /\ f \in DOMAIN d.data)
      BY DEF Having
    <2>6. f \in Histograms(d) <=> d.kind = k
      BY DEF Histograms, CompletedKind, SearchKind
    <2>7. i \in T <=> f \in H
      BY <2>5, <2>6
    <2> HIDE DEF R, m, d, T, H, f, k
    <2> QED
      BY <2>1, <2>2, <2>4, <2>5, <2>7 DEF Named, d, R, m
  <1>2. IsSequence(Captured)
    BY CapturedMetrics
  <1>3. T \in SUBSET DOMAIN Captured /\ Len(v) = Cardinality(T)
    <2>1. T \in SUBSET DOMAIN Captured
      BY DEF Having
    <2> QED
      BY <1>2, <2>1, ValuesOfField
  <1> HIDE DEF keys, T, v, f, k
  <1>4. Accounted(keys) = Cardinality(T)
    <2>1. \A i \in DOMAIN Captured : keys \cap DOMAIN Recorded(Captured[i]) = {} \/ i \in T
      BY <1>1
    <2>2. \A i \in T : \E m : /\ keys \cap DOMAIN Recorded(Captured[i]) = {m}
                              /\ Recorded(Captured[i])[m] = 1
      BY <1>1, <1>3
    <2> QED
      BY <1>3, <2>1, <2>2, AccountedOnes
  <1> QED
    BY <1>3, <1>4 DEF keys, v, f, k

\* The terminal events are those of four kinds of ends.
LEMMA TerminalCounts ==
  ASSUME NEW s, IsSequence(s)
  PROVE  /\ Count(s, CompletedKind) + Count(s, {"tool.failed"}) + Count(s, {"tool.skipped"})
              + Count(s, {"tool.terminated"}) = Count(s, TerminalKind)
         /\ Count(s, {"prompt.completed"}) + Count(s, {"prompt.failed"})
              = Count(s, {"prompt.completed", "prompt.failed"})
  <1> DEFINE At(kinds) == {i \in DOMAIN s : s[i].kind \in kinds}
  <1>1. ASSUME NEW A, NEW B, A \cap B = {}
        PROVE  Count(s, A) + Count(s, B) = Count(s, A \cup B)
    <2>1. At(A) \cap At(B) = {} /\ At(A) \cup At(B) = At(A \cup B)
      BY <1>1
    <2>2. IsFiniteSet(At(A)) /\ IsFiniteSet(At(B))
      <3>1. At(A) \in SUBSET DOMAIN s /\ At(B) \in SUBSET DOMAIN s
        OBVIOUS
      <3> HIDE DEF At
      <3> QED
        BY <3>1, SequencePlaces
    <2>3. Count(s, A) = Cardinality(At(A)) /\ Count(s, B) = Cardinality(At(B))
          /\ Count(s, A \cup B) = Cardinality(At(A \cup B))
      BY DEF Count
    <2> HIDE DEF At
    <2>4. Cardinality(At(A) \cup At(B)) = Cardinality(At(A)) + Cardinality(At(B))
      BY <2>1, <2>2, DisjointSum
    <2> QED
      BY <2>1, <2>3, <2>4
  <1> HIDE DEF At
  <1> DEFINE c  == CompletedKind
             f  == {"tool.failed"}
             k  == {"tool.skipped"}
             t  == {"tool.terminated"}
             p  == {"prompt.completed"}
             q  == {"prompt.failed"}
  <1>2. c \cap f = {} /\ (c \cup f) \cap k = {} /\ ((c \cup f) \cup k) \cap t = {}
        /\ p \cap q = {}
    BY DEF CompletedKind
  <1>3. TerminalKind = ((c \cup f) \cup k) \cup t
        /\ {"prompt.completed", "prompt.failed"} = p \cup q
    BY DEF TerminalKind
  <1> HIDE DEF c, f, k, t, p, q
  <1>4. Count(s, c) + Count(s, f) = Count(s, c \cup f)
    BY <1>1, <1>2
  <1>5. Count(s, c \cup f) + Count(s, k) = Count(s, (c \cup f) \cup k)
    BY <1>1, <1>2
  <1>6. Count(s, (c \cup f) \cup k) + Count(s, t) = Count(s, TerminalKind)
    BY <1>1, <1>2, <1>3
  <1>7. Count(s, p) + Count(s, q) = Count(s, {"prompt.completed", "prompt.failed"})
    BY <1>1, <1>2, <1>3
  <1> QED
    BY <1>4, <1>5, <1>6, <1>7 DEF c, f, k, t, p, q

\* The metrics of the process agree with the rollups of everything captured (metrics_ext.rs
\* and insights.rs compute them apart), whatever the producers emit and however they
\* take turns, but for the metrics that a producer has still to emit: counters with the
\* sums of the fields, counts of events with the numbers of their kinds and of the classes
\* of errors, and histograms with the numbers of samples (which no latency summary has of embeddings,
\* retrievals and rerankings).
THEOREM MetricsAgree == Spec => []MetricsMatchInsights
  <1>1. ASSUME TypeInv, MetricsInv PROVE MetricsMatchInsights
    <2> DEFINE Counted(kinds) == Accounted({m \in Named("events") : m[2].kind \in kinds})
               errors  == ErrorsByClass(Captured)
               prompts == PromptStats(Captured)
               tools   == ToolStats(Captured)
               byKind  == CountByKind(Captured)
    <2>1. IsSequence(Captured)
      BY <1>1, CapturedMetrics
    <2>2. \A kinds : Counted(kinds) = Count(Captured, kinds)
      BY <1>1, KindsAccounted
    <2>3. \A f \in TokenField : Accounted(Named(f)) = prompts.tokens[f]
      BY <1>1, TokensAccounted DEF PromptStats
    <2>4. \A k \in DOMAIN byKind : Counted({k}) = byKind[k]
      <3>1. \A k \in DOMAIN byKind : byKind[k] = Count(Captured, {k})
        BY DEF CountByKind, Count
      <3> HIDE DEF Counted, byKind
      <3> QED
        BY <2>2, <3>1
    <2>5. prompts.completed + prompts.failed = Counted({"prompt.completed", "prompt.failed"})
      <3>1. /\ prompts.completed = Count(Captured, {"prompt.completed"})
            /\ prompts.failed = Count(Captured, {"prompt.failed"})
        BY DEF PromptStats
      <3> HIDE DEF Counted, prompts
      <3> QED
        BY <2>1, <2>2, <3>1, TerminalCounts
    <2>6. tools.invoked = Counted(InvokeKind)
      <3>1. tools.invoked = Count(Captured, InvokeKind)
        BY DEF ToolStats
      <3> HIDE DEF Counted, tools
      <3> QED
        BY <2>2, <3>1
    <2>7. tools.completed + tools.failed + tools.skipped + tools.terminated
            = Counted(TerminalKind)
      <3>1. /\ tools.completed = Count(Captured, CompletedKind)
            /\ tools.failed = Count(Captured, {"tool.failed"})
            /\ tools.skipped = Count(Captured, {"tool.skipped"})
            /\ tools.terminated = Count(Captured, {"tool.terminated"})
        BY DEF ToolStats
      <3> HIDE DEF Counted, tools
      <3> QED
        BY <2>1, <2>2, <3>1, TerminalCounts
    <2>8. \A c \in DOMAIN errors :
            Accounted({m \in Named("events") :
                         "error_class" \in DOMAIN m[2] /\ m[2].error_class = c}) = errors[c]
      BY <1>1, ErrorsAccounted
    <2>9. ASSUME NEW k \in TimedKind \cup SearchKind
          PROVE  LET recorded == Accounted({m \in Named("duration_ms") : m[2].kind = k}) IN
                 /\ recorded = Len(Values(Captured, {k}, "duration_ms"))
                 /\ Latency(Captured, k).count = IF k \in TimedKind THEN recorded ELSE 0
      <3> DEFINE recorded == Accounted({m \in Named("duration_ms") : m[2].kind = k})
      <3>1. \A d : d.kind = k => "duration_ms" \in Histograms(d)
        BY DEF Histograms, TimedKind, CompletedKind, SearchKind
      <3>2. "duration_ms" \in HistogramName
        BY DEF HistogramName
      <3>3. recorded = Len(Values(Captured, {k}, "duration_ms"))
        BY <1>1, <3>1, <3>2, ValuesAccounted
      <3>4. ASSUME k \in TimedKind
            PROVE  Latency(Captured, k).count = Len(Values(Captured, {k}, "duration_ms"))
        <4>1. TimedKind \cap {k} = {k}
          BY <3>4
        <4> QED
          BY <4>1 DEF Latency, LatencySummary
      <3>5. k \notin TimedKind => Latency(Captured, k).count = 0
        BY UntimedSummary
      <3> HIDE DEF recorded
      <3>6. /\ recorded = Len(Values(Captured, {k}, "duration_ms"))
            /\ Latency(Captured, k).count = IF k \in TimedKind THEN recorded ELSE 0
        BY <3>3, <3>4, <3>5
      <3> QED
        BY <3>6 DEF recorded
    <2>10. Accounted(Named("time_to_first_token_ms")) = TimeToFirstToken(Captured).count
      BY <1>1, FirstTokensAccounted DEF TimeToFirstToken, LatencySummary
    <2> HIDE DEF Counted, errors, prompts, tools, byKind
    <2> QED
      BY <2>2, <2>3, <2>4, <2>5, <2>6, <2>7, <2>8, <2>9, <2>10
         DEF MetricsMatchInsights, Named, Counted, errors, prompts, tools, byKind
  <1> QED
    BY <1>1, TypesHold, MetricsHold, PTL
=============================================================================

------------------------ MODULE RelayConnectionProofs ------------------------
(***************************************************************************)
(* Theorems about RelayConnection for any number of subscriptions, any caps *)
(* and any batch size: its type invariant, that no tracked subscription is  *)
(* forgotten while the socket is open, that no REQ runs ahead of the AUTH    *)
(* it needs and, while the client's cap is within the relay's, that no REQ   *)
(* goes over the cap and nothing the client let go of stays open.            *)
(***************************************************************************)
EXTENDS RelayConnection, FunctionTheorems, FiniteSetTheorems, SequenceTheorems,
        WellFoundedInduction, TLAPS

-----------------------------------------------------------------------------
\* Facts about the list operations of ListOps, for lists of any length.


\* The positions a filter keeps are a finite set of positions.
LEMMA KeptFinite ==
  ASSUME NEW A, NEW q \in Seq(A), NEW S
  PROVE  /\ IsFiniteSet(Kept(q, S))
         /\ Kept(q, S) \subseteq 1 .. Len(q)
         /\ Cardinality(Kept(q, S)) \in Nat
<1>1. Kept(q, S) \subseteq 1 .. Len(q)
  BY DEF Kept
<1>2. IsFiniteSet(1 .. Len(q))
  BY FS_Interval
<1>3. IsFiniteSet(Kept(q, S))
  BY <1>1, <1>2, FS_Subset
<1> QED
  BY <1>1, <1>3, FS_CardinalityType

\* Ranks run from 1 to the number of kept positions, and no two kept positions
\* have the same rank.
LEMMA RankInjective ==
  ASSUME NEW A, NEW q \in Seq(A), NEW S
  PROVE  /\ \A i \in Kept(q, S) : Rank(q, S, i) \in 1 .. Cardinality(Kept(q, S))
         /\ \A i, k \in Kept(q, S) : Rank(q, S, i) = Rank(q, S, k) => i = k
<1> DEFINE K == Kept(q, S)
           n == Cardinality(K)
           Upto(i) == {k \in K : k <= i}
<1>1. /\ IsFiniteSet(K) /\ K \subseteq 1 .. Len(q) /\ n \in Nat
  BY KeptFinite
<1>2. ASSUME NEW i \in K
      PROVE  IsFiniteSet(Upto(i)) /\ Cardinality(Upto(i)) \in 1 .. n
  <2>1. Upto(i) \in SUBSET K
    OBVIOUS
  <2>2. IsFiniteSet(Upto(i)) /\ Cardinality(Upto(i)) <= n
    BY <1>1, <2>1, FS_Subset
  <2>3. i \in Upto(i)
    BY <1>1
  <2>4. Cardinality(Upto(i)) \in Nat /\ Cardinality(Upto(i)) # 0
    BY <2>2, <2>3, FS_CardinalityType, FS_EmptySet
  <2> QED
    BY <1>1, <2>2, <2>4
<1>3. ASSUME NEW i \in K, NEW k \in K, i < k
      PROVE  Rank(q, S, i) # Rank(q, S, k)
  <2>1. Upto(i) \in SUBSET Upto(k)
    BY <1>1, <1>3
  <2>2. k \in Upto(k) /\ k \notin Upto(i)
    BY <1>1, <1>3
  <2>3. Upto(i) # Upto(k)
    BY <2>2
  <2>4. Cardinality(Upto(i)) # Cardinality(Upto(k))
    BY <1>2, <2>1, <2>3, FS_Subset
  <2> QED
    BY <2>4 DEF Rank
<1>4. ASSUME NEW i \in K, NEW k \in K, Rank(q, S, i) = Rank(q, S, k), i # k
      PROVE  FALSE
  <2>1. i \in Int /\ k \in Int
    BY <1>1
  <2>2. i < k \/ k < i
    BY <1>4, <2>1
  <2> QED
    BY <1>3, <1>4, <2>2
<1>5. \A i \in K : Rank(q, S, i) \in 1 .. n
  BY <1>2 DEF Rank
<1> QED
  BY <1>4, <1>5

\* Every number from 1 to the number of kept positions is the rank of one of them.
LEMMA RankOnto ==
  ASSUME NEW A, NEW q \in Seq(A), NEW S,
         NEW j \in 1 .. Cardinality(Kept(q, S))
  PROVE  \E i \in Kept(q, S) : Rank(q, S, i) = j
<1> DEFINE K == Kept(q, S)
           n == Cardinality(K)
           rank == [i \in K |-> Rank(q, S, i)]
<1>1. n \in Nat
  BY KeptFinite
<1>2. /\ rank \in [K -> 1 .. n]
      /\ \A i, k \in K : rank[i] = rank[k] => i = k
  BY RankInjective
<1>3. rank \in Injection(K, 1 .. n)
  <2> HIDE DEF rank
  <2> QED
    BY <1>2 DEF Injection, IsInjective
<1>4. IsFiniteSet(1 .. n) /\ Cardinality(1 .. n) = n
  BY <1>1, FS_Interval
<1>5. rank \in Surjection(K, 1 .. n)
  BY <1>3, <1>4, FS_Injection
<1>6. PICK i \in K : rank[i] = j
  BY <1>5 DEF Surjection
<1> QED
  BY <1>6

\* Keep(q, S) is a list, and its entries are exactly those of q that are in S.
LEMMA KeepRange ==
  ASSUME NEW A, NEW q \in Seq(A), NEW S
  PROVE  /\ Keep(q, S) \in Seq(A)
         /\ Range(Keep(q, S)) = Range(q) \cap S
<1> DEFINE n == Cardinality(Kept(q, S))
           at == [j \in 1 .. n |-> CHOOSE i \in Kept(q, S) : Rank(q, S, i) = j]
<1>1. n \in Nat
  BY KeptFinite
<1>2. \A j \in 1 .. n : at[j] \in Kept(q, S) /\ Rank(q, S, at[j]) = j
  BY RankOnto
<1>3. Keep(q, S) = [j \in 1 .. n |-> q[at[j]]]
  BY DEF Keep
<1>4. \A i \in Kept(q, S) : Rank(q, S, i) \in 1 .. n /\ at[Rank(q, S, i)] = i
  <2> SUFFICES ASSUME NEW i \in Kept(q, S)
               PROVE  Rank(q, S, i) \in 1 .. n /\ at[Rank(q, S, i)] = i
    OBVIOUS
  <2> HIDE DEF at
  <2>1. Rank(q, S, i) \in 1 .. n
    BY RankInjective
  <2>2. /\ at[Rank(q, S, i)] \in Kept(q, S)
        /\ Rank(q, S, at[Rank(q, S, i)]) = Rank(q, S, i)
    BY <1>2, <2>1
  <2> QED
    BY <2>1, <2>2, RankInjective
<1>5. \A i \in Kept(q, S) : i \in 1 .. Len(q) /\ q[i] \in S /\ q[i] \in A
  BY ElementOfSeq DEF Kept
<1> HIDE DEF at, n
<1>6. Keep(q, S) \in Seq(A)
  <2>1. \A j \in 1 .. n : q[at[j]] \in A
    BY <1>2, <1>5
  <2>2. Keep(q, S) \in [1 .. n -> A]
    BY <1>3, <2>1
  <2> QED
    BY <1>1, <2>2, SeqDef
<1>7. Range(Keep(q, S)) \subseteq Range(q) \cap S
  <2> SUFFICES ASSUME NEW j \in 1 .. n
               PROVE  q[at[j]] \in Range(q) \cap S
    BY <1>3 DEF Range
  <2>1. at[j] \in DOMAIN q /\ q[at[j]] \in S
    BY <1>2, <1>5
  <2> QED
    BY <2>1 DEF Range
<1>8. ASSUME NEW e \in Range(q) \cap S
      PROVE  e \in Range(Keep(q, S))
  <2>1. PICK i \in DOMAIN q : q[i] = e
    BY DEF Range
  <2>2. i \in Kept(q, S)
    BY <1>8, <2>1 DEF Kept
  <2>3. Rank(q, S, i) \in 1 .. n /\ q[at[Rank(q, S, i)]] = e
    BY <1>4, <2>1, <2>2
  <2> QED
    BY <1>3, <2>3 DEF Range
<1> QED
  BY <1>6, <1>7, <1>8

\* Without(q, e) loses e and nothing else.
LEMMA WithoutRange ==
  ASSUME NEW A, NEW q \in Seq(A), NEW e
  PROVE  /\ Without(q, e) \in Seq(A)
         /\ Range(Without(q, e)) = Range(q) \ {e}
BY KeepRange DEF Without

\* What is left of a list after its first n entries.
LEMMA SuffixEntries ==
  ASSUME NEW A, NEW q \in Seq(A), NEW n \in Nat, n <= Len(q)
  PROVE  /\ Suffix(q, n) \in Seq(A) /\ Len(Suffix(q, n)) = Len(q) - n
         /\ DOMAIN Suffix(q, n) = 1 .. Len(q) - n
         /\ \A i \in 1 .. Len(q) - n : Suffix(q, n)[i] = q[n + i]
<1>1. Len(q) \in Nat
  BY LenProperties
<1>2. CASE n = Len(q)
  BY <1>1, <1>2 DEF Suffix
<1>3. CASE n < Len(q)
  <2>1. Suffix(q, n) = SubSeq(q, n + 1, Len(q))
    BY <1>1, <1>3 DEF Suffix
  <2>2. /\ Suffix(q, n) \in Seq(A) /\ Len(Suffix(q, n)) = Len(q) - n
        /\ \A i \in 1 .. Len(q) - n : Suffix(q, n)[i] = q[n + i]
    BY <1>1, <1>3, <2>1, SubSeqProperties
  <2> QED
    BY <2>2, LenProperties
<1> QED
  BY <1>1, <1>2, <1>3

\* Cutting a list at n keeps every entry on one side or the other.
LEMMA CutRange ==
  ASSUME NEW A, NEW q \in Seq(A), NEW n \in Nat
  PROVE  /\ Prefix(q, n) \in Seq(A) /\ Suffix(q, n) \in Seq(A)
         /\ Range(Prefix(q, n)) \cup Range(Suffix(q, n)) = Range(q)
<1>1. CASE n >= Len(q)
  <2>1. Range(<< >>) = {}
    BY DEF Range
  <2> QED
    BY <1>1, <2>1 DEF Prefix, Suffix
<1>2. CASE n < Len(q)
  <2>1. /\ Prefix(q, n) = SubSeq(q, 1, n)
        /\ Suffix(q, n) = SubSeq(q, n + 1, Len(q))
    BY <1>2 DEF Prefix, Suffix
  <2>2. /\ Prefix(q, n) \in Seq(A) /\ Len(Prefix(q, n)) = n
        /\ \A i \in 1 .. n : Prefix(q, n)[i] = q[i]
    BY <1>2, <2>1, SubSeqProperties
  <2>3. /\ Suffix(q, n) \in Seq(A) /\ Len(Suffix(q, n)) = Len(q) - n
        /\ \A i \in 1 .. Len(q) - n : Suffix(q, n)[i] = q[n + i]
    BY <1>2, <2>1, SubSeqProperties
  <2>4. ASSUME NEW i \in 1 .. Len(q)
        PROVE  q[i] \in Range(Prefix(q, n)) \cup Range(Suffix(q, n))
    <3>1. CASE i <= n
      BY <2>2, <3>1 DEF Range
    <3>2. CASE i > n
      <4>1. i - n \in 1 .. Len(q) - n /\ q[i] = Suffix(q, n)[i - n]
        BY <2>3, <3>2
      <4>2. DOMAIN Suffix(q, n) = 1 .. Len(q) - n
        BY <2>3
      <4> QED
        BY <4>1, <4>2 DEF Range
    <3> QED
      BY <3>1, <3>2
  <2>5. Range(Prefix(q, n)) \subseteq Range(q)
    BY <1>2, <2>2 DEF Range
  <2>6. Range(Suffix(q, n)) \subseteq Range(q)
    <3> SUFFICES ASSUME NEW i \in 1 .. Len(q) - n
                 PROVE  Suffix(q, n)[i] \in Range(q)
      BY <2>3 DEF Range
    <3>1. n + i \in DOMAIN q
      OBVIOUS
    <3> QED
      BY <2>3, <3>1 DEF Range
  <2>7. Range(q) \subseteq Range(Prefix(q, n)) \cup Range(Suffix(q, n))
    <3> SUFFICES ASSUME NEW i \in DOMAIN q
                 PROVE  q[i] \in Range(Prefix(q, n)) \cup Range(Suffix(q, n))
      BY DEF Range
    <3>1. i \in 1 .. Len(q)
      OBVIOUS
    <3> QED
      BY <2>4, <3>1
  <2> QED
    BY <2>2, <2>3, <2>5, <2>6, <2>7
<1> QED
  BY <1>1, <1>2

\* The entries of a list after Append, \o and Tail.
LEMMA AppendRange ==
  ASSUME NEW A, NEW q \in Seq(A), NEW e \in A
  PROVE  Append(q, e) \in Seq(A) /\ Range(Append(q, e)) = Range(q) \cup {e}
<1>1. /\ Append(q, e) \in Seq(A) /\ Len(Append(q, e)) = Len(q) + 1
      /\ \A i \in 1 .. Len(q) : Append(q, e)[i] = q[i]
      /\ Append(q, e)[Len(q) + 1] = e
  BY AppendProperties
<1>2. DOMAIN Append(q, e) = 1 .. Len(q) + 1 /\ DOMAIN q = 1 .. Len(q) /\ Len(q) \in Nat
  BY <1>1, LenProperties
<1>3. Range(Append(q, e)) \subseteq Range(q) \cup {e}
  BY <1>1, <1>2 DEF Range
<1>4. Range(q) \subseteq Range(Append(q, e))
  BY <1>1, <1>2 DEF Range
<1>5. e \in Range(Append(q, e))
  BY <1>1, <1>2 DEF Range
<1> QED
  BY <1>1, <1>3, <1>4, <1>5

\* A list is its first entry and the rest.
LEMMA HeadTailRange ==
  ASSUME NEW A, NEW q \in Seq(A), q # << >>
  PROVE  /\ Head(q) \in A /\ Tail(q) \in Seq(A)
         /\ Range(q) = {Head(q)} \cup Range(Tail(q))
<1>1. /\ Head(q) \in A /\ Tail(q) \in Seq(A) /\ Len(Tail(q)) = Len(q) - 1
      /\ \A i \in 1 .. Len(Tail(q)) : Tail(q)[i] = q[i + 1]
      /\ Head(q) = q[1] /\ Len(q) \in Nat /\ Len(q) >= 1
  BY HeadTailProperties, LenProperties, EmptySeq
<1>2. DOMAIN q = 1 .. Len(q) /\ DOMAIN Tail(q) = 1 .. Len(q) - 1
  BY <1>1, LenProperties
<1>3. Range(Tail(q)) \subseteq Range(q) /\ Head(q) \in Range(q)
  BY <1>1, <1>2 DEF Range
<1>4. ASSUME NEW i \in 1 .. Len(q)
      PROVE  q[i] \in {Head(q)} \cup Range(Tail(q))
  <2>1. CASE i = 1
    BY <1>1, <2>1
  <2>2. CASE i # 1
    <3>1. i - 1 \in DOMAIN Tail(q) /\ q[i] = Tail(q)[i - 1]
      BY <1>1, <1>2, <2>2
    <3> QED
      BY <3>1 DEF Range
  <2> QED
    BY <2>1, <2>2
<1> QED
  BY <1>1, <1>2, <1>3, <1>4 DEF Range

\* The entries of a concatenation.
LEMMA ConcatRange ==
  ASSUME NEW A, NEW p \in Seq(A), NEW q \in Seq(A)
  PROVE  p \o q \in Seq(A) /\ Range(p \o q) = Range(p) \cup Range(q)
<1>1. /\ p \o q \in Seq(A) /\ Len(p \o q) = Len(p) + Len(q)
      /\ \A i \in 1 .. Len(p) + Len(q) :
           (p \o q)[i] = IF i <= Len(p) THEN p[i] ELSE q[i - Len(p)]
  BY ConcatProperties
<1>2. /\ DOMAIN p = 1 .. Len(p) /\ DOMAIN q = 1 .. Len(q)
      /\ Len(p) \in Nat /\ Len(q) \in Nat
      /\ DOMAIN (p \o q) = 1 .. Len(p) + Len(q)
  BY <1>1, LenProperties
<1>3. ASSUME NEW i \in 1 .. Len(p) + Len(q)
      PROVE  (p \o q)[i] \in Range(p) \cup Range(q)
  <2>1. CASE i <= Len(p)
    BY <1>1, <1>2, <2>1 DEF Range
  <2>2. CASE i > Len(p)
    <3>1. i - Len(p) \in DOMAIN q /\ (p \o q)[i] = q[i - Len(p)]
      BY <1>1, <1>2, <2>2
    <3> QED
      BY <3>1 DEF Range
  <2> QED
    BY <1>2, <2>1, <2>2
<1>4. ASSUME NEW i \in 1 .. Len(p)
      PROVE  p[i] \in Range(p \o q)
  BY <1>1, <1>2 DEF Range
<1>5. ASSUME NEW i \in 1 .. Len(q)
      PROVE  q[i] \in Range(p \o q)
  <2>1. i + Len(p) \in DOMAIN (p \o q) /\ (p \o q)[i + Len(p)] = q[i]
    BY <1>1, <1>2
  <2> QED
    BY <2>1 DEF Range
<1>6. Range(p \o q) \subseteq Range(p) \cup Range(q)
  BY <1>2, <1>3 DEF Range
<1>7. Range(p) \subseteq Range(p \o q) /\ Range(q) \subseteq Range(p \o q)
  BY <1>2, <1>4, <1>5 DEF Range
<1> QED
  BY <1>1, <1>6, <1>7

\* The entries of the empty list and of a list of one.
LEMMA SmallRange ==
  ASSUME NEW A, NEW e \in A
  PROVE  /\ << >> \in Seq(A) /\ Range(<< >>) = {}
         /\ <<e>> \in Seq(A) /\ Range(<<e>>) = {e}
<1>1. Range(<< >>) = {}
  BY DEF Range
<1>2. Range(<<e>>) = {e}
  BY DEF Range
<1> QED
  BY <1>1, <1>2

\* A list over a set is a list over any larger one.
LEMMA SeqMonotone ==
  ASSUME NEW A, NEW B, A \subseteq B, NEW q \in Seq(A)
  PROVE  q \in Seq(B)
<1>1. Len(q) \in Nat /\ q \in [1 .. Len(q) -> A]
  BY LenProperties
<1>2. q \in [1 .. Len(q) -> B]
  BY <1>1
<1> QED
  BY <1>1, <1>2, SeqDef

\* A set of naturals that is not empty has a least element.
LEMMA NatLeast ==
  ASSUME NEW S \in SUBSET Nat, S # {}
  PROVE  \E n \in S : \A m \in S : n <= m
<1>1. PICK x \in S : \A y \in S : ~ (<<y, x>> \in OpToRel(<, Nat))
  BY NatLessThanWellFounded, WFMin
<1>2. \A y \in S : ~ (y < x)
  BY <1>1 DEF OpToRel
<1> QED
  BY <1>2

\* Division, as far as cutting a list into chunks needs it.
LEMMA DivBounds ==
  ASSUME NEW B \in Nat \ {0}, NEW x \in Nat
  PROVE  /\ x \div B \in Nat
         /\ B * (x \div B) <= x /\ x < B * (x \div B) + B
OBVIOUS

\* Of two multiples of B, the greater one is at least B greater.
LEMMA MultiplesApart ==
  ASSUME NEW B \in Nat \ {0}, NEW d \in Nat, NEW e \in Nat, B * d + B < B * e + B
  PROVE  d + 1 <= e
OBVIOUS

-----------------------------------------------------------------------------
\* The lists the actions build

\* The REQs for a list of subscriptions are messages, one for each.
LEMMA ReqsRange ==
  ASSUME NEW q \in Seq(Subs)
  PROVE  /\ Reqs(q) \in Seq(ClientMessages)
         /\ \A s \in Range(q) : Req(s) \in Range(Reqs(q))
<1>1. DOMAIN q = 1 .. Len(q) /\ Len(q) \in Nat /\ \A i \in DOMAIN q : q[i] \in Subs
  BY LenProperties, ElementOfSeq
<1>2. Reqs(q) \in [1 .. Len(q) -> ClientMessages]
  <2>1. \A i \in 1 .. Len(q) : Req(q[i]) \in ClientMessages
    BY <1>1 DEF Req, ClientMessages
  <2> QED
    BY <1>1, <2>1 DEF Reqs
<1>3. Reqs(q) \in Seq(ClientMessages)
  BY <1>1, <1>2, SeqDef
<1>4. \A s \in Range(q) : Req(s) \in Range(Reqs(q))
  BY DEF Reqs, Range
<1> QED
  BY <1>3, <1>4

\* The room left under the cap is a natural number, whatever the counts.
LEMMA RoomNat ==
  ASSUME NEW ord \in Seq(Subs), NEW q \in Seq(Subs), maxSubscriptions \in Nat
  PROVE  Room(ord, q) \in Nat
BY LenProperties DEF Room

\* resubscribe's batches are lists of subscriptions, and between them they
\* hold every entry of the list they cut up.
LEMMA ChunksCover ==
  ASSUME NEW q \in Seq(Subs)
  PROVE  /\ Chunks(q) \in Seq(Seq(Subs))
         /\ \A s \in Range(q) : \E b \in Range(Chunks(q)) : s \in Range(b)
<1> DEFINE B == BatchSize
           n == (Len(q) + B - 1) \div B
           chunk(k) == Prefix(Suffix(q, (k - 1) * B), B)
<1>1. B \in Nat \ {0} /\ Len(q) \in Nat /\ DOMAIN q = 1 .. Len(q)
  BY CapAssumption, LenProperties
<1>2. n \in Nat /\ B * n <= Len(q) + B - 1 /\ Len(q) + B - 1 < B * n + B
  BY <1>1, DivBounds
<1>3. \A k \in 1 .. n : (k - 1) * B \in Nat
  BY <1>1, <1>2
<1>4. \A k \in 1 .. n : chunk(k) \in Seq(Subs)
  BY <1>1, <1>3, CutRange
<1>5. Chunks(q) = [k \in 1 .. n |-> chunk(k)]
  BY DEF Chunks
<1>6. Chunks(q) \in Seq(Seq(Subs))
  <2> HIDE DEF n, chunk
  <2>1. Chunks(q) \in [1 .. n -> Seq(Subs)]
    BY <1>4, <1>5
  <2> QED
    BY <1>2, <2>1, SeqDef
<1>7. ASSUME NEW i \in 1 .. Len(q)
      PROVE  \E k \in 1 .. n : q[i] \in Range(chunk(k))
  <2> DEFINE d == (i - 1) \div B
  <2>1. d \in Nat /\ B * d <= i - 1 /\ i - 1 < B * d + B
    BY <1>1, DivBounds
  <2> HIDE DEF n, d
  <2>2. B * d + B < B * n + B
    BY <1>1, <1>2, <2>1
  <2>3. d + 1 \in 1 .. n
    BY <1>1, <1>2, <2>1, <2>2, MultiplesApart
  <2>4. (d + 1 - 1) * B = B * d /\ B * d \in Nat
    BY <1>1, <2>1
  <2> DEFINE c == B * d
             rest == Suffix(q, c)
  <2>5. c \in Nat /\ c < i /\ i - c <= B
    BY <1>1, <2>1, <2>4
  <2> HIDE DEF c
  <2>6. c <= Len(q)
    BY <1>1, <2>5
  <2>7. /\ rest \in Seq(Subs) /\ Len(rest) = Len(q) - c
        /\ \A j \in 1 .. Len(q) - c : rest[j] = q[c + j]
    BY <2>5, <2>6, SuffixEntries
  <2> HIDE DEF rest
  <2>8. i - c \in 1 .. Len(rest) /\ rest[i - c] = q[i]
    <3>1. i \in Int /\ i <= Len(q) /\ i - c \in 1 .. Len(q) - c /\ c + (i - c) = i
      BY <1>1, <2>5
    <3> QED
      BY <2>7, <3>1
  <2>9. q[i] \in Range(Prefix(rest, B))
    <3>1. CASE B >= Len(rest)
      <4>1. Prefix(rest, B) = rest
        BY <3>1 DEF Prefix
      <4>2. DOMAIN rest = 1 .. Len(rest)
        BY <2>7, LenProperties
      <4> QED
        BY <2>8, <4>1, <4>2 DEF Range
    <3>2. CASE B < Len(rest)
      <4>1. Prefix(rest, B) = SubSeq(rest, 1, B)
        BY <1>1, <2>7, <3>2 DEF Prefix
      <4>2. /\ Prefix(rest, B) \in Seq(Subs) /\ Len(Prefix(rest, B)) = B
            /\ \A j \in 1 .. B : Prefix(rest, B)[j] = rest[j]
        BY <1>1, <2>7, <3>2, <4>1, SubSeqProperties
      <4>3. i - c \in DOMAIN Prefix(rest, B) /\ Prefix(rest, B)[i - c] = q[i]
        BY <1>1, <2>5, <2>8, <4>2, LenProperties
      <4> QED
        BY <4>3 DEF Range
    <3> QED
      BY <1>1, <2>7, <3>1, <3>2, LenProperties
  <2>10. chunk(d + 1) = Prefix(rest, B)
    BY <1>1, <2>1, <2>4 DEF c, rest
  <2> QED
    BY <2>3, <2>9, <2>10
<1>8. ASSUME NEW s \in Range(q)
      PROVE  \E b \in Range(Chunks(q)) : s \in Range(b)
  <2>1. PICK i \in 1 .. Len(q) : s = q[i]
    BY <1>1 DEF Range
  <2>2. PICK k \in 1 .. n : s \in Range(chunk(k))
    BY <1>7, <2>1
  <2>3. chunk(k) \in Range(Chunks(q))
    BY <1>5 DEF Range
  <2> QED
    BY <2>2, <2>3
<1> QED
  BY <1>6, <1>8

\* What drainDeferred shifts off the deferred queue and is still tracked is
\* sent: it stops at the first such entry.
LEMMA ShiftedAreSent ==
  ASSUME NEW q \in Seq(Subs), NEW ord \in Seq(Subs), maxSubscriptions \in Nat
  PROVE  /\ Shifted(q, ord) \in Nat
         /\ Drained(q, ord) \in Seq(Subs)
         /\ \A s \in Range(q) \cap Range(ord) :
              \/ s \in Range(Suffix(q, Shifted(q, ord)))
              \/ s \in Range(Drained(q, ord))
<1> DEFINE stop == {m \in 0 .. Len(q) :
                      \/ m = Len(q)
                      \/ Len(ord) - (Len(q) - m) >= maxSubscriptions
                      \/ m > 0 /\ q[m] \in Range(ord)}
           n == Shifted(q, ord)
<1>1. Len(q) \in Nat /\ Len(ord) \in Nat /\ DOMAIN q = 1 .. Len(q)
  BY LenProperties
<1>2. stop \in SUBSET Nat /\ Len(q) \in stop
  BY <1>1
<1>3. \E m \in stop : \A k \in stop : m <= k
  BY <1>2, NatLeast
<1>4. n = CHOOSE m \in stop : \A k \in stop : m <= k
  BY DEF Shifted
<1>5. n \in stop /\ \A k \in stop : n <= k
  <2> HIDE DEF stop, n
  <2> QED
    BY <1>3, <1>4
<1>6. n \in 0 .. Len(q)
  BY <1>5
<1>7. \A i \in 1 .. Len(q) : i < n => q[i] \notin Range(ord)
  <2> SUFFICES ASSUME NEW i \in 1 .. Len(q), i < n, q[i] \in Range(ord)
               PROVE  FALSE
    OBVIOUS
  <2>1. i \in 0 .. Len(q) /\ i > 0
    BY <1>1
  <2>2. i \in stop
    BY <2>1
  <2> HIDE DEF stop
  <2>3. n <= i
    BY <1>5, <2>2
  <2> QED
    BY <1>6, <2>3
<1> HIDE DEF n, stop
<1>8. \A i \in 1 .. Len(q) : q[i] \in Subs
  BY <1>1, ElementOfSeq
<1>9. Drained(q, ord) = IF n > 0 /\ q[n] \in Range(ord) THEN <<q[n]>> ELSE << >>
  BY DEF Drained, n
<1>10. Drained(q, ord) \in Seq(Subs)
  BY <1>1, <1>6, <1>8, <1>9, SmallRange
<1>11. ASSUME NEW s \in Range(q) \cap Range(ord)
       PROVE  s \in Range(Suffix(q, n)) \/ s \in Range(Drained(q, ord))
  <2>1. PICK i \in 1 .. Len(q) : s = q[i]
    BY <1>1 DEF Range
  <2>2. CASE i < n
    BY <1>7, <1>11, <2>1, <2>2
  <2>3. CASE i = n
    <3>1. Drained(q, ord) = <<s>>
      BY <1>9, <1>11, <2>1, <2>3
    <3> QED
      BY <1>8, <2>1, <3>1, SmallRange
  <2>4. CASE i > n
    <3>1. n \in Nat /\ n <= Len(q)
      BY <1>1, <1>6
    <3>2. /\ DOMAIN Suffix(q, n) = 1 .. Len(q) - n
          /\ \A j \in 1 .. Len(q) - n : Suffix(q, n)[j] = q[n + j]
      BY <3>1, SuffixEntries
    <3>3. i - n \in 1 .. Len(q) - n /\ n + (i - n) = i
      BY <1>1, <2>4, <3>1
    <3>4. i - n \in DOMAIN Suffix(q, n) /\ Suffix(q, n)[i - n] = s
      BY <2>1, <3>2, <3>3
    <3> QED
      BY <3>4 DEF Range
  <2> QED
    BY <1>6, <2>2, <2>3, <2>4
<1> QED
  BY <1>6, <1>10, <1>11 DEF n

\* sendReq for a list of ids keeps what was held and what is on the wire, and
\* on an open socket each id ends up held or on the wire.
LEMMA SendReqsReach ==
  ASSUME TypeOK, NEW held \in Seq(Subs), NEW before \in Seq(ClientMessages),
         NEW q \in Seq(Subs), SendReqs(held, before, q)
  PROVE  /\ heldReqs' \in Seq(Subs) /\ toRelay' \in Seq(ClientMessages)
         /\ Range(held) \subseteq Range(heldReqs')
         /\ Range(toRelay) \subseteq Range(toRelay')
         /\ socket = "open" =>
              \A s \in Range(q) : s \in Range(heldReqs') \/ Req(s) \in Range(toRelay')
<1>1. toRelay \in Seq(ClientMessages)
  BY DEF TypeOK
<1>2. CASE reqGate = "holding"
  <2> DEFINE more == Keep(q, Subs \ Range(held))
  <2>1. heldReqs' = held \o more /\ toRelay' = toRelay \o before
    BY <1>2 DEF SendReqs
  <2>2. more \in Seq(Subs) /\ Range(more) = Range(q) \cap (Subs \ Range(held))
    BY KeepRange
  <2> HIDE DEF more
  <2>3. /\ heldReqs' \in Seq(Subs)
        /\ Range(heldReqs') = Range(held) \cup Range(more)
    BY <2>1, <2>2, ConcatRange
  <2>4. /\ toRelay' \in Seq(ClientMessages)
        /\ Range(toRelay') = Range(toRelay) \cup Range(before)
    BY <1>1, <2>1, ConcatRange
  <2>5. Range(q) \subseteq Subs
    BY RangeOfSeq
  <2> QED
    BY <2>2, <2>3, <2>4, <2>5
<1>3. CASE reqGate # "holding"
  <2>1. heldReqs' = held
    BY <1>3 DEF SendReqs
  <2>2. CASE socket = "open"
    <3> DEFINE written == toRelay \o before
    <3>1. toRelay' = written \o Reqs(q)
      BY <1>3, <2>2 DEF SendReqs
    <3>2. /\ written \in Seq(ClientMessages)
          /\ Range(written) = Range(toRelay) \cup Range(before)
      BY <1>1, ConcatRange
    <3> HIDE DEF written
    <3>3. Reqs(q) \in Seq(ClientMessages)
      BY ReqsRange
    <3>4. /\ toRelay' \in Seq(ClientMessages)
          /\ Range(toRelay') = Range(written) \cup Range(Reqs(q))
      BY <3>1, <3>2, <3>3, ConcatRange
    <3> QED
      BY <2>1, <3>2, <3>4, ReqsRange
  <2>3. CASE socket # "open"
    <3>1. toRelay' = toRelay
      BY <1>3, <2>3 DEF SendReqs
    <3> QED
      BY <1>1, <2>1, <2>3, <3>1
  <2> QED
    BY <2>2, <2>3
<1> QED
  BY <1>2, <1>3

\* Opening the AUTH gate sends every held id that is still tracked.
LEMMA ReleaseReach ==
  ASSUME TypeOK, ReleaseReqGate
  PROVE  /\ heldReqs' \in Seq(Subs) /\ toRelay' \in Seq(ClientMessages)
         /\ Range(toRelay) \subseteq Range(toRelay')
         /\ \A s \in Held \cap Tracked : Req(s) \in Range(toRelay')
<1> DEFINE go == Keep(heldReqs, Tracked)
<1>1. heldReqs \in Seq(Subs) /\ toRelay \in Seq(ClientMessages)
  BY DEF TypeOK
<1>2. go \in Seq(Subs) /\ Range(go) = Held \cap Tracked
  BY <1>1, KeepRange DEF Held
<1>3. heldReqs' = << >> /\ toRelay' = toRelay \o Reqs(go)
  BY DEF ReleaseReqGate
<1> HIDE DEF go
<1>4. /\ Reqs(go) \in Seq(ClientMessages)
      /\ \A s \in Range(go) : Req(s) \in Range(Reqs(go))
  BY <1>2, ReqsRange
<1>5. /\ toRelay' \in Seq(ClientMessages)
      /\ Range(toRelay') = Range(toRelay) \cup Range(Reqs(go))
  BY <1>1, <1>3, <1>4, ConcatRange
<1> QED
  BY <1>2, <1>3, <1>4, <1>5

\* What SocketOpen computes: the overflow, the first batch, the forwarded
\* subscriptions and the later batches.
LEMMA OpenLists ==
  ASSUME TypeOK,
         NEW toSend, toSend = Prefix(subscriptions, maxSubscriptions),
         NEW forward, forward = Keep(pendingSubscriptions, Subs \ Tracked),
         NEW room, room = Room(subscriptions, Overflow),
         NEW now, now = Prefix(toSend, BatchSize) \o Prefix(forward, room)
  PROVE  /\ toSend \in Seq(Subs) /\ forward \in Seq(Subs) /\ now \in Seq(Subs)
         /\ Overflow \in Seq(Subs) /\ Suffix(forward, room) \in Seq(Subs)
         /\ Chunks(Suffix(toSend, BatchSize)) \in Seq(Seq(Subs))
         /\ Range(forward) \subseteq Range(now) \cup Range(Suffix(forward, room))
         /\ \A s \in Tracked :
              \/ s \in Range(Overflow) \/ s \in Range(now)
              \/ \E b \in Range(Chunks(Suffix(toSend, BatchSize))) : s \in Range(b)
<1>1. /\ subscriptions \in Seq(Subs) /\ deferredSubs \in Seq(Subs)
      /\ pendingSubscriptions \in Seq(Subs)
  BY DEF TypeOK
<1>2. maxSubscriptions \in Nat /\ BatchSize \in Nat
  BY CapAssumption DEF TypeOK
<1>3. /\ toSend \in Seq(Subs) /\ Suffix(subscriptions, maxSubscriptions) \in Seq(Subs)
      /\ Tracked = Range(toSend) \cup Range(Suffix(subscriptions, maxSubscriptions))
  BY <1>1, <1>2, CutRange DEF Tracked
<1>4. Overflow \in Seq(Subs)
  BY <1>1, <1>3 DEF Overflow
<1>5. Tracked \subseteq Range(toSend) \cup Range(Overflow)
  <2>1. CASE subscriptions = << >>
    BY <2>1, SmallRange DEF Tracked, Range
  <2>2. CASE subscriptions # << >>
    BY <1>3, <2>2 DEF Overflow
  <2> QED
    BY <2>1, <2>2
<1>6. room \in Nat
  BY <1>1, <1>2, <1>4, RoomNat
<1>7. forward \in Seq(Subs)
  BY <1>1, KeepRange
<1>8. /\ Prefix(forward, room) \in Seq(Subs) /\ Suffix(forward, room) \in Seq(Subs)
      /\ Range(Prefix(forward, room)) \cup Range(Suffix(forward, room)) = Range(forward)
  BY <1>6, <1>7, CutRange
<1>9. /\ Prefix(toSend, BatchSize) \in Seq(Subs) /\ Suffix(toSend, BatchSize) \in Seq(Subs)
      /\ Range(Prefix(toSend, BatchSize)) \cup Range(Suffix(toSend, BatchSize))
           = Range(toSend)
  BY <1>2, <1>3, CutRange
<1>10. /\ now \in Seq(Subs)
       /\ Range(now) = Range(Prefix(toSend, BatchSize)) \cup Range(Prefix(forward, room))
  <2> DEFINE p == Prefix(toSend, BatchSize)
             r == Prefix(forward, room)
  <2>1. p \in Seq(Subs) /\ r \in Seq(Subs) /\ now = p \o r
    BY <1>8, <1>9
  <2> HIDE DEF p, r
  <2>2. p \o r \in Seq(Subs) /\ Range(p \o r) = Range(p) \cup Range(r)
    <3>1. p \in Seq(Subs) /\ r \in Seq(Subs)
      BY <2>1
    <3> QED
      BY <3>1, ConcatRange
  <2> QED
    BY <2>1, <2>2 DEF p, r
<1>11. /\ Chunks(Suffix(toSend, BatchSize)) \in Seq(Seq(Subs))
       /\ \A s \in Range(Suffix(toSend, BatchSize)) :
            \E b \in Range(Chunks(Suffix(toSend, BatchSize))) : s \in Range(b)
  BY <1>9, ChunksCover
<1>12. ASSUME NEW s \in Tracked, s \notin Range(Overflow), s \notin Range(now)
       PROVE  \E b \in Range(Chunks(Suffix(toSend, BatchSize))) : s \in Range(b)
  <2>1. s \in Range(Suffix(toSend, BatchSize))
    BY <1>5, <1>9, <1>10, <1>12
  <2> QED
    BY <1>11, <2>1
<1> QED
  BY <1>3, <1>4, <1>7, <1>8, <1>10, <1>11, <1>12
-----------------------------------------------------------------------------
\* The type invariant

\* The initial state is well typed.
LEMMA TypeInit == Init => TypeOK
<1> SUFFICES ASSUME Init
             PROVE  TypeOK
  OBVIOUS
<1>1. << >> \in Seq(Subs) /\ << >> \in Seq(Seq(Subs)) /\ << >> \in Seq(ClientMessages)
      /\ << >> \in Seq(RelayMessages) /\ << >> \in Seq([type : {"CLOSE"}, sub : Subs])
  OBVIOUS
<1>2. [s \in Subs |-> 0] \in [Subs -> 0 .. MaxClosedRetries]
  BY CapAssumption
<1>3. /\ subscriptions \in Seq(Subs) /\ deferredSubs \in Seq(Subs)
      /\ heldReqs \in Seq(Subs) /\ pendingSubscriptions \in Seq(Subs)
      /\ closedRetries \in [Subs -> 0 .. MaxClosedRetries]
      /\ messageQueue \in Seq([type : {"CLOSE"}, sub : Subs])
      /\ batches \in Seq(Seq(Subs))
      /\ toRelay \in Seq(ClientMessages) /\ toClient \in Seq(RelayMessages)
  BY <1>1, <1>2 DEF Init
<1> QED
  BY <1>3 DEF Init, TypeOK

\* Messages are of the message types.
LEMMA MessagesTyped ==
  /\ \A s \in Subs : /\ Req(s) \in ClientMessages /\ Close(s) \in ClientMessages
                     /\ Close(s) \in [type : {"CLOSE"}, sub : Subs]
                     /\ Eose(s) \in RelayMessages
                     /\ \A r \in Reasons : Closed(s, r) \in RelayMessages
  /\ \A c \in {"current", "old"}, b \in BOOLEAN :
       Auth(c) \in ClientMessages /\ Ok(c, b) \in RelayMessages
  /\ Challenge \in RelayMessages
BY DEF Req, Close, Eose, Closed, Auth, Ok, Challenge, ClientMessages, RelayMessages

\* Resetting or bumping one retry counter within its bound keeps their type.
LEMMA RetriesTyped ==
  ASSUME closedRetries \in [Subs -> 0 .. MaxClosedRetries], NEW s \in Subs,
         MaxClosedRetries \in Nat
  PROVE  /\ [closedRetries EXCEPT ![s] = 0] \in [Subs -> 0 .. MaxClosedRetries]
         /\ closedRetries[s] < MaxClosedRetries =>
              [closedRetries EXCEPT ![s] = @ + 1] \in [Subs -> 0 .. MaxClosedRetries]
OBVIOUS

\* Every step but SocketOpen and the ones that send leaves the types alone by
\* what it assigns; those use what is known of the lists they build.
LEMMA TypeStep == TypeOK /\ [Next]_vars => TypeOK'
<1> SUFFICES ASSUME TypeOK, [Next]_vars
             PROVE  TypeOK'
  OBVIOUS
<1>0. /\ MaxClosedRetries \in Nat /\ DefaultCap \in Nat /\ RelayCap \in Nat
      /\ SendsChallenge \in BOOLEAN
  BY CapAssumption, RelayAssumption
<1>1. CASE Connect
  BY <1>1 DEF Connect, OpenSocket, TypeOK, vars, managerVars, linkVars, subVars, authVars, timerVars, relayVars
<1>2. CASE Disconnect
  <2>1. [s \in Subs |-> 0] \in [Subs -> 0 .. MaxClosedRetries]
    BY <1>0
  <2>2. << >> \in Seq(Subs) /\ << >> \in Seq(Seq(Subs)) /\ << >> \in Seq(ClientMessages)
        /\ << >> \in Seq(RelayMessages) /\ << >> \in Seq([type : {"CLOSE"}, sub : Subs])
    OBVIOUS
  <2>3. /\ subscriptions' \in Seq(Subs) /\ deferredSubs' \in Seq(Subs)
        /\ heldReqs' \in Seq(Subs)
        /\ closedRetries' \in [Subs -> 0 .. MaxClosedRetries]
        /\ messageQueue' \in Seq([type : {"CLOSE"}, sub : Subs])
        /\ batches' \in Seq(Seq(Subs))
        /\ toRelay' \in Seq(ClientMessages) /\ toClient' \in Seq(RelayMessages)
    BY <1>2, <2>1, <2>2 DEF Disconnect, FreshConnection
  <2> QED
    BY <1>2, <2>3 DEF Disconnect, FreshConnection, TypeOK
<1>3. CASE ReplayAuth
  BY <1>3 DEF ReplayAuth, TypeOK, vars, managerVars, linkVars, subVars, authVars, timerVars, relayVars
<1>4. CASE LearnCap
  BY <1>4 DEF LearnCap, TypeOK, vars, managerVars, linkVars, subVars, authVars, timerVars, relayVars
<1>5. ASSUME NEW s \in Subs, Subscribe(s)
      PROVE  TypeOK'
  <2>1. /\ subscriptions \in Seq(Subs) /\ deferredSubs \in Seq(Subs) /\ heldReqs \in Seq(Subs)
        /\ <<s>> \in Seq(Subs) /\ << >> \in Seq(ClientMessages)
    BY DEF TypeOK
  <2>2. /\ deferredSubs' \in Seq(Subs)
        /\ heldReqs' \in Seq(Subs) /\ toRelay' \in Seq(ClientMessages)
    <3>1. CASE Room(subscriptions, deferredSubs) = 0
      <4>1. deferredSubs' = Append(deferredSubs, s) /\ UNCHANGED <<heldReqs, toRelay>>
        BY <1>5, <3>1 DEF Subscribe
      <4>2. Append(deferredSubs, s) \in Seq(Subs)
        BY <2>1, AppendRange
      <4> QED
        BY <4>1, <4>2 DEF TypeOK
    <3>2. CASE Room(subscriptions, deferredSubs) # 0
      BY <1>5, <2>1, <3>2, SendReqsReach DEF Subscribe
    <3> QED
      BY <3>1, <3>2
  <2>3. subscriptions' \in Seq(Subs) /\ pendingSubscriptions' \in Seq(Subs)
    BY <1>5, <2>1 DEF Subscribe, TypeOK
  <2>4. /\ status' \in {"disconnected", "connecting", "connected", "error"}
        /\ socket' \in {"none", "connecting", "open"}
        /\ socket' = "open" <=> status' = "connected"
        /\ reqGate' \in {"open", "holding"} /\ (reqGate' = "holding" => socket' = "open")
    <3>1. /\ IF dialed THEN UNCHANGED <<status, socket>>
             ELSE status' = "connecting" /\ socket' = "connecting"
          /\ UNCHANGED reqGate
      BY <1>5 DEF Subscribe, OpenSocket
    <3>2. dialed \/ socket = "none"
      BY DEF TypeOK
    <3> QED
      BY <3>1, <3>2 DEF TypeOK
  <2> QED
    BY <1>5, <2>2, <2>3, <2>4 DEF Subscribe, TypeOK, vars, managerVars, linkVars, subVars, authVars, timerVars, relayVars
<1>6. ASSUME NEW s \in Subs, SubscribeLater(s)
      PROVE  TypeOK'
  BY <1>6 DEF SubscribeLater, TypeOK, vars, managerVars, linkVars, subVars, authVars, timerVars, relayVars
<1>7. ASSUME NEW s \in Subs, CloseSubscription(s)
      PROVE  TypeOK'
  <2>1. pendingSubscriptions' \in Seq(Subs)
    BY <1>7, WithoutRange DEF CloseSubscription, TypeOK
  <2>2. CASE s \notin Tracked
    BY <1>7, <2>1, <2>2 DEF CloseSubscription, TypeOK, vars, managerVars, linkVars, subVars, authVars, timerVars, relayVars
  <2>3. CASE s \in Tracked
    <3> DEFINE ord  == Without(subscriptions, s)
               rest == Without(deferredSubs, s)
               held == Without(heldReqs, s)
    <3>1. ord \in Seq(Subs) /\ rest \in Seq(Subs) /\ held \in Seq(Subs)
      BY WithoutRange DEF TypeOK
    <3>2. maxSubscriptions \in Nat
      BY <1>0 DEF TypeOK
    <3>3. /\ subscriptions' = ord
          /\ closedRetries' \in [Subs -> 0 .. MaxClosedRetries]
      <4>1. closedRetries' = [closedRetries EXCEPT ![s] = 0] /\ subscriptions' = ord
        BY <1>7, <2>3 DEF CloseSubscription
      <4> QED
        BY <1>0, <4>1, RetriesTyped DEF TypeOK
    <3>4. CASE socket = "open"
      <4>1. /\ deferredSubs' = Suffix(rest, Shifted(rest, ord))
            /\ SendReqs(held, <<Close(s)>>, Drained(rest, ord))
            /\ UNCHANGED messageQueue
        BY <1>7, <2>3, <3>4 DEF CloseSubscription
      <4> HIDE DEF ord, rest, held
      <4>2. Shifted(rest, ord) \in Nat /\ Drained(rest, ord) \in Seq(Subs)
        BY <3>1, <3>2, ShiftedAreSent
      <4>3. deferredSubs' \in Seq(Subs)
        BY <3>1, <4>1, <4>2, CutRange
      <4>4. <<Close(s)>> \in Seq(ClientMessages)
        BY MessagesTyped
      <4>5. heldReqs' \in Seq(Subs) /\ toRelay' \in Seq(ClientMessages)
        BY <3>1, <4>1, <4>2, <4>4, SendReqsReach
      <4> QED
        BY <1>7, <2>1, <3>1, <3>3, <4>1, <4>3, <4>5
        DEF CloseSubscription, TypeOK, vars, managerVars, linkVars, subVars, authVars, timerVars, relayVars
    <3>5. CASE socket # "open"
      <4>1. /\ deferredSubs' = rest /\ heldReqs' = held /\ UNCHANGED toRelay
            /\ messageQueue' = Append(messageQueue, Close(s))
        BY <1>7, <2>3, <3>5 DEF CloseSubscription
      <4> HIDE DEF ord, rest, held
      <4>2. messageQueue' \in Seq([type : {"CLOSE"}, sub : Subs])
        BY <4>1, MessagesTyped DEF TypeOK
      <4> QED
        BY <1>7, <2>1, <3>1, <3>3, <4>1, <4>2 DEF CloseSubscription, TypeOK, vars, managerVars, linkVars, subVars, authVars, timerVars, relayVars
    <3> QED
      BY <3>4, <3>5
  <2> QED
    BY <2>2, <2>3
<1>8. CASE ReconnectTimer
  BY <1>8 DEF ReconnectTimer, OpenSocket, TypeOK, vars, managerVars, linkVars, subVars, authVars, timerVars, relayVars
<1>9. CASE ConnectThrows
  BY <1>9 DEF ConnectThrows, TypeOK, vars, managerVars, linkVars, subVars, authVars, timerVars, relayVars
<1>10. CASE BatchTimer
  <2>1. batches \in Seq(Seq(Subs)) /\ batches # << >>
    BY <1>10 DEF BatchTimer, TypeOK
  <2>2. Head(batches) \in Seq(Subs) /\ batches' \in Seq(Seq(Subs))
    BY <1>10, <2>1, HeadTailRange DEF BatchTimer
  <2>3. Keep(Head(batches), Tracked) \in Seq(Subs)
    BY <2>2, KeepRange
  <2>4. heldReqs' \in Seq(Subs) /\ toRelay' \in Seq(ClientMessages)
    <3>1. heldReqs \in Seq(Subs) /\ << >> \in Seq(ClientMessages)
      BY DEF TypeOK
    <3>2. SendReqs(heldReqs, << >>, Keep(Head(batches), Tracked))
      BY <1>10 DEF BatchTimer
    <3> QED
      BY <2>3, <3>1, <3>2, SendReqsReach
  <2> QED
    BY <1>10, <2>2, <2>4 DEF BatchTimer, TypeOK, vars, managerVars, linkVars, subVars, authVars, timerVars, relayVars
<1>11. CASE StaleBatchTimer
  <2>1. PICK b \in staleBatches :
          /\ staleBatches' = staleBatches \ {b}
          /\ SendReqs(heldReqs, << >>, Keep(b, Tracked))
    BY <1>11 DEF StaleBatchTimer
  <2>2. Keep(b, Tracked) \in Seq(Subs)
    BY KeepRange DEF TypeOK
  <2>3. heldReqs' \in Seq(Subs) /\ toRelay' \in Seq(ClientMessages)
    <3>1. heldReqs \in Seq(Subs) /\ << >> \in Seq(ClientMessages)
      BY DEF TypeOK
    <3> QED
      BY <2>1, <2>2, <3>1, SendReqsReach
  <2> QED
    BY <1>11, <2>1, <2>3 DEF StaleBatchTimer, TypeOK, vars, managerVars, linkVars, subVars, authVars, timerVars, relayVars
<1>12. CASE AuthWedgeTimer
  <2>1. heldReqs' \in Seq(Subs) /\ toRelay' \in Seq(ClientMessages) /\ reqGate' = "open"
    BY <1>12, ReleaseReach DEF AuthWedgeTimer, ReleaseReqGate
  <2> QED
    BY <1>12, <2>1 DEF AuthWedgeTimer, TypeOK, vars, managerVars, linkVars, subVars, authVars, timerVars, relayVars
<1>13. ASSUME NEW c \in {"current", "old"}, SignDone(c)
       PROVE  TypeOK'
  <2>1. toRelay' \in Seq(ClientMessages)
    <3>1. toRelay \in Seq(ClientMessages) /\ Auth(c) \in ClientMessages
      BY MessagesTyped DEF TypeOK
    <3>2. Append(toRelay, Auth(c)) \in Seq(ClientMessages)
      BY <3>1, AppendRange
    <3> QED
      BY <1>13, <3>1, <3>2 DEF SignDone
  <2> QED
    <3>1. /\ signing' \in SUBSET {"current", "old"}
          /\ lastAuthEventId' \in {"none", "current", "old"}
      BY <1>13 DEF SignDone, TypeOK
    <3>2. CASE UNCHANGED pendingAuthChallenge
      BY <1>13, <2>1, <3>1, <3>2 DEF SignDone, TypeOK, vars, managerVars, linkVars, subVars, authVars, timerVars, relayVars
    <3>3. CASE pendingAuthChallenge' = FALSE
      BY <1>13, <2>1, <3>1, <3>3 DEF SignDone, TypeOK, vars, managerVars, linkVars, subVars, authVars, timerVars, relayVars
    <3> QED
      BY <1>13, <3>2, <3>3 DEF SignDone
<1>14. ASSUME NEW c \in {"current", "old"}, SignDeclined(c)
       PROVE  TypeOK'
  BY <1>14 DEF SignDeclined, TypeOK, vars, managerVars, linkVars, subVars, authVars, timerVars, relayVars
<1>15. CASE SocketOpen
  <2> DEFINE toSend  == Prefix(subscriptions, maxSubscriptions)
             forward == Keep(pendingSubscriptions, Subs \ Tracked)
             room    == Room(subscriptions, Overflow)
             now     == Prefix(toSend, BatchSize) \o Prefix(forward, room)
  <2>1. /\ toSend \in Seq(Subs) /\ forward \in Seq(Subs) /\ now \in Seq(Subs)
        /\ Overflow \in Seq(Subs) /\ Suffix(forward, room) \in Seq(Subs)
        /\ Chunks(Suffix(toSend, BatchSize)) \in Seq(Seq(Subs))
    BY OpenLists
  <2>2. /\ subscriptions' = subscriptions \o forward
        /\ deferredSubs' = Overflow \o Suffix(forward, room)
        /\ batches' = Chunks(Suffix(toSend, BatchSize))
        /\ IF everChallenged
           THEN heldReqs' = now /\ toRelay' = messageQueue
           ELSE heldReqs' = << >> /\ toRelay' = messageQueue \o Reqs(now)
        /\ toClient' = IF SendsChallenge THEN <<Challenge>> ELSE << >>
    BY <1>15 DEF SocketOpen
  <2>3. messageQueue \in Seq(ClientMessages)
    <3>1. [type : {"CLOSE"}, sub : Subs] \subseteq ClientMessages
      BY DEF ClientMessages
    <3>2. messageQueue \in Seq([type : {"CLOSE"}, sub : Subs])
      BY DEF TypeOK
    <3> QED
      BY <3>1, <3>2, SeqMonotone
  <2> HIDE DEF toSend, forward, room, now
  <2>4. Reqs(now) \in Seq(ClientMessages)
    BY <2>1, ReqsRange
  <2>5. /\ subscriptions' \in Seq(Subs) /\ deferredSubs' \in Seq(Subs)
        /\ batches' \in Seq(Seq(Subs))
    BY <2>1, <2>2 DEF TypeOK
  <2>6. heldReqs' \in Seq(Subs) /\ toRelay' \in Seq(ClientMessages)
    <3>1. messageQueue \o Reqs(now) \in Seq(ClientMessages) /\ << >> \in Seq(Subs)
      BY <2>3, <2>4, ConcatRange
    <3> QED
      BY <2>1, <2>2, <2>3, <3>1
  <2>7. toClient' \in Seq(RelayMessages)
    BY <2>2, MessagesTyped
  <2>8. /\ status' = "connected" /\ socket' = "open"
        /\ reqGate' \in {"open", "holding"} /\ unheld' \in BOOLEAN
        /\ messageQueue' = << >> /\ relaySubs' = {} /\ authed' = FALSE
        /\ UNCHANGED <<used, pendingSubscriptions, dialed, reconnectTimer, closedRetries,
                       maxSubscriptions, everChallenged, pendingAuthChallenge,
                       lastAuthEventId, signing, staleBatches>>
    BY <1>15 DEF SocketOpen, TypeOK, managerVars, authVars
  <2>9. messageQueue' \in Seq([type : {"CLOSE"}, sub : Subs])
    BY <2>8
  <2>10. relaySubs' \in SUBSET Subs /\ authed' \in BOOLEAN /\ dialed'
    BY <1>15, <2>8 DEF SocketOpen, TypeOK
  <2> QED
    BY <2>5, <2>6, <2>7, <2>8, <2>9, <2>10 DEF TypeOK
<1>16. CASE SocketClose
  <2>1. staleBatches' \in SUBSET Seq(Subs)
    <3>1. Range(batches) \in SUBSET Seq(Subs)
      BY RangeOfSeq DEF TypeOK
    <3> QED
      BY <1>16, <3>1 DEF SocketClose, TypeOK
  <2> QED
    <3>1. /\ << >> \in Seq(Subs) /\ << >> \in Seq(Seq(Subs))
          /\ << >> \in Seq(ClientMessages) /\ << >> \in Seq(RelayMessages)
      OBVIOUS
    <3>2. signing' \in SUBSET {"current", "old"} /\ dialed'
      BY <1>16 DEF SocketClose, TypeOK, managerVars
    <3>3. /\ status' = "disconnected" /\ socket' = "none" /\ reconnectTimer'
          /\ pendingAuthChallenge' = FALSE /\ lastAuthEventId' = "none"
          /\ reqGate' = "open" /\ heldReqs' = << >> /\ batches' = << >>
          /\ toRelay' = << >> /\ toClient' = << >> /\ relaySubs' = {}
          /\ authed' = FALSE /\ unheld' = FALSE /\ reconnectTimer' = TRUE
          /\ UNCHANGED <<managerVars, subVars, everChallenged>>
      BY <1>16 DEF SocketClose
    <3> QED
      BY <2>1, <3>1, <3>2, <3>3 DEF TypeOK, vars, managerVars, linkVars, subVars, authVars, timerVars, relayVars
<1>17. ASSUME NEW m, Receive(m)
       PROVE  toClient' \in Seq(RelayMessages)
  BY <1>17, HeadTailRange DEF Receive, TypeOK
<1>18. ASSUME NEW s \in Subs, ReceiveEose(s)
       PROVE  TypeOK'
  <2>1. toClient' \in Seq(RelayMessages)
    BY <1>17, <1>18 DEF ReceiveEose
  <2>2. closedRetries' \in [Subs -> 0 .. MaxClosedRetries]
    BY <1>0, <1>18, RetriesTyped DEF ReceiveEose, TypeOK
  <2> QED
    BY <1>18, <2>1, <2>2 DEF ReceiveEose, TypeOK, vars, managerVars, linkVars, subVars, authVars, timerVars, relayVars
<1>19. ASSUME NEW s \in Subs, ReceiveTooMany(s)
       PROVE  TypeOK'
  <2>1. toClient' \in Seq(RelayMessages)
    BY <1>17, <1>19 DEF ReceiveTooMany
  <2>2. closedRetries' \in [Subs -> 0 .. MaxClosedRetries]
    <3>1. /\ closedRetries[s] < MaxClosedRetries
          /\ closedRetries' = [closedRetries EXCEPT ![s] = @ + 1]
      BY <1>19 DEF ReceiveTooMany
    <3> QED
      BY <1>0, <3>1, RetriesTyped DEF TypeOK
  <2>3. deferredSubs' \in Seq(Subs)
    <3>1. deferredSubs \in Seq(Subs)
      BY DEF TypeOK
    <3>2. Append(deferredSubs, s) \in Seq(Subs)
      BY <3>1, AppendRange
    <3>3. deferredSubs' = IF s \in Deferred THEN deferredSubs ELSE Append(deferredSubs, s)
      BY <1>19 DEF ReceiveTooMany
    <3> QED
      BY <3>1, <3>2, <3>3
  <2> QED
    BY <1>19, <2>1, <2>2, <2>3 DEF ReceiveTooMany, TypeOK, vars, managerVars, linkVars, subVars, authVars, timerVars, relayVars
<1>20. ASSUME NEW s \in Subs, NEW r \in Reasons, ReceiveClosed(s, r)
       PROVE  TypeOK'
  <2>1. toClient' \in Seq(RelayMessages)
    BY <1>17, <1>20 DEF ReceiveClosed
  <2>2. closedRetries' \in [Subs -> 0 .. MaxClosedRetries]
    <3>1. closedRetries' = [closedRetries EXCEPT ![s] = 0]
      BY <1>20 DEF ReceiveClosed
    <3> QED
      BY <1>0, <3>1, RetriesTyped DEF TypeOK
  <2>3. subscriptions' \in Seq(Subs)
    BY <1>20, WithoutRange DEF ReceiveClosed, TypeOK
  <2> QED
    BY <1>20, <2>1, <2>2, <2>3 DEF ReceiveClosed, TypeOK, vars, managerVars, linkVars, subVars, authVars, timerVars, relayVars
<1>21. ASSUME NEW c \in {"current", "old"}, NEW b \in BOOLEAN, ReceiveOk(c, b)
       PROVE  TypeOK'
  <2>1. toClient' \in Seq(RelayMessages)
    BY <1>17, <1>21 DEF ReceiveOk
  <2>2. /\ heldReqs' \in Seq(Subs) /\ toRelay' \in Seq(ClientMessages)
        /\ reqGate' \in {"open", reqGate}
    <3>1. CASE ReleaseReqGate
      BY <3>1, ReleaseReach DEF ReleaseReqGate
    <3>2. CASE UNCHANGED <<reqGate, heldReqs, toRelay>>
      BY <3>2 DEF TypeOK
    <3> QED
      BY <1>21, <3>1, <3>2 DEF ReceiveOk
  <2>3. lastAuthEventId' \in {"none", "current", "old"}
    BY <1>21 DEF ReceiveOk, TypeOK
  <2>4. UNCHANGED <<managerVars, linkVars, subVars, everChallenged, pendingAuthChallenge,
                    signing, timerVars, relayVars, unheld>>
    BY <1>21 DEF ReceiveOk
  <2> QED
    BY <2>1, <2>2, <2>3, <2>4 DEF TypeOK, vars, managerVars, linkVars, subVars, authVars, timerVars, relayVars
<1>22. CASE ReceiveChallenge
  <2>1. toClient' \in Seq(RelayMessages)
    BY <1>17, <1>22 DEF ReceiveChallenge
  <2> QED
    BY <1>22, <2>1 DEF ReceiveChallenge, TypeOK, vars, managerVars, linkVars, subVars, authVars, timerVars, relayVars
<1>23. ASSUME NEW m, Take(m)
       PROVE  toRelay' \in Seq(ClientMessages)
  BY <1>23, HeadTailRange DEF Take, TypeOK
<1>24. ASSUME NEW m \in RelayMessages, Answer(m)
       PROVE  toClient' \in Seq(RelayMessages)
  BY <1>24 DEF Answer, TypeOK
<1>25. ASSUME NEW s \in Subs, RelayReq(s)
       PROVE  TypeOK'
  <2>1. toRelay' \in Seq(ClientMessages)
    BY <1>23, <1>25 DEF RelayReq
  <2>2. toClient' \in Seq(RelayMessages)
    BY <1>24, <1>25, MessagesTyped DEF RelayReq, Reasons
  <2>3. relaySubs' \in SUBSET Subs /\ UNCHANGED <<clientVars, authed>>
    BY <1>25 DEF RelayReq, TypeOK
  <2> QED
    BY <2>1, <2>2, <2>3 DEF TypeOK, clientVars, vars, managerVars, linkVars, subVars, authVars, timerVars, relayVars
<1>26. ASSUME NEW s \in Subs, RelayClose(s)
       PROVE  TypeOK'
  <2>1. toRelay' \in Seq(ClientMessages)
    BY <1>23, <1>26 DEF RelayClose
  <2>2. toClient' \in Seq(RelayMessages)
    BY <1>24, <1>26, MessagesTyped DEF RelayClose, Reasons
  <2>3. relaySubs' \in SUBSET Subs /\ UNCHANGED <<clientVars, authed>>
    BY <1>26 DEF RelayClose, TypeOK
  <2> QED
    BY <2>1, <2>2, <2>3 DEF TypeOK, clientVars, vars, managerVars, linkVars, subVars, authVars, timerVars, relayVars
<1>27. ASSUME NEW c \in {"current", "old"}, RelayAuth(c)
       PROVE  TypeOK'
  <2>1. toRelay' \in Seq(ClientMessages)
    BY <1>23, <1>27 DEF RelayAuth
  <2>2. toClient' \in Seq(RelayMessages)
    BY <1>24, <1>27, MessagesTyped DEF RelayAuth
  <2>3. authed' \in BOOLEAN /\ UNCHANGED <<clientVars, relaySubs>>
    BY <1>27 DEF RelayAuth, TypeOK
  <2> QED
    BY <2>1, <2>2, <2>3 DEF TypeOK, clientVars, vars, managerVars, linkVars, subVars, authVars, timerVars, relayVars
<1>28. ASSUME NEW s \in Subs, RelayCancels(s)
       PROVE  TypeOK'
  <2>1. toClient' \in Seq(RelayMessages)
    BY <1>24, <1>28, MessagesTyped DEF RelayCancels, Reasons
  <2>2. relaySubs' \in SUBSET Subs /\ UNCHANGED <<clientVars, toRelay, authed>>
    BY <1>28 DEF RelayCancels, TypeOK
  <2> QED
    BY <2>1, <2>2 DEF TypeOK, clientVars, vars, managerVars, linkVars, subVars, authVars, timerVars, relayVars
<1>29. CASE UNCHANGED vars
  BY <1>29 DEF TypeOK, vars, managerVars, linkVars, subVars, authVars, timerVars, relayVars
<1> QED
  BY <1>1, <1>2, <1>3, <1>4, <1>5, <1>6, <1>7, <1>8, <1>9, <1>10, <1>11, <1>12, <1>13,
     <1>14, <1>15, <1>16, <1>18, <1>19, <1>20, <1>21, <1>22, <1>25, <1>26, <1>27, <1>28,
     <1>29
  DEF Next, Call, Timer, Signer, ReceiveMessage, RelayStep

\* Every variable keeps its type in every behaviour, for any caps and any
\* number of subscriptions.
THEOREM TypeInvariant == Spec => []TypeOK
BY TypeInit, TypeStep, PTL DEF Spec
-----------------------------------------------------------------------------
\* No tracked subscription is forgotten

\* A subscription stays accounted for when none of the places it may be in
\* loses it, a hold queue or a batch that is sent included.
LEMMA StaysAccounted ==
  ASSUME NEW s, Accounted(s),
         s \in Range(deferredSubs) => s \in Range(deferredSubs'),
         s \in Range(heldReqs) => s \in Range(heldReqs') \/ Req(s) \in Range(toRelay'),
         (\E b \in Range(batches) : s \in Range(b)) =>
           \/ \E b \in Range(batches') : s \in Range(b)
           \/ s \in Range(heldReqs') \/ Req(s) \in Range(toRelay'),
         Req(s) \in Range(toRelay) =>
           \/ Req(s) \in Range(toRelay')
           \/ s \in relaySubs' \/ \E r \in Reasons : Closed(s, r) \in Range(toClient'),
         s \in relaySubs =>
           s \in relaySubs' \/ \E r \in Reasons : Closed(s, r) \in Range(toClient'),
         \A r \in Reasons : Closed(s, r) \in Range(toClient) =>
           Closed(s, r) \in Range(toClient') \/ s \in Range(deferredSubs')
  PROVE  Accounted(s)'
BY DEF Accounted, Deferred, Held

\* The same, when nothing moved.
LEMMA SameAccounted ==
  ASSUME NEW s, Accounted(s),
         UNCHANGED <<deferredSubs, heldReqs, batches, toRelay, relaySubs, toClient>>
  PROVE  Accounted(s)'
BY DEF Accounted, Deferred, Held

\* Taking the first message off a queue loses that message only, and Append
\* loses nothing.
LEMMA ReceiveKeeps ==
  ASSUME TypeOK, NEW m, Receive(m), NEW n \in Range(toClient), n # m
  PROVE  n \in Range(toClient')
BY HeadTailRange DEF Receive, TypeOK

\* The same of the messages on the way to the relay.
LEMMA TakeKeeps ==
  ASSUME TypeOK, NEW m, Take(m), NEW n \in Range(toRelay), n # m
  PROVE  n \in Range(toRelay')
BY HeadTailRange DEF Take, TypeOK

\* An answer joins what is on the way to the client.
LEMMA AnswerKeeps ==
  ASSUME TypeOK, NEW m \in RelayMessages, Answer(m)
  PROVE  Range(toClient') = Range(toClient) \cup {m}
BY AppendRange DEF Answer, TypeOK

\* Messages of different kinds, or about different subscriptions, differ.
LEMMA MessagesDiffer ==
  ASSUME NEW s, NEW t, NEW r, NEW q, NEW c, NEW b
  PROVE  /\ Req(s) # Close(t) /\ Req(s) # Auth(c)
         /\ Closed(s, r) # Eose(t) /\ Closed(s, r) # Ok(c, b) /\ Closed(s, r) # Challenge
         /\ Req(s) = Req(t) => s = t
         /\ Closed(s, r) = Closed(t, q) => s = t
BY DEF Req, Close, Auth, Closed, Eose, Ok, Challenge

\* Nothing is tracked yet.
LEMMA NoneForgottenInit == Init => NoneForgotten
BY DEF Init, NoneForgotten

\* The step: each action either leaves the socket closed, leaves everything in
\* its place, or moves a subscription from one place to the next.
LEMMA NoneForgottenStep == TypeOK /\ NoneForgotten /\ [Next]_vars => NoneForgotten'
<1> SUFFICES ASSUME TypeOK, NoneForgotten, [Next]_vars, socket' = "open",
                    NEW t \in Tracked'
             PROVE  Accounted(t)'
  BY DEF NoneForgotten
<1>0. socket = "open" /\ t \in Tracked => Accounted(t)
  BY DEF NoneForgotten
<1>a. /\ subscriptions \in Seq(Subs) /\ deferredSubs \in Seq(Subs)
      /\ heldReqs \in Seq(Subs) /\ pendingSubscriptions \in Seq(Subs)
      /\ << >> \in Seq(ClientMessages) /\ maxSubscriptions \in Nat
  BY CapAssumption DEF TypeOK
<1>1. ASSUME socket = "open", UNCHANGED subscriptions,
             UNCHANGED <<deferredSubs, heldReqs, batches, toRelay, relaySubs, toClient>>
      PROVE  Accounted(t)'
  <2>1. Accounted(t)
    BY <1>0, <1>1 DEF Tracked
  <2> QED
    BY <1>1, <2>1, SameAccounted
<1>2. CASE Connect \/ ConnectThrows \/ Disconnect \/ SocketClose
  BY <1>2 DEF Connect, OpenSocket, ConnectThrows, Disconnect, SocketClose
<1>3. CASE ReconnectTimer
  <2>1. socket = "open"
    BY <1>3 DEF ReconnectTimer, OpenSocket
  <2> QED
    BY <1>1, <1>3, <2>1 DEF ReconnectTimer, subVars, timerVars, relayVars
<1>4. CASE ReplayAuth \/ LearnCap
  <2>1. UNCHANGED socket
    BY <1>4 DEF ReplayAuth, LearnCap, linkVars
  <2> QED
    BY <1>1, <1>4, <2>1 DEF ReplayAuth, LearnCap, subVars, timerVars, relayVars
<1>5. ASSUME NEW s \in Subs, Subscribe(s)
      PROVE  Accounted(t)'
  <2>1. socket = "open"
    BY <1>5 DEF Subscribe, OpenSocket, TypeOK
  <2>2. Tracked' = Tracked \cup {s}
    BY <1>5, <1>a, AppendRange DEF Subscribe, Tracked
  <2>3. UNCHANGED <<batches, relaySubs, toClient>>
    BY <1>5 DEF Subscribe, timerVars, relayVars
  <2>4. CASE Room(subscriptions, deferredSubs) = 0
    <3>1. deferredSubs' = Append(deferredSubs, s) /\ UNCHANGED <<heldReqs, toRelay>>
      BY <1>5, <2>4 DEF Subscribe
    <3>2. Range(deferredSubs') = Range(deferredSubs) \cup {s}
      BY <1>a, <3>1, AppendRange
    <3>3. CASE t = s
      BY <3>2, <3>3 DEF Accounted, Deferred
    <3>4. CASE t \in Tracked
      BY <1>0, <2>1, <2>3, <3>1, <3>2, <3>4, StaysAccounted
    <3> QED
      BY <2>2, <3>3, <3>4
  <2>5. CASE Room(subscriptions, deferredSubs) # 0
    <3>1. SendReqs(heldReqs, << >>, <<s>>) /\ UNCHANGED deferredSubs
      BY <1>5, <2>5 DEF Subscribe
    <3>2. <<s>> \in Seq(Subs) /\ s \in Range(<<s>>)
      BY SmallRange
    <3>3. /\ Range(heldReqs) \subseteq Range(heldReqs')
          /\ Range(toRelay) \subseteq Range(toRelay')
          /\ s \in Range(heldReqs') \/ Req(s) \in Range(toRelay')
      BY <1>a, <2>1, <3>1, <3>2, SendReqsReach
    <3>4. CASE t = s
      BY <3>3, <3>4 DEF Accounted, Held
    <3>5. CASE t \in Tracked
      BY <1>0, <2>1, <2>3, <3>1, <3>3, <3>5, StaysAccounted
    <3> QED
      BY <2>2, <3>4, <3>5
  <2> QED
    BY <2>4, <2>5
<1>6. ASSUME NEW s \in Subs, SubscribeLater(s)
      PROVE  Accounted(t)'
  <2>1. UNCHANGED socket
    BY <1>6 DEF SubscribeLater, linkVars
  <2> QED
    BY <1>1, <1>6, <2>1 DEF SubscribeLater, subVars, timerVars, relayVars
<1>7. ASSUME NEW s \in Subs, CloseSubscription(s)
      PROVE  Accounted(t)'
  <2>1. socket = "open" /\ UNCHANGED <<batches, relaySubs, toClient>>
    BY <1>7 DEF CloseSubscription, linkVars, timerVars, relayVars
  <2>2. CASE s \notin Tracked
    BY <1>1, <1>7, <2>1, <2>2 DEF CloseSubscription
  <2>3. CASE s \in Tracked
    <3> DEFINE ord  == Without(subscriptions, s)
               rest == Without(deferredSubs, s)
               held == Without(heldReqs, s)
    <3>1. /\ subscriptions' = ord
          /\ deferredSubs' = Suffix(rest, Shifted(rest, ord))
          /\ SendReqs(held, <<Close(s)>>, Drained(rest, ord))
      BY <1>7, <2>1, <2>3 DEF CloseSubscription
    <3>2. /\ ord \in Seq(Subs) /\ rest \in Seq(Subs) /\ held \in Seq(Subs)
          /\ Range(ord) = Range(subscriptions) \ {s}
          /\ Range(rest) = Range(deferredSubs) \ {s}
          /\ Range(held) = Range(heldReqs) \ {s}
      BY <1>a, WithoutRange
    <3> HIDE DEF ord, rest, held
    <3>3. t \in Tracked /\ t # s /\ t \in Range(ord)
      BY <3>1, <3>2 DEF Tracked
    <3>4. <<Close(s)>> \in Seq(ClientMessages)
      BY MessagesTyped
    <3>5. /\ Drained(rest, ord) \in Seq(Subs)
          /\ \A u \in Range(rest) \cap Range(ord) :
               \/ u \in Range(Suffix(rest, Shifted(rest, ord)))
               \/ u \in Range(Drained(rest, ord))
      BY <1>a, <3>2, ShiftedAreSent
    <3>6. /\ Range(held) \subseteq Range(heldReqs')
          /\ Range(toRelay) \subseteq Range(toRelay')
          /\ \A u \in Range(Drained(rest, ord)) :
               u \in Range(heldReqs') \/ Req(u) \in Range(toRelay')
      BY <2>1, <3>1, <3>2, <3>4, <3>5, SendReqsReach
    <3>7. CASE t \in Range(rest)
      <4>1. \/ t \in Range(deferredSubs')
            \/ t \in Range(heldReqs') \/ Req(t) \in Range(toRelay')
        BY <3>1, <3>3, <3>5, <3>6, <3>7
      <4> QED
        BY <4>1 DEF Accounted, Deferred, Held
    <3>8. CASE t \notin Range(rest)
      <4>1. t \notin Range(deferredSubs)
        BY <3>2, <3>3, <3>8
      <4>2. t \in Range(heldReqs) => t \in Range(heldReqs')
        BY <3>2, <3>3, <3>6
      <4>3. Accounted(t)
        BY <1>0, <2>1, <3>3
      <4> QED
        BY <2>1, <3>6, <4>1, <4>2, <4>3, StaysAccounted
    <3> QED
      BY <3>7, <3>8
  <2> QED
    BY <2>2, <2>3
<1>8. CASE BatchTimer
  <2>1. /\ socket = "open" /\ batches \in Seq(Seq(Subs)) /\ batches # << >>
        /\ UNCHANGED <<deferredSubs, relaySubs, toClient, subscriptions>>
        /\ batches' = Tail(batches)
        /\ SendReqs(heldReqs, << >>, Keep(Head(batches), Tracked))
    BY <1>8 DEF BatchTimer, TypeOK, linkVars, subVars, relayVars
  <2>2. /\ Head(batches) \in Seq(Subs)
        /\ Range(batches) = {Head(batches)} \cup Range(batches')
    BY <2>1, HeadTailRange
  <2>3. /\ Keep(Head(batches), Tracked) \in Seq(Subs)
        /\ Range(Keep(Head(batches), Tracked)) = Range(Head(batches)) \cap Tracked
    BY <2>2, KeepRange
  <2>4. /\ Range(heldReqs) \subseteq Range(heldReqs')
        /\ Range(toRelay) \subseteq Range(toRelay')
        /\ \A u \in Range(Head(batches)) \cap Tracked :
             u \in Range(heldReqs') \/ Req(u) \in Range(toRelay')
    BY <1>a, <2>1, <2>3, SendReqsReach
  <2>5. t \in Tracked /\ Accounted(t)
    BY <1>0, <2>1 DEF Tracked
  <2>6. (\E b \in Range(batches) : t \in Range(b)) =>
           \/ \E b \in Range(batches') : t \in Range(b)
           \/ t \in Range(heldReqs') \/ Req(t) \in Range(toRelay')
    BY <2>2, <2>4, <2>5
  <2> QED
    BY <2>1, <2>4, <2>5, <2>6, StaysAccounted
<1>9. CASE StaleBatchTimer
  <2>1. PICK b \in staleBatches : SendReqs(heldReqs, << >>, Keep(b, Tracked))
    BY <1>9 DEF StaleBatchTimer
  <2>2. /\ socket = "open"
        /\ UNCHANGED <<deferredSubs, batches, relaySubs, toClient, subscriptions>>
    BY <1>9 DEF StaleBatchTimer, linkVars, subVars, relayVars
  <2>3. Keep(b, Tracked) \in Seq(Subs)
    BY KeepRange DEF TypeOK
  <2>4. /\ Range(heldReqs) \subseteq Range(heldReqs')
        /\ Range(toRelay) \subseteq Range(toRelay')
    BY <1>a, <2>1, <2>3, SendReqsReach
  <2>5. Accounted(t)
    BY <1>0, <2>2 DEF Tracked
  <2> QED
    BY <2>2, <2>4, <2>5, StaysAccounted
<1>10. ASSUME ReleaseReqGate, UNCHANGED <<socket, subscriptions, deferredSubs, batches, relaySubs>>,
              \A r \in Reasons : Closed(t, r) \in Range(toClient) =>
                                   Closed(t, r) \in Range(toClient')
       PROVE  Accounted(t)'
  <2>1. /\ Range(toRelay) \subseteq Range(toRelay')
        /\ \A s \in Held \cap Tracked : Req(s) \in Range(toRelay')
    BY <1>10, ReleaseReach
  <2>2. t \in Tracked /\ Accounted(t)
    BY <1>0, <1>10 DEF Tracked
  <2> QED
    BY <1>10, <2>1, <2>2, StaysAccounted DEF Held
<1>11. CASE AuthWedgeTimer
  BY <1>10, <1>11 DEF AuthWedgeTimer, linkVars, subVars, timerVars, relayVars
<1>12. ASSUME NEW c \in {"current", "old"}, SignDone(c)
       PROVE  Accounted(t)'
  <2>1. /\ socket = "open"
        /\ UNCHANGED <<subscriptions, deferredSubs, heldReqs, batches, relaySubs, toClient>>
    BY <1>12 DEF SignDone, linkVars, subVars, timerVars, relayVars
  <2>2. Range(toRelay) \subseteq Range(toRelay')
    <3>1. CASE toRelay' = Append(toRelay, Auth(c))
      BY <3>1, MessagesTyped, AppendRange DEF TypeOK
    <3>2. CASE UNCHANGED toRelay
      BY <3>2
    <3> QED
      BY <1>12, <3>1, <3>2 DEF SignDone
  <2>3. Accounted(t)
    BY <1>0, <2>1 DEF Tracked
  <2> QED
    BY <2>1, <2>2, <2>3, StaysAccounted
<1>13. ASSUME NEW c \in {"current", "old"}, SignDeclined(c)
       PROVE  Accounted(t)'
  <2>1. socket = "open"
    BY <1>13 DEF SignDeclined, linkVars
  <2> QED
    BY <1>1, <1>13, <2>1 DEF SignDeclined, subVars, timerVars, relayVars
<1>14. CASE SocketOpen
  <2> DEFINE toSend  == Prefix(subscriptions, maxSubscriptions)
             forward == Keep(pendingSubscriptions, Subs \ Tracked)
             room    == Room(subscriptions, Overflow)
             now     == Prefix(toSend, BatchSize) \o Prefix(forward, room)
  <2>1. /\ forward \in Seq(Subs) /\ now \in Seq(Subs)
        /\ Overflow \in Seq(Subs) /\ Suffix(forward, room) \in Seq(Subs)
        /\ Range(forward) \subseteq Range(now) \cup Range(Suffix(forward, room))
        /\ \A s \in Tracked :
              \/ s \in Range(Overflow) \/ s \in Range(now)
              \/ \E b \in Range(Chunks(Suffix(toSend, BatchSize))) : s \in Range(b)
    <3>1. /\ toSend = Prefix(subscriptions, maxSubscriptions)
          /\ forward = Keep(pendingSubscriptions, Subs \ Tracked)
          /\ room = Room(subscriptions, Overflow)
          /\ now = Prefix(toSend, BatchSize) \o Prefix(forward, room)
      OBVIOUS
    <3> HIDE DEF toSend, forward, room, now
    <3> QED
      BY <3>1, OpenLists
  <2>2. /\ subscriptions' = subscriptions \o forward
        /\ deferredSubs' = Overflow \o Suffix(forward, room)
        /\ batches' = Chunks(Suffix(toSend, BatchSize))
        /\ IF everChallenged
           THEN heldReqs' = now /\ toRelay' = messageQueue
           ELSE heldReqs' = << >> /\ toRelay' = messageQueue \o Reqs(now)
    BY <1>14 DEF SocketOpen
  <2>3. messageQueue \in Seq(ClientMessages)
    <3>1. [type : {"CLOSE"}, sub : Subs] \subseteq ClientMessages
      BY DEF ClientMessages
    <3> QED
      BY <3>1, SeqMonotone DEF TypeOK
  <2> HIDE DEF toSend, forward, room, now
  <2>4. t \in Tracked \cup Range(forward)
    BY <1>a, <2>1, <2>2, ConcatRange DEF Tracked
  <2>5. Range(deferredSubs') = Range(Overflow) \cup Range(Suffix(forward, room))
    BY <2>1, <2>2, ConcatRange
  <2>6. ASSUME t \in Range(now)
        PROVE  t \in Range(heldReqs') \/ Req(t) \in Range(toRelay')
    <3>1. CASE everChallenged
      BY <2>2, <2>6, <3>1
    <3>2. CASE ~everChallenged
      <4>1. /\ Reqs(now) \in Seq(ClientMessages) /\ Req(t) \in Range(Reqs(now))
        BY <2>1, <2>6, ReqsRange
      <4>2. Range(toRelay') = Range(messageQueue) \cup Range(Reqs(now))
        BY <2>2, <2>3, <3>2, <4>1, ConcatRange
      <4> QED
        BY <4>1, <4>2
    <3> QED
      BY <3>1, <3>2
  <2>7. \/ t \in Range(deferredSubs') \/ t \in Range(now)
        \/ \E b \in Range(batches') : t \in Range(b)
    BY <2>1, <2>2, <2>4, <2>5
  <2> QED
    BY <2>6, <2>7 DEF Accounted, Deferred, Held
<1>15. ASSUME NEW m, Receive(m), \A r \in Reasons : m # Closed(t, r),
              UNCHANGED <<socket, deferredSubs, heldReqs, batches, toRelay, relaySubs>>,
              t \in Tracked
       PROVE  Accounted(t)'
  <2>1. \A r \in Reasons : Closed(t, r) \in Range(toClient) =>
                             Closed(t, r) \in Range(toClient')
    BY <1>15, ReceiveKeeps
  <2> QED
    BY <1>0, <1>15, <2>1, StaysAccounted
<1>16. ASSUME NEW s \in Subs, ReceiveEose(s)
       PROVE  Accounted(t)'
  <2>1. t \in Tracked /\ Receive(Eose(s)) /\ \A r \in Reasons : Eose(s) # Closed(t, r)
    BY <1>16, MessagesDiffer DEF ReceiveEose, Tracked
  <2> QED
    BY <1>15, <1>16, <2>1 DEF ReceiveEose, linkVars, timerVars, relayVars
<1>17. ASSUME NEW s \in Subs, ReceiveTooMany(s)
       PROVE  Accounted(t)'
  <2>1. /\ t \in Tracked /\ socket = "open"
        /\ UNCHANGED <<heldReqs, batches, toRelay, relaySubs>>
        /\ Receive(Closed(s, "too many subscriptions"))
        /\ deferredSubs' = IF s \in Deferred THEN deferredSubs ELSE Append(deferredSubs, s)
    BY <1>17 DEF ReceiveTooMany, Tracked, linkVars, timerVars, relayVars
  <2>2. Range(deferredSubs) \subseteq Range(deferredSubs') /\ s \in Range(deferredSubs')
    <3>1. CASE s \in Deferred
      BY <2>1, <3>1 DEF Deferred
    <3>2. CASE s \notin Deferred
      <4>1. deferredSubs' = Append(deferredSubs, s)
        BY <2>1, <3>2
      <4> QED
        BY <1>a, <4>1, AppendRange
    <3> QED
      BY <3>1, <3>2
  <2>3. CASE t = s
    BY <2>2, <2>3 DEF Accounted, Deferred
  <2>4. CASE t # s
    <3>1. \A r \in Reasons : Closed(s, "too many subscriptions") # Closed(t, r)
      BY <2>4, MessagesDiffer
    <3>2. \A r \in Reasons : Closed(t, r) \in Range(toClient) =>
                               Closed(t, r) \in Range(toClient')
      BY <2>1, <3>1, ReceiveKeeps
    <3> QED
      BY <1>0, <2>1, <2>2, <3>2, StaysAccounted
  <2> QED
    BY <2>3, <2>4
<1>18. ASSUME NEW s \in Subs, NEW r \in Reasons, ReceiveClosed(s, r)
       PROVE  Accounted(t)'
  <2>1. Tracked' = Tracked \ {s}
    BY <1>18, <1>a, WithoutRange DEF ReceiveClosed, Tracked
  <2>2. Receive(Closed(s, r)) /\ \A q \in Reasons : Closed(s, r) # Closed(t, q)
    BY <1>18, <2>1, MessagesDiffer DEF ReceiveClosed
  <2> QED
    BY <1>15, <1>18, <2>1, <2>2 DEF ReceiveClosed, linkVars, timerVars, relayVars
<1>19. ASSUME NEW c \in {"current", "old"}, NEW b \in BOOLEAN, ReceiveOk(c, b)
       PROVE  Accounted(t)'
  <2>1. /\ Receive(Ok(c, b)) /\ \A r \in Reasons : Ok(c, b) # Closed(t, r)
        /\ UNCHANGED <<socket, subscriptions, deferredSubs, batches, relaySubs>>
    BY <1>19, MessagesDiffer DEF ReceiveOk, linkVars, subVars, timerVars, relayVars
  <2>2. CASE ReleaseReqGate
    <3>1. \A r \in Reasons : Closed(t, r) \in Range(toClient) =>
                               Closed(t, r) \in Range(toClient')
      BY <2>1, ReceiveKeeps
    <3> QED
      BY <1>10, <2>1, <2>2, <3>1
  <2>3. CASE UNCHANGED <<reqGate, heldReqs, toRelay>>
    BY <1>15, <2>1, <2>3 DEF Tracked
  <2> QED
    BY <1>19, <2>2, <2>3 DEF ReceiveOk
<1>20. CASE ReceiveChallenge
  <2>1. /\ t \in Tracked /\ Receive(Challenge)
        /\ \A r \in Reasons : Challenge # Closed(t, r)
    BY <1>20, MessagesDiffer DEF ReceiveChallenge, Tracked, subVars
  <2> QED
    BY <1>15, <1>20, <2>1
    DEF ReceiveChallenge, linkVars, subVars, timerVars, relayVars
<1>21. ASSUME UNCHANGED clientVars
       PROVE  /\ Accounted(t)
              /\ UNCHANGED <<deferredSubs, heldReqs, batches>>
  BY <1>0, <1>21 DEF clientVars, linkVars, subVars, timerVars, Tracked
<1>22. ASSUME NEW s \in Subs, RelayReq(s)
       PROVE  Accounted(t)'
  <2>1. UNCHANGED clientVars /\ Take(Req(s))
    BY <1>22 DEF RelayReq
  <2>2. \/ relaySubs' = relaySubs /\ Answer(Closed(s, "auth-required"))
        \/ relaySubs' = relaySubs /\ Answer(Closed(s, "too many subscriptions"))
        \/ relaySubs' = relaySubs \cup {s} /\ Answer(Eose(s))
    BY <1>22 DEF RelayReq
  <2>3. /\ Range(toClient) \subseteq Range(toClient') /\ relaySubs \subseteq relaySubs'
        /\ s \in relaySubs' \/ \E r \in Reasons : Closed(s, r) \in Range(toClient')
    BY <2>2, AnswerKeeps, MessagesTyped DEF Reasons
  <2>4. t # s /\ Req(t) \in Range(toRelay) => Req(t) \in Range(toRelay')
    BY <2>1, TakeKeeps, MessagesDiffer
  <2> QED
    BY <1>21, <2>1, <2>3, <2>4, StaysAccounted
<1>23. ASSUME NEW s \in Subs, RelayClose(s)
       PROVE  Accounted(t)'
  <2>1. /\ UNCHANGED clientVars /\ Take(Close(s))
        /\ relaySubs' = relaySubs \ {s} /\ Answer(Closed(s, ""))
    BY <1>23 DEF RelayClose
  <2>2. Range(toClient') = Range(toClient) \cup {Closed(s, "")} /\ "" \in Reasons
    BY <2>1, AnswerKeeps, MessagesTyped DEF Reasons
  <2>3. Req(t) \in Range(toRelay) => Req(t) \in Range(toRelay')
    <3>1. Req(t) # Close(s)
      BY MessagesDiffer
    <3> QED
      BY <2>1, <3>1, TakeKeeps
  <2> QED
    BY <1>21, <2>1, <2>2, <2>3, StaysAccounted
<1>24. ASSUME NEW c \in {"current", "old"}, RelayAuth(c)
       PROVE  Accounted(t)'
  <2>1. UNCHANGED clientVars /\ Take(Auth(c)) /\ UNCHANGED relaySubs
    BY <1>24 DEF RelayAuth
  <2>2. Range(toClient) \subseteq Range(toClient')
    BY <1>24, AnswerKeeps, MessagesTyped DEF RelayAuth
  <2>3. Req(t) \in Range(toRelay) => Req(t) \in Range(toRelay')
    <3>1. Req(t) # Auth(c)
      BY MessagesDiffer
    <3> QED
      BY <2>1, <3>1, TakeKeeps
  <2> QED
    BY <1>21, <2>1, <2>2, <2>3, StaysAccounted
<1>25. ASSUME NEW s \in Subs, RelayCancels(s)
       PROVE  Accounted(t)'
  <2>1. /\ UNCHANGED <<clientVars, toRelay>> /\ relaySubs' = relaySubs \ {s}
        /\ Answer(Closed(s, "cancelled"))
    BY <1>25 DEF RelayCancels
  <2>2. Range(toClient') = Range(toClient) \cup {Closed(s, "cancelled")}
        /\ "cancelled" \in Reasons
    BY <2>1, AnswerKeeps, MessagesTyped DEF Reasons
  <2> QED
    BY <1>21, <2>1, <2>2, StaysAccounted
<1>26. CASE UNCHANGED vars
  BY <1>1, <1>26 DEF vars, linkVars, subVars, timerVars, relayVars
<1> QED
  BY <1>2, <1>3, <1>4, <1>5, <1>6, <1>7, <1>8, <1>9, <1>11, <1>12, <1>13, <1>14, <1>16,
     <1>17, <1>18, <1>19, <1>20, <1>22, <1>23, <1>24, <1>25, <1>26
  DEF Next, Call, Timer, Signer, ReceiveMessage, RelayStep

\* Whatever the caps, the batch size and the number of subscriptions, and
\* whatever the order of calls, drops, timers and messages, a subscription the
\* connection tracks on an open socket is deferred, held, batched, on its way,
\* served, or about to be told CLOSED.
THEOREM NoneForgottenInvariant == Spec => []NoneForgotten
<1>1. Init => TypeOK /\ NoneForgotten
  BY TypeInit, NoneForgottenInit
<1>2. TypeOK /\ NoneForgotten /\ [Next]_vars => TypeOK' /\ NoneForgotten'
  BY TypeStep, NoneForgottenStep
<1> QED
  BY <1>1, <1>2, PTL DEF Spec
-----------------------------------------------------------------------------
\* The REQ-AUTH cold-start race

\* On an open socket whose REQs were all held and that is not authenticated yet,
\* the gate is still engaged and no REQ is on the wire; a positive OK comes only
\* after the relay has taken the AUTH.  A socket that is not open carries nothing.
ColdStart ==
  /\ socket # "open" =>
       toRelay = << >> /\ toClient = << >> /\ relaySubs = {} /\ ~unheld /\ ~authed
  /\ socket = "open" /\ ~unheld /\ ~authed =>
       reqGate = "holding" /\ \A s \in Subs : Req(s) \notin Range(toRelay)
  /\ \A c \in {"current", "old"} : Ok(c, TRUE) \in Range(toClient) => authed
  /\ NoColdStartRace

\* No relay has challenged this client yet.
LEMMA ColdStartInit == Init => ColdStart
<1> SUFFICES ASSUME Init
             PROVE  ColdStart
  OBVIOUS
<1>1. Range(toClient) = {}
  BY DEF Init, Range
<1> QED
  BY <1>1 DEF Init, ColdStart, NoColdStartRace

\* It outlives every step that brings neither a REQ past the engaged gate nor a
\* message from the relay.
LEMMA ColdStartStays ==
  ASSUME ColdStart, socket' = "open" <=> socket = "open",
         UNCHANGED <<unheld, authed, relaySubs>>,
         socket # "open" => UNCHANGED <<toRelay, toClient>>,
         Range(toClient') \subseteq Range(toClient),
         socket = "open" /\ ~unheld /\ ~authed =>
           /\ reqGate' = "holding"
           /\ \A s \in Subs : Req(s) \in Range(toRelay') => Req(s) \in Range(toRelay)
  PROVE  ColdStart'
<1>1. socket' # "open" =>
        toRelay' = << >> /\ toClient' = << >> /\ relaySubs' = {} /\ ~unheld' /\ ~authed'
  BY DEF ColdStart
<1>2. socket' = "open" /\ ~unheld' /\ ~authed' =>
        reqGate' = "holding" /\ \A s \in Subs : Req(s) \notin Range(toRelay')
  BY DEF ColdStart
<1>3. \A c \in {"current", "old"} : Ok(c, TRUE) \in Range(toClient') => authed'
  BY DEF ColdStart
<1>4. NoColdStartRace'
  BY DEF ColdStart, NoColdStartRace
<1> QED
  BY <1>1, <1>2, <1>3, <1>4 DEF ColdStart

\* The gate lets nothing through while it is engaged but what is not a REQ.
LEMMA HoldingHolds ==
  ASSUME TypeOK, NEW held, NEW before \in Seq([type : {"CLOSE"}, sub : Subs]), NEW q,
         SendReqs(held, before, q), reqGate = "holding", NEW s \in Subs,
         Req(s) \in Range(toRelay')
  PROVE  Req(s) \in Range(toRelay)
<1>1. toRelay' = toRelay \o before
  BY DEF SendReqs
<1>2. before \in Seq(ClientMessages)
  <2>1. [type : {"CLOSE"}, sub : Subs] \subseteq ClientMessages
    BY DEF ClientMessages
  <2> QED
    BY <2>1, SeqMonotone
<1>3. Range(toRelay') = Range(toRelay) \cup Range(before)
  BY <1>1, <1>2, ConcatRange DEF TypeOK
<1>4. Req(s) \notin Range(before)
  <2>1. Range(before) \subseteq [type : {"CLOSE"}, sub : Subs]
    BY RangeOfSeq
  <2> QED
    BY <2>1 DEF Req
<1> QED
  BY <1>3, <1>4

\* A step that hands a list to SendReqs and leaves the relay's answers alone.
LEMMA ColdStartSends ==
  ASSUME TypeOK, ColdStart, socket' = "open" <=> socket = "open",
         UNCHANGED <<reqGate, unheld, authed, relaySubs, toClient>>,
         NEW held, NEW before \in Seq([type : {"CLOSE"}, sub : Subs]), NEW q,
         SendReqs(held, before, q)
  PROVE  ColdStart'
<1>1. socket # "open" => UNCHANGED toRelay
  BY DEF SendReqs, TypeOK
<1>2. socket = "open" /\ ~unheld /\ ~authed => reqGate = "holding"
  BY DEF ColdStart
<1> QED
  BY <1>1, <1>2, HoldingHolds, ColdStartStays

\* A message from the relay has been taken by the client, and perhaps acted on.
LEMMA ColdStartReceives ==
  ASSUME TypeOK, ColdStart, NEW m, Receive(m),
         UNCHANGED <<socket, reqGate, unheld, authed, relaySubs, toRelay>>
  PROVE  ColdStart'
<1>1. toClient # << >> /\ toClient' = Tail(toClient)
  BY DEF Receive
<1>2. Range(toClient') \subseteq Range(toClient)
  BY <1>1, HeadTailRange DEF TypeOK
<1>3. socket = "open"
  BY <1>1 DEF ColdStart
<1>4. ~unheld /\ ~authed => reqGate = "holding"
  BY <1>3 DEF ColdStart
<1> QED
  BY <1>2, <1>3, <1>4, ColdStartStays

\* The relay answers m, after taking a message off the wire or on its own.
LEMMA ColdStartAnswers ==
  ASSUME TypeOK, ColdStart, UNCHANGED clientVars, socket = "open",
         Range(toRelay') \subseteq Range(toRelay),
         NEW m \in RelayMessages, Answer(m),
         authed => authed', authed' \in BOOLEAN,
         \A c \in {"current", "old"} : m = Ok(c, TRUE) => authed',
         \A s \in Subs : m = Closed(s, "auth-required") => unheld
  PROVE  ColdStart'
<1>1. UNCHANGED <<socket, reqGate, unheld>>
  BY DEF clientVars, linkVars
<1>2. Range(toClient') = Range(toClient) \cup {m}
  BY AnswerKeeps
<1>3. socket' = "open" /\ ~unheld' /\ ~authed' =>
        reqGate' = "holding" /\ \A s \in Subs : Req(s) \notin Range(toRelay')
  BY <1>1 DEF ColdStart
<1>4. \A c \in {"current", "old"} : Ok(c, TRUE) \in Range(toClient') => authed'
  BY <1>2 DEF ColdStart
<1>5. NoColdStartRace'
  BY <1>1, <1>2 DEF ColdStart, NoColdStartRace
<1> QED
  BY <1>1, <1>3, <1>4, <1>5 DEF ColdStart

\* Every step keeps the AUTH hold.
LEMMA ColdStartStep == TypeOK /\ ColdStart /\ [Next]_vars => ColdStart'
<1> SUFFICES ASSUME TypeOK, ColdStart, [Next]_vars
             PROVE  ColdStart'
  OBVIOUS
<1>a. << >> \in Seq([type : {"CLOSE"}, sub : Subs])
  OBVIOUS
<1>b. ASSUME socket' = "open" <=> socket = "open",
             UNCHANGED <<reqGate, unheld, authed, relaySubs, toRelay, toClient>>
      PROVE  ColdStart'
  <2>1. socket = "open" /\ ~unheld /\ ~authed => reqGate = "holding"
    BY DEF ColdStart
  <2> QED
    BY <1>b, <2>1, ColdStartStays
<1>c. ASSUME socket' # "open", toRelay' = << >>, toClient' = << >>, relaySubs' = {},
             unheld' = FALSE, authed' = FALSE
      PROVE  ColdStart'
  <2>1. Range(toClient') = {}
    BY <1>c DEF Range
  <2> QED
    BY <1>c, <2>1 DEF ColdStart, NoColdStartRace
<1>1. CASE Connect \/ ConnectThrows \/ ReconnectTimer
  BY <1>b, <1>1 DEF Connect, ConnectThrows, ReconnectTimer, OpenSocket, relayVars
<1>2. CASE Disconnect \/ SocketClose
  BY <1>c, <1>2 DEF Disconnect, SocketClose
<1>3. CASE ReplayAuth \/ LearnCap
  BY <1>b, <1>3 DEF ReplayAuth, LearnCap, linkVars, relayVars
<1>4. ASSUME NEW s \in Subs, Subscribe(s)
      PROVE  ColdStart'
  <2>1. /\ socket' = "open" <=> socket = "open"
        /\ UNCHANGED <<reqGate, unheld, authed, relaySubs, toClient>>
    BY <1>4 DEF Subscribe, OpenSocket, relayVars, TypeOK
  <2>2. CASE UNCHANGED toRelay
    BY <1>b, <2>1, <2>2
  <2>3. CASE SendReqs(heldReqs, << >>, <<s>>)
    BY <1>a, <2>1, <2>3, ColdStartSends
  <2> QED
    BY <1>4, <2>2, <2>3 DEF Subscribe
<1>5. ASSUME NEW s \in Subs, SubscribeLater(s)
      PROVE  ColdStart'
  BY <1>b, <1>5 DEF SubscribeLater, linkVars, relayVars
<1>6. ASSUME NEW s \in Subs, CloseSubscription(s)
      PROVE  ColdStart'
  <2> DEFINE ord  == Without(subscriptions, s)
             rest == Without(deferredSubs, s)
             held == Without(heldReqs, s)
  <2>1. UNCHANGED <<socket, reqGate, unheld, authed, relaySubs, toClient>>
    BY <1>6 DEF CloseSubscription, linkVars, relayVars
  <2>2. \/ UNCHANGED toRelay
        \/ SendReqs(held, <<Close(s)>>, Drained(rest, ord))
    BY <1>6 DEF CloseSubscription
  <2>3. <<Close(s)>> \in Seq([type : {"CLOSE"}, sub : Subs])
    BY MessagesTyped
  <2> HIDE DEF ord, rest, held
  <2> QED
    BY <1>b, <2>1, <2>2, <2>3, ColdStartSends
<1>7. CASE BatchTimer
  <2>1. /\ UNCHANGED <<socket, reqGate, unheld, authed, relaySubs, toClient>>
        /\ SendReqs(heldReqs, << >>, Keep(Head(batches), Tracked))
    BY <1>7 DEF BatchTimer, linkVars, relayVars
  <2> QED
    BY <1>a, <2>1, ColdStartSends
<1>8. CASE StaleBatchTimer
  <2>1. PICK b \in staleBatches : SendReqs(heldReqs, << >>, Keep(b, Tracked))
    BY <1>8 DEF StaleBatchTimer
  <2>2. UNCHANGED <<socket, reqGate, unheld, authed, relaySubs, toClient>>
    BY <1>8 DEF StaleBatchTimer, linkVars, relayVars
  <2> QED
    BY <1>a, <2>1, <2>2, ColdStartSends
<1>9. CASE AuthWedgeTimer
  <2>1. /\ socket = "open" /\ unheld' = TRUE
        /\ UNCHANGED <<socket, authed, toClient>>
    BY <1>9 DEF AuthWedgeTimer, linkVars, relayVars, TypeOK
  <2> QED
    BY <2>1 DEF ColdStart, NoColdStartRace
<1>10. ASSUME NEW c \in {"current", "old"}, SignDone(c)
       PROVE  ColdStart'
  <2>1. UNCHANGED <<socket, reqGate, unheld, authed, relaySubs, toClient>>
    BY <1>10 DEF SignDone, linkVars, relayVars
  <2>2. CASE socket = "open" /\ toRelay' = Append(toRelay, Auth(c))
    <3>1. Range(toRelay') = Range(toRelay) \cup {Auth(c)}
      BY <2>2, MessagesTyped, AppendRange DEF TypeOK
    <3>2. \A s \in Subs : Req(s) # Auth(c)
      BY MessagesDiffer
    <3>3. ~unheld /\ ~authed => reqGate = "holding"
      BY <2>2 DEF ColdStart
    <3> QED
      BY <2>1, <2>2, <3>1, <3>2, <3>3, ColdStartStays
  <2>3. CASE UNCHANGED toRelay
    BY <1>b, <2>1, <2>3
  <2> QED
    BY <1>10, <2>2, <2>3 DEF SignDone
<1>11. ASSUME NEW c \in {"current", "old"}, SignDeclined(c)
       PROVE  ColdStart'
  BY <1>b, <1>11 DEF SignDeclined, linkVars, relayVars
<1>12. CASE SocketOpen
  <2>1. /\ socket' = "open" /\ unheld' = ~everChallenged /\ authed' = FALSE
        /\ reqGate' = IF everChallenged THEN "holding" ELSE "open"
        /\ everChallenged => toRelay' = messageQueue
        /\ toClient' = IF SendsChallenge THEN <<Challenge>> ELSE << >>
    BY <1>12 DEF SocketOpen
  <2>2. Range(toClient') \subseteq {Challenge}
    BY <2>1, MessagesTyped, SmallRange
  <2>3. \A s \in Subs : Req(s) \notin Range(messageQueue)
    <3>1. Range(messageQueue) \subseteq [type : {"CLOSE"}, sub : Subs]
      BY RangeOfSeq DEF TypeOK
    <3> QED
      BY <3>1 DEF Req
  <2>4. /\ \A c \in {"current", "old"} : Ok(c, TRUE) # Challenge
        /\ \A s \in Subs : Closed(s, "auth-required") # Challenge
    BY DEF Ok, Closed, Challenge
  <2>5. everChallenged \in BOOLEAN
    BY DEF TypeOK
  <2>6. /\ \A s \in Subs : Closed(s, "auth-required") \notin Range(toClient')
        /\ \A c \in {"current", "old"} : Ok(c, TRUE) \notin Range(toClient')
    BY <2>2, <2>4
  <2>7. ~unheld' => reqGate' = "holding" /\ \A s \in Subs : Req(s) \notin Range(toRelay')
    BY <2>1, <2>3, <2>5
  <2>8. NoColdStartRace'
    BY <2>6 DEF NoColdStartRace
  <2> QED
    BY <2>1, <2>6, <2>7, <2>8 DEF ColdStart
<1>13. ASSUME NEW s \in Subs, ReceiveEose(s) \/ ReceiveTooMany(s)
       PROVE  ColdStart'
  <2>1. UNCHANGED <<socket, reqGate, unheld, authed, relaySubs, toRelay>>
    BY <1>13 DEF ReceiveEose, ReceiveTooMany, linkVars, relayVars
  <2> QED
    BY <1>13, <2>1, ColdStartReceives DEF ReceiveEose, ReceiveTooMany
<1>14. ASSUME NEW s \in Subs, NEW r \in Reasons, ReceiveClosed(s, r)
       PROVE  ColdStart'
  <2>1. UNCHANGED <<socket, reqGate, unheld, authed, relaySubs, toRelay>>
    BY <1>14 DEF ReceiveClosed, linkVars, relayVars
  <2> QED
    BY <1>14, <2>1, ColdStartReceives DEF ReceiveClosed
<1>15. ASSUME NEW c \in {"current", "old"}, NEW b \in BOOLEAN, ReceiveOk(c, b)
       PROVE  ColdStart'
  <2>1. /\ UNCHANGED <<socket, unheld, authed, relaySubs>>
        /\ Receive(Ok(c, b))
        /\ \/ b /\ ReleaseReqGate
           \/ UNCHANGED <<reqGate, heldReqs, toRelay>>
    BY <1>15 DEF ReceiveOk, linkVars, relayVars
  <2>2. CASE UNCHANGED <<reqGate, heldReqs, toRelay>>
    BY <2>1, <2>2, ColdStartReceives
  <2>3. CASE b = TRUE
    <3>1. /\ toClient # << >> /\ toClient' = Tail(toClient)
          /\ Ok(c, TRUE) = Head(toClient)
      BY <2>1, <2>3 DEF Receive
    <3>2. Range(toClient) = {Ok(c, TRUE)} \cup Range(toClient')
      BY <3>1, HeadTailRange DEF TypeOK
    <3>3. socket = "open" /\ authed
      BY <3>1, <3>2 DEF ColdStart
    <3> QED
      BY <2>1, <3>2, <3>3, ColdStartStays
  <2> QED
    BY <2>1, <2>2, <2>3
<1>16. CASE ReceiveChallenge
  <2>1. UNCHANGED <<socket, reqGate, unheld, authed, relaySubs, toRelay>>
    BY <1>16 DEF ReceiveChallenge, linkVars, relayVars
  <2> QED
    BY <1>16, <2>1, ColdStartReceives DEF ReceiveChallenge
<1>17. ASSUME NEW m, Take(m)
       PROVE  /\ socket = "open" /\ m \in Range(toRelay)
              /\ Range(toRelay') \subseteq Range(toRelay)
  <2>1. toRelay # << >> /\ Head(toRelay) = m /\ toRelay' = Tail(toRelay)
    BY <1>17 DEF Take
  <2>2. Range(toRelay) = {m} \cup Range(toRelay')
    BY <2>1, HeadTailRange DEF TypeOK
  <2>3. socket = "open"
    BY <2>1 DEF ColdStart
  <2> QED
    BY <2>2, <2>3
<1>18. ASSUME NEW s \in Subs, RelayReq(s)
       PROVE  ColdStart'
  <2>1. /\ socket = "open" /\ Req(s) \in Range(toRelay)
        /\ Range(toRelay') \subseteq Range(toRelay)
        /\ UNCHANGED clientVars /\ authed' = authed /\ authed \in BOOLEAN
    BY <1>17, <1>18 DEF RelayReq, TypeOK
  <2>2. authed \/ unheld
    BY <2>1 DEF ColdStart
  <2>3. CASE ~authed /\ Answer(Closed(s, "auth-required"))
    <3>1. Closed(s, "auth-required") \in RelayMessages
      BY MessagesTyped DEF Reasons
    <3>2. \A c \in {"current", "old"} : Closed(s, "auth-required") # Ok(c, TRUE)
      BY MessagesDiffer
    <3> QED
      BY <2>1, <2>2, <2>3, <3>1, <3>2, ColdStartAnswers
  <2>4. CASE Answer(Closed(s, "too many subscriptions"))
    <3>1. Closed(s, "too many subscriptions") \in RelayMessages
      BY MessagesTyped DEF Reasons
    <3>2. /\ \A c \in {"current", "old"} : Closed(s, "too many subscriptions") # Ok(c, TRUE)
          /\ \A t \in Subs : Closed(s, "too many subscriptions") # Closed(t, "auth-required")
      BY DEF Closed, Ok
    <3> QED
      BY <2>1, <2>4, <3>1, <3>2, ColdStartAnswers
  <2>5. CASE Answer(Eose(s))
    <3>1. Eose(s) \in RelayMessages
      BY MessagesTyped
    <3>2. /\ \A c \in {"current", "old"} : Eose(s) # Ok(c, TRUE)
          /\ \A t \in Subs : Eose(s) # Closed(t, "auth-required")
      BY DEF Closed, Ok, Eose
    <3> QED
      BY <2>1, <2>5, <3>1, <3>2, ColdStartAnswers
  <2> QED
    BY <1>18, <2>3, <2>4, <2>5 DEF RelayReq
<1>19. ASSUME NEW s \in Subs, RelayClose(s)
       PROVE  ColdStart'
  <2>1. /\ socket = "open" /\ Range(toRelay') \subseteq Range(toRelay)
        /\ UNCHANGED clientVars /\ authed' = authed /\ authed \in BOOLEAN
        /\ Answer(Closed(s, ""))
    BY <1>17, <1>19 DEF RelayClose, TypeOK
  <2>2. Closed(s, "") \in RelayMessages
    BY MessagesTyped DEF Reasons
  <2>3. /\ \A c \in {"current", "old"} : Closed(s, "") # Ok(c, TRUE)
        /\ \A t \in Subs : Closed(s, "") # Closed(t, "auth-required")
    BY DEF Closed, Ok
  <2> QED
    BY <2>1, <2>2, <2>3, ColdStartAnswers
<1>20. ASSUME NEW c \in {"current", "old"}, RelayAuth(c)
       PROVE  ColdStart'
  <2>1. /\ socket = "open" /\ Range(toRelay') \subseteq Range(toRelay)
        /\ UNCHANGED clientVars /\ authed \in BOOLEAN
    BY <1>17, <1>20 DEF RelayAuth, TypeOK
  <2>2. PICK success \in BOOLEAN : authed' = (authed \/ success) /\ Answer(Ok(c, success))
    BY <1>20 DEF RelayAuth
  <2>3. Ok(c, success) \in RelayMessages
    BY MessagesTyped
  <2>4. /\ \A d \in {"current", "old"} : Ok(c, success) = Ok(d, TRUE) => success
        /\ \A t \in Subs : Ok(c, success) # Closed(t, "auth-required")
    BY DEF Closed, Ok
  <2>5. /\ authed => authed'
        /\ authed' \in BOOLEAN
        /\ success => authed'
    BY <2>2
  <2> QED
    BY <2>1, <2>2, <2>3, <2>4, <2>5, ColdStartAnswers
<1>21. ASSUME NEW s \in Subs, RelayCancels(s)
       PROVE  ColdStart'
  <2>1. /\ socket = "open" /\ toRelay' = toRelay
        /\ UNCHANGED clientVars /\ authed' = authed /\ authed \in BOOLEAN
        /\ Answer(Closed(s, "cancelled"))
    BY <1>21 DEF RelayCancels, ColdStart, TypeOK
  <2>2. Closed(s, "cancelled") \in RelayMessages
    BY MessagesTyped DEF Reasons
  <2>3. /\ \A c \in {"current", "old"} : Closed(s, "cancelled") # Ok(c, TRUE)
        /\ \A t \in Subs : Closed(s, "cancelled") # Closed(t, "auth-required")
    BY DEF Closed, Ok
  <2> QED
    BY <2>1, <2>2, <2>3, ColdStartAnswers
<1>22. CASE UNCHANGED vars
  BY <1>b, <1>22 DEF vars, linkVars, relayVars
<1> QED
  BY <1>1, <1>2, <1>3, <1>4, <1>5, <1>6, <1>7, <1>8, <1>9, <1>10, <1>11, <1>12, <1>13,
     <1>14, <1>15, <1>16, <1>18, <1>19, <1>20, <1>21, <1>22
  DEF Next, Call, Timer, Signer, ReceiveMessage, RelayStep

\* Whatever the order of calls, reconnects, signatures and messages, a relay that
\* has challenged this client answers none of its REQs "auth-required", unless
\* the wedge timer had to open the gate first.
THEOREM NoColdStartRaceInvariant == Spec => []NoColdStartRace
<1>1. Init => TypeOK /\ ColdStart
  BY TypeInit, ColdStartInit
<1>2. TypeOK /\ ColdStart /\ [Next]_vars => TypeOK' /\ ColdStart'
  BY TypeStep, ColdStartStep
<1>3. ColdStart => NoColdStartRace
  BY DEF ColdStart
<1> QED
  BY <1>1, <1>2, <1>3, PTL DEF Spec

-----------------------------------------------------------------------------
\* Lists without repetitions

\* No entry of q is there twice.
Distinct(q) == \A i, j \in DOMAIN q : q[i] = q[j] => i = j

\* The entry at a kept position is found in Keep(q, S) no later than in q, and a
\* list without repetitions keeps none.
LEMMA KeepPositions ==
  ASSUME NEW A, NEW q \in Seq(A), NEW S
  PROVE  /\ \A i \in Kept(q, S) : \E j \in DOMAIN Keep(q, S) : j <= i /\ Keep(q, S)[j] = q[i]
         /\ Distinct(q) => Distinct(Keep(q, S))
<1> DEFINE n == Cardinality(Kept(q, S))
           at == [j \in 1 .. n |-> CHOOSE i \in Kept(q, S) : Rank(q, S, i) = j]
<1>1. n \in Nat /\ Kept(q, S) \subseteq 1 .. Len(q) /\ IsFiniteSet(Kept(q, S))
  BY KeptFinite
<1>2. \A j \in 1 .. n : at[j] \in Kept(q, S) /\ Rank(q, S, at[j]) = j
  BY RankOnto
<1>3. Keep(q, S) = [j \in 1 .. n |-> q[at[j]]]
  BY DEF Keep
<1> HIDE DEF at
<1>4. ASSUME NEW i \in Kept(q, S)
      PROVE  \E j \in DOMAIN Keep(q, S) : j <= i /\ Keep(q, S)[j] = q[i]
  <2> DEFINE r == Rank(q, S, i)
             U == {k \in Kept(q, S) : k <= i}
  <2>1. r \in 1 .. n
    BY RankInjective
  <2>2. at[r] = i
    BY <1>2, <2>1, RankInjective
  <2>3. r <= i
    <3>1. i \in Nat
      BY <1>1
    <3>2. U \subseteq 1 .. i /\ IsFiniteSet(1 .. i) /\ Cardinality(1 .. i) = i
      BY <1>1, <3>1, FS_Interval
    <3>3. Cardinality(U) <= i
      BY <3>2, FS_Subset
    <3> QED
      BY <3>3 DEF Rank
  <2> HIDE DEF r
  <2>4. r \in DOMAIN Keep(q, S) /\ Keep(q, S)[r] = q[i]
    BY <1>3, <2>1, <2>2
  <2> QED
    BY <2>3, <2>4
<1>5. ASSUME Distinct(q)
      PROVE  Distinct(Keep(q, S))
  <2> SUFFICES ASSUME NEW i \in 1 .. n, NEW j \in 1 .. n, q[at[i]] = q[at[j]]
               PROVE  i = j
    BY <1>3 DEF Distinct
  <2>1. at[i] \in DOMAIN q /\ at[j] \in DOMAIN q
    BY <1>2 DEF Kept
  <2>2. at[i] = at[j]
    BY <1>5, <2>1 DEF Distinct
  <2> QED
    BY <1>2, <2>2
<1> QED
  BY <1>4, <1>5

\* As many entries as there are positions.
LEMMA DistinctLength ==
  ASSUME NEW A, NEW q \in Seq(A), Distinct(q)
  PROVE  IsFiniteSet(Range(q)) /\ Cardinality(Range(q)) = Len(q)
<1>1. Len(q) \in Nat /\ DOMAIN q = 1 .. Len(q)
  BY LenProperties
<1>2. IsFiniteSet(1 .. Len(q)) /\ Cardinality(1 .. Len(q)) = Len(q)
  BY <1>1, FS_Interval
<1> DEFINE f == [i \in 1 .. Len(q) |-> q[i]]
<1>3. f \in Bijection(1 .. Len(q), Range(q))
  <2>1. f \in [1 .. Len(q) -> Range(q)]
    BY <1>1 DEF Range
  <2>2. \A e \in Range(q) : \E i \in 1 .. Len(q) : f[i] = e
    BY <1>1 DEF Range
  <2>3. \A i, j \in 1 .. Len(q) : f[i] = f[j] => i = j
    BY <1>1 DEF Distinct
  <2> HIDE DEF f
  <2> QED
    BY <2>1, <2>2, <2>3 DEF Bijection, Injection, Surjection, IsInjective
<1>4. ExistsBijection(1 .. Len(q), Range(q))
  BY <1>3 DEF ExistsBijection
<1> QED
  BY <1>2, <1>4, FS_Bijection

\* A new entry at the end repeats none.
LEMMA DistinctAppend ==
  ASSUME NEW A, NEW q \in Seq(A), Distinct(q), NEW e \in A, e \notin Range(q)
  PROVE  Distinct(Append(q, e))
<1>1. /\ DOMAIN Append(q, e) = 1 .. Len(q) + 1 /\ DOMAIN q = 1 .. Len(q) /\ Len(q) \in Nat
      /\ \A i \in 1 .. Len(q) : Append(q, e)[i] = q[i]
      /\ Append(q, e)[Len(q) + 1] = e
  BY AppendProperties, LenProperties
<1>2. \A i \in 1 .. Len(q) : q[i] # e
  BY <1>1 DEF Range
<1> QED
  BY <1>1, <1>2 DEF Distinct

\* Two lists with nothing in common, one after the other, repeat nothing.
LEMMA DistinctConcat ==
  ASSUME NEW A, NEW p \in Seq(A), NEW q \in Seq(A), Distinct(p), Distinct(q),
         Range(p) \cap Range(q) = {}
  PROVE  Distinct(p \o q)
<1>1. /\ DOMAIN p = 1 .. Len(p) /\ DOMAIN q = 1 .. Len(q) /\ Len(p) \in Nat /\ Len(q) \in Nat
      /\ DOMAIN (p \o q) = 1 .. Len(p) + Len(q)
      /\ \A i \in 1 .. Len(p) + Len(q) :
           (p \o q)[i] = IF i <= Len(p) THEN p[i] ELSE q[i - Len(p)]
  BY ConcatProperties, LenProperties
<1>2. \A i \in 1 .. Len(p), j \in 1 .. Len(q) : p[i] # q[j]
  BY <1>1 DEF Range
<1> SUFFICES ASSUME NEW i \in 1 .. Len(p) + Len(q), NEW j \in 1 .. Len(p) + Len(q),
                    (p \o q)[i] = (p \o q)[j]
             PROVE  i = j
  BY <1>1 DEF Distinct
<1>3. CASE i <= Len(p) /\ j <= Len(p)
  <2>1. i \in DOMAIN p /\ j \in DOMAIN p /\ p[i] = p[j]
    BY <1>1, <1>3
  <2> QED
    BY <2>1 DEF Distinct
<1>4. CASE i > Len(p) /\ j > Len(p)
  <2>1. /\ i - Len(p) \in DOMAIN q /\ j - Len(p) \in DOMAIN q
        /\ q[i - Len(p)] = q[j - Len(p)]
    BY <1>1, <1>4
  <2>2. i - Len(p) = j - Len(p)
    BY <2>1 DEF Distinct
  <2> QED
    BY <1>1, <2>2
<1>5. CASE i <= Len(p) /\ j > Len(p)
  <2>1. i \in 1 .. Len(p) /\ j - Len(p) \in 1 .. Len(q) /\ p[i] = q[j - Len(p)]
    BY <1>1, <1>5
  <2> QED
    BY <1>2, <2>1
<1>6. CASE i > Len(p) /\ j <= Len(p)
  <2>1. j \in 1 .. Len(p) /\ i - Len(p) \in 1 .. Len(q) /\ p[j] = q[i - Len(p)]
    BY <1>1, <1>6
  <2> QED
    BY <1>2, <2>1
<1> QED
  BY <1>1, <1>3, <1>4, <1>5, <1>6

\* The entries of a prefix come from the first n positions, those of the suffix
\* from the others.
LEMMA CutPositions ==
  ASSUME NEW A, NEW q \in Seq(A), NEW n \in Nat
  PROVE  /\ Len(Prefix(q, n)) = (IF n >= Len(q) THEN Len(q) ELSE n)
         /\ Len(Suffix(q, n)) = (IF n >= Len(q) THEN 0 ELSE Len(q) - n)
         /\ \A e \in Range(Prefix(q, n)) : \E i \in DOMAIN q : i <= n /\ q[i] = e
         /\ \A e \in Range(Suffix(q, n)) : \E i \in DOMAIN q : i > n /\ q[i] = e
         /\ Distinct(q) => /\ Distinct(Prefix(q, n)) /\ Distinct(Suffix(q, n))
                           /\ Range(Prefix(q, n)) \cap Range(Suffix(q, n)) = {}
<1>1. Len(q) \in Nat /\ DOMAIN q = 1 .. Len(q)
  BY LenProperties
<1>2. CASE n >= Len(q)
  <2>1. Prefix(q, n) = q /\ Suffix(q, n) = << >>
    BY <1>2 DEF Prefix, Suffix
  <2>2. Range(<< >>) = {} /\ Distinct(<< >>) /\ Len(<< >>) = 0
    BY DEF Range, Distinct
  <2>3. \A e \in Range(q) : \E i \in DOMAIN q : i <= n /\ q[i] = e
    BY <1>1, <1>2 DEF Range
  <2> QED
    BY <1>2, <2>1, <2>2, <2>3
<1>3. CASE n < Len(q)
  <2> DEFINE p == Prefix(q, n)
             r == Suffix(q, n)
  <2>1. /\ p = SubSeq(q, 1, n)
    BY <1>3 DEF Prefix
  <2>2. /\ p \in Seq(A) /\ Len(p) = n /\ \A i \in 1 .. n : p[i] = q[i]
    BY <1>1, <1>3, <2>1, SubSeqProperties
  <2>3. /\ r \in Seq(A) /\ Len(r) = Len(q) - n /\ DOMAIN r = 1 .. Len(q) - n
        /\ \A i \in 1 .. Len(q) - n : r[i] = q[n + i]
    <3>1. n <= Len(q)
      BY <1>1, <1>3
    <3> QED
      BY <3>1, SuffixEntries
  <2>4. DOMAIN p = 1 .. n
    BY <2>2, LenProperties
  <2> HIDE DEF p, r
  <2>5. \A i \in 1 .. n : i \in DOMAIN q
    BY <1>1, <1>3
  <2>6. \A i \in 1 .. Len(q) - n : n + i \in DOMAIN q /\ n + i > n
    BY <1>1, <1>3
  <2>7. \A e \in Range(p) : \E i \in DOMAIN q : i <= n /\ q[i] = e
    BY <2>2, <2>4, <2>5 DEF Range
  <2>8. \A e \in Range(r) : \E i \in DOMAIN q : i > n /\ q[i] = e
    BY <2>3, <2>6 DEF Range
  <2>9. ASSUME Distinct(q)
        PROVE  Distinct(p) /\ Distinct(r) /\ Range(p) \cap Range(r) = {}
    <3>1. Distinct(p)
      BY <2>2, <2>4, <2>5, <2>9 DEF Distinct
    <3>2. Distinct(r)
      <4> SUFFICES ASSUME NEW i \in 1 .. Len(q) - n, NEW j \in 1 .. Len(q) - n, r[i] = r[j]
                   PROVE  i = j
        BY <2>3 DEF Distinct
      <4>1. q[n + i] = q[n + j]
        BY <2>3
      <4>2. n + i = n + j
        BY <2>6, <2>9, <4>1 DEF Distinct
      <4> QED
        BY <4>2
    <3>3. Range(p) \cap Range(r) = {}
      <4> SUFFICES ASSUME NEW e \in Range(p), e \in Range(r)
                   PROVE  FALSE
        OBVIOUS
      <4>1. PICK i \in DOMAIN q : i <= n /\ q[i] = e
        BY <2>7
      <4>2. PICK j \in DOMAIN q : j > n /\ q[j] = e
        BY <2>8
      <4>3. i = j
        BY <2>9, <4>1, <4>2 DEF Distinct
      <4> QED
        BY <1>1, <4>1, <4>2, <4>3
    <3> QED
      BY <3>1, <3>2, <3>3
  <2>10. ~(n >= Len(q))
    BY <1>1, <1>3
  <2>11. Len(p) = (IF n >= Len(q) THEN Len(q) ELSE n)
    BY <2>2, <2>10
  <2>12. Len(r) = (IF n >= Len(q) THEN 0 ELSE Len(q) - n)
    BY <2>3, <2>10
  <2> QED
    BY <2>7, <2>8, <2>9, <2>11, <2>12 DEF p, r
<1>4. n >= Len(q) \/ n < Len(q)
  BY <1>1
<1> QED
  BY <1>2, <1>3, <1>4

\* resubscribe's batches hold nothing but what they were cut from.
LEMMA ChunksWithin ==
  ASSUME NEW q \in Seq(Subs), NEW b \in Range(Chunks(q))
  PROVE  Range(b) \subseteq Range(q)
<1> DEFINE n == (Len(q) + BatchSize - 1) \div BatchSize
<1>1. BatchSize \in Nat \ {0} /\ Len(q) \in Nat
  BY CapAssumption, LenProperties
<1>2. n \in Nat
  BY <1>1, DivBounds
<1>3. PICK k \in 1 .. n : b = Prefix(Suffix(q, (k - 1) * BatchSize), BatchSize)
  BY DEF Chunks, Range
<1> HIDE DEF n
<1>4. (k - 1) * BatchSize \in Nat
  BY <1>1, <1>2
<1>5. /\ Suffix(q, (k - 1) * BatchSize) \in Seq(Subs)
      /\ Range(Suffix(q, (k - 1) * BatchSize)) \subseteq Range(q)
  BY <1>4, CutRange
<1>6. Range(b) \subseteq Range(Suffix(q, (k - 1) * BatchSize))
  BY <1>1, <1>3, <1>5, CutRange
<1> QED
  BY <1>5, <1>6

\* The REQs for a list of subscriptions, message by message.
LEMMA ReqsEntries ==
  ASSUME NEW q \in Seq(Subs), NEW j \in DOMAIN Reqs(q)
  PROVE  \E s \in Range(q) : Reqs(q)[j] = Req(s)
BY DEF Reqs, Range

\* When everything deferred is tracked and nothing is deferred twice,
\* drainDeferred sends at most the first entry, and only below the cap.
LEMMA DrainsOne ==
  ASSUME NEW q \in Seq(Subs), NEW ord \in Seq(Subs), maxSubscriptions \in Nat,
         Distinct(q), Range(q) \subseteq Range(ord)
  PROVE  /\ Suffix(q, Shifted(q, ord)) \in Seq(Subs) /\ Drained(q, ord) \in Seq(Subs)
         /\ Distinct(Suffix(q, Shifted(q, ord)))
         /\ Range(Drained(q, ord)) \subseteq Range(q)
         /\ Range(Suffix(q, Shifted(q, ord))) = Range(q) \ Range(Drained(q, ord))
         /\ Len(ord) - Len(q) <= maxSubscriptions =>
              Len(ord) - Len(Suffix(q, Shifted(q, ord))) <= maxSubscriptions
<1> DEFINE stop == {m \in 0 .. Len(q) :
                      \/ m = Len(q)
                      \/ Len(ord) - (Len(q) - m) >= maxSubscriptions
                      \/ m > 0 /\ q[m] \in Range(ord)}
           n == Shifted(q, ord)
<1>1. Len(q) \in Nat /\ Len(ord) \in Nat /\ DOMAIN q = 1 .. Len(q)
  BY LenProperties
<1>2. stop \in SUBSET Nat /\ Len(q) \in stop
  BY <1>1
<1>3. \E m \in stop : \A k \in stop : m <= k
  BY <1>2, NatLeast
<1>4. n = CHOOSE m \in stop : \A k \in stop : m <= k
  BY DEF Shifted
<1>5. n \in stop /\ \A k \in stop : n <= k
  <2> HIDE DEF stop, n
  <2> QED
    BY <1>3, <1>4
<1>6. \A i \in 1 .. Len(q) : q[i] \in Range(ord) /\ q[i] \in Subs
  BY <1>1, ElementOfSeq DEF Range
<1>7. n \in {0, 1} /\ n <= Len(q)
  <2>1. CASE Len(q) = 0
    BY <1>1, <1>5, <2>1
  <2>2. CASE Len(q) > 0
    <3>1. 1 \in stop
      BY <1>1, <1>6, <2>2
    <3>2. n \in 0 .. Len(q)
      BY <1>5
    <3> HIDE DEF stop, n
    <3>3. n <= 1
      BY <1>5, <3>1
    <3> QED
      BY <1>1, <3>2, <3>3
  <2> QED
    BY <1>1, <2>1, <2>2
<1>8. ASSUME n = 1
      PROVE  Len(ord) - Len(q) < maxSubscriptions
  <2>1. 0 \notin stop
    <3> HIDE DEF stop, n
    <3>1. 0 \in stop => n <= 0
      BY <1>5
    <3> QED
      BY <1>8, <3>1
  <2> QED
    BY <1>1, <2>1
<1> HIDE DEF n, stop
<1>9. Drained(q, ord) = IF n = 1 THEN <<q[1]>> ELSE << >>
  <2>1. Drained(q, ord) = IF n > 0 /\ q[n] \in Range(ord) THEN <<q[n]>> ELSE << >>
    BY DEF Drained, n
  <2> QED
    BY <1>1, <1>6, <1>7, <2>1
<1>10. CASE n = 0
  <2>1. Suffix(q, n) = q
    <3>1. CASE Len(q) = 0
      BY <1>10, <3>1, EmptySeq DEF Suffix
    <3>2. CASE Len(q) > 0
      <4>1. Suffix(q, n) = SubSeq(q, 1, Len(q))
        BY <1>1, <1>10, <3>2 DEF Suffix
      <4> QED
        BY <4>1, SubSeqFull
    <3> QED
      BY <1>1, <3>1, <3>2
  <2>2. Drained(q, ord) = << >>
    BY <1>9, <1>10
  <2> QED
    BY <2>1, <2>2, SmallRange DEF n, Range
<1>11. CASE n = 1
  <2>1. 1 \in DOMAIN q /\ Len(q) >= 1
    BY <1>1, <1>7, <1>11
  <2>2. Drained(q, ord) = <<q[1]>> /\ q[1] \in Subs
    BY <1>1, <1>6, <1>9, <1>11, <2>1
  <2>3. Drained(q, ord) \in Seq(Subs) /\ Range(Drained(q, ord)) = {q[1]}
    BY <2>2, SmallRange
  <2> DEFINE r == Suffix(q, n)
  <2>4. /\ r \in Seq(Subs) /\ Len(r) = Len(q) - 1 /\ DOMAIN r = 1 .. Len(q) - 1
        /\ \A i \in 1 .. Len(q) - 1 : r[i] = q[1 + i]
    BY <1>11, <2>1, SuffixEntries
  <2>5. Distinct(r)
    BY <1>11, CutPositions
  <2> HIDE DEF r
  <2>6. Range(r) = Range(q) \ {q[1]}
    <3>1. ASSUME NEW i \in 1 .. Len(q) - 1
          PROVE  r[i] \in Range(q) \ {q[1]}
      <4>1. 1 + i \in DOMAIN q /\ 1 + i # 1
        BY <1>1
      <4>2. r[i] = q[1 + i]
        BY <2>4
      <4> QED
        BY <2>1, <4>1, <4>2 DEF Distinct, Range
    <3>2. ASSUME NEW i \in DOMAIN q, q[i] # q[1]
          PROVE  q[i] \in Range(r)
      <4>1. i - 1 \in DOMAIN r /\ r[i - 1] = q[i]
        BY <1>1, <2>4, <3>2
      <4> QED
        BY <4>1 DEF Range
    <3>3. Range(r) \subseteq Range(q) \ {q[1]}
      BY <2>4, <3>1 DEF Range
    <3>4. Range(q) \ {q[1]} \subseteq Range(r)
      BY <3>2 DEF Range
    <3> QED
      BY <3>3, <3>4
  <2>7. Range(Drained(q, ord)) \subseteq Range(q)
    BY <2>1, <2>3 DEF Range
  <2>8. Len(ord) - Len(r) <= maxSubscriptions
    BY <1>1, <1>8, <1>11, <2>4
  <2> QED
    BY <2>3, <2>4, <2>5, <2>6, <2>7, <2>8 DEF r, n
<1> QED
  BY <1>7, <1>10, <1>11

-----------------------------------------------------------------------------
\* What the client counts: the subscriptions it has sent or will send without
\* asking again, against the cap

\* The client's cap never exceeds the relay's, and the relay refuses nothing but
\* for its cap.
InStep == DefaultCap <= RelayCap /\ Protected = {} /\ ~CancelsSubs

\* What the client counts as sent: tracked, and not deferred.
Active == Tracked \ Deferred

\* The ids that were closed: none is ever used again.
Dead == used \ Pending

\* s is among the first subscriptions, those a reconnect sends and never defers.
Early(s) == \E i \in DOMAIN subscriptions : i <= maxSubscriptions /\ subscriptions[i] = s

\* s waits for a batch timer, of this socket or of an earlier one.
Batched(s) == \E b \in Range(batches) \cup staleBatches : s \in Range(b)

\* The client's lists repeat no id, and a deferred subscription is tracked, a tracked
\* one pending, a pending one handed out.
Lists ==
  /\ Distinct(pendingSubscriptions) /\ Distinct(subscriptions) /\ Distinct(deferredSubs)
  /\ Deferred \subseteq Tracked /\ Tracked \subseteq Pending /\ Pending \subseteq used

\* activeSent never exceeds the cap.
Counted == Len(subscriptions) - Len(deferredSubs) <= maxSubscriptions

\* A batch, even one that outlived its socket, holds nothing that is deferred now.
BatchesEarly ==
  \A s \in Subs :
    Batched(s) => s \in used /\ (s \in Pending => Early(s) /\ s \notin Deferred)

\* What the client's own book-keeping amounts to.
Ledger == Lists /\ Counted /\ BatchesEarly

\* The variables the ledger is about, the batches apart.
ledgerVars == <<used, pendingSubscriptions, subscriptions, deferredSubs, maxSubscriptions>>

\* What is counted against the cap is what is tracked and not deferred.
LEMMA ActiveCount ==
  ASSUME NEW ord \in Seq(Subs), NEW q \in Seq(Subs), Distinct(ord), Distinct(q),
         Range(q) \subseteq Range(ord), NEW cap \in Nat, Len(ord) - Len(q) <= cap
  PROVE  IsFiniteSet(Range(ord) \ Range(q)) /\ Cardinality(Range(ord) \ Range(q)) <= cap
<1>1. /\ IsFiniteSet(Range(ord)) /\ Cardinality(Range(ord)) = Len(ord)
      /\ IsFiniteSet(Range(q)) /\ Cardinality(Range(q)) = Len(q)
  BY DistinctLength
<1>2. Range(ord) \cap Range(q) = Range(q)
  OBVIOUS
<1>3. /\ IsFiniteSet(Range(ord) \ Range(q))
      /\ Cardinality(Range(ord) \ Range(q))
           = Cardinality(Range(ord)) - Cardinality(Range(ord) \cap Range(q))
  BY <1>1, FS_Difference
<1> QED
  BY <1>1, <1>2, <1>3

\* A list without repetitions loses one entry at most.
LEMMA WithoutLength ==
  ASSUME NEW A, NEW q \in Seq(A), Distinct(q), NEW e
  PROVE  /\ Distinct(Without(q, e))
         /\ Len(Without(q, e)) = (IF e \in Range(q) THEN Len(q) - 1 ELSE Len(q))
<1>1. /\ Without(q, e) \in Seq(A) /\ Range(Without(q, e)) = Range(q) \ {e}
  BY WithoutRange
<1>2. Distinct(Without(q, e))
  BY KeepPositions DEF Without
<1>3. /\ IsFiniteSet(Range(q)) /\ Cardinality(Range(q)) = Len(q)
      /\ Cardinality(Range(q) \ {e}) = Len(Without(q, e))
  BY <1>1, <1>2, DistinctLength
<1>4. Cardinality(Range(q) \ {e}) =
        IF e \in Range(q) THEN Cardinality(Range(q)) - 1 ELSE Cardinality(Range(q))
  BY <1>3, FS_RemoveElement
<1> QED
  BY <1>2, <1>3, <1>4

\* An entry keeps its place, or moves towards the front, when others go.
LEMMA EarlyStays ==
  ASSUME TypeOK, NEW s, NEW t \in Subs, t # s, Early(t),
         subscriptions' = Without(subscriptions, s), maxSubscriptions' = maxSubscriptions
  PROVE  Early(t)'
<1> DEFINE S == Range(subscriptions) \ {s}
<1>1. PICK i \in DOMAIN subscriptions : i <= maxSubscriptions /\ subscriptions[i] = t
  BY DEF Early
<1>2. subscriptions \in Seq(Subs) /\ maxSubscriptions \in Nat
  BY CapAssumption DEF TypeOK
<1>3. i \in Kept(subscriptions, S)
  BY <1>1 DEF Kept, Range
<1>4. subscriptions' = Keep(subscriptions, S)
  BY DEF Without
<1>5. Keep(subscriptions, S) \in Seq(Subs)
  BY <1>2, KeepRange
<1> HIDE DEF S
<1>6. PICK j \in DOMAIN Keep(subscriptions, S) :
        j <= i /\ Keep(subscriptions, S)[j] = subscriptions[i]
  BY <1>2, <1>3, KeepPositions
<1>7. i \in Nat /\ j \in Nat
  BY <1>2, <1>5, LenProperties
<1>8. j <= maxSubscriptions
  BY <1>1, <1>2, <1>6, <1>7
<1> QED
  BY <1>1, <1>4, <1>6, <1>8 DEF Early

\* A step that touches no list but the batches, and adds none.
LEMMA LedgerSame ==
  ASSUME Ledger, UNCHANGED ledgerVars,
         Range(batches') \cup staleBatches' \subseteq Range(batches) \cup staleBatches
  PROVE  Ledger' /\ Active' = Active /\ Dead' = Dead
<1>1. /\ Lists' /\ Counted' /\ Active' = Active /\ Dead' = Dead
      /\ Pending' = Pending /\ Deferred' = Deferred /\ used' = used
  BY DEF Ledger, ledgerVars, Lists, Counted, Distinct, Active, Tracked, Deferred, Pending, Dead
<1>2. \A s \in Subs : (Early(s)' <=> Early(s)) /\ (Batched(s)' => Batched(s))
  BY DEF ledgerVars, Early, Batched
<1>3. BatchesEarly'
  BY <1>1, <1>2 DEF Ledger, BatchesEarly
<1> QED
  BY <1>1, <1>3 DEF Ledger

\* A new id joins the pending subscriptions.
LEMMA PendingAppend ==
  ASSUME TypeOK, Lists, NEW s \in Subs, s \notin used, used' = used \cup {s},
         pendingSubscriptions' = Append(pendingSubscriptions, s)
  PROVE  /\ Distinct(pendingSubscriptions') /\ Pending' = Pending \cup {s}
         /\ Pending' \subseteq used' /\ Dead' = Dead
<1>1. pendingSubscriptions \in Seq(Subs) /\ s \notin Range(pendingSubscriptions)
  BY DEF TypeOK, Lists, Pending
<1>2. /\ Distinct(Append(pendingSubscriptions, s))
      /\ Range(Append(pendingSubscriptions, s)) = Range(pendingSubscriptions) \cup {s}
  <2>1. Distinct(pendingSubscriptions)
    BY DEF Lists
  <2> QED
    BY <1>1, <2>1, DistinctAppend, AppendRange
<1> QED
  BY <1>1, <1>2 DEF Lists, Pending, Dead

\* subscribe() counts a subscription only while there is room.
LEMMA SubscribeLedger ==
  ASSUME TypeOK, Ledger, NEW s \in Subs, Subscribe(s)
  PROVE  /\ Ledger' /\ Dead' = Dead /\ Active \subseteq Active'
         /\ Room(subscriptions, deferredSubs) # 0 => s \in Active'
<1>0. /\ subscriptions \in Seq(Subs) /\ deferredSubs \in Seq(Subs)
      /\ Len(subscriptions) \in Nat /\ Len(deferredSubs) \in Nat
      /\ maxSubscriptions \in Nat /\ DOMAIN subscriptions = 1 .. Len(subscriptions)
  BY LenProperties, CapAssumption DEF TypeOK
<1>1. /\ s \notin used /\ used' = used \cup {s}
      /\ pendingSubscriptions' = Append(pendingSubscriptions, s)
      /\ subscriptions' = Append(subscriptions, s)
      /\ UNCHANGED <<maxSubscriptions, batches, staleBatches>>
      /\ deferredSubs' = IF Room(subscriptions, deferredSubs) = 0
                         THEN Append(deferredSubs, s) ELSE deferredSubs
  BY DEF Subscribe, timerVars
<1>2. Lists
  BY DEF Ledger
<1>3. /\ Distinct(pendingSubscriptions') /\ Pending' = Pending \cup {s}
      /\ Pending' \subseteq used' /\ Dead' = Dead
  BY <1>1, <1>2, PendingAppend
<1>4. s \notin Tracked /\ s \notin Deferred
  BY <1>1, <1>2 DEF Lists
<1>5. /\ Distinct(subscriptions') /\ Tracked' = Tracked \cup {s}
      /\ Len(subscriptions') = Len(subscriptions) + 1
      /\ DOMAIN subscriptions' = 1 .. Len(subscriptions) + 1
      /\ \A i \in 1 .. Len(subscriptions) : subscriptions'[i] = subscriptions[i]
  <2>1. Distinct(Append(subscriptions, s))
    BY <1>0, <1>2, <1>4, DistinctAppend DEF Lists, Tracked
  <2>2. Range(Append(subscriptions, s)) = Range(subscriptions) \cup {s}
    BY <1>0, AppendRange
  <2>3. /\ Append(subscriptions, s) \in Seq(Subs)
        /\ Len(Append(subscriptions, s)) = Len(subscriptions) + 1
        /\ \A i \in 1 .. Len(subscriptions) : Append(subscriptions, s)[i] = subscriptions[i]
    BY <1>0, AppendProperties
  <2>4. DOMAIN Append(subscriptions, s) = 1 .. Len(subscriptions) + 1
    BY <2>3, LenProperties
  <2> QED
    BY <1>1, <2>1, <2>2, <2>3, <2>4 DEF Tracked
<1>6. /\ Distinct(deferredSubs') /\ Deferred' \subseteq Deferred \cup {s}
      /\ Deferred \subseteq Deferred'
      /\ Room(subscriptions, deferredSubs) # 0 => Deferred' = Deferred
      /\ Len(subscriptions') - Len(deferredSubs') <= maxSubscriptions
  <2>1. CASE Room(subscriptions, deferredSubs) = 0
    <3>1. deferredSubs' = Append(deferredSubs, s)
      BY <1>1, <2>1
    <3>2. Distinct(Append(deferredSubs, s))
      BY <1>0, <1>2, <1>4, DistinctAppend DEF Lists, Deferred
    <3>3. /\ Range(Append(deferredSubs, s)) = Range(deferredSubs) \cup {s}
          /\ Len(Append(deferredSubs, s)) = Len(deferredSubs) + 1
      BY <1>0, AppendRange, AppendProperties
    <3>4. Len(subscriptions) + 1 - (Len(deferredSubs) + 1) <= maxSubscriptions
      BY <1>0 DEF Ledger, Counted
    <3> QED
      BY <1>5, <2>1, <3>1, <3>2, <3>3, <3>4 DEF Deferred
  <2>2. CASE Room(subscriptions, deferredSubs) # 0
    <3>1. deferredSubs' = deferredSubs
      BY <1>1, <2>2
    <3>2. Len(subscriptions) + 1 - Len(deferredSubs) <= maxSubscriptions
      <4> DEFINE r == maxSubscriptions - (Len(subscriptions) - Len(deferredSubs))
      <4>1. Room(subscriptions, deferredSubs) = IF r < 0 THEN 0 ELSE r
        BY DEF Room
      <4>2. r \in Int
        BY <1>0
      <4> HIDE DEF r
      <4>3. r > 0
        BY <2>2, <4>1, <4>2
      <4> QED
        BY <1>0, <4>3 DEF r
    <3> QED
      BY <1>2, <1>5, <3>1, <3>2 DEF Deferred, Lists, Distinct
  <2> QED
    BY <2>1, <2>2
<1>7. Lists'
  BY <1>2, <1>3, <1>5, <1>6 DEF Lists
<1>8. Counted'
  BY <1>1, <1>6 DEF Counted
<1>9. BatchesEarly'
  <2> SUFFICES ASSUME NEW t \in Subs, Batched(t)'
               PROVE  t \in used' /\ (t \in Pending' => Early(t)' /\ t \notin Deferred')
    BY DEF BatchesEarly
  <2>1. Batched(t)
    BY <1>1 DEF Batched
  <2>2. t \in used /\ (t \in Pending => Early(t) /\ t \notin Deferred)
    BY <2>1 DEF Ledger, BatchesEarly
  <2>3. t # s
    BY <1>1, <2>2
  <2>4. Early(t) => Early(t)'
    <3> SUFFICES ASSUME NEW i \in DOMAIN subscriptions,
                        i <= maxSubscriptions, subscriptions[i] = t
                 PROVE  Early(t)'
      BY DEF Early
    <3>1. i \in DOMAIN subscriptions' /\ subscriptions'[i] = t
      BY <1>0, <1>5
    <3> QED
      BY <1>1, <3>1 DEF Early
  <2> QED
    BY <1>1, <1>3, <1>6, <2>2, <2>3, <2>4
<1>10. Active \subseteq Active'
  BY <1>4, <1>5, <1>6 DEF Active
<1>11. Room(subscriptions, deferredSubs) # 0 => s \in Active'
  BY <1>4, <1>5, <1>6 DEF Active
<1> QED
  BY <1>3, <1>7, <1>8, <1>9, <1>10, <1>11 DEF Ledger

\* A subscription made while there is no socket is pending, and nothing else.
LEMMA SubscribeLaterLedger ==
  ASSUME TypeOK, Ledger, NEW s \in Subs, SubscribeLater(s)
  PROVE  Ledger' /\ Dead' = Dead /\ Active' = Active
<1>1. /\ s \notin used /\ used' = used \cup {s}
      /\ pendingSubscriptions' = Append(pendingSubscriptions, s)
      /\ UNCHANGED <<subscriptions, deferredSubs, maxSubscriptions, batches, staleBatches>>
  BY DEF SubscribeLater, subVars, timerVars
<1>2. Lists
  BY DEF Ledger
<1>3. /\ Distinct(pendingSubscriptions') /\ Pending' = Pending \cup {s}
      /\ Pending' \subseteq used' /\ Dead' = Dead
  BY <1>1, <1>2, PendingAppend
<1>4. Tracked' = Tracked /\ Deferred' = Deferred /\ Active' = Active
  BY <1>1 DEF Tracked, Deferred, Active
<1>5. Lists'
  BY <1>1, <1>2, <1>3, <1>4 DEF Lists, Distinct
<1>6. Counted'
  BY <1>1 DEF Ledger, Counted
<1>7. BatchesEarly'
  <2> SUFFICES ASSUME NEW t \in Subs, Batched(t)'
               PROVE  t \in used' /\ (t \in Pending' => Early(t)' /\ t \notin Deferred')
    BY DEF BatchesEarly
  <2>1. Batched(t) /\ (Early(t)' <=> Early(t))
    BY <1>1 DEF Batched, Early
  <2>2. t \in used /\ (t \in Pending => Early(t) /\ t \notin Deferred)
    BY <2>1 DEF Ledger, BatchesEarly
  <2> QED
    BY <1>1, <1>3, <1>4, <2>1, <2>2
<1> QED
  BY <1>3, <1>4, <1>5, <1>6, <1>7 DEF Ledger

\* closeSubscription: the id is forgotten, and what drains becomes active.
LEMMA CloseLedger ==
  ASSUME TypeOK, Ledger, NEW s \in Subs, CloseSubscription(s),
         NEW ord, ord = Without(subscriptions, s),
         NEW rest, rest = Without(deferredSubs, s)
  PROVE  /\ Ledger' /\ Dead' = Dead \cup {s} /\ Active \ {s} \subseteq Active'
         /\ s \in Tracked /\ socket = "open" =>
              Drained(rest, ord) \in Seq(Subs) /\ Range(Drained(rest, ord)) \subseteq Active'
<1>0. /\ subscriptions \in Seq(Subs) /\ deferredSubs \in Seq(Subs)
      /\ pendingSubscriptions \in Seq(Subs)
      /\ Len(subscriptions) \in Nat /\ Len(deferredSubs) \in Nat
      /\ maxSubscriptions \in Nat
  BY LenProperties, CapAssumption DEF TypeOK
<1>1. /\ s \in Pending /\ pendingSubscriptions' = Without(pendingSubscriptions, s)
      /\ UNCHANGED <<used, maxSubscriptions, batches, staleBatches>>
  BY DEF CloseSubscription, timerVars
<1>2. Lists
  BY DEF Ledger
<1>3. Pending' = Pending \ {s} /\ Distinct(pendingSubscriptions')
  BY <1>0, <1>1, <1>2, WithoutRange, WithoutLength DEF Pending, Lists
<1>4. Dead' = Dead \cup {s}
  BY <1>1, <1>2, <1>3 DEF Dead, Lists
<1>a. ASSUME NEW t \in Subs, Batched(t)', \A u \in Subs : u # s /\ Early(u) => Early(u)',
             Deferred' \subseteq Deferred
      PROVE  t \in used' /\ (t \in Pending' => Early(t)' /\ t \notin Deferred')
  <2>1. Batched(t)
    BY <1>1, <1>a DEF Batched
  <2>2. t \in used /\ (t \in Pending => Early(t) /\ t \notin Deferred)
    BY <2>1 DEF Ledger, BatchesEarly
  <2> QED
    BY <1>1, <1>3, <1>a, <2>2
<1>5. CASE s \notin Tracked
  <2>1. UNCHANGED <<subscriptions, deferredSubs>>
    BY <1>5 DEF CloseSubscription
  <2>2. Tracked' = Tracked /\ Deferred' = Deferred /\ Active' = Active
    BY <2>1 DEF Tracked, Deferred, Active
  <2>3. Lists'
    BY <1>1, <1>2, <1>3, <1>5, <2>1, <2>2 DEF Lists, Distinct
  <2>4. Counted'
    BY <1>1, <2>1 DEF Ledger, Counted
  <2>5. \A t \in Subs : Early(t)' <=> Early(t)
    BY <1>1, <2>1 DEF Early
  <2>6. BatchesEarly'
    BY <1>a, <2>2, <2>5 DEF BatchesEarly
  <2> QED
    BY <1>4, <1>5, <2>2, <2>3, <2>4, <2>6 DEF Ledger
<1>6. CASE s \in Tracked
  <2>1. /\ subscriptions' = ord
        /\ IF socket = "open" THEN deferredSubs' = Suffix(rest, Shifted(rest, ord))
                              ELSE deferredSubs' = rest
    BY <1>6 DEF CloseSubscription
  <2>2. /\ ord \in Seq(Subs) /\ Range(ord) = Tracked \ {s} /\ Distinct(ord)
        /\ Len(ord) = Len(subscriptions) - 1
    BY <1>0, <1>2, <1>6, WithoutRange, WithoutLength DEF Lists, Tracked
  <2>3. /\ rest \in Seq(Subs) /\ Range(rest) = Deferred \ {s} /\ Distinct(rest)
        /\ Len(rest) >= Len(deferredSubs) - 1
    BY <1>0, <1>2, WithoutRange, WithoutLength DEF Lists, Deferred
  <2>4. Range(rest) \subseteq Range(ord) /\ Len(rest) \in Nat
    BY <1>2, <2>2, <2>3, LenProperties DEF Lists
  <2>5. Len(ord) - Len(rest) <= maxSubscriptions
    BY <1>0, <2>2, <2>3, <2>4 DEF Ledger, Counted
  <2>6. /\ Suffix(rest, Shifted(rest, ord)) \in Seq(Subs) /\ Drained(rest, ord) \in Seq(Subs)
        /\ Distinct(Suffix(rest, Shifted(rest, ord)))
        /\ Range(Drained(rest, ord)) \subseteq Range(rest)
        /\ Range(Suffix(rest, Shifted(rest, ord))) = Range(rest) \ Range(Drained(rest, ord))
        /\ Len(ord) - Len(Suffix(rest, Shifted(rest, ord))) <= maxSubscriptions
    BY <1>0, <2>2, <2>3, <2>4, <2>5, DrainsOne
  <2>7. /\ Distinct(deferredSubs') /\ Deferred' \subseteq Range(rest)
        /\ Len(ord) - Len(deferredSubs') <= maxSubscriptions
        /\ socket = "open" => Deferred' = Range(rest) \ Range(Drained(rest, ord))
    <3>1. CASE socket = "open"
      <4>1. deferredSubs' = Suffix(rest, Shifted(rest, ord))
        BY <2>1, <3>1
      <4> QED
        BY <2>6, <4>1 DEF Deferred
    <3>2. CASE socket # "open"
      <4>1. deferredSubs' = rest
        BY <2>1, <3>2
      <4> QED
        BY <2>3, <2>5, <3>2, <4>1 DEF Deferred
    <3> QED
      BY <3>1, <3>2
  <2>8. Tracked' = Tracked \ {s}
    BY <2>1, <2>2 DEF Tracked
  <2>9. Distinct(subscriptions')
    BY <2>1, <2>2
  <2>10. Lists'
    BY <1>1, <1>2, <1>3, <2>3, <2>7, <2>8, <2>9 DEF Lists
  <2>11. Counted'
    BY <1>1, <2>1, <2>7 DEF Counted
  <2>12. \A t \in Subs : t # s /\ Early(t) => Early(t)'
    BY <1>1, <2>1, EarlyStays
  <2>13. Deferred' \subseteq Deferred
    BY <2>3, <2>7
  <2>14. BatchesEarly'
    BY <1>a, <2>12, <2>13 DEF BatchesEarly
  <2>15. Active \ {s} \subseteq Active'
    BY <2>8, <2>13 DEF Active
  <2>16. socket = "open" => Range(Drained(rest, ord)) \subseteq Active'
    BY <1>2, <2>3, <2>6, <2>7, <2>8 DEF Active, Lists
  <2> QED
    BY <1>4, <2>6, <2>10, <2>11, <2>14, <2>15, <2>16 DEF Ledger
<1> QED
  BY <1>5, <1>6

\* A CLOSED for an id that is not tracked leaves the lists what they were.
LEMMA ForgetLedger ==
  ASSUME TypeOK, Ledger, NEW s \in Subs, s \notin Tracked,
         subscriptions' = Without(subscriptions, s),
         UNCHANGED <<used, pendingSubscriptions, deferredSubs, maxSubscriptions, batches,
                     staleBatches>>
  PROVE  Ledger' /\ Dead' = Dead /\ Active' = Active
<1>0. subscriptions \in Seq(Subs)
  BY DEF TypeOK
<1>1. Lists
  BY DEF Ledger
<1>2. /\ Distinct(subscriptions') /\ Len(subscriptions') = Len(subscriptions)
      /\ Tracked' = Tracked
  <2>1. /\ Distinct(Without(subscriptions, s))
        /\ Len(Without(subscriptions, s)) =
             (IF s \in Range(subscriptions) THEN Len(subscriptions) - 1 ELSE Len(subscriptions))
    BY <1>0, <1>1, WithoutLength DEF Lists
  <2>2. Range(Without(subscriptions, s)) = Range(subscriptions) \ {s}
    BY <1>0, WithoutRange
  <2> QED
    BY <2>1, <2>2 DEF Tracked
<1>3. Deferred' = Deferred /\ Pending' = Pending /\ Active' = Active /\ Dead' = Dead
  BY <1>2 DEF Deferred, Pending, Active, Dead
<1>4. Lists'
  BY <1>1, <1>2, <1>3 DEF Lists, Distinct
<1>5. Counted'
  BY <1>2 DEF Ledger, Counted
<1>6. \A t \in Subs : t \in Pending /\ t # s /\ Early(t) => Early(t)'
  BY EarlyStays
<1>7. \A t \in Subs : Early(t) => t \in Tracked
  BY <1>0 DEF Early, Tracked, Range
<1>8. BatchesEarly'
  <2> SUFFICES ASSUME NEW t \in Subs, Batched(t)'
               PROVE  t \in used' /\ (t \in Pending' => Early(t)' /\ t \notin Deferred')
    BY DEF BatchesEarly
  <2>1. Batched(t)
    BY DEF Batched
  <2>2. t \in used /\ (t \in Pending => Early(t) /\ t \notin Deferred)
    BY <2>1 DEF Ledger, BatchesEarly
  <2> QED
    BY <1>3, <1>6, <1>7, <2>2
<1> QED
  BY <1>3, <1>4, <1>5, <1>8 DEF Ledger

\* onopen: what is sent at once is not deferred.
LEMMA OpenLedger ==
  ASSUME TypeOK, Ledger, SocketOpen,
         NEW toSend, toSend = Prefix(subscriptions, maxSubscriptions),
         NEW forward, forward = Keep(pendingSubscriptions, Subs \ Tracked),
         NEW room, room = Room(subscriptions, Overflow),
         NEW now, now = Prefix(toSend, BatchSize) \o Prefix(forward, room)
  PROVE  Ledger' /\ Dead' = Dead /\ now \in Seq(Subs) /\ Range(now) \subseteq Active'
<1>0. /\ subscriptions \in Seq(Subs) /\ deferredSubs \in Seq(Subs)
      /\ pendingSubscriptions \in Seq(Subs)
      /\ Len(subscriptions) \in Nat /\ Len(deferredSubs) \in Nat
      /\ maxSubscriptions \in Nat /\ BatchSize \in Nat /\ BatchSize \in Nat \ {0}
      /\ DOMAIN subscriptions = 1 .. Len(subscriptions)
  BY LenProperties, CapAssumption DEF TypeOK
<1>1. Lists
  BY DEF Ledger
<1>2. /\ subscriptions' = subscriptions \o forward
      /\ deferredSubs' = Overflow \o Suffix(forward, room)
      /\ batches' = Chunks(Suffix(toSend, BatchSize))
      /\ UNCHANGED <<used, pendingSubscriptions, maxSubscriptions, staleBatches>>
  BY DEF SocketOpen, managerVars
<1>3. Overflow = Suffix(subscriptions, maxSubscriptions)
  <2>1. CASE subscriptions = << >>
    <3>1. Tracked = {}
      BY <2>1 DEF Tracked, Range
    <3>2. Range(deferredSubs) = {}
      BY <1>1, <3>1 DEF Lists, Deferred
    <3>3. deferredSubs = << >>
      <4>1. deferredSubs # << >> => Head(deferredSubs) \in Range(deferredSubs)
        BY <1>0, HeadTailRange
      <4> QED
        BY <3>2, <4>1
    <3>4. Len(subscriptions) = 0
      BY <2>1
    <3> QED
      BY <1>0, <2>1, <3>3, <3>4 DEF Overflow, Suffix
  <2>2. CASE subscriptions # << >>
    BY <2>2 DEF Overflow
  <2> QED
    BY <2>1, <2>2
<1>4. /\ Distinct(subscriptions) /\ Distinct(pendingSubscriptions)
  BY <1>1 DEF Lists
<1> DEFINE over == Suffix(subscriptions, maxSubscriptions)
           sent == Prefix(forward, room)
           late == Suffix(forward, room)
<1>5. /\ toSend \in Seq(Subs) /\ over \in Seq(Subs)
      /\ Range(toSend) \cup Range(over) = Tracked
      /\ Range(toSend) \cap Range(over) = {}
      /\ Distinct(toSend) /\ Distinct(over)
      /\ Len(toSend) = (IF maxSubscriptions >= Len(subscriptions)
                        THEN Len(subscriptions) ELSE maxSubscriptions)
      /\ Len(over) = (IF maxSubscriptions >= Len(subscriptions)
                      THEN 0 ELSE Len(subscriptions) - maxSubscriptions)
      /\ \A e \in Range(toSend) :
           \E i \in DOMAIN subscriptions : i <= maxSubscriptions /\ subscriptions[i] = e
      /\ \A e \in Range(over) :
           \E i \in DOMAIN subscriptions : i > maxSubscriptions /\ subscriptions[i] = e
  <2>1. /\ toSend \in Seq(Subs) /\ over \in Seq(Subs)
        /\ Range(toSend) \cup Range(over) = Range(subscriptions)
    BY <1>0, CutRange
  <2>2. /\ Distinct(toSend) /\ Distinct(over) /\ Range(toSend) \cap Range(over) = {}
    BY <1>0, <1>4, CutPositions
  <2>3. /\ Len(toSend) = (IF maxSubscriptions >= Len(subscriptions)
                          THEN Len(subscriptions) ELSE maxSubscriptions)
        /\ Len(over) = (IF maxSubscriptions >= Len(subscriptions)
                        THEN 0 ELSE Len(subscriptions) - maxSubscriptions)
    BY <1>0, CutPositions
  <2>4. /\ \A e \in Range(toSend) :
             \E i \in DOMAIN subscriptions : i <= maxSubscriptions /\ subscriptions[i] = e
        /\ \A e \in Range(over) :
             \E i \in DOMAIN subscriptions : i > maxSubscriptions /\ subscriptions[i] = e
    BY <1>0, CutPositions
  <2> HIDE DEF over
  <2> QED
    BY <2>1, <2>2, <2>3, <2>4 DEF Tracked
<1>6. /\ forward \in Seq(Subs) /\ Distinct(forward)
      /\ Range(forward) = Pending \ Tracked /\ Len(forward) \in Nat
  <2>1. forward \in Seq(Subs) /\ Range(forward) = Pending \cap (Subs \ Tracked)
    BY <1>0, KeepRange DEF Pending
  <2>2. Distinct(forward)
    BY <1>0, <1>4, KeepPositions
  <2>3. Pending \subseteq Subs
    BY <1>1 DEF Lists, TypeOK
  <2> QED
    BY <2>1, <2>2, <2>3, LenProperties
<1>7. room = maxSubscriptions - Len(toSend) /\ room \in Nat
  <2> DEFINE r == maxSubscriptions - (Len(subscriptions) - Len(over))
  <2>1. room = IF r < 0 THEN 0 ELSE r
    BY <1>3 DEF Room
  <2>2. r = maxSubscriptions - Len(toSend) /\ r \in Nat
    <3>1. CASE maxSubscriptions >= Len(subscriptions)
      <4>1. Len(over) = 0 /\ Len(toSend) = Len(subscriptions)
        BY <1>5, <3>1
      <4> QED
        BY <1>0, <3>1, <4>1
    <3>2. CASE ~(maxSubscriptions >= Len(subscriptions))
      <4>1. /\ Len(over) = Len(subscriptions) - maxSubscriptions
            /\ Len(toSend) = maxSubscriptions
        BY <1>5, <3>2
      <4> QED
        BY <1>0, <3>2, <4>1
    <3> QED
      BY <3>1, <3>2
  <2> HIDE DEF r
  <2> QED
    BY <2>1, <2>2
<1>8. /\ sent \in Seq(Subs) /\ late \in Seq(Subs)
      /\ Range(sent) \cup Range(late) = Pending \ Tracked
      /\ Range(sent) \cap Range(late) = {}
      /\ Distinct(sent) /\ Distinct(late)
      /\ Len(late) = (IF room >= Len(forward) THEN 0 ELSE Len(forward) - room)
  BY <1>6, <1>7, CutRange, CutPositions
<1>9. Len(over) \in Nat /\ Len(late) \in Nat /\ Len(toSend) \in Nat
  BY <1>5, <1>8, LenProperties
<1>10. now = Prefix(toSend, BatchSize) \o sent /\ deferredSubs' = over \o late
  BY <1>2, <1>3
<1>11. /\ Prefix(toSend, BatchSize) \in Seq(Subs) /\ Suffix(toSend, BatchSize) \in Seq(Subs)
       /\ Range(Prefix(toSend, BatchSize)) \subseteq Range(toSend)
       /\ Range(Suffix(toSend, BatchSize)) \subseteq Range(toSend)
  <2>1. toSend \in Seq(Subs) /\ BatchSize \in Nat
    BY <1>0, <1>5
  <2> HIDE DEF over, sent, late
  <2>2. /\ Prefix(toSend, BatchSize) \in Seq(Subs) /\ Suffix(toSend, BatchSize) \in Seq(Subs)
        /\ Range(Prefix(toSend, BatchSize)) \cup Range(Suffix(toSend, BatchSize))
             = Range(toSend)
    BY ONLY <2>1, CutRange
  <2> QED
    BY <2>2
<1> HIDE DEF over, sent, late
<1>12. /\ Distinct(subscriptions') /\ Tracked' = Tracked \cup Pending
       /\ Len(subscriptions') = Len(subscriptions) + Len(forward)
       /\ \A i \in DOMAIN subscriptions :
            i \in DOMAIN subscriptions' /\ subscriptions'[i] = subscriptions[i]
  <2>1. Range(subscriptions) \cap Range(forward) = {}
    BY <1>6 DEF Tracked
  <2>2. Distinct(subscriptions \o forward)
    BY <1>0, <1>4, <1>6, <2>1, DistinctConcat
  <2>3. Range(subscriptions \o forward) = Range(subscriptions) \cup Range(forward)
    BY <1>0, <1>6, ConcatRange
  <2>4. /\ subscriptions \o forward \in Seq(Subs)
        /\ Len(subscriptions \o forward) = Len(subscriptions) + Len(forward)
        /\ \A i \in 1 .. Len(subscriptions) + Len(forward) :
             (subscriptions \o forward)[i] =
               IF i <= Len(subscriptions) THEN subscriptions[i]
               ELSE forward[i - Len(subscriptions)]
    BY <1>0, <1>6, ConcatProperties
  <2>5. DOMAIN (subscriptions \o forward) = 1 .. Len(subscriptions) + Len(forward)
    BY <2>4, LenProperties
  <2>6. \A i \in DOMAIN subscriptions :
          /\ i \in DOMAIN (subscriptions \o forward)
          /\ (subscriptions \o forward)[i] = subscriptions[i]
    BY <1>0, <1>6, <2>4, <2>5
  <2> QED
    BY <1>2, <1>6, <2>2, <2>3, <2>4, <2>6 DEF Tracked
<1>13. /\ Distinct(deferredSubs') /\ Deferred' = Range(over) \cup Range(late)
       /\ Len(deferredSubs') = Len(over) + Len(late)
  <2>1. Range(over) \cap Range(late) = {}
    BY <1>5, <1>8
  <2>2. Distinct(over \o late)
    BY <1>5, <1>8, <2>1, DistinctConcat
  <2>3. Range(over \o late) = Range(over) \cup Range(late)
    BY <1>5, <1>8, ConcatRange
  <2>4. Len(over \o late) = Len(over) + Len(late)
    BY <1>5, <1>8, ConcatProperties
  <2> QED
    BY <1>10, <2>2, <2>3, <2>4 DEF Deferred
<1>14. Pending' = Pending /\ Dead' = Dead
  BY <1>2 DEF Pending, Dead
<1>15. Lists'
  <2>1. Tracked \subseteq Pending /\ Pending \subseteq used
    BY <1>1 DEF Lists
  <2>2. Tracked' = Pending
    BY <1>12, <2>1
  <2>3. Deferred' \subseteq Tracked'
    BY <1>5, <1>8, <1>13, <2>1, <2>2
  <2>4. Distinct(pendingSubscriptions')
    BY <1>2, <1>4 DEF Distinct
  <2> QED
    BY <1>2, <1>12, <1>13, <1>14, <2>1, <2>2, <2>3, <2>4 DEF Lists
<1>16. Counted'
  <2>1. Len(subscriptions) = Len(toSend) + Len(over)
    <3>1. CASE maxSubscriptions >= Len(subscriptions)
      BY <1>0, <1>5, <3>1
    <3>2. CASE ~(maxSubscriptions >= Len(subscriptions))
      BY <1>0, <1>5, <3>2
    <3> QED
      BY <3>1, <3>2
  <2>2. Len(forward) - Len(late) <= room
    <3>1. CASE room >= Len(forward)
      <4>1. Len(late) = 0
        BY <1>8, <3>1
      <4> QED
        BY <1>6, <1>7, <3>1, <4>1
    <3>2. CASE ~(room >= Len(forward))
      BY <1>6, <1>7, <1>8, <3>2
    <3> QED
      BY <3>1, <3>2
  <2>3. (Len(subscriptions) + Len(forward)) - (Len(over) + Len(late)) <= maxSubscriptions
    BY <1>0, <1>6, <1>7, <1>9, <2>1, <2>2
  <2> QED
    BY <1>2, <1>12, <1>13, <2>3 DEF Counted
<1>17. ASSUME NEW t \in Subs, Early(t)
       PROVE  Early(t)' /\ t \notin Deferred'
  <2>1. PICK i \in DOMAIN subscriptions : i <= maxSubscriptions /\ subscriptions[i] = t
    BY <1>17 DEF Early
  <2>2. Early(t)'
    BY <1>2, <1>12, <2>1 DEF Early
  <2>3. t \notin Range(over)
    <3> SUFFICES ASSUME t \in Range(over)
                 PROVE  FALSE
      OBVIOUS
    <3>1. PICK j \in DOMAIN subscriptions : j > maxSubscriptions /\ subscriptions[j] = t
      BY <1>5
    <3>2. i = j
      BY <1>4, <2>1, <3>1 DEF Distinct
    <3> QED
      BY <1>0, <2>1, <3>1, <3>2
  <2>4. t \in Tracked
    BY <2>1 DEF Tracked, Range
  <2>5. t \notin Range(late)
    BY <1>8, <2>4
  <2> QED
    BY <1>13, <2>2, <2>3, <2>5
<1>18. BatchesEarly'
  <2> SUFFICES ASSUME NEW t \in Subs, Batched(t)'
               PROVE  t \in used' /\ (t \in Pending' => Early(t)' /\ t \notin Deferred')
    BY DEF BatchesEarly
  <2>1. CASE Batched(t)
    <3>1. t \in used /\ (t \in Pending => Early(t) /\ t \notin Deferred)
      BY <2>1 DEF Ledger, BatchesEarly
    <3> QED
      BY <1>2, <1>14, <1>17, <3>1
  <2>2. CASE ~Batched(t)
    <3>1. PICK b \in Range(batches') : t \in Range(b)
      BY <1>2, <2>2 DEF Batched
    <3>2. Range(b) \subseteq Range(toSend)
      BY <1>2, <1>11, <3>1, ChunksWithin
    <3>3. Early(t)
      BY <1>5, <3>1, <3>2 DEF Early
    <3>4. t \in used
      BY <1>1, <1>5, <3>1, <3>2 DEF Lists
    <3> QED
      BY <1>2, <1>17, <3>3, <3>4
  <2> QED
    BY <2>1, <2>2
<1>19. now \in Seq(Subs) /\ Range(now) \subseteq Range(toSend) \cup Range(sent)
  <2> DEFINE p == Prefix(toSend, BatchSize)
  <2>1. p \in Seq(Subs) /\ sent \in Seq(Subs) /\ Range(p) \subseteq Range(toSend)
    BY <1>8, <1>11
  <2>2. now = p \o sent
    BY <1>10
  <2> HIDE DEF p
  <2>3. p \o sent \in Seq(Subs) /\ Range(p \o sent) = Range(p) \cup Range(sent)
    BY <2>1, ConcatRange
  <2> QED
    BY <2>1, <2>2, <2>3
<1>20. Range(toSend) \cup Range(sent) \subseteq Active'
  BY <1>1, <1>5, <1>8, <1>12, <1>13 DEF Active, Lists
<1> QED
  BY <1>14, <1>15, <1>16, <1>18, <1>19, <1>20 DEF Ledger

-----------------------------------------------------------------------------
\* What the relay will serve: the wire, counted against the relay's cap

\* The subscriptions the relay serves once it has handled the first i messages.
Served(i) ==
  {s \in Subs : /\ s \in relaySubs \/ \E j \in 1 .. i : toRelay[j] = Req(s)
                /\ \A j \in 1 .. i : toRelay[j] # Close(s)}

\* The relay is told CLOSE, and tells CLOSED, only of ids that are closed for good.
Settled ==
  \A s \in Subs :
    /\ Close(s) \in Range(toRelay) => s \in Dead
    /\ Close(s) \in Range(messageQueue) => s \in Dead
    /\ \A r \in Reasons : Closed(s, r) \in Range(toClient) => r = "" /\ s \in Dead

\* No REQ follows the CLOSE of its id.
ClosedForGood ==
  \A s \in Subs : \A i, j \in DOMAIN toRelay :
    toRelay[i] = Close(s) /\ i < j => toRelay[j] # Req(s)

\* At no point of what is on the wire does the relay serve more than its cap, and
\* in the end it serves only what the client counts.
WireCap ==
  /\ \A i \in 0 .. Len(toRelay) : Cardinality(Served(i)) <= RelayCap
  /\ Served(Len(toRelay)) \subseteq Active

\* What the AUTH gate holds back is counted already.
HeldActive == Held \subseteq Active

\* What the messages on the wire amount to.
Wire == Settled /\ ClosedForGood /\ WireCap

\* What the client counts fits the cap of the relay.
LEMMA ActiveBound ==
  ASSUME TypeOK', Ledger', InStep
  PROVE  /\ \A S \in SUBSET Active' : Cardinality(S) <= RelayCap
         /\ Active' \subseteq Pending' /\ Active' \cap Dead' = {}
<1>1. /\ subscriptions' \in Seq(Subs) /\ deferredSubs' \in Seq(Subs)
      /\ maxSubscriptions' \in Nat /\ maxSubscriptions' <= RelayCap /\ RelayCap \in Nat
  BY CapAssumption DEF TypeOK, InStep
<1>2. /\ Distinct(subscriptions') /\ Distinct(deferredSubs')
      /\ Range(deferredSubs') \subseteq Range(subscriptions')
      /\ Len(subscriptions') - Len(deferredSubs') <= maxSubscriptions'
  BY DEF Ledger, Lists, Counted, Tracked, Deferred
<1>3. IsFiniteSet(Active') /\ Cardinality(Active') <= maxSubscriptions'
  BY <1>1, <1>2, ActiveCount DEF Active, Tracked, Deferred
<1>4. ASSUME NEW S \in SUBSET Active'
      PROVE  Cardinality(S) <= RelayCap
  <2>1. Cardinality(S) <= Cardinality(Active') /\ Cardinality(S) \in Nat
        /\ Cardinality(Active') \in Nat
    BY <1>3, FS_Subset, FS_CardinalityType
  <2> QED
    BY <1>1, <1>3, <2>1
<1> QED
  BY <1>4 DEF Ledger, Lists, Active, Dead

\* The client appends to the wire: REQs for what it counts, and first a CLOSE for
\* what it no longer does.
LEMMA WireSends ==
  ASSUME TypeOK, TypeOK', InStep, Ledger', Wire,
         relaySubs' = relaySubs, Range(toClient') \subseteq Range(toClient),
         NEW more \in Seq(ClientMessages), toRelay' = toRelay \o more,
         \A j \in DOMAIN more : \A s \in Subs :
            (more[j] = Req(s) => s \in Active') /\ (more[j] = Close(s) => s \in Dead'),
         \A s \in Active \ Active' : more # << >> /\ more[1] = Close(s),
         Dead \subseteq Dead',
         \A s \in Subs : Close(s) \in Range(messageQueue') => s \in Dead'
  PROVE  Wire'
<1>1. /\ toRelay \in Seq(ClientMessages) /\ Len(toRelay) \in Nat /\ Len(more) \in Nat
      /\ DOMAIN toRelay = 1 .. Len(toRelay) /\ DOMAIN more = 1 .. Len(more)
  BY LenProperties DEF TypeOK
<1>2. /\ Len(toRelay') = Len(toRelay) + Len(more)
      /\ DOMAIN toRelay' = 1 .. Len(toRelay) + Len(more)
      /\ \A i \in 1 .. Len(toRelay) + Len(more) :
           toRelay'[i] = IF i <= Len(toRelay) THEN toRelay[i] ELSE more[i - Len(toRelay)]
      /\ Range(toRelay') = Range(toRelay) \cup Range(more)
  <2>1. /\ toRelay \o more \in Seq(ClientMessages)
        /\ Len(toRelay \o more) = Len(toRelay) + Len(more)
        /\ \A i \in 1 .. Len(toRelay) + Len(more) :
             (toRelay \o more)[i] = IF i <= Len(toRelay) THEN toRelay[i]
                                    ELSE more[i - Len(toRelay)]
    BY <1>1, ConcatProperties
  <2>2. DOMAIN (toRelay \o more) = 1 .. Len(toRelay) + Len(more)
    BY <2>1, LenProperties
  <2>3. Range(toRelay \o more) = Range(toRelay) \cup Range(more)
    BY <1>1, ConcatRange
  <2> QED
    BY <2>1, <2>2, <2>3
<1>3. /\ \A i \in 1 .. Len(toRelay) : toRelay'[i] = toRelay[i]
      /\ \A i \in 1 .. Len(toRelay) + Len(more) : i > Len(toRelay) =>
           i - Len(toRelay) \in DOMAIN more /\ toRelay'[i] = more[i - Len(toRelay)]
  BY <1>1, <1>2
<1>4. /\ \A S \in SUBSET Active' : Cardinality(S) <= RelayCap
      /\ Active' \cap Dead' = {}
  BY ActiveBound
<1>5. Settled'
  <2>1. \A s \in Subs : Close(s) \in Range(more) => s \in Dead'
    BY DEF Range
  <2>2. \A s \in Subs : Close(s) \in Range(toRelay') => s \in Dead'
    BY <1>2, <2>1 DEF Wire, Settled
  <2> QED
    BY <2>2 DEF Wire, Settled
<1>6. ClosedForGood'
  <2> SUFFICES ASSUME NEW s \in Subs, NEW i \in DOMAIN toRelay', NEW j \in DOMAIN toRelay',
                      toRelay'[i] = Close(s), i < j, toRelay'[j] = Req(s)
               PROVE  FALSE
    BY DEF ClosedForGood
  <2>1. CASE j <= Len(toRelay)
    <3>1. i \in DOMAIN toRelay /\ j \in DOMAIN toRelay
      BY <1>1, <1>2, <2>1
    <3>2. toRelay[i] = Close(s) /\ toRelay[j] = Req(s)
      BY <1>1, <1>3, <3>1
    <3> QED
      BY <3>1, <3>2 DEF Wire, ClosedForGood
  <2>2. CASE j > Len(toRelay)
    <3>1. s \in Active'
      BY <1>2, <1>3, <2>2
    <3>2. s \in Dead'
      BY <1>5 DEF Settled, Range
    <3> QED
      BY <1>4, <3>1, <3>2
  <2> QED
    BY <1>1, <1>2, <2>1, <2>2
<1>7. ASSUME NEW i \in 0 .. Len(toRelay)
      PROVE  Served(i)' = Served(i)
  <2>1. \A j \in 1 .. i : toRelay'[j] = toRelay[j]
    BY <1>1, <1>3
  <2> QED
    BY <2>1 DEF Served
<1>8. ASSUME NEW i \in 0 .. Len(toRelay'), i > Len(toRelay) \/ more = << >>,
             i >= Len(toRelay)
      PROVE  Served(i)' \subseteq Active'
  <2> SUFFICES ASSUME NEW s \in Served(i)'
               PROVE  s \in Active'
    OBVIOUS
  <2>1. /\ s \in Subs /\ \A j \in 1 .. i : toRelay'[j] # Close(s)
        /\ s \in relaySubs \/ \E j \in 1 .. i : toRelay'[j] = Req(s)
    BY DEF Served
  <2>2. CASE \E j \in 1 .. i : j > Len(toRelay) /\ toRelay'[j] = Req(s)
    <3>1. PICK j \in 1 .. i : j > Len(toRelay) /\ toRelay'[j] = Req(s)
      BY <2>2
    <3>2. j \in 1 .. Len(toRelay) + Len(more)
      BY <1>1, <1>2
    <3>3. j - Len(toRelay) \in DOMAIN more /\ more[j - Len(toRelay)] = Req(s)
      BY <1>3, <3>1, <3>2
    <3> QED
      BY <2>1, <3>3
  <2>3. CASE ~ \E j \in 1 .. i : j > Len(toRelay) /\ toRelay'[j] = Req(s)
    <3>1. s \in relaySubs \/ \E j \in 1 .. Len(toRelay) : toRelay[j] = Req(s)
      BY <1>1, <1>2, <1>3, <1>8, <2>1, <2>3
    <3>2. \A j \in 1 .. Len(toRelay) : toRelay[j] # Close(s)
      BY <1>1, <1>2, <1>3, <1>8, <2>1
    <3>3. s \in Served(Len(toRelay))
      BY <2>1, <3>1, <3>2 DEF Served
    <3>4. s \in Active
      BY <3>3 DEF Wire, WireCap
    <3>5. ASSUME s \notin Active'
          PROVE  FALSE
      <4>1. more # << >> /\ more[1] = Close(s)
        BY <3>4, <3>5
      <4>2. Len(more) >= 1
        BY <1>1, <4>1, EmptySeq
      <4>3. Len(toRelay) + 1 \in 1 .. i /\ toRelay'[Len(toRelay) + 1] = Close(s)
        BY <1>1, <1>2, <1>8, <4>1, <4>2
      <4> QED
        BY <2>1, <4>3
    <3> QED
      BY <3>5
  <2> QED
    BY <2>2, <2>3
<1>9. WireCap'
  <2>1. ASSUME NEW i \in 0 .. Len(toRelay')
        PROVE  Cardinality(Served(i)') <= RelayCap
    <3>1. CASE i <= Len(toRelay)
      <4>1. i \in 0 .. Len(toRelay)
        BY <1>1, <3>1
      <4> QED
        BY <1>7, <4>1 DEF Wire, WireCap
    <3>2. CASE i > Len(toRelay)
      BY <1>1, <1>4, <1>8, <3>2
    <3> QED
      BY <1>1, <3>1, <3>2
  <2>2. ASSUME NEW n, n = Len(toRelay')
        PROVE  Served(n)' \subseteq Active'
    <3>1. n \in 0 .. Len(toRelay')
      BY <1>1, <1>2, <2>2
    <3>2. n > Len(toRelay) \/ more = << >>
      <4>1. Len(more) = 0 => more = << >>
        BY EmptySeq
      <4> QED
        BY <1>1, <1>2, <2>2, <4>1
    <3>3. n >= Len(toRelay)
      BY <1>1, <1>2, <2>2
    <3> QED
      BY <1>8, <3>1, <3>2, <3>3
  <2>3. Served(Len(toRelay))' \subseteq Active'
    BY <2>2 DEF Served
  <2> QED
    BY <2>1, <2>3 DEF WireCap
<1> QED
  BY <1>5, <1>6, <1>9 DEF Wire

\* A new wire, or none: what is first written to it.
LEMMA WireFresh ==
  ASSUME TypeOK', InStep, Ledger', relaySubs' = {},
         \A j \in DOMAIN toRelay' : \A s \in Subs :
            (toRelay'[j] = Req(s) => s \in Active') /\ (toRelay'[j] = Close(s) => s \in Dead'),
         \A s \in Subs, r \in Reasons : Closed(s, r) \notin Range(toClient'),
         \A s \in Subs : Close(s) \in Range(messageQueue') => s \in Dead'
  PROVE  Wire'
<1>1. /\ \A S \in SUBSET Active' : Cardinality(S) <= RelayCap
      /\ Active' \cap Dead' = {}
  BY ActiveBound
<1>2. Len(toRelay') \in Nat /\ DOMAIN toRelay' = 1 .. Len(toRelay')
  BY LenProperties DEF TypeOK
<1>3. Settled'
  <2>1. \A s \in Subs : Close(s) \in Range(toRelay') => s \in Dead'
    BY DEF Range
  <2> QED
    BY <2>1 DEF Settled
<1>4. ClosedForGood'
  BY <1>1 DEF ClosedForGood
<1>5. ASSUME NEW i \in 0 .. Len(toRelay')
      PROVE  Served(i)' \subseteq Active'
  <2>1. \A j \in 1 .. i : j \in DOMAIN toRelay'
    BY <1>2
  <2> QED
    BY <2>1 DEF Served
<1>6. WireCap'
  <2>1. \A i \in 0 .. Len(toRelay') : Cardinality(Served(i)') <= RelayCap
    BY <1>1, <1>5
  <2>2. ASSUME NEW n, n = Len(toRelay')
        PROVE  Served(n)' \subseteq Active'
    BY <1>2, <1>5, <2>2
  <2>3. Served(Len(toRelay))' \subseteq Active'
    BY <2>2 DEF Served
  <2> QED
    BY <2>1, <2>3 DEF WireCap
<1> QED
  BY <1>3, <1>4, <1>6 DEF Wire

\* If m is a CLOSED, it is the answer to a CLOSE on the wire.
AnswersClose(m) ==
  \A s \in Subs, r \in Reasons : m = Closed(s, r) => r = "" /\ Close(s) \in Range(toRelay)

\* The relay takes the first message off the wire: it serves no more than it was
\* bound to, and what it answers is a refusal only of what is closed for good.
LEMMA WireTakes ==
  ASSUME TypeOK, TypeOK', Wire, UNCHANGED clientVars,
         toRelay # << >>, toRelay' = Tail(toRelay),
         \A s \in Subs : s \in relaySubs' /\ Head(toRelay) # Req(s) =>
            s \in relaySubs /\ Head(toRelay) # Close(s),
         NEW m, Range(toClient') = Range(toClient) \cup {m},
         AnswersClose(m)
  PROVE  Wire'
<1>1. /\ Tail(toRelay) \in Seq(ClientMessages) /\ Len(Tail(toRelay)) = Len(toRelay) - 1
      /\ \A i \in 1 .. Len(Tail(toRelay)) : Tail(toRelay)[i] = toRelay[i + 1]
      /\ Head(toRelay) = toRelay[1] /\ Len(toRelay) \in Nat /\ Len(toRelay) >= 1
  <2>1. toRelay \in Seq(ClientMessages) /\ toRelay # << >>
    BY DEF TypeOK
  <2> QED
    BY ONLY <2>1, HeadTailProperties, LenProperties, EmptySeq
<1>2. DOMAIN toRelay = 1 .. Len(toRelay) /\ DOMAIN Tail(toRelay) = 1 .. Len(toRelay) - 1
  BY <1>1, LenProperties DEF TypeOK
<1>3. /\ Len(toRelay') = Len(toRelay) - 1 /\ DOMAIN toRelay' = 1 .. Len(toRelay) - 1
      /\ \A i \in 1 .. Len(toRelay) - 1 : toRelay'[i] = toRelay[i + 1]
  BY <1>1, <1>2
<1>4. Range(toRelay') \subseteq Range(toRelay)
  BY HeadTailRange DEF TypeOK
<1>5. Dead' = Dead /\ Active' = Active /\ messageQueue' = messageQueue
  BY DEF clientVars, managerVars, subVars, Dead, Pending, Active, Tracked, Deferred
<1>6. Settled'
  BY <1>4, <1>5 DEF Wire, Settled, AnswersClose
<1>7. ClosedForGood'
  <2> SUFFICES ASSUME NEW s \in Subs, NEW i \in DOMAIN toRelay', NEW j \in DOMAIN toRelay',
                      toRelay'[i] = Close(s), i < j
               PROVE  toRelay'[j] # Req(s)
    BY DEF ClosedForGood
  <2>1. /\ i + 1 \in DOMAIN toRelay /\ j + 1 \in DOMAIN toRelay /\ i + 1 < j + 1
        /\ toRelay[i + 1] = Close(s) /\ toRelay'[j] = toRelay[j + 1]
    BY <1>1, <1>2, <1>3
  <2> QED
    BY <2>1 DEF Wire, ClosedForGood
<1>8. ASSUME NEW i \in 0 .. Len(toRelay) - 1
      PROVE  Served(i)' \subseteq Served(i + 1)
  <2> SUFFICES ASSUME NEW s \in Served(i)'
               PROVE  s \in Served(i + 1)
    OBVIOUS
  <2>1. /\ s \in Subs /\ \A j \in 1 .. i : toRelay'[j] # Close(s)
        /\ s \in relaySubs' \/ \E j \in 1 .. i : toRelay'[j] = Req(s)
    BY DEF Served
  <2>2. \A j \in 1 .. i : j + 1 \in 1 .. i + 1 /\ toRelay'[j] = toRelay[j + 1]
    BY <1>1, <1>3
  <2>3. \A j \in 1 .. i + 1 : j # 1 => j - 1 \in 1 .. i /\ toRelay[j] = toRelay'[j - 1]
    BY <1>1, <1>3
  <2>4. toRelay[1] # Close(s)
    <3> SUFFICES ASSUME toRelay[1] = Close(s)
                 PROVE  FALSE
      OBVIOUS
    <3>1. s \notin relaySubs'
      BY <1>1, <2>1, MessagesDiffer
    <3>2. PICK j \in 1 .. i : toRelay'[j] = Req(s)
      BY <2>1, <3>1
    <3>3. 1 \in DOMAIN toRelay /\ j + 1 \in DOMAIN toRelay /\ 1 < j + 1
      BY <1>1, <1>2
    <3>4. toRelay[j + 1] = Req(s)
      BY <2>2, <3>2
    <3> QED
      BY <2>1, <3>3, <3>4 DEF Wire, ClosedForGood
  <2>5. \A j \in 1 .. i + 1 : toRelay[j] # Close(s)
    BY <2>1, <2>3, <2>4
  <2>6. s \in relaySubs \/ \E j \in 1 .. i + 1 : toRelay[j] = Req(s)
    <3>1. CASE s \in relaySubs'
      <4>1. 1 \in 1 .. i + 1
        OBVIOUS
      <4> QED
        BY <1>1, <2>1, <3>1, <4>1
    <3>2. CASE \E j \in 1 .. i : toRelay'[j] = Req(s)
      BY <2>2, <3>2
    <3> QED
      BY <2>1, <3>1, <3>2
  <2> QED
    BY <2>1, <2>5, <2>6 DEF Served
<1>9. WireCap'
  <2>1. ASSUME NEW i \in 0 .. Len(toRelay')
        PROVE  Cardinality(Served(i)') <= RelayCap
    <3>1. i \in 0 .. Len(toRelay) - 1 /\ i + 1 \in 0 .. Len(toRelay)
      BY <1>1, <1>3
    <3>2. Served(i)' \subseteq Served(i + 1) /\ Cardinality(Served(i + 1)) <= RelayCap
      BY <1>8, <3>1 DEF Wire, WireCap
    <3>3. IsFiniteSet(Served(i + 1))
      <4>1. Served(i + 1) \subseteq Subs
        BY DEF Served
      <4> QED
        BY <4>1, SubsAssumption, FS_Subset
    <3>4. /\ Cardinality(Served(i)') <= Cardinality(Served(i + 1))
          /\ Cardinality(Served(i)') \in Nat /\ Cardinality(Served(i + 1)) \in Nat
      BY <3>2, <3>3, FS_Subset, FS_CardinalityType
    <3> QED
      BY <3>2, <3>4, CapAssumption
  <2>2. ASSUME NEW n, n = Len(toRelay')
        PROVE  Served(n)' \subseteq Active'
    <3>1. n \in 0 .. Len(toRelay) - 1 /\ n + 1 = Len(toRelay)
      BY <1>1, <1>3, <2>2
    <3>2. Served(Len(toRelay)) \subseteq Active
      BY DEF Wire, WireCap
    <3> QED
      BY <1>5, <1>8, <3>1, <3>2
  <2>3. Served(Len(toRelay))' \subseteq Active'
    BY <2>2 DEF Served
  <2> QED
    BY <2>1, <2>3 DEF WireCap
<1> QED
  BY <1>6, <1>7, <1>9 DEF Wire

\* The relay never has to refuse the REQ it takes.
LEMMA WireRoom ==
  ASSUME TypeOK, Wire, NEW s \in Subs, Take(Req(s)), s \notin relaySubs
  PROVE  Cardinality(relaySubs) < RelayCap
<1>1. /\ toRelay # << >> /\ Head(toRelay) = Req(s)
  BY DEF Take
<1>2. Len(toRelay) \in Nat /\ Len(toRelay) >= 1 /\ toRelay[1] = Req(s)
  BY <1>1, HeadTailProperties, LenProperties, EmptySeq DEF TypeOK
<1>3. Cardinality(Served(1)) <= RelayCap
  BY <1>2 DEF Wire, WireCap
<1>4. relaySubs \cup {s} \subseteq Served(1)
  <2>1. \A t \in Subs : toRelay[1] # Close(t)
    BY <1>2, MessagesDiffer
  <2>2. relaySubs \subseteq Subs
    BY DEF TypeOK
  <2>3. 1 .. 1 = {1}
    OBVIOUS
  <2> QED
    BY <1>2, <2>1, <2>2, <2>3 DEF Served
<1>5. IsFiniteSet(Served(1)) /\ IsFiniteSet(relaySubs)
  <2>1. Served(1) \subseteq Subs /\ relaySubs \subseteq Subs
    BY DEF Served, TypeOK
  <2> QED
    BY <2>1, SubsAssumption, FS_Subset
<1>6. Cardinality(relaySubs \cup {s}) = Cardinality(relaySubs) + 1
  BY <1>5, FS_AddElement
<1>7. /\ Cardinality(relaySubs \cup {s}) <= Cardinality(Served(1))
      /\ Cardinality(relaySubs) \in Nat /\ Cardinality(Served(1)) \in Nat
  BY <1>4, <1>5, FS_Subset, FS_CardinalityType
<1> QED
  BY <1>3, <1>6, <1>7, CapAssumption

\* A step that writes nothing, and after which the client counts no less.
LEMMA WireQuiet ==
  ASSUME TypeOK, TypeOK', InStep, Ledger', Wire,
         UNCHANGED <<toRelay, relaySubs>>, Range(toClient') \subseteq Range(toClient),
         Active \subseteq Active', Dead \subseteq Dead',
         \A s \in Subs : Close(s) \in Range(messageQueue') => s \in Dead'
  PROVE  Wire'
<1>1. << >> \in Seq(ClientMessages) /\ toRelay' = toRelay \o << >>
  BY ConcatEmptySeq DEF TypeOK
<1>2. DOMAIN << >> = {} /\ Active \ Active' = {}
  OBVIOUS
<1> QED
  BY <1>1, <1>2, WireSends

\* sendReq for subscriptions the client counts, after a CLOSE for one it does not
\* count any more, if need be.
LEMMA WireSendReqs ==
  ASSUME TypeOK, TypeOK', InStep, ColdStart, Ledger', Wire,
         UNCHANGED <<relaySubs, toClient, messageQueue>>, Dead \subseteq Dead',
         NEW held \in Seq(Subs), NEW before \in Seq(ClientMessages), NEW q \in Seq(Subs),
         SendReqs(held, before, q),
         Range(held) \subseteq Active', socket = "open" => Range(q) \subseteq Active',
         \/ before = << >> /\ Active \subseteq Active'
         \/ socket = "open" /\ \E s \in Subs : /\ before = <<Close(s)>> /\ s \in Dead'
                                               /\ Active \ {s} \subseteq Active'
  PROVE  HeldActive' /\ Wire'
<1>1. toRelay \in Seq(ClientMessages)
  BY DEF TypeOK
<1>2. \A s \in Subs : Close(s) \in Range(messageQueue') => s \in Dead'
  BY DEF Wire, Settled
<1>3. \A j \in DOMAIN before : \A s \in Subs :
        (before[j] = Req(s) => s \in Active') /\ (before[j] = Close(s) => s \in Dead')
  <2>1. CASE before = << >>
    BY <2>1
  <2>2. ASSUME NEW s \in Subs, before = <<Close(s)>>, s \in Dead'
        PROVE  \A j \in DOMAIN before : \A t \in Subs :
                 (before[j] = Req(t) => t \in Active') /\ (before[j] = Close(t) => t \in Dead')
    <3>1. \A t \in Subs : Close(s) # Req(t) /\ (Close(s) = Close(t) => s = t)
      BY DEF Close, Req
    <3> QED
      BY <2>2, <3>1
  <2> QED
    BY <2>1, <2>2
<1>4. \A s \in Active \ Active' : before # << >> /\ before[1] = Close(s)
  OBVIOUS
<1>5. CASE reqGate = "holding"
  <2> DEFINE more == Keep(q, Subs \ Range(held))
  <2>1. heldReqs' = held \o more /\ toRelay' = toRelay \o before
    BY <1>5 DEF SendReqs
  <2>2. more \in Seq(Subs) /\ Range(more) \subseteq Range(q)
    BY KeepRange
  <2> HIDE DEF more
  <2>3. Range(heldReqs') = Range(held) \cup Range(more)
    BY <2>1, <2>2, ConcatRange
  <2>4. socket = "open"
    BY <1>5 DEF TypeOK
  <2>5. HeldActive'
    BY <2>2, <2>3, <2>4 DEF HeldActive, Held
  <2>6. Wire'
    BY <1>2, <1>3, <1>4, <2>1, WireSends
  <2> QED
    BY <2>5, <2>6
<1>6. CASE reqGate # "holding" /\ socket = "open"
  <2> DEFINE more == before \o Reqs(q)
  <2>1. heldReqs' = held /\ toRelay' = toRelay \o before \o Reqs(q)
    BY <1>6 DEF SendReqs
  <2>2. Reqs(q) \in Seq(ClientMessages)
    BY ReqsRange
  <2>3. toRelay' = toRelay \o more
    <3>1. toRelay \o before \o Reqs(q) = toRelay \o (before \o Reqs(q))
      <4>1. before \in Seq(ClientMessages)
        OBVIOUS
      <4> QED
        BY ONLY <1>1, <2>2, <4>1, ConcatAssociative
    <3> QED
      BY <2>1, <3>1
  <2>4. /\ more \in Seq(ClientMessages) /\ Len(more) = Len(before) + Len(Reqs(q))
        /\ \A i \in 1 .. Len(before) + Len(Reqs(q)) :
             more[i] = IF i <= Len(before) THEN before[i] ELSE Reqs(q)[i - Len(before)]
    BY <2>2, ConcatProperties
  <2>5. /\ DOMAIN before = 1 .. Len(before) /\ Len(before) \in Nat
        /\ DOMAIN Reqs(q) = 1 .. Len(Reqs(q)) /\ Len(Reqs(q)) \in Nat
        /\ DOMAIN more = 1 .. Len(before) + Len(Reqs(q))
    BY <2>2, <2>4, LenProperties
  <2> HIDE DEF more
  <2>6. \A j \in DOMAIN Reqs(q) : \A s \in Subs :
          (Reqs(q)[j] = Req(s) => s \in Active') /\ Reqs(q)[j] # Close(s)
    <3> SUFFICES ASSUME NEW j \in DOMAIN Reqs(q), NEW s \in Subs
                 PROVE  (Reqs(q)[j] = Req(s) => s \in Active') /\ Reqs(q)[j] # Close(s)
      OBVIOUS
    <3>1. PICK t \in Range(q) : Reqs(q)[j] = Req(t)
      BY ReqsEntries
    <3> QED
      BY <1>6, <3>1, MessagesDiffer
  <2>7. ASSUME NEW j \in DOMAIN more, NEW s \in Subs
        PROVE  (more[j] = Req(s) => s \in Active') /\ (more[j] = Close(s) => s \in Dead')
    <3>1. CASE j <= Len(before)
      <4>1. j \in DOMAIN before /\ more[j] = before[j]
        BY <2>4, <2>5, <3>1
      <4> QED
        BY <1>3, <4>1
    <3>2. CASE j > Len(before)
      <4>1. j - Len(before) \in DOMAIN Reqs(q) /\ more[j] = Reqs(q)[j - Len(before)]
        BY <2>4, <2>5, <3>2
      <4> QED
        BY <2>6, <4>1
    <3> QED
      BY <2>5, <3>1, <3>2
  <2>8. ASSUME NEW s \in Active \ Active'
        PROVE  more # << >> /\ more[1] = Close(s)
    <3>1. before # << >> /\ before[1] = Close(s)
      BY <1>4
    <3>2. Len(before) >= 1
      BY <2>5, <3>1, EmptySeq
    <3>3. 1 \in DOMAIN more /\ more[1] = before[1]
      BY <2>4, <2>5, <3>2
    <3> QED
      BY <3>1, <3>3
  <2>9. Wire'
    BY <1>2, <2>3, <2>4, <2>7, <2>8, WireSends
  <2> QED
    BY <2>1, <2>9 DEF HeldActive, Held
<1>7. CASE reqGate # "holding" /\ socket # "open"
  <2>1. heldReqs' = held /\ toRelay' = toRelay
    BY <1>7 DEF SendReqs
  <2>2. Active \subseteq Active'
    BY <1>7
  <2>3. Wire'
    BY <1>2, <2>1, <2>2, WireQuiet
  <2> QED
    BY <2>1, <2>3 DEF HeldActive, Held
<1> QED
  BY <1>5, <1>6, <1>7

\* The inductive invariant behind NeverOverflows and NoZombies.
CapInv == Ledger /\ Wire /\ HeldActive

\* It holds at the start.
LEMMA CapInit == InStep /\ Init => CapInv
<1> SUFFICES ASSUME InStep, Init
             PROVE  CapInv
  OBVIOUS
<1>1. /\ Range(<< >>) = {} /\ Distinct(<< >>) /\ Len(<< >>) = 0
      /\ DefaultCap \in Nat /\ RelayCap \in Nat
  BY CapAssumption DEF Range, Distinct
<1>2. /\ Tracked = {} /\ Deferred = {} /\ Pending = {} /\ Held = {}
      /\ Range(toRelay) = {} /\ Range(toClient) = {} /\ Range(messageQueue) = {}
      /\ Range(batches) = {} /\ staleBatches = {} /\ relaySubs = {} /\ used = {}
      /\ Len(toRelay) = 0 /\ DOMAIN toRelay = {}
  BY <1>1 DEF Init, Tracked, Deferred, Pending, Held
<1>3. Lists
  BY <1>1, <1>2 DEF Init, Lists
<1>4. Counted
  BY <1>1 DEF Init, Counted
<1>5. BatchesEarly
  BY <1>2 DEF BatchesEarly, Batched
<1>6. Settled
  BY <1>2 DEF Settled
<1>7. ClosedForGood
  BY <1>2 DEF ClosedForGood
<1>8. WireCap
  <2>1. \A i \in 0 .. Len(toRelay) : i = 0
    BY <1>2
  <2>2. Served(0) = {} /\ Served(Len(toRelay)) = Served(0)
    BY <1>2 DEF Served
  <2>3. Cardinality({}) = 0
    BY FS_EmptySet
  <2>4. \A i \in 0 .. Len(toRelay) : Cardinality(Served(i)) <= RelayCap
    <3> SUFFICES ASSUME NEW i \in 0 .. Len(toRelay)
                 PROVE  Cardinality(Served(i)) <= RelayCap
      OBVIOUS
    <3>1. Served(i) = {}
      BY <2>1, <2>2
    <3>2. 0 <= RelayCap
      BY <1>1
    <3> QED
      BY <2>3, <3>1, <3>2
  <2> QED
    BY <2>2, <2>4 DEF WireCap
<1> QED
  BY <1>2, <1>3, <1>4, <1>5, <1>6, <1>7, <1>8 DEF CapInv, Ledger, Wire, HeldActive

\* A step that leaves the lists and the wire alone; the hold queue may be dropped.
LEMMA CapSame ==
  ASSUME InStep, TypeOK, TypeOK', CapInv, UNCHANGED ledgerVars,
         Range(batches') \cup staleBatches' \subseteq Range(batches) \cup staleBatches,
         UNCHANGED <<toRelay, relaySubs, messageQueue>>,
         Range(toClient') \subseteq Range(toClient),
         Range(heldReqs') \subseteq Range(heldReqs)
  PROVE  CapInv'
<1>1. Ledger' /\ Active' = Active /\ Dead' = Dead
  BY LedgerSame DEF CapInv
<1>2. \A s \in Subs : Close(s) \in Range(messageQueue') => s \in Dead'
  BY <1>1 DEF CapInv, Wire, Settled
<1>3. Wire'
  BY <1>1, <1>2, WireQuiet DEF CapInv
<1> QED
  BY <1>1, <1>3 DEF CapInv, HeldActive, Held

\* The NIP-11 answer only raises the cap.
LEMMA LearnCapStep ==
  ASSUME InStep, TypeOK, TypeOK', CapInv, LearnCap
  PROVE  CapInv'
<1>1. /\ maxSubscriptions' = RelayCap /\ maxSubscriptions <= RelayCap
      /\ maxSubscriptions \in Nat /\ RelayCap \in Nat
      /\ UNCHANGED <<used, pendingSubscriptions, subscriptions, deferredSubs, batches,
                     staleBatches, toRelay, toClient, relaySubs, messageQueue, heldReqs>>
  BY CapAssumption DEF LearnCap, TypeOK, InStep, managerVars, timerVars, relayVars
<1>2. /\ Tracked' = Tracked /\ Deferred' = Deferred /\ Pending' = Pending
      /\ Active' = Active /\ Dead' = Dead /\ Held' = Held
  BY <1>1 DEF Tracked, Deferred, Pending, Active, Dead, Held
<1>3. Lists'
  BY <1>1, <1>2 DEF CapInv, Ledger, Lists, Distinct
<1>4. Counted'
  <2>1. Len(subscriptions) \in Nat /\ Len(deferredSubs) \in Nat
    BY LenProperties DEF TypeOK
  <2>2. Len(subscriptions) - Len(deferredSubs) <= maxSubscriptions
    BY DEF CapInv, Ledger, Counted
  <2>3. Len(subscriptions) - Len(deferredSubs) <= RelayCap
    BY <1>1, <2>1, <2>2
  <2> QED
    BY <1>1, <2>3 DEF Counted
<1>5. \A s \in Subs : Early(s) => Early(s)'
  <2> SUFFICES ASSUME NEW s \in Subs, NEW i \in DOMAIN subscriptions,
                      i <= maxSubscriptions, subscriptions[i] = s
               PROVE  Early(s)'
    BY DEF Early
  <2>1. i \in Nat
    <3>1. subscriptions \in Seq(Subs)
      BY DEF TypeOK
    <3> QED
      BY <3>1, LenProperties
  <2>2. i <= RelayCap
    BY <1>1, <2>1
  <2> QED
    BY <1>1, <2>2 DEF Early
<1>6. BatchesEarly'
  <2>1. \A s \in Subs : Batched(s)' <=> Batched(s)
    BY <1>1 DEF Batched
  <2> QED
    BY <1>1, <1>2, <1>5, <2>1 DEF CapInv, Ledger, BatchesEarly
<1>7. \A s \in Subs : Close(s) \in Range(messageQueue') => s \in Dead'
  BY <1>1, <1>2 DEF CapInv, Wire, Settled
<1>8. Ledger'
  BY <1>3, <1>4, <1>6 DEF Ledger
<1>9. Wire'
  BY <1>1, <1>2, <1>7, <1>8, WireQuiet DEF CapInv
<1> QED
  BY <1>2, <1>8, <1>9 DEF CapInv, HeldActive

\* disconnect() clears the wire and what was tracked.
LEMMA DisconnectStep ==
  ASSUME InStep, TypeOK, TypeOK', CapInv, Disconnect
  PROVE  CapInv'
<1>1. /\ Range(<< >>) = {} /\ Distinct(<< >>) /\ Len(<< >>) = 0 /\ DOMAIN << >> = {}
      /\ DefaultCap \in Nat
  BY CapAssumption DEF Range, Distinct
<1>2. /\ subscriptions' = << >> /\ deferredSubs' = << >> /\ heldReqs' = << >>
      /\ batches' = << >> /\ staleBatches' = {} /\ maxSubscriptions' = DefaultCap
      /\ messageQueue' = << >> /\ toRelay' = << >> /\ toClient' = << >> /\ relaySubs' = {}
      /\ UNCHANGED <<used, pendingSubscriptions>>
  BY DEF Disconnect, FreshConnection
<1>3. Tracked' = {} /\ Deferred' = {} /\ Held' = {} /\ Pending' = Pending
  BY <1>1, <1>2 DEF Tracked, Deferred, Held, Pending
<1>4. Lists'
  BY <1>1, <1>2, <1>3 DEF CapInv, Ledger, Lists, Distinct
<1>5. Counted'
  BY <1>1, <1>2 DEF Counted
<1>6. BatchesEarly'
  BY <1>1, <1>2 DEF BatchesEarly, Batched
<1>7. Ledger'
  BY <1>4, <1>5, <1>6 DEF Ledger
<1>8. Wire'
  BY <1>1, <1>2, <1>7, WireFresh
<1> QED
  BY <1>3, <1>7, <1>8 DEF CapInv, HeldActive

\* A socket that closes takes the wire and the relay's subscriptions with it.
LEMMA SocketCloseStep ==
  ASSUME InStep, TypeOK, TypeOK', CapInv, SocketClose
  PROVE  CapInv'
<1>1. Range(<< >>) = {} /\ DOMAIN << >> = {}
  BY DEF Range
<1>2. /\ heldReqs' = << >> /\ batches' = << >>
      /\ staleBatches' = staleBatches \cup Range(batches)
      /\ toRelay' = << >> /\ toClient' = << >> /\ relaySubs' = {}
      /\ UNCHANGED ledgerVars /\ UNCHANGED messageQueue
  BY DEF SocketClose, managerVars, subVars, ledgerVars
<1>3. Ledger' /\ Active' = Active /\ Dead' = Dead
  BY <1>1, <1>2, LedgerSame DEF CapInv
<1>4. \A s \in Subs : Close(s) \in Range(messageQueue') => s \in Dead'
  BY <1>2, <1>3 DEF CapInv, Wire, Settled
<1>5. Wire'
  BY <1>1, <1>2, <1>3, <1>4, WireFresh
<1> QED
  BY <1>1, <1>2, <1>3, <1>5 DEF CapInv, HeldActive, Held

\* A socket that opens tracks again what is pending, deferring what is over the cap.
LEMMA SocketOpenStep ==
  ASSUME InStep, TypeOK, TypeOK', CapInv, SocketOpen
  PROVE  CapInv'
<1> DEFINE toSend  == Prefix(subscriptions, maxSubscriptions)
           forward == Keep(pendingSubscriptions, Subs \ Tracked)
           room    == Room(subscriptions, Overflow)
           now     == Prefix(toSend, BatchSize) \o Prefix(forward, room)
<1>1. Ledger' /\ Dead' = Dead /\ now \in Seq(Subs) /\ Range(now) \subseteq Active'
  <2>1. /\ toSend = Prefix(subscriptions, maxSubscriptions)
        /\ forward = Keep(pendingSubscriptions, Subs \ Tracked)
        /\ room = Room(subscriptions, Overflow)
        /\ now = Prefix(toSend, BatchSize) \o Prefix(forward, room)
    OBVIOUS
  <2> HIDE DEF toSend, forward, room, now
  <2> QED
    BY <2>1, OpenLedger DEF CapInv
<1>2. /\ messageQueue' = << >> /\ relaySubs' = {}
      /\ IF everChallenged
         THEN heldReqs' = now /\ toRelay' = messageQueue
         ELSE heldReqs' = << >> /\ toRelay' = messageQueue \o Reqs(now)
      /\ toClient' = IF SendsChallenge THEN <<Challenge>> ELSE << >>
  BY DEF SocketOpen
<1> HIDE DEF toSend, forward, room, now
<1>3. Range(<< >>) = {}
  BY DEF Range
<1>4. messageQueue \in Seq([type : {"CLOSE"}, sub : Subs])
  BY DEF TypeOK
<1>5. messageQueue \in Seq(ClientMessages)
  <2>1. [type : {"CLOSE"}, sub : Subs] \subseteq ClientMessages
    BY DEF ClientMessages
  <2> QED
    BY <1>4, <2>1, SeqMonotone
<1>6. \A j \in DOMAIN messageQueue : \A s \in Subs :
        messageQueue[j] # Req(s) /\ (messageQueue[j] = Close(s) => s \in Dead')
  <2> SUFFICES ASSUME NEW j \in DOMAIN messageQueue, NEW s \in Subs
               PROVE  /\ messageQueue[j] # Req(s)
                      /\ messageQueue[j] = Close(s) => s \in Dead'
    OBVIOUS
  <2>1. messageQueue[j] \in [type : {"CLOSE"}, sub : Subs]
    <3>1. Range(messageQueue) \subseteq [type : {"CLOSE"}, sub : Subs]
      BY <1>4, RangeOfSeq
    <3> QED
      BY <3>1 DEF Range
  <2>2. messageQueue[j] # Req(s)
    BY <2>1 DEF Req
  <2>3. messageQueue[j] = Close(s) => s \in Dead
    BY DEF CapInv, Wire, Settled, Range
  <2> QED
    BY <1>1, <2>2, <2>3
<1>7. \A j \in DOMAIN Reqs(now) : \A s \in Subs :
        (Reqs(now)[j] = Req(s) => s \in Active') /\ Reqs(now)[j] # Close(s)
  <2> SUFFICES ASSUME NEW j \in DOMAIN Reqs(now), NEW s \in Subs
               PROVE  (Reqs(now)[j] = Req(s) => s \in Active') /\ Reqs(now)[j] # Close(s)
    OBVIOUS
  <2>1. PICK t \in Range(now) : Reqs(now)[j] = Req(t)
    BY <1>1, ReqsEntries
  <2> QED
    BY <1>1, <2>1, MessagesDiffer
<1>8. \A j \in DOMAIN toRelay' : \A s \in Subs :
        (toRelay'[j] = Req(s) => s \in Active') /\ (toRelay'[j] = Close(s) => s \in Dead')
  <2>1. CASE everChallenged
    BY <1>2, <1>6, <2>1
  <2>2. CASE ~everChallenged
    <3>1. toRelay' = messageQueue \o Reqs(now)
      BY <1>2, <2>2
    <3>2. Reqs(now) \in Seq(ClientMessages)
      BY <1>1, ReqsRange
    <3>3. /\ messageQueue \o Reqs(now) \in Seq(ClientMessages)
          /\ Len(messageQueue \o Reqs(now)) = Len(messageQueue) + Len(Reqs(now))
          /\ \A i \in 1 .. Len(messageQueue) + Len(Reqs(now)) :
               (messageQueue \o Reqs(now))[i] =
                 IF i <= Len(messageQueue) THEN messageQueue[i]
                 ELSE Reqs(now)[i - Len(messageQueue)]
      BY <1>5, <3>2, ConcatProperties
    <3>4. /\ DOMAIN messageQueue = 1 .. Len(messageQueue) /\ Len(messageQueue) \in Nat
          /\ DOMAIN Reqs(now) = 1 .. Len(Reqs(now)) /\ Len(Reqs(now)) \in Nat
          /\ DOMAIN toRelay' = 1 .. Len(messageQueue) + Len(Reqs(now))
      BY <1>5, <3>1, <3>2, <3>3, LenProperties
    <3> SUFFICES ASSUME NEW j \in DOMAIN toRelay', NEW s \in Subs
                 PROVE  /\ toRelay'[j] = Req(s) => s \in Active'
                        /\ toRelay'[j] = Close(s) => s \in Dead'
      OBVIOUS
    <3>5. CASE j <= Len(messageQueue)
      <4>1. j \in DOMAIN messageQueue /\ toRelay'[j] = messageQueue[j]
        BY <3>1, <3>3, <3>4, <3>5
      <4> QED
        BY <1>6, <4>1
    <3>6. CASE j > Len(messageQueue)
      <4>1. /\ j - Len(messageQueue) \in DOMAIN Reqs(now)
            /\ toRelay'[j] = Reqs(now)[j - Len(messageQueue)]
        BY <3>1, <3>3, <3>4, <3>6
      <4> QED
        BY <1>7, <4>1
    <3> QED
      BY <3>4, <3>5, <3>6
  <2> QED
    BY <2>1, <2>2
<1>9. \A s \in Subs, r \in Reasons : Closed(s, r) \notin Range(toClient')
  <2>1. Range(toClient') \subseteq {Challenge}
    BY <1>2, <1>3, MessagesTyped, SmallRange
  <2> QED
    BY <2>1, MessagesDiffer
<1>10. \A s \in Subs : Close(s) \in Range(messageQueue') => s \in Dead'
  BY <1>2, <1>3
<1>11. Wire'
  BY <1>1, <1>2, <1>8, <1>9, <1>10, WireFresh
<1>12. HeldActive'
  <2>1. Range(heldReqs') \subseteq Range(now)
    BY <1>2, <1>3
  <2> QED
    BY <1>1, <2>1 DEF HeldActive, Held
<1> QED
  BY <1>1, <1>11, <1>12 DEF CapInv

\* subscribe() sends, holds or defers.
LEMMA SubscribeStep ==
  ASSUME InStep, TypeOK, TypeOK', ColdStart, CapInv, NEW s \in Subs, Subscribe(s)
  PROVE  CapInv'
<1>1. /\ Ledger' /\ Dead' = Dead /\ Active \subseteq Active'
      /\ Room(subscriptions, deferredSubs) # 0 => s \in Active'
  BY SubscribeLedger DEF CapInv
<1>2. UNCHANGED <<relaySubs, toClient, messageQueue>>
  BY DEF Subscribe, relayVars
<1>3. \A t \in Subs : Close(t) \in Range(messageQueue') => t \in Dead'
  BY <1>1, <1>2 DEF CapInv, Wire, Settled
<1>4. Range(heldReqs) \subseteq Active'
  BY <1>1 DEF CapInv, HeldActive, Held
<1>5. CASE Room(subscriptions, deferredSubs) = 0
  <2>1. UNCHANGED <<heldReqs, toRelay>>
    BY <1>5 DEF Subscribe
  <2>2. Wire'
    BY <1>1, <1>2, <1>3, <2>1, WireQuiet DEF CapInv
  <2> QED
    BY <1>1, <1>4, <2>1, <2>2 DEF CapInv, HeldActive, Held
<1>6. CASE Room(subscriptions, deferredSubs) # 0
  <2>1. SendReqs(heldReqs, << >>, <<s>>)
    BY <1>6 DEF Subscribe
  <2>2. /\ heldReqs \in Seq(Subs) /\ << >> \in Seq(ClientMessages) /\ <<s>> \in Seq(Subs)
        /\ Range(<<s>>) = {s}
    BY SmallRange DEF TypeOK
  <2>3. HeldActive' /\ Wire'
    BY <1>1, <1>2, <1>4, <1>6, <2>1, <2>2, WireSendReqs DEF CapInv
  <2> QED
    BY <1>1, <2>3 DEF CapInv
<1> QED
  BY <1>5, <1>6

\* subscribe() without a socket.
LEMMA SubscribeLaterStep ==
  ASSUME InStep, TypeOK, TypeOK', CapInv, NEW s \in Subs, SubscribeLater(s)
  PROVE  CapInv'
<1>1. Ledger' /\ Dead' = Dead /\ Active' = Active
  BY SubscribeLaterLedger DEF CapInv
<1>2. UNCHANGED <<toRelay, relaySubs, toClient, messageQueue, heldReqs>>
  BY DEF SubscribeLater, relayVars, subVars
<1>3. \A t \in Subs : Close(t) \in Range(messageQueue') => t \in Dead'
  BY <1>1, <1>2 DEF CapInv, Wire, Settled
<1>4. Wire'
  BY <1>1, <1>2, <1>3, WireQuiet DEF CapInv
<1> QED
  BY <1>1, <1>2, <1>4 DEF CapInv, HeldActive, Held

\* The CLOSE goes out before the REQ that takes the freed slot.
LEMMA CloseStep ==
  ASSUME InStep, TypeOK, TypeOK', ColdStart, CapInv, NEW s \in Subs, CloseSubscription(s)
  PROVE  CapInv'
<1> DEFINE ord  == Without(subscriptions, s)
           rest == Without(deferredSubs, s)
           held == Without(heldReqs, s)
<1>1. /\ Ledger' /\ Dead' = Dead \cup {s} /\ Active \ {s} \subseteq Active'
      /\ s \in Tracked /\ socket = "open" =>
           Drained(rest, ord) \in Seq(Subs) /\ Range(Drained(rest, ord)) \subseteq Active'
  <2>1. ord = Without(subscriptions, s) /\ rest = Without(deferredSubs, s)
    OBVIOUS
  <2> HIDE DEF ord, rest
  <2> QED
    BY <2>1, CloseLedger DEF CapInv
<1>2. UNCHANGED <<relaySubs, toClient>>
  BY DEF CloseSubscription, relayVars
<1>3. \A t \in Subs : Close(t) \in Range(messageQueue) => t \in Dead
  BY DEF CapInv, Wire, Settled
<1>4. CASE s \notin Tracked
  <2>1. UNCHANGED <<subscriptions, deferredSubs, messageQueue, heldReqs, toRelay>>
    BY <1>4 DEF CloseSubscription
  <2>2. Active' = Active
    BY <2>1 DEF Active, Tracked, Deferred
  <2>3. \A t \in Subs : Close(t) \in Range(messageQueue') => t \in Dead'
    BY <1>1, <1>3, <2>1
  <2>4. Wire'
    BY <1>1, <1>2, <2>1, <2>2, <2>3, WireQuiet DEF CapInv
  <2> QED
    BY <1>1, <2>1, <2>2, <2>4 DEF CapInv, HeldActive, Held
<1>5. held \in Seq(Subs) /\ Range(held) = Range(heldReqs) \ {s}
  <2>1. heldReqs \in Seq(Subs)
    BY DEF TypeOK
  <2> QED
    BY <2>1, WithoutRange
<1>6. Range(held) \subseteq Active'
  BY <1>1, <1>5 DEF CapInv, HeldActive, Held
<1>7. CASE s \in Tracked /\ socket = "open"
  <2>1. SendReqs(held, <<Close(s)>>, Drained(rest, ord)) /\ UNCHANGED messageQueue
    BY <1>7 DEF CloseSubscription
  <2>2. <<Close(s)>> \in Seq(ClientMessages)
    BY MessagesTyped
  <2>3. /\ Drained(rest, ord) \in Seq(Subs) /\ Range(Drained(rest, ord)) \subseteq Active'
        /\ s \in Dead' /\ Dead \subseteq Dead'
    BY <1>1, <1>7
  <2> DEFINE q == Drained(rest, ord)
  <2> HIDE DEF held, q
  <2>4. HeldActive' /\ Wire'
    BY <1>1, <1>2, <1>5, <1>6, <1>7, <2>1, <2>2, <2>3, WireSendReqs DEF CapInv, q
  <2> QED
    BY <1>1, <2>4 DEF CapInv
<1>8. CASE s \in Tracked /\ socket # "open"
  <2>1. /\ messageQueue' = Append(messageQueue, Close(s)) /\ heldReqs' = held
        /\ UNCHANGED toRelay
    BY <1>8 DEF CloseSubscription
  <2> DEFINE A == [type : {"CLOSE"}, sub : Subs]
  <2>2. messageQueue \in Seq(A) /\ Close(s) \in A
    BY MessagesTyped DEF TypeOK
  <2> HIDE DEF A
  <2>3. Range(messageQueue') = Range(messageQueue) \cup {Close(s)}
    BY <2>1, <2>2, AppendRange
  <2>4. \A t \in Subs : Close(t) \in Range(messageQueue') => t \in Dead'
    <3>1. \A t \in Subs : Close(t) = Close(s) => t = s
      BY DEF Close
    <3> QED
      BY <1>1, <1>3, <2>3, <3>1
  <2>5. Wire'
    <3>1. /\ relaySubs' = {} /\ toRelay' = << >> /\ toClient' = << >>
      BY <1>2, <1>8, <2>1 DEF ColdStart
    <3>2. DOMAIN toRelay' = {} /\ Range(toClient') = {}
      BY <3>1 DEF Range
    <3> QED
      BY <1>1, <2>4, <3>1, <3>2, WireFresh
  <2> QED
    BY <1>1, <1>6, <2>1, <2>5 DEF CapInv, HeldActive, Held
<1> QED
  BY <1>4, <1>7, <1>8

\* What a batch holds and is still tracked is counted, be the batch of this socket
\* or of an older one.
LEMMA BatchStep ==
  ASSUME InStep, TypeOK, TypeOK', ColdStart, CapInv, NEW b \in Seq(Subs),
         b \in Range(batches) \cup staleBatches,
         SendReqs(heldReqs, << >>, Keep(b, Tracked)), UNCHANGED ledgerVars,
         Range(batches') \cup staleBatches' \subseteq Range(batches) \cup staleBatches,
         UNCHANGED <<relaySubs, toClient, messageQueue>>
  PROVE  CapInv'
<1>1. Ledger' /\ Active' = Active /\ Dead' = Dead
  BY LedgerSame DEF CapInv
<1>2. Keep(b, Tracked) \in Seq(Subs) /\ Range(Keep(b, Tracked)) = Range(b) \cap Tracked
  BY KeepRange
<1>3. Range(Keep(b, Tracked)) \subseteq Active'
  <2> SUFFICES ASSUME NEW s \in Range(b) \cap Tracked
               PROVE  s \in Active
    BY <1>1, <1>2
  <2>1. s \in Subs /\ Batched(s)
    <3>1. Range(b) \subseteq Subs
      BY RangeOfSeq
    <3> QED
      BY <3>1 DEF Batched
  <2>2. s \in Pending
    BY DEF CapInv, Ledger, Lists
  <2> QED
    BY <2>1, <2>2 DEF CapInv, Ledger, BatchesEarly, Active
<1>4. /\ heldReqs \in Seq(Subs) /\ << >> \in Seq(ClientMessages)
      /\ Range(heldReqs) \subseteq Active'
  BY <1>1 DEF TypeOK, CapInv, HeldActive, Held
<1>5. HeldActive' /\ Wire'
  BY <1>1, <1>2, <1>3, <1>4, WireSendReqs DEF CapInv
<1> QED
  BY <1>1, <1>5 DEF CapInv

\* What was held is counted.
LEMMA ReleaseStep ==
  ASSUME InStep, TypeOK, TypeOK', CapInv, ReleaseReqGate, UNCHANGED ledgerVars,
         UNCHANGED <<batches, staleBatches, relaySubs, messageQueue>>,
         Range(toClient') \subseteq Range(toClient)
  PROVE  CapInv'
<1> DEFINE go == Keep(heldReqs, Tracked)
<1>1. Ledger' /\ Active' = Active /\ Dead' = Dead
  BY LedgerSame DEF CapInv
<1>2. heldReqs' = << >> /\ toRelay' = toRelay \o Reqs(go)
  BY DEF ReleaseReqGate
<1>3. go \in Seq(Subs) /\ Range(go) \subseteq Active
  <2>1. heldReqs \in Seq(Subs)
    BY DEF TypeOK
  <2> QED
    BY <2>1, KeepRange DEF CapInv, HeldActive, Held
<1> HIDE DEF go
<1>4. Reqs(go) \in Seq(ClientMessages)
  BY <1>3, ReqsRange
<1>5. \A j \in DOMAIN Reqs(go) : \A s \in Subs :
        (Reqs(go)[j] = Req(s) => s \in Active') /\ (Reqs(go)[j] = Close(s) => s \in Dead')
  <2> SUFFICES ASSUME NEW j \in DOMAIN Reqs(go), NEW s \in Subs
               PROVE  /\ Reqs(go)[j] = Req(s) => s \in Active'
                      /\ Reqs(go)[j] = Close(s) => s \in Dead'
    OBVIOUS
  <2>1. PICK t \in Range(go) : Reqs(go)[j] = Req(t)
    BY <1>3, ReqsEntries
  <2> QED
    BY <1>1, <1>3, <2>1, MessagesDiffer
<1>6. \A s \in Subs : Close(s) \in Range(messageQueue') => s \in Dead'
  BY <1>1 DEF CapInv, Wire, Settled
<1>7. Wire'
  BY <1>1, <1>2, <1>4, <1>5, <1>6, WireSends DEF CapInv
<1>8. HeldActive'
  <2>1. Range(<< >>) = {}
    BY DEF Range
  <2> QED
    BY <1>2, <2>1 DEF HeldActive, Held
<1> QED
  BY <1>1, <1>7, <1>8 DEF CapInv

\* A signature that arrives late changes nothing that is counted.
LEMMA SignDoneStep ==
  ASSUME InStep, TypeOK, TypeOK', CapInv, NEW c \in {"current", "old"}, SignDone(c)
  PROVE  CapInv'
<1>1. /\ UNCHANGED ledgerVars
      /\ UNCHANGED <<batches, staleBatches, relaySubs, messageQueue, toClient, heldReqs>>
  BY DEF SignDone, ledgerVars, managerVars, subVars, timerVars, relayVars
<1>2. CASE UNCHANGED toRelay
  BY <1>1, <1>2, CapSame
<1>3. CASE toRelay' = Append(toRelay, Auth(c))
  <2>1. Ledger' /\ Active' = Active /\ Dead' = Dead
    BY <1>1, LedgerSame DEF CapInv
  <2>2. <<Auth(c)>> \in Seq(ClientMessages) /\ toRelay' = toRelay \o <<Auth(c)>>
    <3>1. Auth(c) \in ClientMessages /\ toRelay \in Seq(ClientMessages)
      BY MessagesTyped DEF TypeOK
    <3>2. <<Auth(c)>> \in Seq(ClientMessages)
      BY <3>1
    <3> QED
      BY <1>3, <3>1, <3>2, AppendIsConcat
  <2>3. \A j \in DOMAIN <<Auth(c)>> : \A s \in Subs :
          /\ <<Auth(c)>>[j] = Req(s) => s \in Active'
          /\ <<Auth(c)>>[j] = Close(s) => s \in Dead'
    <3>1. \A s \in Subs : Auth(c) # Req(s) /\ Auth(c) # Close(s)
      BY DEF Auth, Req, Close
    <3> QED
      BY <3>1
  <2>4. \A s \in Subs : Close(s) \in Range(messageQueue') => s \in Dead'
    BY <1>1, <2>1 DEF CapInv, Wire, Settled
  <2>5. Wire'
    BY <1>1, <2>1, <2>2, <2>3, <2>4, WireSends DEF CapInv
  <2> QED
    BY <1>1, <2>1, <2>5 DEF CapInv, HeldActive, Held
<1> QED
  BY <1>2, <1>3 DEF SignDone

\* With the caps in step the relay answers a REQ with an EOSE, a CLOSE with the
\* empty reason, and an AUTH with an OK.
LEMMA RelayWire ==
  ASSUME InStep, TypeOK, TypeOK', CapInv, RelayStep
  PROVE  CapInv'
<1>1. UNCHANGED clientVars
  BY DEF RelayStep, RelayReq, RelayClose, RelayAuth
<1>2. /\ Ledger' /\ HeldActive'
  <2>1. /\ UNCHANGED ledgerVars /\ UNCHANGED <<batches, staleBatches, heldReqs>>
    BY <1>1 DEF clientVars, ledgerVars, managerVars, subVars, timerVars
  <2>2. Ledger' /\ Active' = Active
    BY <2>1, LedgerSame DEF CapInv
  <2> QED
    BY <2>1, <2>2 DEF CapInv, HeldActive, Held
<1>3. ASSUME NEW m, Take(m)
      PROVE  /\ toRelay # << >> /\ toRelay' = Tail(toRelay) /\ Head(toRelay) = m
             /\ m \in Range(toRelay)
  BY <1>3, HeadTailRange DEF Take, TypeOK
<1>4. ASSUME NEW s \in Subs, RelayReq(s)
      PROVE  Wire'
  <2>1. Take(Req(s))
    BY <1>4 DEF RelayReq
  <2>2. s \notin Protected
    BY DEF InStep
  <2>3. s \in relaySubs \/ Cardinality(relaySubs) < RelayCap
    BY <2>1, WireRoom DEF CapInv
  <2>4. relaySubs' = relaySubs \cup {s} /\ Answer(Eose(s))
    <3>1. ~(s \notin relaySubs /\ Cardinality(relaySubs) >= RelayCap)
      <4>1. IsFiniteSet(relaySubs)
        BY SubsAssumption, FS_Subset DEF TypeOK
      <4>2. Cardinality(relaySubs) \in Nat
        BY <4>1, FS_CardinalityType
      <4> QED
        BY <2>3, <4>2, CapAssumption
    <3> QED
      BY <1>4, <2>2, <3>1 DEF RelayReq
  <2>5. Range(toClient') = Range(toClient) \cup {Eose(s)}
    BY <2>4, AnswerKeeps, MessagesTyped
  <2>6. AnswersClose(Eose(s))
    BY MessagesDiffer DEF AnswersClose
  <2>7. \A t \in Subs : t \in relaySubs' /\ Head(toRelay) # Req(t) =>
          t \in relaySubs /\ Head(toRelay) # Close(t)
    BY <1>3, <2>1, <2>4, MessagesDiffer
  <2> QED
    BY <1>1, <1>3, <2>1, <2>5, <2>6, <2>7, WireTakes DEF CapInv
<1>5. ASSUME NEW s \in Subs, RelayClose(s)
      PROVE  Wire'
  <2>1. Take(Close(s)) /\ relaySubs' = relaySubs \ {s} /\ Answer(Closed(s, ""))
    BY <1>5 DEF RelayClose
  <2>2. Closed(s, "") \in RelayMessages
    BY MessagesTyped DEF Reasons
  <2>3. Range(toClient') = Range(toClient) \cup {Closed(s, "")}
    BY <2>1, <2>2, AnswerKeeps
  <2>4. AnswersClose(Closed(s, ""))
    <3>1. Close(s) \in Range(toRelay)
      BY <1>3, <2>1
    <3>2. \A t \in Subs, r \in Reasons : Closed(s, "") = Closed(t, r) => t = s /\ r = ""
      BY DEF Closed
    <3> QED
      BY <3>1, <3>2 DEF AnswersClose
  <2>5. \A t \in Subs : t \in relaySubs' /\ Head(toRelay) # Req(t) =>
          t \in relaySubs /\ Head(toRelay) # Close(t)
    <3>1. Head(toRelay) = Close(s)
      BY <1>3, <2>1
    <3>2. \A t \in Subs : Close(s) = Close(t) => t = s
      BY DEF Close
    <3> QED
      BY <2>1, <3>1, <3>2
  <2> QED
    BY <1>1, <1>3, <2>1, <2>3, <2>4, <2>5, WireTakes DEF CapInv
<1>6. ASSUME NEW c \in {"current", "old"}, RelayAuth(c)
      PROVE  Wire'
  <2>1. Take(Auth(c)) /\ relaySubs' = relaySubs
    BY <1>6 DEF RelayAuth
  <2>2. PICK b \in BOOLEAN : Answer(Ok(c, b))
    BY <1>6 DEF RelayAuth
  <2>3. Range(toClient') = Range(toClient) \cup {Ok(c, b)}
    BY <2>2, AnswerKeeps, MessagesTyped
  <2>4. AnswersClose(Ok(c, b))
    BY MessagesDiffer DEF AnswersClose
  <2>5. \A t \in Subs : t \in relaySubs' /\ Head(toRelay) # Req(t) =>
          t \in relaySubs /\ Head(toRelay) # Close(t)
    <3>1. \A t \in Subs : Auth(c) # Close(t)
      BY DEF Auth, Close
    <3> QED
      BY <1>3, <2>1, <3>1
  <2> QED
    BY <1>1, <1>3, <2>1, <2>3, <2>4, <2>5, WireTakes DEF CapInv
<1>7. Wire'
  BY <1>4, <1>5, <1>6 DEF RelayStep
<1> QED
  BY <1>2, <1>7 DEF CapInv

\* A message from the relay: a CLOSED can only be the answer to a CLOSE.
LEMMA ReceiveWire ==
  ASSUME InStep, TypeOK, TypeOK', CapInv, ReceiveMessage
  PROVE  CapInv'
<1>1. ASSUME NEW m, Receive(m)
      PROVE  Range(toClient') \subseteq Range(toClient) /\ m \in Range(toClient)
  BY <1>1, HeadTailRange DEF Receive, TypeOK
<1>2. ASSUME NEW s \in Subs, ReceiveEose(s)
      PROVE  CapInv'
  <2>1. UNCHANGED ledgerVars /\ UNCHANGED <<batches, staleBatches, toRelay, relaySubs,
                                            messageQueue, heldReqs>>
    BY <1>2 DEF ReceiveEose, ledgerVars, managerVars, timerVars, relayVars
  <2> QED
    BY <1>1, <1>2, <2>1, CapSame DEF ReceiveEose
<1>3. ASSUME NEW s \in Subs, NEW r \in Reasons, Receive(Closed(s, r))
      PROVE  r # "too many subscriptions" /\ s \in Dead /\ s \notin Tracked
  <2>1. Closed(s, r) \in Range(toClient)
    BY <1>1, <1>3
  <2>2. r = "" /\ s \in Dead
    BY <2>1 DEF CapInv, Wire, Settled
  <2>3. s \notin Tracked
    BY <2>2 DEF CapInv, Ledger, Lists, Dead
  <2> QED
    BY <2>2, <2>3
<1>4. ASSUME NEW s \in Subs, ReceiveTooMany(s)
      PROVE  CapInv'
  <2>1. Receive(Closed(s, "too many subscriptions")) /\ "too many subscriptions" \in Reasons
    BY <1>4 DEF ReceiveTooMany, Reasons
  <2> QED
    BY <1>3, <2>1
<1>5. ASSUME NEW s \in Subs, NEW r \in Reasons, ReceiveClosed(s, r)
      PROVE  CapInv'
  <2>1. /\ Receive(Closed(s, r)) /\ subscriptions' = Without(subscriptions, s)
        /\ UNCHANGED <<used, pendingSubscriptions, deferredSubs, maxSubscriptions, batches,
                       staleBatches, toRelay, relaySubs, messageQueue, heldReqs>>
    BY <1>5 DEF ReceiveClosed, managerVars, timerVars, relayVars
  <2>2. s \notin Tracked
    BY <1>3, <2>1
  <2>3. Ledger' /\ Dead' = Dead /\ Active' = Active
    BY <2>1, <2>2, ForgetLedger DEF CapInv
  <2>4. \A t \in Subs : Close(t) \in Range(messageQueue') => t \in Dead'
    BY <2>1, <2>3 DEF CapInv, Wire, Settled
  <2>5. Range(toClient') \subseteq Range(toClient)
    BY <1>1, <2>1
  <2>6. Wire'
    BY <2>1, <2>3, <2>4, <2>5, WireQuiet DEF CapInv
  <2> QED
    BY <2>1, <2>3, <2>6 DEF CapInv, HeldActive, Held
<1>6. ASSUME NEW c \in {"current", "old"}, NEW b \in BOOLEAN, ReceiveOk(c, b)
      PROVE  CapInv'
  <2>1. UNCHANGED ledgerVars
        /\ UNCHANGED <<batches, staleBatches, relaySubs, messageQueue>>
    BY <1>6 DEF ReceiveOk, ledgerVars, managerVars, subVars, timerVars, relayVars
  <2>2. Range(toClient') \subseteq Range(toClient)
    BY <1>1, <1>6 DEF ReceiveOk
  <2>3. CASE ReleaseReqGate
    BY <2>1, <2>2, <2>3, ReleaseStep
  <2>4. CASE UNCHANGED <<reqGate, heldReqs, toRelay>>
    BY <2>1, <2>2, <2>4, CapSame
  <2> QED
    BY <1>6, <2>3, <2>4 DEF ReceiveOk
<1>7. CASE ReceiveChallenge
  <2>1. UNCHANGED ledgerVars /\ UNCHANGED <<batches, staleBatches, toRelay, relaySubs,
                                            messageQueue, heldReqs>>
    BY <1>7 DEF ReceiveChallenge, ledgerVars, managerVars, subVars, timerVars, relayVars
  <2> QED
    BY <1>1, <1>7, <2>1, CapSame DEF ReceiveChallenge
<1> QED
  BY <1>2, <1>4, <1>5, <1>6, <1>7 DEF ReceiveMessage

\* Every step of the specification keeps it.
LEMMA CapStep == InStep /\ TypeOK /\ ColdStart /\ CapInv /\ [Next]_vars => CapInv'
<1> SUFFICES ASSUME InStep, TypeOK, ColdStart, CapInv, [Next]_vars
             PROVE  CapInv'
  OBVIOUS
<1>0. TypeOK'
  BY TypeStep
<1>a. ASSUME UNCHANGED ledgerVars,
             UNCHANGED <<batches, staleBatches, toRelay, relaySubs, messageQueue, toClient,
                         heldReqs>>
      PROVE  CapInv'
  BY <1>0, <1>a, CapSame
<1>1. CASE Connect \/ ConnectThrows \/ ReconnectTimer
  BY <1>a, <1>1
  DEF Connect, ConnectThrows, ReconnectTimer, ledgerVars, managerVars, subVars, timerVars,
      relayVars
<1>2. CASE ReplayAuth \/ \E c \in {"current", "old"} : SignDeclined(c)
  BY <1>a, <1>2
  DEF ReplayAuth, SignDeclined, ledgerVars, managerVars, subVars, timerVars, relayVars
<1>3. CASE LearnCap
  BY <1>0, <1>3, LearnCapStep
<1>4. CASE Disconnect
  BY <1>0, <1>4, DisconnectStep
<1>5. ASSUME NEW s \in Subs, Subscribe(s) \/ SubscribeLater(s) \/ CloseSubscription(s)
      PROVE  CapInv'
  BY <1>0, <1>5, SubscribeStep, SubscribeLaterStep, CloseStep
<1>6. CASE BatchTimer
  <2>1. /\ batches \in Seq(Seq(Subs)) /\ batches # << >> /\ batches' = Tail(batches)
        /\ SendReqs(heldReqs, << >>, Keep(Head(batches), Tracked))
        /\ UNCHANGED ledgerVars
        /\ UNCHANGED <<staleBatches, relaySubs, toClient, messageQueue>>
    BY <1>6 DEF BatchTimer, TypeOK, ledgerVars, managerVars, subVars, relayVars
  <2>2. /\ Head(batches) \in Seq(Subs)
        /\ Range(batches) = {Head(batches)} \cup Range(batches')
    BY <2>1, HeadTailRange
  <2> QED
    BY <1>0, <2>1, <2>2, BatchStep
<1>7. CASE StaleBatchTimer
  <2>1. PICK b \in staleBatches : /\ SendReqs(heldReqs, << >>, Keep(b, Tracked))
                                  /\ staleBatches' = staleBatches \ {b}
    BY <1>7 DEF StaleBatchTimer
  <2>2. /\ UNCHANGED ledgerVars
        /\ UNCHANGED <<batches, relaySubs, toClient, messageQueue>>
    BY <1>7 DEF StaleBatchTimer, ledgerVars, managerVars, subVars, relayVars
  <2>3. b \in Seq(Subs)
    BY DEF TypeOK
  <2> QED
    BY <1>0, <2>1, <2>2, <2>3, BatchStep
<1>8. CASE AuthWedgeTimer
  <2>1. /\ ReleaseReqGate /\ UNCHANGED ledgerVars
        /\ UNCHANGED <<batches, staleBatches, relaySubs, messageQueue, toClient>>
    BY <1>8 DEF AuthWedgeTimer, ledgerVars, managerVars, subVars, timerVars, relayVars
  <2> QED
    BY <1>0, <2>1, ReleaseStep
<1>9. ASSUME NEW c \in {"current", "old"}, SignDone(c)
      PROVE  CapInv'
  BY <1>0, <1>9, SignDoneStep
<1>10. CASE SocketOpen
  BY <1>0, <1>10, SocketOpenStep
<1>11. CASE SocketClose
  BY <1>0, <1>11, SocketCloseStep
<1>12. CASE ReceiveMessage
  BY <1>0, <1>12, ReceiveWire
<1>13. CASE RelayStep
  BY <1>0, <1>13, RelayWire
<1>14. CASE \E s \in Subs : RelayCancels(s)
  BY <1>14 DEF RelayCancels, InStep
<1>15. CASE UNCHANGED vars
  BY <1>a, <1>15 DEF vars, ledgerVars, managerVars, subVars, timerVars, relayVars
<1> QED
  BY <1>1, <1>2, <1>3, <1>4, <1>5, <1>6, <1>7, <1>8, <1>9, <1>10, <1>11, <1>12, <1>13,
     <1>14, <1>15
  DEF Next, Call, Timer, Signer

\* So it holds in every behaviour, together with the types.
LEMMA CapAlways == ASSUME InStep PROVE Spec => [](TypeOK /\ CapInv)
<1>1. Init => TypeOK /\ ColdStart /\ CapInv
  BY TypeInit, ColdStartInit, CapInit
<1>2. TypeOK /\ ColdStart /\ CapInv /\ [Next]_vars => TypeOK' /\ ColdStart' /\ CapInv'
  BY TypeStep, ColdStartStep, CapStep
<1> QED
  BY <1>1, <1>2, PTL DEF Spec

\* With the client's cap within the relay's, and a relay that refuses nothing but
\* for its cap, the relay never has to refuse a REQ for its cap, however the calls,
\* reconnects, batches and drains interleave.
THEOREM NeverOverflowsInvariant ==
  ASSUME InStep
  PROVE  Spec => []NeverOverflows
<1>1. TypeOK /\ CapInv => NeverOverflows
  <2> SUFFICES ASSUME CapInv, NEW s \in Subs
               PROVE  Closed(s, "too many subscriptions") \notin Range(toClient)
    BY DEF NeverOverflows
  <2>1. "too many subscriptions" \in Reasons
    BY DEF Reasons
  <2> QED
    BY <2>1 DEF CapInv, Wire, Settled
<1> QED
  BY <1>1, CapAlways, PTL

\* Under the same assumptions the relay serves nothing the client has let go of,
\* but for what a CLOSE on the wire is about to end.
THEOREM NoZombiesInvariant ==
  ASSUME InStep
  PROVE  Spec => []NoZombies
<1>1. TypeOK /\ CapInv => NoZombies
  <2> SUFFICES ASSUME TypeOK, CapInv, NEW s \in relaySubs \ Tracked
               PROVE  Close(s) \in Range(toRelay)
    BY DEF NoZombies
  <2>1. s \in Subs /\ s \notin Active
    BY DEF TypeOK, Active
  <2>2. s \notin Served(Len(toRelay))
    BY <2>1 DEF CapInv, Wire, WireCap
  <2>3. PICK j \in 1 .. Len(toRelay) : toRelay[j] = Close(s)
    BY <2>1, <2>2 DEF Served
  <2>4. DOMAIN toRelay = 1 .. Len(toRelay)
    BY LenProperties DEF TypeOK
  <2> QED
    BY <2>3, <2>4 DEF Range
<1> QED
  BY <1>1, CapAlways, PTL
=============================================================================

------------------------ MODULE NetflowExportProofs -------------------------
(***************************************************************************)
(* Proofs about the exporter, for arrays of any length, every version and  *)
(* every pattern of refused datagrams.                                     *)
(***************************************************************************)
EXTENDS NetflowExport, FiniteSetTheorems, WellFoundedInduction, TLAPS

Exporters ==
  [open : BOOLEAN, version : {0, 5, 9, 10}, seq : 0 .. Word - 1, pktseq : 0 .. Word - 1,
   since : Int, last : Int, boot : Int]

Histories ==
  [records : 0 .. Word - 1, dgrams : 0 .. Word - 1, known : SUBSET {4, 6}, lost : BOOLEAN, calls : Int]

\* The parts of the state the argument looks at.
Shape ==
  /\ now \in Int
  /\ exp \in Exporters
  /\ hist \in Histories
  /\ {call.n4, call.n6, call.sent4, call.sent6, call.secs} \subseteq Int
  /\ DOMAIN call = DOMAIN NoCall /\ (call.busy => call.batch \in DOMAIN Batches)

\* Before there is an exporter nothing went out.
Fresh == exp.version = 0 => ~exp.open /\ ~call.busy /\ out = NoDatagram /\ hist.records = 0 /\ hist.dgrams = 0

\* The counters agree with what went out, and a template that counts as sent
\* was sent or, in v9, refused.
Counters ==
  /\ exp.version = 5 => exp.seq = hist.records
  /\ exp.version = 9 => exp.pktseq = hist.dgrams
  /\ exp.version = 10 /\ exp.last # 0 => hist.known = {4, 6}
  /\ exp.version = 9 /\ exp.last # 0 => 4 \in hist.known \/ hist.lost
  /\ exp.version = 0 => exp.seq = 0 /\ exp.pktseq = 0 /\ exp.last = 0

ExportInv ==
  Shape /\ Fresh /\ Counters /\ DatagramsFit /\ SequencesCount /\ TemplatesFirst
-----------------------------------------------------------------------------
\* The place of a member of a set of numbers, and its first so many members.
Rank(S, i) == Cardinality({j \in S : j <= i})
First(S, k) == {i \in S : Rank(S, i) <= k}
Later(S, a, b) == {i \in S : Rank(S, i) \in a + 1 .. a + b}

\* A nonempty set of natural numbers has a least member.
LEMMA LeastNatural ==
  ASSUME NEW T, T \subseteq Nat, T # {}
  PROVE  \E x \in T : \A y \in T : x <= y
<1> DEFINE R == {p \in Nat \X Nat : p[1] < p[2]}
<1>1. IsWellFoundedOn(R, Nat)
  BY NatLessThanWellFounded, Zenon DEF OpToRel
<1>2. \E x \in T : \A y \in T : ~(<<y, x>> \in R)
  <2> HIDE DEF R
  <2> QED
    BY <1>1, WFMin, Zenon
<1>3. PICK x \in T : \A y \in T : ~(<<y, x>> \in R)
  BY <1>2
<1>4. ASSUME NEW y \in T
      PROVE  x <= y
  <2>1. x \in Nat /\ y \in Nat
    OBVIOUS
  <2>2. y < x => <<y, x>> \in R
    BY <2>1
  <2>3. ~(y < x)
    BY <1>3, <2>2
  <2> QED
    BY <2>1, <2>3
<1> QED
  BY <1>4

\* The members of a set up to one of them are finitely many, itself included.
LEMMA RankBounds ==
  ASSUME NEW S, S \subseteq Nat, IsFiniteSet(S), NEW i \in S
  PROVE  /\ IsFiniteSet({j \in S : j <= i})
         /\ Rank(S, i) \in Nat /\ Rank(S, i) >= 1 /\ Rank(S, i) <= Cardinality(S)
<1> DEFINE U == {j \in S : j <= i}
<1>1. U \in SUBSET S /\ i \in U
  OBVIOUS
<1> HIDE DEF U
<1>2. IsFiniteSet(U) /\ Cardinality(U) <= Cardinality(S) /\ Cardinality(U) \in Nat
  BY <1>1, FS_Subset, FS_CardinalityType, Zenon
<1>3. Cardinality(U) # 0
  BY <1>1, <1>2, FS_EmptySet, Zenon
<1> QED
  BY <1>2, <1>3 DEF U, Rank

\* A later member has a higher rank.
LEMMA RankGrows ==
  ASSUME NEW S, S \subseteq Nat, IsFiniteSet(S), NEW i \in S, NEW l \in S, i < l
  PROVE  Rank(S, i) + 1 <= Rank(S, l)
<1> DEFINE U == {j \in S : j <= i}
           V == {j \in S : j <= l}
<1>0. i \in Nat /\ l \in Nat
  OBVIOUS
<1>1. U \cup {l} \in SUBSET V /\ l \notin U
  <2>1. l \in V /\ l \notin U
    BY <1>0
  <2>2. U \subseteq V
    <3> SUFFICES ASSUME NEW j \in U
                 PROVE  j \in V
      BY Zenon
    <3>1. j \in S /\ j \in Nat /\ j <= i
      OBVIOUS
    <3> QED
      BY <1>0, <3>1
  <2> QED
    BY <2>1, <2>2
<1>2. IsFiniteSet(U) /\ IsFiniteSet(V)
  BY RankBounds, Zenon
<1> HIDE DEF U, V
<1>3. Cardinality(U \cup {l}) = Cardinality(U) + 1
  BY <1>1, <1>2, FS_AddElement, Zenon
<1>4. Cardinality(U \cup {l}) <= Cardinality(V)
  BY <1>1, <1>2, FS_Subset
<1> QED
  BY <1>3, <1>4 DEF U, V, Rank

\* As many members have a rank up to a number as that number says.
LEMMA FirstCount ==
  ASSUME NEW S, S \subseteq Nat, IsFiniteSet(S), NEW n \in Nat, n <= Cardinality(S)
  PROVE  Cardinality(First(S, n)) = n
<1> DEFINE Good(k) == Cardinality(First(S, k)) = k
           T == {k \in Nat : k <= Cardinality(S) /\ ~Good(k)}
<1>0. Cardinality(S) \in Nat
  BY FS_CardinalityType
<1>1. ASSUME T # {} PROVE FALSE
  <2>1. PICK k \in T : \A l \in T : k <= l
    <3>1. T \subseteq Nat
      OBVIOUS
    <3> HIDE DEF T
    <3> QED
      BY <1>1, <3>1, LeastNatural, Zenon
  <2>2. k \in Nat /\ k <= Cardinality(S) /\ ~Good(k)
    BY <2>1
  <2>3. k # 0
    <3>1. First(S, 0) = {}
      <4>1. \A i \in S : Rank(S, i) \in Nat /\ Rank(S, i) >= 1
        BY RankBounds, Zenon
      <4>2. \A i \in S : ~(Rank(S, i) <= 0)
        BY <4>1
      <4> QED
        BY <4>2, Zenon DEF First
    <3>2. Good(0)
      BY <3>1, FS_EmptySet
    <3> HIDE DEF Good
    <3> QED
      BY <2>2, <3>2
  <2>4. Good(k - 1)
    <3>1. k - 1 \in Nat /\ k - 1 <= Cardinality(S) /\ ~(k <= k - 1)
      BY <1>0, <2>2, <2>3
    <3> HIDE DEF Good
    <3> QED
      BY <2>1, <3>1
  <2> DEFINE R == First(S, k - 1)
  <2>5. R \in SUBSET S /\ IsFiniteSet(R) /\ Cardinality(R) = k - 1
    <3>1. R \in SUBSET S
      BY DEF First
    <3> QED
      BY <2>4, <3>1, FS_Subset
  <2>6. S \ R # {}
    <3>1. R # S
      BY <1>0, <2>2, <2>5
    <3> HIDE DEF R
    <3> QED
      BY <2>5, <3>1, Zenon
  <2>7. PICK m \in S \ R : \A j \in S \ R : m <= j
    <3>1. S \ R \subseteq Nat
      BY Zenon
    <3> HIDE DEF R
    <3> QED
      BY <2>6, <3>1, LeastNatural, Zenon
  <2>8. m \in S /\ m \in Nat /\ Rank(S, m) \in Nat /\ Rank(S, m) > k - 1
    <3>1. m \in S /\ ~(Rank(S, m) <= k - 1)
      BY <2>7 DEF First
    <3>2. Rank(S, m) \in Nat
      BY <3>1, RankBounds, Zenon
    <3> QED
      BY <2>2, <3>1, <3>2
  <2>9. {j \in S : j <= m} = R \cup {m}
    <3>1. ASSUME NEW j \in S, j <= m, j # m PROVE j \in R
      BY <2>7, <2>8, <3>1
    <3>2. ASSUME NEW j \in R PROVE j \in S /\ j <= m
      <4>1. j \in S /\ j \in Nat /\ Rank(S, j) <= k - 1 /\ Rank(S, j) \in Nat
        BY RankBounds, Zenon DEF First
      <4>2. m < j => Rank(S, m) + 1 <= Rank(S, j)
        BY <2>8, <4>1, RankGrows, Zenon
      <4> QED
        BY <2>2, <2>8, <4>1, <4>2
    <3>3. m \in S /\ m <= m
      BY <2>8
    <3> HIDE DEF R
    <3>4. \A j \in S : j <= m <=> j \in R \cup {m}
      BY <3>1, <3>2, <3>3, Zenon
    <3>5. R \cup {m} \subseteq S
      BY <3>2, <3>3, Zenon
    <3> QED
      BY <3>4, <3>5, Zenon
  <2>10. Cardinality(R \cup {m}) = k
    <3>1. Cardinality(R \cup {m}) = Cardinality(R) + 1
      <4> HIDE DEF R
      <4>1. IsFiniteSet(R) /\ m \notin R
        BY <2>5, <2>7, Zenon
      <4>2. Cardinality(R \cup {m}) = IF m \in R THEN Cardinality(R) ELSE Cardinality(R) + 1
        BY <4>1, FS_AddElement, Zenon
      <4> QED
        BY <4>1, <4>2, Zenon
    <3> QED
      BY <2>2, <2>5, <3>1
  <2>11. Rank(S, m) = k
    BY <2>9, <2>10 DEF Rank
  <2>12. First(S, k) = R \cup {m}
    <3>1. ASSUME NEW j \in S, Rank(S, j) <= k, j \notin R, j # m PROVE FALSE
      <4>1. m < j
        BY <2>7, <2>8, <3>1
      <4>2. Rank(S, m) + 1 <= Rank(S, j) /\ Rank(S, j) \in Nat
        BY <2>8, <4>1, RankGrows, RankBounds, Zenon
      <4> QED
        BY <2>2, <2>11, <3>1, <4>2
    <3>2. ASSUME NEW j \in R PROVE j \in S /\ Rank(S, j) <= k
      <4>1. j \in S /\ Rank(S, j) <= k - 1 /\ Rank(S, j) \in Nat
        BY RankBounds, Zenon DEF First
      <4> QED
        BY <2>2, <4>1
    <3>3. Rank(S, m) <= k
      BY <2>2, <2>11
    <3> HIDE DEF R
    <3>4. \A j \in S : Rank(S, j) <= k <=> j \in R \cup {m}
      BY <3>1, <3>2, <3>3, Zenon
    <3>5. R \cup {m} \subseteq S
      BY <2>8, <3>2
    <3> QED
      BY <3>4, <3>5, Zenon DEF First
  <2> QED
    BY <2>2, <2>10, <2>12
<1> QED
  BY <1>1

\* Every member is among the first as many as there are, and none among the
\* first none.
LEMMA FirstEnds ==
  ASSUME NEW S, S \subseteq Nat, IsFiniteSet(S)
  PROVE  First(S, Cardinality(S)) = S /\ First(S, 0) = {}
<1>1. \A i \in S : Rank(S, i) \in Nat /\ Rank(S, i) >= 1 /\ Rank(S, i) <= Cardinality(S)
  BY RankBounds, Zenon
<1>2. \A i \in S : ~(Rank(S, i) <= 0)
  BY <1>1
<1> QED
  BY <1>1, <1>2, Zenon DEF First

\* Those after the first a, up to b more of them, complete the first a + b.
LEMMA FirstAdds ==
  ASSUME NEW S, S \subseteq Nat, IsFiniteSet(S), NEW a \in Nat, NEW b \in Nat
  PROVE  First(S, a + b) = First(S, a) \cup Later(S, a, b)
<1>1. ASSUME NEW i \in S
      PROVE  Rank(S, i) <= a + b <=> (Rank(S, i) <= a \/ Rank(S, i) \in a + 1 .. a + b)
  <2>1. Rank(S, i) \in Nat
    BY RankBounds, Zenon
  <2> QED
    BY <2>1
<1> QED
  BY <1>1, Zenon DEF First, Later

-----------------------------------------------------------------------------
\* Whole words do not change a remainder.
LEMMA WholeWords ==
  ASSUME NEW W \in Nat \ {0}, NEW y \in Int, NEW k \in Int
  PROVE  (y + W * k) % W = y % W
<1> DEFINE q == y \div W
           r == y % W
<1>1. q \in Int /\ r \in 0 .. W - 1 /\ y = W * q + r
  OBVIOUS
<1>2. y + W * k = W * (q + k) + r
  BY <1>1
<1> DEFINE z == y + W * k
           p == z \div W
           s == z % W
<1>3. z \in Int /\ p \in Int /\ s \in 0 .. W - 1 /\ z = W * p + s
  OBVIOUS
<1> HIDE DEF q, r, z, p, s
<1>4. W * p + s = W * (q + k) + r
  BY <1>2, <1>3 DEF z
<1> DEFINE d == p - (q + k)
<1>5. W * d = r - s /\ d \in Int
  BY <1>1, <1>3, <1>4
<1> HIDE DEF d
<1>6. d >= 1 => W * d >= W
  BY <1>5
<1>7. d <= -1 => W * d <= -W
  BY <1>5
<1>8. d = 0
  BY <1>1, <1>3, <1>5, <1>6, <1>7
<1> QED
  BY <1>1, <1>3, <1>5, <1>8 DEF r, s, z

\* The second clock is read in the same second as the first or in the next.
LEMMA NextSecond ==
  ASSUME NEW S \in Nat \ {0}, NEW a \in Nat, NEW b \in {a, a + 1}
  PROVE  \E e \in {0, 1} : a \div S = (b \div S) - e
<1> DEFINE q == a \div S
           p == b \div S
<1>1. /\ q \in Int /\ p \in Int
      /\ S * q <= a /\ a < S * q + S
      /\ S * p <= b /\ b < S * p + S
  OBVIOUS
<1> HIDE DEF q, p
<1> DEFINE d == p - q
<1>2. d \in Int /\ S * d = S * p - S * q
  BY <1>1
<1>3. S * d < S + 1 /\ S * d > -S
  BY <1>1, <1>2
<1> HIDE DEF d
<1>4. (d >= 2 => S * d >= 2 * S) /\ (d <= -1 => S * d <= -S)
  BY <1>2
<1>5. d \in {0, 1}
  BY <1>2, <1>3, <1>4
<1>6. q = p - d
  BY <1>1, <1>2 DEF d
<1> QED
  BY <1>5, <1>6 DEF q, p

\* The header's two clocks and a record's uptime give back the record's time,
\* up to the second that passed between the two readings.
LEMMA TimeBack ==
  ASSUME NEW W \in Nat \ {0}, NEW S \in Nat \ {0},
         NEW s \in Int, NEW b \in Int, NEW e \in {0, 1}, NEW t \in Nat,
         NEW u, u = ((s - e - b) * S) % W,
         NEW p, p = ((t \div S - b) * S + (t % S)) % W
  PROVE  (s * S - u + p - t) % W \in {0, S % W}
<1> DEFINE x == (s - e - b) * S
           y == (t \div S - b) * S + (t % S)
<1>1. x \in Int /\ y \in Int
  OBVIOUS
<1>2. x = s * S - e * S - b * S /\ y = t - b * S
  <2> DEFINE q == t \div S
             r == t % S
  <2>1. q \in Int /\ r \in Int /\ t = S * q + r
    OBVIOUS
  <2> HIDE DEF q, r
  <2>2. (q - b) * S + r = t - b * S
    BY <2>1
  <2> QED
    BY <2>2 DEF q, r
<1>3. u = x % W /\ p = y % W
  OBVIOUS
<1> HIDE DEF x, y
<1>4. PICK k \in Int : u = x - W * k
  <2>1. x \div W \in Int /\ x % W = x - W * (x \div W)
    BY <1>1
  <2> QED
    BY <1>3, <2>1, Zenon
<1>5. PICK l \in Int : p = y - W * l
  <2>1. y \div W \in Int /\ y % W = y - W * (y \div W)
    BY <1>1
  <2> QED
    BY <1>3, <2>1, Zenon
<1>6. s * S - u + p - t = e * S + W * (k - l)
  BY <1>1, <1>2, <1>4, <1>5
<1>7. e * S \in Int /\ k - l \in Int
  OBVIOUS
<1>8. (e * S + W * (k - l)) % W = (e * S) % W
  BY <1>7, WholeWords, Zenon
<1>9. (e * S) % W \in {0, S % W}
  OBVIOUS
<1> QED
  BY <1>6, <1>8, <1>9

-----------------------------------------------------------------------------
\* Some function obeys the recursion of Width.
LEMMA SumsExist ==
  ASSUME NEW fields, NEW n \in Nat
  PROVE  \E g : g = [i \in 0 .. n |-> IF i = 0 THEN 0 ELSE g[i - 1] + fields[i][2]]
<1> DEFINE Sums(m) == \E g : g = [i \in 0 .. m |-> IF i = 0 THEN 0 ELSE g[i - 1] + fields[i][2]]
           T == {m \in Nat : ~Sums(m)}
<1>1. ASSUME T # {} PROVE FALSE
  <2>1. PICK m \in T : \A k \in T : m <= k
    BY <1>1, LeastNatural, Zenon
  <2>2. m # 0
    <3> DEFINE z == [i \in 0 .. 0 |-> 0]
    <3>1. z = [i \in 0 .. 0 |-> IF i = 0 THEN 0 ELSE z[i - 1] + fields[i][2]]
      OBVIOUS
    <3>2. Sums(0)
      BY <3>1, Zenon
    <3>3. ~Sums(m)
      BY <2>1
    <3> HIDE DEF Sums
    <3> QED
      BY <3>2, <3>3
  <2>3. m - 1 \in Nat /\ ~(m <= m - 1)
    BY <2>2
  <2>4. Sums(m - 1)
    BY <2>1, <2>3, Zenon
  <2>5. PICK g : g = [i \in 0 .. m - 1 |-> IF i = 0 THEN 0 ELSE g[i - 1] + fields[i][2]]
    BY <2>4, Zenon
  <2> DEFINE h == [i \in 0 .. m |-> IF i = m THEN g[m - 1] + fields[m][2] ELSE g[i]]
  <2>6. \A i \in 0 .. m - 1 : h[i] = g[i] /\ g[i] = IF i = 0 THEN 0 ELSE g[i - 1] + fields[i][2]
    BY <2>3, <2>5
  <2>7. \A i \in 0 .. m : h[i] = IF i = 0 THEN 0 ELSE h[i - 1] + fields[i][2]
    <3> TAKE i \in 0 .. m
    <3>1. CASE i = m
      <4>1. h[m] = g[m - 1] + fields[m][2] /\ h[m - 1] = g[m - 1]
        BY <2>2, <2>3, <2>6
      <4> QED
        BY <2>2, <3>1, <4>1
    <3>2. CASE i # m /\ i # 0
      <4>1. i \in 0 .. m - 1 /\ i - 1 \in 0 .. m - 1
        BY <3>2
      <4> QED
        BY <2>6, <3>2, <4>1, Zenon
    <3>3. CASE i = 0
      <4>1. 0 \in 0 .. m - 1
        BY <2>2
      <4>2. h[0] = 0
        BY <2>6, <4>1, Zenon
      <4> QED
        BY <3>3, <4>2
    <3> QED
      BY <3>1, <3>2, <3>3, Zenon
  <2>8. h = [i \in 0 .. m |-> h[i]]
    OBVIOUS
  <2> HIDE DEF h
  <2>9. h = [i \in 0 .. m |-> IF i = 0 THEN 0 ELSE h[i - 1] + fields[i][2]]
    BY <2>7, <2>8, Zenon
  <2>10. Sums(m)
    BY <2>9, Zenon
  <2> QED
    BY <2>1, <2>10, Zenon
<1> QED
  BY <1>1, Zenon

\* The lengths add up by the recursion of Width.
LEMMA WidthSums ==
  ASSUME NEW fields, Len(fields) \in Nat
  PROVE  \E f : /\ f[0] = 0 
                /\ \A i \in 1 .. Len(fields) : f[i] = f[i - 1] + fields[i][2]
                /\ Width(fields) = f[Len(fields)]
<1> DEFINE h == CHOOSE f : f = [i \in 0 .. Len(fields) |-> IF i = 0 THEN 0 ELSE f[i - 1] + fields[i][2]]
<1>1. h = [i \in 0 .. Len(fields) |-> IF i = 0 THEN 0 ELSE h[i - 1] + fields[i][2]]
  BY SumsExist, Zenon
<1>2. Width(fields) = h[Len(fields)]
  BY Zenon DEF Width
<1> HIDE DEF h
<1>3. h[0] = 0 /\ \A i \in 1 .. Len(fields) : h[i] = h[i - 1] + fields[i][2]
  BY <1>1
<1> QED
  BY <1>2, <1>3, Zenon


\* Eleven fields take the sum of their lengths.
LEMMA WidthEleven ==
  ASSUME NEW fields, Len(fields) = 11, NEW w \in [1 .. 11 -> Nat],
         \A i \in 1 .. 11 : fields[i][2] = w[i]
  PROVE  Width(fields) = w[1] + w[2] + w[3] + w[4] + w[5] + w[6] + w[7] + w[8] + w[9] + w[10] + w[11]
<1>1. Len(fields) \in Nat
  OBVIOUS
<1>2. PICK f : /\ f[0] = 0
               /\ \A i \in 1 .. Len(fields) : f[i] = f[i - 1] + fields[i][2]
               /\ Width(fields) = f[Len(fields)]
  BY <1>1, WidthSums, Zenon
<1>3. \A i \in 1 .. 11 : f[i] = f[i - 1] + w[i]
  BY <1>2
<1> QED
  BY <1>2, <1>3

\* The records of v9 and IPFIX take the room that the exporter reckons with.
LEMMA TemplateWidths ==
  /\ Width(tmpl_v4_fields) = 31 /\ Width(tmpl_v6_fields) = 58
  /\ Width(ipfix_v4_fields) = 47 /\ Width(ipfix_v6_fields) = 74
<1>1. Width(tmpl_v4_fields) = 31
  <2> DEFINE w == <<4, 4, 2, 2, 1, 4, 4, 1, 1, 4, 4>>
  <2>1. Len(tmpl_v4_fields) = 11 /\ \A i \in 1 .. 11 : tmpl_v4_fields[i][2] = w[i]
    BY DEF tmpl_v4_fields, Key
  <2>2. w \in [1 .. 11 -> Nat]
    OBVIOUS
  <2>3. Width(tmpl_v4_fields) = w[1] + w[2] + w[3] + w[4] + w[5] + w[6] + w[7] + w[8] + w[9] + w[10] + w[11]
    <3> HIDE DEF w
    <3> QED
      BY <2>1, <2>2, WidthEleven, Zenon
  <2> QED
    BY <2>3
<1>2. Width(tmpl_v6_fields) = 58
  <2> DEFINE w == <<16, 16, 2, 2, 1, 4, 4, 1, 4, 4, 4>>
  <2>1. Len(tmpl_v6_fields) = 11 /\ \A i \in 1 .. 11 : tmpl_v6_fields[i][2] = w[i]
    BY DEF tmpl_v6_fields, Key
  <2>2. w \in [1 .. 11 -> Nat]
    OBVIOUS
  <2>3. Width(tmpl_v6_fields) = w[1] + w[2] + w[3] + w[4] + w[5] + w[6] + w[7] + w[8] + w[9] + w[10] + w[11]
    <3> HIDE DEF w
    <3> QED
      BY <2>1, <2>2, WidthEleven, Zenon
  <2> QED
    BY <2>3
<1>3. Width(ipfix_v4_fields) = 47
  <2> DEFINE w == <<4, 4, 2, 2, 1, 1, 1, 8, 8, 8, 8>>
  <2>1. Len(ipfix_v4_fields) = 11 /\ \A i \in 1 .. 11 : ipfix_v4_fields[i][2] = w[i]
    BY DEF ipfix_v4_fields, Key
  <2>2. w \in [1 .. 11 -> Nat]
    OBVIOUS
  <2>3. Width(ipfix_v4_fields) = w[1] + w[2] + w[3] + w[4] + w[5] + w[6] + w[7] + w[8] + w[9] + w[10] + w[11]
    <3> HIDE DEF w
    <3> QED
      BY <2>1, <2>2, WidthEleven, Zenon
  <2> QED
    BY <2>3
<1>4. Width(ipfix_v6_fields) = 74
  <2> DEFINE w == <<16, 16, 2, 2, 1, 1, 4, 8, 8, 8, 8>>
  <2>1. Len(ipfix_v6_fields) = 11 /\ \A i \in 1 .. 11 : ipfix_v6_fields[i][2] = w[i]
    BY DEF ipfix_v6_fields, Key
  <2>2. w \in [1 .. 11 -> Nat]
    OBVIOUS
  <2>3. Width(ipfix_v6_fields) = w[1] + w[2] + w[3] + w[4] + w[5] + w[6] + w[7] + w[8] + w[9] + w[10] + w[11]
    <3> HIDE DEF w
    <3> QED
      BY <2>1, <2>2, WidthEleven, Zenon
  <2> QED
    BY <2>3
<1> QED
  BY <1>1, <1>2, <1>3, <1>4

\* A record of v5 takes 48 bytes.
LEMMA V5Width == Width(V5Record) = 48
<1>1. /\ Len(V5Record) = 18
      /\ V5Record[1][2] = 4 /\ V5Record[2][2] = 4 /\ V5Record[3][2] = 4 /\ V5Record[4][2] = 2
      /\ V5Record[5][2] = 2 /\ V5Record[6][2] = 4 /\ V5Record[7][2] = 4 /\ V5Record[8][2] = 4
      /\ V5Record[9][2] = 4 /\ V5Record[10][2] = 2 /\ V5Record[11][2] = 2 /\ V5Record[12][2] = 1
      /\ V5Record[13][2] = 1 /\ V5Record[14][2] = 1 /\ V5Record[15][2] = 1 /\ V5Record[16][2] = 4
      /\ V5Record[17][2] = 2 /\ V5Record[18][2] = 2
  BY DEF V5Record
<1>2. PICK f : /\ f[0] = 0
               /\ \A i \in 1 .. Len(V5Record) : f[i] = f[i - 1] + V5Record[i][2]
               /\ Width(V5Record) = f[Len(V5Record)]
  <2>1. Len(V5Record) \in Nat
    BY <1>1
  <2> QED
    BY <2>1, WidthSums, Zenon
<1>3. \A i \in 1 .. 18 : f[i] = f[i - 1] + V5Record[i][2]
  BY <1>1, <1>2
<1>4. f[9] = 32
  BY <1>1, <1>2, <1>3
<1>5. f[18] = 48
  BY <1>1, <1>3, <1>4
<1> QED
  BY <1>1, <1>2, <1>5

\* What is written for a record is what its template announces, and as long as
\* the exporter reckons (the template tables and the write_ functions).
LEMMA RecordsLaidOut == RecordsDescribed
BY TemplateWidths, V5Width
   DEF RecordsDescribed, write_v4_data_record, write_v6_data_record, write_ipfix_v4_record,
       write_ipfix_v6_record, tmpl_v4_fields, tmpl_v6_fields, ipfix_v4_fields, ipfix_v6_fields,
       TMPL_V4_RECORD_LEN, TMPL_V6_RECORD_LEN, IPFIX_V4_REC_LEN, IPFIX_V6_REC_LEN, NFV5_RECORD_LEN

-----------------------------------------------------------------------------
\* So many records of a length fit behind an offset.
LEMMA FittingFits ==
  ASSUME NEW off \in Int, NEW len \in Nat \ {0}, NEW left \in Int, left > 0
  PROVE  LET k == Fitting(off, len, left)
         IN  k \in Nat /\ k <= left /\ (k > 0 => off + k * len <= NF_MAX_PACKET)
<1> DEFINE room == NF_MAX_PACKET - off
           q == room \div len
<1>1. CASE off + len > NF_MAX_PACKET
  BY <1>1 DEF Fitting
<1>2. CASE off + len <= NF_MAX_PACKET
  <2>1. room \in Nat /\ room >= len
    BY <1>2 DEF NF_MAX_PACKET
  <2>2. q \in Nat /\ q * len <= room
    BY <2>1
  <2>3. Fitting(off, len, left) = IF left < q THEN left ELSE q
    BY <1>2 DEF Fitting, Smaller, NF_MAX_PACKET
  <2>4. left < q => left * len <= q * len
    BY <2>2
  <2> HIDE DEF q
  <2>5. CASE left < q
    BY <2>1, <2>2, <2>3, <2>4, <2>5 DEF NF_MAX_PACKET
  <2>6. CASE left >= q
    BY <2>1, <2>2, <2>3, <2>6 DEF NF_MAX_PACKET
  <2> QED
    BY <2>2, <2>5, <2>6
<1> QED
  BY <1>1, <1>2 DEF NF_MAX_PACKET

\* A v5 datagram has at most the records its buffer has room for.
LEMMA V5Fits ==
  ASSUME Shape
  PROVE  /\ export_v5.k4 \in Int /\ export_v5.k6 = 0 /\ export_v5.tmpl = {}
         /\ LeftV4 >= 0 => export_v5.k4 \in 0 .. LeftV4
         /\ export_v5.high <= NFV5_HEADER_LEN + NFV5_MAX_RECORDS * NFV5_RECORD_LEN
<1>1. LeftV4 \in Int
  BY DEF Shape, LeftV4
<1> HIDE DEF LeftV4
<1> QED
  BY <1>1 DEF export_v5, Datagram, Smaller, NFV5_HEADER_LEN, NFV5_MAX_RECORDS, NFV5_RECORD_LEN

\* Padding stays below a multiple of four.
LEMMA PaddedFits ==
  ASSUME NEW n \in Nat, NEW q \in Nat, n <= 4 * q
  PROVE  \E p \in Nat : Padded(n) = 4 * p /\ p <= q
<1> DEFINE p == (n + 3) \div 4
<1>1. p \in Nat /\ p <= q
  OBVIOUS
<1> QED
  BY <1>1 DEF Padded

\* The templates of v9, when they are due, take 52 bytes each.
LEMMA TemplateLengths ==
  /\ write_template_flowset(NFV9_HEADER_LEN, tmpl_v4_fields) = 52
  /\ write_template_flowset(NFV9_HEADER_LEN + 52, tmpl_v6_fields) = 52
  /\ write_ipfix_template(ipfix_v4_fields) = 52
  /\ write_ipfix_template(ipfix_v6_fields) = 52
BY DEF write_template_flowset, write_ipfix_template, Padded, NFV9_HEADER_LEN, NF_MAX_PACKET,
       tmpl_v4_fields, tmpl_v6_fields, ipfix_v4_fields, ipfix_v6_fields, Key

\* Both sets of a v9 datagram end within the buffer, padding included, and
\* templates that are due are there.
LEMMA V9Fits ==
  ASSUME Shape, NEW d, d = export_v9
  PROVE  /\ d.k4 \in Nat /\ d.k6 \in Nat
         /\ d.high <= NF_MAX_PACKET
         /\ d.tmpl \subseteq {4, 6}
         /\ need_template(exp, now) => 4 \in d.tmpl
         /\ ~need_template(exp, now) => d.tmpl = {}
         /\ LeftV4 >= 0 => d.k4 <= LeftV4
         /\ LeftV6 >= 0 => d.k6 <= LeftV6
<1> DEFINE due == need_template(exp, now)
           t4 == IF due THEN write_template_flowset(NFV9_HEADER_LEN, tmpl_v4_fields) ELSE 0
           t6 == IF due /\ call.n6 > 0
                 THEN write_template_flowset(NFV9_HEADER_LEN + t4, tmpl_v6_fields) ELSE 0
           a == NFV9_HEADER_LEN + t4 + t6
           k4 == IF LeftV4 > 0 THEN Fitting(a + 4, TMPL_V4_RECORD_LEN, LeftV4) ELSE 0
           b == IF k4 > 0 THEN a + Padded(4 + k4 * TMPL_V4_RECORD_LEN) ELSE a
           k6 == IF LeftV6 > 0 THEN Fitting(b + 4, TMPL_V6_RECORD_LEN, LeftV6) ELSE 0
           len == IF k6 > 0 THEN b + Padded(4 + k6 * TMPL_V6_RECORD_LEN) ELSE b
<1>1. LeftV4 \in Int /\ LeftV6 \in Int
  BY DEF Shape, LeftV4, LeftV6
<1>2. d = Datagram((IF t4 > 0 THEN {4} ELSE {}) \cup (IF t6 > 0 THEN {6} ELSE {}), k4, k6, len, len)
  BY Zenon DEF export_v9
<1>3. /\ t4 = IF due THEN 52 ELSE 0
      /\ t6 = IF due /\ call.n6 > 0 THEN 52 ELSE 0
      /\ a \in {20, 72, 124}
  BY TemplateLengths DEF NFV9_HEADER_LEN
<1> HIDE DEF t4, t6, a, LeftV4, LeftV6
<1>4. /\ k4 \in Nat /\ (k4 > 0 => a + 4 + k4 * 31 <= 1400)
      /\ LeftV4 >= 0 => k4 <= LeftV4
  BY <1>1, <1>3, FittingFits DEF NF_MAX_PACKET, TMPL_V4_RECORD_LEN
<1> HIDE DEF k4
<1>5. \E q \in Nat : b = 4 * q /\ 4 * q <= 1400
  <2>1. CASE k4 = 0
    BY <1>3, <2>1
  <2>2. CASE k4 > 0
    <3>1. PICK q \in Nat : 4 + k4 * 31 <= 4 * q /\ a + 4 * q = 1400
      BY <1>3, <1>4, <2>2
    <3>2. PICK p \in Nat : Padded(4 + k4 * 31) = 4 * p /\ p <= q
      BY <1>4, <3>1, PaddedFits
    <3>3. PICK r \in Nat : a = 4 * r
      BY <1>3
    <3>4. b = a + 4 * p
      BY <2>2, <3>2 DEF TMPL_V4_RECORD_LEN
    <3>5. b = 4 * (r + p) /\ 4 * (r + p) <= 1400
      BY <1>3, <3>1, <3>2, <3>3, <3>4
    <3> QED
      BY <3>3, <3>5
  <2> QED
    BY <1>4, <2>1, <2>2
<1> HIDE DEF b
<1>6. /\ k6 \in Nat /\ (k6 > 0 => b + 4 + k6 * 58 <= 1400)
      /\ LeftV6 >= 0 => k6 <= LeftV6
  BY <1>1, <1>5, FittingFits DEF NF_MAX_PACKET, TMPL_V6_RECORD_LEN
<1> HIDE DEF k6
<1>7. len <= 1400
  <2>1. CASE k6 = 0
    BY <1>5, <2>1
  <2>2. CASE k6 > 0
    <3>1. PICK q \in Nat : 4 + k6 * 58 <= 4 * q /\ b + 4 * q = 1400
      BY <1>5, <1>6, <2>2
    <3>2. PICK p \in Nat : Padded(4 + k6 * 58) = 4 * p /\ p <= q
      BY <1>6, <3>1, PaddedFits
    <3> QED
      BY <1>5, <2>2, <3>1, <3>2 DEF TMPL_V6_RECORD_LEN
  <2> QED
    BY <1>6, <2>1, <2>2
<1> HIDE DEF len
<1> QED
  BY <1>2, <1>3, <1>4, <1>6, <1>7 DEF Datagram, NF_MAX_PACKET

\* An IPFIX datagram fits, and so does the header of a set that finds no room
\* for a record: the IPv4 set leaves at least three bytes more than it needs.
LEMMA IpfixFits ==
  ASSUME Shape, NEW d, d = export_ipfix
  PROVE  /\ d.k4 \in Nat /\ d.k6 \in Nat
         /\ d.high <= NF_MAX_PACKET
         /\ d.tmpl = IF need_template(exp, now) THEN {4, 6} ELSE {}
         /\ LeftV4 >= 0 => d.k4 <= LeftV4
         /\ LeftV6 >= 0 => d.k6 <= LeftV6
<1> DEFINE due == need_template(exp, now)
           a == IPFIX_HEADER_LEN + (IF due THEN write_ipfix_template(ipfix_v4_fields)
                                                + write_ipfix_template(ipfix_v6_fields) ELSE 0)
           k4 == IF LeftV4 > 0 THEN Fitting(a + 4, IPFIX_V4_REC_LEN, LeftV4) ELSE 0
           b == IF k4 > 0 THEN a + 4 + k4 * IPFIX_V4_REC_LEN ELSE a
           k6 == IF LeftV6 > 0 THEN Fitting(b + 4, IPFIX_V6_REC_LEN, LeftV6) ELSE 0
           len == IF k6 > 0 THEN b + 4 + k6 * IPFIX_V6_REC_LEN ELSE b
           high == IF LeftV6 > 0 /\ k6 = 0 THEN b + 4 ELSE len
<1>1. LeftV4 \in Int /\ LeftV6 \in Int
  BY DEF Shape, LeftV4, LeftV6
<1>2. d = Datagram(IF due THEN {4, 6} ELSE {}, k4, k6, len, high)
  BY Zenon DEF export_ipfix
<1>3. a \in {16, 120}
  BY TemplateLengths DEF IPFIX_HEADER_LEN
<1> HIDE DEF a, LeftV4, LeftV6
<1>4. /\ k4 \in Nat /\ (k4 > 0 => a + 4 + k4 * 47 <= 1400)
      /\ LeftV4 >= 0 => k4 <= LeftV4
  BY <1>1, <1>3, FittingFits DEF NF_MAX_PACKET, IPFIX_V4_REC_LEN
<1> HIDE DEF k4
<1>5. b \in Nat /\ b + 4 <= 1400
  BY <1>3, <1>4 DEF IPFIX_V4_REC_LEN
<1> HIDE DEF b
<1>6. /\ k6 \in Nat /\ (k6 > 0 => b + 4 + k6 * 74 <= 1400)
      /\ LeftV6 >= 0 => k6 <= LeftV6
  BY <1>1, <1>5, FittingFits DEF NF_MAX_PACKET, IPFIX_V6_REC_LEN
<1> HIDE DEF k6
<1>7. high <= 1400
  BY <1>5, <1>6 DEF IPFIX_V6_REC_LEN
<1> HIDE DEF len, high
<1> QED
  BY <1>2, <1>4, <1>6, <1>7 DEF Datagram, NF_MAX_PACKET

-----------------------------------------------------------------------------
\* A number below the word is its own remainder.
LEMMA WordRemainder ==
  ASSUME NEW x \in 0 .. Word - 1
  PROVE  x % Word = x /\ (x + 0) % Word = x
BY NetflowAssumption

\* Sums are cut to the word.
LEMMA WordSum ==
  ASSUME NEW x \in Int
  PROVE  x % Word \in 0 .. Word - 1
BY NetflowAssumption

LEMMA InitExport ==
  ASSUME Init
  PROVE  ExportInv
<1>1. Word \in Nat \ {0} /\ 0 \in 0 .. Word - 1 /\ SEC \in Int
  BY NetflowAssumption
<1>2. Shape
  BY <1>1 DEF Init, Shape, Exporters, Histories, NoExporter, NoCall
<1>3. Fresh /\ Counters
  BY DEF Init, Fresh, Counters, NoExporter, NoCall
<1>4. DatagramsFit /\ SequencesCount /\ TemplatesFirst
  BY DEF Init, DatagramsFit, SequencesCount, TemplatesFirst, NoExporter, NoDatagram, NF_MAX_PACKET
<1> QED
  BY <1>2, <1>3, <1>4 DEF ExportInv

\* What the counters do after a datagram keeps them in step with the history.
LEMMA SendDatagramKeeps ==
  ASSUME ExportInv,
         NEW d, NEW ok \in BOOLEAN, NEW t \in Int, SendDatagram(d, ok, t),
         d.k4 \in Int, d.k6 \in Int, d.tmpl \subseteq {4, 6},
         exp.version \in {5, 9, 10},
         exp.version = 5 => d.k6 = 0 /\ d.tmpl = {},
         exp.version = 9 => /\ d.tmpl # {} => 4 \in d.tmpl
                            /\ d.tmpl = {} => exp.last # 0,
         exp.version = 10 => /\ d.tmpl # {} => d.tmpl = {4, 6}
                             /\ d.tmpl = {} => exp.last # 0,
         d.high <= (IF exp.version = 5 THEN NFV5_HEADER_LEN + NFV5_MAX_RECORDS * NFV5_RECORD_LEN
                    ELSE NF_MAX_PACKET)
  PROVE  ExportInv'
<1> USE DEF ExportInv
<1>1. /\ exp \in Exporters /\ hist \in Histories /\ Word \in Nat \ {0}
      /\ exp.since \in Int /\ exp.last \in Int
      /\ hist.known \subseteq {4, 6} /\ hist.lost \in BOOLEAN
      /\ exp.seq \in 0 .. Word - 1 /\ exp.pktseq \in 0 .. Word - 1
      /\ hist.records \in 0 .. Word - 1 /\ hist.dgrams \in 0 .. Word - 1
      /\ call.secs \in Int /\ now_sec(t) \in Int
  <2>1. exp \in Exporters /\ hist \in Histories /\ call.secs \in Int
    BY DEF Shape
  <2>2. Word \in Nat \ {0} /\ now_sec(t) \in Int
    BY NetflowAssumption DEF now_sec
  <2>3. /\ exp.since \in Int /\ exp.last \in Int
        /\ exp.seq \in 0 .. Word - 1 /\ exp.pktseq \in 0 .. Word - 1
    BY <2>1 DEF Exporters
  <2>4. /\ hist.known \subseteq {4, 6} /\ hist.lost \in BOOLEAN
        /\ hist.records \in 0 .. Word - 1 /\ hist.dgrams \in 0 .. Word - 1
    BY <2>1 DEF Histories
  <2> QED
    BY <2>1, <2>2, <2>3, <2>4
<1>2. /\ (exp.seq + d.k4) % Word \in 0 .. Word - 1
      /\ (exp.pktseq + 1) % Word \in 0 .. Word - 1
      /\ (hist.records + d.k4 + d.k6) % Word \in 0 .. Word - 1
      /\ (hist.dgrams + 1) % Word \in 0 .. Word - 1
  <2>1. /\ exp.seq + d.k4 \in Int /\ exp.pktseq + 1 \in Int
        /\ hist.records + d.k4 + d.k6 \in Int /\ hist.dgrams + 1 \in Int
    BY <1>1
  <2> QED
    BY <2>1, WordSum
<1>3. exp' \in Exporters /\ exp'.version = exp.version
  <2>1. CASE exp.version = 5
    BY <1>1, <1>2, <2>1 DEF SendDatagram, After_v5, Exporters
  <2>2. CASE exp.version = 9
    <3> DEFINE p == IF ok THEN (exp.pktseq + 1) % Word ELSE exp.pktseq
               n == (IF d.tmpl # {} THEN 0 ELSE exp.since) + (IF ok THEN 1 ELSE 0)
               l == IF d.tmpl # {} THEN call.secs ELSE exp.last
    <3>1. p \in 0 .. Word - 1 /\ n \in Int /\ l \in Int
      BY <1>1, <1>2
    <3>2. exp' = [exp EXCEPT !.pktseq = p, !.since = n, !.last = l]
      BY <2>2 DEF SendDatagram, After_v9
    <3> HIDE DEF p, n, l
    <3> QED
      BY <1>1, <3>1, <3>2, Zenon DEF Exporters
  <2>3. CASE exp.version = 10
    <3> DEFINE n == IF d.tmpl # {} THEN 0 ELSE exp.since + 1
               l == IF d.tmpl # {} THEN now_sec(t) ELSE exp.last
    <3>1. n \in Int /\ l \in Int
      BY <1>1
    <3>2. exp' = IF ok THEN [exp EXCEPT !.since = n, !.last = l] ELSE exp
      BY <2>3 DEF SendDatagram, After_ipfix
    <3> HIDE DEF n, l
    <3> QED
      BY <1>1, <3>1, <3>2, Zenon DEF Exporters
  <2> QED
    BY <2>1, <2>2, <2>3
<1>4. /\ hist' \in Histories
      /\ ok => /\ hist'.records = (hist.records + d.k4 + d.k6) % Word
               /\ hist'.dgrams = (hist.dgrams + 1) % Word
               /\ hist'.known = hist.known \cup d.tmpl
               /\ hist'.lost = hist.lost
      /\ ~ok => /\ hist'.records = hist.records /\ hist'.dgrams = hist.dgrams
                /\ hist'.known = hist.known
                /\ hist'.lost = (hist.lost \/ d.tmpl # {})
  BY <1>1, <1>2, Zenon DEF SendDatagram, Histories
<1>5. Shape'
  BY <1>3, <1>4 DEF SendDatagram, Advance, Shape
<1>6. Fresh'
  BY <1>3 DEF Fresh
<1>7. /\ out'.ok = ok /\ out'.k4 = d.k4 /\ out'.k6 = d.k6 /\ out'.high = d.high
      /\ out'.seq = IF exp.version = 9 THEN exp.pktseq ELSE exp.seq
  BY DEF SendDatagram
<1>8. DatagramsFit'
  BY <1>3, <1>7 DEF DatagramsFit, NFV5_HEADER_LEN, NFV5_MAX_RECORDS, NFV5_RECORD_LEN, NF_MAX_PACKET
<1>9. CASE exp.version = 5
  <2>1. exp.seq = hist.records /\ exp'.seq = IF ok THEN (exp.seq + d.k4) % Word ELSE exp.seq
    BY <1>1, <1>9 DEF SendDatagram, After_v5, Exporters, Counters
  <2>2. hist'.records = exp'.seq
    BY <1>1, <1>4, <1>9, <2>1
  <2>3. (out'.seq + (IF out'.ok THEN out'.k4 ELSE 0)) % Word = hist'.records
    BY <1>1, <1>7, <1>9, <2>1, <2>2, WordRemainder
  <2>4. Counters'
    BY <1>3, <1>9, <2>2 DEF Counters
  <2>5. SequencesCount' /\ TemplatesFirst'
    BY <1>3, <1>9, <2>3 DEF SequencesCount, TemplatesFirst
  <2> QED
    BY <1>5, <1>6, <1>8, <2>4, <2>5
<1>10. CASE exp.version = 9
  <2>1. /\ exp.pktseq = hist.dgrams
        /\ exp'.pktseq = IF ok THEN (exp.pktseq + 1) % Word ELSE exp.pktseq
        /\ exp'.last = IF d.tmpl # {} THEN call.secs ELSE exp.last
    <3>1. exp' = After_v9(d, ok)
      BY <1>10 DEF SendDatagram
    <3>2. exp.pktseq = hist.dgrams
      BY <1>10 DEF Counters
    <3> QED
      BY <1>1, <3>1, <3>2 DEF After_v9, Exporters
  <2>2. hist'.dgrams = exp'.pktseq
    BY <1>4, <2>1
  <2>3. (out'.seq + (IF out'.ok THEN 1 ELSE 0)) % Word = hist'.dgrams
    BY <1>1, <1>7, <1>10, <2>1, <2>2, WordRemainder
  <2>4. 4 \in hist'.known \/ hist'.lost
    BY <1>4, <1>10, Zenon DEF Counters
  <2>5. Counters'
    BY <1>3, <1>10, <2>2, <2>4 DEF Counters
  <2>6. SequencesCount' /\ TemplatesFirst'
    BY <1>3, <1>10, <2>3, <2>4 DEF SequencesCount, TemplatesFirst
  <2> QED
    BY <1>5, <1>6, <1>8, <2>5, <2>6
<1>11. CASE exp.version = 10
  <2>1. exp'.last = IF ok /\ d.tmpl # {} THEN now_sec(t) ELSE exp.last
    BY <1>1, <1>11 DEF SendDatagram, After_ipfix, Exporters
  <2>2. ok => hist'.known = {4, 6}
    BY <1>1, <1>4, <1>11 DEF Counters
  <2>3. exp'.last # 0 => hist'.known = {4, 6}
    BY <1>4, <1>11, <2>1, <2>2 DEF Counters
  <2>4. Counters'
    BY <1>3, <1>11, <2>3 DEF Counters
  <2>5. SequencesCount' /\ TemplatesFirst'
    BY <1>3, <1>7, <1>11, <2>2 DEF SequencesCount, TemplatesFirst
  <2> QED
    BY <1>5, <1>6, <1>8, <2>4, <2>5
<1> QED
  BY <1>9, <1>10, <1>11

\* The flows of a family are finitely many places of the array.
LEMMA FlowsFinite ==
  ASSUME NEW b \in DOMAIN Batches, NEW af
  PROVE  /\ Indices(b, af, Upto(b)) \subseteq Nat
         /\ IsFiniteSet(Indices(b, af, Upto(b)))
         /\ Cardinality(Indices(b, af, Upto(b))) \in Nat
<1>1. Smaller(Len(Batches[b]), Upto(b)) \in Int
  <2>1. Len(Batches[b]) \in Nat /\ IPFIX_MAX_FLOWS \in Nat
    BY NetflowAssumption
  <2> QED
    BY <2>1 DEF Smaller, Upto
<1> DEFINE n == Smaller(Len(Batches[b]), Upto(b))
<1> HIDE DEF n
<1>2. IsFiniteSet(1 .. n) /\ 1 .. n \subseteq Nat
  BY <1>1, FS_Interval DEF n
<1>3. Indices(b, af, Upto(b)) \in SUBSET (1 .. n)
  BY Zenon DEF Indices, n
<1>4. IsFiniteSet(Indices(b, af, Upto(b)))
  BY <1>2, <1>3, FS_Subset, Zenon
<1> QED
  BY <1>2, <1>3, <1>4, FS_CardinalityType

\* Every step keeps the invariant.
LEMMA StepExport ==
  ASSUME ExportInv, [Next]_vars
  PROVE  ExportInv'
<1> USE DEF ExportInv
<1>1. CASE Tick
  <2>1. now \in Int /\ now' = now + 1 /\ UNCHANGED <<exp, call, out, hist>>
    BY <1>1 DEF Tick, Shape
  <2>2. Shape'
    BY <2>1 DEF Shape
  <2> QED
    BY <2>1, <2>2 DEF Fresh, Counters, DatagramsFit, SequencesCount, TemplatesFirst
<1>2. CASE Return
  <2>1. exp \in Exporters /\ Word \in Nat \ {0}
    BY NetflowAssumption DEF Shape
  <2>2. exp.version # 0
    BY <1>2 DEF Return, Fresh
  <2> DEFINE n == (exp.seq + Len(Batches[call.batch])) % Word
  <2>3. n \in 0 .. Word - 1
    <3>1. call.batch \in DOMAIN Batches
      BY <1>2 DEF Return, Shape
    <3>2. Len(Batches[call.batch]) \in Nat
      BY <3>1, NetflowAssumption
    <3>3. exp.seq + Len(Batches[call.batch]) \in Int
      BY <2>1, <3>2 DEF Exporters
    <3> QED
      BY <3>3, WordSum
  <2>4. exp' = IF exp.version = 5 THEN exp ELSE [exp EXCEPT !.seq = n]
    BY <1>2 DEF Return
  <2>5. UNCHANGED <<now, out, hist>> /\ call' = [call EXCEPT !.busy = FALSE]
    BY <1>2 DEF Return
  <2> HIDE DEF n
  <2>6. exp' \in Exporters /\ exp'.version = exp.version /\ exp'.pktseq = exp.pktseq
        /\ exp'.last = exp.last /\ (exp.version = 5 => exp'.seq = exp.seq)
    BY <2>1, <2>3, <2>4 DEF Exporters
  <2>7. Shape'
    BY <2>5, <2>6 DEF Shape, NoCall
  <2>8. Fresh' /\ Counters'
    BY <2>2, <2>5, <2>6 DEF Fresh, Counters
  <2> QED
    BY <2>5, <2>6, <2>7, <2>8 DEF DatagramsFit, SequencesCount, TemplatesFirst
<1>3. CASE ps_nf_exporter_destroy
  BY <1>3, Zenon
     DEF ps_nf_exporter_destroy, Shape, Exporters, Fresh, Counters, DatagramsFit, SequencesCount,
              TemplatesFirst
<1>4. ASSUME NEW v \in Versions, ps_nf_exporter_create(v)
      PROVE  ExportInv'
  <2> DEFINE s == now_sec(now)
  <2>1. v \in {5, 9, 10} /\ s \in Int /\ 0 \in 0 .. Word - 1
    BY NetflowAssumption DEF Shape, now_sec
  <2>2. exp' = [open |-> TRUE, version |-> v, seq |-> 0, pktseq |-> 0, since |-> 0, last |-> 0, boot |-> s]
        /\ exp.version = 0 /\ UNCHANGED <<now, call, out, hist>>
    BY <1>4, Zenon DEF ps_nf_exporter_create, NoExporter
  <2> HIDE DEF s
  <2>3. /\ exp' \in Exporters
        /\ exp'.version = v /\ exp'.seq = 0 /\ exp'.pktseq = 0 /\ exp'.last = 0
    BY <2>1, <2>2 DEF Exporters
  <2>4. Shape' /\ Fresh' /\ Counters'
    BY <2>1, <2>2, <2>3 DEF Shape, Fresh, Counters
  <2>5. out = NoDatagram
    BY <2>2 DEF Fresh
  <2>6. DatagramsFit' /\ TemplatesFirst'
    BY <2>2, <2>5 DEF NoDatagram, DatagramsFit, TemplatesFirst, NFV5_HEADER_LEN, NFV5_MAX_RECORDS,
                      NFV5_RECORD_LEN, NF_MAX_PACKET
  <2>7. SequencesCount'
    BY <2>1, <2>2, <2>5, WordRemainder DEF NoDatagram, SequencesCount, Fresh
  <2> QED
    BY <2>4, <2>6, <2>7
<1>5. ASSUME NEW t \in Soon, NEW b \in DOMAIN Batches, ps_nf_exporter_send(b, t)
      PROVE  ExportInv'
  <2> DEFINE n4 == Cardinality(Indices(b, 4, Upto(b)))
             n6 == IF exp.version = 5 THEN 0 ELSE Cardinality(Indices(b, 6, Upto(b)))
             u == IF exp.version = 9 THEN sys_uptime_ms(now) ELSE 0
             s == IF exp.version = 9 THEN now_sec(t) ELSE 0
  <2>1. call' = [NoCall EXCEPT !.busy = TRUE, !.batch = b, !.n4 = n4, !.n6 = n6, !.uptime = u, !.secs = s]
        /\ now' = t /\ exp.version # 0 /\ hist' = [hist EXCEPT !.calls = @ + 1] /\ UNCHANGED <<exp, out>>
    BY <1>5 DEF ps_nf_exporter_send, Counters, Fresh
  <2>2. n4 \in Int /\ n6 \in Int /\ s \in Int /\ t \in Int
    <3>1. n4 \in Int /\ n6 \in Int
      BY FlowsFinite
    <3>2. t \in Int
      BY DEF Soon, Shape
    <3> QED
      BY <3>1, <3>2, NetflowAssumption DEF now_sec
  <2> HIDE DEF n4, n6, u, s
  <2>3. /\ call'.n4 \in Int /\ call'.n6 \in Int /\ call'.secs \in Int
        /\ call'.sent4 = 0 /\ call'.sent6 = 0
        /\ call'.batch = b /\ DOMAIN call' = DOMAIN NoCall
    BY <2>1, <2>2 DEF NoCall
  <2>4. /\ hist' \in Histories
        /\ hist'.records = hist.records /\ hist'.dgrams = hist.dgrams
        /\ hist'.known = hist.known /\ hist'.lost = hist.lost
    BY <2>1 DEF Shape, Histories
  <2>5. Shape' /\ Fresh' /\ Counters'
    BY <2>1, <2>2, <2>3, <2>4 DEF Shape, Fresh, Counters
  <2> QED
    BY <2>1, <2>4, <2>5 DEF DatagramsFit, SequencesCount, TemplatesFirst
<1>6. ASSUME NEW t \in Soon, NEW ok \in BOOLEAN, Step_v5(ok, t)
      PROVE  ExportInv'
  <2>1. exp.version = 5 /\ SendDatagram(export_v5, ok, t) /\ t \in Int
    BY <1>6 DEF Step_v5, Soon, Shape
  <2>2. export_v5.k4 \in Int /\ export_v5.k6 = 0 /\ export_v5.tmpl = {}
        /\ export_v5.high <= NFV5_HEADER_LEN + NFV5_MAX_RECORDS * NFV5_RECORD_LEN
    BY V5Fits
  <2> QED
    BY <2>1, <2>2, SendDatagramKeeps
<1>7. ASSUME NEW t \in Soon, NEW ok \in BOOLEAN, Step_v9(ok, t)
      PROVE  ExportInv'
  <2>1. exp.version = 9 /\ SendDatagram(export_v9, ok, t) /\ t \in Int
    BY <1>7 DEF Step_v9, Soon, Shape
  <2>2. ~need_template(exp, now) => exp.last # 0
    BY DEF need_template
  <2> QED
    BY <2>1, <2>2, V9Fits, SendDatagramKeeps
<1>8. ASSUME NEW t \in Soon, NEW ok \in BOOLEAN, Step_ipfix(ok, t)
      PROVE  ExportInv'
  <2>1. exp.version = 10 /\ SendDatagram(export_ipfix, ok, t) /\ t \in Int
    BY <1>8 DEF Step_ipfix, Soon, Shape
  <2>2. ~need_template(exp, now) => exp.last # 0
    BY DEF need_template
  <2> QED
    BY <2>1, <2>2, IpfixFits, SendDatagramKeeps
<1>9. CASE UNCHANGED vars
  BY <1>9, Zenon
     DEF vars, Shape, Fresh, Counters, DatagramsFit, SequencesCount, TemplatesFirst
<1> QED
  BY <1>1, <1>2, <1>3, <1>4, <1>5, <1>6, <1>7, <1>8, <1>9 DEF Next

\* The invariant holds throughout.
LEMMA ExportInvariant == Spec => []ExportInv
<1>1. Init => ExportInv
  BY InitExport
<1>2. ExportInv /\ [Next]_vars => ExportInv'
  BY StepExport
<1> QED
  BY <1>1, <1>2, PTL DEF Spec

\* Whatever arrays the exporter is given, no datagram outgrows its buffer
\* (export_v5, export_v9, export_ipfix).
THEOREM ExportFits == Spec => []DatagramsFit
<1>1. ExportInv => DatagramsFit
  BY DEF ExportInv
<1> QED
  BY <1>1, ExportInvariant, PTL

\* Whichever datagrams are refused, the sequences of v5 and v9 headers count
\* what was sent (flow_sequence, v9_pkt_sequence).
THEOREM ExportCounts == Spec => []SequencesCount
<1>1. ExportInv => SequencesCount
  BY DEF ExportInv
<1> QED
  BY <1>1, ExportInvariant, PTL

\* Whichever datagrams are refused, IPFIX records follow their templates
\* (need_template, export_ipfix).
THEOREM ExportTemplates == Spec => []TemplatesFirst
<1>1. ExportInv => TemplatesFirst
  BY DEF ExportInv
<1> QED
  BY <1>1, ExportInvariant, PTL
-----------------------------------------------------------------------------
\* The flows of a family that the call in progress carries.
FlowsOf(af) == Indices(call.batch, af, Upto(call.batch))

\* How far a call has got: it told the first flows of each family, as many as
\* it counted, and its two clocks are at most a second apart.
Running ==
  /\ call.batch \in DOMAIN Batches
  /\ call.n4 = Cardinality(FlowsOf(4))
  /\ call.n6 = IF exp.version = 5 THEN 0 ELSE Cardinality(FlowsOf(6))
  /\ call.sent4 \in 0 .. call.n4 /\ call.sent6 \in 0 .. call.n6
  /\ call.told = First(FlowsOf(4), call.sent4) \cup First(FlowsOf(6), call.sent6)
  /\ call.count = call.sent4 + call.sent6
  /\ ~call.busy /\ ~call.failed => call.sent4 = call.n4 /\ call.sent6 = call.n6
  /\ exp.version = 9 => \E e \in {0, 1} : call.uptime = ((call.secs - e - exp.boot) * SEC) % Word

Clocks ==
  /\ now \in SEC .. MaxTime
  /\ exp.version \in Versions \cup {0}
  /\ exp.since \in 0 .. TEMPLATE_RESEND_PKTS /\ exp.last \in Nat /\ exp.boot \in Nat
  /\ call.secs \in Nat

ReadInv ==
  /\ Clocks
  /\ call = NoCall \/ (exp.version # 0 /\ Running)
  /\ TimesRecovered

\* What a datagram changes in the call.
LEMMA AdvanceFields ==
  ASSUME Shape, NEW d, NEW ok, NEW t, SendDatagram(d, ok, t)
  PROVE  /\ call'.batch = call.batch /\ call'.n4 = call.n4 /\ call'.n6 = call.n6
         /\ call'.uptime = call.uptime /\ call'.secs = call.secs
         /\ call'.sent4 = call.sent4 + d.k4 /\ call'.sent6 = call.sent6 + d.k6
         /\ call'.told = call.told \cup Ids(d) /\ call'.count = call.count + d.k4 + d.k6
         /\ call'.busy \/ call'.failed
<1>1. DOMAIN call = DOMAIN NoCall /\ call.busy
  BY DEF Shape, SendDatagram
<1>2. \/ call' = Advance(d)
      \/ call' = [Advance(d) EXCEPT !.busy = FALSE, !.failed = TRUE]
  BY DEF SendDatagram
<1> DEFINE ids == Ids(d)
<1> HIDE DEF ids
<1>3. /\ Advance(d).batch = call.batch /\ Advance(d).n4 = call.n4 /\ Advance(d).n6 = call.n6
      /\ Advance(d).uptime = call.uptime /\ Advance(d).secs = call.secs
      /\ Advance(d).sent4 = call.sent4 + d.k4 /\ Advance(d).sent6 = call.sent6 + d.k6
      /\ Advance(d).told = call.told \cup ids /\ Advance(d).count = call.count + d.k4 + d.k6
      /\ Advance(d).busy = call.busy
      /\ DOMAIN Advance(d) = DOMAIN NoCall
  BY <1>1, Zenon DEF Advance, NoCall, ids
<1> QED
  BY <1>1, <1>2, <1>3, Zenon DEF NoCall, ids

\* What a datagram changes in the exporter: its version and its birth stay.
LEMMA ExporterFields ==
  ASSUME Shape, Clocks, NEW d, NEW ok \in BOOLEAN, NEW t \in Soon, SendDatagram(d, ok, t),
         exp.version \in {5, 9, 10},
         exp.version # 5 /\ d.tmpl = {} => ~(exp.since >= TEMPLATE_RESEND_PKTS)
  PROVE  /\ exp'.version = exp.version /\ exp'.boot = exp.boot
         /\ exp'.since \in 0 .. TEMPLATE_RESEND_PKTS /\ exp'.last \in Nat
<1>1. exp \in Exporters /\ TEMPLATE_RESEND_PKTS \in Nat \ {0} /\ call.secs \in Nat
      /\ exp.since \in 0 .. TEMPLATE_RESEND_PKTS /\ exp.last \in Nat
  BY NetflowAssumption DEF Shape, Clocks
<1>2. now_sec(t) \in Nat
  <2>1. t \in Nat /\ SEC \in Nat \ {0}
    BY NetflowAssumption DEF Soon, Clocks
  <2> QED
    BY <2>1 DEF now_sec
<1>3. CASE exp.version = 5
  <2>1. exp' = After_v5(d, ok)
    BY <1>3 DEF SendDatagram
  <2> QED
    BY <1>1, <2>1 DEF After_v5, Exporters
<1>4. CASE exp.version = 9
  <2> DEFINE n == (IF d.tmpl # {} THEN 0 ELSE exp.since) + (IF ok THEN 1 ELSE 0)
             l == IF d.tmpl # {} THEN call.secs ELSE exp.last
             p == IF ok THEN (exp.pktseq + 1) % Word ELSE exp.pktseq
  <2>1. exp' = [exp EXCEPT !.pktseq = p, !.since = n, !.last = l]
    BY <1>4 DEF SendDatagram, After_v9
  <2>2. n \in 0 .. TEMPLATE_RESEND_PKTS /\ l \in Nat
    BY <1>1, <1>4
  <2> HIDE DEF n, l, p
  <2> QED
    BY <1>1, <2>1, <2>2 DEF Exporters
<1>5. CASE exp.version = 10
  <2> DEFINE n == IF d.tmpl # {} THEN 0 ELSE exp.since + 1
             l == IF d.tmpl # {} THEN now_sec(t) ELSE exp.last
  <2>1. exp' = IF ok THEN [exp EXCEPT !.since = n, !.last = l] ELSE exp
    BY <1>5 DEF SendDatagram, After_ipfix
  <2>2. n \in 0 .. TEMPLATE_RESEND_PKTS /\ l \in Nat
    BY <1>1, <1>2, <1>5
  <2> HIDE DEF n, l
  <2> QED
    BY <1>1, <2>1, <2>2 DEF Exporters
<1> QED
  BY <1>3, <1>4, <1>5

\* The two clocks of a datagram are at most a second apart, in v5 from one
\* round of the loop and in v9 from the start of the call.
LEMMA HeaderClocks ==
  ASSUME Shape, Clocks, Running, NEW d, NEW ok, NEW t \in Soon, SendDatagram(d, ok, t),
         exp.version \in {5, 9}
  PROVE  out'.secs \in Int /\ \E e \in {0, 1} : out'.uptime = ((out'.secs - e - exp.boot) * SEC) % Word
<1>1. CASE exp.version = 9
  <2>1. out'.secs = call.secs /\ out'.uptime = call.uptime
    BY <1>1 DEF SendDatagram
  <2> QED
    BY <1>1, <2>1 DEF Running, Clocks
<1>2. CASE exp.version = 5
  <2>1. out'.secs = now_sec(t) /\ out'.uptime = ((now_sec(now) - exp.boot) * SEC) % Word
    BY <1>2 DEF SendDatagram, sys_uptime_ms
  <2>2. SEC \in Nat \ {0} /\ now \in Nat /\ t \in {now, now + 1}
    BY NetflowAssumption DEF Clocks, Soon
  <2>3. PICK e \in {0, 1} : now \div SEC = (t \div SEC) - e
    BY <2>2, NextSecond, Zenon
  <2>4. now_sec(t) \in Int /\ now_sec(now) = now_sec(t) - e
    BY <2>2, <2>3 DEF now_sec
  <2> QED
    BY <2>1, <2>4
<1> QED
  BY <1>1, <1>2

\* A sequence has its members where its domain says.
LEMMA Member ==
  ASSUME NEW X, NEW q \in Seq(X), NEW i \in 1 .. Len(q)
  PROVE  q[i] \in X
OBVIOUS

\* A collector recovers the time of every record of a datagram.
LEMMA DatagramTimes ==
  ASSUME Shape, Clocks, Running, NEW d, NEW ok, NEW t \in Soon, SendDatagram(d, ok, t),
         exp.version \in {5, 9}, exp'.boot = exp.boot
  PROVE  TimesRecovered'
<1>1. PICK e \in {0, 1} : out'.uptime = ((out'.secs - e - exp.boot) * SEC) % Word
  BY HeaderClocks
<1>2. /\ out'.secs \in Int /\ exp.boot \in Int
      /\ SEC \in Nat \ {0} /\ Word \in Nat \ {0}
  BY HeaderClocks, NetflowAssumption DEF Clocks
<1>3. ASSUME NEW p \in out'.times, now_sec(p[1]) >= exp.boot
      PROVE  (out'.secs * SEC - out'.uptime + p[2] - p[1]) % Word \in {0, SEC % Word}
  <2>1. PICK i \in Ids(d) :
          p = <<Batches[call.batch][i].start, flow_ts_to_uptime(Batches[call.batch][i].start)>>
    BY DEF SendDatagram
  <2>2. Batches[call.batch][i].start \in Nat
    <3>1. call.batch \in DOMAIN Batches /\ Batches[call.batch] \in Seq([af : {4, 6}, start : Nat, last : Nat])
      BY NetflowAssumption DEF Running
    <3>2. i \in 1 .. Smaller(Len(Batches[call.batch]), Upto(call.batch))
      BY Zenon DEF Ids, Following, Indices
    <3>3. i \in 1 .. Len(Batches[call.batch])
      <4>1. Len(Batches[call.batch]) \in Nat /\ IPFIX_MAX_FLOWS \in Nat
        BY <3>1, NetflowAssumption
      <4> QED
        BY <3>2, <4>1 DEF Smaller, Upto
    <3>4. Batches[call.batch][i] \in [af : {4, 6}, start : Nat, last : Nat]
      BY <3>1, <3>3, Member, Zenon
    <3> QED
      BY <3>4
  <2> DEFINE s == Batches[call.batch][i].start
  <2> HIDE DEF s
  <2>3. p[1] = s /\ p[2] = flow_ts_to_uptime(s) /\ s \in Nat
    BY <2>1, <2>2 DEF s
  <2>4. s \div SEC \in Int /\ s \div SEC >= exp.boot
    BY <1>2, <1>3, <2>3 DEF now_sec
  <2>5. p[2] = ((s \div SEC - exp.boot) * SEC + (s % SEC)) % Word
    BY <1>2, <2>3, <2>4 DEF flow_ts_to_uptime, now_sec
  <2> DEFINE u == out'.uptime
             v == p[2]
             c == out'.secs
             b == exp.boot
  <2>6. /\ u = ((c - e - b) * SEC) % Word /\ v = ((s \div SEC - b) * SEC + (s % SEC)) % Word
        /\ c \in Int /\ b \in Int
    BY <1>1, <1>2, <2>5
  <2> HIDE DEF u, v, c, b
  <2>7. (c * SEC - u + v - s) % Word \in {0, SEC % Word}
    <3>1. /\ u = ((c - e - b) * SEC) % Word
          /\ v = ((s \div SEC - b) * SEC + (s % SEC)) % Word
          /\ Word \in Nat \ {0} /\ SEC \in Nat \ {0}
          /\ c \in Int /\ b \in Int /\ s \in Nat
      BY <1>2, <2>3, <2>6, Zenon
    <3> QED
      BY <3>1, TimeBack, Zenon
  <2> QED
    BY <2>3, <2>7 DEF u, v, c
<1> QED
  BY <1>3 DEF TimesRecovered, now_sec

\* A datagram tells the flows that come next, each family for itself.
LEMMA DatagramTells ==
  ASSUME Shape, Running, NEW d, NEW ok, NEW t, SendDatagram(d, ok, t),
         exp'.version = exp.version, exp'.boot = exp.boot,
         LeftV4 >= 0 => d.k4 \in 0 .. LeftV4,
         LeftV6 >= 0 => d.k6 \in 0 .. LeftV6
  PROVE  Running'
<1>1. /\ call.batch \in DOMAIN Batches
      /\ call.n4 \in Nat /\ call.n6 \in Nat
      /\ call.sent4 \in 0 .. call.n4 /\ call.sent6 \in 0 .. call.n6
      /\ call.count = call.sent4 + call.sent6
  BY FlowsFinite DEF Running, FlowsOf
<1>2. d.k4 \in 0 .. call.n4 - call.sent4 /\ d.k6 \in 0 .. call.n6 - call.sent6
  BY <1>1 DEF LeftV4, LeftV6
<1>3. /\ call'.batch = call.batch /\ call'.n4 = call.n4 /\ call'.n6 = call.n6
      /\ call'.uptime = call.uptime /\ call'.secs = call.secs
      /\ call'.sent4 = call.sent4 + d.k4 /\ call'.sent6 = call.sent6 + d.k6
      /\ call'.told = call.told \cup Ids(d) /\ call'.count = call.count + d.k4 + d.k6
      /\ call'.busy \/ call'.failed
  BY AdvanceFields
<1> DEFINE S4 == FlowsOf(4)
           S6 == FlowsOf(6)
<1>4. /\ S4 \subseteq Nat /\ IsFiniteSet(S4) /\ S6 \subseteq Nat /\ IsFiniteSet(S6)
      /\ FlowsOf(4)' = S4 /\ FlowsOf(6)' = S6
  <2>1. Upto(call.batch)' = Upto(call.batch)
    BY <1>3 DEF Upto
  <2>2. FlowsOf(4)' = S4 /\ FlowsOf(6)' = S6
    BY <1>3, <2>1 DEF FlowsOf, Indices
  <2> QED
    BY <1>1, <2>2, FlowsFinite DEF FlowsOf
<1>5. Ids(d) = Later(S4, call.sent4, d.k4) \cup Later(S6, call.sent6, d.k6)
  BY Zenon DEF Ids, Following, FlowsOf, Rank, Later
<1>6. call.told = First(S4, call.sent4) \cup First(S6, call.sent6)
  BY DEF Running
<1>0. /\ call.sent4 \in Nat /\ call.sent6 \in Nat /\ d.k4 \in Nat /\ d.k6 \in Nat
  BY <1>1, <1>2
<1> HIDE DEF S4, S6
<1>7. First(S4, call.sent4 + d.k4) = First(S4, call.sent4) \cup Later(S4, call.sent4, d.k4)
  BY <1>0, <1>4, FirstAdds, Zenon
<1>8. First(S6, call.sent6 + d.k6) = First(S6, call.sent6) \cup Later(S6, call.sent6, d.k6)
  BY <1>0, <1>4, FirstAdds, Zenon
<1>9. call'.told = First(S4, call'.sent4) \cup First(S6, call'.sent6)
  BY <1>3, <1>5, <1>6, <1>7, <1>8, Zenon
<1>10. /\ call'.n4 = Cardinality(S4)
       /\ call'.n6 = IF exp'.version = 5 THEN 0 ELSE Cardinality(S6)
  BY <1>3, Zenon DEF Running, S4, S6
<1>11. /\ call'.sent4 \in 0 .. call'.n4 /\ call'.sent6 \in 0 .. call'.n6
       /\ call'.count = call'.sent4 + call'.sent6
  <2>1. /\ call.sent4 + d.k4 \in 0 .. call.n4
        /\ call.sent6 + d.k6 \in 0 .. call.n6
    BY <1>1, <1>2
  <2>2. call.count + d.k4 + d.k6 = (call.sent4 + d.k4) + (call.sent6 + d.k6)
    BY <1>0, <1>1
  <2> QED
    BY <1>3, <2>1, <2>2, Zenon
<1>12. exp'.version = 9 => \E e \in {0, 1} : call'.uptime = ((call'.secs - e - exp'.boot) * SEC) % Word
  BY <1>3, Zenon DEF Running
<1> QED
  BY <1>1, <1>3, <1>4, <1>9, <1>10, <1>11, <1>12, Zenon DEF Running

\* A datagram keeps what a collector can rely on.
LEMMA SendDatagramReads ==
  ASSUME Shape, Fresh, ReadInv, NEW d, NEW ok \in BOOLEAN, NEW t \in Soon, SendDatagram(d, ok, t),
         exp.version \in {5, 9, 10},
         exp.version # 5 /\ d.tmpl = {} => ~(exp.since >= TEMPLATE_RESEND_PKTS),
         LeftV4 >= 0 => d.k4 \in 0 .. LeftV4,
         LeftV6 >= 0 => d.k6 \in 0 .. LeftV6
  PROVE  ReadInv'
<1>1. Clocks /\ Running
  <2>1. call # NoCall
    BY DEF SendDatagram, NoCall
  <2> QED
    BY <2>1 DEF ReadInv
<1>2. /\ exp'.version = exp.version /\ exp'.boot = exp.boot
      /\ exp'.since \in 0 .. TEMPLATE_RESEND_PKTS /\ exp'.last \in Nat
  BY <1>1, ExporterFields
<1>3. call'.secs = call.secs
  BY AdvanceFields
<1>4. now' \in SEC .. MaxTime
  <2>1. now' = t /\ t \in {now, now + 1} /\ t <= MaxTime
    BY DEF SendDatagram, Soon
  <2>2. SEC \in Nat /\ MaxTime \in Nat
    BY NetflowAssumption
  <2> QED
    BY <1>1, <2>1, <2>2 DEF Clocks
<1>5. Clocks'
  BY <1>1, <1>2, <1>3, <1>4 DEF Clocks
<1>6. Running'
  BY <1>1, <1>2, DatagramTells
<1>7. TimesRecovered'
  <2>1. CASE exp.version = 10
    BY <1>2, <2>1 DEF TimesRecovered
  <2>2. CASE exp.version \in {5, 9}
    BY <1>1, <1>2, <2>2, DatagramTimes
  <2> QED
    BY <2>1, <2>2
<1> QED
  BY <1>2, <1>5, <1>6, <1>7 DEF ReadInv

\* A datagram of any version is what its invariant asks for.
LEMMA StepReads ==
  ASSUME Shape, Fresh, ReadInv, NEW t \in Soon, NEW ok \in BOOLEAN,
         Step_v5(ok, t) \/ Step_v9(ok, t) \/ Step_ipfix(ok, t)
  PROVE  ReadInv'
<1>1. LeftV4 \in Int /\ LeftV6 \in Int
  BY DEF Shape, LeftV4, LeftV6
<1>2. CASE Step_v5(ok, t)
  <2>1. exp.version = 5 /\ SendDatagram(export_v5, ok, t)
    BY <1>2 DEF Step_v5
  <2>2. /\ LeftV4 >= 0 => export_v5.k4 \in 0 .. LeftV4
        /\ LeftV6 >= 0 => export_v5.k6 \in 0 .. LeftV6
    <3>1. export_v5.k6 = 0 /\ (LeftV4 >= 0 => export_v5.k4 \in 0 .. LeftV4)
      BY V5Fits
    <3> QED
      BY <1>1, <3>1
  <2> QED
    BY <2>1, <2>2, SendDatagramReads
<1>3. CASE Step_v9(ok, t)
  <2> DEFINE d == export_v9
  <2>1. exp.version = 9 /\ SendDatagram(d, ok, t)
    BY <1>3 DEF Step_v9
  <2>2. /\ d.k4 \in Nat /\ d.k6 \in Nat
        /\ need_template(exp, now) => 4 \in d.tmpl
        /\ LeftV4 >= 0 => d.k4 <= LeftV4
        /\ LeftV6 >= 0 => d.k6 <= LeftV6
    BY V9Fits
  <2> HIDE DEF d
  <2>3. /\ LeftV4 >= 0 => d.k4 \in 0 .. LeftV4
        /\ LeftV6 >= 0 => d.k6 \in 0 .. LeftV6
    BY <1>1, <2>2
  <2>4. d.tmpl = {} => ~(exp.since >= TEMPLATE_RESEND_PKTS)
    BY <2>2 DEF need_template
  <2> QED
    BY <2>1, <2>3, <2>4, SendDatagramReads, Zenon
<1>4. CASE Step_ipfix(ok, t)
  <2> DEFINE d == export_ipfix
  <2>1. exp.version = 10 /\ SendDatagram(d, ok, t)
    BY <1>4 DEF Step_ipfix
  <2>2. /\ d.k4 \in Nat /\ d.k6 \in Nat
        /\ d.tmpl = IF need_template(exp, now) THEN {4, 6} ELSE {}
        /\ LeftV4 >= 0 => d.k4 <= LeftV4
        /\ LeftV6 >= 0 => d.k6 <= LeftV6
    BY IpfixFits
  <2> HIDE DEF d
  <2>3. /\ LeftV4 >= 0 => d.k4 \in 0 .. LeftV4
        /\ LeftV6 >= 0 => d.k6 \in 0 .. LeftV6
    BY <1>1, <2>2
  <2>4. d.tmpl = {} => ~(exp.since >= TEMPLATE_RESEND_PKTS)
    BY <2>2 DEF need_template
  <2> QED
    BY <2>1, <2>3, <2>4, SendDatagramReads, Zenon
<1> QED
  BY <1>2, <1>3, <1>4

\* A new call starts with nothing told, and reads its clocks for v9.
LEMMA SendReads ==
  ASSUME Shape, Fresh, ReadInv, NEW t \in Soon, NEW b \in DOMAIN Batches, ps_nf_exporter_send(b, t)
  PROVE  ReadInv'
<1>1. Clocks /\ SEC \in Nat \ {0} /\ MaxTime \in Nat
  BY NetflowAssumption DEF ReadInv
<1>2. /\ now' = t /\ t \in {now, now + 1} /\ t <= MaxTime /\ now \in Nat /\ t \in Nat
      /\ UNCHANGED <<exp, out>>
  BY <1>1 DEF ps_nf_exporter_send, Soon, Clocks
<1> DEFINE S4 == Indices(b, 4, Upto(b))
           S6 == Indices(b, 6, Upto(b))
           n6 == IF exp.version = 5 THEN 0 ELSE Cardinality(S6)
           u == IF exp.version = 9 THEN sys_uptime_ms(now) ELSE 0
           s == IF exp.version = 9 THEN now_sec(t) ELSE 0
<1>3. call' = [NoCall EXCEPT !.busy = TRUE, !.batch = b, !.n4 = Cardinality(S4), !.n6 = n6,
                             !.uptime = u, !.secs = s]
  BY DEF ps_nf_exporter_send
<1>4. exp.version # 0
  BY DEF ps_nf_exporter_send, Fresh
<1>5. /\ S4 \subseteq Nat /\ IsFiniteSet(S4) /\ Cardinality(S4) \in Nat
      /\ S6 \subseteq Nat /\ IsFiniteSet(S6) /\ n6 \in Nat
  BY FlowsFinite
<1>6. s \in Nat
  BY <1>1, <1>2 DEF now_sec
<1>7. exp.version = 9 => \E e \in {0, 1} : u = ((s - e - exp.boot) * SEC) % Word
  <2> HAVE exp.version = 9
  <2>1. PICK e \in {0, 1} : now \div SEC = (t \div SEC) - e
    BY <1>1, <1>2, NextSecond, Zenon
  <2> QED
    BY <2>1 DEF sys_uptime_ms, now_sec
<1>8. n6 = IF exp.version = 5 THEN 0 ELSE Cardinality(S6)
  OBVIOUS
<1> HIDE DEF n6, u, s
<1>9. /\ call'.batch = b /\ call'.n4 = Cardinality(S4) /\ call'.n6 = n6 /\ call'.uptime = u /\ call'.secs = s
      /\ call'.sent4 = 0 /\ call'.sent6 = 0 /\ call'.told = {} /\ call'.count = 0 /\ call'.busy
  BY <1>3 DEF NoCall
<1>10. FlowsOf(4)' = S4 /\ FlowsOf(6)' = S6
  BY <1>2, <1>9 DEF FlowsOf, Indices, Upto
<1> HIDE DEF S4, S6
<1>11. First(S4, 0) = {} /\ First(S6, 0) = {}
  BY <1>5, FirstEnds, Zenon
<1>12. Running'
  <2>1. call'.sent4 \in 0 .. call'.n4 /\ call'.sent6 \in 0 .. call'.n6 /\ call'.count = call'.sent4 + call'.sent6
    BY <1>5, <1>9
  <2>2. call'.told = First(FlowsOf(4)', call'.sent4) \cup First(FlowsOf(6)', call'.sent6)
    BY <1>9, <1>10, <1>11
  <2>3. call'.n4 = Cardinality(FlowsOf(4)') /\ call'.n6 = IF exp'.version = 5 THEN 0 ELSE Cardinality(FlowsOf(6)')
    BY <1>2, <1>8, <1>9, <1>10, Zenon
  <2>4. exp'.version = 9 => \E e \in {0, 1} : call'.uptime = ((call'.secs - e - exp'.boot) * SEC) % Word
    BY <1>2, <1>7, <1>9
  <2> QED
    BY <1>9, <2>1, <2>2, <2>3, <2>4, Zenon DEF Running
<1>13. Clocks'
  BY <1>1, <1>2, <1>6, <1>9 DEF Clocks
<1>14. TimesRecovered'
  BY <1>2 DEF ReadInv, TimesRecovered, now_sec
<1> QED
  BY <1>2, <1>4, <1>12, <1>13, <1>14 DEF ReadInv

\* The invariant looks at the call only through its fields.
LEMMA ReadStutter ==
  ASSUME ReadInv, call' = call, out' = out, exp'.version = exp.version, exp'.boot = exp.boot,
         exp'.since = exp.since, exp'.last = exp.last, now' \in SEC .. MaxTime
  PROVE  ReadInv'
<1>1. Clocks'
  BY DEF ReadInv, Clocks
<1>2. TimesRecovered'
  BY DEF ReadInv, TimesRecovered, now_sec
<1>3. Upto(call.batch)' = Upto(call.batch)
  BY DEF Upto
<1>4. FlowsOf(4)' = FlowsOf(4) /\ FlowsOf(6)' = FlowsOf(6)
  BY <1>3 DEF FlowsOf, Indices
<1>5. Running => Running'
  BY <1>4, Zenon DEF Running
<1> QED
  BY <1>1, <1>2, <1>5 DEF ReadInv

\* A call that returns has told everything.
LEMMA ReturnReads ==
  ASSUME Shape, ReadInv, Return
  PROVE  ReadInv'
<1>1. exp \in Exporters /\ DOMAIN call = DOMAIN NoCall /\ call.busy /\ LeftV4 + LeftV6 = 0
      /\ UNCHANGED <<now, out>>
  BY DEF Shape, Return
<1>2. Clocks /\ Running /\ exp.version # 0
  <2>1. call # NoCall
    BY <1>1 DEF NoCall
  <2> QED
    BY <2>1 DEF ReadInv
<1> DEFINE n == (exp.seq + Len(Batches[call.batch])) % Word
<1>3. exp' = exp \/ exp' = [exp EXCEPT !.seq = n]
  BY DEF Return
<1> HIDE DEF n
<1>4. exp'.version = exp.version /\ exp'.boot = exp.boot /\ exp'.since = exp.since /\ exp'.last = exp.last
  BY <1>1, <1>3 DEF Exporters
<1>5. /\ call'.batch = call.batch /\ call'.n4 = call.n4 /\ call'.n6 = call.n6
      /\ call'.uptime = call.uptime /\ call'.secs = call.secs
      /\ call'.sent4 = call.sent4 /\ call'.sent6 = call.sent6
      /\ call'.told = call.told /\ call'.count = call.count
  <2>1. call' = [call EXCEPT !.busy = FALSE]
    BY DEF Return
  <2> QED
    BY <1>1, <2>1 DEF NoCall
<1>6. call.sent4 = call.n4 /\ call.sent6 = call.n6
  <2>1. /\ call.n4 \in Nat /\ call.n6 \in Nat
        /\ call.sent4 \in 0 .. call.n4 /\ call.sent6 \in 0 .. call.n6
    <3>1. Cardinality(FlowsOf(4)) \in Nat /\ Cardinality(FlowsOf(6)) \in Nat
      BY <1>2, FlowsFinite, Zenon DEF Running, FlowsOf
    <3> QED
      BY <1>2, <3>1 DEF Running
  <2>2. (call.n4 - call.sent4) + (call.n6 - call.sent6) = 0
    BY <1>1, Zenon DEF LeftV4, LeftV6
  <2> QED
    BY <2>1, <2>2
<1>7. Upto(call.batch)' = Upto(call.batch)
  BY <1>4, <1>5 DEF Upto
<1>8. FlowsOf(4)' = FlowsOf(4) /\ FlowsOf(6)' = FlowsOf(6)
  BY <1>5, <1>7 DEF FlowsOf, Indices
<1>9. Running'
  BY <1>2, <1>4, <1>5, <1>6, <1>8, Zenon DEF Running
<1>10. Clocks'
  BY <1>1, <1>2, <1>4, <1>5 DEF Clocks
<1>11. TimesRecovered'
  BY <1>1, <1>4 DEF ReadInv, TimesRecovered, now_sec
<1> QED
  BY <1>2, <1>4, <1>9, <1>10, <1>11 DEF ReadInv

\* The steps outside a call.
LEMMA QuietReads ==
  ASSUME Shape, Fresh, ReadInv,
         \/ Tick \/ ps_nf_exporter_destroy \/ UNCHANGED vars
         \/ \E v \in Versions : ps_nf_exporter_create(v)
  PROVE  ReadInv'
<1>1. exp \in Exporters /\ SEC \in Nat \ {0} /\ MaxTime \in Nat /\ Clocks
  BY NetflowAssumption DEF Shape, ReadInv
<1>2. CASE Tick
  <2>1. now' \in SEC .. MaxTime /\ UNCHANGED <<exp, call, out>>
    BY <1>1, <1>2 DEF Tick, Clocks
  <2> QED
    BY <2>1, ReadStutter
<1>3. CASE ps_nf_exporter_destroy
  <2>1. exp' = [exp EXCEPT !.open = FALSE] /\ UNCHANGED <<now, call, out>>
    BY <1>3 DEF ps_nf_exporter_destroy
  <2>2. exp'.version = exp.version /\ exp'.boot = exp.boot /\ exp'.since = exp.since /\ exp'.last = exp.last
    BY <1>1, <2>1 DEF Exporters
  <2>3. now' \in SEC .. MaxTime
    BY <1>1, <2>1 DEF Clocks
  <2> QED
    BY <2>1, <2>2, <2>3, ReadStutter
<1>4. CASE UNCHANGED vars
  <2>1. now' \in SEC .. MaxTime /\ UNCHANGED <<exp, call, out>>
    BY <1>1, <1>4 DEF vars, Clocks
  <2> QED
    BY <2>1, ReadStutter
<1>5. ASSUME NEW v \in Versions, ps_nf_exporter_create(v)
      PROVE  ReadInv'
  <2>1. /\ exp.version = 0 /\ UNCHANGED <<now, call, out>>
        /\ exp' = [NoExporter EXCEPT !.open = TRUE, !.version = v, !.boot = now_sec(now)]
    BY <1>5, Zenon DEF ps_nf_exporter_create
  <2>2. now_sec(now) \in Nat
    BY <1>1 DEF now_sec, Clocks
  <2> DEFINE s == now_sec(now)
  <2> HIDE DEF s
  <2>3. exp'.version = v /\ exp'.boot = s /\ exp'.since = 0 /\ exp'.last = 0 /\ s \in Nat
    BY <2>1, <2>2 DEF NoExporter, s
  <2>4. call = NoCall /\ out = NoDatagram
    BY <2>1 DEF ReadInv, Fresh
  <2>5. Clocks'
    <3>1. TEMPLATE_RESEND_PKTS \in Nat
      BY NetflowAssumption
    <3> QED
      BY <1>1, <2>1, <2>3, <3>1 DEF Clocks
  <2>6. TimesRecovered'
    BY <2>1, <2>4 DEF TimesRecovered, NoDatagram
  <2> QED
    BY <2>1, <2>4, <2>5, <2>6 DEF ReadInv
<1> QED
  BY <1>2, <1>3, <1>4, <1>5

\* The flows told so far are as many as were counted, and a call that went
\* through told all it could carry.
LEMMA RunningTells ==
  ASSUME Clocks, Running, exp.version # 0
  PROVE  EachFlowOnce
<1> DEFINE S4 == FlowsOf(4)
           S6 == FlowsOf(6)
           F4 == First(S4, call.sent4)
           F6 == First(S6, call.sent6)
<1>1. /\ S4 \subseteq Nat /\ IsFiniteSet(S4) /\ Cardinality(S4) \in Nat
      /\ S6 \subseteq Nat /\ IsFiniteSet(S6) /\ Cardinality(S6) \in Nat
  BY FlowsFinite, Zenon DEF Running, FlowsOf
<1>2. S4 \cap S6 = {}
  BY DEF FlowsOf, Indices
<1>3. /\ call.n4 = Cardinality(S4) /\ call.n6 = IF exp.version = 5 THEN 0 ELSE Cardinality(S6)
      /\ call.sent4 \in 0 .. call.n4 /\ call.sent6 \in 0 .. call.n6
      /\ call.told = F4 \cup F6
      /\ call.count = call.sent4 + call.sent6
  BY Zenon DEF Running
<1>4. /\ call.sent4 \in Nat /\ call.sent4 <= Cardinality(S4)
      /\ call.sent6 \in Nat /\ call.sent6 <= Cardinality(S6)
  BY <1>1, <1>3
<1>5. Cardinality(F4) = call.sent4 /\ Cardinality(F6) = call.sent6
  <2> HIDE DEF S4, S6
  <2> QED
    BY <1>1, <1>4, FirstCount, Zenon
<1>6. F4 \in SUBSET S4 /\ F6 \in SUBSET S6
  BY Zenon DEF First
<1>7. IsFiniteSet(F4) /\ IsFiniteSet(F6) /\ F4 \cap F6 = {}
  <2> HIDE DEF S4, S6, F4, F6
  <2> QED
    BY <1>1, <1>2, <1>6, FS_Subset, Zenon
<1>8. call.count = Cardinality(call.told)
  <2> HIDE DEF F4, F6
  <2>1. Cardinality(F4 \cup F6) = Cardinality(F4) + Cardinality(F6) - Cardinality(F4 \cap F6)
    BY <1>7, FS_Union
  <2>2. Cardinality(F4 \cap F6) = 0
    BY <1>7, FS_EmptySet
  <2> QED
    BY <1>3, <1>4, <1>5, <2>1, <2>2
<1>9. ASSUME ~call.busy, ~call.failed
      PROVE  call.told = Eligible
  <2> DEFINE b == call.batch
             n == Smaller(Len(Batches[b]), Upto(b))
  <2>1. call.sent4 = call.n4 /\ call.sent6 = call.n6
    BY <1>9 DEF Running
  <2>2. call.told = S4 \cup (IF exp.version = 5 THEN {} ELSE S6)
    <3> HIDE DEF S4, S6
    <3>1. First(S4, Cardinality(S4)) = S4 /\ First(S6, Cardinality(S6)) = S6 /\ First(S6, 0) = {}
      BY <1>1, FirstEnds, Zenon
    <3> QED
      BY <1>3, <2>1, <3>1
  <2>3. /\ S4 = {i \in 1 .. n : Batches[b][i].af = 4}
        /\ S6 = {i \in 1 .. n : Batches[b][i].af = 6}
    BY Zenon DEF FlowsOf, Indices
  <2>4. /\ b \in DOMAIN Batches /\ Batches[b] \in Seq([af : {4, 6}, start : Nat, last : Nat])
        /\ Len(Batches[b]) \in Nat /\ DOMAIN Batches[b] = 1 .. Len(Batches[b]) /\ IPFIX_MAX_FLOWS \in Nat
    BY NetflowAssumption DEF Running
  <2>5. \A i \in DOMAIN Batches[b] : Batches[b][i].af \in {4, 6}
    <3> SUFFICES ASSUME NEW i \in DOMAIN Batches[b]
                 PROVE  Batches[b][i].af \in {4, 6}
      OBVIOUS
    <3>1. Batches[b][i] \in [af : {4, 6}, start : Nat, last : Nat]
      BY <2>4, Member, Zenon
    <3> QED
      BY <3>1
  <2>6. \A i : i \in 1 .. n <=> i \in DOMAIN Batches[b] /\ (exp.version = 10 => i <= IPFIX_MAX_FLOWS)
    BY <2>4 DEF Smaller, Upto
  <2> HIDE DEF S4, S6, n, b
  <2>7. S4 \cup (IF exp.version = 5 THEN {} ELSE S6)
          = {i \in DOMAIN Batches[b] : /\ exp.version = 5 => Batches[b][i].af = 4
                                       /\ exp.version = 10 => i <= IPFIX_MAX_FLOWS}
    <3>1. CASE exp.version = 5
      BY <2>3, <2>6, <3>1
    <3>2. CASE exp.version # 5
      BY <2>3, <2>5, <2>6, <3>2
    <3> QED
      BY <3>1, <3>2
  <2> QED
    BY <2>2, <2>7 DEF Eligible, b
<1> QED
  BY <1>8, <1>9 DEF EachFlowOnce

\* What the invariant says to a collector.
LEMMA ReadInvReads ==
  ASSUME Shape, ReadInv
  PROVE  CollectorReads
<1>1. EachFlowOnce
  <2>1. CASE call = NoCall
    BY <2>1, FS_EmptySet DEF NoCall, EachFlowOnce
  <2>2. CASE call # NoCall
    BY <2>2, RunningTells DEF ReadInv
  <2> QED
    BY <2>1, <2>2
<1>2. TypeOK
  <2>1. call.sent4 \in 0 .. call.n4 /\ call.sent6 \in 0 .. call.n6
    BY DEF ReadInv, Running, NoCall
  <2>2. {exp.seq, exp.pktseq} \subseteq 0 .. Word - 1
    BY DEF Shape, Exporters
  <2> QED
    BY <2>1, <2>2 DEF ReadInv, Clocks, TypeOK
<1> QED
  BY <1>1, <1>2, RecordsLaidOut DEF CollectorReads, ReadInv

\* Whatever a call is given and whichever datagrams are refused, a collector
\* reads back every flow once, laid out as announced, with its times
\* (export_v5, export_v9, export_ipfix).
THEOREM ExportReadBack == Spec => []CollectorReads
<1>1. Init => ReadInv
  <2> SUFFICES ASSUME Init
               PROVE  ReadInv
    OBVIOUS
  <2>1. SEC \in SEC .. MaxTime /\ TEMPLATE_RESEND_PKTS \in Nat
    BY NetflowAssumption
  <2>3. /\ exp.version = 0 /\ exp.since = 0 /\ exp.last = 0 /\ exp.boot = 0
        /\ call = NoCall /\ call.secs = 0 /\ now = SEC
    BY Zenon DEF Init, NoExporter, NoCall
  <2>2. Clocks
    BY <2>1, <2>3 DEF Clocks
  <2>4. TimesRecovered
    <3>1. exp.version \notin {5, 9}
      BY <2>3
    <3> QED
      BY <3>1, Zenon DEF TimesRecovered
  <2> QED
    BY <2>2, <2>3, <2>4, Zenon DEF ReadInv
<1>2. ExportInv /\ ReadInv /\ [Next]_vars => ReadInv'
  <2> SUFFICES ASSUME Shape, Fresh, ReadInv, [Next]_vars
               PROVE  ReadInv'
    BY DEF ExportInv
  <2>1. \/ Return
        \/ \E t \in Soon, b \in DOMAIN Batches : ps_nf_exporter_send(b, t)
        \/ \E t \in Soon, ok \in BOOLEAN : Step_v5(ok, t) \/ Step_v9(ok, t) \/ Step_ipfix(ok, t)
        \/ Tick \/ ps_nf_exporter_destroy \/ UNCHANGED vars
        \/ \E v \in Versions : ps_nf_exporter_create(v)
    BY Zenon DEF Next
  <2>2. CASE Return
    BY <2>2, ReturnReads
  <2>3. CASE \E t \in Soon, b \in DOMAIN Batches : ps_nf_exporter_send(b, t)
    BY <2>3, SendReads
  <2>4. CASE \E t \in Soon, ok \in BOOLEAN : Step_v5(ok, t) \/ Step_v9(ok, t) \/ Step_ipfix(ok, t)
    BY <2>4, StepReads
  <2>5. CASE \/ Tick \/ ps_nf_exporter_destroy \/ UNCHANGED vars
             \/ \E v \in Versions : ps_nf_exporter_create(v)
    BY <2>5, QuietReads
  <2> QED
    BY <2>1, <2>2, <2>3, <2>4, <2>5
<1>3. ExportInv /\ ReadInv => CollectorReads
  BY ReadInvReads DEF ExportInv
<1> QED
  BY <1>1, <1>2, <1>3, ExportInvariant, PTL DEF Spec
=============================================================================

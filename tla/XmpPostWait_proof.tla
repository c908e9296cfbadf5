-------------------------- MODULE XmpPostWait_proof --------------------------
(***************************************************************************)
(* The table of posts never overflows, and the tables and the messages     *)
(* implement the directives of XmpPostWaitSpec, for every number and       *)
(* arrangement of nodes, every program of posts and waits, and both        *)
(* transports.                                                             *)
(***************************************************************************)
EXTENDS XmpPostWait, FiniteSetTheorems, TLAPS

USE ZenonT(40)

(***************************************************************************)
(* Subscripts and ranks: node_num of _XMP_post_<n> is the inverse of the   *)
(* subscripts of _XMP_init_nodes_info.                                     *)
(***************************************************************************)

\* A set of numbers has a least one, if it has any.
LEMMA Least ==
  ASSUME NEW S \in SUBSET Nat, S # {} PROVE \E m \in S : \A k \in S : m <= k
<1>1. PICK R : R = OpToRel(<, Nat)
  OBVIOUS
<1>2. PICK m \in S : \A k \in S : <<k, m>> \notin R
  BY <1>1, NatLessThanWellFounded, WFMin
<1>3. \A k \in S : k < m => <<k, m>> \in R
  BY <1>1 DEF OpToRel
<1>4. \A k \in S : ~(k < m) /\ k \in Nat /\ m \in Nat
  BY <1>2, <1>3
<1>5. \A k \in S : m <= k
  BY <1>4, SMTT(20)
<1> QED
  BY <1>5

\* Induction up to l, with a set for the predicate.
LEMMA Induct ==
  ASSUME NEW l \in Nat, NEW P \in SUBSET (0 .. l), 0 \in P,
         \A i \in 0 .. l-1 : i \in P => i + 1 \in P
  PROVE  \A i \in 0 .. l : i \in P
<1> SUFFICES ASSUME (0 .. l) \ P # {} PROVE FALSE
  OBVIOUS
<1>a. PICK S : S = (0 .. l) \ P
  OBVIOUS
<1>b. S \in SUBSET Nat /\ S # {}
  BY <1>a, SMTT(20)
<1>1. PICK m \in (0 .. l) \ P : \A k \in (0 .. l) \ P : m <= k
  BY <1>a, <1>b, Least
<1>2. m - 1 \in 0 .. l-1 /\ m - 1 \notin (0 .. l) \ P
  BY <1>1, SMTT(20)
<1> QED
  BY <1>1, <1>2, SMTT(20)

\* The remainder is the only one below the divisor.
LEMMA Remainder ==
  ASSUME NEW k \in Nat, k > 0, NEW p \in Nat, NEW c \in 0 .. k-1
  PROVE  (p * k + c) % k = c
<1>1. PICK x \in Nat : x = p * k + c
  BY SMTT(20)
<1>2. PICK d \in Int, b \in 0 .. k-1 : d = x \div k /\ b = x % k /\ x = k * d + b
  BY <1>1, SMTT(20)
<1>3. k * (p - d) = b - c
  BY <1>1, <1>2, SMTT(20)
<1>4. PICK e \in Int : e = p - d
  BY SMTT(20)
<1>5. k * e = b - c
  BY <1>3, <1>4
<1>6. ~(e >= 1)
  BY <1>2, <1>5, SMTT(20)
<1>7. ~(e <= -1)
  BY <1>2, <1>5, SMTT(20)
<1>8. e = 0
  BY <1>4, <1>6, <1>7, SMTT(20)
<1> QED
  BY <1>1, <1>2, <1>5, <1>8, SMTT(20)

\* Division.
LEMMA Divide ==
  ASSUME NEW r \in Nat, NEW m \in Nat \ {0}
  PROVE  /\ r \div m \in Nat /\ r % m \in 0 .. m-1
         /\ r = m * (r \div m) + (r % m)
  BY SMTT(20)

\* The remainder by a product, from those by its factors.
LEMMA Digit ==
  ASSUME NEW r \in Nat, NEW m \in Nat \ {0}, NEW s \in Nat \ {0}
  PROVE  (r % m) + ((r \div m) % s) * m = r % (m * s)
<1>1. PICK q \in Nat, a \in 0 .. m-1 : q = r \div m /\ a = r % m /\ r = m * q + a
  BY Divide
<1>2. PICK p \in Nat, b \in 0 .. s-1 : b = q % s /\ q = s * p + b
  BY Divide
<1>3. r = p * (m * s) + (b * m + a)
  <2>1. m * (s * p + b) = m * (s * p) + m * b
    BY SMTT(20)
  <2>2. m * (s * p) = p * (m * s) /\ m * b = b * m
    BY SMTT(20)
  <2>3. m * q = p * (m * s) + b * m
    BY <1>2, <2>1, <2>2
  <2>4. p * (m * s) \in Nat /\ b * m \in Nat
    BY SMTT(20)
  <2> QED
    BY <1>1, <2>3, <2>4, SMTT(20)
<1>4. m * s \in Nat /\ m * s > 0
  BY SMTT(20)
<1>5. b * m + a \in 0 .. m * s - 1
  <2>1. PICK t \in Nat : s = b + 1 + t
    BY SMTT(20)
  <2>2. m * s = b * m + m + t * m
    BY <2>1, SMTT(20)
  <2>3. t * m \in Nat /\ b * m \in Nat
    BY SMTT(20)
  <2> QED
    BY <2>2, <2>3, <1>4, SMTT(20)
<1>6. (p * (m * s) + (b * m + a)) % (m * s) = b * m + a
  BY <1>4, <1>5, Remainder
<1> QED
  BY <1>1, <1>2, <1>3, <1>6, SMTT(20)

\* The products of the sizes exist, whatever the number of dimensions.
LEMMA Products ==
  \E g \in [1 .. Len(Shape) + 1 -> Nat \ {0}] :
    g = [i \in 1 .. Len(Shape) + 1 |-> IF i = 1 THEN 1 ELSE g[i-1] * Shape[i-1]]
<1>1. PICK l \in Nat : l = Len(Shape) /\ \A i \in 1 .. l : Shape[i] \in Nat \ {0}
  BY ShapeAssumption, SMTT(20)
<1> DEFINE Good(n, g) == g[1] = 1 /\ \A i \in 1 .. n : g[i+1] = g[i] * Shape[i]
           P == {n \in 0 .. l : \E g \in [1 .. n+1 -> Nat \ {0}] : Good(n, g)}
<1>2. 0 \in P
  <2>1. PICK g : g = [i \in 1 .. 0+1 |-> 1]
    OBVIOUS
  <2>2. g \in [1 .. 0+1 -> Nat \ {0}]
    BY <2>1, SMTT(20)
  <2>3. Good(0, g)
    BY <2>1, SMTT(20)
  <2> HIDE DEF Good
  <2> QED
    BY <2>2, <2>3, SMTT(20)
<1>3. ASSUME NEW n \in 0 .. l-1, n \in P PROVE n + 1 \in P
  <2>1. PICK g \in [1 .. n+1 -> Nat \ {0}] : Good(n, g)
    BY <1>3
  <2>2. PICK h : h = [i \in 1 .. (n+1)+1 |-> IF i <= n+1 THEN g[i] ELSE g[n+1] * Shape[n+1]]
    OBVIOUS
  <2>3. g[n+1] \in Nat \ {0} /\ Shape[n+1] \in Nat \ {0}
    BY <1>1, <2>1, SMTT(20)
  <2>4. g[n+1] * Shape[n+1] \in Nat \ {0}
    BY <2>3, SMTT(20)
  <2>5. h \in [1 .. (n+1)+1 -> Nat \ {0}]
    BY <2>1, <2>2, <2>4, SMTT(20)
  <2>6. Good(n+1, h)
    BY <2>1, <2>2, SMTT(20)
  <2>7. n + 1 \in 0 .. l
    BY SMTT(20)
  <2> HIDE DEF Good
  <2> QED
    BY <2>5, <2>6, <2>7
<1>4. l \in P
  <2> HIDE DEF P
  <2>1. P \in SUBSET (0 .. l)
    BY DEF P
  <2>2. \A i \in 0 .. l-1 : i \in P => i + 1 \in P
    BY <1>3
  <2> QED
    BY <1>2, <2>1, <2>2, Induct, SMTT(20)
<1>5. PICK g \in [1 .. l+1 -> Nat \ {0}] : Good(l, g)
  BY <1>4
<1>6. \A i \in 1 .. l+1 : g[i] = IF i = 1 THEN 1 ELSE g[i-1] * Shape[i-1]
  <2> TAKE i \in 1 .. l+1
  <2>1. i # 1 => i - 1 \in 1 .. l /\ (i - 1) + 1 = i
    BY SMTT(20)
  <2> QED
    BY <1>5, <2>1
<1>7. g = [i \in 1 .. l+1 |-> IF i = 1 THEN 1 ELSE g[i-1] * Shape[i-1]]
  BY <1>6
<1> QED
  BY <1>1, <1>7

\* What n->info[i].multiplier is: the product of the sizes before dimension i.
LEMMA Multipliers ==
  /\ multiplier[1] = 1
  /\ \A i \in Dims : multiplier[i+1] = multiplier[i] * Shape[i]
  /\ \A i \in 1 .. Len(Shape) + 1 : multiplier[i] \in Nat \ {0}
<1>1. PICK l \in Nat : l = Len(Shape) /\ \A i \in 1 .. l : Shape[i] \in Nat \ {0}
  BY ShapeAssumption, SMTT(20)
<1>2. multiplier = [i \in 1 .. l+1 |-> IF i = 1 THEN 1 ELSE multiplier[i-1] * Shape[i-1]]
  BY <1>1, Products DEF multiplier
<1>3. multiplier[1] = 1
  BY <1>2, SMTT(20)
<1>4. ASSUME NEW i \in 1 .. l PROVE multiplier[i+1] = multiplier[i] * Shape[i]
  <2>1. i + 1 \in 1 .. l+1 /\ i + 1 # 1 /\ (i + 1) - 1 = i
    BY SMTT(20)
  <2> QED
    BY <1>2, <2>1
<1>5. \A i \in 0 .. l : multiplier[i+1] \in Nat \ {0}
  <2> DEFINE P == {i \in 0 .. l : multiplier[i+1] \in Nat \ {0}}
  <2>1. 0 \in P
    BY <1>3, SMTT(20)
  <2>2. ASSUME NEW i \in 0 .. l-1, i \in P PROVE i + 1 \in P
    <3>1. multiplier[i+1] \in Nat \ {0} /\ Shape[i+1] \in Nat \ {0} /\ i + 1 \in 1 .. l
      BY <1>1, <2>2, SMTT(20)
    <3>2. multiplier[(i+1)+1] = multiplier[i+1] * Shape[i+1]
      BY <1>4, <3>1
    <3>3. multiplier[i+1] * Shape[i+1] \in Nat \ {0}
      BY <3>1, SMTT(20)
    <3> QED
      BY <3>1, <3>2, <3>3, SMTT(20)
  <2>3. P \in SUBSET (0 .. l)
    OBVIOUS
  <2> HIDE DEF P
  <2>4. \A i \in 0 .. l : i \in P
    BY <2>1, <2>2, <2>3, Induct
  <2> QED
    BY <2>4 DEF P
<1>6. \A i \in 1 .. l+1 : multiplier[i] \in Nat \ {0}
  <2> TAKE i \in 1 .. l+1
  <2>1. i - 1 \in 0 .. l /\ (i - 1) + 1 = i
    BY SMTT(20)
  <2> QED
    BY <1>5, <2>1
<1> QED
  BY <1>1, <1>3, <1>4, <1>6 DEF Dims

\* The subscripts of a node name it: node_num of _XMP_post_<n> and _XMP_wait_<n>,
\* computed from n->info[i].rank, is the rank that _XMP_init_nodes_info had divided up.
THEOREM NodesNamed == \A rank \in Nodes : NodeNum(Ref[rank]) = rank
<1> SUFFICES ASSUME NEW r \in Nodes PROVE NodeNum(Ref[r]) = r
  OBVIOUS
<1>1. PICK l \in Nat : l = Len(Shape) /\ \A i \in 1 .. l : Shape[i] \in Nat \ {0}
  BY ShapeAssumption, SMTT(20)
<1>2. r \in Nat /\ r < N
  BY NAssumption, SMTT(20) DEF Nodes
<1>3. ASSUME NEW i \in 1 .. l PROVE Ref[r][i] - 1 = (r \div multiplier[i]) % Shape[i]
  <2>1. multiplier[i] \in Nat \ {0} /\ Shape[i] \in Nat \ {0}
    BY <1>1, Multipliers, SMTT(20)
  <2>2. (r \div multiplier[i]) % Shape[i] \in Int
    BY <1>2, <2>1, SMTT(20)
  <2> QED
    BY <1>1, <2>2, SMTT(20) DEF Ref, Coord, Dims
<1> DEFINE Sum(f) == [i \in 0 .. l |-> IF i = 0 THEN 0 ELSE f[i-1] + (Ref[r][i] - 1) * multiplier[i]]
           g == [i \in 0 .. l |-> r % multiplier[i+1]]
<1>4. ASSUME NEW i \in 1 .. l
      PROVE  (r % multiplier[i]) + (Ref[r][i] - 1) * multiplier[i] = r % multiplier[i+1]
  <2>1. /\ multiplier[i] \in Nat \ {0} /\ Shape[i] \in Nat \ {0}
        /\ multiplier[i+1] = multiplier[i] * Shape[i]
    BY <1>1, Multipliers, SMTT(20) DEF Dims
  <2>2. (r % multiplier[i]) + ((r \div multiplier[i]) % Shape[i]) * multiplier[i]
          = r % (multiplier[i] * Shape[i])
    BY <1>2, <2>1, Digit
  <2> QED
    BY <1>3, <2>1, <2>2
<1>5. g = Sum(g)
  <2> SUFFICES ASSUME NEW i \in 0 .. l PROVE g[i] = Sum(g)[i]
    OBVIOUS
  <2>1. CASE i = 0
    BY <1>2, <2>1, Multipliers, SMTT(20)
  <2>2. CASE i # 0
    <3>1. i \in 1 .. l /\ i - 1 \in 0 .. l /\ (i - 1) + 1 = i
      BY <2>2, SMTT(20)
    <3>2. g[i-1] = r % multiplier[i] /\ g[i] = r % multiplier[i+1]
      BY <3>1
    <3> QED
      BY <1>4, <2>2, <3>1, <3>2
  <2> QED
    BY <2>1, <2>2
<1>6. PICK f : f = Sum(f) /\ NodeNum(Ref[r]) = f[l]
  <2> HIDE DEF g
  <2>1. PICK f : f = CHOOSE h : h = Sum(h)
    OBVIOUS
  <2>2. f = Sum(f)
    BY <1>5, <2>1
  <2>3. NodeNum(Ref[r]) = f[l]
    BY <1>1, <2>1 DEF NodeNum
  <2> QED
    BY <2>2, <2>3
<1>7. \A i \in 0 .. l : f[i] = r % multiplier[i+1]
  <2> DEFINE P == {i \in 0 .. l : f[i] = r % multiplier[i+1]}
  <2>1. 0 \in P
    BY <1>2, <1>6, Multipliers, SMTT(20)
  <2>2. ASSUME NEW i \in 0 .. l-1, i \in P PROVE i + 1 \in P
    <3>1. i + 1 \in 1 .. l /\ (i + 1) - 1 = i /\ i + 1 \in 0 .. l /\ i + 1 # 0
      BY SMTT(20)
    <3>2. f[i+1] = f[i] + (Ref[r][i+1] - 1) * multiplier[i+1]
      BY <1>6, <3>1
    <3> QED
      BY <1>4, <2>2, <3>1, <3>2
  <2>3. P \in SUBSET (0 .. l)
    OBVIOUS
  <2> HIDE DEF P
  <2>4. \A i \in 0 .. l : i \in P
    BY <2>1, <2>2, <2>3, Induct
  <2> QED
    BY <2>4 DEF P
<1>8. l \in 0 .. l /\ multiplier[l+1] = N
  BY <1>1, ShapeAssumption, SMTT(20)
<1>9. NodeNum(Ref[r]) = r % N
  BY <1>6, <1>7, <1>8
<1> QED
  BY <1>2, <1>9, NAssumption, SMTT(20)

(***************************************************************************)
(* Tables and messages: what is found, taken out and counted.              *)
(***************************************************************************)

\* A set of numbers up to l has a greatest one, if it has any.
LEMMA Greatest ==
  ASSUME NEW l \in Nat, NEW I \in SUBSET (0 .. l), I # {} PROVE Max(I) \in I
<1>1. PICK D : D = {l - i : i \in I}
  OBVIOUS
<1>2. D \in SUBSET Nat /\ D # {}
  <2>1. \A i \in I : l - i \in Nat
    BY SMTT(20)
  <2> QED
    BY <1>1, <2>1
<1>3. PICK d \in D : \A e \in D : d <= e
  BY <1>2, Least
<1>4. PICK i \in I : d = l - i
  BY <1>1
<1>5. \A j \in I : i >= j
  <2> TAKE j \in I
  <2>1. l - j \in D /\ j \in Int /\ i \in Int
    BY <1>1, SMTT(20)
  <2>2. l - i <= l - j
    BY <1>3, <1>4, <2>1
  <2> QED
    BY <2>1, <2>2, SMTT(20)
<1>6. \E x \in I : \A y \in I : x >= y
  BY <1>5
<1> QED
  BY <1>6 DEF Max

\* A sequence without one of its elements.
LEMMA WithoutIs ==
  ASSUME NEW S, NEW q \in Seq(S), NEW i \in 1 .. Len(q)
  PROVE  /\ Without(q, i) \in Seq(S)
         /\ Len(Without(q, i)) = Len(q) - 1
         /\ DOMAIN Without(q, i) = 1 .. Len(q) - 1
         /\ \A j \in 1 .. Len(q) - 1 : Without(q, i)[j] = q[IF j < i THEN j ELSE j + 1]
<1>1. PICK n \in Nat : n = Len(q) /\ i \in 1 .. n /\ n - 1 \in Nat
  BY SMTT(20)
<1>2. PICK d : d = Without(q, i)
  OBVIOUS
<1>3. d = [j \in 1 .. n - 1 |-> q[IF j < i THEN j ELSE j + 1]]
  BY <1>1, <1>2 DEF Without
<1>4. \A j \in 1 .. n - 1 : q[IF j < i THEN j ELSE j + 1] \in S
  BY <1>1, SMTT(20)
<1>5. d \in Seq(S) /\ Len(d) = n - 1
  BY <1>1, <1>3, <1>4, SMTT(20)
<1> QED
  BY <1>1, <1>2, <1>3, <1>5

\* The places of x in a sequence are finitely many.
LEMMA CountType ==
  ASSUME NEW S, NEW q \in Seq(S), NEW x
  PROVE  Count(q, x) \in Nat /\ IsFiniteSet({i \in DOMAIN q : q[i] = x})
<1>1. DOMAIN q = 1 .. Len(q) /\ Len(q) \in Int
  BY SMTT(20)
<1>2. IsFiniteSet(1 .. Len(q))
  BY <1>1, FS_Interval, SMTT(20)
<1>3. IsFiniteSet({i \in DOMAIN q : q[i] = x})
  BY <1>1, <1>2, FS_Subset
<1> QED
  BY <1>3, FS_CardinalityType DEF Count

\* There is nothing in the empty sequence.
LEMMA CountEmpty == ASSUME NEW x PROVE Count(<< >>, x) = 0
<1>1. {i \in DOMAIN << >> : << >>[i] = x} = {}
  BY SMTT(20)
<1> QED
  BY <1>1, FS_EmptySet DEF Count

\* One more is counted when one is appended.
LEMMA CountAppend ==
  ASSUME NEW S, NEW q \in Seq(S), NEW y \in S, NEW x
  PROVE  Count(Append(q, y), x) = IF x = y THEN Count(q, x) + 1 ELSE Count(q, x)
<1>1. PICK n \in Nat : n = Len(q)
  BY SMTT(20)
<1>2. PICK r : r = Append(q, y)
  OBVIOUS
<1>3. /\ DOMAIN q = 1 .. n /\ DOMAIN r = 1 .. n+1
      /\ r[n+1] = y /\ \A i \in 1 .. n : r[i] = q[i]
  BY <1>1, <1>2, SMTT(20)
<1>4. PICK I : I = {i \in DOMAIN q : q[i] = x}
  OBVIOUS
<1>5. IsFiniteSet(I) /\ Count(q, x) = Cardinality(I)
  BY <1>4, CountType DEF Count
<1>6. CASE x = y
  <2>1. {i \in DOMAIN r : r[i] = x} = I \cup {n+1}
    BY <1>3, <1>4, <1>6, SMTT(20)
  <2>2. n + 1 \notin I
    BY <1>3, <1>4, SMTT(20)
  <2>3. Cardinality(I \cup {n+1}) = Cardinality(I) + 1
    BY <1>5, <2>2, FS_AddElement
  <2> QED
    BY <1>2, <1>5, <1>6, <2>1, <2>3 DEF Count
<1>7. CASE x # y
  <2>1. {i \in DOMAIN r : r[i] = x} = I
    BY <1>3, <1>4, <1>7, SMTT(20)
  <2> QED
    BY <1>2, <1>5, <1>7, <2>1 DEF Count
<1> QED
  BY <1>6, <1>7

\* One less is counted when one is taken out.
LEMMA CountWithout ==
  ASSUME NEW S, NEW q \in Seq(S), NEW i \in 1 .. Len(q), NEW x
  PROVE  /\ Count(Without(q, i), x) = IF x = q[i] THEN Count(q, x) - 1 ELSE Count(q, x)
         /\ x = q[i] => Count(q, x) > 0
<1>1. PICK n \in Nat : n = Len(q) /\ DOMAIN q = 1 .. n /\ i \in 1 .. n
  BY SMTT(20)
<1>2. PICK r : r = Without(q, i)
  OBVIOUS
<1>3. /\ r \in Seq(S) /\ DOMAIN r = 1 .. n-1
      /\ \A j \in 1 .. n-1 : r[j] = q[IF j < i THEN j ELSE j + 1]
  BY <1>1, <1>2, WithoutIs
<1>4. PICK I, J : I = {j \in DOMAIN q : q[j] = x} /\ J = {j \in DOMAIN r : r[j] = x}
  OBVIOUS
<1>5. /\ IsFiniteSet(I) /\ Count(q, x) = Cardinality(I) /\ Count(q, x) \in Nat
      /\ Count(r, x) = Cardinality(J) /\ Count(r, x) \in Nat
  BY <1>3, <1>4, CountType DEF Count
<1>6. PICK f : f = [j \in I \ {i} |-> IF j < i THEN j ELSE j - 1]
  OBVIOUS
<1>7. f \in Bijection(I \ {i}, J)
  <2>1. \A j \in I \ {i} : j \in 1 .. n /\ j # i /\ q[j] = x
    BY <1>1, <1>4
  <2>2. ASSUME NEW j \in I \ {i} PROVE f[j] \in J
    <3>1. j \in 1 .. n /\ j # i /\ q[j] = x
      BY <2>1
    <3>2. CASE j < i
      BY <1>1, <1>3, <1>4, <1>6, <3>1, <3>2, SMTT(20)
    <3>3. CASE ~(j < i)
      <4>1. j - 1 \in 1 .. n-1 /\ ~(j - 1 < i) /\ (j - 1) + 1 = j
        BY <1>1, <3>1, <3>3, SMTT(20)
      <4>2. r[j-1] = q[j]
        BY <1>3, <4>1
      <4> QED
        BY <1>3, <1>4, <1>6, <3>1, <3>3, <4>1, <4>2
    <3> QED
      BY <3>2, <3>3
  <2>3. f \in [I \ {i} -> J]
    BY <1>6, <2>2
  <2>4. \A j, k \in I \ {i} : f[j] = f[k] => j = k
    BY <1>1, <1>6, <2>1, SMTT(20)
  <2>5. \A k \in J : \E j \in I \ {i} : f[j] = k
    <3> TAKE k \in J
    <3>1. k \in 1 .. n-1 /\ r[k] = x
      BY <1>3, <1>4
    <3>2. CASE k < i
      <4>1. k \in I \ {i}
        BY <1>1, <1>3, <1>4, <3>1, <3>2, SMTT(20)
      <4> QED
        BY <1>6, <3>2, <4>1
    <3>3. CASE ~(k < i)
      <4>1. k + 1 \in I \ {i} /\ ~(k + 1 < i) /\ (k + 1) - 1 = k
        BY <1>1, <1>3, <1>4, <3>1, <3>3, SMTT(20)
      <4> QED
        BY <1>6, <4>1
    <3> QED
      BY <3>2, <3>3
  <2> QED
    BY <2>3, <2>4, <2>5 DEF Bijection, Injection, Surjection, IsInjective
<1>8. IsFiniteSet(I \ {i}) /\ Cardinality(I \ {i}) = IF i \in I THEN Cardinality(I) - 1 ELSE Cardinality(I)
  BY <1>5, FS_RemoveElement
<1>9. Cardinality(J) = Cardinality(I \ {i})
  BY <1>7, <1>8, FS_Bijection DEF ExistsBijection
<1>10. i \in I <=> x = q[i]
  BY <1>1, <1>4
<1> QED
  BY <1>2, <1>5, <1>8, <1>9, <1>10, SMTT(20)

(***************************************************************************)
(* The invariant.                                                          *)
(***************************************************************************)

Awaited == [node : Nodes \cup {Wild}, tag : Tags \cup {Wild}]

\* The table of a node has room, and grows when it is full because it had room for two.
TableInv ==
  /\ table \in [Nodes -> Seq(Entries)]
  /\ chan \in [Nodes -> [Nodes -> Seq(Tags)]]
  /\ max_size \in [Nodes -> Nat]
  /\ \A n \in Nodes : max_size[n] > 1 /\ Len(table[n]) <= max_size[n]

\* A node awaits something exactly while it waits.
WaitInv ==
  /\ transport \in Transports
  /\ pc \in [Nodes -> {"run", "waiting"}]
  /\ awaits \in [Nodes -> {Nothing} \cup Awaited]
  /\ \A n \in Nodes : IF pc[n] # "waiting" THEN awaits[n] = Nothing ELSE awaits[n] \in Awaited

IInv == TableInv /\ WaitInv

\* remove_request and its like find an entry of the table, and one that matches.
LEMMA FoundInTable ==
  ASSUME IInv, NEW n \in Nodes, Found(n) > 0
  PROVE  Found(n) \in 1 .. Len(table[n]) /\ Matches(awaits[n], table[n][Found(n)])
<1>1. PICK l \in Nat : l = Len(table[n]) /\ DOMAIN table[n] = 1 .. l
  BY SMTT(20) DEF IInv, TableInv
<1>2. PICK I : I = {0} \cup {i \in 1 .. l : Matches(awaits[n], table[n][i])}
  OBVIOUS
<1>3. Found(n) = IF pc[n] # "waiting" THEN 0 ELSE Max(I)
  BY <1>1, <1>2 DEF Found
<1>4. I \in SUBSET (0 .. l) /\ I # {}
  BY <1>2, SMTT(20)
<1>5. Max(I) \in I
  BY <1>4, Greatest
<1>6. Found(n) = Max(I)
  BY <1>3, SMTT(20)
<1> QED
  BY <1>1, <1>2, <1>5, <1>6, SMTT(20)

\* do_post keeps the table within its size: a full table of two entries or more grows.
LEMMA PostKeeps ==
  ASSUME TableInv, NEW n \in Nodes, NEW e \in Entries, do_post(n, e)
  PROVE  /\ table' \in [Nodes -> Seq(Entries)]
         /\ max_size' \in [Nodes -> Nat]
         /\ \A m \in Nodes : max_size'[m] > 1 /\ Len(table'[m]) <= max_size'[m]
<1>1. Append(table[n], e) \in Seq(Entries) /\ Len(Append(table[n], e)) = Len(table[n]) + 1
  BY SMTT(20) DEF TableInv
<1>2. PICK s \in Nat : s = max_size[n] /\ s > 1 /\ Len(table[n]) <= s /\ Len(table[n]) \in Nat
  BY SMTT(20) DEF TableInv
<1>3. (3 * s) \div 2 \in Nat /\ (3 * s) \div 2 > s
  BY <1>2, SMTT(20)
<1>4. table' = [table EXCEPT ![n] = Append(table[n], e)]
  BY DEF do_post
<1>5. max_size' = [max_size EXCEPT ![n] = IF Len(table[n]) = s THEN (3 * s) \div 2 ELSE s]
  BY <1>2 DEF do_post, TableInv
<1>6. \A m \in Nodes \ {n} : table'[m] = table[m] /\ max_size'[m] = max_size[m]
  BY <1>4, <1>5 DEF TableInv
<1>7. max_size'[n] > 1 /\ Len(table'[n]) <= max_size'[n]
  BY <1>1, <1>2, <1>3, <1>4, <1>5, SMTT(20) DEF TableInv
<1>8. table' \in [Nodes -> Seq(Entries)] /\ max_size' \in [Nodes -> Nat]
  BY <1>1, <1>2, <1>3, <1>4, <1>5 DEF TableInv
<1> QED
  BY <1>6, <1>7, <1>8 DEF TableInv

\* Subscripts and ranks name the same nodes.
LEMMA Named ==
  /\ \A n \in Nodes : Ref[n] \in Refs /\ RankOf[Ref[n]] = n /\ NodeNum(Ref[n]) = n
  /\ \A r \in Refs : RankOf[r] \in Nodes /\ Ref[RankOf[r]] = r /\ NodeNum(r) = RankOf[r]
<1>1. \A n \in Nodes : Ref[n] \in Refs
  BY DEF Refs
<1>2. \A r \in Refs : \E n \in Nodes : Ref[n] = r
  BY DEF Refs
<1>3. \A r \in Refs : RankOf[r] \in Nodes /\ Ref[RankOf[r]] = r
  BY <1>2 DEF RankOf
<1>4. \A r \in Refs : NodeNum(r) = RankOf[r]
  BY <1>3, NodesNamed
<1> QED
  BY <1>1, <1>3, <1>4, NodesNamed

\* A post directive names a node.
LEMMA PostNames ==
  ASSUME NEW p \in Posts, Post(p[1], p[2], p[3])
  PROVE  \E n, d \in Nodes, t \in Tags : p = <<n, Ref[d], t>> /\ PostTo(n, d, t)
<1>1. PICK n \in Nodes, r \in Refs, t \in Tags : p = <<n, r, t>>
  BY PostsAssumption, SMTT(20)
<1>2. PostTo(n, NodeNum(r), t)
  BY <1>1 DEF Post
<1>3. NodeNum(r) \in Nodes /\ r = Ref[NodeNum(r)]
  BY Named
<1> QED
  BY <1>1, <1>2, <1>3

\* A message taken off its way is an entry for the table.
LEMMA DeliverKeeps ==
  ASSUME TableInv, NEW s \in Nodes, NEW d \in Nodes, NEW i, i \in DOMAIN chan[s][d], Deliver(s, d, i)
  PROVE  chan' \in [Nodes -> [Nodes -> Seq(Tags)]] /\ chan[s][d][i] \in Tags
         /\ Entry(s, chan[s][d][i]) \in Entries
<1>1. chan[s][d] \in Seq(Tags) /\ i \in 1 .. Len(chan[s][d])
  BY SMTT(20) DEF TableInv
<1>2. Without(chan[s][d], i) \in Seq(Tags)
  BY <1>1, WithoutIs
<1>3. chan[s][d][i] \in Tags
  BY <1>1, SMTT(20)
<1> QED
  BY <1>2, <1>3 DEF Deliver, TableInv, Entry, Entries

\* The end of a wait leaves the node awaiting nothing.
LEMMA ReturnKeeps == ASSUME WaitInv, NEW n \in Nodes, Return(n), transport' = transport PROVE WaitInv'
  BY DEF Return, Goto, WaitInv

\* Every step keeps the invariant.
LEMMA NextIInv == ASSUME IInv, [Next]_vars PROVE IInv'
<1> USE DEF IInv
<1>1. ASSUME NEW p \in Posts, Post(p[1], p[2], p[3]) PROVE IInv'
  <2>1. PICK n \in Nodes, d \in Nodes, t \in Tags : PostTo(n, d, t)
    BY <1>1, PostNames
  <2>2. WaitInv'
    BY <2>1 DEF PostTo, WaitInv
  <2>3. CASE d = n
    <3>1. Entry(n, t) \in Entries
      BY DEF Entry, Entries
    <3>2. do_post(n, Entry(n, t)) /\ chan' = chan
      BY <2>1, <2>3 DEF PostTo
    <3> QED
      BY <2>2, <3>1, <3>2, PostKeeps DEF TableInv
  <2>4. CASE d # n
    <3>1. chan' = [chan EXCEPT ![n][d] = Append(@, t)] /\ table' = table /\ max_size' = max_size
      BY <2>1, <2>4 DEF PostTo
    <3>2. chan' \in [Nodes -> [Nodes -> Seq(Tags)]]
      BY <3>1, SMTT(20) DEF TableInv
    <3> QED
      BY <2>2, <3>1, <3>2 DEF TableInv
  <2> QED
    BY <2>3, <2>4
<1>2. ASSUME NEW w \in Waits, Wait(w[1], w[2], w[3]) PROVE IInv'
  <2>1. PICK n \in Nodes, r \in Refs \cup {<< >>}, t \in Tags \cup {Wild} : w = <<n, r, t>>
    BY WaitsAssumption, SMTT(20)
  <2>2. PICK e : e = Entry(IF r = << >> THEN Wild ELSE NodeNum(r), t)
    OBVIOUS
  <2>3. e \in Awaited
    BY <2>2, Named DEF Awaited, Entry
  <2>4. /\ awaits' = [awaits EXCEPT ![n] = e] /\ pc' = [pc EXCEPT ![n] = "waiting"]
        /\ UNCHANGED <<transport, table, max_size, chan>>
    BY <1>2, <2>1, <2>2 DEF Wait, Goto
  <2>5. TableInv'
    BY <2>4 DEF TableInv
  <2>6. WaitInv'
    BY <2>3, <2>4 DEF WaitInv
  <2> QED
    BY <2>5, <2>6
<1>3. ASSUME NEW n \in Nodes, RemoveFound(n) PROVE IInv'
  <2>1. /\ Found(n) > 0 /\ Return(n) /\ table' = [table EXCEPT ![n] = Without(@, Found(n))]
        /\ UNCHANGED <<transport, max_size, chan>>
    BY <1>3 DEF RemoveFound, RemoveAtIndex
  <2>2. PICK i \in 1 .. Len(table[n]) : i = Found(n)
    BY <2>1, FoundInTable
  <2>3. Without(table[n], i) \in Seq(Entries) /\ Len(Without(table[n], i)) = Len(table[n]) - 1
    BY WithoutIs, SMTT(20) DEF TableInv
  <2>4. TableInv'
    BY <2>1, <2>2, <2>3, SMTT(20) DEF TableInv
  <2> QED
    BY <2>1, <2>4, ReturnKeeps
<1>5. ASSUME NEW s \in Nodes, NEW n \in Nodes, Receive(s, n) PROVE IInv'
  <2>1. chan[s][n] \in Seq(Tags) /\ chan[s][n] # << >> /\ Deliver(s, n, 1)
    BY <1>5 DEF Receive, TableInv
  <2>2. 1 \in DOMAIN chan[s][n] /\ Head(chan[s][n]) = chan[s][n][1]
    BY <2>1, SMTT(20)
  <2>3. PICK e \in Entries : e = Entry(s, Head(chan[s][n]))
    BY <2>1, <2>2, DeliverKeeps
  <2>4. chan' \in [Nodes -> [Nodes -> Seq(Tags)]] /\ transport' = transport
    BY <1>5, <2>1, <2>2, DeliverKeeps DEF Receive
  <2>5. CASE Matches(awaits[n], e)
    <3>1. Return(n) /\ table' = table /\ max_size' = max_size
      BY <1>5, <2>3, <2>5 DEF Receive
    <3> QED
      BY <2>4, <3>1, ReturnKeeps DEF TableInv
  <2>6. CASE ~Matches(awaits[n], e)
    <3>1. do_post(n, e) /\ UNCHANGED <<pc, awaits>>
      BY <1>5, <2>3, <2>6 DEF Receive
    <3> QED
      BY <2>4, <3>1, PostKeeps DEF TableInv, WaitInv
  <2> QED
    BY <2>5, <2>6
<1>6. ASSUME NEW s \in Nodes, NEW n \in Nodes, NEW i, HandlePost(s, n, i) PROVE IInv'
  <2>1. /\ i \in DOMAIN chan[s][n] /\ Deliver(s, n, i) /\ do_post(n, Entry(s, chan[s][n][i]))
        /\ UNCHANGED <<pc, transport, awaits>>
    BY <1>6 DEF HandlePost
  <2>2. TableInv'
    BY <2>1, DeliverKeeps, PostKeeps DEF TableInv
  <2> QED
    BY <2>1, <2>2 DEF WaitInv
<1>7. CASE UNCHANGED vars
  BY <1>7 DEF vars, TableInv, WaitInv
<1> QED
  BY <1>1, <1>2, <1>3, <1>5, <1>6, <1>7 DEF Next

\* The invariant holds in every state.
LEMMA SpecIInv == Spec => []IInv
<1>1. Init => IInv
  <2> SUFFICES ASSUME Init PROVE IInv
    OBVIOUS
  <2>1. << >> \in Seq(Entries) /\ Len(<< >>) = 0 /\ << >> \in Seq(Tags)
    BY SMTT(20)
  <2> QED
    BY <2>1, InitialSizeAssumption, SMTT(20) DEF Init, IInv, TableInv, WaitInv
<1> QED
  BY <1>1, NextIInv, PTL DEF Spec

\* No post is written beyond the end of the table of do_post and add_request, whatever
\* the number of posts under way; an initial size of 1 would not do, since half of it
\* rounds to nothing.
THEOREM PostsFit == Spec => []TableFits
<1>1. IInv => TableFits
  BY DEF IInv, TableInv, TableFits
<1> QED
  BY <1>1, SpecIInv, PTL

\* Entries, messages and what a node awaits name nodes and tags of the program.
THEOREM TypeCorrect == Spec => []TypeOK
<1>1. IInv => TypeOK
  BY DEF IInv, TableInv, WaitInv, TypeOK, Awaited
<1> QED
  BY <1>1, SpecIInv, PTL

(***************************************************************************)
(* The refinement: posts in tables and under way are the pending posts.    *)
(***************************************************************************)

\* The posts from a node, with a tag, at a node, by subscripts and by ranks.
LEMMA PendIs ==
  ASSUME NEW d \in Nodes, NEW s \in Nodes, NEW t \in Tags
  PROVE  pendingBar[Ref[d]][<<Ref[s], t>>] = PendingAt(d, s, t)
<1>1. <<Ref[s], t>> \in Refs \X Tags /\ Ref[d] \in Refs
  BY Named
<1> QED
  BY <1>1, Named DEF pendingBar

\* A step that changes how many posts are pending from one node at one node.
LEMMA PendChange ==
  ASSUME NEW d0 \in Nodes, NEW s0 \in Nodes, NEW t0 \in Tags, NEW v,
         \A d, s \in Nodes, t \in Tags :
           PendingAt(d, s, t)' = IF d = d0 /\ s = s0 /\ t = t0 THEN v ELSE PendingAt(d, s, t)
  PROVE  pendingBar' = [pendingBar EXCEPT ![Ref[d0]][<<Ref[s0], t0>>] = v]
<1>1. PICK D, p0 : D = Ref[d0] /\ p0 = <<Ref[s0], t0>>
  OBVIOUS
<1>2. D \in Refs /\ p0 \in Refs \X Tags
  BY <1>1, Named
<1>3. PICK F, G : F = pendingBar /\ G = pendingBar'
  OBVIOUS
<1>4. /\ F = [d \in Refs |-> [p \in Refs \X Tags |-> PendingAt(RankOf[d], RankOf[p[1]], p[2])]]
      /\ G = [d \in Refs |-> [p \in Refs \X Tags |-> PendingAt(RankOf[d], RankOf[p[1]], p[2])']]
  BY <1>3 DEF pendingBar
<1>5. ASSUME NEW d \in Refs, NEW p \in Refs \X Tags
      PROVE  G[d][p] = IF d = D /\ p = p0 THEN v ELSE F[d][p]
  <2>1. PICK r \in Refs, t \in Tags : p = <<r, t>>
    BY SMTT(20)
  <2>2. RankOf[d] \in Nodes /\ RankOf[r] \in Nodes
    BY Named
  <2>3. (RankOf[d] = d0 <=> d = D) /\ (RankOf[r] = s0 /\ t = t0 <=> p = p0)
    BY <1>1, <2>1, Named
  <2>4. F[d][p] = PendingAt(RankOf[d], RankOf[r], t) /\ G[d][p] = PendingAt(RankOf[d], RankOf[r], t)'
    BY <1>4, <2>1
  <2> QED
    BY <2>2, <2>3, <2>4
<1>6. ASSUME NEW d \in Refs PROVE G[d] = [F EXCEPT ![D][p0] = v][d]
  <2>1. /\ F[d] = [p \in Refs \X Tags |-> F[d][p]]
        /\ G[d] = [p \in Refs \X Tags |-> G[d][p]]
    BY <1>4
  <2>2. CASE d = D
    <3>1. [F EXCEPT ![D][p0] = v][d] = [F[d] EXCEPT ![p0] = v]
      BY <1>2, <1>4, <2>2
    <3>2. [F[d] EXCEPT ![p0] = v] = [p \in Refs \X Tags |-> IF p = p0 THEN v ELSE F[d][p]]
      BY <2>1
    <3> QED
      BY <1>5, <2>1, <2>2, <3>1, <3>2, SMTT(20)
  <2>3. CASE d # D
    <3>1. [F EXCEPT ![D][p0] = v][d] = F[d]
      BY <1>2, <1>4, <2>3
    <3> QED
      BY <1>5, <2>1, <2>3, <3>1
  <2> QED
    BY <2>2, <2>3
<1>7. G = [F EXCEPT ![D][p0] = v]
  <2>1. PICK H : H = [F EXCEPT ![D][p0] = v]
    OBVIOUS
  <2>2. DOMAIN H = Refs /\ H = [d \in Refs |-> H[d]]
    BY <1>4, <2>1
  <2>3. G = [d \in Refs |-> G[d]]
    BY <1>4
  <2> QED
    BY <1>6, <2>1, <2>2, <2>3
<1> QED
  BY <1>1, <1>3, <1>7

\* A step that changes no number of pending posts.
LEMMA PendSame ==
  ASSUME \A d, s \in Nodes, t \in Tags : PendingAt(d, s, t)' = PendingAt(d, s, t)
  PROVE  pendingBar' = pendingBar
<1>1. ASSUME NEW d \in Refs, NEW p \in Refs \X Tags
      PROVE  PendingAt(RankOf[d], RankOf[p[1]], p[2])' = PendingAt(RankOf[d], RankOf[p[1]], p[2])
  BY Named, SMTT(20)
<1> QED
  BY <1>1 DEF pendingBar

\* do_post makes one entry more.
LEMMA TablePlus ==
  ASSUME TableInv, NEW n \in Nodes, NEW s \in Nodes, NEW t \in Tags, do_post(n, Entry(s, t))
  PROVE  \A d, m \in Nodes, u \in Tags :
           Count(table'[d], Entry(m, u)) =
             IF d = n /\ m = s /\ u = t THEN Count(table[d], Entry(m, u)) + 1
             ELSE Count(table[d], Entry(m, u))
<1> TAKE d, m \in Nodes, u \in Tags
<1>1. table[n] \in Seq(Entries) /\ Entry(s, t) \in Entries
  BY DEF TableInv, Entry, Entries
<1>2. table'[d] = IF d = n THEN Append(table[n], Entry(s, t)) ELSE table[d]
  BY DEF do_post, TableInv
<1>3. Entry(m, u) = Entry(s, t) <=> m = s /\ u = t
  BY DEF Entry
<1>4. Count(Append(table[n], Entry(s, t)), Entry(m, u)) =
        IF Entry(m, u) = Entry(s, t) THEN Count(table[n], Entry(m, u)) + 1
        ELSE Count(table[n], Entry(m, u))
  BY <1>1, CountAppend, SMTT(20)
<1> QED
  BY <1>2, <1>3, <1>4

\* A message delivered is one less under way.
LEMMA ChanMinus ==
  ASSUME TableInv, NEW s \in Nodes, NEW n \in Nodes, NEW i, i \in DOMAIN chan[s][n],
         NEW t \in Tags, t = chan[s][n][i], Deliver(s, n, i)
  PROVE  /\ \A d, m \in Nodes, u \in Tags :
              Count(chan'[m][d], u) =
                IF d = n /\ m = s /\ u = t THEN Count(chan[m][d], u) - 1 ELSE Count(chan[m][d], u)
         /\ Count(chan[s][n], t) > 0
<1>1. chan[s][n] \in Seq(Tags) /\ i \in 1 .. Len(chan[s][n])
  BY SMTT(20) DEF TableInv
<1>2. \A u : Count(Without(chan[s][n], i), u) =
        IF u = t THEN Count(chan[s][n], u) - 1 ELSE Count(chan[s][n], u)
  BY <1>1, CountWithout
<1>3. Count(chan[s][n], t) > 0
  BY <1>1, CountWithout
<1>4. ASSUME NEW d \in Nodes, NEW m \in Nodes
      PROVE  chan'[m][d] = IF d = n /\ m = s THEN Without(chan[s][n], i) ELSE chan[m][d]
  BY DEF Deliver, TableInv
<1> QED
  BY <1>2, <1>3, <1>4

\* Every count is a number.
LEMMA CountNat ==
  ASSUME TableInv, NEW d \in Nodes, NEW m \in Nodes, NEW u \in Tags
  PROVE  Count(table[d], Entry(m, u)) \in Nat /\ Count(chan[m][d], u) \in Nat
<1>1. table[d] \in Seq(Entries) /\ chan[m][d] \in Seq(Tags)
  BY DEF TableInv
<1> QED
  BY <1>1, CountType

\* An arrived message moves from the messages under way to the table: no post is lost or doubled.
LEMMA ArrivalSame ==
  ASSUME TableInv, NEW s \in Nodes, NEW n \in Nodes, NEW i, i \in DOMAIN chan[s][n],
         Deliver(s, n, i), do_post(n, Entry(s, chan[s][n][i]))
  PROVE  pendingBar' = pendingBar
<1>1. PICK t \in Tags : t = chan[s][n][i]
  BY DeliverKeeps
<1>2. ASSUME NEW d \in Nodes, NEW m \in Nodes, NEW u \in Tags
      PROVE  PendingAt(d, m, u)' = PendingAt(d, m, u)
  <2>1. Count(table[d], Entry(m, u)) \in Nat /\ Count(chan[m][d], u) \in Nat
    BY CountNat
  <2>2. Count(table'[d], Entry(m, u)) =
          IF d = n /\ m = s /\ u = t THEN Count(table[d], Entry(m, u)) + 1
          ELSE Count(table[d], Entry(m, u))
    BY <1>1, TablePlus, SMTT(20)
  <2>3. Count(chan'[m][d], u) =
          IF d = n /\ m = s /\ u = t THEN Count(chan[m][d], u) - 1 ELSE Count(chan[m][d], u)
    BY <1>1, ChanMinus, SMTT(20)
  <2>4. PendingAt(d, m, u)' = Count(table'[d], Entry(m, u)) + Count(chan'[m][d], u)
    BY DEF PendingAt, Entry
  <2>5. PendingAt(d, m, u) = Count(table[d], Entry(m, u)) + Count(chan[m][d], u)
    BY DEF PendingAt
  <2> QED
    BY <2>1, <2>2, <2>3, <2>4, <2>5, SMTT(20)
<1> QED
  BY <1>2, PendSame

\* What a waiting node awaits is something.
LEMMA EntryIsSome == ASSUME NEW a, NEW b PROVE Entry(a, b) # Nothing
<1>1. DOMAIN Entry(a, b) = {"node", "tag"}
  BY DEF Entry
<1>2. DOMAIN << >> = {}
  BY SMTT(20)
<1> QED
  BY <1>1, <1>2 DEF Nothing

\* What a node awaits, by subscripts and by ranks.
LEMMA AwaitIs ==
  ASSUME NEW n \in Nodes
  PROVE  awaitsBar[Ref[n]] =
           IF awaits[n] = Nothing THEN Nothing ELSE Entry(RefOrAny(awaits[n].node), awaits[n].tag)
  BY Named DEF awaitsBar

\* A step that changes what one node awaits.
LEMMA AwaitChange ==
  ASSUME IInv, NEW n \in Nodes, NEW w, awaits' = [awaits EXCEPT ![n] = w]
  PROVE  awaitsBar' =
           [awaitsBar EXCEPT ![Ref[n]] =
             IF w = Nothing THEN Nothing ELSE Entry(RefOrAny(w.node), w.tag)]
<1>1. PICK v : v = IF w = Nothing THEN Nothing ELSE Entry(RefOrAny(w.node), w.tag)
  OBVIOUS
<1>2. PICK F, G : F = awaitsBar /\ G = awaitsBar'
  OBVIOUS
<1>3. /\ F = [r \in Refs |-> F[r]] /\ G = [r \in Refs |-> G[r]]
      /\ \A r \in Refs :
           /\ F[r] = IF awaits[RankOf[r]] = Nothing THEN Nothing
                     ELSE Entry(RefOrAny(awaits[RankOf[r]].node), awaits[RankOf[r]].tag)
           /\ G[r] = IF awaits'[RankOf[r]] = Nothing THEN Nothing
                     ELSE Entry(RefOrAny(awaits'[RankOf[r]].node), awaits'[RankOf[r]].tag)
  BY <1>2 DEF awaitsBar, RefOrAny, Entry
<1>4. \A m \in Nodes : awaits'[m] = IF m = n THEN w ELSE awaits[m]
  BY DEF IInv, WaitInv
<1>5. ASSUME NEW r \in Refs PROVE G[r] = IF r = Ref[n] THEN v ELSE F[r]
  <2>1. RankOf[r] \in Nodes /\ (RankOf[r] = n <=> r = Ref[n])
    BY Named
  <2> QED
    BY <1>1, <1>3, <1>4, <2>1, SMTT(20)
<1>6. G = [F EXCEPT ![Ref[n]] = v]
  BY <1>3, <1>5, Named, SMTT(20)
<1> QED
  BY <1>1, <1>2, <1>6

\* A step that changes nothing that is awaited.
LEMMA AwaitSame == ASSUME awaits' = awaits PROVE awaitsBar' = awaitsBar
  BY DEF awaitsBar, RefOrAny, Entry

\* A match of ranks is a match of subscripts.
LEMMA MatchNamed ==
  ASSUME NEW w \in Awaited, NEW s \in Nodes, NEW t \in Tags, Matches(w, Entry(s, t))
  PROVE  Abstract!Matches(Entry(RefOrAny(w.node), w.tag), Ref[s], t)
<1>1. w.node \in {Wild, s} /\ w.tag \in {Wild, t}
  BY DEF Matches, Entry
<1>2. RefOrAny(w.node) \in {<< >>, Ref[s]}
  BY <1>1 DEF RefOrAny
<1>3. /\ Entry(RefOrAny(w.node), w.tag).node = RefOrAny(w.node)
      /\ Entry(RefOrAny(w.node), w.tag).tag = w.tag
  BY DEF Entry
<1> QED
  BY <1>1, <1>2, <1>3 DEF Abstract!Matches

\* The end of a wait takes one matching post.
LEMMA FinishRefines ==
  ASSUME IInv, NEW n \in Nodes, NEW s \in Nodes, NEW t \in Tags,
         Return(n), Matches(awaits[n], Entry(s, t)), PendingAt(n, s, t) > 0,
         \A d, m \in Nodes, u \in Tags :
           PendingAt(d, m, u)' =
             IF d = n /\ m = s /\ u = t THEN PendingAt(n, s, t) - 1 ELSE PendingAt(d, m, u)
  PROVE  Abstract!Next
<1>1. /\ pc[n] = "waiting" /\ awaits' = [awaits EXCEPT ![n] = Nothing]
  BY DEF Return, Goto
<1>2. awaits[n] \in Awaited
  BY <1>1 DEF IInv, WaitInv
<1>3. PICK a, b : awaits[n] = Entry(a, b)
  BY <1>2 DEF Awaited, Entry
<1>4. awaits[n] # Nothing
  BY <1>3, EntryIsSome
<1>5. PICK w : w = Entry(RefOrAny(awaits[n].node), awaits[n].tag)
  OBVIOUS
<1>6. awaitsBar[Ref[n]] = w /\ w # Nothing
  BY <1>4, <1>5, AwaitIs, EntryIsSome
<1>7. Abstract!Matches(w, Ref[s], t)
  BY <1>2, <1>5, MatchNamed
<1>8. awaitsBar' = [awaitsBar EXCEPT ![Ref[n]] = Nothing]
  BY <1>1, AwaitChange
<1>9. PICK v : v = PendingAt(n, s, t)
  OBVIOUS
<1>10. pendingBar' = [pendingBar EXCEPT ![Ref[n]][<<Ref[s], t>>] = v - 1]
  BY <1>9, PendChange, SMTT(20)
<1>11. pendingBar[Ref[n]][<<Ref[s], t>>] = v /\ v > 0
  BY <1>9, PendIs
<1>12. pendingBar' = [pendingBar EXCEPT ![Ref[n]][<<Ref[s], t>>] = @ - 1]
  BY <1>10, <1>11
<1>13. Abstract!Finish(Ref[n])
  <2>1. Ref[n] \in Refs /\ Ref[s] \in Refs
    BY Named
  <2> QED
    BY <1>6, <1>7, <1>8, <1>11, <1>12, <2>1 DEF Abstract!Finish
<1> QED
  BY <1>13, Named DEF Abstract!Next

\* A post directive is a post of the specification.
LEMMA PostRefines ==
  ASSUME IInv, NEW p \in Posts, Post(p[1], p[2], p[3]) PROVE Abstract!Next
<1>1. PICK n \in Nodes, d \in Nodes, t \in Tags : p = <<n, Ref[d], t>> /\ PostTo(n, d, t)
  BY PostNames
<1>2. pc[n] = "run" /\ awaits' = awaits
  BY <1>1 DEF PostTo
<1>3. awaitsBar[Ref[n]] = Nothing /\ awaitsBar' = awaitsBar
  BY <1>2, AwaitIs, AwaitSame DEF IInv, WaitInv
<1>4. PICK v : v = PendingAt(d, n, t)
  OBVIOUS
<1>5. ASSUME NEW k \in Nodes, NEW m \in Nodes, NEW u \in Tags
      PROVE  PendingAt(k, m, u)' = IF k = d /\ m = n /\ u = t THEN v + 1 ELSE PendingAt(k, m, u)
  <2>1. Count(table[k], Entry(m, u)) \in Nat /\ Count(chan[m][k], u) \in Nat
    BY CountNat DEF IInv
  <2>2. PendingAt(k, m, u)' = Count(table'[k], Entry(m, u)) + Count(chan'[m][k], u)
    BY DEF PendingAt, Entry
  <2>3. PendingAt(k, m, u) = Count(table[k], Entry(m, u)) + Count(chan[m][k], u)
    BY DEF PendingAt
  <2>4. CASE d = n
    <3>1. do_post(n, Entry(n, t)) /\ chan' = chan
      BY <1>1, <2>4 DEF PostTo
    <3>2. Count(table'[k], Entry(m, u)) =
            IF k = n /\ m = n /\ u = t THEN Count(table[k], Entry(m, u)) + 1
            ELSE Count(table[k], Entry(m, u))
      BY <3>1, TablePlus, SMTT(20) DEF IInv
    <3> QED
      BY <1>4, <2>1, <2>2, <2>3, <2>4, <3>1, <3>2, SMTT(20)
  <2>5. CASE d # n
    <3>1. chan' = [chan EXCEPT ![n][d] = Append(@, t)] /\ table' = table
      BY <1>1, <2>5 DEF PostTo
    <3>2. chan'[m][k] = IF m = n /\ k = d THEN Append(chan[n][d], t) ELSE chan[m][k]
      BY <3>1 DEF IInv, TableInv
    <3>3. chan[n][d] \in Seq(Tags)
      BY DEF IInv, TableInv
    <3>4. Count(Append(chan[n][d], t), u) =
            IF u = t THEN Count(chan[n][d], u) + 1 ELSE Count(chan[n][d], u)
      BY <3>3, CountAppend, SMTT(20)
    <3> QED
      BY <1>4, <2>1, <2>2, <2>3, <3>1, <3>2, <3>4, SMTT(20)
  <2> QED
    BY <2>4, <2>5
<1>6. pendingBar' = [pendingBar EXCEPT ![Ref[d]][<<Ref[n], t>>] = v + 1]
  BY <1>5, PendChange, SMTT(20)
<1>7. pendingBar[Ref[d]][<<Ref[n], t>>] = v
  BY <1>4, PendIs
<1>8. pendingBar' = [pendingBar EXCEPT ![Ref[d]][<<Ref[n], t>>] = @ + 1]
  BY <1>6, <1>7
<1>9. PICK a \in {<<Ref[q[1]], q[2], q[3]>> : q \in Posts} : a = <<Ref[n], Ref[d], t>>
  <2>1. <<Ref[p[1]], p[2], p[3]>> = <<Ref[n], Ref[d], t>>
    BY <1>1
  <2> QED
    BY <2>1
<1>10. Abstract!Post(a[1], a[2], a[3])
  <2>1. a[1] = Ref[n] /\ a[2] = Ref[d] /\ a[3] = t
    BY <1>9
  <2> QED
    BY <1>3, <1>8, <2>1 DEF Abstract!Post
<1> QED
  BY <1>10 DEF Abstract!Next

\* A wait directive begins a wait of the specification.
LEMMA WaitRefines ==
  ASSUME IInv, NEW w \in Waits, Wait(w[1], w[2], w[3]) PROVE Abstract!Next
<1>1. PICK n \in Nodes, r \in Refs \cup {<< >>}, t \in Tags \cup {Wild} : w = <<n, r, t>>
  BY WaitsAssumption, SMTT(20)
<1>2. PICK rank : rank = IF r = << >> THEN Wild ELSE NodeNum(r)
  OBVIOUS
<1>3. /\ pc[n] = "run" /\ awaits' = [awaits EXCEPT ![n] = Entry(rank, t)]
      /\ table' = table /\ chan' = chan
  BY <1>1, <1>2 DEF Wait, Goto
<1>4. RefOrAny(rank) = r
  <2>1. CASE r = << >>
    BY <1>2, <2>1 DEF RefOrAny
  <2>2. CASE r # << >>
    <3>1. rank \in Nodes /\ Ref[rank] = r
      BY <1>2, <2>2, Named
    <3>2. rank # Wild
      BY <3>1, SMTT(20) DEF Nodes, Wild
    <3> QED
      BY <3>1, <3>2 DEF RefOrAny
  <2> QED
    BY <2>1, <2>2
<1>5. Entry(rank, t) # Nothing /\ Entry(rank, t).node = rank /\ Entry(rank, t).tag = t
  BY EntryIsSome DEF Entry
<1>6. awaitsBar' = [awaitsBar EXCEPT ![Ref[n]] = Entry(r, t)]
  <2>1. PICK e : e = Entry(rank, t)
    OBVIOUS
  <2>2. awaitsBar' =
          [awaitsBar EXCEPT ![Ref[n]] =
            IF e = Nothing THEN Nothing ELSE Entry(RefOrAny(e.node), e.tag)]
    BY <1>3, <2>1, AwaitChange
  <2> QED
    BY <1>4, <1>5, <2>1, <2>2
<1>7. awaitsBar[Ref[n]] = Nothing
  BY <1>3, AwaitIs DEF IInv, WaitInv
<1>8. pendingBar' = pendingBar
  BY <1>3, PendSame DEF PendingAt, Entry
<1>9. PICK a \in {<<Ref[q[1]], Entry(q[2], q[3])>> : q \in Waits} : a = <<Ref[n], Entry(r, t)>>
  <2>1. <<Ref[w[1]], Entry(w[2], w[3])>> = <<Ref[n], Entry(r, t)>>
    BY <1>1
  <2> QED
    BY <2>1
<1>10. Abstract!Begin(a[1], a[2])
  <2>1. a[1] = Ref[n] /\ a[2] = Entry(r, t)
    BY <1>9
  <2> QED
    BY <1>6, <1>7, <1>8, <2>1 DEF Abstract!Begin
<1> QED
  BY <1>10 DEF Abstract!Next

\* A wait that finds its post in the table takes it.
LEMMA RemoveRefines ==
  ASSUME IInv, NEW n \in Nodes, RemoveFound(n) PROVE Abstract!Next
<1>1. /\ Found(n) > 0 /\ Return(n) /\ table' = [table EXCEPT ![n] = Without(@, Found(n))]
      /\ chan' = chan
  BY DEF RemoveFound, RemoveAtIndex
<1>2. PICK i \in 1 .. Len(table[n]) : i = Found(n) /\ Matches(awaits[n], table[n][i])
  BY <1>1, FoundInTable
<1>3. table[n] \in Seq(Entries) /\ table[n][i] \in Entries
  BY SMTT(20) DEF IInv, TableInv
<1>4. PICK s \in Nodes, t \in Tags : table[n][i] = Entry(s, t)
  BY <1>3 DEF Entries, Entry
<1>5. \A x : /\ Count(Without(table[n], i), x) =
                  IF x = table[n][i] THEN Count(table[n], x) - 1 ELSE Count(table[n], x)
             /\ x = table[n][i] => Count(table[n], x) > 0
  BY <1>3, CountWithout
<1>6. ASSUME NEW d \in Nodes, NEW m \in Nodes, NEW u \in Tags
      PROVE  PendingAt(d, m, u)' =
               IF d = n /\ m = s /\ u = t THEN PendingAt(n, s, t) - 1 ELSE PendingAt(d, m, u)
  <2>1. Count(table[d], Entry(m, u)) \in Nat /\ Count(chan[m][d], u) \in Nat
    BY CountNat DEF IInv
  <2>2. PendingAt(d, m, u)' = Count(table'[d], Entry(m, u)) + Count(chan'[m][d], u)
    BY DEF PendingAt, Entry
  <2>3. PendingAt(d, m, u) = Count(table[d], Entry(m, u)) + Count(chan[m][d], u)
    BY DEF PendingAt
  <2>4. table'[d] = IF d = n THEN Without(table[n], i) ELSE table[d]
    BY <1>1, <1>2 DEF IInv, TableInv
  <2>5. Entry(m, u) = Entry(s, t) <=> m = s /\ u = t
    BY DEF Entry
  <2> QED
    BY <1>1, <1>4, <1>5, <2>1, <2>2, <2>3, <2>4, <2>5, SMTT(20)
<1>7. PendingAt(n, s, t) > 0
  <2>1. Count(table[n], Entry(s, t)) \in Nat /\ Count(chan[s][n], t) \in Nat
    BY CountNat DEF IInv
  <2>2. Count(table[n], Entry(s, t)) > 0
    BY <1>4, <1>5
  <2> QED
    BY <2>1, <2>2, SMTT(20) DEF PendingAt
<1> QED
  BY <1>1, <1>2, <1>4, <1>6, <1>7, FinishRefines

\* A message that a wait receives ends it or is put into the table.
LEMMA ReceiveRefines ==
  ASSUME IInv, NEW s \in Nodes, NEW n \in Nodes, Receive(s, n)
  PROVE  Abstract!Next \/ UNCHANGED <<pendingBar, awaitsBar>>
<1>1. chan[s][n] \in Seq(Tags) /\ chan[s][n] # << >> /\ Deliver(s, n, 1)
  BY DEF Receive, IInv, TableInv
<1>2. 1 \in DOMAIN chan[s][n] /\ Head(chan[s][n]) = chan[s][n][1]
  BY <1>1, SMTT(20)
<1>3. PICK t \in Tags : t = chan[s][n][1]
  BY <1>1, <1>2, SMTT(20)
<1>4. CASE Matches(awaits[n], Entry(s, t))
  <2>1. Return(n) /\ table' = table
    BY <1>2, <1>3, <1>4 DEF Receive
  <2>2. \A d, m \in Nodes, u \in Tags :
          Count(chan'[m][d], u) =
            IF d = n /\ m = s /\ u = t THEN Count(chan[m][d], u) - 1 ELSE Count(chan[m][d], u)
    BY <1>1, <1>2, <1>3, ChanMinus, SMTT(20) DEF IInv
  <2>3. Count(chan[s][n], t) > 0
    BY <1>1, <1>2, <1>3, ChanMinus, SMTT(20) DEF IInv
  <2>4. ASSUME NEW d \in Nodes, NEW m \in Nodes, NEW u \in Tags
        PROVE  PendingAt(d, m, u)' =
                 IF d = n /\ m = s /\ u = t THEN PendingAt(n, s, t) - 1 ELSE PendingAt(d, m, u)
    <3>1. Count(table[d], Entry(m, u)) \in Nat /\ Count(chan[m][d], u) \in Nat
      BY CountNat DEF IInv
    <3>2. PendingAt(d, m, u)' = Count(table'[d], Entry(m, u)) + Count(chan'[m][d], u)
      BY DEF PendingAt, Entry
    <3>3. PendingAt(d, m, u) = Count(table[d], Entry(m, u)) + Count(chan[m][d], u)
      BY DEF PendingAt
    <3> QED
      BY <2>1, <2>2, <3>1, <3>2, <3>3, SMTT(20)
  <2>5. PendingAt(n, s, t) > 0
    <3>1. Count(table[n], Entry(s, t)) \in Nat /\ Count(chan[s][n], t) \in Nat
      BY CountNat DEF IInv
    <3> QED
      BY <2>3, <3>1, SMTT(20) DEF PendingAt
  <2> QED
    BY <1>4, <2>1, <2>4, <2>5, FinishRefines
<1>5. CASE ~Matches(awaits[n], Entry(s, t))
  <2>1. do_post(n, Entry(s, chan[s][n][1])) /\ awaits' = awaits
    BY <1>2, <1>3, <1>5 DEF Receive
  <2> QED
    BY <1>1, <1>2, <2>1, ArrivalSame, AwaitSame DEF IInv
<1> QED
  BY <1>4, <1>5

\* Every step is a step of the specification or leaves posts and waits alone.
LEMMA NextRefines == ASSUME IInv, [Next]_vars PROVE [Abstract!Next]_(Abstract!vars)
<1>1. ASSUME NEW s \in Nodes, NEW n \in Nodes, NEW i, HandlePost(s, n, i)
      PROVE  UNCHANGED <<pendingBar, awaitsBar>>
  <2>1. /\ i \in DOMAIN chan[s][n] /\ Deliver(s, n, i) /\ do_post(n, Entry(s, chan[s][n][i]))
        /\ awaits' = awaits
    BY <1>1 DEF HandlePost
  <2> QED
    BY <2>1, ArrivalSame, AwaitSame DEF IInv
<1>2. ASSUME UNCHANGED vars PROVE UNCHANGED <<pendingBar, awaitsBar>>
  <2>1. table' = table /\ chan' = chan /\ awaits' = awaits
    BY <1>2 DEF vars
  <2>2. pendingBar' = pendingBar
    BY <2>1, PendSame DEF PendingAt, Entry
  <2> QED
    BY <2>1, <2>2, AwaitSame
<1>3. Abstract!Next \/ UNCHANGED <<pendingBar, awaitsBar>>
  BY <1>1, <1>2, PostRefines, WaitRefines, RemoveRefines, ReceiveRefines DEF Next
<1> QED
  BY <1>3 DEF Abstract!vars

\* For every arrangement of the nodes, program, transport and order of arrival: a post is
\* taken by one wait of the node it names, and a wait ends with a post that matches it
\* (_xmp_gasnet_wait*, _xmp_mpi_wait*).
THEOREM PostWaitImplements == Spec => ImplementsPostWaitSteps
<1>1. Init => Abstract!Init
  <2> SUFFICES ASSUME Init PROVE Abstract!Init
    OBVIOUS
  <2>1. ASSUME NEW d \in Nodes, NEW s \in Nodes, NEW t \in Tags PROVE PendingAt(d, s, t) = 0
    BY CountEmpty, SMTT(20) DEF Init, PendingAt
  <2>2. ASSUME NEW d \in Refs, NEW p \in Refs \X Tags
        PROVE  PendingAt(RankOf[d], RankOf[p[1]], p[2]) = 0
    BY <2>1, Named, SMTT(20)
  <2>3. pendingBar = [d \in Refs |-> [p \in Refs \X Tags |-> 0]]
    BY <2>2 DEF pendingBar
  <2>4. awaitsBar = [r \in Refs |-> Nothing]
    BY Named DEF Init, awaitsBar
  <2> QED
    BY <2>3, <2>4 DEF Abstract!Init
<1> QED
  BY <1>1, NextRefines, SpecIInv, PTL DEF Spec, ImplementsPostWaitSteps, Abstract!Spec
=============================================================================

----------------------------- MODULE LibProofs -----------------------------
(***************************************************************************)
(* What the functions of the string library do to memories of every size   *)
(* with arguments of every value, as far as the regions they are given lie *)
(* in the memory.  The memory functions come first, then the copies of     *)
(* strings, the fields, the padded strings, the edits and the functions    *)
(* that only read.                                                         *)
(***************************************************************************)
EXTENDS LibProperties, Induction

(* A memory of L cells, and n cells of it from p on. *)
Memory(m, L) == L \in Nat /\ m \in [1..L -> Nat]
In(p, n, L) == p >= 1 /\ p + n <= L + 1

Sum(x, y, z) == z = x + y

(* A destination that does not begin within the source. *)
Upwards(d, s, n) == d <= s \/ s + n <= d
-----------------------------------------------------------------------------
(* Two copies of neighbouring blocks are a copy of both, upwards when the  *)
(* destination does not lie within the source, downwards when the source   *)
(* does not lie within the destination.                                    *)
LEMMA CopyUnitType ==
    ASSUME NEW L, NEW m, Memory(m, L), NEW dp \in Int, NEW sp \in Int, NEW n \in Int,
           n >= 0, In(sp, n, L)
    PROVE  Memory(CopyUnit(m, dp, sp, n), L)
  BY DEF CopyUnit, In, Memory

(* A copy of no cells leaves the memory as it is. *)
LEMMA CopyNothing ==
    ASSUME NEW L, NEW m, Memory(m, L), NEW dp \in Int, NEW sp
    PROVE  CopyUnit(m, dp, sp, 0) = m
  BY DEF CopyUnit, Memory

(* Positions and lengths have names here and below: the provers match them *)
(* more surely than sums.                                                  *)
LEMMA CopyBehind ==
    ASSUME NEW L, NEW m, Memory(m, L), NEW dp \in Int, NEW sp \in Int,
           NEW j \in Int, NEW n \in Int, NEW d \in Int, NEW e \in Int, NEW k \in Int,
           j >= 0, n >= 0, Sum(dp, j, d), Sum(sp, j, e), Sum(j, n, k), In(sp, k, L), Upwards(dp, sp, k)
    PROVE  CopyUnit(CopyUnit(m, dp, sp, j), d, e, n) = CopyUnit(m, dp, sp, k)
<1> USE DEF Sum, Memory
<1> DEFINE b == CopyUnit(m, dp, sp, j)
           c == CopyUnit(b, d, e, n)
<1>1. b \in [1..L -> Nat] /\ \A a \in 1..L : b[a] = IF a \in dp..(dp + j - 1) THEN m[sp + (a - dp)] ELSE m[a]
  BY CopyUnitType DEF CopyUnit, In
<1> HIDE DEF b
<1>2. c = [a \in 1..L |-> IF a \in d..(d + n - 1) THEN b[e + (a - d)] ELSE b[a]]
  BY <1>1 DEF CopyUnit
<1>3. ASSUME NEW a \in 1..L
      PROVE  (IF a \in d..(d + n - 1) THEN b[e + (a - d)] ELSE b[a])
             = IF a \in dp..(dp + k - 1) THEN m[sp + (a - dp)] ELSE m[a]
  <2>1. CASE a \in d..(d + n - 1)
    <3>1. PICK x \in Int : x = e + (a - d)
      OBVIOUS
    <3>2. x = sp + (a - dp) /\ x >= sp + j /\ x < sp + k /\ x \in 1..L
      BY <2>1, <3>1 DEF In
    <3>3. x \notin dp..(dp + j - 1)
      BY <3>2 DEF Upwards
    <3>4. b[x] = m[x]
      BY <1>1, <3>2, <3>3
    <3>5. a \in dp..(dp + k - 1)
      BY <2>1
    <3> QED
      BY <2>1, <3>1, <3>2, <3>4, <3>5
  <2>2. CASE a \notin d..(d + n - 1)
    <3>1. a \in dp..(dp + k - 1) <=> a \in dp..(dp + j - 1)
      BY <2>2
    <3> QED
      BY <1>1, <2>2, <3>1
  <2> QED
    BY <2>1, <2>2
<1>4. CopyUnit(m, dp, sp, k) = [a \in 1..L |-> IF a \in dp..(dp + k - 1) THEN m[sp + (a - dp)] ELSE m[a]]
  BY DEF CopyUnit
<1> QED
  BY <1>2, <1>3, <1>4 DEF b

(* A copy downwards: the last cells first, then the cells before them. *)
LEMMA CopyBefore ==
    ASSUME NEW L, NEW m, Memory(m, L), NEW dp \in Int, NEW sp \in Int,
           NEW j \in Int, NEW n \in Int, NEW d \in Int, NEW e \in Int, NEW k \in Int,
           j >= 0, n >= 0, Sum(dp, n, d), Sum(sp, n, e), Sum(j, n, k), In(sp, k, L), dp >= sp
    PROVE  CopyUnit(CopyUnit(m, d, e, j), dp, sp, n) = CopyUnit(m, dp, sp, k)
<1> USE DEF Sum, Memory
<1> DEFINE b == CopyUnit(m, d, e, j)
           c == CopyUnit(b, dp, sp, n)
<1>1. In(e, j, L)
  BY DEF In
<1>2. b \in [1..L -> Nat] /\ \A a \in 1..L : b[a] = IF a \in d..(d + j - 1) THEN m[e + (a - d)] ELSE m[a]
  <2>1. b \in [1..L -> Nat]
    BY <1>1, CopyUnitType
  <2> QED
    BY <2>1 DEF CopyUnit
<1> HIDE DEF b
<1>3. c = [a \in 1..L |-> IF a \in dp..(dp + n - 1) THEN b[sp + (a - dp)] ELSE b[a]]
  BY <1>2 DEF CopyUnit
<1>4. ASSUME NEW a \in 1..L
      PROVE  (IF a \in dp..(dp + n - 1) THEN b[sp + (a - dp)] ELSE b[a])
             = IF a \in dp..(dp + k - 1) THEN m[sp + (a - dp)] ELSE m[a]
  <2>1. CASE a \in dp..(dp + n - 1)
    <3>1. PICK x \in Int : x = sp + (a - dp)
      OBVIOUS
    <3>2. x < sp + n /\ x \in 1..L
      BY <2>1, <3>1 DEF In
    <3>3. x \notin d..(d + j - 1)
      BY <3>2
    <3>4. b[x] = m[x]
      BY <1>2, <3>2, <3>3
    <3>5. a \in dp..(dp + k - 1)
      BY <2>1
    <3> QED
      BY <2>1, <3>1, <3>4, <3>5
  <2>2. CASE a \notin dp..(dp + n - 1)
    <3>1. a \in dp..(dp + k - 1) <=> a \in d..(d + j - 1)
      BY <2>2
    <3>2. e + (a - d) = sp + (a - dp)
      OBVIOUS
    <3> QED
      BY <1>2, <2>2, <3>1, <3>2
  <2> QED
    BY <2>1, <2>2
<1>5. CopyUnit(m, dp, sp, k) = [a \in 1..L |-> IF a \in dp..(dp + k - 1) THEN m[sp + (a - dp)] ELSE m[a]]
  BY DEF CopyUnit
<1> QED
  BY <1>3, <1>4, <1>5 DEF b

(* The size of n units of u cells.  Products are kept from the provers. *)
Size(n, u) == n * u

(* The cells of one unit more. *)
LEMMA Sizes ==
    ASSUME NEW n \in Nat, NEW u \in Nat
    PROVE  Size(n, u) \in Nat /\ Size(0, u) = 0 /\ Size(n + 1, u) = Size(n, u) + u
<1>1. n * u \in Nat
  OBVIOUS
<1>2. 0 * u = 0 /\ (n + 1) * u = n * u + u
  OBVIOUS
<1> QED
  BY <1>1, <1>2 DEF Size

(* The cells of the first k of n units. *)
LEMMA SizesGrow ==
    ASSUME NEW n \in Nat, NEW u \in Nat, NEW k \in 1..n
    PROVE  /\ Size(k - 1, u) \in Nat
           /\ Size(k, u) = Size(k - 1, u) + u /\ Size(n, u) >= Size(k, u)
<1>1. PICK i \in Nat : k = i + 1
  <2>1. k - 1 \in Nat /\ k = (k - 1) + 1
    OBVIOUS
  <2> QED
    BY <2>1
<1>2. PICK r \in Nat : n = k + r
  <2>1. n - k \in Nat /\ n = k + (n - k)
    OBVIOUS
  <2> QED
    BY <2>1
<1>3. (k + r) * u = k * u + r * u /\ r * u \in Nat /\ k * u \in Nat
  OBVIOUS
<1>4. Size(n, u) >= Size(k, u)
  BY <1>2, <1>3 DEF Size
<1>5. k - 1 = i
  BY <1>1
<1> QED
  BY <1>1, <1>4, <1>5, Sizes

(* A loop that copies units upwards copies the whole block.                *)
LEMMA CopyUpIsCopy ==
    ASSUME NEW L, NEW m, Memory(m, L), NEW dp \in Int, NEW sp \in Int,
           NEW n \in Int, NEW u \in Int, n >= 0, u >= 0, In(sp, Size(n, u), L), Upwards(dp, sp, Size(n, u))
    PROVE  CopyUp(m, dp, sp, n, u) = CopyUnit(m, dp, sp, Size(n, u))
<1> n \in Nat /\ u \in Nat
  OBVIOUS
<1> DEFINE F(k) == CopyUnit(m, dp, sp, Size(k, u))
           Body(g) == [k \in 0..n |->
                         IF k = 0 THEN m ELSE CopyUnit(g[k - 1], dp + Size(k - 1, u), sp + Size(k - 1, u), u)]
           f == [k \in 0..n |-> F(k)]
           D == CHOOSE g : g = Body(g)
<1>0. F(0) = m
  <2>1. Size(0, u) = 0
    BY Sizes
  <2> QED
    BY <2>1, CopyNothing
<1>1. ASSUME NEW k \in 1..n PROVE CopyUnit(F(k - 1), dp + Size(k - 1, u), sp + Size(k - 1, u), u) = F(k)
  <2>1. PICK j \in Nat : j = Size(k - 1, u)
    BY SizesGrow
  <2>2. Size(k, u) = j + u /\ Size(n, u) >= j + u
    BY <2>1, Sizes, SizesGrow
  <2>3. PICK d \in Int : d = dp + j
    OBVIOUS
  <2>4. PICK e \in Int : e = sp + j
    OBVIOUS
  <2>5. PICK q \in Nat : q = j + u
    OBVIOUS
  <2>6. Sum(dp, j, d) /\ Sum(sp, j, e) /\ Sum(j, u, q) /\ In(sp, q, L) /\ Upwards(dp, sp, q)
    <3>1. PICK N \in Nat : N = Size(n, u)
      BY Sizes
    <3> QED
      BY <2>2, <2>3, <2>4, <2>5, <3>1 DEF In, Upwards, Sum, Memory
  <2>7. CopyUnit(CopyUnit(m, dp, sp, j), d, e, u) = CopyUnit(m, dp, sp, q)
    BY <2>6, CopyBehind
  <2> QED
    BY <2>1, <2>2, <2>3, <2>4, <2>5, <2>7
<1> HIDE DEF F
<1>2. f = Body(f)
  <2>1. ASSUME NEW k \in 0..n
        PROVE  F(k) = IF k = 0 THEN m ELSE CopyUnit(f[k - 1], dp + Size(k - 1, u), sp + Size(k - 1, u), u)
    <3>1. CASE k = 0
      BY <1>0, <3>1
    <3>2. CASE k # 0
      <4>1. k \in 1..n /\ k - 1 \in 0..n
        BY <3>2
      <4>2. f[k - 1] = F(k - 1)
        BY <4>1
      <4> QED
        BY <1>1, <3>2, <4>1, <4>2
    <3> QED
      BY <3>1, <3>2
  <2> QED
    BY <2>1
<1>3. D = Body(D)
  <2> HIDE DEF f, Body
  <2> QED
    BY <1>2
<1> HIDE DEF D
<1>4. D[0] = m /\ \A k \in 1..n : D[k] = CopyUnit(D[k - 1], dp + Size(k - 1, u), sp + Size(k - 1, u), u)
  BY <1>3
<1> HIDE DEF Body
<1>5. \A k \in 0..n : k \in {i \in 0..n : D[i] = F(i)}
  <2> DEFINE S == {i \in 0..n : D[i] = F(i)}
  <2>1. 0 \in S
    BY <1>0, <1>4
  <2>2. ASSUME NEW i \in 0..(n - 1), i \in S PROVE i + 1 \in S
    <3>1. i + 1 \in 1..n /\ i + 1 \in 0..n /\ (i + 1) - 1 = i
      OBVIOUS
    <3> DEFINE k == i + 1
    <3>2. k \in 1..n /\ k - 1 = i /\ D[i] = F(i)
      BY <2>2, <3>1
    <3> HIDE DEF k
    <3>3. D[k] = F(k)
      BY <1>1, <1>4, <3>2
    <3> QED
      BY <3>1, <3>3 DEF k
  <2> HIDE DEF S
  <2>3. \A i \in 0..n : i \in S
    BY <2>1, <2>2, UpToInduction
  <2> QED
    BY <2>3 DEF S
<1>6. CopyUp(m, dp, sp, n, u) = D[n]
  BY DEF CopyUp, D, Body, Size
<1> QED
  BY <1>5, <1>6 DEF F

(* And so does one that copies them downwards from the ends.              *)
LEMMA CopyDownIsCopy ==
    ASSUME NEW L, NEW m, Memory(m, L), NEW dp \in Int, NEW sp \in Int,
           NEW n \in Int, NEW u \in Int, n >= 0, u >= 0, In(sp - Size(n, u), Size(n, u), L), dp >= sp
    PROVE  CopyDown(m, dp, sp, n, u) = CopyUnit(m, dp - Size(n, u), sp - Size(n, u), Size(n, u))
<1> n \in Nat /\ u \in Nat
  OBVIOUS
<1> DEFINE F(k) == CopyUnit(m, dp - Size(k, u), sp - Size(k, u), Size(k, u))
           Body(g) == [k \in 0..n |->
                         IF k = 0 THEN m ELSE CopyUnit(g[k - 1], dp - Size(k, u), sp - Size(k, u), u)]
           f == [k \in 0..n |-> F(k)]
           D == CHOOSE g : g = Body(g)
<1>0. F(0) = m
  <2>1. Size(0, u) = 0 /\ dp - 0 = dp
    BY Sizes
  <2> QED
    BY <2>1, CopyNothing
<1>1. ASSUME NEW k \in 1..n PROVE CopyUnit(F(k - 1), dp - Size(k, u), sp - Size(k, u), u) = F(k)
  <2>1. PICK j \in Nat : j = Size(k - 1, u)
    BY SizesGrow
  <2>2. Size(k, u) = j + u /\ Size(n, u) >= j + u
    BY <2>1, Sizes, SizesGrow
  <2>3. PICK d \in Int : d = dp - (j + u)
    OBVIOUS
  <2>4. PICK e \in Int : e = sp - (j + u)
    OBVIOUS
  <2>5. PICK x \in Int : x = dp - j
    OBVIOUS
  <2>6. PICK y \in Int : y = sp - j
    OBVIOUS
  <2>7. PICK q \in Nat : q = j + u
    OBVIOUS
  <2>8. Sum(d, u, x) /\ Sum(e, u, y) /\ Sum(j, u, q) /\ d >= e /\ In(e, q, L)
    <3>1. PICK N \in Nat : N = Size(n, u)
      BY Sizes
    <3> QED
      BY <2>2, <2>3, <2>4, <2>5, <2>6, <2>7, <3>1 DEF In, Sum, Memory
  <2>9. CopyUnit(CopyUnit(m, x, y, j), d, e, u) = CopyUnit(m, d, e, q)
    BY <2>8, CopyBefore
  <2> QED
    BY <2>1, <2>2, <2>3, <2>4, <2>5, <2>6, <2>7, <2>9
<1> HIDE DEF F
<1>2. f = Body(f)
  <2>1. ASSUME NEW k \in 0..n
        PROVE  F(k) = IF k = 0 THEN m ELSE CopyUnit(f[k - 1], dp - Size(k, u), sp - Size(k, u), u)
    <3>1. CASE k = 0
      BY <1>0, <3>1
    <3>2. CASE k # 0
      <4>1. k \in 1..n /\ k - 1 \in 0..n
        BY <3>2
      <4>2. f[k - 1] = F(k - 1)
        BY <4>1
      <4> QED
        BY <1>1, <3>2, <4>1, <4>2
    <3> QED
      BY <3>1, <3>2
  <2> QED
    BY <2>1
<1>3. D = Body(D)
  <2> HIDE DEF f, Body
  <2> QED
    BY <1>2
<1> HIDE DEF D
<1>4. D[0] = m /\ \A k \in 1..n : D[k] = CopyUnit(D[k - 1], dp - Size(k, u), sp - Size(k, u), u)
  BY <1>3
<1> HIDE DEF Body
<1>5. \A k \in 0..n : k \in {i \in 0..n : D[i] = F(i)}
  <2> DEFINE S == {i \in 0..n : D[i] = F(i)}
  <2>1. 0 \in S
    BY <1>0, <1>4
  <2>2. ASSUME NEW i \in 0..(n - 1), i \in S PROVE i + 1 \in S
    <3>1. i + 1 \in 1..n /\ i + 1 \in 0..n /\ (i + 1) - 1 = i
      OBVIOUS
    <3> DEFINE k == i + 1
    <3>2. k \in 1..n /\ k - 1 = i /\ D[i] = F(i)
      BY <2>2, <3>1
    <3> HIDE DEF k
    <3>3. D[k] = F(k)
      BY <1>1, <1>4, <3>2
    <3> QED
      BY <3>1, <3>3 DEF k
  <2> HIDE DEF S
  <2>3. \A i \in 0..n : i \in S
    BY <2>1, <2>2, UpToInduction
  <2> QED
    BY <2>3 DEF S
<1>6. CopyDown(m, dp, sp, n, u) = D[n]
  BY DEF CopyDown, D, Body, Size
<1> QED
  BY <1>5, <1>6 DEF F

(* The cells of n units of the three sizes the library has. *)
LEMMA UnitSizes ==
    ASSUME NEW n \in Nat
    PROVE  Size(n, 1) = n /\ Size(n, 2) = 2 * n /\ Size(n, 4) = 4 * n
  BY DEF Size

(* A loop that goes on where a copy has ended.                             *)
LEMMA CopyUpBehind ==
    ASSUME NEW L, NEW m, Memory(m, L), NEW dp \in Int, NEW sp \in Int,
           NEW d \in Int, NEW e \in Int, NEW j \in Int, NEW k \in Int, NEW n \in Int, NEW u \in Int,
           j >= 0, n >= 0, u >= 0, Sum(dp, j, d), Sum(sp, j, e), Sum(j, Size(n, u), k),
           In(sp, k, L), dp <= sp
    PROVE  CopyUp(CopyUnit(m, dp, sp, j), d, e, n, u) = CopyUnit(m, dp, sp, k)
<1>1. PICK N \in Nat : N = Size(n, u)
  BY Sizes
<1>2. In(e, N, L) /\ In(sp, j, L) /\ d <= e
  BY <1>1 DEF In, Sum, Memory
<1>3. Upwards(dp, sp, k) /\ Upwards(d, e, N) /\ Sum(dp, j, d) /\ Sum(sp, j, e) /\ Sum(j, N, k)
  BY <1>1, <1>2 DEF Upwards
<1>4. CopyUnit(CopyUnit(m, dp, sp, j), d, e, N) = CopyUnit(m, dp, sp, k)
  BY <1>3, CopyBehind
<1>5. PICK b : Memory(b, L) /\ b = CopyUnit(m, dp, sp, j)
  BY <1>2, CopyUnitType
<1>6. In(e, Size(n, u), L) /\ Upwards(d, e, Size(n, u))
  BY <1>1, <1>2, <1>3
<1>7. CopyUp(b, d, e, n, u) = CopyUnit(b, d, e, Size(n, u))
  BY <1>5, <1>6, CopyUpIsCopy
<1> QED
  BY <1>1, <1>4, <1>5, <1>7

(* A loop that copies unit by unit downwards copies the block. *)
LEMMA CopyDownBefore ==
    ASSUME NEW L, NEW m, Memory(m, L), NEW d \in Int, NEW e \in Int,
           NEW x \in Int, NEW y \in Int, NEW j \in Int, NEW k \in Int, NEW n \in Int, NEW u \in Int,
           j >= 0, n >= 0, u >= 0, Sum(d, Size(n, u), x), Sum(e, Size(n, u), y),
           Sum(j, Size(n, u), k), In(e, k, L), d >= e
    PROVE  CopyDown(CopyUnit(m, x, y, j), x, y, n, u) = CopyUnit(m, d, e, k)
<1>1. PICK N \in Nat : N = Size(n, u)
  BY Sizes
<1>2. Sum(j, N, k) /\ Sum(d, N, x) /\ Sum(e, N, y)
  BY <1>1
<1>3. In(e, N, L) /\ In(y, j, L)
  BY <1>2 DEF In, Sum, Memory
<1>4. CopyUnit(CopyUnit(m, x, y, j), d, e, N) = CopyUnit(m, d, e, k)
  BY <1>2, CopyBefore
<1>5. PICK b : Memory(b, L) /\ b = CopyUnit(m, x, y, j)
  BY <1>3, CopyUnitType
<1>6. x - Size(n, u) = d /\ y - Size(n, u) = e /\ x >= y
  BY <1>1, <1>2 DEF Sum
<1>7. In(y - Size(n, u), Size(n, u), L)
  BY <1>1, <1>3, <1>6
<1>8. CopyDown(b, x, y, n, u) = CopyUnit(b, x - Size(n, u), y - Size(n, u), Size(n, u))
  BY <1>5, <1>6, <1>7, CopyDownIsCopy
<1> QED
  BY <1>1, <1>4, <1>5, <1>6, <1>8

-----------------------------------------------------------------------------
(* The primitive that moves bytes: bytes up to a word boundary, words, and *)
(* the bytes left.                                                         *)
ThreePartsUp(m, dp, sp, a, w, t) ==
    CopyUp(CopyUp(CopyUp(m, dp, sp, a, 1), dp + a, sp + a, w, 4), dp + (a + w * 4), sp + (a + w * 4), t, 1)
ThreePartsDown(m, dp, sp, a, w, t) ==
    CopyDown(CopyDown(CopyDown(m, dp, sp, a, 1), dp - a, sp - a, w, 4), dp - (a + w * 4), sp - (a + w * 4), t, 1)

(* A move upwards in bytes, words and bytes is a copy of the block. *)
LEMMA UpInThreeParts ==
    ASSUME NEW L, NEW m, Memory(m, L), NEW dp \in Int, NEW sp \in Int,
           NEW a \in Int, NEW w \in Int, NEW j \in Int, NEW t \in Int, NEW len \in Int,
           a >= 0, w >= 0, t >= 0, Sum(a, Size(w, 4), j), Sum(j, t, len), In(sp, len, L), dp <= sp
    PROVE  ThreePartsUp(m, dp, sp, a, w, t) = CopyUnit(m, dp, sp, len)
<1>1. PICK W \in Nat : W = w * 4
  OBVIOUS
<1>2. Size(a, 1) = a /\ Size(w, 4) = W /\ Size(t, 1) = t
  BY <1>1, UnitSizes
<1>3. j = a + W /\ len = j + t
  BY <1>2 DEF Sum
<1>4. PICK da \in Int : da = dp + a
  OBVIOUS
<1>5. PICK sa \in Int : sa = sp + a
  OBVIOUS
<1>6. PICK dj \in Int : dj = dp + j
  OBVIOUS
<1>7. PICK sj \in Int : sj = sp + j
  OBVIOUS
<1>8. /\ Sum(dp, 0, dp) /\ Sum(sp, 0, sp) /\ Sum(0, Size(a, 1), a) /\ In(sp, a, L)
      /\ Sum(dp, a, da) /\ Sum(sp, a, sa) /\ Sum(a, Size(w, 4), j) /\ In(sp, j, L)
      /\ Sum(dp, j, dj) /\ Sum(sp, j, sj) /\ Sum(j, Size(t, 1), len) /\ j >= 0
  <2>1. In(sp, a, L) /\ In(sp, j, L) /\ j >= 0
    BY <1>3 DEF In, Memory
  <2>2. Sum(dp, 0, dp) /\ Sum(sp, 0, sp) /\ Sum(0, Size(a, 1), a)
    BY <1>2 DEF Sum
  <2>3. Sum(dp, a, da) /\ Sum(sp, a, sa) /\ Sum(dp, j, dj) /\ Sum(sp, j, sj)
    BY <1>4, <1>5, <1>6, <1>7 DEF Sum
  <2>4. Sum(j, Size(t, 1), len)
    BY <1>2
  <2> QED
    BY <2>1, <2>2, <2>3, <2>4
<1>9. CopyUp(m, dp, sp, a, 1) = CopyUnit(m, dp, sp, a)
  <2>1. CopyUp(CopyUnit(m, dp, sp, 0), dp, sp, a, 1) = CopyUnit(m, dp, sp, a)
    BY <1>8, CopyUpBehind
  <2>2. CopyUnit(m, dp, sp, 0) = m
    BY CopyNothing
  <2> QED
    BY <2>1, <2>2
<1>10. CopyUp(CopyUnit(m, dp, sp, a), da, sa, w, 4) = CopyUnit(m, dp, sp, j)
  BY <1>8, CopyUpBehind
<1>11. CopyUp(CopyUnit(m, dp, sp, j), dj, sj, t, 1) = CopyUnit(m, dp, sp, len)
  BY <1>8, CopyUpBehind
<1> QED
  BY <1>1, <1>3, <1>4, <1>5, <1>6, <1>7, <1>9, <1>10, <1>11 DEF ThreePartsUp

(* A move downwards in bytes, words and bytes is a copy of the block. *)
LEMMA DownInThreeParts ==
    ASSUME NEW L, NEW m, Memory(m, L), NEW d \in Int, NEW e \in Int, NEW dp \in Int, NEW sp \in Int,
           NEW a \in Int, NEW w \in Int, NEW j \in Int, NEW t \in Int, NEW len \in Int,
           a >= 0, w >= 0, t >= 0, Sum(a, Size(w, 4), j), Sum(j, t, len), Sum(d, len, dp), Sum(e, len, sp), In(e, len, L), d >= e
    PROVE  ThreePartsDown(m, dp, sp, a, w, t) = CopyUnit(m, d, e, len)
<1>1. PICK W \in Nat : W = w * 4
  OBVIOUS
<1>2. Size(a, 1) = a /\ Size(w, 4) = W /\ Size(t, 1) = t
  BY <1>1, UnitSizes
<1>3. j = a + W /\ len = j + t
  BY <1>2 DEF Sum
<1>4. PICK da \in Int : da = dp - a
  OBVIOUS
<1>5. PICK sa \in Int : sa = sp - a
  OBVIOUS
<1>6. PICK dj \in Int : dj = dp - j
  OBVIOUS
<1>7. PICK sj \in Int : sj = sp - j
  OBVIOUS
<1>8. /\ Sum(da, Size(a, 1), dp) /\ Sum(sa, Size(a, 1), sp) /\ Sum(0, Size(a, 1), a) /\ In(sa, a, L)
      /\ Sum(dj, Size(w, 4), da) /\ Sum(sj, Size(w, 4), sa) /\ Sum(a, Size(w, 4), j) /\ In(sj, j, L)
      /\ Sum(d, Size(t, 1), dj) /\ Sum(e, Size(t, 1), sj) /\ Sum(j, Size(t, 1), len)
      /\ da >= sa /\ dj >= sj /\ j >= 0
  <2>1. dp = d + len /\ sp = e + len
    BY DEF Sum
  <2>2. In(sa, a, L) /\ In(sj, j, L) /\ da >= sa /\ dj >= sj /\ j >= 0
    BY <1>3, <1>4, <1>5, <1>6, <1>7, <2>1 DEF In, Memory
  <2>3. Sum(da, Size(a, 1), dp) /\ Sum(sa, Size(a, 1), sp) /\ Sum(0, Size(a, 1), a)
    BY <1>2, <1>4, <1>5 DEF Sum
  <2>4. Sum(dj, Size(w, 4), da) /\ Sum(sj, Size(w, 4), sa)
    BY <1>2, <1>3, <1>4, <1>5, <1>6, <1>7 DEF Sum
  <2>5. Sum(d, Size(t, 1), dj) /\ Sum(e, Size(t, 1), sj) /\ Sum(j, Size(t, 1), len)
    BY <1>2, <1>3, <1>6, <1>7, <2>1 DEF Sum
  <2> QED
    BY <2>2, <2>3, <2>4, <2>5
<1>9. CopyDown(m, dp, sp, a, 1) = CopyUnit(m, da, sa, a)
  <2>1. CopyDown(CopyUnit(m, dp, sp, 0), dp, sp, a, 1) = CopyUnit(m, da, sa, a)
    BY <1>8, CopyDownBefore
  <2>2. CopyUnit(m, dp, sp, 0) = m
    BY CopyNothing
  <2> QED
    BY <2>1, <2>2
<1>10. CopyDown(CopyUnit(m, da, sa, a), da, sa, w, 4) = CopyUnit(m, dj, sj, j)
  BY <1>8, CopyDownBefore
<1>11. CopyDown(CopyUnit(m, dj, sj, j), dj, sj, t, 1) = CopyUnit(m, d, e, len)
  BY <1>8, CopyDownBefore
<1> QED
  BY <1>1, <1>3, <1>4, <1>5, <1>6, <1>7, <1>9, <1>10, <1>11 DEF ThreePartsDown

(* A length beyond its unaligned first a cells is whole words and a rest. *)
LEMMA Quarters ==
    ASSUME NEW len \in Nat, NEW a \in 0..len
    PROVE  /\ (len - a) \div 4 \in Nat /\ (len - a) % 4 \in Nat
           /\ \E j \in Nat : Sum(a, Size((len - a) \div 4, 4), j) /\ Sum(j, (len - a) % 4, len)
<1>1. PICK x \in Nat : x = len - a
  OBVIOUS
<1>2. x \div 4 \in Nat /\ x % 4 \in Nat /\ (x \div 4) * 4 + (x % 4) = x
  OBVIOUS
<1>3. PICK q \in Nat : q = x \div 4
  BY <1>2
<1>4. PICK r \in Nat : r = x % 4
  BY <1>2
<1>5. PICK j \in Nat : j = a + q * 4
  OBVIOUS
<1>6. Sum(a, Size(q, 4), j) /\ Sum(j, r, len)
  BY <1>1, <1>2, <1>3, <1>4, <1>5 DEF Sum, Size
<1> QED
  BY <1>1, <1>3, <1>4, <1>6

(* It leaves what a move through a buffer of its own leaves, whatever the  *)
(* alignment of the regions and their overlap.                             *)
THEOREM MoveIsCopy ==
    ASSUME NEW L, NEW m, Memory(m, L), NEW d \in Nat, NEW e \in Nat, NEW len \in Nat, In(e, len, L)
    PROVE  safe_mem_prim_move(m, d, e, len) = CopyUnit(m, d, e, len)
<1>1. CASE d < e
  <2> DEFINE lead == IF ~Misaligned(d, e) THEN 0
                     ELSE IF NeverAligned(d, e) \/ len < 4 THEN len
                     ELSE 4 - (e % 4)
             up(a) == ThreePartsUp(m, d, e, a, (len - a) \div 4, (len - a) % 4)
  <2>1. MoveUp(m, d, e, len) = up(lead)
    BY DEF MoveUp, WSIZE, ThreePartsUp
  <2>2. lead \in 0..len
    OBVIOUS
  <2> HIDE DEF lead
  <2>3. up(lead) = CopyUnit(m, d, e, len)
    <3>1. PICK a \in 0..len : a = lead
      BY <2>2
    <3>2. PICK w \in Nat : w = (len - a) \div 4
      BY Quarters
    <3>3. PICK t \in Nat : t = (len - a) % 4
      BY Quarters
    <3>4. PICK j \in Nat : Sum(a, Size(w, 4), j) /\ Sum(j, t, len)
      BY <3>2, <3>3, Quarters
    <3> d <= e
      BY <1>1
    <3>5. ThreePartsUp(m, d, e, a, w, t) = CopyUnit(m, d, e, len)
      BY <3>4, UpInThreeParts
    <3> QED
      BY <3>1, <3>2, <3>3, <3>5
  <2> QED
    BY <1>1, <2>1, <2>3 DEF safe_mem_prim_move
<1>2. CASE ~(d < e)
  <2>1. PICK dp \in Nat : dp = d + len
    OBVIOUS
  <2>2. PICK sp \in Nat : sp = e + len
    OBVIOUS
  <2> DEFINE lead == IF ~Misaligned(dp, sp) THEN 0
                     ELSE IF NeverAligned(dp, sp) \/ len <= 4 THEN len
                     ELSE sp % 4
             down(a) == ThreePartsDown(m, dp, sp, a, (len - a) \div 4, (len - a) % 4)
  <2>3. MoveDown(m, dp, sp, len) = down(lead)
    BY DEF MoveDown, WSIZE, ThreePartsDown
  <2>4. lead \in 0..len
    OBVIOUS
  <2> HIDE DEF lead
  <2>5. down(lead) = CopyUnit(m, d, e, len)
    <3>1. PICK a \in 0..len : a = lead
      BY <2>4
    <3>2. PICK w \in Nat : w = (len - a) \div 4
      BY Quarters
    <3>3. PICK t \in Nat : t = (len - a) % 4
      BY Quarters
    <3>4. PICK j \in Nat : Sum(a, Size(w, 4), j) /\ Sum(j, t, len)
      BY <3>2, <3>3, Quarters
    <3>5. Sum(d, len, dp) /\ Sum(e, len, sp) /\ d >= e
      BY <1>2, <2>1, <2>2 DEF Sum
    <3>6. ThreePartsDown(m, dp, sp, a, w, t) = CopyUnit(m, d, e, len)
      BY <3>4, <3>5, DownInThreeParts
    <3> QED
      BY <3>1, <3>2, <3>3, <3>6
  <2> QED
    BY <1>2, <2>1, <2>2, <2>3, <2>5 DEF safe_mem_prim_move
<1> QED
  BY <1>1, <1>2

(* The primitives that move units of another size.                         *)
LEMMA MoveUnitsIsCopy ==
    ASSUME NEW L, NEW m, Memory(m, L), NEW d \in Nat, NEW e \in Nat, NEW n \in Nat, NEW u \in Nat,
           NEW len \in Nat, Sum(0, Size(n, u), len), In(e, len, L)
    PROVE  MoveUnits(m, d, e, n, u) = CopyUnit(m, d, e, len)
<1>1. len = Size(n, u) /\ Size(n, u) = n * u
  BY Sizes DEF Sum, Size
<1>2. Sum(d, 0, d) /\ Sum(e, 0, e) /\ CopyUnit(m, d, e, 0) = m
  BY CopyNothing DEF Sum
<1>3. CASE d < e
  <2>1. d <= e
    BY <1>3
  <2>2. CopyUp(CopyUnit(m, d, e, 0), d, e, n, u) = CopyUnit(m, d, e, len)
    BY <1>2, <2>1, CopyUpBehind
  <2> QED
    BY <1>2, <1>3, <2>2 DEF MoveUnits
<1>4. CASE ~(d < e)
  <2>1. PICK x \in Nat : x = d + len
    OBVIOUS
  <2>2. PICK y \in Nat : y = e + len
    OBVIOUS
  <2>3. Sum(d, Size(n, u), x) /\ Sum(e, Size(n, u), y) /\ d >= e
    BY <1>1, <1>4, <2>1, <2>2 DEF Sum
  <2>4. CopyDown(CopyUnit(m, x, y, 0), x, y, n, u) = CopyUnit(m, d, e, len)
    BY <2>3, CopyDownBefore
  <2>5. CopyUnit(m, x, y, 0) = m
    BY CopyNothing
  <2> QED
    BY <1>1, <1>4, <2>1, <2>2, <2>4, <2>5 DEF MoveUnits
<1> QED
  BY <1>3, <1>4

-----------------------------------------------------------------------------
(* The checks of the arguments. *)
LEMMA NoCheckFails ==
    ASSUME NEW n \in Nat, NEW checks, DOMAIN checks = 1..n,
           \A i \in 1..n : checks[i][2] # "EOK", FirstError(checks) = "EOK"
    PROVE  \A i \in 1..n : ~checks[i][1]
<1> DEFINE bad == {i \in 1..n : checks[i][1]}
<1>1. SUFFICES ASSUME bad # {} PROVE FALSE
  OBVIOUS
<1>2. bad \in SUBSET Nat
  OBVIOUS
<1>3. \E i \in bad : \A j \in bad : i <= j
  BY <1>1, <1>2, LeastMember
<1>4. Min(bad) \in bad
  BY <1>3 DEF Min
<1>5. FirstError(checks) = checks[Min(bad)][2]
  BY <1>1 DEF FirstError
<1> QED
  BY <1>4, <1>5

(* When each check of an argument fails. *)
LEMMA CheckValues ==
    ASSUME NEW p \in Nat, NEW n \in Nat, NEW max \in Int
    PROVE  /\ NullDest(p)[1] <=> p = 0
           /\ NullSrc(p)[1] <=> p = 0
           /\ Zero(n)[1] <=> n = 0
           /\ TooLong(n, max)[1] <=> n > max
<1>1. NullDest(p)[1] <=> p = 0
  BY DEF NullDest, NULL
<1>2. NullSrc(p)[1] <=> p = 0
  BY DEF NullSrc, NULL
<1>3. Zero(n)[1] <=> n = 0
  BY DEF Zero
<1>4. TooLong(n, max)[1] <=> n > max
  BY DEF TooLong
<1> QED
  BY <1>1, <1>2, <1>3, <1>4

(* What is known of the source once its checks have passed. *)
LEMMA SourceChecked ==
    ASSUME NEW src \in Nat, NEW n \in Nat, NEW dmax \in Nat, NEW apart \in BOOLEAN,
           FirstError(<<Zero(n), TooLong(n, dmax), NullSrc(src), <<~apart, "ESOVRLP">>>>) = "EOK"
    PROVE  src # 0 /\ n # 0 /\ n <= dmax /\ apart
<1> DEFINE o == <<~apart, "ESOVRLP">>
           c == <<Zero(n), TooLong(n, dmax), NullSrc(src), o>>
<1>1. DOMAIN c = 1..4 /\ 4 \in Nat
  OBVIOUS
<1>2. o[2] # "EOK" /\ (o[1] <=> ~apart)
  OBVIOUS
<1> HIDE DEF o
<1>3. c[1] = Zero(n) /\ c[2] = TooLong(n, dmax) /\ c[3] = NullSrc(src) /\ c[4] = o
  OBVIOUS
<1>4. NullSrc(src)[2] # "EOK" /\ Zero(n)[2] # "EOK" /\ TooLong(n, dmax)[2] # "EOK"
  BY DEF NullSrc, Zero, TooLong
<1> HIDE DEF c
<1>5. \A i \in 1..4 : c[i][2] # "EOK"
  BY <1>2, <1>3, <1>4
<1>6. FirstError(c) = "EOK"
  BY DEF c, o
<1>7. \A i \in 1..4 : ~c[i][1]
  BY <1>1, <1>5, <1>6, NoCheckFails
<1>8. ~NullSrc(src)[1] /\ ~Zero(n)[1] /\ ~TooLong(n, dmax)[1] /\ ~o[1]
  BY <1>3, <1>7
<1> QED
  <2>1. apart
    BY <1>2, <1>8
  <2>2. src # 0 /\ n # 0 /\ n <= dmax
    BY <1>8, CheckValues
  <2> QED
    BY <2>1, <2>2

(* The memory stays one whatever is written over it. *)
LEMMA FillType ==
    ASSUME NEW L, NEW m, Memory(m, L), NEW p \in Int, NEW n \in Int, NEW c \in Nat
    PROVE  Memory(Fill(m, p, n, c), L)
  BY DEF Memory, Fill

(* Two fills of neighbouring blocks are a fill of both. *)
LEMMA FillBehind ==
    ASSUME NEW L, NEW m, Memory(m, L), NEW p \in Int, NEW j \in Int, NEW n \in Int, NEW c,
           NEW q \in Int, NEW k \in Int, j >= 0, n >= 0, Sum(p, j, q), Sum(j, n, k)
    PROVE  Fill(Fill(m, p, j, c), q, n, c) = Fill(m, p, k, c)
<1> USE DEF Memory, Sum
<1>1. Fill(Fill(m, p, j, c), q, n, c)
      = [a \in 1..L |-> IF a \in q..(q + n - 1) THEN c ELSE IF a \in p..(p + j - 1) THEN c ELSE m[a]]
  BY DEF Fill
<1>2. \A a \in 1..L : a \in p..(p + k - 1) <=> a \in q..(q + n - 1) \/ a \in p..(p + j - 1)
  OBVIOUS
<1>3. Fill(m, p, k, c) = [a \in 1..L |-> IF a \in p..(p + k - 1) THEN c ELSE m[a]]
  BY DEF Fill
<1> QED
  BY <1>1, <1>2, <1>3

(* The primitive that sets bytes, by words where it can, sets all of them. *)
THEOREM SetIsFill ==
    ASSUME NEW L, NEW m, Memory(m, L), NEW p \in Nat, NEW n \in Nat, NEW c
    PROVE  safe_mem_prim_set(m, p, n, c) = Fill(m, p, n, c)
<1> DEFINE lead == Min({n, (4 - (p % 4)) % 4})
           set(a) == Fill(Fill(Fill(m, p, a, c), p + a, ((n - a) \div 4) * 4, c),
                          p + a + ((n - a) \div 4) * 4, (n - a) % 4, c)
<1>1. safe_mem_prim_set(m, p, n, c) = set(lead)
  BY DEF safe_mem_prim_set, WSIZE
<1>2. lead \in 0..n
  <2> DEFINE S == {n, (4 - (p % 4)) % 4}
  <2>1. S \in SUBSET Nat /\ n \in S
    OBVIOUS
  <2> HIDE DEF S
  <2>2. \E i \in S : \A k \in S : i <= k
    BY <2>1, LeastMember
  <2>3. Min(S) \in Nat /\ Min(S) <= n
    BY <2>1, <2>2 DEF Min
  <2> QED
    BY <2>3 DEF S
<1> HIDE DEF lead
<1>3. PICK a \in 0..n : a = lead
  BY <1>2
<1>4. PICK w \in Nat : w = (n - a) \div 4
  BY Quarters
<1>5. PICK t \in Nat : t = (n - a) % 4
  BY Quarters
<1>6. PICK j \in Nat : Sum(a, Size(w, 4), j) /\ Sum(j, t, n)
  BY <1>4, <1>5, Quarters
<1>7. PICK W \in Nat : W = w * 4
  OBVIOUS
<1>8. j = a + W /\ n = j + t
  BY <1>6, <1>7 DEF Sum, Size
<1>9. PICK x \in Int : x = p + a
  OBVIOUS
<1>10. PICK y \in Int : y = p + a + W
  OBVIOUS
<1>11. Sum(p, a, x) /\ Sum(a, W, j) /\ Sum(p, j, y) /\ Sum(j, t, n)
  BY <1>8, <1>9, <1>10 DEF Sum
<1>12. Fill(Fill(m, p, a, c), x, W, c) = Fill(m, p, j, c)
  BY <1>11, FillBehind
<1>13. Fill(Fill(m, p, j, c), y, t, c) = Fill(m, p, n, c)
  BY <1>11, FillBehind
<1> QED
  BY <1>1, <1>3, <1>4, <1>5, <1>7, <1>9, <1>10, <1>12, <1>13

(* A transfer, its two outcomes computed. *)
TransferOf(m, dest, dmax, src, smax, max, apart, cleared, moved) ==
    LET bad == FirstError(<<NullDest(dest), Zero(dmax), TooLong(dmax, max)>>)
        badSrc == FirstError(<<Zero(smax), TooLong(smax, dmax), NullSrc(src),
                               <<~apart, "ESOVRLP">>>>)
    IN  IF bad # "EOK" THEN Failed(m, bad)
        ELSE IF badSrc # "EOK" THEN Failed(cleared, badSrc)
        ELSE Done(moved)

(* It leaves a memory: when it succeeds, with a copy of len cells, which   *)
(* are no more than the size of the destination; when it fails, as it was  *)
(* or with the destination cleared.                                        *)
Transfers(r, m, L, dest, src, len, size) ==
    /\ Memory(r.mem, L)
    /\ r.err = "EOK" => r.mem = CopyUnit(m, dest, src, len) /\ len <= size
    /\ r.err # "EOK" => r.mem = m \/ r.mem = Fill(m, dest, size, 0)

(* A transfer that succeeds has a source that fits. *)
LEMMA TransferChecked ==
    ASSUME NEW m, NEW dest \in Nat, NEW dmax \in Nat, NEW src \in Nat, NEW smax \in Nat,
           NEW max \in Int, NEW apart \in BOOLEAN, NEW cleared, NEW moved, NEW r,
           r = TransferOf(m, dest, dmax, src, smax, max, apart, cleared, moved), r.err = "EOK"
    PROVE  src # 0 /\ smax <= dmax /\ apart
<1> DEFINE bad == FirstError(<<NullDest(dest), Zero(dmax), TooLong(dmax, max)>>)
           badSrc == FirstError(<<Zero(smax), TooLong(smax, dmax), NullSrc(src),
                                  <<~apart, "ESOVRLP">>>>)
<1>1. r = IF bad # "EOK" THEN Failed(m, bad) ELSE IF badSrc # "EOK" THEN Failed(cleared, badSrc) ELSE Done(moved)
  BY DEF TransferOf
<1>2. badSrc = "EOK" => src # 0 /\ smax <= dmax /\ apart
  BY SourceChecked
<1> HIDE DEF bad, badSrc
<1>3. badSrc = "EOK"
  BY <1>1 DEF Failed, Result
<1> QED
  BY <1>2, <1>3

(* What every function that checks, clears or moves leaves behind. *)
LEMMA TransferOutcome ==
    ASSUME NEW L, NEW m, NEW dest \in Nat, NEW dmax \in Nat, NEW src \in Nat, NEW smax \in Nat,
           NEW max \in Int, NEW apart \in BOOLEAN, NEW cleared, NEW size \in Nat, NEW moved,
           NEW len \in Nat, NEW r, Memory(m, L), cleared = Fill(m, dest, size, 0),
           smax <= dmax => len <= size, src # 0 => In(src, len, L),
           In(src, len, L) => moved = CopyUnit(m, dest, src, len),
           r = TransferOf(m, dest, dmax, src, smax, max, apart, cleared, moved)
    PROVE  Transfers(r, m, L, dest, src, len, size)
<1> DEFINE bad == FirstError(<<NullDest(dest), Zero(dmax), TooLong(dmax, max)>>)
           badSrc == FirstError(<<Zero(smax), TooLong(smax, dmax), NullSrc(src),
                                  <<~apart, "ESOVRLP">>>>)
<1>1. r = IF bad # "EOK" THEN Failed(m, bad) ELSE IF badSrc # "EOK" THEN Failed(cleared, badSrc) ELSE Done(moved)
  BY DEF TransferOf
<1>2. bad = "EOK" /\ badSrc = "EOK" => src # 0 /\ smax <= dmax /\ apart
  BY SourceChecked
<1> HIDE DEF bad, badSrc
<1>3. CASE bad # "EOK"
  <2>1. r.mem = m /\ r.err = bad
    BY <1>1, <1>3 DEF Failed, Result
  <2> QED
    BY <1>3, <2>1 DEF Transfers
<1>4. CASE bad = "EOK" /\ badSrc # "EOK"
  <2>1. r.mem = cleared /\ r.err = badSrc
    BY <1>1, <1>4 DEF Failed, Result
  <2>2. Memory(cleared, L)
    <3>1. 0 \in Nat
      OBVIOUS
    <3> QED
      BY <3>1, FillType
  <2> QED
    BY <1>4, <2>1, <2>2 DEF Transfers
<1>5. CASE bad = "EOK" /\ badSrc = "EOK"
  <2>3. r = Done(moved)
    BY <1>1, <1>5
  <2>1. r.mem = moved /\ r.err = "EOK" /\ src # 0 /\ smax <= dmax /\ apart
    <3>1. r.mem = moved /\ r.err = "EOK"
      BY <2>3 DEF Done, Result
    <3> QED
      BY <1>2, <1>5, <3>1
  <2>2. moved = CopyUnit(m, dest, src, len) /\ Memory(moved, L)
    BY <2>1, CopyUnitType
  <2> QED
    BY <1>5, <2>1, <2>2 DEF Transfers
<1> QED
  BY <1>3, <1>4, <1>5

(* Regions found not to overlap are apart. *)
LEMMA ApartRegions ==
    ASSUME NEW dest \in Nat, NEW dmax \in Nat, NEW src \in Nat, NEW smax \in Nat, NEW u \in {1, 2, 4},
           ~Overlap(dest, dmax, src, smax, u), smax <= dmax, dest # src
    PROVE  Disjoint(dest, smax * u, src, smax * u)
<1>1. CASE u = 1
  BY <1>1 DEF Overlap, Disjoint, Cells
<1>2. CASE u = 2
  BY <1>2 DEF Overlap, Disjoint, Cells
<1>3. CASE u = 4
  BY <1>3 DEF Overlap, Disjoint, Cells
<1> QED
  BY <1>1, <1>2, <1>3

(* The functions that copy and move blocks. *)
LEMMA BytesTransfer ==
    ASSUME NEW L, NEW m, Memory(m, L), NEW dest \in Nat, NEW dmax \in Nat, NEW src \in Nat,
           NEW n \in Nat, src # 0 => In(src, n * 1, L)
    PROVE  /\ Transfers(safe_memcpy(m, dest, dmax, src, n), m, L, dest, src, n * 1, dmax * 1)
           /\ safe_memcpy(m, dest, dmax, src, n).err = "EOK" =>
                  n <= dmax /\ ~Overlap(dest, dmax, src, n, 1)
           /\ Transfers(safe_memmove(m, dest, dmax, src, n), m, L, dest, src, n * 1, dmax * 1)
<1> DEFINE cleared == safe_mem_prim_set(m, dest, dmax, 0)
           moved == safe_mem_prim_move(m, dest, src, n)
           max == RSIZE_MAX_MEM
           wmax == RSIZE_MAX_MEM
           apart == ~Overlap(dest, dmax, src, n, 1)
           c == safe_memcpy(m, dest, dmax, src, n)
           v == safe_memmove(m, dest, dmax, src, n)
<1>1. PICK len \in Nat : len = n * 1
  OBVIOUS
<1>11. PICK size \in Nat : size = dmax * 1
  OBVIOUS
<1>2. (src # 0 => In(src, len, L)) /\ (n <= dmax => len <= size)
  BY <1>1, <1>11
<1>3. cleared = Fill(m, dest, size, 0)
  <2>1. size = dmax
    BY <1>11
  <2> QED
    BY <2>1, SetIsFill
<1>4. ASSUME In(src, len, L) PROVE moved = CopyUnit(m, dest, src, len)
  <2>1. len = n
    BY <1>1
  <2> QED
    BY <1>4, <2>1, MoveIsCopy
<1>5. max \in Int /\ wmax \in Int /\ apart \in BOOLEAN /\ TRUE \in BOOLEAN
  BY SafeLibAssumption DEF Overlap
<1>6. /\ c = TransferOf(m, dest, dmax, src, n, max, apart, cleared, moved)
      /\ v = TransferOf(m, dest, dmax, src, n, wmax, TRUE, cleared, moved)
  BY DEF safe_memcpy, safe_memmove, Transfer, TransferOf
<1> HIDE DEF cleared, moved, max, wmax, apart, c, v
<1>7. Transfers(c, m, L, dest, src, len, size)
  BY <1>2, <1>3, <1>4, <1>5, <1>6, TransferOutcome
<1>9. c.err = "EOK" => n <= dmax /\ apart
  BY <1>5, <1>6, TransferChecked
<1>8. Transfers(v, m, L, dest, src, len, size)
  BY <1>2, <1>3, <1>4, <1>5, <1>6, TransferOutcome
<1> QED
  BY <1>1, <1>7, <1>8, <1>9, <1>11 DEF c, v, apart

(* The copies and moves of units of two bytes. *)
LEMMA Units16Transfer ==
    ASSUME NEW L, NEW m, Memory(m, L), NEW dest \in Nat, NEW dmax \in Nat, NEW src \in Nat,
           NEW n \in Nat, src # 0 => In(src, n * 2, L)
    PROVE  /\ Transfers(safe_memcpy16(m, dest, dmax, src, n), m, L, dest, src, n * 2, dmax * 2)
           /\ safe_memcpy16(m, dest, dmax, src, n).err = "EOK" =>
                  n <= dmax /\ ~Overlap(dest, dmax, src, n, 2)
           /\ Transfers(safe_memmove16(m, dest, dmax, src, n), m, L, dest, src, n * 2, dmax * 2)
<1> DEFINE cleared == safe_mem_prim_set16(m, dest, dmax, 0)
           moved == safe_mem_prim_move16(m, dest, src, n)
           max == RSIZE_MAX_MEM \div 2
           wmax == RSIZE_MAX_MEM \div 2
           apart == ~Overlap(dest, dmax, src, n, 2)
           c == safe_memcpy16(m, dest, dmax, src, n)
           v == safe_memmove16(m, dest, dmax, src, n)
<1>1. PICK len \in Nat : len = n * 2
  OBVIOUS
<1>11. PICK size \in Nat : size = dmax * 2
  OBVIOUS
<1>2. (src # 0 => In(src, len, L)) /\ (n <= dmax => len <= size)
  BY <1>1, <1>11
<1>3. cleared = Fill(m, dest, size, 0)
  <2>1. size = 2 * dmax
    BY <1>11
  <2> QED
    BY <2>1 DEF safe_mem_prim_set16
<1>4. ASSUME In(src, len, L) PROVE moved = CopyUnit(m, dest, src, len)
  <2>1. Sum(0, Size(n, 2), len) /\ 2 \in Nat
    BY <1>1 DEF Sum, Size
  <2>2. MoveUnits(m, dest, src, n, 2) = CopyUnit(m, dest, src, len)
    BY <1>4, <2>1, MoveUnitsIsCopy
  <2> QED
    BY <2>2 DEF safe_mem_prim_move16
<1>5. max \in Int /\ wmax \in Int /\ apart \in BOOLEAN /\ TRUE \in BOOLEAN
  BY SafeLibAssumption DEF Overlap
<1>6. /\ c = TransferOf(m, dest, dmax, src, n, max, apart, cleared, moved)
      /\ v = TransferOf(m, dest, dmax, src, n, wmax, TRUE, cleared, moved)
  BY DEF safe_memcpy16, safe_memmove16, Transfer, TransferOf
<1> HIDE DEF cleared, moved, max, wmax, apart, c, v
<1>7. Transfers(c, m, L, dest, src, len, size)
  BY <1>2, <1>3, <1>4, <1>5, <1>6, TransferOutcome
<1>9. c.err = "EOK" => n <= dmax /\ apart
  BY <1>5, <1>6, TransferChecked
<1>8. Transfers(v, m, L, dest, src, len, size)
  BY <1>2, <1>3, <1>4, <1>5, <1>6, TransferOutcome
<1> QED
  BY <1>1, <1>7, <1>8, <1>9, <1>11 DEF c, v, apart

(* The copies and moves of units of four bytes. *)
LEMMA Units32Transfer ==
    ASSUME NEW L, NEW m, Memory(m, L), NEW dest \in Nat, NEW dmax \in Nat, NEW src \in Nat,
           NEW n \in Nat, src # 0 => In(src, n * 4, L)
    PROVE  /\ Transfers(safe_memcpy32(m, dest, dmax, src, n), m, L, dest, src, n * 4, dmax * 4)
           /\ safe_memcpy32(m, dest, dmax, src, n).err = "EOK" =>
                  n <= dmax /\ ~Overlap(dest, dmax, src, n, 4)
           /\ Transfers(safe_memmove32(m, dest, dmax, src, n), m, L, dest, src, n * 4, dmax * 4)
<1> DEFINE cleared == safe_mem_prim_set32(m, dest, dmax, 0)
           moved == safe_mem_prim_move32(m, dest, src, n)
           max == RSIZE_MAX_MEM \div 4
           wmax == RSIZE_MAX_MEM \div 4
           apart == ~Overlap(dest, dmax, src, n, 4)
           c == safe_memcpy32(m, dest, dmax, src, n)
           v == safe_memmove32(m, dest, dmax, src, n)
<1>1. PICK len \in Nat : len = n * 4
  OBVIOUS
<1>11. PICK size \in Nat : size = dmax * 4
  OBVIOUS
<1>2. (src # 0 => In(src, len, L)) /\ (n <= dmax => len <= size)
  BY <1>1, <1>11
<1>3. cleared = Fill(m, dest, size, 0)
  <2>1. size = 4 * dmax
    BY <1>11
  <2> QED
    BY <2>1 DEF safe_mem_prim_set32
<1>4. ASSUME In(src, len, L) PROVE moved = CopyUnit(m, dest, src, len)
  <2>1. Sum(0, Size(n, 4), len) /\ 4 \in Nat
    BY <1>1 DEF Sum, Size
  <2>2. MoveUnits(m, dest, src, n, 4) = CopyUnit(m, dest, src, len)
    BY <1>4, <2>1, MoveUnitsIsCopy
  <2> QED
    BY <2>2 DEF safe_mem_prim_move32
<1>5. max \in Int /\ wmax \in Int /\ apart \in BOOLEAN /\ TRUE \in BOOLEAN
  BY SafeLibAssumption DEF Overlap
<1>6. /\ c = TransferOf(m, dest, dmax, src, n, max, apart, cleared, moved)
      /\ v = TransferOf(m, dest, dmax, src, n, wmax, TRUE, cleared, moved)
  BY DEF safe_memcpy32, safe_memmove32, Transfer, TransferOf
<1> HIDE DEF cleared, moved, max, wmax, apart, c, v
<1>7. Transfers(c, m, L, dest, src, len, size)
  BY <1>2, <1>3, <1>4, <1>5, <1>6, TransferOutcome
<1>9. c.err = "EOK" => n <= dmax /\ apart
  BY <1>5, <1>6, TransferChecked
<1>8. Transfers(v, m, L, dest, src, len, size)
  BY <1>2, <1>3, <1>4, <1>5, <1>6, TransferOutcome
<1> QED
  BY <1>1, <1>7, <1>8, <1>9, <1>11 DEF c, v, apart

(* The copies and moves of wide characters of four bytes. *)
LEMMA WideTransfer ==
    ASSUME WCHAR_SIZE = 4, NEW L, NEW m, Memory(m, L), NEW dest \in Nat, NEW dmax \in Nat, NEW src \in Nat,
           NEW n \in Nat, src # 0 => In(src, n * 4, L)
    PROVE  /\ Transfers(safe_wmemcpy(m, dest, dmax, src, n), m, L, dest, src, n * 4, dmax * 4)
           /\ safe_wmemcpy(m, dest, dmax, src, n).err = "EOK" =>
                  n <= dmax /\ ~Overlap(dest, dmax, src, n, 4)
           /\ Transfers(safe_wmemmove(m, dest, dmax, src, n), m, L, dest, src, n * 4, dmax * 4)
<1> DEFINE cleared == SetWide(m, dest, dmax, 0)
           moved == MoveWide(m, dest, src, n)
           max == RSIZE_MAX_MEM
           wmax == RSIZE_MAX_MEM \div WCHAR_SIZE
           apart == ~Overlap(dest, dmax, src, n, 4)
           c == safe_wmemcpy(m, dest, dmax, src, n)
           v == safe_wmemmove(m, dest, dmax, src, n)
<1>1. PICK len \in Nat : len = n * 4
  OBVIOUS
<1>11. PICK size \in Nat : size = dmax * 4
  OBVIOUS
<1>2. (src # 0 => In(src, len, L)) /\ (n <= dmax => len <= size)
  BY <1>1, <1>11
<1>3. cleared = Fill(m, dest, size, 0)
  <2>1. safe_mem_prim_set(m, dest, size, 0) = Fill(m, dest, size, 0)
    BY SetIsFill
  <2> QED
    BY <1>11, <2>1 DEF SetWide
<1>4. ASSUME In(src, len, L) PROVE moved = CopyUnit(m, dest, src, len)
  <2>1. safe_mem_prim_move(m, dest, src, len) = CopyUnit(m, dest, src, len)
    BY <1>4, MoveIsCopy
  <2> QED
    BY <1>1, <2>1 DEF MoveWide
<1>5. max \in Int /\ wmax \in Int /\ apart \in BOOLEAN /\ TRUE \in BOOLEAN
  BY SafeLibAssumption DEF Overlap
<1>6. /\ c = TransferOf(m, dest, dmax, src, n, max, apart, cleared, moved)
      /\ v = TransferOf(m, dest, dmax, src, n, wmax, TRUE, cleared, moved)
  BY DEF safe_wmemcpy, safe_wmemmove, Transfer, TransferOf
<1> HIDE DEF cleared, moved, max, wmax, apart, c, v
<1>7. Transfers(c, m, L, dest, src, len, size)
  BY <1>2, <1>3, <1>4, <1>5, <1>6, TransferOutcome
<1>9. c.err = "EOK" => n <= dmax /\ apart
  BY <1>5, <1>6, TransferChecked
<1>8. Transfers(v, m, L, dest, src, len, size)
  BY <1>2, <1>3, <1>4, <1>5, <1>6, TransferOutcome
<1> QED
  BY <1>1, <1>7, <1>8, <1>9, <1>11 DEF c, v, apart

(* The functions that set blocks. *)
LEMMA Sets ==
    ASSUME NEW L, NEW m, NEW dest \in Nat, NEW n \in Nat, NEW value \in Nat, Memory(m, L)
    PROVE  /\ safe_memset(m, dest, n, value).mem \in {m, Fill(m, dest, n * 1, value)}
           /\ safe_memzero(m, dest, n).mem \in {m, Fill(m, dest, n * 1, 0)}
           /\ safe_memset16(m, dest, n, value).mem \in {m, Fill(m, dest, n * 2, value)}
           /\ safe_memzero16(m, dest, n).mem \in {m, Fill(m, dest, n * 2, 0)}
           /\ safe_memset32(m, dest, n, value).mem \in {m, Fill(m, dest, n * 4, value)}
           /\ safe_memzero32(m, dest, n).mem \in {m, Fill(m, dest, n * 4, 0)}
           /\ safe_wmemset(m, dest, value, n).mem \in {m, Fill(m, dest, n * 4, value)}
<1> DEFINE bad(max) == FirstError(<<NullDest(dest), Zero(n), TooLong(n, max)>>)
<1>1. n * 1 = n /\ n * 2 = 2 * n /\ n * 4 = 4 * n
  OBVIOUS
<1>2. safe_memset(m, dest, n, value).mem \in {m, Fill(m, dest, n * 1, value)}
  <2> DEFINE set == safe_mem_prim_set(m, dest, n, value)
             no == bad(RSIZE_MAX_MEM)
  <2>1. safe_memset(m, dest, n, value) = IF no # "EOK" THEN Failed(m, no) ELSE Done(set)
    BY DEF safe_memset, SetAll
  <2>2. set = Fill(m, dest, n * 1, value)
    BY <1>1, SetIsFill
  <2> HIDE DEF set, no
  <2>3. safe_memset(m, dest, n, value).mem \in {m, set}
    BY <2>1 DEF Failed, Done, Result
  <2> QED
    BY <2>2, <2>3
<1>3. safe_memzero(m, dest, n).mem \in {m, Fill(m, dest, n * 1, 0)}
  <2> DEFINE set == safe_mem_prim_set(m, dest, n, 0)
             no == bad(RSIZE_MAX_MEM)
  <2>1. safe_memzero(m, dest, n) = IF no # "EOK" THEN Failed(m, no) ELSE Done(set)
    BY DEF safe_memzero, SetAll
  <2>2. set = Fill(m, dest, n * 1, 0)
    BY <1>1, SetIsFill
  <2> HIDE DEF set, no
  <2>3. safe_memzero(m, dest, n).mem \in {m, set}
    BY <2>1 DEF Failed, Done, Result
  <2> QED
    BY <2>2, <2>3
<1>4. safe_memset16(m, dest, n, value).mem \in {m, Fill(m, dest, n * 2, value)}
  <2> DEFINE set == safe_mem_prim_set16(m, dest, n, value)
             no == bad(RSIZE_MAX_MEM \div 2)
  <2>1. safe_memset16(m, dest, n, value) = IF no # "EOK" THEN Failed(m, no) ELSE Done(set)
    BY DEF safe_memset16, SetAll
  <2>2. set = Fill(m, dest, n * 2, value)
    BY <1>1 DEF safe_mem_prim_set16
  <2> HIDE DEF set, no
  <2>3. safe_memset16(m, dest, n, value).mem \in {m, set}
    BY <2>1 DEF Failed, Done, Result
  <2> QED
    BY <2>2, <2>3
<1>5. safe_memzero16(m, dest, n).mem \in {m, Fill(m, dest, n * 2, 0)}
  <2> DEFINE set == safe_mem_prim_set16(m, dest, n, 0)
             no == bad(RSIZE_MAX_MEM \div 2)
  <2>1. safe_memzero16(m, dest, n) = IF no # "EOK" THEN Failed(m, no) ELSE Done(set)
    BY DEF safe_memzero16, SetAll
  <2>2. set = Fill(m, dest, n * 2, 0)
    BY <1>1 DEF safe_mem_prim_set16
  <2> HIDE DEF set, no
  <2>3. safe_memzero16(m, dest, n).mem \in {m, set}
    BY <2>1 DEF Failed, Done, Result
  <2> QED
    BY <2>2, <2>3
<1>6. safe_memset32(m, dest, n, value).mem \in {m, Fill(m, dest, n * 4, value)}
  <2> DEFINE set == safe_mem_prim_set32(m, dest, n, value)
             no == bad(RSIZE_MAX_MEM \div 4)
  <2>1. safe_memset32(m, dest, n, value) = IF no # "EOK" THEN Failed(m, no) ELSE Done(set)
    BY DEF safe_memset32, SetAll
  <2>2. set = Fill(m, dest, n * 4, value)
    BY <1>1 DEF safe_mem_prim_set32
  <2> HIDE DEF set, no
  <2>3. safe_memset32(m, dest, n, value).mem \in {m, set}
    BY <2>1 DEF Failed, Done, Result
  <2> QED
    BY <2>2, <2>3
<1>7. safe_memzero32(m, dest, n).mem \in {m, Fill(m, dest, n * 4, 0)}
  <2> DEFINE set == safe_mem_prim_set32(m, dest, n, 0)
             no == bad(RSIZE_MAX_MEM \div 4)
  <2>1. safe_memzero32(m, dest, n) = IF no # "EOK" THEN Failed(m, no) ELSE Done(set)
    BY DEF safe_memzero32, SetAll
  <2>2. set = Fill(m, dest, n * 4, 0)
    BY <1>1 DEF safe_mem_prim_set32
  <2> HIDE DEF set, no
  <2>3. safe_memzero32(m, dest, n).mem \in {m, set}
    BY <2>1 DEF Failed, Done, Result
  <2> QED
    BY <2>2, <2>3
<1>8. safe_wmemset(m, dest, value, n).mem \in {m, Fill(m, dest, n * 4, value)}
  <2> DEFINE set == safe_mem_prim_set32(m, dest, n, value)
             no == bad(RSIZE_MAX_MEM \div WCHAR_SIZE)
  <2>1. safe_wmemset(m, dest, value, n) = IF no # "EOK" THEN Failed(m, no) ELSE Done(set)
    BY DEF safe_wmemset, SetAll
  <2>2. set = Fill(m, dest, n * 4, value)
    BY <1>1 DEF safe_mem_prim_set32
  <2> HIDE DEF set, no
  <2>3. safe_wmemset(m, dest, value, n).mem \in {m, set}
    BY <2>1 DEF Failed, Done, Result
  <2> QED
    BY <2>2, <2>3
<1> QED
  BY <1>2, <1>3, <1>4, <1>5, <1>6, <1>7, <1>8
-----------------------------------------------------------------------------

(* The least member of a set of numbers, and the number of characters. *)
LEMMA MinMember ==
    ASSUME NEW S \in SUBSET Nat, S # {}
    PROVE  Min(S) \in S /\ \A k \in S : Min(S) <= k
<1>1. \E n \in S : \A k \in S : n <= k
  BY LeastMember
<1> QED
  BY <1>1 DEF Min

(* The greatest of some numbers up to L. *)
LEMMA MaxMember ==
    ASSUME NEW L \in Nat, NEW S \in SUBSET (0..L), S # {}
    PROVE  Max(S) \in S /\ \A k \in S : k <= Max(S)
<1> DEFINE T == {L - k : k \in S}
<1>0. \A k \in S : k \in Nat /\ L - k \in Nat
  OBVIOUS
<1>1. T \in SUBSET Nat /\ T # {}
  BY <1>0
<1>2. PICK t \in T : \A k \in T : t <= k
  BY <1>1, LeastMember
<1>3. PICK n \in S : t = L - n
  BY <1>2
<1>4. \A k \in S : n >= k
  <2>1. \A k \in S : L - k \in T
    OBVIOUS
  <2> HIDE DEF T
  <2>2. \A k \in S : t <= L - k
    BY <1>2, <2>1
  <2> QED
    BY <1>3, <2>2
<1>5. \E x \in S : \A y \in S : x >= y
  BY <1>4
<1>6. Max(S) \in S /\ \A k \in S : Max(S) >= k
  BY <1>5 DEF Max
<1> QED
  BY <1>6

(* k characters that are not the terminator, and the terminator or the     *)
(* limit behind them.                                                      *)
Plain(m, p, k) == \A i \in 0..(k - 1) : m[p + i] # 0
IsLength(m, p, n, k) == k \in 0..n /\ Plain(m, p, k) /\ (k < n => m[p + k] = 0)

(* The length of a string is where its terminator stands. *)
LEMMA LengthIs ==
    ASSUME NEW m, NEW p, NEW n \in Nat
    PROVE  IsLength(m, p, n, Length(m, p, n))
<1> DEFINE S == {k \in 0..n : k = n \/ m[p + k] = 0}
<1>1. S \in SUBSET Nat /\ n \in S
  OBVIOUS
<1>2. \A k : k \in S <=> k \in 0..n /\ (k = n \/ m[p + k] = 0)
  OBVIOUS
<1> HIDE DEF S
<1>3. Min(S) \in S /\ \A k \in S : Min(S) <= k
  BY <1>1, MinMember
<1>4. Length(m, p, n) = Min(S)
  BY DEF Length, S
<1>5. \A i \in 0..(Min(S) - 1) : m[p + i] # 0
  <2> SUFFICES ASSUME NEW i \in 0..(Min(S) - 1) PROVE m[p + i] # 0
    OBVIOUS
  <2>1. i \in 0..n /\ i \notin S
    BY <1>2, <1>3
  <2> QED
    BY <1>2, <2>1
<1> QED
  BY <1>2, <1>3, <1>4, <1>5 DEF IsLength, Plain

(* A string has one length. *)
LEMMA OneLength ==
    ASSUME NEW m, NEW p, NEW n \in Nat, NEW k, IsLength(m, p, n, k), NEW j, IsLength(m, p, n, j)
    PROVE  k = j
<1>1. k \in Nat /\ j \in Nat /\ k <= n /\ j <= n
  BY DEF IsLength
<1>2. ASSUME k < j PROVE FALSE
  BY <1>1, <1>2 DEF IsLength, Plain
<1>3. ASSUME j < k PROVE FALSE
  BY <1>1, <1>3 DEF IsLength, Plain
<1> QED
  BY <1>1, <1>2, <1>3

(* A copy of single cells; what a loop has not reached yet is as it was.   *)
LEMMA CopyCells ==
    ASSUME NEW L, NEW m, Memory(m, L), NEW dp \in Int, NEW sp \in Int, NEW k \in Int,
           k >= 0, In(sp, k, L), Upwards(dp, sp, k)
    PROVE  CopyUp(m, dp, sp, k, 1) = CopyUnit(m, dp, sp, k)
<1>1. Size(k, 1) = k
  BY DEF Size
<1> QED
  BY <1>1, CopyUpIsCopy

(* The next character of the source is not overwritten before it is read. *)
LEMMA NotYetCopied ==
    ASSUME NEW L, NEW m, Memory(m, L), NEW dp \in Int, NEW sp \in Int, NEW k \in Int,
           sp + k \in 1..L, dp <= sp \/ sp + k < dp
    PROVE  CopyUnit(m, dp, sp, k)[sp + k] = m[sp + k]
  BY DEF Memory, CopyUnit

(* The destination starts below the source and must not run into it, or    *)
(* the source lies below a bumper that the destination begins behind.      *)
Guarded(dest, src, below, bumper) ==
    \/ below = TRUE /\ dest <= src /\ bumper = src
    \/ below = FALSE /\ src <= bumper /\ bumper <= dest

Clear(dest, src, below, bumper, n) == IF below THEN dest + n <= src ELSE src + n <= bumper
Apart(dest, src, n) == dest + n <= src \/ src + n <= dest

(* How far a loop that has met no overlap so far has come. *)
LEMMA LoopReach ==
    ASSUME NEW dest \in Int, NEW src \in Int, NEW below, NEW bumper \in Int, NEW n \in Int, n >= 0,
           Guarded(dest, src, below, bumper),
           \A k \in 0..(n - 1) : ~Bumped(dest + k, src + k, below, bumper)
    PROVE  /\ Clear(dest, src, below, bumper, n)
           /\ Apart(dest, src, n)
           /\ ~Bumped(dest + n, src + n, below, bumper) <=> Clear(dest, src, below, bumper, n + 1)
           /\ Clear(dest, src, below, bumper, n + 1) => Apart(dest, src, n + 1)
<1>1. CASE below = TRUE /\ dest <= src /\ bumper = src
  <2>1. ASSUME n > src - dest PROVE FALSE
    <3>1. PICK k \in 0..(n - 1) : k = src - dest
      BY <1>1, <2>1
    <3> QED
      BY <1>1, <3>1 DEF Bumped
  <2> QED
    BY <1>1, <2>1 DEF Bumped, Apart, Clear
<1>2. CASE below = FALSE /\ src <= bumper /\ bumper <= dest
  <2>1. ASSUME n > bumper - src PROVE FALSE
    <3>1. PICK k \in 0..(n - 1) : k = bumper - src
      BY <1>2, <2>1
    <3> QED
      BY <1>2, <3>1 DEF Bumped
  <2> QED
    BY <1>2, <2>1 DEF Bumped, Apart, Clear
<1> QED
  BY <1>1, <1>2 DEF Guarded

(* What a loop has copied when it comes to its k-th character. *)
LEMMA CopiedSoFar ==
    ASSUME NEW L, NEW m, Memory(m, L), NEW dest \in Int, NEW src \in Int, NEW k \in Int,
           k >= 0, In(src, k, L), Apart(dest, src, k)
    PROVE  /\ CopyUp(m, dest, src, k, 1) = CopyUnit(m, dest, src, k)
           /\ src + k <= L /\ Apart(dest, src, k + 1) => CopyUp(m, dest, src, k, 1)[src + k] = m[src + k]
           /\ dest < src /\ src + k <= L => CopyUp(m, dest, src, k, 1)[src + k] = m[src + k]
<1>1. Upwards(dest, src, k)
  BY DEF Apart, Upwards
<1>2. CopyUp(m, dest, src, k, 1) = CopyUnit(m, dest, src, k)
  BY <1>1, CopyCells
<1>3. ASSUME src + k <= L, Apart(dest, src, k + 1) \/ dest < src
      PROVE  CopyUnit(m, dest, src, k)[src + k] = m[src + k]
  <2>1. src + k \in 1..L /\ (dest <= src \/ src + k < dest)
    BY <1>3 DEF Apart, In
  <2> QED
    BY <2>1, NotYetCopied
<1> QED
  BY <1>2, <1>3

(* The n-th character is where the copying loop stops. *)
LoopStops(m, dest, dmax, src, slen, below, bumper, n) ==
    /\ n \in 0..dmax
    /\ Plain(m, src, n)
    /\ \A k \in 0..(n - 1) : k # slen
    /\ Clear(dest, src, below, bumper, n)
    /\ n < dmax /\ Clear(dest, src, below, bumper, n + 1) => n = slen \/ m[src + n] = 0

LoopResult(m, dest, dmax, src, below, bumper, n) ==
    LET b == CopyUnit(m, dest, src, n)
    IN  IF n = dmax THEN Failed(b, "ESNOSPC")
        ELSE IF ~Clear(dest, src, below, bumper, n + 1) THEN Failed(b, "ESOVRLP")
        ELSE Returns(Put(b, dest + n, 0), dest + n)

(* The loop stops after some n characters, for one of its reasons. *)
LEMMA CopyLoopStops ==
    ASSUME NEW L, NEW m, Memory(m, L), NEW dest \in Int, NEW dmax \in Int, NEW src \in Int,
           NEW slen, NEW below, NEW bumper \in Int, dmax >= 0, Guarded(dest, src, below, bumper),
           In(src, dmax, L)
    PROVE  \E n : /\ LoopStops(m, dest, dmax, src, slen, below, bumper, n)
                  /\ CopyLoop(m, dest, dmax, src, slen, below, bumper)
                     = LoopResult(m, dest, dmax, src, below, bumper, n)
<1> DEFINE After(k) == CopyUp(m, dest, src, k, 1)
           Meets(k) == Bumped(dest + k, src + k, below, bumper)
           S == {k \in 0..dmax : k = dmax \/ Meets(k) \/ k = slen \/ After(k)[src + k] = 0}
           n == Min(S)
<1>1. S \in SUBSET Nat /\ dmax \in S
  OBVIOUS
<1>2. \A k : k \in S <=> k \in 0..dmax /\ (k = dmax \/ Meets(k) \/ k = slen \/ After(k)[src + k] = 0)
  OBVIOUS
<1>3. CopyLoop(m, dest, dmax, src, slen, below, bumper)
      = IF n = dmax THEN Failed(After(n), "ESNOSPC")
        ELSE IF Meets(n) THEN Failed(After(n), "ESOVRLP")
        ELSE Returns(Put(After(n), dest + n, 0), dest + n)
  BY DEF CopyLoop
<1> HIDE DEF S
<1>4. n \in S /\ \A k \in S : n <= k
  BY <1>1, MinMember
<1> HIDE DEF n, After, Meets
<1>5. n \in 0..dmax
  BY <1>2, <1>4
<1>6. \A k \in 0..(n - 1) : ~Meets(k) /\ k # slen /\ After(k)[src + k] # 0
  BY <1>2, <1>4, <1>5
<1>7. ASSUME NEW k \in 0..n
      PROVE  /\ Clear(dest, src, below, bumper, k) /\ After(k) = CopyUnit(m, dest, src, k)
             /\ ~Meets(k) <=> Clear(dest, src, below, bumper, k + 1)
             /\ ~Meets(k) /\ k < dmax => After(k)[src + k] = m[src + k]
  <2>1. /\ Apart(dest, src, k) /\ Clear(dest, src, below, bumper, k)
        /\ ~Meets(k) <=> Clear(dest, src, below, bumper, k + 1)
        /\ ~Meets(k) => Apart(dest, src, k + 1)
    BY <1>5, <1>6, LoopReach DEF Meets
  <2>2. In(src, k, L) /\ (k < dmax => src + k <= L)
    BY <1>5 DEF In, Memory
  <2> QED
    BY <2>1, <2>2, CopiedSoFar DEF After
<1>8. Plain(m, src, n)
  BY <1>5, <1>6, <1>7 DEF Plain
<1>9. n < dmax /\ ~Meets(n) => n = slen \/ m[src + n] = 0
  BY <1>2, <1>4, <1>5, <1>7
<1>10. LoopStops(m, dest, dmax, src, slen, below, bumper, n)
  BY <1>5, <1>6, <1>7, <1>8, <1>9 DEF LoopStops
<1>11. CopyLoop(m, dest, dmax, src, slen, below, bumper) = LoopResult(m, dest, dmax, src, below, bumper, n)
  BY <1>3, <1>5, <1>7 DEF LoopResult
<1> QED
  BY <1>10, <1>11

(* What a call keeps, what it leaves when it fails, and what it does when  *)
(* it copies n characters to the at-th character of dest.                  *)
Kept(r, m, L, dest, n) ==
    Memory(r.mem, L) /\ \A a \in 1..L : a \notin Cells(dest, n) => r.mem[a] = m[a]

EmptyAtLeast(r, m, dest) == r.err # "EOK" => r.mem = m \/ r.mem[dest] = 0

Fits(dest, at, dmax, src, n) == at + n < dmax /\ Disjoint(dest, at + n + 1, src, n + 1)

WithString(m, p, src, n) ==
    [a \in DOMAIN m |-> IF a \in Cells(p, n) THEN m[src + (a - p)] ELSE IF a = p + n THEN 0 ELSE m[a]]

Copied(r, m, dest, at, dmax, src, n) ==
    /\ r.err = "EOK" <=> Fits(dest, at, dmax, src, n)
    /\ r.err = "EOK" => r.mem = WithString(m, dest + at, src, n)

(* The characters to copy: the string at src, or slen of it. *)
Asked(m, L, src, slen, n) ==
    \E k : /\ IsLength(m, src, L - src, k)
           /\ n = IF slen = NoLimit THEN k ELSE IF slen < k THEN slen ELSE k

(* The loop comes to the last character asked for, unless it ends before. *)
LEMMA LoopComesToTheEnd ==
    ASSUME NEW L, NEW m, Memory(m, L), NEW p \in Int, NEW d \in Int, NEW src \in Int,
           NEW slen \in Int, NEW below, NEW bumper \in Int, NEW n, NEW c,
           d >= 0, slen = NoLimit \/ slen >= 0, In(src, d + 1, L),
           LoopStops(m, p, d, src, slen, below, bumper, n), Asked(m, L, src, slen, c)
    PROVE  /\ n \in Nat /\ c \in Nat /\ n <= c
           /\ n < d /\ Clear(p, src, below, bumper, n + 1) => n = c
<1>1. PICK k : IsLength(m, src, L - src, k) /\ c = IF slen = NoLimit THEN k ELSE IF slen < k THEN slen ELSE k
  BY DEF Asked
<1>2. n \in 0..d /\ k \in 0..(L - src) /\ L \in Nat
  BY <1>1 DEF LoopStops, IsLength, Memory
<1>3. n <= L - src /\ d < L - src + 1
  BY <1>2 DEF In
<1>4. n <= k
  BY <1>1, <1>2, <1>3 DEF IsLength, LoopStops, Plain
<1>5. slen = NoLimit \/ n <= slen
  <2> SUFFICES ASSUME slen >= 0, slen < n PROVE FALSE
    BY <1>2
  <2>1. slen \in 0..(n - 1)
    BY <1>2
  <2> QED
    BY <2>1 DEF LoopStops
<1>6. NoLimit = -1
  BY DEF NoLimit
<1>7. ASSUME n < d, m[src + n] = 0 PROVE n = k
  <2>1. ~(n < k)
    BY <1>1, <1>2, <1>7 DEF IsLength, Plain
  <2> QED
    BY <1>2, <1>4, <2>1
<1> QED
  BY <1>1, <1>2, <1>4, <1>5, <1>6, <1>7 DEF LoopStops

(* The bumper of a string at dest. *)
Bumper(dest, src) == IF dest < src THEN src ELSE dest

(* A character that is put into the memory. *)
LEMMA PutType ==
    ASSUME NEW L, NEW m, Memory(m, L), NEW p \in Int, NEW c \in Nat
    PROVE  Memory(Put(m, p, c), L) /\ \A a \in 1..L : Put(m, p, c)[a] = IF a = p THEN c ELSE m[a]
  BY DEF Memory, Put

(* A copy of n characters and a terminator is a string. *)
LEMMA Terminated ==
    ASSUME NEW L, NEW m, Memory(m, L), NEW p \in Int, NEW src \in Int, NEW n \in Nat
    PROVE  Put(CopyUnit(m, p, src, n), p + n, 0) = WithString(m, p, src, n)
<1>1. DOMAIN m = 1..L
  BY DEF Memory
<1>2. Put(CopyUnit(m, p, src, n), p + n, 0)
      = [a \in 1..L |-> IF a = p + n THEN 0 ELSE IF a \in p..(p + n - 1) THEN m[src + (a - p)] ELSE m[a]]
  BY <1>1 DEF Put, CopyUnit
<1>3. p + n \notin p..(p + n - 1)
  OBVIOUS
<1> QED
  BY <1>1, <1>2, <1>3 DEF WithString, Cells

(* Copying slen characters, or a string, to the at-th character of dest. *)
LEMMA CopyToDoes ==
    ASSUME NEW L, NEW m, Memory(m, L), NEW dest \in Int, NEW at \in Int, NEW dmax \in Int,
           NEW src \in Int, NEW slen \in Int, NEW p \in Int, NEW d \in Int, NEW r,
           at >= 0, d > 0, Sum(dest, at, p), Sum(at, d, dmax), slen = NoLimit \/ slen >= 0,
           dest >= 1, dest <= L, In(src, dmax + 1, L), dest < src => p <= src,
           r = EmptyOnError(CopyLoop(m, p, d, src, slen, dest < src, Bumper(dest, src)), dest)
    PROVE  /\ Kept(r, m, L, dest, dmax) /\ EmptyAtLeast(r, m, dest)
           /\ dest # src => \A n : Asked(m, L, src, slen, n) => Copied(r, m, dest, at, dmax, src, n)
<1> DEFINE bumper == Bumper(dest, src)
           below == dest < src
           loop == CopyLoop(m, p, d, src, slen, below, bumper)
<1>1. d \in Int /\ d >= 0 /\ bumper \in Int /\ Guarded(p, src, below, bumper) /\ In(src, d, L) /\ In(src, d + 1, L)
  BY DEF Bumper, Guarded, In, Memory, Sum
<1>0. r = EmptyOnError(loop, dest)
  OBVIOUS
<1> HIDE DEF bumper, below
<1>9. loop = CopyLoop(m, p, d, src, slen, below, bumper)
  OBVIOUS
<1> HIDE DEF loop
<1>2. PICK n : LoopStops(m, p, d, src, slen, below, bumper, n) /\ loop = LoopResult(m, p, d, src, below, bumper, n)
  BY <1>1, <1>9, CopyLoopStops
<1>3. n \in 0..d /\ n \in Nat
  BY <1>2 DEF LoopStops
<1> DEFINE b == CopyUnit(m, p, src, n)
<1>4. Memory(b, L) /\ \A a \in 1..L : a \notin Cells(dest, dmax) => b[a] = m[a]
  <2>1. In(src, n, L)
    BY <1>1, <1>3 DEF In, Memory, Sum
  <2>2. \A a \in Int : a \notin Cells(dest, dmax) => a \notin p..(p + n - 1)
    BY <1>3 DEF Cells, Sum
  <2>3. Memory(b, L)
    BY <1>3, <2>1, CopyUnitType
  <2>4. \A a \in 1..L : b[a] = IF a \in p..(p + n - 1) THEN m[src + (a - p)] ELSE m[a]
    BY DEF CopyUnit, Memory
  <2> QED
    BY <2>2, <2>3, <2>4
<1>5. \A e : loop = Failed(b, e) => loop.mem = b /\ loop.err = e
  BY DEF Failed, Result
<1>8. ASSUME NEW c, Asked(m, L, src, slen, c)
      PROVE  c \in Nat /\ n <= c /\ (n < d /\ Clear(p, src, below, bumper, n + 1) => n = c)
  BY <1>1, <1>2, <1>8, LoopComesToTheEnd
<1>6. CASE n < d /\ Clear(p, src, below, bumper, n + 1)
  <2>1. loop = Returns(Put(b, p + n, 0), p + n)
    BY <1>2, <1>3, <1>6 DEF LoopResult
  <2>2. r.mem = Put(b, p + n, 0) /\ r.err = "EOK"
    BY <1>0, <2>1 DEF EmptyOnError, Returns, Result
  <2>3. Kept(r, m, L, dest, dmax)
    <3>1. p + n \in Cells(dest, dmax) /\ p + n \in Int /\ 0 \in Nat
      BY <1>3, <1>6 DEF Cells, Sum
    <3> HIDE DEF b
    <3>2. Memory(r.mem, L) /\ \A a \in 1..L : r.mem[a] = IF a = p + n THEN 0 ELSE b[a]
      BY <1>4, <2>2, <3>1, PutType
    <3> QED
      BY <1>4, <3>1, <3>2 DEF Kept
  <2>4. ASSUME dest # src, NEW c, Asked(m, L, src, slen, c) PROVE Copied(r, m, dest, at, dmax, src, c)
    <3>1. n = c
      BY <1>6, <1>8, <2>4
    <3>2. r.mem = WithString(m, dest + at, src, c)
      BY <1>3, <2>2, <3>1, Terminated DEF Sum
    <3>3. Fits(dest, at, dmax, src, c)
      BY <1>3, <1>6, <2>4, <3>1 DEF Fits, Disjoint, Cells, Clear, Bumper, bumper, below, Sum
    <3> QED
      BY <2>2, <3>2, <3>3 DEF Copied
  <2> QED
    BY <2>2, <2>3, <2>4 DEF EmptyAtLeast
<1>7. CASE ~(n < d /\ Clear(p, src, below, bumper, n + 1))
  <2>1. loop = Failed(b, "ESNOSPC") \/ loop = Failed(b, "ESOVRLP")
    BY <1>2, <1>3, <1>7 DEF LoopResult
  <2>2. r.mem = Put(b, dest, 0) /\ r.err # "EOK"
    BY <1>0, <1>5, <2>1 DEF EmptyOnError, Nulled, Failed, Result
  <2> HIDE DEF b
  <2>3. Memory(r.mem, L) /\ \A a \in 1..L : r.mem[a] = IF a = dest THEN 0 ELSE b[a]
    BY <1>4, <2>2, PutType
  <2>4. dest \in Cells(dest, dmax) /\ dest \in 1..L
    BY DEF Cells, Memory, Sum
  <2>5. Kept(r, m, L, dest, dmax) /\ EmptyAtLeast(r, m, dest)
    BY <1>4, <2>3, <2>4 DEF Kept, EmptyAtLeast
  <2>6. ASSUME dest # src, NEW c, Asked(m, L, src, slen, c) PROVE ~Fits(dest, at, dmax, src, c)
    <3>1. n <= c /\ c \in Nat
      BY <1>8, <2>6
    <3>2. CASE n = d
      BY <3>1, <3>2 DEF Fits, Sum
    <3>3. CASE ~Clear(p, src, below, bumper, n + 1)
      <4>1. CASE dest < src
        <5>1. src \in Cells(dest, at + c + 1) /\ src \in Cells(src, c + 1)
          BY <1>3, <3>1, <3>3, <4>1 DEF Clear, Cells, below, Sum
        <5> QED
          BY <5>1 DEF Fits, Disjoint
      <4>2. CASE src < dest
        <5>1. dest \in Cells(dest, at + c + 1) /\ dest \in Cells(src, c + 1)
          BY <1>3, <3>1, <3>3, <4>2 DEF Clear, Cells, Bumper, bumper, below, Sum
        <5> QED
          BY <5>1 DEF Fits, Disjoint
      <4> QED
        BY <2>6, <4>1, <4>2
    <3> QED
      BY <1>3, <1>7, <3>2, <3>3
  <2> QED
    BY <2>2, <2>5, <2>6 DEF Copied
<1> QED
  BY <1>6, <1>7

(* Checks of the arguments, of which none is about no error. *)
LEMMA FirstErrorOfThree ==
    ASSUME NEW a, NEW b, NEW c, a[2] # "EOK", b[2] # "EOK", c[2] # "EOK"
    PROVE  FirstError(<<a, b, c>>) = "EOK" <=> ~a[1] /\ ~b[1] /\ ~c[1]
<1> DEFINE checks == <<a, b, c>>
<1>1. DOMAIN checks = 1..3 /\ 3 \in Nat /\ checks[1] = a /\ checks[2] = b /\ checks[3] = c
  OBVIOUS
<1> HIDE DEF checks
<1>2. \A i \in 1..3 : checks[i][2] # "EOK"
  BY <1>1
<1>3. FirstError(checks) = "EOK" => \A i \in 1..3 : ~checks[i][1]
  BY <1>1, <1>2, NoCheckFails
<1>4. (\A i \in 1..3 : ~checks[i][1]) => FirstError(checks) = "EOK"
  BY <1>1 DEF FirstError
<1>5. FirstError(checks) = "EOK" <=> ~a[1] /\ ~b[1] /\ ~c[1]
  BY <1>1, <1>3, <1>4
<1> QED
  BY <1>5 DEF checks

(* Five checks pass when none of them fails. *)
LEMMA FirstErrorOfFive ==
    ASSUME NEW a, NEW b, NEW c, NEW d, NEW e,
           a[2] # "EOK", b[2] # "EOK", c[2] # "EOK", d[2] # "EOK", e[2] # "EOK"
    PROVE  FirstError(<<a, b, c, d, e>>) = "EOK" <=> ~a[1] /\ ~b[1] /\ ~c[1] /\ ~d[1] /\ ~e[1]
<1> DEFINE checks == <<a, b, c, d, e>>
<1>1. /\ DOMAIN checks = 1..5 /\ 5 \in Nat
      /\ checks[1] = a /\ checks[2] = b /\ checks[3] = c /\ checks[4] = d /\ checks[5] = e
  OBVIOUS
<1> HIDE DEF checks
<1>2. \A i \in 1..5 : checks[i][2] # "EOK"
  BY <1>1
<1>3. FirstError(checks) = "EOK" => \A i \in 1..5 : ~checks[i][1]
  BY <1>1, <1>2, NoCheckFails
<1>4. (\A i \in 1..5 : ~checks[i][1]) => FirstError(checks) = "EOK"
  BY <1>1 DEF FirstError
<1>5. FirstError(checks) = "EOK" <=> ~a[1] /\ ~b[1] /\ ~c[1] /\ ~d[1] /\ ~e[1]
  BY <1>1, <1>3, <1>4
<1> QED
  BY <1>5 DEF checks

(* When each check fails, and that its error is one. *)
LEMMA Checks ==
    ASSUME NEW p \in Nat, NEW n \in Int, NEW max \in Int
    PROVE  /\ NullDest(p)[2] # "EOK" /\ (NullDest(p)[1] <=> p = 0)
           /\ NullSrc(p)[2] # "EOK" /\ (NullSrc(p)[1] <=> p = 0)
           /\ Zero(n)[2] # "EOK" /\ (Zero(n)[1] <=> n = 0)
           /\ TooLong(n, max)[2] # "EOK" /\ (TooLong(n, max)[1] <=> n > max)
<1>1. NullDest(p)[2] # "EOK" /\ NullSrc(p)[2] # "EOK" /\ Zero(n)[2] # "EOK" /\ TooLong(n, max)[2] # "EOK"
  BY DEF NullDest, NullSrc, Zero, TooLong
<1>2. NullDest(p)[1] <=> p = 0
  BY DEF NullDest, NULL
<1>3. NullSrc(p)[1] <=> p = 0
  BY DEF NullSrc, NULL
<1>4. Zero(n)[1] <=> n = 0
  BY DEF Zero
<1>5. TooLong(n, max)[1] <=> n > max
  BY DEF TooLong
<1> QED
  BY <1>1, <1>2, <1>3, <1>4, <1>5

(* When the checks of the destination pass. *)
LEMMA DestErrorIs ==
    ASSUME NEW dest \in Nat, NEW dmax \in Nat, NEW size \in Nat
    PROVE  DestError(dest, dmax, size) = "EOK" <=> dest # 0 /\ dmax # 0 /\ dmax * size <= RSIZE_MAX_STR
<1>1. RSIZE_MAX_STR \in Int
  BY SafeLibAssumption
<1>2. PICK b \in Int : b = dmax * size
  OBVIOUS
<1>3. FirstError(<<NullDest(dest), Zero(dmax), TooLong(b, RSIZE_MAX_STR)>>) = "EOK"
      <=> ~NullDest(dest)[1] /\ ~Zero(dmax)[1] /\ ~TooLong(b, RSIZE_MAX_STR)[1]
  BY <1>1, Checks, FirstErrorOfThree
<1> QED
  BY <1>1, <1>2, <1>3, Checks DEF DestError

(* When the checks of the source pass. *)
LEMMA SourceErrorIs ==
    ASSUME NEW src \in Nat, NEW n \in Nat, NEW k \in Int, NEW max \in Int
    PROVE  FirstError(<<NullSrc(src), Zero(n), TooLong(k, max)>>) = "EOK" <=> src # 0 /\ n # 0 /\ k <= max
<1>1. FirstError(<<NullSrc(src), Zero(n), TooLong(k, max)>>) = "EOK"
      <=> ~NullSrc(src)[1] /\ ~Zero(n)[1] /\ ~TooLong(k, max)[1]
  BY Checks, FirstErrorOfThree
<1> QED
  BY <1>1, Checks

(* When the checks of strncat and wcsncat pass. *)
LEMMA AppendErrorIs ==
    ASSUME NEW dest \in Nat, NEW src \in Nat, NEW k \in Int, NEW dmax \in Nat, NEW n \in Int,
           NEW max \in Int
    PROVE  FirstError(<<NullDest(dest), NullSrc(src), TooLong(k, max), Zero(dmax), TooLong(n, max)>>) = "EOK"
           <=> dest # 0 /\ src # 0 /\ k <= max /\ dmax # 0 /\ n <= max
<1>1. FirstError(<<NullDest(dest), NullSrc(src), TooLong(k, max), Zero(dmax), TooLong(n, max)>>) = "EOK"
      <=> ~NullDest(dest)[1] /\ ~NullSrc(src)[1] /\ ~TooLong(k, max)[1] /\ ~Zero(dmax)[1] /\ ~TooLong(n, max)[1]
  BY Checks, FirstErrorOfFive
<1> QED
  BY <1>1, Checks

(* A number of wide characters is no larger than that of their bytes. *)
LEMMA BytesOf ==
    ASSUME NEW n \in Nat, NEW size \in Nat \ {0}
    PROVE  n * size \in Nat /\ n <= n * size
<1>1. PICK j \in Nat : size = j + 1
  <2>1. size - 1 \in Nat /\ size = (size - 1) + 1
    OBVIOUS
  <2> QED
    BY <2>1
<1>2. n * (j + 1) = n * j + n /\ n * j \in Nat
  OBVIOUS
<1> QED
  BY <1>1, <1>2

(* What a copy at the beginning of dest does, or behind its characters.    *)
CopiesTo(r, m, L, dest, dmax, src, slen, append) ==
    /\ Kept(r, m, L, dest, dmax) /\ EmptyAtLeast(r, m, dest)
    /\ dest # src =>
          \A at, n : /\ IF append THEN IsLength(m, dest, L - dest, at) ELSE at = 0
                     /\ Asked(m, L, src, slen, n)
                     => Copied(r, m, dest, at, dmax, src, n)

(* The loop that copies a string, whatever its limit. *)
LEMMA CopyStringDoes ==
    ASSUME NEW L, NEW m, Memory(m, L), NEW dest \in Int, NEW dmax \in Int, NEW src \in Int,
           NEW slen \in Int, dest >= 1, dest <= L, dmax > 0, slen = NoLimit \/ slen >= 0,
           In(src, dmax + 1, L)
    PROVE  CopiesTo(CopyString(m, dest, dmax, src, slen), m, L, dest, dmax, src, slen, FALSE)
<1>1. PICK at \in Int : at = 0
  OBVIOUS
<1>2. Sum(dest, at, dest) /\ Sum(at, dmax, dmax) /\ at >= 0 /\ (dest < src => dest <= src)
  BY <1>1 DEF Sum
<1>3. PICK r : r = EmptyOnError(CopyLoop(m, dest, dmax, src, slen, dest < src, Bumper(dest, src)), dest)
  OBVIOUS
<1>4. /\ Kept(r, m, L, dest, dmax) /\ EmptyAtLeast(r, m, dest)
      /\ dest # src => \A n : Asked(m, L, src, slen, n) => Copied(r, m, dest, at, dmax, src, n)
  BY <1>2, <1>3, CopyToDoes
<1>5. CopyString(m, dest, dmax, src, slen) = r
  BY <1>3 DEF CopyString, Bumper
<1> QED
  BY <1>1, <1>4, <1>5 DEF CopiesTo

(* The loops that find the end of a string and append another. *)
LEMMA AppendStringDoes ==
    ASSUME NEW L, NEW m, Memory(m, L), NEW dest \in Int, NEW dmax \in Int, NEW src \in Int,
           NEW slen \in Int, dmax > 0, slen = NoLimit \/ slen >= 0,
           In(src, dmax + 1, L), In(dest, dmax + 1, L)
    PROVE  CopiesTo(AppendString(m, dest, dmax, src, slen), m, L, dest, dmax, src, slen, TRUE)
<1> DEFINE below == dest < src
           bumper == Bumper(dest, src)
           Meets(k) == below /\ dest + k = bumper
           S == {k \in 0..(dmax - 1) : m[dest + k] = 0 \/ Meets(k) \/ k = dmax - 1}
           at == Min(S)
           end == WalkToEnd(m, dest, dmax, below, bumper)
           r == AppendString(m, dest, dmax, src, slen)
<1>1. S \in SUBSET Nat /\ dmax - 1 \in S
  OBVIOUS
<1>2. \A k : k \in S <=> k \in 0..(dmax - 1) /\ (m[dest + k] = 0 \/ Meets(k) \/ k = dmax - 1)
  OBVIOUS
<1>3. end = IF m[dest + at] = 0 THEN [err |-> "EOK", dest |-> dest + at, dmax |-> dmax - at]
            ELSE [err |-> IF Meets(at) THEN "ESOVRLP" ELSE "ESUNTERM"]
  BY DEF WalkToEnd
<1>4. r = IF end.err # "EOK" THEN Nulled(m, dest, end.err)
          ELSE EmptyOnError(CopyLoop(m, end.dest, end.dmax, src, slen, below, bumper), dest)
  BY DEF AppendString, Bumper
<1> HIDE DEF S
<1>5. at \in S /\ \A k \in S : at <= k
  BY <1>1, MinMember
<1> HIDE DEF at, end, r
<1>6. at \in 0..(dmax - 1) /\ Plain(m, dest, at) /\ \A k \in 0..(at - 1) : ~Meets(k)
  <2>1. at \in 0..(dmax - 1)
    BY <1>2, <1>5
  <2>2. \A k \in 0..(at - 1) : k \in 0..(dmax - 1) /\ k \notin S
    BY <1>5, <2>1
  <2>3. \A k \in 0..(at - 1) : m[dest + k] # 0 /\ ~Meets(k)
    BY <1>2, <2>2
  <2> QED
    BY <2>1, <2>3 DEF Plain
<1>7. dest < src => dest + at <= src
  <2> SUFFICES ASSUME dest < src, dest + at > src PROVE FALSE
    BY <1>6
  <2>1. PICK k \in 0..(at - 1) : dest + k = src
    <3>1. src - dest \in 0..(at - 1)
      BY <1>6
    <3> QED
      BY <3>1
  <2> QED
    BY <1>6, <2>1 DEF Bumper
<1>8. ASSUME NEW k, IsLength(m, dest, L - dest, k)
      PROVE  /\ k \in Nat /\ at <= k
             /\ m[dest + at] = 0 => k = at
             /\ m[dest + at] # 0 => k >= at + 1
  <2>1. k \in 0..(L - dest) /\ at \in Nat /\ at < dmax /\ dmax <= L - dest
    BY <1>6, <1>8 DEF IsLength, In, Memory
  <2>2. at <= k
    BY <1>6, <1>8, <2>1 DEF IsLength, Plain, Memory
  <2> QED
    BY <1>8, <2>1, <2>2 DEF IsLength, Plain, Memory
<1>9. CASE m[dest + at] = 0
  <2>1. PICK p \in Int : p = dest + at
    BY <1>6
  <2>2. PICK d \in Int : d = dmax - at
    BY <1>6
  <2>3. Sum(dest, at, p) /\ Sum(at, d, dmax) /\ d > 0 /\ at \in Int /\ at >= 0 /\ (dest < src => p <= src)
    BY <1>6, <1>7, <2>1, <2>2 DEF Sum
  <2>4. r = EmptyOnError(CopyLoop(m, p, d, src, slen, dest < src, Bumper(dest, src)), dest)
    BY <1>3, <1>4, <1>9, <2>1, <2>2
  <2>5. dest >= 1 /\ dest <= L
    BY DEF In, Memory
  <2>6. /\ Kept(r, m, L, dest, dmax) /\ EmptyAtLeast(r, m, dest)
        /\ dest # src => \A n : Asked(m, L, src, slen, n) => Copied(r, m, dest, at, dmax, src, n)
    BY <2>3, <2>4, <2>5, CopyToDoes
  <2> QED
    BY <1>8, <1>9, <2>6 DEF CopiesTo, r
<1>10. CASE m[dest + at] # 0
  <2>1. end.err # "EOK"
    BY <1>3, <1>10
  <2>2. r.mem = Put(m, dest, 0) /\ r.err # "EOK"
    BY <1>4, <2>1 DEF Nulled, Failed, Result
  <2>3. dest \in 1..L /\ dest \in Cells(dest, dmax)
    BY DEF In, Memory, Cells
  <2>4. Memory(r.mem, L) /\ \A a \in 1..L : r.mem[a] = IF a = dest THEN 0 ELSE m[a]
    <3>1. 0 \in Nat
      OBVIOUS
    <3> QED
      BY <2>2, <3>1, PutType
  <2>5. Kept(r, m, L, dest, dmax) /\ EmptyAtLeast(r, m, dest)
    BY <2>3, <2>4 DEF Kept, EmptyAtLeast
  <2>6. ASSUME dest # src, NEW k, IsLength(m, dest, L - dest, k), NEW n, Asked(m, L, src, slen, n)
        PROVE  ~Fits(dest, k, dmax, src, n)
    <3>1. n \in Nat
      BY <2>6 DEF Asked, IsLength, NoLimit, In, Memory
    <3>2. k \in Nat /\ k >= at + 1
      BY <1>8, <1>10, <2>6
    <3>3. CASE at = dmax - 1
      BY <1>6, <3>1, <3>2, <3>3 DEF Fits
    <3>4. CASE Meets(at)
      <4>1. src \in Cells(dest, k + n + 1) /\ src \in Cells(src, n + 1)
        BY <1>6, <3>1, <3>2, <3>4 DEF Cells, Bumper
      <4> QED
        BY <4>1 DEF Fits, Disjoint
    <3> QED
      BY <1>2, <1>5, <1>10, <3>3, <3>4
  <2> QED
    BY <2>2, <2>5, <2>6 DEF CopiesTo, Copied, r
<1> QED
  BY <1>9, <1>10

(* A function that leaves the memory alone. *)
LEMMA SameOutcome ==
    ASSUME NEW L, NEW m, Memory(m, L), NEW r, r.mem = m, NEW dest, NEW n
    PROVE  Kept(r, m, L, dest, n) /\ EmptyAtLeast(r, m, dest)
  BY DEF Kept, EmptyAtLeast

(* A function that leaves an empty string. *)
LEMMA NulledOutcome ==
    ASSUME NEW L, NEW m, Memory(m, L), NEW dest \in Int, NEW n \in Int, NEW e, dest >= 1, dest <= L, n > 0
    PROVE  Kept(Nulled(m, dest, e), m, L, dest, n) /\ EmptyAtLeast(Nulled(m, dest, e), m, dest)
<1> DEFINE r == Nulled(m, dest, e)
<1>1. r.mem = Put(m, dest, 0)
  BY DEF Nulled, Failed, Result
<1>2. dest \in 1..L /\ dest \in Cells(dest, n)
  BY DEF Memory, Cells
<1> HIDE DEF r
<1>3. Memory(r.mem, L) /\ \A a \in 1..L : r.mem[a] = IF a = dest THEN 0 ELSE m[a]
  <2>1. 0 \in Nat
    OBVIOUS
  <2> QED
    BY <1>1, <2>1, PutType
<1>4. Kept(r, m, L, dest, n) /\ EmptyAtLeast(r, m, dest)
  BY <1>2, <1>3 DEF Kept, EmptyAtLeast
<1> QED
  BY <1>4 DEF r

(* What the results that leave the memory alone say. *)
LEMMA UnchangedResults ==
    ASSUME NEW m, NEW e
    PROVE  /\ Failed(m, e).mem = m /\ Failed(m, e).err = e /\ Done(m).mem = m /\ Done(m).err = "EOK"
           /\ Returns(m, e).mem = m /\ Returns(m, e).err = "EOK"
  BY DEF Failed, Done, Returns, Result

(* Strings that lie in the memory as far as they may be looked through. *)
Strings(m, L, dest, dmax, src) ==
    /\ Memory(m, L) /\ dest \in Nat /\ dmax \in Nat /\ src \in Nat
    /\ dest <= L
    /\ dmax <= RSIZE_MAX_STR => /\ dest # 0 => In(dest, dmax + 1, L)
                                /\ src # 0 => In(src, dmax + 1, L)

(* What the function has to do, whatever it is called with. *)
StringDone(r, m, L, dest, dmax, size, src, slen, append) ==
    /\ Kept(r, m, L, dest, dmax) /\ EmptyAtLeast(r, m, dest)
    /\ /\ dest # NULL /\ src # NULL /\ dest # src /\ dmax * size \in 1..RSIZE_MAX_STR
       /\ slen # 0 /\ slen * size <= RSIZE_MAX_STR
       => CopiesTo(r, m, L, dest, dmax, src, slen, append)

(* A size in bytes that is allowed is one in characters. *)
LEMMA StringSizes ==
    ASSUME NEW dmax \in Nat, NEW size \in Nat \ {0}
    PROVE  /\ dmax * size <= RSIZE_MAX_STR => dmax <= RSIZE_MAX_STR
           /\ dmax * size \in 1..RSIZE_MAX_STR <=> dmax # 0 /\ dmax * size <= RSIZE_MAX_STR
<1>1. dmax * size \in Nat /\ dmax <= dmax * size /\ RSIZE_MAX_STR \in Nat
  BY BytesOf, SafeLibAssumption
<1>2. PICK b \in Nat : b = dmax * size
  BY <1>1
<1>3. b = 0 <=> dmax = 0
  BY <1>1, <1>2
<1> QED
  BY <1>1, <1>2, <1>3

(* Where the arguments of a copy lie once dest has been checked. *)
LEMMA CopyReady ==
    ASSUME NEW m, NEW L, NEW dest, NEW dmax, NEW src, NEW size \in Nat \ {0},
           Strings(m, L, dest, dmax, src), DestError(dest, dmax, size) = "EOK"
    PROVE  /\ Memory(m, L) /\ dest \in Int /\ dest >= 1 /\ dest <= L /\ dmax \in Int /\ dmax > 0
           /\ src \in Int /\ In(dest, dmax + 1, L) /\ (src # NULL => In(src, dmax + 1, L))
<1>1. dest \in Nat /\ dmax \in Nat /\ src \in Nat /\ size \in Nat
  BY DEF Strings
<1>2. dest # 0 /\ dmax # 0 /\ dmax * size <= RSIZE_MAX_STR
  BY <1>1, DestErrorIs
<1>3. dmax <= RSIZE_MAX_STR
  BY <1>1, <1>2, StringSizes
<1> QED
  BY <1>1, <1>2, <1>3 DEF Strings, NULL

(* The ends of a call that copies: an argument is refused, dest is emptied *)
(* for one that is, a string is copied onto itself, or the loop has run.   *)
LEMMA DestRefused ==
    ASSUME NEW m, NEW L, NEW dest, NEW dmax, NEW src, NEW size \in Nat \ {0}, NEW slen, NEW append,
           NEW r, Strings(m, L, dest, dmax, src), DestError(dest, dmax, size) # "EOK", r.mem = m
    PROVE  StringDone(r, m, L, dest, dmax, size, src, slen, append)
<1>1. Memory(m, L) /\ dest \in Nat /\ dmax \in Nat /\ size \in Nat
  BY DEF Strings
<1>2. ~(dest # 0 /\ dmax * size \in 1..RSIZE_MAX_STR)
  BY <1>1, DestErrorIs, StringSizes
<1>3. Kept(r, m, L, dest, dmax) /\ EmptyAtLeast(r, m, dest)
  BY <1>1, SameOutcome
<1> QED
  BY <1>2, <1>3 DEF StringDone, NULL

(* A source that is refused leaves an empty string. *)
LEMMA SourceRefused ==
    ASSUME NEW m, NEW L, NEW dest, NEW dmax, NEW src, NEW size \in Nat \ {0}, NEW slen, NEW append,
           NEW r, NEW e, Strings(m, L, dest, dmax, src), DestError(dest, dmax, size) = "EOK",
           src = NULL \/ dest = src \/ slen = 0 \/ ~(slen * size <= RSIZE_MAX_STR),
           r = Nulled(m, dest, e)
    PROVE  StringDone(r, m, L, dest, dmax, size, src, slen, append)
<1>1. Memory(m, L) /\ dest \in Int /\ dest >= 1 /\ dest <= L /\ dmax \in Int /\ dmax > 0
  BY CopyReady
<1>2. Kept(r, m, L, dest, dmax) /\ EmptyAtLeast(r, m, dest)
  BY <1>1, NulledOutcome
<1> QED
  BY <1>2 DEF StringDone

(* A copy of a string onto itself leaves it alone. *)
LEMMA OntoItself ==
    ASSUME NEW m, NEW L, NEW dest, NEW dmax, NEW src, NEW size, NEW slen, NEW append,
           NEW r, Strings(m, L, dest, dmax, src), dest = src, r.mem = m
    PROVE  StringDone(r, m, L, dest, dmax, size, src, slen, append)
<1>1. Memory(m, L)
  BY DEF Strings
<1>2. Kept(r, m, L, dest, dmax) /\ EmptyAtLeast(r, m, dest)
  BY <1>1, SameOutcome
<1> QED
  BY <1>2 DEF StringDone

(* What a copy does once all checks have passed. *)
LEMMA LoopHasRun ==
    ASSUME NEW m, NEW L, NEW dest, NEW dmax, NEW src, NEW size \in Nat \ {0}, NEW slen \in Int,
           NEW r, Strings(m, L, dest, dmax, src), DestError(dest, dmax, size) = "EOK",
           src # NULL, slen = NoLimit \/ slen >= 0, r = CopyString(m, dest, dmax, src, slen)
    PROVE  StringDone(r, m, L, dest, dmax, size, src, slen, FALSE)
<1>1. /\ Memory(m, L) /\ dest \in Int /\ dest >= 1 /\ dest <= L /\ dmax \in Int /\ dmax > 0
      /\ src \in Int /\ In(src, dmax + 1, L)
  BY CopyReady
<1>2. CopiesTo(r, m, L, dest, dmax, src, slen, FALSE)
  BY <1>1, CopyStringDoes
<1> QED
  BY <1>2 DEF StringDone, CopiesTo

(* Two constants of the calls below. *)
LEMMA OneAndNoLimit == 1 \in Nat \ {0} /\ NoLimit \in Int
  BY DEF NoLimit

(* strcpy, for every pair of strings. *)
LEMMA strcpyDoes ==
    ASSUME NEW m, NEW L, NEW dest, NEW dmax, NEW src, Strings(m, L, dest, dmax, src)
    PROVE  StringDone(safe_strcpy(m, dest, dmax, src), m, L, dest, dmax, 1, src, NoLimit, FALSE)
<1> DEFINE bad == DestError(dest, dmax, 1)
           r == safe_strcpy(m, dest, dmax, src)
<1>1. r = IF bad # "EOK" THEN Failed(m, bad)
          ELSE IF src = NULL THEN Nulled(m, dest, "ESNULLP")
          ELSE IF dest = src THEN Done(m) ELSE CopyString(m, dest, dmax, src, NoLimit)
  BY DEF safe_strcpy
<1> HIDE DEF r
<1>2. CASE bad # "EOK"
  <2>1. r.mem = m
    BY <1>1, <1>2, UnchangedResults
  <2> QED
    BY OneAndNoLimit, <1>2, <2>1, DestRefused DEF r
<1>3. CASE bad = "EOK" /\ src = NULL
  BY <1>1, <1>3, OneAndNoLimit, SourceRefused DEF r
<1>4. CASE bad = "EOK" /\ src # NULL /\ dest = src
  BY <1>1, <1>4, UnchangedResults, OntoItself DEF r
<1>5. CASE bad = "EOK" /\ src # NULL /\ dest # src
  BY <1>1, <1>5, OneAndNoLimit, LoopHasRun DEF r
<1> QED
  BY <1>2, <1>3, <1>4, <1>5

(* wcscpy, for every pair of strings. *)
LEMMA wcscpyDoes ==
    ASSUME NEW m, NEW L, NEW dest, NEW dmax, NEW src, Strings(m, L, dest, dmax, src)
    PROVE  StringDone(safe_wcscpy(m, dest, dmax, src), m, L, dest, dmax, WCHAR_SIZE, src, NoLimit, FALSE)
<1> DEFINE bad == DestError(dest, dmax, WCHAR_SIZE)
           r == safe_wcscpy(m, dest, dmax, src)
           same == IF m[src + Length(m, src, dmax)] # 0 THEN Failed(m, "ESLEMAX") ELSE Done(m)
<1>1. r = IF bad # "EOK" THEN Failed(m, bad)
          ELSE IF src = NULL THEN Nulled(m, dest, "ESNULLP")
          ELSE IF dest = src THEN same ELSE CopyString(m, dest, dmax, src, NoLimit)
  BY DEF safe_wcscpy
<1>0. WCHAR_SIZE \in Nat \ {0} /\ same.mem = m
  BY SafeLibAssumption, UnchangedResults
<1> HIDE DEF r, same
<1>2. CASE bad # "EOK"
  <2>1. r.mem = m
    BY <1>1, <1>2, UnchangedResults
  <2> QED
    BY <1>0, <1>2, <2>1, DestRefused DEF r
<1>3. CASE bad = "EOK" /\ src = NULL
  BY <1>0, <1>1, <1>3, SourceRefused DEF r
<1>4. CASE bad = "EOK" /\ src # NULL /\ dest = src
  BY <1>0, <1>1, <1>4, OntoItself DEF r
<1>5. CASE bad = "EOK" /\ src # NULL /\ dest # src
  BY <1>0, <1>1, <1>5, OneAndNoLimit, LoopHasRun DEF r
<1> QED
  BY <1>2, <1>3, <1>4, <1>5

(* stpcpy, for every pair of strings. *)
LEMMA stpcpyDoes ==
    ASSUME NEW m, NEW L, NEW dest, NEW dmax, NEW src, Strings(m, L, dest, dmax, src)
    PROVE  StringDone(safe_stpcpy(m, dest, dmax, src), m, L, dest, dmax, 1, src, NoLimit, FALSE)
<1> DEFINE bad == DestError(dest, dmax, 1)
           end == dest + Length(m, dest, dmax)
           r == safe_stpcpy(m, dest, dmax, src)
<1>1. r = IF bad # "EOK" THEN Failed(m, bad)
          ELSE IF src = NULL THEN Nulled(m, dest, "ESNULLP")
          ELSE IF dest # src THEN CopyString(m, dest, dmax, src, NoLimit)
          ELSE IF end < dest + dmax THEN Returns(m, end)
          ELSE Nulled(m, dest, "ESNOSPC")
  BY DEF safe_stpcpy
<1> HIDE DEF r, end
<1>2. CASE bad # "EOK"
  <2>1. r.mem = m
    BY <1>1, <1>2, UnchangedResults
  <2> QED
    BY OneAndNoLimit, <1>2, <2>1, DestRefused DEF r
<1>3. CASE bad = "EOK" /\ src = NULL
  BY <1>1, <1>3, OneAndNoLimit, SourceRefused DEF r
<1>4. CASE bad = "EOK" /\ src # NULL /\ dest = src /\ end < dest + dmax
  BY <1>1, <1>4, UnchangedResults, OntoItself DEF r
<1>5. CASE bad = "EOK" /\ src # NULL /\ dest = src /\ ~(end < dest + dmax)
  BY <1>1, <1>5, OneAndNoLimit, SourceRefused DEF r
<1>6. CASE bad = "EOK" /\ src # NULL /\ dest # src
  BY <1>1, <1>6, OneAndNoLimit, LoopHasRun DEF r
<1> QED
  BY <1>2, <1>3, <1>4, <1>5, <1>6

(* wcpcpy, for every pair of strings. *)
LEMMA wcpcpyDoes ==
    ASSUME NEW m, NEW L, NEW dest, NEW dmax, NEW src, Strings(m, L, dest, dmax, src)
    PROVE  StringDone(safe_wcpcpy(m, dest, dmax, src), m, L, dest, dmax, WCHAR_SIZE, src, NoLimit, FALSE)
<1> DEFINE bad == DestError(dest, dmax, WCHAR_SIZE)
           end == dest + Length(m, dest, dmax)
           r == safe_wcpcpy(m, dest, dmax, src)
           same == IF m[end] = 0 THEN Returns(m, end) ELSE Failed(m, "ESLEMAX")
<1>1. r = IF bad # "EOK" THEN Failed(m, bad)
          ELSE IF src = NULL THEN Nulled(m, dest, "ESNULLP")
          ELSE IF dest # src THEN CopyString(m, dest, dmax, src, NoLimit)
          ELSE same
  BY DEF safe_wcpcpy
<1>0. WCHAR_SIZE \in Nat \ {0} /\ same.mem = m
  BY SafeLibAssumption, UnchangedResults
<1> HIDE DEF r, same
<1>2. CASE bad # "EOK"
  <2>1. r.mem = m
    BY <1>1, <1>2, UnchangedResults
  <2> QED
    BY <1>0, <1>2, <2>1, DestRefused DEF r
<1>3. CASE bad = "EOK" /\ src = NULL
  BY <1>0, <1>1, <1>3, SourceRefused DEF r
<1>4. CASE bad = "EOK" /\ src # NULL /\ dest = src
  BY <1>0, <1>1, <1>4, OntoItself DEF r
<1>5. CASE bad = "EOK" /\ src # NULL /\ dest # src
  BY <1>0, <1>1, <1>5, OneAndNoLimit, LoopHasRun DEF r
<1> QED
  BY <1>2, <1>3, <1>4, <1>5

(* strncpy and wcsncpy, for every pair of strings. *)
LEMMA CopyAtMostDoes ==
    ASSUME NEW m, NEW L, NEW dest, NEW dmax, NEW src, NEW slen \in Nat, NEW size \in Nat \ {0},
           Strings(m, L, dest, dmax, src)
    PROVE  StringDone(CopyAtMost(m, dest, dmax, src, slen, size), m, L, dest, dmax, size, src, slen, FALSE)
<1> DEFINE bad == DestError(dest, dmax, size)
           badSrc == FirstError(<<NullSrc(src), Zero(slen), TooLong(slen * size, RSIZE_MAX_STR)>>)
           r == CopyAtMost(m, dest, dmax, src, slen, size)
<1>1. r = IF bad # "EOK" THEN Failed(m, bad)
          ELSE IF badSrc # "EOK" THEN Nulled(m, dest, badSrc)
          ELSE CopyString(m, dest, dmax, src, slen)
  BY DEF CopyAtMost
<1>2. badSrc = "EOK" <=> src # 0 /\ slen # 0 /\ slen * size <= RSIZE_MAX_STR
  <2>1. PICK k : k = slen * size
    OBVIOUS
  <2>2. k \in Int /\ RSIZE_MAX_STR \in Int /\ src \in Nat
    BY <2>1, SafeLibAssumption DEF Strings
  <2>3. FirstError(<<NullSrc(src), Zero(slen), TooLong(k, RSIZE_MAX_STR)>>) = "EOK"
        <=> src # 0 /\ slen # 0 /\ k <= RSIZE_MAX_STR
    BY <2>2, SourceErrorIs
  <2> QED
    BY <2>1, <2>3
<1> HIDE DEF r, badSrc
<1>3. CASE bad # "EOK"
  <2>1. r.mem = m
    BY <1>1, <1>3, UnchangedResults
  <2> QED
    BY <1>3, <2>1, DestRefused DEF r
<1>4. CASE bad = "EOK" /\ badSrc # "EOK"
  BY <1>1, <1>2, <1>4, SourceRefused DEF r, NULL
<1>5. CASE bad = "EOK" /\ badSrc = "EOK"
  <2>1. slen \in Int /\ slen >= 0
    BY <1>2, <1>5
  <2> QED
    BY <1>1, <1>2, <1>5, <2>1, LoopHasRun DEF r, NULL
<1> QED
  BY <1>3, <1>4, <1>5

(* The four functions that append, for every pair of strings. *)
LEMMA AppendAtMostDoes ==
    ASSUME NEW m, NEW L, NEW dest, NEW dmax, NEW src, NEW slen \in Int, NEW size \in Nat \ {0},
           slen = NoLimit \/ slen >= 0, Strings(m, L, dest, dmax, src)
    PROVE  StringDone(AppendAtMost(m, dest, dmax, src, slen, size), m, L, dest, dmax, size, src, slen, TRUE)
<1> DEFINE bad == FirstError(<<NullDest(dest), NullSrc(src), TooLong(slen * size, RSIZE_MAX_STR),
                               Zero(dmax), TooLong(dmax * size, RSIZE_MAX_STR)>>)
           r == AppendAtMost(m, dest, dmax, src, slen, size)
<1>1. r = IF bad # "EOK" THEN Failed(m, bad) ELSE AppendString(m, dest, dmax, src, slen)
  BY DEF AppendAtMost
<1>2. Memory(m, L) /\ dest \in Nat /\ dmax \in Nat /\ src \in Nat /\ size \in Nat
  BY DEF Strings
<1>3. bad = "EOK" <=> /\ dest # 0 /\ src # 0 /\ slen * size <= RSIZE_MAX_STR /\ dmax # 0
                      /\ dmax * size <= RSIZE_MAX_STR
  <2>1. PICK k, n : k = slen * size /\ n = dmax * size
    OBVIOUS
  <2>2. k \in Int /\ n \in Int /\ RSIZE_MAX_STR \in Int
    BY <1>2, <2>1, SafeLibAssumption
  <2>3. FirstError(<<NullDest(dest), NullSrc(src), TooLong(k, RSIZE_MAX_STR), Zero(dmax),
                     TooLong(n, RSIZE_MAX_STR)>>) = "EOK"
        <=> dest # 0 /\ src # 0 /\ k <= RSIZE_MAX_STR /\ dmax # 0 /\ n <= RSIZE_MAX_STR
    BY <1>2, <2>2, AppendErrorIs
  <2> QED
    BY <2>1, <2>3
<1> HIDE DEF r, bad
<1>4. CASE bad # "EOK"
  <2>1. r.mem = m
    BY <1>1, <1>4, UnchangedResults
  <2>2. Kept(r, m, L, dest, dmax) /\ EmptyAtLeast(r, m, dest)
    BY <1>2, <2>1, SameOutcome
  <2>3. ~(dest # 0 /\ src # 0 /\ dmax * size \in 1..RSIZE_MAX_STR /\ slen * size <= RSIZE_MAX_STR)
    BY <1>2, <1>3, <1>4, StringSizes
  <2> QED
    BY <2>2, <2>3 DEF StringDone, NULL, r
<1>5. CASE bad = "EOK"
  <2>1. DestError(dest, dmax, size) = "EOK"
    BY <1>2, <1>3, <1>5, DestErrorIs
  <2>2. dest \in Int /\ dmax \in Int /\ dmax > 0 /\ src \in Int /\ In(dest, dmax + 1, L) /\ In(src, dmax + 1, L)
    BY <1>3, <1>5, <2>1, CopyReady DEF NULL
  <2>3. CopiesTo(AppendString(m, dest, dmax, src, slen), m, L, dest, dmax, src, slen, TRUE)
    BY <1>2, <2>2, AppendStringDoes
  <2> QED
    BY <1>1, <1>5, <2>3 DEF StringDone, CopiesTo, r
<1> QED
  BY <1>4, <1>5
-----------------------------------------------------------------------------

(* The characters a field takes from src, and those read to find them. *)
FieldLength(fn, m, dmax, src, slen, k) ==
    \/ fn = "strcpyfld" /\ k = slen
    \/ fn = "strcpyfldin" /\ IsLength(m, src, dmax, k)
    \/ fn = "strcpyfldout" /\ k = IF slen < dmax - 1 THEN slen ELSE dmax - 1

FieldRead(fn, dmax, k) == IF fn = "strcpyfldin" /\ k < dmax THEN k + 1 ELSE k

(* The loop of a field stops behind the characters it takes, when dest and *)
(* what is read are apart, and else before.                                *)
FieldResult(r, fn, m, dest, dmax, src, k) ==
    \E n \in 0..k :
        /\ Clear(dest, src, dest < src, Bumper(dest, src), n)
        /\ \/ /\ n = k /\ Disjoint(dest, k, src, FieldRead(fn, dmax, k))
              /\ r = Done(Fill(CopyUnit(m, dest, src, n), dest + n, dmax - n, 0))
           \/ /\ ~Disjoint(dest, k, src, FieldRead(fn, dmax, k))
              /\ r = Failed(CopyUnit(m, dest, src, n), "ESOVRLP")

(* The loop of a field function, for each of the three functions. *)
LEMMA FieldLoopDoes ==
    ASSUME NEW L, NEW m, Memory(m, L), NEW fn \in FieldFunctions, NEW dest \in Int, NEW dmax \in Int,
           NEW src \in Int, NEW slen \in Int, NEW N, dmax >= 1, slen >= 1, slen <= dmax,
           In(src, dmax + 1, L), FieldLength(fn, m, dmax, src, slen, N)
    PROVE  N \in 0..dmax
           /\ FieldResult(FieldLoop(fn, m, dest, dmax, src, slen, dest < src, Bumper(dest, src)),
                          fn, m, dest, dmax, src, N)
<1> DEFINE below == dest < src
           bumper == Bumper(dest, src)
           R == FieldRead(fn, dmax, N)
           After(k) == CopyUp(m, dest, src, k, 1)
           Meets(k) == Bumped(dest + k, src + k, below, bumper)
           Filled(k) == CASE fn = "strcpyfld"    -> k = slen
                          [] fn = "strcpyfldin"  -> k = dmax \/ After(k)[src + k] = 0
                          [] fn = "strcpyfldout" -> k >= dmax - 1 \/ k = slen
           S == {k \in 0..dmax : Filled(k) \/ Meets(k)}
           n == Min(S)
           r == FieldLoop(fn, m, dest, dmax, src, slen, below, bumper)
<1>1. r = IF Filled(n) THEN Done(Fill(After(n), dest + n, dmax - n, 0)) ELSE Failed(After(n), "ESOVRLP")
  BY DEF FieldLoop
<1>2. \A k : k \in S <=> k \in 0..dmax /\ (Filled(k) \/ Meets(k))
  OBVIOUS
<1>3. /\ fn = "strcpyfld" => \A k : Filled(k) <=> k = slen
      /\ fn = "strcpyfldin" => \A k : Filled(k) <=> k = dmax \/ After(k)[src + k] = 0
      /\ fn = "strcpyfldout" => \A k : Filled(k) <=> k >= dmax - 1 \/ k = slen
  OBVIOUS
<1>4. fn \in {"strcpyfld", "strcpyfldin", "strcpyfldout"}
  BY DEF FieldFunctions
<1>5. S \in SUBSET Nat /\ S # {}
  <2> HIDE DEF Filled, S
  <2>1. S \in SUBSET Nat
    BY <1>2
  <2>2. slen \in 0..dmax /\ dmax \in 0..dmax
    OBVIOUS
  <2>3. Filled(slen) \/ Filled(dmax)
    BY <1>3, <1>4
  <2>4. slen \in S \/ dmax \in S
    BY <1>2, <2>2, <2>3
  <2> QED
    BY <2>1, <2>4
<1> HIDE DEF S, Filled
<1>6. n \in S /\ \A k \in S : n <= k
  BY <1>5, MinMember
<1> HIDE DEF n, r, After, Meets
<1>7. n \in 0..dmax /\ n \in Nat /\ (Filled(n) \/ Meets(n))
  BY <1>2, <1>6
<1>8. \A k \in 0..(n - 1) : ~Filled(k) /\ ~Meets(k)
  <2> SUFFICES ASSUME NEW k \in 0..(n - 1) PROVE ~Filled(k) /\ ~Meets(k)
    OBVIOUS
  <2>1. k \in 0..dmax /\ k \notin S
    BY <1>6, <1>7
  <2> QED
    BY <1>2, <2>1
<1>9. bumper \in Int /\ Guarded(dest, src, below, bumper)
  BY DEF Bumper, Guarded
<1> HIDE DEF below, bumper
<1>10. ASSUME NEW k \in 0..n
       PROVE  /\ Clear(dest, src, below, bumper, k) /\ After(k) = CopyUnit(m, dest, src, k)
              /\ ~Meets(k) <=> Clear(dest, src, below, bumper, k + 1)
              /\ k < dmax /\ (~Meets(k) \/ dest < src) => After(k)[src + k] = m[src + k]
  <2>1. /\ Apart(dest, src, k) /\ Clear(dest, src, below, bumper, k)
        /\ ~Meets(k) <=> Clear(dest, src, below, bumper, k + 1)
        /\ ~Meets(k) => Apart(dest, src, k + 1)
    BY <1>7, <1>8, <1>9, LoopReach DEF Meets
  <2>2. In(src, k, L) /\ (k < dmax => src + k <= L)
    BY <1>7 DEF In, Memory
  <2> QED
    BY <2>1, <2>2, CopiedSoFar DEF After
<1>11. fn = "strcpyfldin" => Plain(m, src, n)
  <2> SUFFICES ASSUME fn = "strcpyfldin", NEW k \in 0..(n - 1) PROVE m[src + k] # 0
    BY DEF Plain
  <2>1. k \in 0..n /\ k < dmax /\ ~Meets(k) /\ ~Filled(k)
    BY <1>7, <1>8
  <2> QED
    BY <1>3, <1>10, <2>1
<1>12. N \in 0..dmax /\ N \in Nat
  BY <1>4 DEF FieldLength, IsLength
<1>13. n <= N
  <2>1. CASE fn = "strcpyfldin"
    BY <1>7, <1>11, <1>12, <2>1 DEF FieldLength, IsLength, Plain
  <2>2. CASE fn # "strcpyfldin"
    <3> SUFFICES ASSUME N < n PROVE FALSE
      BY <1>7, <1>12
    <3>1. N \in 0..(n - 1)
      BY <1>7, <1>12
    <3>2. Filled(N)
      BY <1>3, <1>4, <2>2 DEF FieldLength
    <3> QED
      BY <1>8, <3>1, <3>2
  <2> QED
    BY <2>1, <2>2
<1>14. n = 0 => After(n)[src + n] = m[src + n]
  <2> SUFFICES ASSUME n = 0 PROVE CopyUnit(m, dest, src, 0)[src] = m[src]
    BY <1>10
  <2> QED
    BY DEF CopyUnit, Memory, In
\* Where src has run into dest, the character there is the first of src.
<1>15. fn = "strcpyfldin" /\ Meets(n) /\ ~below /\ n > 0 => src + n = dest /\ After(n)[src + n] # 0
  <2> SUFFICES ASSUME fn = "strcpyfldin", Meets(n), ~below, n > 0
               PROVE  src + n = dest /\ CopyUnit(m, dest, src, n)[src + n] # 0
    BY <1>7, <1>10
  <2>1. src + n = dest
    BY <1>7 DEF Meets, Bumped, below, bumper, Bumper
  <2>2. dest \in 1..L
    BY <1>7, <2>1 DEF In, Memory
  <2>3. dest \in dest..(dest + n - 1) /\ src + (dest - dest) = src
    BY <1>7
  <2>4. m[src] # 0
    <3>1. 0 \in 0..(n - 1) /\ src + 0 = src
      BY <1>7
    <3> QED
      BY <1>11, <3>1 DEF Plain
  <2>5. CopyUnit(m, dest, src, n)[dest] = m[src]
    BY <2>2, <2>3 DEF CopyUnit, Memory
  <2> QED
    BY <2>1, <2>4, <2>5
<1>16. R \in Nat /\ R >= N /\ (fn # "strcpyfldin" \/ N = dmax => R = N) /\ (fn = "strcpyfldin" /\ N < dmax => R = N + 1)
  BY <1>12 DEF FieldRead
<1> HIDE DEF R
<1>17. CASE Filled(n)
  <2>1. n = N
    <3>1. CASE fn = "strcpyfldin"
      <4>1. n = dmax \/ After(n)[src + n] = 0
        BY <1>3, <1>17, <3>1
      <4>2. n = dmax \/ m[src + n] = 0
        BY <1>7, <1>10, <1>14, <1>15, <3>1, <4>1 DEF below
      <4>3. IsLength(m, src, dmax, N)
        BY <3>1 DEF FieldLength
      <4> QED
        BY <1>7, <1>12, <1>13, <4>2, <4>3 DEF IsLength, Plain
    <3>2. CASE fn # "strcpyfldin"
      BY <1>3, <1>4, <1>7, <1>13, <1>17, <3>2 DEF FieldLength
    <3> QED
      BY <3>1, <3>2
  <2>2. Clear(dest, src, below, bumper, n) /\ (~below /\ n > 0 => src + R <= dest)
    <3>1. Clear(dest, src, below, bumper, n)
      BY <1>7, <1>10
    <3>2. ASSUME ~below, n > 0 PROVE src + R <= dest
      <4>1. src + n <= bumper /\ bumper = dest
        BY <3>1, <3>2 DEF Clear, below, bumper, Bumper
      <4>2. CASE R = N
        BY <2>1, <4>1, <4>2
      <4>3. CASE R # N
        <5>1. fn = "strcpyfldin" /\ n < dmax /\ R = n + 1
          BY <1>12, <1>16, <2>1, <4>3
        <5>2. After(n)[src + n] = 0
          BY <1>3, <1>17, <5>1
        <5>3. ~Meets(n)
          BY <1>15, <3>2, <5>1, <5>2
        <5>4. Clear(dest, src, below, bumper, n + 1)
          BY <1>7, <1>10, <5>3
        <5> QED
          BY <3>2, <4>1, <5>1, <5>4 DEF Clear
      <4> QED
        BY <4>2, <4>3
    <3> QED
      BY <3>1, <3>2
  <2>3. Disjoint(dest, N, src, R)
    BY <1>7, <1>16, <2>1, <2>2 DEF Disjoint, Cells, Clear, below, bumper, Bumper
  <2>4. r = Done(Fill(CopyUnit(m, dest, src, n), dest + n, dmax - n, 0))
    BY <1>1, <1>7, <1>10, <1>17
  <2>5. FieldResult(r, fn, m, dest, dmax, src, N)
    BY <1>7, <1>12, <2>1, <2>2, <2>3, <2>4 DEF FieldResult, R, below, bumper
  <2> QED
    BY <1>12, <2>5 DEF r, below, bumper
<1>18. CASE ~Filled(n)
  <2>1. Meets(n) /\ Clear(dest, src, below, bumper, n)
    BY <1>7, <1>10, <1>18
  <2>2. n < N \/ (~below /\ R > N /\ N > 0)
    <3> SUFFICES ASSUME n = N PROVE ~below /\ R > N /\ N > 0
      BY <1>7, <1>12, <1>13
    <3>1. fn = "strcpyfldin"
      BY <1>3, <1>4, <1>18 DEF FieldLength
    <3>2. n < dmax
      BY <1>3, <1>7, <1>18, <3>1
    <3>3. m[src + n] = 0
      BY <3>1, <3>2 DEF FieldLength, IsLength
    <3>4. After(n)[src + n] # 0
      BY <1>3, <1>18, <3>1
    <3>5. ~below /\ n > 0
      BY <1>7, <1>10, <1>14, <3>2, <3>3, <3>4 DEF below
    <3> QED
      BY <1>12, <1>16, <3>1, <3>2, <3>5
  <2>3. ~Disjoint(dest, N, src, R)
    <3>1. CASE below
      <4>1. dest + n = src /\ n < N
        BY <1>7, <2>1, <2>2, <3>1 DEF Meets, Bumped, below, bumper, Bumper
      <4>2. src \in Cells(dest, N) /\ src \in Cells(src, R)
        BY <1>7, <1>12, <1>16, <4>1 DEF Cells
      <4> QED
        BY <4>2 DEF Disjoint
    <3>2. CASE ~below
      <4>1. src + n = dest
        BY <1>7, <2>1, <3>2 DEF Meets, Bumped, below, bumper, Bumper
      <4>2. dest \in Cells(dest, N) /\ dest \in Cells(src, R)
        BY <1>7, <1>12, <1>13, <1>16, <2>2, <4>1 DEF Cells
      <4> QED
        BY <4>2 DEF Disjoint
    <3> QED
      BY <3>1, <3>2
  <2>4. r = Failed(CopyUnit(m, dest, src, n), "ESOVRLP")
    BY <1>1, <1>7, <1>10, <1>18
  <2>5. FieldResult(r, fn, m, dest, dmax, src, N)
    BY <1>7, <1>12, <1>13, <2>1, <2>3, <2>4 DEF FieldResult, R, below, bumper
  <2> QED
    BY <1>12, <2>5 DEF r, below, bumper
<1> QED
  BY <1>17, <1>18

(* A block of nulls in the memory. *)
LEMMA ZeroesType ==
    ASSUME NEW L, NEW m, Memory(m, L), NEW p \in Int, NEW n \in Int
    PROVE  /\ Memory(Fill(m, p, n, 0), L)
           /\ \A a \in 1..L : Fill(m, p, n, 0)[a] = IF a \in p..(p + n - 1) THEN 0 ELSE m[a]
<1>1. L \in Nat /\ DOMAIN m = 1..L /\ \A a \in 1..L : m[a] \in Nat
  BY DEF Memory
<1>2. Fill(m, p, n, 0) = [a \in 1..L |-> IF a \in p..(p + n - 1) THEN 0 ELSE m[a]]
  BY <1>1 DEF Fill
<1>3. Fill(m, p, n, 0) \in [1..L -> Nat]
  BY <1>1, <1>2
<1>4. \A a \in 1..L : Fill(m, p, n, 0)[a] = IF a \in p..(p + n - 1) THEN 0 ELSE m[a]
  BY <1>2
<1> QED
  BY <1>1, <1>3, <1>4 DEF Memory

FieldCleared(r, m, dest, n) == r.err # "EOK" => r.mem = m \/ \A i \in 0..(n - 1) : r.mem[dest + i] = 0

FieldDone(r, fn, m, L, dest, dmax, src, slen) ==
    /\ Kept(r, m, L, dest, dmax) /\ FieldCleared(r, m, dest, dmax)
    /\ dest # NULL /\ src # NULL /\ dmax \in 1..RSIZE_MAX_STR /\ slen \in 1..dmax
       => \A k : FieldLength(fn, m, dmax, src, slen, k) =>
             /\ r.err = "EOK" <=> Disjoint(dest, k, src, FieldRead(fn, dmax, k))
             /\ \A i \in 0..(dmax - 1) :
                    r.mem[dest + i] = IF r.err = "EOK" /\ i < k THEN m[src + i] ELSE 0

(* A field that is cleared. *)
LEMMA ClearedField ==
    ASSUME NEW L, NEW m, Memory(m, L), NEW dest \in Int, NEW n \in Int, NEW e, NEW r, e # "EOK",
           In(dest, n, L), r = Failed(Fill(m, dest, n, 0), e)
    PROVE  /\ Memory(r.mem, L) /\ \A a \in 1..L : a \notin Cells(dest, n) => r.mem[a] = m[a]
           /\ r.err # "EOK" /\ \A i \in 0..(n - 1) : r.mem[dest + i] = 0
<1>1. r.mem = Fill(m, dest, n, 0) /\ r.err # "EOK"
  BY DEF Failed, Result
<1>3. Memory(r.mem, L) /\ \A a \in 1..L : r.mem[a] = IF a \in dest..(dest + n - 1) THEN 0 ELSE m[a]
  BY <1>1, ZeroesType
<1>4. \A i \in 0..(n - 1) : dest + i \in 1..L /\ dest + i \in dest..(dest + n - 1)
  BY DEF In, Memory
<1> QED
  BY <1>1, <1>3, <1>4 DEF Cells

(* What the loop of a field leaves once its error has been handled. *)
LEMMA FieldOutcome ==
    ASSUME NEW L, NEW m, Memory(m, L), NEW fn \in FieldFunctions, NEW dest \in Int, NEW dmax \in Int,
           NEW src \in Int, NEW slen \in Int, NEW loop, NEW r, NEW k, dmax >= 1, slen >= 1, slen <= dmax,
           In(src, dmax + 1, L), In(dest, dmax + 1, L), FieldLength(fn, m, dmax, src, slen, k),
           k \in 0..dmax, FieldResult(loop, fn, m, dest, dmax, src, k),
           r = ClearOnError(loop, dest, dmax)
    PROVE  /\ Kept(r, m, L, dest, dmax) /\ FieldCleared(r, m, dest, dmax)
           /\ r.err = "EOK" <=> Disjoint(dest, k, src, FieldRead(fn, dmax, k))
           /\ \A i \in 0..(dmax - 1) : r.mem[dest + i] = IF r.err = "EOK" /\ i < k THEN m[src + i] ELSE 0
<1>1. PICK n \in 0..k :
        \/ /\ n = k /\ Disjoint(dest, k, src, FieldRead(fn, dmax, k))
           /\ loop = Done(Fill(CopyUnit(m, dest, src, n), dest + n, dmax - n, 0))
        \/ /\ ~Disjoint(dest, k, src, FieldRead(fn, dmax, k))
           /\ loop = Failed(CopyUnit(m, dest, src, n), "ESOVRLP")
  BY DEF FieldResult
<1> DEFINE b == CopyUnit(m, dest, src, n)
<1>2. Memory(b, L) /\ \A a \in 1..L : b[a] = IF a \in dest..(dest + n - 1) THEN m[src + (a - dest)] ELSE m[a]
  <2>1. n \in Nat /\ In(src, n, L)
    BY DEF In, Memory
  <2>2. Memory(b, L)
    BY <2>1, CopyUnitType
  <2> QED
    BY <2>2 DEF CopyUnit, Memory
<1>3. In(dest, dmax, L)
  BY DEF In, Memory
<1> HIDE DEF b
<1>4. CASE Disjoint(dest, k, src, FieldRead(fn, dmax, k))
  <2>1. n = k /\ loop = Done(Fill(b, dest + n, dmax - n, 0))
    BY <1>1, <1>4 DEF b
  <2>2. r.err = "EOK" /\ r.mem = Fill(b, dest + n, dmax - n, 0)
    BY <2>1 DEF ClearOnError, Done, Result
  <2>3. PICK p \in Int, q \in Int : p = dest + n /\ q = dmax - n
    OBVIOUS
  <2>4. Memory(r.mem, L) /\ \A a \in 1..L : r.mem[a] = IF a \in p..(p + q - 1) THEN 0 ELSE b[a]
    BY <1>2, <2>2, <2>3, ZeroesType
  <2>5. ASSUME NEW i \in 0..(dmax - 1) PROVE r.mem[dest + i] = IF i < k THEN m[src + i] ELSE 0
    <3>1. dest + i \in 1..L
      BY <1>3 DEF In, Memory
    <3>2. CASE i < n
      <4>1. dest + i \in dest..(dest + n - 1) /\ dest + i \notin p..(p + q - 1)
        BY <2>3, <3>2
      <4>2. src + ((dest + i) - dest) = src + i
        OBVIOUS
      <4> QED
        BY <1>2, <2>1, <2>4, <3>1, <3>2, <4>1, <4>2
    <3>3. CASE ~(i < n)
      BY <2>1, <2>3, <2>4, <3>1, <3>3
    <3> QED
      BY <3>2, <3>3
  <2>6. ASSUME NEW a \in 1..L, a \notin Cells(dest, dmax) PROVE r.mem[a] = m[a]
    BY <1>2, <2>3, <2>4, <2>6 DEF Cells, Memory
  <2> QED
    BY <1>4, <2>2, <2>4, <2>5, <2>6 DEF Kept, FieldCleared
<1>5. CASE ~Disjoint(dest, k, src, FieldRead(fn, dmax, k))
  <2>1. loop = Failed(b, "ESOVRLP")
    BY <1>1, <1>5 DEF b
  <2>2. r = Failed(Fill(b, dest, dmax, 0), "ESOVRLP")
    BY <2>1 DEF ClearOnError, Failed, Result
  <2>3. /\ Memory(r.mem, L) /\ \A a \in 1..L : a \notin Cells(dest, dmax) => r.mem[a] = b[a]
        /\ r.err # "EOK" /\ \A i \in 0..(dmax - 1) : r.mem[dest + i] = 0
    BY <1>2, <1>3, <2>2, ClearedField
  <2>4. ASSUME NEW a \in 1..L, a \notin Cells(dest, dmax) PROVE r.mem[a] = m[a]
    <3>1. a \notin dest..(dest + n - 1)
      BY <2>4 DEF Cells, Memory
    <3> QED
      BY <1>2, <2>3, <2>4, <3>1
  <2> QED
    BY <1>5, <2>3, <2>4 DEF Kept, FieldCleared
<1> QED
  BY <1>4, <1>5

(* The three field functions, for every pair of fields. *)
LEMMA CopyFieldDoes ==
    ASSUME NEW m, NEW L, NEW dest, NEW dmax, NEW src, NEW slen \in Nat, NEW fn \in FieldFunctions,
           Strings(m, L, dest, dmax, src)
    PROVE  FieldDone(CopyField(fn, m, dest, dmax, src, slen), fn, m, L, dest, dmax, src, slen)
<1> DEFINE bad == DestError(dest, dmax, 1)
           badSrc == FirstError(<<NullSrc(src), Zero(slen), TooLong(slen, dmax)>>)
           loop == FieldLoop(fn, m, dest, dmax, src, slen, dest < src, Bumper(dest, src))
           r == CopyField(fn, m, dest, dmax, src, slen)
<1>1. r = IF bad # "EOK" THEN Failed(m, bad)
          ELSE IF badSrc # "EOK" THEN Failed(Fill(m, dest, dmax, 0), badSrc)
          ELSE ClearOnError(loop, dest, dmax)
  BY DEF CopyField, Bumper
<1>2. Memory(m, L) /\ dest \in Nat /\ dmax \in Nat /\ src \in Nat /\ 1 \in Nat
  BY DEF Strings
<1>3. badSrc = "EOK" <=> src # 0 /\ slen # 0 /\ slen <= dmax
  BY <1>2, SourceErrorIs
<1>4. bad = "EOK" <=> dest # 0 /\ dmax # 0 /\ dmax <= RSIZE_MAX_STR
  BY <1>2, DestErrorIs
<1> HIDE DEF r, badSrc, loop
<1>5. CASE bad # "EOK"
  <2>1. r.mem = m
    BY <1>1, <1>5, UnchangedResults
  <2>2. Kept(r, m, L, dest, dmax)
    BY <1>2, <2>1, SameOutcome
  <2>3. ~(dest # 0 /\ dmax \in 1..RSIZE_MAX_STR)
    BY <1>2, <1>4, <1>5
  <2> QED
    BY <2>1, <2>2, <2>3 DEF FieldDone, FieldCleared, r, NULL
<1>6. CASE bad = "EOK"
  <2>1. dest \in Int /\ dmax \in Int /\ dmax >= 1 /\ src \in Int /\ In(dest, dmax + 1, L) /\ (src # NULL => In(src, dmax + 1, L))
    BY <1>6, OneAndNoLimit, CopyReady
  <2> HIDE DEF bad
  <2>2. CASE badSrc # "EOK"
    <3>1. r = Failed(Fill(m, dest, dmax, 0), badSrc) /\ In(dest, dmax, L)
      BY <1>1, <1>2, <1>6, <2>1, <2>2 DEF In, Memory
    <3>2. /\ Memory(r.mem, L) /\ \A a \in 1..L : a \notin Cells(dest, dmax) => r.mem[a] = m[a]
          /\ r.err # "EOK" /\ \A i \in 0..(dmax - 1) : r.mem[dest + i] = 0
      BY <1>2, <2>1, <2>2, <3>1, ClearedField
    <3>3. ~(src # 0 /\ slen \in 1..dmax)
      BY <1>2, <1>3, <2>2
    <3> QED
      BY <3>2, <3>3 DEF FieldDone, FieldCleared, Kept, r, NULL
  <2>3. CASE badSrc = "EOK"
    <3>1. src # 0 /\ slen >= 1 /\ slen <= dmax /\ slen \in Int /\ In(src, dmax + 1, L)
      BY <1>3, <2>1, <2>3 DEF NULL
    <3>2. r = ClearOnError(loop, dest, dmax)
      BY <1>1, <1>6, <2>3
    <3>3. ASSUME NEW k, FieldLength(fn, m, dmax, src, slen, k)
          PROVE  /\ Kept(r, m, L, dest, dmax) /\ FieldCleared(r, m, dest, dmax)
                 /\ r.err = "EOK" <=> Disjoint(dest, k, src, FieldRead(fn, dmax, k))
                 /\ \A i \in 0..(dmax - 1) : r.mem[dest + i] = IF r.err = "EOK" /\ i < k THEN m[src + i] ELSE 0
      <4>1. k \in 0..dmax /\ FieldResult(loop, fn, m, dest, dmax, src, k)
        BY <1>2, <2>1, <3>1, <3>3, FieldLoopDoes DEF loop
      <4> QED
        BY <1>2, <2>1, <3>1, <3>2, <3>3, <4>1, FieldOutcome
    <3>4. \E k : FieldLength(fn, m, dmax, src, slen, k)
      <4>1. IsLength(m, src, dmax, Length(m, src, dmax))
        BY <1>2, LengthIs
      <4> QED
        BY <4>1 DEF FieldLength, FieldFunctions
    <3> QED
      BY <3>3, <3>4 DEF FieldDone, r
  <2> QED
    BY <2>2, <2>3
<1> QED
  BY <1>5, <1>6
-----------------------------------------------------------------------------

(* What stpncpy does, whatever it is called with: it writes at dest, even  *)
(* when it is told that there is no room, and within dmax otherwise.       *)
PaddedDone(r, m, L, dest, dmax, src, slen) ==
    /\ Memory(r.mem, L) /\ EmptyAtLeast(r, m, dest)
    /\ \A a \in 1..L : a \notin Cells(dest, dmax) => r.mem[a] = m[a] \/ (dmax = 0 /\ a = dest)
    /\ /\ dest # NULL /\ src # NULL /\ dest # src
       /\ dmax \in 1..RSIZE_MAX_STR /\ slen \in 1..RSIZE_MAX_STR
       => \A n : IsLength(m, src, slen, n) =>
             /\ r.err = "EOK" <=> slen < dmax /\ Disjoint(dest, slen + 1, src, slen + 1)
             /\ r.err = "EOK" =>
                   \A i \in 0..n : r.mem[dest + i] = IF i < n THEN m[src + i] ELSE 0
             /\ r.err = "EOK" => \A i \in n..(slen - 1) : r.mem[dest + i] = 0

(* When the checks of the lengths and of the overlap in stpncpy pass. *)
LEMMA PaddingErrorIs ==
    ASSUME NEW dest \in Int, NEW dmax \in Int, NEW src \in Int, NEW smax \in Int
    PROVE  PaddingError(dest, dmax, src, smax) = "EOK"
           <=> smax < dmax /\ (dest # src => Apart(dest, src, smax + 1))
<1> DEFINE a == <<dmax < smax + 1, "ESNOSPC">>
           b == <<src < dest /\ src + smax >= dest, "ESOVRLP">>
           c == <<dest < src /\ dest + smax >= src, "ESOVRLP">>
<1>1. /\ a[2] # "EOK" /\ (a[1] <=> dmax < smax + 1)
      /\ b[2] # "EOK" /\ (b[1] <=> src < dest /\ src + smax >= dest)
      /\ c[2] # "EOK" /\ (c[1] <=> dest < src /\ dest + smax >= src)
  OBVIOUS
<1>2. PaddingError(dest, dmax, src, smax) = FirstError(<<a, b, c>>)
  BY DEF PaddingError, NoRoom
<1> HIDE DEF a, b, c
<1>3. FirstError(<<a, b, c>>) = "EOK" <=> ~a[1] /\ ~b[1] /\ ~c[1]
  BY <1>1, FirstErrorOfThree
<1> QED
  BY <1>1, <1>2, <1>3 DEF Apart

(* When the checks of the two sizes in stpncpy pass. *)
LEMMA PaddedSizeIs ==
    ASSUME NEW dmax \in Nat, NEW smax \in Nat
    PROVE  FirstError(<<Zero(dmax), TooLong(dmax, RSIZE_MAX_STR), TooLong(smax, RSIZE_MAX_STR)>>) = "EOK"
           <=> dmax # 0 /\ dmax <= RSIZE_MAX_STR /\ smax <= RSIZE_MAX_STR
<1>1. RSIZE_MAX_STR \in Int /\ 0 \in Nat
  BY SafeLibAssumption
<1>2. Zero(dmax)[2] # "EOK" /\ (Zero(dmax)[1] <=> dmax = 0)
  BY DEF Zero
<1>3. TooLong(dmax, RSIZE_MAX_STR)[2] # "EOK" /\ (TooLong(dmax, RSIZE_MAX_STR)[1] <=> dmax > RSIZE_MAX_STR)
  BY DEF TooLong
<1>4. TooLong(smax, RSIZE_MAX_STR)[2] # "EOK" /\ (TooLong(smax, RSIZE_MAX_STR)[1] <=> smax > RSIZE_MAX_STR)
  BY DEF TooLong
<1>5. FirstError(<<Zero(dmax), TooLong(dmax, RSIZE_MAX_STR), TooLong(smax, RSIZE_MAX_STR)>>) = "EOK"
      <=> ~Zero(dmax)[1] /\ ~TooLong(dmax, RSIZE_MAX_STR)[1] /\ ~TooLong(smax, RSIZE_MAX_STR)[1]
  BY <1>2, <1>3, <1>4, FirstErrorOfThree
<1> QED
  BY <1>1, <1>2, <1>3, <1>4, <1>5

(* The string and the nulls behind it. *)
LEMMA PaddedCopyDoes ==
    ASSUME NEW L, NEW m, Memory(m, L), NEW dest \in Int, NEW dmax \in Int, NEW src \in Int,
           NEW smax \in Int, dest >= 1, smax >= 0, smax < dmax, dest + dmax <= L, In(src, smax + 1, L),
           Apart(dest, src, smax + 1), NEW r, r = PaddedCopy(m, dest, dmax, src, smax)
    PROVE  /\ r.err = "EOK" /\ Memory(r.mem, L)
           /\ \A n : IsLength(m, src, smax, n) =>
                 \A a \in 1..L : r.mem[a] = IF a \in dest..(dest + n - 1) THEN m[src + (a - dest)]
                                            ELSE IF a = dest + n \/ a \in (dest + n)..(dest + smax - 1) THEN 0
                                            ELSE m[a]
<1> DEFINE After(k) == CopyUp(m, dest, src, k, 1)
           S == {k \in 0..dmax : k = dmax \/ k = smax \/ After(k)[src + k] = 0}
           n == Min(S)
<1>1. S \in SUBSET Nat /\ smax \in S
  OBVIOUS
<1>2. \A k : k \in S <=> k \in 0..dmax /\ (k = dmax \/ k = smax \/ After(k)[src + k] = 0)
  OBVIOUS
<1>3. r = IF n = dmax THEN Failed(After(n), "ESNOSPC")
          ELSE Returns(Put(Fill(After(n), dest + n, smax - n, 0), dest + n, 0), dest + n)
  BY DEF PaddedCopy
<1> HIDE DEF S
<1>4. n \in S /\ \A k \in S : n <= k
  BY <1>1, MinMember
<1> HIDE DEF n, After
<1>5. n \in 0..smax /\ n \in Nat
  BY <1>1, <1>2, <1>4
<1>6. ASSUME NEW k \in 0..smax
      PROVE  After(k) = CopyUnit(m, dest, src, k) /\ After(k)[src + k] = m[src + k]
  <2>1. In(src, k, L) /\ src + k <= L /\ Apart(dest, src, k) /\ Apart(dest, src, k + 1)
    BY DEF In, Memory, Apart
  <2> QED
    BY <2>1, CopiedSoFar DEF After
<1>7. IsLength(m, src, smax, n)
  <2>1. n < smax => m[src + n] = 0
    BY <1>2, <1>4, <1>5, <1>6
  <2>2. ASSUME NEW k \in 0..(n - 1) PROVE m[src + k] # 0
    <3>1. k \in 0..smax /\ k \notin S
      BY <1>4, <1>5
    <3> QED
      BY <1>2, <1>6, <3>1
  <2> QED
    BY <1>5, <2>1, <2>2 DEF IsLength, Plain
<1> DEFINE b == CopyUnit(m, dest, src, n)
           f == Fill(b, dest + n, smax - n, 0)
<1>8. r.err = "EOK" /\ r.mem = Put(f, dest + n, 0)
  BY <1>3, <1>5, <1>6 DEF Returns, Result
<1>9. Memory(b, L) /\ \A a \in 1..L : b[a] = IF a \in dest..(dest + n - 1) THEN m[src + (a - dest)] ELSE m[a]
  <2>1. In(src, n, L)
    BY <1>5 DEF In, Memory
  <2>2. Memory(b, L)
    BY <1>5, <2>1, CopyUnitType
  <2> QED
    BY <2>2 DEF CopyUnit, Memory
<1> HIDE DEF b
<1>10. PICK p \in Int, q \in Int : p = dest + n /\ q = smax - n
  BY <1>5
<1>11. Memory(f, L) /\ \A a \in 1..L : f[a] = IF a \in p..(p + q - 1) THEN 0 ELSE b[a]
  BY <1>9, <1>10, ZeroesType
<1> HIDE DEF f
<1>12. Memory(r.mem, L) /\ \A a \in 1..L : r.mem[a] = IF a = p THEN 0 ELSE f[a]
  <2>1. 0 \in Nat
    OBVIOUS
  <2> QED
    BY <1>8, <1>10, <1>11, <2>1, PutType
<1>13. ASSUME NEW a \in 1..L
       PROVE  r.mem[a] = IF a \in dest..(dest + n - 1) THEN m[src + (a - dest)]
                         ELSE IF a = dest + n \/ a \in (dest + n)..(dest + smax - 1) THEN 0 ELSE m[a]
  <2>1. p \notin dest..(dest + n - 1) /\ \A c \in p..(p + q - 1) : c \notin dest..(dest + n - 1)
    BY <1>5, <1>10
  <2>2. p..(p + q - 1) = (dest + n)..(dest + smax - 1)
    BY <1>5, <1>10
  <2> QED
    BY <1>9, <1>10, <1>11, <1>12, <2>1, <2>2
<1>14. \A k : IsLength(m, src, smax, k) => k = n
  <2>1. smax \in Nat
    OBVIOUS
  <2> QED
    BY <1>7, <2>1, OneLength
<1> QED
  BY <1>8, <1>12, <1>13, <1>14

(* The end of a string is found within smax characters. *)
LEMMA PadInPlaceDoes ==
    ASSUME NEW L, NEW m, Memory(m, L), NEW dest \in Int, NEW dmax \in Int, NEW smax \in Int,
           dest >= 1, smax >= 1, smax < dmax, dest + dmax <= L, NEW r, r = PadInPlace(m, dest, dmax, smax)
    PROVE  /\ r.err = "EOK" /\ Memory(r.mem, L)
           /\ \A a \in 1..L : a \notin Cells(dest, dmax) => r.mem[a] = m[a]
<1> DEFINE After(k) == IF smax \in 1..k THEN Put(m, dest + smax, 0) ELSE m
           S == {k \in 0..dmax : k = dmax \/ After(k)[dest + k] = 0}
           n == Min(S)
<1>1. \A k : k \in S <=> k \in 0..dmax /\ (k = dmax \/ After(k)[dest + k] = 0)
  OBVIOUS
<1>2. r = IF n = dmax THEN Failed(After(n), "ESNOSPC")
          ELSE Returns(Fill(After(n), dest + n, smax - n, 0), dest + n)
  BY DEF PadInPlace
<1>3. PICK p \in Int : p = dest + smax
  OBVIOUS
<1>4. Memory(Put(m, p, 0), L) /\ \A a \in 1..L : Put(m, p, 0)[a] = IF a = p THEN 0 ELSE m[a]
  <2>1. 0 \in Nat
    OBVIOUS
  <2> QED
    BY <1>3, <2>1, PutType
<1>5. p \in 1..L
  BY <1>3 DEF Memory
<1>6. After(smax)[dest + smax] = 0
  BY <1>3, <1>4, <1>5
<1>7. \A k : Memory(After(k), L) /\ \A a \in 1..L : a # p => After(k)[a] = m[a]
  BY <1>3, <1>4
<1> HIDE DEF S, After
<1>8. S \in SUBSET Nat /\ smax \in S
  BY <1>1, <1>6
<1>9. n \in S /\ \A k \in S : n <= k
  BY <1>8, MinMember
<1> HIDE DEF n
<1>10. n \in 0..smax
  BY <1>1, <1>8, <1>9
<1>11. r.err = "EOK" /\ r.mem = Fill(After(n), dest + n, smax - n, 0)
  BY <1>2, <1>10 DEF Returns, Result
<1>12. PICK x \in Int, q \in Int : x = dest + n /\ q = smax - n
  BY <1>10
<1>13. Memory(r.mem, L) /\ \A a \in 1..L : r.mem[a] = IF a \in x..(x + q - 1) THEN 0 ELSE After(n)[a]
  BY <1>7, <1>11, <1>12, ZeroesType
<1>14. ASSUME NEW a \in 1..L, a \notin Cells(dest, dmax) PROVE r.mem[a] = m[a]
  <2>1. a \notin x..(x + q - 1) /\ a # p
    BY <1>3, <1>10, <1>12, <1>14 DEF Cells, Memory
  <2> QED
    BY <1>7, <1>13, <2>1
<1> QED
  BY <1>11, <1>13, <1>14

(* A null that is put into the memory. *)
LEMMA ZeroPutType ==
    ASSUME NEW L, NEW m, NEW p \in Int, Memory(m, L)
    PROVE  Memory(Put(m, p, 0), L) /\ \A a \in 1..L : Put(m, p, 0)[a] = IF a = p THEN 0 ELSE m[a]
<1>1. 0 \in Nat
  OBVIOUS
<1> QED
  BY <1>1, PutType

(* A call that is refused: nothing is written, or dest becomes empty. *)
LEMMA PaddedRefused ==
    ASSUME NEW L, NEW m, Memory(m, L), NEW dest, NEW dmax, NEW src, NEW slen, NEW r, r.mem = m,
           r.err # "EOK",
           ~(/\ dest # 0 /\ src # 0 /\ dest # src /\ dmax \in 1..RSIZE_MAX_STR /\ slen \in 1..RSIZE_MAX_STR)
    PROVE  PaddedDone(r, m, L, dest, dmax, src, slen)
  BY DEF PaddedDone, EmptyAtLeast, NULL

(* stpncpy when it refuses: the destination is an empty string. *)
LEMMA PaddedNulled ==
    ASSUME NEW L, NEW m, Memory(m, L), NEW dest \in Int, NEW dmax \in Int, NEW src, NEW slen, NEW e,
           NEW r, r = Nulled(m, dest, e), e # "EOK", dest >= 1, dest <= L, dmax >= 0,
           src = 0 \/ dest = src \/ ~(slen < dmax /\ Disjoint(dest, slen + 1, src, slen + 1))
    PROVE  PaddedDone(r, m, L, dest, dmax, src, slen)
<1>1. r.mem = Put(m, dest, 0) /\ r.err # "EOK"
  BY DEF Nulled, Failed, Result
<1>2. Memory(r.mem, L) /\ \A a \in 1..L : r.mem[a] = IF a = dest THEN 0 ELSE m[a]
  BY <1>1, ZeroPutType
<1>3. dest \in 1..L /\ (dmax # 0 => dest \in Cells(dest, dmax))
  BY DEF Memory, Cells
<1>4. r.mem[dest] = 0
  BY <1>2, <1>3
<1>5. \A a \in 1..L : a \notin Cells(dest, dmax) => r.mem[a] = m[a] \/ (dmax = 0 /\ a = dest)
  BY <1>2, <1>3
<1> QED
  BY <1>1, <1>2, <1>4, <1>5 DEF PaddedDone, EmptyAtLeast, NULL

(* stpncpy, for every pair of strings. *)
LEMMA stpncpyDoes ==
    ASSUME NEW m, NEW L, NEW dest, NEW dmax, NEW src, NEW slen \in Nat, Strings(m, L, dest, dmax, src),
           slen <= RSIZE_MAX_STR /\ src # 0 => In(src, slen + 1, L), slen = 0 => dest # src
    PROVE  PaddedDone(safe_stpncpy(m, dest, dmax, src, slen), m, L, dest, dmax, src, slen)
<1> DEFINE badSize == FirstError(<<Zero(dmax), TooLong(dmax, RSIZE_MAX_STR), TooLong(slen, RSIZE_MAX_STR)>>)
           badFit == PaddingError(dest, dmax, src, slen)
           inPlace == PadInPlace(m, dest, dmax, slen)
           copied == PaddedCopy(m, dest, dmax, src, slen)
           r == safe_stpncpy(m, dest, dmax, src, slen)
<1>1. r = IF dest = NULL THEN Failed(m, "ESNULLP")
          ELSE IF src = NULL THEN Nulled(m, dest, "ESNULLP")
          ELSE IF badSize # "EOK" THEN Failed(m, badSize)
          ELSE IF badFit # "EOK" THEN Nulled(m, dest, badFit)
          ELSE EmptyOnError(IF dest = src THEN inPlace ELSE copied, dest)
  BY DEF safe_stpncpy
<1>2. /\ Memory(m, L) /\ dest \in Nat /\ dmax \in Nat /\ src \in Nat /\ dest <= L
      /\ dest \in Int /\ dmax \in Int /\ dmax >= 0
  BY DEF Strings
<1>3. badSize = "EOK" <=> dmax # 0 /\ dmax <= RSIZE_MAX_STR /\ slen <= RSIZE_MAX_STR
  BY <1>2, PaddedSizeIs
<1>4. badFit = "EOK" <=> slen < dmax /\ (dest # src => Apart(dest, src, slen + 1))
  BY <1>2, PaddingErrorIs
<1>5. dest # 0 => dest >= 1
  BY <1>2
<1>6. dest # src => (Apart(dest, src, slen + 1) <=> Disjoint(dest, slen + 1, src, slen + 1))
  <2>1. Apart(dest, src, slen + 1) => Disjoint(dest, slen + 1, src, slen + 1)
    BY <1>2 DEF Apart, Disjoint, Cells
  <2>2. ASSUME ~Apart(dest, src, slen + 1), dest < src PROVE ~Disjoint(dest, slen + 1, src, slen + 1)
    <3>1. src \in Cells(dest, slen + 1) /\ src \in Cells(src, slen + 1)
      BY <1>2, <2>2 DEF Apart, Cells
    <3> QED
      BY <3>1 DEF Disjoint
  <2>3. ASSUME ~Apart(dest, src, slen + 1), src < dest PROVE ~Disjoint(dest, slen + 1, src, slen + 1)
    <3>1. dest \in Cells(dest, slen + 1) /\ dest \in Cells(src, slen + 1)
      BY <1>2, <2>3 DEF Apart, Cells
    <3> QED
      BY <3>1 DEF Disjoint
  <2> QED
    BY <1>2, <2>1, <2>2, <2>3
<1>7. RSIZE_MAX_STR \in Nat
  BY SafeLibAssumption
<1> HIDE DEF r, badSize, badFit, inPlace, copied
<1>8. CASE dest = NULL
  <2>1. r.mem = m /\ r.err # "EOK"
    BY <1>1, <1>8, UnchangedResults
  <2>2. dest = 0
    BY <1>8 DEF NULL
  <2> QED
    BY <1>2, <2>1, <2>2, PaddedRefused DEF r
<1>9. CASE dest # NULL /\ src = NULL
  <2>1. src = 0 /\ dest >= 1
    BY <1>5, <1>9 DEF NULL
  <2>2. r = Nulled(m, dest, "ESNULLP")
    BY <1>1, <1>9
  <2> QED
    BY <1>2, <2>1, <2>2, PaddedNulled DEF r
<1>10. CASE dest # NULL /\ src # NULL /\ badSize # "EOK"
  <2>1. r.mem = m /\ r.err # "EOK"
    BY <1>1, <1>10, UnchangedResults
  <2>2. ~(dmax \in 1..RSIZE_MAX_STR /\ slen \in 1..RSIZE_MAX_STR)
    BY <1>2, <1>3, <1>7, <1>10
  <2> QED
    BY <1>2, <2>1, <2>2, PaddedRefused DEF r
<1>11. CASE dest # NULL /\ src # NULL /\ badSize = "EOK" /\ badFit # "EOK"
  <2>1. r = Nulled(m, dest, badFit) /\ dest >= 1
    BY <1>1, <1>5, <1>11 DEF NULL
  <2>2. dest = src \/ ~(slen < dmax /\ Disjoint(dest, slen + 1, src, slen + 1))
    BY <1>4, <1>6, <1>11
  <2> QED
    BY <1>2, <1>11, <2>1, <2>2, PaddedNulled DEF r
<1>12. CASE dest # NULL /\ src # NULL /\ badSize = "EOK" /\ badFit = "EOK"
  <2>1. slen < dmax /\ dmax <= RSIZE_MAX_STR /\ slen <= RSIZE_MAX_STR /\ dest >= 1 /\ dest # 0 /\ src # 0
    BY <1>3, <1>4, <1>5, <1>12 DEF NULL
  <2>2. dest + dmax <= L /\ In(src, slen + 1, L) /\ slen \in Int /\ slen >= 0 /\ src \in Int
    BY <1>2, <2>1 DEF Strings, In, Memory
  <2>3. CASE dest = src
    <3>1. slen >= 1
      BY <2>3
    <3>2. inPlace.err = "EOK" /\ Memory(inPlace.mem, L) /\ \A a \in 1..L : a \notin Cells(dest, dmax) => inPlace.mem[a] = m[a]
      BY <1>2, <2>1, <2>2, <3>1, PadInPlaceDoes DEF inPlace
    <3>3. r = inPlace
      BY <1>1, <1>12, <2>3, <3>2 DEF EmptyOnError
    <3> QED
      BY <2>3, <3>2, <3>3 DEF PaddedDone, EmptyAtLeast, r
  <2>4. CASE dest # src
    <3>1. Apart(dest, src, slen + 1) /\ Disjoint(dest, slen + 1, src, slen + 1)
      BY <1>4, <1>6, <1>12, <2>4
    <3>2. /\ copied.err = "EOK" /\ Memory(copied.mem, L)
          /\ \A n : IsLength(m, src, slen, n) =>
                \A a \in 1..L : copied.mem[a] = IF a \in dest..(dest + n - 1) THEN m[src + (a - dest)]
                                           ELSE IF a = dest + n \/ a \in (dest + n)..(dest + slen - 1) THEN 0
                                           ELSE m[a]
      BY <1>2, <2>1, <2>2, <3>1, PaddedCopyDoes DEF copied
    <3>3. r = copied
      BY <1>1, <1>12, <2>4, <3>2 DEF EmptyOnError
    <3>4. PICK k : IsLength(m, src, slen, k)
      BY LengthIs
    <3>5. ASSUME NEW a \in 1..L, a \notin Cells(dest, dmax) PROVE r.mem[a] = m[a]
      <4>1. k \in 0..slen
        BY <3>4 DEF IsLength
      <4>2. a \notin dest..(dest + k - 1) /\ a # dest + k /\ a \notin (dest + k)..(dest + slen - 1)
        BY <1>2, <2>1, <3>5, <4>1 DEF Cells, Memory
      <4> QED
        BY <3>2, <3>3, <3>4, <4>2
    <3>6. ASSUME NEW n, IsLength(m, src, slen, n)
          PROVE  /\ \A i \in 0..n : r.mem[dest + i] = IF i < n THEN m[src + i] ELSE 0
                 /\ \A i \in n..(slen - 1) : r.mem[dest + i] = 0
      <4>1. n \in 0..slen
        BY <3>6 DEF IsLength
      <4>2. \A a \in 1..L : r.mem[a] = IF a \in dest..(dest + n - 1) THEN m[src + (a - dest)]
                                       ELSE IF a = dest + n \/ a \in (dest + n)..(dest + slen - 1) THEN 0
                                       ELSE m[a]
        BY <3>2, <3>3, <3>6
      <4>3. ASSUME NEW i \in 0..n PROVE r.mem[dest + i] = IF i < n THEN m[src + i] ELSE 0
        <5>1. PICK a \in 1..L : a = dest + i
          BY <1>2, <2>1, <2>2, <4>1 DEF Memory
        <5>2. (a \in dest..(dest + n - 1) <=> i < n) /\ src + (a - dest) = src + i /\ (i = n => a = dest + n)
          BY <1>2, <4>1, <5>1
        <5>3. r.mem[a] = IF i < n THEN m[src + i] ELSE 0
          BY <4>1, <4>2, <5>2
        <5> QED
          BY <5>1, <5>3
      <4>4. ASSUME NEW i \in n..(slen - 1) PROVE r.mem[dest + i] = 0
        <5>1. dest + i \in 1..L
          BY <1>2, <2>1, <2>2, <4>1 DEF Memory
        <5>2. dest + i \notin dest..(dest + n - 1) /\ dest + i \in (dest + n)..(dest + slen - 1)
          BY <1>2, <4>1
        <5> QED
          BY <4>2, <5>1, <5>2
      <4> QED
        BY <4>3, <4>4
    <3> QED
      BY <2>1, <3>1, <3>2, <3>3, <3>5, <3>6 DEF PaddedDone, EmptyAtLeast, r
  <2> QED
    BY <2>3, <2>4
<1> QED
  BY <1>8, <1>9, <1>10, <1>11, <1>12
-----------------------------------------------------------------------------

(* The last cell of a memory. *)
LEMMA LastCellIs ==
    ASSUME NEW L, NEW m, Memory(m, L), L >= 1
    PROVE  Max(DOMAIN m) = L
<1> DEFINE S == 1..L
<1>1. DOMAIN m = S /\ L \in Nat
  BY DEF Memory
<1>2. S \in SUBSET (0..L) /\ L \in S /\ \A k \in S : k \in Int /\ k <= L
  BY <1>1
<1> HIDE DEF S
<1>3. Max(S) \in S /\ \A k \in S : k <= Max(S)
  BY <1>1, <1>2, MaxMember
<1>4. Max(S) = L
  <2>1. PICK x : x = Max(S)
    OBVIOUS
  <2>2. x \in Int /\ x <= L /\ L <= x /\ L \in Int
    BY <1>1, <1>2, <1>3, <2>1
  <2> QED
    BY <2>1, <2>2
<1> QED
  BY <1>1, <1>4

(* k characters that have moved down, with blanks in their old place. *)
Shifted(m, to, from, k) ==
    [a \in DOMAIN m |-> IF a \in to..(to + k - 1) THEN m[from + (a - to)]
                        ELSE IF a \in from..(from + k - 1) THEN 32 ELSE m[a]]

(* One step of the loop that moves a text towards the beginning. *)
LEMMA ShiftedOne ==
    ASSUME NEW L, NEW m, Memory(m, L), NEW to \in Int, NEW from \in Int, NEW j \in Int, NEW k \in Int,
           NEW b, to >= 1, to < from, j >= 0, Sum(j, 1, k), from + j <= L, b = Shifted(m, to, from, j)
    PROVE  /\ b[from + j] = m[from + j]
           /\ Put(Put(b, to + j, b[from + j]), from + j, 32) = Shifted(m, to, from, k)
<1>1. L \in Nat /\ DOMAIN m = 1..L /\ k = j + 1
  BY DEF Memory, Sum
<1>2. \A a \in 1..L : b[a] = IF a \in to..(to + j - 1) THEN m[from + (a - to)]
                             ELSE IF a \in from..(from + j - 1) THEN 32 ELSE m[a]
  BY <1>1 DEF Shifted
<1>3. PICK p \in 1..L : p = from + j
  BY <1>1
<1>4. b[p] = m[p]
  BY <1>2, <1>3
<1>5. PICK q \in 1..L : q = to + j
  BY <1>1
<1>6. DOMAIN b = 1..L
  BY <1>1 DEF Shifted
<1> DEFINE X(a) == IF a = p THEN 32 ELSE IF a = q THEN m[p] ELSE b[a]
           Y(a) == IF a \in to..(to + k - 1) THEN m[from + (a - to)]
                   ELSE IF a \in from..(from + k - 1) THEN 32 ELSE m[a]
<1>7. Put(Put(b, q, b[p]), p, 32) = [a \in 1..L |-> X(a)]
  BY <1>4, <1>6 DEF Put
<1>8. Shifted(m, to, from, k) = [a \in 1..L |-> Y(a)]
  BY <1>1 DEF Shifted
<1>9. ASSUME NEW a \in 1..L PROVE X(a) = Y(a)
  <2>1. CASE a = p
    <3>1. a \notin to..(to + k - 1) /\ a \in from..(from + k - 1)
      BY <1>1, <1>3, <2>1
    <3> QED
      BY <2>1, <3>1
  <2>2. CASE a # p /\ a = q
    <3>1. a \in to..(to + k - 1) /\ from + (a - to) = p
      BY <1>1, <1>3, <1>5, <2>2
    <3> QED
      BY <2>2, <3>1
  <2>3. CASE a # p /\ a # q
    <3>1. a \in to..(to + k - 1) <=> a \in to..(to + j - 1)
      BY <1>1, <1>5, <2>3
    <3>2. a \in from..(from + k - 1) <=> a \in from..(from + j - 1)
      BY <1>1, <1>3, <2>3
    <3> QED
      BY <1>2, <2>3, <3>1, <3>2
  <2> QED
    BY <2>1, <2>2, <2>3
<1> HIDE DEF X, Y
<1>10. Put(Put(b, q, b[p]), p, 32) = Shifted(m, to, from, k)
  BY <1>7, <1>8, <1>9
<1> QED
  BY <1>3, <1>4, <1>5, <1>10

(* A text that ends within the memory moves down as a whole. *)
LEMMA ShiftDownIs ==
    ASSUME NEW L, NEW m, Memory(m, L), NEW to \in Int, NEW from \in Int, NEW k \in Int,
           to >= 1, to < from, k >= 0, from + k <= L, Plain(m, from, k), m[from + k] = 0
    PROVE  ShiftDown(m, to, from) = [mem |-> Shifted(m, to, from, k), to |-> to + k]
<1> DEFINE top == Max(DOMAIN m)
           N == top - from
           F(i) == Shifted(m, to, from, i)
           Body(g) == [i \in 0..N |-> IF i = 0 THEN m
                         ELSE LET b == g[i - 1] IN Put(Put(b, to + i - 1, b[from + i - 1]), from + i - 1, 32)]
           f == [i \in 0..N |-> F(i)]
           D == CHOOSE g : g = Body(g)
           S == {i \in 0..N : D[i][from + i] = 0}
           n == Min(S)
<1>0. ShiftDown(m, to, from) = [mem |-> D[n], to |-> to + n]
  BY DEF ShiftDown
<1>1. L \in Nat /\ DOMAIN m = 1..L /\ top = L
  <2>1. L \in Nat /\ L >= 1 /\ DOMAIN m = 1..L
    BY DEF Memory
  <2> QED
    BY <2>1, LastCellIs
<1> HIDE DEF top
<1>2. N \in Nat /\ N = L - from /\ k \in 0..N
  BY <1>1
<1>3. F(0) = m
  <2>1. \A a \in 1..L : a \notin to..(to + 0 - 1) /\ a \notin from..(from + 0 - 1)
    OBVIOUS
  <2>2. m = [a \in 1..L |-> m[a]]
    BY DEF Memory
  <2> QED
    BY <1>1, <2>1, <2>2 DEF Shifted
<1>4. ASSUME NEW i \in 0..N
      PROVE  /\ F(i)[from + i] = m[from + i]
             /\ i + 1 \in 0..N => Put(Put(F(i), to + i, F(i)[from + i]), from + i, 32) = F(i + 1)
  <2>1. PICK j \in Int : j = i + 1
    OBVIOUS
  <2>2. Sum(i, 1, j) /\ i \in Int /\ i >= 0 /\ from + i <= L
    BY <1>1, <2>1 DEF Sum
  <2>3. PICK b : b = F(i)
    OBVIOUS
  <2>4. b[from + i] = m[from + i] /\ Put(Put(b, to + i, b[from + i]), from + i, 32) = F(j)
    BY <2>2, <2>3, ShiftedOne
  <2> QED
    BY <2>1, <2>3, <2>4
<1> HIDE DEF F, N
<1>5. f = Body(f)
  <2>1. ASSUME NEW i \in 0..N
        PROVE  F(i) = IF i = 0 THEN m
                      ELSE LET b == f[i - 1] IN Put(Put(b, to + i - 1, b[from + i - 1]), from + i - 1, 32)
    <3>1. CASE i = 0
      BY <1>3, <3>1
    <3>2. CASE i # 0
      <4>1. i - 1 \in 0..N /\ (i - 1) + 1 = i /\ to + (i - 1) = to + i - 1 /\ from + (i - 1) = from + i - 1
        BY <1>2, <3>2
      <4>2. f[i - 1] = F(i - 1)
        BY <4>1
      <4> QED
        BY <1>4, <3>2, <4>1, <4>2
    <3> QED
      BY <3>1, <3>2
  <2> QED
    BY <2>1
<1>6. D = Body(D)
  <2> HIDE DEF f, Body
  <2> QED
    BY <1>5
<1> HIDE DEF D
<1>7. D[0] = m /\ \A i \in 1..N : D[i] = Put(Put(D[i - 1], to + i - 1, D[i - 1][from + i - 1]), from + i - 1, 32)
  BY <1>2, <1>6
<1> HIDE DEF Body
<1>8. \A i \in 0..N : D[i] = F(i)
  <2> DEFINE T == {i \in 0..N : D[i] = F(i)}
  <2>1. 0 \in T
    BY <1>2, <1>3, <1>7
  <2>2. ASSUME NEW i \in 0..(N - 1), i \in T PROVE i + 1 \in T
    <3>1. i + 1 \in 1..N /\ i + 1 \in 0..N /\ i \in 0..N /\ (i + 1) - 1 = i /\ to + (i + 1) - 1 = to + i /\ from + (i + 1) - 1 = from + i
      BY <1>2
    <3>2. D[i] = F(i)
      BY <2>2
    <3>3. D[i + 1] = Put(Put(D[i], to + i, D[i][from + i]), from + i, 32)
      BY <1>7, <3>1
    <3>4. D[i + 1] = F(i + 1)
      BY <1>4, <3>1, <3>2, <3>3
    <3> QED
      BY <3>1, <3>4
  <2> HIDE DEF T
  <2>3. \A i \in 0..N : i \in T
    BY <1>2, <2>1, <2>2, UpToInduction
  <2> QED
    BY <2>3 DEF T
<1>9. \A i : i \in S <=> i \in 0..N /\ m[from + i] = 0
  BY <1>4, <1>8
<1> HIDE DEF S
<1>10. S \in SUBSET Nat /\ k \in S
  BY <1>2, <1>9
<1>11. n \in S /\ \A i \in S : n <= i
  BY <1>10, MinMember
<1> HIDE DEF n
<1>12. n = k
  <2>1. n \in 0..k
    BY <1>2, <1>9, <1>10, <1>11
  <2>2. n < k => FALSE
    BY <1>9, <1>11, <2>1 DEF Plain
  <2> QED
    BY <2>1, <2>2
<1> QED
  BY <1>0, <1>2, <1>8, <1>12 DEF F

(* A string of k characters whose first t are blanks. *)
BlanksFirst(m, dest, k, t) ==
    /\ t \in dest..(dest + k) /\ m[t] \notin Blanks
    /\ \A a \in dest..(t - 1) : m[a] \in Blanks

(* The blanks in front of a text end within the string. *)
LEMMA SkippedBlanks ==
    ASSUME NEW L, NEW m, Memory(m, L), NEW dest \in Int, NEW k \in Int,
           dest >= 1, k >= 0, dest + k <= L, Plain(m, dest, k), m[dest + k] = 0
    PROVE  /\ BlanksFirst(m, dest, k, SkipBlanks(m, dest))
           /\ SkipBlanks(m, dest) < dest + k => m[SkipBlanks(m, dest)] # 0
<1> DEFINE top == Max(DOMAIN m)
           S == {a \in dest..top : m[a] \notin Blanks}
           t == Min(S)
<1>0. SkipBlanks(m, dest) = t
  BY DEF SkipBlanks
<1>1. L \in Nat /\ L >= 1 /\ top = L
  <2>1. L \in Nat /\ L >= 1
    BY DEF Memory
  <2> QED
    BY <2>1, LastCellIs
<1> HIDE DEF top
<1>2. \A a : a \in S <=> a \in dest..top /\ m[a] \notin Blanks
  OBVIOUS
<1>3. PICK e \in Int : e = dest + k
  OBVIOUS
<1>4. e \in dest..L /\ m[e] \notin Blanks
  BY <1>3 DEF Blanks
<1> HIDE DEF S
<1>5. S \in SUBSET Nat /\ e \in S
  BY <1>1, <1>2, <1>4
<1>6. t \in S /\ \A a \in S : t <= a
  BY <1>5, MinMember
<1> HIDE DEF t
<1>7. t \in dest..e
  BY <1>1, <1>2, <1>5, <1>6
<1>8. \A a \in dest..(t - 1) : m[a] \in Blanks
  BY <1>1, <1>2, <1>3, <1>4, <1>6, <1>7
<1>9. ASSUME t < e PROVE m[t] # 0
  <2>1. t - dest \in 0..(k - 1) /\ dest + (t - dest) = t
    BY <1>3, <1>7, <1>9
  <2> QED
    BY <2>1 DEF Plain
<1> QED
  BY <1>0, <1>2, <1>3, <1>6, <1>7, <1>8, <1>9 DEF BlanksFirst

(* n characters from `from' on have become the string at dest, and every   *)
(* other change lies within the k cells of the old string.                 *)
TextIs(b, m, L, dest, from, n, k) ==
    /\ Memory(b, L)
    /\ \A a \in 1..L : a \notin Cells(dest, k) => b[a] = m[a]
    /\ \A i \in 0..(n - 1) : b[dest + i] = m[from + i]
    /\ b[dest + n] = 0

(* The memory after a text has been moved. *)
LEMMA ShiftedType ==
    ASSUME NEW L, NEW m, Memory(m, L), NEW to \in Int, NEW from \in Int, NEW n \in Int, NEW b,
           to >= 1, to < from, n >= 0, from + n <= L, b = Shifted(m, to, from, n)
    PROVE  /\ Memory(b, L)
           /\ \A a \in 1..L : b[a] = IF a \in to..(to + n - 1) THEN m[from + (a - to)]
                                     ELSE IF a \in from..(from + n - 1) THEN 32 ELSE m[a]
<1>1. L \in Nat /\ DOMAIN m = 1..L /\ \A a \in 1..L : m[a] \in Nat
  BY DEF Memory
<1>2. b = [a \in 1..L |-> IF a \in to..(to + n - 1) THEN m[from + (a - to)]
                          ELSE IF a \in from..(from + n - 1) THEN 32 ELSE m[a]]
  BY <1>1 DEF Shifted
<1>3. \A a \in to..(to + n - 1) : from + (a - to) \in 1..L
  BY <1>1
<1>4. \A a \in 1..L : (IF a \in to..(to + n - 1) THEN m[from + (a - to)]
                       ELSE IF a \in from..(from + n - 1) THEN 32 ELSE m[a]) \in Nat
  BY <1>1, <1>3
<1>5. b \in [1..L -> Nat]
  BY <1>2, <1>4
<1>6. \A a \in 1..L : b[a] = IF a \in to..(to + n - 1) THEN m[from + (a - to)]
                             ELSE IF a \in from..(from + n - 1) THEN 32 ELSE m[a]
  BY <1>2
<1> QED
  BY <1>1, <1>5, <1>6 DEF Memory

(* A text moved to dest and terminated is the string at dest. *)
LEMMA JustifiedText ==
    ASSUME NEW L, NEW m, Memory(m, L), NEW dest \in Int, NEW t \in Int, NEW k \in Int, NEW n \in Int, NEW b,
           dest >= 1, dest < t, n >= 1, Sum(dest, k, t + n), dest + k <= L,
           Plain(m, t, n), m[t + n] = 0,
           b = Put(ShiftDown(m, dest, t).mem, ShiftDown(m, dest, t).to, 0)
    PROVE  TextIs(b, m, L, dest, t, n, k)
<1> DEFINE s == Shifted(m, dest, t, n)
<1>1. t + n <= L /\ t + n = dest + k /\ L \in Nat
  BY DEF Sum, Memory
<1>2. ShiftDown(m, dest, t) = [mem |-> s, to |-> dest + n]
  BY <1>1, ShiftDownIs
<1>3. PICK p \in Int : p = dest + n
  OBVIOUS
<1>4. b = Put(s, p, 0)
  BY <1>2, <1>3
<1>5. Memory(s, L) /\ \A a \in 1..L : s[a] = IF a \in dest..(dest + n - 1) THEN m[t + (a - dest)]
                                             ELSE IF a \in t..(t + n - 1) THEN 32 ELSE m[a]
  BY <1>1, ShiftedType
<1> HIDE DEF s
<1>6. Memory(b, L) /\ \A a \in 1..L : b[a] = IF a = p THEN 0 ELSE s[a]
  <2>1. PICK c : c = Put(s, p, 0)
    OBVIOUS
  <2>2. Memory(c, L) /\ \A a \in 1..L : c[a] = IF a = p THEN 0 ELSE s[a]
    <3>1. p \in Int /\ Memory(s, L)
      BY <1>3, <1>5
    <3> QED
      BY <2>1, <3>1, ZeroPutType
  <2> QED
    BY <1>4, <2>1, <2>2
<1>7. p \in 1..L /\ p \in Cells(dest, k)
  BY <1>1, <1>3 DEF Cells
<1>8. ASSUME NEW a \in 1..L, a \notin Cells(dest, k) PROVE b[a] = m[a]
  <2>1. a \notin dest..(dest + n - 1) /\ a \notin t..(t + n - 1) /\ a # p
    BY <1>1, <1>7, <1>8 DEF Cells
  <2> QED
    BY <1>5, <1>6, <2>1
<1>9. ASSUME NEW i \in 0..(n - 1) PROVE b[dest + i] = m[t + i]
  <2>1. PICK a \in 1..L : a = dest + i
    BY <1>1
  <2>2. a \in dest..(dest + n - 1) /\ a # p /\ t + (a - dest) = t + i
    BY <1>3, <2>1
  <2>3. b[a] = m[t + i]
    BY <1>5, <1>6, <2>2
  <2> QED
    BY <2>1, <2>3
<1> QED
  BY <1>3, <1>6, <1>7, <1>8, <1>9 DEF TextIs

(* The part of the string that is left when the blanks behind it are cut   *)
(* off: what the trimmed memory holds from p on downwards is no text.      *)
LEMMA TrimmedEnd ==
    ASSUME NEW L, NEW m, Memory(m, L), NEW p \in Int, NEW u \in Int, NEW b,
           u >= 1, u <= p, p <= L, m[u] \notin Blanks, \A a \in (u + 1)..p : m[a] \in Blanks,
           b = TrimEnd(m, p)
    PROVE  Memory(b, L) /\ \A a \in 1..L : b[a] = IF a \in (u + 1)..p THEN 0 ELSE m[a]
<1> DEFINE S == {a \in DOMAIN m : a <= p /\ m[a] \notin Blanks}
           last == Max(S)
<1>0. b = Fill(m, last + 1, p - last, 0)
  BY DEF TrimEnd
<1>1. L \in Nat /\ DOMAIN m = 1..L
  BY DEF Memory
<1>2. \A a : a \in S <=> a \in 1..L /\ a <= p /\ m[a] \notin Blanks
  BY <1>1
<1> HIDE DEF S
<1>3. S \in SUBSET (0..L) /\ u \in S
  BY <1>1, <1>2
<1>4. last \in S /\ \A a \in S : a <= last
  BY <1>1, <1>3, MaxMember
<1> HIDE DEF last
<1>5. last = u
  <2>1. last \in 1..L /\ last <= p /\ u <= last /\ m[last] \notin Blanks
    BY <1>2, <1>3, <1>4
  <2>2. ~(last \in (u + 1)..p)
    BY <2>1
  <2> QED
    BY <1>1, <2>1, <2>2
<1>6. PICK x \in Int, q \in Int : x = u + 1 /\ q = p - u
  OBVIOUS
<1>7. Memory(b, L) /\ \A a \in 1..L : b[a] = IF a \in x..(x + q - 1) THEN 0 ELSE m[a]
  BY <1>0, <1>5, <1>6, ZeroesType
<1> QED
  BY <1>6, <1>7

(* A text moved to dest and trimmed is the string at dest. *)
LEMMA TrimmedText ==
    ASSUME NEW L, NEW m, Memory(m, L), NEW dest \in Int, NEW t \in Int, NEW u \in Int, NEW k \in Int,
           NEW b, dest >= 1, dest <= t, t <= u, u < dest + k, dest + k <= L,
           Plain(m, dest, k), m[dest + k] = 0, BlanksFirst(m, dest, k, t),
           m[u] \notin Blanks, \A a \in (u + 1)..(dest + k - 1) : m[a] \in Blanks,
           b = TrimEnd(IF t = dest THEN m ELSE ShiftDown(m, dest, t).mem, dest + k - 1)
    PROVE  TextIs(b, m, L, dest, t, u + 1 - t, k)
<1> DEFINE p == dest + k - 1
           e == dest + k
           n == e - t
           s == IF t = dest THEN m ELSE ShiftDown(m, dest, t).mem
           v == dest + (u - t)
<1>1. L \in Nat /\ p \in Int /\ e \in Int /\ n \in Int /\ n >= 1 /\ t + n = e /\ v \in Int /\ p <= L /\ e <= L
  <2>1. L \in Nat
    BY DEF Memory
  <2>2. p \in Int /\ e \in Int /\ n \in Int /\ v \in Int
    OBVIOUS
  <2>3. n >= 1 /\ t + n = e
    OBVIOUS
  <2>4. p <= L /\ e <= L
    BY <2>1
  <2> QED
    BY <2>1, <2>2, <2>3, <2>4
<1>2. Plain(m, t, n)
  <2> SUFFICES ASSUME NEW i \in 0..(n - 1) PROVE m[t + i] # 0
    BY DEF Plain
  <2>1. (t + i) - dest \in 0..(k - 1) /\ dest + ((t + i) - dest) = t + i
    OBVIOUS
  <2> QED
    BY <2>1 DEF Plain
<1>3. /\ Memory(s, L)
      /\ \A a \in 1..L : s[a] = IF a \in dest..(dest + n - 1) THEN m[t + (a - dest)]
                                ELSE IF a \in t..(t + n - 1) THEN 32 ELSE m[a]
  <2>1. CASE t = dest
    <3>1. \A a \in dest..(dest + n - 1) : t + (a - dest) = a
      BY <2>1
    <3> QED
      BY <2>1, <3>1
  <2>2. CASE t # dest
    <3>1. m[t + n] = 0
      BY <1>1
    <3>2. ShiftDown(m, dest, t) = [mem |-> Shifted(m, dest, t, n), to |-> dest + n]
      BY <1>1, <1>2, <2>2, <3>1, ShiftDownIs
    <3>3. s = Shifted(m, dest, t, n)
      BY <2>2, <3>2
    <3> QED
      BY <1>1, <2>2, <3>3, ShiftedType
  <2> QED
    BY <2>1, <2>2
<1> HIDE DEF s
<1>4. v >= 1 /\ v <= p /\ v \in dest..(dest + n - 1) /\ v \in 1..L /\ t + (v - dest) = u
  BY <1>1
<1>5. s[v] \notin Blanks
  BY <1>3, <1>4
<1>6. ASSUME NEW a \in (v + 1)..p PROVE s[a] \in Blanks
  <2>1. a \in 1..L
    BY <1>1, <1>4
  <2>2. CASE a \in dest..(dest + n - 1)
    <3>1. t + (a - dest) \in (u + 1)..(dest + k - 1)
      BY <2>2
    <3> QED
      BY <1>3, <2>1, <2>2, <3>1
  <2>3. CASE a \notin dest..(dest + n - 1) /\ a \in t..(t + n - 1)
    BY <1>3, <2>1, <2>3 DEF Blanks
  <2>4. CASE a \notin dest..(dest + n - 1) /\ a \notin t..(t + n - 1)
    <3>1. a \in dest..(t - 1)
      BY <1>1, <2>4
    <3> QED
      BY <1>3, <2>1, <2>4, <3>1 DEF BlanksFirst
  <2> QED
    BY <2>2, <2>3, <2>4
<1>71. PICK c : c = TrimEnd(s, p)
  OBVIOUS
<1>72. b = c
  BY <1>71 DEF s
<1>0. p = dest + k - 1 /\ e = dest + k /\ n = e - t /\ v = dest + (u - t)
  OBVIOUS
<1> HIDE DEF p, e, n, v
<1>8. Memory(b, L) /\ \A a \in 1..L : b[a] = IF a \in (v + 1)..p THEN 0 ELSE s[a]
  <2>1. Memory(c, L) /\ \A a \in 1..L : c[a] = IF a \in (v + 1)..p THEN 0 ELSE s[a]
    <3>1. p \in Int /\ v \in Int /\ v >= 1 /\ v <= p /\ p <= L
      BY <1>1, <1>4
    <3>2. Memory(s, L)
      BY <1>3
    <3> QED
      BY <1>5, <1>6, <1>71, <3>1, <3>2, TrimmedEnd
  <2> QED
    BY <1>72, <2>1
<1>9. ASSUME NEW a \in 1..L, a \notin Cells(dest, k) PROVE b[a] = m[a]
  <2>1. a \notin dest..(dest + n - 1) /\ a \notin t..(t + n - 1) /\ a \notin (v + 1)..p
    BY <1>0, <1>9 DEF Cells
  <2> QED
    BY <1>3, <1>8, <2>1
<1>10. ASSUME NEW i \in 0..(u + 1 - t - 1) PROVE b[dest + i] = m[t + i]
  <2>1. PICK a \in 1..L : a = dest + i
    BY <1>0, <1>1
  <2>2. a \in dest..(dest + n - 1) /\ a \notin (v + 1)..p /\ t + (a - dest) = t + i
    BY <1>0, <2>1
  <2>3. b[a] = m[t + i]
    BY <1>3, <1>8, <2>2
  <2> QED
    BY <2>1, <2>3
<1>11. b[dest + (u + 1 - t)] = 0
  <2>1. PICK a \in 1..L : a = v + 1
    BY <1>0, <1>1
  <2>2. dest + (u + 1 - t) = a
    BY <1>0, <2>1
  <2>3. CASE a \in (v + 1)..p
    BY <1>8, <2>2, <2>3
  <2>4. CASE a \notin (v + 1)..p
    <3>1. a = e /\ t = dest
      BY <1>0, <1>1, <2>1, <2>4
    <3>2. a \notin dest..(dest + n - 1) /\ a \notin t..(t + n - 1) /\ m[a] = 0
      BY <1>0, <3>1
    <3> QED
      BY <1>3, <1>8, <2>2, <2>4, <3>2
  <2> QED
    BY <2>3, <2>4
<1> QED
  BY <1>8, <1>9, <1>10, <1>11 DEF TextIs

(* A string of k characters, its blanks at the beginning, and the last     *)
(* character of its text.                                                  *)
StringWithBlanks(m, L, dest, k, t) ==
    /\ dest >= 1 /\ dest + k <= L /\ k >= 0 /\ k \in Int /\ m[dest + k] = 0 /\ Plain(m, dest, k)
    /\ BlanksFirst(m, dest, k, t) /\ t = SkipBlanks(m, dest)

LastOfText(m, dest, k, t, u) ==
    /\ u \in t..(dest + k - 1) /\ m[u] \notin Blanks
    /\ \A a \in (u + 1)..(dest + k - 1) : m[a] \in Blanks

(* A string that is not all blanks has a last character of its text. *)
LEMMA TextHasAnEnd ==
    ASSUME NEW L, NEW m, NEW dest \in Int, NEW k \in Int, NEW t, Memory(m, L), dest >= 1,
           StringWithBlanks(m, L, dest, k, t), t < dest + k
    PROVE  \E u : LastOfText(m, dest, k, t, u)
<1> DEFINE S == {a \in t..(dest + k - 1) : m[a] \notin Blanks}
<1>1. t \in Int /\ t >= dest /\ m[t] \notin Blanks /\ L \in Nat /\ dest + k <= L
  BY DEF StringWithBlanks, BlanksFirst, Memory
<1>2. \A a : a \in S <=> a \in t..(dest + k - 1) /\ m[a] \notin Blanks
  OBVIOUS
<1> HIDE DEF S
<1>3. S \in SUBSET (0..L) /\ t \in S
  BY <1>1, <1>2
<1>4. PICK u : u = Max(S)
  OBVIOUS
<1>5. u \in S /\ \A a \in S : a <= u
  BY <1>1, <1>3, <1>4, MaxMember
<1>6. u \in t..(dest + k - 1) /\ m[u] \notin Blanks
  BY <1>2, <1>5
<1>7. \A a \in (u + 1)..(dest + k - 1) : m[a] \in Blanks
  BY <1>1, <1>2, <1>5, <1>6
<1> QED
  BY <1>6, <1>7 DEF LastOfText

(* The string that both functions edit, and when they do. *)
LEMMA StringToEdit ==
    ASSUME NEW L, NEW m, NEW dest \in Int, NEW dmax \in Int, Memory(m, L), dest >= 1, dmax >= 0,
           dest + dmax <= L, m[dest + Length(m, dest, dmax)] = 0
    PROVE  StringWithBlanks(m, L, dest, Length(m, dest, dmax), SkipBlanks(m, dest))
           /\ Length(m, dest, dmax) <= dmax
<1>1. dmax \in Nat
  OBVIOUS
<1>2. PICK k : k = Length(m, dest, dmax)
  OBVIOUS
<1>3. k \in 0..dmax /\ Plain(m, dest, k)
  BY <1>1, <1>2, LengthIs DEF IsLength
<1>4. k \in Int /\ k >= 0 /\ dest + k <= L /\ m[dest + k] = 0
  BY <1>2, <1>3 DEF Memory
<1>5. BlanksFirst(m, dest, k, SkipBlanks(m, dest))
  BY <1>3, <1>4, SkippedBlanks
<1> QED
  BY <1>2, <1>3, <1>4, <1>5 DEF StringWithBlanks

JustifyDone(r, m, L, dest, dmax) ==
    /\ Kept(r, m, L, dest, dmax) /\ FieldCleared(r, m, dest, dmax)
    /\ r.err = "EOK" /\ dmax > RSIZE_MIN_STR =>
          \E k, t : /\ StringWithBlanks(m, L, dest, k, t)
                    /\ IF t = dest + k THEN r.mem = m
                       ELSE TextIs(r.mem, m, L, dest, t, dest + k - t, k)

RemoveDone(r, m, L, dest, dmax) ==
    /\ Memory(r.mem, L) /\ FieldCleared(r, m, dest, dmax)
    /\ \A a \in 1..L : a \notin Cells(dest, dmax) =>
          r.mem[a] = m[a] \/ (m[a] \in Blanks /\ SkipBlanks(m, dest) > dest /\ m[SkipBlanks(m, dest)] = 0)
    /\ r.err = "EOK" /\ dmax > RSIZE_MIN_STR =>
          \E k, t : /\ StringWithBlanks(m, L, dest, k, t)
                    /\ IF t = dest + k THEN r.mem[dest] = 0
                       ELSE \E u : LastOfText(m, dest, k, t, u)
                                   /\ TextIs(r.mem, m, L, dest, t, u + 1 - t, k)

(* Justifying: the text moves to the beginning. *)
LEMMA JustifyText ==
    ASSUME NEW L, NEW m, NEW dest \in Int, NEW dmax \in Int, NEW k \in Int, NEW t, NEW b,
           Memory(m, L), dest >= 1, k <= dmax, StringWithBlanks(m, L, dest, k, t),
           b = IF t = dest \/ m[t] = 0 THEN m
               ELSE Put(ShiftDown(m, dest, t).mem, ShiftDown(m, dest, t).to, 0)
    PROVE  /\ Memory(b, L) /\ \A a \in 1..L : a \notin Cells(dest, dmax) => b[a] = m[a]
           /\ IF t = dest + k THEN b = m ELSE TextIs(b, m, L, dest, t, dest + k - t, k)
<1>1. /\ dest + k <= L /\ k >= 0 /\ m[dest + k] = 0 /\ Plain(m, dest, k) /\ t \in dest..(dest + k) /\ t \in Int
      /\ t < dest + k => m[t] # 0
  <2>1. t = SkipBlanks(m, dest) /\ dest + k <= L /\ k >= 0 /\ m[dest + k] = 0 /\ Plain(m, dest, k)
    BY DEF StringWithBlanks
  <2>2. t < dest + k => m[t] # 0
    BY <2>1, SkippedBlanks
  <2> QED
    BY <2>1, <2>2 DEF StringWithBlanks, BlanksFirst
<1>2. CASE t = dest + k
  BY <1>1, <1>2
<1>3. CASE t # dest + k
  <2>1. PICK n \in Int : n = dest + k - t
    BY <1>1
  <2>2. n >= 1 /\ t + n = dest + k /\ Sum(dest, k, t + n) /\ m[t + n] = 0
    BY <1>1, <1>3, <2>1 DEF Sum
  <2>3. Plain(m, t, n)
    <3> SUFFICES ASSUME NEW i \in 0..(n - 1) PROVE m[t + i] # 0
      BY DEF Plain
    <3>1. (t + i) - dest \in 0..(k - 1) /\ dest + ((t + i) - dest) = t + i
      BY <1>1, <2>1
    <3> QED
      BY <1>1, <3>1 DEF Plain
  <2>4. TextIs(b, m, L, dest, t, n, k)
    <3>1. CASE t = dest
      BY <1>1, <2>2, <3>1 DEF TextIs
    <3>2. CASE t # dest
      <4>1. dest < t /\ m[t] # 0
        BY <1>1, <1>3, <3>2
      <4>2. PICK c : c = Put(ShiftDown(m, dest, t).mem, ShiftDown(m, dest, t).to, 0)
        OBVIOUS
      <4>3. TextIs(c, m, L, dest, t, n, k)
        BY <1>1, <2>2, <2>3, <4>1, <4>2, JustifiedText
      <4> QED
        BY <3>2, <4>1, <4>2, <4>3
    <3> QED
      BY <3>1, <3>2
  <2>5. \A a \in 1..L : a \notin Cells(dest, dmax) => a \notin Cells(dest, k)
    BY <1>1 DEF Cells, Memory
  <2> QED
    BY <1>3, <2>1, <2>4, <2>5 DEF TextIs
<1> QED
  BY <1>2, <1>3
-----------------------------------------------------------------------------

(* What both functions do with a string they do not edit. *)
LEMMA EmptyString ==
    ASSUME NEW L, NEW m, NEW dest \in Int, Memory(m, L), dest >= 1, dest <= L, m[dest] = 0
    PROVE  StringWithBlanks(m, L, dest, 0, dest) /\ Put(m, dest, 0) = m
<1>1. 0 \in Int /\ 0 >= 0 /\ dest + 0 <= L /\ m[dest + 0] = 0 /\ Plain(m, dest, 0)
  BY DEF Plain, Memory
<1>2. PICK t : t = SkipBlanks(m, dest)
  OBVIOUS
<1>3. BlanksFirst(m, dest, 0, t)
  BY <1>1, <1>2, SkippedBlanks
<1>4. t = dest
  BY <1>3 DEF BlanksFirst
<1>5. Put(m, dest, 0) = m
  <2>1. DOMAIN m = 1..L /\ m = [a \in 1..L |-> m[a]]
    BY DEF Memory
  <2> QED
    BY <2>1 DEF Put
<1> QED
  BY <1>1, <1>2, <1>3, <1>4, <1>5 DEF StringWithBlanks

(* The string ends before the end of the memory. *)
LEMMA EndOfString ==
    ASSUME NEW L, NEW m, NEW dest, NEW dmax, Strings(m, L, dest, dmax, 0),
           DestError(dest, dmax, 1) = "EOK"
    PROVE  /\ dest \in Int /\ dmax \in Int /\ dest >= 1 /\ dmax >= 1 /\ In(dest, dmax, L)
           /\ dest + dmax <= L /\ L \in Nat /\ Memory(m, L)
           /\ Length(m, dest, dmax) \in 0..dmax
<1>1. dest \in Nat /\ dmax \in Nat /\ Memory(m, L) /\ L \in Nat /\ 1 \in Nat
  BY DEF Strings, Memory
<1>2. dest # 0 /\ dmax # 0 /\ dmax * 1 <= RSIZE_MAX_STR
  BY <1>1, DestErrorIs
<1>3. In(dest, dmax + 1, L)
  BY <1>1, <1>2, SafeLibAssumption DEF Strings
<1>4. Length(m, dest, dmax) \in 0..dmax
  BY <1>1, LengthIs DEF IsLength
<1> QED
  BY <1>1, <1>2, <1>3, <1>4 DEF In

(* strljustify, for every string. *)
LEMMA strljustifyDoes ==
    ASSUME NEW L, NEW m, NEW dest, NEW dmax, NEW r, Strings(m, L, dest, dmax, 0),
           r = safe_strljustify(m, dest, dmax)
    PROVE  JustifyDone(r, m, L, dest, dmax)
<1> DEFINE end == dest + Length(m, dest, dmax)
           t == SkipBlanks(m, dest)
           b == IF t = dest \/ m[t] = 0 THEN m
                ELSE Put(ShiftDown(m, dest, t).mem, ShiftDown(m, dest, t).to, 0)
<1>1. r = IF DestError(dest, dmax, 1) # "EOK" THEN Failed(m, DestError(dest, dmax, 1))
          ELSE IF m[dest] = 0 \/ dmax <= RSIZE_MIN_STR THEN Done(Put(m, dest, 0))
          ELSE IF m[end] # 0 THEN Failed(Fill(m, dest, dmax, 0), "ESUNTERM")
          ELSE Done(b)
  BY DEF safe_strljustify, Justify
<1>2. Memory(m, L)
  BY DEF Strings
<1>3. CASE DestError(dest, dmax, 1) # "EOK"
  <2>1. r.mem = m /\ r.err # "EOK"
    BY <1>1, <1>3, UnchangedResults
  <2> QED
    BY <1>2, <2>1 DEF JustifyDone, Kept, FieldCleared
<1>4. CASE DestError(dest, dmax, 1) = "EOK"
  <2>1. /\ dest \in Int /\ dmax \in Int /\ dest >= 1 /\ dmax >= 1 /\ In(dest, dmax, L)
        /\ dest + dmax <= L /\ L \in Nat /\ Length(m, dest, dmax) \in 0..dmax
    BY <1>4, EndOfString
  <2>2. CASE m[dest] = 0
    <3>1. StringWithBlanks(m, L, dest, 0, dest) /\ Put(m, dest, 0) = m
      BY <1>2, <2>1, <2>2, EmptyString
    <3>2. r.mem = m /\ r.err = "EOK"
      BY <1>1, <1>4, <2>2, <3>1, UnchangedResults
    <3>3. dest = dest + 0
      BY <2>1
    <3> QED
      BY <1>2, <3>1, <3>2, <3>3 DEF JustifyDone, Kept, FieldCleared
  <2>3. CASE m[dest] # 0 /\ dmax <= RSIZE_MIN_STR
    <3>1. r.mem = Put(m, dest, 0) /\ r.err = "EOK"
      BY <1>1, <1>4, <2>3, UnchangedResults
    <3>2. Memory(r.mem, L) /\ \A a \in 1..L : r.mem[a] = IF a = dest THEN 0 ELSE m[a]
      <4>1. Memory(Put(m, dest, 0), L)
        BY <1>2, <2>1, ZeroPutType
      <4>2. \A a \in 1..L : Put(m, dest, 0)[a] = IF a = dest THEN 0 ELSE m[a]
        BY <1>2, <2>1, <4>1, ZeroPutType
      <4> QED
        BY <3>1, <4>1, <4>2
    <3>3. dest \in Cells(dest, dmax) /\ ~(dmax > RSIZE_MIN_STR)
      BY <2>1, <2>3 DEF Cells, RSIZE_MIN_STR
    <3> QED
      BY <3>1, <3>2, <3>3 DEF JustifyDone, Kept, FieldCleared
  <2>4. CASE m[dest] # 0 /\ ~(dmax <= RSIZE_MIN_STR) /\ m[end] # 0
    <3>1. r = Failed(Fill(m, dest, dmax, 0), "ESUNTERM") /\ "ESUNTERM" # "EOK"
      BY <1>1, <1>4, <2>4
    <3>2. /\ Memory(r.mem, L) /\ \A a \in 1..L : a \notin Cells(dest, dmax) => r.mem[a] = m[a]
          /\ r.err # "EOK" /\ \A i \in 0..(dmax - 1) : r.mem[dest + i] = 0
      BY <1>2, <2>1, <3>1, ClearedField
    <3> QED
      BY <3>2 DEF JustifyDone, Kept, FieldCleared
  <2>5. CASE m[dest] # 0 /\ ~(dmax <= RSIZE_MIN_STR) /\ m[end] = 0
    <3>1. PICK k : k = Length(m, dest, dmax)
      OBVIOUS
    <3>2. PICK c : c = b
      OBVIOUS
    <3>3. r.mem = c /\ r.err = "EOK"
      <4>1. r = Done(b)
        BY <1>1, <1>4, <2>5
      <4> QED
        BY <4>1, <3>2, UnchangedResults
    <3>4. StringWithBlanks(m, L, dest, k, t) /\ k <= dmax /\ k \in Int
      <4>1. dmax >= 0
        BY <2>1
      <4> QED
        BY <1>2, <2>1, <2>5, <3>1, <4>1, StringToEdit
    <3>5. /\ Memory(c, L) /\ \A a \in 1..L : a \notin Cells(dest, dmax) => c[a] = m[a]
          /\ IF t = dest + k THEN c = m ELSE TextIs(c, m, L, dest, t, dest + k - t, k)
      <4>1. PICK u : u = t
        OBVIOUS
      <4>2. c = IF u = dest \/ m[u] = 0 THEN m
                ELSE Put(ShiftDown(m, dest, u).mem, ShiftDown(m, dest, u).to, 0)
        BY <3>2, <4>1
      <4>3. StringWithBlanks(m, L, dest, k, u)
        BY <3>4, <4>1
      <4> HIDE DEF t, b
      <4>4. /\ Memory(c, L) /\ \A a \in 1..L : a \notin Cells(dest, dmax) => c[a] = m[a]
            /\ IF u = dest + k THEN c = m ELSE TextIs(c, m, L, dest, u, dest + k - u, k)
        <5>1. dest \in Int /\ dmax \in Int /\ k \in Int /\ dest >= 1 /\ k <= dmax
          BY <2>1, <3>4
        <5>0. PICK S : S = Cells(dest, dmax)
          OBVIOUS
        <5>2. Memory(c, L)
          BY <1>2, <4>2, <4>3, <5>0, <5>1, JustifyText
        <5>3. \A a \in 1..L : a \notin Cells(dest, dmax) => c[a] = m[a]
          BY <1>2, <4>2, <4>3, <5>1, JustifyText
        <5>4. u = dest + k => c = m
          BY <1>2, <4>2, <4>3, <5>0, <5>1, JustifyText
        <5>5. u # dest + k => TextIs(c, m, L, dest, u, dest + k - u, k)
          BY <1>2, <4>2, <4>3, <5>1, JustifyText
        <5> QED
          BY <5>2, <5>3, <5>4, <5>5
      <4> QED
        BY <4>1, <4>4
    <3> HIDE DEF t, b
    <3> QED
      BY <3>3, <3>4, <3>5 DEF JustifyDone, Kept, FieldCleared
  <2> QED
    BY <2>2, <2>3, <2>4, <2>5
<1> QED
  BY <1>3, <1>4

(* A string of blanks only: the blanks below it are lost as well. *)
LEMMA RemoveBlanks ==
    ASSUME NEW L, NEW m, NEW dest \in Int, NEW k \in Int, NEW b, NEW x \in Int,
           Memory(m, L), dest >= 1, StringWithBlanks(m, L, dest, k, dest + k), k >= 1,
           x >= 1, x < dest, m[x] \notin Blanks, b = TrimEnd(m, dest + k - 1)
    PROVE  /\ Memory(b, L) /\ b[dest] = 0
           /\ \A a \in 1..L : b[a] = m[a] \/ m[a] \in Blanks
<1>1. PICK p \in Int : p = dest + k - 1
  OBVIOUS
<1>2. L \in Nat /\ p < L /\ \A a \in dest..p : m[a] \in Blanks
  BY <1>1 DEF StringWithBlanks, BlanksFirst, Memory
<1> DEFINE S == {a \in 1..p : m[a] \notin Blanks}
<1>3. \A a : a \in S <=> a \in 1..p /\ m[a] \notin Blanks
  OBVIOUS
<1> HIDE DEF S
<1>4. S \in SUBSET (0..L) /\ x \in S
  BY <1>1, <1>2, <1>3
<1>5. PICK u : u = Max(S)
  OBVIOUS
<1>6. u \in S /\ \A a \in S : a <= u
  BY <1>2, <1>4, <1>5, MaxMember
<1>7. u \in Int /\ u >= 1 /\ u <= p /\ m[u] \notin Blanks /\ \A a \in (u + 1)..p : m[a] \in Blanks
  BY <1>1, <1>3, <1>6
<1>8. u < dest
  BY <1>1, <1>2, <1>7
<1>9. Memory(b, L) /\ \A a \in 1..L : b[a] = IF a \in (u + 1)..p THEN 0 ELSE m[a]
  <2>1. b = TrimEnd(m, p) /\ p <= L
    BY <1>1, <1>2
  <2> QED
    BY <1>7, <2>1, TrimmedEnd
<1>10. dest \in 1..L /\ dest \in (u + 1)..p
  BY <1>1, <1>2, <1>7, <1>8
<1> QED
  BY <1>7, <1>9, <1>10

(* Trimming, whether or not the string is all blanks. *)
LEMMA RemovedText ==
    ASSUME NEW L, NEW m, NEW dest \in Int, NEW dmax \in Int, NEW k \in Int, NEW t, NEW b,
           Memory(m, L), dest >= 1, k <= dmax, StringWithBlanks(m, L, dest, k, t), m[dest] # 0,
           \E x \in 1..(dest - 1) : m[x] \notin Blanks,
           b = TrimEnd(IF t = dest \/ m[t] = 0 THEN m ELSE ShiftDown(m, dest, t).mem, dest + k - 1)
    PROVE  /\ Memory(b, L)
           /\ \A a \in 1..L : a \notin Cells(dest, dmax) =>
                 b[a] = m[a] \/ (m[a] \in Blanks /\ t > dest /\ m[t] = 0)
           /\ IF t = dest + k THEN b[dest] = 0
              ELSE \E u : LastOfText(m, dest, k, t, u) /\ TextIs(b, m, L, dest, t, u + 1 - t, k)
<1>1. /\ dest + k <= L /\ k >= 0 /\ m[dest + k] = 0 /\ Plain(m, dest, k) /\ t \in dest..(dest + k) /\ t \in Int
      /\ t < dest + k => m[t] # 0
  <2>1. t = SkipBlanks(m, dest) /\ dest + k <= L /\ k >= 0 /\ m[dest + k] = 0 /\ Plain(m, dest, k)
    BY DEF StringWithBlanks
  <2>2. t < dest + k => m[t] # 0
    BY <2>1, SkippedBlanks
  <2> QED
    BY <2>1, <2>2 DEF StringWithBlanks, BlanksFirst
<1>2. k >= 1
  <2>1. k = 0 => dest + k = dest
    OBVIOUS
  <2> QED
    BY <1>1, <2>1
<1>3. CASE t = dest + k
  <2>1. m[t] = 0 /\ t > dest
    BY <1>1, <1>2, <1>3
  <2>2. b = TrimEnd(m, dest + k - 1)
    BY <2>1
  <2>3. PICK x \in 1..(dest - 1) : m[x] \notin Blanks
    OBVIOUS
  <2>4. x \in Int /\ x >= 1 /\ x < dest
    BY <2>3
  <2>5. StringWithBlanks(m, L, dest, k, dest + k)
    BY <1>3
  <2>6. /\ Memory(b, L) /\ b[dest] = 0
        /\ \A a \in 1..L : b[a] = m[a] \/ m[a] \in Blanks
    BY <1>2, <2>2, <2>3, <2>4, <2>5, RemoveBlanks
  <2> QED
    BY <1>3, <2>1, <2>6
<1>4. CASE t # dest + k
  <2>1. t < dest + k /\ m[t] # 0
    BY <1>1, <1>4
  <2>2. PICK u : LastOfText(m, dest, k, t, u)
    BY <2>1, TextHasAnEnd
  <2>3. /\ u \in Int /\ t <= u /\ u < dest + k /\ m[u] \notin Blanks
        /\ \A a \in (u + 1)..(dest + k - 1) : m[a] \in Blanks
    BY <1>1, <2>2 DEF LastOfText
  <2>4. b = TrimEnd(IF t = dest THEN m ELSE ShiftDown(m, dest, t).mem, dest + k - 1)
    BY <2>1
  <2>5. BlanksFirst(m, dest, k, t) /\ dest <= t
    BY <1>1 DEF StringWithBlanks
  <2>6. TextIs(b, m, L, dest, t, u + 1 - t, k)
    BY <1>1, <2>3, <2>4, <2>5, TrimmedText
  <2>7. \A a \in 1..L : a \notin Cells(dest, dmax) => a \notin Cells(dest, k)
    BY <1>1 DEF Cells, Memory
  <2> QED
    BY <1>4, <2>2, <2>6, <2>7 DEF TextIs
<1> QED
  BY <1>3, <1>4

(* strremovews, for every string with a character below it that is no      *)
(* blank.                                                                  *)
LEMMA strremovewsDoes ==
    ASSUME NEW L, NEW m, NEW dest, NEW dmax, NEW r, Strings(m, L, dest, dmax, 0),
           dest # 0 => \E x \in 1..(dest - 1) : m[x] \notin Blanks,
           r = safe_strremovews(m, dest, dmax)
    PROVE  RemoveDone(r, m, L, dest, dmax)
<1> DEFINE end == dest + Length(m, dest, dmax)
           b(t) == TrimEnd(IF t = dest \/ m[t] = 0 THEN m ELSE ShiftDown(m, dest, t).mem, end - 1)
<1>0. PICK t : t = SkipBlanks(m, dest)
  OBVIOUS
<1>1. r = IF DestError(dest, dmax, 1) # "EOK" THEN Failed(m, DestError(dest, dmax, 1))
          ELSE IF m[dest] = 0 \/ dmax <= RSIZE_MIN_STR THEN Done(Put(m, dest, 0))
          ELSE IF m[end] # 0 THEN Failed(Fill(m, dest, dmax, 0), "ESUNTERM")
          ELSE Done(b(t))
  BY <1>0 DEF safe_strremovews, Justify
<1>2. Memory(m, L)
  BY DEF Strings
<1>3. CASE DestError(dest, dmax, 1) # "EOK"
  <2>1. r.mem = m /\ r.err # "EOK"
    BY <1>1, <1>3, UnchangedResults
  <2> QED
    BY <1>2, <2>1 DEF RemoveDone, FieldCleared
<1>4. CASE DestError(dest, dmax, 1) = "EOK"
  <2>1. /\ dest \in Int /\ dmax \in Int /\ dest >= 1 /\ dmax >= 1 /\ In(dest, dmax, L)
        /\ dest + dmax <= L /\ L \in Nat /\ Length(m, dest, dmax) \in 0..dmax
    BY <1>4, EndOfString
  <2>2. CASE m[dest] = 0
    <3>1. StringWithBlanks(m, L, dest, 0, dest) /\ Put(m, dest, 0) = m
      BY <1>2, <2>1, <2>2, EmptyString
    <3>2. r.mem = m /\ r.err = "EOK"
      BY <1>1, <1>4, <2>2, <3>1, UnchangedResults
    <3>3. dest = dest + 0
      BY <2>1
    <3> QED
      BY <1>2, <2>2, <3>1, <3>2, <3>3 DEF RemoveDone, FieldCleared
  <2>3. CASE m[dest] # 0 /\ dmax <= RSIZE_MIN_STR
    <3>1. r.mem = Put(m, dest, 0) /\ r.err = "EOK"
      BY <1>1, <1>4, <2>3, UnchangedResults
    <3>2. Memory(r.mem, L) /\ \A a \in 1..L : r.mem[a] = IF a = dest THEN 0 ELSE m[a]
      <4>1. Memory(Put(m, dest, 0), L)
        BY <1>2, <2>1, ZeroPutType
      <4>2. \A a \in 1..L : Put(m, dest, 0)[a] = IF a = dest THEN 0 ELSE m[a]
        BY <1>2, <2>1, <4>1, ZeroPutType
      <4> QED
        BY <3>1, <4>1, <4>2
    <3>3. dest \in Cells(dest, dmax) /\ ~(dmax > RSIZE_MIN_STR)
      BY <2>1, <2>3 DEF Cells, RSIZE_MIN_STR
    <3> QED
      BY <3>1, <3>2, <3>3 DEF RemoveDone, FieldCleared
  <2>4. CASE m[dest] # 0 /\ ~(dmax <= RSIZE_MIN_STR) /\ m[end] # 0
    <3>1. r = Failed(Fill(m, dest, dmax, 0), "ESUNTERM") /\ "ESUNTERM" # "EOK"
      BY <1>1, <1>4, <2>4
    <3>2. /\ Memory(r.mem, L) /\ \A a \in 1..L : a \notin Cells(dest, dmax) => r.mem[a] = m[a]
          /\ r.err # "EOK" /\ \A i \in 0..(dmax - 1) : r.mem[dest + i] = 0
      BY <1>2, <2>1, <3>1, ClearedField
    <3> QED
      BY <3>2 DEF RemoveDone, FieldCleared
  <2>5. CASE m[dest] # 0 /\ ~(dmax <= RSIZE_MIN_STR) /\ m[end] = 0
    <3>1. PICK k : k = Length(m, dest, dmax)
      OBVIOUS
    <3>2. PICK c : c = b(t)
      OBVIOUS
    <3>3. r.mem = c /\ r.err = "EOK"
      <4>1. r = Done(b(t))
        BY <1>1, <1>4, <2>5
      <4> QED
        BY <4>1, <3>2, UnchangedResults
    <3>4. StringWithBlanks(m, L, dest, k, t) /\ k <= dmax /\ k \in Int
      <4>1. dmax >= 0
        BY <2>1
      <4> QED
        BY <1>0, <1>2, <2>1, <2>5, <3>1, <4>1, StringToEdit
    <3>6. /\ Memory(c, L)
          /\ \A a \in 1..L : a \notin Cells(dest, dmax) =>
                c[a] = m[a] \/ (m[a] \in Blanks /\ t > dest /\ m[t] = 0)
          /\ IF t = dest + k THEN c[dest] = 0
             ELSE \E v : LastOfText(m, dest, k, t, v) /\ TextIs(c, m, L, dest, t, v + 1 - t, k)
      <4>0. c = TrimEnd(IF t = dest \/ m[t] = 0 THEN m ELSE ShiftDown(m, dest, t).mem, end - 1)
        BY <3>2
      <4> HIDE DEF b
      <4>3. dest \in Int /\ dmax \in Int /\ k \in Int /\ dest >= 1 /\ k <= dmax
        BY <2>1, <3>4
      <4>10. end = dest + k
        BY <3>1
      <4> HIDE DEF end
      <4>1. c = TrimEnd(IF t = dest \/ m[t] = 0 THEN m ELSE ShiftDown(m, dest, t).mem, dest + k - 1)
        <5>1. end - 1 = dest + k - 1
          BY <4>3, <4>10
        <5> QED
          BY <4>0, <5>1
      <4>4. \E x \in 1..(dest - 1) : m[x] \notin Blanks
        BY <2>1
      <4>5. PICK S : S = Cells(dest, dmax)
        OBVIOUS
      <4>6. Memory(c, L)
        BY <1>2, <2>5, <4>1, <3>4, <4>3, <4>4, <4>5, RemovedText
      <4>7. \A a \in 1..L : a \notin Cells(dest, dmax) =>
                c[a] = m[a] \/ (m[a] \in Blanks /\ t > dest /\ m[t] = 0)
        BY <1>2, <2>5, <4>1, <3>4, <4>3, <4>4, RemovedText
      <4>8. t = dest + k => c[dest] = 0
        BY <1>2, <2>5, <4>1, <3>4, <4>3, <4>4, <4>5, RemovedText
      <4>9. t # dest + k => \E v : LastOfText(m, dest, k, t, v) /\ TextIs(c, m, L, dest, t, v + 1 - t, k)
        BY <1>2, <2>5, <4>1, <3>4, <4>3, <4>4, <4>5, RemovedText
      <4> QED
        BY <4>6, <4>7, <4>8, <4>9
    <3> HIDE DEF b
    <3> QED
      BY <1>0, <3>3, <3>4, <3>6 DEF RemoveDone, FieldCleared
  <2> QED
    BY <2>2, <2>3, <2>4, <2>5
<1> QED
  BY <1>3, <1>4
-----------------------------------------------------------------------------

(* The functions that change characters in place write only in dest. *)
LEMMA strzeroDoes ==
    ASSUME NEW L, NEW m, NEW dest, NEW dmax, NEW r, Strings(m, L, dest, dmax, 0),
           r = safe_strzero(m, dest, dmax)
    PROVE  Kept(r, m, L, dest, dmax)
<1>1. Memory(m, L) /\ dest \in Int /\ dmax \in Int
  BY DEF Strings
<1>2. r.mem = m \/ r.mem = Fill(m, dest, dmax, 0)
  BY DEF safe_strzero, Failed, Done, Result
<1>3. Memory(r.mem, L) /\ \A a \in 1..L : a \notin dest..(dest + dmax - 1) => r.mem[a] = m[a]
  BY <1>1, <1>2, ZeroesType
<1> QED
  BY <1>3 DEF Kept, Cells

(* What is known of a string once its size has been checked. *)
LEMMA CountErrorIs ==
    ASSUME NEW dest \in Nat, NEW dmax \in Nat, NEW size \in Nat, dest # 0,
           CountError(dest, dmax, size) = "EOK"
    PROVE  dmax # 0 /\ dmax * size <= RSIZE_MAX_STR
<1> DEFINE a == Zero(dmax)
           b == TooLong(dmax * size, RSIZE_MAX_STR)
           checks == <<a, b>>
<1>1. FirstError(checks) = "EOK"
  BY DEF CountError, NULL
<1>2. a[2] # "EOK" /\ (a[1] <=> dmax = 0) /\ b[2] # "EOK" /\ (b[1] <=> dmax * size > RSIZE_MAX_STR)
  BY DEF Zero, TooLong
<1> HIDE DEF a, b
<1>3. DOMAIN checks = 1..2 /\ 2 \in Nat /\ checks[1] = a /\ checks[2] = b
  OBVIOUS
<1> HIDE DEF checks
<1>4. \A i \in 1..2 : checks[i][2] # "EOK"
  BY <1>2, <1>3
<1>5. \A i \in 1..2 : ~checks[i][1]
  BY <1>1, <1>3, <1>4, NoCheckFails
<1>6. ~a[1] /\ ~b[1]
  BY <1>3, <1>5
<1>7. dmax * size \in Int /\ RSIZE_MAX_STR \in Int
  BY SafeLibAssumption
<1> QED
  BY <1>2, <1>6, <1>7

(* strnterminate writes within the string only. *)
LEMMA strnterminateDoes ==
    ASSUME NEW L, NEW m, NEW dest, NEW dmax, NEW r, Strings(m, L, dest, dmax, 0),
           r = safe_strnterminate(m, dest, dmax)
    PROVE  Kept(r, m, L, dest, dmax)
<1>1. Memory(m, L) /\ dest \in Nat /\ dmax \in Nat /\ 1 \in Nat
  BY DEF Strings
<1> DEFINE count == Length(m, dest, dmax - 1)
           bad == CountError(dest, dmax, 1)
<1>2. r = IF dest = 0 \/ bad # "EOK" THEN Result(m, "EOK", bad, 0) ELSE Returns(Put(m, dest + count, 0), count)
  BY DEF safe_strnterminate, LastCell, NULL
<1>3. CASE dest = 0 \/ bad # "EOK"
  <2>1. r.mem = m
    BY <1>2, <1>3 DEF Result
  <2> QED
    BY <1>1, <2>1 DEF Kept
<1>4. CASE dest # 0 /\ bad = "EOK"
  <2>1. dmax # 0
    BY <1>1, <1>4, CountErrorIs
  <2>2. dmax - 1 \in Nat
    BY <1>1, <2>1
  <2>3. count \in 0..(dmax - 1)
    BY <2>2, LengthIs DEF IsLength
  <2>4. PICK p \in Int : p = dest + count
    BY <1>1, <2>3
  <2>5. p \in Cells(dest, dmax)
    BY <1>1, <2>3, <2>4 DEF Cells
  <2>6. r.mem = Put(m, p, 0)
    <3> HIDE DEF count
    <3> QED
      BY <1>2, <1>4, <2>4 DEF Returns, Result
  <2>7. Memory(r.mem, L) /\ \A a \in 1..L : r.mem[a] = IF a = p THEN 0 ELSE m[a]
    BY <1>1, <2>4, <2>6, ZeroPutType
  <2> QED
    BY <2>5, <2>7 DEF Kept
<1> QED
  BY <1>3, <1>4

(* A change of case writes within the string only. *)
LEMMA ChangeCaseDoes ==
    ASSUME NEW L, NEW m, NEW dest, NEW dmax, NEW r, NEW from, NEW by \in Int,
           Strings(m, L, dest, dmax, 0), \A c \in Nat : c \in from => c + by \in Nat,
           r = ChangeCase(m, dest, dmax, from, by)
    PROVE  Kept(r, m, L, dest, dmax)
<1>1. Memory(m, L) /\ dest \in Nat /\ dmax \in Nat
  BY DEF Strings
<1> DEFINE n == Length(m, dest, dmax)
           X(a) == IF a \in dest..(dest + n - 1) /\ m[a] \in from THEN m[a] + by ELSE m[a]
           c == [a \in DOMAIN m |-> X(a)]
<1>2. r.mem = m \/ r.mem = c
  BY DEF ChangeCase, Failed, Done, Result
<1>3. n \in 0..dmax
  BY <1>1, LengthIs DEF IsLength
<1>4. L \in Nat /\ DOMAIN m = 1..L /\ \A a \in 1..L : m[a] \in Nat
  BY <1>1 DEF Memory
<1> HIDE DEF n
<1>5. \A a \in 1..L : X(a) \in Nat
  BY <1>4
<1>6. \A a \in 1..L : a \notin Cells(dest, dmax) => X(a) = m[a]
  BY <1>1, <1>3 DEF Cells
<1> HIDE DEF X
<1>7. Memory(c, L) /\ \A a \in 1..L : c[a] = X(a)
  BY <1>4, <1>5 DEF Memory
<1> QED
  BY <1>1, <1>2, <1>6, <1>7 DEF Kept

(* strtolowercase writes within the string only. *)
LEMMA strtolowercaseDoes ==
    ASSUME NEW L, NEW m, NEW dest, NEW dmax, NEW r, Strings(m, L, dest, dmax, 0),
           r = safe_strtolowercase(m, dest, dmax)
    PROVE  Kept(r, m, L, dest, dmax)
<1>1. 32 \in Int /\ \A c \in Nat : c \in Uppers => c + 32 \in Nat
  OBVIOUS
<1> QED
  BY <1>1, ChangeCaseDoes DEF safe_strtolowercase

(* strtouppercase writes within the string only. *)
LEMMA strtouppercaseDoes ==
    ASSUME NEW L, NEW m, NEW dest, NEW dmax, NEW r, Strings(m, L, dest, dmax, 0),
           r = safe_strtouppercase(m, dest, dmax)
    PROVE  Kept(r, m, L, dest, dmax)
<1>1. -32 \in Int /\ \A c \in Nat : c \in Lowers => c + (-32) \in Nat
  BY DEF Lowers
<1> QED
  BY <1>1, ChangeCaseDoes DEF safe_strtouppercase

(* The functions that compare, search, count and classify write nothing.   *)
LEMMA ComparesRead ==
    ASSUME NEW m, NEW dest, NEW dmax, NEW src, NEW n
    PROVE  /\ safe_memcmp(m, dest, dmax, src, n).mem = m
           /\ safe_memcmp16(m, dest, dmax, src, n).mem = m
           /\ safe_memcmp32(m, dest, dmax, src, n).mem = m
           /\ safe_wmemcmp(m, dest, dmax, src, n).mem = m
<1>1. safe_memcmp(m, dest, dmax, src, n).mem = m
  BY DEF safe_memcmp, Compare, Refused, NotFound, Returns, Done, Result
<1>2. safe_memcmp16(m, dest, dmax, src, n).mem = m
  BY DEF safe_memcmp16, Compare, Refused, NotFound, Returns, Done, Result
<1>3. safe_memcmp32(m, dest, dmax, src, n).mem = m
  BY DEF safe_memcmp32, Compare, Refused, NotFound, Returns, Done, Result
<1>4. safe_wmemcmp(m, dest, dmax, src, n).mem = m
  BY DEF safe_wmemcmp, Compare, Refused, NotFound, Returns, Done, Result
<1> QED
  BY <1>1, <1>2, <1>3, <1>4

(* The comparisons and the searches for a place only read. *)
LEMMA StringsRead ==
    ASSUME NEW m, NEW dest, NEW dmax, NEW src
    PROVE  /\ safe_strcmp(m, dest, dmax, src).mem = m
           /\ safe_strcasecmp(m, dest, dmax, src).mem = m
           /\ safe_strcmpfld(m, dest, dmax, src).mem = m
           /\ safe_strfirstdiff(m, dest, dmax, src).mem = m
           /\ safe_strfirstsame(m, dest, dmax, src).mem = m
           /\ safe_strlastdiff(m, dest, dmax, src).mem = m
           /\ safe_strlastsame(m, dest, dmax, src).mem = m
           /\ safe_strprefix(m, dest, dmax, src).mem = m
           /\ safe_strfirstchar(m, dest, dmax, src).mem = m
           /\ safe_strlastchar(m, dest, dmax, src).mem = m
<1>1. safe_strcmp(m, dest, dmax, src).mem = m
  BY DEF safe_strcmp, Refused, NotFound, Returns, Done, Result
<1>2. safe_strcasecmp(m, dest, dmax, src).mem = m
  BY DEF safe_strcasecmp, Refused, NotFound, Returns, Done, Result
<1>3. safe_strcmpfld(m, dest, dmax, src).mem = m
  BY DEF safe_strcmpfld, Refused, NotFound, Returns, Done, Result
<1>4. safe_strfirstdiff(m, dest, dmax, src).mem = m
  BY DEF safe_strfirstdiff, Position, Refused, NotFound, Returns, Done, Result
<1>5. safe_strfirstsame(m, dest, dmax, src).mem = m
  BY DEF safe_strfirstsame, Position, Refused, NotFound, Returns, Done, Result
<1>6. safe_strlastdiff(m, dest, dmax, src).mem = m
  BY DEF safe_strlastdiff, Position, Refused, NotFound, Returns, Done, Result
<1>7. safe_strlastsame(m, dest, dmax, src).mem = m
  BY DEF safe_strlastsame, Position, Refused, NotFound, Returns, Done, Result
<1>8. safe_strprefix(m, dest, dmax, src).mem = m
  BY DEF safe_strprefix, Refused, NotFound, Returns, Done, Result
<1>9. safe_strfirstchar(m, dest, dmax, src).mem = m
  BY DEF safe_strfirstchar, FindChar, Refused, NotFound, Returns, Done, Result
<1>10. safe_strlastchar(m, dest, dmax, src).mem = m
  BY DEF safe_strlastchar, FindChar, Refused, NotFound, Returns, Done, Result
<1> QED
  BY <1>1, <1>2, <1>3, <1>4, <1>5, <1>6, <1>7, <1>8, <1>9, <1>10

(* The searches for a string or a set only read. *)
LEMMA SearchesRead ==
    ASSUME NEW m, NEW dest, NEW dmax, NEW src, NEW n
    PROVE  /\ safe_strspn(m, dest, dmax, src, n).mem = m
           /\ safe_strcspn(m, dest, dmax, src, n).mem = m
           /\ safe_strpbrk(m, dest, dmax, src, n).mem = m
           /\ safe_strstr(m, dest, dmax, src, n).mem = m
           /\ safe_strcasestr(m, dest, dmax, src, n).mem = m
<1>1. safe_strspn(m, dest, dmax, src, n).mem = m
  BY DEF safe_strspn, Span, Refused, NotFound, Returns, Done, Result
<1>2. safe_strcspn(m, dest, dmax, src, n).mem = m
  BY DEF safe_strcspn, Span, Refused, NotFound, Returns, Done, Result
<1>3. safe_strpbrk(m, dest, dmax, src, n).mem = m
  BY DEF safe_strpbrk, Refused, NotFound, Returns, Done, Result
<1>4. safe_strstr(m, dest, dmax, src, n).mem = m
  BY DEF safe_strstr, FindString, Refused, NotFound, Returns, Done, Result
<1>5. safe_strcasestr(m, dest, dmax, src, n).mem = m
  BY DEF safe_strcasestr, FindString, Refused, NotFound, Returns, Done, Result
<1> QED
  BY <1>1, <1>2, <1>3, <1>4, <1>5

(* The lengths and the classes of characters only read. *)
LEMMA ClassesRead ==
    ASSUME NEW m, NEW dest, NEW dmax
    PROVE  /\ safe_strnlen(m, dest, dmax).mem = m
           /\ safe_wcsnlen(m, dest, dmax).mem = m
           /\ safe_strisalphanumeric(m, dest, dmax).mem = m
           /\ safe_strisascii(m, dest, dmax).mem = m
           /\ safe_strisdigit(m, dest, dmax).mem = m
           /\ safe_strishex(m, dest, dmax).mem = m
           /\ safe_strislowercase(m, dest, dmax).mem = m
           /\ safe_strismixedcase(m, dest, dmax).mem = m
           /\ safe_strisuppercase(m, dest, dmax).mem = m
           /\ safe_strispassword(m, dest, dmax).mem = m
<1>1. safe_strnlen(m, dest, dmax).mem = m
  BY DEF safe_strnlen, Count, Refused, NotFound, Returns, Done, Result
<1>2. safe_wcsnlen(m, dest, dmax).mem = m
  BY DEF safe_wcsnlen, Count, Refused, NotFound, Returns, Done, Result
<1>3. safe_strisalphanumeric(m, dest, dmax).mem = m
  BY DEF safe_strisalphanumeric, Classify, Refused, NotFound, Returns, Done, Result
<1>4. safe_strisascii(m, dest, dmax).mem = m
  BY DEF safe_strisascii, Classify, Refused, NotFound, Returns, Done, Result
<1>5. safe_strisdigit(m, dest, dmax).mem = m
  BY DEF safe_strisdigit, Classify, Refused, NotFound, Returns, Done, Result
<1>6. safe_strishex(m, dest, dmax).mem = m
  BY DEF safe_strishex, Classify, Refused, NotFound, Returns, Done, Result
<1>7. safe_strislowercase(m, dest, dmax).mem = m
  BY DEF safe_strislowercase, Classify, Refused, NotFound, Returns, Done, Result
<1>8. safe_strismixedcase(m, dest, dmax).mem = m
  BY DEF safe_strismixedcase, Classify, Refused, NotFound, Returns, Done, Result
<1>9. safe_strisuppercase(m, dest, dmax).mem = m
  BY DEF safe_strisuppercase, Classify, Refused, NotFound, Returns, Done, Result
<1>10. safe_strispassword(m, dest, dmax).mem = m
  BY DEF safe_strispassword, Refused, NotFound, Returns, Done, Result
<1> QED
  BY <1>1, <1>2, <1>3, <1>4, <1>5, <1>6, <1>7, <1>8, <1>9, <1>10
=============================================================================

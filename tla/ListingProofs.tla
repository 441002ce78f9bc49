---------------------------- MODULE ListingProofs ----------------------------
(***************************************************************************)
(* The listing, for tables, page sizes and ints of any size, and any       *)
(* number of writes during a walk: what LIMIT and OFFSET cut out of the    *)
(* table, what the page count is, and what a client that turns the pages   *)
(* has seen.                                                               *)
(***************************************************************************)
EXTENDS Listing, FiniteSetTheorems, SequenceTheorems, TLAPS

(***************************************************************************)
(* Arithmetic                                                              *)
(***************************************************************************)

LEMMA SmallModulo ==
    ASSUME NEW a \in Nat, NEW b \in Nat, a < b
    PROVE  a % b = a
OBVIOUS

LEMMA DivideBounds ==
    ASSUME NEW a \in Nat, NEW b \in Nat, b > 0
    PROVE  /\ a \div b \in Nat
           /\ b * (a \div b) <= a
           /\ a < b * (a \div b) + b
OBVIOUS

LEMMA MaxIntTyped == ASSUME IntWidth \in Nat \ {0} PROVE MaxInt \in Nat
<1> DEFINE n == IntWidth - 1
           S == 1 .. n
<1>1. n \in Nat OBVIOUS
<1>2. IsFiniteSet(S) /\ Cardinality(S) = n BY <1>1, FS_Interval
<1>3. IsFiniteSet(SUBSET S) /\ Cardinality(SUBSET S) = 2 ^ n BY <1>2, FS_SUBSET
<1>4. Cardinality(SUBSET S) \in Nat /\ Cardinality(SUBSET S) # 0
  BY <1>3, FS_CardinalityType, FS_EmptySet
<1>5. 2 ^ n \in Nat /\ 2 ^ n # 0 BY <1>3, <1>4
<1>6. QED BY <1>5 DEF MaxInt

(* An int that fits is not wrapped. *)
LEMMA Unwrapped ==
    ASSUME MaxInt \in Nat, NEW n \in Nat, n <= MaxInt
    PROVE  Wrapped(n) = n
<1> DEFINE m == MaxInt
<1>1. m \in Nat OBVIOUS
<1> HIDE DEF m
<1>2. (n + m + 1) % (2 * m + 2) = n + m + 1
  <2>1. n + m + 1 \in Nat /\ 2 * m + 2 \in Nat /\ n + m + 1 < 2 * m + 2
    BY <1>1 DEF m
  <2>2. QED BY <2>1, SmallModulo
<1>3. (n + m + 1) - m - 1 = n BY <1>1
<1>4. QED BY <1>2, <1>3 DEF Wrapped, m

(* The page count is the total over the limit, rounded up: the pages       *)
(* before the last are full, and the last reaches the total.               *)
LEMMA PagesIsCeiling ==
    ASSUME NEW t \in Nat, NEW l \in Nat, l > 0
    PROVE  /\ Pages(t, l) \in Nat /\ Pages(t, l) > 0
           /\ \A p \in Nat : p < Pages(t, l) => p * l < t \/ p = 0
           /\ \A p \in Nat : p >= Pages(t, l) => p * l >= t
<1>1. CASE t = 0
  BY <1>1 DEF Pages
<1>2. CASE t > 0
  <2> DEFINE q == (t + l - 1) \div l
  <2>1. q \in Nat /\ l * q <= t + l - 1 /\ t + l - 1 < l * q + l
    <3>1. t + l - 1 \in Nat BY <1>2
    <3>2. QED BY <3>1, DivideBounds
  <2>2. Pages(t, l) = q BY <1>2 DEF Pages
  <2> HIDE DEF q
  <2>3. q > 0
    <3>1. l * q > 0 BY <1>2, <2>1
    <3>2. QED BY <2>1, <3>1
  <2>4. ASSUME NEW p \in Nat, p < q PROVE p * l < t
    <3>1. (p + 1) * l <= q * l BY <2>1, <2>4
    <3>2. (p + 1) * l = p * l + l OBVIOUS
    <3>3. p * l \in Nat OBVIOUS
    <3>4. QED BY <2>1, <3>1, <3>2, <3>3
  <2>5. ASSUME NEW p \in Nat, p >= q PROVE p * l >= t
    <3>1. p * l >= q * l BY <2>1, <2>5
    <3>2. QED BY <2>1, <3>1
  <2>6. QED BY <2>1, <2>2, <2>3, <2>4, <2>5
<1>3. QED BY <1>1, <1>2

LEMMA LimitTyped ==
    ASSUME NEW l \in Int
    PROVE  /\ Limit(l) \in Nat /\ Limit(l) > 0 /\ Limit(l) <= MaxLimit
           /\ l <= MaxLimit => MetaLimit(l) = Limit(l)
BY DEF Limit, MetaLimit, MaxLimit, DefaultLimit

(***************************************************************************)
(* The rows of a page                                                      *)
(***************************************************************************)
SliceEnd(s, limit, from) == IF from + limit < Len(s) THEN from + limit ELSE Len(s)

LEMMA SliceRows ==
    ASSUME NEW s \in Seq(Nat), NEW limit \in Nat, NEW from \in Nat, from <= Len(s)
    PROVE  LET page == Slice(s, limit, from)
           IN  {page[i] : i \in 1 .. Len(page)}
                   = {s[i] : i \in from + 1 .. SliceEnd(s, limit, from)}
<1> DEFINE to == SliceEnd(s, limit, from)
           page == SubSeq(s, from + 1, to)
<1>1. /\ Len(s) \in Nat /\ \A i \in 1 .. Len(s) : s[i] \in Nat
      /\ to \in Nat /\ from <= to /\ to <= Len(s)
  BY DEF SliceEnd
<1> HIDE DEF to
<1>2. /\ Len(page) = to - from
      /\ \A i \in 1 .. to - from : page[i] = s[from + i]
  <2>1. \A i \in from + 1 .. to : s[i] \in Nat BY <1>1
  <2>2. /\ Len(page) = IF from + 1 <= to THEN to - (from + 1) + 1 ELSE 0
        /\ \A i \in 1 .. to - (from + 1) + 1 : page[i] = s[from + 1 + i - 1]
    BY <1>1, <2>1, SubSeqProperties
  <2>3. QED BY <1>1, <2>2
<1>3. Slice(s, limit, from) = page
  <2>1. (IF from > 0 THEN from ELSE 0) = from OBVIOUS
  <2>2. QED BY <2>1, Zenon DEF Slice, SliceEnd, to
<1> HIDE DEF page
<1>4. {page[i] : i \in 1 .. to - from} = {s[i] : i \in from + 1 .. to}
  <2>1. ASSUME NEW i \in 1 .. to - from
        PROVE  page[i] = s[from + i] /\ from + i \in from + 1 .. to
    BY <1>1, <1>2
  <2>2. ASSUME NEW j \in from + 1 .. to
        PROVE  j - from \in 1 .. to - from /\ page[j - from] = s[j]
    BY <1>1, <1>2
  <2> DEFINE A == {page[i] : i \in 1 .. to - from}
             B == {s[i] : i \in from + 1 .. to}
  <2>3. \A x \in A : x \in B BY <2>1
  <2>4. \A x \in B : x \in A BY <2>2
  <2>5. QED BY <2>3, <2>4, Zenon
<1>5. QED BY <1>2, <1>3, <1>4 DEF to

(* Beyond the last row there is nothing. *)
LEMMA SliceBeyond ==
    ASSUME NEW s \in Seq(Nat), NEW limit \in Nat, limit > 0,
           NEW from \in Nat, from > 0, from >= Len(s)
    PROVE  Slice(s, limit, from) = <<>>
<1>1. Len(s) \in Nat /\ ~ (from + limit < Len(s)) OBVIOUS
<1>2. SubSeq(s, from + 1, Len(s)) = <<>> BY <1>1, SubSeqEmpty
<1>3. QED BY <1>1, <1>2 DEF Slice

(***************************************************************************)
(* The table                                                               *)
(***************************************************************************)

Fresh(s) ==
    /\ \A i \in 1 .. Len(s) : s[i] < next
    /\ \A i, j \in 1 .. Len(s) : s[i] = s[j] => i = j

(* Every product is listed once, and a write adds one row at most. *)
TableInv ==
    /\ rows \in Seq(Nat) /\ next \in Nat
    /\ writes \in 0 .. MaxWrites
    /\ Fresh(rows)
    /\ \E n \in Sizes : Len(rows) <= n + writes

LEMMA InsertedRow ==
    ASSUME NEW s \in Seq(Nat), NEW x \in Nat, NEW k \in 0 .. Len(s)
    PROVE  LET t == SubSeq(s, 1, k) \o <<x>> \o SubSeq(s, k + 1, Len(s))
           IN  /\ t \in Seq(Nat) /\ Len(t) = Len(s) + 1
               /\ \A i \in 1 .. Len(s) + 1 :
                     t[i] = IF i <= k THEN s[i] ELSE IF i = k + 1 THEN x ELSE s[i - 1]
<1> DEFINE a == SubSeq(s, 1, k)
           b == SubSeq(s, k + 1, Len(s))
           ax == a \o <<x>>
           t == ax \o b
<1>1. Len(s) \in Nat /\ k \in Nat /\ k <= Len(s) /\ \A i \in 1 .. Len(s) : s[i] \in Nat
  OBVIOUS
<1>2. a \in Seq(Nat) /\ Len(a) = k /\ \A i \in 1 .. k : a[i] = s[i]
  <2>1. \A i \in 1 .. k : s[i] \in Nat BY <1>1
  <2>2. /\ a \in Seq(Nat) /\ Len(a) = IF 1 <= k THEN k - 1 + 1 ELSE 0
        /\ \A i \in 1 .. k - 1 + 1 : a[i] = s[1 + i - 1]
    BY <1>1, <2>1, SubSeqProperties
  <2> HIDE DEF a
  <2>3. QED BY <1>1, <2>2
<1>3. b \in Seq(Nat) /\ Len(b) = Len(s) - k /\ \A i \in 1 .. Len(s) - k : b[i] = s[k + i]
  <2>1. \A i \in k + 1 .. Len(s) : s[i] \in Nat BY <1>1
  <2>2. /\ b \in Seq(Nat)
        /\ Len(b) = IF k + 1 <= Len(s) THEN Len(s) - (k + 1) + 1 ELSE 0
        /\ \A i \in 1 .. Len(s) - (k + 1) + 1 : b[i] = s[k + 1 + i - 1]
    BY <1>1, <2>1, SubSeqProperties
  <2> HIDE DEF b
  <2>3. QED BY <1>1, <2>2
<1> HIDE DEF a, b
<1>4. /\ ax \in Seq(Nat) /\ Len(ax) = k + 1
      /\ \A i \in 1 .. k + 1 : ax[i] = IF i <= k THEN s[i] ELSE x
  <2>1. <<x>> \in Seq(Nat) /\ Len(<<x>>) = 1 /\ <<x>>[1] = x OBVIOUS
  <2>2. /\ ax \in Seq(Nat) /\ Len(ax) = Len(a) + 1
        /\ \A i \in 1 .. Len(a) + 1 : ax[i] = IF i <= Len(a) THEN a[i] ELSE <<x>>[i - Len(a)]
    BY <1>2, <2>1, ConcatProperties
  <2> HIDE DEF ax
  <2>3. QED BY <1>1, <1>2, <2>1, <2>2
<1> HIDE DEF ax
<1>5. /\ t \in Seq(Nat) /\ Len(t) = Len(ax) + Len(b)
      /\ \A i \in 1 .. Len(ax) + Len(b) : t[i] = IF i <= Len(ax) THEN ax[i] ELSE b[i - Len(ax)]
  BY <1>3, <1>4, ConcatProperties
<1> HIDE DEF t
<1>6. Len(t) = Len(s) + 1 BY <1>1, <1>3, <1>4, <1>5
<1>7. ASSUME NEW i \in 1 .. Len(s) + 1
      PROVE  t[i] = IF i <= k THEN s[i] ELSE IF i = k + 1 THEN x ELSE s[i - 1]
  <2> i \in 1 .. Len(ax) + Len(b) BY <1>1, <1>3, <1>4
  <2>0. t[i] = IF i <= Len(ax) THEN ax[i] ELSE b[i - Len(ax)] BY <1>5
  <2>1. CASE i <= k + 1
    <3>1. t[i] = ax[i] BY <1>4, <2>0, <2>1
    <3>2. i \in 1 .. k + 1 BY <1>1, <2>1
    <3>3. ax[i] = IF i <= k THEN s[i] ELSE x BY <1>4, <3>2
    <3>4. i <= k \/ i = k + 1 BY <1>1, <2>1
    <3>5. QED BY <1>1, <3>1, <3>3, <3>4
  <2>2. CASE i > k + 1
    <3>1. i - (k + 1) \in 1 .. Len(s) - k BY <1>1, <2>2
    <3>2. t[i] = b[i - (k + 1)]
      <4>1. Len(ax) = k + 1 /\ ~ (i <= k + 1) BY <1>1, <1>4, <2>2
      <4>2. QED BY <2>0, <4>1
    <3>3. b[i - (k + 1)] = s[k + (i - (k + 1))] BY <1>3, <3>1
    <3>4. k + (i - (k + 1)) = i - 1 BY <1>1
    <3>5. QED BY <1>1, <2>2, <3>2, <3>3, <3>4
  <2>3. QED BY <1>1, <2>1, <2>2
<1>8. QED BY <1>5, <1>6, <1>7 DEF t, ax, a, b

LEMMA RemovedRow ==
    ASSUME rows \in Seq(Nat), NEW k \in 1 .. Len(rows)
    PROVE  /\ Without(k) \in Seq(Nat) /\ Len(Without(k)) = Len(rows) - 1
           /\ \A i \in 1 .. Len(rows) - 1 :
                 Without(k)[i] = IF i < k THEN rows[i] ELSE rows[i + 1]
<1> DEFINE a == SubSeq(rows, 1, k - 1)
           b == SubSeq(rows, k + 1, Len(rows))
           t == a \o b
<1>1. /\ Len(rows) \in Nat /\ k \in Nat /\ k > 0 /\ k <= Len(rows)
      /\ \A i \in 1 .. Len(rows) : rows[i] \in Nat
  OBVIOUS
<1>2. a \in Seq(Nat) /\ Len(a) = k - 1 /\ \A i \in 1 .. k - 1 : a[i] = rows[i]
  <2>1. \A i \in 1 .. k - 1 : rows[i] \in Nat BY <1>1
  <2>2. /\ a \in Seq(Nat) /\ Len(a) = IF 1 <= k - 1 THEN k - 1 - 1 + 1 ELSE 0
        /\ \A i \in 1 .. k - 1 - 1 + 1 : a[i] = rows[1 + i - 1]
    <3>1. k - 1 \in Int /\ 1 \in Int BY <1>1
    <3>2. QED BY <2>1, <3>1, SubSeqProperties
  <2> HIDE DEF a
  <2>3. QED BY <1>1, <2>2
<1>3. /\ b \in Seq(Nat) /\ Len(b) = Len(rows) - k
      /\ \A i \in 1 .. Len(rows) - k : b[i] = rows[k + i]
  <2>1. \A i \in k + 1 .. Len(rows) : rows[i] \in Nat BY <1>1
  <2>2. /\ b \in Seq(Nat)
        /\ Len(b) = IF k + 1 <= Len(rows) THEN Len(rows) - (k + 1) + 1 ELSE 0
        /\ \A i \in 1 .. Len(rows) - (k + 1) + 1 : b[i] = rows[k + 1 + i - 1]
    BY <1>1, <2>1, SubSeqProperties
  <2> HIDE DEF b
  <2>3. QED BY <1>1, <2>2
<1> HIDE DEF a, b
<1>4. /\ t \in Seq(Nat) /\ Len(t) = Len(a) + Len(b)
      /\ \A i \in 1 .. Len(a) + Len(b) : t[i] = IF i <= Len(a) THEN a[i] ELSE b[i - Len(a)]
  BY <1>2, <1>3, ConcatProperties
<1> HIDE DEF t
<1>5. Len(t) = Len(rows) - 1 BY <1>1, <1>2, <1>3, <1>4
<1>6. ASSUME NEW i \in 1 .. Len(rows) - 1
      PROVE  t[i] = IF i < k THEN rows[i] ELSE rows[i + 1]
  <2> i \in 1 .. Len(a) + Len(b) BY <1>1, <1>2, <1>3
  <2>0. t[i] = IF i <= Len(a) THEN a[i] ELSE b[i - Len(a)] BY <1>4
  <2>1. CASE i < k
    <3>1. Len(a) = k - 1 /\ i <= k - 1 /\ i \in 1 .. k - 1 BY <1>1, <1>2, <2>1
    <3>2. t[i] = a[i] /\ a[i] = rows[i] BY <1>2, <2>0, <3>1
    <3>3. QED BY <2>1, <3>2
  <2>2. CASE i >= k
    <3>1. i - (k - 1) \in 1 .. Len(rows) - k BY <1>1, <2>2
    <3>2. t[i] = b[i - (k - 1)]
      <4>1. Len(a) = k - 1 /\ ~ (i <= k - 1) BY <1>1, <1>2, <2>2
      <4>2. QED BY <2>0, <4>1
    <3>3. b[i - (k - 1)] = rows[k + (i - (k - 1))] BY <1>3, <3>1
    <3>4. k + (i - (k - 1)) = i + 1 BY <1>1
    <3>5. QED BY <1>1, <2>2, <3>2, <3>3, <3>4
  <2>3. QED BY <1>1, <2>1, <2>2
<1>7. QED BY <1>4, <1>5, <1>6 DEF t, a, b, Without

(* A row less than next, put among rows that are fresh. *)
LEMMA FreshInserted ==
    ASSUME NEW s \in Seq(Nat), NEW t \in Seq(Nat), NEW x \in Nat, NEW k \in 0 .. Len(s),
           \A i \in 1 .. Len(s) : s[i] < x,
           \A i, j \in 1 .. Len(s) : s[i] = s[j] => i = j,
           Len(t) = Len(s) + 1,
           \A i \in 1 .. Len(s) + 1 :
              t[i] = IF i <= k THEN s[i] ELSE IF i = k + 1 THEN x ELSE s[i - 1]
    PROVE  /\ \A i \in 1 .. Len(t) : t[i] < x + 1
           /\ \A i, j \in 1 .. Len(t) : t[i] = t[j] => i = j
<1> DEFINE from(i) == IF i <= k THEN i ELSE i - 1
<1>1. Len(s) \in Nat /\ k \in Nat /\ k <= Len(s) /\ \A i \in 1 .. Len(s) : s[i] \in Nat
  OBVIOUS
<1>2. ASSUME NEW i \in 1 .. Len(t), i # k + 1
      PROVE  from(i) \in 1 .. Len(s) /\ t[i] = s[from(i)] /\ t[i] < x
  <2>1. CASE i <= k
    <3>1. i \in 1 .. Len(s) /\ i \in 1 .. Len(s) + 1 BY <1>1, <2>1
    <3>2. t[i] = s[i] BY <2>1, <3>1
    <3>3. QED BY <2>1, <3>1, <3>2
  <2>2. CASE i > k
    <3>1. /\ i - 1 \in 1 .. Len(s) /\ i \in 1 .. Len(s) + 1 /\ ~ (i <= k)
      BY <1>1, <1>2, <2>2
    <3>2. t[i] = s[i - 1] BY <1>2, <3>1
    <3>3. QED BY <3>1, <3>2
  <2>3. QED BY <1>1, <2>1, <2>2
<1>3. k + 1 \in 1 .. Len(t) /\ t[k + 1] = x
  <2>1. k + 1 \in 1 .. Len(s) + 1 /\ ~ (k + 1 <= k) BY <1>1
  <2>2. QED BY <2>1
<1>4. ASSUME NEW i \in 1 .. Len(t) PROVE t[i] < x + 1
  <2>1. CASE i = k + 1 BY <1>3, <2>1
  <2>2. CASE i # k + 1
    <3>1. t[i] \in Nat /\ t[i] < x BY <1>2, <2>2
    <3>2. QED BY <3>1
  <2>3. QED BY <2>1, <2>2
<1>5. ASSUME NEW i \in 1 .. Len(t), NEW j \in 1 .. Len(t), t[i] = t[j] PROVE i = j
  <2>1. CASE i = k + 1 \/ j = k + 1
    <3>1. t[i] = x \/ t[j] = x BY <1>3, <2>1
    <3>2. t[i] = x /\ t[j] = x BY <1>5, <3>1
    <3>3. ~ (x < x) OBVIOUS
    <3>4. QED BY <1>2, <3>2, <3>3
  <2>2. CASE i # k + 1 /\ j # k + 1
    <3>1. s[from(i)] = s[from(j)] BY <1>2, <1>5, <2>2
    <3>2. from(i) = from(j) BY <1>2, <2>2, <3>1
    <3>3. QED BY <1>1, <2>2, <3>2, SMTT(30)
  <2>3. QED BY <2>1, <2>2
<1>6. QED BY <1>4, <1>5

(* Rows taken from rows that are fresh, none of them twice. *)
LEMMA FreshTaken ==
    ASSUME NEW s \in Seq(Nat), NEW t \in Seq(Nat), NEW x \in Nat,
           NEW from \in [1 .. Len(t) -> 1 .. Len(s)],
           \A i \in 1 .. Len(s) : s[i] < x,
           \A i, j \in 1 .. Len(s) : s[i] = s[j] => i = j,
           \A i \in 1 .. Len(t) : t[i] = s[from[i]],
           \A i, j \in 1 .. Len(t) : from[i] = from[j] => i = j
    PROVE  /\ \A i \in 1 .. Len(t) : t[i] < x
           /\ \A i, j \in 1 .. Len(t) : t[i] = t[j] => i = j
<1>1. ASSUME NEW i \in 1 .. Len(t), NEW j \in 1 .. Len(t), t[i] = t[j] PROVE i = j
  <2>1. from[i] \in 1 .. Len(s) /\ from[j] \in 1 .. Len(s) /\ s[from[i]] = s[from[j]]
    BY <1>1
  <2>2. from[i] = from[j] BY <2>1
  <2>3. QED BY <2>2
<1>2. ASSUME NEW i \in 1 .. Len(t) PROVE t[i] < x
  OBVIOUS
<1>3. QED BY <1>1, <1>2

LEMMA AddKeeps ==
    ASSUME ListingConstants, TableInv, AddProduct
    PROVE  /\ TableInv'
           /\ ~ disturbed' => Len(rows') = Len(rows) + 1
                              /\ \A i \in 1 .. Len(rows) : rows'[i] = rows[i]
<1>1. PICK k \in 0 .. Len(rows) :
          /\ rows' = SubSeq(rows, 1, k) \o <<next>> \o SubSeq(rows, k + 1, Len(rows))
          /\ disturbed' = (disturbed \/ k < Len(rows))
  BY DEF AddProduct
<1>2. /\ rows' \in Seq(Nat) /\ Len(rows') = Len(rows) + 1
      /\ \A i \in 1 .. Len(rows) + 1 :
            rows'[i] = IF i <= k THEN rows[i] ELSE IF i = k + 1 THEN next ELSE rows[i - 1]
  BY <1>1, InsertedRow, ZenonT(40) DEF TableInv
<1>3. /\ Len(rows) \in Nat /\ k \in Nat /\ k <= Len(rows) /\ next \in Nat /\ next' = next + 1
      /\ \A i \in 1 .. Len(rows) : rows[i] \in Nat /\ rows[i] < next
      /\ \A i, j \in 1 .. Len(rows) : rows[i] = rows[j] => i = j
  BY DEF AddProduct, TableInv, Fresh
<1>4. writes' \in 0 .. MaxWrites /\ writes' = writes + 1
  BY DEF AddProduct, Writes, TableInv, ListingConstants
<1>5. Fresh(rows)'
  <2>1. rows \in Seq(Nat) BY DEF TableInv
  <2>2. /\ \A i \in 1 .. Len(rows') : rows'[i] < next + 1
        /\ \A i, j \in 1 .. Len(rows') : rows'[i] = rows'[j] => i = j
    BY <1>2, <1>3, <2>1, FreshInserted
  <2>3. QED BY <1>3, <2>2 DEF Fresh
<1>6. \E n \in Sizes : Len(rows') <= n + writes'
  <2>1. PICK n \in Sizes : Len(rows) <= n + writes BY DEF TableInv
  <2>2. n \in Nat /\ writes \in Nat BY DEF ListingConstants, TableInv
  <2>3. QED BY <1>2, <1>3, <1>4, <2>1, <2>2
<1>7. TableInv' BY <1>2, <1>3, <1>4, <1>5, <1>6 DEF TableInv
<1>8. ASSUME ~ disturbed', NEW i \in 1 .. Len(rows) PROVE rows'[i] = rows[i]
  <2>0. ~ (k < Len(rows)) BY <1>1, <1>8, Zenon
  <2>1. k = Len(rows) BY <1>3, <2>0
  <2>2. i \in 1 .. Len(rows) + 1 /\ i <= k BY <1>3, <2>1
  <2>3. QED BY <1>2, <2>2
<1>9. QED BY <1>2, <1>7, <1>8

LEMMA RewriteKeeps ==
    ASSUME ListingConstants, TableInv, NEW k \in 1 .. Len(rows), Rewrite(k)
    PROVE  TableInv' /\ disturbed'
<1> DEFINE w == Without(k)
<1>1. /\ w \in Seq(Nat) /\ Len(w) = Len(rows) - 1
      /\ \A i \in 1 .. Len(rows) - 1 : w[i] = IF i < k THEN rows[i] ELSE rows[i + 1]
  BY RemovedRow DEF TableInv
<1>2. rows' = w \/ rows' = Append(w, rows[k]) BY DEF Rewrite
<1> HIDE DEF w
<1>3. /\ Len(rows) \in Nat /\ k \in Nat /\ k > 0 /\ k <= Len(rows) /\ next \in Nat
      /\ next' = next
      /\ \A i \in 1 .. Len(rows) : rows[i] \in Nat /\ rows[i] < next
      /\ \A i, j \in 1 .. Len(rows) : rows[i] = rows[j] => i = j
  BY DEF Rewrite, TableInv, Fresh
<1>4. writes' \in 0 .. MaxWrites /\ writes' = writes + 1 /\ disturbed'
  BY DEF Rewrite, Writes, TableInv, ListingConstants
<1>5. Append(w, rows[k]) \in Seq(Nat) /\ Len(Append(w, rows[k])) = Len(rows)
      /\ \A i \in 1 .. Len(rows) : Append(w, rows[k])[i] =
            IF i < k THEN rows[i] ELSE IF i < Len(rows) THEN rows[i + 1] ELSE rows[k]
  <2>1. rows[k] \in Nat BY <1>3
  <2>2. /\ Append(w, rows[k]) \in Seq(Nat) /\ Len(Append(w, rows[k])) = Len(w) + 1
        /\ \A i \in 1 .. Len(w) : Append(w, rows[k])[i] = w[i]
        /\ Append(w, rows[k])[Len(w) + 1] = rows[k]
    BY <1>1, <2>1, AppendProperties
  <2> DEFINE v == Append(w, rows[k])
  <2> HIDE DEF v
  <2>3. v \in Seq(Nat) /\ Len(v) = Len(rows) BY <1>1, <1>3, <2>2 DEF v
  <2>4. ASSUME NEW i \in 1 .. Len(rows)
        PROVE  v[i] = IF i < k THEN rows[i] ELSE IF i < Len(rows) THEN rows[i + 1] ELSE rows[k]
    <3>1. CASE i < Len(rows)
      <4>1. i \in 1 .. Len(w) BY <1>1, <1>3, <3>1
      <4>2. v[i] = w[i] BY <2>2, <4>1 DEF v
      <4>3. QED BY <1>1, <1>3, <3>1, <4>2
    <3>2. CASE i = Len(rows)
      <4>1. Len(w) + 1 = Len(rows) BY <1>1, <1>3
      <4>2. v[i] = rows[k] BY <2>2, <3>2, <4>1 DEF v
      <4>3. ~ (i < k) BY <1>3, <3>2
      <4>4. QED BY <1>3, <3>2, <4>2, <4>3
    <3>3. QED BY <1>3, <3>1, <3>2
  <2>5. QED BY <2>3, <2>4 DEF v
<1>6. /\ rows' \in Seq(Nat) /\ Len(rows') <= Len(rows) /\ Len(rows') \in Nat
      /\ Fresh(rows)'
  <2> rows \in Seq(Nat) BY DEF TableInv
  <2>1. CASE rows' = w
    <3> DEFINE from == [i \in 1 .. Len(rows) - 1 |-> IF i < k THEN i ELSE i + 1]
    <3>1. rows' \in Seq(Nat) /\ Len(rows') = Len(rows) - 1 BY <1>1, <2>1
    <3>2. from \in [1 .. Len(rows') -> 1 .. Len(rows)] BY <1>3, <3>1, SMTT(30)
    <3>3. ASSUME NEW i \in 1 .. Len(rows') PROVE rows'[i] = rows[from[i]]
      BY <1>1, <2>1, <3>1
    <3>4. ASSUME NEW i \in 1 .. Len(rows'), NEW j \in 1 .. Len(rows'), from[i] = from[j]
          PROVE  i = j
      BY <1>3, <3>1, <3>4
    <3> HIDE DEF from
    <3>5. /\ \A i \in 1 .. Len(rows') : rows'[i] < next
          /\ \A i, j \in 1 .. Len(rows') : rows'[i] = rows'[j] => i = j
      BY <1>3, <3>1, <3>2, <3>3, <3>4, FreshTaken
    <3>6. QED BY <1>3, <3>1, <3>5 DEF Fresh
  <2>2. CASE rows' = Append(w, rows[k])
    <3> DEFINE from == [i \in 1 .. Len(rows) |->
                            IF i < k THEN i ELSE IF i < Len(rows) THEN i + 1 ELSE k]
    <3>1. rows' \in Seq(Nat) /\ Len(rows') = Len(rows) BY <1>5, <2>2
    <3>2. from \in [1 .. Len(rows') -> 1 .. Len(rows)] BY <1>3, <3>1
    <3>3. ASSUME NEW i \in 1 .. Len(rows') PROVE rows'[i] = rows[from[i]]
      BY <1>5, <2>2, <3>1
    <3>4. ASSUME NEW i \in 1 .. Len(rows'), NEW j \in 1 .. Len(rows'), from[i] = from[j]
          PROVE  i = j
      BY <1>3, <3>1, <3>4, SMTT(30)
    <3> HIDE DEF from
    <3>5. /\ \A i \in 1 .. Len(rows') : rows'[i] < next
          /\ \A i, j \in 1 .. Len(rows') : rows'[i] = rows'[j] => i = j
      BY <1>3, <3>1, <3>2, <3>3, <3>4, FreshTaken
    <3>6. QED BY <1>3, <3>1, <3>5 DEF Fresh
  <2>3. QED BY <1>2, <2>1, <2>2
<1>7. \E n \in Sizes : Len(rows') <= n + writes'
  <2>1. PICK n \in Sizes : Len(rows) <= n + writes BY DEF TableInv
  <2>2. n \in Nat /\ writes \in Nat BY DEF ListingConstants, TableInv
  <2>3. QED BY <1>3, <1>4, <1>6, <2>1, <2>2
<1>8. QED BY <1>3, <1>4, <1>6, <1>7 DEF TableInv

(***************************************************************************)
(* A page out of the blue                                                  *)
(***************************************************************************)
Table == TableInv /\ walk \in Walk

LEMMA WalkTyped ==
    ASSUME ListingConstants, walk \in Walk
    PROVE  walk.limit \in Int /\ walk.page \in Nat /\ walk.total \in Nat
<1>1. walk.limit \in Limits \cup {0} /\ walk.page \in Nat /\ walk.total \in Nat
  BY DEF Walk
<1>2. \A l \in Limits : l \in Int BY DEF ListingConstants
<1>3. ASSUME NEW l \in Limits \cup {0} PROVE l \in Int
  <2>1. CASE l \in Limits BY <1>2, <2>1, Zenon
  <2>2. CASE l = 0 BY <2>2
  <2>3. QED BY <2>1, <2>2
<1>4. walk.limit \in Int BY <1>1, <1>3, Zenon
<1>5. QED BY <1>1, <1>4

LEMMA MetaPagesTyped ==
    ASSUME ListingConstants, walk \in Walk
    PROVE  MetaPages \in Nat /\ MetaPages > 0
<1>1. walk.limit \in Int /\ walk.total \in Nat BY WalkTyped
<1>2. MetaLimit(walk.limit) \in Nat /\ MetaLimit(walk.limit) > 0
  BY <1>1 DEF MetaLimit, DefaultLimit
<1>3. QED BY <1>1, <1>2, PagesIsCeiling DEF MetaPages

LEMMA InRowsTyped == ASSUME rows \in Seq(Nat) PROVE InRows \in SUBSET Nat
BY DEF InRows

LEMMA TableStep == ListingConstants /\ Table /\ [ListingNext]_listingVars => Table'
<1> SUFFICES ASSUME ListingConstants, Table, [ListingNext]_listingVars PROVE Table'
  OBVIOUS
<1> USE DEF Table
<1>1. ASSUME NEW limit \in Limits, Begin(limit) PROVE Table'
  <2>1. TableInv' BY <1>1 DEF Begin, tableVars, TableInv, Fresh
  <2>2. walk' \in Walk
    <3>1. InRows \in SUBSET Nat BY InRowsTyped DEF TableInv
    <3>2. walk' = [Idle EXCEPT !.pc = "count", !.limit = limit, !.start = InRows]
      BY <1>1 DEF Begin
    <3> HIDE DEF InRows
    <3>3. QED BY <3>1, <3>2 DEF Walk, Idle
  <2>3. QED BY <2>1, <2>2
<1>2. CASE Count
  <2>1. TableInv' BY <1>2 DEF Count, tableVars, TableInv, Fresh
  <2>2. walk' \in Walk
    <3>1. Len(rows) \in Nat BY DEF TableInv
    <3>2. walk' = [walk EXCEPT !.pc = "find", !.total = Len(rows)] BY <1>2 DEF Count
    <3>3. QED BY <3>1, <3>2 DEF Walk
  <2>3. QED BY <2>1, <2>2
<1>3. CASE Find
  <2>1. TableInv' BY <1>3 DEF Find, tableVars, TableInv, Fresh
  <2>2. walk' \in Walk
    <3>1. walk' = [walk EXCEPT !.pages = MetaPages, !.page = FirstPage(walk.page) + 1,
                       !.pc = IF FirstPage(walk.page) >= MetaPages THEN "done" ELSE "count"]
      BY <1>3 DEF Find
    <3>2. MetaPages \in Nat /\ FirstPage(walk.page) + 1 \in Nat
      BY MetaPagesTyped DEF FirstPage, Walk
    <3> HIDE DEF MetaPages
    <3>3. QED BY <3>1, <3>2 DEF Walk
  <2>3. QED BY <2>1, <2>2
<1>4. CASE AddProduct
  BY <1>4, AddKeeps DEF AddProduct, Writes
<1>5. ASSUME NEW k \in 1 .. Len(rows), Rewrite(k) PROVE Table'
  BY <1>5, RewriteKeeps DEF Rewrite, Writes
<1>6. CASE UNCHANGED listingVars
  BY <1>6 DEF listingVars, TableInv, Fresh
<1>7. QED BY <1>1, <1>2, <1>3, <1>4, <1>5, <1>6 DEF ListingNext

LEMMA TableInit == ListingConstants /\ ListingInit => Table
<1> SUFFICES ASSUME ListingConstants, ListingInit PROVE Table
  OBVIOUS
<1>1. PICK n \in Sizes : rows = [i \in 1 .. n |-> i] /\ next = n + 1 BY DEF ListingInit
<1>2. n \in Nat BY DEF ListingConstants
<1>3. rows \in Seq(Nat) /\ Len(rows) = n /\ \A i \in 1 .. n : rows[i] = i
  BY <1>1, <1>2
<1>4. Fresh(rows) /\ next \in Nat BY <1>1, <1>2, <1>3 DEF Fresh
<1>5. writes = 0 /\ writes \in 0 .. MaxWrites BY DEF ListingInit, ListingConstants
<1>6. TableInv BY <1>2, <1>3, <1>4, <1>5 DEF TableInv
<1>7. walk \in Walk BY DEF ListingInit, Walk, Idle
<1>8. QED BY <1>6, <1>7 DEF Table

(* The page that follows the last one is asked for by number: unless its   *)
(* offset exceeds an int, and wraps around, it holds nothing, for tables,  *)
(* limits and page numbers of any size (Offset, productRepository's        *)
(* FindActiveProducts).                                                    *)
THEOREM PastTheEnd == ListingSpec => []PastTheEndIsEmpty
<1> ListingConstants BY ListingAssumption
<1>1. Table => PastTheEndIsEmpty
  <2> SUFFICES ASSUME TableInv, NEW page \in Jumps, NEW limit \in Limits,
                      page > Pages(Len(rows), Limit(limit)),
                      page - 1 <= MaxInt \div Limit(limit)
               PROVE  Slice(rows, Limit(limit), Offset(FirstPage(page), Limit(limit))) = <<>>
    BY DEF Table, PastTheEndIsEmpty
  <2> DEFINE L == Limit(limit)
             P == Pages(Len(rows), L)
  <2>1. L \in Nat /\ L > 0 BY LimitTyped DEF ListingConstants
  <2>2. MaxInt \in Nat BY MaxIntTyped DEF ListingConstants
  <2>3. rows \in Seq(Nat) /\ Len(rows) \in Nat BY DEF TableInv
  <2>4. page \in Int /\ page > P /\ page - 1 <= MaxInt \div L BY DEF ListingConstants
  <2> HIDE DEF L
  <2>5. /\ P \in Nat /\ P > 0
        /\ \A p \in Nat : p >= P => p * L >= Len(rows)
    BY <2>1, <2>3, PagesIsCeiling
  <2> HIDE DEF P
  <2>6. page - 1 \in Nat /\ page - 1 > 0 /\ page - 1 >= P /\ FirstPage(page) = page
    BY <2>4, <2>5 DEF FirstPage
  <2>7. (page - 1) * L \in Nat /\ (page - 1) * L > 0 /\ (page - 1) * L >= Len(rows)
    <3>1. (page - 1) * L >= Len(rows) BY <2>5, <2>6
    <3>2. (page - 1) * L >= 1 * L BY <2>1, <2>6
    <3>3. (page - 1) * L \in Nat BY <2>1, <2>6
    <3>4. QED BY <2>1, <3>1, <3>2, <3>3
  <2>8. (page - 1) * L <= MaxInt
    <3> DEFINE q == MaxInt \div L
               m == MaxInt
    <3>1. q \in Nat /\ L * q <= m BY <2>1, <2>2, DivideBounds
    <3>2. m \in Nat /\ page - 1 <= q BY <2>2, <2>4
    <3> HIDE DEF q, m
    <3>3. (page - 1) * L <= q * L BY <2>1, <2>6, <3>1, <3>2
    <3>4. q * L = L * q /\ q * L \in Nat BY <2>1, <3>1
    <3>5. (page - 1) * L <= m BY <2>7, <3>1, <3>2, <3>3, <3>4
    <3>6. QED BY <3>5 DEF m
  <2>9. Offset(FirstPage(page), L) = (page - 1) * L
    <3>1. Wrapped((page - 1) * L) = (page - 1) * L BY <2>2, <2>7, <2>8, Unwrapped
    <3>2. QED BY <2>6, <3>1, Zenon DEF Offset
  <2>10. Slice(rows, L, (page - 1) * L) = <<>> BY <2>1, <2>3, <2>7, SliceBeyond
  <2>11. QED BY <2>9, <2>10 DEF L
<1>2. QED BY <1>1, TableInit, TableStep, PTL DEF ListingSpec

(***************************************************************************)
(* A walk from the first page to the last                                  *)
(***************************************************************************)

(* A walk that the promise is about: the limit is one that the repository  *)
(* accepts, and no row left its place, or squeezed in.                     *)
Calm == walk.limit <= MaxLimit /\ ~ disturbed

FirstRows(n) == {rows[i] : i \in 1 .. n}

(* The rows on the pages before the one that is next. *)
Before == (FirstPage(walk.page) - 1) * Limit(walk.limit)

(* Between two pages the client has seen the first rows of the table, up   *)
(* to a page's end, and between the count and the page every row that it   *)
(* is to see has been counted.                                             *)
WalkInv ==
    /\ (walk.pc \in {"count", "find"} /\ Calm) =>
          /\ Before <= Len(rows)
          /\ shown = FirstRows(Before) /\ ~ twice
          /\ walk.start \subseteq InRows
    /\ (walk.pc = "find" /\ Calm) =>
          walk.total <= Len(rows) /\ walk.start \subseteq FirstRows(walk.total)
    /\ WalkShowsEachOnce

LEMMA BeforeTyped ==
    ASSUME ListingConstants, walk \in Walk
    PROVE  /\ Before \in Nat
           /\ FirstPage(walk.page) \in Nat /\ FirstPage(walk.page) > 0
           /\ Limit(walk.limit) \in Nat /\ Limit(walk.limit) > 0
           /\ walk.limit \in Int /\ walk.total \in Nat
<1>1. walk.limit \in Int /\ walk.page \in Nat /\ walk.total \in Nat BY WalkTyped
<1>2. FirstPage(walk.page) \in Nat /\ FirstPage(walk.page) > 0 BY <1>1 DEF FirstPage
<1>3. Limit(walk.limit) \in Nat /\ Limit(walk.limit) > 0 BY <1>1, LimitTyped
<1>4. FirstPage(walk.page) - 1 \in Nat BY <1>2
<1>5. Before \in Nat BY <1>3, <1>4 DEF Before
<1>6. QED BY <1>1, <1>2, <1>3, <1>5

(* Rows of a table that only grew are where they were. *)
LEMMA FirstRowsStay ==
    ASSUME rows \in Seq(Nat), NEW n \in Nat, n <= Len(rows),
           \A i \in 1 .. Len(rows) : rows'[i] = rows[i]
    PROVE  FirstRows(n)' = FirstRows(n)
<1>1. Len(rows) \in Nat OBVIOUS
<1>2. \A i \in 1 .. n : rows'[i] = rows[i] BY <1>1
<1>3. {rows'[i] : i \in 1 .. n} = {rows[i] : i \in 1 .. n} BY <1>2, Zenon
<1>4. QED BY <1>3 DEF FirstRows

LEMMA FindKeeps ==
    ASSUME ListingConstants, SizesFit, Table, WalkInv, Find
    PROVE  WalkInv'
<1> DEFINE p == FirstPage(walk.page)
           L == Limit(walk.limit)
           b == Before
           to == SliceEnd(rows, L, b)
           total == walk.total
           products == {Found[i] : i \in 1 .. Len(Found)}
<1>1. /\ b \in Nat /\ p \in Nat /\ p > 0 /\ L \in Nat /\ L > 0 /\ total \in Nat
      /\ walk.limit \in Int /\ b = (p - 1) * L
  BY BeforeTyped DEF Table, Before
<1>2. /\ rows \in Seq(Nat) /\ Len(rows) \in Nat /\ rows' = rows
      /\ \A i, j \in 1 .. Len(rows) : rows[i] = rows[j] => i = j
  BY DEF Table, TableInv, Fresh, Find, tableVars
<1>3. /\ walk.pc = "find" /\ shown' = shown \cup products
      /\ twice' = (twice \/ shown \cap products # {}) /\ disturbed' = disturbed
      /\ walk' = [walk EXCEPT !.pages = MetaPages, !.page = p + 1,
                         !.pc = IF p >= MetaPages THEN "done" ELSE "count"]
  BY DEF Find
<1>4. /\ walk'.pc = (IF p >= MetaPages THEN "done" ELSE "count")
      /\ walk'.page = p + 1 /\ walk'.limit = walk.limit /\ walk'.start = walk.start
  <2> HIDE DEF MetaPages, p
  <2>1. QED BY <1>3 DEF Table, Walk
<1>5. WalkInv' \/ Calm
  <2> SUFFICES ASSUME ~ Calm PROVE WalkInv'
    OBVIOUS
  <2>1. ~ Calm' BY <1>3, <1>4, Zenon DEF Calm
  <2>2. ~ (walk'.limit <= MaxLimit /\ ~ disturbed') BY <2>1, Zenon DEF Calm
  <2>3. WalkShowsEachOnce' BY <2>2, Zenon DEF WalkShowsEachOnce
  <2>4. QED BY <2>1, <2>3, Zenon DEF WalkInv
<1> SUFFICES ASSUME Calm PROVE WalkInv'
  BY <1>5
<1>6. /\ b <= Len(rows) /\ shown = FirstRows(b) /\ ~ twice
      /\ total <= Len(rows) /\ walk.start \subseteq FirstRows(total)
      /\ walk.start \subseteq InRows
  BY <1>3, Zenon DEF WalkInv
<1>7. MetaPages = Pages(total, L)
  <2>1. MetaLimit(walk.limit) = L BY <1>1, LimitTyped DEF Calm
  <2>2. QED BY <2>1, Zenon DEF MetaPages
(* The offset fits an int, because the table does. *)
<1>8. b <= MaxInt
  <2>1. PICK n \in Sizes : Len(rows) <= n + writes BY DEF Table, TableInv
  <2>2. n \in Nat /\ writes \in Nat /\ writes <= MaxWrites /\ MaxWrites \in Nat
    BY DEF ListingConstants, Table, TableInv
  <2>3. n + MaxWrites <= MaxInt BY DEF SizesFit
  <2>4. MaxInt \in Nat BY MaxIntTyped DEF ListingConstants
  <2> DEFINE m == MaxInt
  <2>5. m \in Nat /\ n + MaxWrites <= m BY <2>3, <2>4
  <2> HIDE DEF m, b
  <2>6. b <= m BY <1>1, <1>2, <1>6, <2>1, <2>2, <2>5
  <2>7. QED BY <2>6 DEF m
<1>9. Found = Slice(rows, L, b)
  <2>1. Wrapped(b) = b BY <1>1, <1>8, MaxIntTyped, Unwrapped DEF ListingConstants
  <2>2. Offset(p, L) = Wrapped(b) BY Zenon DEF Offset, Before
  <2>3. QED BY <2>1, <2>2, Zenon DEF Found
<1>10. /\ to \in Nat /\ b <= to /\ to <= Len(rows)
       /\ to = b + L \/ to = Len(rows)
       /\ b + L <= Len(rows) => to = b + L
  <2>1. b \in Nat /\ L \in Nat /\ Len(rows) \in Nat /\ b <= Len(rows)
    BY <1>1, <1>2, <1>6
  <2> HIDE DEF b, L
  <2>2. QED BY <2>1 DEF SliceEnd
<1>11. products = {rows[i] : i \in b + 1 .. to}
  <2>1. b \in Nat /\ L \in Nat /\ b <= Len(rows) BY <1>1, <1>6
  <2> HIDE DEF b, L
  <2>2. LET page == Slice(rows, L, b)
        IN  {page[i] : i \in 1 .. Len(page)} = {rows[i] : i \in b + 1 .. to}
    BY <1>2, <2>1, SliceRows
  <2> HIDE DEF to
  <2>3. QED BY <1>9, <2>2, Zenon
<1> HIDE DEF products, to, b, L, p, total
<1>12. shown' = FirstRows(to)
  <2>1. 1 .. to = (1 .. b) \cup (b + 1 .. to) BY <1>1, <1>10
  <2> DEFINE B == FirstRows(b)
             C == {rows[i] : i \in b + 1 .. to}
  <2>2. \A x \in B \cup C : x \in FirstRows(to) BY <2>1, Zenon DEF FirstRows
  <2>3. \A x \in FirstRows(to) : x \in B \cup C BY <2>1, Zenon DEF FirstRows
  <2>4. FirstRows(to) = B \cup C BY <2>2, <2>3, Zenon
  <2>5. QED BY <1>3, <1>6, <1>11, <2>4, Zenon
<1>13. ~ twice'
  <2> SUFFICES ASSUME shown \cap products # {} PROVE FALSE
    BY <1>3, <1>6, Zenon
  <2>1. PICK x \in FirstRows(b) : x \in {rows[i] : i \in b + 1 .. to}
    BY <1>6, <1>11, Zenon
  <2>2. PICK i \in 1 .. b : x = rows[i] BY Zenon DEF FirstRows
  <2>3. PICK j \in b + 1 .. to : x = rows[j] BY <2>1, Zenon
  <2>4. i \in 1 .. Len(rows) /\ j \in 1 .. Len(rows) /\ i # j BY <1>1, <1>2, <1>10
  <2>5. QED BY <1>2, <2>2, <2>3, <2>4
(* Another page follows: this one was full. *)
<1>14. CASE ~ (p >= MetaPages)
  <2>1. p < Pages(total, L)
    <3>1. Pages(total, L) \in Nat BY <1>1, PagesIsCeiling
    <3>2. QED BY <1>1, <1>7, <1>14, <3>1
  <2>2. p * L < total
    <3>1. p * L < total \/ p = 0 BY <1>1, <2>1, PagesIsCeiling
    <3>2. QED BY <1>1, <3>1
  <2>3. p * L = b + L
    <3>1. (p - 1) * L + L = p * L BY <1>1
    <3>2. QED BY <1>1, <3>1
  <2>4. to = p * L BY <1>1, <1>2, <1>6, <1>10, <2>2, <2>3
  <2>5. walk'.pc = "count" BY <1>4, <1>14, Zenon
  <2>6. Before' = p * L
    <3>1. FirstPage(walk'.page) = p + 1 BY <1>1, <1>4 DEF FirstPage
    <3>2. Limit(walk'.limit) = L BY <1>4 DEF L
    <3>3. Before' = (FirstPage(walk'.page) - 1) * Limit(walk'.limit) BY Zenon DEF Before
    <3> DEFINE following == FirstPage(walk'.page)
    <3>4. following = p + 1 BY <3>1
    <3> HIDE DEF following
    <3>5. following - 1 = p BY <1>1, <3>4
    <3>6. QED BY <3>2, <3>3, <3>5, Zenon DEF following
  <2>7. FirstRows(Before)' = FirstRows(to) /\ InRows' = InRows
    BY <1>2, <2>4, <2>6, Zenon DEF FirstRows, InRows
  <2>8. (Before <= Len(rows))' BY <1>2, <1>10, <2>4, <2>6
  <2>9. shown' = FirstRows(Before)' BY <1>12, <2>7, Zenon
  <2>10. walk'.start \subseteq InRows' BY <1>4, <1>6, <2>7, Zenon
  <2>11. walk'.pc # "find" /\ walk'.pc # "done" BY <2>5
  <2>12. QED BY <1>13, <2>8, <2>9, <2>10, <2>11, Zenon DEF WalkInv, WalkShowsEachOnce
(* The last page: the rows that were counted end on it. *)
<1>15. CASE p >= MetaPages
  <2>1. p * L >= total BY <1>1, <1>7, <1>15, PagesIsCeiling
  <2>2. p * L = b + L
    <3>1. (p - 1) * L + L = p * L BY <1>1
    <3>2. QED BY <1>1, <3>1
  <2>3. total <= to BY <1>1, <1>2, <1>6, <1>10, <2>1, <2>2
  <2>4. walk.start \subseteq FirstRows(to)
    <3>1. 1 .. total \subseteq 1 .. to BY <1>1, <1>10, <2>3
    <3>2. FirstRows(total) \subseteq FirstRows(to) BY <3>1, Zenon DEF FirstRows
    <3>3. QED BY <1>6, <3>2, Zenon
  <2>5. walk'.start \subseteq shown' BY <1>4, <1>12, <2>4, Zenon
  <2>6. walk'.pc = "done" BY <1>4, <1>15, Zenon
  <2>7. walk'.pc # "find" /\ walk'.pc # "count" BY <2>6
  <2>8. QED BY <1>13, <2>5, <2>7, Zenon DEF WalkInv, WalkShowsEachOnce
<1>16. QED BY <1>14, <1>15, Zenon

LEMMA WalkStep ==
    ASSUME ListingConstants, SizesFit, Table, WalkInv, [ListingNext]_listingVars
    PROVE  WalkInv'
<1> rows \in Seq(Nat) /\ Len(rows) \in Nat BY DEF Table, TableInv
<1>1. ASSUME NEW limit \in Limits, Begin(limit) PROVE WalkInv'
  <2>1. /\ rows' = rows /\ shown' = {} /\ twice' = FALSE /\ disturbed' = FALSE
        /\ walk' = [Idle EXCEPT !.pc = "count", !.limit = limit, !.start = InRows]
    BY <1>1 DEF Begin, tableVars
  <2>2. /\ walk'.pc = "count" /\ walk'.start = InRows /\ walk'.page = 0
        /\ walk'.limit = limit
    <3> HIDE DEF InRows
    <3>1. QED BY <2>1 DEF Idle
  <2>3. Before' = 0
    <3>1. FirstPage(walk'.page) - 1 = 0 BY <2>2 DEF FirstPage
    <3>2. Limit(walk'.limit) \in Nat BY <2>2, LimitTyped DEF ListingConstants
    <3>3. (FirstPage(walk'.page) - 1) * Limit(walk'.limit) = 0 BY <3>1, <3>2
    <3>4. QED BY <3>3, Zenon DEF Before
  <2>4. FirstRows(Before)' = {}
    <3>1. FirstRows(Before)' = {rows'[i] : i \in 1 .. 0} BY <2>3, Zenon DEF FirstRows
    <3>2. 1 .. 0 = {} OBVIOUS
    <3>3. QED BY <3>1, <3>2
  <2>5. Before' <= Len(rows') BY <2>1, <2>3
  <2>6. InRows' = InRows BY <2>1, Zenon DEF InRows
  <2>7. walk'.start \subseteq InRows' BY <2>2, <2>6
  <2>8. walk'.pc # "find" /\ walk'.pc # "done" BY <2>2
  <2>9. QED BY <2>1, <2>4, <2>5, <2>7, <2>8, Zenon DEF WalkInv, WalkShowsEachOnce
<1>2. CASE Count
  <2>1. /\ rows' = rows /\ shown' = shown /\ twice' = twice /\ disturbed' = disturbed
        /\ walk.pc = "count" /\ walk' = [walk EXCEPT !.pc = "find", !.total = Len(rows)]
    BY <1>2 DEF Count, tableVars
  <2>2. /\ walk'.pc = "find" /\ walk'.total = Len(rows) /\ walk'.start = walk.start
        /\ walk'.page = walk.page /\ walk'.limit = walk.limit
    BY <2>1 DEF Table, Walk
  <2>3. Before' = Before /\ (Calm' <=> Calm) BY <2>1, <2>2, Zenon DEF Before, Calm
  <2>4. InRows' = InRows /\ FirstRows(Before)' = FirstRows(Before)
    BY <2>1, <2>3, Zenon DEF InRows, FirstRows
  <2>5. FirstRows(walk.total)' = InRows BY <2>1, <2>2, Zenon DEF InRows, FirstRows
  <2>6. walk'.total <= Len(rows') BY <2>1, <2>2
  <2>7. Calm => /\ Before <= Len(rows) /\ shown = FirstRows(Before) /\ ~ twice
                /\ walk.start \subseteq InRows
    BY <2>1, Zenon DEF WalkInv
  <2>8. walk'.pc # "done" BY <2>2
  <2>9. QED BY <2>1, <2>2, <2>3, <2>4, <2>5, <2>6, <2>7, <2>8, Zenon
               DEF WalkInv, WalkShowsEachOnce
<1>3. CASE Find BY <1>3, FindKeeps
<1>4. CASE AddProduct
  <2>1. walk' = walk /\ shown' = shown /\ twice' = twice
    BY <1>4 DEF AddProduct, Writes
  <2>2. CASE disturbed'
    BY <2>2, Zenon DEF WalkInv, Calm, WalkShowsEachOnce
  <2>3. CASE ~ disturbed'
    <3>1. Len(rows') = Len(rows) + 1 /\ \A i \in 1 .. Len(rows) : rows'[i] = rows[i]
      BY <1>4, <2>3, AddKeeps DEF Table
    <3>2. ~ disturbed BY <1>4, <2>3, Zenon DEF AddProduct
    <3>3. Calm' <=> Calm BY <2>1, <2>3, <3>2, Zenon DEF Calm
    <3>4. Before' = Before BY <2>1, Zenon DEF Before
    <3>5. Before \in Nat /\ walk.total \in Nat BY BeforeTyped DEF Table
    <3>6. ASSUME NEW n \in Nat, n <= Len(rows)
          PROVE  n <= Len(rows') /\ {rows'[i] : i \in 1 .. n} = FirstRows(n)
      <4>1. FirstRows(n)' = FirstRows(n) BY <3>1, <3>6, FirstRowsStay
      <4>2. QED BY <3>1, <3>6, <4>1 DEF FirstRows
    <3>7. InRows \subseteq InRows'
      <4>1. InRows = FirstRows(Len(rows)) BY Zenon DEF InRows, FirstRows
      <4>2. {rows'[i] : i \in 1 .. Len(rows)} = InRows BY <3>6, <4>1
      <4>3. 1 .. Len(rows) \subseteq 1 .. Len(rows') BY <3>1
      <4>4. {rows'[i] : i \in 1 .. Len(rows)} \subseteq InRows' BY <4>3, Zenon DEF InRows
      <4>5. QED BY <4>2, <4>4, Zenon
    <3>8. Before <= Len(rows) =>
              (Before <= Len(rows))' /\ FirstRows(Before)' = FirstRows(Before)
      BY <3>4, <3>5, <3>6 DEF FirstRows
    <3>9. walk.total <= Len(rows) =>
              walk'.total <= Len(rows') /\ FirstRows(walk.total)' = FirstRows(walk.total)
      BY <2>1, <3>5, <3>6 DEF FirstRows
    <3>10. WalkShowsEachOnce' BY <2>1, <3>2, Zenon DEF WalkInv, WalkShowsEachOnce
    <3>11. QED BY <2>1, <3>3, <3>7, <3>8, <3>9, <3>10, Zenon DEF WalkInv
  <2>4. QED BY <2>2, <2>3
<1>5. ASSUME NEW k \in 1 .. Len(rows), Rewrite(k) PROVE WalkInv'
  <2>1. disturbed' BY <1>5 DEF Rewrite
  <2>2. QED BY <2>1, Zenon DEF WalkInv, Calm, WalkShowsEachOnce
<1>6. CASE UNCHANGED listingVars
  BY <1>6 DEF listingVars, WalkInv, Calm, Before, FirstRows, InRows, WalkShowsEachOnce
<1>7. QED BY <1>1, <1>2, <1>3, <1>4, <1>5, <1>6 DEF ListingNext

(* Whoever turns the pages from the first to the last, with a limit that   *)
(* the repository accepts, is shown each product that was listed when it   *)
(* began, and none twice, although every page is counted and read by two   *)
(* statements of their own and products are added meanwhile: for tables    *)
(* and page sizes of any size (GetProducts, FindActiveProducts).           *)
THEOREM WalkComplete == ListingSpec => []WalkShowsEachOnce
<1> ListingConstants /\ SizesFit BY ListingAssumption
<1>1. ListingInit => WalkInv
  BY DEF ListingInit, Idle, WalkInv, WalkShowsEachOnce
<1>2. WalkInv => WalkShowsEachOnce BY DEF WalkInv
<1>3. QED BY <1>1, <1>2, TableInit, TableStep, WalkStep, PTL DEF ListingSpec
=============================================================================

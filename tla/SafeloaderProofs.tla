-------------------------- MODULE SafeloaderProofs --------------------------
(***************************************************************************)
(* Proofs, for any table of boards whose partitions are in order and files *)
(* of any sizes, that tplink-safeloader's images hold what went into them. *)
(***************************************************************************)
EXTENDS Safeloader, WellFoundedInduction, SequenceTheorems, TLAPS

\* Byte k is one of the bytes of extent x.
Covers(x, k) == x.lo <= k /\ k < x.hi

\* Byte at of something; one byte of a fill is like another.
Origin(of, at) == <<of, IF of \in Fills THEN 0 ELSE at>>

\* Where extent x says that byte k comes from.
ByteOf(x, k) == Origin(x.of, k + x.shift)

\* The extents agree where they overlap.
Consistent(c) ==
    \A x, y \in c.extents : \A k \in Nat :
        Covers(x, k) /\ Covers(y, k) => ByteOf(x, k) = ByteOf(y, k)

\* Contents of which each byte has one origin.
Proper(c) ==
    /\ c \in Content
    /\ \A x \in c.extents : x.hi <= c.size
    /\ \A k \in 0 .. c.size - 1 : \E x \in c.extents : Covers(x, k)
    /\ Consistent(c)

\* Byte k of contents.
Byte(c, k) == ByteOf(CHOOSE x \in c.extents : Covers(x, k), k)

\* The fields of an extent.
LEMMA ExtentIs ==
    ASSUME NEW x \in Extent
    PROVE  x.of \in Things /\ x.lo \in Nat /\ x.hi \in Nat /\ x.shift \in Int
  BY DEF Extent

\* The fields of contents.
LEMMA ContentIs ==
    ASSUME NEW c, Proper(c)
    PROVE  /\ c.size \in Nat
           /\ \A x \in c.extents : x \in Extent /\ x.hi <= c.size
           /\ c = [size |-> c.size, extents |-> c.extents]
  BY DEF Proper, Content

\* Any extent that covers a byte says what it is.
LEMMA ByteIs ==
    ASSUME NEW c, Proper(c), NEW x \in c.extents, NEW k \in Nat, Covers(x, k)
    PROVE  Byte(c, k) = ByteOf(x, k)
<1> DEFINE y == CHOOSE z \in c.extents : Covers(z, k)
<1>1. y \in c.extents /\ Covers(y, k)
  OBVIOUS
<1>2. Consistent(c)
  BY DEF Proper
<1> HIDE DEF y
<1>3. ByteOf(y, k) = ByteOf(x, k)
  BY <1>1, <1>2 DEF Consistent
<1>. QED BY <1>3 DEF Byte, y

\* Every byte has an extent.
LEMMA ByteHasExtent ==
    ASSUME NEW c, Proper(c), NEW k \in 0 .. c.size - 1
    PROVE  \E x \in c.extents : Covers(x, k) /\ Byte(c, k) = ByteOf(x, k)
<1>1. PICK x \in c.extents : Covers(x, k)
  BY DEF Proper
<1>2. k \in Nat
  BY ContentIs
<1>. QED BY <1>1, <1>2, ByteIs

\* Moved bytes are the bytes they were.
LEMMA MoveIs ==
    ASSUME NEW x \in Extent, NEW d \in Int, x.lo + d >= 0, x.hi + d >= 0
    PROVE  /\ MoveUp(x, d) \in Extent
           /\ MoveUp(x, d).hi = x.hi + d
           /\ \A k \in Int : Covers(MoveUp(x, d), k) <=> Covers(x, k - d)
           /\ \A k \in Int : ByteOf(MoveUp(x, d), k) = ByteOf(x, k - d)
<1> DEFINE y == MoveUp(x, d)
<1>1. y = [of |-> x.of, lo |-> x.lo + d, hi |-> x.hi + d, shift |-> x.shift - d]
  BY DEF MoveUp
<1>2. x.of \in Things /\ x.lo \in Nat /\ x.hi \in Nat /\ x.shift \in Int
  BY ExtentIs
<1>3. y.of = x.of /\ y.lo = x.lo + d /\ y.hi = x.hi + d /\ y.shift = x.shift - d
  BY <1>1
<1>4. y \in Extent
  BY <1>1, <1>2 DEF Extent
<1> HIDE DEF y
<1>5. \A k \in Int : Covers(y, k) <=> Covers(x, k - d)
  BY <1>2, <1>3 DEF Covers
<1>6. ASSUME NEW k \in Int PROVE ByteOf(y, k) = ByteOf(x, k - d)
  <2>1. k + y.shift = (k - d) + x.shift
    BY <1>2, <1>3
  <2>. QED BY <2>1, <1>3 DEF ByteOf
<1>. QED BY <1>3, <1>4, <1>5, <1>6 DEF y

\* The larger of two numbers.
LEMMA MaxIs ==
    ASSUME NEW a \in Int, NEW b \in Int
    PROVE  Max({a, b}) = IF a >= b THEN a ELSE b
  BY DEF Max

\* The same for the smaller.
LEMMA MinIs ==
    ASSUME NEW a \in Int, NEW b \in Int
    PROVE  Min({a, b}) = IF a <= b THEN a ELSE b
  BY DEF Min

\* Origins that are the same are the same byte of the same thing.
LEMMA OriginIs ==
    ASSUME NEW of, NEW other, NEW k \in Int, NEW j \in Int, Origin(of, k) = Origin(other, j)
    PROVE  of = other /\ (of \in Fills \/ k = j)
  BY DEF Origin

\* Extents that have the bytes they share in common agree.
LEMMA AgreeIs ==
    ASSUME NEW x \in Extent, NEW y \in Extent,
           \A k \in Nat : Covers(x, k) /\ Covers(y, k) => ByteOf(x, k) = ByteOf(y, k)
    PROVE  Agree(x, y)
<1> DEFINE k == Max({x.lo, y.lo})
<1>1. SUFFICES ASSUME k < Min({x.hi, y.hi})
               PROVE  x.of = y.of /\ (x.of \in Fills \/ x.shift = y.shift)
  BY DEF Agree
<1>2. /\ x.lo \in Nat /\ x.hi \in Nat /\ x.shift \in Int
      /\ y.lo \in Nat /\ y.hi \in Nat /\ y.shift \in Int
  BY ExtentIs
<1>3. k \in Nat /\ x.lo <= k /\ y.lo <= k
  BY <1>2, MaxIs
<1> HIDE DEF k
<1>4. k < x.hi /\ k < y.hi
  BY <1>1, <1>2, <1>3, MinIs
<1>5. ByteOf(x, k) = ByteOf(y, k)
  BY <1>3, <1>4 DEF Covers
<1>6. k + x.shift \in Int /\ k + y.shift \in Int
  BY <1>2, <1>3
<1>7. x.of = y.of /\ (x.of \in Fills \/ k + x.shift = k + y.shift)
  BY <1>5, <1>6, OriginIs DEF ByteOf
<1>. QED BY <1>2, <1>3, <1>7

\* Proper contents are whole.
LEMMA ProperIsWhole ==
    ASSUME NEW c, Proper(c)
    PROVE  c \in Content /\ Whole(c)
<1>1. c \in Content /\ \A x \in c.extents : x.hi <= c.size
  BY DEF Proper
<1>2. ASSUME NEW k \in {0} \cup {x.hi : x \in c.extents}, k < c.size
      PROVE  \E x \in c.extents : x.lo <= k /\ k < x.hi
  <2>1. k \in Nat /\ c.size \in Nat
    BY ContentIs, ExtentIs
  <2>2. k \in 0 .. c.size - 1
    BY <1>2, <2>1
  <2>. QED BY <2>2 DEF Proper, Covers
<1>3. ASSUME NEW x \in c.extents, NEW y \in c.extents PROVE Agree(x, y)
  <2>1. x \in Extent /\ y \in Extent
    BY ContentIs
  <2>2. \A k \in Nat : Covers(x, k) /\ Covers(y, k) => ByteOf(x, k) = ByteOf(y, k)
    BY DEF Proper, Consistent
  <2>. QED BY <2>1, <2>2, AgreeIs
<1>. QED BY <1>1, <1>2, <1>3 DEF Whole

\* Contents of one size with the same bytes are the same.
LEMMA SameIs ==
    ASSUME NEW c, NEW d, Proper(c), Proper(d), c.size = d.size,
           \A k \in 0 .. c.size - 1 : Byte(c, k) = Byte(d, k)
    PROVE  Same(c, d)
<1>1. SUFFICES ASSUME NEW x \in c.extents, NEW y \in d.extents
               PROVE  Agree(x, y)
  BY DEF Same
<1>2. x \in Extent /\ y \in Extent /\ x.hi <= c.size /\ c.size \in Nat
  BY ContentIs
<1>3. ASSUME NEW k \in Nat, Covers(x, k), Covers(y, k)
      PROVE  ByteOf(x, k) = ByteOf(y, k)
  <2>1. k \in 0 .. c.size - 1
    BY <1>2, <1>3, ExtentIs DEF Covers
  <2>2. Byte(c, k) = ByteOf(x, k) /\ Byte(d, k) = ByteOf(y, k)
    BY <1>3, ByteIs
  <2>. QED BY <2>1, <2>2
<1>. QED BY <1>2, <1>3, AgreeIs

-----------------------------------------------------------------------------
(* What the operations on contents do to their bytes. *)

\* n bytes of something are those bytes.
LEMMA BytesFromIs ==
    ASSUME NEW of \in Things, NEW at \in Int, NEW n \in Nat
    PROVE  /\ Proper(BytesFrom(of, at, n))
           /\ BytesFrom(of, at, n).size = n
           /\ \A k \in 0 .. n - 1 : Byte(BytesFrom(of, at, n), k) = Origin(of, k + at)
<1> DEFINE x == [of |-> of, lo |-> 0, hi |-> n, shift |-> at]
           c == BytesFrom(of, at, n)
<1>1. c = [size |-> n, extents |-> {x}]
  BY DEF BytesFrom
<1>2. x \in Extent /\ x.of = of /\ x.lo = 0 /\ x.hi = n /\ x.shift = at
  BY DEF Extent
<1> HIDE DEF x, c
<1>3. c.size = n /\ c.extents = {x}
  BY <1>1
<1>4. c \in Content
  BY <1>1, <1>2 DEF Content
<1>5. \A k \in 0 .. n - 1 : Covers(x, k)
  BY <1>2 DEF Covers
<1>6. Proper(c)
  <2>1. Consistent(c)
    BY <1>3 DEF Consistent
  <2>2. \A y \in c.extents : y.hi <= c.size
    BY <1>2, <1>3
  <2>3. \A k \in 0 .. c.size - 1 : \E y \in c.extents : Covers(y, k)
    BY <1>3, <1>5
  <2>. QED BY <1>4, <2>1, <2>2, <2>3 DEF Proper
<1>7. ASSUME NEW k \in 0 .. n - 1 PROVE Byte(c, k) = Origin(of, k + at)
  <2>1. Byte(c, k) = ByteOf(x, k)
    BY <1>3, <1>5, <1>6, ByteIs
  <2>. QED BY <1>2, <2>1 DEF ByteOf
<1>. QED BY <1>3, <1>6, <1>7 DEF c

\* The same for the bytes from the beginning.
LEMMA BytesIs ==
    ASSUME NEW of \in Things, NEW n \in Nat
    PROVE  /\ Proper(Bytes(of, n))
           /\ Bytes(of, n).size = n
           /\ \A k \in 0 .. n - 1 : Byte(Bytes(of, n), k) = Origin(of, k)
<1>1. \A k \in 0 .. n - 1 : k + 0 = k
  OBVIOUS
<1>. QED BY <1>1, BytesFromIs DEF Bytes

\* Nothing has no bytes.
LEMMA EmptyIs == Proper(Empty) /\ Empty.size = 0
<1>1. Empty.size = 0 /\ Empty.extents = {}
  BY DEF Empty
<1>2. Empty \in Content
  BY DEF Empty, Content
<1>. QED BY <1>1, <1>2 DEF Proper, Consistent

\* One after the other.
LEMMA CatIs ==
    ASSUME NEW c, NEW d, Proper(c), Proper(d)
    PROVE  /\ Proper(Cat(c, d))
           /\ Cat(c, d).size = c.size + d.size
           /\ \A k \in 0 .. c.size - 1 : Byte(Cat(c, d), k) = Byte(c, k)
           /\ \A k \in 0 .. d.size - 1 : Byte(Cat(c, d), c.size + k) = Byte(d, k)
<1> DEFINE n == c.size
           moved == {MoveUp(x, n) : x \in d.extents}
           e == Cat(c, d)
<1>1. e = [size |-> n + d.size, extents |-> c.extents \cup moved]
  BY DEF Cat
<1>2. n \in Nat /\ d.size \in Nat
  BY ContentIs
<1> HIDE DEF e, n
<1>3. e.size = n + d.size /\ e.extents = c.extents \cup moved
  BY <1>1
<1>4. ASSUME NEW x \in c.extents
      PROVE  /\ x \in Extent /\ x \in e.extents /\ x.hi <= n /\ x.hi <= e.size
             /\ \A k \in Nat : Covers(x, k) => k < n
  BY <1>2, <1>3, ContentIs, ExtentIs DEF n, Covers
<1>5. ASSUME NEW x \in d.extents
      PROVE  /\ MoveUp(x, n) \in Extent /\ MoveUp(x, n) \in e.extents
             /\ MoveUp(x, n).hi <= e.size
             /\ \A k \in Nat : Covers(MoveUp(x, n), k) => n <= k /\ Covers(x, k - n)
             /\ \A k \in Nat : Covers(x, k) => Covers(MoveUp(x, n), n + k)
             /\ \A k \in Nat : n <= k => ByteOf(MoveUp(x, n), k) = ByteOf(x, k - n)
  <2>1. x \in Extent /\ x.lo \in Nat /\ x.hi \in Nat /\ x.hi <= d.size
    BY ContentIs, ExtentIs
  <2>2. x.lo + n >= 0 /\ x.hi + n >= 0
    BY <1>2, <2>1
  <2>3. /\ MoveUp(x, n) \in Extent /\ MoveUp(x, n).hi = x.hi + n
        /\ \A k \in Int : Covers(MoveUp(x, n), k) <=> Covers(x, k - n)
        /\ \A k \in Int : ByteOf(MoveUp(x, n), k) = ByteOf(x, k - n)
    BY <1>2, <2>1, <2>2, MoveIs
  <2>4. MoveUp(x, n) \in e.extents
    BY <1>3
  <2>5. MoveUp(x, n).hi <= e.size
    BY <1>2, <1>3, <2>1, <2>3
  <2>6. ASSUME NEW k \in Nat, Covers(MoveUp(x, n), k) PROVE n <= k /\ Covers(x, k - n)
    <3>1. Covers(x, k - n)
      BY <1>2, <2>3, <2>6
    <3>. QED BY <3>1, <2>1, <1>2 DEF Covers
  <2>7. ASSUME NEW k \in Nat, Covers(x, k) PROVE Covers(MoveUp(x, n), n + k)
    <3>1. (n + k) - n = k /\ n + k \in Int
      BY <1>2
    <3>. QED BY <2>3, <2>7, <3>1
  <2>8. \A k \in Nat : n <= k => ByteOf(MoveUp(x, n), k) = ByteOf(x, k - n)
    BY <1>2, <2>3
  <2>. QED BY <2>3, <2>4, <2>5, <2>6, <2>7, <2>8
<1>6. \A z \in e.extents : z \in c.extents \/ \E x \in d.extents : z = MoveUp(x, n)
  BY <1>3
<1>7. e \in Content
  <2>1. e.extents \subseteq Extent
    BY <1>4, <1>5, <1>6
  <2>2. e.size \in Nat
    BY <1>2, <1>3
  <2>. QED BY <1>1, <1>3, <2>1, <2>2 DEF Content
<1>8. \A z \in e.extents : z.hi <= e.size
  BY <1>4, <1>5, <1>6
<1>9. ASSUME NEW k \in 0 .. e.size - 1
      PROVE  \E z \in e.extents : Covers(z, k)
  <2>1. CASE k < n
    <3>1. PICK x \in c.extents : Covers(x, k)
      BY <1>2, <2>1 DEF Proper, n
    <3>. QED BY <3>1, <1>4
  <2>2. CASE k >= n
    <3>1. k - n \in 0 .. d.size - 1
      BY <1>2, <1>3, <2>2
    <3>2. PICK x \in d.extents : Covers(x, k - n)
      BY <3>1 DEF Proper
    <3>3. k - n \in Nat /\ n + (k - n) = k
      BY <3>1, <1>2
    <3>. QED BY <3>2, <3>3, <1>5
  <2>. QED BY <1>2, <1>3, <2>1, <2>2
<1>10. Consistent(e)
  <2>1. SUFFICES ASSUME NEW y \in e.extents, NEW z \in e.extents, NEW k \in Nat,
                        Covers(y, k), Covers(z, k)
                 PROVE  ByteOf(y, k) = ByteOf(z, k)
    BY DEF Consistent
  <2>2. CASE y \in c.extents /\ z \in c.extents
    BY <2>1, <2>2 DEF Proper, Consistent
  <2>3. CASE y \in c.extents /\ \E x \in d.extents : z = MoveUp(x, n)
    BY <2>1, <2>3, <1>2, <1>4, <1>5
  <2>4. CASE z \in c.extents /\ \E x \in d.extents : y = MoveUp(x, n)
    BY <2>1, <2>4, <1>2, <1>4, <1>5
  <2>5. ASSUME NEW x \in d.extents, NEW w \in d.extents, y = MoveUp(x, n), z = MoveUp(w, n)
        PROVE  ByteOf(y, k) = ByteOf(z, k)
    <3>1. n <= k /\ Covers(x, k - n) /\ Covers(w, k - n)
      BY <2>1, <2>5, <1>5
    <3>2. k - n \in Nat
      BY <3>1, <1>2
    <3>3. ByteOf(x, k - n) = ByteOf(w, k - n)
      BY <3>1, <3>2 DEF Proper, Consistent
    <3>4. ByteOf(y, k) = ByteOf(x, k - n) /\ ByteOf(z, k) = ByteOf(w, k - n)
      BY <3>1, <2>5, <1>5
    <3>. QED BY <3>3, <3>4
  <2>. QED BY <1>6, <2>2, <2>3, <2>4, <2>5
<1>11. Proper(e)
  BY <1>7, <1>8, <1>9, <1>10 DEF Proper
<1>12. ASSUME NEW k \in 0 .. n - 1 PROVE Byte(e, k) = Byte(c, k)
  <2>1. PICK x \in c.extents : Covers(x, k) /\ Byte(c, k) = ByteOf(x, k)
    BY ByteHasExtent DEF n
  <2>2. k \in Nat /\ x \in e.extents
    BY <1>2, <1>4
  <2>3. Byte(e, k) = ByteOf(x, k)
    BY <1>11, <2>1, <2>2, ByteIs
  <2>. QED BY <2>1, <2>3
<1>13. ASSUME NEW k \in 0 .. d.size - 1 PROVE Byte(e, n + k) = Byte(d, k)
  <2>1. PICK x \in d.extents : Covers(x, k) /\ Byte(d, k) = ByteOf(x, k)
    BY ByteHasExtent
  <2>2. k \in Nat /\ n + k \in Nat /\ n <= n + k /\ (n + k) - n = k
    BY <1>2
  <2>3. /\ MoveUp(x, n) \in e.extents /\ Covers(MoveUp(x, n), n + k)
        /\ ByteOf(MoveUp(x, n), n + k) = ByteOf(x, k)
    BY <1>5, <2>1, <2>2
  <2>4. Byte(e, n + k) = ByteOf(MoveUp(x, n), n + k)
    BY <1>11, <2>2, <2>3, ByteIs
  <2>. QED BY <2>1, <2>3, <2>4
<1>. QED BY <1>3, <1>11, <1>12, <1>13 DEF e, n

\* A clipped extent covers what is left of it.
LEMMA ClipIs ==
    ASSUME NEW x \in Extent, NEW from \in Nat, NEW to \in Nat, x.lo < to, from < x.hi, from <= to
    PROVE  /\ Clip(x, from, to) \in Extent
           /\ from <= Clip(x, from, to).lo /\ from <= Clip(x, from, to).hi
           /\ Clip(x, from, to).hi <= x.hi /\ Clip(x, from, to).hi <= to
           /\ \A k \in Int : Covers(Clip(x, from, to), k) <=> Covers(x, k) /\ from <= k /\ k < to
           /\ \A k \in Int : ByteOf(Clip(x, from, to), k) = ByteOf(x, k)
<1> DEFINE y == Clip(x, from, to)
<1>1. x.of \in Things /\ x.lo \in Nat /\ x.hi \in Nat /\ x.shift \in Int
  BY ExtentIs
<1>2. y = [of |-> x.of, lo |-> Max({x.lo, from}), hi |-> Min({x.hi, to}), shift |-> x.shift]
  BY DEF Clip
<1>3. /\ y.of = x.of /\ y.shift = x.shift
      /\ y.lo = (IF x.lo >= from THEN x.lo ELSE from)
      /\ y.hi = (IF x.hi <= to THEN x.hi ELSE to)
  BY <1>1, <1>2, MaxIs, MinIs
<1>4. y \in Extent
  <2>1. Max({x.lo, from}) \in Nat /\ Min({x.hi, to}) \in Nat
    BY <1>1, MaxIs, MinIs
  <2>. QED BY <1>1, <1>2, <2>1 DEF Extent
<1> HIDE DEF y
<1>5. from <= y.lo /\ from <= y.hi /\ y.hi <= x.hi /\ y.hi <= to
  BY <1>1, <1>3
<1>6. \A k \in Int : Covers(y, k) <=> Covers(x, k) /\ from <= k /\ k < to
  BY <1>1, <1>3 DEF Covers
<1>7. \A k \in Int : ByteOf(y, k) = ByteOf(x, k)
  BY <1>3 DEF ByteOf
<1>. QED BY <1>4, <1>5, <1>6, <1>7 DEF y

\* A slice has the bytes from its offset on, as many of them as there are.
LEMMA SliceIs ==
    ASSUME NEW c, Proper(c), NEW at \in Nat, NEW n \in Nat
    PROVE  /\ Proper(Slice(c, at, n))
           /\ Slice(c, at, n).size = IF c.size <= at THEN 0
                                     ELSE IF n <= c.size - at THEN n ELSE c.size - at
           /\ \A k \in 0 .. Slice(c, at, n).size - 1 : Byte(Slice(c, at, n), k) = Byte(c, at + k)
<1> DEFINE met == {y \in c.extents : y.lo < at + n /\ at < y.hi}
           piece(x) == MoveUp(Clip(x, at, at + n), 0 - at)
           e == Slice(c, at, n)
           m == Max({0, Min({n, c.size - at})})
<1>1. e = [size |-> m, extents |-> {piece(x) : x \in met}]
  BY DEF Slice
<1>2. c.size \in Nat /\ at + n \in Nat /\ 0 - at \in Int /\ at <= at + n
  BY ContentIs
<1>3. m = IF c.size <= at THEN 0 ELSE IF n <= c.size - at THEN n ELSE c.size - at
  <2>1. Min({n, c.size - at}) = IF n <= c.size - at THEN n ELSE c.size - at
    BY <1>2, MinIs
  <2>2. Min({n, c.size - at}) \in Int
    BY <1>2, <2>1
  <2>3. m = IF 0 >= Min({n, c.size - at}) THEN 0 ELSE Min({n, c.size - at})
    BY <2>2, MaxIs
  <2>. QED BY <1>2, <2>1, <2>3
<1> HIDE DEF e, m
<1>4. e.size = m /\ e.extents = {piece(x) : x \in met} /\ m \in Nat
  BY <1>1, <1>2, <1>3
<1>5. ASSUME NEW x \in met
      PROVE  /\ piece(x) \in Extent /\ piece(x).hi <= m
             /\ \A k \in Nat : Covers(piece(x), k) <=> Covers(x, at + k) /\ k < n
             /\ \A k \in Nat : ByteOf(piece(x), k) = ByteOf(x, at + k)
  <2>1. x \in Extent /\ x.hi \in Nat /\ x.hi <= c.size /\ x.lo < at + n /\ at < x.hi
    BY ContentIs, ExtentIs
  <2> DEFINE y == Clip(x, at, at + n)
  <2>2. /\ y \in Extent /\ at <= y.lo /\ at <= y.hi /\ y.hi <= x.hi /\ y.hi <= at + n
        /\ \A k \in Int : Covers(y, k) <=> Covers(x, k) /\ at <= k /\ k < at + n
        /\ \A k \in Int : ByteOf(y, k) = ByteOf(x, k)
    BY <1>2, <2>1, ClipIs
  <2> HIDE DEF y
  <2>3. y.lo \in Nat /\ y.hi \in Nat /\ y.lo + (0 - at) >= 0 /\ y.hi + (0 - at) >= 0
    BY <2>2, ExtentIs
  <2>4. /\ MoveUp(y, 0 - at) \in Extent
        /\ MoveUp(y, 0 - at).hi = y.hi + (0 - at)
        /\ \A k \in Int : Covers(MoveUp(y, 0 - at), k) <=> Covers(y, k - (0 - at))
        /\ \A k \in Int : ByteOf(MoveUp(y, 0 - at), k) = ByteOf(y, k - (0 - at))
    BY <1>2, <2>2, <2>3, MoveIs
  <2>5. MoveUp(y, 0 - at).hi <= m
    <3>1. y.hi <= c.size /\ y.hi <= at + n /\ at < c.size
      BY <1>2, <2>1, <2>2, <2>3
    <3>2. y.hi + (0 - at) <= m
      BY <1>2, <1>3, <2>3, <3>1
    <3>. QED BY <2>4, <3>2
  <2>6. ASSUME NEW k \in Nat
        PROVE  /\ Covers(MoveUp(y, 0 - at), k) <=> Covers(x, at + k) /\ k < n
               /\ ByteOf(MoveUp(y, 0 - at), k) = ByteOf(x, at + k)
    <3>1. k - (0 - at) = at + k /\ at + k \in Int /\ at <= at + k /\ (at + k < at + n <=> k < n)
      OBVIOUS
    <3>2. Covers(MoveUp(y, 0 - at), k) <=> Covers(y, at + k)
      BY <2>4, <3>1
    <3>3. ByteOf(MoveUp(y, 0 - at), k) = ByteOf(y, at + k)
      BY <2>4, <3>1
    <3>. QED BY <2>2, <3>1, <3>2, <3>3
  <2>. QED BY <2>4, <2>5, <2>6 DEF y
<1> HIDE DEF piece
<1>6. \A z \in e.extents : \E x \in met : z = piece(x)
  BY <1>4
<1>7. e \in Content
  <2>1. e.extents \subseteq Extent
    BY <1>5, <1>6
  <2>. QED BY <1>1, <1>4, <2>1 DEF Content
<1>8. \A z \in e.extents : z.hi <= e.size
  BY <1>4, <1>5, <1>6
<1>9. ASSUME NEW k \in 0 .. e.size - 1
      PROVE  \E x \in met : Covers(x, at + k) /\ Byte(c, at + k) = ByteOf(x, at + k)
  <2>1. at + k \in 0 .. c.size - 1 /\ k \in Nat /\ k < n
    BY <1>2, <1>3, <1>4
  <2>2. PICK x \in c.extents : Covers(x, at + k) /\ Byte(c, at + k) = ByteOf(x, at + k)
    BY <2>1, ByteHasExtent
  <2>3. x.lo <= at + k /\ at + k < x.hi /\ x.lo \in Nat /\ x.hi \in Nat
    BY <2>2, ContentIs, ExtentIs DEF Covers
  <2>4. x.lo < at + n /\ at < x.hi
    BY <2>1, <2>3
  <2>. QED BY <2>2, <2>4
<1>10. Consistent(e)
  <2>1. SUFFICES ASSUME NEW y \in e.extents, NEW z \in e.extents, NEW k \in Nat,
                        Covers(y, k), Covers(z, k)
                 PROVE  ByteOf(y, k) = ByteOf(z, k)
    BY DEF Consistent
  <2>2. PICK x \in met, w \in met : y = piece(x) /\ z = piece(w)
    BY <1>6
  <2>3. Covers(x, at + k) /\ Covers(w, at + k) /\ at + k \in Nat
    BY <1>5, <2>1, <2>2
  <2>4. ByteOf(x, at + k) = ByteOf(w, at + k)
    BY <2>3 DEF Proper, Consistent
  <2>. QED BY <1>5, <2>2, <2>4
<1>11. Proper(e)
  <2>1. ASSUME NEW k \in 0 .. e.size - 1 PROVE \E z \in e.extents : Covers(z, k)
    <3>1. PICK x \in met : Covers(x, at + k)
      BY <1>9
    <3>2. k \in Nat /\ k < n
      BY <1>2, <1>3, <1>4
    <3>3. piece(x) \in e.extents /\ Covers(piece(x), k)
      BY <1>4, <1>5, <3>1, <3>2
    <3>. QED BY <3>3
  <2>. QED BY <1>7, <1>8, <1>10, <2>1 DEF Proper
<1>12. ASSUME NEW k \in 0 .. e.size - 1 PROVE Byte(e, k) = Byte(c, at + k)
  <2>1. PICK x \in met : Covers(x, at + k) /\ Byte(c, at + k) = ByteOf(x, at + k)
    BY <1>9
  <2>2. k \in Nat /\ k < n
    BY <1>2, <1>3, <1>4
  <2>3. piece(x) \in e.extents /\ Covers(piece(x), k) /\ ByteOf(piece(x), k) = ByteOf(x, at + k)
    BY <1>4, <1>5, <2>1, <2>2
  <2>4. Byte(e, k) = ByteOf(piece(x), k)
    BY <1>11, <2>2, <2>3, ByteIs
  <2>. QED BY <2>1, <2>3, <2>4
<1>. QED BY <1>3, <1>4, <1>11, <1>12 DEF e

\* A copy leaves the bytes in front of it and behind it.
LEMMA BlitIs ==
    ASSUME NEW c, NEW d, Proper(c), Proper(d), NEW at \in Nat, at <= c.size
    PROVE  /\ Proper(Blit(c, at, d))
           /\ at + d.size <= c.size => Blit(c, at, d).size = c.size
           /\ \A k \in 0 .. at - 1 : Byte(Blit(c, at, d), k) = Byte(c, k)
           /\ \A k \in 0 .. d.size - 1 : Byte(Blit(c, at, d), at + k) = Byte(d, k)
           /\ \A k \in at + d.size .. c.size - 1 : Byte(Blit(c, at, d), k) = Byte(c, k)
<1>1. c.size \in Nat /\ d.size \in Nat /\ at + d.size \in Nat
  BY ContentIs
<1> DEFINE front == Slice(c, 0, at)
           back == Slice(c, at + d.size, c.size)
           e == Cat(front, d)
           b == Blit(c, at, d)
<1>2. /\ Proper(front) /\ front.size = at
      /\ \A k \in 0 .. at - 1 : Byte(front, k) = Byte(c, k)
  <2>1. /\ Proper(front)
        /\ front.size = IF c.size <= 0 THEN 0 ELSE IF at <= c.size - 0 THEN at ELSE c.size - 0
        /\ \A k \in 0 .. front.size - 1 : Byte(front, k) = Byte(c, 0 + k)
    BY SliceIs
  <2>2. front.size = at
    BY <1>1, <2>1
  <2>3. \A k \in 0 .. at - 1 : 0 + k = k
    OBVIOUS
  <2>. QED BY <2>1, <2>2, <2>3
<1>3. /\ Proper(back)
      /\ back.size = IF c.size <= at + d.size THEN 0 ELSE c.size - (at + d.size)
      /\ \A k \in 0 .. back.size - 1 : Byte(back, k) = Byte(c, at + d.size + k)
  <2>1. /\ Proper(back)
        /\ back.size = IF c.size <= at + d.size THEN 0
                       ELSE IF c.size <= c.size - (at + d.size) THEN c.size ELSE c.size - (at + d.size)
        /\ \A k \in 0 .. back.size - 1 : Byte(back, k) = Byte(c, at + d.size + k)
    BY <1>1, SliceIs
  <2>2. back.size = IF c.size <= at + d.size THEN 0 ELSE c.size - (at + d.size)
    BY <1>1, <2>1
  <2>. QED BY <2>1, <2>2
<1> HIDE DEF front, back
<1>4. /\ Proper(e) /\ e.size = at + d.size
      /\ \A k \in 0 .. at - 1 : Byte(e, k) = Byte(c, k)
      /\ \A k \in 0 .. d.size - 1 : Byte(e, at + k) = Byte(d, k)
  BY <1>2, CatIs
<1> HIDE DEF e
<1>5. b = Cat(e, back)
  BY DEF Blit, e, front, back
<1>6. /\ Proper(b) /\ b.size = e.size + back.size
      /\ \A k \in 0 .. e.size - 1 : Byte(b, k) = Byte(e, k)
      /\ \A k \in 0 .. back.size - 1 : Byte(b, e.size + k) = Byte(back, k)
  BY <1>3, <1>4, <1>5, CatIs
<1> HIDE DEF b
<1>7. at + d.size <= c.size => b.size = c.size
  BY <1>1, <1>3, <1>4, <1>6
<1>8. ASSUME NEW k \in 0 .. at - 1 PROVE Byte(b, k) = Byte(c, k)
  <2>1. k \in 0 .. e.size - 1
    BY <1>1, <1>4
  <2>. QED BY <1>4, <1>6, <2>1
<1>9. ASSUME NEW k \in 0 .. d.size - 1 PROVE Byte(b, at + k) = Byte(d, k)
  <2>1. at + k \in 0 .. e.size - 1
    BY <1>1, <1>4
  <2>. QED BY <1>4, <1>6, <2>1
<1>10. ASSUME NEW k \in at + d.size .. c.size - 1 PROVE Byte(b, k) = Byte(c, k)
  <2>1. k - (at + d.size) \in 0 .. back.size - 1 /\ e.size + (k - (at + d.size)) = k
        /\ at + d.size + (k - (at + d.size)) = k
    BY <1>1, <1>3, <1>4
  <2>. QED BY <1>3, <1>6, <2>1
<1>. QED BY <1>6, <1>7, <1>8, <1>9, <1>10 DEF b

-----------------------------------------------------------------------------
(* Contents that are part of others. *)

\* The bytes of d are bytes of c, from byte at on.
Holds(c, at, d) == /\ at + d.size <= c.size
                   /\ \A k \in 0 .. d.size - 1 : Byte(c, at + k) = Byte(d, k)

\* What is copied somewhere is there.
LEMMA BlitHolds ==
    ASSUME NEW c, NEW d, Proper(c), Proper(d), NEW at \in Nat, at + d.size <= c.size
    PROVE  Proper(Blit(c, at, d)) /\ Blit(c, at, d).size = c.size /\ Holds(Blit(c, at, d), at, d)
<1>1. c.size \in Nat /\ d.size \in Nat /\ at <= c.size
  BY ContentIs
<1>. QED BY <1>1, BlitIs DEF Holds

\* A copy to somewhere else leaves what is there.
LEMMA BlitKeeps ==
    ASSUME NEW c, NEW d, NEW e, Proper(c), Proper(d), Proper(e),
           NEW at \in Nat, NEW to \in Nat, to + e.size <= c.size,
           Holds(c, at, d), at + d.size <= to \/ to + e.size <= at
    PROVE  Holds(Blit(c, to, e), at, d)
<1>1. c.size \in Nat /\ d.size \in Nat /\ e.size \in Nat /\ to <= c.size
  BY ContentIs
<1> DEFINE b == Blit(c, to, e)
<1>2. /\ b.size = c.size
      /\ \A k \in 0 .. to - 1 : Byte(b, k) = Byte(c, k)
      /\ \A k \in to + e.size .. c.size - 1 : Byte(b, k) = Byte(c, k)
  <2> HIDE DEF b
  <2>0. to <= c.size
    BY <1>1
  <2>1. to + e.size <= c.size => Blit(c, to, e).size = c.size
    BY ONLY Proper(c), Proper(e), to \in Nat, <2>0, BlitIs
  <2>2. \A k \in 0 .. to - 1 : Byte(Blit(c, to, e), k) = Byte(c, k)
    BY ONLY Proper(c), Proper(e), to \in Nat, <2>0, BlitIs
  <2>3. \A k \in to + e.size .. c.size - 1 : Byte(Blit(c, to, e), k) = Byte(c, k)
    BY ONLY Proper(c), Proper(e), to \in Nat, <2>0, BlitIs
  <2>. QED BY <2>1, <2>2, <2>3 DEF b
<1> HIDE DEF b
<1>3. at + d.size <= c.size /\ \A k \in 0 .. d.size - 1 : Byte(c, at + k) = Byte(d, k)
  BY DEF Holds
<1>4. ASSUME NEW k \in 0 .. d.size - 1 PROVE Byte(b, at + k) = Byte(d, k)
  <2>1. at + k \in 0 .. to - 1 \/ at + k \in to + e.size .. c.size - 1
    BY <1>1, <1>3
  <2>2. Byte(b, at + k) = Byte(c, at + k)
    BY <1>2, <2>1
  <2>. QED BY <1>3, <2>2
<1>. QED BY <1>2, <1>3, <1>4 DEF Holds, b

\* What is part of contents is the slice of its place and size.
LEMMA SliceHeld ==
    ASSUME NEW c, NEW d, Proper(c), Proper(d), NEW at \in Nat, Holds(c, at, d)
    PROVE  /\ Proper(Slice(c, at, d.size)) /\ Slice(c, at, d.size).size = d.size
           /\ \A k \in 0 .. d.size - 1 : Byte(Slice(c, at, d.size), k) = Byte(d, k)
           /\ Same(Slice(c, at, d.size), d)
<1> DEFINE b == Slice(c, at, d.size)
<1>1. c.size \in Nat /\ d.size \in Nat
  BY ContentIs
<1>2. at + d.size <= c.size /\ \A k \in 0 .. d.size - 1 : Byte(c, at + k) = Byte(d, k)
  BY DEF Holds
<1>3. /\ Proper(b)
      /\ b.size = IF c.size <= at THEN 0 ELSE IF d.size <= c.size - at THEN d.size ELSE c.size - at
      /\ \A k \in 0 .. b.size - 1 : Byte(b, k) = Byte(c, at + k)
  BY <1>1, SliceIs
<1> HIDE DEF b
<1>4. b.size = d.size
  BY <1>1, <1>2, <1>3
<1>5. \A k \in 0 .. d.size - 1 : Byte(b, k) = Byte(d, k)
  BY <1>2, <1>3, <1>4
<1>6. Same(b, d)
  BY <1>3, <1>4, <1>5, SameIs
<1>. QED BY <1>3, <1>4, <1>5, <1>6 DEF b

\* A file that has been given contents has them.
LEMMA CatEmptyHolds ==
    ASSUME NEW c, NEW d, Proper(c), Proper(d), c.size = 0
    PROVE  /\ Proper(Cat(c, d)) /\ Cat(c, d).size = d.size
           /\ \A k \in 0 .. d.size - 1 : Byte(Cat(c, d), k) = Byte(d, k)
<1>1. d.size \in Nat
  BY ContentIs
<1>2. /\ Proper(Cat(c, d)) /\ Cat(c, d).size = 0 + d.size
      /\ \A k \in 0 .. d.size - 1 : Byte(Cat(c, d), 0 + k) = Byte(d, k)
  BY CatIs
<1>3. 0 + d.size = d.size /\ \A k \in 0 .. d.size - 1 : 0 + k = k
  BY <1>1
<1>. QED BY <1>2, <1>3

-----------------------------------------------------------------------------
(* The partitions of a board. *)

\* A set of indices has a smallest one.
LEMMA MinOf ==
    ASSUME NEW S, S \subseteq Nat, S # {}
    PROVE  Min(S) \in S /\ \A y \in S : Min(S) <= y
<1>1. PICK m \in S : \A y \in S : ~ (<<y, m>> \in OpToRel(<, Nat))
  BY WFMin, NatLessThanWellFounded
<1>2. \A y \in S : m <= y
  <2>1. \A y : y \in Nat /\ m \in Nat /\ y < m => <<y, m>> \in OpToRel(<, Nat)
    BY Zenon DEF OpToRel
  <2>2. \A y \in S : y \in Nat /\ m \in Nat => ~ (y < m)
    BY <1>1, <2>1, Zenon
  <2>. QED BY <2>2
<1>. QED BY <1>1, <1>2 DEF Min

\* The first entry of a name, or 0 where there is none.
LEMMA NamedIs ==
    ASSUME NEW seq, Len(seq) \in Nat, NEW name
    PROVE  /\ Named(seq, name) \in 0 .. Len(seq)
           /\ Named(seq, name) # 0 => seq[Named(seq, name)].name = name
           /\ Named(seq, name) = 0 => \A k \in 1 .. Len(seq) : seq[k].name # name
           /\ \A k \in 1 .. Named(seq, name) - 1 : seq[k].name # name
<1> DEFINE S == {k \in 1 .. Len(seq) : seq[k].name = name}
<1>1. Named(seq, name) = IF S # {} THEN Min(S) ELSE 0
  BY DEF Named, SelectInSeq
<1>2. CASE S = {}
  <2>1. Named(seq, name) = 0
    BY <1>1, <1>2
  <2>. QED BY <1>2, <2>1
<1>3. CASE S # {}
  <2>1. S \subseteq Nat
    OBVIOUS
  <2>4. Min(S) \in S /\ \A y \in S : Min(S) <= y
    BY <1>3, <2>1, MinOf
  <2>5. Named(seq, name) \in S /\ \A y \in S : Named(seq, name) <= y
    BY <1>1, <1>3, <2>4
  <2> DEFINE j == Named(seq, name)
  <2>6. j \in 1 .. Len(seq) /\ seq[j].name = name
    BY <2>5
  <2>7. ASSUME NEW k \in 1 .. j - 1 PROVE seq[k].name # name
    <3>1. k \in 1 .. Len(seq) /\ ~(j <= k)
      BY <2>6
    <3>. QED BY <2>5, <3>1
  <2> HIDE DEF j
  <2>8. j \in 0 .. Len(seq) /\ j # 0
    BY <2>6
  <2>. QED BY <2>6, <2>7, <2>8 DEF j
<1>. QED BY <1>2, <1>3

\* Where no name is twice, an entry is the one of its name.
LEMMA NamedIsOnly ==
    ASSUME NEW seq, Len(seq) \in Nat, NEW k \in 1 .. Len(seq),
           \A j \in 1 .. Len(seq) : seq[j].name = seq[k].name => j = k
    PROVE  Named(seq, seq[k].name) = k
<1> DEFINE n == Named(seq, seq[k].name)
<1>1. n \in 0 .. Len(seq) /\ (n # 0 => seq[n].name = seq[k].name) /\ n # 0
  BY NamedIs
<1> HIDE DEF n
<1>2. n \in 1 .. Len(seq)
  BY <1>1
<1>3. n = k
  BY <1>1, <1>2
<1>. QED BY <1>3 DEF n

\* A board of the table has partitions, ...
BoardIs(b) ==
    /\ b.vendor \in Nat \cup {NULL} /\ b.vendor + 4 <= \h1000
    /\ b.soft_ver \in Nat \cup {NULL} /\ b.support_list \in Nat
    /\ Len(b.partitions) \in Nat /\ FlashText(b.partitions) \in Nat
    /\ \A k \in 1 .. Len(b.partitions) :
          b.partitions[k].base \in Nat /\ b.partitions[k].size \in Nat

\* ... which are in order.
InOrder(b) ==
    \A j, k \in 1 .. Len(b.partitions) :
        j < k => /\ b.partitions[j].name # b.partitions[k].name
                 /\ b.partitions[j].base + b.partitions[j].size <= b.partitions[k].base

\* The boards of the table are such boards.
LEMMA BoardsAre ==
    ASSUME NEW b \in ToSet(Devices)
    PROVE  BoardIs(b) /\ InOrder(b)
<1>1. b \in Device /\ b.vendor + 4 <= \h1000
  <2>1. Devices \in Seq(Device) /\ \A d \in ToSet(Devices) : d.vendor + 4 <= \h1000
    BY DevicesAssumption
  <2>2. PICK k \in DOMAIN Devices : b = Devices[k]
    BY DEF ToSet
  <2>3. Devices[k] \in Device
    BY <2>1, <2>2
  <2>. QED BY <2>1, <2>2, <2>3
<1>2. /\ b.vendor \in Nat \cup {NULL} /\ b.soft_ver \in Nat \cup {NULL} /\ b.support_list \in Nat
      /\ b.partitions \in Seq([name : STRING, base : Nat, size : Nat])
  BY <1>1 DEF Device
<1>3. Len(b.partitions) \in Nat /\ DOMAIN b.partitions = 1 .. Len(b.partitions)
  BY <1>2
<1>4. ASSUME NEW k \in 1 .. Len(b.partitions)
      PROVE  b.partitions[k].base \in Nat /\ b.partitions[k].size \in Nat
  <2> DEFINE S == [name : STRING, base : Nat, size : Nat]
  <2>1. \A p \in S : p.base \in Nat /\ p.size \in Nat
    OBVIOUS
  <2>2. b.partitions \in Seq(S)
    BY <1>2
  <2> HIDE DEF S
  <2>3. b.partitions[k] \in S
    BY <2>2, ElementOfSeq
  <2>. QED BY <2>1, <2>3
<1>5. FlashText(b.partitions) \in Nat
  BY TextAssumption
<1>6. BoardIs(b)
  BY <1>1, <1>2, <1>3, <1>4, <1>5 DEF BoardIs
<1>7. InOrder(b)
  <2>1. SUFFICES ASSUME NEW j \in 1 .. Len(b.partitions), NEW k \in 1 .. Len(b.partitions), j < k
                 PROVE  /\ b.partitions[j].name # b.partitions[k].name
                        /\ b.partitions[j].base + b.partitions[j].size <= b.partitions[k].base
    BY DEF InOrder
  <2>2. j \in DOMAIN b.partitions /\ k \in DOMAIN b.partitions
    BY <1>3
  <2>. QED BY <2>1, <2>2, FlashAssumption
<1>. QED BY <1>6, <1>7

\* No name is twice in flash.
LEMMA FlashNames ==
    ASSUME NEW b \in ToSet(Devices), NEW k \in 1 .. Len(b.partitions)
    PROVE  Named(b.partitions, b.partitions[k].name) = k
<1>1. Len(b.partitions) \in Nat
  BY BoardsAre DEF BoardIs
<1>2. \A j \in 1 .. Len(b.partitions) : b.partitions[j].name = b.partitions[k].name => j = k
  <2>1. SUFFICES ASSUME NEW j \in 1 .. Len(b.partitions), j # k
                 PROVE  b.partitions[j].name # b.partitions[k].name
    OBVIOUS
  <2>2. j < k \/ k < j
    BY <1>1, <2>1
  <2>. QED BY <2>2, BoardsAre DEF InOrder
<1>. QED BY <1>1, <1>2, NamedIsOnly

-----------------------------------------------------------------------------
(* The partitions of an image. *)

\* What a board and input files are, where the partition table has room.
Inputs == /\ board \in ToSet(Devices) /\ files \in Files
          /\ TextFits(FlashText(board.partitions))

\* The partitions that go into an image: four of them, or eight.
PartsAre(L) ==
    /\ Len(L) \in {4, 8} /\ DOMAIN L = 1 .. Len(L)
    /\ \A k \in 1 .. Len(L) : L[k].name \in PartNames /\ Proper(L[k].data)
    /\ \A j, k \in 1 .. Len(L) : L[j].name = L[k].name => j = k
    /\ L[4].name = "os-image" /\ (Len(L) = 8 => L[8].name = "file-system")
    /\ \A k \in 1 .. Len(L) : L[k].name = "file-system" => k = 8

\* The partition table is proper.
LEMMA TableIsProper == ASSUME Inputs PROVE Proper(PartitionTable)
<1> DEFINE n == FlashText(board.partitions)
<1>1. n \in Nat
  BY BoardsAre DEF Inputs, BoardIs
<1>2. n < TABLE_SIZE
  BY DEF Inputs, TextFits
<1>3. TABLE_SIZE = 2048
  BY DEF TABLE_SIZE
<1>4. PartitionTable = Cat(Bytes("partition-table", n + 1), Bytes("ff", TABLE_SIZE - n - 1))
  BY DEF PartitionTable
<1> HIDE DEF n
<1>5. n + 1 \in Nat /\ TABLE_SIZE - n - 1 \in Nat
  BY <1>1, <1>2, <1>3
<1>6. Proper(Bytes("partition-table", n + 1)) /\ Proper(Bytes("ff", TABLE_SIZE - n - 1))
  <2>1. "partition-table" \in Things /\ "ff" \in Things
    BY DEF Things, Fills
  <2>. QED BY <1>5, <2>1, BytesIs
<1>. QED BY <1>4, <1>6, CatIs

\* So is the soft version.
LEMMA SoftVersionIsProper == ASSUME Inputs PROVE Proper(SoftVersion)
<1>1. board.soft_ver \in Nat \cup {NULL}
  BY BoardsAre DEF Inputs, BoardIs
<1>2. (IF board.soft_ver = NULL THEN 21 ELSE 8 + board.soft_ver + 1 + 1) \in Nat
  BY <1>1
<1>3. "soft-version" \in Things
  BY DEF Things
<1>. QED BY <1>2, <1>3, BytesIs DEF SoftVersion

\* So is the kernel with the root file system.
LEMMA OsImageIsProper == ASSUME Inputs PROVE Proper(OsImage)
<1>1. files.kernel \in Nat /\ files.rootfs \in Nat
  BY SizesAssumption DEF Inputs, Files
<1>2. AlignUp(files.kernel) - files.kernel \in Nat
  <2>1. ((files.kernel + \hFFFF) \div \h10000) * \h10000 \in Int
        /\ ((files.kernel + \hFFFF) \div \h10000) * \h10000 >= files.kernel
    BY <1>1
  <2>. QED BY <1>1, <2>1 DEF AlignUp
<1>3. /\ Proper(Bytes("kernel", files.kernel)) /\ Proper(Bytes("rootfs", files.rootfs))
      /\ Proper(Bytes("junk", AlignUp(files.kernel) - files.kernel))
  <2>1. "kernel" \in Things /\ "rootfs" \in Things /\ "junk" \in Things
    BY DEF Things, Fills
  <2>. QED BY <1>1, <1>2, <2>1, BytesIs
<1>4. Proper(Cat(Bytes("kernel", files.kernel), Bytes("rootfs", files.rootfs)))
  BY <1>3, CatIs
<1>. QED BY <1>3, <1>4, CatIs DEF OsImage

\* The other parts are bytes of one thing.
LEMMA OthersAreProper ==
    ASSUME Inputs
    PROVE  /\ Proper(SupportList) /\ Proper(Bytes("extra-para", 11))
           /\ Proper(Bytes("identity", 4096)) /\ Proper(Bytes("sysconf", 1024))
           /\ Proper(Bytes("genesis", files.genesis))
<1>1. board.support_list + 9 \in Nat
  BY BoardsAre DEF Inputs, BoardIs
<1>2. files.genesis \in Nat
  BY SizesAssumption DEF Inputs, Files
<1>3. \A of \in {"support-list", "extra-para", "identity", "sysconf", "genesis"} : of \in Things
  BY DEF Things
<1>4. Proper(SupportList)
  BY <1>1, <1>3, BytesIs DEF SupportList
<1>5. Proper(Bytes("genesis", files.genesis))
  BY <1>2, <1>3, BytesIs
<1>6. 11 \in Nat /\ 4096 \in Nat /\ 1024 \in Nat
  OBVIOUS
<1>7. Proper(Bytes("extra-para", 11))
  BY <1>3, <1>6, BytesIs
<1>8. Proper(Bytes("identity", 4096))
  BY <1>3, <1>6, BytesIs
<1>9. Proper(Bytes("sysconf", 1024))
  BY <1>3, <1>6, BytesIs
<1>. QED BY <1>4, <1>5, <1>7, <1>8, <1>9

\* The name of a partition and its data.
LEMMA PartIs ==
    ASSUME NEW name, NEW data
    PROVE  Part(name, data).name = name /\ Part(name, data).data = data
  BY DEF Part

\* What build_image puts into parts.
LEMMA PartsOfImage == ASSUME Inputs PROVE PartsAre(Listed)
<1> DEFINE p1 == Part("partition-table", PartitionTable)
           p2 == Part("soft-version", SoftVersion)
           p3 == Part("support-list", SupportList)
           p4 == Part("os-image", OsImage)
           p5 == Part("extra-para", Bytes("extra-para", 11))
           p6 == Part("identity", Bytes("identity", 4096))
           p7 == Part("sysconf", Bytes("sysconf", 1024))
           p8 == Part("file-system", Bytes("genesis", files.genesis))
<1>1. Parts = <<p1, p2, p3, p4, IF NeedsExtraPara THEN p5 ELSE NoPart, p6, p7, p8, NoPart>>
  BY DEF Parts
<1>2. /\ p1.name = "partition-table" /\ p2.name = "soft-version" /\ p3.name = "support-list"
      /\ p4.name = "os-image" /\ p5.name = "extra-para" /\ p6.name = "identity"
      /\ p7.name = "sysconf" /\ p8.name = "file-system"
  BY PartIs
<1>3. /\ Proper(p1.data) /\ Proper(p2.data) /\ Proper(p3.data) /\ Proper(p4.data)
      /\ Proper(p5.data) /\ Proper(p6.data) /\ Proper(p7.data) /\ Proper(p8.data)
  BY PartIs, TableIsProper, SoftVersionIsProper, OsImageIsProper, OthersAreProper
<1>4. NoPart.name \notin PartNames
  <2>1. NoPart.name = ""
    BY Zenon DEF NoPart
  <2>2. "" \notin PartNames
    BY Zenon DEF PartNames
  <2>. QED BY <2>1, <2>2, Zenon
<1> HIDE DEF p1, p2, p3, p4, p5, p6, p7, p8
<1>5. Len(Parts) = 9
  BY <1>1
<1>6. CASE NeedsExtraPara
  <2>1. /\ Parts[1] = p1 /\ Parts[2] = p2 /\ Parts[3] = p3 /\ Parts[4] = p4 /\ Parts[5] = p5
        /\ Parts[6] = p6 /\ Parts[7] = p7 /\ Parts[8] = p8 /\ Parts[9] = NoPart
    BY <1>1, <1>6
  <2>2. Named(Parts, NoPart.name) = 9
    <3> DEFINE n == Named(Parts, NoPart.name)
    <3>0. Len(Parts) \in Nat
      BY <1>5
    <3>1. /\ n \in 0 .. 9 /\ (n # 0 => Parts[n].name = NoPart.name)
          /\ (n = 0 => \A k \in 1 .. 9 : Parts[k].name # NoPart.name)
      <4>1. /\ n \in 0 .. Len(Parts) /\ (n # 0 => Parts[n].name = NoPart.name)
            /\ (n = 0 => \A k \in 1 .. Len(Parts) : Parts[k].name # NoPart.name)
        BY <3>0, NamedIs, Zenon
      <4>. QED BY <4>1, <1>5
    <3> HIDE DEF n
    <3>2. Parts[9].name = NoPart.name /\ \A k \in 1 .. 8 : Parts[k].name # NoPart.name
      BY <1>2, <1>4, <2>1 DEF PartNames
    <3>3. n # 0 /\ n \notin 1 .. 8
      BY <3>1, <3>2
    <3>. QED BY <3>1, <3>3 DEF n
  <2>3. Listed = SubSeq(Parts, 1, 8)
    BY <2>2 DEF Listed
  <2>4. Parts = <<p1, p2, p3, p4, p5, p6, p7, p8, NoPart>>
    BY <1>1, <1>6
  <2>5. /\ Len(Listed) = 8 /\ DOMAIN Listed = 1 .. 8
        /\ Listed[1] = p1 /\ Listed[2] = p2 /\ Listed[3] = p3 /\ Listed[4] = p4
        /\ Listed[5] = p5 /\ Listed[6] = p6 /\ Listed[7] = p7 /\ Listed[8] = p8
    BY <2>3, <2>4
  <2>6. \A k \in 1 .. 8 : Listed[k].name \in PartNames
    BY <2>5, <1>2 DEF PartNames
  <2>7. \A k \in 1 .. 8 : Proper(Listed[k].data)
    BY <2>5, <1>3
  <2>8. \A j, k \in 1 .. 8 : Listed[j].name = Listed[k].name => j = k
    BY <2>5, <1>2
  <2>. QED BY <2>5, <2>6, <2>7, <2>8, <1>2 DEF PartsAre
<1>7. CASE ~NeedsExtraPara
  <2>1. /\ Parts[1] = p1 /\ Parts[2] = p2 /\ Parts[3] = p3 /\ Parts[4] = p4 /\ Parts[5] = NoPart
    BY <1>1, <1>7
  <2>2. Named(Parts, NoPart.name) = 5
    <3> DEFINE n == Named(Parts, NoPart.name)
    <3>0. Len(Parts) \in Nat
      BY <1>5
    <3>1. /\ n \in 0 .. 9 /\ (n # 0 => Parts[n].name = NoPart.name)
          /\ (n = 0 => \A k \in 1 .. 9 : Parts[k].name # NoPart.name)
          /\ \A k \in 1 .. n - 1 : Parts[k].name # NoPart.name
      <4>1. /\ n \in 0 .. Len(Parts) /\ (n # 0 => Parts[n].name = NoPart.name)
            /\ (n = 0 => \A k \in 1 .. Len(Parts) : Parts[k].name # NoPart.name)
            /\ \A k \in 1 .. n - 1 : Parts[k].name # NoPart.name
        BY <3>0, NamedIs, Zenon
      <4>. QED BY <4>1, <1>5
    <3> HIDE DEF n
    <3>2. Parts[5].name = NoPart.name /\ \A k \in 1 .. 4 : Parts[k].name # NoPart.name
      BY <1>2, <1>4, <2>1 DEF PartNames
    <3>3. n # 0 /\ n \notin 1 .. 4 /\ ~(5 \in 1 .. n - 1)
      BY <3>1, <3>2
    <3>. QED BY <3>1, <3>3 DEF n
  <2>3. Listed = SubSeq(Parts, 1, 4)
    BY <2>2 DEF Listed
  <2>4. Parts = <<p1, p2, p3, p4, NoPart, p6, p7, p8, NoPart>>
    BY <1>1, <1>7
  <2>5. /\ Len(Listed) = 4 /\ DOMAIN Listed = 1 .. 4
        /\ Listed[1] = p1 /\ Listed[2] = p2 /\ Listed[3] = p3 /\ Listed[4] = p4
    BY <2>3, <2>4
  <2>6. \A k \in 1 .. 4 : Listed[k].name \in PartNames
    BY <2>5, <1>2 DEF PartNames
  <2>7. \A k \in 1 .. 4 : Proper(Listed[k].data)
    BY <2>5, <1>3
  <2>8. \A j, k \in 1 .. 4 : Listed[j].name = Listed[k].name => j = k
    BY <2>5, <1>2
  <2>9. \A k \in 1 .. 4 : Listed[k].name # "file-system"
    BY <2>5, <1>2
  <2>. QED BY <2>5, <2>6, <2>7, <2>8, <2>9, <1>2 DEF PartsAre
<1>. QED BY <1>6, <1>7

\* The parts have sizes.
LEMMA PartSizes ==
    ASSUME PartsAre(Listed)
    PROVE  /\ Len(Listed) \in Nat /\ 4 <= Len(Listed) /\ Len(Listed) <= 8
           /\ \A k \in 1 .. Len(Listed) : Proper(Listed[k].data) /\ Listed[k].data.size \in Nat
<1>1. \A k \in 1 .. Len(Listed) : Proper(Listed[k].data)
  BY DEF PartsAre
<1>2. \A k \in 1 .. Len(Listed) : Listed[k].data.size \in Nat
  BY <1>1, ContentIs
<1>3. Len(Listed) = 4 \/ Len(Listed) = 8
  BY DEF PartsAre
<1>4. Len(Listed) \in Nat /\ 4 <= Len(Listed) /\ Len(Listed) <= 8
  <2> DEFINE n == Len(Listed)
  <2>1. n = 4 \/ n = 8
    BY <1>3
  <2> HIDE DEF n
  <2>2. n \in Nat /\ 4 <= n /\ n <= 8
    BY <2>1
  <2>. QED BY <2>2 DEF n
<1>. QED BY <1>1, <1>2, <1>4

\* The sum of the sizes of at most eight parts.
Eight == [1 .. 8 -> Nat]

Sum8(f) == f[1] + f[2] + f[3] + f[4] + f[5] + f[6] + f[7] + f[8]

\* A sum is a number, ...
LEMMA SumIs == ASSUME NEW f \in Eight PROVE Sum8(f) \in Nat
  BY DEF Eight, Sum8

\* ... not less than that of smaller numbers, ...
LEMMA SumGrows ==
    ASSUME NEW f \in Eight, NEW g \in Eight, \A k \in 1 .. 8 : f[k] <= g[k]
    PROVE  Sum8(f) <= Sum8(g)
  BY DEF Eight, Sum8

\* ... and adding a number to one of them adds it to the sum.
LEMMA SumAdds ==
    ASSUME NEW f \in Eight, NEW g \in Eight, NEW n \in 1 .. 8, NEW z \in Nat,
           \A k \in 1 .. 8 : g[k] = f[k] + (IF k = n THEN z ELSE 0)
    PROVE  Sum8(g) = Sum8(f) + z
  BY DEF Eight, Sum8

\* The sizes of the first parts add up.
LEMMA SizesAdd ==
    ASSUME PartsAre(Listed)
    PROVE  /\ SizeOfFirst(0) = 0
           /\ \A n \in 0 .. Len(Listed) : SizeOfFirst(n) \in Nat /\ SizeOfFirst(n) <= TotalSize
           /\ \A n \in 1 .. Len(Listed) : SizeOfFirst(n) = SizeOfFirst(n - 1) + Listed[n].data.size
           /\ \A m, n \in 0 .. Len(Listed) : m <= n => SizeOfFirst(m) <= SizeOfFirst(n)
<1> DEFINE z(k) == Listed[k].data.size
           f(n) == [k \in 1 .. 8 |-> IF k <= n THEN z(k) ELSE 0]
<1>1. \A n \in 0 .. Len(Listed) : SizeOfFirst(n) = Sum8(f(n))
  BY DEF SizeOfFirst, Sum8
<1>2. Len(Listed) \in Nat /\ Len(Listed) <= 8 /\ \A k \in 1 .. Len(Listed) : z(k) \in Nat
  BY PartSizes
<1> HIDE DEF z
<1>3. \A n \in 0 .. Len(Listed) : f(n) \in Eight
  BY <1>2 DEF Eight
<1>4. SizeOfFirst(0) = 0
  <2>1. /\ f(0)[1] = 0 /\ f(0)[2] = 0 /\ f(0)[3] = 0 /\ f(0)[4] = 0
        /\ f(0)[5] = 0 /\ f(0)[6] = 0 /\ f(0)[7] = 0 /\ f(0)[8] = 0
    OBVIOUS
  <2>2. Sum8(f(0)) = 0
    BY ONLY <2>1 DEF Sum8
  <2>. QED BY <1>1, <1>2, <2>2
<1>5. ASSUME NEW m \in 0 .. Len(Listed), NEW n \in 0 .. Len(Listed), m <= n, NEW k \in 1 .. 8
      PROVE  f(m)[k] <= f(n)[k]
  <2>1. /\ f(m)[k] = (IF k <= m THEN z(k) ELSE 0)
        /\ f(n)[k] = (IF k <= n THEN z(k) ELSE 0)
    OBVIOUS
  <2> HIDE DEF f
  <2>2. m \in Nat /\ n \in Nat /\ (k <= n => z(k) \in Nat)
    BY <1>2
  <2>3. CASE k <= m
    BY <1>5, <2>1, <2>2, <2>3
  <2>4. CASE ~(k <= m)
    BY <2>1, <2>2, <2>4
  <2>. QED BY <2>3, <2>4
<1>6. ASSUME NEW n \in 1 .. Len(Listed), NEW k \in 1 .. 8
      PROVE  f(n)[k] = f(n - 1)[k] + (IF k = n THEN z(n) ELSE 0)
  <2>1. /\ f(n)[k] = (IF k <= n THEN z(k) ELSE 0)
        /\ f(n - 1)[k] = (IF k <= n - 1 THEN z(k) ELSE 0)
    OBVIOUS
  <2> HIDE DEF f
  <2>2. n \in Nat /\ z(n) \in Nat /\ (k <= n => z(k) \in Nat)
    BY <1>2
  <2>3. CASE k = n
    BY <2>1, <2>2, <2>3
  <2>4. CASE k < n
    BY <2>1, <2>2, <2>4
  <2>5. CASE k > n
    BY <2>1, <2>2, <2>5
  <2>. QED BY <2>2, <2>3, <2>4, <2>5
<1> HIDE DEF f
<1>7. \A n \in 0 .. Len(Listed) : SizeOfFirst(n) \in Nat
  BY <1>1, <1>3, SumIs
<1>8. ASSUME NEW m \in 0 .. Len(Listed), NEW n \in 0 .. Len(Listed), m <= n
      PROVE  SizeOfFirst(m) <= SizeOfFirst(n)
  <2>1. f(m) \in Eight /\ f(n) \in Eight /\ \A k \in 1 .. 8 : f(m)[k] <= f(n)[k]
    BY <1>3, <1>5, <1>8
  <2>2. Sum8(f(m)) <= Sum8(f(n))
    BY <2>1, SumGrows
  <2>. QED BY <2>2, <1>1
<1>9. ASSUME NEW n \in 1 .. Len(Listed)
      PROVE  SizeOfFirst(n) = SizeOfFirst(n - 1) + z(n)
  <2>1. n - 1 \in 0 .. Len(Listed) /\ n \in 0 .. Len(Listed) /\ n \in 1 .. 8 /\ z(n) \in Nat
    BY <1>2
  <2>2. /\ f(n - 1) \in Eight /\ f(n) \in Eight
        /\ \A k \in 1 .. 8 : f(n)[k] = f(n - 1)[k] + (IF k = n THEN z(n) ELSE 0)
    BY <1>3, <1>6, <2>1
  <2>3. Sum8(f(n)) = Sum8(f(n - 1)) + z(n)
    BY <2>1, <2>2, SumAdds
  <2>. QED BY <1>1, <2>1, <2>3
<1>10. Len(Listed) \in 0 .. Len(Listed)
  BY <1>2
<1>11. \A n \in 0 .. Len(Listed) : SizeOfFirst(n) <= TotalSize
  BY <1>2, <1>8, <1>10 DEF TotalSize
<1>. QED BY <1>4, <1>7, <1>8, <1>9, <1>11 DEF z

-----------------------------------------------------------------------------
(* The inductive invariant. *)

\* The tool has neither not begun nor given up.
Works == pc \in {"factory", "tool", "write", "sysupgrade", "copy", "done"}

Entry == [name : PartNames, base : Nat, size : Nat]

Job == [op : {"copy", "ff", "seek"}, file : PartNames \cup {"sysupgrade"}, at : Nat, size : Nat]

Types ==
    /\ pc \in {"make", "factory", "tool", "write", "sysupgrade", "copy", "done", "error", "abort", "crash"}
    /\ board \in ToSet(Devices) /\ files \in Files
    /\ Proper(image) /\ Proper(md5) /\ Proper(sys)
    /\ out \in [DOMAIN out -> Content] /\ \A f \in DOMAIN out : Proper(out[f])
    /\ table \in Seq(Entry) /\ todo \in Seq(Job)
    /\ i \in Nat /\ text \in Nat

\* The tool begins with nothing, and goes on where the partition table has room.
Begins == /\ pc = "make" => table = <<>> /\ text = 0 /\ i = 1 /\ DOMAIN out = {}
          /\ Works => TextFits(FlashText(board.partitions))

\* Where part k goes, behind 0x1014.
Base(k) == TABLE_SIZE + SizeOfFirst(k - 1)

\* Part k has room in flash.
FitsFlash(k) ==
    LET slot == Named(board.partitions, Listed[k].name)
    IN  slot # 0 /\ Listed[k].data.size <= board.partitions[slot].size

\* The first n parts are in the image and in its table.
Laid(n) ==
    /\ image.size = \h1814 + TotalSize
    /\ Len(table) = n
    /\ \A k \in 1 .. n :
          /\ table[k] = P(Listed[k].name, Base(k), Listed[k].data.size)
          /\ Holds(image, \h1014 + Base(k), Listed[k].data)
          /\ FitsFlash(k)

\* The hash is that of the salt and what is behind the hash.
HashIsRight == Same(md5, Cat(Bytes("salt", 16), Slice(image, \h14, image.size)))

Factory ==
    /\ pc = "factory" => i \in 1 .. Len(Listed) + 1 /\ Laid(i - 1) /\ text < TABLE_SIZE
    /\ pc \in {"tool", "write"} => Laid(Len(Listed)) /\ HashIsRight

\* The bytes of o are those of d.
Restored(o, d) == o.size = d.size /\ \A k \in 0 .. d.size - 1 : Byte(o, k) = Byte(d, k)

ListedNames == {Listed[k].name : k \in 1 .. Len(Listed)}

ExtractJob(k) == [op |-> "copy", file |-> Listed[k].name, at |-> Base(k), size |-> Listed[k].data.size]

\* The first n parts have been extracted, and what is to be done is the rest.
Extracting(n) ==
    /\ n \in Nat /\ n + Len(todo) = Len(Listed)
    /\ DOMAIN out = ListedNames
    /\ \A j \in 1 .. Len(todo) : todo[j] = ExtractJob(n + j)
    /\ \A k \in 1 .. Len(Listed) :
          IF k <= n THEN Restored(out[Listed[k].name], Listed[k].data)
                    ELSE out[Listed[k].name].size = 0

\* The os-image and the file-system: the parts and their places in flash.
OsData == Listed[4].data
FsData == Listed[8].data
OsSlot == board.partitions[Named(board.partitions, "os-image")]
FsSlot == board.partitions[Named(board.partitions, "file-system")]

\* How far the file-system is behind the os-image in flash.
Gap == FsSlot.base - OsSlot.base

\* The converted image, byte by byte, ...
Target(k) == IF k < OsData.size THEN Byte(OsData, k)
             ELSE IF k < OsSlot.size THEN Origin("ff", 0)
             ELSE IF k < Gap THEN Origin("00", 0)
             ELSE IF k < Gap + FsData.size THEN Byte(FsData, k - Gap)
             ELSE Origin("ff", 0)

\* ... its size after n steps, ...
StageSize(n) == CASE n = 0 -> 0
                  [] n = 1 -> OsData.size
                  [] n = 2 -> OsSlot.size
                  [] n = 3 -> Gap
                  [] n = 4 -> Gap + FsData.size
                  [] n = 5 -> Gap + FsSlot.size

\* ... and step n.
ConvertJob(n) ==
    LET job(op, at, size) == [op |-> op, file |-> "sysupgrade", at |-> at, size |-> size]
    IN  CASE n = 1 -> job("copy", Base(4), OsData.size)
          [] n = 2 -> job("ff", 0, OsSlot.size - OsData.size)
          [] n = 3 -> job("seek", Gap, 0)
          [] n = 4 -> job("copy", Base(8), FsData.size)
          [] n = 5 -> job("ff", 0, FsSlot.size - FsData.size)

\* What has been converted after n steps is that much of it.
IsStage(o, n) == o.size = StageSize(n) /\ \A k \in 0 .. o.size - 1 : Byte(o, k) = Target(k)

Converting(n) ==
    /\ n \in Nat /\ n + Len(todo) = 5
    /\ DOMAIN out = {"sysupgrade"} /\ Len(Listed) = 8
    /\ \A j \in 1 .. Len(todo) : todo[j] = ConvertJob(n + j)
    /\ IsStage(out["sysupgrade"], n)

Writing == pc = "write" => \E n \in Nat : Extracting(n) \/ Converting(n)

\* The files are complete.
Delivered ==
    /\ Extracted => /\ HashIsRight /\ DOMAIN out = ListedNames
                    /\ \A k \in 1 .. Len(Listed) : Restored(out[Listed[k].name], Listed[k].data)
    /\ Converted => Len(Listed) = 8 /\ IsStage(out["sysupgrade"], 5) /\ FitsFlash(4) /\ FitsFlash(8)

Results == pc \in {"sysupgrade", "copy", "done"} => Delivered

\* The part that belongs into flash partition j, or 0.
PartOf(j) == Named(Listed, board.partitions[j].name)

\* Flash partition j is in the sysupgrade image.
Copied(j) ==
    PartOf(j) # 0 =>
        /\ Listed[PartOf(j)].data.size <= board.partitions[j].size
        /\ Holds(sys, SysOffset(j), Listed[PartOf(j)].data)

\* Byte k of the sysupgrade image belongs to flash partition j.
Within(j, k) == /\ PartOf(j) # 0
                /\ SysOffset(j) <= k /\ k < SysOffset(j) + Listed[PartOf(j)].data.size

Copying ==
    pc \in {"copy", "done"} =>
        /\ AssertionsHold
        /\ i \in FirstIndex .. LastIndex + 1 /\ (pc = "done" => i = LastIndex + 1)
        /\ sys.size = SysLen
        /\ \A j \in FirstIndex .. i - 1 : Copied(j)
        /\ \A k \in 0 .. sys.size - 1 :
              Byte(sys, k) = Origin("ff", 0) \/ \E j \in FirstIndex .. i - 1 : Within(j, k)

IInv == Types /\ Begins /\ Factory /\ Writing /\ Results /\ Copying

\* The invariant holds at the beginning.
LEMMA InitIInv == Init => IInv
<1>1. SUFFICES ASSUME Init PROVE IInv
  OBVIOUS
<1>2. pc = "make" /\ files \in Files /\ image = Empty /\ table = <<>> /\ text = 0 /\ md5 = Empty
      /\ i = 1 /\ todo = <<>> /\ out = <<>> /\ sys = Empty
  BY <1>1 DEF Init
<1>3. board \in ToSet(Devices)
  <2>1. PICK b \in ToSet(Devices) : board = FindBoard(b.id)
    BY <1>1 DEF Init
  <2>2. PICK k \in DOMAIN Devices : b = Devices[k]
    BY DEF ToSet
  <2>3. DOMAIN Devices = 1 .. Len(Devices) /\ Len(Devices) \in Nat
    BY DevicesAssumption
  <2> DEFINE S == {j \in 1 .. Len(Devices) : Devices[j].id = b.id}
  <2>4. k \in S
    BY <2>2, <2>3
  <2>5. FindBoard(b.id) = Devices[Min(S)]
    BY <2>4 DEF FindBoard, SelectInSeq
  <2>6. Min(S) \in S
    <3>1. S \subseteq Nat /\ S # {}
      BY <2>3, <2>4
    <3> HIDE DEF S
    <3>. QED BY <3>1, MinOf
  <2>7. Min(S) \in DOMAIN Devices
    BY <2>3, <2>6
  <2>. QED BY <2>1, <2>5, <2>7 DEF ToSet
<1>4. DOMAIN out = {} /\ out \in [DOMAIN out -> Content]
  <2>1. DOMAIN out = {}
    BY <1>2
  <2>2. out = [f \in {} |-> f]
    BY <1>2
  <2>. QED BY <2>1, <2>2
<1>5. Types
  BY <1>2, <1>3, <1>4, EmptyIs DEF Types
<1>6. Begins
  BY <1>2, <1>4 DEF Begins, Works
<1>7. Factory /\ Writing /\ Results /\ Copying
  BY <1>2 DEF Factory, Writing, Results, Copying
<1>. QED BY <1>5, <1>6, <1>7 DEF IInv

-----------------------------------------------------------------------------
(* What board and files determine stays as it is. *)

\* The parts and their sizes.
LEMMA PartsStay ==
    ASSUME UNCHANGED <<board, files>>
    PROVE  /\ Listed' = Listed /\ TotalSize' = TotalSize /\ ListedNames' = ListedNames
           /\ \A k : SizeOfFirst(k)' = SizeOfFirst(k)
<1>1. PartitionTable' = PartitionTable
  BY DEF PartitionTable
<1>2. SoftVersion' = SoftVersion /\ SupportList' = SupportList /\ OsImage' = OsImage
  BY DEF SoftVersion, SupportList, OsImage
<1>3. NeedsExtraPara' = NeedsExtraPara
  BY DEF NeedsExtraPara
<1>4. Bytes("genesis", files.genesis)' = Bytes("genesis", files.genesis)
  OBVIOUS
<1>5. Parts' = Parts
  BY <1>1, <1>2, <1>3, <1>4 DEF Parts
<1>6. Listed' = Listed
  BY <1>5 DEF Listed
<1>7. \A k : SizeOfFirst(k)' = SizeOfFirst(k)
  BY <1>6 DEF SizeOfFirst
<1>8. TotalSize' = TotalSize
  BY <1>6 DEF TotalSize, SizeOfFirst
<1>9. ListedNames' = ListedNames
  BY <1>6 DEF ListedNames
<1>. QED BY <1>6, <1>7, <1>8, <1>9

\* Where they go.
LEMMA PlacesStay ==
    ASSUME UNCHANGED <<board, files>>
    PROVE  /\ FirstIndex' = FirstIndex /\ LastIndex' = LastIndex /\ SysLen' = SysLen
           /\ AssertionsHold' = AssertionsHold
           /\ \A k : /\ Base(k)' = Base(k) /\ FitsFlash(k)' = FitsFlash(k)
                     /\ SysOffset(k)' = SysOffset(k) /\ PartOf(k)' = PartOf(k)
<1>1. Listed' = Listed /\ board' = board
  BY PartsStay
<1>2. FirstIndex' = FirstIndex /\ LastIndex' = LastIndex
  BY DEF FirstIndex, LastIndex
<1>3. \A k : SysOffset(k)' = SysOffset(k)
  BY <1>2 DEF SysOffset
<1>4. SysLen' = SysLen
  BY <1>1, <1>2 DEF SysLen, SysOffset
<1>5. AssertionsHold' = AssertionsHold
  BY <1>1, <1>2 DEF AssertionsHold
<1>6. \A k : Base(k)' = Base(k)
  BY PartsStay DEF Base
<1>7. \A k : FitsFlash(k)' = FitsFlash(k)
  BY <1>1 DEF FitsFlash
<1>8. \A k : PartOf(k)' = PartOf(k)
  BY <1>1 DEF PartOf
<1>. QED BY <1>2, <1>3, <1>4, <1>5, <1>6, <1>7, <1>8

\* What -x and -z are to write.
LEMMA JobsStay ==
    ASSUME UNCHANGED <<board, files>>
    PROVE  \A k : /\ ExtractJob(k)' = ExtractJob(k) /\ ConvertJob(k)' = ConvertJob(k)
                  /\ StageSize(k)' = StageSize(k) /\ Target(k)' = Target(k)
<1>1. Listed' = Listed /\ board' = board
  BY PartsStay
<1>2. \A k : Base(k)' = Base(k)
  BY PlacesStay
<1>3. OsData' = OsData /\ FsData' = FsData /\ OsSlot' = OsSlot /\ FsSlot' = FsSlot
  BY <1>1 DEF OsData, FsData, OsSlot, FsSlot
<1>4. Gap' = Gap
  BY <1>3 DEF Gap
<1>5. \A k : ExtractJob(k)' = ExtractJob(k)
  BY <1>1, <1>2 DEF ExtractJob
<1>6. \A k : ConvertJob(k)' = ConvertJob(k)
  BY <1>2, <1>3, <1>4 DEF ConvertJob
<1>7. \A k : StageSize(k)' = StageSize(k)
  BY <1>3, <1>4 DEF StageSize
<1>8. \A k : Target(k)' = Target(k)
  BY <1>3, <1>4 DEF Target
<1>. QED BY <1>5, <1>6, <1>7, <1>8

\* What is in an image, its hash and what has been written stay as they are.
LEMMA FilesStay ==
    ASSUME UNCHANGED <<board, files, image, table, md5, out, todo>>
    PROVE  /\ \A n : Laid(n)' = Laid(n)
           /\ HashIsRight' = HashIsRight /\ Delivered' = Delivered
           /\ \A n : Extracting(n)' = Extracting(n) /\ Converting(n)' = Converting(n)
<1>1. Listed' = Listed /\ TotalSize' = TotalSize /\ ListedNames' = ListedNames
  BY PartsStay
<1>2. \A k : Base(k)' = Base(k) /\ FitsFlash(k)' = FitsFlash(k)
  BY PlacesStay
<1>3. \A n : Laid(n)' = Laid(n)
  BY <1>1, <1>2 DEF Laid
<1>4. HashIsRight' = HashIsRight
  BY DEF HashIsRight
<1>5. \A o, n : IsStage(o, n)' = IsStage(o, n)
  BY JobsStay DEF IsStage
<1>6. Extracted' = Extracted /\ Converted' = Converted
  BY DEF Extracted, Converted
<1>7. Delivered' = Delivered
  BY <1>1, <1>2, <1>4, <1>5, <1>6 DEF Delivered
<1>8. \A n : Extracting(n)' = Extracting(n)
  BY <1>1, JobsStay DEF Extracting
<1>9. \A n : Converting(n)' = Converting(n)
  BY <1>1, <1>5, JobsStay DEF Converting
<1>. QED BY <1>3, <1>4, <1>7, <1>8, <1>9

\* So does the sysupgrade image.
LEMMA CopyingStays ==
    ASSUME UNCHANGED <<board, files, sys>>
    PROVE  \A j : Copied(j)' = Copied(j) /\ \A k : Within(j, k)' = Within(j, k)
<1>1. Listed' = Listed /\ board' = board /\ sys' = sys
  BY PartsStay
<1>2. \A j : Copied(j)' = Copied(j)
  BY <1>1, PlacesStay DEF Copied
<1>3. \A j, k : Within(j, k)' = Within(j, k)
  BY <1>1, PlacesStay DEF Within
<1>. QED BY <1>2, <1>3

\* A run that gives up leaves everything as it is.
LEMMA FailKeeps ==
    ASSUME IInv, NEW how \in {"error", "abort", "crash"}, Fail(how)
    PROVE  IInv'
<1>1. pc' \in {"error", "abort", "crash"}
  BY DEF Fail
<1>2. Types'
  <2>1. Types /\ UNCHANGED <<board, files, image, table, text, md5, i, todo, out, sys>>
    BY DEF IInv, Fail
  <2>. QED BY <1>1, <2>1 DEF Types
<1>3. Begins'
  BY <1>1 DEF Begins, Works
<1>4. Factory' /\ Writing' /\ Results' /\ Copying'
  BY <1>1 DEF Factory, Writing, Results, Copying
<1>. QED BY <1>2, <1>3, <1>4 DEF IInv

\* A run that goes on without doing anything leaves the types as they are.
LEMMA TypesStay ==
    ASSUME Types, pc' \in {"factory", "tool", "write", "sysupgrade", "copy", "done"},
           UNCHANGED <<board, files, image, table, text, md5, i, todo, out, sys>>
    PROVE  Types'
  BY DEF Types

\* An image without partitions has the size for all of them.
LEMMA EmptyImageIs ==
    ASSUME Inputs
    PROVE  Proper(EmptyImage) /\ EmptyImage.size = \h1814 + TotalSize
<1> DEFINE n == \h1814 + TotalSize
           blank == Blit(Bytes("ff", n), 0, Bytes("length", 4))
<1>1. n \in Nat /\ n >= \h1814
  <2>1. PartsAre(Listed)
    BY PartsOfImage
  <2>2. Len(Listed) \in 0 .. Len(Listed)
    BY <2>1, PartSizes
  <2>3. TotalSize \in Nat
    BY <2>1, <2>2, SizesAdd DEF TotalSize
  <2>. QED BY <2>3
<1>2. "ff" \in Things /\ "length" \in Things /\ "vendor" \in Things
  BY DEF Things, Fills
<1>3. EmptyImage = IF board.vendor = NULL THEN blank ELSE Blit(blank, \h14, Bytes("vendor", 4 + board.vendor))
  BY DEF EmptyImage
<1> HIDE DEF n
<1>4. Proper(Bytes("ff", n)) /\ Bytes("ff", n).size = n
  BY <1>1, <1>2, BytesIs
<1>5. Proper(Bytes("length", 4)) /\ Bytes("length", 4).size = 4
  BY <1>2, BytesIs
<1>6. Proper(blank) /\ blank.size = n
  <2>1. 0 \in Nat /\ 0 + Bytes("length", 4).size <= Bytes("ff", n).size
    BY <1>1, <1>4, <1>5
  <2>. QED BY <1>4, <1>5, <2>1, BlitHolds
<1> HIDE DEF blank
<1>7. CASE board.vendor = NULL
  BY <1>3, <1>6, <1>7 DEF n
<1>8. CASE board.vendor # NULL
  <2>1. board.vendor \in Nat /\ board.vendor + 4 <= \h1000
    BY <1>8, BoardsAre DEF Inputs, BoardIs
  <2>2. 4 + board.vendor \in Nat
    BY <2>1
  <2>3. Proper(Bytes("vendor", 4 + board.vendor)) /\ Bytes("vendor", 4 + board.vendor).size = 4 + board.vendor
    BY <1>2, <2>2, BytesIs
  <2>4. \h14 \in Nat /\ \h14 + Bytes("vendor", 4 + board.vendor).size <= blank.size
    BY <1>1, <1>6, <2>1, <2>3
  <2>5. /\ Proper(Blit(blank, \h14, Bytes("vendor", 4 + board.vendor)))
        /\ Blit(blank, \h14, Bytes("vendor", 4 + board.vendor)).size = blank.size
    BY <1>6, <2>3, <2>4, BlitHolds
  <2>. QED BY <1>3, <1>6, <1>8, <2>5 DEF n
<1>. QED BY <1>7, <1>8

-----------------------------------------------------------------------------
(* Building the factory image. *)

\* While the tool works, the parts are what they should be.
LEMMA WorksOnParts ==
    ASSUME IInv, Works
    PROVE  Inputs /\ PartsAre(Listed)
<1>1. Inputs
  BY DEF IInv, Types, Begins, Inputs
<1>. QED BY <1>1, PartsOfImage

\* The first step: the parts are made.
LEMMA MakePartsKeeps == ASSUME IInv, MakeParts PROVE IInv'
<1>1. /\ pc = "make" /\ UNCHANGED <<board, files, table, text, md5, i, todo, out, sys>>
      /\ image' = (IF pc' = "factory" THEN EmptyImage ELSE image)
      /\ IF TextFits(FlashText(board.partitions)) THEN pc' \in {"factory", "sysupgrade"}
                                                  ELSE pc' = "error"
  BY DEF MakeParts
<1>2. /\ Types /\ table = <<>> /\ text = 0 /\ i = 1 /\ DOMAIN out = {}
  BY <1>1 DEF IInv, Begins
<1>3. CASE pc' = "error"
  <2>1. Types'
    BY <1>1, <1>2, <1>3 DEF Types
  <2>2. Begins' /\ Factory' /\ Writing' /\ Results' /\ Copying'
    BY <1>3 DEF Begins, Works, Factory, Writing, Results, Copying
  <2>. QED BY <2>1, <2>2 DEF IInv
<1>4. CASE pc' \in {"factory", "sysupgrade"}
  <2>1. TextFits(FlashText(board.partitions))
    BY <1>1, <1>4
  <2>2. Inputs
    BY <1>2, <2>1 DEF Types, Inputs
  <2>3. PartsAre(Listed) /\ Proper(EmptyImage) /\ EmptyImage.size = \h1814 + TotalSize
    BY <2>2, PartsOfImage, EmptyImageIs
  <2>4. Types'
    <3>1. Proper(image')
      BY <1>1, <1>2, <2>3 DEF Types
    <3>. QED BY <1>1, <1>2, <1>4, <3>1 DEF Types
  <2>5. Begins'
    BY <1>1, <1>4, <2>1 DEF Begins, Works
  <2>6. Factory'
    <3>1. CASE pc' = "sysupgrade"
      BY <3>1 DEF Factory
    <3>2. CASE pc' = "factory"
      <4>1. image'.size = \h1814 + TotalSize'
        <5>1. image' = EmptyImage /\ TotalSize' = TotalSize
          BY <1>1, <3>2, PartsStay
        <5>. QED BY <5>1, <2>3
      <4>2. Laid(0)'
        <5>1. Len(table') = 0
          BY <1>1, <1>2
        <5>. QED BY <4>1, <5>1 DEF Laid
      <4>3. i' = 1 /\ i' - 1 = 0 /\ text' = 0
        BY <1>1, <1>2
      <4>4. Len(Listed') \in Nat
        BY <1>1, <2>3, PartsStay, PartSizes
      <4>5. i' \in 1 .. Len(Listed') + 1 /\ text' < TABLE_SIZE
        BY <4>3, <4>4 DEF TABLE_SIZE
      <4>6. Laid(i - 1)'
        BY <4>2, <4>3
      <4>. QED BY <3>2, <4>5, <4>6 DEF Factory
    <3>. QED BY <1>4, <3>1, <3>2
  <2>7. Writing' /\ Copying'
    BY <1>4 DEF Writing, Copying
  <2>8. Results'
    <3>1. DOMAIN out' = {}
      BY <1>1, <1>2
    <3>2. ~Extracted' /\ ~Converted'
      BY <3>1 DEF Extracted, Converted
    <3>. QED BY <3>2 DEF Results, Delivered
  <2>. QED BY <2>4, <2>5, <2>6, <2>7, <2>8 DEF IInv
<1>. QED BY <1>1, <1>3, <1>4

\* Part k ends where the next one begins, and within the image.
LEMMA BaseIs ==
    ASSUME PartsAre(Listed), NEW k \in 1 .. Len(Listed)
    PROVE  /\ Base(1) = TABLE_SIZE
           /\ Base(k) \in Nat /\ Base(k) >= TABLE_SIZE /\ Listed[k].data.size \in Nat
           /\ Base(k) + Listed[k].data.size = Base(k + 1)
           /\ Base(k + 1) <= TABLE_SIZE + TotalSize
           /\ \A j \in 1 .. k - 1 : Base(j) + Listed[j].data.size <= Base(k)
<1>1. Len(Listed) \in Nat /\ \A j \in 1 .. Len(Listed) : Listed[j].data.size \in Nat
  BY PartSizes
<1>2. TABLE_SIZE \in Nat
  BY DEF TABLE_SIZE
<1>3. /\ SizeOfFirst(0) = 0
      /\ \A n \in 0 .. Len(Listed) : SizeOfFirst(n) \in Nat /\ SizeOfFirst(n) <= TotalSize
      /\ \A n \in 1 .. Len(Listed) : SizeOfFirst(n) = SizeOfFirst(n - 1) + Listed[n].data.size
      /\ \A m, n \in 0 .. Len(Listed) : m <= n => SizeOfFirst(m) <= SizeOfFirst(n)
  BY SizesAdd
<1>4. Base(1) = TABLE_SIZE
  <2>1. 1 - 1 = 0
    OBVIOUS
  <2>. QED BY <1>2, <1>3, <2>1 DEF Base
<1>5. \A j \in 1 .. Len(Listed) : /\ Base(j) = TABLE_SIZE + SizeOfFirst(j - 1) /\ SizeOfFirst(j - 1) \in Nat
                                  /\ Base(j) + Listed[j].data.size = TABLE_SIZE + SizeOfFirst(j)
  <2>1. SUFFICES ASSUME NEW j \in 1 .. Len(Listed)
                 PROVE  /\ Base(j) = TABLE_SIZE + SizeOfFirst(j - 1) /\ SizeOfFirst(j - 1) \in Nat
                        /\ Base(j) + Listed[j].data.size = TABLE_SIZE + SizeOfFirst(j)
    OBVIOUS
  <2>2. j - 1 \in 0 .. Len(Listed)
    BY <1>1
  <2>3. Base(j) = TABLE_SIZE + SizeOfFirst(j - 1)
    BY DEF Base
  <2>4. SizeOfFirst(j - 1) \in Nat /\ Listed[j].data.size \in Nat
    BY <1>1, <1>3, <2>2
  <2>5. SizeOfFirst(j) = SizeOfFirst(j - 1) + Listed[j].data.size
    BY <1>3
  <2>. QED BY <1>2, <2>3, <2>4, <2>5
<1>6. Base(k + 1) = TABLE_SIZE + SizeOfFirst(k)
  <2>1. (k + 1) - 1 = k
    BY <1>1
  <2>. QED BY <2>1 DEF Base
<1>7. Base(k) \in Nat /\ Base(k) >= TABLE_SIZE /\ Base(k) + Listed[k].data.size = Base(k + 1)
  <2>1. /\ Base(k) = TABLE_SIZE + SizeOfFirst(k - 1) /\ SizeOfFirst(k - 1) \in Nat
        /\ Base(k) + Listed[k].data.size = TABLE_SIZE + SizeOfFirst(k)
    BY <1>5
  <2>. QED BY <1>2, <1>6, <2>1
<1>8. Base(k + 1) <= TABLE_SIZE + TotalSize
  <2>1. k \in 0 .. Len(Listed) /\ Len(Listed) \in 0 .. Len(Listed)
    BY <1>1
  <2>2. SizeOfFirst(k) \in Nat /\ SizeOfFirst(k) <= TotalSize
    BY <1>3, <2>1
  <2>3. TotalSize \in Nat
    BY <1>3, <2>1 DEF TotalSize
  <2>. QED BY <1>2, <1>6, <2>2, <2>3
<1>9. ASSUME NEW j \in 1 .. k - 1 PROVE Base(j) + Listed[j].data.size <= Base(k)
  <2>1. j \in 1 .. Len(Listed) /\ j \in 0 .. Len(Listed) /\ k - 1 \in 0 .. Len(Listed) /\ j <= k - 1
    BY <1>1
  <2>2. SizeOfFirst(j) \in Nat /\ SizeOfFirst(k - 1) \in Nat /\ SizeOfFirst(j) <= SizeOfFirst(k - 1)
    BY <1>3, <2>1
  <2>3. Base(j) + Listed[j].data.size = TABLE_SIZE + SizeOfFirst(j)
    BY <1>5, <2>1
  <2>4. Base(k) = TABLE_SIZE + SizeOfFirst(k - 1)
    BY <1>5
  <2>. QED BY <1>2, <2>2, <2>3, <2>4
<1>. QED BY <1>1, <1>4, <1>7, <1>8, <1>9

\* The size of all parts is a number.
LEMMA TotalIs == ASSUME PartsAre(Listed) PROVE TotalSize \in Nat
<1>1. Len(Listed) \in 0 .. Len(Listed)
  BY PartSizes
<1>. QED BY <1>1, SizesAdd DEF TotalSize

\* Where put_partitions puts the next one.
LEMMA NextBaseIs ==
    ASSUME Types, PartsAre(Listed), NEW n \in Nat, n < Len(Listed), Laid(n)
    PROVE  NextBase = Base(n + 1)
<1>1. Len(table) = n /\ Len(Listed) \in Nat
  BY PartSizes DEF Laid
<1>2. CASE n = 0
  <2>1. table = <<>>
    BY <1>1, <1>2 DEF Types
  <2>2. 1 \in 1 .. Len(Listed) /\ n + 1 = 1
    BY <1>2, PartSizes
  <2>3. Base(1) = TABLE_SIZE
    BY <2>2, BaseIs
  <2>. QED BY <2>1, <2>2, <2>3 DEF NextBase
<1>3. CASE n # 0
  <2>1. n \in 1 .. n /\ n \in 1 .. Len(Listed)
    BY <1>1, <1>3
  <2>2. table # <<>>
    BY <1>1, <1>3
  <2>3. table[n] = P(Listed[n].name, Base(n), Listed[n].data.size)
    BY <2>1 DEF Laid
  <2>4. Last(table).base = Base(n) /\ Last(table).size = Listed[n].data.size
    BY <1>1, <2>3 DEF Last, P
  <2>5. NextBase = Base(n) + Listed[n].data.size
    BY <2>2, <2>4 DEF NextBase
  <2>. QED BY <2>1, <2>5, BaseIs
<1>. QED BY <1>2, <1>3

\* Numbers printed have a length.
LEMMA LineIs ==
    ASSUME NEW name \in PartNames, NEW base \in Nat, NEW size \in Nat
    PROVE  LineLen(8, name, base, size, 3) \in Nat
<1>1. Len(name) \in Nat
  BY TextAssumption
<1>2. \A n \in Nat : HexLen(n) \in Nat
  BY DEF HexLen
<1>3. HexLen(base) \in Nat /\ HexLen(size) \in Nat
  BY <1>2
<1>. QED BY <1>1, <1>3 DEF LineLen

\* One partition: it goes behind the others, and its line into the table.
LEMMA PutPartitionKeeps == ASSUME IInv, PutPartition PROVE IInv'
<1> DEFINE n == i - 1
           p == Listed[i]
           line == LineLen(8, p.name, NextBase, p.data.size, 3)
           printed == Cat(BytesFrom("fwup-ptn", text, line), Bytes("00", 1))
           a == Blit(image, \h1014 + Base(i), p.data)
           c == Blit(a, \h1014 + text, printed)
<1>1. /\ pc = "factory" /\ i <= Len(Listed) /\ i' = i + 1
      /\ UNCHANGED <<board, files, md5, todo, out, sys>>
      /\ image' = Blit(Blit(image, \h1014 + NextBase, p.data), \h1014 + text, printed)
      /\ table' = Append(table, P(p.name, NextBase, p.data.size))
      /\ text' = text + line
      /\ pc' = (IF TextFits(text') THEN pc ELSE "error")
      /\ FitsFlash(i)
  <2>1. /\ pc = "factory" /\ i <= Len(Listed) /\ i' = i + 1
        /\ UNCHANGED <<board, files, md5, todo, out, sys>>
        /\ image' = Blit(Blit(image, \h1014 + NextBase, p.data), \h1014 + text, printed)
        /\ table' = Append(table, P(p.name, NextBase, p.data.size))
        /\ text' = text + line
        /\ pc' = (IF TextFits(text') THEN pc ELSE "error")
    BY DEF PutPartition
  <2>2. /\ Named(board.partitions, Listed[i].name) # 0
        /\ ~TooBig(Listed[i], board.partitions[Named(board.partitions, Listed[i].name)])
    BY DEF PutPartition
  <2>3. Inputs /\ PartsAre(Listed)
    BY <2>1, WorksOnParts DEF Works
  <2>4. i \in 1 .. Len(Listed)
    BY <2>1, <2>3, PartSizes DEF IInv, Factory
  <2>5. Listed[i].data.size \in Nat
    BY <2>3, <2>4, PartSizes
  <2>6. board.partitions[Named(board.partitions, Listed[i].name)].size \in Nat
    <3> DEFINE k == Named(board.partitions, Listed[i].name)
    <3>1. BoardIs(board) /\ Len(board.partitions) \in Nat
      BY <2>3, BoardsAre DEF Inputs, BoardIs
    <3>2. k \in 0 .. Len(board.partitions)
      BY <3>1, NamedIs
    <3>3. k \in 1 .. Len(board.partitions)
      BY <2>2, <3>2
    <3> HIDE DEF k
    <3>4. board.partitions[k].size \in Nat
      BY <3>1, <3>3 DEF BoardIs
    <3>. QED BY <3>4 DEF k
  <2>7. FitsFlash(i)
    BY <2>2, <2>5, <2>6 DEF TooBig, FitsFlash
  <2>. QED BY <2>1, <2>7
<1>2. Types /\ Inputs /\ PartsAre(Listed) /\ Laid(n) /\ text < TABLE_SIZE /\ text \in Nat
  BY <1>1, WorksOnParts DEF Works, IInv, Types, Factory
<1>3. i \in 1 .. Len(Listed) /\ Len(Listed) \in Nat /\ n \in Nat /\ n < Len(Listed) /\ n + 1 = i
  <2>1. i \in 1 .. Len(Listed) + 1 /\ i <= Len(Listed)
    BY <1>1 DEF IInv, Factory
  <2>2. Len(Listed) \in Nat
    BY <1>2, PartSizes
  <2>. QED BY <2>1, <2>2
<1>4. NextBase = Base(i)
  <2> HIDE DEF n
  <2>1. NextBase = Base(n + 1)
    BY <1>2, <1>3, NextBaseIs
  <2>. QED BY <1>3, <2>1
<1>5. /\ p.name \in PartNames /\ Proper(p.data) /\ p.data.size \in Nat
      /\ Base(i) \in Nat /\ Base(i) >= TABLE_SIZE /\ Base(i) + p.data.size = Base(i + 1)
      /\ Base(i + 1) <= TABLE_SIZE + TotalSize
      /\ \A j \in 1 .. i - 1 : Base(j) + Listed[j].data.size <= Base(i)
  BY <1>2, <1>3, BaseIs DEF PartsAre
<1>6. TotalSize \in Nat /\ TABLE_SIZE = \h800
  BY <1>2, TotalIs DEF TABLE_SIZE
<1>7. line \in Nat
  BY <1>4, <1>5, LineIs
<1>8. image' = c
  BY <1>1, <1>4
<1> HIDE DEF n, p, line
<1>9. Proper(printed) /\ printed.size = line + 1
  <2>1. "fwup-ptn" \in Things /\ "00" \in Things
    BY DEF Things, Fills
  <2>2. Proper(BytesFrom("fwup-ptn", text, line)) /\ BytesFrom("fwup-ptn", text, line).size = line
    BY <1>2, <1>7, <2>1, BytesFromIs
  <2>3. Proper(Bytes("00", 1)) /\ Bytes("00", 1).size = 1
    BY <2>1, BytesIs
  <2>. QED BY <2>2, <2>3, CatIs
<1> HIDE DEF printed
<1>10. Proper(image) /\ image.size = \h1814 + TotalSize
  BY <1>2 DEF Types, Laid
<1>11. Proper(a) /\ a.size = image.size /\ Holds(a, \h1014 + Base(i), p.data)
  <2>1. \h1014 + Base(i) \in Nat /\ \h1014 + Base(i) + p.data.size <= image.size
    BY <1>5, <1>6, <1>10
  <2>. QED BY <1>5, <1>10, <2>1, BlitHolds
<1>12. ASSUME NEW j \in 1 .. n PROVE Holds(a, \h1014 + Base(j), Listed[j].data)
  <2>1. Holds(image, \h1014 + Base(j), Listed[j].data)
    BY <1>2 DEF Laid
  <2>2. j \in 1 .. Len(Listed) /\ j \in 1 .. i - 1
    BY <1>3
  <2>3. Base(j) \in Nat /\ Proper(Listed[j].data) /\ Listed[j].data.size \in Nat
    BY <1>2, <2>2, BaseIs, PartSizes
  <2>4. /\ \h1014 + Base(j) \in Nat /\ \h1014 + Base(i) \in Nat
        /\ \h1014 + Base(i) + p.data.size <= image.size
        /\ \h1014 + Base(j) + Listed[j].data.size <= \h1014 + Base(i)
    <3>1. Base(j) + Listed[j].data.size <= Base(i)
      BY <1>5, <2>2
    <3>2. \h1014 + Base(j) + Listed[j].data.size <= \h1014 + Base(i)
      BY <1>5, <2>3, <3>1
    <3>3. \h1014 + Base(i) + p.data.size <= image.size
      BY <1>5, <1>6, <1>10
    <3>. QED BY <1>5, <2>3, <3>2, <3>3
  <2>. QED BY <1>5, <1>10, <2>1, <2>3, <2>4, BlitKeeps
<1> HIDE DEF a
<1>13. \h1014 + text \in Nat /\ \h1014 + text <= a.size
  BY <1>2, <1>6, <1>10, <1>11
<1>14. Proper(c)
  BY <1>9, <1>11, <1>13, BlitIs
<1>15. Types'
  <2>1. P(p.name, NextBase, p.data.size) \in Entry
    BY <1>4, <1>5 DEF P, Entry
  <2>2. table' \in Seq(Entry)
    BY <1>1, <1>2, <2>1 DEF Types, p
  <2>3. i' \in Nat /\ text' \in Nat
    <3>1. i' = i + 1 /\ i \in Nat /\ text' = text + line
      BY <1>1, <1>3 DEF line, p
    <3>. QED BY <1>2, <1>7, <3>1
  <2>4. Proper(image')
    BY <1>8, <1>14
  <2>. QED BY <1>1, <1>2, <2>2, <2>3, <2>4 DEF Types
<1>16. CASE ~TextFits(text')
  <2>1. pc' = "error"
    BY <1>1, <1>16
  <2>2. Begins' /\ Factory' /\ Writing' /\ Results' /\ Copying'
    BY <2>1 DEF Begins, Works, Factory, Writing, Results, Copying
  <2>. QED BY <1>15, <2>2 DEF IInv
<1>17. CASE TextFits(text')
  <2>1. pc' = "factory" /\ text' < TABLE_SIZE /\ text + line < TABLE_SIZE
    BY <1>1, <1>17 DEF TextFits, line, p
  <2>2. \h1014 + text + printed.size <= \h1814 /\ \h1014 + text + printed.size <= a.size
    BY <1>2, <1>6, <1>7, <1>9, <1>10, <1>11, <2>1
  <2>3. c.size = a.size
    BY <1>9, <1>11, <1>13, <2>2, BlitHolds
  <2>4. ASSUME NEW j \in 1 .. i PROVE Holds(c, \h1014 + Base(j), Listed[j].data)
    <3>1. Holds(a, \h1014 + Base(j), Listed[j].data)
      <4>1. CASE j = i
        BY <1>11, <4>1 DEF p
      <4>2. CASE j # i
        <5>1. j \in 1 .. n
          BY <1>3, <4>2
        <5>. QED BY <1>12, <5>1
      <4>. QED BY <4>1, <4>2
    <3>2. j \in 1 .. Len(Listed)
      BY <1>3
    <3>3. Base(j) \in Nat /\ Base(j) >= TABLE_SIZE /\ Proper(Listed[j].data)
      BY <1>2, <3>2, BaseIs, PartSizes
    <3>4. \h1014 + Base(j) \in Nat /\ \h1014 + text + printed.size <= \h1014 + Base(j)
      BY <1>6, <2>2, <3>3, <1>2, <1>7, <1>9
    <3>. QED BY <1>9, <1>11, <1>13, <2>2, <3>1, <3>3, <3>4, BlitKeeps
  <2> HIDE DEF c
  <2>5. PICK m \in Nat : m = i
    BY <1>3
  <2>6. Laid(m)'
    <3>1. UNCHANGED <<board, files>>
      BY <1>1
    <3>2. image'.size = \h1814 + TotalSize'
      BY <1>8, <1>10, <1>11, <2>3, <3>1, PartsStay
    <3>3. Len(table) = n /\ table \in Seq(Entry)
      BY <1>2 DEF Laid, Types
    <3>4. Len(table') = i /\ table'[i] = P(Listed[i].name, Base(i), Listed[i].data.size)
          /\ \A j \in 1 .. n : table'[j] = table[j]
      BY <1>1, <1>3, <1>4, <3>3 DEF p
    <3>5. ASSUME NEW j \in 1 .. i
          PROVE  table'[j] = P(Listed[j].name, Base(j), Listed[j].data.size) /\ FitsFlash(j)
      <4>1. CASE j = i
        BY <1>1, <3>4, <4>1
      <4>2. CASE j # i
        <5>1. j \in 1 .. n
          BY <1>3, <4>2
        <5>. QED BY <1>2, <3>4, <5>1 DEF Laid
      <4>. QED BY <4>1, <4>2
    <3>6. \A j \in 1 .. i : /\ table'[j] = P(Listed'[j].name, Base(j)', Listed'[j].data.size)
                            /\ Holds(image', \h1014 + Base(j)', Listed'[j].data)
                            /\ FitsFlash(j)'
      BY <1>8, <2>4, <3>1, <3>5, PartsStay, PlacesStay
    <3>7. /\ Len(table') = m
          /\ \A j \in 1 .. m : /\ table'[j] = P(Listed'[j].name, Base(j)', Listed'[j].data.size)
                               /\ Holds(image', \h1014 + Base(j)', Listed'[j].data)
                               /\ FitsFlash(j)'
      BY <2>5, <3>4, <3>6
    <3>. QED BY ONLY <3>2, <3>7 DEF Laid
  <2>7. Factory'
    <3>1. i' - 1 = m /\ i' \in 1 .. Len(Listed) + 1 /\ Listed' = Listed
      BY <1>1, <1>3, <2>5, PartsStay
    <3>2. Laid(i - 1)'
      BY <2>6, <3>1
    <3>. QED BY <2>1, <3>1, <3>2 DEF Factory
  <2>8. Begins'
    BY <1>1, <1>2, <2>1 DEF Begins, Inputs
  <2>9. Writing' /\ Results' /\ Copying'
    BY <2>1 DEF Writing, Results, Copying
  <2>. QED BY <1>15, <2>7, <2>8, <2>9 DEF IInv
<1>. QED BY <1>16, <1>17

\* A partition that does not fit.
LEMMA PutPartitionFailsKeeps == ASSUME IInv, PutPartitionFails PROVE IInv'
<1>1. Fail("abort") \/ Fail("error")
  BY DEF PutPartitionFails
<1>. QED BY <1>1, FailKeeps

\* The hash: it leaves what is behind it.
LEMMA FactoryDoneKeeps == ASSUME IInv, FactoryDone PROVE IInv'
<1> DEFINE hash == Bytes("md5", 16)
           salt == Bytes("salt", 16)
           rest == Slice(image, \h14, image.size - \h14)
<1>1. /\ pc = "factory" /\ i > Len(Listed) /\ pc' = "tool"
      /\ md5' = Hashed(image) /\ image' = Blit(image, 4, hash)
      /\ UNCHANGED <<board, files, table, text, i, todo, out, sys>>
  BY DEF FactoryDone
<1>2. Inputs /\ PartsAre(Listed) /\ Types
  BY <1>1, WorksOnParts DEF Works, IInv
<1>3. PICK n \in Nat : n = Len(Listed) /\ i - 1 = n /\ Laid(n)
  <2>1. Len(Listed) \in Nat
    BY <1>2, PartSizes
  <2>2. i \in 1 .. Len(Listed) + 1 /\ Laid(i - 1)
    BY <1>1 DEF IInv, Factory
  <2>3. i - 1 = Len(Listed)
    BY <1>1, <2>1, <2>2
  <2>. QED BY <2>1, <2>2, <2>3
<1>4. Proper(image) /\ image.size = \h1814 + TotalSize /\ TotalSize \in Nat
  BY <1>2, <1>3, TotalIs DEF Types, Laid
<1>5. image.size \in Nat /\ image.size - \h14 \in Nat /\ \h14 \in Nat /\ 4 + 16 <= image.size
      /\ image.size > \h14
  BY <1>4
<1>6. Proper(hash) /\ hash.size = 16 /\ Proper(salt) /\ salt.size = 16
  <2>1. "md5" \in Things /\ "salt" \in Things /\ 16 \in Nat
    BY DEF Things
  <2>. QED BY <2>1, BytesIs
<1> HIDE DEF hash, salt
<1>7. /\ Proper(rest) /\ rest.size = image.size - \h14
      /\ \A k \in 0 .. rest.size - 1 : Byte(rest, k) = Byte(image, \h14 + k)
  <2>1. /\ Proper(rest)
        /\ rest.size = IF image.size <= \h14 THEN 0
                       ELSE IF image.size - \h14 <= image.size - \h14 THEN image.size - \h14 ELSE image.size - \h14
        /\ \A k \in 0 .. rest.size - 1 : Byte(rest, k) = Byte(image, \h14 + k)
    <3>1. PICK w \in Nat : w = image.size - \h14
      BY <1>5
    <3>2. \h14 \in Nat /\ rest = Slice(image, \h14, w)
      BY <3>1
    <3> HIDE DEF rest
    <3>0. Proper(image) /\ \h14 \in Nat
      BY <1>4
    <3>3. /\ Proper(Slice(image, \h14, w))
          /\ Slice(image, \h14, w).size = IF image.size <= \h14 THEN 0
                                         ELSE IF w <= image.size - \h14 THEN w ELSE image.size - \h14
          /\ \A k \in 0 .. Slice(image, \h14, w).size - 1 :
                Byte(Slice(image, \h14, w), k) = Byte(image, \h14 + k)
      BY <3>0, SliceIs
    <3>. QED BY <3>1, <3>2, <3>3
  <2>2. rest.size = image.size - \h14
    BY <1>5, <2>1
  <2>. QED BY <2>1, <2>2
<1> HIDE DEF rest
<1>8. md5' = Cat(salt, rest)
  BY <1>1 DEF Hashed, salt, rest
<1>9. /\ Proper(md5') /\ md5'.size = 16 + rest.size
      /\ \A k \in 0 .. 15 : Byte(md5', k) = Byte(salt, k)
      /\ \A k \in 0 .. rest.size - 1 : Byte(md5', 16 + k) = Byte(rest, k)
  <2>1. /\ Proper(Cat(salt, rest)) /\ Cat(salt, rest).size = salt.size + rest.size
        /\ \A k \in 0 .. salt.size - 1 : Byte(Cat(salt, rest), k) = Byte(salt, k)
        /\ \A k \in 0 .. rest.size - 1 : Byte(Cat(salt, rest), salt.size + k) = Byte(rest, k)
    BY <1>6, <1>7, CatIs
  <2>2. \A k \in 0 .. 15 : k \in 0 .. 16 - 1
    OBVIOUS
  <2>. QED BY <1>6, <1>8, <2>1, <2>2
<1>10. /\ Proper(image') /\ image'.size = image.size
       /\ \A k \in \h14 .. image.size - 1 : Byte(image', k) = Byte(image, k)
  <2>1. 4 \in Nat /\ 4 <= image.size /\ 4 + hash.size <= image.size /\ 4 + hash.size = \h14
    BY <1>5, <1>6
  <2>2. /\ Proper(Blit(image, 4, hash))
        /\ 4 + hash.size <= image.size => Blit(image, 4, hash).size = image.size
        /\ \A k \in 4 + hash.size .. image.size - 1 : Byte(Blit(image, 4, hash), k) = Byte(image, k)
    <3>1. Proper(image) /\ Proper(hash) /\ 4 \in Nat /\ 4 <= image.size
      BY <1>4, <1>6, <2>1
    <3>2. Proper(Blit(image, 4, hash))
      BY ONLY <3>1, BlitIs
    <3>3. 4 + hash.size <= image.size => Blit(image, 4, hash).size = image.size
      BY ONLY <3>1, BlitIs
    <3>4. \A k \in 4 + hash.size .. image.size - 1 : Byte(Blit(image, 4, hash), k) = Byte(image, k)
      BY ONLY <3>1, BlitIs
    <3>. QED BY <3>2, <3>3, <3>4
  <2>. QED BY <1>1, <2>1, <2>2
<1>11. Types'
  BY <1>1, <1>2, <1>9, <1>10 DEF Types
<1>12. HashIsRight'
  <2> DEFINE r == Slice(image', \h14, image'.size)
  <2>1. /\ Proper(r) /\ r.size = rest.size
        /\ \A k \in 0 .. r.size - 1 : Byte(r, k) = Byte(image', \h14 + k)
    <3>1. /\ Proper(r)
          /\ r.size = IF image'.size <= \h14 THEN 0
                      ELSE IF image'.size <= image'.size - \h14 THEN image'.size ELSE image'.size - \h14
          /\ \A k \in 0 .. r.size - 1 : Byte(r, k) = Byte(image', \h14 + k)
      <4>1. Proper(image') /\ \h14 \in Nat
        BY <1>10
      <4>2. PICK w \in Nat : w = image'.size
        BY <1>5, <1>10
      <4>3. r = Slice(image', \h14, w)
        BY <4>2
      <4> HIDE DEF r
      <4>4. /\ Proper(Slice(image', \h14, w))
            /\ Slice(image', \h14, w).size = IF image'.size <= \h14 THEN 0
                                            ELSE IF w <= image'.size - \h14 THEN w ELSE image'.size - \h14
            /\ \A k \in 0 .. Slice(image', \h14, w).size - 1 :
                  Byte(Slice(image', \h14, w), k) = Byte(image', \h14 + k)
        BY <4>1, SliceIs
      <4>. QED BY <4>2, <4>3, <4>4
    <3>2. r.size = rest.size
      BY <1>5, <1>7, <1>10, <3>1
    <3>. QED BY <3>1, <3>2
  <2> HIDE DEF r
  <2>2. /\ Proper(Cat(salt, r)) /\ Cat(salt, r).size = 16 + r.size
        /\ \A k \in 0 .. 15 : Byte(Cat(salt, r), k) = Byte(salt, k)
        /\ \A k \in 0 .. r.size - 1 : Byte(Cat(salt, r), 16 + k) = Byte(r, k)
    <3>1. /\ Proper(Cat(salt, r)) /\ Cat(salt, r).size = salt.size + r.size
          /\ \A k \in 0 .. salt.size - 1 : Byte(Cat(salt, r), k) = Byte(salt, k)
          /\ \A k \in 0 .. r.size - 1 : Byte(Cat(salt, r), salt.size + k) = Byte(r, k)
      BY <1>6, <2>1, CatIs
    <3>2. \A k \in 0 .. 15 : k \in 0 .. 16 - 1
      OBVIOUS
    <3>. QED BY <1>6, <3>1, <3>2
  <2>3. ASSUME NEW k \in 0 .. md5'.size - 1 PROVE Byte(md5', k) = Byte(Cat(salt, r), k)
    <3>1. rest.size \in Nat /\ k \in Nat /\ k < 16 + rest.size
      BY <1>5, <1>7, <1>9
    <3>2. CASE k < 16
      BY <1>9, <2>2, <3>1, <3>2
    <3>3. CASE k >= 16
      <4>1. k - 16 \in 0 .. rest.size - 1 /\ 16 + (k - 16) = k /\ \h14 + (k - 16) \in \h14 .. image.size - 1
        BY <1>5, <1>7, <3>1, <3>3
      <4>2. Byte(md5', k) = Byte(rest, k - 16) /\ Byte(Cat(salt, r), k) = Byte(r, k - 16)
        BY <1>9, <2>1, <2>2, <4>1
      <4>3. Byte(rest, k - 16) = Byte(image, \h14 + (k - 16)) /\ Byte(r, k - 16) = Byte(image', \h14 + (k - 16))
        BY <1>7, <2>1, <4>1
      <4>. QED BY <1>10, <4>1, <4>2, <4>3
    <3>. QED BY <3>1, <3>2, <3>3
  <2>4. md5'.size = Cat(salt, r).size
    BY <1>9, <2>1, <2>2
  <2>5. Same(md5', Cat(salt, r))
    BY <1>9, <2>2, <2>3, <2>4, SameIs
  <2>. QED BY <2>5 DEF HashIsRight, r, salt
<1>13. Laid(n)'
  <2>1. \A j \in 1 .. n : Holds(image, \h1014 + Base(j), Listed[j].data)
    BY <1>3 DEF Laid
  <2>2. ASSUME NEW j \in 1 .. n PROVE Holds(image', \h1014 + Base(j), Listed[j].data)
    <3>1. Proper(Listed[j].data) /\ Base(j) \in Nat
      BY <1>2, <1>3, BaseIs, PartSizes
    <3>2. 4 \in Nat /\ \h1014 + Base(j) \in Nat /\ 4 + hash.size <= image.size
          /\ 4 + hash.size <= \h1014 + Base(j)
      BY <1>5, <1>6, <3>1
    <3>3. Holds(Blit(image, 4, hash), \h1014 + Base(j), Listed[j].data)
      BY <1>4, <1>6, <2>1, <3>1, <3>2, BlitKeeps
    <3>. QED BY <1>1, <3>3
  <2>3. UNCHANGED <<board, files, table>>
    BY <1>1
  <2>4. /\ image'.size = \h1814 + TotalSize'
        /\ Len(table') = n
        /\ \A j \in 1 .. n : /\ table'[j] = P(Listed'[j].name, Base(j)', Listed'[j].data.size)
                             /\ Holds(image', \h1014 + Base(j)', Listed'[j].data)
                             /\ FitsFlash(j)'
    BY <1>3, <1>4, <1>10, <2>2, <2>3, PartsStay, PlacesStay DEF Laid
  <2>. QED BY ONLY <2>4 DEF Laid
<1>14. Factory'
  <2>1. Len(Listed') = n
    BY <1>1, <1>3, PartsStay
  <2>2. Laid(Len(Listed))'
    BY <1>13, <2>1
  <2>. QED BY <1>1, <1>12, <2>2 DEF Factory
<1>15. Begins'
  BY <1>1, <1>2 DEF Begins, Inputs
<1>16. Writing' /\ Results' /\ Copying'
  BY <1>1 DEF Writing, Results, Copying
<1>. QED BY <1>11, <1>14, <1>15, <1>16 DEF IInv

-----------------------------------------------------------------------------
(* Taking an image apart and converting it. *)

\* What is in an image and its hash stay as they are.
LEMMA ImageStays ==
    ASSUME UNCHANGED <<board, files, image, table, md5>>
    PROVE  HashIsRight' = HashIsRight /\ \A n : Laid(n)' = Laid(n)
<1>1. Listed' = Listed /\ TotalSize' = TotalSize
  BY PartsStay
<1>2. \A k : Base(k)' = Base(k) /\ FitsFlash(k)' = FitsFlash(k)
  BY PlacesStay
<1>3. \A n : Laid(n)' = Laid(n)
  BY <1>1, <1>2 DEF Laid
<1>4. HashIsRight' = HashIsRight
  BY DEF HashIsRight
<1>. QED BY <1>3, <1>4

\* The table that is read back is that of the parts.
LEMMA TableIs ==
    ASSUME Types, PartsAre(Listed), Laid(Len(Listed))
    PROVE  /\ DOMAIN table = 1 .. Len(Listed) /\ Len(table) = Len(Listed)
           /\ \A k \in 1 .. Len(Listed) :
                 table[k].name = Listed[k].name /\ table[k].base = Base(k)
                 /\ table[k].size = Listed[k].data.size
<1>1. Len(table) = Len(Listed) /\ DOMAIN table = 1 .. Len(table)
  BY DEF Types, Laid
<1>2. \A k \in 1 .. Len(Listed) : table[k] = P(Listed[k].name, Base(k), Listed[k].data.size)
  BY DEF Laid
<1>3. \A name, base, size : /\ P(name, base, size).name = name /\ P(name, base, size).base = base
                            /\ P(name, base, size).size = size
  BY DEF P
<1>. QED BY <1>1, <1>2, <1>3

\* The jobs of -x.
LEMMA ExtractJobsAre ==
    ASSUME Types, PartsAre(Listed), Laid(Len(Listed))
    PROVE  /\ ExtractJobs \in Seq(Job) /\ Len(ExtractJobs) = Len(Listed)
           /\ \A k \in 1 .. Len(Listed) : ExtractJobs[k] = ExtractJob(k)
<1>1. /\ DOMAIN table = 1 .. Len(Listed)
      /\ \A k \in 1 .. Len(Listed) : table[k].name = Listed[k].name /\ table[k].base = Base(k)
                                     /\ table[k].size = Listed[k].data.size
  BY TableIs
<1>2. Len(Listed) \in Nat
  BY PartSizes
<1>3. ExtractJobs = [k \in 1 .. Len(Listed) |-> ExtractJob(k)]
  BY <1>1 DEF ExtractJobs, ExtractJob
<1>4. ASSUME NEW k \in 1 .. Len(Listed) PROVE ExtractJob(k) \in Job
  <2>1. Listed[k].name \in PartNames /\ Base(k) \in Nat /\ Listed[k].data.size \in Nat
    BY BaseIs DEF PartsAre
  <2>. QED BY <2>1 DEF ExtractJob, Job
<1>. QED BY <1>2, <1>3, <1>4

\* The names of the parts are those of the files.
LEMMA Extracts == ASSUME IInv, Extract PROVE IInv'
<1>1. /\ pc = "tool" /\ todo' = ExtractJobs /\ pc' = "write"
      /\ out' = [f \in {table[k].name : k \in DOMAIN table} |-> Empty]
      /\ UNCHANGED <<board, files, image, table, text, md5, i, sys>>
  BY DEF Extract
<1>2. Inputs /\ PartsAre(Listed) /\ Types
  BY <1>1, WorksOnParts DEF Works, IInv
<1>3. Laid(Len(Listed)) /\ HashIsRight
  BY <1>1 DEF IInv, Factory
<1>4. {table[k].name : k \in DOMAIN table} = ListedNames
  BY <1>2, <1>3, TableIs DEF ListedNames
<1>5. out' = [f \in ListedNames |-> Empty]
  BY <1>1, <1>4
<1>6. /\ ExtractJobs \in Seq(Job) /\ Len(ExtractJobs) = Len(Listed)
      /\ \A k \in 1 .. Len(Listed) : ExtractJobs[k] = ExtractJob(k)
  BY <1>2, <1>3, ExtractJobsAre
<1>7. Types'
  <2>1. Empty \in Content /\ Proper(Empty)
    BY EmptyIs, ProperIsWhole
  <2>2. DOMAIN out' = ListedNames /\ out' \in [DOMAIN out' -> Content]
        /\ \A f \in DOMAIN out' : Proper(out'[f])
    BY <1>5, <2>1
  <2>. QED BY <1>1, <1>2, <1>6, <2>2 DEF Types
<1>8. Begins'
  BY <1>1, <1>2 DEF Begins, Inputs
<1>9. Factory'
  <2>1. UNCHANGED <<board, files, image, table, md5>> /\ Listed' = Listed
    BY <1>1, PartsStay
  <2>2. PICK n : n = Len(Listed)
    OBVIOUS
  <2>3. Laid(n)' /\ HashIsRight' /\ n = Len(Listed')
    BY <1>3, <2>1, <2>2, ImageStays
  <2>4. Laid(Len(Listed))'
    BY <2>3
  <2>. QED BY <1>1, <2>3, <2>4 DEF Factory
<1>10. Writing'
  <2>1. Listed' = Listed /\ ListedNames' = ListedNames /\ \A k : ExtractJob(k)' = ExtractJob(k)
    BY <1>1, PartsStay, JobsStay
  <2>2. Len(Listed) \in Nat
    BY <1>2, PartSizes
  <2>3. Len(todo') = Len(Listed') /\ 0 + Len(todo') = Len(Listed')
    BY <1>1, <1>6, <2>1, <2>2
  <2>4. \A j \in 1 .. Len(todo') : 0 + j = j /\ todo'[j] = ExtractJob(0 + j)'
    BY <1>1, <1>6, <2>1, <2>2
  <2>5. \A k \in 1 .. Len(Listed') : Listed'[k].name \in ListedNames /\ ~(k <= 0)
    BY <2>1, <2>2 DEF ListedNames
  <2>6. \A k \in 1 .. Len(Listed') : out'[Listed'[k].name].size = 0
    BY <1>5, <2>5, EmptyIs
  <2>7. Extracting(0)'
    BY <1>5, <2>1, <2>3, <2>4, <2>5, <2>6 DEF Extracting
  <2>. QED BY <2>7 DEF Writing
<1>11. Results' /\ Copying'
  BY <1>1 DEF Results, Copying
<1>. QED BY <1>7, <1>8, <1>9, <1>10, <1>11 DEF IInv

\* The os-image and the file-system have places in flash.
LEMMA SlotsAre ==
    ASSUME Inputs
    PROVE  /\ OsSlot.size \in Nat /\ FsSlot.size \in Nat /\ Gap \in Nat /\ OsSlot.size <= Gap
<1> DEFINE os == Named(board.partitions, "os-image")
           fs == Named(board.partitions, "file-system")
<1>1. BoardIs(board) /\ InOrder(board) /\ Len(board.partitions) \in Nat
  BY BoardsAre DEF Inputs, BoardIs
<1>2. 0 < os /\ os < fs
  BY SysupgradeAssumption DEF Inputs
<1>3. os \in 0 .. Len(board.partitions) /\ fs \in 0 .. Len(board.partitions)
  BY <1>1, NamedIs
<1> HIDE DEF os, fs
<1>4. os \in 1 .. Len(board.partitions) /\ fs \in 1 .. Len(board.partitions)
  BY <1>1, <1>2, <1>3
<1>5. /\ board.partitions[os].base \in Nat /\ board.partitions[os].size \in Nat
      /\ board.partitions[fs].base \in Nat /\ board.partitions[fs].size \in Nat
      /\ board.partitions[os].base + board.partitions[os].size <= board.partitions[fs].base
  <2>1. \A k \in 1 .. Len(board.partitions) :
           board.partitions[k].base \in Nat /\ board.partitions[k].size \in Nat
    BY <1>1 DEF BoardIs
  <2>2. board.partitions[os].base + board.partitions[os].size <= board.partitions[fs].base
    BY <1>1, <1>2, <1>4 DEF InOrder
  <2>. QED BY <1>4, <2>1, <2>2
<1>6. OsSlot = board.partitions[os] /\ FsSlot = board.partitions[fs]
  BY DEF OsSlot, FsSlot, os, fs
<1>. QED BY <1>5, <1>6 DEF Gap

\* An image that can be converted has all eight parts, and the two have room.
LEMMA ConvertsEight ==
    ASSUME Types, Inputs, PartsAre(Listed), Laid(Len(Listed)), Named(table, "file-system") # 0
    PROVE  /\ Len(Listed) = 8
           /\ Named(table, "os-image") = 4 /\ Named(table, "file-system") = 8
           /\ FitsFlash(4) /\ FitsFlash(8)
           /\ OsData.size \in Nat /\ OsData.size <= OsSlot.size
           /\ FsData.size \in Nat /\ FsData.size <= FsSlot.size
<1>1. /\ Len(table) = Len(Listed) /\ Len(Listed) \in Nat
      /\ \A k \in 1 .. Len(Listed) : table[k].name = Listed[k].name
  BY TableIs, PartSizes
<1>2. Len(table) \in Nat
  BY <1>1
<1>3. /\ Len(Listed) \in {4, 8} /\ Listed[4].name = "os-image"
      /\ Len(Listed) = 8 => Listed[8].name = "file-system"
      /\ \A k \in 1 .. Len(Listed) : Listed[k].name = "file-system" => k = 8
      /\ \A j, k \in 1 .. Len(Listed) : Listed[j].name = Listed[k].name => j = k
  BY DEF PartsAre
<1>4. Named(table, "file-system") = 8 /\ Len(Listed) = 8
  <2> DEFINE k == Named(table, "file-system")
  <2>1. k \in 0 .. Len(table) /\ (k # 0 => table[k].name = "file-system")
    BY <1>2, NamedIs
  <2>2. k \in 1 .. Len(Listed) /\ table[k].name = "file-system"
    BY <1>1, <2>1
  <2> HIDE DEF k
  <2>3. Listed[k].name = "file-system"
    BY <1>1, <2>2
  <2>4. k = 8
    BY <1>3, <2>2, <2>3
  <2>5. Len(Listed) = 8
    BY <1>3, <2>2, <2>4
  <2>. QED BY <2>4, <2>5 DEF k
<1>5. Named(table, "os-image") = 4
  <2>1. 4 \in 1 .. Len(table) /\ table[4].name = "os-image"
    BY <1>1, <1>3, <1>4
  <2>2. \A j \in 1 .. Len(table) : table[j].name = table[4].name => j = 4
    BY <1>1, <1>3, <2>1
  <2>. QED BY <1>2, <2>1, <2>2, NamedIsOnly
<1>6. FitsFlash(4) /\ FitsFlash(8)
  BY <1>4 DEF Laid
<1>7. OsData.size \in Nat /\ FsData.size \in Nat
  BY <1>4, PartSizes DEF OsData, FsData
<1>8. OsData.size <= OsSlot.size /\ FsData.size <= FsSlot.size
  BY <1>3, <1>4, <1>6 DEF FitsFlash, OsData, FsData, OsSlot, FsSlot
<1>. QED BY <1>4, <1>5, <1>6, <1>7, <1>8

\* The jobs of -z.
LEMMA ConvertJobsAre ==
    ASSUME Types, Inputs, PartsAre(Listed), Laid(Len(Listed)), Named(table, "file-system") # 0
    PROVE  /\ ConvertJobs \in Seq(Job) /\ Len(ConvertJobs) = 5
           /\ \A k \in 1 .. 5 : ConvertJobs[k] = ConvertJob(k)
<1> DEFINE job(op, at, size) == [op |-> op, file |-> "sysupgrade", at |-> at, size |-> size]
<1>1. /\ Len(Listed) = 8 /\ Named(table, "os-image") = 4 /\ Named(table, "file-system") = 8
      /\ OsData.size \in Nat /\ OsData.size <= OsSlot.size
      /\ FsData.size \in Nat /\ FsData.size <= FsSlot.size
  BY ConvertsEight
<1>2. 4 \in 1 .. Len(Listed) /\ 8 \in 1 .. Len(Listed)
  BY <1>1
<1>3. /\ table[4].base = Base(4) /\ table[4].size = OsData.size
      /\ table[8].base = Base(8) /\ table[8].size = FsData.size
  BY <1>2, TableIs DEF OsData, FsData
<1>4. FillSize(OsSlot, table[4]) = OsSlot.size - OsData.size
      /\ FillSize(FsSlot, table[8]) = FsSlot.size - FsData.size
  BY <1>3 DEF FillSize
<1>5. ConvertJobs = <<job("copy", table[4].base, table[4].size),
                      job("ff", 0, FillSize(OsSlot, table[4])),
                      job("seek", FsSlot.base - OsSlot.base, 0),
                      job("copy", table[8].base, table[8].size),
                      job("ff", 0, FillSize(FsSlot, table[8]))>>
  BY <1>1 DEF ConvertJobs, OsSlot, FsSlot
<1>6. ConvertJobs = <<job("copy", Base(4), OsData.size), job("ff", 0, OsSlot.size - OsData.size),
                      job("seek", Gap, 0),
                      job("copy", Base(8), FsData.size), job("ff", 0, FsSlot.size - FsData.size)>>
  BY <1>3, <1>4, <1>5 DEF Gap
<1>7. /\ Base(4) \in Nat /\ Base(8) \in Nat /\ Gap \in Nat
      /\ OsSlot.size - OsData.size \in Nat /\ FsSlot.size - FsData.size \in Nat
  <2>1. Base(4) \in Nat /\ Base(8) \in Nat
    BY <1>2, BaseIs
  <2>2. Gap \in Nat /\ OsSlot.size \in Nat /\ FsSlot.size \in Nat
    BY SlotsAre
  <2>. QED BY <1>1, <2>1, <2>2
<1>8. /\ ConvertJob(1) = job("copy", Base(4), OsData.size)
      /\ ConvertJob(2) = job("ff", 0, OsSlot.size - OsData.size)
      /\ ConvertJob(3) = job("seek", Gap, 0)
      /\ ConvertJob(4) = job("copy", Base(8), FsData.size)
      /\ ConvertJob(5) = job("ff", 0, FsSlot.size - FsData.size)
  BY DEF ConvertJob
<1>9. \A op \in {"copy", "ff", "seek"}, at, size \in Nat : job(op, at, size) \in Job
  BY DEF Job
<1> HIDE DEF job
<1>10. /\ ConvertJob(1) \in Job /\ ConvertJob(2) \in Job /\ ConvertJob(3) \in Job
       /\ ConvertJob(4) \in Job /\ ConvertJob(5) \in Job
  BY <1>1, <1>7, <1>8, <1>9
<1>11. ConvertJobs = <<ConvertJob(1), ConvertJob(2), ConvertJob(3), ConvertJob(4), ConvertJob(5)>>
  BY <1>6, <1>8
<1>. QED BY <1>10, <1>11

\* What there is to do at the beginning of a conversion.
LEMMA Converts == ASSUME IInv, Convert PROVE IInv'
<1>1. /\ pc = "tool" /\ Named(table, "file-system") # 0 /\ todo' = ConvertJobs /\ pc' = "write"
      /\ out' = [f \in {"sysupgrade"} |-> Empty]
      /\ UNCHANGED <<board, files, image, table, text, md5, i, sys>>
  BY DEF Convert
<1>2. Inputs /\ PartsAre(Listed) /\ Types
  BY <1>1, WorksOnParts DEF Works, IInv
<1>3. Laid(Len(Listed)) /\ HashIsRight
  BY <1>1 DEF IInv, Factory
<1>4. Len(Listed) = 8
  BY <1>1, <1>2, <1>3, ConvertsEight
<1>5. /\ ConvertJobs \in Seq(Job) /\ Len(ConvertJobs) = 5
      /\ \A k \in 1 .. 5 : ConvertJobs[k] = ConvertJob(k)
  BY <1>1, <1>2, <1>3, ConvertJobsAre
<1>6. Types'
  <2>1. Empty \in Content /\ Proper(Empty)
    BY EmptyIs, ProperIsWhole
  <2>2. DOMAIN out' = {"sysupgrade"} /\ out' \in [DOMAIN out' -> Content]
        /\ \A f \in DOMAIN out' : Proper(out'[f])
    BY <1>1, <2>1
  <2>. QED BY <1>1, <1>2, <1>5, <2>2 DEF Types
<1>7. Begins'
  BY <1>1, <1>2 DEF Begins, Inputs
<1>8. Factory'
  <2>1. UNCHANGED <<board, files, image, table, md5>> /\ Listed' = Listed
    BY <1>1, PartsStay
  <2>2. PICK n : n = Len(Listed)
    OBVIOUS
  <2>3. Laid(n)' /\ HashIsRight' /\ n = Len(Listed')
    BY <1>3, <2>1, <2>2, ImageStays
  <2>4. Laid(Len(Listed))'
    BY <2>3
  <2>. QED BY <1>1, <2>3, <2>4 DEF Factory
<1>9. Writing'
  <2>1. Listed' = Listed /\ \A k : ConvertJob(k)' = ConvertJob(k) /\ StageSize(k)' = StageSize(k)
    BY <1>1, PartsStay, JobsStay
  <2>2. Len(todo') = 5 /\ 0 + Len(todo') = 5
    BY <1>1, <1>5
  <2>3. \A j \in 1 .. Len(todo') : todo'[j] = ConvertJob(0 + j)'
    <3>1. \A j \in 1 .. 5 : 0 + j = j
      OBVIOUS
    <3>. QED BY <1>1, <1>5, <2>1, <2>2, <3>1
  <2>4. out'["sysupgrade"].size = 0 /\ out'["sysupgrade"].size = StageSize(0)'
    BY <1>1, <2>1, EmptyIs DEF StageSize
  <2>5. DOMAIN out' = {"sysupgrade"} /\ Len(Listed') = 8
    BY <1>1, <1>4, <2>1
  <2>6. IsStage(out["sysupgrade"], 0)'
    BY <2>4 DEF IsStage
  <2>7. Converting(0)'
    BY <2>2, <2>3, <2>5, <2>6 DEF Converting
  <2>. QED BY <2>7 DEF Writing
<1>10. Results' /\ Copying'
  BY <1>1 DEF Results, Copying
<1>. QED BY <1>6, <1>7, <1>8, <1>9, <1>10 DEF IInv

\* There is nothing to convert.
LEMMA ConvertFailsKeeps == ASSUME IInv, ConvertFails PROVE IInv'
  BY FailKeeps DEF ConvertFails

\* What a job writes is as long as it says: whole buffers and the last chunk.
LEMMA ChunksAre ==
    ASSUME NEW job \in Job
    PROVE  WholeBuffers(job) + LastChunk(job) = job.size
<1>1. job.size \in Nat
  BY DEF Job
<1>2. WholeBuffers(job) \in Int /\ WholeBuffers(job) <= job.size
  <2>1. /\ (job.size \div BUFFER) * BUFFER \in Int
        /\ (job.size \div BUFFER) * BUFFER <= job.size
    BY <1>1 DEF BUFFER
  <2>2. job.size > 0 => /\ ((job.size - 1) \div BUFFER) * BUFFER \in Int
                        /\ ((job.size - 1) \div BUFFER) * BUFFER <= job.size
    BY <1>1 DEF BUFFER
  <2>. QED BY <2>1, <2>2 DEF WholeBuffers
<1>. QED BY <1>1, <1>2 DEF LastChunk

\* What a step of -x or -z writes.
Piece(job) == CASE job.op = "copy" -> Slice(image, \h1014 + job.at, job.size)
                [] job.op = "ff"   -> Bytes("ff", job.size)
                [] job.op = "seek" -> Bytes("00", job.at - out[job.file].size)

\* A step writes one piece, and takes one job away.
LEMMA WriteIs ==
    ASSUME Types, Write
    PROVE  /\ pc = "write" /\ pc' = "write" /\ Head(todo) = todo[1] /\ Head(todo) \in Job
           /\ out' = [out EXCEPT ![todo[1].file] = Cat(out[todo[1].file], Piece(todo[1]))]
           /\ Len(todo) \in Nat /\ Len(todo) > 0
           /\ todo' \in Seq(Job) /\ Len(todo') = Len(todo) - 1
           /\ \A j \in 1 .. Len(todo') : todo'[j] = todo[j + 1]
           /\ UNCHANGED <<pc, board, files, image, table, text, md5, i, sys>>
<1>1. /\ pc = "write" /\ todo # <<>> /\ todo' = Tail(todo)
      /\ UNCHANGED <<pc, board, files, image, table, text, md5, i, sys>>
  BY DEF Write
<1>2. todo \in Seq(Job)
  BY DEF Types
<1>3. /\ Len(todo) \in Nat /\ Len(todo) > 0 /\ Head(todo) = todo[1] /\ todo[1] \in Job
      /\ todo' \in Seq(Job) /\ Len(todo') = Len(todo) - 1
      /\ \A j \in 1 .. Len(todo') : todo'[j] = todo[j + 1]
  BY <1>1, <1>2
<1> DEFINE job == Head(todo)
           n == WholeBuffers(job) + LastChunk(job)
<1>4. n = job.size
  BY <1>3, ChunksAre
<1>5. out' = [out EXCEPT ![job.file] =
                  Cat(out[job.file],
                      CASE job.op = "copy" -> Slice(image, \h1014 + job.at, n)
                        [] job.op = "ff"   -> Bytes("ff", n)
                        [] job.op = "seek" -> Bytes("00", job.at - out[job.file].size))]
  BY DEF Write
<1> HIDE DEF n
<1>6. out' = [out EXCEPT ![job.file] = Cat(out[job.file], Piece(job))]
  BY <1>4, <1>5 DEF Piece
<1>7. out' = [out EXCEPT ![todo[1].file] = Cat(out[todo[1].file], Piece(todo[1]))]
  BY <1>3, <1>6
<1>. QED BY <1>1, <1>3, <1>7

\* A file that has grown properly leaves the types as they are.
LEMMA WriteTypes ==
    ASSUME Types, Write, NEW f \in DOMAIN out, f = todo[1].file,
           Proper(Cat(out[f], Piece(todo[1])))
    PROVE  /\ Types' /\ DOMAIN out' = DOMAIN out
           /\ out'[f] = Cat(out[f], Piece(todo[1]))
           /\ \A g \in DOMAIN out : g # f => out'[g] = out[g]
<1>1. /\ out' = [out EXCEPT ![f] = Cat(out[f], Piece(todo[1]))] /\ todo' \in Seq(Job)
      /\ UNCHANGED <<pc, board, files, image, table, text, md5, i, sys>>
  BY WriteIs
<1>2. out \in [DOMAIN out -> Content] /\ \A g \in DOMAIN out : Proper(out[g])
  BY DEF Types
<1> DEFINE c == Cat(out[f], Piece(todo[1]))
<1>3. c \in Content /\ Proper(c)
  BY ProperIsWhole
<1> HIDE DEF c
<1>4. out' = [out EXCEPT ![f] = c]
  BY <1>1 DEF c
<1>5. /\ DOMAIN out' = DOMAIN out /\ out'[f] = c
      /\ \A g \in DOMAIN out : g # f => out'[g] = out[g]
  BY <1>2, <1>4
<1>6. \A g \in DOMAIN out : Proper(out'[g])
  BY <1>2, <1>3, <1>5
<1>7. out' \in [DOMAIN out -> Content]
  BY <1>2, <1>3, <1>4
<1>8. Types'
  BY <1>1, <1>5, <1>6, <1>7 DEF Types
<1>. QED BY <1>5, <1>8 DEF c

\* A step of -x: one more file is complete.
LEMMA WriteExtracts ==
    ASSUME Types, PartsAre(Listed), Laid(Len(Listed)), Write, NEW n \in Nat, Extracting(n)
    PROVE  Types' /\ Extracting(n + 1)'
<1>1. /\ n + Len(todo) = Len(Listed) /\ DOMAIN out = ListedNames
      /\ \A j \in 1 .. Len(todo) : todo[j] = ExtractJob(n + j)
      /\ \A k \in 1 .. Len(Listed) :
            IF k <= n THEN Restored(out[Listed[k].name], Listed[k].data)
                      ELSE out[Listed[k].name].size = 0
  BY DEF Extracting
<1>2. /\ Len(todo) \in Nat /\ Len(todo) > 0 /\ Len(todo') = Len(todo) - 1
      /\ \A j \in 1 .. Len(todo') : todo'[j] = todo[j + 1]
      /\ UNCHANGED <<board, files>>
  BY WriteIs
<1>3. Len(Listed) \in Nat
  BY PartSizes
<1> DEFINE m == n + 1
           d == Listed[m].data
           f == Listed[m].name
<1>4. m \in 1 .. Len(Listed) /\ 1 \in 1 .. Len(todo)
  BY <1>1, <1>2, <1>3
<1>5. todo[1] = ExtractJob(m)
  BY <1>1, <1>4
<1>6. todo[1].op = "copy" /\ todo[1].file = f /\ todo[1].at = Base(m) /\ todo[1].size = d.size
  BY <1>5 DEF ExtractJob
<1>7. Proper(d) /\ Base(m) \in Nat /\ \h1014 + Base(m) \in Nat /\ Proper(image)
      /\ Holds(image, \h1014 + Base(m), d)
  <2> HIDE DEF m
  <2>1. Proper(d) /\ Base(m) \in Nat
    BY <1>4, PartSizes, BaseIs
  <2>2. Proper(image) /\ Holds(image, \h1014 + Base(m), d)
    BY <1>4 DEF Types, Laid
  <2>. QED BY <2>1, <2>2
<1>8. Piece(todo[1]) = Slice(image, \h1014 + Base(m), d.size)
  BY <1>6 DEF Piece
<1> HIDE DEF m, d, f
<1>9. /\ Proper(Piece(todo[1])) /\ Piece(todo[1]).size = d.size
      /\ \A k \in 0 .. d.size - 1 : Byte(Piece(todo[1]), k) = Byte(d, k)
  BY <1>7, <1>8, SliceHeld
<1>10. f \in DOMAIN out /\ out[f].size = 0 /\ Proper(out[f])
  <2>1. f \in ListedNames
    BY <1>4 DEF ListedNames, f
  <2>2. ~(m <= n)
    BY DEF m
  <2>3. out[f].size = 0
    BY <1>1, <1>4, <2>2 DEF f
  <2>. QED BY <1>1, <2>1, <2>3 DEF Types
<1> DEFINE c == Cat(out[f], Piece(todo[1]))
<1>11. Proper(c) /\ Restored(c, d)
  <2>1. /\ Proper(c) /\ c.size = Piece(todo[1]).size
        /\ \A k \in 0 .. Piece(todo[1]).size - 1 : Byte(c, k) = Byte(Piece(todo[1]), k)
    BY <1>9, <1>10, CatEmptyHolds
  <2>. QED BY <1>9, <2>1 DEF Restored
<1>12. /\ Types' /\ DOMAIN out' = DOMAIN out /\ out'[f] = c
       /\ \A g \in DOMAIN out : g # f => out'[g] = out[g]
  BY <1>6, <1>10, <1>11, WriteTypes
<1> HIDE DEF c
<1>13. ASSUME NEW k \in 1 .. Len(Listed)
       PROVE  IF k <= m THEN Restored(out'[Listed[k].name], Listed[k].data)
                        ELSE out'[Listed[k].name].size = 0
  <2>1. CASE k = m
    <3>1. Restored(out'[f], d)
      BY <1>11, <1>12
    <3>2. k <= m
      BY <1>4, <2>1
    <3>. QED BY <2>1, <3>1, <3>2 DEF f, d
  <2>2. CASE k # m
    <3>1. Listed[k].name # f
      BY <1>4, <2>2 DEF PartsAre, f
    <3>2. Listed[k].name \in DOMAIN out
      BY <1>1 DEF ListedNames
    <3>3. out'[Listed[k].name] = out[Listed[k].name]
      BY <1>12, <3>1, <3>2
    <3>4. k <= m <=> k <= n
      BY <2>2 DEF m
    <3>. QED BY <1>1, <3>3, <3>4
  <2>. QED BY <2>1, <2>2
<1>14. m \in Nat /\ m + Len(todo') = Len(Listed)
       /\ \A j \in 1 .. Len(todo') : todo'[j] = ExtractJob(m + j)
  <2>1. m \in Nat /\ m + Len(todo') = Len(Listed)
    BY <1>1, <1>2 DEF m
  <2>2. ASSUME NEW j \in 1 .. Len(todo') PROVE todo'[j] = ExtractJob(m + j)
    <3>1. j + 1 \in 1 .. Len(todo) /\ n + (j + 1) = m + j
      BY <1>2 DEF m
    <3>. QED BY <1>1, <1>2, <3>1
  <2>. QED BY <2>1, <2>2
<1>15. Extracting(m)'
  <2>1. Listed' = Listed /\ ListedNames' = ListedNames /\ \A k : ExtractJob(k)' = ExtractJob(k)
    BY <1>2, PartsStay, JobsStay
  <2>2. /\ m \in Nat /\ m + Len(todo') = Len(Listed') /\ DOMAIN out' = ListedNames'
        /\ \A j \in 1 .. Len(todo') : todo'[j] = ExtractJob(m + j)'
        /\ \A k \in 1 .. Len(Listed') :
              IF k <= m THEN Restored(out'[Listed'[k].name], Listed'[k].data)
                        ELSE out'[Listed'[k].name].size = 0
    BY <1>1, <1>12, <1>13, <1>14, <2>1
  <2>. QED BY ONLY <2>2 DEF Extracting
<1>. QED BY <1>12, <1>15 DEF m

\* The os-image and the file-system fit into flash, one behind the other.
Room == /\ OsData.size \in Nat /\ FsData.size \in Nat
        /\ OsSlot.size \in Nat /\ FsSlot.size \in Nat /\ Gap \in Nat
        /\ OsData.size <= OsSlot.size /\ OsSlot.size <= Gap /\ FsData.size <= FsSlot.size

\* They do, if put_partitions did not find them too big.
LEMMA RoomIs ==
    ASSUME Inputs, PartsAre(Listed), Len(Listed) = 8, FitsFlash(4), FitsFlash(8)
    PROVE  Room
<1>1. 4 \in 1 .. Len(Listed) /\ 8 \in 1 .. Len(Listed)
  OBVIOUS
<1>2. OsData.size \in Nat /\ FsData.size \in Nat
  BY <1>1, PartSizes DEF OsData, FsData
<1>3. Listed[4].name = "os-image" /\ Listed[8].name = "file-system"
  BY DEF PartsAre
<1>4. OsData.size <= OsSlot.size /\ FsData.size <= FsSlot.size
  BY <1>3 DEF FitsFlash, OsData, FsData, OsSlot, FsSlot
<1>. QED BY <1>2, <1>4, SlotsAre DEF Room

\* A stage and the next piece are the next stage.
LEMMA StageGrows ==
    ASSUME NEW n \in Nat, NEW m \in Nat, NEW o, NEW c, Proper(o), Proper(c), IsStage(o, n),
           StageSize(n) + c.size = StageSize(m),
           \A k \in 0 .. c.size - 1 : Byte(c, k) = Target(StageSize(n) + k)
    PROVE  Proper(Cat(o, c)) /\ IsStage(Cat(o, c), m)
<1> DEFINE e == Cat(o, c)
<1>1. o.size \in Nat /\ c.size \in Nat
  BY ContentIs
<1>2. o.size = StageSize(n) /\ \A k \in 0 .. o.size - 1 : Byte(o, k) = Target(k)
  BY DEF IsStage
<1>3. /\ Proper(e) /\ e.size = o.size + c.size
      /\ \A k \in 0 .. o.size - 1 : Byte(e, k) = Byte(o, k)
      /\ \A k \in 0 .. c.size - 1 : Byte(e, o.size + k) = Byte(c, k)
  BY CatIs
<1> HIDE DEF e
<1>4. ASSUME NEW k \in 0 .. e.size - 1 PROVE Byte(e, k) = Target(k)
  <2>1. CASE k < o.size
    <3>1. k \in 0 .. o.size - 1
      BY <1>1, <2>1
    <3>. QED BY <1>2, <1>3, <3>1
  <2>2. CASE k >= o.size
    <3>1. k - o.size \in 0 .. c.size - 1 /\ o.size + (k - o.size) = k
      BY <1>1, <1>3, <2>2
    <3>2. Byte(e, k) = Byte(c, k - o.size)
      BY <1>3, <3>1
    <3>3. Byte(c, k - o.size) = Target(k)
      BY <1>2, <3>1
    <3>. QED BY <3>2, <3>3
  <2>. QED BY <1>1, <1>3, <2>1, <2>2
<1>5. e.size = StageSize(m)
  BY <1>2, <1>3
<1>. QED BY <1>3, <1>4, <1>5 DEF IsStage, e

\* The bytes of a fill.
LEMMA FillIs ==
    ASSUME NEW of \in Fills, NEW n \in Nat
    PROVE  /\ Proper(Bytes(of, n)) /\ Bytes(of, n).size = n
           /\ \A k \in 0 .. n - 1 : Byte(Bytes(of, n), k) = Origin(of, 0)
<1>1. of \in Things
  BY DEF Things
<1>2. /\ Proper(Bytes(of, n)) /\ Bytes(of, n).size = n
      /\ \A k \in 0 .. n - 1 : Byte(Bytes(of, n), k) = Origin(of, k)
  BY <1>1, BytesIs
<1>3. \A k : Origin(of, k) = Origin(of, 0)
  BY DEF Origin
<1>. QED BY <1>2, <1>3

\* The pieces of a conversion are the parts of the whole.
LEMMA PiecesAre ==
    ASSUME Types, Inputs, PartsAre(Listed), Laid(Len(Listed)), Len(Listed) = 8, Room,
           NEW n \in 0 .. 4, IsStage(out["sysupgrade"], n), todo[1] = ConvertJob(n + 1)
    PROVE  /\ Proper(Piece(todo[1]))
           /\ StageSize(n) + Piece(todo[1]).size = StageSize(n + 1)
           /\ \A k \in 0 .. Piece(todo[1]).size - 1 : Byte(Piece(todo[1]), k) = Target(StageSize(n) + k)
<1> DEFINE c == Piece(todo[1])
<1>1. /\ Proper(OsData) /\ Proper(FsData) /\ Proper(image)
      /\ \h1014 + Base(4) \in Nat /\ Holds(image, \h1014 + Base(4), OsData)
      /\ \h1014 + Base(8) \in Nat /\ Holds(image, \h1014 + Base(8), FsData)
  <2>1. 4 \in 1 .. Len(Listed) /\ 8 \in 1 .. Len(Listed)
    OBVIOUS
  <2>2. Base(4) \in Nat /\ Base(8) \in Nat /\ Proper(OsData) /\ Proper(FsData)
    BY <2>1, BaseIs, PartSizes DEF OsData, FsData
  <2>3. Holds(image, \h1014 + Base(4), OsData) /\ Holds(image, \h1014 + Base(8), FsData)
    BY <2>1 DEF Laid, OsData, FsData
  <2>4. \h1014 + Base(4) \in Nat /\ \h1014 + Base(8) \in Nat
    BY <2>2
  <2>. QED BY <2>2, <2>3, <2>4 DEF Types
<1>2. /\ OsData.size \in Nat /\ FsData.size \in Nat
      /\ OsSlot.size \in Nat /\ FsSlot.size \in Nat /\ Gap \in Nat
      /\ OsData.size <= OsSlot.size /\ OsSlot.size <= Gap /\ FsData.size <= FsSlot.size
  BY DEF Room
<1>3. /\ StageSize(0) = 0 /\ StageSize(1) = OsData.size /\ StageSize(2) = OsSlot.size
      /\ StageSize(3) = Gap /\ StageSize(4) = Gap + FsData.size /\ StageSize(5) = Gap + FsSlot.size
  BY DEF StageSize
<1>4. "ff" \in Fills /\ "00" \in Fills
  BY DEF Fills
<1>5. CASE n = 0
  <2>1. c = Slice(image, \h1014 + Base(4), OsData.size)
    BY <1>5 DEF ConvertJob, Piece
  <2> HIDE DEF c
  <2>2. Proper(c) /\ c.size = OsData.size /\ \A k \in 0 .. OsData.size - 1 : Byte(c, k) = Byte(OsData, k)
    BY <1>1, <2>1, SliceHeld
  <2>3. ASSUME NEW k \in 0 .. OsData.size - 1 PROVE Target(0 + k) = Byte(OsData, k)
    <3>1. 0 + k = k /\ k < OsData.size
      BY <1>2
    <3>. QED BY <3>1 DEF Target
  <2>4. 0 + OsData.size = OsData.size
    BY <1>2
  <2>5. /\ Proper(c) /\ StageSize(0) + c.size = StageSize(0 + 1)
        /\ \A k \in 0 .. c.size - 1 : Byte(c, k) = Target(StageSize(0) + k)
    BY <1>3, <2>2, <2>3, <2>4
  <2>. QED BY <1>5, <2>5 DEF c
<1>6. CASE n = 1
  <2>1. c = Bytes("ff", OsSlot.size - OsData.size)
    BY <1>6 DEF ConvertJob, Piece
  <2> HIDE DEF c
  <2>2. PICK w \in Nat : w = OsSlot.size - OsData.size
    BY <1>2
  <2>3. Proper(c) /\ c.size = w /\ \A k \in 0 .. w - 1 : Byte(c, k) = Origin("ff", 0)
    BY <1>4, <2>1, <2>2, FillIs
  <2>4. ASSUME NEW k \in 0 .. w - 1 PROVE Target(OsData.size + k) = Origin("ff", 0)
    <3>1. ~(OsData.size + k < OsData.size) /\ OsData.size + k < OsSlot.size
      BY <1>2, <2>2
    <3>. QED BY <3>1 DEF Target
  <2>5. OsData.size + w = OsSlot.size
    BY <1>2, <2>2
  <2>6. /\ Proper(c) /\ StageSize(1) + c.size = StageSize(1 + 1)
        /\ \A k \in 0 .. c.size - 1 : Byte(c, k) = Target(StageSize(1) + k)
    BY <1>3, <2>3, <2>4, <2>5
  <2>. QED BY <1>6, <2>6 DEF c
<1>7. CASE n = 2
  <2>1. c = Bytes("00", Gap - out["sysupgrade"].size)
    BY <1>7 DEF ConvertJob, Piece
  <2>2. out["sysupgrade"].size = OsSlot.size
    BY <1>3, <1>7 DEF IsStage
  <2> HIDE DEF c
  <2>3. PICK w \in Nat : w = Gap - OsSlot.size
    BY <1>2
  <2>4. Proper(c) /\ c.size = w /\ \A k \in 0 .. w - 1 : Byte(c, k) = Origin("00", 0)
    BY <1>4, <2>1, <2>2, <2>3, FillIs
  <2>5. ASSUME NEW k \in 0 .. w - 1 PROVE Target(OsSlot.size + k) = Origin("00", 0)
    <3>1. ~(OsSlot.size + k < OsData.size) /\ ~(OsSlot.size + k < OsSlot.size) /\ OsSlot.size + k < Gap
      BY <1>2, <2>3
    <3>. QED BY <3>1 DEF Target
  <2>6. OsSlot.size + w = Gap
    BY <1>2, <2>3
  <2>7. /\ Proper(c) /\ StageSize(2) + c.size = StageSize(2 + 1)
        /\ \A k \in 0 .. c.size - 1 : Byte(c, k) = Target(StageSize(2) + k)
    BY <1>3, <2>4, <2>5, <2>6
  <2>. QED BY <1>7, <2>7 DEF c
<1>8. CASE n = 3
  <2>1. c = Slice(image, \h1014 + Base(8), FsData.size)
    BY <1>8 DEF ConvertJob, Piece
  <2> HIDE DEF c
  <2>2. Proper(c) /\ c.size = FsData.size /\ \A k \in 0 .. FsData.size - 1 : Byte(c, k) = Byte(FsData, k)
    BY <1>1, <2>1, SliceHeld
  <2>3. ASSUME NEW k \in 0 .. FsData.size - 1 PROVE Target(Gap + k) = Byte(FsData, k)
    <3>1. /\ (Gap + k) - Gap = k /\ Gap + k < Gap + FsData.size
          /\ ~(Gap + k < OsData.size) /\ ~(Gap + k < OsSlot.size) /\ ~(Gap + k < Gap)
      BY <1>2
    <3>. QED BY <3>1 DEF Target
  <2>4. /\ Proper(c) /\ StageSize(3) + c.size = StageSize(3 + 1)
        /\ \A k \in 0 .. c.size - 1 : Byte(c, k) = Target(StageSize(3) + k)
    BY <1>3, <2>2, <2>3
  <2>. QED BY <1>8, <2>4 DEF c
<1>9. CASE n = 4
  <2>1. c = Bytes("ff", FsSlot.size - FsData.size)
    BY <1>9 DEF ConvertJob, Piece
  <2> HIDE DEF c
  <2>2. PICK w \in Nat : w = FsSlot.size - FsData.size
    BY <1>2
  <2>3. Proper(c) /\ c.size = w /\ \A k \in 0 .. w - 1 : Byte(c, k) = Origin("ff", 0)
    BY <1>4, <2>1, <2>2, FillIs
  <2>4. ASSUME NEW k \in 0 .. w - 1 PROVE Target(Gap + FsData.size + k) = Origin("ff", 0)
    <3> DEFINE j == Gap + FsData.size + k
    <3>1. /\ ~(j < OsData.size) /\ ~(j < OsSlot.size) /\ ~(j < Gap) /\ ~(j < Gap + FsData.size)
      BY <1>2
    <3> HIDE DEF j
    <3>2. Target(j) = Origin("ff", 0)
      BY <3>1 DEF Target
    <3>. QED BY <3>2 DEF j
  <2>5. Gap + FsData.size + w = Gap + FsSlot.size
    BY <1>2, <2>2
  <2>6. /\ Proper(c) /\ StageSize(4) + c.size = StageSize(4 + 1)
        /\ \A k \in 0 .. c.size - 1 : Byte(c, k) = Target(StageSize(4) + k)
    BY <1>3, <2>3, <2>4, <2>5
  <2>. QED BY <1>9, <2>6 DEF c
<1>. QED BY <1>5, <1>6, <1>7, <1>8, <1>9

\* A step of -z: one more piece of the converted image.
LEMMA WriteConverts ==
    ASSUME Types, Inputs, PartsAre(Listed), Laid(Len(Listed)), Write, NEW n \in Nat, Converting(n)
    PROVE  Types' /\ Converting(n + 1)'
<1>1. /\ n + Len(todo) = 5 /\ DOMAIN out = {"sysupgrade"} /\ Len(Listed) = 8
      /\ \A j \in 1 .. Len(todo) : todo[j] = ConvertJob(n + j)
      /\ IsStage(out["sysupgrade"], n)
  BY DEF Converting
<1>2. /\ Len(todo) \in Nat /\ Len(todo) > 0 /\ Len(todo') = Len(todo) - 1
      /\ \A j \in 1 .. Len(todo') : todo'[j] = todo[j + 1]
      /\ UNCHANGED <<board, files>>
  BY WriteIs
<1>3. n \in 0 .. 4 /\ 1 \in 1 .. Len(todo)
  BY <1>1, <1>2
<1>4. todo[1] = ConvertJob(n + 1)
  BY <1>1, <1>3
<1>5. Room
  <2>1. 4 \in 1 .. Len(Listed) /\ 8 \in 1 .. Len(Listed)
    BY <1>1
  <2>2. FitsFlash(4) /\ FitsFlash(8)
    BY <2>1 DEF Laid
  <2>. QED BY <1>1, <2>2, RoomIs
<1> DEFINE m == n + 1
           o == out["sysupgrade"]
           c == Piece(todo[1])
<1>6. /\ Proper(c) /\ StageSize(n) + c.size = StageSize(m)
      /\ \A k \in 0 .. c.size - 1 : Byte(c, k) = Target(StageSize(n) + k)
  BY <1>1, <1>3, <1>4, <1>5, PiecesAre
<1>7. Proper(o) /\ IsStage(o, n) /\ m \in Nat
  BY <1>1 DEF Types
<1>8. "sysupgrade" \in DOMAIN out /\ "sysupgrade" = todo[1].file
  <2>1. ConvertJob(n + 1).file = "sysupgrade"
    <3>1. n = 0 \/ n = 1 \/ n = 2 \/ n = 3 \/ n = 4
      BY <1>3
    <3>2. /\ ConvertJob(0 + 1).file = "sysupgrade" /\ ConvertJob(1 + 1).file = "sysupgrade"
          /\ ConvertJob(2 + 1).file = "sysupgrade" /\ ConvertJob(3 + 1).file = "sysupgrade"
          /\ ConvertJob(4 + 1).file = "sysupgrade"
      BY DEF ConvertJob
    <3>. QED BY <3>1, <3>2
  <2>. QED BY <1>1, <1>4, <2>1
<1> HIDE DEF m, o, c
<1>9. Proper(Cat(o, c)) /\ IsStage(Cat(o, c), m)
  BY <1>6, <1>7, StageGrows
<1>10. Types' /\ DOMAIN out' = DOMAIN out /\ out'["sysupgrade"] = Cat(o, c)
  BY <1>8, <1>9, WriteTypes DEF o, c
<1>11. m \in Nat /\ m + Len(todo') = 5 /\ \A j \in 1 .. Len(todo') : todo'[j] = ConvertJob(m + j)
  <2>1. m \in Nat /\ m + Len(todo') = 5
    BY <1>1, <1>2 DEF m
  <2>2. ASSUME NEW j \in 1 .. Len(todo') PROVE todo'[j] = ConvertJob(m + j)
    <3>1. j + 1 \in 1 .. Len(todo) /\ n + (j + 1) = m + j
      BY <1>2 DEF m
    <3>. QED BY <1>1, <1>2, <3>1
  <2>. QED BY <2>1, <2>2
<1>12. Converting(m)'
  <2>1. Listed' = Listed
    BY <1>2, PartsStay
  <2>2. \A k : ConvertJob(k)' = ConvertJob(k) /\ StageSize(k)' = StageSize(k) /\ Target(k)' = Target(k)
    BY <1>2, JobsStay
  <2>3. /\ out'["sysupgrade"].size = StageSize(m)'
        /\ \A k \in 0 .. out'["sysupgrade"].size - 1 : Byte(out'["sysupgrade"], k) = Target(k)'
    BY <1>9, <1>10, <2>2 DEF IsStage
  <2>4. IsStage(out["sysupgrade"], m)'
    BY ONLY <2>3 DEF IsStage
  <2>5. /\ m \in Nat /\ m + Len(todo') = 5 /\ DOMAIN out' = {"sysupgrade"} /\ Len(Listed') = 8
        /\ \A j \in 1 .. Len(todo') : todo'[j] = ConvertJob(m + j)'
    BY <1>1, <1>10, <1>11, <2>1, <2>2
  <2>. QED BY ONLY <2>4, <2>5 DEF Converting
<1>. QED BY <1>10, <1>12 DEF m

\* A step of either.
LEMMA WriteKeeps == ASSUME IInv, Write PROVE IInv'
<1>1. Types
  BY DEF IInv
<1>2. /\ pc = "write" /\ pc' = "write"
      /\ UNCHANGED <<pc, board, files, image, table, text, md5, i, sys>>
  BY <1>1, WriteIs
<1>3. Inputs /\ PartsAre(Listed)
  BY <1>2, WorksOnParts DEF Works
<1>4. Laid(Len(Listed)) /\ HashIsRight
  BY <1>2 DEF IInv, Factory
<1>5. Types' /\ Writing'
  <2>1. PICK n \in Nat : Extracting(n) \/ Converting(n)
    BY <1>2 DEF IInv, Writing
  <2>2. PICK m \in Nat : m = n + 1
    OBVIOUS
  <2>3. CASE Extracting(n)
    <3>1. Types' /\ Extracting(m)'
      BY <1>1, <1>3, <1>4, <2>2, <2>3, WriteExtracts
    <3>. QED BY <3>1 DEF Writing
  <2>4. CASE Converting(n)
    <3>1. Types' /\ Converting(m)'
      BY <1>1, <1>3, <1>4, <2>2, <2>4, WriteConverts
    <3>. QED BY <3>1 DEF Writing
  <2>. QED BY <2>1, <2>3, <2>4
<1>6. Begins'
  BY <1>2, <1>3 DEF Begins, Inputs
<1>7. Factory'
  <2>1. UNCHANGED <<board, files, image, table, md5>> /\ Listed' = Listed
    BY <1>2, PartsStay
  <2>2. PICK n : n = Len(Listed)
    OBVIOUS
  <2>3. Laid(n)' /\ HashIsRight' /\ n = Len(Listed')
    BY <1>4, <2>1, <2>2, ImageStays
  <2>4. Laid(Len(Listed))'
    BY <2>3
  <2>. QED BY <1>2, <2>3, <2>4 DEF Factory
<1>8. Results' /\ Copying'
  BY <1>2 DEF Results, Copying
<1>. QED BY <1>5, <1>6, <1>7, <1>8 DEF IInv

\* When there is nothing left to write the files are complete.
LEMMA WriteDoneKeeps == ASSUME IInv, WriteDone PROVE IInv'
<1>1. /\ pc = "write" /\ todo = <<>> /\ pc' = "sysupgrade"
      /\ UNCHANGED <<board, files, image, table, text, md5, i, todo, out, sys>>
  BY DEF WriteDone
<1>2. Inputs /\ PartsAre(Listed) /\ Types
  BY <1>1, WorksOnParts DEF Works, IInv
<1>3. Laid(Len(Listed)) /\ HashIsRight
  BY <1>1 DEF IInv, Factory
<1>4. Delivered
  <2>1. PICK n \in Nat : Extracting(n) \/ Converting(n)
    BY <1>1 DEF IInv, Writing
  <2>2. Len(todo) = 0 /\ n + 0 = n
    BY <1>1
  <2>3. CASE Extracting(n)
    <3>1. /\ n = Len(Listed) /\ DOMAIN out = ListedNames
          /\ \A k \in 1 .. Len(Listed) :
                IF k <= n THEN Restored(out[Listed[k].name], Listed[k].data)
                          ELSE out[Listed[k].name].size = 0
      BY <2>2, <2>3 DEF Extracting
    <3>2. \A k \in 1 .. Len(Listed) : Restored(out[Listed[k].name], Listed[k].data)
      <4>1. \A k \in 1 .. Len(Listed) : k <= n
        BY <3>1
      <4>. QED BY <3>1, <4>1
    <3>3. ~Converted
      <4>1. 4 \in 1 .. Len(Listed) /\ Listed[4].name = "os-image"
        BY <1>2, PartSizes DEF PartsAre
      <4>2. "os-image" \in DOMAIN out
        BY <3>1, <4>1 DEF ListedNames
      <4>. QED BY <4>2 DEF Converted
    <3>. QED BY <1>3, <3>1, <3>2, <3>3 DEF Delivered
  <2>4. CASE Converting(n)
    <3>1. n = 5 /\ DOMAIN out = {"sysupgrade"} /\ Len(Listed) = 8 /\ IsStage(out["sysupgrade"], n)
      BY <2>2, <2>4 DEF Converting
    <3>2. 4 \in 1 .. Len(Listed) /\ 8 \in 1 .. Len(Listed)
      BY <3>1
    <3>3. FitsFlash(4) /\ FitsFlash(8)
      BY <1>3, <3>2 DEF Laid
    <3>4. ~Extracted
      BY <3>1 DEF Extracted
    <3>. QED BY <3>1, <3>3, <3>4 DEF Delivered
  <2>. QED BY <2>1, <2>3, <2>4
<1>5. Delivered'
  BY <1>1, <1>4, FilesStay
<1>6. Types'
  BY <1>1, <1>2, TypesStay
<1>7. Begins'
  BY <1>1, <1>2 DEF Begins, Inputs
<1>8. Factory' /\ Writing' /\ Results' /\ Copying'
  BY <1>1, <1>5 DEF Factory, Writing, Results, Copying
<1>. QED BY <1>6, <1>7, <1>8 DEF IInv

-----------------------------------------------------------------------------
(* Building the sysupgrade image. *)

\* From the first to the last, the flash partitions have places in the image.
LEMMA SysPlaces ==
    ASSUME Inputs, PartsAre(Listed), AssertionsHold
    PROVE  /\ FirstIndex \in Nat /\ LastIndex \in Nat /\ FirstIndex < LastIndex
           /\ LastIndex <= Len(board.partitions) /\ FirstIndex \in 1 .. Len(board.partitions)
           /\ \A j \in FirstIndex .. LastIndex :
                 /\ SysOffset(j) \in Nat /\ board.partitions[j].size \in Nat
                 /\ PartOf(j) # 0 =>
                       PartOf(j) \in 1 .. Len(Listed) /\ Proper(Listed[PartOf(j)].data)
           /\ \A j, k \in FirstIndex .. LastIndex :
                 j < k => SysOffset(j) + board.partitions[j].size <= SysOffset(k)
           /\ PartOf(LastIndex) # 0
           /\ SysLen = SysOffset(LastIndex) + Listed[PartOf(LastIndex)].data.size
           /\ SysLen \in Nat
<1> DEFINE f == FirstIndex
           l == LastIndex
           b == board.partitions
<1>1. BoardIs(board) /\ InOrder(board) /\ Len(b) \in Nat
  BY BoardsAre DEF Inputs, BoardIs
<1>2. f # 0 /\ l # 0 /\ f < l /\ Named(Listed, board.last) # 0
  BY DEF AssertionsHold
<1>3. f \in 0 .. Len(b) /\ l \in 0 .. Len(b) /\ b[l].name = board.last
  BY <1>1, <1>2, NamedIs DEF FirstIndex, LastIndex
<1>4. SysLen = SysOffset(l) + Listed[Named(Listed, board.last)].data.size
  BY DEF SysLen
<1>5. PartOf(l) = Named(Listed, board.last)
  BY <1>3 DEF PartOf
<1>6. \A j : SysOffset(j) = b[j].base - b[f].base
  BY DEF SysOffset
<1> HIDE DEF f, l
<1>7. /\ f \in 1 .. Len(b) /\ l \in 1 .. Len(b) /\ f \in Nat /\ l \in Nat
      /\ \A j \in f .. l : j \in 1 .. Len(b) /\ (j = f \/ f < j)
  BY <1>1, <1>2, <1>3
<1>8. \A j \in 1 .. Len(b) : b[j].base \in Nat /\ b[j].size \in Nat
  BY <1>1 DEF BoardIs
<1>9. \A j, k \in 1 .. Len(b) : j < k => b[j].base + b[j].size <= b[k].base
  BY <1>1 DEF InOrder
<1>10. ASSUME NEW j \in f .. l PROVE b[f].base <= b[j].base
  <2>1. j \in 1 .. Len(b) /\ b[f].base \in Nat /\ b[f].size \in Nat /\ b[j].base \in Nat
    BY <1>7, <1>8
  <2>2. CASE j = f
    BY <2>1, <2>2
  <2>3. CASE f < j
    <3>1. b[f].base + b[f].size <= b[j].base
      BY <1>7, <1>9, <2>1, <2>3
    <3>. QED BY <2>1, <3>1
  <2>. QED BY <1>7, <2>2, <2>3
<1>11. ASSUME NEW j \in f .. l
       PROVE  /\ SysOffset(j) \in Nat /\ b[j].size \in Nat
              /\ PartOf(j) # 0 => PartOf(j) \in 1 .. Len(Listed) /\ Proper(Listed[PartOf(j)].data)
  <2>1. SysOffset(j) \in Nat /\ b[j].size \in Nat
    <3>1. /\ j \in 1 .. Len(b) /\ f \in 1 .. Len(b)
          /\ b[f].base <= b[j].base /\ SysOffset(j) = b[j].base - b[f].base
      BY <1>6, <1>7, <1>10
    <3>2. b[j].base \in Nat /\ b[f].base \in Nat /\ b[j].size \in Nat
      BY <1>8, <3>1
    <3>. QED BY <3>1, <3>2
  <2>2. Len(Listed) \in Nat
    BY PartSizes
  <2>3. PartOf(j) \in 0 .. Len(Listed)
    BY <2>2, NamedIs DEF PartOf
  <2>4. PartOf(j) # 0 => PartOf(j) \in 1 .. Len(Listed)
    BY <2>2, <2>3
  <2>. QED BY <2>1, <2>4, PartSizes
<1>12. ASSUME NEW j \in f .. l, NEW k \in f .. l, j < k
       PROVE  SysOffset(j) + b[j].size <= SysOffset(k)
  <2>1. b[j].base + b[j].size <= b[k].base
    BY <1>7, <1>9, <1>12
  <2>2. b[j].base \in Nat /\ b[j].size \in Nat /\ b[k].base \in Nat /\ b[f].base \in Nat
    BY <1>7, <1>8
  <2>3. SysOffset(j) = b[j].base - b[f].base /\ SysOffset(k) = b[k].base - b[f].base
    BY <1>6
  <2>. QED BY <2>1, <2>2, <2>3
<1>13. l \in f .. l
  BY <1>2, <1>7
<1>14. SysOffset(l) + Listed[PartOf(l)].data.size \in Nat
  <2>1. PartOf(l) \in 1 .. Len(Listed) /\ SysOffset(l) \in Nat
    BY <1>2, <1>5, <1>11, <1>13
  <2>. QED BY <2>1, PartSizes
<1>15. l <= Len(b)
  BY <1>7
<1>. QED BY <1>2, <1>4, <1>5, <1>7, <1>11, <1>12, <1>14, <1>15 DEF f, l

\* An image of nothing but 0xff.
LEMMA SysupgradeKeeps == ASSUME IInv, Sysupgrade PROVE IInv'
<1>1. /\ pc = "sysupgrade" /\ AssertionsHold /\ pc' = "copy" /\ i' = FirstIndex
      /\ sys' = Bytes("ff", SysLen)
      /\ UNCHANGED <<board, files, image, table, text, md5, todo, out>>
  BY DEF Sysupgrade
<1>2. Inputs /\ PartsAre(Listed) /\ Types
  BY <1>1, WorksOnParts DEF Works, IInv
<1>3. SysLen \in Nat /\ FirstIndex \in Nat /\ LastIndex \in Nat /\ FirstIndex < LastIndex
  BY <1>1, <1>2, SysPlaces
<1>4. /\ Proper(sys') /\ sys'.size = SysLen
      /\ \A k \in 0 .. SysLen - 1 : Byte(sys', k) = Origin("ff", 0)
  <2>1. "ff" \in Fills
    BY DEF Fills
  <2>2. PICK n \in Nat : n = SysLen
    BY <1>3
  <2>. QED BY <1>1, <2>1, <2>2, FillIs
<1>5. Types'
  BY <1>1, <1>2, <1>3, <1>4 DEF Types
<1>6. Begins'
  BY <1>1, <1>2 DEF Begins, Inputs
<1>7. Delivered'
  <2>1. Delivered
    BY <1>1 DEF IInv, Results
  <2>. QED BY <1>1, <2>1, FilesStay
<1>8. Copying'
  <2>1. /\ FirstIndex' = FirstIndex /\ LastIndex' = LastIndex /\ SysLen' = SysLen /\ AssertionsHold'
    BY <1>1, PlacesStay
  <2>2. i' \in FirstIndex' .. LastIndex' + 1 /\ sys'.size = SysLen'
    BY <1>1, <1>3, <1>4, <2>1
  <2>3. ~ \E j \in FirstIndex' .. i' - 1 : TRUE
    BY <1>1, <1>3, <2>1
  <2>4. \A k \in 0 .. sys'.size - 1 : Byte(sys', k) = Origin("ff", 0)
    BY <1>4
  <2>5. pc' # "done"
    BY <1>1
  <2>. QED BY ONLY <2>1, <2>2, <2>3, <2>4, <2>5 DEF Copying
<1>9. Factory' /\ Writing' /\ Results'
  BY <1>1, <1>7 DEF Factory, Writing, Results
<1>. QED BY <1>5, <1>6, <1>8, <1>9 DEF IInv

\* An assertion fails.
LEMMA SysupgradeFailsKeeps == ASSUME IInv, SysupgradeFails PROVE IInv'
  BY FailKeeps DEF SysupgradeFails

\* A part is too big for its place in flash.
LEMMA CopyPartitionFailsKeeps == ASSUME IInv, CopyPartitionFails PROVE IInv'
  BY FailKeeps DEF CopyPartitionFails

\* What the loop over the flash partitions has done before partition n.
CopiedTo(n) ==
    /\ sys.size = SysLen
    /\ \A j \in FirstIndex .. n - 1 : Copied(j)
    /\ \A k \in 0 .. sys.size - 1 :
          Byte(sys, k) = Origin("ff", 0) \/ \E j \in FirstIndex .. n - 1 : Within(j, k)

\* A partition is copied to a place of its own.
LEMMA CopyAdds ==
    ASSUME Inputs, PartsAre(Listed), AssertionsHold, Proper(sys), CopyPartition,
           i \in FirstIndex .. LastIndex, CopiedTo(i)
    PROVE  Proper(sys') /\ CopiedTo(i)'
<1> DEFINE p == PartOf(i)
           d == Listed[p].data
           at == SysOffset(i)
           slot == board.partitions[i]
<1>1. /\ p # 0 => ~TooBig(Listed[p], slot)
      /\ sys' = IF p = 0 THEN sys ELSE Blit(sys, at, d)
      /\ UNCHANGED <<board, files>> /\ i' = i + 1
  BY DEF CopyPartition, PartOf
<1>2. /\ FirstIndex \in Nat /\ LastIndex \in Nat /\ FirstIndex < LastIndex
      /\ \A j \in FirstIndex .. LastIndex :
            /\ SysOffset(j) \in Nat /\ board.partitions[j].size \in Nat
            /\ PartOf(j) # 0 => PartOf(j) \in 1 .. Len(Listed) /\ Proper(Listed[PartOf(j)].data)
      /\ \A j, k \in FirstIndex .. LastIndex :
            j < k => SysOffset(j) + board.partitions[j].size <= SysOffset(k)
      /\ SysLen = SysOffset(LastIndex) + Listed[PartOf(LastIndex)].data.size
      /\ SysLen \in Nat /\ PartOf(LastIndex) # 0
  BY SysPlaces
<1>3. /\ sys.size = SysLen
      /\ \A j \in FirstIndex .. i - 1 : Copied(j)
      /\ \A k \in 0 .. sys.size - 1 :
            Byte(sys, k) = Origin("ff", 0) \/ \E j \in FirstIndex .. i - 1 : Within(j, k)
  BY DEF CopiedTo
<1>4. /\ i \in Nat /\ i - 1 \in Int /\ i <= LastIndex
      /\ \A j \in FirstIndex .. i : j \in FirstIndex .. LastIndex /\ (j = i \/ j \in FirstIndex .. i - 1)
      /\ \A j \in FirstIndex .. i - 1 : j < i /\ j \in FirstIndex .. i
  BY <1>2
<1>5. /\ \A j : PartOf(j)' = PartOf(j) /\ SysOffset(j)' = SysOffset(j)
      /\ FirstIndex' = FirstIndex /\ SysLen' = SysLen /\ Listed' = Listed /\ board' = board
  BY <1>1, PlacesStay, PartsStay
<1>6. \A j, k : Within(j, k)' = Within(j, k)
  BY <1>5 DEF Within
<1>7. (i + 1) - 1 = i
  BY <1>4
<1>8. CASE p = 0
  <2>1. sys' = sys /\ Proper(sys')
    BY <1>1, <1>8
  <2>2. \A j \in FirstIndex .. i : Copied(j)
    BY <1>3, <1>4, <1>8 DEF Copied
  <2>3. \A j : Copied(j)' = Copied(j)
    BY <1>1, <2>1, CopyingStays
  <2>4. sys'.size = SysLen' /\ \A j \in FirstIndex' .. i : Copied(j)'
    BY <1>3, <1>5, <2>1, <2>2, <2>3
  <2>5. \A k \in 0 .. sys'.size - 1 :
           Byte(sys', k) = Origin("ff", 0) \/ \E j \in FirstIndex' .. i : Within(j, k)'
    BY <1>3, <1>4, <1>5, <1>6, <2>1
  <2>6. CopiedTo(i)'
    <3>1. PICK n : n = i + 1 /\ i' = n
      BY <1>1
    <3>2. /\ sys'.size = SysLen' /\ \A j \in FirstIndex' .. n - 1 : Copied(j)'
          /\ \A k \in 0 .. sys'.size - 1 :
                Byte(sys', k) = Origin("ff", 0) \/ \E j \in FirstIndex' .. n - 1 : Within(j, k)'
      BY <1>7, <2>4, <2>5, <3>1
    <3>3. CopiedTo(n)'
      BY ONLY <3>2 DEF CopiedTo
    <3>. QED BY <3>1, <3>3
  <2>. QED BY <2>1, <2>6
<1>9. CASE p # 0
  <2>1. Proper(d) /\ at \in Nat /\ slot.size \in Nat /\ d.size \in Nat /\ d.size <= slot.size
    <3>1. Proper(d) /\ at \in Nat /\ slot.size \in Nat
      BY <1>2, <1>9
    <3>2. ~(d.size > slot.size)
      BY <1>1, <1>9 DEF TooBig
    <3>3. d.size \in Nat
      BY <3>1, ContentIs
    <3> HIDE DEF d, at, slot
    <3>. QED BY <3>1, <3>2, <3>3
  <2>2. at + d.size <= SysLen
    <3>1. CASE i = LastIndex
      BY <1>2, <2>1, <3>1
    <3>2. CASE i # LastIndex
      <4>1. i < LastIndex /\ LastIndex \in FirstIndex .. LastIndex
        BY <1>2, <1>4, <3>2
      <4>2. at + slot.size <= SysOffset(LastIndex)
        BY <1>2, <4>1
      <4>3. SysOffset(LastIndex) \in Nat /\ Listed[PartOf(LastIndex)].data.size \in Nat
        BY <1>2, <4>1, PartSizes
      <4>4. SysLen = SysOffset(LastIndex) + Listed[PartOf(LastIndex)].data.size
        BY <1>2
      <4> HIDE DEF at, d, slot
      <4>. QED BY <2>1, <4>2, <4>3, <4>4
    <3>. QED BY <3>1, <3>2
  <2>3. sys' = Blit(sys, at, d) /\ at + d.size <= sys.size
    BY <1>1, <1>3, <1>9, <2>2
  <2> HIDE DEF at, d, slot
  <2>4. Proper(sys') /\ sys'.size = sys.size /\ Holds(sys', at, d)
    BY <2>1, <2>3, BlitHolds
  <2>5. ASSUME NEW j \in FirstIndex .. i
        PROVE  PartOf(j) # 0 => /\ Listed[PartOf(j)].data.size <= board.partitions[j].size
                                /\ Holds(sys', SysOffset(j), Listed[PartOf(j)].data)
    <3>1. CASE j = i
      BY <2>1, <2>4, <3>1 DEF at, d, slot
    <3>2. CASE j # i /\ PartOf(j) # 0
      <4>1. j \in FirstIndex .. i - 1 /\ j < i /\ j \in FirstIndex .. LastIndex
        BY <1>4, <3>2
      <4> DEFINE e == Listed[PartOf(j)].data
                 to == SysOffset(j)
      <4>2. e.size <= board.partitions[j].size /\ Holds(sys, to, e)
        BY <1>3, <3>2, <4>1 DEF Copied
      <4>3. Proper(e) /\ to \in Nat /\ board.partitions[j].size \in Nat
            /\ to + board.partitions[j].size <= at
        BY <1>2, <3>2, <4>1 DEF at
      <4>4. e.size \in Nat
        BY <4>3, ContentIs
      <4> HIDE DEF e, to
      <4>5. to + e.size <= at
        BY <2>1, <4>2, <4>3, <4>4
      <4>6. Holds(Blit(sys, at, d), to, e)
        BY <2>1, <2>3, <4>2, <4>3, <4>5, BlitKeeps
      <4>. QED BY <2>3, <4>2, <4>6 DEF e, to
    <3>. QED BY <3>1, <3>2
  <2>6. ASSUME NEW k \in 0 .. sys'.size - 1
        PROVE  Byte(sys', k) = Origin("ff", 0) \/ \E j \in FirstIndex .. i : Within(j, k)
    <3>1. sys.size \in Nat /\ k \in 0 .. sys.size - 1
      BY <2>4, ContentIs
    <3>2. CASE at <= k /\ k < at + d.size
      <4>1. Within(i, k)
        BY <1>9, <3>2 DEF Within, at, d
      <4>2. i \in FirstIndex .. i
        BY <1>2, <1>4
      <4>. QED BY <4>1, <4>2
    <3>3. CASE ~(at <= k /\ k < at + d.size)
      <4>1. k \in 0 .. at - 1 \/ k \in at + d.size .. sys.size - 1
        BY <2>1, <3>1, <3>3
      <4>2. at <= sys.size
        BY <2>1, <2>3, <3>1
      <4>3. \A x \in 0 .. at - 1 : Byte(Blit(sys, at, d), x) = Byte(sys, x)
        BY ONLY Proper(sys), <2>1, <4>2, BlitIs
      <4>4. \A x \in at + d.size .. sys.size - 1 : Byte(Blit(sys, at, d), x) = Byte(sys, x)
        BY ONLY Proper(sys), <2>1, <4>2, BlitIs
      <4>5. Byte(sys', k) = Byte(sys, k)
        BY <2>3, <4>1, <4>3, <4>4
      <4>. QED BY <1>3, <1>4, <3>1, <4>5
    <3>. QED BY <3>2, <3>3
  <2>7. CopiedTo(i)'
    <3>1. PICK n : n = i + 1 /\ i' = n
      BY <1>1
    <3>2. n - 1 = i
      BY <1>7, <3>1
    <3>3. \A j \in FirstIndex' .. n - 1 : Copied(j)'
      <4>1. \A j \in FirstIndex .. i :
               PartOf(j)' # 0 => /\ Listed'[PartOf(j)'].data.size <= board'.partitions[j].size
                                 /\ Holds(sys', SysOffset(j)', Listed'[PartOf(j)'].data)
        BY <1>5, <2>5
      <4>2. FirstIndex' = FirstIndex
        BY <1>5
      <4>. QED BY ONLY <3>2, <4>1, <4>2 DEF Copied
    <3>4. \A k \in 0 .. sys'.size - 1 :
             Byte(sys', k) = Origin("ff", 0) \/ \E j \in FirstIndex' .. n - 1 : Within(j, k)'
      BY <1>5, <1>6, <2>6, <3>2
    <3>5. sys'.size = SysLen'
      BY <1>3, <1>5, <2>4
    <3>6. CopiedTo(n)'
      BY ONLY <3>3, <3>4, <3>5 DEF CopiedTo
    <3>. QED BY <3>1, <3>6
  <2>. QED BY <2>4, <2>7
<1>. QED BY <1>8, <1>9

\* One more flash partition.
LEMMA CopyPartitionKeeps == ASSUME IInv, CopyPartition PROVE IInv'
<1>1. /\ pc = "copy" /\ i <= LastIndex /\ i' = i + 1
      /\ UNCHANGED <<pc, board, files, image, table, text, md5, todo, out>>
  BY DEF CopyPartition
<1>2. Inputs /\ PartsAre(Listed) /\ Types
  BY <1>1, WorksOnParts DEF Works, IInv
<1>3. /\ AssertionsHold /\ i \in FirstIndex .. LastIndex + 1
      /\ CopiedTo(i)
  BY <1>1 DEF IInv, Copying, CopiedTo
<1>4. FirstIndex \in Nat /\ LastIndex \in Nat /\ i \in Nat
  BY <1>2, <1>3, SysPlaces DEF Types
<1>5. i \in FirstIndex .. LastIndex /\ i + 1 \in FirstIndex .. LastIndex + 1
  BY <1>1, <1>3, <1>4
<1>6. Proper(sys') /\ CopiedTo(i)'
  <2>1. Proper(sys)
    BY <1>2 DEF Types
  <2>. QED BY <1>2, <1>3, <1>5, <2>1, CopyAdds
<1>7. Types'
  BY <1>1, <1>2, <1>4, <1>6 DEF Types
<1>8. Begins'
  BY <1>1, <1>2 DEF Begins, Inputs
<1>9. Delivered'
  <2>1. Delivered
    BY <1>1 DEF IInv, Results
  <2>. QED BY <1>1, <2>1, FilesStay
<1>10. Copying'
  <2>1. AssertionsHold' /\ i' \in FirstIndex' .. LastIndex' + 1 /\ pc' = "copy"
    BY <1>1, <1>3, <1>5, PlacesStay
  <2>2. /\ sys'.size = SysLen' /\ \A j \in FirstIndex' .. i' - 1 : Copied(j)'
        /\ \A k \in 0 .. sys'.size - 1 :
              Byte(sys', k) = Origin("ff", 0) \/ \E j \in FirstIndex' .. i' - 1 : Within(j, k)'
    BY ONLY <1>6 DEF CopiedTo
  <2>. QED BY ONLY <2>1, <2>2 DEF Copying
<1>11. Factory' /\ Writing' /\ Results'
  BY <1>1, <1>9 DEF Factory, Writing, Results
<1>. QED BY <1>7, <1>8, <1>10, <1>11 DEF IInv

\* When there are no more flash partitions the image is complete.
LEMMA CopyDoneKeeps == ASSUME IInv, CopyDone PROVE IInv'
<1>1. /\ pc = "copy" /\ i > LastIndex /\ pc' = "done"
      /\ UNCHANGED <<board, files, image, table, text, md5, i, todo, out, sys>>
  BY DEF CopyDone
<1>2. Inputs /\ PartsAre(Listed) /\ Types
  BY <1>1, WorksOnParts DEF Works, IInv
<1>3. /\ AssertionsHold /\ i \in FirstIndex .. LastIndex + 1
      /\ sys.size = SysLen
      /\ \A j \in FirstIndex .. i - 1 : Copied(j)
      /\ \A k \in 0 .. sys.size - 1 :
            Byte(sys, k) = Origin("ff", 0) \/ \E j \in FirstIndex .. i - 1 : Within(j, k)
  BY <1>1 DEF IInv, Copying
<1>4. i = LastIndex + 1
  <2>1. FirstIndex \in Nat /\ LastIndex \in Nat /\ i \in Nat
    BY <1>2, <1>3, SysPlaces DEF Types
  <2>. QED BY <1>1, <1>3, <2>1
<1>5. Types'
  BY <1>1, <1>2, TypesStay
<1>6. Begins'
  BY <1>1, <1>2 DEF Begins, Inputs
<1>7. Delivered'
  <2>1. Delivered
    BY <1>1 DEF IInv, Results
  <2>. QED BY <1>1, <2>1, FilesStay
<1>8. Copying'
  <2>1. FirstIndex' = FirstIndex /\ LastIndex' = LastIndex /\ SysLen' = SysLen /\ AssertionsHold'
    BY <1>1, <1>3, PlacesStay
  <2>2. \A j : Copied(j)' = Copied(j) /\ \A k : Within(j, k)' = Within(j, k)
    BY <1>1, CopyingStays
  <2>3. i' = LastIndex' + 1 /\ i' \in FirstIndex' .. LastIndex' + 1 /\ sys'.size = SysLen'
    BY <1>1, <1>3, <1>4, <2>1
  <2>4. \A j \in FirstIndex' .. i' - 1 : Copied(j)'
    BY <1>1, <1>3, <2>1, <2>2
  <2>5. \A k \in 0 .. sys'.size - 1 :
           Byte(sys', k) = Origin("ff", 0) \/ \E j \in FirstIndex' .. i' - 1 : Within(j, k)'
    BY <1>1, <1>3, <2>1, <2>2
  <2>. QED BY ONLY <2>1, <2>3, <2>4, <2>5 DEF Copying
<1>9. Factory' /\ Writing' /\ Results'
  BY <1>1, <1>7 DEF Factory, Writing, Results
<1>. QED BY <1>5, <1>6, <1>8, <1>9 DEF IInv

\* A step that changes nothing keeps everything.
LEMMA StutterKeeps == ASSUME IInv, UNCHANGED vars PROVE IInv'
<1>1. UNCHANGED <<pc, board, files, image, table, text, md5, i, todo, out, sys>>
  BY DEF vars
<1>2. Types' /\ Begins'
  BY <1>1 DEF IInv, Types, Begins, Works
<1>3. /\ Listed' = Listed /\ FirstIndex' = FirstIndex /\ LastIndex' = LastIndex
      /\ SysLen' = SysLen /\ AssertionsHold' = AssertionsHold
  BY <1>1, PartsStay, PlacesStay
<1>4. /\ \A n : Laid(n)' = Laid(n) /\ Extracting(n)' = Extracting(n) /\ Converting(n)' = Converting(n)
      /\ HashIsRight' = HashIsRight /\ Delivered' = Delivered
  BY <1>1, FilesStay
<1>5. \A j : Copied(j)' = Copied(j) /\ \A k : Within(j, k)' = Within(j, k)
  BY <1>1, CopyingStays
<1>6. Factory'
  <2>1. PICK n, m : n = i - 1 /\ m = Len(Listed) /\ n = i' - 1 /\ m = Len(Listed')
    BY <1>1, <1>3
  <2>2. /\ pc = "factory" => i \in 1 .. m + 1 /\ Laid(n) /\ text < TABLE_SIZE
        /\ pc \in {"tool", "write"} => Laid(m) /\ HashIsRight
    BY <2>1 DEF IInv, Factory
  <2>3. /\ pc' = "factory" => i' \in 1 .. m + 1 /\ Laid(n)' /\ text' < TABLE_SIZE
        /\ pc' \in {"tool", "write"} => Laid(m)' /\ HashIsRight'
    BY <1>1, <1>4, <2>2 DEF TABLE_SIZE
  <2>4. (pc' = "factory" => Laid(i - 1)') /\ (pc' \in {"tool", "write"} => Laid(Len(Listed))')
    BY <2>1, <2>3
  <2>. QED BY <2>1, <2>3, <2>4 DEF Factory
<1>7. Writing' /\ Results'
  BY <1>1, <1>4 DEF IInv, Writing, Results
<1>8. Copying'
  <2>1. pc \in {"copy", "done"} =>
           /\ AssertionsHold
           /\ i \in FirstIndex .. LastIndex + 1 /\ (pc = "done" => i = LastIndex + 1)
           /\ sys.size = SysLen
           /\ \A j \in FirstIndex .. i - 1 : Copied(j)
           /\ \A k \in 0 .. sys.size - 1 :
                 Byte(sys, k) = Origin("ff", 0) \/ \E j \in FirstIndex .. i - 1 : Within(j, k)
    BY DEF IInv, Copying
  <2>2. pc' \in {"copy", "done"} =>
           /\ AssertionsHold'
           /\ i' \in FirstIndex' .. LastIndex' + 1 /\ (pc' = "done" => i' = LastIndex' + 1)
           /\ sys'.size = SysLen'
           /\ \A j \in FirstIndex' .. i' - 1 : Copied(j)'
           /\ \A k \in 0 .. sys'.size - 1 :
                 Byte(sys', k) = Origin("ff", 0) \/ \E j \in FirstIndex' .. i' - 1 : Within(j, k)'
    BY <1>1, <1>3, <1>5, <2>1
  <2>. QED BY ONLY <2>2 DEF Copying
<1>. QED BY <1>2, <1>6, <1>7, <1>8 DEF IInv

\* Every step keeps the invariant.
LEMMA NextKeeps == IInv /\ [Next]_vars => IInv'
<1>1. SUFFICES ASSUME IInv, [Next]_vars PROVE IInv'
  OBVIOUS
<1>2. CASE MakeParts \/ PutPartition \/ PutPartitionFails \/ FactoryDone
  BY <1>1, <1>2, MakePartsKeeps, PutPartitionKeeps, PutPartitionFailsKeeps, FactoryDoneKeeps
<1>3. CASE Extract \/ Convert \/ ConvertFails \/ Write \/ WriteDone
  BY <1>1, <1>3, Extracts, Converts, ConvertFailsKeeps, WriteKeeps, WriteDoneKeeps
<1>4. CASE Sysupgrade \/ SysupgradeFails
  BY <1>1, <1>4, SysupgradeKeeps, SysupgradeFailsKeeps
<1>5. CASE CopyPartition \/ CopyPartitionFails \/ CopyDone
  BY <1>1, <1>5, CopyPartitionKeeps, CopyPartitionFailsKeeps, CopyDoneKeeps
<1>6. CASE UNCHANGED vars
  BY <1>1, <1>6, StutterKeeps
<1>. QED BY <1>1, <1>2, <1>3, <1>4, <1>5, <1>6 DEF Next

\* The invariant holds in every state.
THEOREM Invariant == Spec => []IInv
  BY InitIInv, NextKeeps, PTL DEF Spec

-----------------------------------------------------------------------------
(* What the invariant says of the images. *)

\* The variables have their types, and no contents have gaps or contradictions.
LEMMA TypesAre == IInv => TypeOK
<1>1. SUFFICES ASSUME IInv PROVE TypeOK
  OBVIOUS
<1>2. /\ pc \in {"make", "factory", "tool", "write", "sysupgrade", "copy", "done", "error", "abort", "crash"}
      /\ board \in ToSet(Devices) /\ files \in Files /\ i \in Nat /\ text \in Nat
      /\ Proper(image) /\ Proper(md5) /\ Proper(sys) /\ \A f \in DOMAIN out : Proper(out[f])
      /\ table \in Seq(Entry) /\ todo \in Seq(Job)
  BY <1>1 DEF IInv, Types
<1>3. ASSUME NEW data \in {image, md5, sys} \cup Range(out) PROVE data \in Content /\ Whole(data)
  <2>1. Proper(data)
    BY <1>2 DEF Range
  <2>. QED BY <2>1, ProperIsWhole
<1>4. \A k \in DOMAIN table : table[k].base \in Nat /\ table[k].size \in Nat
  <2>1. \A k \in DOMAIN table : table[k] \in Entry
    BY <1>2
  <2>. QED BY <2>1 DEF Entry
<1>5. \A k \in DOMAIN todo : todo[k].at \in Nat /\ todo[k].size \in Nat
  <2>1. \A k \in DOMAIN todo : todo[k] \in Job
    BY <1>2
  <2>. QED BY <2>1 DEF Job
<1>. QED BY <1>2, <1>3, <1>4, <1>5 DEF TypeOK

\* What was extracted is what went in.
LEMMA Restores == IInv => ExtractRestores
<1>1. SUFFICES ASSUME IInv, pc = "sysupgrade", Extracted PROVE
                      /\ HashIsRight
                      /\ DOMAIN out = {p.name : p \in ToSet(Listed)}
                      /\ \A p \in ToSet(Listed) : Same(out[p.name], p.data)
  BY DEF ExtractRestores, HashIsRight
<1>2. Inputs /\ PartsAre(Listed)
  BY <1>1, WorksOnParts DEF Works
<1>3. DOMAIN Listed = 1 .. Len(Listed)
  BY <1>2 DEF PartsAre
<1>4. /\ HashIsRight /\ DOMAIN out = ListedNames
      /\ \A k \in 1 .. Len(Listed) : Restored(out[Listed[k].name], Listed[k].data)
  BY <1>1 DEF IInv, Results, Delivered
<1>5. ListedNames = {p.name : p \in ToSet(Listed)}
  BY <1>3 DEF ListedNames, ToSet
<1>6. ASSUME NEW p \in ToSet(Listed) PROVE Same(out[p.name], p.data)
  <2>1. PICK k \in 1 .. Len(Listed) : p = Listed[k]
    BY <1>3 DEF ToSet
  <2>2. Proper(p.data) /\ Restored(out[p.name], p.data)
    BY <1>2, <1>4, <2>1 DEF PartsAre
  <2>3. Proper(out[p.name])
    <3>1. p.name \in DOMAIN out
      BY <1>4, <2>1 DEF ListedNames
    <3>. QED BY <1>1, <3>1 DEF IInv, Types
  <2>4. out[p.name].size = p.data.size
        /\ \A n \in 0 .. out[p.name].size - 1 : Byte(out[p.name], n) = Byte(p.data, n)
    BY <2>2 DEF Restored
  <2>. QED BY <2>2, <2>3, <2>4, SameIs
<1>. QED BY <1>4, <1>5, <1>6

\* Every partition is in the sysupgrade image, where it should be.
LEMMA ImageIsWhole == IInv => SysupgradeIsWhole
<1>1. SUFFICES ASSUME IInv, pc = "done"
               PROVE  /\ \A k \in FirstIndex .. LastIndex :
                            LET p == Named(Listed, board.partitions[k].name)
                                at == board.partitions[k].base - board.partitions[FirstIndex].base
                            IN  p # 0 => Same(Slice(sys, at, Listed[p].data.size), Listed[p].data)
                      /\ sys.size = board.partitions[LastIndex].base - board.partitions[FirstIndex].base
                                     + Listed[Named(Listed, board.last)].data.size
  BY DEF SysupgradeIsWhole
<1>2. Inputs /\ PartsAre(Listed)
  BY <1>1, WorksOnParts DEF Works
<1>3. /\ AssertionsHold /\ i = LastIndex + 1 /\ sys.size = SysLen
      /\ \A j \in FirstIndex .. i - 1 : Copied(j)
  BY <1>1 DEF IInv, Copying
<1>4. Proper(sys)
  BY <1>1 DEF IInv, Types
<1>5. LastIndex \in Nat
  BY <1>2, <1>3, SysPlaces
<1>6. sys.size = board.partitions[LastIndex].base - board.partitions[FirstIndex].base
                  + Listed[Named(Listed, board.last)].data.size
  BY <1>3 DEF SysLen, SysOffset
<1>7. ASSUME NEW k \in FirstIndex .. LastIndex, PartOf(k) # 0
      PROVE  Same(Slice(sys, SysOffset(k), Listed[PartOf(k)].data.size), Listed[PartOf(k)].data)
  <2>1. Holds(sys, SysOffset(k), Listed[PartOf(k)].data)
    <3>1. k \in FirstIndex .. i - 1
      BY <1>3, <1>5
    <3>. QED BY <1>3, <1>7, <3>1 DEF Copied
  <2>2. Proper(Listed[PartOf(k)].data) /\ SysOffset(k) \in Nat
    BY <1>2, <1>3, <1>7, SysPlaces
  <2>. QED BY <1>4, <2>1, <2>2, SliceHeld
<1>. QED BY <1>6, <1>7 DEF PartOf, SysOffset

\* Where the image ends with the file-system it is that and the os-image.
LEMMA OsAndFs ==
    ASSUME Inputs, PartsAre(Listed), Len(Listed) = 8, FitsFlash(4), FitsFlash(8),
           AssertionsHold, board.last = "file-system"
    PROVE  /\ LastIndex = FirstIndex + 1 /\ FirstIndex \in Nat
           /\ PartOf(FirstIndex) = 4 /\ PartOf(LastIndex) = 8
           /\ SysOffset(FirstIndex) = 0 /\ SysOffset(LastIndex) = Gap
           /\ Gap = OsSlot.size /\ SysLen = Gap + FsData.size
<1> DEFINE b == board.partitions
           os == Named(b, "os-image")
           fs == Named(b, "file-system")
<1>1. /\ board.first = "os-image" /\ 0 < os /\ os < fs /\ fs = os + 1
      /\ b[fs].base = b[os].base + b[os].size
  BY SysupgradeAssumption DEF Inputs
<1>2. FirstIndex = os /\ LastIndex = fs
  BY <1>1 DEF FirstIndex, LastIndex
<1>3. BoardIs(board) /\ Len(b) \in Nat
  BY BoardsAre DEF Inputs, BoardIs
<1>4. /\ os \in 0 .. Len(b) /\ fs \in 0 .. Len(b)
      /\ os # 0 => b[os].name = "os-image"
      /\ fs # 0 => b[fs].name = "file-system"
  BY <1>3, NamedIs
<1>5. OsSlot = b[os] /\ FsSlot = b[fs]
  BY DEF OsSlot, FsSlot
<1> HIDE DEF os, fs
<1>6. os \in 1 .. Len(b) /\ fs \in 1 .. Len(b) /\ b[os].name = "os-image" /\ b[fs].name = "file-system"
  BY <1>1, <1>3, <1>4
<1>7. b[os].base \in Nat /\ b[os].size \in Nat /\ b[fs].base \in Nat
  BY <1>3, <1>6 DEF BoardIs
<1>8. /\ Listed[4].name = "os-image" /\ Listed[8].name = "file-system"
      /\ \A j, k \in 1 .. Len(Listed) : Listed[j].name = Listed[k].name => j = k
  BY DEF PartsAre
<1>9. Len(Listed) \in Nat /\ 4 \in 1 .. Len(Listed) /\ 8 \in 1 .. Len(Listed)
  OBVIOUS
<1>10. Named(Listed, "os-image") = 4
  <2>1. Named(Listed, Listed[4].name) = 4
    BY <1>8, <1>9, NamedIsOnly
  <2>. QED BY <1>8, <2>1
<1>11. Named(Listed, "file-system") = 8
  <2>1. Named(Listed, Listed[8].name) = 8
    BY <1>8, <1>9, NamedIsOnly
  <2>. QED BY <1>8, <2>1
<1>12. PartOf(os) = 4 /\ PartOf(fs) = 8
  BY <1>6, <1>10, <1>11 DEF PartOf
<1>13. SysOffset(os) = 0 /\ SysOffset(fs) = Gap
  BY <1>2, <1>5, <1>7 DEF SysOffset, Gap
<1>14. Gap = OsSlot.size
  BY <1>1, <1>5, <1>7 DEF Gap
<1>15. SysLen = Gap + FsData.size
  BY <1>2, <1>11, <1>13 DEF SysLen, FsData
<1>16. os \in Nat
  BY <1>6
<1>. QED BY <1>1, <1>2, <1>12, <1>13, <1>14, <1>15, <1>16

\* The sysupgrade image is the beginning of the converted one.
LEMMA SysIsTarget ==
    ASSUME IInv, pc = "done", Converted, board.last = "file-system"
    PROVE  /\ Room /\ Gap = OsSlot.size /\ sys.size = Gap + FsData.size
           /\ \A k \in 0 .. sys.size - 1 : Byte(sys, k) = Target(k)
<1>1. Inputs /\ PartsAre(Listed)
  BY WorksOnParts DEF Works
<1>2. Len(Listed) = 8 /\ FitsFlash(4) /\ FitsFlash(8)
  BY DEF IInv, Results, Delivered
<1>3. Room
  BY <1>1, <1>2, RoomIs
<1>4. /\ AssertionsHold /\ i = LastIndex + 1 /\ sys.size = SysLen
      /\ \A j \in FirstIndex .. i - 1 : Copied(j)
      /\ \A k \in 0 .. sys.size - 1 :
            Byte(sys, k) = Origin("ff", 0) \/ \E j \in FirstIndex .. i - 1 : Within(j, k)
  BY DEF IInv, Copying
<1>5. /\ LastIndex = FirstIndex + 1 /\ FirstIndex \in Nat
      /\ PartOf(FirstIndex) = 4 /\ PartOf(LastIndex) = 8
      /\ SysOffset(FirstIndex) = 0 /\ SysOffset(LastIndex) = Gap
      /\ Gap = OsSlot.size /\ SysLen = Gap + FsData.size
  BY <1>1, <1>2, <1>4, OsAndFs
<1>6. \A j : j \in FirstIndex .. i - 1 <=> j = FirstIndex \/ j = LastIndex
  BY <1>4, <1>5
<1>7. Holds(sys, 0, OsData) /\ Holds(sys, Gap, FsData)
  BY <1>4, <1>5, <1>6 DEF Copied, OsData, FsData
<1>8. /\ \A k : Within(FirstIndex, k) => k < 0 + OsData.size
      /\ \A k : Within(LastIndex, k) => Gap <= k
  BY <1>5 DEF Within, OsData
<1>9. ASSUME NEW k \in 0 .. sys.size - 1 PROVE Byte(sys, k) = Target(k)
  <2>1. OsData.size \in Nat /\ FsData.size \in Nat /\ Gap \in Nat /\ OsData.size <= Gap
    BY <1>3, <1>5 DEF Room
  <2>2. k \in Nat /\ k < Gap + FsData.size
    BY <1>4, <1>5, <2>1
  <2>3. CASE k < OsData.size
    <3>1. k \in 0 .. OsData.size - 1 /\ 0 + k = k
      BY <2>1, <2>2, <2>3
    <3>2. Byte(sys, k) = Byte(OsData, k)
      BY <1>7, <3>1 DEF Holds
    <3>. QED BY <2>3, <3>2 DEF Target
  <2>4. CASE ~(k < OsData.size) /\ k < Gap
    <3>1. ~(k < 0 + OsData.size) /\ ~(Gap <= k)
      BY <2>1, <2>2, <2>4
    <3>2. Byte(sys, k) = Origin("ff", 0)
      BY <1>4, <1>6, <1>8, <3>1
    <3>. QED BY <1>5, <2>4, <3>2 DEF Target
  <2>5. CASE ~(k < Gap)
    <3>1. /\ k - Gap \in 0 .. FsData.size - 1 /\ Gap + (k - Gap) = k
          /\ ~(k < OsData.size)
      BY <2>1, <2>2, <2>5
    <3>2. Byte(sys, k) = Byte(FsData, k - Gap)
      BY <1>7, <3>1 DEF Holds
    <3>. QED BY <1>5, <2>2, <2>5, <3>1, <3>2 DEF Target
  <2>. QED BY <2>3, <2>4, <2>5
<1>. QED BY <1>3, <1>4, <1>5, <1>9

\* The two ways to a sysupgrade image agree.
LEMMA Agrees == IInv => ConvertAgrees
<1> DEFINE o == out["sysupgrade"]
           begin == Slice(o, 0, sys.size)
           rest == Slice(o, sys.size, o.size)
<1>1. SUFFICES ASSUME IInv, pc = "done", Converted, board.last = "file-system"
               PROVE  Same(begin, sys) /\ Same(rest, Bytes("ff", rest.size))
  BY DEF ConvertAgrees
<1>2. /\ Room /\ Gap = OsSlot.size /\ sys.size = Gap + FsData.size
      /\ \A k \in 0 .. sys.size - 1 : Byte(sys, k) = Target(k)
  BY <1>1, SysIsTarget
<1>3. IsStage(o, 5)
  BY <1>1 DEF IInv, Results, Delivered
<1>4. o.size = Gap + FsSlot.size /\ \A k \in 0 .. o.size - 1 : Byte(o, k) = Target(k)
  BY <1>3 DEF IsStage, StageSize
<1>5. Proper(o) /\ Proper(sys)
  BY <1>1 DEF IInv, Types, Converted
<1>6. /\ sys.size \in Nat /\ o.size \in Nat /\ sys.size <= o.size
      /\ Gap \in Nat /\ FsData.size \in Nat /\ OsData.size \in Nat /\ OsData.size <= Gap
  BY <1>2, <1>4 DEF Room
<1> HIDE DEF o
<1>7. /\ Proper(begin) /\ begin.size = sys.size
      /\ \A k \in 0 .. begin.size - 1 : Byte(begin, k) = Byte(o, 0 + k)
  <2>1. /\ Proper(begin)
        /\ begin.size = IF o.size <= 0 THEN 0 ELSE IF sys.size <= o.size - 0 THEN sys.size ELSE o.size - 0
        /\ \A k \in 0 .. begin.size - 1 : Byte(begin, k) = Byte(o, 0 + k)
    <3>1. Proper(o) /\ 0 \in Nat /\ sys.size \in Nat
      BY <1>5, <1>6
    <3>. QED BY <3>1, SliceIs
  <2> HIDE DEF begin
  <2>. QED BY <1>6, <2>1
<1>8. /\ Proper(rest) /\ rest.size = o.size - sys.size
      /\ \A k \in 0 .. rest.size - 1 : Byte(rest, k) = Byte(o, sys.size + k)
  <2>1. /\ Proper(rest)
        /\ rest.size = IF o.size <= sys.size THEN 0
                       ELSE IF o.size <= o.size - sys.size THEN o.size ELSE o.size - sys.size
        /\ \A k \in 0 .. rest.size - 1 : Byte(rest, k) = Byte(o, sys.size + k)
    <3>1. Proper(o) /\ sys.size \in Nat /\ o.size \in Nat
      BY <1>5, <1>6
    <3>. QED BY <3>1, SliceIs
  <2> HIDE DEF rest
  <2>. QED BY <1>6, <2>1
<1> HIDE DEF begin, rest
<1>9. Same(begin, sys)
  <2>1. ASSUME NEW k \in 0 .. begin.size - 1 PROVE Byte(begin, k) = Byte(sys, k)
    <3>1. k \in 0 .. sys.size - 1 /\ k \in 0 .. o.size - 1 /\ 0 + k = k
      BY <1>6, <1>7
    <3>. QED BY <1>2, <1>4, <1>7, <3>1
  <2>. QED BY <1>5, <1>7, <2>1, SameIs
<1>10. Same(rest, Bytes("ff", rest.size))
  <2>1. PICK n \in Nat : n = rest.size
    BY <1>6, <1>8
  <2>2. "ff" \in Fills
    BY DEF Fills
  <2> DEFINE fill == Bytes("ff", n)
  <2>3. Proper(fill) /\ fill.size = n /\ \A k \in 0 .. n - 1 : Byte(fill, k) = Origin("ff", 0)
    BY <2>2, FillIs
  <2> HIDE DEF fill
  <2>4. ASSUME NEW k \in 0 .. rest.size - 1 PROVE Byte(rest, k) = Byte(fill, k)
    <3> DEFINE j == sys.size + k
    <3>1. /\ j \in 0 .. o.size - 1
          /\ ~(j < OsData.size) /\ ~(j < Gap) /\ ~(j < Gap + FsData.size)
      BY <1>2, <1>6, <1>8
    <3>2. Byte(rest, k) = Byte(o, j)
      BY <1>8
    <3> HIDE DEF j
    <3>3. Target(j) = Origin("ff", 0)
      BY <1>2, <3>1 DEF Target
    <3>. QED BY <1>4, <2>1, <2>3, <3>1, <3>2, <3>3
  <2>5. Same(rest, fill)
    BY <1>8, <2>1, <2>3, <2>4, SameIs
  <2>. QED BY <2>1, <2>5 DEF fill
<1>. QED BY <1>9, <1>10

-----------------------------------------------------------------------------
(* Why the tool gives up. *)

\* No line of the image's table is longer than 59 characters.
TextIsShort == pc = "factory" => text <= 59 * (i - 1)

TextInv == TextIsShort /\ GivesUpOnlyForSize

\* A line has the name of a part, and numbers of at most eight digits.
LEMMA LineIsShort ==
    ASSUME NEW name \in PartNames, NEW base \in Nat, NEW size \in Nat
    PROVE  LineLen(8, name, base, size, 3) \in 0 .. 59
<1>1. Len(name) \in 0 .. 15
  BY TextAssumption
<1>2. \A n \in Nat : HexLen(n) \in 7 .. 10
  BY DEF HexLen
<1>3. HexLen(base) \in 7 .. 10 /\ HexLen(size) \in 7 .. 10
  BY <1>2
<1> DEFINE n == Len(name)
           b == HexLen(base)
           z == HexLen(size)
<1>4. LineLen(8, name, base, size, 3) = 8 + 1 + n + 6 + b + 6 + z + 3
  BY DEF LineLen
<1>5. n \in 0 .. 15 /\ b \in 7 .. 10 /\ z \in 7 .. 10
  BY <1>1, <1>3
<1> HIDE DEF n, b, z
<1>6. 8 + 1 + n + 6 + b + 6 + z + 3 \in 0 .. 59
  BY <1>5
<1>. QED BY <1>4, <1>6, Zenon

\* A part that is too big is a reason to give up.
LEMMA TooBigIsReason ==
    ASSUME Inputs, PartsAre(Listed), NEW k \in 1 .. Len(Listed), NEW j \in 1 .. Len(board.partitions),
           Listed[k].name = board.partitions[j].name, TooBig(Listed[k], board.partitions[j])
    PROVE  \E p \in ToSet(Listed), slot \in ToSet(board.partitions) :
              p.name = slot.name /\ p.data.size > slot.size
<1>1. Listed[k] \in ToSet(Listed)
  BY DEF PartsAre, ToSet
<1>2. board.partitions[j] \in ToSet(board.partitions)
  <2>1. DOMAIN board.partitions = 1 .. Len(board.partitions)
    BY BoardsAre DEF Inputs, BoardIs
  <2>. QED BY <2>1 DEF ToSet
<1>. QED BY <1>1, <1>2 DEF TooBig

\* The table of flash partitions fits.
LEMMA MakePartsText == ASSUME IInv, MakeParts PROVE TextInv'
<1>1. /\ pc = "make" /\ text' = text /\ i' = i
      /\ IF TextFits(FlashText(board.partitions)) THEN pc' \in {"factory", "sysupgrade"}
                                                  ELSE pc' = "error"
  BY DEF MakeParts
<1>2. FlashText(board.partitions) \in 0 .. TABLE_SIZE - 1
  BY TextAssumption DEF IInv, Types
<1>3. TextFits(FlashText(board.partitions))
  BY <1>2 DEF TextFits, TABLE_SIZE
<1>4. text' = 0 /\ i' = 1
  BY <1>1 DEF IInv, Begins
<1>. QED BY <1>1, <1>3, <1>4 DEF TextInv, TextIsShort, GivesUpOnlyForSize

\* So does that of at most eight parts.
LEMMA PutPartitionText == ASSUME IInv, TextInv, PutPartition PROVE TextInv'
<1> DEFINE line == LineLen(8, Listed[i].name, NextBase, Listed[i].data.size, 3)
<1>1. /\ pc = "factory" /\ i <= Len(Listed) /\ i' = i + 1 /\ text' = text + line
      /\ pc' = (IF TextFits(text') THEN pc ELSE "error")
  BY DEF PutPartition
<1>2. Types /\ Inputs /\ PartsAre(Listed) /\ Laid(i - 1) /\ text \in Nat
  BY <1>1, WorksOnParts DEF Works, IInv, Types, Factory
<1>3. i \in 1 .. Len(Listed) /\ Len(Listed) \in Nat /\ Len(Listed) <= 8
  BY <1>1, <1>2, PartSizes DEF IInv, Factory
<1>4. line \in 0 .. 59
  <2>1. Listed[i].name \in PartNames /\ Listed[i].data.size \in Nat
    BY <1>2, <1>3, PartSizes DEF PartsAre
  <2>2. NextBase \in Nat
    <3>1. PICK n \in Nat : n = i - 1 /\ n < Len(Listed) /\ n + 1 = i
      BY <1>3
    <3>2. NextBase = Base(n + 1)
      BY <1>2, <3>1, NextBaseIs
    <3>3. Base(i) \in Nat
      BY <1>2, <1>3, BaseIs
    <3>. QED BY <3>1, <3>2, <3>3
  <2>. QED BY <2>1, <2>2, LineIsShort
<1> HIDE DEF line
<1>5. text <= 59 * (i - 1)
  BY <1>1 DEF TextInv, TextIsShort
<1>6. text' <= 59 * (i' - 1) /\ text' <= 59 * 8
  BY <1>1, <1>2, <1>3, <1>4, <1>5
<1>7. TextFits(text')
  BY <1>1, <1>2, <1>4, <1>6 DEF TextFits, TABLE_SIZE
<1>8. pc' = "factory"
  BY <1>1, <1>7
<1>. QED BY <1>6, <1>8 DEF TextInv, TextIsShort, GivesUpOnlyForSize

\* A part has no place in flash, or a place that is too small.
LEMMA PutPartitionFailsText == ASSUME IInv, PutPartitionFails PROVE TextInv'
<1> DEFINE slot == Named(board.partitions, Listed[i].name)
<1>1. /\ pc = "factory" /\ i <= Len(Listed)
      /\ \/ pc' = "abort"
         \/ pc' = "error" /\ slot # 0 /\ TooBig(Listed[i], board.partitions[slot])
      /\ UNCHANGED <<board, files>>
  BY DEF PutPartitionFails, Fail
<1>2. CASE pc' = "abort"
  BY <1>2 DEF TextInv, TextIsShort, GivesUpOnlyForSize
<1>3. CASE pc' = "error" /\ slot # 0 /\ TooBig(Listed[i], board.partitions[slot])
  <2>1. Inputs /\ PartsAre(Listed)
    BY <1>1, WorksOnParts DEF Works
  <2>2. i \in 1 .. Len(Listed)
    BY <1>1, <2>1, PartSizes DEF IInv, Factory
  <2>3. Len(board.partitions) \in Nat
    BY <2>1, BoardsAre DEF Inputs, BoardIs
  <2>4. slot \in 1 .. Len(board.partitions) /\ Listed[i].name = board.partitions[slot].name
    BY <1>3, <2>3, NamedIs
  <2>5. \E p \in ToSet(Listed), s \in ToSet(board.partitions) :
           p.name = s.name /\ p.data.size > s.size
    BY <1>3, <2>1, <2>2, <2>4, TooBigIsReason
  <2>6. Listed' = Listed /\ board' = board
    BY <1>1, PartsStay
  <2>. QED BY <1>3, <2>5, <2>6 DEF TextInv, TextIsShort, GivesUpOnlyForSize
<1>. QED BY <1>1, <1>2, <1>3

\* A part of a sysupgrade image is too big for its place.
LEMMA CopyPartitionFailsText == ASSUME IInv, CopyPartitionFails PROVE TextInv'
<1> DEFINE k == Named(Listed, board.partitions[i].name)
<1>1. /\ pc = "copy" /\ i <= LastIndex /\ k # 0 /\ TooBig(Listed[k], board.partitions[i])
      /\ pc' = "error" /\ UNCHANGED <<board, files>>
  BY DEF CopyPartitionFails, Fail
<1>2. Inputs /\ PartsAre(Listed)
  BY <1>1, WorksOnParts DEF Works
<1>3. AssertionsHold /\ i \in FirstIndex .. LastIndex + 1 /\ i \in Nat
  BY <1>1 DEF IInv, Copying, Types
<1>4. i \in 1 .. Len(board.partitions)
  <2>1. /\ FirstIndex \in 1 .. Len(board.partitions) /\ FirstIndex \in Nat /\ LastIndex \in Nat
        /\ LastIndex <= Len(board.partitions)
    BY <1>2, <1>3, SysPlaces
  <2>2. Len(board.partitions) \in Nat
    BY <1>2, BoardsAre DEF Inputs, BoardIs
  <2>. QED BY <1>1, <1>3, <2>1, <2>2
<1>5. k \in 1 .. Len(Listed) /\ Listed[k].name = board.partitions[i].name
  <2>1. Len(Listed) \in Nat
    BY <1>2, PartSizes
  <2>. QED BY <1>1, <2>1, NamedIs
<1>6. \E p \in ToSet(Listed), slot \in ToSet(board.partitions) :
         p.name = slot.name /\ p.data.size > slot.size
  BY <1>1, <1>2, <1>4, <1>5, TooBigIsReason
<1>7. Listed' = Listed /\ board' = board
  BY <1>1, PartsStay
<1>. QED BY <1>1, <1>6, <1>7 DEF TextInv, TextIsShort, GivesUpOnlyForSize

\* The other steps give up for other reasons, or do not give up.
LEMMA OthersText ==
    ASSUME FactoryDone \/ Extract \/ Convert \/ ConvertFails \/ Write \/ WriteDone
           \/ Sysupgrade \/ SysupgradeFails \/ CopyPartition \/ CopyDone
    PROVE  TextInv'
<1>1. pc' \notin {"factory", "error"}
  BY DEF FactoryDone, Extract, Convert, ConvertFails, Write, WriteDone,
         Sysupgrade, SysupgradeFails, CopyPartition, CopyDone, Fail
<1>. QED BY <1>1 DEF TextInv, TextIsShort, GivesUpOnlyForSize

\* Every step keeps the text short and gives up for nothing but a size.
LEMMA NextText == IInv /\ TextInv /\ [Next]_vars => TextInv'
<1>1. SUFFICES ASSUME IInv, TextInv, [Next]_vars PROVE TextInv'
  OBVIOUS
<1>2. CASE UNCHANGED vars
  <2>1. UNCHANGED <<pc, board, files, i, text>> /\ Listed' = Listed
    BY <1>2, PartsStay DEF vars
  <2>. QED BY <1>1, <2>1 DEF TextInv, TextIsShort, GivesUpOnlyForSize
<1>3. CASE MakeParts \/ PutPartition \/ PutPartitionFails \/ CopyPartitionFails
  BY <1>1, <1>3, MakePartsText, PutPartitionText, PutPartitionFailsText, CopyPartitionFailsText
<1>. QED BY <1>1, <1>2, <1>3, OthersText DEF Next

\* The tool has not given up when it begins.
LEMMA InitText == Init => TextInv
  BY DEF Init, TextInv, TextIsShort, GivesUpOnlyForSize

-----------------------------------------------------------------------------
(* The theorems. *)

\* In every state of the tool the variables have their types, and every image and
\* file it has built gives each of its bytes one origin and no more.
THEOREM TypeCorrect == Spec => []TypeOK
  BY Invariant, TypesAre, PTL

\* put_partitions, write_partition: for files of any size, extracting a factory
\* image of any board restores every partition, and its hash is the right one.
THEOREM ExtractionRestores == Spec => []ExtractRestores
  BY Invariant, Restores, PTL

\* generate_sysupgrade_image: for any table of boards in order and files of any
\* size, each partition is whole and at its distance from the first.
THEOREM SysupgradeWhole == Spec => []SysupgradeIsWhole
  BY Invariant, ImageIsWhole, PTL

\* convert_firmware and generate_sysupgrade_image give the same image, whatever
\* the sizes of the flash partitions and of the files.
THEOREM ConversionAgrees == Spec => []ConvertAgrees
  BY Invariant, Agrees, PTL

\* put_partitions, make_partition_table: neither table of any board overflows, the
\* tool gives up for nothing but a file that is too big for its place in flash.
THEOREM GivesUpForSize == Spec => []GivesUpOnlyForSize
<1>1. Spec => []TextInv
  BY InitText, NextText, Invariant, PTL DEF Spec
<1>2. TextInv => GivesUpOnlyForSize
  BY DEF TextInv
<1>. QED BY <1>1, <1>2, PTL

=============================================================================

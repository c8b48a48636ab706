------------------------------ MODULE Extents ------------------------------
(***************************************************************************)
(* The contents of files and buffers of realistic size: a number of bytes, *)
(* and extents that say where they come from.  The bytes lo .. hi - 1 are  *)
(* bytes of something, and shift further on there than here.               *)
(***************************************************************************)
EXTENDS Integers, FiniteSetsExt

\* Fills are the same all over: 0xff, 0x00, and memory nobody has written.
Fills == {"ff", "00", "junk"}

\* What there are bytes of.
Things == Fills \cup
    {"kernel", "rootfs", "genesis", "partition-table", "soft-version", "support-list",
     "extra-para", "identity", "sysconf", "fwup-ptn", "length", "vendor", "salt", "md5"}

Extent == [of : Things, lo : Nat, hi : Nat, shift : Int]

Content == [size : Nat, extents : SUBSET Extent]

Empty == [size |-> 0, extents |-> {}]

\* n bytes of something, from its byte at on; or from its beginning.
BytesFrom(of, at, n) == [size |-> n, extents |-> {[of |-> of, lo |-> 0, hi |-> n, shift |-> at]}]

Bytes(of, n) == BytesFrom(of, 0, n)

\* The extents x that were d bytes further down.
MoveUp(x, d) == [of |-> x.of, lo |-> x.lo + d, hi |-> x.hi + d, shift |-> x.shift - d]

\* The part of extent x between the bytes from and to.
Clip(x, from, to) ==
    [of |-> x.of, lo |-> Max({x.lo, from}), hi |-> Min({x.hi, to}), shift |-> x.shift]

Cat(data, more) ==
    [size |-> data.size + more.size,
     extents |-> data.extents \cup {MoveUp(x, data.size) : x \in more.extents}]

\* n bytes from offset at on, or what there is of them: fread after fseek.
Slice(data, at, n) ==
    [size |-> Max({0, Min({n, data.size - at})}),
     extents |-> {MoveUp(Clip(x, at, at + n), 0 - at) :
                     x \in {y \in data.extents : y.lo < at + n /\ at < y.hi}}]

\* memcpy(buffer + at, data): a copy over the end would make the buffer larger.
Blit(buffer, at, data) ==
    Cat(Cat(Slice(buffer, 0, at), data), Slice(buffer, at + data.size, buffer.size))

-----------------------------------------------------------------------------
\* Two extents give the bytes they share the same origin.
Agree(x, y) ==
    Max({x.lo, y.lo}) < Min({x.hi, y.hi}) =>
        x.of = y.of /\ (x.of \in Fills \/ x.shift = y.shift)

\* Every byte has an origin, and only one: where an extent ends another goes on.
Whole(data) ==
    /\ \A x \in data.extents : x.hi <= data.size
    /\ \A k \in {0} \cup {x.hi : x \in data.extents} :
          k < data.size => \E x \in data.extents : x.lo <= k /\ k < x.hi
    /\ \A x, y \in data.extents : Agree(x, y)

\* The same bytes.
Same(data, other) ==
    data.size = other.size /\ \A x \in data.extents, y \in other.extents : Agree(x, y)

=============================================================================

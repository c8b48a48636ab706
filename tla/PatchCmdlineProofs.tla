------------------------- MODULE PatchCmdlineProofs -------------------------
(***************************************************************************)
(* Proofs, for any images, command lines, search spaces and marker, that   *)
(* patch-cmdline changes nothing but the window behind the first marker,   *)
(* and that a run that succeeds leaves nothing of the runs before it.      *)
(***************************************************************************)
EXTENDS PatchCmdline, SequenceTheorems, TLAPS

\* The sizes as the steps below need them.
LEMMA Sizes ==
    /\ Marker \in Seq(STRING) /\ Len(Marker) \in Nat /\ Len(Marker) > 0
    /\ CMDLINE_MAX \in Nat /\ Len(Marker) < CMDLINE_MAX
    /\ Window \in Nat /\ Len(Marker) + Window = CMDLINE_MAX /\ Step \in Nat /\ Step > 0
    /\ NUL \in STRING
<1>1. NUL \in STRING
  BY ByteAssumption
<1>2. Marker \in Seq(STRING) /\ Marker # <<>>
  BY MarkerAssumption
<1>3. Len(Marker) \in Nat /\ Len(Marker) > 0
  BY <1>2
<1>4. /\ CMDLINE_MAX \in Nat /\ Len(Marker) < CMDLINE_MAX /\ Step \in Nat /\ Step > 0
  BY MarkerAssumption
<1>5. Window \in Nat /\ Len(Marker) + Window = CMDLINE_MAX
  BY <1>3, <1>4 DEF Window
<1> QED
  BY <1>1, <1>2, <1>3, <1>4, <1>5

\* g is f with data written behind its first at bytes.
Overwritten(g, f, at, data) ==
    /\ g \in Seq(STRING) /\ Len(g) = Len(f)
    /\ \A k \in 1 .. Len(f) : g[k] = IF k - at \in 1 .. Len(data) THEN data[k - at] ELSE f[k]

\* What memcpy leaves, byte by byte.
LEMMA OverwriteIs ==
    ASSUME NEW f \in Seq(STRING), NEW at \in Nat, NEW data \in Seq(STRING),
           NEW g, g = Overwrite(f, at, data)
    PROVE  Overwritten(g, f, at, data)
<1>1. DOMAIN f = 1 .. Len(f) /\ DOMAIN data = 1 .. Len(data) /\ Len(f) \in Nat
  OBVIOUS
<1>2. g = [k \in 1 .. Len(f) |-> IF k - at \in 1 .. Len(data) THEN data[k - at] ELSE f[k]]
  BY <1>1 DEF Overwrite
<1>3. g \in [1 .. Len(f) -> STRING]
  BY <1>2
<1>4. g \in Seq(STRING)
  BY <1>1, <1>3, SeqDef
<1>5. DOMAIN g = 1 .. Len(f) /\ DOMAIN g = 1 .. Len(g) /\ Len(g) \in Nat
  BY <1>3, <1>4
<1> QED
  BY <1>1, <1>2, <1>4, <1>5 DEF Overwritten

\* Whether the marker is somewhere depends on the bytes up to its end only.
LEMMA SameMarker ==
    ASSUME NEW f \in Seq(STRING), NEW g \in Seq(STRING), Len(f) = Len(g),
           NEW at \in Nat, at + Len(Marker) <= Len(f),
           \A k \in 1 .. at + Len(Marker) : f[k] = g[k]
    PROVE  MarkerAt(f, at) <=> MarkerAt(g, at)
<1> DEFINE b == at + Len(Marker)
           x == SubSeq(f, at + 1, b)
           y == SubSeq(g, at + 1, b)
<1>1. /\ at + 1 \in Int /\ b \in Int
      /\ \A i \in at + 1 .. b : f[i] \in STRING
      /\ \A i \in at + 1 .. b : g[i] \in STRING
  BY Sizes
<1>2. /\ x \in Seq(STRING) /\ Len(x) = IF at + 1 <= b THEN b - (at + 1) + 1 ELSE 0
      /\ \A i \in 1 .. b - (at + 1) + 1 : x[i] = f[at + 1 + i - 1]
  BY <1>1, SubSeqProperties
<1>3. /\ y \in Seq(STRING) /\ Len(y) = IF at + 1 <= b THEN b - (at + 1) + 1 ELSE 0
      /\ \A i \in 1 .. b - (at + 1) + 1 : y[i] = g[at + 1 + i - 1]
  BY <1>1, SubSeqProperties
<1> HIDE DEF x, y
<1>4. Len(x) = Len(Marker) /\ Len(y) = Len(Marker)
  BY <1>2, <1>3, Sizes
<1>5. ASSUME NEW i \in 1 .. Len(x) PROVE x[i] = y[i]
  <2>1. i \in 1 .. b - (at + 1) + 1 /\ at + 1 + i - 1 \in 1 .. at + Len(Marker)
    BY <1>4, Sizes
  <2> QED
    BY <1>2, <1>3, <2>1
<1>6. x = y
  BY <1>2, <1>3, <1>4, <1>5, SeqEqual
<1> QED
  BY <1>6 DEF MarkerAt, x, y

-----------------------------------------------------------------------------
(***************************************************************************)
(* The inductive invariant.  An image is untouched, or its first aligned   *)
(* marker was found, and then every run, on whatever earlier runs have     *)
(* left, finds that one again: what they wrote is behind it.               *)
(***************************************************************************)

\* The first aligned marker of image k is behind its first h bytes.
IsHome(k, h) ==
    /\ h \in 0 .. Len(k) /\ h % Step = 0 /\ MarkerAt(k, h)
    /\ \A before \in 0 .. h - 1 : before % Step = 0 => ~MarkerAt(k, before)

\* Image f is image k but for the window behind the marker at h.
Same(f, k, h) ==
    \A i \in 1 .. Len(k) : i <= h + Len(Marker) \/ i > h + CMDLINE_MAX => f[i] = k[i]

\* The window of f holds line and zeros.
Holds(f, h, line) ==
    \A j \in 1 .. Window : f[h + Len(Marker) + j] = IF j <= Len(line) THEN line[j] ELSE NUL

\* The test of the length before the image is opened.
Fits(line) == Len(line) + Len(Marker) + 1 <= CMDLINE_MAX

\* No run has written yet.
Untouched == file = kernel /\ patched.how = "new" /\ pc \in {"idle", "search"}

\* Some run has found a marker, always the same one, at h; only what is behind it
\* differs from the kernel.
Touched(h) ==
    /\ IsHome(kernel, h) /\ h + CMDLINE_MAX <= Len(kernel)
    /\ Same(file, kernel, h)
    /\ pc \in {"memset", "strcpy"} => p = h + Len(Marker)
    /\ pc = "strcpy" => Holds(file, h, <<>>)
    /\ patched.how = "ok" => Fits(patched.line) /\ Holds(file, h, patched.line)

\* The inductive invariant.
IInv == /\ TypeOK
        /\ Len(file) = Len(kernel)
        /\ pc # "idle" => Fits(cmdline)
        /\ Untouched \/ \E h \in Nat : Touched(h)

\* There is one first marker.
LEMMA OneHome ==
    ASSUME NEW k, Len(k) \in Nat, NEW g, NEW h, IsHome(k, g), IsHome(k, h)
    PROVE  g = h
<1>1. g \in Nat /\ h \in Nat
  BY DEF IsHome
<1>2. CASE g < h
  BY <1>1, <1>2 DEF IsHome
<1>3. CASE h < g
  BY <1>1, <1>3 DEF IsHome
<1> QED
  BY <1>1, <1>2, <1>3

\* The inputs, typed.
LEMMA Inputs ==
    ASSUME TypeOK
    PROVE  /\ kernel \in Seq(STRING) /\ file \in Seq(STRING) /\ Len(kernel) \in Nat
           /\ cmdline \in Seq(STRING) /\ Len(cmdline) \in Nat
           /\ space \in Nat /\ space + CMDLINE_MAX <= Len(kernel) /\ p \in Nat
<1>1. kernel \in Kernels /\ space \in Spaces /\ cmdline \in Cmdlines
      /\ file \in Seq(STRING) /\ p \in 0 .. space + Len(Marker) - 1
  BY DEF TypeOK
<1>2. kernel \in Seq(STRING) /\ space \in Nat /\ Len(kernel) >= space + CMDLINE_MAX
  BY <1>1, InputAssumption
<1>3. cmdline \in Seq(STRING)
  BY <1>1, InputAssumption
<1> QED
  BY <1>1, <1>2, <1>3, Sizes

\* The file is new at the beginning.
LEMMA InvInit == Init => IInv
<1> SUFFICES ASSUME Init PROVE IInv
  OBVIOUS
<1>1. kernel \in Seq(STRING) /\ space \in Nat
  BY InputAssumption DEF Init
<1>2. 0 \in 0 .. space + Len(Marker) - 1
  BY <1>1, Sizes
<1>3. patched \in Outcomes /\ patched.how = "new"
  BY DEF Init, Outcome, Outcomes
<1>4. TypeOK
  BY <1>1, <1>2, <1>3 DEF Init, TypeOK
<1> QED
  BY <1>3, <1>4 DEF Init, IInv, Untouched

\* What is written behind the marker, and is no longer than the window, stays
\* in the window.
LEMMA WriteInWindow ==
    ASSUME NEW k \in Seq(STRING), NEW f \in Seq(STRING), Len(f) = Len(k), NEW h \in Nat,
           Same(f, k, h), NEW data \in Seq(STRING), Len(data) <= Window,
           h + CMDLINE_MAX <= Len(k),
           NEW g, g = Overwrite(f, h + Len(Marker), data)
    PROVE  /\ g \in Seq(STRING) /\ Len(g) = Len(k) /\ Same(g, k, h)
           /\ \A j \in 1 .. Window :
                 g[h + Len(Marker) + j] = IF j <= Len(data) THEN data[j]
                                          ELSE f[h + Len(Marker) + j]
<1> DEFINE at == h + Len(Marker)
<1>1. at \in Nat /\ Len(k) \in Nat /\ Len(data) \in Nat
  BY Sizes
<1>2. g = Overwrite(f, at, data)
  OBVIOUS
<1>3. at + Window = h + CMDLINE_MAX /\ at + Window <= Len(k)
  <2>1. Len(Marker) \in Nat /\ Window \in Nat /\ Len(Marker) + Window = CMDLINE_MAX
    BY Sizes
  <2> QED
    BY <2>1
<1>4. \A i \in 1 .. Len(k) : i <= at \/ i > at + Window => f[i] = k[i]
  BY <1>3 DEF Same
<1> HIDE DEF at
<1>5. /\ g \in Seq(STRING) /\ Len(g) = Len(k)
      /\ \A i \in 1 .. Len(k) : g[i] = IF i - at \in 1 .. Len(data) THEN data[i - at] ELSE f[i]
  <2>1. Overwritten(g, f, at, data)
    BY <1>1, <1>2, OverwriteIs
  <2> QED
    BY <2>1 DEF Overwritten
<1>6. ASSUME NEW i \in 1 .. Len(k), i <= at \/ i > at + Window PROVE g[i] = k[i]
  <2>1. i - at \notin 1 .. Len(data)
    BY <1>1, <1>6, Sizes
  <2> QED
    BY <1>4, <1>5, <1>6, <2>1
<1>7. ASSUME NEW j \in 1 .. Window
      PROVE  g[at + j] = IF j <= Len(data) THEN data[j] ELSE f[at + j]
  <2> DEFINE i == at + j
  <2>1. i \in 1 .. Len(k) /\ i - at = j /\ (j \in 1 .. Len(data) <=> j <= Len(data))
    BY <1>1, <1>3, Sizes
  <2> HIDE DEF i
  <2>2. g[i] = IF i - at \in 1 .. Len(data) THEN data[i - at] ELSE f[i]
    BY <1>5, <2>1
  <2>3. g[i] = IF j <= Len(data) THEN data[j] ELSE f[i]
    BY <2>1, <2>2
  <2> QED
    BY <2>3 DEF i
<1>8. Same(g, k, h)
  BY <1>3, <1>6 DEF Same, at
<1> QED
  BY <1>5, <1>7, <1>8 DEF at

-----------------------------------------------------------------------------
(* The actions. *)

\* A run that looks for the marker finds the one of the original image.
LEMMA SearchStep ==
    ASSUME IInv, Search
    PROVE  IInv'
<1>1. /\ TypeOK /\ Len(file) = Len(kernel) /\ (pc # "idle" => Fits(cmdline))
      /\ (Untouched \/ \E h \in Nat : Touched(h))
  BY DEF IInv
<1>2. PICK at \in Places(space) :
         /\ MarkerAt(file, at)
         /\ \A before \in Places(space) : before < at => ~MarkerAt(file, before)
         /\ p' = at + Len(Marker)
  BY DEF Search
<1>3. /\ pc = "search" /\ pc' = "memset" /\ kernel' = kernel /\ file' = file
      /\ cmdline' = cmdline /\ space' = space /\ patched' = patched
  BY DEF Search
<1>4. /\ kernel \in Seq(STRING) /\ file \in Seq(STRING) /\ Len(kernel) \in Nat
      /\ space \in Nat /\ space + CMDLINE_MAX <= Len(kernel)
  BY <1>1, Inputs
<1>5. at \in 0 .. space - 1 /\ at % Step = 0
  BY DEF Places
<1>6. \A before \in 0 .. at - 1 : before % Step = 0 => before \in Places(space)
  BY <1>4, <1>5 DEF Places
<1>7. at \in Nat /\ at + CMDLINE_MAX <= Len(kernel) /\ at + Len(Marker) <= Len(kernel)
  BY <1>4, <1>5, Sizes
<1>8. TypeOK'
  <2>1. at + Len(Marker) \in 0 .. space + Len(Marker) - 1
    BY <1>4, <1>5, Sizes
  <2> QED
    BY <1>1, <1>2, <1>3, <2>1 DEF TypeOK
<1>9. /\ IsHome(kernel, at) /\ Same(file, kernel, at)
      /\ (patched.how = "ok" => Fits(patched.line) /\ Holds(file, at, patched.line))
  <2>1. CASE Untouched
    <3>1. file = kernel /\ patched.how = "new"
      BY <2>1 DEF Untouched
    <3>2. at \in 0 .. Len(kernel)
      BY <1>4, <1>7, Sizes
    <3>3. ASSUME NEW before \in 0 .. at - 1, before % Step = 0 PROVE ~MarkerAt(kernel, before)
      <4>1. before \in Places(space) /\ before < at
        BY <1>5, <1>6, <3>3
      <4> QED
        BY <1>2, <3>1, <4>1
    <3>4. IsHome(kernel, at)
      BY <1>2, <1>5, <3>1, <3>2, <3>3 DEF IsHome
    <3> QED
      BY <3>1, <3>4 DEF Same
  <2>2. ASSUME NEW h \in Nat, Touched(h)
        PROVE  /\ IsHome(kernel, at) /\ Same(file, kernel, at)
               /\ (patched.how = "ok" => Fits(patched.line) /\ Holds(file, at, patched.line))
    <3>1. /\ IsHome(kernel, h) /\ h + CMDLINE_MAX <= Len(kernel) /\ Same(file, kernel, h)
          /\ (patched.how = "ok" => Fits(patched.line) /\ Holds(file, h, patched.line))
      BY <2>2 DEF Touched
    <3>2. /\ h % Step = 0 /\ MarkerAt(kernel, h)
          /\ \A before \in 0 .. h - 1 : before % Step = 0 => ~MarkerAt(kernel, before)
      BY <3>1 DEF IsHome
    <3>3. ASSUME NEW a \in Nat, a <= h PROVE MarkerAt(file, a) <=> MarkerAt(kernel, a)
      <4>1. a + Len(Marker) <= Len(file) /\ a + Len(Marker) <= h + Len(Marker)
        BY <1>1, <1>4, <3>1, <3>3, Sizes
      <4>2. \A k \in 1 .. a + Len(Marker) : file[k] = kernel[k]
        BY <1>1, <1>4, <3>1, <4>1, Sizes DEF Same
      <4> QED
        BY <1>1, <1>4, <4>1, <4>2, SameMarker
    <3>4. ~(at < h)
      <4> SUFFICES ASSUME at < h PROVE FALSE
        OBVIOUS
      <4>1. MarkerAt(kernel, at)
        BY <1>2, <1>7, <3>3
      <4>2. at \in 0 .. h - 1
        BY <1>7
      <4> QED
        BY <1>5, <3>2, <4>1, <4>2
    <3>5. ~(h < at)
      <4> SUFFICES ASSUME h < at PROVE FALSE
        OBVIOUS
      <4>1. h \in 0 .. at - 1
        BY <1>7
      <4>2. h \in Places(space)
        BY <1>6, <3>2, <4>1
      <4>3. MarkerAt(file, h)
        BY <3>2, <3>3
      <4> QED
        BY <1>2, <4>2, <4>3
    <3>6. at = h
      BY <1>7, <3>4, <3>5
    <3> QED
      BY <3>1, <3>6
  <2> QED
    BY <1>1, <2>1, <2>2
<1>10. Touched(at)'
  BY <1>2, <1>3, <1>7, <1>9 DEF Touched
<1> QED
  BY <1>1, <1>3, <1>7, <1>8, <1>10 DEF IInv

\* The state in which the program writes, and what a write that stays in the
\* window leaves.
LEMMA WriteStep ==
    ASSUME IInv, pc \in {"memset", "strcpy"}, NEW data \in Seq(STRING), Len(data) <= Window,
           file' = Overwrite(file, p, data), kernel' = kernel
    PROVE  \E h \in Nat :
             /\ Touched(h) /\ p = h + Len(Marker)
             /\ file' \in Seq(STRING) /\ Len(file') = Len(kernel') /\ Same(file', kernel', h)
             /\ \A j \in 1 .. Window :
                   file'[h + Len(Marker) + j] = IF j <= Len(data) THEN data[j]
                                                ELSE file[h + Len(Marker) + j]
<1>1. TypeOK /\ Len(file) = Len(kernel)
  BY DEF IInv
<1>2. PICK h \in Nat : Touched(h)
  BY DEF IInv, Untouched
<1>3. h + CMDLINE_MAX <= Len(kernel) /\ Same(file, kernel, h) /\ p = h + Len(Marker)
  BY <1>2 DEF Touched
<1>4. kernel \in Seq(STRING) /\ file \in Seq(STRING)
  BY <1>1, Inputs
<1> DEFINE g == file'
<1>5. g = Overwrite(file, h + Len(Marker), data)
  BY <1>3
<1> HIDE DEF g
<1>6. /\ g \in Seq(STRING) /\ Len(g) = Len(kernel) /\ Same(g, kernel, h)
      /\ \A j \in 1 .. Window :
            g[h + Len(Marker) + j] = IF j <= Len(data) THEN data[j] ELSE file[h + Len(Marker) + j]
  BY <1>1, <1>3, <1>4, <1>5, WriteInWindow
<1> QED
  BY <1>2, <1>3, <1>6 DEF g

\* The data of memset and of strcpy, and the beginnings of them, fit the window.
LEMMA DataFits ==
    ASSUME IInv
    PROVE  /\ Zeros(Window) \in Seq(STRING) /\ Len(Zeros(Window)) = Window
           /\ \A j \in 1 .. Window : Zeros(Window)[j] = NUL
           /\ pc # "idle" => /\ Append(cmdline, NUL) \in Seq(STRING)
                             /\ Len(Append(cmdline, NUL)) = Len(cmdline) + 1
                             /\ Len(cmdline) + 1 <= Window
<1> DEFINE z == Zeros(Window)
<1>1. z \in [1 .. Window -> STRING] /\ \A j \in 1 .. Window : z[j] = NUL
  BY Sizes DEF Zeros
<1> HIDE DEF z
<1>2. z \in Seq(STRING)
  BY <1>1, Sizes, SeqDef
<1>3. DOMAIN z = 1 .. Window /\ DOMAIN z = 1 .. Len(z) /\ Len(z) \in Nat
  BY <1>1, <1>2
<1>4. Len(z) = Window
  BY <1>3, Sizes
<1>5. cmdline \in Seq(STRING) /\ Len(cmdline) \in Nat /\ (pc # "idle" => Fits(cmdline))
  BY Inputs DEF IInv
<1>6. Append(cmdline, NUL) \in Seq(STRING) /\ Len(Append(cmdline, NUL)) = Len(cmdline) + 1
  BY <1>5, Sizes
<1>7. pc # "idle" => Len(cmdline) + 1 <= Window
  BY <1>5, Sizes DEF Fits
<1> QED
  BY <1>1, <1>2, <1>4, <1>6, <1>7 DEF z

\* memset clears the window only (patch-cmdline.c:73).
LEMMA MemsetStep ==
    ASSUME IInv, Memset
    PROVE  IInv'
<1>1. /\ pc = "memset" /\ pc' = "strcpy" /\ kernel' = kernel /\ cmdline' = cmdline
      /\ space' = space /\ p' = p /\ patched' = Outcome("killed")
      /\ file' = Overwrite(file, p, Zeros(Window))
  BY DEF Memset
<1> DEFINE data == Zeros(Window)
<1>2. data \in Seq(STRING) /\ Len(data) = Window /\ \A j \in 1 .. Window : data[j] = NUL
  BY DataFits
<1>3. file' = Overwrite(file, p, data) /\ Len(data) <= Window
  BY <1>1, <1>2, Sizes
<1> HIDE DEF data
<1>4. PICK h \in Nat :
        /\ Touched(h) /\ p = h + Len(Marker)
        /\ file' \in Seq(STRING) /\ Len(file') = Len(kernel') /\ Same(file', kernel', h)
        /\ \A j \in 1 .. Window :
              file'[h + Len(Marker) + j] = IF j <= Len(data) THEN data[j]
                                           ELSE file[h + Len(Marker) + j]
  BY <1>1, <1>2, <1>3, WriteStep
<1>5. Holds(file', h, <<>>)
  <2>1. \A j \in 1 .. Window : file'[h + Len(Marker) + j] = NUL
    <3>1. Len(data) = Window /\ \A j \in 1 .. Window : j <= Window
      BY <1>2, Sizes
    <3> QED
      BY <1>2, <1>4, <3>1
  <2>2. \A j \in 1 .. Window : ~(j <= Len(<<>>))
    BY Sizes
  <2> QED
    BY <2>1, <2>2 DEF Holds
<1>6. TypeOK /\ patched' \in Outcomes /\ patched'.how = "killed"
  BY <1>1 DEF IInv, TypeOK, Outcome, Outcomes
<1>7. TypeOK'
  BY <1>1, <1>4, <1>6 DEF TypeOK
<1>8. Touched(h)'
  BY <1>1, <1>4, <1>5, <1>6 DEF Touched
<1>9. Fits(cmdline')
  BY <1>1 DEF IInv
<1> QED
  BY <1>4, <1>7, <1>8, <1>9 DEF IInv

\* strcpy leaves the new line and zeros in the window, and nothing else is touched
\* (patch-cmdline.c:74).
LEMMA StrcpyStep ==
    ASSUME IInv, Strcpy
    PROVE  IInv'
<1>1. /\ pc = "strcpy" /\ pc' = "idle" /\ kernel' = kernel /\ cmdline' = cmdline
      /\ space' = space /\ p' = p /\ patched' = Outcome("ok")
      /\ file' = Overwrite(file, p, Append(cmdline, NUL))
  BY DEF Strcpy
<1> DEFINE data == Append(cmdline, NUL)
<1>2. data \in Seq(STRING) /\ Len(data) = Len(cmdline) + 1 /\ Len(data) <= Window
  BY <1>1, DataFits
<1>3. cmdline \in Seq(STRING) /\ Len(cmdline) \in Nat /\ Fits(cmdline) /\ TypeOK
  BY <1>1, Inputs DEF IInv
<1>4. data[Len(cmdline) + 1] = NUL /\ \A j \in 1 .. Len(cmdline) : data[j] = cmdline[j]
  BY <1>3
<1>5. file' = Overwrite(file, p, data)
  BY <1>1
<1> HIDE DEF data
<1>6. PICK h \in Nat :
        /\ Touched(h) /\ p = h + Len(Marker)
        /\ file' \in Seq(STRING) /\ Len(file') = Len(kernel') /\ Same(file', kernel', h)
        /\ \A j \in 1 .. Window :
              file'[h + Len(Marker) + j] = IF j <= Len(data) THEN data[j]
                                           ELSE file[h + Len(Marker) + j]
  BY <1>1, <1>2, <1>5, WriteStep
<1>7. \A j \in 1 .. Window : file[h + Len(Marker) + j] = NUL
  <2>1. Holds(file, h, <<>>)
    BY <1>1, <1>6 DEF Touched
  <2>2. \A j \in 1 .. Window : ~(j <= Len(<<>>))
    BY Sizes
  <2> QED
    BY <2>1, <2>2 DEF Holds
<1>8. Holds(file', h, cmdline)
  <2> SUFFICES ASSUME NEW j \in 1 .. Window
               PROVE  file'[h + Len(Marker) + j] = IF j <= Len(cmdline) THEN cmdline[j] ELSE NUL
    BY DEF Holds
  <2>1. j \in Nat /\ j >= 1
    BY Sizes
  <2>2. file'[h + Len(Marker) + j] = IF j <= Len(cmdline) + 1 THEN data[j] ELSE NUL
    BY <1>2, <1>6, <1>7
  <2>3. CASE j <= Len(cmdline)
    BY <1>3, <1>4, <2>1, <2>2, <2>3
  <2>4. CASE j = Len(cmdline) + 1
    BY <1>3, <1>4, <2>2, <2>4
  <2>5. CASE j > Len(cmdline) + 1
    BY <1>3, <2>1, <2>2, <2>5
  <2> QED
    BY <1>3, <2>1, <2>3, <2>4, <2>5
<1>9. patched' \in Outcomes /\ patched'.how = "ok" /\ patched'.line = cmdline
  BY <1>1, <1>3 DEF TypeOK, Outcome, Outcomes
<1>10. TypeOK'
  BY <1>1, <1>3, <1>6, <1>9 DEF TypeOK
<1>11. Touched(h)'
  BY <1>1, <1>3, <1>6, <1>8, <1>9 DEF Touched
<1> QED
  BY <1>1, <1>6, <1>10, <1>11 DEF IInv

\* However much of it was written.
LEMMA KilledStep ==
    ASSUME IInv, Killed
    PROVE  IInv'
<1> DEFINE data == IF pc = "memset" THEN Zeros(Window) ELSE Append(cmdline, NUL)
<1>1. /\ pc \in {"memset", "strcpy"} /\ pc' = "idle" /\ kernel' = kernel /\ cmdline' = cmdline
      /\ space' = space /\ p' = p /\ patched' = Outcome("killed")
  BY DEF Killed
<1>2. PICK n \in 0 .. Len(data) : file' = Overwrite(file, p, SubSeq(data, 1, n))
  BY DEF Killed
<1>3. data \in Seq(STRING) /\ Len(data) \in Nat /\ Len(data) <= Window
  <2>1. Zeros(Window) \in Seq(STRING) /\ Len(Zeros(Window)) = Window
    BY DataFits
  <2>2. /\ Append(cmdline, NUL) \in Seq(STRING)
        /\ Len(Append(cmdline, NUL)) = Len(cmdline) + 1 /\ Len(cmdline) + 1 <= Window
    BY <1>1, DataFits
  <2>3. CASE pc = "memset"
    BY <2>1, <2>3, Sizes
  <2>4. CASE pc # "memset"
    BY <2>2, <2>4
  <2> QED
    BY <2>3, <2>4
<1> HIDE DEF data
<1> DEFINE part == SubSeq(data, 1, n)
<1>4. part \in Seq(STRING) /\ Len(part) <= Window
  <2>1. 1 \in Int /\ n \in Int /\ \A i \in 1 .. n : data[i] \in STRING
    BY <1>3
  <2>2. part \in Seq(STRING) /\ Len(part) = IF 1 <= n THEN n - 1 + 1 ELSE 0
    BY <2>1, SubSeqProperties
  <2> HIDE DEF part
  <2> QED
    BY <1>3, <2>2, Sizes
<1>5. file' = Overwrite(file, p, part)
  BY <1>2
<1> HIDE DEF part
<1>6. PICK h \in Nat :
        /\ Touched(h) /\ p = h + Len(Marker)
        /\ file' \in Seq(STRING) /\ Len(file') = Len(kernel') /\ Same(file', kernel', h)
  BY <1>1, <1>4, <1>5, WriteStep
<1>7. TypeOK /\ patched' \in Outcomes /\ patched'.how = "killed"
  BY <1>1 DEF IInv, TypeOK, Outcome, Outcomes
<1>8. TypeOK'
  BY <1>1, <1>6, <1>7 DEF TypeOK
<1>9. Touched(h)'
  BY <1>1, <1>6, <1>7 DEF Touched
<1> QED
  BY <1>1, <1>6, <1>8, <1>9 DEF IInv

\* Every step keeps the invariant.
LEMMA Invariance == IInv /\ [Next]_vars => IInv'
<1> SUFFICES ASSUME IInv, [Next]_vars PROVE IInv'
  OBVIOUS
<1>1. CASE Run
  <2>1. /\ pc = "idle" /\ pc' = "search" /\ cmdline' \in Cmdlines /\ space' \in Spaces
        /\ Len(cmdline') + Len(Marker) + 1 <= CMDLINE_MAX /\ p' = 0
        /\ kernel' = kernel /\ file' = file /\ patched' = patched
    BY <1>1 DEF Run
  <2>2. TypeOK'
    <3>1. kernel \in Kernels
      BY DEF IInv, TypeOK
    <3>2. space' \in Nat
      BY <2>1, <3>1, InputAssumption
    <3>3. 0 \in 0 .. space' + Len(Marker) - 1
      BY <3>2, Sizes
    <3> QED
      BY <2>1, <3>3 DEF IInv, TypeOK
  <2>3. Untouched => Untouched'
    BY <2>1 DEF Untouched
  <2>4. ASSUME NEW h \in Nat, Touched(h) PROVE Touched(h)'
    BY <2>1, <2>4 DEF Touched
  <2> QED
    BY <2>1, <2>2, <2>3, <2>4 DEF IInv, Fits
<1>2. CASE Search
  BY <1>2, SearchStep
<1>3. CASE NotFound
  <2>1. /\ pc = "search" /\ pc' = "idle" /\ kernel' = kernel /\ file' = file
        /\ cmdline' = cmdline /\ space' = space /\ p' = p /\ patched' = patched
    BY <1>3 DEF NotFound
  <2>2. TypeOK'
    BY <2>1 DEF IInv, TypeOK
  <2>3. Untouched => Untouched'
    BY <2>1 DEF Untouched
  <2>4. ASSUME NEW h \in Nat, Touched(h) PROVE Touched(h)'
    BY <2>1, <2>4 DEF Touched
  <2> QED
    BY <2>1, <2>2, <2>3, <2>4 DEF IInv
<1>4. CASE Memset
  BY <1>4, MemsetStep
<1>5. CASE Strcpy
  BY <1>5, StrcpyStep
<1>6. CASE Killed
  BY <1>6, KilledStep
<1>7. CASE UNCHANGED vars
  BY <1>7 DEF vars, IInv, TypeOK, Untouched, Touched
<1> QED
  BY <1>1, <1>2, <1>3, <1>4, <1>5, <1>6, <1>7 DEF Next

-----------------------------------------------------------------------------
\* The invariant holds of every state that runs of the program reach.
THEOREM Inductive == Spec => []IInv
  BY InvInit, Invariance, PTL DEF Spec

\* Home is the first marker, if there is one.
LEMMA HomeIs ==
    ASSUME kernel \in Seq(STRING), NEW h \in Nat, IsHome(kernel, h)
    PROVE  Home = h
<1>1. Home = CHOOSE at \in 0 .. Len(kernel) : IsHome(kernel, at)
  <2>1. ASSUME NEW at \in 0 .. Len(kernel)
        PROVE  IsHome(kernel, at) <=> (/\ at % Step = 0 /\ MarkerAt(kernel, at)
                 /\ \A before \in 0 .. at - 1 : before % Step = 0 => ~MarkerAt(kernel, before))
    BY DEF IsHome
  <2> QED
    BY <2>1, Zenon DEF Home
<1>2. h \in 0 .. Len(kernel)
  BY DEF IsHome
<1>3. IsHome(kernel, Home)
  BY <1>1, <1>2
<1> QED
  BY <1>3, OneHome

\* patch-cmdline: no run leaves a file that is not a sequence of bytes, and the
\* place it writes to is within what it has searched and mapped.
THEOREM TypeCorrect == Spec => []TypeOK
<1>1. IInv => TypeOK
  BY DEF IInv
<1> QED
  BY <1>1, Inductive, PTL

\* main: for all images, command lines and search spaces, nothing but the window
\* behind the first marker ever changes, however many runs there were and
\* wherever they were killed.
THEOREM WindowOnly == Spec => []OnlyTheWindowChanges
<1>1. ASSUME IInv PROVE OnlyTheWindowChanges
  <2> SUFFICES ASSUME file # kernel
               PROVE  /\ Len(file) = Len(kernel)
                      /\ \A k \in DOMAIN file :
                            k <= Home + Len(Marker) \/ k > Home + CMDLINE_MAX => file[k] = kernel[k]
    BY DEF OnlyTheWindowChanges
  <2>1. PICK h \in Nat : Touched(h)
    BY <1>1 DEF IInv, Untouched
  <2>2. kernel \in Seq(STRING) /\ file \in Seq(STRING) /\ Len(file) = Len(kernel)
    BY <1>1, Inputs DEF IInv
  <2>3. Home = h
    BY <2>1, <2>2, HomeIs DEF Touched
  <2>4. DOMAIN file = 1 .. Len(kernel)
    BY <2>2
  <2> QED
    BY <2>1, <2>2, <2>3, <2>4 DEF Touched, Same
<1> QED
  BY <1>1, Inductive, PTL

\* Image f is image k with line and zeros behind the marker at h.
Assembled(f, k, h, line) ==
    f = SubSeq(k, 1, h + Len(Marker)) \o line \o Zeros(CMDLINE_MAX - Len(Marker) - Len(line))
        \o SubSeq(k, h + CMDLINE_MAX + 1, Len(k))

\* The four parts of a patched image, byte by byte.
LEMMA FourParts ==
    ASSUME NEW k \in Seq(STRING), NEW f \in Seq(STRING), Len(f) = Len(k), NEW h \in Nat,
           h + CMDLINE_MAX <= Len(k), Same(f, k, h),
           NEW line \in Seq(STRING), Fits(line), Holds(f, h, line)
    PROVE  Assembled(f, k, h, line)
<1> DEFINE at == h + Len(Marker)
           rest == CMDLINE_MAX - Len(Marker) - Len(line)
           q1 == SubSeq(k, 1, at)
           q2 == q1 \o line
           z == Zeros(rest)
           q3 == q2 \o z
           b == h + CMDLINE_MAX
           t == SubSeq(k, b + 1, Len(k))
           q == q3 \o t
<1>1. /\ at \in Nat /\ rest \in Nat /\ at + Len(line) + rest = b /\ b \in Nat
      /\ Len(k) \in Nat /\ Len(line) \in Nat /\ Len(line) + rest = Window /\ at + Window = b
      /\ b <= Len(k) /\ at <= b /\ at = h + Len(Marker)
  <2>1. /\ Len(Marker) \in Nat /\ CMDLINE_MAX \in Nat /\ Len(Marker) < CMDLINE_MAX
        /\ Window = CMDLINE_MAX - Len(Marker)
    BY Sizes DEF Window
  <2>2. Len(k) \in Nat /\ Len(line) \in Nat
    OBVIOUS
  <2>3. Len(line) + Len(Marker) + 1 <= CMDLINE_MAX
    BY DEF Fits
  <2> QED
    BY <2>1, <2>2, <2>3
<1> HIDE DEF b, at, rest
<1>2. q1 \in Seq(STRING) /\ Len(q1) = at /\ \A i \in 1 .. at : q1[i] = k[i]
  <2>1. 1 \in Int /\ at \in Int /\ \A i \in 1 .. at : k[i] \in STRING
    BY <1>1
  <2>2. /\ q1 \in Seq(STRING) /\ Len(q1) = IF 1 <= at THEN at - 1 + 1 ELSE 0
        /\ \A i \in 1 .. at - 1 + 1 : q1[i] = k[1 + i - 1]
    BY <2>1, SubSeqProperties
  <2> HIDE DEF q1
  <2>3. Len(q1) = at
    BY <1>1, <2>2
  <2>4. ASSUME NEW i \in 1 .. at PROVE q1[i] = k[i]
    <3>1. i \in 1 .. at - 1 + 1 /\ 1 + i - 1 = i
      BY <1>1
    <3> QED
      BY <2>2, <3>1
  <2> QED
    BY <2>2, <2>3, <2>4
<1>3. t \in Seq(STRING) /\ Len(t) = Len(k) - b /\ \A i \in 1 .. Len(k) - b : t[i] = k[b + i]
  <2>1. b + 1 \in Int /\ Len(k) \in Int /\ \A i \in b + 1 .. Len(k) : k[i] \in STRING
    BY <1>1
  <2>2. /\ t \in Seq(STRING) /\ Len(t) = IF b + 1 <= Len(k) THEN Len(k) - (b + 1) + 1 ELSE 0
        /\ \A i \in 1 .. Len(k) - (b + 1) + 1 : t[i] = k[b + 1 + i - 1]
    BY <2>1, SubSeqProperties
  <2> HIDE DEF t
  <2>3. Len(t) = Len(k) - b
    BY <1>1, <2>2
  <2>4. ASSUME NEW i \in 1 .. Len(k) - b PROVE t[i] = k[b + i]
    <3>1. i \in 1 .. Len(k) - (b + 1) + 1 /\ b + 1 + i - 1 = b + i
      BY <1>1
    <3> QED
      BY <2>2, <3>1
  <2> QED
    BY <2>2, <2>3, <2>4
<1>4. z \in Seq(STRING) /\ Len(z) = rest /\ \A i \in 1 .. rest : z[i] = NUL
  <2>1. z \in [1 .. rest -> STRING] /\ \A i \in 1 .. rest : z[i] = NUL
    BY Sizes DEF Zeros
  <2> HIDE DEF z
  <2>2. z \in Seq(STRING)
    BY <1>1, <2>1, SeqDef
  <2>3. DOMAIN z = 1 .. rest /\ DOMAIN z = 1 .. Len(z) /\ Len(z) \in Nat
    BY <2>1, <2>2
  <2> QED
    BY <1>1, <2>1, <2>2, <2>3
<1> HIDE DEF q1, t, z
<1>5. /\ q2 \in Seq(STRING) /\ Len(q2) = at + Len(line)
      /\ \A i \in 1 .. at + Len(line) : q2[i] = IF i <= at THEN q1[i] ELSE line[i - at]
  <2>1. /\ q2 \in Seq(STRING) /\ Len(q2) = Len(q1) + Len(line)
        /\ \A i \in 1 .. Len(q1) + Len(line) : q2[i] = IF i <= Len(q1) THEN q1[i] ELSE line[i - Len(q1)]
    <3>1. q1 \in Seq(STRING) /\ line \in Seq(STRING)
      BY <1>2
    <3> QED
      BY ONLY <3>1, ConcatProperties
  <2> HIDE DEF q2
  <2> QED
    BY <1>2, <2>1
<1> HIDE DEF q2
<1>6. /\ q3 \in Seq(STRING) /\ Len(q3) = b
      /\ \A i \in 1 .. b : q3[i] = IF i <= at + Len(line) THEN q2[i] ELSE z[i - (at + Len(line))]
  <2>1. /\ q3 \in Seq(STRING) /\ Len(q3) = Len(q2) + Len(z)
        /\ \A i \in 1 .. Len(q2) + Len(z) : q3[i] = IF i <= Len(q2) THEN q2[i] ELSE z[i - Len(q2)]
    <3>1. q2 \in Seq(STRING) /\ z \in Seq(STRING)
      BY <1>4, <1>5
    <3> QED
      BY ONLY <3>1, ConcatProperties
  <2>2. Len(q2) = at + Len(line) /\ Len(q2) + Len(z) = b
    BY <1>1, <1>4, <1>5
  <2> HIDE DEF q3
  <2> QED
    BY <2>1, <2>2
<1> HIDE DEF q3
<1>7. /\ q \in Seq(STRING) /\ Len(q) = Len(k)
      /\ \A i \in 1 .. Len(k) : q[i] = IF i <= b THEN q3[i] ELSE t[i - b]
  <2>1. /\ q \in Seq(STRING) /\ Len(q) = Len(q3) + Len(t)
        /\ \A i \in 1 .. Len(q3) + Len(t) : q[i] = IF i <= Len(q3) THEN q3[i] ELSE t[i - Len(q3)]
    BY <1>3, <1>6, ConcatProperties
  <2>2. Len(q3) = b /\ Len(q3) + Len(t) = Len(k)
    BY <1>1, <1>3, <1>6
  <2> HIDE DEF q
  <2> QED
    BY <2>1, <2>2
<1> HIDE DEF q
<1>8. ASSUME NEW i \in 1 .. Len(k) PROVE f[i] = q[i]
  <2>1. CASE i <= at
    <3>1. q[i] = k[i]
      <4>1. i <= b /\ i \in 1 .. b /\ i <= at + Len(line) /\ i \in 1 .. at + Len(line) /\ i \in 1 .. at
        BY <1>1, <2>1
      <4>2. q[i] = q3[i] /\ q3[i] = q2[i]
        BY <1>6, <1>7, <4>1
      <4> QED
        BY <1>2, <1>5, <2>1, <4>1, <4>2
    <3> QED
      BY <1>1, <2>1, <3>1 DEF Same
  <2>2. CASE i > at /\ i <= b
    <3> DEFINE j == i - at
    <3>1. j \in 1 .. Window /\ i = h + Len(Marker) + j
      BY <1>1, <2>2, Sizes
    <3> HIDE DEF j
    <3>2. f[i] = IF j <= Len(line) THEN line[j] ELSE NUL
      BY <3>1 DEF Holds
    <3>3. q[i] = q3[i]
      BY <1>7, <2>2
    <3>4. i \in 1 .. b /\ i - at = j /\ (i <= at + Len(line) <=> j <= Len(line))
      BY <1>1, <2>2, <3>1, Sizes
    <3>5. CASE j <= Len(line)
      <4>1. i \in 1 .. at + Len(line) /\ ~(i <= at)
        BY <1>1, <2>2, <3>4, <3>5
      <4>2. q3[i] = q2[i] /\ q2[i] = line[i - at]
        BY <1>5, <1>6, <3>4, <3>5, <4>1
      <4> QED
        BY <3>2, <3>3, <3>4, <3>5, <4>2
    <3>6. CASE ~(j <= Len(line))
      <4>1. i - (at + Len(line)) \in 1 .. rest
        BY <1>1, <2>2, <3>4, <3>6
      <4>2. q3[i] = z[i - (at + Len(line))]
        BY <1>6, <3>4, <3>6
      <4> QED
        BY <1>4, <3>2, <3>3, <3>6, <4>1, <4>2
    <3> QED
      BY <3>5, <3>6
  <2>3. CASE i > b
    <3>1. i - b \in 1 .. Len(k) - b /\ b + (i - b) = i /\ ~(i <= b)
      BY <1>1, <2>3
    <3>2. q[i] = t[i - b] /\ t[i - b] = k[b + (i - b)]
      BY <1>3, <1>7, <3>1
    <3>3. f[i] = k[i]
      BY <2>3 DEF Same, b
    <3> QED
      BY <3>1, <3>2, <3>3
  <2> QED
    BY <1>1, <2>1, <2>2, <2>3
<1>9. f = q
  BY <1>7, <1>8, SeqEqual
<1> QED
  BY <1>9 DEF q, q3, q2, q1, z, t, b, at, rest, Assembled

\* main: for all images, command lines and search spaces, a run that succeeds
\* leaves the original image with its command line and zeros behind the first
\* marker, whatever was there.
THEOREM PatchIsFresh == Spec => []PatchReplaces
<1>1. ASSUME IInv PROVE PatchReplaces
  <2> SUFFICES ASSUME patched.how = "ok" PROVE PatchReplaces
    BY DEF PatchReplaces
  <2>1. PICK h \in Nat : Touched(h)
    BY <1>1 DEF IInv, Untouched
  <2>2. kernel \in Seq(STRING) /\ file \in Seq(STRING) /\ Len(file) = Len(kernel)
    BY <1>1, Inputs DEF IInv
  <2>3. Home = h
    BY <2>1, <2>2, HomeIs DEF Touched
  <2>4. patched.line \in Seq(STRING)
    <3>1. patched.line \in Cmdlines
      BY <1>1 DEF IInv, TypeOK, Outcomes
    <3> QED
      BY <3>1, InputAssumption
  <2>5. /\ h + CMDLINE_MAX <= Len(kernel) /\ Same(file, kernel, h)
        /\ Fits(patched.line) /\ Holds(file, h, patched.line)
    BY <2>1 DEF Touched
  <2>6. Assembled(file, kernel, h, patched.line)
    BY <2>2, <2>4, <2>5, FourParts
  <2> QED
    BY <2>3, <2>6 DEF PatchReplaces, Assembled
<1> QED
  BY <1>1, Inductive, PTL
=============================================================================

---------------------------- MODULE PatchCmdline ----------------------------
(***************************************************************************)
(* tools/patch-cmdline: writes a command line into a kernel image, behind  *)
(* the first marker.  The image is mapped into memory and shared, so what  *)
(* the program has written when it is killed stays in the file; the build  *)
(* then runs it again, perhaps with another command line.                  *)
(*                                                                         *)
(* Bytes are symbols.  The file is at least as long as what is mapped.     *)
(***************************************************************************)
EXTENDS Integers, SequencesExt

CONSTANTS Kernels,      \* images to be patched
          Cmdlines,     \* argv[2]
          Spaces,       \* argv[3], or SEARCH_SPACE
          Marker,       \* "CMDLINE:"
          NUL,          \* the zero byte
          Step,         \* 4: distance of the places that are searched
          CMDLINE_MAX   \* 512: the marker, the command line and a zero byte

ASSUME MarkerAssumption == Marker \in Seq(STRING) /\ Marker # <<>> /\ Step \in Nat \ {0}
                           /\ Len(Marker) < CMDLINE_MAX /\ CMDLINE_MAX \in Nat
ASSUME ByteAssumption == NUL \in STRING
ASSUME InputAssumption == /\ \A k \in Kernels, s \in Spaces :
                                k \in Seq(STRING) /\ s \in Nat /\ Len(k) >= s + CMDLINE_MAX
                          /\ \A c \in Cmdlines : c \in Seq(STRING) /\ NUL \notin ToSet(c)

VARIABLES kernel,         \* the image before it was patched
          file,           \* the image now
          pc,
          cmdline, space, \* the arguments
          p,              \* where the command line goes: bytes before it
          patched         \* history: what was last done to the file

vars == <<kernel, file, pc, cmdline, space, p, patched>>

\* The file is new, or the program was killed on it or has patched it with line.
Outcomes == [how : {"new", "killed", "ok"}, line : Cmdlines]

Outcome(how) == [how |-> how, line |-> cmdline]

TypeOK ==
    /\ kernel \in Kernels /\ file \in Seq(STRING)
    /\ pc \in {"idle", "search", "memset", "strcpy"}
    /\ cmdline \in Cmdlines /\ space \in Spaces
    /\ p \in 0 .. space + Len(Marker) - 1 /\ patched \in Outcomes

Init ==
    /\ kernel \in Kernels /\ file = kernel
    /\ pc = "idle" /\ cmdline \in Cmdlines /\ space \in Spaces /\ p = 0
    /\ patched = Outcome("new")

-----------------------------------------------------------------------------
\* memcpy(file + at, data)
Overwrite(f, at, data) ==
    [k \in DOMAIN f |-> IF k - at \in DOMAIN data THEN data[k - at] ELSE f[k]]

Zeros(n) == [k \in 1 .. n |-> NUL]

\* The marker is behind the first at bytes.
MarkerAt(f, at) == SubSeq(f, at + 1, at + Len(Marker)) = Marker

\* Mutant: the loop looks at one place too many.
Places_OneMore(s) == {at \in 0 .. s : at % Step = 0}

\* The places that the loop looks at.
Places(s) == {at \in 0 .. s - 1 : at % Step = 0}

\* main begins.  Too long a command line, or a file that cannot be opened or
\* mapped, leaves everything as it is.
Run ==
    /\ pc = "idle"
    /\ cmdline' \in Cmdlines /\ space' \in Spaces
    /\ Len(cmdline') + Len(Marker) + 1 <= CMDLINE_MAX
    /\ pc' = "search" /\ p' = 0
    /\ UNCHANGED <<kernel, file, patched>>

Search ==
    /\ pc = "search"
    /\ \E at \in Places(space) :
         /\ MarkerAt(file, at)
         /\ \A before \in Places(space) : before < at => ~MarkerAt(file, before)
         /\ p' = at + Len(Marker)
    /\ pc' = "memset"
    /\ UNCHANGED <<kernel, file, cmdline, space, patched>>

NotFound ==
    /\ pc = "search"
    /\ \A at \in Places(space) : ~MarkerAt(file, at)
    /\ pc' = "idle"
    /\ UNCHANGED <<kernel, file, cmdline, space, p, patched>>

\* Mutant: as much as the marker, too, is cleared behind it.
Window_Whole == CMDLINE_MAX

\* Mutant: only what the command line needs is cleared.
Window_Short == Len(cmdline) + 1

\* How much memset clears.
Window == CMDLINE_MAX - Len(Marker)

Memset ==
    /\ pc = "memset"
    /\ file' = Overwrite(file, p, Zeros(Window))
    /\ pc' = "strcpy" /\ patched' = Outcome("killed")
    /\ UNCHANGED <<kernel, cmdline, space, p>>

\* (msync fails on an address that no page begins at, and the kernel writes the
\* pages back all the same.)
Strcpy ==
    /\ pc = "strcpy"
    /\ file' = Overwrite(file, p, Append(cmdline, NUL))
    /\ pc' = "idle" /\ patched' = Outcome("ok")
    /\ UNCHANGED <<kernel, cmdline, space, p>>

\* The program is killed in the middle of memset or strcpy.
Killed ==
    /\ pc \in {"memset", "strcpy"}
    /\ LET data == IF pc = "memset" THEN Zeros(Window) ELSE Append(cmdline, NUL)
       IN  \E n \in 0 .. Len(data) : file' = Overwrite(file, p, SubSeq(data, 1, n))
    /\ pc' = "idle" /\ patched' = Outcome("killed")
    /\ UNCHANGED <<kernel, cmdline, space, p>>

Next == Run \/ Search \/ NotFound \/ Memset \/ Strcpy \/ Killed

Spec == Init /\ [][Next]_vars

-----------------------------------------------------------------------------
\* The first aligned marker of the original image.
Home == CHOOSE at \in 0 .. Len(kernel) :
            /\ at % Step = 0 /\ MarkerAt(kernel, at)
            /\ \A before \in 0 .. at - 1 : before % Step = 0 => ~MarkerAt(kernel, before)

\* main: after a run that succeeds the file is the original image with this
\* command line and zeros behind its first marker, whatever earlier runs, longer
\* command lines and runs that were killed half-way have left there.
PatchReplaces ==
    patched.how = "ok" =>
        LET at == Home + Len(Marker)
            rest == CMDLINE_MAX - Len(Marker) - Len(patched.line)
        IN  file = SubSeq(kernel, 1, at) \o patched.line \o Zeros(rest)
                   \o SubSeq(kernel, Home + CMDLINE_MAX + 1, Len(kernel))

\* main: nothing but the CMDLINE_MAX bytes from the first marker on ever
\* changes, not even in a run that is killed, and the marker itself stays.
OnlyTheWindowChanges ==
    file # kernel =>
        /\ Len(file) = Len(kernel)
        /\ \A k \in DOMAIN file :
              k <= Home + Len(Marker) \/ k > Home + CMDLINE_MAX => file[k] = kernel[k]

=============================================================================

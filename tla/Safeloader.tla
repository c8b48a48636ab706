----------------------------- MODULE Safeloader -----------------------------
(***************************************************************************)
(* tools/tplink-safeloader: builds a factory image from the partitions of  *)
(* a board, takes such an image apart (-x), converts it into a sysupgrade  *)
(* image (-z), or builds a sysupgrade image directly (-S).                 *)
(*                                                                         *)
(* One behaviour is a sequence of runs of the tool on the same input: a    *)
(* factory image is built, then extracted or converted, then a sysupgrade  *)
(* image is built; or only the latter.  The loops over partitions and over *)
(* what is to be written are steps.                                        *)
(*                                                                         *)
(* The two tables are text of which the length is modelled; what is read   *)
(* back of a table is what was printed into it.                            *)
(***************************************************************************)
EXTENDS Extents, Boards, SequencesExt

CONSTANTS Devices,                                \* the table of boards
          KernelSizes, RootfsSizes, GenesisSizes  \* sizes the files may have

ASSUME SizesAssumption == KernelSizes \cup RootfsSizes \cup GenesisSizes \subseteq Nat \ {0}

VARIABLES pc, board,
          files,   \* sizes of the input files
          image,   \* the factory image: its bytes, ...
          table,   \* ... the entries of its partition table, ...
          text,    \* ... the length of their text, ...
          md5,     \* ... and what its MD5 hash was computed from
          i,       \* loop index
          todo,    \* what -x or -z has still to write
          out,     \* the files written by -x or -z
          sys      \* the sysupgrade image

vars == <<pc, board, files, image, table, text, md5, i, todo, out, sys>>

Device == [id : STRING, vendor : Nat \cup {NULL}, support_list : Nat,
           soft_ver : Nat \cup {NULL}, partitions : Seq([name : STRING, base : Nat, size : Nat]),
           first : STRING, last : STRING]

Files == [kernel : KernelSizes, rootfs : RootfsSizes, genesis : GenesisSizes]

TABLE_SIZE == \h800

AlignUp(n) == ((n + \hFFFF) \div \h10000) * \h10000

\* Mutant: a table has only 0x400 bytes.
TextFits_Half(n) == n < TABLE_SIZE \div 2

\* snprintf has left room for the zero byte behind n characters.
TextFits(n) == n < TABLE_SIZE

\* "0x%05x": five digits, or six, seven, eight.
HexLen(n) ==
    LET beyond(bound) == IF n > bound THEN 1 ELSE 0
    IN  7 + beyond(\hfffff) + beyond(\hffffff) + beyond(\hfffffff)

\* "<header> <name> base <base> size <size>" and the end of the line
LineLen(header, name, base, size, end) ==
    header + 1 + Len(name) + 6 + HexLen(base) + 6 + HexLen(size) + end

-----------------------------------------------------------------------------
(* The partitions of an image. *)

NoPart == [name |-> "", data |-> Empty]

Part(name, data) == [name |-> name, data |-> data]

\* make_partition_table: a magic number, one line per flash partition, 0xff.
FlashText(partitions) ==
    FoldLeft(LAMBDA n, p : n + LineLen(9, p.name, p.base, p.size, 1), 4, partitions)

PartitionTable ==
    LET n == FlashText(board.partitions)
    IN  Cat(Bytes("partition-table", n + 1), Bytes("ff", TABLE_SIZE - n - 1))

\* make_soft_version, make_soft_version_from_string
SoftVersion == Bytes("soft-version", IF board.soft_ver = NULL THEN 21
                                     ELSE 8 + board.soft_ver + 1 + 1)

\* make_support_list
SupportList == Bytes("support-list", board.support_list + 9)

\* read_file_split2: the length is that of the aligned kernel plus the root
\* file system, but the latter is put right behind the unaligned kernel.
OsImage == Cat(Cat(Bytes("kernel", files.kernel), Bytes("rootfs", files.rootfs)),
               Bytes("junk", AlignUp(files.kernel) - files.kernel))

NeedsExtraPara == board.id \in {"ARCHER-C25-V1", "ARCHER-C60-V2", "TLWR1043NV5",
                                "ARCHER-C7-V4", "ARCHER-C7-V5"}

PartNames == {"partition-table", "soft-version", "support-list", "os-image",
              "extra-para", "identity", "sysconf", "file-system"}

\* build_image: parts[0] to parts[8].  read_file is told to add no end mark.
Parts == <<Part("partition-table", PartitionTable),
           Part("soft-version", SoftVersion),
           Part("support-list", SupportList),
           Part("os-image", OsImage),
           IF NeedsExtraPara THEN Part("extra-para", Bytes("extra-para", 11)) ELSE NoPart,
           Part("identity", Bytes("identity", 4096)),
           Part("sysconf", Bytes("sysconf", 1024)),
           Part("file-system", Bytes("genesis", files.genesis)),
           NoPart>>

Named(seq, name) == SelectInSeq(seq, LAMBDA p : p.name = name)

\* The loops over parts end at the first entry without a name.
Listed == SubSeq(Parts, 1, Named(Parts, NoPart.name) - 1)

\* The size of the first n of them.  (There are not more than eight.)
SizeOfFirst(n) ==
    LET size(k) == IF k <= n THEN Listed[k].data.size ELSE 0
    IN  size(1) + size(2) + size(3) + size(4) + size(5) + size(6) + size(7) + size(8)

TotalSize == SizeOfFirst(Len(Listed))

\* find_board: the first entry with that id.
FindBoard(id) == Devices[SelectInSeq(Devices, LAMBDA b : b.id = id)]

-----------------------------------------------------------------------------
(* The table of boards: strings have lengths, the vendor information fits in   *)
(* front of the partitions, and those are in order and not too many to list.   *)

ASSUME DevicesAssumption ==
    Devices \in Seq(Device) /\ \A b \in ToSet(Devices) : b.vendor + 4 <= \h1000

ASSUME TextAssumption ==
    /\ \A b \in ToSet(Devices) : FlashText(b.partitions) \in 0 .. TABLE_SIZE - 1
    /\ \A name \in PartNames : Len(name) \in 0 .. 15

ASSUME FlashAssumption ==
    \A b \in ToSet(Devices) : \A j, k \in DOMAIN b.partitions :
        LET p == b.partitions[j]
            q == b.partitions[k]
        IN  j < k => p.name # q.name /\ p.base + p.size <= q.base

\* Every board has an os-image, and a file-system behind it in flash.  Where the
\* sysupgrade image ends with the file-system, it is these two and no gap.
ASSUME SysupgradeAssumption ==
    \A b \in ToSet(Devices) :
        LET os == Named(b.partitions, "os-image")
            fs == Named(b.partitions, "file-system")
        IN  /\ 0 < os /\ os < fs
            /\ b.last = "file-system" =>
                  /\ b.first = "os-image" /\ fs = os + 1
                  /\ b.partitions[fs].base = b.partitions[os].base + b.partitions[os].size

-----------------------------------------------------------------------------
TypeOK ==
    /\ pc \in {"make", "factory", "tool", "write", "sysupgrade", "copy", "done", "error", "abort", "crash"}
    /\ board \in ToSet(Devices) /\ files \in Files
    /\ \A data \in {image, md5, sys} \cup Range(out) : data \in Content /\ Whole(data)
    /\ \A k \in DOMAIN table : table[k].base \in Nat /\ table[k].size \in Nat
    /\ i \in Nat /\ text \in Nat
    /\ \A k \in DOMAIN todo : todo[k].at \in Nat /\ todo[k].size \in Nat

Init ==
    /\ pc = "make"
    /\ \E b \in ToSet(Devices) : board = FindBoard(b.id)
    /\ files \in Files
    /\ image = Empty /\ table = <<>> /\ text = 0 /\ md5 = Empty /\ i = 1
    /\ todo = <<>> /\ out = <<>> /\ sys = Empty

\* error() or assert(): the tool ends without an image.
Fail(how) == /\ pc' = how
             /\ UNCHANGED <<board, files, image, table, text, md5, i, todo, out, sys>>

\* generate_factory_image: all 0xff, then the length and the vendor information.
EmptyImage ==
    LET blank == Blit(Bytes("ff", \h1814 + TotalSize), 0, Bytes("length", 4))
    IN  IF board.vendor = NULL THEN blank
        ELSE Blit(blank, \h14, Bytes("vendor", 4 + board.vendor))

\* build_image up to put_partitions.  With -S it goes to
\* generate_sysupgrade_image instead.
MakeParts ==
    /\ pc = "make"
    /\ pc' \in IF TextFits(FlashText(board.partitions)) THEN {"factory", "sysupgrade"} ELSE {"error"}
    /\ image' = IF pc' = "factory" THEN EmptyImage ELSE image
    /\ UNCHANGED <<board, files, table, text, md5, i, todo, out, sys>>

\* "partition too big"
TooBig(part, slot) == part.data.size > slot.size

\* Where the next partition goes, from 0x1014 on: behind those in the table.
NextBase == IF table = <<>> THEN TABLE_SIZE ELSE Last(table).base + Last(table).size

\* put_partitions, one partition: its data, its line and a zero byte behind it.
PutPartition ==
    /\ pc = "factory" /\ i <= Len(Listed)
    /\ LET p == Listed[i]
           slot == Named(board.partitions, p.name)
           line == LineLen(8, p.name, NextBase, p.data.size, 3)
       IN  /\ slot # 0 /\ ~TooBig(p, board.partitions[slot])
           /\ image' = Blit(Blit(image, \h1014 + NextBase, p.data), \h1014 + text,
                            Cat(BytesFrom("fwup-ptn", text, line), Bytes("00", 1)))
           /\ table' = Append(table, P(p.name, NextBase, p.data.size))
           /\ text' = text + line
           /\ pc' = IF TextFits(text') THEN pc ELSE "error"
    /\ i' = i + 1
    /\ UNCHANGED <<board, files, md5, todo, out, sys>>

PutPartitionFails ==
    /\ pc = "factory" /\ i <= Len(Listed)
    /\ LET slot == Named(board.partitions, Listed[i].name)
       IN  \/ slot = 0 /\ Fail("abort")
           \/ slot # 0 /\ TooBig(Listed[i], board.partitions[slot]) /\ Fail("error")

\* put_md5: the salt and everything behind the hash itself.
Hashed(data) == Cat(Bytes("salt", 16), Slice(data, \h14, data.size - \h14))

\* All partitions are in: put_md5, and the image is written.
FactoryDone ==
    /\ pc = "factory" /\ i > Len(Listed)
    /\ md5' = Hashed(image)
    /\ image' = Blit(image, 4, Bytes("md5", 16))
    /\ pc' = "tool"
    /\ UNCHANGED <<board, files, table, text, i, todo, out, sys>>

-----------------------------------------------------------------------------
(* -x and -z: read the tables and write what they say. *)

\* extract_firmware: every entry goes to a file of its own name.  (There is room
\* for 16 entries, and an image has at most eight.)
ExtractJobs ==
    [k \in DOMAIN table |-> [op |-> "copy", file |-> table[k].name,
                             at |-> table[k].base, size |-> table[k].size]]

\* Mutant: the difference is taken the wrong way round.
FillSize_Swapped(flash, fwup) == fwup.size - flash.size

\* What write_ff has to fill: a difference of unsigned sizes.
FillSize(flash, fwup) == flash.size - fwup.size

\* convert_firmware: the os-image and the file-system at their places in flash,
\* each filled up to the size of its flash partition.
ConvertJobs ==
    LET fwup(name) == table[Named(table, name)]
        flash(name) == board.partitions[Named(board.partitions, name)]
        job(op, at, size) == [op |-> op, file |-> "sysupgrade", at |-> at, size |-> size]
    IN  <<job("copy", fwup("os-image").base, fwup("os-image").size),
          job("ff", 0, FillSize(flash("os-image"), fwup("os-image"))),
          job("seek", flash("file-system").base - flash("os-image").base, 0),
          job("copy", fwup("file-system").base, fwup("file-system").size),
          job("ff", 0, FillSize(flash("file-system"), fwup("file-system")))>>

Extract ==
    /\ pc = "tool"
    /\ todo' = ExtractJobs /\ pc' = "write"
    /\ out' = [f \in {table[k].name : k \in DOMAIN table} |-> Empty]
    /\ UNCHANGED <<board, files, image, table, text, md5, i, sys>>

\* (Every board has an os-image and a file-system in flash.)
Convert ==
    /\ pc = "tool" /\ Named(table, "file-system") # 0
    /\ todo' = ConvertJobs /\ pc' = "write"
    /\ out' = [f \in {"sysupgrade"} |-> Empty]
    /\ UNCHANGED <<board, files, image, table, text, md5, i, sys>>

\* find_partition meets an entry without a name before it finds the file-system,
\* and strcmp crashes.
ConvertFails == pc = "tool" /\ Named(table, "file-system") = 0 /\ Fail("crash")

BUFFER == 4096

\* Mutant: both loops end when the offset is behind the size.
WholeBuffers_OneMore(job) == (job.size \div BUFFER + 1) * BUFFER

\* Mutant: the loop of write_ff ends when the offset is behind the size.
WholeBuffers_FillMore(job) ==
    IF job.op = "ff" THEN (job.size \div BUFFER + 1) * BUFFER
                     ELSE (job.size \div BUFFER) * BUFFER

\* Where the loop over whole buffers ends: <= in write_partition, < in write_ff.
WholeBuffers(job) ==
    IF job.op = "ff" /\ job.size > 0 THEN ((job.size - 1) \div BUFFER) * BUFFER
                                     ELSE (job.size \div BUFFER) * BUFFER

\* "write last chunk smaller than buffer", if the loop left something.
LastChunk(job) ==
    IF WholeBuffers(job) < job.size THEN job.size - WholeBuffers(job) ELSE 0

\* write_partition or write_ff, of which each reads and writes n bytes; or fseek,
\* and the hole that the next write leaves if it goes beyond the end.  (It never
\* goes back: the file-system comes after the os-image.)
Write ==
    /\ pc = "write" /\ todo # <<>>
    /\ LET job == Head(todo)
           n == WholeBuffers(job) + LastChunk(job)
       IN  out' = [out EXCEPT ![job.file] =
                      Cat(@, CASE job.op = "copy" -> Slice(image, \h1014 + job.at, n)
                               [] job.op = "ff"   -> Bytes("ff", n)
                               [] job.op = "seek" -> Bytes("00", job.at - @.size))]
    /\ todo' = Tail(todo)
    /\ UNCHANGED <<pc, board, files, image, table, text, md5, i, sys>>

WriteDone ==
    /\ pc = "write" /\ todo = <<>>
    /\ pc' = "sysupgrade"
    /\ UNCHANGED <<board, files, image, table, text, md5, i, todo, out, sys>>

-----------------------------------------------------------------------------
(* generate_sysupgrade_image *)

FirstIndex == Named(board.partitions, board.first)
LastIndex == Named(board.partitions, board.last)

AssertionsHold == /\ FirstIndex # 0 /\ LastIndex # 0 /\ FirstIndex < LastIndex
                  /\ Named(Listed, board.last) # 0

\* Mutant: the offset is that in flash.
SysOffset_Absolute(k) == board.partitions[k].base

\* How far flash partition k is behind the first one.
SysOffset(k) == board.partitions[k].base - board.partitions[FirstIndex].base

SysLen == SysOffset(LastIndex) + Listed[Named(Listed, board.last)].data.size

Sysupgrade ==
    /\ pc = "sysupgrade"
    /\ AssertionsHold
    /\ sys' = Bytes("ff", SysLen)
    /\ i' = FirstIndex /\ pc' = "copy"
    /\ UNCHANGED <<board, files, image, table, text, md5, todo, out>>

SysupgradeFails == pc = "sysupgrade" /\ ~AssertionsHold /\ Fail("abort")

\* One flash partition.
CopyPartition ==
    /\ pc = "copy" /\ i <= LastIndex
    /\ LET slot == board.partitions[i]
           k == Named(Listed, slot.name)
       IN  /\ k # 0 => ~TooBig(Listed[k], slot)
           /\ sys' = IF k = 0 THEN sys ELSE Blit(sys, SysOffset(i), Listed[k].data)
    /\ i' = i + 1
    /\ UNCHANGED <<pc, board, files, image, table, text, md5, todo, out>>

CopyPartitionFails ==
    /\ pc = "copy" /\ i <= LastIndex
    /\ LET k == Named(Listed, board.partitions[i].name)
       IN  k # 0 /\ TooBig(Listed[k], board.partitions[i])
    /\ Fail("error")

CopyDone ==
    /\ pc = "copy" /\ i > LastIndex
    /\ pc' = "done"
    /\ UNCHANGED <<board, files, image, table, text, md5, i, todo, out, sys>>

Next == \/ MakeParts \/ PutPartition \/ PutPartitionFails \/ FactoryDone
        \/ Extract \/ Convert \/ ConvertFails \/ Write \/ WriteDone
        \/ Sysupgrade \/ SysupgradeFails \/ CopyPartition \/ CopyPartitionFails \/ CopyDone

Spec == Init /\ [][Next]_vars

-----------------------------------------------------------------------------
(* mtdparts of the kernel command line.  The kernel's names firmware, genesis, *)
(* mac and art are os-image, file-system, default-mac and radio here.          *)

\* Mutant: the file system image begins where it did with a smaller firmware.
Mtdparts_Old ==
    LET M(name, size) == [name |-> name, size |-> size]
    IN  <<M("factory-boot", 128 * 1024), M("fs-uboot", 128 * 1024), M("os-image", 8192 * 1024)>>

Mtdparts ==
    LET M(name, size) == [name |-> name, size |-> size]
        k == 1024
    IN  <<M("factory-boot", 128 * k), M("fs-uboot", 128 * k), M("os-image", 10240 * k),
          M("file-system", 4864 * k), M("default-mac", 512), M("pin", 512),
          M("device-id", 256), M("product-info", 64256), M("sysconf", 704 * k),
          M("partition-table", 64 * k), M("support-list", 40 * k), M("soft-version", 256),
          M("extra-para", 4 * k), M("identity", 4 * k), M("radio", 64 * k)>>

\* A partition begins where the one before it ends; only art has an offset.
MtdBase(n) == IF Mtdparts[n].name = "radio" THEN \hff0000
              ELSE FoldLeft(LAMBDA sum, m : sum + m.size, 0, SubSeq(Mtdparts, 1, n - 1))

-----------------------------------------------------------------------------
Extracted == DOMAIN out \notin {{}, {"sysupgrade"}}

Converted == DOMAIN out = {"sysupgrade"}

\* generate_factory_image, read_partition_table, write_partition: taking a
\* factory image apart gives back every partition that went into it, byte for
\* byte, whatever the sizes are in relation to the buffer; and the hash in the
\* image is that "of a 16 byte salt and the image data starting with byte 0x14".
ExtractRestores ==
    pc = "sysupgrade" /\ Extracted =>
        /\ Same(md5, Cat(Bytes("salt", 16), Slice(image, \h14, image.size)))
        /\ DOMAIN out = {p.name : p \in ToSet(Listed)}
        /\ \A p \in ToSet(Listed) : Same(out[p.name], p.data)

\* make_partition_table, put_partitions: no table of any board overflows; the
\* tool gives up only because a file is too big for its place in flash.
GivesUpOnlyForSize ==
    pc = "error" =>
        \E p \in ToSet(Listed), slot \in ToSet(board.partitions) :
            p.name = slot.name /\ p.data.size > slot.size

\* generate_sysupgrade_image: each partition between the first and the last is
\* whole and at its distance from the first, no other has run over it, and the
\* image ends with the last.
SysupgradeIsWhole ==
    pc = "done" =>
        /\ \A k \in FirstIndex .. LastIndex :
            LET p == Named(Listed, board.partitions[k].name)
                at == board.partitions[k].base - board.partitions[FirstIndex].base
            IN  p # 0 => Same(Slice(sys, at, Listed[p].data.size), Listed[p].data)
        /\ sys.size = board.partitions[LastIndex].base - board.partitions[FirstIndex].base
                       + Listed[Named(Listed, board.last)].data.size

\* convert_firmware and generate_sysupgrade_image are two ways to the same
\* image: where a board's sysupgrade image ends with the file-system, the
\* converted one begins with it, and goes on with nothing but 0xff.  (What
\* read_file_split2 leaves uninitialised counts as equal, whatever it holds.)
ConvertAgrees ==
    pc = "done" /\ Converted /\ board.last = "file-system" =>
        LET rest == Slice(out["sysupgrade"], sys.size, out["sysupgrade"].size)
        IN  /\ Same(Slice(out["sysupgrade"], 0, sys.size), sys)
            /\ Same(rest, Bytes("ff", rest.size))

\* The kernel command line of the Makefile, which patch-cmdline puts into the
\* kernel, divides the flash of ARCHER-C7-V4 once more: each partition where this
\* tool's table has one of that size, so that the running kernel finds the
\* genesis file system where the image has put it.
KernelFindsPartitions ==
    board.id = "ARCHER-C7-V4" =>
        /\ \A k \in DOMAIN board.partitions :
              P(Mtdparts[k].name, MtdBase(k), Mtdparts[k].size) = board.partitions[k]
        /\ pc = "done" =>
              LET at(name) == MtdBase(Named(Mtdparts, name))
              IN  Same(Slice(sys, at("file-system") - at("os-image"), files.genesis),
                       Bytes("genesis", files.genesis))

\* put_partitions and generate_sysupgrade_image assert that every partition has
\* a place in flash and that the last one is part of the image.
AssertionsNeverFail == pc # "abort"

=============================================================================

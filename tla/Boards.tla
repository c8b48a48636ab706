------------------------------- MODULE Boards -------------------------------
(***************************************************************************)
(* The table boards[] of tplink-safeloader.  Of the strings that do not    *)
(* name anything, the length is kept: the vendor information, the support  *)
(* list and the soft version; NULL where there is none.  (One byte ends    *)
(* the support list on every board; its value is left out.)                *)
(***************************************************************************)
EXTENDS Integers

NULL == -1

\* struct flash_partition_entry
P(name, base, size) == [name |-> name, base |-> base, size |-> size]

\* struct device_info
Board(id, vendor, support_list, soft_ver, partitions, first, last) ==
    [id |-> id, vendor |-> vendor, support_list |-> support_list, soft_ver |-> soft_ver,
     partitions |-> partitions, first |-> first, last |-> last]


CPE210Flash ==
    <<P("fs-uboot", \h00000, \h20000), P("partition-table", \h20000, \h02000),
      P("default-mac", \h30000, \h00020), P("product-info", \h31100, \h00100),
      P("signature", \h32000, \h00400), P("os-image", \h40000, \h1c0000),
      P("file-system", \h200000, \h5b0000), P("soft-version", \h7b0000, \h00100),
      P("support-list", \h7b1000, \h00400), P("user-config", \h7c0000, \h10000),
      P("default-config", \h7d0000, \h10000), P("log", \h7e0000, \h10000),
      P("radio", \h7f0000, \h10000)>>

CPE210 == Board("CPE210", 31, 231, NULL, CPE210Flash, "os-image", "support-list")
CPE510 == Board("CPE510", 31, 262, NULL, CPE210Flash, "os-image", "support-list")
WBS210 == Board("WBS210", 31, 110, NULL, CPE210Flash, "os-image", "support-list")
WBS510 == Board("WBS510", 31, 110, NULL, CPE210Flash, "os-image", "support-list")

C2600Flash ==
    <<P("SBL1", \h00000, \h20000), P("MIBIB", \h20000, \h20000),
      P("SBL2", \h40000, \h20000), P("SBL3", \h60000, \h30000),
      P("DDRCONFIG", \h90000, \h10000), P("SSD", \ha0000, \h10000),
      P("TZ", \hb0000, \h30000), P("RPM", \he0000, \h20000),
      P("fs-uboot", \h100000, \h70000), P("uboot-env", \h170000, \h40000),
      P("radio", \h1b0000, \h40000), P("os-image", \h1f0000, \h200000),
      P("file-system", \h3f0000, \h1b00000), P("default-mac", \h1ef0000, \h00200),
      P("pin", \h1ef0200, \h00200), P("product-info", \h1ef0400, \h0fc00),
      P("partition-table", \h1f00000, \h10000),
      P("soft-version", \h1f10000, \h10000), P("support-list", \h1f20000, \h10000),
      P("profile", \h1f30000, \h10000), P("default-config", \h1f40000, \h10000),
      P("user-config", \h1f50000, \h40000), P("qos-db", \h1f90000, \h40000),
      P("usb-config", \h1fd0000, \h10000), P("log", \h1fe0000, \h20000)>>

C2600 == Board("C2600", 0, 81, NULL, C2600Flash, "os-image", "file-system")

ArcherC25V1Flash ==
    <<P("factory-boot", \h00000, \h20000), P("fs-uboot", \h20000, \h10000),
      P("os-image", \h30000, \h180000), P("file-system", \h1b0000, \h620000),
      P("user-config", \h7d0000, \h04000), P("default-mac", \h7e0000, \h00100),
      P("device-id", \h7e0100, \h00100), P("extra-para", \h7e0200, \h00100),
      P("pin", \h7e0300, \h00100), P("support-list", \h7e0400, \h00400),
      P("soft-version", \h7e0800, \h00400), P("product-info", \h7e0c00, \h01400),
      P("partition-table", \h7e2000, \h01000), P("profile", \h7e3000, \h01000),
      P("default-config", \h7e4000, \h04000), P("merge-config", \h7ec000, \h02000),
      P("qos-db", \h7ee000, \h02000), P("radio", \h7f0000, \h10000)>>

ArcherC25V1 == Board("ARCHER-C25-V1", NULL, 202, 15, ArcherC25V1Flash, "os-image", "file-system")

ArcherC58V1Flash ==
    <<P("fs-uboot", \h00000, \h10000), P("default-mac", \h10000, \h00200),
      P("pin", \h10200, \h00200), P("product-info", \h10400, \h00100),
      P("partition-table", \h10500, \h00800), P("soft-version", \h11300, \h00200),
      P("support-list", \h11500, \h00100), P("device-id", \h11600, \h00100),
      P("profile", \h11700, \h03900), P("default-config", \h15000, \h04000),
      P("user-config", \h19000, \h04000), P("os-image", \h20000, \h180000),
      P("file-system", \h1a0000, \h648000), P("certyficate", \h7e8000, \h08000),
      P("radio", \h7f0000, \h10000)>>

ArcherC58V1 == Board("ARCHER-C58-V1", 0, 209, 15, ArcherC58V1Flash, "os-image", "file-system")

ArcherC59V1Flash ==
    <<P("fs-uboot", \h00000, \h10000), P("default-mac", \h10000, \h00200),
      P("pin", \h10200, \h00200), P("device-id", \h10400, \h00100),
      P("product-info", \h10500, \h0fb00), P("os-image", \h20000, \h180000),
      P("file-system", \h1a0000, \hcb0000),
      P("partition-table", \he50000, \h10000),
      P("soft-version", \he60000, \h10000), P("support-list", \he70000, \h10000),
      P("profile", \he80000, \h10000), P("default-config", \he90000, \h10000),
      P("user-config", \hea0000, \h40000), P("usb-config", \hee0000, \h10000),
      P("certificate", \hef0000, \h10000), P("qos-db", \hf00000, \h40000),
      P("log", \hfe0000, \h10000), P("radio", \hff0000, \h10000)>>

ArcherC59V1 == Board("ARCHER-C59-V1", 0, 274, 15, ArcherC59V1Flash, "os-image", "file-system")
ArcherC60V1 == Board("ARCHER-C60-V1", 0, 209, 15, ArcherC58V1Flash, "os-image", "file-system")

ArcherC60V2Flash ==
    <<P("factory-boot", \h00000, \h1fb00), P("default-mac", \h1fb00, \h00200),
      P("pin", \h1fd00, \h00100), P("product-info", \h1fe00, \h00100),
      P("device-id", \h1ff00, \h00100), P("fs-uboot", \h20000, \h10000),
      P("os-image", \h30000, \h180000), P("file-system", \h1b0000, \h620000),
      P("soft-version", \h7d9500, \h00100), P("support-list", \h7d9600, \h00100),
      P("extra-para", \h7d9700, \h00100), P("profile", \h7d9800, \h03000),
      P("default-config", \h7dc800, \h03000),
      P("partition-table", \h7df800, \h00800), P("user-config", \h7e0000, \h0c000),
      P("certificate", \h7ec000, \h04000), P("radio", \h7f0000, \h10000)>>

ArcherC60V2 == Board("ARCHER-C60-V2", 0, 209, 15, ArcherC60V2Flash, "os-image", "file-system")

ArcherC5V2Flash ==
    <<P("fs-uboot", \h00000, \h40000), P("os-image", \h40000, \h200000),
      P("file-system", \h240000, \hc00000), P("default-mac", \he40000, \h00200),
      P("pin", \he40200, \h00200), P("product-info", \he40400, \h00200),
      P("partition-table", \he50000, \h10000),
      P("soft-version", \he60000, \h00200), P("support-list", \he61000, \h0f000),
      P("profile", \he70000, \h10000), P("default-config", \he80000, \h10000),
      P("user-config", \he90000, \h50000), P("log", \hee0000, \h100000),
      P("radio_bk", \hfe0000, \h10000), P("radio", \hff0000, \h10000)>>

ArcherC5V2 == Board("ARCHER-C5-V2", 0, 203, NULL, ArcherC5V2Flash, "os-image", "file-system")

ArcherC7V4Flash ==
    <<P("factory-boot", \h00000, \h20000), P("fs-uboot", \h20000, \h20000),
      P("os-image", \h40000, \ha00000), P("file-system", \ha40000, \h4c0000),
      P("default-mac", \hf00000, \h00200), P("pin", \hf00200, \h00200),
      P("device-id", \hf00400, \h00100), P("product-info", \hf00500, \h0fb00),
      P("sysconf", \hf10000, \hb0000), P("partition-table", \hfc0000, \h10000),
      P("support-list", \hfd0000, \h0a000), P("soft-version", \hfda000, \h00100),
      P("extra-para", \hfda100, \h01000), P("identity", \hfdb100, \h01000),
      P("radio", \hff0000, \h10000)>>

ArcherC7V4 == Board("ARCHER-C7-V4", NULL, 643, 15, ArcherC7V4Flash, "os-image", "file-system")

ArcherC7V5Flash ==
    <<P("factory-boot", \h00000, \h20000), P("fs-uboot", \h20000, \h20000),
      P("partition-table", \h40000, \h10000), P("radio", \h50000, \h10000),
      P("default-mac", \h60000, \h00200), P("pin", \h60200, \h00200),
      P("device-id", \h60400, \h00100), P("product-info", \h60500, \h0fb00),
      P("soft-version", \h70000, \h01000), P("extra-para", \h71000, \h01000),
      P("support-list", \h72000, \h0a000), P("profile", \h7c000, \h04000),
      P("user-config", \h80000, \h40000), P("os-image", \hc0000, \h180000),
      P("file-system", \h240000, \hd80000), P("log", \hfc0000, \h20000),
      P("certificate", \hfe0000, \h10000), P("default-config", \hff0000, \h10000)>>

ArcherC7V5 == Board("ARCHER-C7-V5", NULL, 139, 15, ArcherC7V5Flash, "os-image", "file-system")
ARCHERC9 == Board("ARCHERC9", 0, 75, NULL, ArcherC5V2Flash, "os-image", "file-system")

EAP120Flash ==
    <<P("fs-uboot", \h00000, \h20000), P("partition-table", \h20000, \h02000),
      P("default-mac", \h30000, \h00020), P("support-list", \h31000, \h00100),
      P("product-info", \h31100, \h00100), P("soft-version", \h32000, \h00100),
      P("os-image", \h40000, \h180000), P("file-system", \h1c0000, \h600000),
      P("user-config", \h7c0000, \h10000), P("backup-config", \h7d0000, \h10000),
      P("log", \h7e0000, \h10000), P("radio", \h7f0000, \h10000)>>

EAP120 == Board("EAP120", 31, 45, NULL, EAP120Flash, "os-image", "file-system")

TLWA850REV2Flash ==
    <<P("fs-uboot", \h00000, \h20000), P("os-image", \h20000, \h150000),
      P("file-system", \h170000, \h240000),
      P("partition-table", \h3b0000, \h02000), P("default-mac", \h3c0000, \h00020),
      P("pin", \h3c0100, \h00020), P("product-info", \h3c1000, \h01000),
      P("soft-version", \h3c2000, \h00100), P("support-list", \h3c3000, \h01000),
      P("profile", \h3c4000, \h08000), P("user-config", \h3d0000, \h10000),
      P("default-config", \h3e0000, \h10000), P("radio", \h3f0000, \h10000)>>

TLWA850REV2 == Board("TLWA850REV2", 0, 653, NULL, TLWA850REV2Flash, "os-image", "file-system")
TLWA855REV1 == Board("TLWA855REV1", 0, 589, NULL, TLWA850REV2Flash, "os-image", "file-system")

TLWR1043NV5Flash ==
    <<P("factory-boot", \h00000, \h20000), P("fs-uboot", \h20000, \h20000),
      P("os-image", \h40000, \h180000), P("file-system", \h1c0000, \hd40000),
      P("default-mac", \hf00000, \h00200), P("pin", \hf00200, \h00200),
      P("device-id", \hf00400, \h00100), P("product-info", \hf00500, \h0fb00),
      P("soft-version", \hf10000, \h01000), P("extra-para", \hf11000, \h01000),
      P("support-list", \hf12000, \h0a000), P("profile", \hf1c000, \h04000),
      P("default-config", \hf20000, \h10000), P("user-config", \hf30000, \h40000),
      P("qos-db", \hf70000, \h40000), P("certificate", \hfb0000, \h10000),
      P("partition-table", \hfc0000, \h10000), P("log", \hfd0000, \h20000),
      P("radio", \hff0000, \h10000)>>

TLWR1043NV5 == Board("TLWR1043NV5", 0, 141, 15, TLWR1043NV5Flash, "os-image", "file-system")

TLWR1043NDV4Flash ==
    <<P("fs-uboot", \h00000, \h20000), P("os-image", \h20000, \h180000),
      P("file-system", \h1a0000, \hdb0000), P("default-mac", \hf50000, \h00200),
      P("pin", \hf50200, \h00200), P("product-info", \hf50400, \h0fc00),
      P("soft-version", \hf60000, \h0b000), P("support-list", \hf6b000, \h04000),
      P("profile", \hf70000, \h04000), P("default-config", \hf74000, \h0b000),
      P("user-config", \hf80000, \h40000), P("partition-table", \hfc0000, \h10000),
      P("log", \hfd0000, \h20000), P("radio", \hff0000, \h10000)>>

TLWR1043NDV4 == Board("TLWR1043NDV4", 0, 78, NULL, TLWR1043NDV4Flash, "os-image", "file-system")

TlWR902ACV1Flash ==
    <<P("fs-uboot", \h00000, \h20000), P("os-image", \h20000, \h180000),
      P("file-system", \h1a0000, \h5b0000), P("default-mac", \h750000, \h00200),
      P("pin", \h750200, \h00200), P("product-info", \h750400, \h0fc00),
      P("soft-version", \h760000, \h0b000), P("support-list", \h76b000, \h04000),
      P("profile", \h770000, \h04000), P("default-config", \h774000, \h0b000),
      P("user-config", \h780000, \h40000), P("partition-table", \h7c0000, \h10000),
      P("log", \h7d0000, \h20000), P("radio", \h7f0000, \h10000)>>

TlWR902ACV1 == Board("TL-WR902AC-V1", 0, 141, NULL, TlWR902ACV1Flash, "os-image", "file-system")

TLWR942NV1Flash ==
    <<P("fs-uboot", \h00000, \h20000), P("os-image", \h20000, \h180000),
      P("file-system", \h1a0000, \hca0000), P("default-mac", \he40000, \h00200),
      P("pin", \he40200, \h00200), P("product-info", \he40400, \h0fc00),
      P("partition-table", \he50000, \h10000),
      P("soft-version", \he60000, \h10000), P("support-list", \he70000, \h10000),
      P("profile", \he80000, \h10000), P("default-config", \he90000, \h10000),
      P("user-config", \hea0000, \h40000), P("qos-db", \hee0000, \h40000),
      P("certificate", \hf20000, \h10000), P("usb-config", \hfb0000, \h10000),
      P("log", \hfc0000, \h20000), P("radio-bk", \hfe0000, \h10000),
      P("radio", \hff0000, \h10000)>>

TLWR942NV1 == Board("TLWR942NV1", 0, 142, NULL, TLWR942NV1Flash, "os-image", "file-system")

RE350V1Flash ==
    <<P("fs-uboot", \h00000, \h20000), P("os-image", \h20000, \h1c0000),
      P("file-system", \h1e0000, \h420000),
      P("partition-table", \h600000, \h02000), P("default-mac", \h610000, \h00020),
      P("pin", \h610100, \h00020), P("product-info", \h611100, \h01000),
      P("soft-version", \h620000, \h01000), P("support-list", \h621000, \h01000),
      P("profile", \h622000, \h08000), P("user-config", \h630000, \h10000),
      P("default-config", \h640000, \h10000), P("radio", \h7f0000, \h10000)>>

RE350V1 == Board("RE350-V1", 0, 426, NULL, RE350V1Flash, "os-image", "file-system")

RE355Flash ==
    <<P("fs-uboot", \h00000, \h20000), P("os-image", \h20000, \h180000),
      P("file-system", \h1a0000, \h460000),
      P("partition-table", \h600000, \h02000), P("default-mac", \h610000, \h00020),
      P("pin", \h610100, \h00020), P("product-info", \h611100, \h01000),
      P("soft-version", \h620000, \h01000), P("support-list", \h621000, \h01000),
      P("profile", \h622000, \h08000), P("user-config", \h630000, \h10000),
      P("default-config", \h640000, \h10000), P("radio", \h7f0000, \h10000)>>

RE355 == Board("RE355", 0, 494, NULL, RE355Flash, "os-image", "file-system")
RE450 == Board("RE450", 0, 494, NULL, RE355Flash, "os-image", "file-system")
boards ==
    <<CPE210, CPE510, WBS210, WBS510, C2600, ArcherC25V1, ArcherC58V1,
      ArcherC59V1, ArcherC60V1, ArcherC60V2, ArcherC5V2, ArcherC7V4, ArcherC7V5,
      ARCHERC9, EAP120, TLWA850REV2, TLWA855REV1, TLWR1043NV5, TLWR1043NDV4,
      TlWR902ACV1, TLWR942NV1, RE350V1, RE355, RE450>>

=============================================================================

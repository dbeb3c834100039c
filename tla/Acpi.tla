-------------------------------- MODULE Acpi --------------------------------
(***************************************************************************)
(* The ACPI parser, src/kernel/acpi/acpi.c: the search for the RSDP in two *)
(* areas, the choice between RSDT and XSDT, and the loop over the entries  *)
(* of the one chosen, one entry per step.                                  *)
(*                                                                         *)
(* What the firmware left in memory is a record: the paragraphs (16 bytes) *)
(* of the two areas, each None or the RSDP that begins there, and the      *)
(* table, if any, that begins at each byte.  All tables begin with a       *)
(* header of 36 bytes with their signature and length; `words' are the     *)
(* 32-bit words behind it, `pm1a' and `pm1b' what a FADT has there.        *)
(***************************************************************************)
EXTENDS Integers, Sequences

CONSTANTS
  MAX_ACPI_TABLES,  \* 16 in the code
  GIB,              \* bytes in a gigabyte; 4 * GIB is the range of 32 bits
  Firmware,         \* external: the memories that a firmware may leave
  None

RootPointer == [revision : Nat, rsdt : Nat, xsdt : Nat]
AcpiTable == [signature : STRING, length : Nat, words : Seq(Nat), pm1a : Nat, pm1b : Nat]
PortNumber == 0..65535
Ports == [pm1a : PortNumber, pm1b : PortNumber]

IsMemory(m) ==
  /\ {m.ebda, m.bios} \subseteq Seq(RootPointer \cup {None})
  /\ \A addr \in DOMAIN m.table : addr \in Nat \ {0} /\ m.table[addr] \in AcpiTable

ASSUME AcpiAssumption ==
  /\ MAX_ACPI_TABLES \in Nat
  /\ GIB \in Nat \ {0}
  /\ None \notin Ports
  /\ \A m \in Firmware : IsMemory(m)

VARIABLES
  firmware,      \* external: what the firmware left in memory
  acpi_pc,       \* where acpi_init is
  rsdp,          \* the RSDP, or None
  entry,         \* i in the loop over the entries
  acpi_tables,   \* the addresses of the tables found
  fadt_table     \* None, or what is in fadt_data

acpiVars == <<firmware, acpi_pc, rsdp, entry, acpi_tables, fadt_table>>

NullTable == 0

(* Tables are accepted below 0x80000000. *)
Accepted(addr) == addr < 2 * GIB

(* The first paragraph with the signature from which a whole structure of  *)
(* 36 bytes fits in the area.                                              *)
scan_rsdp(area) ==
  LET found == {p \in 1..Len(area) : 16 * (p - 1) + 36 <= 16 * Len(area) /\ area[p] # None}
  IN  IF found = {} THEN None ELSE area[CHOOSE p \in found : \A q \in found : p <= q]

use_xsdt == rsdp.revision >= 2 /\ rsdp.xsdt # 0

(* The address of the table that lists the others, or null. *)
sdt ==
  LET addr == IF use_xsdt THEN rsdp.xsdt ELSE rsdp.rsdt
  IN  IF Accepted(addr) THEN addr ELSE NullTable

(* Memory where no table begins has no signature that the parser knows.    *)
HEADER_SIZE == 36
NoTable == [signature |-> "", length |-> HEADER_SIZE, words |-> <<>>, pm1a |-> 0, pm1b |-> 0]

TableAt(addr) == IF addr \in DOMAIN firmware.table THEN firmware.table[addr] ELSE NoTable

(* The entries of the list at sdt have 64 or 32 bits by what the RSDP says *)
(* and whatever the signature.  Their number is computed from the length,  *)
(* which nothing checks: 32 bits remain of a difference that may wrap.     *)
EntrySize == IF use_xsdt THEN 8 ELSE 4
EntryCount == ((TableAt(sdt).length - HEADER_SIZE) \div EntrySize) % (4 * GIB)

(* The words behind the header; memory is clear after the last of them. *)
Word(k) ==
  LET words == TableAt(sdt).words IN IF k <= Len(words) THEN words[k] ELSE 0

EntryAt(k) == IF use_xsdt THEN Word(2 * k - 1) + 4 * GIB * Word(2 * k) ELSE Word(k)

AcpiInit ==
  /\ firmware = None
  /\ acpi_pc = "scan"
  /\ rsdp = None
  /\ entry = 0
  /\ acpi_tables = <<>>
  /\ fadt_table = None

(* The EBDA first, then the BIOS area. *)
FindRsdp ==
  /\ acpi_pc = "scan"
  /\ firmware' \in Firmware
  /\ rsdp' = LET inEbda == scan_rsdp(firmware'.ebda)
             IN  IF inEbda # None THEN inEbda ELSE scan_rsdp(firmware'.bios)
  /\ acpi_pc' = "root"
  /\ UNCHANGED <<entry, acpi_tables, fadt_table>>

HasRoot ==
  /\ rsdp # None
  /\ sdt # NullTable
  /\ TableAt(sdt).signature \in {"RSDT", "XSDT"}

ReadRoot ==
  /\ acpi_pc = "root"
  /\ HasRoot
  /\ acpi_tables' = <<>>
  /\ entry' = 1
  /\ acpi_pc' = "entries"
  /\ UNCHANGED <<firmware, rsdp, fadt_table>>

(* The registers of QEMU's chipset. *)
DefaultFadt == [pm1a |-> 1540, pm1b |-> 45060]  \* 0x604, 0xB004

UseDefaults ==
  /\ acpi_pc = "root"
  /\ ~HasRoot
  /\ fadt_table' = DefaultFadt
  /\ acpi_pc' = "done"
  /\ UNCHANGED <<firmware, rsdp, entry, acpi_tables>>

(* Fault: the array's limit is not looked at. *)
InLoop_NoLimit == entry <= EntryCount

(* Fault: the limit is put on the index and not on the tables kept. *)
InLoop_ByIndex == entry <= EntryCount /\ entry <= MAX_ACPI_TABLES

InLoop == entry <= EntryCount /\ Len(acpi_tables) < MAX_ACPI_TABLES

(* Null pointers and tables out of reach are passed over. *)
Usable(addr) == Accepted(addr) /\ addr # NullTable

IsFadt(addr) == TableAt(addr).signature = "FACP"

(* The 32-bit fields are cut to 16-bit ports. *)
PortsOf(addr) ==
  [pm1a |-> TableAt(addr).pm1a % 65536, pm1b |-> TableAt(addr).pm1b % 65536]

(* Fault: the index stays where it is at an entry that is passed over. *)
ReadEntry_SkipStays ==
  LET addr == EntryAt(entry)
  IN  /\ acpi_pc = "entries"
      /\ InLoop
      /\ \/ /\ ~Usable(addr)
            /\ UNCHANGED <<entry, acpi_tables, fadt_table>>
         \/ /\ Usable(addr)
            /\ entry' = entry + 1
            /\ acpi_tables' = Append(acpi_tables, addr)
            /\ fadt_table' = IF IsFadt(addr) THEN PortsOf(addr) ELSE fadt_table
      /\ UNCHANGED <<firmware, acpi_pc, rsdp>>

ReadEntry ==
  LET addr == EntryAt(entry)
  IN  /\ acpi_pc = "entries"
      /\ InLoop
      /\ entry' = entry + 1
      /\ \/ /\ ~Usable(addr)
            /\ UNCHANGED <<acpi_tables, fadt_table>>
         \/ /\ Usable(addr)
            /\ acpi_tables' = Append(acpi_tables, addr)
            /\ fadt_table' = IF IsFadt(addr) THEN PortsOf(addr) ELSE fadt_table
      /\ UNCHANGED <<firmware, acpi_pc, rsdp>>

(* acpi_init returns; the defaults are not set here. *)
TablesParsed ==
  /\ acpi_pc = "entries"
  /\ ~InLoop
  /\ acpi_pc' = "done"
  /\ UNCHANGED <<firmware, rsdp, entry, acpi_tables, fadt_table>>

(* The bytes of tables that the next step reads: the signature and, of a   *)
(* list, the length; an entry and, if it is followed, the signature of the *)
(* table it names and the two registers of a FADT.  (Of a signature that   *)
(* is not the one looked for, the code reads only up to the difference.)   *)
Bytes(addr, n) == addr..(addr + n - 1)

PM1A_OFFSET == 64  \* pm1a_cnt_blk in a FADT; pm1b_cnt_blk is right behind it

acpi_reads ==
  LET addr == EntryAt(entry)
  IN  CASE acpi_pc = "root" /\ rsdp # None /\ sdt # NullTable ->
             Bytes(sdt, IF HasRoot THEN 8 ELSE 4)
        [] acpi_pc = "entries" /\ InLoop ->
             Bytes(sdt + HEADER_SIZE + EntrySize * (entry - 1), EntrySize)
             \cup (IF Usable(addr) THEN Bytes(addr, 4) ELSE {})
             \cup (IF Usable(addr) /\ IsFadt(addr) THEN Bytes(addr + PM1A_OFFSET, 8) ELSE {})
        [] OTHER -> {}

acpi_init == FindRsdp \/ ReadRoot \/ UseDefaults \/ ReadEntry \/ TablesParsed

(* The first table found with a signature. *)
acpi_get_table(signature) ==
  LET found == {k \in 1..Len(acpi_tables) :
                  TableAt(acpi_tables[k]).signature = signature}
  IN  IF found = {} THEN NullTable
      ELSE acpi_tables[CHOOSE k \in found : \A l \in found : k <= l]
=============================================================================

------------------------------- MODULE MCBoot -------------------------------
(***************************************************************************)
(* Machines to boot on: four PCI functions on two buses with room for two  *)
(* in the inventory, three drivers of which one has no init, and firmware  *)
(* that is right, wrong or absent in several ways, with room for two ACPI  *)
(* tables.  A gigabyte is 512 bytes, so that the loader maps 0 to 1023.    *)
(***************************************************************************)
EXTENDS Boot, TLC

Absent == [o \in {0, 8} |-> <<65535, 65535>>]
Display == [o \in {0, 8} |-> IF o = 0 THEN <<4369, 4660>> ELSE <<768, 0>>]
Network == [o \in {0, 8} |-> IF o = 0 THEN <<4110, 32902>> ELSE <<513, 2>>]
Headers == {Absent, Display, Network}

CpuAnswers ==
  {[leaf \in {11, 1} |-> IF leaf = 11 THEN new ELSE old] :
     new \in {<<0, 0>>, <<0, 2>>}, old \in {<<0, 0>>, <<258, 7>>}}

Drivers == {"keyboard", "mouse", "disk"}
WithInit == {"mouse", "disk"}
Registered == <<"keyboard", "mouse", "disk">>
-----------------------------------------------------------------------------
High == 1200  \* an address above two gigabytes

Table(sig, length, words, a, b) ==
  [signature |-> sig, length |-> length, words |-> words, pm1a |-> a, pm1b |-> b]

List(sig, words) == Table(sig, HEADER_SIZE + 4 * Len(words), words, 0, 0)
Fadt(length) == Table("FACP", length, <<>>, 1024, 2048)

(* A table of another kind, a FADT with one register and one whose first   *)
(* register is 0 in its lower half.                                        *)
Others ==
  (100 :> Table("APIC", 40, <<>>, 0, 0))
  @@ (200 :> Table("FACP", 72, <<>>, 1024, 0))
  @@ (600 :> Table("FACP", 116, <<>>, 65536, 65540))

(* The words of lists: null pointers, tables in both gigabytes, and one    *)
(* out of reach.  As 64-bit entries two words each.                        *)
Words == {0, 200, 600, High}
Lists ==
  UNION {[1..n -> Words] : n \in 0..2}
  \cup {<<0, 200, 600>>, <<200, High, 600>>, <<600, 100, 200>>, <<High, 0, 200>>}
Wide(list) == [k \in 1..(2 * Len(list)) |-> IF k % 2 = 1 THEN list[(k + 1) \div 2] ELSE 0]
ShortLists == {<<>>, <<200>>, <<600, 0>>, <<100, 0, 200, 0>>, <<200, 1, 600, 0>>}

Rsdp(revision, rsdt, xsdt) == [revision |-> revision, rsdt |-> rsdt, xsdt |-> xsdt]

Rsdps == {Rsdp(0, 16, High), Rsdp(2, 16, 520), Rsdp(2, 16, 0), Rsdp(2, 16, High),
          Rsdp(0, High, 520), Rsdp(0, 100, 0), Rsdp(0, 0, 0)}

(* An area of four paragraphs; a structure fits at the first two. *)
Area(p, r) == [q \in 1..4 |-> IF q = p THEN r ELSE None]

Memories(rsdps, lists, ebda, bios) ==
  {[ebda |-> Area(e, r), bios |-> Area(b, Rsdp(0, 16, 0)),
    table |-> (16 :> List("RSDT", list)) @@ (520 :> List("XSDT", list)) @@ Others] :
     e \in ebda, b \in bios, r \in rsdps, list \in lists}

(* One list, at an address, and one more table. *)
Odd(addr, list, extra) ==
  [ebda |-> Area(1, Rsdp(0, addr, 0)), bios |-> Area(0, None),
   table |-> (addr :> list) @@ extra @@ Others]

(* Lengths shorter than a header, with a list that fills the array and one *)
(* that runs on to the end of the mapped memory; a length with part of an  *)
(* entry.  Then lists and FADTs across the end, one that reaches it, and   *)
(* one too short for its kind.                                             *)
OddMemories ==
  {Odd(16, Table("RSDT", length, words, 0, 0), <<>>) :
     length \in {0, 20, 35, 38}, words \in {<<200, 600>>, <<0, 100, High, 200>>}}
  \cup {Odd(addr, Table("RSDT", length, <<200>>, 0, 0), <<>>) :
          addr \in {940, 1016, 1020, 1022}, length \in {20, 40}}
  \cup {Odd(16, List("RSDT", <<100, addr>>), addr :> Fadt(length)) :
          addr \in {952, 953, 980, 1010, 1020, 1022}, length \in {36, 72}}

FirmwareMemories ==
  OddMemories
  \cup Memories({Rsdp(0, 16, 0)}, {<<200, 600>>}, 0..3, {0, 2, 3})
  \cup Memories(Rsdps, ShortLists, {1}, {0})
  \cup Memories({Rsdp(0, 16, 0)}, Lists, {1}, {0})
  \cup Memories({Rsdp(2, 16, 520)}, {Wide(list) : list \in Lists}, {1}, {0})
-----------------------------------------------------------------------------
(* For the run that holds the parser to its documents: a list of three     *)
(* tables, none of them a FADT and one of them in the second gigabyte.     *)
ThreeTables ==
  {Odd(16, List("RSDT", <<100, 700, 300>>),
       (300 :> Table("HPET", 56, <<>>, 0, 0)) @@ (700 :> Table("MCFG", 60, <<>>, 0, 0)))}
=============================================================================

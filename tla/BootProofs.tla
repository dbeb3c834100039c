----------------------------- MODULE BootProofs -----------------------------
(***************************************************************************)
(* Proofs about Boot, for every firmware, every set of devices and         *)
(* drivers, and every size of the tables.                                  *)
(***************************************************************************)
EXTENDS Boot, SelectionProofs, FiniteSetTheorems

-----------------------------------------------------------------------------
(* The ACPI parser.                                                        *)

(* The search of an area ends with an RSDP or with nothing. *)
LEMMA ScanFacts ==
  ASSUME NEW area \in Seq(RootPointer \cup {None})
  PROVE  scan_rsdp(area) \in RootPointer \cup {None}
<1> DEFINE found == {p \in 1..Len(area) : 16 * (p - 1) + 36 <= 16 * Len(area) /\ area[p] # None}
           first == CHOOSE p \in found : \A q \in found : p <= q
<1>1. CASE found = {}
  BY <1>1 DEF scan_rsdp
<1>2. CASE found # {}
  <2>1. found \in SUBSET Nat
    OBVIOUS
  <2>2. \E p \in found : \A q \in found : p <= q
    <3> HIDE DEF found
    <3> QED
      BY <1>2, <2>1, LeastNatural
  <2>3. first \in found
    <3> HIDE DEF found
    <3> QED
      BY <2>2
  <2>4. scan_rsdp(area) = area[first]
    <3>1. scan_rsdp(area) = IF found = {} THEN None ELSE area[first]
      BY DEF scan_rsdp
    <3> HIDE DEF found, first
    <3> QED
      BY <1>2, <3>1
  <2>5. first \in 1..Len(area)
    <3> HIDE DEF first
    <3> QED
      BY <2>3
  <2> HIDE DEF first, found
  <2> QED
    BY <2>4, <2>5
<1> QED
  BY <1>1, <1>2

(* What the parser knows once it has looked for the RSDP. *)
Searched ==
  /\ IsMemory(firmware)
  /\ rsdp \in RootPointer \cup {None}

(* What lies at an address has the fields of a table, table or not. *)
LEMMA TableFacts ==
  ASSUME Searched, NEW addr
  PROVE  /\ TableAt(addr).length \in Nat /\ TableAt(addr).words \in Seq(Nat)
         /\ TableAt(addr).pm1a \in Nat /\ TableAt(addr).pm1b \in Nat
<1>1. CASE addr \in DOMAIN firmware.table
  <2>1. firmware.table[addr] \in AcpiTable /\ TableAt(addr) = firmware.table[addr]
    BY <1>1 DEF Searched, IsMemory, TableAt
  <2> QED
    BY <2>1 DEF AcpiTable
<1>2. CASE addr \notin DOMAIN firmware.table
  <2>1. <<>> \in Seq(Nat)
    BY EmptySeq
  <2> QED
    BY <1>2, <2>1 DEF TableAt, NoTable, HEADER_SIZE
<1> QED
  BY <1>1, <1>2

(* A remainder is smaller than what it is the remainder of a division by,  *)
(* and smaller numbers stay as they are.                                   *)
LEMMA Remainder ==
  ASSUME NEW x \in Int, NEW n \in Nat \ {0}
  PROVE  x % n \in 0..(n - 1) /\ (x \in 0..(n - 1) => x % n = x)
  OBVIOUS

(* The list is at an address below the limit. *)
LEMMA RootFacts ==
  ASSUME Searched, rsdp # None
  PROVE  /\ rsdp.rsdt \in Nat /\ rsdp.xsdt \in Nat
         /\ sdt \in Nat /\ (sdt # NullTable => Usable(sdt))
<1>1. rsdp.rsdt \in Nat /\ rsdp.xsdt \in Nat
  BY DEF Searched, RootPointer
<1> QED
  BY <1>1 DEF sdt, Accepted, NullTable, Usable

(* What the parser goes through, as a sequence. *)
EntryList == [k \in 1..EntryCount |-> EntryAt(k)]

(* The list the parser goes through is a sequence of addresses. *)
LEMMA EntriesFacts ==
  ASSUME Searched, HasRoot
  PROVE  /\ EntryCount \in Nat
         /\ \A k \in 1..EntryCount : EntryAt(k) \in Nat /\ EntryList[k] = EntryAt(k)
         /\ EntryList \in Seq(Nat) /\ Len(EntryList) = EntryCount
<1> DEFINE words == TableAt(sdt).words
<1>1. words \in Seq(Nat) /\ TableAt(sdt).length \in Nat /\ GIB \in Nat \ {0}
  BY TableFacts, AcpiAssumption
<1>2. EntryCount \in Nat
  <2> DEFINE left == (TableAt(sdt).length - HEADER_SIZE) \div EntrySize
  <2>1. left \in Int
    BY <1>1 DEF EntrySize, HEADER_SIZE
  <2>2. EntryCount = left % (4 * GIB) /\ 4 * GIB \in Nat \ {0}
    BY <1>1 DEF EntryCount
  <2> HIDE DEF left
  <2>3. left % (4 * GIB) \in 0..(4 * GIB - 1)
    BY <2>1, <2>2, Remainder
  <2> QED
    BY <2>2, <2>3
<1>3. ASSUME NEW k \in Nat \ {0} PROVE Word(k) \in Nat
  <2>1. Word(k) = IF k <= Len(words) THEN words[k] ELSE 0
    BY DEF Word
  <2> HIDE DEF words
  <2>2. Len(words) \in Nat /\ (k <= Len(words) => words[k] \in Nat)
    BY <1>1
  <2> QED
    BY <2>1, <2>2
<1>4. ASSUME NEW k \in 1..EntryCount PROVE EntryAt(k) \in Nat
  <2>1. k \in Nat \ {0} /\ 2 * k \in Nat \ {0} /\ 2 * k - 1 \in Nat \ {0}
    BY <1>2
  <2>2. Word(k) \in Nat /\ Word(2 * k) \in Nat /\ Word(2 * k - 1) \in Nat
    BY <1>3, <2>1
  <2>3. \A a, b \in Nat : a + 4 * GIB * b \in Nat
    <3>1. ASSUME NEW a \in Nat, NEW b \in Nat PROVE a + 4 * GIB * b \in Nat
      <4>1. GIB * b \in Nat
        BY <1>1
      <4>2. 4 * GIB * b = 4 * (GIB * b)
        BY <1>1
      <4> QED
        BY <4>1, <4>2
    <3> QED
      BY <3>1
  <2> QED
    BY <2>2, <2>3 DEF EntryAt
<1>5. EntryList \in [1..EntryCount -> Nat]
  BY <1>4 DEF EntryList
<1>6. EntryList \in Seq(Nat) /\ Len(EntryList) = EntryCount
  BY <1>2, <1>5, IsASeq, LenProperties
<1> QED
  BY <1>2, <1>4, <1>6 DEF EntryList

LEMMA LowerHalf ==
  ASSUME NEW n \in Nat
  PROVE  n % 65536 \in PortNumber
  BY DEF PortNumber

(* The ports of a table are 16-bit numbers. *)
LEMMA PortsFacts ==
  ASSUME Searched, NEW addr
  PROVE  PortsOf(addr) \in Ports
<1>1. TableAt(addr).pm1a \in Nat /\ TableAt(addr).pm1b \in Nat
  BY TableFacts
<1>2. TableAt(addr).pm1a % 65536 \in PortNumber /\ TableAt(addr).pm1b % 65536 \in PortNumber
  BY <1>1, LowerHalf
<1> QED
  BY <1>2 DEF PortsOf, Ports

(* fadt_table is what the last FADT among the tables kept says. *)
FadtIsLast ==
  \/ fadt_table = None /\ \A k \in 1..Len(acpi_tables) : ~IsFadt(acpi_tables[k])
  \/ \E k \in 1..Len(acpi_tables) :
       /\ IsFadt(acpi_tables[k])
       /\ \A l \in 1..Len(acpi_tables) : IsFadt(acpi_tables[l]) => l <= k
       /\ fadt_table = PortsOf(acpi_tables[k])

UsableTable == {addr \in Nat : Usable(addr)}

(* Up to the current entry the loop kept what it should. *)
KeptSoFar ==
  /\ HasRoot
  /\ entry \in 1..(EntryCount + 1)
  /\ IsSelection(acpi_tables, EntryList, {i \in Listed : i < entry})
  /\ FadtIsLast

AcpiInv ==
  /\ acpi_pc \in {"scan", "root", "entries", "done"}
  /\ entry \in Nat
  /\ acpi_tables \in Seq(UsableTable) /\ Len(acpi_tables) <= MAX_ACPI_TABLES
  /\ acpi_pc # "scan" => Searched
  /\ acpi_pc \in {"scan", "root"} => acpi_tables = <<>> /\ fadt_table = None
  /\ acpi_pc = "entries" => KeptSoFar
  /\ acpi_pc = "done" =>
       IF HasRoot THEN KeptSoFar /\ ~InLoop ELSE acpi_tables = <<>> /\ fadt_table = DefaultFadt

LEMMA AcpiInitFacts == AcpiInit => AcpiInv
<1>1. <<>> \in Seq(UsableTable) /\ Len(<<>>) = 0
  BY EmptySeq
<1> QED
  BY <1>1, AcpiAssumption DEF AcpiInit, AcpiInv

LEMMA FindRsdpFacts ==
  ASSUME AcpiInv, FindRsdp
  PROVE  AcpiInv'
<1>1. IsMemory(firmware)'
  BY AcpiAssumption DEF FindRsdp, IsMemory
<1>2. scan_rsdp(firmware'.ebda) \in RootPointer \cup {None}
      /\ scan_rsdp(firmware'.bios) \in RootPointer \cup {None}
  <2>1. firmware'.ebda \in Seq(RootPointer \cup {None})
        /\ firmware'.bios \in Seq(RootPointer \cup {None})
    BY <1>1 DEF IsMemory
  <2> QED
    BY <2>1, ScanFacts
<1>3. Searched'
  BY <1>1, <1>2 DEF Searched, FindRsdp
<1> QED
  BY <1>3 DEF AcpiInv, FindRsdp

(* The list and what it names stay as the firmware left them. *)
LEMMA SameFirmware ==
  ASSUME UNCHANGED <<firmware, rsdp>>
  PROVE  /\ Searched' <=> Searched
         /\ HasRoot' <=> HasRoot
         /\ EntryCount' = EntryCount /\ EntryList' = EntryList
         /\ UsableTable' = UsableTable /\ Listed' = Listed
<1>1. sdt' = sdt /\ EntrySize' = EntrySize /\ (use_xsdt' <=> use_xsdt)
  BY DEF sdt, use_xsdt, EntrySize
<1>2. TableAt(sdt)' = TableAt(sdt)
  BY <1>1 DEF TableAt
<1>3. EntryCount' = EntryCount
  BY <1>1, <1>2 DEF EntryCount
<1>4. \A k : EntryAt(k)' = EntryAt(k)
  BY <1>1, <1>2 DEF EntryAt, Word
<1>5. EntryList' = EntryList
  BY <1>3, <1>4 DEF EntryList
<1>6. UsableTable' = UsableTable /\ Listed' = Listed
  BY <1>3, <1>4 DEF UsableTable, Listed, Usable
<1> QED
  BY <1>1, <1>2, <1>3, <1>5, <1>6 DEF Searched, HasRoot

LEMMA ReadRootFacts ==
  ASSUME AcpiInv, ReadRoot
  PROVE  AcpiInv'
<1>1. Searched /\ HasRoot /\ acpi_tables = <<>> /\ fadt_table = None
  BY DEF AcpiInv, ReadRoot
<1>2. UNCHANGED <<firmware, rsdp, fadt_table, acpi_tables>> /\ entry' = 1
      /\ acpi_pc' = "entries"
  BY <1>1 DEF ReadRoot
<1>3. Searched' /\ HasRoot' /\ UsableTable' = UsableTable
  BY <1>1, <1>2, SameFirmware
<1>4. EntryCount' \in Nat /\ Listed' \subseteq 1..EntryCount'
  BY <1>1, <1>2, SameFirmware, EntriesFacts DEF Listed
<1>5. {i \in Listed' : i < entry'} = {}
  <2>1. \A i \in 1..EntryCount' : ~(i < 1)
    BY <1>4
  <2>2. \A i \in Listed' : ~(i < entry')
    BY <1>2, <1>4, <2>1
  <2> QED
    BY <2>2
<1>6. Len(acpi_tables') = 0
  BY <1>1, <1>2, EmptySeq
<1>7. KeptSoFar'
  <2>1. IsSelection(acpi_tables', EntryList', {i \in Listed' : i < entry'})
    BY <1>1, <1>2, <1>5, SelectEmpty
  <2>2. FadtIsLast'
    BY <1>1, <1>2, <1>6 DEF FadtIsLast
  <2>3. entry' \in 1..(EntryCount' + 1)
    <3>1. \A n \in Nat : 1 \in 1..(n + 1)
      OBVIOUS
    <3> QED
      BY <1>2, <1>4, <3>1
  <2> QED
    BY <1>3, <2>1, <2>2, <2>3 DEF KeptSoFar
<1> QED
  BY <1>1, <1>2, <1>3, <1>7 DEF AcpiInv

LEMMA UseDefaultsFacts ==
  ASSUME AcpiInv, UseDefaults
  PROVE  AcpiInv'
<1>1. Searched /\ ~HasRoot /\ acpi_tables = <<>>
  BY DEF AcpiInv, UseDefaults
<1>2. UNCHANGED <<firmware, rsdp, entry, acpi_tables>> /\ acpi_pc' = "done"
      /\ fadt_table' = DefaultFadt
  BY DEF UseDefaults
<1>3. Searched' /\ ~HasRoot' /\ UsableTable' = UsableTable
  BY <1>1, <1>2, SameFirmware
<1> QED
  BY <1>1, <1>2, <1>3 DEF AcpiInv

(* One round of the loop. *)
LEMMA ReadEntryFacts ==
  ASSUME AcpiInv, ReadEntry
  PROVE  AcpiInv'
<1> DEFINE addr == EntryAt(entry)
           done == {i \in Listed : i < entry}
<1>1. acpi_pc = "entries" /\ Searched /\ HasRoot /\ InLoop /\ KeptSoFar
  BY DEF AcpiInv, ReadEntry, KeptSoFar
<1>2. UNCHANGED <<firmware, acpi_pc, rsdp>> /\ entry' = entry + 1
  BY DEF ReadEntry
<1>3. Searched' /\ HasRoot' /\ EntryCount' = EntryCount /\ EntryList' = EntryList
  BY <1>1, <1>2, SameFirmware
<1>4. UsableTable' = UsableTable /\ Listed' = Listed
  BY <1>2, SameFirmware
<1>5. /\ EntryCount \in Nat /\ EntryList[entry] = addr
      /\ entry \in 1..EntryCount /\ entry \in Nat /\ addr \in Nat
      /\ acpi_tables \in Seq(UsableTable) /\ Len(acpi_tables) \in Nat
      /\ Len(acpi_tables) < MAX_ACPI_TABLES /\ MAX_ACPI_TABLES \in Nat
  <2>1. /\ EntryCount \in Nat
        /\ \A k \in 1..EntryCount : EntryAt(k) \in Nat /\ EntryList[k] = EntryAt(k)
    BY <1>1, EntriesFacts
  <2>2. entry \in 1..EntryCount
    BY <1>1, <2>1 DEF InLoop, KeptSoFar
  <2>3. acpi_tables \in Seq(UsableTable) /\ Len(acpi_tables) \in Nat
    BY DEF AcpiInv
  <2> QED
    BY <1>1, <2>1, <2>2, <2>3, AcpiAssumption DEF InLoop
<1>6. entry' \in 1..(EntryCount' + 1) /\ entry' \in Nat
  BY <1>2, <1>3, <1>5
<1>7. Listed \subseteq Nat
  BY DEF Listed
<1>8. CASE ~Usable(addr)
  <2>1. UNCHANGED <<acpi_tables, fadt_table>>
    BY <1>8 DEF ReadEntry
  <2>2. {i \in Listed' : i < entry'} = done
    <3>1. \A i \in Listed : i < entry + 1 <=> i < entry
      BY <1>5, <1>7, <1>8 DEF Listed
    <3> QED
      BY <1>2, <1>4, <3>1
  <2>3. FadtIsLast'
    BY <1>1, <1>2, <2>1 DEF KeptSoFar, FadtIsLast, IsFadt, PortsOf, TableAt
  <2>4. KeptSoFar'
    BY <1>1, <1>3, <1>6, <2>1, <2>2, <2>3 DEF KeptSoFar
  <2> QED
    BY <1>1, <1>2, <1>3, <1>4, <1>6, <2>1, <2>4 DEF AcpiInv
<1>9. CASE Usable(addr)
  <2> DEFINE n == Len(acpi_tables)
  <2>1. /\ acpi_tables' = Append(acpi_tables, addr)
        /\ fadt_table' = IF IsFadt(addr) THEN PortsOf(addr) ELSE fadt_table
    BY <1>9 DEF ReadEntry
  <2>2. addr \in UsableTable /\ entry \in Listed
    BY <1>5, <1>9 DEF UsableTable, Listed
  <2>3. /\ acpi_tables' \in Seq(UsableTable) /\ Len(acpi_tables') = n + 1
        /\ acpi_tables'[n + 1] = addr
        /\ \A k \in 1..n : acpi_tables'[k] = acpi_tables[k]
    <3> HIDE DEF addr
    <3> QED
      BY <1>5, <2>1, <2>2, AppendProperties
  <2>4. {i \in Listed' : i < entry'} = done \cup {entry}
    <3>1. \A i \in Listed : i < entry + 1 <=> i < entry \/ i = entry
      BY <1>5, <1>7
    <3> QED
      BY <1>2, <1>4, <2>2, <3>1
  <2>5. IsSelection(acpi_tables', EntryList', done \cup {entry})
    <3>1. done \subseteq Nat /\ \A i \in done : i < entry
      BY <1>7
    <3>2. IsSelection(acpi_tables, EntryList, done)
      BY <1>1 DEF KeptSoFar
    <3>3. EntryList[entry] \in UsableTable
      BY <1>5, <2>2
    <3> HIDE DEF done
    <3>4. IsSelection(Append(acpi_tables, EntryList[entry]), EntryList, done \cup {entry})
      BY <1>5, <3>1, <3>2, <3>3, SelectAppend
    <3> QED
      BY <1>3, <1>5, <2>1, <3>4
  <2>6. FadtIsLast'
    <3>1. (\/ /\ fadt_table' = None
              /\ \A k \in 1..(n + 1) : ~IsFadt(acpi_tables'[k])
           \/ \E k \in 1..(n + 1) :
                /\ IsFadt(acpi_tables'[k])
                /\ \A l \in 1..(n + 1) : IsFadt(acpi_tables'[l]) => l <= k
                /\ fadt_table' = PortsOf(acpi_tables'[k]))
          => FadtIsLast'
      BY <1>2, <2>3 DEF FadtIsLast, IsFadt, PortsOf, TableAt
    <3>2. \A k \in 1..(n + 1) : k \in 1..n \/ k = n + 1
      BY <1>5
    <3>3. n \in Nat /\ n + 1 \in 1..(n + 1) /\ \A k \in 1..n : k <= n + 1 /\ k \in 1..(n + 1)
      BY <1>5
    <3>4. CASE IsFadt(addr)
      <4>1. /\ IsFadt(acpi_tables'[n + 1])
            /\ \A l \in 1..(n + 1) : l <= n + 1
            /\ fadt_table' = PortsOf(acpi_tables'[n + 1])
        BY <2>1, <2>3, <3>3, <3>4
      <4> QED
        BY <3>1, <3>3, <4>1
    <3>5. CASE ~IsFadt(addr)
      <4>1. fadt_table' = fadt_table
        BY <2>1, <3>5
      <4>2. \A k \in 1..n : IsFadt(acpi_tables'[k]) <=> IsFadt(acpi_tables[k])
        BY <2>3
      <4>3. ~IsFadt(acpi_tables'[n + 1])
        BY <2>3, <3>5
      <4>4. CASE fadt_table = None /\ \A k \in 1..n : ~IsFadt(acpi_tables[k])
        BY <3>1, <3>2, <4>1, <4>2, <4>3, <4>4
      <4>5. ASSUME NEW k \in 1..n, IsFadt(acpi_tables[k]),
                   \A l \in 1..n : IsFadt(acpi_tables[l]) => l <= k,
                   fadt_table = PortsOf(acpi_tables[k])
            PROVE  FadtIsLast'
        <5>1. fadt_table' = PortsOf(acpi_tables'[k]) /\ IsFadt(acpi_tables'[k])
          BY <2>3, <4>1, <4>2, <4>5
        <5>2. \A l \in 1..(n + 1) : IsFadt(acpi_tables'[l]) => l <= k
          BY <3>2, <4>2, <4>3, <4>5
        <5> QED
          BY <3>1, <3>3, <5>1, <5>2
      <4> QED
        BY <1>1, <4>4, <4>5 DEF KeptSoFar, FadtIsLast
    <3> QED
      BY <3>4, <3>5
  <2>7. KeptSoFar'
    BY <1>3, <1>6, <2>4, <2>5, <2>6 DEF KeptSoFar
  <2>8. Len(acpi_tables') <= MAX_ACPI_TABLES
    BY <1>5, <2>3
  <2> QED
    BY <1>1, <1>2, <1>3, <1>4, <1>6, <2>1, <2>2, <2>3, <2>7, <2>8 DEF AcpiInv
<1> QED
  BY <1>8, <1>9

LEMMA TablesParsedFacts ==
  ASSUME AcpiInv, TablesParsed
  PROVE  AcpiInv'
<1>1. /\ UNCHANGED <<firmware, rsdp, entry, acpi_tables, fadt_table>>
      /\ ~InLoop /\ KeptSoFar /\ HasRoot /\ Searched /\ acpi_pc' = "done"
  BY DEF TablesParsed, AcpiInv, KeptSoFar
<1>2. Searched' /\ HasRoot' /\ EntryCount' = EntryCount /\ EntryList' = EntryList
  BY <1>1, SameFirmware
<1>3. UsableTable' = UsableTable /\ Listed' = Listed
  BY <1>1, SameFirmware
<1>4. ~InLoop'
  BY <1>1, <1>2 DEF InLoop
<1>5. FadtIsLast'
  BY <1>1 DEF KeptSoFar, FadtIsLast, IsFadt, PortsOf, TableAt
<1>6. KeptSoFar'
  BY <1>1, <1>2, <1>3, <1>5 DEF KeptSoFar
<1> QED
  BY <1>1, <1>2, <1>3, <1>4, <1>6 DEF AcpiInv

LEMMA AcpiUnchanged ==
  ASSUME AcpiInv, UNCHANGED acpiVars
  PROVE  AcpiInv'
<1>1. UNCHANGED <<firmware, acpi_pc, rsdp, entry, acpi_tables, fadt_table>>
  BY DEF acpiVars
<1>2. /\ Searched' <=> Searched
      /\ HasRoot' <=> HasRoot
      /\ EntryCount' = EntryCount /\ EntryList' = EntryList
  BY <1>1, SameFirmware
<1>3. UsableTable' = UsableTable /\ Listed' = Listed /\ (InLoop' <=> InLoop)
  BY <1>1, <1>2, SameFirmware DEF InLoop
<1>4. FadtIsLast' <=> FadtIsLast
  BY <1>1 DEF FadtIsLast, IsFadt, PortsOf, TableAt
<1>5. KeptSoFar' <=> KeptSoFar
  BY <1>1, <1>2, <1>3, <1>4 DEF KeptSoFar
<1> QED
  BY <1>1, <1>2, <1>3, <1>5 DEF AcpiInv

LEMMA AcpiFacts ==
  ASSUME AcpiInv, acpi_init
  PROVE  AcpiInv'
  BY FindRsdpFacts, ReadRootFacts, UseDefaultsFacts, ReadEntryFacts, TablesParsedFacts
     DEF acpi_init

(* What the parser promises of its tables. *)
LEMMA AcpiResult == AcpiInv => TablesAsListed
<1> SUFFICES ASSUME AcpiInv, acpi_pc = "done" PROVE TablesAsListed
  BY DEF TablesAsListed
<1>1. CASE ~HasRoot
  BY <1>1 DEF AcpiInv, TablesAsListed
<1>2. CASE HasRoot
  <2>1. KeptSoFar /\ ~InLoop /\ Searched
    BY <1>2 DEF AcpiInv
  <2>2. EntryCount \in Nat /\ entry \in 1..(EntryCount + 1)
        /\ Listed \subseteq 1..EntryCount
    BY <1>2, <2>1, EntriesFacts DEF KeptSoFar, Listed
  <2>3. Len(EntryList) = EntryCount
    BY <1>2, <2>1, EntriesFacts
  <2>4. SelectsFirst(acpi_tables, EntryList, Listed, MAX_ACPI_TABLES)
    <3>1. entry - 1 \in 0..EntryCount
      BY <2>2
    <3>2. entry - 1 = EntryCount \/ Len(acpi_tables) = MAX_ACPI_TABLES
      <4>1. Len(acpi_tables) <= MAX_ACPI_TABLES /\ Len(acpi_tables) \in Nat
            /\ MAX_ACPI_TABLES \in Nat
        BY AcpiAssumption DEF AcpiInv
      <4> QED
        BY <2>1, <2>2, <4>1 DEF InLoop
    <3>3. {i \in Listed : i < entry} = {i \in Listed : i <= entry - 1}
      <4>1. \A i \in Listed : i < entry <=> i <= entry - 1
        BY <2>2
      <4> QED
        BY <4>1
    <3>4. IsSelection(acpi_tables, EntryList, {i \in Listed : i <= entry - 1})
      BY <2>1, <3>3 DEF KeptSoFar
    <3> QED
      BY <2>3, <3>1, <3>2, <3>4 DEF SelectsFirst
  <2>5. acpi_get_table("FACP") # NullTable => fadt_table # None
    <3> DEFINE found == {k \in 1..Len(acpi_tables) : IsFadt(acpi_tables[k])}
               first == CHOOSE k \in found : \A l \in found : k <= l
    <3>1. acpi_get_table("FACP") = IF found = {} THEN NullTable ELSE acpi_tables[first]
      BY DEF acpi_get_table, IsFadt
    <3>2. found # {} => fadt_table # None
      <4>1. CASE fadt_table = None /\ \A k \in 1..Len(acpi_tables) : ~IsFadt(acpi_tables[k])
        BY <4>1
      <4>2. ASSUME NEW k \in 1..Len(acpi_tables), fadt_table = PortsOf(acpi_tables[k])
            PROVE  fadt_table # None
        <5>1. PortsOf(acpi_tables[k]) \in Ports
          BY <2>1, PortsFacts
        <5> QED
          BY <4>2, <5>1, AcpiAssumption
      <4> QED
        BY <2>1, <4>1, <4>2 DEF KeptSoFar, FadtIsLast
    <3> HIDE DEF found, first
    <3> QED
      BY <3>1, <3>2
  <2> QED
    BY <1>2, <2>4, <2>5 DEF TablesAsListed, EntryList
<1> QED
  BY <1>1, <1>2
-----------------------------------------------------------------------------
(* The scan of the PCI buses.                                              *)

(* What an entry of the arrays may hold. *)
DeviceRecord == {Garbage} \cup {Record(BusOf(n), h) : n \in Nat, h \in Header}

PresentAnswer == {n \in 1..Len(answers) : Present(answers[n])}
AnswerRecords == [n \in 1..Len(answers) |-> Record(BusOf(n - 1), answers[n])]

InventoryInv ==
  /\ answers \in Seq(Header)
  /\ pci_devices \in Nat /\ pci_devices <= Len(answers)
  /\ pci_list \in [0..(MAX_INVENTORY_PCI - 1) -> DeviceRecord]
  /\ cpu_cores \in Word16
  /\ InfoListsDevices

(* A function on 1..n is a sequence of length n. *)
LEMMA FunctionIsSeq ==
  ASSUME NEW S, NEW n \in Nat, NEW f \in [1..n -> S]
  PROVE  f \in Seq(S) /\ Len(f) = n
  BY IsASeq, LenProperties

(* How many lines `info' prints. *)
Shown == IF pci_devices < MAX_INVENTORY_PCI THEN pci_devices ELSE MAX_INVENTORY_PCI

LEMMA InventoryShape ==
  ASSUME answers \in Seq(Header), pci_devices \in Nat,
         pci_list \in [0..(MAX_INVENTORY_PCI - 1) -> DeviceRecord]
  PROVE  /\ show_info \in Seq(DeviceRecord) /\ Len(show_info) = Shown
         /\ \A k \in 1..Shown : show_info[k] = pci_list[k - 1]
         /\ Shown \in Nat /\ MAX_INVENTORY_PCI \in Nat
         /\ AnswerRecords \in Seq(DeviceRecord) /\ Len(AnswerRecords) = Len(answers)
         /\ PresentAnswer \subseteq 1..Len(answers)
<1>1. MAX_INVENTORY_PCI \in Nat \ {0}
  BY InventoryAssumption
<1>2. Shown \in Nat /\ \A k \in 1..Shown : k - 1 \in 0..(MAX_INVENTORY_PCI - 1)
  BY <1>1 DEF Shown
<1>3. show_info = [k \in 1..Shown |-> pci_list[k - 1]]
  BY DEF show_info, Shown
<1>4. show_info \in [1..Shown -> DeviceRecord]
  BY <1>2, <1>3
<1>5. Len(answers) \in Nat /\ \A n \in 1..Len(answers) : answers[n] \in Header /\ n - 1 \in Nat
  OBVIOUS
<1>6. AnswerRecords \in [1..Len(answers) -> DeviceRecord]
  BY <1>5 DEF AnswerRecords, DeviceRecord
<1>7. show_info \in Seq(DeviceRecord) /\ Len(show_info) = Shown
  BY <1>2, <1>4, FunctionIsSeq
<1>8. AnswerRecords \in Seq(DeviceRecord) /\ Len(AnswerRecords) = Len(answers)
  BY <1>5, <1>6, FunctionIsSeq
<1> QED
  BY <1>1, <1>2, <1>3, <1>7, <1>8 DEF PresentAnswer

LEMMA InventoryInitFacts == InventoryInit => InventoryInv /\ answers = <<>>
<1> SUFFICES ASSUME InventoryInit PROVE InventoryInv
  BY DEF InventoryInit
<1>1. MAX_INVENTORY_PCI \in Nat \ {0}
  BY InventoryAssumption
<1>2. answers \in Seq(Header) /\ Len(answers) = 0 /\ pci_devices = 0 /\ cpu_cores \in Word16
  BY EmptySeq DEF InventoryInit, Word16, WORD
<1>3. pci_list \in [0..(MAX_INVENTORY_PCI - 1) -> DeviceRecord]
  BY DEF InventoryInit, DeviceRecord
<1>4. PresentAnswer = {} /\ Shown = 0
  BY <1>1, <1>2 DEF PresentAnswer, Shown
<1>5. /\ Len(show_info) = 0 /\ show_info = <<>>
      /\ AnswerRecords \in Seq(DeviceRecord) /\ Len(AnswerRecords) = 0
  <2>1. show_info \in Seq(DeviceRecord) /\ Len(show_info) = 0
        /\ AnswerRecords \in Seq(DeviceRecord) /\ Len(AnswerRecords) = 0
    BY <1>2, <1>3, <1>4, InventoryShape
  <2> QED
    BY <2>1, EmptySeq
<1>6. Cardinality(PresentAnswer) = 0
  BY <1>4, FS_EmptySet
<1>7. SelectsFirst(show_info, AnswerRecords, PresentAnswer, MAX_INVENTORY_PCI)
  <2>1. {i \in PresentAnswer : i <= 0} = {}
    BY <1>4
  <2>2. IsSelection(show_info, AnswerRecords, {i \in PresentAnswer : i <= 0})
    BY <1>5, <2>1, SelectEmpty
  <2> QED
    BY <1>5, <2>2 DEF SelectsFirst
<1>8. InfoListsDevices
  BY <1>1, <1>2, <1>5, <1>6, <1>7 DEF InfoListsDevices, PresentAnswer, AnswerRecords
<1> QED
  BY <1>1, <1>2, <1>3, <1>8 DEF InventoryInv

(* The processor count fits its field. *)
LEMMA StartGatherFacts ==
  ASSUME InventoryInv, answers = <<>>, NEW ebx \in Cpuid, StartGather(ebx)
  PROVE  InventoryInv'
<1>1. ebx[11] \in Word16 \X Word16 /\ ebx[1] \in Word16 \X Word16
  BY InventoryAssumption
<1>2. Lower(ebx[11]) \in Word16 /\ Upper(ebx[1]) \in Word16
  BY <1>1 DEF Lower, Upper
<1>3. ASSUME NEW n \in Word16 PROVE n % 256 \in Word16
  <2>1. n \in Nat
    BY DEF Word16, WORD
  <2>2. WORD \in Nat /\ WORD > 256
    BY DEF WORD
  <2>3. n % 256 \in Nat /\ n % 256 < 256
    BY <2>1
  <2> QED
    BY <2>2, <2>3 DEF Word16
<1>4. 1 \in Word16
  BY DEF Word16, WORD
<1>5. hal_cpu_core_count(ebx) \in Word16
  BY <1>2, <1>3, <1>4 DEF hal_cpu_core_count
<1>6. pci_devices = 0
  <2>1. Len(answers) = 0
    BY EmptySeq
  <2> QED
    BY <2>1 DEF InventoryInv
<1>7. UNCHANGED <<answers, pci_list, pci_devices>> /\ cpu_cores' \in Word16
  BY <1>5, <1>6 DEF StartGather
<1>8. InfoListsDevices'
  BY <1>7 DEF InventoryInv, InfoListsDevices, show_info
<1> QED
  BY <1>7, <1>8 DEF InventoryInv

(* One function probed. *)
LEMMA GatherFacts ==
  ASSUME InventoryInv, NEW h \in Header, inventory_gather(h)
  PROVE  InventoryInv' /\ Len(answers') = Len(answers) + 1
<1> DEFINE n == Len(answers)
           M == MAX_INVENTORY_PCI
           e == Record(BusOf(n), h)
<1>1. /\ answers \in Seq(Header) /\ pci_devices \in Nat /\ pci_devices <= n
      /\ pci_list \in [0..(M - 1) -> DeviceRecord] /\ cpu_cores \in Word16 /\ InfoListsDevices
      /\ M \in Nat \ {0} /\ n \in Nat
  BY InventoryAssumption DEF InventoryInv
<1>2. answers' = Append(answers, h) /\ cpu_cores' = cpu_cores
  BY DEF inventory_gather
<1>3. /\ answers' \in Seq(Header) /\ Len(answers') = n + 1
      /\ answers'[n + 1] = h /\ \A k \in 1..n : answers'[k] = answers[k]
  BY <1>1, <1>2, AppendProperties
<1>4. e \in DeviceRecord
  BY <1>1 DEF DeviceRecord
<1>5. /\ show_info \in Seq(DeviceRecord) /\ Len(show_info) = Shown
      /\ \A k \in 1..Shown : show_info[k] = pci_list[k - 1]
      /\ Shown \in Nat
      /\ AnswerRecords \in Seq(DeviceRecord) /\ Len(AnswerRecords) = n
      /\ PresentAnswer \subseteq 1..n
  BY <1>1, InventoryShape
<1>6. AnswerRecords' = Append(AnswerRecords, e)
  <2>1. AnswerRecords' = [k \in 1..(n + 1) |-> Record(BusOf(k - 1), answers'[k])]
    BY <1>3 DEF AnswerRecords
  <2>2. ASSUME NEW k \in 1..n PROVE AnswerRecords'[k] = AnswerRecords[k]
    BY <1>1, <1>3, <2>1 DEF AnswerRecords
  <2>3. AnswerRecords'[n + 1] = e
    <3>1. n + 1 \in 1..(n + 1) /\ (n + 1) - 1 = n
      BY <1>1
    <3> QED
      BY <1>3, <2>1, <3>1
  <2> DEFINE r == Append(AnswerRecords, e)
             a == AnswerRecords'
  <2>4. /\ r \in Seq(DeviceRecord) /\ Len(r) = n + 1 /\ r[n + 1] = e
        /\ \A k \in 1..n : r[k] = AnswerRecords[k]
    <3> HIDE DEF e
    <3> QED
      BY <1>4, <1>5, AppendProperties
  <2>5. a \in Seq(DeviceRecord) /\ Len(a) = n + 1
    <3>1. a \in [1..(n + 1) -> DeviceRecord]
      <4>1. \A k \in 1..(n + 1) : answers'[k] \in Header /\ k - 1 \in Nat
        BY <1>1, <1>3
      <4> QED
        BY <2>1, <4>1 DEF DeviceRecord
    <3> HIDE DEF a
    <3> QED
      BY <1>1, <3>1, FunctionIsSeq
  <2>6. \A k \in 1..(n + 1) : k \in 1..n \/ k = n + 1
    BY <1>1
  <2>7. \A k \in 1..(n + 1) : a[k] = r[k]
    <3> HIDE DEF r, e
    <3> QED
      BY <2>2, <2>3, <2>4, <2>6
  <2> HIDE DEF r, a
  <2>8. a = r
    BY <2>4, <2>5, <2>7, SeqEqual
  <2> QED
    BY <2>8 DEF a, r
<1>7. /\ pci_devices = Cardinality(PresentAnswer)
      /\ Shown <= M
      /\ SelectsFirst(show_info, AnswerRecords, PresentAnswer, M)
  BY <1>1, <1>5 DEF InfoListsDevices, PresentAnswer, AnswerRecords
<1>8. IsFiniteSet(PresentAnswer) /\ n + 1 \notin PresentAnswer
  <2>1. IsFiniteSet(1..n)
    BY <1>1, FS_Interval
  <2>2. IsFiniteSet(PresentAnswer)
    BY <1>5, <2>1, FS_Subset
  <2>3. n + 1 \notin 1..n
    BY <1>1
  <2> QED
    BY <1>5, <2>2, <2>3
<1>9. ASSUME pci_devices' = Cardinality(PresentAnswer'), Len(show_info') <= M,
             SelectsFirst(show_info', AnswerRecords', PresentAnswer', M),
             pci_devices' \in Nat, pci_devices' <= n + 1,
             pci_list' \in [0..(M - 1) -> DeviceRecord]
      PROVE  InventoryInv' /\ Len(answers') = Len(answers) + 1
  <2>1. InfoListsDevices'
    BY <1>9 DEF InfoListsDevices, PresentAnswer, AnswerRecords
  <2> QED
    BY <1>1, <1>2, <1>3, <1>9, <2>1 DEF InventoryInv
<1>10. CASE ~Present(h)
  <2>1. UNCHANGED <<pci_devices, pci_list>>
    BY <1>10 DEF inventory_gather
  <2>2. PresentAnswer' = PresentAnswer
    <3>1. \A k \in 1..(n + 1) : k \in 1..n \/ k = n + 1
      BY <1>1
    <3>2. \A k \in 1..n : k \in 1..(n + 1)
      BY <1>1
    <3> QED
      BY <1>3, <1>10, <3>1, <3>2 DEF PresentAnswer
  <2>3. show_info' = show_info
    BY <2>1 DEF show_info
  <2>4. SelectsFirst(show_info, Append(AnswerRecords, e), PresentAnswer, M)
    <3> HIDE DEF e
    <3> QED
      BY <1>4, <1>5, <1>7, FirstSkip
  <2> QED
    BY <1>1, <1>5, <1>6, <1>7, <1>9, <2>1, <2>2, <2>3, <2>4
<1>11. CASE Present(h)
  <2>1. /\ pci_list' = IF pci_devices < M THEN [pci_list EXCEPT ![pci_devices] = e] ELSE pci_list
        /\ pci_devices' = pci_devices + 1
    BY <1>11 DEF inventory_gather
  <2>2. PresentAnswer' = PresentAnswer \cup {n + 1}
    <3>1. \A k \in 1..(n + 1) : k \in 1..n \/ k = n + 1
      BY <1>1
    <3>2. n + 1 \in 1..(n + 1) /\ \A k \in 1..n : k \in 1..(n + 1)
      BY <1>1
    <3> QED
      BY <1>3, <1>11, <3>1, <3>2 DEF PresentAnswer
  <2>3. pci_devices' = Cardinality(PresentAnswer')
    BY <1>7, <1>8, <2>1, <2>2, FS_AddElement
  <2>4. pci_devices' \in Nat /\ pci_devices' <= n + 1
    BY <1>1, <2>1
  <2>5. CASE pci_devices < M
    <3>1. Shown = pci_devices /\ Shown' = pci_devices + 1 /\ pci_devices \in 0..(M - 1)
      BY <1>1, <2>1, <2>5 DEF Shown
    <3>2. /\ pci_list' \in [0..(M - 1) -> DeviceRecord]
          /\ pci_list'[pci_devices] = e
          /\ \A k \in 0..(M - 1) : k # pci_devices => pci_list'[k] = pci_list[k]
      <4> HIDE DEF e
      <4> QED
        BY <1>1, <1>4, <2>1, <2>5, <3>1
    <3>3. /\ show_info' \in Seq(DeviceRecord) /\ Len(show_info') = Shown'
          /\ \A k \in 1..Shown' : show_info'[k] = pci_list'[k - 1]
      <4>1. show_info' = [k \in 1..Shown' |-> pci_list'[k - 1]]
        BY DEF show_info, Shown
      <4>2. Shown' \in Nat /\ \A k \in 1..Shown' : k - 1 \in 0..(M - 1)
        BY <1>1, <3>1
      <4>3. show_info' \in [1..Shown' -> DeviceRecord]
        BY <3>2, <4>1, <4>2
      <4> QED
        BY <4>1, <4>2, <4>3, FunctionIsSeq
    <3>4. show_info' = Append(show_info, e)
      <4> HIDE DEF e
      <4> DEFINE r == Append(show_info, e)
                 a == show_info'
                 p == pci_devices
      <4>1. /\ r \in Seq(DeviceRecord) /\ Len(r) = p + 1 /\ r[p + 1] = e
            /\ \A k \in 1..p : r[k] = show_info[k]
        BY <1>4, <1>5, <3>1, AppendProperties
      <4>2. \A k \in 1..p : /\ k - 1 \in 0..(M - 1) /\ k - 1 # p
                            /\ k \in 1..(p + 1)
        BY <1>1, <3>1
      <4>3. \A k \in 1..p : a[k] = show_info[k]
        BY <1>5, <3>1, <3>2, <3>3, <4>2
      <4>4. a[p + 1] = e
        <5>1. p + 1 \in 1..(p + 1) /\ (p + 1) - 1 = p
          BY <1>1
        <5> QED
          BY <3>1, <3>2, <3>3, <5>1
      <4>5. \A k \in 1..(p + 1) : k \in 1..p \/ k = p + 1
        BY <1>1
      <4>6. \A k \in 1..(p + 1) : a[k] = r[k]
        BY <4>1, <4>3, <4>4, <4>5
      <4>7. a \in Seq(DeviceRecord) /\ Len(a) = p + 1
        BY <3>1, <3>3
      <4> HIDE DEF a, r
      <4>8. a = r
        BY <4>1, <4>6, <4>7, SeqEqual
      <4> QED
        BY <4>8 DEF a, r
    <3>5. SelectsFirst(Append(show_info, e), Append(AnswerRecords, e), PresentAnswer \cup {n + 1}, M)
      <4>1. Len(show_info) # M
        BY <1>1, <1>5, <2>5, <3>1
      <4> HIDE DEF e
      <4> QED
        BY <1>4, <1>5, <1>7, <4>1, FirstAppend
    <3>6. Len(show_info') <= M
      BY <1>1, <3>1, <3>3
    <3> QED
      BY <1>6, <1>9, <2>2, <2>3, <2>4, <3>2, <3>4, <3>5, <3>6
  <2>6. CASE ~(pci_devices < M)
    <3>1. Shown = M /\ Shown' = M /\ pci_list' = pci_list
      BY <1>1, <2>1, <2>6 DEF Shown
    <3>2. show_info' = show_info
      BY <3>1 DEF show_info, Shown
    <3>3. SelectsFirst(show_info, Append(AnswerRecords, e), PresentAnswer \cup {n + 1}, M)
      <4>1. Len(show_info) = M
        BY <1>5, <3>1
      <4> HIDE DEF e
      <4> QED
        BY <1>4, <1>5, <1>7, <4>1, FirstFull
    <3> QED
      BY <1>1, <1>5, <1>6, <1>7, <1>9, <2>2, <2>3, <2>4, <3>1, <3>2, <3>3
  <2> QED
    BY <2>5, <2>6
<1> QED
  BY <1>10, <1>11
-----------------------------------------------------------------------------
(* The list of drivers.                                                    *)

(* The linked list is the drivers registered so far, in order. *)
ListInv ==
  /\ registered \in 0..Len(BuiltIn)
  /\ drv_next \in [Drv -> Drv \cup {NoDriver}]
  /\ registered = 0 => drv_head = NoDriver /\ drv_tail = NoDriver
  /\ registered > 0 =>
       /\ drv_head = BuiltIn[1]
       /\ drv_tail = BuiltIn[registered]
       /\ drv_next[BuiltIn[registered]] = NoDriver
       /\ \A k \in 1..(registered - 1) : drv_next[BuiltIn[k]] = BuiltIn[k + 1]

WithInit(w) == {i \in 1..Len(BuiltIn) : i <= w /\ BuiltIn[i] \in HasInit}

(* The walk is past the first w drivers. *)
WalkedPast(w) ==
  /\ walk = IF w = Len(BuiltIn) THEN NoDriver ELSE BuiltIn[w + 1]
  /\ IsSelection(initialised, BuiltIn, WithInit(w))

LEMMA BuiltInFacts ==
  /\ Len(BuiltIn) \in Nat
  /\ \A i \in 1..Len(BuiltIn) : BuiltIn[i] \in Drv
  /\ \A i, j \in 1..Len(BuiltIn) : BuiltIn[i] = BuiltIn[j] => i = j
<1>1. BuiltIn \in Seq(Drv)
  BY BootAssumption
<1> QED
  BY <1>1, BootAssumption

LEMMA RegisterFacts ==
  ASSUME ListInv, registered < Len(BuiltIn), registered' = registered + 1,
         driver_register(BuiltIn[registered + 1])
  PROVE  ListInv'
<1> DEFINE n == registered
           d == BuiltIn[n + 1]
<1>1. n \in Nat /\ n + 1 \in 1..Len(BuiltIn) /\ n' = n + 1 /\ d \in Drv
  BY BuiltInFacts DEF ListInv
<1>2. drv_next \in [Drv -> Drv \cup {NoDriver}] /\ drv_tail' = d
      /\ drv_head' = IF drv_head = NoDriver THEN d ELSE drv_head
  BY DEF ListInv, driver_register
<1>3. n' \in 0..Len(BuiltIn) /\ n' > 0
  BY <1>1
<1> DEFINE cut == [drv_next EXCEPT ![d] = NoDriver]
<1>4. drv_next' = IF drv_head = NoDriver THEN cut ELSE [cut EXCEPT ![drv_tail] = d]
  BY DEF driver_register
<1>5. CASE n = 0
  <2>1. drv_head = NoDriver
    BY <1>5 DEF ListInv
  <2>2. drv_next' = cut /\ drv_head' = d
    BY <1>2, <1>4, <2>1
  <2>3. /\ drv_next' \in [Drv -> Drv \cup {NoDriver}]
        /\ drv_next'[d] = NoDriver
    <3> HIDE DEF d
    <3> QED
      BY <1>1, <1>2, <2>2
  <2>4. d = BuiltIn[1] /\ d = BuiltIn[n']
    BY <1>1, <1>5
  <2>5. \A k \in 1..(n' - 1) : FALSE
    BY <1>1, <1>5
  <2> QED
    BY <1>2, <1>3, <2>2, <2>3, <2>4, <2>5 DEF ListInv
<1>6. CASE n # 0
  <2>1. /\ n > 0 /\ n \in 1..Len(BuiltIn) /\ 1 \in 1..Len(BuiltIn)
    BY <1>1, <1>6, BuiltInFacts
  <2>2. /\ drv_head = BuiltIn[1] /\ drv_tail = BuiltIn[n]
        /\ \A k \in 1..(n - 1) : drv_next[BuiltIn[k]] = BuiltIn[k + 1]
    BY <2>1 DEF ListInv
  <2>3. drv_head \in Drv /\ drv_tail \in Drv /\ drv_head # NoDriver /\ drv_tail # d
    <3>1. n # n + 1
      BY <1>1
    <3> QED
      BY <1>1, <2>1, <2>2, <3>1, BuiltInFacts, DriverAssumption
  <2>4. drv_next' = [cut EXCEPT ![drv_tail] = d] /\ drv_head' = drv_head
    BY <1>2, <1>4, <2>3
  <2>5. /\ drv_next' \in [Drv -> Drv \cup {NoDriver}]
        /\ drv_next'[d] = NoDriver /\ drv_next'[drv_tail] = d
        /\ \A e \in Drv : e # d /\ e # drv_tail => drv_next'[e] = drv_next[e]
    <3> HIDE DEF d
    <3> QED
      BY <1>1, <1>2, <2>3, <2>4
  <2>6. ASSUME NEW k \in 1..(n' - 1) PROVE drv_next'[BuiltIn[k]] = BuiltIn[k + 1]
    <3>1. CASE k = n
      BY <2>2, <2>5, <3>1
    <3>2. CASE k # n
      <4>1. k \in 1..(n - 1) /\ k \in 1..Len(BuiltIn) /\ k # n + 1
        BY <1>1, <3>2
      <4>2. BuiltIn[k] \in Drv /\ BuiltIn[k] # d /\ BuiltIn[k] # drv_tail
        BY <1>1, <2>1, <2>2, <3>2, <4>1, BuiltInFacts
      <4> QED
        BY <2>2, <2>5, <4>1, <4>2
    <3> QED
      BY <3>1, <3>2
  <2>7. d = BuiltIn[n']
    BY <1>1
  <2> QED
    <3>1. /\ drv_head' = BuiltIn[1] /\ drv_tail' = BuiltIn[n']
          /\ drv_next'[BuiltIn[n']] = NoDriver
          /\ n' # 0
      BY <1>1, <1>2, <2>2, <2>4, <2>5, <2>7
    <3> HIDE DEF d
    <3> QED
      BY <1>3, <2>5, <2>6, <3>1 DEF ListInv
<1> QED
  BY <1>5, <1>6

(* One round of driver_init_all. *)
LEMMA WalkFacts ==
  ASSUME ListInv, registered = Len(BuiltIn), initialised \in Seq(Drv),
         NEW w \in 0..Len(BuiltIn), WalkedPast(w), driver_init_all
  PROVE  /\ initialised' \in Seq(Drv)
         /\ w + 1 \in 0..Len(BuiltIn) /\ WalkedPast(w + 1)'
<1> DEFINE n == Len(BuiltIn)
           d == BuiltIn[w + 1]
<1>1. n \in Nat /\ w \in 0..n /\ w # n /\ walk = d
  BY BuiltInFacts DEF WalkedPast, driver_init_all
<1>2. w + 1 \in 1..n /\ w + 1 \in 0..n /\ w + 1 \in Nat
  BY <1>1
<1>3. d \in Drv
  BY <1>2, BuiltInFacts
<1>4. /\ initialised' = IF d \in HasInit THEN Append(initialised, d) ELSE initialised
      /\ walk' = drv_next[d]
  BY <1>1 DEF driver_init_all
<1>5. walk' = IF w + 1 = n THEN NoDriver ELSE BuiltIn[w + 2]
  <2>1. n > 0 /\ registered = n
    BY <1>1
  <2>2. CASE w + 1 = n
    BY <1>4, <2>1, <2>2 DEF ListInv
  <2>3. CASE w + 1 # n
    <3>1. w + 1 \in 1..(n - 1) /\ (w + 1) + 1 = w + 2
      BY <1>1, <1>2, <2>3
    <3>2. drv_next[BuiltIn[w + 1]] = BuiltIn[(w + 1) + 1]
      BY <2>1, <3>1 DEF ListInv
    <3> QED
      BY <1>4, <2>3, <3>1, <3>2
  <2> QED
    BY <2>2, <2>3
<1>6. \A i \in 1..n : i <= w + 1 <=> i <= w \/ i = w + 1
  BY <1>1
<1>7. IsSelection(initialised, BuiltIn, WithInit(w))
  BY DEF WalkedPast
<1>8. initialised' \in Seq(Drv) /\ IsSelection(initialised', BuiltIn, WithInit(w + 1))
  <2>1. CASE d \in HasInit
    <3>1. WithInit(w + 1) = WithInit(w) \cup {w + 1}
      BY <1>2, <1>6, <2>1 DEF WithInit
    <3>2. WithInit(w) \subseteq Nat /\ \A i \in WithInit(w) : i < w + 1
      BY <1>1 DEF WithInit
    <3>3. IsSelection(Append(initialised, d), BuiltIn, WithInit(w) \cup {w + 1})
      BY <1>2, <1>3, <1>7, <3>2, SelectAppend
    <3>4. Append(initialised, d) \in Seq(Drv)
      <4> HIDE DEF d
      <4> QED
        BY <1>3, AppendProperties
    <3> QED
      BY <1>4, <2>1, <3>1, <3>3, <3>4
  <2>2. CASE d \notin HasInit
    <3>1. WithInit(w + 1) = WithInit(w)
      BY <1>6, <2>2 DEF WithInit
    <3> QED
      BY <1>4, <1>7, <2>2, <3>1
  <2> QED
    BY <2>1, <2>2
<1>9. WalkedPast(w + 1)'
  <2>1. (w + 1) + 1 = w + 2
    BY <1>1
  <2> QED
    BY <1>5, <1>8, <2>1 DEF WalkedPast, WithInit
<1> QED
  BY <1>2, <1>8, <1>9
-----------------------------------------------------------------------------
(* Power off.                                                              *)

Fadts == {k \in 1..Len(acpi_tables) : IsFadt(acpi_tables[k])}
LastPorts == PortsOf(acpi_tables[CHOOSE k \in Fadts : \A l \in Fadts : l <= k])
ChipsetPort(r) == IF Fadts = {} \/ LastPorts[r] = 0 THEN DefaultFadt[r] ELSE LastPorts[r]

Register == {"pm1a", "pm1b"}

(* Every register has a default. *)
LEMMA DefaultFacts ==
  /\ DefaultFadt \in Ports
  /\ \A r \in Register : DefaultFadt[r] # 0
<1>1. 1540 \in PortNumber /\ 45060 \in PortNumber
  BY DEF PortNumber
<1> QED
  BY <1>1 DEF DefaultFadt, Ports, Register

(* What kernel_shutdown uses is what PowerOffReachesChipset expects. *)
LEMMA PowerPortsFacts ==
  ASSUME AcpiInv, acpi_pc = "done", NEW r \in Register
  PROVE  PowerPorts[r] = ChipsetPort(r) /\ PowerPorts[r] # 0
<1>1. CASE fadt_table = None
  <2>1. HasRoot /\ KeptSoFar /\ Searched
    BY <1>1, DefaultFacts, AcpiAssumption DEF AcpiInv
  <2>2. Fadts = {}
    <3>1. ASSUME NEW k \in 1..Len(acpi_tables), fadt_table = PortsOf(acpi_tables[k])
          PROVE  FALSE
      <4>1. acpi_tables[k] \in UsableTable
        BY DEF AcpiInv
      <4>2. PortsOf(acpi_tables[k]) \in Ports
        BY <2>1, <4>1, PortsFacts DEF UsableTable
      <4> QED
        BY <1>1, <3>1, <4>2, AcpiAssumption
    <3> QED
      BY <2>1, <3>1 DEF KeptSoFar, FadtIsLast, Fadts
  <2> QED
    BY <1>1, <2>2, DefaultFacts DEF PowerPorts, ChipsetPort
<1>2. CASE fadt_table # None
  <2>1. PowerPorts[r] = IF fadt_table[r] # 0 THEN fadt_table[r] ELSE DefaultFadt[r]
    BY <1>2 DEF PowerPorts, Register
  <2>2. CASE ~HasRoot
    <3>1. acpi_tables = <<>> /\ fadt_table = DefaultFadt
      BY <2>2 DEF AcpiInv
    <3>2. Fadts = {}
      <4>1. Len(acpi_tables) = 0
        BY <3>1, EmptySeq
      <4> QED
        BY <4>1 DEF Fadts
    <3> QED
      BY <2>1, <3>1, <3>2, DefaultFacts DEF ChipsetPort
  <2>3. CASE HasRoot
    <3>1. KeptSoFar
      BY <2>3 DEF AcpiInv
    <3>2. PICK k \in Fadts : (\A l \in Fadts : l <= k) /\ fadt_table = PortsOf(acpi_tables[k])
      BY <1>2, <3>1 DEF KeptSoFar, FadtIsLast, Fadts
    <3>3. Fadts \subseteq Nat
      BY DEF Fadts
    <3>4. \A j \in Fadts : (\A l \in Fadts : l <= j) => j = k
      BY <3>2, <3>3
    <3>5. LastPorts = fadt_table
      BY <3>2, <3>4 DEF LastPorts
    <3> QED
      BY <2>1, <3>2, <3>5, DefaultFacts DEF ChipsetPort
  <2> QED
    BY <2>2, <2>3
<1> QED
  BY <1>1, <1>2
-----------------------------------------------------------------------------
(* The whole of the boot.                                                  *)

BeforeScan == {"load", "disk_error", "paging", "gui_init", "count_cores"}
AfterInit == {"running", "halted", "rebooting", "off"}
AfterScan == {"register", "driver_init_all"} \cup AfterInit

BootInv ==
  /\ pc \in Stages \cup Stopped
  /\ mapped \subseteq {0, 1} \cup LeftOver
  /\ pc \notin {"load", "disk_error", "paging"} => {0, 1} \subseteq mapped
  /\ pc \in BeforeScan => answers = <<>>
  /\ Len(answers) <= Functions
  /\ pc = "inventory_gather" => Len(answers) # Functions
  /\ pc \in BeforeScan \cup {"inventory_gather"} => acpi_pc = "scan"
  /\ pc = "acpi_init" => acpi_pc # "done"
  /\ pc \in AfterScan => acpi_pc = "done"
  /\ ParserReadsMapped
  /\ initialised \in Seq(Drv)
  /\ pc \notin AfterInit \cup {"driver_init_all"} => walk = NoDriver /\ initialised = <<>>
  /\ pc = "driver_init_all" =>
       registered = Len(BuiltIn) /\ \E w \in 0..Len(BuiltIn) : WalkedPast(w)
  /\ pc \in AfterInit => WalkedPast(Len(BuiltIn))
  /\ PowerOffReachesChipset

IInv == BootInv /\ AcpiInv /\ InventoryInv /\ ListInv

(* What excuses a fault of the parser. *)
CutOff ==
  \E addr \in {sdt} \cup {EntryAt(k) : k \in 1..entry} : Usable(addr) /\ ~LiesWithin(addr)

(* The two gigabytes that the loader maps are the memory below the limit.  *)
LEMMA BelowLimit ==
  ASSUME NEW byte \in Nat, byte < 2 * GIB, {0, 1} \subseteq mapped
  PROVE  Mapped(byte)
<1>1. GIB \in Nat \ {0}
  BY AcpiAssumption
<1>2. byte \div GIB \in {0, 1}
  <2>1. CASE byte < GIB
    BY <1>1, <2>1
  <2>2. CASE byte >= GIB
    BY <1>1, <2>2
  <2> QED
    BY <1>1, <2>1, <2>2
<1> QED
  BY <1>2 DEF Mapped

(* A list that lies within and is not shorter than a header holds all the  *)
(* entries that are counted.                                               *)
LEMMA EntryWithin ==
  ASSUME Searched, HasRoot, NEW k \in 1..EntryCount, LiesWithin(sdt),
         NEW byte \in Bytes(sdt + HEADER_SIZE + EntrySize * (k - 1), EntrySize)
  PROVE  byte \in Nat /\ byte < 2 * GIB
<1> DEFINE length == TableAt(sdt).length
           left == (length - HEADER_SIZE) \div EntrySize
<1>1. /\ sdt \in Nat /\ length \in Nat /\ sdt + length <= 2 * GIB /\ length >= 36
      /\ GIB \in Nat \ {0} /\ HEADER_SIZE = 36 /\ EntryCount \in Nat /\ k \in Nat /\ k >= 1
  BY RootFacts, TableFacts, EntriesFacts, AcpiAssumption
     DEF HasRoot, LiesWithin, HEADER_SIZE, PM1A_OFFSET
<1> HIDE DEF length
<1>2. EntrySize \in {4, 8}
  BY DEF EntrySize
<1>3. left \in 0..(4 * GIB - 1) /\ EntrySize * left <= length - 36
  BY <1>1, <1>2
<1>4. EntryCount = left
  <2> DEFINE n == 4 * GIB
  <2>1. EntryCount = left % n /\ n \in Nat \ {0}
    BY <1>1 DEF EntryCount, length
  <2>2. left \in 0..(n - 1) /\ left \in Int
    BY <1>1, <1>3
  <2> HIDE DEF left, n
  <2> QED
    BY <2>1, <2>2, Remainder
<1> HIDE DEF left
<1>5. EntrySize * k <= length - 36
  <2>1. k <= left /\ left \in Nat
    BY <1>3, <1>4
  <2> QED
    BY <1>1, <1>2, <1>3, <2>1
<1>6. EntrySize * (k - 1) = EntrySize * k - EntrySize /\ EntrySize * (k - 1) \in Nat
  BY <1>1, <1>2
<1>7. byte \in Int /\ byte >= sdt + 36 /\ byte < sdt + 36 + EntrySize * k
  BY <1>1, <1>2, <1>6 DEF Bytes
<1> QED
  BY <1>1, <1>2, <1>5, <1>7

(* The parser meets memory that is not mapped only behind a table that is  *)
(* cut off.                                                                *)
LEMMA CutOffFacts ==
  ASSUME AcpiInv, {0, 1} \subseteq mapped, NEW byte \in acpi_reads, ~Mapped(byte)
  PROVE  CutOff
<1>1. byte \in Nat => byte >= 2 * GIB
  BY BelowLimit, AcpiAssumption
<1>2. ASSUME NEW addr \in Nat, LiesWithin(addr), Searched,
             byte \in Bytes(addr, 8)
      PROVE  FALSE
  <2>1. /\ TableAt(addr).length \in Nat /\ addr + TableAt(addr).length <= 2 * GIB
        /\ TableAt(addr).length >= 36
    BY <1>2, TableFacts DEF LiesWithin, HEADER_SIZE, PM1A_OFFSET
  <2> QED
    BY <1>1, <1>2, <2>1, AcpiAssumption DEF Bytes
<1>3. CASE acpi_pc = "root" /\ rsdp # None /\ sdt # NullTable
  <2>1. Searched
    BY <1>3 DEF AcpiInv
  <2>2. sdt \in Nat /\ Usable(sdt)
    BY <1>3, <2>1, RootFacts
  <2>3. byte \in Bytes(sdt, 8)
    <3>1. byte \in Bytes(sdt, IF HasRoot THEN 8 ELSE 4)
      BY <1>3 DEF acpi_reads
    <3> QED
      BY <2>2, <3>1 DEF Bytes
  <2> QED
    BY <1>2, <2>1, <2>2, <2>3 DEF CutOff
<1>4. CASE acpi_pc = "entries" /\ InLoop
  <2> DEFINE addr == EntryAt(entry)
  <2>1. Searched /\ HasRoot /\ KeptSoFar
    BY <1>4 DEF AcpiInv, KeptSoFar
  <2>2. EntryCount \in Nat /\ entry \in 1..EntryCount /\ entry \in 1..entry
    BY <1>4, <2>1, EntriesFacts DEF KeptSoFar, InLoop
  <2>3. addr \in Nat /\ sdt \in Nat /\ Usable(sdt)
    BY <2>1, <2>2, EntriesFacts, RootFacts DEF HasRoot
  <2>4. \/ byte \in Bytes(sdt + HEADER_SIZE + EntrySize * (entry - 1), EntrySize)
        \/ Usable(addr) /\ byte \in Bytes(addr, 4)
        \/ Usable(addr) /\ IsFadt(addr) /\ byte \in Bytes(addr + PM1A_OFFSET, 8)
    BY <1>4 DEF acpi_reads
  <2>5. CASE byte \in Bytes(sdt + HEADER_SIZE + EntrySize * (entry - 1), EntrySize)
    <3>1. ASSUME LiesWithin(sdt) PROVE FALSE
      <4>1. byte \in Nat /\ byte < 2 * GIB
        BY <2>1, <2>2, <2>5, <3>1, EntryWithin
      <4> QED
        BY <1>1, <4>1, AcpiAssumption
    <3> QED
      BY <2>3, <3>1 DEF CutOff
  <2>6. ASSUME Usable(addr), ~LiesWithin(addr) PROVE CutOff
    BY <2>2, <2>6 DEF CutOff
  <2>7. CASE Usable(addr) /\ byte \in Bytes(addr, 4)
    <3>1. byte \in Bytes(addr, 8)
      <4> HIDE DEF addr
      <4> QED
        BY <2>3, <2>7 DEF Bytes
    <3> QED
      BY <1>2, <2>1, <2>3, <2>6, <2>7, <3>1
  <2>8. CASE Usable(addr) /\ IsFadt(addr) /\ byte \in Bytes(addr + PM1A_OFFSET, 8)
    <3>1. ASSUME LiesWithin(addr) PROVE FALSE
      <4>1. TableAt(addr).length \in Nat /\ addr + TableAt(addr).length <= 2 * GIB
            /\ TableAt(addr).length >= 72
        BY <2>1, <2>8, <3>1, TableFacts DEF LiesWithin, PM1A_OFFSET
      <4> HIDE DEF addr
      <4> QED
        BY <1>1, <2>3, <2>8, <4>1, AcpiAssumption DEF Bytes, PM1A_OFFSET
    <3> QED
      BY <2>6, <2>8, <3>1
  <2> QED
    BY <2>4, <2>5, <2>7, <2>8
<1> QED
  BY <1>3, <1>4 DEF acpi_reads

LEMMA CutOffUnchanged ==
  ASSUME UNCHANGED acpiVars
  PROVE  CutOff' <=> CutOff
<1>1. sdt' = sdt /\ entry' = entry
  BY DEF acpiVars, sdt, use_xsdt
<1>2. \A addr : TableAt(addr)' = TableAt(addr)
  BY DEF acpiVars, TableAt
<1>3. \A k : EntryAt(k)' = EntryAt(k)
  BY <1>1, <1>2 DEF acpiVars, EntryAt, Word, use_xsdt
<1>4. \A addr : LiesWithin(addr)' <=> LiesWithin(addr)
  BY <1>2 DEF LiesWithin, IsFadt
<1> QED
  BY <1>1, <1>3, <1>4 DEF CutOff, Usable

LEMMA FunctionsFacts == Functions \in Nat \ {0}
<1>1. BUSES \in Nat \ {0} /\ DEVS \in Nat \ {0} /\ FUNCS \in Nat \ {0}
  BY InventoryAssumption
<1>2. \A a, b \in Nat \ {0} : a * b \in Nat \ {0}
  OBVIOUS
<1> QED
  BY <1>1, <1>2 DEF Functions

LEMMA DriverUnchanged ==
  ASSUME ListInv, UNCHANGED <<registered, driverVars>>
  PROVE  ListInv'
  BY DEF ListInv, driverVars

LEMMA InventoryUnchanged ==
  ASSUME InventoryInv, UNCHANGED inventoryVars
  PROVE  InventoryInv'
<1>1. UNCHANGED <<cpu_cores, answers, pci_devices, pci_list>>
  BY DEF inventoryVars
<1>2. InfoListsDevices'
  BY <1>1 DEF InventoryInv, InfoListsDevices, show_info
<1> QED
  BY <1>1, <1>2 DEF InventoryInv

(* The rest of BootInv in a step that does not end the session. *)
LEMMA NotOff ==
  ASSUME pc' # "off"
  PROVE  PowerOffReachesChipset'
  BY DEF PowerOffReachesChipset

LEMMA NotFaulted ==
  ASSUME pc' # "fault" \/ acpi_pc' = "scan"
  PROVE  ParserReadsMapped'
  BY DEF ParserReadsMapped, ParserFaulted

LEMMA BootInitFacts == Init => IInv
<1> SUFFICES ASSUME Init PROVE IInv
  OBVIOUS
<1>1. AcpiInv
  BY AcpiInitFacts DEF Init
<1>2. InventoryInv /\ answers = <<>>
  BY InventoryInitFacts DEF Init
<1>3. ListInv
  BY BuiltInFacts DEF Init, DriverInit, ListInv
<1>4. Len(answers) <= Functions
  BY <1>2, EmptySeq, FunctionsFacts
<1>5. initialised \in Seq(Drv) /\ initialised = <<>> /\ walk = NoDriver
  BY EmptySeq DEF Init, DriverInit
<1>6. pc = "load" /\ mapped = {} /\ acpi_pc = "scan"
  BY DEF Init, AcpiInit
<1>7. PowerOffReachesChipset
  BY <1>6 DEF PowerOffReachesChipset
<1>8. BootInv
  <2>1. ParserReadsMapped
    BY <1>6 DEF ParserReadsMapped, ParserFaulted
  <2> QED
    BY <1>2, <1>4, <1>5, <1>6, <1>7, <2>1
       DEF BootInv, Stages, BeforeScan, AfterScan, AfterInit
<1> QED
  BY <1>1, <1>2, <1>3, <1>8 DEF IInv

(* The steps before the scan touch none of the tables. *)
LEMMA EarlyFacts ==
  ASSUME IInv, pc \in BeforeScan, pc' \in BeforeScan \cup {"fault"},
         UNCHANGED <<registered, acpiVars, inventoryVars, driverVars>>,
         mapped' \subseteq {0, 1} \cup LeftOver,
         pc' \notin {"load", "disk_error", "paging"} => {0, 1} \subseteq mapped'
  PROVE  IInv'
<1>1. AcpiInv'
  BY AcpiUnchanged DEF IInv
<1>2. InventoryInv'
  BY InventoryUnchanged DEF IInv
<1>3. ListInv'
  BY DriverUnchanged DEF IInv
<1>4. /\ answers' = answers /\ acpi_pc' = acpi_pc /\ walk' = walk /\ initialised' = initialised
  BY DEF inventoryVars, acpiVars, driverVars
<1>5. PowerOffReachesChipset'
  BY NotOff DEF BeforeScan
<1>6. ParserReadsMapped'
  BY <1>4, NotFaulted DEF IInv, BootInv
<1>7. BootInv'
  BY <1>4, <1>5, <1>6 DEF IInv, BootInv, BeforeScan, AfterScan, AfterInit, Stages, Stopped
<1> QED
  BY <1>1, <1>2, <1>3, <1>7 DEF IInv

LEMMA CountCoresFacts ==
  ASSUME IInv, CountCores
  PROVE  IInv'
<1>1. pc = "count_cores" /\ answers = <<>> /\ pc' = "inventory_gather"
  BY DEF CountCores, IInv, BootInv, BeforeScan
<1>2. UNCHANGED <<mapped, registered, out, acpiVars, driverVars>>
  BY DEF CountCores
<1>3. InventoryInv' /\ answers' = answers
  BY <1>1, StartGatherFacts DEF CountCores, StartGather, IInv
<1>4. AcpiInv' /\ ListInv'
  BY <1>2, AcpiUnchanged, DriverUnchanged DEF IInv
<1>5. acpi_pc' = acpi_pc /\ walk' = walk /\ initialised' = initialised
  BY <1>2 DEF acpiVars, driverVars
<1>6. Len(answers') # Functions
  BY <1>1, <1>3, EmptySeq, FunctionsFacts
<1>7. PowerOffReachesChipset' /\ ParserReadsMapped'
  BY <1>1, NotOff, NotFaulted
<1>8. BootInv'
  BY <1>1, <1>2, <1>3, <1>5, <1>6, <1>7 DEF IInv, BootInv, BeforeScan, AfterScan, AfterInit, Stages
<1> QED
  BY <1>3, <1>4, <1>8 DEF IInv

LEMMA GatherInventoryFacts ==
  ASSUME IInv, GatherInventory
  PROVE  IInv'
<1>1. pc = "inventory_gather" /\ Len(answers) <= Functions /\ Len(answers) # Functions
  BY DEF GatherInventory, IInv, BootInv
<1>2. UNCHANGED <<mapped, registered, out, acpiVars, driverVars>>
      /\ pc' = IF Len(answers') = Functions THEN "acpi_init" ELSE pc
  BY DEF GatherInventory
<1>3. InventoryInv' /\ Len(answers') = Len(answers) + 1
  BY GatherFacts DEF GatherInventory, IInv
<1>4. Len(answers') <= Functions
  <2>1. Len(answers) \in Nat
    BY DEF IInv, InventoryInv
  <2> QED
    BY <1>1, <1>3, <2>1, FunctionsFacts
<1>5. AcpiInv' /\ ListInv'
  BY <1>2, AcpiUnchanged, DriverUnchanged DEF IInv
<1>6. acpi_pc' = acpi_pc /\ walk' = walk /\ initialised' = initialised
  BY <1>2 DEF acpiVars, driverVars
<1>7. pc' \in {"inventory_gather", "acpi_init"}
  BY <1>1, <1>2
<1>8. PowerOffReachesChipset' /\ ParserReadsMapped'
  BY <1>7, NotOff, NotFaulted
<1>9. BootInv'
  BY <1>1, <1>2, <1>4, <1>6, <1>7, <1>8 DEF IInv, BootInv, BeforeScan, AfterScan, AfterInit, Stages
<1> QED
  BY <1>3, <1>5, <1>9 DEF IInv

LEMMA ParseAcpiFacts ==
  ASSUME IInv, ParseAcpi
  PROVE  IInv'
<1>1. pc = "acpi_init" /\ acpi_pc # "done" /\ {0, 1} \subseteq mapped
  BY DEF ParseAcpi, IInv, BootInv
<1>2. UNCHANGED <<mapped, registered, out, inventoryVars, driverVars>>
  BY DEF ParseAcpi
<1>3. InventoryInv' /\ ListInv'
  BY <1>2, InventoryUnchanged, DriverUnchanged DEF IInv
<1>4. answers' = answers /\ walk' = walk /\ initialised' = initialised
  BY <1>2 DEF inventoryVars, driverVars
<1>5. CASE acpi_init /\ pc' = IF acpi_pc' = "done" THEN "register" ELSE pc
  <2>1. AcpiInv'
    BY <1>5, AcpiFacts DEF IInv
  <2>2. pc' \in {"acpi_init", "register"}
    BY <1>1, <1>5
  <2>3. PowerOffReachesChipset' /\ ParserReadsMapped'
    BY <2>2, NotOff, NotFaulted
  <2>4. BootInv'
    BY <1>1, <1>2, <1>4, <1>5, <2>2, <2>3
       DEF IInv, BootInv, BeforeScan, AfterScan, AfterInit, Stages
  <2> QED
    BY <1>3, <2>1, <2>4 DEF IInv
<1>6. CASE pc' = "fault" /\ UNCHANGED acpiVars /\ \E byte \in acpi_reads : ~Mapped(byte)
  <2>1. AcpiInv'
    BY <1>6, AcpiUnchanged DEF IInv
  <2>2. CutOff
    BY <1>1, <1>6, CutOffFacts DEF IInv
  <2>3. ParserReadsMapped'
    BY <1>6, <2>2, CutOffUnchanged DEF ParserReadsMapped, CutOff
  <2>4. PowerOffReachesChipset'
    BY <1>6, NotOff
  <2>5. BootInv'
    BY <1>1, <1>2, <1>4, <1>6, <2>3, <2>4
       DEF IInv, BootInv, BeforeScan, AfterScan, AfterInit, Stopped
  <2> QED
    BY <1>3, <2>1, <2>5 DEF IInv
<1> QED
  BY <1>5, <1>6 DEF ParseAcpi

LEMMA RegisterDriverFacts ==
  ASSUME IInv, RegisterDriver
  PROVE  IInv'
<1>1. pc = "register" /\ UNCHANGED <<mapped, out, acpiVars, inventoryVars>>
  BY DEF RegisterDriver
<1>2. AcpiInv' /\ InventoryInv'
  BY <1>1, AcpiUnchanged, InventoryUnchanged DEF IInv
<1>3. answers' = answers /\ acpi_pc' = acpi_pc
  BY <1>1 DEF acpiVars, inventoryVars
<1>4. CASE registered < Len(BuiltIn)
  <2>1. /\ registered' = registered + 1 /\ driver_register(BuiltIn[registered + 1])
        /\ pc' = pc
    BY <1>4, BuiltInFacts DEF RegisterDriver, IInv, ListInv
  <2>2. ListInv'
    BY <1>4, <2>1, RegisterFacts DEF IInv
  <2>3. walk' = walk /\ initialised' = initialised
    BY <2>1 DEF driver_register
  <2>4. PowerOffReachesChipset' /\ ParserReadsMapped'
    BY <1>1, <2>1, NotOff, NotFaulted
  <2>5. BootInv'
    BY <1>1, <1>3, <2>1, <2>3, <2>4 DEF IInv, BootInv, BeforeScan, AfterScan, AfterInit
  <2> QED
    BY <1>2, <2>2, <2>5 DEF IInv
<1>5. CASE ~(registered < Len(BuiltIn))
  <2>1. /\ registered = Len(BuiltIn) /\ registered' = registered
        /\ StartWalk /\ pc' = "driver_init_all"
    BY <1>5 DEF RegisterDriver
  <2>2. /\ walk' = drv_head /\ initialised' = initialised /\ initialised = <<>>
        /\ UNCHANGED <<drv_head, drv_tail, drv_next>>
    BY <1>1, <2>1 DEF StartWalk, IInv, BootInv, AfterInit
  <2>3. ListInv'
    BY <2>1, <2>2 DEF IInv, ListInv
  <2>4. WalkedPast(0)'
    <3>1. WithInit(0)' = {}
      BY DEF WithInit
    <3>2. IsSelection(initialised', BuiltIn, {})
      BY <2>2, SelectEmpty
    <3>3. drv_head = IF 0 = Len(BuiltIn) THEN NoDriver ELSE BuiltIn[1]
      BY <2>1, BuiltInFacts DEF IInv, ListInv
    <3>4. 0 + 1 = 1
      OBVIOUS
    <3>5. walk' = IF 0 = Len(BuiltIn) THEN NoDriver ELSE BuiltIn[0 + 1]
      BY <2>2, <3>3, <3>4
    <3> QED
      BY <3>1, <3>2, <3>5 DEF WalkedPast
  <2>5. \E w \in 0..Len(BuiltIn) : WalkedPast(w)'
    BY <2>4, BuiltInFacts
  <2>6. PowerOffReachesChipset' /\ ParserReadsMapped'
    BY <2>1, NotOff, NotFaulted
  <2>7. BootInv'
    BY <1>1, <1>3, <2>1, <2>2, <2>5, <2>6 DEF IInv, BootInv, BeforeScan, AfterScan, AfterInit, Stages
  <2> QED
    BY <1>2, <2>3, <2>7 DEF IInv
<1> QED
  BY <1>4, <1>5

LEMMA InitDriversFacts ==
  ASSUME IInv, InitDrivers
  PROVE  IInv'
<1>1. pc = "driver_init_all" /\ UNCHANGED <<mapped, registered, out, acpiVars, inventoryVars>>
  BY DEF InitDrivers
<1>2. AcpiInv' /\ InventoryInv'
  BY <1>1, AcpiUnchanged, InventoryUnchanged DEF IInv
<1>3. answers' = answers /\ acpi_pc' = acpi_pc
  BY <1>1 DEF acpiVars, inventoryVars
<1>4. PICK w \in 0..Len(BuiltIn) : WalkedPast(w)
  BY <1>1 DEF IInv, BootInv
<1>5. registered = Len(BuiltIn)
  BY <1>1 DEF IInv, BootInv
<1>6. CASE driver_init_all /\ pc' = pc
  <2>1. /\ initialised' \in Seq(Drv) /\ w + 1 \in 0..Len(BuiltIn) /\ WalkedPast(w + 1)'
    BY <1>4, <1>5, <1>6, WalkFacts DEF IInv, BootInv
  <2>2. ListInv'
    BY <1>1, <1>6 DEF IInv, ListInv, driver_init_all
  <2>3. PowerOffReachesChipset' /\ ParserReadsMapped'
    BY <1>1, <1>6, NotOff, NotFaulted
  <2>4. BootInv'
    BY <1>1, <1>3, <1>5, <1>6, <2>1, <2>3 DEF IInv, BootInv, BeforeScan, AfterScan, AfterInit
  <2> QED
    BY <1>2, <2>2, <2>4 DEF IInv
<1>7. CASE walk = NoDriver /\ pc' = "running" /\ UNCHANGED driverVars
  <2>1. w = Len(BuiltIn)
    <3>1. ASSUME w # Len(BuiltIn) PROVE FALSE
      <4>1. w + 1 \in 1..Len(BuiltIn)
        BY <3>1, BuiltInFacts
      <4> QED
        BY <1>4, <1>7, <3>1, <4>1, BuiltInFacts, DriverAssumption DEF WalkedPast
    <3> QED
      BY <3>1
  <2>2. walk' = walk /\ initialised' = initialised
    BY <1>7 DEF driverVars
  <2>3. WalkedPast(Len(BuiltIn))'
    BY <1>4, <2>1, <2>2 DEF WalkedPast, WithInit
  <2>4. ListInv'
    BY <1>1, <1>7, DriverUnchanged DEF IInv
  <2>5. PowerOffReachesChipset' /\ ParserReadsMapped'
    BY <1>7, NotOff, NotFaulted
  <2>6. BootInv'
    BY <1>1, <1>3, <1>7, <2>2, <2>3, <2>5 DEF IInv, BootInv, BeforeScan, AfterScan, AfterInit, Stages
  <2> QED
    BY <1>2, <2>4, <2>6 DEF IInv
<1> QED
  BY <1>6, <1>7 DEF InitDrivers

(* The commands: only power off has to be looked at. *)
LEMMA CommandFacts ==
  ASSUME IInv, NEW last \in {"halted", "rebooting", "off"}, NEW writes,
         Command(last, writes),
         last = "off" => PowerOffReachesChipset'
  PROVE  IInv'
<1>1. pc = "running" /\ pc' = last /\ UNCHANGED <<mapped, registered, acpiVars, inventoryVars, driverVars>>
  BY DEF Command
<1>2. AcpiInv' /\ InventoryInv' /\ ListInv'
  BY <1>1, AcpiUnchanged, InventoryUnchanged, DriverUnchanged DEF IInv
<1>3. answers' = answers /\ acpi_pc' = acpi_pc /\ walk' = walk /\ initialised' = initialised
  BY <1>1 DEF acpiVars, inventoryVars, driverVars
<1>4. PowerOffReachesChipset' /\ ParserReadsMapped'
  BY <1>1, NotOff, NotFaulted
<1>5. WalkedPast(Len(BuiltIn))'
  BY <1>1, <1>3 DEF IInv, BootInv, AfterInit, WalkedPast, WithInit
<1>6. BootInv'
  BY <1>1, <1>3, <1>4, <1>5 DEF IInv, BootInv, BeforeScan, AfterScan, AfterInit, Stages, Stopped
<1> QED
  BY <1>2, <1>6 DEF IInv

LEMMA ShutdownFacts ==
  ASSUME IInv, kernel_shutdown
  PROVE  PowerOffReachesChipset'
<1>1. /\ pc = "running" /\ pc' = "off" /\ UNCHANGED acpiVars
      /\ out' = {<<PowerPorts[r], SLP_EN>> : r \in {q \in Register : PowerPorts[q] # 0}}
  BY DEF kernel_shutdown, Command, Register
<1>2. acpi_pc = "done"
  BY <1>1 DEF IInv, BootInv, AfterScan, AfterInit
<1>3. \A r \in Register : PowerPorts[r] = ChipsetPort(r) /\ PowerPorts[r] # 0
  BY <1>2, PowerPortsFacts DEF IInv
<1>4. out' = {<<ChipsetPort("pm1a"), SLP_EN>>, <<ChipsetPort("pm1b"), SLP_EN>>}
  BY <1>1, <1>3 DEF Register
<1>5. acpi_tables' = acpi_tables /\ firmware' = firmware
  BY <1>1 DEF acpiVars
<1>6. ChipsetPort("pm1a")' = ChipsetPort("pm1a") /\ ChipsetPort("pm1b")' = ChipsetPort("pm1b")
  BY <1>5 DEF ChipsetPort, Fadts, LastPorts, IsFadt, PortsOf, TableAt
<1>7. out' = {<<ChipsetPort("pm1a")', SLP_EN>>, <<ChipsetPort("pm1b")', SLP_EN>>}
  BY <1>4, <1>6
<1> QED
  BY <1>7 DEF PowerOffReachesChipset, ChipsetPort, Fadts, LastPorts

LEMMA StutterFacts ==
  ASSUME IInv, UNCHANGED vars
  PROVE  IInv'
<1>1. UNCHANGED <<pc, mapped, registered, out, acpiVars, inventoryVars, driverVars>>
  BY DEF vars
<1>2. AcpiInv' /\ InventoryInv' /\ ListInv'
  BY <1>1, AcpiUnchanged, InventoryUnchanged, DriverUnchanged DEF IInv
<1>3. /\ answers' = answers /\ acpi_pc' = acpi_pc /\ walk' = walk /\ initialised' = initialised
      /\ acpi_tables' = acpi_tables /\ firmware' = firmware
  BY <1>1 DEF acpiVars, inventoryVars, driverVars
<1>4. PowerOffReachesChipset'
  <2>1. ChipsetPort("pm1a")' = ChipsetPort("pm1a") /\ ChipsetPort("pm1b")' = ChipsetPort("pm1b")
    BY <1>3 DEF ChipsetPort, Fadts, LastPorts, IsFadt, PortsOf, TableAt
  <2>2. pc = "off" => out = {<<ChipsetPort("pm1a"), SLP_EN>>, <<ChipsetPort("pm1b"), SLP_EN>>}
    BY DEF IInv, BootInv, PowerOffReachesChipset, ChipsetPort, Fadts, LastPorts
  <2>3. pc' = "off" => out' = {<<ChipsetPort("pm1a")', SLP_EN>>, <<ChipsetPort("pm1b")', SLP_EN>>}
    BY <1>1, <2>1, <2>2
  <2> QED
    BY <2>3 DEF PowerOffReachesChipset, ChipsetPort, Fadts, LastPorts
<1>5. \A w : WalkedPast(w)' <=> WalkedPast(w)
  BY <1>3 DEF WalkedPast, WithInit
<1>6. ParserReadsMapped'
  <2>1. pc' = pc /\ acpi_pc' = acpi_pc /\ (CutOff' <=> CutOff)
    BY <1>1, <1>3, CutOffUnchanged
  <2> QED
    BY <2>1 DEF IInv, BootInv, ParserReadsMapped, ParserFaulted, CutOff
<1>7. BootInv'
  BY <1>1, <1>3, <1>4, <1>5, <1>6 DEF IInv, BootInv
<1> QED
  BY <1>2, <1>7 DEF IInv

LEMMA NextFacts == IInv /\ [Next]_vars => IInv'
<1> SUFFICES ASSUME IInv, [Next]_vars PROVE IInv'
  OBVIOUS
<1>1. CASE LoadKernel
  <2>1. /\ pc = "load" /\ pc' \in {"paging", "disk_error"}
        /\ UNCHANGED <<mapped, registered, acpiVars, inventoryVars, driverVars>>
    BY <1>1 DEF LoadKernel
  <2> QED
    BY <2>1, EarlyFacts DEF IInv, BootInv, BeforeScan
<1>2. CASE EnterLongMode
  <2>1. /\ pc = "paging" /\ pc' = "gui_init"
        /\ UNCHANGED <<registered, acpiVars, inventoryVars, driverVars>>
    BY <1>2 DEF EnterLongMode
  <2>2. mapped' \subseteq {0, 1} \cup LeftOver /\ {0, 1} \subseteq mapped'
    BY <1>2 DEF EnterLongMode
  <2> QED
    BY <2>1, <2>2, EarlyFacts DEF BeforeScan
<1>3. CASE gui_init
  <2>1. /\ pc = "gui_init" /\ pc' \in {"count_cores", "fault"}
        /\ UNCHANGED <<mapped, registered, acpiVars, inventoryVars, driverVars>>
    BY <1>3 DEF gui_init
  <2> QED
    BY <2>1, EarlyFacts DEF IInv, BootInv, BeforeScan
<1>4. CASE CountCores
  BY <1>4, CountCoresFacts
<1>5. CASE GatherInventory
  BY <1>5, GatherInventoryFacts
<1>6. CASE ParseAcpi
  BY <1>6, ParseAcpiFacts
<1>7. CASE RegisterDriver
  BY <1>7, RegisterDriverFacts
<1>8. CASE InitDrivers
  BY <1>8, InitDriversFacts
<1>9. CASE kernel_halt
  BY <1>9, CommandFacts DEF kernel_halt
<1>10. CASE kernel_reboot
  BY <1>10, CommandFacts DEF kernel_reboot
<1>11. CASE kernel_shutdown
  BY <1>11, CommandFacts, ShutdownFacts DEF kernel_shutdown
<1>12. CASE UNCHANGED vars
  BY <1>12, StutterFacts
<1> QED
  BY <1>1, <1>2, <1>3, <1>4, <1>5, <1>6, <1>7, <1>8, <1>9, <1>10, <1>11, <1>12
     DEF Next, BootStep

LEMMA Inductive == Spec => []IInv
<1> QED
  BY BootInitFacts, NextFacts, PTL DEF Spec
-----------------------------------------------------------------------------
(* The counters and lists of the boot stay within their arrays. *)
THEOREM Types == Spec => []TypeOK
<1>1. IInv => TypeOK
  <2> SUFFICES ASSUME IInv PROVE TypeOK
    OBVIOUS
  <2>1. acpi_tables \in Seq(Nat) /\ Len(acpi_tables) <= MAX_ACPI_TABLES
    <3>1. acpi_tables \in Seq(UsableTable) /\ Len(acpi_tables) <= MAX_ACPI_TABLES
      BY DEF IInv, AcpiInv
    <3>2. acpi_tables \in [1..Len(acpi_tables) -> UsableTable] /\ Len(acpi_tables) \in Nat
      BY <3>1, LenProperties
    <3>3. acpi_tables \in [1..Len(acpi_tables) -> Nat]
      BY <3>2 DEF UsableTable
    <3> QED
      BY <3>1, <3>2, <3>3, FunctionIsSeq
  <2>2. pci_devices \in 0..Functions
    <3>1. pci_devices \in Nat /\ pci_devices <= Len(answers) /\ Len(answers) <= Functions
          /\ Len(answers) \in Nat
      BY DEF IInv, InventoryInv, BootInv
    <3> QED
      BY <3>1, FunctionsFacts
  <2>3. {drv_head, drv_tail} \subseteq Drv \cup {NoDriver}
    <3>1. CASE registered = 0
      BY <3>1 DEF IInv, ListInv
    <3>2. CASE registered # 0
      <4>1. registered > 0 /\ registered \in 1..Len(BuiltIn) /\ 1 \in 1..Len(BuiltIn)
        BY <3>2, BuiltInFacts DEF IInv, ListInv
      <4> QED
        BY <4>1, BuiltInFacts DEF IInv, ListInv
    <3> QED
      BY <3>1, <3>2
  <2>4. walk \in Drv \cup {NoDriver}
    <3>1. ASSUME NEW w \in 0..Len(BuiltIn), WalkedPast(w) PROVE walk \in Drv \cup {NoDriver}
      <4>1. w # Len(BuiltIn) => w + 1 \in 1..Len(BuiltIn)
        BY BuiltInFacts
      <4> QED
        BY <3>1, <4>1, BuiltInFacts DEF WalkedPast
    <3>2. Len(BuiltIn) \in 0..Len(BuiltIn)
      BY BuiltInFacts
    <3> QED
      BY <3>1, <3>2 DEF IInv, BootInv
  <2>5. /\ pc \in Stages \cup Stopped /\ mapped \subseteq {0, 1} \cup LeftOver
        /\ registered \in 0..Len(BuiltIn) /\ drv_next \in [Drv -> Drv \cup {NoDriver}]
        /\ acpi_pc \in {"scan", "root", "entries", "done"} /\ entry \in Nat
        /\ cpu_cores \in Word16 /\ DOMAIN pci_list = 0..(MAX_INVENTORY_PCI - 1)
    BY DEF IInv, BootInv, AcpiInv, InventoryInv, ListInv
  <2> QED
    BY <2>1, <2>2, <2>3, <2>4, <2>5 DEF TypeOK
<1> QED
  BY <1>1, Inductive, PTL

(* The bytes that the ACPI parser reads, of headers, entries and FADTs,    *)
(* are mapped, whatever the firmware left in memory, as long as the tables *)
(* it comes by end below the limit and are as long as their kind.          *)
THEOREM OnlyMappedReads == Spec => []ParserReadsMapped
<1>1. IInv => ParserReadsMapped
  BY DEF IInv, BootInv
<1> QED
  BY <1>1, Inductive, PTL

(* acpi_init keeps exactly the usable tables of the firmware's list that   *)
(* fit the array, in order, and a FADT that the lookup finds was parsed.   *)
THEOREM ParserKeepsTables == Spec => []TablesAsListed
<1>1. IInv => TablesAsListed
  BY AcpiResult DEF IInv
<1> QED
  BY <1>1, Inductive, PTL

(* kernel_shutdown writes the sleep command to the ports of the last FADT, *)
(* or to the defaults.                                                     *)
THEOREM PowerOff == Spec => []PowerOffReachesChipset
<1>1. IInv => PowerOffReachesChipset
  BY DEF IInv, BootInv
<1> QED
  BY <1>1, Inductive, PTL

(* At every point of the scan `info' would list the first functions that   *)
(* answered, as many as fit, each with its own bus and identifiers.        *)
THEOREM DeviceList == Spec => []InfoListsDevices
<1>1. IInv => InfoListsDevices
  BY DEF IInv, InventoryInv
<1> QED
  BY <1>1, Inductive, PTL

(* Every driver with an init is initialised once, in order of registration.*)
THEOREM DriverOrder == Spec => []DriversInitialisedInOrder
<1>1. IInv => DriversInitialisedInOrder
  <2> SUFFICES ASSUME IInv, pc = "running" PROVE DriversInitialisedInOrder
    BY DEF DriversInitialisedInOrder
  <2>1. IsSelection(initialised, BuiltIn, WithInit(Len(BuiltIn)))
    BY DEF IInv, BootInv, AfterInit, WalkedPast
  <2>2. WithInit(Len(BuiltIn)) = {i \in 1..Len(BuiltIn) : BuiltIn[i] \in HasInit}
    BY BuiltInFacts DEF WithInit
  <2> QED
    BY <2>1, <2>2 DEF DriversInitialisedInOrder
<1> QED
  BY <1>1, Inductive, PTL
=============================================================================

-------------------------------- MODULE Boot --------------------------------
(***************************************************************************)
(* From the boot sector to the running shell and to the commands that end  *)
(* it: src/boot/bootloader.asm, src/kernel/entry.asm, the calls of         *)
(* kernel_init (src/kernel/init.c) that meet hardware or firmware, and     *)
(* src/kernel/power.c.  The calls of kernel_init whose state is in other   *)
(* modules (memory, console, panes, files, scheduler) touch only memory    *)
(* below one gigabyte and are not steps here.                              *)
(*                                                                         *)
(* Nothing else runs meanwhile, so that pc says where the processor is.    *)
(***************************************************************************)
EXTENDS Acpi, Inventory, Driver, Selection, FiniteSets

CONSTANTS
  BuiltIn,    \* the drivers registered, in order: <<keyboard>> in the code
  LeftOver    \* gigabytes that uncleared entries of the page table may map

ASSUME BootAssumption ==
  /\ BuiltIn \in Seq(Drv)
  /\ \A i, j \in 1..Len(BuiltIn) : BuiltIn[i] = BuiltIn[j] => i = j
  /\ LeftOver \subseteq 2..511

VARIABLES
  pc,
  mapped,      \* the gigabytes that the page tables map
  registered,  \* how many of the built-in drivers are registered
  out          \* the ports written by a power command, with their values

vars == <<pc, mapped, registered, out, acpiVars, inventoryVars, driverVars>>

Init ==
  /\ pc = "load"
  /\ mapped = {}
  /\ registered = 0
  /\ out = {}
  /\ AcpiInit /\ InventoryInit /\ DriverInit

(* The BIOS reads the sectors of the kernel; if it fails the loader prints *)
(* a message and hangs.                                                    *)
LoadKernel ==
  /\ pc = "load"
  /\ pc' \in {"paging", "disk_error"}
  /\ UNCHANGED <<mapped, registered, out, acpiVars, inventoryVars, driverVars>>

(* Fault: only the first page directory is entered. *)
EnterLongMode_OneDirectory ==
  /\ pc = "paging"
  /\ \E left \in SUBSET LeftOver : mapped' = {0} \cup left
  /\ pc' = "gui_init"
  /\ UNCHANGED <<registered, out, acpiVars, inventoryVars, driverVars>>

(* Two page directories of a gigabyte each are built and entered in pdpt;  *)
(* its other entries are not cleared and hold what memory held.  Then the  *)
(* loader jumps to the kernel, and kmain calls kernel_init.                *)
EnterLongMode ==
  /\ pc = "paging"
  /\ \E left \in SUBSET LeftOver : mapped' = {0, 1} \cup left
  /\ pc' = "gui_init"
  /\ UNCHANGED <<registered, out, acpiVars, inventoryVars, driverVars>>

FRAMEBUFFER_GIB == 3  \* FRAMEBUFFER_ADDR is 0xE0000000

(* gui_init clears the framebuffer.  A page fault finds no handler: the    *)
(* kernel never loads an interrupt table.                                  *)
gui_init ==
  /\ pc = "gui_init"
  /\ pc' = IF FRAMEBUFFER_GIB \in mapped THEN "count_cores" ELSE "fault"
  /\ UNCHANGED <<mapped, registered, out, acpiVars, inventoryVars, driverVars>>

CountCores ==
  /\ pc = "count_cores"
  /\ \E ebx \in Cpuid : StartGather(ebx)
  /\ pc' = "inventory_gather"
  /\ UNCHANGED <<mapped, registered, out, acpiVars, driverVars>>

GatherInventory ==
  /\ pc = "inventory_gather"
  /\ \E h \in Header : inventory_gather(h)
  /\ pc' = IF Len(answers') = Functions THEN "acpi_init" ELSE pc
  /\ UNCHANGED <<mapped, registered, out, acpiVars, driverVars>>

Mapped(addr) == addr \div GIB \in mapped

(* acpi_init runs as far as what it reads is mapped. *)
ParseAcpi ==
  /\ pc = "acpi_init"
  /\ \/ /\ \A addr \in acpi_reads : Mapped(addr)
        /\ acpi_init
        /\ pc' = IF acpi_pc' = "done" THEN "register" ELSE pc
     \/ /\ \E addr \in acpi_reads : ~Mapped(addr)
        /\ pc' = "fault"
        /\ UNCHANGED acpiVars
  /\ UNCHANGED <<mapped, registered, out, inventoryVars, driverVars>>

RegisterDriver ==
  /\ pc = "register"
  /\ \/ /\ registered < Len(BuiltIn)
        /\ registered' = registered + 1
        /\ driver_register(BuiltIn[registered + 1])
        /\ UNCHANGED pc
     \/ /\ registered = Len(BuiltIn)
        /\ StartWalk
        /\ pc' = "driver_init_all"
        /\ UNCHANGED registered
  /\ UNCHANGED <<mapped, out, acpiVars, inventoryVars>>

InitDrivers ==
  /\ pc = "driver_init_all"
  /\ \/ driver_init_all /\ UNCHANGED pc
     \/ walk = NoDriver /\ pc' = "running" /\ UNCHANGED driverVars
  /\ UNCHANGED <<mapped, registered, out, acpiVars, inventoryVars>>

(* The three commands that end the session; none of them returns. *)
Command(last, writes) ==
  /\ pc = "running"
  /\ pc' = last
  /\ out' = writes
  /\ UNCHANGED <<mapped, registered, acpiVars, inventoryVars, driverVars>>

kernel_halt == Command("halted", {})
kernel_reboot == Command("rebooting", {<<100, 254>>})  \* port 0x64, value 0xFE

SLP_EN == 8192  \* 0x2000; the sleep types in fadt_data are always 0

(* Fault: a table without ports is taken at its word. *)
PowerPorts_NoDefault == IF fadt_table = None THEN DefaultFadt ELSE fadt_table

(* Where the sleep command goes: the default stands in for a register that *)
(* is missing, and for both if there is no table.                          *)
PowerPorts ==
  IF fadt_table = None THEN DefaultFadt
  ELSE [r \in {"pm1a", "pm1b"} |-> IF fadt_table[r] # 0 THEN fadt_table[r] ELSE DefaultFadt[r]]

kernel_shutdown ==
  Command("off", {<<PowerPorts[r], SLP_EN>> : r \in {q \in {"pm1a", "pm1b"} : PowerPorts[q] # 0}})

BootStep ==
  \/ LoadKernel \/ EnterLongMode \/ gui_init
  \/ CountCores \/ GatherInventory \/ ParseAcpi \/ RegisterDriver \/ InitDrivers

Next == BootStep \/ kernel_halt \/ kernel_reboot \/ kernel_shutdown

(* The processor runs on while it boots.  Nothing is assumed of the user.  *)
Spec == Init /\ [][Next]_vars /\ WF_vars(BootStep)
-----------------------------------------------------------------------------
Stages == {"load", "paging", "gui_init", "count_cores", "inventory_gather", "acpi_init",
           "register", "driver_init_all", "running"}
Stopped == {"disk_error", "fault", "halted", "rebooting", "off"}

(* Type correctness; the counters and lists stay within their arrays. *)
TypeOK ==
  /\ pc \in Stages \cup Stopped
  /\ mapped \subseteq {0, 1} \cup LeftOver
  /\ registered \in 0..Len(BuiltIn)
  /\ acpi_pc \in {"scan", "root", "entries", "done"}
  /\ entry \in Nat
  /\ acpi_tables \in Seq(Nat) /\ Len(acpi_tables) <= MAX_ACPI_TABLES
  /\ cpu_cores \in Word16
  /\ pci_devices \in 0..Functions
  /\ DOMAIN pci_list = 0..(MAX_INVENTORY_PCI - 1)
  /\ {drv_head, drv_tail, walk} \subseteq Drv \cup {NoDriver}
  /\ drv_next \in [Drv -> Drv \cup {NoDriver}]

(* A table lies in the two gigabytes that the loader maps, as far as its   *)
(* own length goes, and is at least as long as its kind.                   *)
LiesWithin(addr) ==
  /\ addr + TableAt(addr).length <= 2 * GIB
  /\ TableAt(addr).length >= IF IsFadt(addr) THEN PM1A_OFFSET + 8 ELSE HEADER_SIZE

ParserFaulted == pc = "fault" /\ acpi_pc # "scan"

(* The parser reads no memory that is not mapped, unless a table on its    *)
(* way is cut off: the limit in acpi.c and the page directories of the     *)
(* loader agree, and the entries counted are within the length.            *)
ParserReadsMapped ==
  ParserFaulted =>
    \E addr \in {sdt} \cup {EntryAt(k) : k \in 1..entry} : Usable(addr) /\ ~LiesWithin(addr)

Listed == {k \in 1..EntryCount : Usable(EntryAt(k))}

(* After acpi_init the array holds the tables that the firmware lists and  *)
(* that begin below the limit in acpi.c, in order and no other, up to the  *)
(* size of the array, although some entries were skipped; a FADT that the  *)
(* lookup finds was parsed.  Without a list the defaults stand in.         *)
TablesAsListed ==
  acpi_pc = "done" =>
    IF HasRoot
    THEN /\ SelectsFirst(acpi_tables, [k \in 1..EntryCount |-> EntryAt(k)], Listed,
                         MAX_ACPI_TABLES)
         /\ acpi_get_table("FACP") # NullTable => fadt_table # None
    ELSE acpi_tables = <<>> /\ fadt_table = DefaultFadt

(* Three promises of the documents about the parser, which acpi.c does not *)
(* keep: "Should any required table be missing the routine falls back to   *)
(* defaults" (acpi_parser_stub.txt:9), "accepts any table address below    *)
(* 0x40000000" (line 16), where the first gigabyte ends, and "All          *)
(* discovered table headers are kept" (power_management/overview.txt:12).  *)
DefaultsWhenFadtMissing == fadt_table # None
TablesInFirstGigabyte == \A k \in 1..Len(acpi_tables) : acpi_tables[k] < GIB
AllTablesKept ==
  HasRoot => \A k \in Listed : \E l \in 1..Len(acpi_tables) : acpi_tables[l] = EntryAt(k)

(* When acpi_init returns its result is what the documents say. *)
ParserAsDocumented ==
  acpi_pc = "done" => DefaultsWhenFadtMissing /\ TablesInFirstGigabyte /\ AllTablesKept

(* Power off "continues to work" (power_management/overview.txt) whatever  *)
(* the firmware has: the command goes to the registers of the last FADT    *)
(* among the tables, and to QEMU's where it names none or there is none.   *)
PowerOffReachesChipset ==
  LET fadts == {k \in 1..Len(acpi_tables) : IsFadt(acpi_tables[k])}
      named == PortsOf(acpi_tables[CHOOSE k \in fadts : \A l \in fadts : l <= k])
      Port(r) == IF fadts = {} \/ named[r] = 0 THEN DefaultFadt[r] ELSE named[r]
  IN  pc = "off" => out = {<<Port("pm1a"), SLP_EN>>, <<Port("pm1b"), SLP_EN>>}

(* At every point of the scan the counter is the number of functions that  *)
(* answered, and `info' lists the first of them, each with its own bus and *)
(* identifiers, up to the size of the arrays and not beyond.               *)
InfoListsDevices ==
  LET present == {n \in 1..Len(answers) : Present(answers[n])}
      records == [n \in 1..Len(answers) |-> Record(BusOf(n - 1), answers[n])]
  IN  /\ pci_devices = Cardinality(present)
      /\ Len(show_info) <= MAX_INVENTORY_PCI
      /\ SelectsFirst(show_info, records, present, MAX_INVENTORY_PCI)

(* When the boot is over every driver that has an init was initialised,    *)
(* once, "in the order that drivers register" (driver_initialization.txt). *)
DriversInitialisedInOrder ==
  pc = "running" =>
    IsSelection(initialised, BuiltIn, {i \in 1..Len(BuiltIn) : BuiltIn[i] \in HasInit})

(* The loops of the boot end: the shell runs, or the machine has stopped   *)
(* with an error.                                                          *)
BootEnds == <>(pc \in {"running"} \cup Stopped)

(* "LifeOS currently boots into a basic terminal" (README.md): once the    *)
(* kernel is loaded, the shell runs in the end.                            *)
BootsIntoTerminal == (pc = "paging") ~> (pc = "running")
=============================================================================

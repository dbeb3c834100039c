----------------------------- MODULE Inventory ------------------------------
(***************************************************************************)
(* The scan of the PCI buses, src/kernel/inventory/inventory.c with        *)
(* src/hal/pci.h, one function of a device per step, and what the command  *)
(* `info' lists of it.  The size of memory is a fixed number in the code.  *)
(*                                                                         *)
(* A 32-bit word is a pair of its upper and lower 16 bits; a header gives  *)
(* the words of configuration space at the offsets 0 and 8.                *)
(***************************************************************************)
EXTENDS Integers, Sequences

CONSTANTS
  BUSES, DEVS, FUNCS,  \* 256, 32 and 8 in the code
  MAX_INVENTORY_PCI,   \* 256 in the code
  Header,              \* external: the headers a function may answer with
  Cpuid                \* external: what EBX may hold for the leaves 11 and 1

WORD == 65536  \* values of a 16-bit field
Word16 == 0..(WORD - 1)

ASSUME InventoryAssumption ==
  /\ {BUSES, DEVS, FUNCS, MAX_INVENTORY_PCI} \subseteq Nat \ {0}
  /\ Header \subseteq [{0, 8} -> Word16 \X Word16]
  /\ Cpuid \subseteq [{11, 1} -> Word16 \X Word16]

VARIABLES
  cpu_cores,
  answers,      \* history: the headers of the functions probed so far
  pci_devices,  \* the counter
  pci_list      \* the arrays pci_bus, pci_class, ...: one entry for an index

inventoryVars == <<cpu_cores, answers, pci_devices, pci_list>>

Functions == BUSES * DEVS * FUNCS

(* The bus of the n-th function probed, from 0. *)
BusOf(n) == n \div (DEVS * FUNCS)

Upper(word) == word[1]
Lower(word) == word[2]

hal_pci_class_code(h) == Upper(h[8]) \div 256
hal_pci_subclass_code(h) == Upper(h[8]) % 256
hal_pci_vendor_id(h) == Lower(h[0])
hal_pci_device_id(h) == Upper(h[0])

Present(h) == Lower(h[0]) # 65535

Record(bus, h) ==
  [bus |-> bus, class |-> hal_pci_class_code(h), subclass |-> hal_pci_subclass_code(h),
   vendor |-> hal_pci_vendor_id(h), device |-> hal_pci_device_id(h)]

(* Entries that were not set yet hold what memory held. *)
Garbage == [bus |-> 0, class |-> 0, subclass |-> 0, vendor |-> 0, device |-> 0]

InventoryInit ==
  /\ cpu_cores = 0
  /\ answers = <<>>
  /\ pci_devices = 0
  /\ pci_list = [i \in 0..(MAX_INVENTORY_PCI - 1) |-> Garbage]

(* Leaf 11 if it has something to say, otherwise leaf 1. *)
hal_cpu_core_count(ebx) ==
  LET count == IF ebx[11] # <<0, 0>> THEN Lower(ebx[11]) ELSE Upper(ebx[1]) % 256
  IN  IF ebx[11] = <<0, 0>> /\ count = 0 THEN 1 ELSE count

StartGather(ebx) ==
  /\ cpu_cores' = hal_cpu_core_count(ebx)
  /\ pci_devices' = 0
  /\ UNCHANGED <<answers, pci_list>>

(* Fault: when the arrays are full their last entry is overwritten. *)
inventory_gather_LastReused(h) ==
  /\ answers' = Append(answers, h)
  /\ UNCHANGED cpu_cores
  /\ \/ ~Present(h) /\ UNCHANGED <<pci_devices, pci_list>>
     \/ /\ Present(h)
        /\ pci_list' = [pci_list EXCEPT
             ![IF pci_devices < MAX_INVENTORY_PCI THEN pci_devices ELSE MAX_INVENTORY_PCI - 1] =
               Record(BusOf(Len(answers)), h)]
        /\ pci_devices' = pci_devices + 1

(* One iteration of the inner loop, at a function that has header h. *)
inventory_gather(h) ==
  /\ answers' = Append(answers, h)
  /\ UNCHANGED cpu_cores
  /\ \/ ~Present(h) /\ UNCHANGED <<pci_devices, pci_list>>
     \/ /\ Present(h)
        /\ pci_list' = IF pci_devices < MAX_INVENTORY_PCI
                       THEN [pci_list EXCEPT ![pci_devices] = Record(BusOf(Len(answers)), h)]
                       ELSE pci_list
        /\ pci_devices' = pci_devices + 1

(* The lines that show_info prints about devices. *)
show_info ==
  [k \in 1..(IF pci_devices < MAX_INVENTORY_PCI THEN pci_devices ELSE MAX_INVENTORY_PCI) |->
     pci_list[k - 1]]
=============================================================================

------------------------------- MODULE Memory -------------------------------
(***************************************************************************)
(* The physical page allocator, src/kernel/mm/mm.c.  Addresses are bytes.  *)
(* The allocator is a single bump pointer: it never frees and never looks  *)
(* at how much memory there is.                                            *)
(***************************************************************************)
EXTENDS Integers

CONSTANTS
  PAGE_SIZE,  \* bytes per page, 4096 in the code
  KernelEnd   \* the linker symbol `end': first byte after the kernel image

ASSUME MemoryAssumption ==
  /\ PAGE_SIZE \in Nat \ {0}
  /\ KernelEnd \in Nat \ {0}

VARIABLE next_free_page

(* The four paging structures that bootloader.asm builds and loads in CR3: *)
(* pml4 at 0x8000, pdpt at 0x9000, pd at 0xA000 and pd2 at 0xB000.         *)
PageTablesStart == 32768
PageTablesEnd == 49152

(* The lowest address mm_init lets the allocator start from, 0xB000. *)
AllocFloor == 45056

(* x & ~(PAGE_SIZE - 1): the low bits of x cleared. *)
PageAlign(x) == x - (x % PAGE_SIZE)

RoundUpToPage(a) == PageAlign(a + PAGE_SIZE - 1)

FirstPage ==
  IF RoundUpToPage(KernelEnd) < AllocFloor THEN AllocFloor
                                           ELSE RoundUpToPage(KernelEnd)

mm_init == next_free_page = FirstPage

(* The page that the n-th page_alloc of a handler returns (n = 0 first),   *)
(* and the pointer after n calls.                                          *)
Page(n) == next_free_page + n * PAGE_SIZE

(* Fault: only the first of a handler's calls advances the pointer. *)
page_alloc_AdvancedOnce(n) == next_free_page' = next_free_page + PAGE_SIZE

page_alloc(n) == next_free_page' = next_free_page + n * PAGE_SIZE
=============================================================================

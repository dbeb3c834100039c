# LifeOS in TLA+

LifeOS is a small x86_64 kernel: a boot loader, a bump allocator for pages, a
cooperative scheduler, a text console with scrollback, a shell, a grid of
panes, a PS/2 keyboard driver, an in-memory file table, and some hardware
discovery. This directory models its state machines, checks them with TLC on
small instances and proves the scheduler, the console, the panes, the shell, the
input ring, the file table, the boot and the GUI's line for every size.

Source paths below are relative to the repository's `src/` directory (in
`PROJECT.json` they are relative to the directory above it, hence `src/src/...`);
`Documentation/` and `tests/` are at the top of the repository. Addresses are
those of the image as the Makefile links it (`end` = 0x1C0C4).

## The system and its parts

| Part | State | Operations | Interacts with |
|---|---|---|---|
| Page allocator, `kernel/mm/mm.c` | `next_free_page` | `mm_init`, `page_alloc` | the scheduler takes two pages per task; the boot loader's page tables lie at 0x8000-0xBFFF |
| Scheduler, `kernel/sched/` | linked list of `struct task`, `current_task`, the CPU's stack pointer | `sched_create_task`, `sched_add_task`, `sched_yield`, `sched_start`, `context_switch` | every task calls `sched_yield`; there is no preemption and no interrupt handler |
| Console output, `kernel/console/console.c` | `screen_buffer`, scrollback ring, VGA memory, cursor, view offset | `console_putc`, `console_write`, `console_clear`, `console_set_cursor`, `console_draw_quadrants` | written by everything that prints |
| Console input, same file | ring `input_buf`, latched `ctrl` | `console_poll_input`, `console_getc` | reads the keyboard; moves the view and the panes; feeds the shell |
| Shell and parser, `shell.c`, `cmd.c` | `cmd_buf`, history ring, position of the prompt | `shell_task`, `shell_show_prompt`, `console_execute_command` | console, panes, power |
| Panes, `kernel/hmi/pane.c` | grid size, active pane | resize, move, start, stop, draw | redraws the console, restarts the shell's line |
| Keyboard, `drivers/keyboard/` | `have_e0` | `keyboard_read_char` | the controller's bytes |
| GUI line, `gui/gui.c`, `gui/framebuffer.c` | `input_buf`, `input_len`, the picture | `gui_handle_key`, `redraw`, `gui_task` | reads the same keyboard, draws into the framebuffer |
| Tasks, `kernel/main.c` | the three endless loops | `kmain` | all of the above |
| File table, `kernel/fs/fs.c` | 16 slots of name, data, size, used | `fs_create` ... `fs_rename` | no caller in the kernel; `tests/` call it |
| ACPI and power, `kernel/acpi/`, `kernel/power.c` | the FADT found, list of tables | `acpi_init`, `acpi_get_table`, `kernel_shutdown` | firmware memory, ports |
| Inventory, `kernel/inventory/` | PCI functions found | `inventory_gather` | PCI configuration space |
| Driver list, `kernel/driver/` | linked list of drivers | `driver_register`, `driver_init_all` | the keyboard registers itself |
| Boot, `boot/bootloader.asm`, `kernel/entry.asm`, `kernel/init.c` | page tables, memory map | loading, long mode, `kernel_init` | everything |
| System calls, HAL | - | dispatcher without caller; port access | - |

What is hard here. Nothing runs in parallel, but tasks interleave at every
`sched_yield`, and one key travels through several of them: controller, driver
(one byte per call), ring, shell, screen. The same screen is kept three times
(`screen_buffer`, VGA memory, scrollback) and moved by hand; two rings wrap;
the shell remembers where on the screen its prompt was while other code clears
and scrolls it. Memory is handed out without a limit, next to page tables. The
loader does not clear `.bss`. `PROJECT.json` lists these hazards line by line.

What makes each part correct:

- allocator: pages are fresh, above the image and off the page tables (the last
  only because of the image's size);
- scheduler: the list holds the added tasks in order, a task resumes where it
  yielded on its own stack, nobody is skipped or starved;
- console: the display is the right window on everything printed;
- input ring: a bounded first-in first-out queue;
- shell: a line editor with a history, whose line is what the screen shows;
- panes: the grid fills the screen and the prompt is in the active pane;
- keyboard and GUI: the line is what was typed, the picture is that line, and
  all bytes are read;
- file table: a name leads to its file, and a file holds what was written to it;
- ACPI and power: only mapped memory is read as long as no table is cut off, the
  tables kept are those listed, and power off reaches the registers of the
  machine, whatever is missing;
- inventory: what `info` lists are the functions that answered;
- drivers: each is initialised once, in the order of registration;
- boot: every loop ends, and the shell runs.

## Modules

| Module | Models | State and actions |
|---|---|---|
| `Memory` | `mm.c` | the bump pointer in bytes; `page_alloc(n)` is n calls in one handler |
| `Scheduler` | `sched.c`, `context_switch.asm` | a task is the address of its structure, 0 is NULL; `sp` and `next` are the structure's fields, a function from addresses. A saved stack pointer is the pair of its stack and a depth. One action per function; `sched_yield` contains the context switch |
| `RoundRobin` | - | abstract: ready tasks take turns, none is skipped |
| `SchedulerProofs` | - | theorems about `Scheduler` |
| `InputRing` | ring of `console.c` | `input_buf`, `input_head`, `input_tail`; the storing end of `console_poll_input`, and `console_getc` |
| `InputQueue`, `InputRingProofs` | - | abstract bounded queue; theorems |
| `Console` | output of `console.c` | the console is a record and every C function an operator on records, so that callers compose them as the code does |
| `ConsoleCalls` | the console among its callers | any caller prints, clears, moves the cursor or draws, the user presses Ctrl and arrows |
| `Terminal`, `ConsoleProofs` | - | abstract: a paper roll seen through a window; theorems |
| `Pane` | `pane.c` | the grid as a record; `compute_layout` for one direction at a time; `DrawGrid` draws through `console_putc`, one recursive function for each loop |
| `PaneCalls` | the panes among their callers | every key and call that changes the grid, in any order, each with its redraw and prompt |
| `Shell` | `shell.c`, `cmd.c` | a record `ui` of console, panes and shell; one operator per key |
| `LineEditor` | - | abstract: text before and after a cursor, recent commands; `Hmi` has the mapping to it |
| `Hmi` | composition | `console_poll_input` (all branches), the ring, `shell_task`; the two are separate steps |
| `HmiProofs` | - | theorems about `PaneCalls` and `Hmi` |
| `Keys`, `Keyboard` | `keyboard.h`, `keyboard.c` | characters are signed; one byte of the controller per call |
| `Framebuffer` | `framebuffer.c`, `redraw` of `gui.c` | a picture maps words to colours; drawing is an operator on pictures, with the clipping of `fb_draw_pixel` |
| `Kernel` | `main.c`, `gui.c`, composition | `kmain`, one iteration of each task per step, scheduling by `RoundRobin`, the keyboard, the ring, the GUI's line and picture, and a user who presses and releases keys. The history variable `typed` is the line that the keys pressed so far should leave, key by key |
| `KernelProofs` | - | theorems about `Kernel` |
| `FileSystem` | `fs.c` | the table; a `struct file *` is a slot; a name has a stored form of 31 characters |
| `FileSystemProofs` | - | theorems about `FileSystem` |
| `Acpi` | `acpi.c` | what the firmware left in memory is chosen when the search begins; one step per entry of the list of tables. Addresses are bytes, and `acpi_reads` are those of the tables that the next step reads |
| `Inventory` | `inventory.c`, `pci.h`, `cpu.h`, `show_info` | one PCI function per step; a 32-bit word is the pair of its halves |
| `Driver` | `driver.c` | the list through `next`, and one driver per step of `driver_init_all` |
| `Boot` | `bootloader.asm`, `init.c`, `power.c`, composition | `pc` is the stage of the boot; the gigabytes mapped, a fault where the parser leaves them, the calls of `kernel_init` that meet firmware or hardware in the code's order, then the three power commands |
| `Selection`, `SelectionProofs` | - | what a loop leaves that keeps some elements of a list in an array: the elements at increasing positions, up to where the array was full; lemmas |
| `BootProofs` | - | theorems about `Boot` |
| `MC...` | - | instances: constants, and properties that need them |

A whole call between two yields is one step, because nothing can run in
between. Operators named `..._Something` that stand under a comment beginning
with "Fault" are deliberately wrong variants of the definition that follows;
replacing the definition by the variant must make the named property fail
(`PROJECT.json`, `mutants`). They are not part of any specification.

Composition: `Scheduler` refines `RoundRobin`, and `Kernel` schedules by
`RoundRobin`. `Kernel` and `Hmi` both instantiate `InputRing`. `Hmi` contains
`Console`, `Pane` and `Shell`, and refines `LineEditor`. `Boot` extends `Acpi`, `Inventory` and `Driver`
and gives their steps a place in the boot.

`Kernel` is the system as `kmain` starts it, in which no task calls
`console_poll_input`. `Hmi` is the text interface as its functions are written:
its environment polls at any time, as the documentation says the idle task does.

## Runs

| Run | Result | What it shows |
|---|---|---|
| `scheduler` | pass | run queue, stacks, pages, resumption, refinement of `RoundRobin`, no starvation |
| `input_ring` | pass | the ring is a bounded queue |
| `console` | pass | the console implements the paper roll; the hardware cursor is in step |
| `panes` | pass | layout, drawing and prompt for every grid and active pane |
| `hmi` | pass | the shell is a line editor with history and the screen shows its line, under editing, commands, scrolling and pane keys, with a key waiting in the ring |
| `hmi_long_line` | violation | a line that reaches the right edge: the cursor is put on the prompt, in the row that is full |
| `kernel` | pass | the GUI's line is what was typed; the picture is that line, whole, in the middle, and nothing else; every byte is read |
| `kernel_shell` | violation | no key reaches the shell |
| `file_system` | pass | content is what was last written, over uncleared memory and with stale pointers; names lead to their files, as long as names were short and none was created twice |
| `boot` | pass | reads are mapped unless a table is cut off; tables, ports, devices and drivers are those of the machine; the boot ends |
| `boot_documents` | violation | three tables in a list, room for two, no FADT among them: `acpi_get_fadt` is null where the document promises defaults, a table above 0x40000000 is taken, the third is not kept |
| `boot_terminal` | violation | `gui_init` writes to unmapped memory before there is a shell |

The violations are disagreements between the code and its own comments or
documents; `PROJECT.json`, `findings`, quotes both sides. More were met
while modelling. The modules have them as the code has them, without a run:
`console_putc` extends the sign of a character above 127 before it adds the
colour, so that the dividers of the panes get attribute 0xFF (`CharCell`);
`fs_create` makes a second file of a name in use (the history variable `careful`
says whether a caller did so, and `NamesIdentifyFiles` speaks of those who did not); `fs_rename` compares the whole
new name but stores 31 characters of it, so that it can give a file the name of
another; a file created with a name of more than 31 characters is not found by that
name again, although `api_usage.txt` says that existing files can be reopened;
`gui start` shows the prompt twice, once from `pane_draw` and once from the shell.

- The floor of `mm_init`. The comment in `mm.c` says that for an image which ends below
  0xB000 that floor keeps pages off the page tables, but 0xB000 is itself the last of
  them. The image as it is linked ends at 0x1C0C4 and does not take the branch, so
  that a run with it could only repeat `TaskMemoryPrivate`. The theorem
  `OnlyImageSparesTables` has every image.
- Tables that are cut off. `acpi.c` compares only the address where a table begins with
  its limit, and no length at all, while line 134 speaks of tables "anywhere within"
  the memory mapped. A FADT across the limit, or a list whose length is shorter than
  its header, can make it read memory that is not mapped. `boot` has such tables;
  `ParserReadsMapped` says that nothing else makes the parser fault.
- Documents about the parser (`boot_documents`). The last state of that run breaks all
  three promises that `ParserAsDocumented` joins. A list without a FADT does no harm
  to power off, because `kernel_shutdown` has the same defaults of its own
  (`PowerOffReachesChipset`).
- A line that reaches the right edge goes wrong in two ways. Where nothing scrolls
  (`hmi_long_line`), `console_set_cursor` ignores the column and the cursor is left
  on the prompt; with one letter more, Enter moves on from the prompt's row and the
  command's output covers the rest of the line. With the prompt in the last row the
  screen scrolls too: the remembered row is then one too low, the next letter writes
  the line again without a prompt, and each wrap there scrolls once more.

### Bounds

- `scheduler`: room for three tasks (`MEM_LIMIT`), two yield depths. Three
  tasks give a head, a middle and a tail; the theorems remove the bound.
- `input_ring`: four slots, hence queues of up to three keys and every
  position of both indices; no bound on the length of a run.
- `console`: 3 x 3 cells, two lines of scrollback, eight calls
  (`MAX_CALLS`), and browsing without bound. Eight calls fill the screen, scroll it
  more often than the ring has lines, and leave calls for a clear or a move. The
  theorems remove these bounds, and those of the safety properties of `kernel`,
  `file_system`, `boot` and `panes`, and of two of the four of `hmi`.
- `panes`: 12 x 11 cells, a prompt of two characters, all grids up to 4 x 4, no
  bound on the run. Every pane has at least two rows and columns for the prompt;
  the layout is also checked at 80 x 25. `WORD` is 2^16 in place of 2^32, which
  TLC cannot represent; the argument needs only that it exceeds the screen.
- `hmi`: six keys (`MAX_KEYS`) on 10 x 4 cells, grids up to 2 x 2, lines of two
  characters, a history of two, one key waiting in the ring. Six keys enter
  three commands, so that the history wraps; or start the panes, move, type and
  find the key that waited; or scroll, browse back and type. Of the pane keys
  only two are tried, since `panes` has all the operations. The line always
  fits in the row, which on the real screen means less than 72 characters;
  `hmi_long_line` has a screen of four columns and rows.
- `kernel`: four key presses (`MAX_PRESSES`) among five keys, controller of
  four bytes (`KBD_SIZE`), GUI buffer of three. Characters are 2 x 2 points on a
  screen of 5 x 6, so that a full line leaves one point free; in the code 127
  characters of 8 points leave 8 of 1024.
- `file_system`: two slots of two bytes, four names, two of them too long, writes
  of none, one, two and three bytes; runs of any length.
- `boot`: four PCI functions on two buses with room for two, each absent or one
  of two devices; room for two ACPI tables and lists of up to three entries that
  are null, one of two FADTs, another table or out of reach; lists with a length
  shorter than a header, so that the count wraps, or with part of an entry; lists and
  FADTs that reach the end of the mapped memory or cross it; an RSDP of either revision
  at four places of an area of four paragraphs, or none; three drivers, one without an
  init. A gigabyte is 512 bytes, 4 * `GIB` the range of a word. `boot_documents` has one
  memory. The devices and the firmware vary independently. The uncleared entry of the page table for the fourth gigabyte is
  absent or maps the framebuffer; without the second case nothing after
  `gui_init` could be examined.

### Fairness

`EveryQueuedTaskRuns` assumes weak fairness of `sched_yield`: the tasks are
endless loops with one `sched_yield` in each iteration. `KeyboardIsDrained` and
`TypedKeysReachShell` assume weak fairness of the processor's steps (`kmain` or
the task that runs), and `BootEnds` and `BootsIntoTerminal` weak fairness of the
steps of the boot: the CPU does not stop. Nothing is assumed of the user.
Where deadlock is not checked, the system may really stop: `sched_start` without
tasks, the stopping commands of the shell, a boot that failed, and the file table,
which does nothing of its own accord.

## Proofs

`SchedulerProofs` proves, for every page size, image end, set of depths and
memory limit, and so for any number of tasks:

- `TypeCorrect`, `RunQueueCorrect`, `RunningTaskCorrect`, `StacksKept`,
  `MemoryPrivate`: the invariants of the run `scheduler`;
- `OnlyImageSparesTables`: with pages of 4096 bytes and once there is a task, the page
  tables are untouched exactly if the image ends above 0xB000. The floor that
  `mm_init` sets protects them in no case: where it applies, the first task is on
  `pd2`, since tasks take pages from the first one up (`FirstPageIsTaken`);
- `ResumeCorrect`: a task continues where it yielded;
- `RoundRobinCorrect`: `Scheduler` implements `RoundRobin`.

The inductive invariant is the conjunction of those invariants and three facts
that none of them says: a task that was not added yet has a null `next` (or
adding it would splice in a tail), the CPU is where the running task was
resumed, and `next_free_page` never falls below the end of the image. The list
is described by the history variable `queue`, so that no induction over the
list is needed. Assumptions: `MemoryAssumption` and `SchedulerAssumption`, which
say that sizes are positive and that `bootstrap_task` lies inside the image.

`InputRingProofs` proves `RingTypeCorrect`, `RingHoldsKeys` and `RingIsQueue`
for every buffer of two or more slots. The inductive invariant is `TypeOK`
and that the slots from tail to head hold keys other than NUL and DEL. The
refinement needs the arithmetic of the wrapping indices: `Count` grows by one
when head advances and shrinks by one when tail does; those facts are lemmas
about numbers.

`ConsoleProofs` proves for every screen, scrollback, prompt that fits in a row,
and set of characters:

- `Types` and `Cursor`: the invariants of the run `console`;
- `PaperRoll`: `ConsoleCalls` implements `Terminal`.

The inductive invariant is `Good`: each field has its type, the lines between
`sb_start` and `sb_start + sb_count` were once on the screen, the VGA buffer is
the window that `sb_view` asks for, and the hardware cursor is in step. One
lemma per function says what it does to the screen, the ring and the cursor
(`RenderFacts`, `PushFacts`, `ScrollFacts`, ...); `RollExtends` is the argument
about the wrapping ring, that a push is an append to the roll that forgets its
first line when it is full. The prompt after `console_draw_quadrants` is a string
of any length: `WrittenFacts` shows that the recursive function behind
`console_write` exists, and `WriteFacts` what it prints, both by the least
position at which the claim would fail (`LeastNatural`).

`FileSystemProofs` proves `Types`, `ReadsReturnWrites` and `NamesIdentify` for any
number and size of files and any map from names to stored names that is
idempotent. Inductive with `TypeOK` and `ContentIsLastWrite` is `SlotsHoldNames`:
while callers were `careful`, each slot in use holds the name asked for, and
no two hold the same one. `NamesIdentify` follows: `fs_open` finds the first slot
with the name, and there is only one.

`BootProofs` proves for every firmware, set of PCI functions, list of drivers
without repetition and size of the arrays:

- `Types`; `OnlyMappedReads`: `acpi_init` faults only if the list or an entry it has
  come to is a table that ends above 2 GiB by its own length, or whose length is too
  short for its kind; every other byte it reads is mapped;
- `ParserKeepsTables` (for wrapped counts too), `DeviceList`, `DriverOrder`: the three loops keep what they
  should, in order;
- `PowerOff`: the ports written are those of the firmware, or the defaults.

The inductive invariant has one part for each component (`AcpiInv`,
`InventoryInv`, `ListInv`) and one that ties them to the stages of the boot
(`BootInv`). Each loop's part says what it has kept after the entries seen so
far; `SelectionProofs` has the step of such a loop once, as lemmas about lists.
`ListInv` describes the linked list of drivers by the drivers registered so far.
`AcpiAssumption` says what shape memory has, not what is in it. `OnlyMappedReads` rests
on arithmetic: an entry that is counted lies within the length of a list that is not
shorter than its header (`EntryWithin`), and the bytes below the limit are those of the
two gigabytes mapped (`BelowLimit`).

`KernelProofs` proves for every keyboard table, font, screen and GUI buffer whose
full line fits on the screen (`KernelAssumption`; 1016 of 1024 points in the code):

- `Types`;
- `LineTyped`: whenever the controller is empty, the GUI's line is what was typed;
- `Picture`: the picture is always that of the line.

`LineIsWhatWasTyped` speaks only of an empty controller; the inductive invariant
says more (`Decodes`): there is a run of the driver over the bytes that wait, from
the line and the prefix flag as they are, to the line `typed` with the flag
cleared. A key joins that run at its end (`MakeDecodes`, `BreakDecodes`), the GUI
task takes its first step (`DecodeHead`). `KernelAssumption` says of the keys
what the driver takes for granted: one code below 128 with or without the prefix,
and not 96, whose release would look like the prefix. `Picture` rests on
arithmetic: no two points of the screen share a word, and a point lies in one cell
of the line only.

`HmiProofs` proves about the panes, for every screen and grid limit with room for
two cells in each pane and for the prompt in half a row (`PaneCallsAssumption`,
which is true of 80 x 25 with four panes a side and the prompt of the code), and
for every value of the words that `compute_layout` leaves unset:

- `PanesFillScreen`: the layout fills the screen, and the active pane has its half;
- `PanesScreenIsGrid`: the screen is the present grid and its prompt, nothing else;
- `PanesPromptInActivePane`: the prompt is whole and inside the active pane.

A redraw clears the screen, so the invariant (`PanesInv`) says that the console
is a function of the grid: unscrolled, its cursor in the active pane, each cell
what `Ruling` gives it unless the prompt covers it. The work is in one redraw. Its
loops are recursive functions in `Pane`; `Rounds` shows that they exist and are
typed, `Changed` and `CellOf` what a loop of cell writes leaves when later writes
cover earlier ones (the crossings go over the rows and those over the columns),
and `RowFlat` that a full row of dividers wraps to the next row without
scrolling, because no divider of the layout is the last row. That is the fact the
drawing depends on, and it comes from every pane having two rows.

About the text interface, for every size of `cmd_buf`, of the history, the ring,
the screen and the grid, every set of keys, commands and replies:

- `HmiTyped`: no index of the shell, the history, the panes or the ring leaves its
  array, and `cmd_buf` has room for its zero;
- `HmiImplementsEditor`: `Hmi` implements `LineEditor`.

The inductive invariant (`HmiInv`) is that the console, the grid and the shell are
well-formed (`UI`) and that the ring holds keys only. To `TypeOK` it adds that the
contents of the arrays have their types (a command in the history fits in
`cmd_buf`, or `Recall` would run over), and that until the history has
wrapped its index is its count, without which the slots in use would not be those
that `history_get` computes. For the refinement each key has a lemma that says what
it does to the text before and after the cursor (`InsertLine`, `EraseLine`,
`LeftLine`, `RightLine`, `RecallLine`, `EnteredLine`); `AddedGet` and
`RecentAdded` are the argument about the wrapping ring of commands: an added
command is the latest, and each of the others is one step further back. A poll
between two steps of the shell maps to a stutter, or to `Discard` if it redraws the
panes. `LineEditor` loses the line there and keeps the position in the history,
as the code does.

Only model-checked:

- all liveness: weak fairness is outside the prover's fragment;
- `ScreenShowsLine` and `NothingLeftBehind`, the properties of the run `hmi` that
  compare the screen with the line. They hold while a line fits in the row of its
  prompt, and the constants of the code do not guarantee that (127 characters in a
  row of 80): `hmi_long_line` shows the first one violated. An assumption under
  which they could be proved for every size would exclude the program's own sizes.

The `MAX_...` bounds of the models are constants of the theorems too, so that
they hold for runs of any length.

## Assumptions of the model

- Variables with an initial value of zero start at zero. They are in `.bss`,
  which the loader does not clear; under QEMU the memory is zero. Memory the
  code never claims to have cleared (the screen before `console_clear`, the
  slots of the file table apart from `used`, the widths of a single pane) is
  arbitrary or marked in the models.
- The models other than `Boot` begin after `kernel_init` and leave out that
  `gui_init` faults on a machine whose memory was clear (`boot_terminal`).
- Memory of different parts is apart. In the image `.bss` lies over the page
  tables at 0x8000-0xBFFF; what the kernel writes there today (`used` of the file
  table) misses the entries in use.
- Words behind the last one of a list are zero (a memory with something there is one
  with a longer list). Of a signature that is not the one looked for the model reads
  all four bytes, the code those up to the first difference; the memories of the runs
  have no such table across the limit. If the loader's uncleared entries happen to map
  the gigabyte behind the second, a table that crosses is what is found there.
- Tasks run only after `sched_start`.
- Callers keep to what the code takes for granted without a check: a task is
  added once and a driver registered once (a second time links it to itself).
- `cpuid` is believed: the code asks leaf 0x0B without looking whether the
  processor has it, and takes the threads of one core for the number of cores.

## Not modelled

Every component of the repository that has state of its own has a module, and
every safety property that holds for the program's own sizes is proved, apart
from the hazards that `PROJECT.json` lists without a property.

Left out for good: the bytes of the font, the serial copy of the console, the
digits that the number printers choose, the names of PCI classes, port access in
inline assembly, `fb_draw_text` and `gui_draw_pane_border`, which have no caller,
and the system call dispatcher, which has none either. The keyboard's bytes and
the text interface are not composed: in the kernel as it is started no byte of the
keyboard reaches `console_poll_input` (`kernel_shell`), and `Hmi` has its keys
from an open environment instead. A user program, preemption and interrupts do
not exist in this version.

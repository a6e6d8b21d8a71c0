# laskar in TLA+

Laskar is a ring-0 operating system started by a UEFI boot loader: a page allocator, a
heap, a keyboard driver, a line editor and shell on a text console, and a FAT32 file
system over ATA PIO. These modules model it from its source, TLC checks them on small
instances, and TLAPS proves the most important facts for every size.

There is one thread of control. `kernel.c`'s `kmain` polls the keyboard, edits a line and
runs one shell command at a time to its end; the only interrupt handled is the keyboard's,
which can come between any two instructions. What is hard to test in this system is
therefore the interrupt against the loop, arithmetic at the edges of bytes, clusters,
buffers and counters, long sequences of legal calls, the disk that fills up, and power lost
between two sector writes.

## Components

| component | source | state | operations | correct when |
|---|---|---|---|---|
| heap | `kernel/src/heap.c` | block headers, address-ordered free list | `kmalloc`, `kfree` | blocks tile the heap, the list is ordered and coalesced, callers never share a byte |
| page allocator | `kernel/src/pmm.c` | a bitmap of pages | `pmm_init`, `alloc_page(s)`, `free_page(s)` | what is marked is exactly what may not be handed out |
| keyboard driver, modifiers | `drivers/src/keyboard.c`, `kernel/src/layout.c` | ring, `head`, `tail`, `shift`, `caps` | `kb_handler` (interrupt), `kb_read`, `translate` (loop) | a queue: no accepted key is lost, repeated or overtaken, all are read |
| interrupt stub | `kernel/src/stubs/kb_stub.asm` | registers, stack, the PIC | its instructions | the interrupted code notices nothing, the next key can interrupt |
| line editor | `kernel/src/kernel.c` | a growing buffer and a count | a character, `\b`, `\n` | the shell is given what was typed, no store misses the buffer |
| console | `libk/src/print.c` | cursor, pixels | `printc`, `clear_screen` | the cursor stays on the screen, whole characters scroll |
| echo | `kernel/src/shell/echo.c` | pointers into the arguments | `parse`, `cmd_echo` | the quoted text goes where it is sent |
| FAT32 | `libk/src/fs.c` | table, clusters, `fd_table`, `create_entry`'s static | `fs_open` ... `fs_rmdir` | a tree of files and directories, every cluster with one owner |
| snake, timer | `kernel/src/shell/snake.c`, `drivers/src/pit.c` | the snake's array, apple, keys; the counter's statics | one turn of the game loop, `tick_update` | the array never overflows, the game ends when the snake hits something and not before, the clock does not drift |
| shell commands | `kernel/src/shell/*.c` | the working directory | `pwd`, `cd`, `stat`, `cat`, `ls`, `mkdir`, `rm`, `echo` | what is shown is what is there, `echo`'s text is kept, the working directory is one |
| ATA driver | `drivers/src/pio.c` | the platter | `write_sector`; the power going off | what a cut leaves is the tree before or after a call, with one owner for each cluster |
| strings, paths, 8.3 names | `libk/src/string.c`, `kernel/src/shell/cwd.c` | none | `str_tok`, `normalize_path`, `str_to_fat83`, `fat83_to_str` | a path is resolved, what `ls` prints finds the file |
| descriptor tables, PIC, layouts, font, boot loader | `idt.c`, `gdt.c`, `layouts/`, `font.h`, `bootloader/` | constant tables | run once | not modelled: no behaviour after boot |

How they interact: the interrupt stub calls `kb_handler`, which fills the ring; `kmain`'s
loop empties it with `kb_read`, turns a key into a character with `translate`, prints it
with `printc`, edits the line with it and on `\n` calls `cmd_parse`, which runs a command.
Commands call the file system and print; snake polls `kb_read` and `tick_update` itself.
The file system, the line editor, `cd` and snake take their memory from the heap, which
takes its one run of pages from the page allocator, which takes its memory map from the
boot loader. Shared state between the interrupt and the loop is the ring, `shift` and
`caps`; all else belongs to the loop.

## Modules

Names follow the source; a definition's comment says when it stands for something else.
An operator whose comment begins "A defect the code does not have" is an altered form of the
definition below it; nothing uses it, and a run in which it stands in for that definition
fails.

| module | what it is |
|---|---|
| `Allocator` | abstract: what callers of `kmalloc` and of `alloc_pages` rely on |
| `Heap` | `heap.c`; the list is the sequence of blocks in `next` order, headers a function of address; `KmallocSplit`, `KmallocWhole`, `KmallocFails` are the three ways through `kmalloc`, `Kfree` all of `kfree` |
| `PageAllocator` | `pmm.c` on sets of page numbers; implements `Allocator` |
| `PageBitmap`, `MCPageBitmap` | extends `PageAllocator` by `pmm.c`'s bytes and bits, with `pmm_init`'s arithmetic over memory maps; implements it |
| `KeyQueue` | abstract: a first-in first-out queue of N - 1 keys |
| `Keyboard` | `kb_handler` as one action, `kb_read` and `translate` cut at their memory accesses; implements `KeyQueue` |
| `KbStub` | `kb_stub.asm`, an action for each kind of instruction |
| `Line` | abstract: a line typed, corrected from its end, entered |
| `CommandLine` | `kmain`'s editor and the string `cmd_parse` sees; implements `Line` |
| `Terminal` | abstract: rows of whole characters that wrap and scroll |
| `Console` | `print.c`'s cursor and the glyph rows the framebuffer shows; implements `Terminal` |
| `PathNames` | pure: `str_tok`, `normalize_path`, the 8.3 conversions both ways, what `ls` prints, `parse_path`'s limit, on strings of characters |
| `Echo`, `MCEcho` | `parse` character by character, then `cmd_echo` with the path it resolves; extends `PathNames` |
| `FileStore` | abstract: a tree of files and directories, an open handle, what each call returns |
| `FileSystem`, `MCFileSystem` | `fs.c`, each exported call an action, on clusters of a few cells; implements `FileStore` |
| `Shell` | the commands on top of `FileSystem`'s calls, against the working directory; a command is an action, `echo` with a redirection three |
| `SectorWrites`, `MCShell` | `Shell` over a disk written sector by sector: what each call writes, in its order, and `PowerCut` between any two |
| `Pit` | `pit.c`: the counter's two statics and `tick_update`, on a counter of `Span` values |
| `Snake` | `snake.c` on top of `Pit`, one turn of the game loop an action |
| `Induction` | least numbers, induction, recursive functions, division, pieces of sequences: facts the proofs share |
| `HeapProofs`, `PageAllocatorProofs`, `KeyboardProofs`, `CommandLineProofs`, `SnakeProofs`, `ConsoleProofs`, `FileSystemProofs` | the theorems about the module of that name; `PageAllocatorProofs` also about `PageBitmap`, `SnakeProofs` also about `Pit`, `FileSystemProofs` also about `Shell` |

Abstractions that matter. A byte of a file, a key, a character is a model value; a cluster
holds `Cells` cells, each an entry or a unit of data. `buff.buff[buff.tail++]` in `kb_read`
does not fix the order of the load and the store, so both are modelled. Two things the heap
holds after a block are unknown to `fs_readdir`, so any word of `Stale` may follow a
cluster chain; what a sector holds that is not a cluster of the file is `Unknown`. The shell
runs one command at a time and each closes what it opened, so one slot of `fd_table` is in use
at most. A name is a model value in `FileSystem` and `Shell`, and a string of characters in
`PathNames` and `Echo`: the two sides meet in `normalize_path`, which is in `Shell` on
sequences of names.

`SectorWrites` gives each command two views of the disk. `fat` and `content` are what the
running kernel would read, and change with the call, as `FileSystem` has it; `platter` is what
the disk holds, and follows one sector at a time through the queue `todo`. The driver reads
and writes in turn and caches nothing, so that the kernel never reads a sector with a write to
it in the queue: `SectorsAddUp` says that the two views meet when the queue is empty. A
cluster is one sector, as `mkfs.fat -F 32` makes them on an image of the Makefile's size, and the
first copy of the table is the only one kept. After a cut, memory is as at boot.

## Runs

| run | question | bounds, and why they are enough |
|---|---|---|
| `heap` | do all orders of `kmalloc` and `kfree` keep the heap's structure and its promise? | 36 bytes, header 4: up to four blocks, with requests below, at and above the minimum, blocks that split, that are taken whole with a remainder, and frees with 0, 1 and 2 free neighbours |
| `bitmap` | are runs handed out apart, usable and all accounted for, and does the bit arithmetic do to bytes what the page allocator does to sets? | 7 pages and the 2 bits behind them that fill the last of three bytes, of 3 bits each: runs in one byte, in two, over a whole one; one region or two in either order, with gaps; kernel, bitmap and stack on and off page bounds; page 0 included, whose address is `NULL` |
| `keyboard` | is the ring a queue under any interleaving, and is it emptied? Has a character the case that shift and caps lock asked for at some moment? | 4 slots, 2 keys: full, empty, wrapped; both access orders; any number of changes of shift and caps lock between `translate`'s two loads |
| `kb_stub` | is the interrupted code undisturbed, is the PIC told? | none: all 40 instructions, all sets of registers the handler may change |
| `command_line` | is the command what was typed? | capacities 2, 4, 8: two doublings, any number of lines in the buffer an earlier line left |
| `console` | is the cursor on the screen, are scrolled characters whole? | 5 columns (not a multiple of the tab), 5 pixel rows with glyphs of 2: two lines and a strip; framebuffer rows of 7, longer than the screen is wide |
| `echo` | does the walk end, does the text get where it is sent, is the path resolved, does `ls` print what finds the file? | every string up to 6 characters of letter, quote, `>`, space: three quotes, both marks, a name; and `"x">` with every path up to 6 of a small and a capital letter, slash and dot behind it: `..` above the root, names that fill 2 + 1 characters, spill over, or are too long; working directories `/` and `/x` |
| `echo_unclosed` | is an unclosed quote reported? Violated, see below | the same |
| `snake` | does the game keep its array and its rules; does the clock keep time? | a board of 4 x 3 places, on a screen that shows all of it and on a lower one, where apples have six rows; lengths 4 to 7, an array that grows at 5, a counter byte that wraps at 5, every key between two updates; a timer of 3 counts and a tick of 2 turns of it, a turn of the loop taking 0, 1, 2 or 4 counts, the last more than the counter can tell |
| `file_system` | are clusters owned once, handles true, leaks known, and is the whole a tree of files? | 4 clusters of 2 cells, paths `/`, `/a`, `/b`, `/a/b`, writes of 1 and 3 cells: within a cluster, to its end, over one and two ends; reads of 3 and 4, from an end and from within; directories that fill up; reboots; the heap's words after a chain are 0 or a cluster |
| `shell` | do the commands show the tree, on a disk that fills up, and what is found after a power cut between any two sectors? | 3 clusters of 2 cells: the root, and two that a directory and a file, or a file that grows, use up; every path, and relative ones with a name, none and `..`; texts of 0 and 3 cells, 4 with `>>`'s newline; chunks of `cat` of 2, with sizes below, at and above one and two; where a file has no cluster to go on from, the word found is none or either cluster that is not the root's |
| `truncate` | does only a write to a file change it? Violated, see below | the same, with long files truncated |

Deadlock is checked except in `echo*` and `snake`, where the command returns.

The `VIEW`s of `MCFileSystem` and `MCShell` take states as one that no later call and no
property tells apart. Both leave out the cells of clusters that belong to nobody and those behind
a file's size: a new cluster of a directory is zeroed before it is linked, and a file's cells
behind its size are overwritten before the size includes them. `MCFileSystem` keeps the clusters
that a word of `Stale` names, which a listing may show; in `MCShell` such a listing is only shown
and no property says more of it than where it starts. (A file that got no cluster reads as
`Unknown` whatever is in them.) Both leave out what the last call returned, `res` and `out`, or
`shown`, which no action reads. A step property sees each step with the result it gives; only a
step that leaves disk and handle alone and returns just what the representative state's last call
returned looks like a stutter, which is a call that was checked when it was first made.

Bounds that leave something out, by name:

- `HasRoom`: without `Fills` no call finds the disk full. `Fills` is true in `shell`, so that
  `file_system` is about calls that succeed, and `shell` about those that do not.
- `Beyond`: the word that `fs_write` takes for the last cluster of a file without one names a
  cluster of the disk or none. One that is too large for the table would have its entry in the
  data, or in no sector. Where no memory lies 16 GB behind the chain the load faults, and
  as `idt.c` has a gate for the keyboard only, the machine starts again: nothing of the call was
  written by then, so that this is a `PowerCut`.
- `OfNoDirectory`: nor does that word name a cluster of a directory, which would be cut off, or
  go on in the text, read as entries.
- `TruncatesLong`, false but in `truncate`: no caller truncates a file of more than one cluster,
  because of what `truncate` shows.
- `FirstIntoFull`, false in `shell`: the first creation since boot is not in a directory with
  no slot left; `file_system` has it, and says what it makes (nothing).
- `Torn` in `PowerCut`: the power does not go off between the two writes to the table with
  which `fs_write` takes a cluster, see below.
- `MaxSize`, `MaxCap`, `MaxLen`, `MaxPath`, `Wrapped`, `Args`, `Typed`, `Cwds`: sizes and inputs.

### What the code does otherwise than it says

- `truncate`: `fs_open` with `TRUNCATE` frees a file's clusters but the first (fs.c:364) and
  leaves that one linked to the second. The next file created is given the second, and the
  two overwrite one another.
- `echo_unclosed`: with three quotes, the third is the opening one and the second still the
  closing one; the length (echo.c:63) wraps and nothing is reported. With fewer quotes the
  messages are right (`GivesTheText`).
- In a directory with no slot left, the first creation since boot links a new cluster
  but writes the entry through the end-of-chain mark (fs.c:169): `mkdir` returns 0 and makes
  nothing. `ImplementsFileStore` excepts exactly these steps (`MakesNothing`), and
  `LeaksOnlyWhenFull` the clusters they lose.
- The listing of such a directory goes on behind its cluster chain (fs.c:659), excepted as
  `ListsOn`.
- A name of 13 characters passes `parse_path`'s test (fs.c:234) and its NUL is stored behind
  `component`; the conversion reads 12 at most, so that it comes out right.
- The stub sends the end of interrupt after the registers are popped and so returns with
  `0x20` in BL (kb_stub.asm:49): `RestoresAllButBl` says that it is all that is disturbed.
- `echo` to the console prints the closing quote too (print.c:166), which `GivesTheText` states.
- `clear_screen` (print.c:19) counts by width where `print_char` counts by pitch: with longer
  framebuffer rows the last lines stay, and characters there may be cut in two.
  `ImplementsTerminal` excepts them (`LeavesLastRows`).
- A write that grows a file links the chain to the new cluster before it marks that as the last
  (fs.c:529). After a power cut just then the chain ends in a cluster marked free, which the
  next file is given as well. `FoundOneOwner` says that this is the only thing that can be
  wrong with the disk that is found; the model goes on from all other cuts.
- On a full disk `find_free_clus` returns `(u32)-1` (fs.c:83). As a link that
  ends the chain, and what is written to it is lost: its sector lies in the second copy of the
  table, its entry in no table. `fs_write` returns the whole length and the entry gets a size its
  chain is too short for, so that `echo` reports success and `cat` shows other sectors for the rest. A file created on a full disk has no
  cluster, and never gets one, also when there is room again. `EchoKeepsTheText` excepts these
  two, and `ShowsTheTree` says that what was written in time is still shown first.
- When such a file without a cluster is written and there is room again, `cluster_count - 1`
  (fs.c:529) is 0xFFFFFFFF, unsigned: the word 16 GB behind the chain is taken for the last
  cluster, and its entry in the table overwritten by the new one. If it names another file's
  cluster, that file goes on in the text, or loses what came after (`Tip`). No cluster comes to
  have two owners by it, which `FoundOneOwner` says over all words of `Beyond`, and `cat`
  goes on showing a file no longer than its size. `TreeAtOnce` excepts the writes to a file that
  a full disk left behind (`LeftBehind`: shorter than its size, or without a cluster): they show
  sector by sector, and may show in that other file. In run `shell` the first exception is enough. The
  second needs 4 clusters of 3 cells beside words of 0, 3, 4 and 5 (3,121,573 states):
  there `TreeAtOnce` holds, and fails without the second disjunct. That takes 19 minutes, too
  long for a run.
- A name that begins with a dot is listed without it, and one that begins with two as `..`
  (string.c:117): what `ls` prints does not find the file. `ListedNameOpens` says that this is
  so for these names only.
- The first update of snake obeys a turn straight into the neck, as nothing was obeyed before it
  (snake.c:201, `prev` is a space). `NeverIntoItsNeck` says that this happens only there, only by
  `a`, and ends the game.
- The collision loop counts in a u8 (snake.c:120): a snake of more than 256 segments is compared
  with some of itself only and may live across itself. `AliveUntilItHits` excepts that length.
- On a screen lower than 640 pixels `bottom_border` wraps in its u8 (snake.c:27), and the divisor
  of an apple's row is negative (snake.c:57): apples may lie outside the board, where the snake
  cannot go. `Snake` has such screens (`low`, `Rows`); it takes the width to be 640 to 7551
  pixels and the height to be below 7552, so that no other border wraps.

### Fairness

`Keyboard!FairSpec` has weak fairness of `Loop`: `kmain` polls without pause, commands
return, and no interrupt keeps the loop from its next instruction for ever. Of the keyboard
nothing is assumed. `EveryKeyIsRead` needs no strong fairness, since `Loop` always has a step.
`Echo!Spec` has weak fairness of `parse \/ cmd_echo`: a function that was called goes on.
The other modules check safety only.

## Proofs

Every theorem holds for all values of the constants that the module's `ASSUME` allows.

- `HeapProofs`, from `HeapAssumption` (positive header, alignment and minimum). The inductive
  invariant is `TypeOK /\ WellFormed`, where `WellFormed` is `Tiled /\ AddressOrdered /\
  Coalesced`, stated by `HeapInvariant`: none of its parts is inductive alone. `kfree`'s two joining tests look only at the list's neighbours, which are
  the neighbours in memory because the list is ordered and the blocks tile the heap; coalescing
  leaves no third block to join because the heap was coalesced before. `KmallocSplitEffect`,
  `KmallocWholeEffect` and `KfreeEffect` say what the calls do to the set of blocks, and the
  `...Preserves` lemmas go on from there. Consequences: `HeapRecovers`, `HeldBlocksKeep`,
  and the step simulation for `HeapImplementsAllocator`.
- `PageAllocatorProofs`, from `PageAssumption`. Invariant: `TypeOK /\ HeldApart /\ Accounted`. A
  free run touches no held run because the bitmap accounts for them all; giving one back frees
  nobody else's page because they are apart. The same module proves, from `BitmapAssumption`,
  that the bytes do this: `MaskOfPages` says which pages a mask covers, `RegionsCleared` by
  induction over the regions what `pmm_init` leaves marked, and `CounterIsRow` that
  `consecutive` at a page is the length of the free run that ends there, so that the first page
  at which it reaches the count ends the first run there is. `BitmapIsPageAllocator` is the refinement,
  `BytesKeepThePromise` carries the invariants of the sets over to the bytes. `BitmapAssumption`
  wants the memory map as firmware gives it: whole pages, inside the memory counted.
- `KeyboardProofs`, from `RingAssumption` (two slots at least). Invariant: `TypeOK` and
  `ReadPosition`, which ties `slot` to `tail` at each step of `kb_read`. The interrupt stores at
  `head` only, and never makes `head` reach the slot before `tail`, which is where the reader
  may still be loading. `OneMomentsCase` adds what `translate` has loaded to what was asked for since
  (`asked`, a history): whichever of the two changes last, the pair that is used was there at once. The
  refinement shows each access to be a step of the queue or a stutter.
- `CommandLineProofs`, from `BufferAssumption` (a first capacity of two at least). Invariant: the
  count plus one is below the capacity, and the bytes below the count are characters. The first
  leaves room for the byte every branch stores untested; the second makes the terminator the
  first NUL, so that the command is the line.

- `SnakeProofs`, from the assumptions of `Snake` and `Pit`. The invariant adds to `TypeOK` and
  `KeepsTime` that the head lies where the key obeyed last took it (`SnakeInv`): that alone keeps
  it off the neck. `TypeCorrect`, `ClockKeepsTime` (for any counts between two readings, also more
  than a turn of the counter) and `NoTurnOnTheNeck`. `DiesByHittingOnly` adds that the segments are
  apart: a move shifts them, so that only the head can come to lie on another, and the loop
  compares it with all of them as long as their number fits its u8.
- `ConsoleProofs`. `ConsoleIsTerminal`: for every screen, pitch, glyph and tab the pixels are those of the
  terminal's rows. A line's pixel rows are apart from every other's (`Lines`, by division), so
  that a glyph printed disturbs none, and a scroll moves whole lines.
- `FileSystemProofs`, from `DiskAssumption`, for disks that are not full (`~Fills`) and callers that
  do not truncate long files (`~TruncatesLong`). Without the first a file can be given a size its
  chain is too short for, without the second clusters get two owners: runs `shell` and `truncate`
  show both, and the theorems say that nothing else can bring either about.
  - The invariant. `Kept` says that there are a set `L` of places of entries and for each a chain
    `C[loc]`, such that `Layout` holds of them: the places hold entries (`Typed`, `Named`), the
    chains are those of the table (`Chained`), no two share a cluster (`Apart`), sizes are within
    chains (`Sized`), every entry in a directory of `L` is in `L` (`Closed`) and lies in one
    (`Placed`), a directory's slots hold nothing else (`Clean`), its names differ (`Distinct`), and
    no entry comes after an unused slot (`ZerosLast`), where `is_dir_empty` would not see it.
    `Handled` ties the open file to them, and `Shown` says that a path of `Paths` leads to every
    place of `L`, so that the listing gives children and nothing more. `TypeCorrect`,
    `NoClusterIsShared` and `OpenFileIsCurrent` follow from the invariant alone.
  - The steps. `Enter`, `Leave`, `Resize`, `Extending` and `ClusterWritten` each say what one change
    of the disk does to a layout; the actions are put together from these. `Deed` is what all calls
    have in common from one layout to the next: names stay, chains keep their clusters, what is
    removed is freed, and at most one file is written. `Goes` (lemma `NextGoes`) is that for every
    call, with `Claims`: a cluster taken belongs to something a path leads to, unless the step is one of
    the two that `LeaksOnlyWhenFull` names (`Takes`): a creation in a directory with no slot
    for it, which loses what it claimed and no more, or a write to the file whose entry is nowhere.
  - Paths. `Leads` says of a path which entries it passes, without the code's search; by
    `LocatedInLayout` the search of `parse_path` and `find_entry` finds just what a path leads to.
    `Told` restates `Tree` and `Leaked` in terms of a layout, in this state and the next, and so
    `LeakIsOfTheFull` and `OtherFilesKeepTheirText` come down to `Goes`.
  - The refinement, `DriverIsAFileStore`. A thing is led to by one path (`OnePath`), so that
    `Tree` is a tree: `TreePut` and `TreeDrop` say how a `Deed` that adds or removes a place
    changes it, `TreeGoes` and `SameTree` that the others leave it. `HandleNow` tells the handle by
    the layout. Then each call is a step of `FileStore` (`OpenSteps`, `MkdirSteps`, ...).
    `ReadSteps` and `WriteSteps` need that what is done cluster by cluster, with its first and last
    offsets, is what `FileStore` does to a sequence of cells: `PiecesFlattened` joins the parts of
    a read, `AllParts` those of a write, and `PartsMeet` shows that they meet. `PassedOver` says of
    `fs_readdir`'s loop that it skips no entry. One more invariant is needed, `Within`: a file that
    has an entry is never read or written behind its end. What is done with a file that has none
    (`NowhereSteps`), and the two things `ImplementsFileStore` excepts, leave the tree as it is.
  - The shell, on top of the refinement. A command's calls are steps of `FileStore`, so that what
    a command does is read off the tree. The invariant `ShellInv` adds to `Inv` and `Within` that
    the working directory is a path and that the `echo` at work has its file open, at its end until it
    writes (`EchoIsAtWork`). `WorkingDirectoryStays` needs that no call but a removal takes a directory
    away (`DirsStay`). `EchoedTextIsKept` is also for `~FirstIntoFull`, as the run is, and says more than
    `EchoKeepsTheText`: while there is room its exceptions are not needed (`TextIsThere`).
    `CommandsShowTheTree` is by induction over turns: after each turn of `cat`'s loop the text is the
    file's up to a multiple of the chunk or all of it (`PrintedUpto`), so that the turn for the remainder
    completes it also when there is none; `ls` has printed the names of the entries in the
    slots so far, and the first unused slot comes after all of them. These hold with the power on:
    `Shell` has no `PowerCut`.

What a recursive function computes is proved by induction in `Induction`: its facts are about sets
of numbers in place of predicates, so that the provers need not instantiate an operator.
`resolve_chain`, `Grown`, `Written` and `ClearRegions` are reasoned about in this way.

Only model-checked: `KbStub` (its run is exhaustive), `PathNames`, `Echo`, `SectorWrites`; what `Shell`
does on a full disk; and all
liveness (`EveryKeyIsRead`, `Returns`), which the prover does not do under fairness.

## Not modelled

- Sectors that fail: a read that fails leaves `buff` as it was, and `link_clus` writes it back
  (pio.c:26, fs.c:42); a write that fails is only printed. Nothing in the code says what should
  come of it.
- The memory of the commands: what they take from the heap and do not give back on an early
  return (cat.c:6, rm.c:6, stat.c:7), and `kmalloc` returning `NULL`, which no caller tests.
- The second copy of the table: only the first is read, so it matters only to other systems;
  and the end of the table, whose entries behind the last cluster `find_free_clus` reaches.
- `loadkeys` (it chooses a table), `clear` (it is `Console`'s `clear_screen`), `free` and the
  number printers (they only print), `fs_seek` and `fs_tell` (no caller).
- `kb_init`, `idt_init`, the descriptor tables: run once, before interrupts are on. `heap_init`'s
  halt when no pages are left precedes every state of `Heap`. The timer's reload value is taken
  to be the firmware's, 65536 counts, as `pit.c` does.
- Console and line editor are not composed: at column 0 a backspace erases nothing on the screen
  (print.c:143) while it drops a character of the line.
- Colours, layouts and font are tables. How the boot loader fills the memory map is firmware.

## Plan

Done, in this order: heap and page allocator with their common promise and proofs; the
bitmap under the page allocator; keyboard ring with proof; file system with its abstract store;
line editor with proof; stub, console, echo, snake; the full disk, the shell's commands against
the working directory, the order of the sector writes with power cuts; paths and 8.3 names; the
proofs about the bitmap, snake, console, the file system's clusters and paths; its refinement and the
shell's commands.

Next, by importance:

1. `SectorWrites`' `SectorsAddUp` as a theorem, on top of the layouts of `FileSystemProofs`.
2. Sectors that fail as one more outcome of `write_sector`, and of the reads between.
3. Line editor and console composed: a prompt whose screen shows the line.
4. The commands' memory on top of `Allocator`.

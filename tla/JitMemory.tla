----------------------------- MODULE JitMemory -----------------------------
(***************************************************************************)
(* Translated code: where it lies in host memory, how a guest address      *)
(* finds it, and how a store into the guest's code takes it back           *)
(* (jit/jit_memory.rs, jit_memory_map.rs, core/memory/mmu.rs, mem.rs).     *)
(*                                                                         *)
(* Each CPU owns a part of the host memory and allocates from a window     *)
(* that sweeps through it: when the window is used up the oldest blocks    *)
(* after it are dropped until a quarter of the part is free again.  One    *)
(* table, shared by the CPUs, holds per guest halfword the block to enter  *)
(* there, or the translator itself.  Guest memory is watched in pages: a   *)
(* live bit per page says that the table has blocks in it, and a page that *)
(* holds ARM9 code in main memory loses its write permission, so that a    *)
(* store there takes the slow path, which resets the page's entries.       *)
(* The ARM9 has that permission twice, in a table of pages for calls and    *)
(* in the host's own page protection for the stores of translated code.    *)
(* Writes to CP15 that move a TCM map both anew, over blocks that stay.    *)
(*                                                                         *)
(* A slot stands for the guest instructions one entry is kept for; what    *)
(* the memory holds there is abstracted to whether an entry is older than  *)
(* the last store into its page.  The write permissions are those of the   *)
(* aarch64 build, which protects ARM9 code in main memory in every mode.   *)
(* ITCM is treated like main memory, with one CPU that sees it; each page  *)
(* has one address, without its mirrors.                                   *)
(***************************************************************************)
EXTENDS Integers, Sequences

CONSTANTS
    ARM9, ARM7,
    Size,          \* [Cpus -> Nat]: host pages of each CPU's part
    BlockPages,    \* [Cpus -> SUBSET Nat]: host pages a block may need
    SlotsPerPage,  \* slots of a live page (256 bytes)
    LivePerMmu,    \* live pages of an MMU page (4 KB)
    MmuPerFast,    \* MMU pages of a page of the fast memory (16 KB)
    MainPages,     \* number of live pages of main memory
    VramPages,     \* number of live pages of VRAM, numbered after them
    Code           \* [Cpus -> set of <<first, last>> slots a block may span]

Cpus == {ARM9, ARM7}
Pages == 0 .. MainPages + VramPages - 1
Slots == 0 .. (MainPages + VramPages) * SlotsPerPage - 1
PageOf(s) == s \div SlotsPerPage
MmuPageOf(s) == PageOf(s) \div LivePerMmu
MmuPages == {p \div LivePerMmu : p \in 0 .. MainPages - 1}
InMain(s) == PageOf(s) < MainPages

\* The first MMU page of the page of the fast memory that m lies in.
FirstMmu(m) == (m \div MmuPerFast) * MmuPerFast

\* JIT_MEMORY_SIZE is cut in two, the ARM9's part first.
RegionStart(c) == IF c = ARM9 THEN 0 ELSE Size[ARM9]
RegionEnd(c) == RegionStart(c) + Size[c]
HostPages == 0 .. Size[ARM9] + Size[ARM7] - 1
RegionOf(c) == RegionStart(c) .. RegionEnd(c) - 1

\* DEFAULT_JIT_ENTRY: the entry that calls the translator.
Default == -1

\* JitBlockMetadata: the host pages from up to to, the slots lo to hi.
Block == [from : Nat, to : Nat, lo : Slots, hi : Slots]

ASSUME JitAssumption ==
    /\ ARM9 # ARM7
    /\ Size \in [Cpus -> Nat] /\ \A c \in Cpus : Size[c] >= 4
    /\ \A c \in Cpus : BlockPages[c] \subseteq 1 .. Size[c]
    /\ SlotsPerPage \in Nat \ {0}
    /\ LivePerMmu \in Nat \ {0}
    /\ MmuPerFast \in Nat \ {0}
    /\ MainPages \in Nat /\ VramPages \in Nat
    /\ \A c \in Cpus : \A r \in Code[c] :
           /\ r \in Slots \X Slots
           /\ r[1] <= r[2]
           /\ InMain(r[1]) <=> InMain(r[2])

VARIABLES
    start, end,   \* each CPU's window of free host pages, start up to end
    jit_funcs,    \* each CPU's blocks, oldest first
    entries,      \* per slot the host page of the block to enter, or Default
    live,         \* the live pages that may have entries
    writable,     \* per CPU the MMU pages its table lets a store into
    fastmem,      \* the MMU pages the ARM9's fast memory lets a store into
    stale,        \* the entries older than the last store into their page
    remapped      \* history: the MMU pages last mapped with live pages in them

vars == <<start, end, jit_funcs, entries, live, writable, fastmem, stale,
          remapped>>

Range(b) == b.lo .. b.hi
SlotsOf(p) == {s \in Slots : PageOf(s) = p}

TypeOK ==
    /\ start \in [Cpus -> Nat]
    /\ end \in [Cpus -> Nat]
    /\ jit_funcs \in [Cpus -> Seq(Block)]
    /\ entries \in [Slots -> HostPages \cup {Default}]
    /\ live \in SUBSET Pages
    /\ writable \in [Cpus -> SUBSET MmuPages]
    /\ fastmem \in SUBSET MmuPages
    /\ stale \in SUBSET Slots
    /\ remapped \in SUBSET MmuPages

\* JitMemory::init; VRAM is in no MMU table, main memory is writable.
Init ==
    /\ start = [c \in Cpus |-> RegionStart(c)]
    /\ end = [c \in Cpus |-> RegionEnd(c)]
    /\ jit_funcs = [c \in Cpus |-> <<>>]
    /\ entries = [s \in Slots |-> Default]
    /\ live = {}
    /\ writable = [c \in Cpus |-> MmuPages]
    /\ fastmem = MmuPages
    /\ stale = {}
    /\ remapped = {}

-----------------------------------------------------------------------------
\* write_jit_entries for a set of slots.
WriteEntries(table, slots, value) ==
    [s \in Slots |-> IF s \in slots THEN value ELSE table[s]]

\* Mutant of StopsAfter: the sweep does not stop at the end of the region.
StopsAfterQuarter(q, c, k) == q[k].to - q[1].from >= Size[c] \div 4

\* reset_blocks stops popping from queue q when a quarter of the region is
\* free, or when the next block lies before the ones freed.
StopsAfter(q, c, k) ==
    \/ q[k].to - q[1].from >= Size[c] \div 4
    \/ k < Len(q) /\ q[k + 1].to < q[1].from

\* The number of blocks it pops; none when the queue runs empty first.
FreedCounts(q, c) ==
    {k \in 1 .. Len(q) : /\ StopsAfter(q, c, k)
                         /\ \A j \in 1 .. k - 1 : ~StopsAfter(q, c, j)}

\* The newest block is stretched to the end of the region when the next one
\* does not fit before it, so that the tail is freed with it later.
StretchBack(q, c, n) ==
    IF start[c] + n > RegionEnd(c)
    THEN [q EXCEPT ![Len(q)].to = RegionEnd(c)]
    ELSE q

\* Mutant of Allocated: the window reaches to the end of the region.
AllocatedToMaxEnd(c, n) ==
    IF start[c] + n <= end[c]
    THEN [from |-> start[c], end |-> end[c], kept |-> jit_funcs[c],
          freed |-> <<>>]
    ELSE LET q == StretchBack(jit_funcs[c], c, n)
             k == CHOOSE m \in FreedCounts(q, c) : TRUE
         IN  [from |-> q[1].from, end |-> RegionEnd(c),
              kept |-> SubSeq(q, k + 1, Len(q)), freed |-> SubSeq(q, 1, k)]

\* allocate_block: the window, the remaining and the freed blocks it leaves.
Allocated(c, n) ==
    IF start[c] + n <= end[c]
    THEN [from |-> start[c], end |-> end[c], kept |-> jit_funcs[c],
          freed |-> <<>>]
    ELSE LET q == StretchBack(jit_funcs[c], c, n)
             k == CHOOSE m \in FreedCounts(q, c) : TRUE
         IN  [from |-> q[1].from, end |-> q[k].to,
              kept |-> SubSeq(q, k + 1, Len(q)), freed |-> SubSeq(q, 1, k)]

\* Mutant of FreedSlots: the loop of reset_blocks drops a block without
\* resetting its entries.
FreedSlotsFirst(freed) == UNION {Range(freed[i]) : i \in {1} \cap 1 .. Len(freed)}

\* The slots whose entries reset_blocks sets back to the translator: the whole
\* range of each block, also where a newer block's entries have replaced them.
FreedSlots(freed) == UNION {Range(freed[i]) : i \in 1 .. Len(freed)}

\* What allocate_block asserts before it hands the pages out, and that the
\* queue does not run empty (unwrap) before.
Fits(c, n) ==
    \/ start[c] + n <= end[c]
    \/ /\ jit_funcs[c] # <<>>
       /\ FreedCounts(StretchBack(jit_funcs[c], c, n), c) # {}
       /\ Allocated(c, n).from + n <= Allocated(c, n).end

\* Mutant of Protected: only the ARM9's own stores are caught.
ProtectedArm9(c, lo, hi) ==
    IF c = ARM9 /\ InMain(lo)
    THEN [writable EXCEPT ![ARM9] = @ \ (MmuPageOf(lo) .. MmuPageOf(hi))]
    ELSE writable

\* jit_protect_region: ITCM and main memory lose their write permission
\* under ARM9 code, for both CPUs in main memory.
Protected(c, lo, hi) ==
    IF c = ARM9 /\ InMain(lo)
    THEN [d \in Cpus |-> writable[d] \ (MmuPageOf(lo) .. MmuPageOf(hi))]
    ELSE writable

\* remove_mmu_write_entry protects the fast memory too, but returns early for
\* a page that the ARM9's table does not let a store into any more.
FastProtected(c, lo, hi) ==
    IF c = ARM9 /\ InMain(lo)
    THEN fastmem \ (writable[ARM9] \cap (MmuPageOf(lo) .. MmuPageOf(hi)))
    ELSE fastmem

\* jit_insert_block, called from the translator's own entry: allocation,
\* with the entries of freed blocks reset, then the block's entries, its
\* place in the queue, its live bits and the write permission.
jit_insert_block(c, lo, hi, n) ==
    LET a == Allocated(c, n)
        b == [from |-> a.from, to |-> a.from + n, lo |-> lo, hi |-> hi]
    IN  /\ <<lo, hi>> \in Code[c]
        /\ n \in BlockPages[c]
        /\ entries[lo] = Default
        /\ Fits(c, n)
        /\ start' = [start EXCEPT ![c] = a.from + n]
        /\ end' = [end EXCEPT ![c] = a.end]
        /\ jit_funcs' = [jit_funcs EXCEPT ![c] = Append(a.kept, b)]
        /\ entries' = WriteEntries(
                          WriteEntries(entries, FreedSlots(a.freed), Default),
                          Range(b), a.from)
        /\ live' = live \cup (PageOf(lo) .. PageOf(hi))
        /\ writable' = Protected(c, lo, hi)
        /\ fastmem' = FastProtected(c, lo, hi)
        /\ UNCHANGED remapped
        /\ stale' = {s \in stale \ Range(b) : entries'[s] # Default}

\* The contents of a page change: the entries left in it are older.
Stored(pages) ==
    stale' = {s \in stale \cup UNION {SlotsOf(p) : p \in pages} :
                  entries'[s] # Default}

\* invalidate_block and invalidate_blocks: the entries of the given pages
\* that are live.
Invalidated(pages) ==
    /\ entries' = WriteEntries(entries,
                               UNION {SlotsOf(p) : p \in pages \cap live},
                               Default)
    /\ live' = live \ pages

\* A store through mem_write_internal: directly when the MMU table lets it,
\* else through write_main or write_vram, which invalidate.
mem_write(c, s) ==
    /\ IF InMain(s) /\ MmuPageOf(s) \in writable[c]
       THEN UNCHANGED <<entries, live>>
       ELSE Invalidated({PageOf(s)})
    /\ Stored({PageOf(s)})
    /\ UNCHANGED <<start, end, jit_funcs, writable, fastmem, remapped>>

\* A store by translated code of the ARM9 straight into its fast memory; one
\* that the memory does not let through is patched into a call of mem_write.
\* The ARM7's fast memory always agrees with its table.
fast_write(s) ==
    /\ InMain(s) /\ MmuPageOf(s) \in fastmem
    /\ UNCHANGED <<start, end, jit_funcs, entries, live, writable, fastmem,
                   remapped>>
    /\ Stored({PageOf(s)})

\* fs_clear_overlay_image_hook: the overlay's pages are invalidated before
\* the game loads another one over them; the load itself is other stores.
invalidate_blocks(first, last) ==
    /\ Invalidated(first .. last)
    /\ Stored({})
    /\ UNCHANGED <<start, end, jit_funcs, writable, fastmem, remapped>>

\* A VRAM bank is mapped elsewhere: all its contents change, and
\* invalidate_vram resets its entries when any of its pages is live.
invalidate_vram ==
    LET vram == {p \in Pages : p >= MainPages}
    IN  /\ vram # {}
        /\ IF vram \cap live # {}
           THEN /\ entries' = WriteEntries(entries,
                                  UNION {SlotsOf(p) : p \in vram}, Default)
                /\ live' = live \ vram
           ELSE UNCHANGED <<entries, live>>
        /\ Stored(vram)
        /\ UNCHANGED <<start, end, jit_funcs, writable, fastmem, remapped>>

\* update_tcm_arm9 asks of the first 256 bytes of a page only.
has_jit_block(m) == m * LivePerMmu \in live

\* Its two loops over a set of MMU pages, by pages of the table and by pages
\* of the fast memory, and what the history keeps of them.
TableMapped(pages) ==
    (writable[ARM9] \ pages) \cup {m \in pages : ~has_jit_block(m)}
FastMapped(pages) ==
    (fastmem \ pages) \cup {m \in pages : ~has_jit_block(FirstMmu(m))}
Remapped(pages) ==
    (remapped \ pages) \cup {m \in pages : \E p \in live : p \div LivePerMmu = m}

\* A write to CP15 has switched, moved or resized a TCM: the pages of the fast
\* memory from first to last that it covers, or did, are mapped anew.  Where
\* the TCM hides main memory no store gets there until it is mapped again.
update_tcm_arm9(first, last) ==
    LET pages == {m \in MmuPages : m \div MmuPerFast \in first .. last}
    IN  /\ writable' = [writable EXCEPT ![ARM9] = TableMapped(pages)]
        /\ fastmem' = FastMapped(pages)
        /\ remapped' = Remapped(pages)
        /\ UNCHANGED <<start, end, jit_funcs, entries, live, stale>>

\* savestate_post_load: mmu_update_all maps all main memory anew, then init
\* drops every block.
savestate_post_load ==
    /\ start' = [c \in Cpus |-> RegionStart(c)]
    /\ end' = [c \in Cpus |-> RegionEnd(c)]
    /\ jit_funcs' = [c \in Cpus |-> <<>>]
    /\ entries' = [s \in Slots |-> Default]
    /\ live' = {}
    /\ writable' = [c \in Cpus |->
                        IF c = ARM9 THEN TableMapped(MmuPages) ELSE MmuPages]
    /\ fastmem' = FastMapped(MmuPages)
    /\ stale' = {}
    /\ remapped' = Remapped(MmuPages)

Next ==
    \/ \E c \in Cpus : \E r \in Code[c] : \E n \in BlockPages[c] :
           jit_insert_block(c, r[1], r[2], n)
    \/ \E c \in Cpus, s \in Slots : mem_write(c, s)
    \/ \E s \in Slots : fast_write(s)
    \/ \E p \in 0 .. MainPages - 1 : \E q \in p .. MainPages - 1 :
           invalidate_blocks(p, q)
    \/ invalidate_vram
    \/ \E m, n \in MmuPages :
           m <= n /\ update_tcm_arm9(m \div MmuPerFast, n \div MmuPerFast)
    \/ savestate_post_load

Spec == Init /\ [][Next]_vars

-----------------------------------------------------------------------------
\* The CPU whose part a host page belongs to.
Owner(h) == IF h < Size[ARM9] THEN ARM9 ELSE ARM7

\* Entries lead to blocks that are still there: the block's code begins at
\* that host page and was translated from a range that has the slot, however
\* often reset_blocks has reused the memory.
EntriesLive ==
    \A s \in Slots : entries[s] # Default =>
        \E i \in 1 .. Len(jit_funcs[Owner(entries[s])]) :
            /\ jit_funcs[Owner(entries[s])][i].from = entries[s]
            /\ s \in Range(jit_funcs[Owner(entries[s])][i])

\* The blocks in use and the window the next ones come from overlap nowhere:
\* no block is written over while an entry may lead to it.
BlocksApart ==
    \A c \in Cpus :
        /\ \A i, j \in 1 .. Len(jit_funcs[c]) : i < j =>
               \/ jit_funcs[c][i].to <= jit_funcs[c][j].from
               \/ jit_funcs[c][j].to <= jit_funcs[c][i].from
        /\ \A i \in 1 .. Len(jit_funcs[c]) :
               \/ jit_funcs[c][i].to <= start[c]
               \/ end[c] <= jit_funcs[c][i].from

\* An allocation never fails: what allocate_block asserts after it has dropped
\* the oldest blocks.
AllocationFits == \A c \in Cpus : \A n \in BlockPages[c] : Fits(c, n)

\* Both has_jit_block of update_tcm_arm9 look at the live page of this slot.
Checked(s) ==
    /\ PageOf(s) = MmuPageOf(s) * LivePerMmu
    /\ MmuPageOf(s) = FirstMmu(MmuPageOf(s))

\* A store into the slot's page may go unseen by the ARM9's code there: the MMU
\* page was last mapped over blocks, which has_jit_block may have overlooked.
Overlooked(s) == MmuPageOf(s) \in remapped /\ ~Checked(s)

\* Code of the ARM9 in main memory, and all code in VRAM, is never entered
\* through an entry older than a store into its page: every store into a page
\* that has such entries is seen and takes them back, unless update_tcm_arm9
\* last mapped the page with blocks in it, and even then in the 256 bytes it
\* looks at.
StoresSeen ==
    \A s \in stale : InMain(s) /\ (Owner(entries[s]) = ARM7 \/ Overlooked(s))

-----------------------------------------------------------------------------
(* The inductive invariant behind them.                                    *)

\* The window sweeps through the region: the first j blocks of the queue lie
\* after it, the ones allocated since it last began at the front before it,
\* both in the order of their addresses.
Parts(c, j) ==
    /\ \A i \in 1 .. j : end[c] <= jit_funcs[c][i].from
    /\ \A i \in j + 1 .. Len(jit_funcs[c]) : jit_funcs[c][i].to <= start[c]
    /\ \A i, k \in 1 .. Len(jit_funcs[c]) :
           i < k /\ (k <= j \/ j < i) =>
               jit_funcs[c][i].to <= jit_funcs[c][k].from

\* Window and blocks lie in the CPU's own part of the memory.
InRegion(c) ==
    /\ RegionStart(c) <= start[c] /\ start[c] <= end[c]
    /\ end[c] <= RegionEnd(c)
    /\ \A i \in 1 .. Len(jit_funcs[c]) :
           /\ RegionStart(c) <= jit_funcs[c][i].from
           /\ jit_funcs[c][i].from < jit_funcs[c][i].to
           /\ jit_funcs[c][i].to <= RegionEnd(c)

Swept == \A c \in Cpus : InRegion(c) /\ \E j \in 0 .. Len(jit_funcs[c]) : Parts(c, j)

\* A page with entries has its live bit.
LiveBitCovers == \A s \in Slots : entries[s] # Default => PageOf(s) \in live

\* No CPU stores directly into a page of main memory with code of the ARM9 that
\* update_tcm_arm9 has not overlooked.
Watched ==
    \A s \in Slots :
        entries[s] # Default /\ InMain(s) /\ Owner(entries[s]) = ARM9 =>
            /\ MmuPageOf(s) \notin writable[ARM7]
            /\ MmuPageOf(s) \in writable[ARM9] \cup fastmem => Overlooked(s)

\* Elsewhere the fast memory lets no store through that the table does not, so
\* that the early return of remove_mmu_write_entry leaves nothing unprotected.
InStep ==
    \A m \in MmuPages :
        m \in fastmem /\ (m \notin remapped \/ m = FirstMmu(m)) =>
            m \in writable[ARM9]

StaleEntered == \A s \in stale : entries[s] # Default

JitInv ==
    /\ TypeOK
    /\ Swept
    /\ EntriesLive
    /\ LiveBitCovers
    /\ Watched
    /\ InStep
    /\ StaleEntered
    /\ StoresSeen
-----------------------------------------------------------------------------
(* What AllocationFits needs besides: how block sizes relate to the part.  *)

\* The part is cut in four exactly, and no block takes more than a fortieth of it.
SmallBlocks ==
    \A c \in Cpus : /\ Size[c] = 4 * (Size[c] \div 4)
                    /\ \A n \in BlockPages[c] : 40 * n <= Size[c]

Quarter(c) == Size[c] \div 4
Margin(c) == Size[c] \div 40

\* The m-th sweep since the window last began at the front ends between these.
Earliest(c, m) == RegionStart(c) + m * Quarter(c)
Latest(c, m) == RegionStart(c) + m * (Quarter(c) + 3 * Margin(c))

\* The queue f, of which j blocks lie after the window, ends where the window s up
\* to e begins, and begins again at the front of the part.
Wrapped(c, j, f, s, e) ==
    /\ f = <<>> => s = RegionStart(c) /\ e = RegionEnd(c)
    /\ f # <<>> => j < Len(f) /\ f[Len(f)].to = s /\ f[j + 1].from = RegionStart(c)
    /\ j = 0 => e = RegionEnd(c)
    /\ j > 0 => f[j].to = RegionEnd(c)

\* Only the last block before the end of the part has been stretched.
Short(c, j, f) == \A i \in 1 .. Len(f) : i # j => f[i].to - f[i].from <= Margin(c)

\* The next sweep begins after m sweeps of a quarter each and not much later.
Phased(c, f, e) ==
    \E m \in 1 .. 3 :
        /\ Earliest(c, m) <= e
        /\ \/ f[1].from < Latest(c, m) - Margin(c)
           \/ e = f[1].from /\ e < Latest(c, m)

\* Pages that no block uses do not push the end of a sweep beyond its latest.
GapsBounded(c, j, f) ==
    \A k \in 1 .. Len(f) - 1, m \in 1 .. 3 :
        k # j /\ f[k].to < Latest(c, m) - 2 * Margin(c) =>
            f[k + 1].from < Latest(c, m) - Margin(c)

\* No block has unused pages on both sides.
GapsApart(j, f) ==
    \A k \in 2 .. Len(f) - 1 :
        k # j /\ k - 1 # j => f[k - 1].to = f[k].from \/ f[k].to = f[k + 1].from

\* A block that does not follow another one directly is the first of its window,
\* which was a quarter long or reached to the end of the part.
Roomy(c, j, f, e) ==
    Len(f) = j + 1 \/ f[Len(f) - 1].to # f[Len(f)].from =>
        e = RegionEnd(c) \/ e >= f[Len(f)].from + Quarter(c)

Tidy(c, j, f, s, e) ==
    /\ Wrapped(c, j, f, s, e)
    /\ Short(c, j, f)
    /\ j > 0 => Phased(c, f, e)
    /\ GapsBounded(c, j, f)
    /\ GapsApart(j, f)
    /\ f # <<>> => Roomy(c, j, f, e)

\* The strengthening behind AllocationFits for small blocks.
Paced ==
    \A c \in Cpus : \E j \in 0 .. Len(jit_funcs[c]) :
        Parts(c, j) /\ Tidy(c, j, jit_funcs[c], start[c], end[c])
=============================================================================

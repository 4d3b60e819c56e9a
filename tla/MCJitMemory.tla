---------------------------- MODULE MCJitMemory ----------------------------
EXTENDS JitMemory, TLC

\* Five blocks fill the ARM9's part and a quarter takes two: each sweep frees two,
\* two and one.  The ARM7's part holds one block and a page no block fits into.
MCSize == ARM9 :> 20 @@ ARM7 :> 5
MCBlockPages == ARM9 :> {4} @@ ARM7 :> {4}

\* Five pages of main memory in three MMU pages, the last of them alone in its
\* page of the fast memory, and a page of VRAM; a slot each.  The ARM9's blocks
\* fill the second MMU page, or span its border with the third, which is also one of
\* the fast memory's pages.  The ARM7's lie in the third, or in VRAM.
MCCode == ARM9 :> {<<2, 3>>, <<3, 4>>}
       @@ ARM7 :> {<<4, 4>>, <<5, 5>>}
=============================================================================

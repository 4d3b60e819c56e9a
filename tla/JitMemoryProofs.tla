-------------------------- MODULE JitMemoryProofs --------------------------
(***************************************************************************)
(* Proofs about JitMemory, for every size of the host memory, every set of *)
(* block sizes and every layout of the guest's code.                       *)
(***************************************************************************)
EXTENDS JitMemory, WellFoundedInduction, TLAPS

(* Division *)

\* What division by a positive number returns.
LEMMA DivFacts ==
    ASSUME NEW d \in Nat, d > 0, NEW a \in Nat
    PROVE  /\ a \div d \in Nat
           /\ d * (a \div d) <= a
           /\ a < d * ((a \div d) + 1)
  BY Z3

\* Multiplication is monotone.
LEMMA MulMono ==
    ASSUME NEW d \in Nat, NEW x \in Nat, NEW y \in Nat, x <= y
    PROVE  d * x <= d * y
  BY Z3

\* So is division.
LEMMA DivMono ==
    ASSUME NEW d \in Nat, d > 0, NEW a \in Nat, NEW b \in Nat, a <= b
    PROVE  a \div d <= b \div d
  <1>1. a \div d \in Nat /\ b \div d \in Nat
    BY DivFacts
  <1> SUFFICES ASSUME b \div d < a \div d PROVE FALSE
    BY <1>1
  <1>2. d * ((b \div d) + 1) <= d * (a \div d)
    BY <1>1, MulMono
  <1> QED
    BY <1>1, <1>2, DivFacts

\* A number below a product has its quotient below the other factor.
LEMMA DivBound ==
    ASSUME NEW d \in Nat, d > 0, NEW m \in Nat, NEW a \in Nat, a < m * d
    PROVE  a \div d < m
  <1>1. a \div d \in Nat
    BY DivFacts
  <1> SUFFICES ASSUME m <= a \div d PROVE FALSE
    BY <1>1
  <1>2. d * m <= d * (a \div d)
    BY <1>1, MulMono
  <1>3. d * m = m * d
    BY Z3
  <1> QED
    BY <1>1, <1>2, <1>3, DivFacts

\* A product has its factor as quotient.
LEMMA DivProduct ==
    ASSUME NEW d \in Nat, d > 0, NEW m \in Nat
    PROVE  (m * d) \div d = m
  <1> DEFINE q == (m * d) \div d
  <1>1. m * d = d * m /\ d * m \in Nat
    BY Z3
  <1>2. q \in Nat /\ d * q <= d * m /\ d * m < d * (q + 1)
    BY <1>1, DivFacts
  <1> HIDE DEF q
  <1>3. CASE q < m
    <2>1. d * (q + 1) <= d * m
      BY <1>2, <1>3, MulMono
    <2> QED
      BY <1>1, <1>2, <2>1, Z3
  <1>4. CASE m < q
    <2>1. d * (m + 1) <= d * q
      BY <1>2, <1>4, MulMono
    <2> QED
      BY <1>1, <1>2, <2>1, Z3
  <1> QED
    BY <1>2, <1>3, <1>4 DEF q

-----------------------------------------------------------------------------
(* Constants *)

\* The two CPUs and their parts of the memory.
LEMMA Regions ==
    ASSUME NEW c \in Cpus
    PROVE  /\ Size[c] \in Nat /\ Size[c] >= 4
           /\ Size[ARM9] \in Nat /\ Size[ARM7] \in Nat
           /\ RegionStart(c) \in Nat /\ RegionEnd(c) \in Nat
           /\ RegionEnd(c) = RegionStart(c) + Size[c]
           /\ RegionEnd(c) <= Size[ARM9] + Size[ARM7]
           /\ ARM9 \in Cpus /\ ARM7 \in Cpus
           /\ Size[c] \div 4 \in Nat /\ Size[c] \div 4 >= 1
           /\ BlockPages[c] \subseteq Nat \ {0}
           /\ \A h \in Nat : RegionStart(c) <= h /\ h < RegionEnd(c) =>
                  Owner(h) = c /\ h \in HostPages
  BY JitAssumption DEF Cpus, RegionStart, RegionEnd, Owner, HostPages

\* Slots and pages.
LEMMA PageType ==
    ASSUME NEW s \in Slots
    PROVE  /\ s \in Nat /\ PageOf(s) \in Nat /\ PageOf(s) \in Pages
           /\ MmuPageOf(s) \in Nat
  <1>1. s \in Nat /\ s < (MainPages + VramPages) * SlotsPerPage
    BY JitAssumption DEF Slots
  <1>2. PageOf(s) \in Nat /\ PageOf(s) < MainPages + VramPages
    BY <1>1, JitAssumption, DivFacts, DivBound DEF PageOf
  <1> QED
    BY <1>1, <1>2, JitAssumption, DivFacts DEF Pages, MmuPageOf

\* The slots of a block lie between its first and last page, and in one region.
LEMMA CodeRange ==
    ASSUME NEW c \in Cpus, NEW lo, NEW hi, <<lo, hi>> \in Code[c]
    PROVE  /\ lo \in Slots /\ hi \in Slots /\ lo <= hi
           /\ lo .. hi \subseteq Slots
           /\ \A s \in lo .. hi :
                  /\ PageOf(s) \in PageOf(lo) .. PageOf(hi)
                  /\ MmuPageOf(s) \in MmuPageOf(lo) .. MmuPageOf(hi)
                  /\ InMain(s) <=> InMain(lo)
  <1>1. lo \in Slots /\ hi \in Slots /\ lo <= hi /\ (InMain(lo) <=> InMain(hi))
    BY JitAssumption, Zenon
  <1>2. lo .. hi \subseteq Slots
    BY <1>1, JitAssumption DEF Slots
  <1>3. ASSUME NEW s \in lo .. hi
        PROVE  PageOf(lo) <= PageOf(s) /\ PageOf(s) <= PageOf(hi)
    BY <1>1, <1>2, <1>3, PageType, DivMono, JitAssumption DEF PageOf
  <1>4. ASSUME NEW s \in lo .. hi
        PROVE  MmuPageOf(lo) <= MmuPageOf(s) /\ MmuPageOf(s) <= MmuPageOf(hi)
    <2>1. /\ PageOf(lo) \in Nat /\ PageOf(s) \in Nat /\ PageOf(hi) \in Nat
          /\ PageOf(lo) <= PageOf(s) /\ PageOf(s) <= PageOf(hi)
          /\ LivePerMmu \in Nat /\ LivePerMmu > 0
      BY <1>1, <1>2, <1>3, <1>4, PageType, JitAssumption
    <2> QED
      BY <2>1, DivMono DEF MmuPageOf
  <1>5. ASSUME NEW s \in lo .. hi
        PROVE  InMain(s) <=> InMain(lo)
    BY <1>1, <1>2, <1>3, PageType, JitAssumption DEF InMain
  <1> QED
    BY <1>1, <1>2, <1>3, <1>4, <1>5, PageType

-----------------------------------------------------------------------------
(* The allocator *)

\* A block with another end.
LEMMA StretchedBlock ==
    ASSUME NEW b \in Block, NEW e \in Nat
    PROVE  /\ [b EXCEPT !.to = e] \in Block
           /\ [b EXCEPT !.to = e].to = e
           /\ [b EXCEPT !.to = e].from = b.from
           /\ [b EXCEPT !.to = e].lo = b.lo
           /\ [b EXCEPT !.to = e].hi = b.hi
  BY DEF Block

\* The CPU's queue, but for where its newest block ends.
Stretched(c, n, q) ==
    /\ q \in Seq(Block) /\ Len(q) = Len(jit_funcs[c])
    /\ Len(q) \in Nat \ {0}
    /\ \A i \in 1 .. Len(q) :
           /\ q[i] \in Block
           /\ q[i].from = jit_funcs[c][i].from
           /\ q[i].lo = jit_funcs[c][i].lo
           /\ q[i].hi = jit_funcs[c][i].hi
           /\ i # Len(q) \/ start[c] + n <= RegionEnd(c) =>
                  q[i].to = jit_funcs[c][i].to
           /\ i = Len(q) /\ start[c] + n > RegionEnd(c) =>
                  q[i].to = RegionEnd(c)

\* Stretching the newest block changes only where it ends.
LEMMA StretchFacts ==
    ASSUME TypeOK, NEW c \in Cpus, NEW n \in Nat, jit_funcs[c] # <<>>,
           NEW q, q = StretchBack(jit_funcs[c], c, n)
    PROVE  Stretched(c, n, q)
  <1> DEFINE f == jit_funcs[c]
  <1>1. f \in Seq(Block) /\ Len(f) \in Nat \ {0}
    BY DEF TypeOK
  <1>2. \A i \in 1 .. Len(f) : f[i] \in Block
    BY <1>1
  <1>3. RegionEnd(c) \in Nat /\ start[c] \in Nat
    BY Regions DEF TypeOK
  <1>4. CASE start[c] + n > RegionEnd(c)
    <2>1. q = [f EXCEPT ![Len(f)] = [f[Len(f)] EXCEPT !.to = RegionEnd(c)]]
      BY <1>4 DEF StretchBack
    <2>2. [f[Len(f)] EXCEPT !.to = RegionEnd(c)] \in Block
      BY <1>1, <1>2, <1>3, StretchedBlock
    <2>3. q \in Seq(Block) /\ Len(q) = Len(f)
      BY <1>1, <2>1, <2>2
    <2>4. \A i \in 1 .. Len(f) :
              q[i] = IF i = Len(f) THEN [f[Len(f)] EXCEPT !.to = RegionEnd(c)] ELSE f[i]
      BY <1>1, <2>1
    <2>5. ASSUME NEW i \in 1 .. Len(f), i # Len(f)
          PROVE  q[i] = f[i] /\ f[i] \in Block
      BY <1>2, <2>4, <2>5
    <2>6. /\ q[Len(f)] \in Block
          /\ q[Len(f)].from = f[Len(f)].from /\ q[Len(f)].to = RegionEnd(c)
          /\ q[Len(f)].lo = f[Len(f)].lo /\ q[Len(f)].hi = f[Len(f)].hi
      <3>1. q[Len(f)] = [f[Len(f)] EXCEPT !.to = RegionEnd(c)] /\ f[Len(f)] \in Block
        BY <1>1, <1>2, <2>4
      <3>2. \A b \in Block : /\ [b EXCEPT !.to = RegionEnd(c)] \in Block
                             /\ [b EXCEPT !.to = RegionEnd(c)].to = RegionEnd(c)
                             /\ [b EXCEPT !.to = RegionEnd(c)].from = b.from
                             /\ [b EXCEPT !.to = RegionEnd(c)].lo = b.lo
                             /\ [b EXCEPT !.to = RegionEnd(c)].hi = b.hi
        BY <1>3, StretchedBlock
      <3> HIDE DEF f
      <3> QED
        BY <3>1, <3>2, Zenon
    <2> QED
      BY <1>1, <1>3, <1>4, <2>3, <2>5, <2>6 DEF Stretched
  <1>5. CASE ~(start[c] + n > RegionEnd(c))
    <2>1. q = f
      BY <1>5 DEF StretchBack
    <2> QED
      BY <1>1, <1>2, <1>3, <1>5, <2>1 DEF Stretched
  <1> QED
    BY <1>4, <1>5

\* A sequence cut in two.
LEMMA CutFacts ==
    ASSUME NEW S, NEW s \in Seq(S), NEW k \in 1 .. Len(s)
    PROVE  /\ SubSeq(s, 1, k) \in Seq(S) /\ Len(SubSeq(s, 1, k)) = k
           /\ \A i \in 1 .. k : SubSeq(s, 1, k)[i] = s[i]
           /\ SubSeq(s, k + 1, Len(s)) \in Seq(S)
           /\ Len(SubSeq(s, k + 1, Len(s))) = Len(s) - k
           /\ \A i \in 1 .. Len(s) - k : SubSeq(s, k + 1, Len(s))[i] = s[i + k]
  <1>1. Len(s) \in Nat /\ k \in Nat /\ 1 <= k /\ k <= Len(s)
    OBVIOUS
  <1>2. Len(SubSeq(s, 1, k)) = k /\ Len(SubSeq(s, k + 1, Len(s))) = Len(s) - k
    BY <1>1
  <1>3. SubSeq(s, 1, k) \in Seq(S) /\ SubSeq(s, k + 1, Len(s)) \in Seq(S)
    BY <1>1
  <1>4. \A i \in 1 .. k : SubSeq(s, 1, k)[i] = s[i]
    BY <1>1
  <1>5. \A i \in 1 .. Len(s) - k : SubSeq(s, k + 1, Len(s))[i] = s[i + k]
    BY <1>1
  <1> QED
    BY <1>2, <1>3, <1>4, <1>5

\* An allocation after reset_blocks: it takes the host pages of the first k
\* blocks of q, the queue with its newest block stretched when it has to be.
TakenFrom(c, n, a, q, k) ==
    /\ Len(q) = Len(jit_funcs[c]) /\ Len(q) \in Nat
    /\ Stretched(c, n, q) /\ k \in FreedCounts(q, c)
    /\ k \in Nat /\ 1 <= k /\ k <= Len(q)
    /\ a.from = q[1].from /\ a.end = q[k].to /\ a.from + n <= a.end
    /\ a.kept \in Seq(Block) /\ Len(a.kept) = Len(q) - k
    /\ \A i \in 1 .. Len(a.kept) : a.kept[i] = q[i + k]
    /\ a.freed \in Seq(Block) /\ Len(a.freed) = k
    /\ \A i \in 1 .. k : a.freed[i] = q[i]
    /\ \A i \in 1 .. Len(q) :
           /\ q[i].from = jit_funcs[c][i].from
           /\ q[i].lo = jit_funcs[c][i].lo
           /\ q[i].hi = jit_funcs[c][i].hi
           /\ q[i].from \in Nat /\ q[i].to \in Nat
           /\ i # Len(q) \/ start[c] + n <= RegionEnd(c) =>
                  q[i].to = jit_funcs[c][i].to
           /\ q[i].to = jit_funcs[c][i].to \/ q[i].to = RegionEnd(c)

\* When the window is too small an allocation is one of these.
LEMMA AllocatedTakes ==
    ASSUME TypeOK, NEW c \in Cpus, NEW n \in Nat, Fits(c, n),
           ~(start[c] + n <= end[c]), NEW a, a = Allocated(c, n)
    PROVE  \E q \in Seq(Block), k \in Nat : TakenFrom(c, n, a, q, k)
  <1> DEFINE f == jit_funcs[c]
             q == StretchBack(f, c, n)
             k == CHOOSE m \in FreedCounts(q, c) : TRUE
  <1>1. start[c] \in Nat /\ end[c] \in Nat /\ RegionEnd(c) \in Nat
    BY Regions DEF TypeOK
  <1>2. /\ f # <<>> /\ FreedCounts(q, c) # {} /\ a.from + n <= a.end
        /\ a = [from |-> q[1].from, end |-> q[k].to,
                kept |-> SubSeq(q, k + 1, Len(q)), freed |-> SubSeq(q, 1, k)]
    BY DEF Fits, Allocated
  <1>3. /\ q \in Seq(Block) /\ Len(q) = Len(f) /\ Len(q) \in Nat \ {0}
        /\ \A i \in 1 .. Len(q) :
              /\ q[i] \in Block
              /\ q[i].from = f[i].from
              /\ q[i].lo = f[i].lo
              /\ q[i].hi = f[i].hi
              /\ i # Len(q) \/ start[c] + n <= RegionEnd(c) => q[i].to = f[i].to
              /\ i = Len(q) /\ start[c] + n > RegionEnd(c) => q[i].to = RegionEnd(c)
    <2>1. Stretched(c, n, q)
      BY <1>2, StretchFacts
    <2> HIDE DEF q
    <2> QED
      BY <2>1 DEF Stretched, f
  <1>4. k \in 1 .. Len(q) /\ k \in FreedCounts(q, c) /\ Stretched(c, n, q)
    BY <1>2, StretchFacts DEF FreedCounts
  <1> HIDE DEF q, k, f
  <1>5. /\ a.kept = SubSeq(q, k + 1, Len(q)) /\ a.freed = SubSeq(q, 1, k)
        /\ a.from = q[1].from /\ a.end = q[k].to
    <2> DEFINE w == q[1].from
               x == q[k].to
               y == SubSeq(q, k + 1, Len(q))
               z == SubSeq(q, 1, k)
    <2>1. a = [from |-> w, end |-> x, kept |-> y, freed |-> z]
      BY <1>2, Zenon
    <2> HIDE DEF w, x, y, z
    <2>2. a.from = w /\ a.end = x /\ a.kept = y /\ a.freed = z
      BY <2>1
    <2> QED
      BY <2>2, Zenon DEF w, x, y, z
  <1>6. /\ a.kept \in Seq(Block) /\ Len(a.kept) = Len(q) - k
        /\ \A i \in 1 .. Len(q) - k : a.kept[i] = q[i + k]
    <2>1. q \in Seq(Block) /\ k \in 1 .. Len(q)
      BY <1>3, <1>4
    <2>2. /\ SubSeq(q, k + 1, Len(q)) \in Seq(Block)
          /\ Len(SubSeq(q, k + 1, Len(q))) = Len(q) - k
          /\ \A i \in 1 .. Len(q) - k : SubSeq(q, k + 1, Len(q))[i] = q[i + k]
      BY <2>1, CutFacts
    <2> QED
      BY <2>2, <1>5, Zenon
  <1>7. /\ a.freed \in Seq(Block) /\ Len(a.freed) = k
        /\ \A i \in 1 .. k : a.freed[i] = q[i]
    <2>1. q \in Seq(Block) /\ k \in 1 .. Len(q)
      BY <1>3, <1>4
    <2>2. /\ SubSeq(q, 1, k) \in Seq(Block) /\ Len(SubSeq(q, 1, k)) = k
          /\ \A i \in 1 .. k : SubSeq(q, 1, k)[i] = q[i]
      BY <2>1, CutFacts
    <2> QED
      BY <2>2, <1>5, Zenon
  <1>8. \A i \in 1 .. Len(q) : q[i].from \in Nat /\ q[i].to \in Nat
    BY <1>3 DEF Block
  <1>9. \A i \in 1 .. Len(q) : q[i].to = f[i].to \/ q[i].to = RegionEnd(c)
    BY <1>1, <1>3
  <1>10. TakenFrom(c, n, a, q, k)
    BY <1>2, <1>3, <1>4, <1>5, <1>6, <1>7, <1>8, <1>9, SMTT(30) DEF TakenFrom, f
  <1> QED
    BY <1>3, <1>4, <1>10

\* What an allocation leaves: pages inside the CPU's region, and every block
\* either freed or kept.
SoundAllocation(c, n, a) ==
    /\ a.from \in Nat /\ a.end \in Nat /\ n \in Nat /\ n > 0
    /\ a.kept \in Seq(Block) /\ a.freed \in Seq(Block)
    /\ a.from + n <= a.end
    /\ RegionStart(c) <= a.from /\ a.end <= RegionEnd(c)
    /\ \A i \in 1 .. Len(a.kept) :
           /\ RegionStart(c) <= a.kept[i].from
           /\ a.kept[i].from < a.kept[i].to
           /\ a.kept[i].to <= RegionEnd(c)
    /\ \A i \in 1 .. Len(jit_funcs[c]) :
           \/ Range(jit_funcs[c][i]) \subseteq FreedSlots(a.freed)
           \/ \E j \in 1 .. Len(a.kept) :
                  /\ a.kept[j].from = jit_funcs[c][i].from
                  /\ Range(a.kept[j]) = Range(jit_funcs[c][i])

\* An allocation that fits leaves that.
LEMMA AllocatedFacts ==
    ASSUME TypeOK, NEW c \in Cpus, InRegion(c), NEW n \in BlockPages[c], Fits(c, n),
           NEW a, a = Allocated(c, n)
    PROVE  SoundAllocation(c, n, a)
  <1> DEFINE f == jit_funcs[c]
  <1>1. /\ n \in Nat /\ n > 0 /\ f \in Seq(Block) /\ start[c] \in Nat /\ end[c] \in Nat
        /\ RegionStart(c) \in Nat /\ RegionEnd(c) \in Nat
    <2>1. BlockPages[c] \subseteq Nat \ {0} /\ RegionStart(c) \in Nat /\ RegionEnd(c) \in Nat
      BY Regions
    <2>2. n \in Nat /\ n > 0
      BY <2>1
    <2> QED
      BY <2>1, <2>2 DEF TypeOK
  <1>2. CASE start[c] + n <= end[c]
    <2>1. a = [from |-> start[c], end |-> end[c], kept |-> f, freed |-> <<>>]
      BY <1>2 DEF Allocated
    <2> QED
      BY <1>1, <1>2, <2>1 DEF InRegion, SoundAllocation
  <1>3. CASE ~(start[c] + n <= end[c])
    <2>1. PICK q \in Seq(Block), k \in Nat : TakenFrom(c, n, a, q, k)
      BY <1>1, <1>3, AllocatedTakes
    <2>2. /\ Len(q) = Len(f) /\ Len(q) \in Nat /\ k \in Nat /\ 1 <= k /\ k <= Len(q)
          /\ a.from = q[1].from /\ a.end = q[k].to /\ a.from + n <= a.end
      BY <2>1 DEF TakenFrom
    <2>3. \A i \in 1 .. Len(q) :
              /\ q[i].from = f[i].from /\ Range(q[i]) = Range(f[i])
              /\ q[i].from \in Nat /\ q[i].to \in Nat
              /\ q[i].to = f[i].to \/ q[i].to = RegionEnd(c)
      BY <2>1 DEF TakenFrom, Range
    <2>4. ASSUME NEW i \in 1 .. Len(q)
          PROVE  /\ RegionStart(c) <= q[i].from
                 /\ q[i].from < q[i].to
                 /\ q[i].to <= RegionEnd(c)
      <3>1. f[i] \in Block /\ i \in 1 .. Len(f)
        BY <1>1, <2>2
      <3>2. f[i].to \in Nat /\ f[i].from \in Nat
        BY <3>1 DEF Block
      <3>3. RegionStart(c) <= f[i].from /\ f[i].from < f[i].to /\ f[i].to <= RegionEnd(c)
        BY <3>1 DEF InRegion
      <3>4. q[i].from = f[i].from /\ (q[i].to = f[i].to \/ q[i].to = RegionEnd(c))
        BY <2>3
      <3> DEFINE x == f[i].from
                 y == f[i].to
                 z == q[i].to
      <3>5. /\ x \in Nat /\ y \in Nat /\ RegionStart(c) <= x /\ x < y /\ y <= RegionEnd(c)
            /\ z = y \/ z = RegionEnd(c)
        BY <3>2, <3>3, <3>4
      <3>6. RegionStart(c) \in Nat /\ RegionEnd(c) \in Nat
        BY <1>1
      <3> HIDE DEF x, y, z
      <3>7. x < z /\ z <= RegionEnd(c)
        BY <3>5, <3>6
      <3> QED
        BY <3>4, <3>5, <3>7 DEF x, z
    <2>5. /\ a.kept \in Seq(Block) /\ Len(a.kept) = Len(q) - k
          /\ \A i \in 1 .. Len(a.kept) : a.kept[i] = q[i + k]
      BY <2>1 DEF TakenFrom
    <2>6. /\ a.freed \in Seq(Block) /\ Len(a.freed) = k
          /\ \A i \in 1 .. k : a.freed[i] = q[i]
      BY <2>1 DEF TakenFrom
    <2>7. /\ a.from \in Nat /\ a.end \in Nat
          /\ RegionStart(c) <= a.from /\ a.end <= RegionEnd(c)
      BY <2>2, <2>3, <2>4
    <2>8. \A i \in 1 .. Len(a.kept) : /\ RegionStart(c) <= a.kept[i].from
                                      /\ a.kept[i].from < a.kept[i].to
                                      /\ a.kept[i].to <= RegionEnd(c)
      BY <2>2, <2>3, <2>4, <2>5, SMTT(30)
    <2>9. ASSUME NEW i \in 1 .. Len(f)
          PROVE  \/ Range(f[i]) \subseteq FreedSlots(a.freed)
                 \/ \E j \in 1 .. Len(a.kept) :
                        a.kept[j].from = f[i].from /\ Range(a.kept[j]) = Range(f[i])
      <3>1. CASE i <= k
        <4>1. Range(f[i]) = Range(a.freed[i]) /\ i \in 1 .. Len(a.freed)
          BY <2>2, <2>3, <2>6, <2>9, <3>1
        <4> QED
          BY <4>1 DEF FreedSlots
      <3>2. CASE i > k
        <4>1. /\ i - k \in 1 .. Len(a.kept) /\ a.kept[i - k] = q[i]
          BY <2>2, <2>3, <2>5, <3>2
        <4> QED
          BY <2>2, <2>3, <2>9, <4>1
      <3> QED
        BY <2>2, <3>1, <3>2
    <2> QED
      BY <1>1, <2>2, <2>5, <2>6, <2>7, <2>8, <2>9 DEF SoundAllocation
  <1> QED
    BY <1>2, <1>3

\* The kept blocks around the new window: j of them after it, the rest before.
PartsAfter(a, j) ==
    /\ j \in 0 .. Len(a.kept)
    /\ \A i \in 1 .. j : a.end <= a.kept[i].from
    /\ \A i \in j + 1 .. Len(a.kept) : a.kept[i].to <= a.from
    /\ \A i, k \in 1 .. Len(a.kept) :
           i < k /\ (k <= j \/ j < i) => a.kept[i].to <= a.kept[k].from

\* How many of them, when there were j before the allocation.
KeptBehind(c, n, a, j) ==
    IF start[c] + n <= end[c] THEN j
    ELSE IF j = 0 THEN Len(a.kept) ELSE j - Len(a.freed)

\* An allocation from the window or from the blocks after it leaves the blocks
\* in two ordered parts again.
LEMMA AllocatedParts ==
    ASSUME TypeOK, NEW c \in Cpus, InRegion(c), NEW n \in BlockPages[c], Fits(c, n),
           NEW a, a = Allocated(c, n),
           NEW j \in 0 .. Len(jit_funcs[c]), Parts(c, j)
    PROVE  PartsAfter(a, KeptBehind(c, n, a, j))
  <1> DEFINE f == jit_funcs[c]
  <1>1. /\ n \in Nat /\ n > 0 /\ f \in Seq(Block) /\ start[c] \in Nat /\ end[c] \in Nat
        /\ RegionStart(c) \in Nat /\ RegionEnd(c) \in Nat
    <2>1. BlockPages[c] \subseteq Nat \ {0} /\ RegionStart(c) \in Nat /\ RegionEnd(c) \in Nat
      BY Regions
    <2>2. n \in Nat /\ n > 0
      BY <2>1
    <2> QED
      BY <2>1, <2>2 DEF TypeOK
  <1>2. /\ start[c] <= end[c] /\ end[c] <= RegionEnd(c)
        /\ \A i \in 1 .. Len(f) : /\ f[i].to \in Nat /\ f[i].from \in Nat
                                  /\ f[i].from < f[i].to
                                  /\ f[i].to <= RegionEnd(c)
    <2>1. \A i \in 1 .. Len(f) : f[i] \in Block
      BY <1>1
    <2> QED
      BY <2>1 DEF InRegion, Block
  <1>3. /\ \A i \in 1 .. j : end[c] <= f[i].from
        /\ \A i \in j + 1 .. Len(f) : f[i].to <= start[c]
        /\ \A i, k \in 1 .. Len(f) :
               i < k /\ (k <= j \/ j < i) => f[i].to <= f[k].from
    BY DEF Parts
  <1>4. Len(f) \in Nat /\ j \in Nat /\ j <= Len(f)
    BY <1>1
  <1>5. CASE start[c] + n <= end[c]
    <2>1. a = [from |-> start[c], end |-> end[c], kept |-> f, freed |-> <<>>]
      BY <1>5 DEF Allocated
    <2>2. a.from = start[c] /\ a.end = end[c] /\ a.kept = f
      BY <2>1
    <2>3. KeptBehind(c, n, a, j) = j
      BY <1>5 DEF KeptBehind
    <2> HIDE DEF f
    <2>4. PartsAfter(a, j)
      BY <1>3, <1>4, <2>2 DEF PartsAfter
    <2> QED
      BY <2>3, <2>4
  <1>6. CASE ~(start[c] + n <= end[c])
    <2>1. PICK q \in Seq(Block), k \in Nat : TakenFrom(c, n, a, q, k)
      BY <1>1, <1>6, AllocatedTakes
    <2>2. /\ Len(q) = Len(f) /\ Len(q) \in Nat /\ k \in Nat /\ 1 <= k /\ k <= Len(q)
          /\ a.from = q[1].from /\ a.end = q[k].to /\ a.from + n <= a.end
      BY <2>1 DEF TakenFrom
    <2>3. \A i \in 1 .. Len(q) :
              /\ q[i].from = f[i].from
              /\ q[i].from \in Nat /\ q[i].to \in Nat
              /\ i # Len(q) \/ start[c] + n <= RegionEnd(c) => q[i].to = f[i].to
              /\ q[i].to = f[i].to \/ q[i].to = RegionEnd(c)
      BY <2>1 DEF TakenFrom
    <2>4. /\ Len(a.kept) = Len(q) - k /\ Len(a.kept) \in Nat
          /\ \A i \in 1 .. Len(a.kept) : a.kept[i] = q[i + k]
      BY <2>1, <2>2, SMTT(30) DEF TakenFrom
    <2> HIDE DEF f
    <2>5. \A i \in 1 .. Len(a.kept) : i + k \in 1 .. Len(q)
      BY <2>2, <2>4
    <2>6. CASE j = 0
      <3>1. ASSUME NEW i \in 1 .. Len(q), NEW m \in 1 .. Len(q), i < m
            PROVE  q[i].to <= q[m].from
        <4>1. i # Len(q) /\ f[i].to <= f[m].from
          BY <1>3, <1>4, <2>2, <2>6, <3>1
        <4> QED
          BY <2>3, <4>1
      <3>2. ASSUME NEW i \in 1 .. Len(a.kept) PROVE a.end <= a.kept[i].from
        <4>1. i + k \in 1 .. Len(q) /\ k \in 1 .. Len(q) /\ k < i + k
          BY <2>2, <2>5
        <4> QED
          BY <2>2, <2>4, <3>1, <4>1
      <3>3. ASSUME NEW i \in 1 .. Len(a.kept), NEW m \in 1 .. Len(a.kept), i < m
            PROVE  a.kept[i].to <= a.kept[m].from
        <4>1. i + k \in 1 .. Len(q) /\ m + k \in 1 .. Len(q) /\ i + k < m + k
          BY <2>2, <2>5, <3>3
        <4> QED
          BY <2>4, <3>1, <4>1
      <3>4. PartsAfter(a, Len(a.kept))
        BY <2>4, <3>2, <3>3 DEF PartsAfter
      <3> QED
        BY <1>6, <2>6, <3>4 DEF KeptBehind
    <2>7. CASE j > 0
      <3>1. end[c] <= q[1].from /\ q[1].from \in Nat
        BY <1>3, <1>4, <2>2, <2>3, <2>7
      <3>2. start[c] + n <= RegionEnd(c)
        <4>1. q[k].to <= RegionEnd(c) /\ q[k].to \in Nat
          BY <1>1, <1>2, <2>2, <2>3
        <4>2. start[c] <= q[1].from /\ start[c] \in Nat
          BY <1>1, <1>2, <3>1
        <4>3. q[1].from + n <= q[k].to
          BY <2>2
        <4> QED
          BY <1>1, <3>1, <4>1, <4>2, <4>3, SMTT(30)
      <3>3. \A i \in 1 .. Len(q) : q[i].to = f[i].to /\ q[i].from = f[i].from
        BY <2>3, <3>2
      <3>4. k <= j
        <4> SUFFICES ASSUME k > j PROVE FALSE
          BY <1>4, <2>2
        <4>1. f[k].to <= start[c]
          BY <1>3, <1>4, <2>2
        <4>2. q[k].to <= start[c] /\ q[k].to \in Nat
          BY <2>2, <2>3, <3>3, <4>1
        <4>3. q[1].from + n <= q[k].to
          BY <2>2
        <4>4. start[c] <= q[1].from /\ start[c] \in Nat
          BY <1>1, <1>2, <3>1
        <4> QED
          BY <1>1, <3>1, <4>2, <4>3, <4>4, SMTT(30)
      <3>5. /\ k \in Nat /\ j \in Nat /\ Len(f) \in Nat /\ k \in 1 .. Len(f)
            /\ Len(a.kept) = Len(f) - k /\ Len(a.kept) \in Nat
            /\ j - k \in 0 .. Len(a.kept)
        BY <1>4, <2>2, <2>4, <3>4
      <3>6. \A i \in 1 .. Len(a.kept) :
                /\ i + k \in 1 .. Len(f)
                /\ a.kept[i].from = f[i + k].from /\ a.kept[i].to = f[i + k].to
        BY <2>2, <2>4, <2>5, <3>3
      <3>7. a.end = f[k].to /\ a.from = q[1].from
        BY <2>2, <3>3
      <3>8. ASSUME NEW i \in 1 .. j - k PROVE a.end <= a.kept[i].from
        <4>1. i \in 1 .. Len(a.kept) /\ i + k <= j /\ k < i + k
          BY <3>5
        <4>2. f[k].to <= f[i + k].from
          BY <1>3, <3>5, <3>6, <4>1
        <4> QED
          BY <3>6, <3>7, <4>1, <4>2
      <3>9. ASSUME NEW i \in j - k + 1 .. Len(a.kept) PROVE a.kept[i].to <= a.from
        <4>1. i \in 1 .. Len(a.kept) /\ i + k \in j + 1 .. Len(f)
          BY <3>5
        <4>2. f[i + k].to <= start[c] /\ f[i + k].to \in Nat
          BY <1>2, <1>3, <3>6, <4>1
        <4>3. a.kept[i].to = f[i + k].to
          BY <3>6, <4>1
        <4>4. start[c] <= a.from /\ start[c] \in Nat /\ a.from \in Nat
          BY <1>1, <1>2, <3>1, <3>7, SMTT(30)
        <4> DEFINE x == f[i + k].to
        <4>5. x \in Nat /\ x <= start[c]
          BY <4>2
        <4> HIDE DEF x
        <4>6. x <= a.from
          BY <4>4, <4>5
        <4> QED
          BY <4>3, <4>6 DEF x
      <3>10. ASSUME NEW i \in 1 .. Len(a.kept), NEW m \in 1 .. Len(a.kept),
                    i < m, m <= j - k \/ j - k < i
             PROVE  a.kept[i].to <= a.kept[m].from
        <4>1. i + k < m + k /\ (m + k <= j \/ j < i + k)
          BY <3>5, <3>10
        <4>2. f[i + k].to <= f[m + k].from
          BY <1>3, <3>6, <4>1
        <4> QED
          BY <3>6, <4>2
      <3>11. PartsAfter(a, j - k)
        BY <3>5, <3>8, <3>9, <3>10 DEF PartsAfter
      <3>12. KeptBehind(c, n, a, j) = j - k
        BY <1>4, <1>6, <2>1, <2>7 DEF KeptBehind, TakenFrom
      <3> QED
        BY <3>11, <3>12
    <2> QED
      BY <1>4, <2>6, <2>7
  <1> QED
    BY <1>5, <1>6

-----------------------------------------------------------------------------
(* Inserting a block *)

\* The block an insertion adds.
NewBlock(lo, hi, n, a) == [from |-> a.from, to |-> a.from + n, lo |-> lo, hi |-> hi]

\* The state after an insertion at the pages of allocation a.
Inserted(c, lo, hi, n, a) ==
    /\ Fits(c, n) /\ <<lo, hi>> \in Code[c]
    /\ start' = [start EXCEPT ![c] = a.from + n]
    /\ end' = [end EXCEPT ![c] = a.end]
    /\ jit_funcs' = [jit_funcs EXCEPT ![c] = Append(a.kept, NewBlock(lo, hi, n, a))]
    /\ entries' = [s \in Slots |-> IF s \in lo .. hi THEN a.from
                                   ELSE IF s \in FreedSlots(a.freed) THEN Default
                                   ELSE entries[s]]
    /\ live' = live \cup (PageOf(lo) .. PageOf(hi))
    /\ writable' = Protected(c, lo, hi)
    /\ fastmem' = FastProtected(c, lo, hi) /\ remapped' = remapped
    /\ stale' = {s \in stale \ (lo .. hi) : entries'[s] # Default}

\* An insertion leaves that.
LEMMA InsertedFacts ==
    ASSUME NEW c \in Cpus, NEW lo, NEW hi, NEW n \in BlockPages[c],
           jit_insert_block(c, lo, hi, n), NEW a, a = Allocated(c, n)
    PROVE  Inserted(c, lo, hi, n, a)
  <1>1. entries' = WriteEntries(WriteEntries(entries, FreedSlots(a.freed), Default),
                                lo .. hi, a.from)
    BY DEF jit_insert_block, Range
  <1>2. entries' = [s \in Slots |-> IF s \in lo .. hi THEN a.from
                                   ELSE IF s \in FreedSlots(a.freed) THEN Default
                                   ELSE entries[s]]
    BY <1>1 DEF WriteEntries
  <1> QED
    BY <1>2 DEF jit_insert_block, Range, Inserted, NewBlock

\* The queue after an insertion: the kept blocks and the new one.
QueueAfter(c, lo, hi, n, a) ==
    /\ jit_funcs' \in [Cpus -> Seq(Block)]
    /\ \A d \in Cpus : d # c => jit_funcs'[d] = jit_funcs[d]
    /\ Len(jit_funcs'[c]) = Len(a.kept) + 1 /\ Len(a.kept) \in Nat
    /\ \A i \in 1 .. Len(a.kept) : jit_funcs'[c][i] = a.kept[i]
    /\ jit_funcs'[c][Len(a.kept) + 1] = NewBlock(lo, hi, n, a)

\* It is that.
LEMMA InsertedQueue ==
    ASSUME TypeOK, NEW c \in Cpus, NEW lo, NEW hi, NEW n \in Nat, NEW a,
           SoundAllocation(c, n, a), Inserted(c, lo, hi, n, a)
    PROVE  QueueAfter(c, lo, hi, n, a)
  <1> DEFINE b == NewBlock(lo, hi, n, a)
  <1>1. a.kept \in Seq(Block) /\ a.from \in Nat
    BY DEF SoundAllocation
  <1>2. <<lo, hi>> \in Code[c] /\ jit_funcs' = [jit_funcs EXCEPT ![c] = Append(a.kept, b)]
    BY DEF Inserted
  <1>3. b \in Block
    BY <1>1, <1>2, CodeRange DEF Block, NewBlock
  <1> HIDE DEF b
  <1>4. /\ Append(a.kept, b) \in Seq(Block) /\ Len(Append(a.kept, b)) = Len(a.kept) + 1
        /\ \A i \in 1 .. Len(a.kept) : Append(a.kept, b)[i] = a.kept[i]
        /\ Append(a.kept, b)[Len(a.kept) + 1] = b /\ Len(a.kept) \in Nat
    BY <1>1, <1>3
  <1>5. /\ jit_funcs'[c] = Append(a.kept, b)
        /\ \A d \in Cpus : d # c => jit_funcs'[d] = jit_funcs[d]
        /\ jit_funcs' \in [Cpus -> Seq(Block)]
    BY <1>2, <1>4 DEF TypeOK
  <1> QED
    BY <1>4, <1>5 DEF b, QueueAfter

\* Type correctness across an insertion.
LEMMA InsertType ==
    ASSUME TypeOK, NEW c \in Cpus, NEW lo, NEW hi, NEW n \in Nat, n > 0, NEW a,
           SoundAllocation(c, n, a), Inserted(c, lo, hi, n, a)
    PROVE  TypeOK'
  <1>1. /\ a.from \in Nat /\ a.end \in Nat /\ a.from + n <= a.end
        /\ RegionStart(c) <= a.from /\ a.end <= RegionEnd(c)
    BY DEF SoundAllocation
  <1>2. a.from \in HostPages
    BY <1>1, Regions
  <1>3. start' \in [Cpus -> Nat] /\ end' \in [Cpus -> Nat]
    BY <1>1 DEF TypeOK, Inserted
  <1>4. jit_funcs' \in [Cpus -> Seq(Block)]
    BY InsertedQueue DEF QueueAfter
  <1>5. entries' \in [Slots -> HostPages \cup {Default}]
    BY <1>2 DEF TypeOK, Inserted
  <1>6. live' \subseteq Pages
    <2>1. live' = live \cup (PageOf(lo) .. PageOf(hi)) /\ <<lo, hi>> \in Code[c]
      BY DEF Inserted
    <2>2. PageOf(lo) \in Pages /\ PageOf(hi) \in Pages
      BY <2>1, CodeRange, PageType
    <2>3. PageOf(lo) .. PageOf(hi) \subseteq Pages
      BY <2>2, JitAssumption DEF Pages
    <2> QED
      BY <2>1, <2>3 DEF TypeOK
  <1>7. writable' \in [Cpus -> SUBSET MmuPages]
    BY DEF TypeOK, Protected, Inserted
  <1>8. stale' \subseteq Slots
    BY DEF TypeOK, Inserted
  <1>9. fastmem' \subseteq MmuPages /\ remapped' \subseteq MmuPages
    BY DEF TypeOK, FastProtected, Inserted
  <1> QED
    BY <1>3, <1>4, <1>5, <1>6, <1>7, <1>8, <1>9 DEF TypeOK

\* What the history says of a slot in the next state.
LEMMA OverlookedNext ==
    ASSUME NEW s
    PROVE  Overlooked(s)' <=> MmuPageOf(s) \in remapped' /\ ~Checked(s)
  BY DEF Overlooked, Checked, FirstMmu, MmuPageOf, PageOf

\* A slot of main memory lies in an MMU page of main memory.
LEMMA MainMmu ==
    ASSUME NEW s \in Slots, InMain(s)
    PROVE  MmuPageOf(s) \in MmuPages
  <1>1. PageOf(s) \in 0 .. MainPages - 1
    BY PageType, JitAssumption DEF InMain
  <1> QED
    BY <1>1 DEF MmuPages, MmuPageOf

\* An insertion keeps the ARM9's code watched: where the table lets a store in,
\* the page is protected everywhere, else the fast memory lets none in either.
LEMMA InsertWatched ==
    ASSUME TypeOK, Watched, InStep, NEW c \in Cpus, NEW lo, NEW hi, NEW h,
           <<lo, hi>> \in Code[c], Owner(h) = c,
           \A s \in Slots : s \in lo .. hi => entries'[s] = h,
           \A s \in Slots : s \notin lo .. hi /\ entries'[s] # Default =>
                                entries'[s] = entries[s],
           writable' = Protected(c, lo, hi), fastmem' = FastProtected(c, lo, hi),
           remapped' = remapped
    PROVE  Watched' /\ InStep'
  <1>1. /\ lo .. hi \subseteq Slots
        /\ \A s \in lo .. hi : /\ MmuPageOf(s) \in MmuPageOf(lo) .. MmuPageOf(hi)
                               /\ InMain(s) <=> InMain(lo)
    BY CodeRange
  <1>2. /\ \A d \in Cpus : writable'[d] \subseteq writable[d]
        /\ fastmem' \subseteq fastmem
    BY DEF Protected, FastProtected, TypeOK
  <1>3. ASSUME NEW s \in Slots, entries'[s] # Default, InMain(s), Owner(entries'[s]) = ARM9
        PROVE  /\ MmuPageOf(s) \notin writable'[ARM7]
               /\ MmuPageOf(s) \in writable'[ARM9] \cup fastmem' =>
                      MmuPageOf(s) \in remapped' /\ ~Checked(s)
    <2>1. ARM9 \in Cpus /\ ARM7 \in Cpus
      BY DEF Cpus
    <2>2. CASE s \in lo .. hi
      <3>1. c = ARM9 /\ InMain(lo) /\ MmuPageOf(s) \in MmuPageOf(lo) .. MmuPageOf(hi)
        BY <1>1, <1>3, <2>2
      <3>2. /\ \A d \in Cpus : writable'[d] = writable[d] \ (MmuPageOf(lo) .. MmuPageOf(hi))
            /\ fastmem' = fastmem \ (writable[ARM9] \cap (MmuPageOf(lo) .. MmuPageOf(hi)))
        BY <3>1 DEF Protected, FastProtected
      <3>3. MmuPageOf(s) \notin writable'[ARM7] /\ MmuPageOf(s) \notin writable'[ARM9]
        BY <2>1, <3>1, <3>2
      <3>4. ASSUME MmuPageOf(s) \in fastmem'
            PROVE  MmuPageOf(s) \in remapped /\ MmuPageOf(s) # FirstMmu(MmuPageOf(s))
        <4>1. MmuPageOf(s) \in fastmem /\ MmuPageOf(s) \notin writable[ARM9]
          BY <3>1, <3>2, <3>4
        <4> QED
          BY <1>3, <4>1, MainMmu DEF InStep
      <3> QED
        BY <3>3, <3>4 DEF Checked
    <2>3. CASE s \notin lo .. hi
      <3>1. entries[s] # Default /\ Owner(entries[s]) = ARM9
        BY <1>3, <2>3
      <3>2. /\ MmuPageOf(s) \notin writable[ARM7]
            /\ MmuPageOf(s) \in writable[ARM9] \cup fastmem => Overlooked(s)
        BY <1>3, <3>1 DEF Watched
      <3> QED
        BY <1>2, <2>1, <3>2 DEF Overlooked
    <2> QED
      BY <2>2, <2>3
  <1>4. Watched'
    <2> SUFFICES ASSUME NEW s \in Slots, entries'[s] # Default, InMain(s),
                        Owner(entries'[s]) = ARM9
                 PROVE  /\ MmuPageOf(s) \notin writable'[ARM7]
                        /\ MmuPageOf(s) \in writable'[ARM9] \cup fastmem' => Overlooked(s)'
      BY DEF Watched, InMain, Owner, PageOf, MmuPageOf
    <2> QED
      BY <1>3, OverlookedNext
  <1>5. InStep'
    <2> SUFFICES ASSUME NEW m \in MmuPages, m \in fastmem',
                        m \notin remapped \/ m = FirstMmu(m)
                 PROVE  m \in writable'[ARM9]
      BY DEF InStep, FirstMmu
    <2>1. m \in fastmem /\ m \in writable[ARM9] /\ ARM9 \in Cpus
      BY <1>2 DEF InStep, Cpus
    <2> QED
      BY <2>1 DEF Protected, FastProtected
  <1> QED
    BY <1>4, <1>5

\* The entries' invariants across an insertion.
LEMMA InsertKeepsEntries ==
    ASSUME JitInv, NEW c \in Cpus, NEW lo, NEW hi, NEW n \in Nat, n > 0, NEW a,
           SoundAllocation(c, n, a), Inserted(c, lo, hi, n, a)
    PROVE  /\ EntriesLive' /\ LiveBitCovers' /\ Watched' /\ InStep' /\ StaleEntered'
           /\ StoresSeen'
  <1>0. /\ TypeOK /\ EntriesLive /\ LiveBitCovers /\ Watched /\ InStep /\ StaleEntered
        /\ StoresSeen
    BY DEF JitInv
  <1>1. /\ \A s \in Slots : s \in lo .. hi => entries'[s] = a.from
        /\ \A s \in Slots : s \notin lo .. hi /\ entries'[s] # Default =>
                  entries'[s] = entries[s] /\ s \notin FreedSlots(a.freed)
    BY DEF Inserted
  <1>2. Owner(a.from) = c /\ a.from \in Nat
    <2>1. /\ a.from \in Nat /\ a.end \in Nat /\ a.from + n <= a.end
          /\ RegionStart(c) <= a.from /\ a.end <= RegionEnd(c)
      BY DEF SoundAllocation
    <2> QED
      BY <2>1, Regions
  <1>3. <<lo, hi>> \in Code[c]
    BY DEF Inserted
  <1>4. /\ lo \in Slots /\ hi \in Slots /\ lo .. hi \subseteq Slots
        /\ \A s \in lo .. hi : /\ PageOf(s) \in PageOf(lo) .. PageOf(hi)
                               /\ MmuPageOf(s) \in MmuPageOf(lo) .. MmuPageOf(hi)
                               /\ InMain(s) <=> InMain(lo)
    BY <1>3, CodeRange
  <1>5. EntriesLive'
    <2> SUFFICES ASSUME NEW s \in Slots, entries'[s] # Default
                 PROVE  \E i \in 1 .. Len(jit_funcs'[Owner(entries'[s])]) :
                            /\ jit_funcs'[Owner(entries'[s])][i].from = entries'[s]
                            /\ s \in Range(jit_funcs'[Owner(entries'[s])][i])
      BY DEF EntriesLive, Owner, Range
    <2>0. QueueAfter(c, lo, hi, n, a)
      BY <1>0, InsertedQueue
    <2>1. CASE s \in lo .. hi
      <3>1. /\ jit_funcs'[c][Len(a.kept) + 1].from = a.from
            /\ s \in Range(jit_funcs'[c][Len(a.kept) + 1])
            /\ Len(a.kept) + 1 \in 1 .. Len(jit_funcs'[c])
        BY <2>0, <2>1 DEF QueueAfter, NewBlock, Range
      <3> QED
        BY <1>1, <1>2, <2>1, <3>1
    <2>2. CASE s \notin lo .. hi
      <3>1. entries'[s] = entries[s] /\ s \notin FreedSlots(a.freed)
        BY <1>1, <2>2
      <3>2. PICK d \in Cpus : d = Owner(entries[s])
        BY Regions DEF Owner, Cpus
      <3>3. PICK i \in 1 .. Len(jit_funcs[d]) :
                jit_funcs[d][i].from = entries[s] /\ s \in Range(jit_funcs[d][i])
        BY <1>0, <3>1, <3>2 DEF EntriesLive
      <3>4. CASE d # c
        <4>1. jit_funcs'[d] = jit_funcs[d]
          BY <2>0, <3>4 DEF QueueAfter
        <4> QED
          BY <3>1, <3>2, <3>3, <4>1
      <3>5. CASE d = c
        <4>1. PICK j \in 1 .. Len(a.kept) :
                  /\ a.kept[j].from = jit_funcs[c][i].from
                  /\ Range(a.kept[j]) = Range(jit_funcs[c][i])
          BY <3>1, <3>3, <3>5 DEF SoundAllocation
        <4>2. jit_funcs'[c][j] = a.kept[j] /\ j \in 1 .. Len(jit_funcs'[c])
          BY <2>0, <4>1 DEF QueueAfter
        <4> QED
          BY <3>1, <3>2, <3>3, <3>5, <4>1, <4>2
      <3> QED
        BY <3>4, <3>5
    <2> QED
      BY <2>1, <2>2
  <1>6. LiveBitCovers'
    <2>1. live' = live \cup (PageOf(lo) .. PageOf(hi))
      BY DEF Inserted
    <2> QED
      BY <1>0, <1>1, <1>4, <2>1 DEF LiveBitCovers, PageOf
  <1>7. Watched' /\ InStep'
    <2>1. /\ writable' = Protected(c, lo, hi) /\ fastmem' = FastProtected(c, lo, hi)
          /\ remapped' = remapped
      BY DEF Inserted
    <2> QED
      BY <1>0, <1>1, <1>2, <1>3, <2>1, InsertWatched
  <1>8. stale' = {s \in stale \ (lo .. hi) : entries'[s] # Default} /\ stale \subseteq Slots
    BY <1>0 DEF TypeOK, Inserted
  <1>9. StaleEntered'
    BY <1>8 DEF StaleEntered
  <1>10. StoresSeen'
    <2> SUFFICES ASSUME NEW s \in stale'
                 PROVE  InMain(s) /\ (Owner(entries'[s]) = ARM7 \/ Overlooked(s)')
      BY DEF StoresSeen, InMain, PageOf, Owner
    <2>1. s \in stale /\ s \in Slots /\ entries'[s] = entries[s] /\ remapped' = remapped
      BY <1>1, <1>8 DEF Inserted
    <2> QED
      BY <1>0, <2>1, OverlookedNext DEF StoresSeen, Overlooked
  <1> QED
    BY <1>5, <1>6, <1>7, <1>9, <1>10

\* The two parts across an insertion.
LEMMA InsertParts ==
    ASSUME TypeOK, NEW c \in Cpus, NEW lo, NEW hi, NEW n \in BlockPages[c],
           NEW a, a = Allocated(c, n),
           SoundAllocation(c, n, a), Inserted(c, lo, hi, n, a),
           NEW j \in 0 .. Len(jit_funcs[c]), InRegion(c), Parts(c, j),
           NEW m, m = KeptBehind(c, n, a, j)
    PROVE  m \in 0 .. Len(jit_funcs'[c]) /\ Parts(c, m)'
  <1>1. QueueAfter(c, lo, hi, n, a)
    BY InsertedQueue DEF SoundAllocation
  <1>2. /\ a.from \in Nat /\ a.end \in Nat /\ n \in Nat /\ n > 0 /\ a.from + n <= a.end
        /\ RegionStart(c) \in Nat /\ RegionEnd(c) \in Nat
    BY Regions DEF SoundAllocation
  <1>3. start'[c] = a.from + n /\ end'[c] = a.end
    BY DEF Inserted, TypeOK
  <1>4. /\ Len(jit_funcs'[c]) = Len(a.kept) + 1 /\ Len(a.kept) \in Nat
        /\ \A i \in 1 .. Len(a.kept) : jit_funcs'[c][i] = a.kept[i]
        /\ jit_funcs'[c][Len(a.kept) + 1].from = a.from
        /\ jit_funcs'[c][Len(a.kept) + 1].to = a.from + n
    BY <1>1 DEF QueueAfter, NewBlock
  <1>12. PartsAfter(a, m)
    BY AllocatedParts DEF Inserted
  <1>13. /\ m \in 0 .. Len(jit_funcs'[c]) /\ m \in Nat /\ m <= Len(a.kept)
    BY <1>4, <1>12 DEF PartsAfter
  <1>14. ASSUME NEW i \in 1 .. m PROVE end'[c] <= jit_funcs'[c][i].from
    <2>1. i \in 1 .. Len(a.kept)
      BY <1>4, <1>13
    <2>2. a.end <= a.kept[i].from
      BY <1>12 DEF PartsAfter
    <2>3. jit_funcs'[c][i] = a.kept[i]
      BY <1>4, <2>1
    <2> QED
      BY <1>3, <2>2, <2>3
  <1>15. ASSUME NEW i \in m + 1 .. Len(jit_funcs'[c])
        PROVE  jit_funcs'[c][i].to <= start'[c]
    <2>1. CASE i = Len(a.kept) + 1
      BY <1>2, <1>3, <1>4, <2>1
    <2>2. CASE i <= Len(a.kept)
      <3>1. i \in m + 1 .. Len(a.kept) /\ i \in 1 .. Len(a.kept)
        BY <1>4, <1>13, <2>2
      <3>2. a.kept[i].to <= a.from
        BY <1>12, <3>1 DEF PartsAfter
      <3>3. a.kept[i] \in Block
        BY <3>1 DEF SoundAllocation
      <3>4. a.kept[i].to \in Nat
        BY <3>3 DEF Block
      <3>5. jit_funcs'[c][i] = a.kept[i]
        BY <1>4, <3>1
      <3>6. a.kept[i].to <= start'[c]
        BY <1>2, <1>3, <3>2, <3>4, SMTT(30)
      <3> QED
        BY <3>5, <3>6
    <2> QED
      BY <1>4, <1>13, <2>1, <2>2
  <1>16. ASSUME NEW i \in 1 .. Len(jit_funcs'[c]), NEW k \in 1 .. Len(jit_funcs'[c]),
               i < k, k <= m \/ m < i
        PROVE  jit_funcs'[c][i].to <= jit_funcs'[c][k].from
    <2>1. i \in 1 .. Len(a.kept)
      BY <1>4, <1>16
    <2>2. CASE k = Len(a.kept) + 1
      <3>1. i \in m + 1 .. Len(a.kept)
        BY <1>4, <1>13, <1>16, <2>1, <2>2
      <3> QED
        BY <1>4, <1>12, <2>1, <2>2, <3>1 DEF PartsAfter
    <2>3. CASE k <= Len(a.kept)
      <3>1. k \in 1 .. Len(a.kept)
        BY <1>4, <2>3
      <3> QED
        BY <1>4, <1>12, <1>16, <2>1, <3>1 DEF PartsAfter
    <2> QED
      BY <1>4, <2>2, <2>3
  <1>17. Parts(c, m)'
    BY <1>14, <1>15, <1>16 DEF Parts
  <1> QED
    BY <1>13, <1>17

\* The sweep's invariant across an insertion.
LEMMA InsertSwept ==
    ASSUME TypeOK, Swept, NEW c \in Cpus, NEW lo, NEW hi, NEW n \in BlockPages[c],
           NEW a, a = Allocated(c, n),
           SoundAllocation(c, n, a), Inserted(c, lo, hi, n, a)
    PROVE  Swept'
  <1>1. QueueAfter(c, lo, hi, n, a)
    BY InsertedQueue DEF SoundAllocation
  <1>2. /\ a.from \in Nat /\ a.end \in Nat /\ n \in Nat /\ n > 0 /\ a.from + n <= a.end
        /\ RegionStart(c) <= a.from /\ a.end <= RegionEnd(c)
        /\ RegionStart(c) \in Nat /\ RegionEnd(c) \in Nat
    BY Regions DEF SoundAllocation
  <1>3. /\ start'[c] = a.from + n /\ end'[c] = a.end
        /\ \A d \in Cpus : d # c => start'[d] = start[d] /\ end'[d] = end[d]
    BY DEF Inserted, TypeOK
  <1>4. /\ Len(jit_funcs'[c]) = Len(a.kept) + 1 /\ Len(a.kept) \in Nat
        /\ \A i \in 1 .. Len(a.kept) : jit_funcs'[c][i] = a.kept[i]
        /\ jit_funcs'[c][Len(a.kept) + 1].from = a.from
        /\ jit_funcs'[c][Len(a.kept) + 1].to = a.from + n
    BY <1>1 DEF QueueAfter, NewBlock
  <1>5. InRegion(c)'
    <2>1. RegionStart(c) <= start'[c] /\ start'[c] <= end'[c] /\ end'[c] <= RegionEnd(c)
      BY <1>2, <1>3
    <2>2. ASSUME NEW i \in 1 .. Len(jit_funcs'[c])
          PROVE  /\ RegionStart(c) <= jit_funcs'[c][i].from
                 /\ jit_funcs'[c][i].from < jit_funcs'[c][i].to
                 /\ jit_funcs'[c][i].to <= RegionEnd(c)
      <3>1. CASE i <= Len(a.kept)
        <4>1. i \in 1 .. Len(a.kept)
          BY <1>4, <3>1
        <4> QED
          BY <1>4, <4>1 DEF SoundAllocation
      <3>2. CASE i = Len(a.kept) + 1
        BY <1>2, <1>4, <3>2
      <3> QED
        BY <1>4, <3>1, <3>2
    <2> QED
      BY <2>1, <2>2 DEF InRegion, RegionStart, RegionEnd
  <1>6. \E m \in 0 .. Len(jit_funcs'[c]) : Parts(c, m)'
    <2>1. PICK j \in 0 .. Len(jit_funcs[c]) : InRegion(c) /\ Parts(c, j)
      BY DEF Swept
    <2>2. PICK m : m = KeptBehind(c, n, a, j)
      OBVIOUS
    <2>3. m \in 0 .. Len(jit_funcs'[c]) /\ Parts(c, m)'
      BY <2>1, <2>2, InsertParts
    <2> QED
      BY <2>3
  <1>7. ASSUME NEW d \in Cpus, d # c
        PROVE  InRegion(d)' /\ \E m \in 0 .. Len(jit_funcs'[d]) : Parts(d, m)'
    <2>1. jit_funcs'[d] = jit_funcs[d] /\ start'[d] = start[d] /\ end'[d] = end[d]
      BY <1>1, <1>3, <1>7 DEF QueueAfter
    <2> QED
      BY <2>1 DEF Swept, InRegion, Parts, RegionStart, RegionEnd
  <1> QED
    BY <1>5, <1>6, <1>7 DEF Swept

-----------------------------------------------------------------------------
(* Taking entries back *)

\* Entries are only taken back, those left in the changed pages belong to the
\* ARM7 in main memory or are overlooked, and the allocators and permissions stay.
TakenBack(changed) ==
    /\ entries' \in [Slots -> HostPages \cup {Default}]
    /\ \A s \in Slots : entries'[s] # Default =>
           /\ entries'[s] = entries[s] /\ PageOf(s) \in live'
           /\ PageOf(s) \in changed =>
                  InMain(s) /\ (Owner(entries[s]) = ARM7 \/ Overlooked(s))
    /\ live' \subseteq live
    /\ stale' = {s \in stale \cup UNION {SlotsOf(p) : p \in changed} : entries'[s] # Default}
    /\ UNCHANGED <<start, end, jit_funcs, writable, fastmem, remapped>>

\* Such a step keeps the invariant.
LEMMA TakenBackKeeps ==
    ASSUME JitInv, NEW changed, TakenBack(changed)
    PROVE  JitInv'
  <1>0. /\ TypeOK /\ Swept /\ EntriesLive /\ LiveBitCovers /\ Watched /\ InStep
        /\ StaleEntered /\ StoresSeen
    BY DEF JitInv
  <1>1. stale' \subseteq Slots /\ \A s \in stale' : entries'[s] # Default
    BY <1>0 DEF TakenBack, TypeOK, SlotsOf
  <1>2. TypeOK'
    BY <1>0, <1>1 DEF TakenBack, TypeOK
  <1>3. Swept'
    BY <1>0, SMTT(30) DEF TakenBack, Swept, InRegion, Parts, RegionStart, RegionEnd
  <1>4. EntriesLive'
    BY <1>0 DEF TakenBack, EntriesLive, Owner, Range
  <1>5. LiveBitCovers'
    BY DEF TakenBack, LiveBitCovers, PageOf
  <1>6. Watched'
    BY <1>0, OverlookedNext DEF TakenBack, Watched, Overlooked, Owner, InMain, PageOf,
                                MmuPageOf
  <1>7. StaleEntered'
    BY <1>1 DEF StaleEntered
  <1>8. StoresSeen'
    <2> SUFFICES ASSUME NEW s \in stale'
                 PROVE  InMain(s) /\ (Owner(entries'[s]) = ARM7 \/ Overlooked(s)')
      BY DEF StoresSeen, InMain, PageOf, Owner
    <2>1. s \in Slots /\ entries'[s] # Default /\ entries'[s] = entries[s]
      BY <1>1 DEF TakenBack
    <2>2. s \in stale \/ PageOf(s) \in changed
      BY DEF TakenBack, SlotsOf
    <2> QED
      BY <1>0, <2>1, <2>2, OverlookedNext DEF TakenBack, StoresSeen, Overlooked
  <1>9. InStep'
    BY <1>0 DEF TakenBack, InStep, FirstMmu
  <1> QED
    BY <1>2, <1>3, <1>4, <1>5, <1>6, <1>7, <1>8, <1>9 DEF JitInv

\* Invalidating pages leaves no entries in them.
LEMMA InvalidatedFacts ==
    ASSUME TypeOK, LiveBitCovers, NEW pages, Invalidated(pages)
    PROVE  /\ entries' \in [Slots -> HostPages \cup {Default}]
           /\ \A s \in Slots : entries'[s] # Default =>
                  /\ entries'[s] = entries[s] /\ PageOf(s) \in live'
                  /\ PageOf(s) \notin pages
           /\ live' \subseteq live
  <1>1. /\ entries' = [s \in Slots |-> IF s \in UNION {SlotsOf(p) : p \in pages \cap live}
                                       THEN Default ELSE entries[s]]
        /\ live' = live \ pages
    BY DEF Invalidated, WriteEntries
  <1>2. \A s \in Slots : s \in UNION {SlotsOf(p) : p \in pages \cap live} <=>
                             PageOf(s) \in pages \cap live
    BY DEF SlotsOf
  <1> QED
    BY <1>1, <1>2 DEF TypeOK, LiveBitCovers

\* A store that a page lets in finds no ARM9 code there that is not overlooked.
LEMMA DirectStore ==
    ASSUME JitInv, NEW s \in Slots, InMain(s), Stored({PageOf(s)}),
           UNCHANGED <<start, end, jit_funcs, entries, live, writable, fastmem, remapped>>,
           MmuPageOf(s) \in writable[ARM7] \cup writable[ARM9] \cup fastmem
    PROVE  JitInv'
  <1>1. TypeOK /\ LiveBitCovers /\ Watched
    BY DEF JitInv
  <1>2. ASSUME NEW t \in Slots, entries[t] # Default, PageOf(t) = PageOf(s)
        PROVE  InMain(t) /\ (Owner(entries[t]) = ARM7 \/ Overlooked(t))
    <2>1. InMain(t) /\ MmuPageOf(t) = MmuPageOf(s)
      BY <1>2 DEF InMain, MmuPageOf
    <2> QED
      BY <1>1, <1>2, <2>1 DEF Watched, Owner
  <1>3. TakenBack({PageOf(s)})
    BY <1>1, <1>2 DEF TakenBack, TypeOK, LiveBitCovers, Stored
  <1> QED
    BY <1>3, TakenBackKeeps

\* A store keeps the invariant: a page stored to directly has no ARM9 code that
\* is not overlooked, any other page has no entries left.
LEMMA StoreKeeps ==
    ASSUME JitInv, NEW c \in Cpus, NEW s \in Slots, mem_write(c, s)
    PROVE  JitInv'
  <1>0. TypeOK /\ LiveBitCovers
    BY DEF JitInv
  <1>1. CASE InMain(s) /\ MmuPageOf(s) \in writable[c]
    <2>1. UNCHANGED <<entries, live, start, end, jit_funcs, writable, fastmem, remapped>>
          /\ Stored({PageOf(s)})
      BY <1>1 DEF mem_write
    <2> QED
      BY <1>1, <2>1, DirectStore DEF Cpus
  <1>2. CASE ~(InMain(s) /\ MmuPageOf(s) \in writable[c])
    <2>1. /\ Invalidated({PageOf(s)}) /\ Stored({PageOf(s)})
          /\ UNCHANGED <<start, end, jit_funcs, writable, fastmem, remapped>>
      BY <1>2 DEF mem_write
    <2>2. TakenBack({PageOf(s)})
      BY <1>0, <2>1, InvalidatedFacts DEF TakenBack, Stored
    <2> QED
      BY <2>2, TakenBackKeeps
  <1> QED
    BY <1>1, <1>2

\* So does one straight into the fast memory.
LEMMA FastStoreKeeps ==
    ASSUME JitInv, NEW s \in Slots, fast_write(s)
    PROVE  JitInv'
  BY DirectStore DEF fast_write

\* So does invalidating the pages of an overlay.
LEMMA OverlayKeeps ==
    ASSUME JitInv, NEW p, NEW q, invalidate_blocks(p, q)
    PROVE  JitInv'
  <1>0. TypeOK /\ LiveBitCovers
    BY DEF JitInv
  <1>1. TakenBack({})
    BY <1>0, InvalidatedFacts DEF TakenBack, Stored, invalidate_blocks
  <1> QED
    BY <1>1, TakenBackKeeps

\* And mapping a VRAM bank.
LEMMA VramKeeps ==
    ASSUME JitInv, invalidate_vram
    PROVE  JitInv'
  <1> DEFINE vram == {p \in Pages : p >= MainPages}
  <1>0. TypeOK /\ LiveBitCovers
    BY DEF JitInv
  <1>1. Stored(vram) /\ UNCHANGED <<start, end, jit_funcs, writable, fastmem, remapped>>
    BY DEF invalidate_vram
  <1>2. CASE vram \cap live # {}
    <2>1. /\ entries' = [s \in Slots |-> IF s \in UNION {SlotsOf(p) : p \in vram}
                                         THEN Default ELSE entries[s]]
          /\ live' = live \ vram
      BY <1>2 DEF invalidate_vram, WriteEntries
    <2> HIDE DEF vram
    <2>2. \A s \in Slots : s \in UNION {SlotsOf(p) : p \in vram} <=> PageOf(s) \in vram
      BY DEF SlotsOf
    <2>3. TakenBack(vram)
      BY <1>0, <1>1, <2>1, <2>2 DEF TakenBack, Stored, TypeOK, LiveBitCovers
    <2> QED
      BY <2>3, TakenBackKeeps
  <1>3. CASE vram \cap live = {}
    <2>1. UNCHANGED <<entries, live>>
      BY <1>3 DEF invalidate_vram
    <2> HIDE DEF vram
    <2>2. \A s \in Slots : entries[s] # Default => PageOf(s) \notin vram
      BY <1>0, <1>3 DEF LiveBitCovers
    <2>3. TakenBack(vram)
      BY <1>0, <1>1, <2>1, <2>2 DEF TakenBack, Stored, TypeOK, LiveBitCovers
    <2> QED
      BY <2>3, TakenBackKeeps
  <1> QED
    BY <1>2, <1>3

-----------------------------------------------------------------------------
(* Mapping pages anew *)

\* Pages mapped anew without blocks are alike in the table and the fast memory,
\* and so is the first MMU page of each page of the fast memory.
LEMMA MappedInStep ==
    ASSUME TypeOK, InStep, NEW pages, pages \subseteq MmuPages, NEW m \in MmuPages,
           m \in FastMapped(pages), m \notin Remapped(pages) \/ m = FirstMmu(m)
    PROVE  m \in TableMapped(pages)
  <1>1. CASE m \notin pages
    BY <1>1 DEF InStep, FastMapped, Remapped, TableMapped
  <1>2. CASE m \in pages /\ m = FirstMmu(m)
    BY <1>2 DEF FastMapped, TableMapped
  <1>3. CASE m \in pages /\ m \notin Remapped(pages)
    <2>1. m \in Nat /\ LivePerMmu \in Nat /\ LivePerMmu > 0
      BY JitAssumption, DivFacts DEF MmuPages
    <2>2. (m * LivePerMmu) \div LivePerMmu = m
      BY <2>1, DivProduct
    <2>3. ~\E p \in live : p \div LivePerMmu = m
      BY <1>3 DEF Remapped
    <2>4. ~has_jit_block(m)
      BY <2>2, <2>3 DEF has_jit_block
    <2> QED
      BY <1>3, <2>4 DEF TableMapped
  <1> QED
    BY <1>1, <1>2, <1>3

\* Code in pages mapped anew is still watched, or overlooked.
LEMMA MappedWatched ==
    ASSUME JitInv, NEW pages, pages \subseteq MmuPages, NEW s \in Slots,
           entries[s] # Default, InMain(s)
    PROVE  /\ MmuPageOf(s) \in remapped => MmuPageOf(s) \in Remapped(pages)
           /\ Owner(entries[s]) = ARM9
              /\ MmuPageOf(s) \in TableMapped(pages) \cup FastMapped(pages)
              => MmuPageOf(s) \in Remapped(pages) /\ ~Checked(s)
  <1> DEFINE m == MmuPageOf(s)
  <1>1. Watched /\ PageOf(s) \in live /\ m \in MmuPages
    BY MainMmu DEF JitInv, LiveBitCovers
  <1>2. m \in pages => m \in Remapped(pages)
    BY <1>1 DEF Remapped, MmuPageOf
  <1>3. m \in pages /\ Checked(s) => m \notin TableMapped(pages) \cup FastMapped(pages)
    <2> SUFFICES ASSUME m \in pages, Checked(s)
                 PROVE  m \notin TableMapped(pages) /\ m \notin FastMapped(pages)
      OBVIOUS
    <2>1. has_jit_block(m) /\ has_jit_block(FirstMmu(m))
      BY <1>1 DEF Checked, has_jit_block
    <2> QED
      BY <2>1 DEF TableMapped, FastMapped
  <1>4. m \notin pages /\ m \in TableMapped(pages) \cup FastMapped(pages) =>
            m \in writable[ARM9] \cup fastmem
    BY DEF TableMapped, FastMapped
  <1>5. m \notin pages /\ m \in remapped => m \in Remapped(pages)
    BY DEF Remapped
  <1> QED
    BY <1>1, <1>2, <1>3, <1>4, <1>5 DEF Watched, Overlooked

\* A CP15 write keeps the invariant.
LEMMA RemapKeeps ==
    ASSUME JitInv, NEW p, NEW q, update_tcm_arm9(p, q)
    PROVE  JitInv'
  <1> DEFINE pages == {m \in MmuPages : m \div MmuPerFast \in p .. q}
  <1>1. /\ TypeOK /\ Swept /\ EntriesLive /\ LiveBitCovers /\ Watched /\ InStep
        /\ StaleEntered /\ StoresSeen
    BY DEF JitInv
  <1>2. /\ writable' = [writable EXCEPT ![ARM9] = TableMapped(pages)]
        /\ fastmem' = FastMapped(pages) /\ remapped' = Remapped(pages)
        /\ UNCHANGED <<start, end, jit_funcs, entries, live, stale>>
    BY DEF update_tcm_arm9
  <1>3. pages \subseteq MmuPages
    OBVIOUS
  <1> HIDE DEF pages
  <1>4. /\ writable'[ARM9] = TableMapped(pages) /\ writable'[ARM7] = writable[ARM7]
        /\ writable' \in [Cpus -> SUBSET MmuPages] /\ fastmem' \subseteq MmuPages
        /\ remapped' \subseteq MmuPages
    <2>1. /\ TableMapped(pages) \subseteq MmuPages /\ FastMapped(pages) \subseteq MmuPages
          /\ Remapped(pages) \subseteq MmuPages
      <3>1. /\ ARM9 \in Cpus /\ writable \in [Cpus -> SUBSET MmuPages]
            /\ fastmem \subseteq MmuPages /\ remapped \subseteq MmuPages
        BY <1>1 DEF TypeOK, Cpus
      <3>2. writable[ARM9] \subseteq MmuPages
        BY <3>1
      <3> QED
        BY <1>3, <3>1, <3>2 DEF TableMapped, FastMapped, Remapped
    <2>2. ARM9 \in Cpus /\ ARM7 \in Cpus /\ ARM9 # ARM7
      BY JitAssumption DEF Cpus
    <2> QED
      BY <1>1, <1>2, <2>1, <2>2 DEF TypeOK
  <1>5. TypeOK'
    BY <1>1, <1>2, <1>4 DEF TypeOK
  <1>6. Swept' /\ EntriesLive' /\ LiveBitCovers' /\ StaleEntered'
    BY <1>1, <1>2 DEF Swept, InRegion, Parts, RegionStart, RegionEnd, EntriesLive, Range,
                      Owner, LiveBitCovers, PageOf, StaleEntered
  <1>7. Watched'
    <2> SUFFICES ASSUME NEW s \in Slots, entries[s] # Default, InMain(s),
                        Owner(entries[s]) = ARM9
                 PROVE  /\ MmuPageOf(s) \notin writable'[ARM7]
                        /\ MmuPageOf(s) \in writable'[ARM9] \cup fastmem' => Overlooked(s)'
      BY <1>2 DEF Watched, InMain, Owner, PageOf, MmuPageOf
    <2> QED
      BY <1>1, <1>2, <1>3, <1>4, MappedWatched, OverlookedNext DEF Watched
  <1>8. InStep'
    BY <1>1, <1>2, <1>3, <1>4, MappedInStep DEF InStep, FirstMmu
  <1>9. StoresSeen'
    <2> SUFFICES ASSUME NEW s \in stale
                 PROVE  InMain(s) /\ (Owner(entries[s]) = ARM7 \/ Overlooked(s)')
      BY <1>2 DEF StoresSeen, InMain, PageOf, Owner
    <2>1. s \in Slots /\ entries[s] # Default
      BY <1>1 DEF TypeOK, StaleEntered
    <2>2. InMain(s) /\ (Owner(entries[s]) = ARM7 \/ Overlooked(s))
      BY <1>1 DEF StoresSeen
    <2> QED
      BY <1>2, <1>3, <2>1, <2>2, MappedWatched, OverlookedNext DEF Overlooked
  <1> QED
    BY <1>5, <1>6, <1>7, <1>8, <1>9 DEF JitInv

\* A memory without blocks.
Emptied ==
    /\ start = [c \in Cpus |-> RegionStart(c)]
    /\ end = [c \in Cpus |-> RegionEnd(c)]
    /\ jit_funcs = [c \in Cpus |-> <<>>]
    /\ entries = [s \in Slots |-> Default]
    /\ live = {}
    /\ writable \in [Cpus -> SUBSET MmuPages]
    /\ fastmem \in SUBSET MmuPages /\ remapped \in SUBSET MmuPages /\ InStep
    /\ stale = {}

\* It has the invariant.
LEMMA EmptiedInv ==
    ASSUME Emptied
    PROVE  JitInv
  <1>1. TypeOK
    BY Regions DEF Emptied, TypeOK
  <1>2. Swept
    <2> SUFFICES ASSUME NEW c \in Cpus
                 PROVE  InRegion(c) /\ \E j \in 0 .. Len(jit_funcs[c]) : Parts(c, j)
      BY DEF Swept
    <2>1. Len(jit_funcs[c]) = 0 /\ start[c] = RegionStart(c) /\ end[c] = RegionEnd(c)
      BY DEF Emptied
    <2>2. InRegion(c)
      <3>1. RegionStart(c) \in Nat /\ RegionEnd(c) \in Nat /\ RegionStart(c) <= RegionEnd(c)
        BY Regions
      <3>2. ~\E i \in 1 .. Len(jit_funcs[c]) : TRUE
        BY <2>1
      <3> QED
        BY <2>1, <3>1, <3>2 DEF InRegion
    <2>3. Parts(c, 0) /\ 0 \in 0 .. Len(jit_funcs[c])
      BY <2>1 DEF Parts
    <2> QED
      BY <2>2, <2>3
  <1>3. EntriesLive /\ LiveBitCovers /\ Watched /\ StaleEntered /\ StoresSeen
    BY DEF Emptied, EntriesLive, LiveBitCovers, Watched, StaleEntered, StoresSeen
  <1> QED
    BY <1>1, <1>2, <1>3 DEF JitInv, Emptied

\* Nothing of it is left after a savestate, whose pages are mapped anew first.
LEMMA LoadEmpties ==
    ASSUME TypeOK, InStep, savestate_post_load
    PROVE  Emptied'
  <1>1. /\ writable' = [c \in Cpus |->
                            IF c = ARM9 THEN TableMapped(MmuPages) ELSE MmuPages]
        /\ fastmem' = FastMapped(MmuPages) /\ remapped' = Remapped(MmuPages)
    BY DEF savestate_post_load
  <1>2. /\ TableMapped(MmuPages) \subseteq MmuPages /\ FastMapped(MmuPages) \subseteq MmuPages
        /\ Remapped(MmuPages) \subseteq MmuPages /\ ARM9 \in Cpus
    BY DEF TableMapped, FastMapped, Remapped, TypeOK, Cpus
  <1>3. InStep'
    BY <1>1, <1>2, MappedInStep DEF InStep, FirstMmu
  <1> QED
    BY <1>1, <1>2, <1>3 DEF savestate_post_load, Emptied, RegionStart, RegionEnd

-----------------------------------------------------------------------------
(* The specification *)

\* Every step keeps the invariant.
LEMMA JitInvInductive ==
    ASSUME JitInv, [Next]_vars
    PROVE  JitInv'
  <1>1. ASSUME NEW c \in Cpus, NEW r \in Code[c], NEW n \in BlockPages[c],
               jit_insert_block(c, r[1], r[2], n)
        PROVE  JitInv'
    <2> DEFINE a == Allocated(c, n)
    <2>1. TypeOK /\ Swept /\ InRegion(c)
      BY DEF JitInv, Swept
    <2>2. Inserted(c, r[1], r[2], n, a)
      BY <1>1, InsertedFacts
    <2>3. Fits(c, n)
      BY <1>1 DEF jit_insert_block
    <2>4. SoundAllocation(c, n, a)
      BY <2>1, <2>3, AllocatedFacts
    <2>5. n \in Nat /\ n > 0
      BY <2>4 DEF SoundAllocation
    <2> HIDE DEF a
    <2>6. TypeOK'
      BY <2>1, <2>2, <2>4, <2>5, InsertType
    <2>7. Swept'
      BY <2>1, <2>2, <2>4, InsertSwept DEF a
    <2>8. /\ EntriesLive' /\ LiveBitCovers' /\ Watched' /\ InStep' /\ StaleEntered'
          /\ StoresSeen'
      BY <2>2, <2>4, <2>5, InsertKeepsEntries
    <2> QED
      BY <2>6, <2>7, <2>8 DEF JitInv
  <1>2. ASSUME NEW c \in Cpus, NEW s \in Slots, mem_write(c, s)
        PROVE  JitInv'
    BY <1>2, StoreKeeps
  <1>3. ASSUME NEW p, NEW q, invalidate_blocks(p, q)
        PROVE  JitInv'
    BY <1>3, OverlayKeeps
  <1>4. CASE invalidate_vram
    BY <1>4, VramKeeps
  <1>5. CASE savestate_post_load
    <2>1. Emptied'
      BY <1>5, LoadEmpties DEF JitInv
    <2>2. (Emptied => JitInv)'
      BY EmptiedInv, PTL
    <2> QED
      BY <2>1, <2>2
  <1>6. CASE UNCHANGED vars
    BY <1>6 DEF vars, JitInv, TypeOK, Swept, InRegion, Parts, RegionStart, RegionEnd,
                EntriesLive, LiveBitCovers, Watched, InStep, StaleEntered, StoresSeen,
                Overlooked
  <1>7. ASSUME NEW s \in Slots, fast_write(s)
        PROVE  JitInv'
    BY <1>7, FastStoreKeeps
  <1>8. ASSUME NEW p, NEW q, update_tcm_arm9(p, q)
        PROVE  JitInv'
    BY <1>8, RemapKeeps
  <1> QED
    BY <1>1, <1>2, <1>3, <1>4, <1>5, <1>6, <1>7, <1>8 DEF Next

\* The invariant holds of every behaviour.
LEMMA JitInvHolds == Spec => []JitInv
  <1>1. Init => JitInv
    <2> SUFFICES ASSUME Init PROVE JitInv
      OBVIOUS
    <2>1. Emptied
      BY DEF Init, Emptied, InStep, Cpus
    <2> QED
      BY <2>1, EmptiedInv
  <1> QED
    BY <1>1, JitInvInductive, PTL DEF Spec

\* The state of the translated code keeps its types: an entry is a host page of
\* the JIT memory, a block's slots are slots of guest memory.
THEOREM JitTypes == Spec => []TypeOK
  <1>1. JitInv => TypeOK
    BY DEF JitInv
  <1> QED
    BY <1>1, JitInvHolds, PTL

\* For every size of the memory and every code: however often reset_blocks has
\* reused the memory, an entry leads to a block that is still in the queue.
THEOREM EntriesLead == Spec => []EntriesLive
  <1>1. JitInv => EntriesLive
    BY DEF JitInv
  <1> QED
    BY <1>1, JitInvHolds, PTL

\* For every size of the memory: the blocks in use and the window the next ones
\* are allocated from overlap nowhere.
THEOREM BlocksDisjoint == Spec => []BlocksApart
  <1>1. JitInv => BlocksApart
    <2> SUFFICES ASSUME JitInv, NEW c \in Cpus
                 PROVE  /\ \A i, j \in 1 .. Len(jit_funcs[c]) : i < j =>
                               \/ jit_funcs[c][i].to <= jit_funcs[c][j].from
                               \/ jit_funcs[c][j].to <= jit_funcs[c][i].from
                        /\ \A i \in 1 .. Len(jit_funcs[c]) :
                               \/ jit_funcs[c][i].to <= start[c]
                               \/ end[c] <= jit_funcs[c][i].from
      BY DEF BlocksApart
    <2> DEFINE f == jit_funcs[c]
    <2>1. /\ Len(f) \in Nat /\ start[c] \in Nat /\ end[c] \in Nat
          /\ start[c] <= end[c]
          /\ \A i \in 1 .. Len(f) : f[i].from \in Nat /\ f[i].to \in Nat
      <3>1. TypeOK /\ InRegion(c)
        BY DEF JitInv, Swept
      <3>2. f \in Seq(Block) /\ \A i \in 1 .. Len(f) : f[i] \in Block
        BY <3>1 DEF TypeOK
      <3> QED
        BY <3>1, <3>2 DEF TypeOK, InRegion, Block
    <2>2. PICK m \in 0 .. Len(f) : Parts(c, m)
      BY DEF JitInv, Swept
    <2>3. /\ \A i \in 1 .. m : end[c] <= f[i].from
          /\ \A i \in m + 1 .. Len(f) : f[i].to <= start[c]
          /\ \A i, k \in 1 .. Len(f) :
                 i < k /\ (k <= m \/ m < i) => f[i].to <= f[k].from
      BY <2>2 DEF Parts
    <2> HIDE DEF f
    <2>4. ASSUME NEW i \in 1 .. Len(f)
          PROVE  f[i].to <= start[c] \/ end[c] <= f[i].from
      BY <2>1, <2>3
    <2>5. ASSUME NEW i \in 1 .. Len(f), NEW j \in 1 .. Len(f), i < j
          PROVE  f[i].to <= f[j].from \/ f[j].to <= f[i].from
      <3>1. CASE j <= m \/ m < i
        BY <2>3, <2>5, <3>1
      <3>2. CASE i <= m /\ m < j
        <4>1. i \in 1 .. m /\ j \in m + 1 .. Len(f)
          BY <2>1, <3>2
        <4>2. end[c] <= f[i].from /\ f[j].to <= start[c]
          BY <2>3, <4>1
        <4> QED
          BY <2>1, <4>2
      <3> QED
        BY <2>1, <3>1, <3>2
    <2> QED
      BY <2>4, <2>5 DEF f
  <1> QED
    BY <1>1, JitInvHolds, PTL

\* For every layout of guest memory and code: no code of the ARM9 in main memory
\* and no code in VRAM is entered through an entry older than a store, unless
\* update_tcm_arm9 last mapped its MMU page with blocks in it, and even then not
\* in the 256 bytes that has_jit_block looks at.
THEOREM StoresTakeEntriesBack == Spec => []StoresSeen
  <1>1. JitInv => StoresSeen
    BY DEF JitInv
  <1> QED
    BY <1>1, JitInvHolds, PTL
-----------------------------------------------------------------------------
(* Allocations fit *)

\* A set of positive numbers has a least one.
LEMMA Least ==
    ASSUME NEW T \in SUBSET Nat, T # {}
    PROVE  \E x \in T : \A y \in T : x <= y
  <1> DEFINE R == OpToRel(<, Nat)
  <1>1. IsWellFoundedOn(R, Nat)
    BY NatLessThanWellFounded
  <1>2. \A x, y \in Nat : x < y => <<x, y>> \in R
    BY DEF OpToRel
  <1> HIDE DEF R
  <1>3. PICK x \in T : \A y \in T : ~(<<y, x>> \in R)
    BY <1>1, WFMin
  <1>4. ASSUME NEW y \in T PROVE x <= y
    <2>1. x \in Nat /\ y \in Nat /\ ~(y < x)
      BY <1>2, <1>3
    <2> QED
      BY <2>1
  <1> QED
    BY <1>4

\* Where sweeps end, for small blocks.
Phases(c) ==
    /\ RegionStart(c) \in Nat /\ Quarter(c) \in Nat /\ Margin(c) \in Nat
    /\ 10 * Margin(c) <= Quarter(c) /\ Quarter(c) >= 1
    /\ RegionEnd(c) \in Nat /\ RegionEnd(c) = RegionStart(c) + 4 * Quarter(c)
    /\ \A n \in BlockPages[c] : n \in Nat /\ 1 <= n /\ n <= Margin(c)
    /\ \A m \in 1 .. 3 : /\ Earliest(c, m) \in Nat /\ Latest(c, m) \in Nat
                         /\ Latest(c, m) + Margin(c) <= RegionEnd(c)
                         /\ RegionStart(c) + Quarter(c) <= Earliest(c, m)
    /\ \A m \in 1 .. 2 : /\ Earliest(c, m + 1) = Earliest(c, m) + Quarter(c)
                         /\ Latest(c, m + 1) = Latest(c, m) + Quarter(c) + 3 * Margin(c)
    /\ Earliest(c, 1) = RegionStart(c) + Quarter(c)
    /\ Latest(c, 1) = RegionStart(c) + Quarter(c) + 3 * Margin(c)
    /\ Earliest(c, 3) + Quarter(c) = RegionEnd(c)
    /\ \A m, p \in 1 .. 3 : /\ m <= p => Latest(c, m) <= Latest(c, p)
                            /\ p < m => Latest(c, p) <= Earliest(c, m)

\* They are there.
LEMMA PhaseFacts ==
    ASSUME SmallBlocks, NEW c \in Cpus
    PROVE  Phases(c)
  <1> DEFINE B == RegionStart(c)
             Q == Quarter(c)
             M == Margin(c)
  <1>1. /\ B \in Nat /\ RegionEnd(c) \in Nat /\ RegionEnd(c) = B + Size[c]
        /\ Size[c] \in Nat /\ Q \in Nat /\ Q >= 1 /\ BlockPages[c] \subseteq Nat \ {0}
    BY Regions DEF Quarter
  <1>2. Size[c] = 4 * Q /\ \A n \in BlockPages[c] : 40 * n <= Size[c]
    BY DEF SmallBlocks, Quarter
  <1>3. M \in Nat /\ 40 * M <= Size[c] /\ Size[c] < 40 * (M + 1)
    BY <1>1, DivFacts DEF Margin
  <1>4. \A m \in 1 .. 3 : Earliest(c, m) = B + m * Q /\ Latest(c, m) = B + m * (Q + 3 * M)
    BY DEF Earliest, Latest
  <1> HIDE DEF B, Q, M
  <1>5. /\ Earliest(c, 1) = B + Q /\ Latest(c, 1) = B + Q + 3 * M
        /\ Earliest(c, 2) = B + 2 * Q /\ Latest(c, 2) = B + 2 * Q + 6 * M
        /\ Earliest(c, 3) = B + 3 * Q /\ Latest(c, 3) = B + 3 * Q + 9 * M
    BY <1>1, <1>3, <1>4
  <1>6. 10 * M <= Q /\ RegionEnd(c) = B + 4 * Q
    BY <1>1, <1>2, <1>3
  <1>7. \A n \in BlockPages[c] : n \in Nat /\ 1 <= n /\ n <= M
    BY <1>1, <1>2, <1>3
  <1>8. \A m \in 1 .. 3 : m = 1 \/ m = 2 \/ m = 3
    OBVIOUS
  <1>9. \A m \in 1 .. 2 : (m = 1 /\ m + 1 = 2) \/ (m = 2 /\ m + 1 = 3)
    OBVIOUS
  <1>10. \A m \in 1 .. 3 : /\ Earliest(c, m) \in Nat /\ Latest(c, m) \in Nat
                           /\ Latest(c, m) + M <= RegionEnd(c) /\ B + Q <= Earliest(c, m)
    BY <1>1, <1>3, <1>5, <1>6, <1>8
  <1>11. \A m \in 1 .. 2 : /\ Earliest(c, m + 1) = Earliest(c, m) + Q
                           /\ Latest(c, m + 1) = Latest(c, m) + Q + 3 * M
    BY <1>1, <1>3, <1>5, <1>9
  <1>12. \A m, p \in 1 .. 3 : /\ m <= p => Latest(c, m) <= Latest(c, p)
                              /\ p < m => Latest(c, p) <= Earliest(c, m)
    BY <1>1, <1>3, <1>5, <1>6, <1>8
  <1> QED
    BY <1>1, <1>3, <1>5, <1>6, <1>7, <1>10, <1>11, <1>12 DEF Phases, B, Q, M

\* What is known of a CPU's part before an allocation.
Before(c, j, f) ==
    /\ f = jit_funcs[c] /\ f \in Seq(Block) /\ Len(f) \in Nat
    /\ start[c] \in Nat /\ end[c] \in Nat
    /\ \A i \in 1 .. Len(f) : /\ f[i].from \in Nat /\ f[i].to \in Nat
                              /\ RegionStart(c) <= f[i].from /\ f[i].from < f[i].to
                              /\ f[i].to <= RegionEnd(c)
    /\ RegionStart(c) <= start[c] /\ start[c] <= end[c] /\ end[c] <= RegionEnd(c)
    /\ j \in Nat /\ j <= Len(f)
    /\ \A i \in 1 .. j : end[c] <= f[i].from
    /\ \A i \in j + 1 .. Len(f) : f[i].to <= start[c]
    /\ \A i, k \in 1 .. Len(f) : i < k /\ (k <= j \/ j < i) => f[i].to <= f[k].from
    /\ Tidy(c, j, f, start[c], end[c])
    /\ Phases(c)

\* It is known.
LEMMA BeforeFacts ==
    ASSUME SmallBlocks, TypeOK, NEW c \in Cpus, InRegion(c),
           NEW j \in 0 .. Len(jit_funcs[c]), Parts(c, j),
           Tidy(c, j, jit_funcs[c], start[c], end[c])
    PROVE  Before(c, j, jit_funcs[c])
  <1>1. jit_funcs[c] \in Seq(Block) /\ start[c] \in Nat /\ end[c] \in Nat
    BY DEF TypeOK
  <1>2. \A i \in 1 .. Len(jit_funcs[c]) :
            jit_funcs[c][i].from \in Nat /\ jit_funcs[c][i].to \in Nat
    <2>1. \A i \in 1 .. Len(jit_funcs[c]) : jit_funcs[c][i] \in Block
      BY <1>1
    <2> QED
      BY <2>1 DEF Block
  <1>3. Phases(c)
    BY PhaseFacts
  <1> QED
    BY <1>1, <1>2, <1>3 DEF Before, InRegion, Parts

\* A sweep of the queue q: it frees the first k blocks, a quarter or up to the
\* end of the part.
SweepEnds(c, n, j, f, q, k) ==
    /\ f # <<>> /\ q \in Seq(Block) /\ Len(q) = Len(f) /\ k \in 1 .. Len(f)
    /\ \A i \in 1 .. Len(q) : /\ q[i].from = f[i].from
                              /\ i # Len(q) => q[i].to = f[i].to
    /\ \A i \in 1 .. k - 1 : f[i].to < f[1].from + Quarter(c)
    /\ j = 0 => q[k].to >= f[1].from + Quarter(c) /\ q[Len(q)].to = RegionEnd(c)
    /\ j > 0 => /\ k <= j /\ q[Len(q)].to = f[Len(q)].to
                /\ k = j \/ q[k].to >= f[1].from + Quarter(c)

\* In the queue that an allocation beyond the window sweeps, newest block first.
LEMMA SweptQueue ==
    ASSUME NEW c \in Cpus, NEW j, NEW f, Before(c, j, f), NEW n \in BlockPages[c],
           ~(start[c] + n <= end[c])
    PROVE  /\ f # <<>> /\ Len(f) \in Nat \ {0} /\ j < Len(f)
           /\ j = 0 => start[c] + n > RegionEnd(c) /\ f[1].from = RegionStart(c)
           /\ j > 0 => /\ start[c] + n <= RegionEnd(c)
                       /\ f[1].from + Margin(c) <= RegionEnd(c)
                       /\ f[j + 1].to < f[1].from
                       /\ f[j].to = RegionEnd(c)
  <1>1. /\ Len(f) \in Nat /\ f \in Seq(Block) /\ j \in Nat /\ j <= Len(f)
        /\ start[c] \in Nat /\ end[c] \in Nat /\ start[c] <= end[c]
        /\ \A i \in 1 .. Len(f) : f[i].from \in Nat /\ f[i].to \in Nat
        /\ \A i \in 1 .. j : end[c] <= f[i].from
        /\ Wrapped(c, j, f, start[c], end[c]) /\ Short(c, j, f)
        /\ j > 0 => Phased(c, f, end[c])
    BY DEF Before, Tidy
  <1>2. Phases(c)
    BY DEF Before
  <1>3. /\ RegionStart(c) \in Nat /\ RegionEnd(c) \in Nat /\ Quarter(c) \in Nat
        /\ Margin(c) \in Nat /\ 10 * Margin(c) <= Quarter(c)
        /\ RegionEnd(c) = RegionStart(c) + 4 * Quarter(c)
        /\ n \in Nat /\ 1 <= n /\ n <= Margin(c)
    BY <1>2 DEF Phases
  <1>4. f # <<>>
    BY <1>1, <1>3 DEF Wrapped
  <1>5. Len(f) \in Nat \ {0} /\ j < Len(f) /\ f[j + 1].from = RegionStart(c)
    BY <1>1, <1>4 DEF Wrapped
  <1>6. CASE j = 0
    <2>1. end[c] = RegionEnd(c) /\ j + 1 = 1 /\ start[c] \in Nat
      BY <1>1, <1>6 DEF Wrapped
    <2>2. start[c] + n > RegionEnd(c)
      BY <1>3, <2>1
    <2> QED
      BY <1>4, <1>5, <1>6, <2>1, <2>2
  <1>7. CASE j > 0
    <2>1. PICK m \in 1 .. 3 : /\ Earliest(c, m) <= end[c]
                              /\ \/ f[1].from < Latest(c, m) - Margin(c)
                                 \/ end[c] = f[1].from /\ end[c] < Latest(c, m)
      BY <1>1, <1>7 DEF Phased
    <2>2. /\ Earliest(c, m) \in Nat /\ Latest(c, m) \in Nat
          /\ Latest(c, m) + Margin(c) <= RegionEnd(c)
          /\ RegionStart(c) + Quarter(c) <= Earliest(c, m)
      BY <1>2 DEF Phases
    <2>3. f[1].from \in Nat /\ end[c] <= f[1].from
      BY <1>1, <1>5, <1>7
    <2>4. f[1].from < Latest(c, m)
      BY <1>3, <2>1, <2>2, <2>3
    <2>5. f[j + 1].to - f[j + 1].from <= Margin(c) /\ f[j + 1].to \in Nat
      BY <1>1, <1>5 DEF Short
    <2>6. f[j + 1].to < f[1].from
      <3>1. f[j + 1].to <= RegionStart(c) + Margin(c)
        <4> DEFINE x == f[j + 1].to
        <4>1. x - RegionStart(c) <= Margin(c) /\ x \in Nat
          BY <1>5, <2>5
        <4> HIDE DEF x
        <4>2. x <= RegionStart(c) + Margin(c)
          BY <1>3, <4>1
        <4> QED
          BY <4>2 DEF x
      <3>2. RegionStart(c) + Margin(c) < Earliest(c, m)
        BY <1>3, <2>2
      <3>3. Earliest(c, m) <= f[1].from
        BY <1>1, <2>1, <2>2, <2>3
      <3> QED
        BY <1>3, <2>2, <2>3, <2>5, <3>1, <3>2, <3>3
    <2>7. f[1].from + Margin(c) <= RegionEnd(c) /\ start[c] + n <= RegionEnd(c)
      <3>1. start[c] \in Nat /\ start[c] <= f[1].from
        BY <1>1, <2>3
      <3> QED
        BY <1>3, <2>2, <2>3, <2>4, <3>1
    <2>8. f[j].to = RegionEnd(c)
      BY <1>1, <1>7 DEF Wrapped
    <2> QED
      BY <1>4, <1>5, <1>7, <2>6, <2>7, <2>8
  <1> QED
    BY <1>1, <1>4, <1>5, <1>6, <1>7

\* reset_blocks stops as SweepEnds says.
LEMMA FirstStop ==
    ASSUME NEW c \in Cpus, NEW j, NEW f, Before(c, j, f), NEW n \in BlockPages[c],
           ~(start[c] + n <= end[c]),
           NEW q, Stretched(c, n, q), NEW k \in FreedCounts(q, c)
    PROVE  SweepEnds(c, n, j, f, q, k)
  <1>1. /\ Len(f) \in Nat /\ f = jit_funcs[c] /\ j \in Nat
        /\ start[c] \in Nat /\ n \in Nat /\ RegionEnd(c) \in Nat /\ Quarter(c) \in Nat
        /\ \A i \in 1 .. Len(f) : /\ f[i].from \in Nat /\ f[i].to \in Nat
                                  /\ f[i].from < f[i].to /\ f[i].to <= RegionEnd(c)
        /\ \A i, m \in 1 .. Len(f) : i < m /\ (m <= j \/ j < i) => f[i].to <= f[m].from
    BY DEF Before, Phases
  <1>2. /\ f # <<>> /\ Len(f) \in Nat \ {0} /\ j < Len(f)
        /\ j = 0 => start[c] + n > RegionEnd(c)
        /\ j > 0 => start[c] + n <= RegionEnd(c) /\ f[j + 1].to < f[1].from
    BY SweptQueue
  <1>3. /\ q \in Seq(Block) /\ Len(q) = Len(f)
        /\ \A i \in 1 .. Len(q) :
              /\ q[i].from = f[i].from
              /\ i # Len(q) \/ start[c] + n <= RegionEnd(c) => q[i].to = f[i].to
              /\ i = Len(q) /\ start[c] + n > RegionEnd(c) => q[i].to = RegionEnd(c)
    BY <1>1 DEF Stretched
  <1>4. ASSUME NEW i \in 1 .. Len(q)
        PROVE  q[i].to \in Nat /\ f[i].to <= q[i].to /\ q[i].from < q[i].to
    <2>1. /\ f[i].from \in Nat /\ f[i].to \in Nat /\ f[i].from < f[i].to
          /\ f[i].to <= RegionEnd(c)
      BY <1>1, <1>3
    <2>2. /\ q[i].from = f[i].from /\ RegionEnd(c) \in Nat
          /\ q[i].to = f[i].to \/ q[i].to = RegionEnd(c)
      BY <1>1, <1>3
    <2> QED
      BY <2>1, <2>2
  <1>5. /\ k \in 1 .. Len(q) /\ StopsAfter(q, c, k)
        /\ \A i \in 1 .. k - 1 : ~StopsAfter(q, c, i)
    BY DEF FreedCounts
  <1>6. \A i \in 1 .. Len(q) : StopsAfter(q, c, i) <=>
            \/ q[i].to - f[1].from >= Quarter(c)
            \/ i < Len(q) /\ q[i + 1].to < f[1].from
    BY <1>2, <1>3 DEF StopsAfter, Quarter
  <1>7. 1 \in 1 .. Len(f) /\ f[1].from \in Nat
    BY <1>1, <1>2
  <1>8. ASSUME NEW i \in 1 .. k - 1 PROVE f[i].to < f[1].from + Quarter(c)
    <2>1. i \in 1 .. Len(q) /\ i # Len(q) /\ ~StopsAfter(q, c, i)
      BY <1>1, <1>3, <1>5
    <2>2. q[i].to = f[i].to /\ ~(q[i].to - f[1].from >= Quarter(c)) /\ q[i].to \in Nat
      BY <1>3, <1>4, <1>6, <2>1
    <2> DEFINE x == f[1].from
               y == f[i].to
    <2>3. x \in Nat /\ y \in Nat /\ Quarter(c) \in Nat /\ ~(y - x >= Quarter(c))
      BY <1>1, <1>7, <2>2
    <2> HIDE DEF x, y
    <2>4. y < x + Quarter(c)
      BY <2>3
    <2> QED
      BY <2>4 DEF x, y
  <1>9. ASSUME k < Len(q), j = 0 \/ k < j
        PROVE  ~(q[k + 1].to < f[1].from)
    <2>1. k + 1 \in 1 .. Len(f) /\ 1 < k + 1 /\ (k + 1 <= j \/ j < 1)
      BY <1>1, <1>3, <1>5, <1>9
    <2>2. f[1].to <= f[k + 1].from
      BY <1>1, <1>7, <2>1
    <2>3. f[1].from < f[1].to /\ f[k + 1].from < f[k + 1].to /\ f[k + 1].to <= q[k + 1].to
      BY <1>1, <1>3, <1>4, <1>7, <2>1
    <2>4. /\ f[1].to \in Nat /\ f[k + 1].to \in Nat /\ f[k + 1].from \in Nat
          /\ q[k + 1].to \in Nat
      BY <1>1, <1>3, <1>4, <1>7, <2>1
    <2> QED
      BY <1>7, <2>2, <2>3, <2>4
  <1>10. q[k].to \in Nat
    BY <1>4, <1>5
  <1>11. CASE j = 0
    <2>1. q[Len(q)].to = RegionEnd(c)
      BY <1>2, <1>3, <1>11
    <2>2. q[k].to - f[1].from >= Quarter(c)
      BY <1>5, <1>6, <1>9, <1>11
    <2>3. q[k].to >= f[1].from + Quarter(c)
      <3> DEFINE x == f[1].from
                 y == q[k].to
      <3>1. x \in Nat /\ y \in Nat /\ Quarter(c) \in Nat /\ y - x >= Quarter(c)
        BY <1>1, <1>7, <1>10, <2>2
      <3> HIDE DEF x, y
      <3>2. y >= x + Quarter(c)
        BY <3>1
      <3> QED
        BY <3>2 DEF x, y
    <2> QED
      BY <1>2, <1>3, <1>5, <1>8, <1>11, <2>1, <2>3 DEF SweepEnds
  <1>12. CASE j > 0
    <2>1. q[Len(q)].to = f[Len(q)].to
      BY <1>2, <1>3, <1>12
    <2>2. k <= j
      <3> SUFFICES ASSUME k > j PROVE FALSE
        BY <1>1, <1>5
      <3>1. j \in 1 .. k - 1 /\ j \in 1 .. Len(q) /\ j < Len(q) /\ j + 1 \in 1 .. Len(q)
        BY <1>1, <1>2, <1>3, <1>5, <1>12
      <3>2. q[j + 1].to = f[j + 1].to
        BY <1>2, <1>3, <1>12, <3>1
      <3> QED
        BY <1>2, <1>5, <1>6, <1>12, <3>1, <3>2
    <2>3. ASSUME k # j PROVE q[k].to >= f[1].from + Quarter(c)
      <3>1. k < j /\ k < Len(q)
        BY <1>1, <1>2, <1>3, <1>5, <2>2, <2>3
      <3>2. q[k].to - f[1].from >= Quarter(c)
        BY <1>5, <1>6, <1>9, <3>1
      <3> DEFINE x == f[1].from
                 y == q[k].to
      <3>3. x \in Nat /\ y \in Nat /\ Quarter(c) \in Nat /\ y - x >= Quarter(c)
        BY <1>1, <1>7, <1>10, <3>2
      <3> HIDE DEF x, y
      <3>4. y >= x + Quarter(c)
        BY <3>3
      <3> QED
        BY <3>4 DEF x, y
    <2> QED
      BY <1>2, <1>3, <1>5, <1>8, <1>12, <2>1, <2>2, <2>3 DEF SweepEnds
  <1> QED
    BY <1>1, <1>11, <1>12

\* It does stop: the queue does not run empty.
LEMMA SomeStop ==
    ASSUME NEW c \in Cpus, NEW j, NEW f, Before(c, j, f), NEW n \in BlockPages[c],
           ~(start[c] + n <= end[c]), NEW q, Stretched(c, n, q)
    PROVE  FreedCounts(q, c) # {}
  <1>1. /\ f = jit_funcs[c] /\ j \in Nat
        /\ RegionStart(c) \in Nat /\ Quarter(c) \in Nat
        /\ RegionEnd(c) = RegionStart(c) + 4 * Quarter(c)
    BY DEF Before, Phases
  <1>2. /\ f # <<>> /\ Len(f) \in Nat \ {0} /\ j < Len(f)
        /\ j = 0 => start[c] + n > RegionEnd(c) /\ f[1].from = RegionStart(c)
        /\ j > 0 => start[c] + n <= RegionEnd(c) /\ f[j + 1].to < f[1].from
    BY SweptQueue
  <1>3. /\ q \in Seq(Block) /\ Len(q) = Len(f)
        /\ \A i \in 1 .. Len(q) :
              /\ q[i].from = f[i].from
              /\ i # Len(q) \/ start[c] + n <= RegionEnd(c) => q[i].to = f[i].to
              /\ i = Len(q) /\ start[c] + n > RegionEnd(c) => q[i].to = RegionEnd(c)
    BY <1>1 DEF Stretched
  <1>4. \A i \in 1 .. Len(q) : StopsAfter(q, c, i) <=>
            \/ q[i].to - f[1].from >= Quarter(c)
            \/ i < Len(q) /\ q[i + 1].to < f[1].from
    BY <1>2, <1>3 DEF StopsAfter, Quarter
  <1> DEFINE T == {i \in 1 .. Len(q) : StopsAfter(q, c, i)}
  <1>5. T # {}
    <2>1. CASE j = 0
      <3>1. Len(q) \in 1 .. Len(q) /\ q[Len(q)].to = RegionEnd(c)
        BY <1>2, <1>3, <2>1
      <3>2. q[Len(q)].to - f[1].from >= Quarter(c)
        BY <1>1, <1>2, <2>1, <3>1
      <3> QED
        BY <1>4, <3>1, <3>2
    <2>2. CASE j > 0
      <3>1. j \in 1 .. Len(q) /\ j < Len(q) /\ j + 1 \in 1 .. Len(q)
        BY <1>1, <1>2, <1>3, <2>2
      <3>2. q[j + 1].to < f[1].from
        BY <1>2, <1>3, <2>2, <3>1
      <3> QED
        BY <1>4, <3>1, <3>2
    <2> QED
      BY <1>1, <2>1, <2>2
  <1>6. T \subseteq Nat
    OBVIOUS
  <1>7. PICK x \in T : \A y \in T : x <= y
    BY <1>5, <1>6, Least
  <1>8. ASSUME NEW y \in 1 .. x - 1 PROVE ~StopsAfter(q, c, y)
    BY <1>3, <1>7
  <1>9. x \in FreedCounts(q, c)
    BY <1>7, <1>8 DEF FreedCounts
  <1> QED
    BY <1>9

\* What a sweep frees is enough for the block.
LEMMA TidyFits ==
    ASSUME TypeOK, NEW c \in Cpus, NEW j, Before(c, j, jit_funcs[c]),
           NEW n \in BlockPages[c]
    PROVE  Fits(c, n)
  <1> SUFFICES ASSUME ~(start[c] + n <= end[c]) PROVE Fits(c, n)
    BY DEF Fits
  <1> DEFINE f == jit_funcs[c]
             q == StretchBack(f, c, n)
             k == CHOOSE m \in FreedCounts(q, c) : TRUE
  <1>1. /\ Len(f) \in Nat /\ j \in Nat /\ n \in Nat /\ n <= Margin(c) /\ Margin(c) \in Nat
        /\ Quarter(c) \in Nat /\ 10 * Margin(c) <= Quarter(c) /\ RegionEnd(c) \in Nat
        /\ \A i \in 1 .. Len(f) : f[i].from \in Nat
    BY DEF Before, Phases
  <1>2. /\ f # <<>> /\ Len(f) \in Nat \ {0} /\ j < Len(f)
        /\ j > 0 => f[1].from + Margin(c) <= RegionEnd(c) /\ f[j].to = RegionEnd(c)
    BY SweptQueue
  <1>3. Stretched(c, n, q)
    BY <1>1, <1>2, StretchFacts
  <1>4. FreedCounts(q, c) # {}
    BY <1>3, SomeStop
  <1>5. k \in FreedCounts(q, c)
    BY <1>4
  <1>6. /\ Allocated(c, n).from = q[1].from
        /\ Allocated(c, n).end = q[k].to
    <2>1. Allocated(c, n) = [from |-> q[1].from, end |-> q[k].to,
                             kept |-> SubSeq(q, k + 1, Len(q)), freed |-> SubSeq(q, 1, k)]
      BY DEF Allocated
    <2> HIDE DEF q, k
    <2> QED
      BY <2>1
  <1> HIDE DEF q, k
  <1>7. SweepEnds(c, n, j, f, q, k)
    BY <1>3, <1>5, FirstStop
  <1> HIDE DEF f
  <1>8. /\ q \in Seq(Block) /\ k \in 1 .. Len(q) /\ Len(q) = Len(f)
        /\ \A i \in 1 .. Len(q) : q[i] \in Block
    BY <1>7 DEF SweepEnds
  <1>9. q[k].to \in Nat /\ f[1].from \in Nat /\ q[1].from = f[1].from
    <2>1. q[k].to \in Nat
      BY <1>8 DEF Block
    <2>2. 1 \in 1 .. Len(f) /\ 1 \in 1 .. Len(q)
      BY <1>2, <1>8
    <2>3. q[1].from = f[1].from
      BY <1>7, <2>2 DEF SweepEnds
    <2> QED
      BY <1>1, <2>1, <2>2, <2>3
  <1>10. q[1].from + n <= q[k].to
    <2>1. CASE q[k].to >= f[1].from + Quarter(c)
      <3> DEFINE x == q[1].from
                 y == q[k].to
      <3>1. x \in Nat /\ y \in Nat /\ y >= x + Quarter(c)
        BY <1>9, <2>1
      <3>2. /\ n \in Nat /\ n <= Margin(c) /\ Margin(c) \in Nat
            /\ Quarter(c) \in Nat /\ 10 * Margin(c) <= Quarter(c)
        BY <1>1
      <3> HIDE DEF x, y
      <3>3. x + n <= y
        BY <3>1, <3>2
      <3> QED
        BY <3>3 DEF x, y
    <2>2. CASE j > 0 /\ k = j
      <3>1. q[k].to = RegionEnd(c)
        BY <1>1, <1>2, <1>7, <1>8, <2>2 DEF SweepEnds
      <3> QED
        BY <1>1, <1>2, <1>9, <2>2, <3>1
    <2> QED
      BY <1>1, <1>7, <2>1, <2>2 DEF SweepEnds
  <1> QED
    BY <1>2, <1>4, <1>6, <1>10 DEF Fits, f, q

\* A sweep that frees a block k of those before the last is followed by one that
\* begins before the latest.
LEMMA NextPhase ==
    ASSUME NEW c \in Cpus, NEW j, NEW f, Before(c, j, f),
           NEW k \in 2 .. Len(f) - 1, k # j, k - 1 # j, NEW m \in 1 .. 3,
           f[k - 1].to < Latest(c, m) - 3 * Margin(c), Earliest(c, m) <= f[k].to
    PROVE  \/ f[k + 1].from < Latest(c, m) - Margin(c)
           \/ f[k].to = f[k + 1].from /\ f[k].to < Latest(c, m)
  <1>1. /\ Len(f) \in Nat
        /\ \A i \in 1 .. Len(f) : f[i].from \in Nat /\ f[i].to \in Nat
        /\ Margin(c) \in Nat /\ Latest(c, m) \in Nat
        /\ Short(c, j, f) /\ GapsBounded(c, j, f) /\ GapsApart(j, f)
    BY DEF Before, Phases, Tidy
  <1>2. /\ k - 1 \in 1 .. Len(f) - 1 /\ k \in 1 .. Len(f) - 1 /\ (k - 1) + 1 = k
        /\ k - 1 \in 1 .. Len(f) /\ k \in 1 .. Len(f)
    BY <1>1
  <1> DEFINE x == f[k - 1].to
             y == f[k].from
             z == f[k].to
             h == Latest(c, m)
             d == Margin(c)
  <1>3. /\ x \in Nat /\ y \in Nat /\ z \in Nat /\ h \in Nat /\ d \in Nat
        /\ z - y <= d /\ x < h - 3 * d
    BY <1>1, <1>2 DEF Short
  <1>4. /\ x < h - 2 * d => y < h - d
        /\ z < h - 2 * d => f[k + 1].from < h - d
    BY <1>1, <1>2 DEF GapsBounded
  <1>5. x = y \/ z = f[k + 1].from
    BY <1>1 DEF GapsApart
  <1> HIDE DEF x, y, z, h, d
  <1>6. y < h - d
    BY <1>3, <1>4
  <1>7. z < h
    BY <1>3, <1>6
  <1>8. x = y => z < h - 2 * d
    BY <1>3
  <1> QED
    BY <1>4, <1>5, <1>7, <1>8 DEF z, h, d

\* The queue f2 that is left when the first k blocks of q are freed and a block
\* of n pages is allocated at from.
Renewed(q, k, from, n, f2) ==
    /\ Len(f2) = Len(q) - k + 1
    /\ \A i \in 1 .. Len(q) - k : f2[i].from = q[i + k].from /\ f2[i].to = q[i + k].to
    /\ f2[Len(q) - k + 1].from = from /\ f2[Len(q) - k + 1].to = from + n

\* An allocation from the window leaves the part tidy.
LEMMA TidyAppend ==
    ASSUME NEW c \in Cpus, NEW j, NEW f, Before(c, j, f), NEW n \in BlockPages[c],
           start[c] + n <= end[c], NEW f2, Renewed(f, 0, start[c], n, f2)
    PROVE  Tidy(c, j, f2, start[c] + n, end[c])
  <1> DEFINE L == Len(f)
             s == start[c]
             e == end[c]
             M == Margin(c)
  <1>1. /\ L \in Nat /\ j \in Nat /\ j <= L /\ s \in Nat /\ e \in Nat
        /\ n \in Nat /\ 1 <= n /\ n <= M /\ M \in Nat
        /\ \A i \in 1 .. L : f[i].from \in Nat /\ f[i].to \in Nat
        /\ \A m \in 1 .. 3 : Latest(c, m) \in Nat
        /\ Wrapped(c, j, f, s, e) /\ Short(c, j, f) /\ (j > 0 => Phased(c, f, e))
        /\ GapsBounded(c, j, f) /\ GapsApart(j, f) /\ f \in Seq(Block)
    BY DEF Before, Phases, Tidy
  <1>2. /\ Len(f2) = L + 1
        /\ \A i \in 1 .. L : f2[i].from = f[i].from /\ f2[i].to = f[i].to
        /\ f2[L + 1].from = s /\ f2[L + 1].to = s + n
    BY <1>1 DEF Renewed
  <1>3. f2 # <<>>
    BY <1>1, <1>2
  <1>4. CASE f = <<>>
    <2>1. L = 0 /\ j = 0
      BY <1>1, <1>4
    <2>2. s = RegionStart(c) /\ e = RegionEnd(c)
      BY <1>1, <1>4 DEF Wrapped
    <2>3. Len(f2) = 1 /\ f2[1].from = s /\ f2[1].to = s + n
      BY <1>2, <2>1
    <2>4. Wrapped(c, j, f2, s + n, e)
      BY <1>3, <2>1, <2>2, <2>3 DEF Wrapped
    <2>5. Short(c, j, f2)
      BY <1>1, <2>3 DEF Short
    <2>6. GapsBounded(c, j, f2) /\ GapsApart(j, f2)
      BY <2>3 DEF GapsBounded, GapsApart
    <2>7. Roomy(c, j, f2, e)
      BY <2>2 DEF Roomy
    <2> QED
      BY <2>1, <2>4, <2>5, <2>6, <2>7 DEF Tidy
  <1>5. CASE f # <<>>
    <2>1. j < L /\ f[L].to = s /\ f[j + 1].from = RegionStart(c) /\ L \in 1 .. L
      BY <1>1, <1>5 DEF Wrapped
    <2>2. Wrapped(c, j, f2, s + n, e)
      <3>1. f2[j + 1].from = RegionStart(c)
        <4>1. j + 1 \in 1 .. L
          BY <1>1, <2>1
        <4> QED
          BY <1>2, <2>1, <4>1
      <3>2. j > 0 => f2[j].to = f[j].to
        BY <1>1, <1>2
      <3> QED
        BY <1>1, <1>2, <1>3, <2>1, <3>1, <3>2 DEF Wrapped
    <2>3. Short(c, j, f2)
      <3> SUFFICES ASSUME NEW i \in 1 .. L + 1, i # j PROVE f2[i].to - f2[i].from <= M
        BY <1>2 DEF Short
      <3>1. CASE i \in 1 .. L
        BY <1>1, <1>2, <3>1 DEF Short
      <3>2. CASE i = L + 1
        BY <1>1, <1>2, <3>2
      <3> HIDE DEF L
      <3> QED
        BY <1>1, <3>1, <3>2
    <2>4. j > 0 => Phased(c, f2, e)
      <3>1. f2[1].from = f[1].from
        BY <1>2, <2>1, <1>1
      <3> QED
        BY <1>1, <3>1 DEF Phased
    <2>5. GapsBounded(c, j, f2)
      <3> SUFFICES ASSUME NEW k \in 1 .. L, NEW m \in 1 .. 3, k # j,
                          f2[k].to < Latest(c, m) - 2 * M
                   PROVE  f2[k + 1].from < Latest(c, m) - M
        <4>1. Len(f2) - 1 = L
          BY <1>1, <1>2
        <4> HIDE DEF L
        <4> QED
          BY <4>1 DEF GapsBounded
      <3>1. CASE k = L
        <4>1. f2[k].to = s /\ f2[k + 1].from = s /\ s \in Nat /\ M \in Nat
          BY <1>1, <1>2, <2>1, <3>1
        <4>2. Latest(c, m) \in Nat
          BY <1>1
        <4> QED
          BY <4>1, <4>2
      <3>2. CASE k # L
        <4>1. k \in 1 .. L - 1 /\ k + 1 \in 1 .. L
          BY <1>1, <3>2
        <4> QED
          BY <1>1, <1>2, <4>1 DEF GapsBounded
      <3> QED
        BY <3>1, <3>2
    <2>6. GapsApart(j, f2)
      <3> SUFFICES ASSUME NEW k \in 2 .. L, k # j, k - 1 # j
                   PROVE  f2[k - 1].to = f2[k].from \/ f2[k].to = f2[k + 1].from
        BY <1>1, <1>2 DEF GapsApart
      <3>1. CASE k = L
        BY <1>1, <1>2, <2>1, <3>1
      <3>2. CASE k # L
        <4>1. k \in 2 .. L - 1 /\ k + 1 \in 1 .. L /\ k - 1 \in 1 .. L /\ k \in 1 .. L
          <5>1. L \in Nat
            BY <1>1
          <5> HIDE DEF L
          <5> QED
            BY <3>2, <5>1
        <4>2. f[k - 1].to = f[k].from \/ f[k].to = f[k + 1].from
          BY <1>1, <4>1 DEF GapsApart
        <4> QED
          BY <1>2, <4>1, <4>2
      <3> QED
        BY <3>1, <3>2
    <2>7. Roomy(c, j, f2, e)
      <3>1. Len(f2) # j + 1 /\ Len(f2) - 1 = L
        BY <1>1, <1>2, <2>1
      <3>2. f2[Len(f2) - 1].to = f2[Len(f2)].from
        BY <1>2, <2>1, <3>1
      <3> QED
        BY <3>1, <3>2 DEF Roomy
    <2> QED
      BY <2>2, <2>3, <2>4, <2>5, <2>6, <2>7 DEF Tidy
  <1> QED
    BY <1>4, <1>5

\* So does one after a sweep from the front of the part.
LEMMA TidySweepFront ==
    ASSUME NEW c \in Cpus, NEW f, Before(c, 0, f), NEW n \in BlockPages[c],
           ~(start[c] + n <= end[c]),
           NEW q, NEW k, SweepEnds(c, n, 0, f, q, k),
           NEW f2, Renewed(q, k, f[1].from, n, f2)
    PROVE  Tidy(c, Len(f) - k, f2, f[1].from + n, q[k].to)
  <1> DEFINE L == Len(f)
             B == RegionStart(c)
             E == RegionEnd(c)
             Q == Quarter(c)
             M == Margin(c)
             h == L - k
  <1>1. /\ L \in Nat /\ n \in Nat /\ 1 <= n /\ n <= M /\ M \in Nat /\ Q \in Nat
        /\ 10 * M <= Q /\ B \in Nat
        /\ \A i \in 1 .. L : f[i].from \in Nat /\ f[i].to \in Nat
        /\ Short(c, 0, f) /\ GapsBounded(c, 0, f) /\ GapsApart(0, f)
    BY DEF Before, Phases, Tidy
  <1>2. L \in Nat \ {0} /\ f[1].from = B
    BY SweptQueue
  <1>3. /\ Len(q) = L /\ k \in 1 .. L
        /\ \A i \in 1 .. L : q[i].from = f[i].from /\ (i # L => q[i].to = f[i].to)
        /\ \A i \in 1 .. k - 1 : f[i].to < B + Q
        /\ q[k].to >= B + Q /\ q[L].to = E
    BY <1>2 DEF SweepEnds
  <1>4. /\ Len(f2) = h + 1 /\ h \in Nat
        /\ \A i \in 1 .. h : /\ i + k \in 1 .. L
                             /\ f2[i].from = q[i + k].from /\ f2[i].to = q[i + k].to
        /\ f2[h + 1].from = B /\ f2[h + 1].to = B + n
    <2>1. Len(q) - k = h /\ h \in Nat /\ \A i \in 1 .. h : i + k \in 1 .. L
      BY <1>1, <1>3
    <2> HIDE DEF h
    <2> QED
      BY <1>2, <2>1 DEF Renewed
  <1>5. /\ \A i \in 1 .. h : f2[i].from = f[i + k].from
        /\ \A i \in 1 .. h : i # h => f2[i].to = f[i + k].to
        /\ h > 0 => f2[h].to = E
    <2>1. \A i \in 1 .. h : i + k \in 1 .. L /\ (i # h => i + k # L)
      <3>1. h \in Nat /\ k \in 1 .. L /\ h = L - k /\ L \in Nat
        BY <1>1, <1>3, <1>4
      <3> HIDE DEF L, h
      <3> QED
        BY <3>1
    <2>2. h > 0 => h \in 1 .. h /\ h + k = L
      BY <1>1, <1>3
    <2> HIDE DEF h
    <2> QED
      BY <1>3, <1>4, <2>1, <2>2
  <1> HIDE DEF h
  <1>6. Wrapped(c, h, f2, B + n, q[k].to)
    <2>1. f2 # <<>>
      BY <1>4
    <2>2. h = 0 => q[k].to = E
      BY <1>1, <1>3 DEF h
    <2> QED
      BY <1>4, <1>5, <2>1, <2>2 DEF Wrapped
  <1>7. Short(c, h, f2)
    <2> SUFFICES ASSUME NEW i \in 1 .. h + 1, i # h PROVE f2[i].to - f2[i].from <= M
      BY <1>4 DEF Short
    <2>1. CASE i = h + 1
      BY <1>1, <1>4, <2>1
    <2>2. CASE i \in 1 .. h
      <3>1. i + k \in 1 .. L /\ i + k # 0
        BY <1>3, <1>4, <2>2
      <3> QED
        BY <1>1, <1>5, <2>2, <3>1 DEF Short
    <2> QED
      BY <1>4, <2>1, <2>2
  <1>8. h > 0 => Phased(c, f2, q[k].to)
    <2> SUFFICES ASSUME h > 0 PROVE Phased(c, f2, q[k].to)
      OBVIOUS
    <2>1. k < L /\ k \in Nat /\ k # L
      BY <1>1, <1>3 DEF h
    <2>2. q[k].to = f[k].to
      BY <1>3, <2>1
    <2>3. k # 1
      <3> SUFFICES ASSUME k = 1 PROVE FALSE
        OBVIOUS
      <3>1. f[1].to - f[1].from <= M /\ f[1].to \in Nat
        BY <1>1, <1>2 DEF Short
      <3>2. f[1].to >= B + Q
        BY <1>3, <2>2
      <3> QED
        BY <1>1, <1>2, <3>1, <3>2
    <2>4. k \in 2 .. L - 1 /\ k - 1 \in 1 .. k - 1
      BY <1>1, <1>3, <2>1, <2>3
    <2>5. /\ Latest(c, 1) = B + Q + 3 * M /\ Earliest(c, 1) = B + Q
          /\ Latest(c, 1) - 3 * M = B + Q
      <3>1. Latest(c, 1) = B + Q + 3 * M /\ Earliest(c, 1) = B + Q
        BY DEF Before, Phases
      <3> QED
        BY <1>1, <3>1
    <2>6. f[k - 1].to < Latest(c, 1) - 3 * M
      BY <1>3, <2>4, <2>5
    <2>7. Earliest(c, 1) <= f[k].to
      BY <1>1, <1>3, <2>2, <2>5
    <2>8. \/ f[k + 1].from < Latest(c, 1) - M
          \/ f[k].to = f[k + 1].from /\ f[k].to < Latest(c, 1)
      BY <2>4, <2>6, <2>7, NextPhase
    <2>9. f2[1].from = f[k + 1].from
      BY <1>1, <1>4, <1>5, <2>4
    <2> QED
      BY <2>2, <2>7, <2>8, <2>9 DEF Phased
  <1>9. GapsBounded(c, h, f2)
    <2> SUFFICES ASSUME NEW i \in 1 .. h, NEW m \in 1 .. 3, i # h,
                        f2[i].to < Latest(c, m) - 2 * M
                 PROVE  f2[i + 1].from < Latest(c, m) - M
      BY <1>4 DEF GapsBounded
    <2>1. i + 1 \in 1 .. h /\ i + k \in 1 .. L - 1 /\ i + k # 0 /\ (i + 1) + k = (i + k) + 1
      BY <1>1, <1>3, <1>4 DEF h
    <2>2. f2[i].to = f[i + k].to /\ f2[i + 1].from = f[(i + k) + 1].from
      BY <1>5, <2>1
    <2> QED
      BY <1>1, <2>1, <2>2 DEF GapsBounded
  <1>10. GapsApart(h, f2)
    <2> SUFFICES ASSUME NEW i \in 2 .. h, i # h
                 PROVE  f2[i - 1].to = f2[i].from \/ f2[i].to = f2[i + 1].from
      <3>1. Len(f2) = h + 1 /\ h \in Nat
        BY <1>4
      <3>2. 2 .. Len(f2) - 1 = 2 .. h
        BY <3>1
      <3> QED
        BY <3>2 DEF GapsApart
    <2>1. /\ i + 1 \in 1 .. h /\ i \in 1 .. h /\ i - 1 \in 1 .. h /\ i - 1 # h
          /\ i + k \in 2 .. L - 1 /\ i + k # 0 /\ (i + k) - 1 # 0
          /\ (i + 1) + k = (i + k) + 1 /\ (i - 1) + k = (i + k) - 1
      <3>1. h \in Nat /\ k \in 1 .. L /\ h = L - k /\ L \in Nat
        BY <1>1, <1>3, <1>4 DEF h
      <3> HIDE DEF L
      <3> QED
        BY <3>1
    <2>2. /\ f2[i].to = f[i + k].to /\ f2[i + 1].from = f[(i + k) + 1].from
          /\ f2[i].from = f[i + k].from /\ f2[i - 1].to = f[(i + k) - 1].to
      BY <1>5, <2>1
    <2> QED
      BY <1>1, <2>1, <2>2 DEF GapsApart
  <1>11. Roomy(c, h, f2, q[k].to)
    BY <1>3, <1>4 DEF Roomy
  <1> QED
    BY <1>2, <1>6, <1>7, <1>8, <1>9, <1>10, <1>11 DEF Tidy, h

\* And one after a sweep of the blocks after the window.
LEMMA TidySweepBehind ==
    ASSUME NEW c \in Cpus, NEW j, NEW f, Before(c, j, f), j > 0, NEW n \in BlockPages[c],
           ~(start[c] + n <= end[c]),
           NEW q, NEW k, SweepEnds(c, n, j, f, q, k),
           NEW f2, Renewed(q, k, f[1].from, n, f2)
    PROVE  Tidy(c, j - k, f2, f[1].from + n, q[k].to)
  <1> DEFINE L == Len(f)
             B == RegionStart(c)
             E == RegionEnd(c)
             Q == Quarter(c)
             M == Margin(c)
             F == f[1].from
             r == L - k
             h == j - k
  <1>1. /\ L \in Nat /\ n \in Nat /\ 1 <= n /\ n <= M /\ M \in Nat /\ Q \in Nat
        /\ 10 * M <= Q /\ B \in Nat /\ j \in Nat /\ start[c] \in Nat /\ end[c] \in Nat
        /\ E \in Nat
    BY DEF Before, Phases
  <1>2. /\ \A i \in 1 .. L : /\ f[i].from \in Nat /\ f[i].to \in Nat
                             /\ f[i].from < f[i].to /\ f[i].to <= E
        /\ Short(c, j, f) /\ GapsBounded(c, j, f) /\ GapsApart(j, f)
        /\ Phased(c, f, end[c]) /\ Wrapped(c, j, f, start[c], end[c])
    BY DEF Before, Tidy
  <1>3. /\ f # <<>> /\ L \in Nat \ {0} /\ j < L /\ f[j].to = E /\ F \in Nat
        /\ 1 \in 1 .. L /\ L \in 1 .. L /\ j \in 1 .. L
        /\ f[L].to = start[c] /\ f[j + 1].from = B /\ end[c] <= F
    <2>1. f # <<>> /\ L \in Nat \ {0} /\ j < L /\ f[j].to = E
      BY SweptQueue
    <2>2. 1 \in 1 .. L /\ L \in 1 .. L /\ j \in 1 .. L /\ 1 \in 1 .. j
      BY <1>1, <2>1
    <2>3. end[c] <= F
      BY <2>2 DEF Before
    <2> QED
      BY <1>2, <2>1, <2>2, <2>3 DEF Wrapped
  <1>4. /\ Len(q) = L /\ k \in 1 .. L /\ k <= j
        /\ \A i \in 1 .. L : q[i].from = f[i].from /\ q[i].to = f[i].to
        /\ \A i \in 1 .. k - 1 : f[i].to < F + Q
        /\ k = j \/ f[k].to >= F + Q
    BY <1>1, <1>3 DEF SweepEnds
  <1> HIDE DEF L, B, E, Q, M, F
  <1>5. k \in Nat /\ 1 <= k /\ r \in Nat /\ h \in Nat /\ h < r /\ L = r + k /\ j = h + k /\ 1 <= r
    <2>1. L \in Nat /\ j \in Nat /\ j < L /\ k \in 1 .. L /\ k <= j
      BY <1>1, <1>3, <1>4
    <2> QED
      BY <2>1
  <1>6. /\ Len(f2) = r + 1
        /\ \A i \in 1 .. r : /\ i + k \in 1 .. L
                             /\ f2[i].from = f[i + k].from /\ f2[i].to = f[i + k].to
        /\ f2[r + 1].from = F /\ f2[r + 1].to = F + n
    <2>1. Len(q) - k = r /\ \A i \in 1 .. r : i + k \in 1 .. L
      BY <1>4, <1>5
    <2> HIDE DEF r
    <2> QED
      BY <1>4, <2>1 DEF Renewed, F
  <1>7. q[k].to = f[k].to /\ f[k].to \in Nat
    BY <1>2, <1>4
  <1> HIDE DEF r, h
  <1>8. k = j => f[k].to = E
    BY <1>3
  <1>9. PICK m \in 1 .. 3 : /\ Earliest(c, m) <= end[c]
                            /\ \/ F < Latest(c, m) - M
                               \/ end[c] = F /\ end[c] < Latest(c, m)
    BY <1>2 DEF Phased, F, M
  <1>10. Earliest(c, m) \in Nat /\ Latest(c, m) \in Nat
    BY DEF Before, Phases
  <1>11. Wrapped(c, h, f2, F + n, f[k].to)
    <2>1. f2 # <<>> /\ h < Len(f2) /\ f2[Len(f2)].to = F + n
      BY <1>5, <1>6
    <2>2. f2[h + 1].from = B
      <3>1. h + 1 \in 1 .. r /\ (h + 1) + k = j + 1
        BY <1>5
      <3> QED
        BY <1>3, <1>6, <3>1
    <2>3. h = 0 => f[k].to = E
      BY <1>5, <1>8
    <2>4. h > 0 => f2[h].to = E
      <3> SUFFICES ASSUME h > 0 PROVE f2[h].to = E
        OBVIOUS
      <3>1. h \in 1 .. r /\ h + k = j
        BY <1>5
      <3> QED
        BY <1>3, <1>6, <3>1
    <2> QED
      BY <2>1, <2>2, <2>3, <2>4 DEF Wrapped, B, E
  <1>12. Short(c, h, f2)
    <2> SUFFICES ASSUME NEW i \in 1 .. r + 1, i # h PROVE f2[i].to - f2[i].from <= M
      BY <1>6 DEF Short, M
    <2>1. CASE i = r + 1
      BY <1>1, <1>3, <1>6, <2>1
    <2>2. CASE i \in 1 .. r
      <3>1. i + k \in 1 .. L /\ i + k # j
        BY <1>5, <1>6, <2>2
      <3>2. f[i + k].to - f[i + k].from <= M
        BY <1>2, <3>1 DEF Short, L, M
      <3> QED
        BY <1>6, <2>2, <3>2
    <2> QED
      BY <1>5, <2>1, <2>2
  <1>13. h > 0 => Phased(c, f2, f[k].to)
    <2> SUFFICES ASSUME h > 0 PROVE Phased(c, f2, f[k].to)
      OBVIOUS
    <2>1. k < j /\ k # j /\ k - 1 # j /\ k + 1 \in 1 .. L
      BY <1>3, <1>5
    <2>2. f[k].to >= F + Q
      BY <1>4, <2>1
    <2>3. k # 1
      <3> SUFFICES ASSUME k = 1 PROVE FALSE
        OBVIOUS
      <3>1. f[1].to - F <= M /\ f[1].to \in Nat
        BY <1>2, <1>3, <2>1 DEF Short, L, M, F
      <3> QED
        BY <1>1, <1>3, <2>2, <3>1
    <2>4. m # 3
      <3> SUFFICES ASSUME m = 3 PROVE FALSE
        OBVIOUS
      <3>1. Earliest(c, m) + Q = E
        <4>1. Earliest(c, 3) + Q = E
          BY DEF Before, Phases, Q, E
        <4> QED
          BY <4>1
      <3>2. Earliest(c, m) <= F
        <4>1. /\ Earliest(c, m) \in Nat /\ end[c] \in Nat /\ F \in Nat
              /\ Earliest(c, m) <= end[c] /\ end[c] <= F
          BY <1>1, <1>3, <1>9, <1>10
        <4> QED
          BY <4>1
      <3>3. f[k].to >= E
        <4> DEFINE x == f[k].to
        <4>1. x \in Nat /\ x >= F + Q
          BY <1>7, <2>2
        <4> HIDE DEF x
        <4>2. x >= E
          BY <1>1, <1>3, <1>10, <3>1, <3>2, <4>1
        <4> QED
          BY <4>2 DEF x
      <3>4. f[k].to <= f[k + 1].from
        BY <1>4, <2>1 DEF Before, L
      <3>5. f[k + 1].from \in Nat /\ f[k + 1].to \in Nat /\ f[k + 1].from < f[k + 1].to
            /\ f[k + 1].to <= E
        BY <1>2, <2>1
      <3> QED
        BY <1>1, <1>7, <3>3, <3>4, <3>5
    <2>5. /\ m + 1 \in 1 .. 3
          /\ Earliest(c, m + 1) = Earliest(c, m) + Q
          /\ Latest(c, m + 1) = Latest(c, m) + Q + 3 * M
      <3>1. m \in 1 .. 2 /\ m + 1 \in 1 .. 3
        BY <2>4
      <3>2. \A x \in 1 .. 2 : /\ Earliest(c, x + 1) = Earliest(c, x) + Q
                              /\ Latest(c, x + 1) = Latest(c, x) + Q + 3 * M
        BY DEF Before, Phases, Q, M
      <3> QED
        BY <3>1, <3>2
    <2>6. k \in 2 .. L - 1 /\ k - 1 \in 1 .. k - 1 /\ k - 1 \in 1 .. L
      <3>1. k \in Nat /\ 1 <= k /\ k # 1 /\ L \in Nat /\ k + 1 <= L
        BY <1>3, <1>5, <2>1, <2>3
      <3> QED
        BY <3>1
    <2>7. f[k - 1].to < Latest(c, m + 1) - 3 * M
      <3>1. f[k - 1].to < F + Q /\ f[k - 1].to \in Nat
        BY <1>2, <1>4, <2>6
      <3>2. F < Latest(c, m)
        <4> DEFINE y == Latest(c, m)
        <4>1. F \in Nat /\ M \in Nat /\ y \in Nat /\ (F < y - M \/ F < y)
          BY <1>1, <1>3, <1>9, <1>10
        <4> HIDE DEF y
        <4>2. F < y
          BY <4>1
        <4> QED
          BY <4>2 DEF y
      <3> DEFINE x == f[k - 1].to
                 y == Latest(c, m)
      <3>3. /\ x \in Nat /\ x < F + Q /\ F < y /\ y \in Nat
            /\ F \in Nat /\ Q \in Nat /\ M \in Nat
        BY <1>1, <1>3, <1>10, <3>1, <3>2
      <3> HIDE DEF x, y
      <3>4. x < (y + Q + 3 * M) - 3 * M
        BY <3>3
      <3> QED
        BY <2>5, <3>4 DEF x, y
    <2>8. Earliest(c, m + 1) <= f[k].to
      <3> DEFINE x == f[k].to
                 y == Earliest(c, m + 1)
      <3>1. x \in Nat /\ x >= F + Q /\ y = Earliest(c, m) + Q
        BY <1>7, <2>2, <2>5
      <3>2. Earliest(c, m) <= F
        <4>1. /\ Earliest(c, m) \in Nat /\ end[c] \in Nat /\ F \in Nat
              /\ Earliest(c, m) <= end[c] /\ end[c] <= F
          BY <1>1, <1>3, <1>9, <1>10
        <4> QED
          BY <4>1
      <3> HIDE DEF x, y
      <3>3. y <= x
        BY <1>1, <1>3, <1>10, <3>1, <3>2
      <3> QED
        BY <3>3 DEF x, y
    <2>9. \/ f[k + 1].from < Latest(c, m + 1) - M
          \/ f[k].to = f[k + 1].from /\ f[k].to < Latest(c, m + 1)
      BY <2>1, <2>5, <2>6, <2>7, <2>8, NextPhase DEF L, M
    <2>10. f2[1].from = f[k + 1].from
      <3>1. 1 \in 1 .. r /\ 1 + k = k + 1
        BY <1>5
      <3> QED
        BY <1>6, <3>1
    <2> QED
      BY <2>5, <2>8, <2>9, <2>10 DEF Phased, M
  <1>14. GapsBounded(c, h, f2)
    <2> SUFFICES ASSUME NEW i \in 1 .. r, NEW p \in 1 .. 3, i # h,
                        f2[i].to < Latest(c, p) - 2 * M
                 PROVE  f2[i + 1].from < Latest(c, p) - M
      <3>1. Len(f2) - 1 = r
        BY <1>5, <1>6
      <3> QED
        BY <3>1 DEF GapsBounded, M
    <2>0. Latest(c, p) \in Nat
      BY DEF Before, Phases
    <2>1. CASE i # r
      <3>1. /\ i + 1 \in 1 .. r /\ i + k \in 1 .. L - 1 /\ i + k # j
            /\ (i + 1) + k = (i + k) + 1
        BY <1>5, <2>1
      <3>2. f2[i].to = f[i + k].to /\ f2[i + 1].from = f[(i + k) + 1].from
        BY <1>6, <3>1
      <3> QED
        BY <1>2, <3>1, <3>2 DEF GapsBounded, L, M
    <2>2. CASE i = r
      <3>1. f2[i].to = start[c] /\ f2[i + 1].from = F
        BY <1>3, <1>5, <1>6, <2>2
      <3>2. end[c] < Latest(c, p) - M
        BY <1>1, <2>0, <3>1
      <3>3. CASE end[c] = F
        BY <3>1, <3>2, <3>3
      <3>4. CASE F < Latest(c, m) - M
        <4>1. CASE m <= p
          <5>1. Latest(c, m) <= Latest(c, p)
            BY <4>1 DEF Before, Phases
          <5> DEFINE x == Latest(c, m)
                     y == Latest(c, p)
          <5>2. /\ x \in Nat /\ y \in Nat /\ F \in Nat /\ M \in Nat
                /\ F < x - M /\ x <= y
            BY <1>1, <1>3, <1>10, <2>0, <3>4, <5>1
          <5> HIDE DEF x, y
          <5>3. F < y - M
            BY <5>2
          <5> QED
            BY <3>1, <5>3 DEF y
        <4>2. CASE p < m
          <5>1. Latest(c, p) <= Earliest(c, m)
            BY <4>2 DEF Before, Phases
          <5> DEFINE x == Earliest(c, m)
                     y == Latest(c, p)
          <5>2. /\ x \in Nat /\ y \in Nat /\ end[c] \in Nat /\ M \in Nat
                /\ x <= end[c] /\ end[c] < y - M /\ y <= x
            BY <1>1, <1>9, <1>10, <2>0, <3>2, <5>1
          <5> HIDE DEF x, y
          <5> QED
            BY <5>2
        <4> QED
          BY <4>1, <4>2
      <3> QED
        BY <1>9, <3>3, <3>4
    <2> QED
      BY <2>1, <2>2
  <1>15. GapsApart(h, f2)
    <2> SUFFICES ASSUME NEW i \in 2 .. r, i # h, i - 1 # h
                 PROVE  f2[i - 1].to = f2[i].from \/ f2[i].to = f2[i + 1].from
      <3>1. Len(f2) - 1 = r
        BY <1>5, <1>6
      <3> QED
        BY <3>1 DEF GapsApart
    <2>1. /\ i \in 1 .. r /\ i - 1 \in 1 .. r /\ (i - 1) + k = (i + k) - 1
          /\ i + k # j /\ (i + k) - 1 # j
      BY <1>5
    <2>2. /\ f2[i].to = f[i + k].to /\ f2[i].from = f[i + k].from
          /\ f2[i - 1].to = f[(i + k) - 1].to
      BY <1>6, <2>1
    <2>3. CASE i # r
      <3>1. i + 1 \in 1 .. r /\ i + k \in 2 .. L - 1 /\ (i + 1) + k = (i + k) + 1
        BY <1>5, <2>3
      <3>2. f2[i + 1].from = f[(i + k) + 1].from
        BY <1>6, <3>1
      <3> QED
        BY <1>2, <2>1, <2>2, <3>1, <3>2 DEF GapsApart, L
    <2>4. CASE i = r
      <3>1. i + k = L /\ (i + k) - 1 = L - 1 /\ L # j
        BY <1>3, <1>5, <2>4
      <3> SUFFICES ASSUME f[L - 1].to # f[L].from PROVE FALSE
        BY <2>2, <3>1
      <3>2. end[c] = E \/ end[c] >= f[L].from + Q
        BY <1>3 DEF Before, Tidy, Roomy, L, Q, E
      <3>3. f[L].to - f[L].from <= M /\ f[L].from \in Nat /\ f[L].to = start[c]
        BY <1>2, <1>3, <3>1 DEF Short, L, M
      <3>4. end[c] # E
        <4>1. F < f[1].to /\ f[1].to <= E /\ f[1].to \in Nat
          BY <1>2, <1>3 DEF F
        <4>2. end[c] <= F /\ end[c] \in Nat /\ F \in Nat /\ E \in Nat
          BY <1>1, <1>3
        <4>3. F < E
          BY <4>1, <4>2
        <4> QED
          BY <4>2, <4>3
      <3> QED
        BY <1>1, <3>2, <3>3, <3>4
    <2> QED
      BY <2>3, <2>4
  <1>16. Roomy(c, h, f2, f[k].to)
    BY <1>4, <1>5, <1>6, <1>8 DEF Roomy, E, Q
  <1>17. f2 # <<>>
    BY <1>5, <1>6
  <1> QED
    BY <1>7, <1>11, <1>12, <1>13, <1>14, <1>15, <1>16 DEF Tidy, h, F

\* An insertion leaves the CPU's part tidy.
LEMMA InsertTidy ==
    ASSUME SmallBlocks, TypeOK, NEW c \in Cpus, NEW lo, NEW hi, NEW n \in BlockPages[c],
           NEW a, a = Allocated(c, n),
           SoundAllocation(c, n, a), Inserted(c, lo, hi, n, a),
           NEW j \in 0 .. Len(jit_funcs[c]), InRegion(c), Parts(c, j),
           Tidy(c, j, jit_funcs[c], start[c], end[c]),
           NEW m, m = KeptBehind(c, n, a, j)
    PROVE  Tidy(c, m, jit_funcs'[c], start'[c], end'[c])
  <1> DEFINE f == jit_funcs[c]
  <1>1. PICK f2 : f2 = jit_funcs'[c]
    OBVIOUS
  <1>2. Before(c, j, f)
    BY BeforeFacts
  <1>3. /\ Len(f2) = Len(a.kept) + 1 /\ Len(a.kept) \in Nat
        /\ \A i \in 1 .. Len(a.kept) : f2[i] = a.kept[i]
        /\ f2[Len(a.kept) + 1].from = a.from
        /\ f2[Len(a.kept) + 1].to = a.from + n
    <2>1. QueueAfter(c, lo, hi, n, a)
      BY InsertedQueue DEF SoundAllocation
    <2> QED
      BY <1>1, <2>1 DEF QueueAfter, NewBlock
  <1>4. start'[c] = a.from + n /\ end'[c] = a.end /\ n \in Nat
    BY DEF Inserted, TypeOK, SoundAllocation
  <1>5. j \in Nat /\ Len(f) \in Nat
    BY <1>2 DEF Before
  <1>6. CASE start[c] + n <= end[c]
    <2>1. a = [from |-> start[c], end |-> end[c], kept |-> f, freed |-> <<>>]
      BY <1>6 DEF Allocated
    <2>2. a.from = start[c] /\ a.end = end[c] /\ a.kept = f /\ m = j
      BY <1>6, <2>1 DEF KeptBehind
    <2> HIDE DEF f
    <2>3. Renewed(f, 0, start[c], n, f2)
      <3>1. Len(f) - 0 = Len(f) /\ \A i \in 1 .. Len(f) : i + 0 = i
        BY <1>5
      <3> QED
        BY <1>3, <2>2, <3>1 DEF Renewed
    <2>4. Tidy(c, j, f2, start[c] + n, end[c])
      BY <1>2, <1>6, <2>3, TidyAppend
    <2> QED
      BY <1>1, <1>4, <2>2, <2>4
  <1>7. CASE ~(start[c] + n <= end[c])
    <2>1. PICK q \in Seq(Block), k \in Nat : TakenFrom(c, n, a, q, k)
      BY <1>4, <1>7, AllocatedTakes DEF Inserted
    <2>2. /\ Len(q) = Len(f) /\ Stretched(c, n, q) /\ k \in FreedCounts(q, c)
          /\ 1 <= k /\ k <= Len(q)
          /\ a.from = q[1].from /\ a.end = q[k].to
          /\ Len(a.kept) = Len(q) - k /\ \A i \in 1 .. Len(a.kept) : a.kept[i] = q[i + k]
          /\ Len(a.freed) = k /\ q[1].from = f[1].from
      <3>1. TakenFrom(c, n, a, q, k)
        BY <2>1
      <3>2. 1 \in 1 .. Len(q)
        BY <3>1 DEF TakenFrom
      <3> QED
        BY <3>1, <3>2 DEF TakenFrom
    <2>3. SweepEnds(c, n, j, f, q, k)
      BY <1>2, <1>7, <2>2, FirstStop
    <2> HIDE DEF f
    <2>4. Renewed(q, k, f[1].from, n, f2)
      <3>1. Len(f2) = Len(q) - k + 1
        BY <1>3, <2>2
      <3>2. \A i \in 1 .. Len(q) - k : f2[i] = q[i + k]
        BY <1>3, <2>2
      <3>3. f2[Len(q) - k + 1].from = f[1].from /\ f2[Len(q) - k + 1].to = f[1].from + n
        BY <1>3, <2>2
      <3> QED
        BY <3>1, <3>2, <3>3 DEF Renewed
    <2>5. CASE j = 0
      <3>1. Tidy(c, Len(f) - k, f2, f[1].from + n, q[k].to)
        BY <1>2, <1>7, <2>3, <2>4, <2>5, TidySweepFront
      <3>2. m = Len(f) - k
        BY <1>7, <2>2, <2>5 DEF KeptBehind
      <3> QED
        BY <1>1, <1>4, <2>2, <3>1, <3>2
    <2>6. CASE j > 0
      <3>1. Tidy(c, j - k, f2, f[1].from + n, q[k].to)
        BY <1>2, <1>7, <2>3, <2>4, <2>6, TidySweepBehind
      <3>2. m = j - k
        BY <1>5, <1>7, <2>2, <2>6 DEF KeptBehind
      <3> QED
        BY <1>1, <1>4, <2>2, <3>1, <3>2
    <2> QED
      BY <1>5, <2>5, <2>6
  <1> QED
    BY <1>6, <1>7

\* A part without blocks is tidy.
LEMMA EmptiedPaced ==
    ASSUME Emptied
    PROVE  Paced
  <1> SUFFICES ASSUME NEW c \in Cpus
               PROVE  /\ 0 \in 0 .. Len(jit_funcs[c]) /\ Parts(c, 0)
                      /\ Tidy(c, 0, jit_funcs[c], start[c], end[c])
    BY DEF Paced
  <1>1. /\ jit_funcs[c] = <<>> /\ start[c] = RegionStart(c) /\ end[c] = RegionEnd(c)
        /\ Len(jit_funcs[c]) = 0
    BY DEF Emptied
  <1>2. Parts(c, 0)
    BY <1>1 DEF Parts
  <1>3. Tidy(c, 0, jit_funcs[c], start[c], end[c])
    BY <1>1 DEF Tidy, Wrapped, Short, GapsBounded, GapsApart
  <1> QED
    BY <1>1, <1>2, <1>3

\* Every step keeps the parts tidy.
LEMMA PacedStep ==
    ASSUME SmallBlocks
    PROVE  JitInv /\ Paced /\ [Next]_vars => Paced'
  <1> SUFFICES ASSUME JitInv, Paced, [Next]_vars PROVE Paced'
    OBVIOUS
  <1>1. ASSUME NEW c \in Cpus, NEW r \in Code[c], NEW n \in BlockPages[c],
               jit_insert_block(c, r[1], r[2], n)
        PROVE  Paced'
    <2>1. PICK a : a = Allocated(c, n)
      OBVIOUS
    <2>2. TypeOK /\ InRegion(c)
      BY DEF JitInv, Swept
    <2>3. Inserted(c, r[1], r[2], n, a)
      BY <1>1, <2>1, InsertedFacts
    <2>4. SoundAllocation(c, n, a)
      BY <2>1, <2>2, <2>3, AllocatedFacts DEF Inserted
    <2>5. PICK j \in 0 .. Len(jit_funcs[c]) :
              Parts(c, j) /\ Tidy(c, j, jit_funcs[c], start[c], end[c])
      BY DEF Paced
    <2>6. PICK m : m = KeptBehind(c, n, a, j)
      OBVIOUS
    <2>7. m \in 0 .. Len(jit_funcs'[c]) /\ Parts(c, m)'
      BY <2>1, <2>2, <2>3, <2>4, <2>5, <2>6, InsertParts
    <2>8. Tidy(c, m, jit_funcs'[c], start'[c], end'[c])
      BY <2>1, <2>2, <2>3, <2>4, <2>5, <2>6, InsertTidy
    <2>9. ASSUME NEW d \in Cpus, d # c
          PROVE  \E i \in 0 .. Len(jit_funcs'[d]) :
                     Parts(d, i)' /\ Tidy(d, i, jit_funcs'[d], start'[d], end'[d])
      <3>1. jit_funcs'[d] = jit_funcs[d] /\ start'[d] = start[d] /\ end'[d] = end[d]
        BY <2>2, <2>3, <2>9 DEF Inserted, TypeOK
      <3>2. PICK i \in 0 .. Len(jit_funcs[d]) :
                Parts(d, i) /\ Tidy(d, i, jit_funcs[d], start[d], end[d])
        BY DEF Paced
      <3>3. Parts(d, i)'
        BY <3>1, <3>2 DEF Parts
      <3> QED
        BY <3>1, <3>2, <3>3
    <2>10. \A d \in Cpus : \E i \in 0 .. Len(jit_funcs'[d]) :
              Parts(d, i)' /\ Tidy(d, i, jit_funcs'[d], start'[d], end'[d])
      BY <2>7, <2>8, <2>9
    <2> QED
      BY <2>10 DEF Paced
  <1>2. ASSUME UNCHANGED <<start, end, jit_funcs>> PROVE Paced'
    BY <1>2 DEF Paced, Parts
  <1>3. CASE savestate_post_load
    <2>1. Emptied'
      BY <1>3, LoadEmpties DEF JitInv
    <2>2. (Emptied => Paced)'
      BY EmptiedPaced, PTL
    <2> QED
      BY <2>1, <2>2
  <1>4. CASE \E c \in Cpus, s \in Slots : mem_write(c, s)
    BY <1>2, <1>4 DEF mem_write
  <1>5. CASE \E p \in 0 .. MainPages - 1 : \E q \in p .. MainPages - 1 : invalidate_blocks(p, q)
    BY <1>2, <1>5 DEF invalidate_blocks
  <1>6. CASE invalidate_vram
    BY <1>2, <1>6 DEF invalidate_vram
  <1>7. CASE UNCHANGED vars
    BY <1>2, <1>7 DEF vars
  <1>8. CASE \E s \in Slots : fast_write(s)
    BY <1>2, <1>8 DEF fast_write
  <1>9. CASE \E p, q \in MmuPages : update_tcm_arm9(p \div MmuPerFast, q \div MmuPerFast)
    BY <1>2, <1>9 DEF update_tcm_arm9
  <1> QED
    BY <1>1, <1>3, <1>4, <1>5, <1>6, <1>7, <1>8, <1>9 DEF Next

\* "reset_blocks frees at least a quarter of the region, so the allocation always
\* fits" (allocate_block): although a sweep that the end of the region stops frees
\* less, it fits as long as no block takes more than a fortieth of the region.
THEOREM AllocationsFit ==
    ASSUME SmallBlocks
    PROVE  Spec => []AllocationFits
  <1>1. Init => Paced
    <2>1. Init => InStep
      BY DEF Init, InStep, Cpus
    <2>2. Init => Emptied
      BY <2>1 DEF Init, Emptied
    <2> QED
      BY <2>2, EmptiedPaced
  <1>2. JitInv /\ Paced => AllocationFits
    <2> SUFFICES ASSUME JitInv, Paced, NEW c \in Cpus, NEW n \in BlockPages[c]
                 PROVE  Fits(c, n)
      BY DEF AllocationFits
    <2>1. TypeOK /\ InRegion(c)
      BY DEF JitInv, Swept
    <2>2. PICK j \in 0 .. Len(jit_funcs[c]) :
              Parts(c, j) /\ Tidy(c, j, jit_funcs[c], start[c], end[c])
      BY DEF Paced
    <2>3. Before(c, j, jit_funcs[c])
      BY <2>1, <2>2, BeforeFacts
    <2> QED
      BY <2>1, <2>3, TidyFits
  <1> QED
    BY <1>1, <1>2, PacedStep, JitInvHolds, PTL DEF Spec
=============================================================================

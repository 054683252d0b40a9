--------------------------- MODULE PhysMemProofs ---------------------------
(***************************************************************************)
(* Theorems about PhysMem, for every number of blocks, every memory map    *)
(* and every sequence of requests: the bitmap allocator never hands out a  *)
(* block twice, keeps exact counts, refuses only what cannot be served,    *)
(* and implements the first-fit allocator PageAllocator.                   *)
(***************************************************************************)
EXTENDS PhysMem, FiniteSetTheorems, TLAPS

-----------------------------------------------------------------------------
(* Cardinalities. *)

\* A run of n blocks has n elements.
LEMMA RunCardinality ==
  ASSUME NEW b \in Nat, NEW n \in Nat
  PROVE  IsFiniteSet(Run(b, n)) /\ Cardinality(Run(b, n)) = n
<1>1. b \in Int /\ b + n - 1 \in Int
  OBVIOUS
<1>2. /\ IsFiniteSet(b .. (b + n - 1))
      /\ Cardinality(b .. (b + n - 1)) = IF b > b + n - 1 THEN 0 ELSE (b + n - 1) - b + 1
  BY <1>1, FS_Interval
<1>3. QED
  BY <1>2 DEF Run

\* The blocks are a finite set.
LEMMA BlocksFinite == IsFiniteSet(Blocks) /\ Cardinality(Blocks) = TotalBlocks
<1>1. Blocks = Run(0, TotalBlocks)
  BY BlocksAssumption DEF Blocks, Run
<1>2. 0 \in Nat /\ TotalBlocks \in Nat
  BY BlocksAssumption
<1>3. QED
  BY <1>1, <1>2, RunCardinality

\* Taking part of a finite set away.
LEMMA CardinalityMinus ==
  ASSUME NEW S, IsFiniteSet(S), NEW T, T \subseteq S
  PROVE  Cardinality(S \ T) = Cardinality(S) - Cardinality(T)
<1>1. S \cap T = T
  OBVIOUS
<1>2. QED
  BY <1>1, FS_Difference

\* Putting two disjoint finite sets together.
LEMMA CardinalityPlus ==
  ASSUME NEW S, IsFiniteSet(S), NEW T, IsFiniteSet(T), S \cap T = {}
  PROVE  Cardinality(S \cup T) = Cardinality(S) + Cardinality(T)
<1>1. Cardinality(S) \in Nat /\ Cardinality(T) \in Nat
  BY FS_CardinalityType
<1>2. Cardinality(S \cap T) = 0
  BY FS_EmptySet
<1>3. Cardinality(S \cup T) = Cardinality(S) + Cardinality(T) - Cardinality(S \cap T)
  BY FS_Union
<1>4. QED
  BY <1>1, <1>2, <1>3

-----------------------------------------------------------------------------
(* The inductive invariant. *)

\* Who may be where: reservations happen before anything is handed out.
PhaseOK ==
  /\ mode \in {"boot", "reserve"} => booting
  /\ mode = "idle" => ~booting
  /\ mode = "reserve" => caller = "reserve"
  /\ mode = "scan" => (booting <=> caller = "reserve")
  /\ booting => live = {}

\* What the search has learnt about the blocks below i: the last
\* contiguous_count of them are free, the one before these is used, and no run
\* of the wanted length lies below i.
ScanOK ==
  mode = "scan" =>
    /\ want # 0 /\ want <= free_blocks
    /\ i <= TotalBlocks
    /\ contiguous_count < want /\ contiguous_count <= i
    /\ contiguous_count # 0 => start_block = i - contiguous_count
    /\ Run(i - contiguous_count, contiguous_count) \cap used = {}
    /\ contiguous_count < i => i - contiguous_count - 1 \in used
    /\ \A b \in Blocks : b + want <= i => ~FreeRun(b, want)

\* What is handed out are runs of at least one block.
RunsNonempty == \A r \in live : r.count # 0

Inv ==
  /\ TypeOK
  /\ PhaseOK
  /\ ScanOK
  /\ RunsNonempty
  /\ NoDoubleAllocation
  /\ FreeCountExact
  /\ UsedMemoryExact

\* The run the search reports lies in the bitmap, is free, and is the first one.
LEMMA FoundRun ==
  ASSUME TypeOK, ScanOK, mode = "scan", i < TotalBlocks, i \notin used,
         contiguous_count + 1 = want
  PROVE  /\ SequenceStart = i - contiguous_count
         /\ SequenceStart \in Blocks
         /\ FirstFit(SequenceStart, want)
         /\ Run(SequenceStart, want) \subseteq Blocks
<1> USE BlocksAssumption
<1>1. SequenceStart = i - contiguous_count
  BY DEF SequenceStart, ScanOK, TypeOK
<1>2. SequenceStart \in Blocks
  BY <1>1 DEF Blocks, ScanOK, TypeOK
<1>3. Run(SequenceStart, want) = Run(i - contiguous_count, contiguous_count) \cup {i}
  BY <1>1 DEF Run, ScanOK, TypeOK
<1>4. FreeRun(SequenceStart, want)
  BY <1>1, <1>3 DEF FreeRun, ScanOK, TypeOK
<1>5. ASSUME NEW c \in 0 .. SequenceStart - 1
      PROVE  ~FreeRun(c, want)
  <2>1. c \in Blocks /\ c + want <= i
    BY <1>1 DEF Blocks, ScanOK, TypeOK
  <2>2. QED
    BY <2>1 DEF ScanOK
<1>6. Run(SequenceStart, want) \subseteq Blocks
  BY <1>1 DEF Run, Blocks, ScanOK, TypeOK
<1>7. QED
  BY <1>1, <1>2, <1>4, <1>5, <1>6 DEF FirstFit

\* What callers still hold after freeing the first n blocks of r.
Kept(r, n) == (live \ {r}) \cup Rest(r, n)

\* Freeing the first n blocks of r leaves exactly the others in use.
LEMMA ReleasedRun ==
  ASSUME live \in SUBSET RunType, RunsNonempty, NoDoubleAllocation,
         NEW r \in live, NEW n \in 1 .. r.count
  PROVE  /\ Kept(r, n) \in SUBSET RunType
         /\ \A s \in Kept(r, n) : s.count # 0
         /\ Run(r.start, n) \subseteq RunBlocks(r)
         /\ {b \in Blocks : \E s \in Kept(r, n) : b \in RunBlocks(s)}
              = LiveBlocks \ Run(r.start, n)
         /\ \A s \in Kept(r, n) : \E t \in live : RunBlocks(s) \subseteq RunBlocks(t) \ Run(r.start, n)
         /\ \A s, t \in Kept(r, n) : s # t => RunBlocks(s) \cap RunBlocks(t) = {}
<1>1. r \in RunType /\ r.start \in Nat /\ r.count \in Nat /\ n \in Nat
  BY DEF RunType
<1>2. Run(r.start, n) \subseteq RunBlocks(r)
  BY <1>1 DEF Run, RunBlocks
<1>3. \A s \in live : s # r => RunBlocks(s) \cap RunBlocks(r) = {}
  BY DEF NoDoubleAllocation
<1>4. CASE n = r.count
  <2>1. Kept(r, n) = live \ {r} /\ Run(r.start, n) = RunBlocks(r)
    BY <1>4 DEF Kept, Rest, RunBlocks
  <2>2. \A s \in Kept(r, n) : RunBlocks(s) \subseteq RunBlocks(s) \ Run(r.start, n)
    BY <2>1, <1>3
  <2>3. {b \in Blocks : \E s \in Kept(r, n) : b \in RunBlocks(s)} = LiveBlocks \ Run(r.start, n)
    BY <2>1, <1>3 DEF LiveBlocks
  <2>4. QED
    BY <2>1, <2>2, <2>3, <1>2 DEF RunsNonempty, NoDoubleAllocation
<1>5. CASE n # r.count
  <2> DEFINE rest == [start |-> r.start + n, count |-> r.count - n]
  <2>1. Kept(r, n) = (live \ {r}) \cup {rest}
    BY <1>5 DEF Kept, Rest
  <2>2. rest \in RunType /\ rest.count # 0
    BY <1>1, <1>5 DEF RunType
  <2>3. RunBlocks(rest) = RunBlocks(r) \ Run(r.start, n)
    BY <1>1, <1>5 DEF RunBlocks, Run
  <2> HIDE DEF rest
  <2>4. {b \in Blocks : \E s \in Kept(r, n) : b \in RunBlocks(s)} = LiveBlocks \ Run(r.start, n)
    BY <2>1, <2>3, <1>2, <1>3 DEF LiveBlocks
  <2>5. \A s \in Kept(r, n) : \E t \in live : RunBlocks(s) \subseteq RunBlocks(t) \ Run(r.start, n)
    BY <2>1, <2>3, <1>2, <1>3
  <2>6. ASSUME NEW s \in Kept(r, n), NEW t \in Kept(r, n), s # t
        PROVE  RunBlocks(s) \cap RunBlocks(t) = {}
    <3>1. CASE s \in live \ {r} /\ t \in live \ {r}
      BY <3>1, <2>6 DEF NoDoubleAllocation
    <3>2. CASE s = rest /\ t \in live \ {r}
      BY <3>2, <2>3, <1>3
    <3>3. CASE s \in live \ {r} /\ t = rest
      BY <3>3, <2>3, <1>3
    <3>4. QED
      BY <3>1, <3>2, <3>3, <2>1, <2>6
  <2>7. QED
    BY <2>1, <2>2, <2>4, <2>5, <2>6, <1>2 DEF RunsNonempty
<1>6. QED
  BY <1>4, <1>5

\* Every step keeps the inductive invariant.
LEMMA InvStep == Inv /\ [Next]_vars => Inv'
<1> SUFFICES ASSUME Inv, [Next]_vars PROVE Inv'
  OBVIOUS
<1> USE BlocksAssumption
<1>0. IsFiniteSet(Blocks \ used) /\ Cardinality(Blocks \ used) \in Nat /\ IsFiniteSet(LiveBlocks)
      /\ Cardinality(LiveBlocks) \in Nat
  <2>1. IsFiniteSet(Blocks \ used) /\ IsFiniteSet(LiveBlocks)
    BY BlocksFinite, FS_Subset DEF LiveBlocks
  <2>2. QED
    BY <2>1, FS_CardinalityType
<1>1. ASSUME NEW n \in 1 .. TotalBlocks, n <= free_blocks, mode = "idle", StartScan(n),
             mode' = "scan", caller' = "client",
             UNCHANGED <<used, live, booting, free_blocks, used_memory, block, end_block, reserved>>
      PROVE  Inv'
  <2>1. TypeOK' /\ PhaseOK'
    BY <1>1 DEF Inv, TypeOK, PhaseOK, StartScan
  <2>2. ScanOK'
    BY <1>1 DEF Inv, TypeOK, ScanOK, StartScan, Run, Blocks
  <2>3. QED
    BY <1>1, <2>1, <2>2 DEF Inv, RunsNonempty, NoDoubleAllocation, FreeCountExact,
         UsedMemoryExact, LiveBlocks
<1>2. CASE physical_alloc_page
  <2>1. 1 <= free_blocks /\ 1 \in 1 .. TotalBlocks
    <3>1. free_blocks \in Nat /\ free_blocks # 0 /\ free_blocks = Cardinality(Blocks \ used)
      BY <1>2 DEF Inv, TypeOK, FreeCountExact, physical_alloc_page
    <3>2. Cardinality(Blocks \ used) <= Cardinality(Blocks)
      BY BlocksFinite, FS_Subset
    <3>3. QED
      BY <3>1, <3>2, BlocksFinite
  <2>2. QED
    BY <1>1, <1>2, <2>1 DEF physical_alloc_page
<1>3. ASSUME NEW n \in 1 .. TotalBlocks, physical_alloc_pages(n)
      PROVE  Inv'
  BY <1>1, <1>3 DEF physical_alloc_pages
<1>4. CASE scan_used_block
  <2>1. TypeOK' /\ PhaseOK'
    BY <1>4 DEF Inv, TypeOK, PhaseOK, scan_used_block
  <2>2. ScanOK'
    <3>1. Run(i + 1, 0) = {}
      BY DEF Inv, TypeOK, Run
    <3>2. \A b \in Blocks : b + want <= i + 1 => ~FreeRun(b, want)
      BY <1>4 DEF Inv, TypeOK, ScanOK, scan_used_block, FreeRun, Run, Blocks
    <3>3. QED
      BY <1>4, <3>1, <3>2 DEF Inv, TypeOK, ScanOK, scan_used_block, FreeRun
  <2>3. QED
    BY <1>4, <2>1, <2>2 DEF Inv, scan_used_block, RunsNonempty, NoDoubleAllocation,
         FreeCountExact, UsedMemoryExact, LiveBlocks
<1>5. CASE scan_free_block
  <2>1. TypeOK' /\ PhaseOK'
    BY <1>5 DEF Inv, TypeOK, PhaseOK, scan_free_block, SequenceStart
  <2>2. ScanOK'
    <3>1. SequenceStart = i - contiguous_count
      BY <1>5 DEF Inv, TypeOK, ScanOK, scan_free_block, SequenceStart
    <3>2. Run(i - contiguous_count, contiguous_count + 1)
            = Run(i - contiguous_count, contiguous_count) \cup {i}
      BY <1>5 DEF Inv, TypeOK, ScanOK, scan_free_block, Run
    <3>3. ASSUME NEW b \in Blocks, b + want <= i + 1, FreeRun(b, want)
          PROVE  FALSE
      <4>1. b + want = i + 1
        BY <1>5, <3>3 DEF Inv, TypeOK, ScanOK, scan_free_block, Blocks
      <4>2. contiguous_count + 1 < want
        BY <1>5 DEF Inv, TypeOK, ScanOK, scan_free_block
      <4>3. contiguous_count < i /\ i - contiguous_count - 1 \in Run(b, want)
        BY <1>5, <4>1, <4>2 DEF Inv, TypeOK, ScanOK, scan_free_block, Run, Blocks
      <4>4. QED
        BY <1>5, <3>3, <4>3 DEF Inv, ScanOK, scan_free_block, FreeRun
    <3>4. Run(i + 1 - (contiguous_count + 1), contiguous_count + 1) \cap used = {}
      <4>1. i + 1 - (contiguous_count + 1) = i - contiguous_count
        BY DEF Inv, TypeOK
      <4>2. QED
        BY <1>5, <3>2, <4>1 DEF Inv, ScanOK, scan_free_block
    <3>5. QED
      BY <1>5, <3>1, <3>3, <3>4 DEF Inv, TypeOK, ScanOK, scan_free_block, FreeRun
  <2>3. QED
    BY <1>5, <2>1, <2>2 DEF Inv, scan_free_block, RunsNonempty, NoDoubleAllocation,
         FreeCountExact, UsedMemoryExact, LiveBlocks
<1>6. CASE scan_found
  <2> DEFINE R == Run(SequenceStart, want)
             run == [start |-> SequenceStart, count |-> want]
  <2>1. /\ SequenceStart \in Blocks /\ R \subseteq Blocks /\ R \cap used = {}
        /\ want \in Nat /\ want # 0 /\ want <= free_blocks /\ SequenceStart \in Nat
    BY <1>6, FoundRun DEF Inv, TypeOK, ScanOK, scan_found, FirstFit, FreeRun, Blocks
  <2>2. IsFiniteSet(R) /\ Cardinality(R) = want
    BY <2>1, RunCardinality
  <2>3. run \in RunType /\ RunBlocks(run) = R /\ run.count # 0
    BY <2>1 DEF RunType, RunBlocks
  <2>4. TypeOK'
    <3>1. live' \in SUBSET RunType /\ used_memory' \in Nat
      BY <1>6, <2>1, <2>3 DEF Inv, TypeOK, scan_found
    <3>2. used' \subseteq Blocks /\ free_blocks' \in Nat
      <4>1. used' = used \cup R /\ free_blocks' = free_blocks - want
        BY <1>6 DEF scan_found, MarkRun
      <4> HIDE DEF R
      <4>2. used \subseteq Blocks /\ free_blocks \in Nat
        BY DEF Inv, TypeOK
      <4>3. free_blocks' \in Nat
        BY <2>1, <4>1, <4>2
      <4>4. QED
        BY <2>1, <4>1, <4>2, <4>3
    <3>3. /\ want' = want /\ i' = i /\ start_block' = start_block
          /\ contiguous_count' = contiguous_count /\ booting' = booting /\ caller' = caller
          /\ block' = block /\ end_block' = end_block /\ reserved' = reserved
      BY <1>6 DEF scan_found, scanvars
    <3>4. mode' \in {"boot", "idle", "reserve", "scan"}
      BY <1>6 DEF scan_found, Return
    <3>5. QED
      BY <3>1, <3>2, <3>3, <3>4 DEF Inv, TypeOK
  <2>5. PhaseOK' /\ ScanOK'
    BY <1>6 DEF Inv, TypeOK, PhaseOK, ScanOK, scan_found, MarkRun, Return, scanvars
  <2>6. FreeCountExact'
    <3>1. Blocks \ (used \cup R) = (Blocks \ used) \ R /\ R \subseteq Blocks \ used
      BY <2>1
    <3>2. Cardinality((Blocks \ used) \ R) = Cardinality(Blocks \ used) - Cardinality(R)
      BY <1>0, <3>1, CardinalityMinus
    <3>3. QED
      BY <1>6, <2>2, <3>1, <3>2 DEF Inv, FreeCountExact, scan_found, MarkRun
  <2>7. RunsNonempty' /\ NoDoubleAllocation' /\ UsedMemoryExact'
    <3>1. CASE caller = "client"
      <4>1. live' = live \cup {run} /\ used' = used \cup R /\ used_memory' = used_memory + want
        BY <1>6, <3>1 DEF scan_found, MarkRun
      <4> HIDE DEF run, R
      <4>2. LiveBlocks' = LiveBlocks \cup R
        BY <4>1, <2>1, <2>3 DEF LiveBlocks
      <4>3. LiveBlocks \cap R = {}
        BY <2>1 DEF Inv, NoDoubleAllocation, LiveBlocks
      <4>4. Cardinality(LiveBlocks \cup R) = Cardinality(LiveBlocks) + Cardinality(R)
        BY <1>0, <2>2, <4>3, CardinalityPlus
      <4>5. UsedMemoryExact'
        BY <4>1, <4>2, <4>4, <2>2 DEF Inv, UsedMemoryExact
      <4>6. RunsNonempty'
        BY <4>1, <2>3 DEF Inv, RunsNonempty
      <4>7. NoDoubleAllocation'
        BY <4>1, <2>1, <2>3 DEF Inv, NoDoubleAllocation
      <4>8. QED
        BY <4>5, <4>6, <4>7
    <3>2. CASE caller # "client"
      BY <1>6, <3>2 DEF Inv, RunsNonempty, NoDoubleAllocation, UsedMemoryExact, LiveBlocks,
           scan_found, MarkRun
    <3>3. QED
      BY <3>1, <3>2
  <2>8. QED
    BY <2>4, <2>5, <2>6, <2>7 DEF Inv
<1>7. CASE scan_exhausted
  BY <1>7 DEF Inv, TypeOK, PhaseOK, ScanOK, RunsNonempty, NoDoubleAllocation, FreeCountExact,
       UsedMemoryExact, LiveBlocks, scan_exhausted, Return, scanvars
<1>8. ASSUME NEW r \in live, NEW n \in 1 .. r.count, physical_free_pages(r, n)
      PROVE  Inv'
  <2> DEFINE R == Run(r.start, n)
  <2>1. r.start \in Nat /\ r.count \in Nat /\ n \in Nat
    BY DEF Inv, TypeOK, RunType
  <2>2. IsFiniteSet(R) /\ Cardinality(R) = n
    BY <2>1, RunCardinality
  <2>3. /\ live' = Kept(r, n)
        /\ used' = used \ R
        /\ free_blocks' = free_blocks + Cardinality(R \cap used)
        /\ LowerStatistic(n)
    BY <1>8 DEF physical_free_pages, Kept
  <2>4. /\ live' \in SUBSET RunType
        /\ \A s \in live' : s.count # 0
        /\ R \subseteq RunBlocks(r)
        /\ {b \in Blocks : \E s \in live' : b \in RunBlocks(s)} = LiveBlocks \ R
        /\ \A s \in live' : \E t \in live : RunBlocks(s) \subseteq RunBlocks(t) \ R
        /\ \A s, t \in live' : s # t => RunBlocks(s) \cap RunBlocks(t) = {}
    BY <2>3, ReleasedRun DEF Inv, TypeOK
  <2> HIDE DEF R
  <2>5. R \subseteq used /\ R \subseteq Blocks /\ R \subseteq LiveBlocks
    BY <2>4 DEF Inv, TypeOK, NoDoubleAllocation, LiveBlocks
  <2>6. R \cap used = R
    BY <2>5
  <2>7. LiveBlocks' = LiveBlocks \ R
    BY <2>4 DEF LiveBlocks
  <2>8. UsedMemoryExact' /\ used_memory' \in Nat
    <3>1. Cardinality(LiveBlocks \ R) = Cardinality(LiveBlocks) - Cardinality(R)
      BY <1>0, <2>5, CardinalityMinus
    <3>2. Cardinality(R) <= Cardinality(LiveBlocks)
      BY <1>0, <2>5, FS_Subset
    <3>3. used_memory' = used_memory - n /\ n <= used_memory /\ used_memory \in Nat
      BY <2>1, <2>2, <2>3, <3>2 DEF LowerStatistic, Inv, TypeOK, UsedMemoryExact
    <3>4. QED
      BY <2>1, <2>2, <2>7, <3>1, <3>3 DEF Inv, UsedMemoryExact
  <2>9. FreeCountExact' /\ free_blocks' \in Nat
    <3>1. Blocks \ (used \ R) = (Blocks \ used) \cup R /\ (Blocks \ used) \cap R = {}
      BY <2>5
    <3>2. Cardinality((Blocks \ used) \cup R) = Cardinality(Blocks \ used) + Cardinality(R)
      BY <1>0, <2>2, <3>1, CardinalityPlus
    <3>3. free_blocks' = free_blocks + n /\ free_blocks \in Nat
      BY <2>2, <2>3, <2>6 DEF Inv, TypeOK
    <3>4. free_blocks' = Cardinality(Blocks \ (used \ R))
      BY <3>1, <3>2, <3>3, <2>2 DEF Inv, FreeCountExact
    <3>5. QED
      BY <2>1, <2>3, <3>3, <3>4 DEF FreeCountExact
  <2>10. TypeOK'
    BY <1>8, <2>3, <2>4, <2>8, <2>9 DEF Inv, TypeOK, physical_free_pages, scanvars
  <2>11. PhaseOK' /\ ScanOK'
    BY <1>8 DEF Inv, PhaseOK, ScanOK, physical_free_pages
  <2>12. RunsNonempty' /\ NoDoubleAllocation'
    BY <2>3, <2>4 DEF Inv, RunsNonempty, NoDoubleAllocation
  <2>13. QED
    BY <2>8, <2>9, <2>10, <2>11, <2>12 DEF Inv
<1>9. ASSUME NEW r \in live, physical_free_page(r)
      PROVE  Inv'
  <2>1. 1 \in 1 .. r.count /\ physical_free_pages(r, 1)
    BY <1>9 DEF physical_free_page
  <2>2. QED
    BY <2>1, <1>8
<1>10. ASSUME NEW reg \in Regions, physical_reserve_region(reg)
       PROVE  Inv'
  <2>1. reg.first \in Nat /\ reg.last \in Nat
    BY RegionsAssumption
  <2>2. TypeOK' /\ PhaseOK' /\ ScanOK'
    BY <1>10, <2>1 DEF Inv, TypeOK, PhaseOK, ScanOK, physical_reserve_region, scanvars
  <2>3. QED
    BY <1>10, <2>2 DEF Inv, RunsNonempty, NoDoubleAllocation, FreeCountExact,
         UsedMemoryExact, LiveBlocks, physical_reserve_region
<1>11. CASE reserve_block
  <2>1. live = {} /\ live' = {} /\ used_memory' = used_memory /\ booting /\ booting'
    BY <1>11 DEF Inv, PhaseOK, reserve_block
  <2>2. used' = used \ {block} /\ free_blocks' \in Nat
    BY <1>11 DEF Inv, TypeOK, reserve_block, FreeBlock
  <2>3. FreeCountExact'
    <3>1. CASE block \in used
      <4>1. block \in Blocks /\ block \notin Blocks \ used
        BY <3>1 DEF Inv, TypeOK
      <4>2. Blocks \ (used \ {block}) = (Blocks \ used) \cup {block}
        BY <4>1
      <4>3. Cardinality((Blocks \ used) \cup {block}) = Cardinality(Blocks \ used) + 1
        BY <1>0, <4>1, FS_AddElement
      <4>4. QED
        BY <1>11, <3>1, <2>2, <4>2, <4>3 DEF Inv, FreeCountExact, reserve_block, FreeBlock
    <3>2. CASE block \notin used
      <4>1. used \ {block} = used
        BY <3>2
      <4>2. QED
        BY <1>11, <3>2, <4>1, <2>2 DEF Inv, FreeCountExact, reserve_block, FreeBlock
    <3>3. QED
      BY <3>1, <3>2
  <2>4. TypeOK' /\ PhaseOK'
    BY <1>11, <2>1, <2>2 DEF Inv, TypeOK, PhaseOK, reserve_block, StartScan
  <2>5. ScanOK'
    BY <1>11, <2>2 DEF Inv, TypeOK, ScanOK, reserve_block, StartScan, Run, Blocks
  <2>6. LiveBlocks' = LiveBlocks
    BY <2>1 DEF LiveBlocks
  <2>7. QED
    BY <2>1, <2>3, <2>4, <2>5, <2>6 DEF Inv, RunsNonempty, NoDoubleAllocation, UsedMemoryExact
<1>12. CASE reserve_done \/ physical_memory_init_returns
  BY <1>12 DEF Inv, TypeOK, PhaseOK, ScanOK, RunsNonempty, NoDoubleAllocation, FreeCountExact,
       UsedMemoryExact, LiveBlocks, reserve_done, physical_memory_init_returns, scanvars
<1>13. CASE UNCHANGED vars
  BY <1>13 DEF vars, Inv, TypeOK, PhaseOK, ScanOK, FreeRun, RunsNonempty, NoDoubleAllocation,
       FreeCountExact, UsedMemoryExact, LiveBlocks
<1>14. QED
  BY <1>2, <1>3, <1>4, <1>5, <1>6, <1>7, <1>8, <1>9, <1>10, <1>11, <1>12, <1>13
     DEF Next, alloc_refused

\* It holds of an empty bitmap.
LEMMA InvInit == Init => Inv
<1> SUFFICES ASSUME Init PROVE Inv
  OBVIOUS
<1> USE BlocksAssumption DEF Init, AllocatorInit
<1>1. TypeOK /\ PhaseOK /\ ScanOK /\ RunsNonempty /\ NoDoubleAllocation
  BY DEF TypeOK, PhaseOK, ScanOK, RunsNonempty, NoDoubleAllocation
<1>2. FreeCountExact
  <2>1. Blocks \ used = Blocks
    OBVIOUS
  <2>2. QED
    BY <2>1, BlocksFinite DEF FreeCountExact
<1>3. UsedMemoryExact
  <2>1. LiveBlocks = {}
    BY DEF LiveBlocks
  <2>2. QED
    BY <2>1, FS_EmptySet DEF UsedMemoryExact
<1>4. QED
  BY <1>1, <1>2, <1>3 DEF Inv
-----------------------------------------------------------------------------
(* The theorems. *)

\* The invariant holds in every reachable state.
LEMMA Invariance == Spec => []Inv
BY InvInit, InvStep, PTL DEF Spec

\* The bitmap allocator never gives two callers the same block.
THEOREM NoDoubleAllocationCorrect == Spec => []NoDoubleAllocation
<1>1. Inv => NoDoubleAllocation
  BY DEF Inv
<1>2. QED
  BY <1>1, Invariance, PTL

\* The free counter always equals the number of clear bits, and the memory
\* statistic the number of blocks callers hold.
THEOREM CountersCorrect == Spec => []CountersExact
<1>1. Inv => CountersExact
  BY DEF Inv, CountersExact
<1>2. QED
  BY <1>1, Invariance, PTL

\* The search loop gives up only when no free run of the wanted length exists.
THEOREM RefusalCorrect == Spec => RefusalJustified
<1>1. ASSUME Inv, [Next]_vars, mode = "scan", mode' # "scan", used' = used, NEW b \in Blocks
      PROVE  ~FreeRun(b, want)
  <2>1. scan_found \/ scan_exhausted
    BY <1>1 DEF Next, vars, physical_alloc_page, physical_alloc_pages, alloc_refused,
         scan_used_block, scan_free_block, physical_free_pages, physical_free_page,
         physical_reserve_region, reserve_block, reserve_done, physical_memory_init_returns
  <2>2. CASE scan_found
    <3>1. Run(SequenceStart, want) \cap used = {} /\ SequenceStart \in Run(SequenceStart, want)
      <4>1. FirstFit(SequenceStart, want) /\ SequenceStart \in Blocks
        BY <1>1, <2>2, FoundRun DEF Inv, scan_found
      <4>2. want \in Nat /\ want # 0
        BY <1>1 DEF Inv, TypeOK, ScanOK
      <4>3. QED
        BY <4>1, <4>2, BlocksAssumption DEF FirstFit, FreeRun, Run, Blocks
    <3>2. QED
      BY <1>1, <2>2, <3>1 DEF scan_found, MarkRun
  <2>3. CASE scan_exhausted
    BY <1>1, <2>3, BlocksAssumption DEF Inv, TypeOK, ScanOK, scan_exhausted, FreeRun, Blocks
  <2>4. QED
    BY <2>1, <2>2, <2>3
<1>2. Inv /\ [Next]_vars =>
        [mode = "scan" /\ mode' # "scan" /\ used' = used => \A b \in Blocks : ~FreeRun(b, want)]_vars
  BY <1>1
<1>3. QED
  BY <1>2, Invariance, PTL DEF Spec, RefusalJustified

\* The bitmap allocator implements the first-fit page allocator.
THEOREM ImplementsPageAllocatorCorrect == Spec => ImplementsPageAllocator
<1>1. Init => AllocatorInit
  BY DEF Init
<1>2. ASSUME Inv, [Next]_vars
      PROVE  [AllocatorNext]_<<used, live, booting>>
  <2>1. ASSUME UNCHANGED <<used, live, booting>> PROVE [AllocatorNext]_<<used, live, booting>>
    BY <2>1
  <2>2. CASE scan_found
    <3>1. CASE caller = "client"
      <4>1. FirstFit(SequenceStart, want) /\ SequenceStart \in Blocks
        BY <1>2, <2>2, FoundRun DEF Inv, scan_found
      <4>2. want \in 1 .. TotalBlocks
        BY <4>1, <1>2, <2>2, BlocksAssumption
           DEF FirstFit, FreeRun, Inv, TypeOK, ScanOK, scan_found, Blocks
      <4>3. Take(SequenceStart, want)
        BY <1>2, <2>2, <3>1, <4>1 DEF Take, scan_found, MarkRun, Inv, PhaseOK
      <4>4. QED
        BY <4>1, <4>2, <4>3 DEF AllocatorNext
    <3>2. CASE caller # "client"
      <4>1. Run(SequenceStart, want) \subseteq Blocks
        BY <1>2, <2>2, FoundRun DEF Inv, scan_found
      <4>2. Setup
        BY <1>2, <2>2, <3>2, <4>1 DEF Setup, scan_found, MarkRun, Inv, TypeOK, PhaseOK
      <4>3. QED
        BY <4>2 DEF AllocatorNext
    <3>3. QED
      BY <3>1, <3>2
  <2>3. ASSUME NEW r \in live, NEW n \in 1 .. r.count, physical_free_pages(r, n)
        PROVE  [AllocatorNext]_<<used, live, booting>>
    <3>1. Release(r, n)
      BY <1>2, <2>3 DEF Release, physical_free_pages, Inv, PhaseOK
    <3>2. QED
      BY <3>1 DEF AllocatorNext
  <2>4. ASSUME NEW r \in live, physical_free_page(r)
        PROVE  [AllocatorNext]_<<used, live, booting>>
    <3>1. 1 \in 1 .. r.count /\ physical_free_pages(r, 1)
      BY <2>4 DEF physical_free_page
    <3>2. QED
      BY <2>3, <3>1
  <2>5. CASE reserve_block \/ physical_memory_init_returns
    <3>1. Setup
      BY <1>2, <2>5 DEF Setup, reserve_block, physical_memory_init_returns, FreeBlock, Inv,
           TypeOK, PhaseOK
    <3>2. QED
      BY <3>1 DEF AllocatorNext
  <2>6. QED
    BY <1>2, <2>1, <2>2, <2>3, <2>4, <2>5 DEF Next, vars, physical_alloc_page,
       physical_alloc_pages, alloc_refused, scan_used_block, scan_free_block, scan_exhausted,
       physical_reserve_region, reserve_done
<1>3. QED
  BY <1>1, <1>2, Invariance, PTL DEF Spec, ImplementsPageAllocator, AllocatorSpec
=============================================================================

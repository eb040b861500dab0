----------------------------- MODULE MCNvfsSgList -----------------------------
(* Instances of NvfsSgList for TLC.  A GPU page has two blocks; a buffer   *)
(* has four GPU pages, and a shadow buffer six blocks.                     *)
EXTENDS NvfsSgList

CONSTANTS NBlocks,  \* blocks of the shadow buffer
          MaxBvecs, \* bio_vecs in a request
          BvecLen   \* blocks in a bio_vec

Bvecs == {[page |-> p, len |-> n] : p \in 0 .. NBlocks - 1, n \in 1 .. BvecLen}
         \cup {[page |-> Cpu, len |-> 1]}
InBuffer(b) == b.page = Cpu \/ b.page + b.len <= NBlocks

\* requests whose bio_vecs do not overlap
Disjoint(a, b) == \/ a.page = Cpu \/ b.page = Cpu
                  \/ a.page + a.len <= b.page \/ b.page + b.len <= a.page
SmallRequests ==
  {r \in UNION {[1 .. n -> {b \in Bvecs : InBuffer(b)}] : n \in 1 .. MaxBvecs} :
     \A i, j \in DOMAIN r : i # j => Disjoint(r[i], r[j])}

\* lists that a driver builds: an entry that is no longer than a GPU page lies
\* in one
InGpuPage(b) == b.page = Cpu \/ b.len > GpuBlocks
                \/ b.page \div GpuBlocks = (b.page + b.len - 1) \div GpuBlocks
OwnLists == {r \in SmallRequests : \A i \in DOMAIN r : InGpuPage(r[i])}
RequestsUsed == [m \in Modes |-> IF m = "own" THEN OwnLists ELSE SmallRequests]

\* Page tables of four GPU pages: contiguous, broken in one place, in two, and
\* with no page after the one it follows.
FourPages == {[i \in 0 .. 3 |-> s[i + 1]] :
  s \in {<<1, 2, 3, 4>>, <<1, 3, 4, 5>>, <<1, 2, 4, 5>>, <<1, 2, 3, 5>>,
         <<3, 4, 1, 2>>, <<1, 3, 4, 6>>, <<4, 3, 2, 1>>}}

\* The boundary of the SMMU is in the middle of the buffer for the
\* scatterlist, and beyond its end for the iterator.
Boundary == [m \in Modes |-> IF m = "iter" THEN 9 ELSE 2]
AnyFault == [m \in Modes |-> IF m = "iter" THEN {{"page"}, {"state"}}
                                           ELSE {{"page", "state"}}]
StateFault == [m \in Modes |-> {{"state"}}]
=============================================================================

---------------------------- MODULE MCNvfsBatch ----------------------------
(* NvfsBatch for TLC: one or two entries, on the same buffer or on two.    *)
EXTENDS NvfsBatch, TLC

CONSTANTS t1, t2, b1, b2

Kinds == {"data", "empty", "no_iter"}
Reads == [buf : {b1}, op : {"read"}, kind : Kinds, sync : BOOLEAN]
Writes == [buf : {b2}, op : {"write"}, kind : Kinds, sync : BOOLEAN]

(* In pairs at most one entry is not plain data, and then both are async.  *)
Plain(e) == e.kind = "data"
Pair(e, f) == (Plain(e) /\ Plain(f)) \/ ((Plain(e) # Plain(f)) /\ ~e.sync /\ ~f.sync)

SomeRequests ==
  {<<e>> : e \in Reads}
  \cup {r \in {<<e, f>> : e \in Reads, f \in Writes} : Pair(r[1], r[2])}
  \cup {<<e, e>> : e \in {w \in Writes : Plain(w)}}

Symmetry == Permutations(Threads)
=============================================================================

------------------------------ MODULE NvfsPci ------------------------------
(***************************************************************************)
(* nvfs-pci.c: the distance matrix between GPUs and the network and NVMe   *)
(* devices that transfer to them, built once when the driver is loaded,    *)
(* and the counters of transfers kept in it.  A device is its bus, device  *)
(* and function number; the link and class bits that the driver keeps in   *)
(* the same word are masked in every comparison.                           *)
(***************************************************************************)
EXTENDS Integers, Sequences, FiniteSets, FiniteSetsExt, SequencesExt

CONSTANTS
  Devices,      \* the devices on the PCI buses
  NoDev,        \* an empty slot of a table
  ClassOf,      \* the class of each: one of Classes
  Nvidia,       \* the devices with NVIDIA's vendor id
  Link,         \* width times speed index of the link of each device, 0 if unknown
  Topologies,   \* records of parent, acs, at and node: see Init
  MAX_GPU_DEVS, MAX_PEER_DEVS, MAX_PCI_DEPTH,
  Users,        \* threads in nvfs_get_dma()
  MaxOps        \* bound: transfers that are counted

ASSUME NoDevAssumption == NoDev \notin Devices

UINT_MAX == 65535 \* as the u16 pci_dist keeps it
NORP == -1        \* PCI_NULL_DEV_NORP, in a path of bridges 1, 2, ...
MAX_PCIE_BW_INDEX == 160
BASE_PCI_DISTANCE_CROSSRP == 127
PROC_LIMIT_PCI_DISTANCE_COMMONRP == 2 * MAX_PCI_DEPTH

VARIABLES
  topo,            \* the buses: they do not change
  scan,            \* the class being listed and the devices listed of it
  gpu_info_table, peer_info_table,
  gpu_bdf_map, peer_bdf_map,
  gpu_rank_matrix, \* [gpu index, peer index -> struct nvfs_rank_data]
  user,            \* per thread: the counter it increments and what it read
  ops              \* ghost: transfers begun, per device

tables == <<gpu_info_table, peer_info_table, gpu_bdf_map, peer_bdf_map>>
vars == <<topo, scan, tables, gpu_rank_matrix, user, ops>>

GpuSlots == 0 .. MAX_GPU_DEVS - 1
PeerSlots == 0 .. MAX_PEER_DEVS - 1

(* The classes nvfs_fill_gpu2peer_distance_table_once() asks for in turn.  *)
Classes == <<"3d", "vga", "infiniband", "ethernet", "nvme">>
IsGpu(d) == ClassOf[d] \in {"3d", "vga"} /\ d \in Nvidia
IsPeer(d) == ClassOf[d] \in {"infiniband", "ethernet", "nvme"}

Init ==
  /\ topo \in Topologies
  /\ scan = [class |-> 1, seen |-> {}, count |-> 0]
  /\ gpu_info_table = [i \in GpuSlots |-> NoDev]
  /\ peer_info_table = [i \in PeerSlots |-> NoDev]
  /\ gpu_bdf_map = [i \in GpuSlots |-> <<>>]
  /\ peer_bdf_map = [i \in PeerSlots |-> <<>>]
  /\ gpu_rank_matrix = <<>>
  /\ user = [u \in Users |-> <<>>]
  /\ ops = [d \in Devices |-> 0]

-----------------------------------------------------------------------------
(* The index tables: open addressing from a hash of the device.  A device  *)
(* is entered under the hash of its number with the link bits and looked   *)
(* up under the hash without them, so h may be any slot in either call.    *)
_create_index_entry(table, h) ==
  LET n == Cardinality(DOMAIN table)
      free == {i \in DOMAIN table : table[(h + i) % n] = NoDev}
  IN IF free = {} THEN UINT_MAX ELSE (h + Min(free)) % n

(* Mutant: only the slot of the hash is looked at.                         *)
_lookup_first_slot(table, h, d) == IF table[h] = d THEN h ELSE UINT_MAX

_lookup_index_entry(table, h, d) ==
  LET n == Cardinality(DOMAIN table)
      hits == {i \in DOMAIN table : table[(h + i) % n] = d}
  IN IF hits = {} THEN UINT_MAX ELSE (h + Min(hits)) % n

(* The bridges above a place, bottom up; place 0 is the root bus.          *)
Upstream(t) ==
  LET up[b \in {0} \cup DOMAIN t.parent] ==
        IF b = 0 THEN <<>> ELSE <<b>> \o up[t.parent[b]]
  IN up

(* The path of a device, cut off at MAX_PCI_DEPTH.                         *)
PathOf(d) ==
  IF topo.at[d] = 0
    THEN <<NORP>>
    ELSE LET up == Upstream(topo)[topo.at[d]]
         IN SubSeq(up, 1, Min({Len(up), MAX_PCI_DEPTH}))

(* __nvfs_find_all_device_paths(): one device that pci_get_class() gives.  *)
(* A table that is full, or that could be after this device, ends the      *)
(* listing of the class.                                                   *)
NextClass == [class |-> scan.class + 1, seen |-> {}, count |-> 0]

Listed(d, max) == IF scan.count + 1 >= max
                    THEN NextClass
                    ELSE [scan EXCEPT !.seen = @ \cup {d}, !.count = @ + 1]

ScanGpu(d) ==
  /\ IsGpu(d)
  /\ \E h \in GpuSlots :
       LET idx == _create_index_entry(gpu_info_table, h) IN
       IF idx = UINT_MAX
         THEN scan' = NextClass /\ UNCHANGED <<gpu_info_table, gpu_bdf_map>>
         ELSE /\ gpu_info_table' = [gpu_info_table EXCEPT ![idx] = d]
              /\ gpu_bdf_map' = [gpu_bdf_map EXCEPT ![idx] = PathOf(d)]
              /\ scan' = Listed(d, MAX_GPU_DEVS)
  /\ UNCHANGED <<peer_info_table, peer_bdf_map>>

ScanPeer(d) ==
  /\ IsPeer(d)
  /\ \E h \in PeerSlots :
       LET idx == _create_index_entry(peer_info_table, h) IN
       IF idx = UINT_MAX
         THEN scan' = NextClass /\ UNCHANGED <<peer_info_table, peer_bdf_map>>
         ELSE /\ peer_info_table' = [peer_info_table EXCEPT ![idx] = d]
              /\ peer_bdf_map' = [peer_bdf_map EXCEPT ![idx] = PathOf(d)]
              /\ scan' = Listed(d, MAX_PEER_DEVS)
  /\ UNCHANGED <<gpu_info_table, gpu_bdf_map>>

Skip(d) == /\ ~IsGpu(d) /\ ~IsPeer(d)
           /\ scan' = [scan EXCEPT !.seen = @ \cup {d}]
           /\ UNCHANGED tables

Scanning == scan.class <= Len(Classes)

Scan ==
  /\ Scanning
  /\ LET rest == {d \in Devices : ClassOf[d] = Classes[scan.class]} \ scan.seen
     IN \/ \E d \in rest : ScanGpu(d) \/ ScanPeer(d) \/ Skip(d)
        \/ rest = {} /\ scan' = NextClass /\ UNCHANGED tables
  /\ UNCHANGED <<topo, gpu_rank_matrix, user, ops>>

-----------------------------------------------------------------------------
(* nvfs_gpu2peer_islocal(): node -1 is a device without a NUMA node.       *)
islocal(g, p) ==
  LET a == topo.node[g]
      b == topo.node[p]
  IN IF a < 0 \/ b < 0 THEN a < 0 /\ b < 0 ELSE a = b

(* The bridges a peer has below the first that is no common one: the scan  *)
(* of a path that fills its array ends with pdepth still zero.             *)
pdepthApart(ppath) == IF ppath[1] = NORP \/ Len(ppath) = MAX_PCI_DEPTH
                        THEN 0 ELSE Len(ppath)

(* How many bridges, downwards from the highest one of the GPU, at i, and  *)
(* from the same bridge in the path of the peer, at j, both paths share.   *)
SharedRun(gpath, ppath, i, j) ==
  Max({k \in 1 .. Min({i, j}) :
         \A m \in 0 .. k - 1 : gpath[i - m] = ppath[j - m]})

(* Mutant: the common bridge itself counts as a hop of neither.            *)
CommonDistanceZero(gpath, ppath, j) ==
  LET i == Len(gpath)
      k == SharedRun(gpath, ppath, i, j)
  IN (i - k) + (j - k)

(* With ACS on the lowest common bridge, unless that is the one the GPU    *)
(* hangs on, the transfer goes up to the highest.                          *)
CommonDistance(gpath, ppath, j) ==
  LET i == Len(gpath)
      k == SharedRun(gpath, ppath, i, j)
      lowest == i - k
      redirect == lowest > 0 /\ gpath[lowest + 1] \in topo.acs
  IN (i - k) + (j - k) + 1 + (IF redirect THEN i - 1 - lowest ELSE 0)

(* __nvfs_get_gpu2peer_distance(), for the indices i and j.                *)
Distance(i, j) ==
  LET gpath == gpu_bdf_map[i]
      ppath == peer_bdf_map[j]
      top == Last(gpath)
      common == top # NORP /\ \E n \in DOMAIN ppath : ppath[n] = top
      gdepth == IF top = NORP THEN 0 ELSE Len(gpath)
      base == IF islocal(gpu_info_table[i], peer_info_table[j])
                THEN BASE_PCI_DISTANCE_CROSSRP
                ELSE 2 * BASE_PCI_DISTANCE_CROSSRP
  IN IF gpath = <<>> \/ ppath = <<>> THEN UINT_MAX
     ELSE IF common
       THEN CommonDistance(gpath, ppath,
                           CHOOSE n \in DOMAIN ppath : ppath[n] = top)
       ELSE base + gdepth + pdepthApart(ppath) + 1

(* nvfs_get_pci_gpu2peer_distance().  rank is pci_dist, then the bandwidth *)
(* that is missing: two halves of one word.                                *)
Fill ==
  /\ ~Scanning /\ gpu_rank_matrix = <<>>
  /\ gpu_rank_matrix' =
       [ij \in GpuSlots \X PeerSlots |->
          LET d == peer_info_table[ij[2]]
              bw == IF d = NoDev THEN 0 ELSE Min({Link[d], MAX_PCIE_BW_INDEX})
              dist == Distance(ij[1], ij[2])
          IN [rank |-> <<dist, MAX_PCIE_BW_INDEX - bw>>,
              pci_dist |-> dist,
              cross |-> dist >= BASE_PCI_DISTANCE_CROSSRP,
              count |-> 0]]
  /\ UNCHANGED <<topo, scan, tables, user, ops>>

Ready == gpu_rank_matrix # <<>>

(* UINT_MAX as a rank: both halves of the word are all ones.               *)
NoRank == <<UINT_MAX, UINT_MAX>>

(* nvfs_get_gpu2peer_distance(): what nvfs_device_priority() tells the     *)
(* storage modules about a device and a gpu index.                         *)
nvfs_get_gpu2peer_distance(d, i, h) ==
  LET j == _lookup_index_entry(peer_info_table, h, d)
  IN IF i \notin GpuSlots \/ j \notin PeerSlots
       THEN NoRank ELSE gpu_rank_matrix[i, j].rank

-----------------------------------------------------------------------------
(* nvfs_update_peer_usage(), called by nvfs_get_dma() for a GPU whose      *)
(* index was looked up by nvfs_map(): count++ is a read and a write.       *)
UsageRead(u) ==
  /\ Ready /\ user[u] = <<>>
  /\ \E d \in Devices, i \in GpuSlots \cup {UINT_MAX}, h \in PeerSlots :
       LET j == _lookup_index_entry(peer_info_table, h, d) IN
       /\ IsPeer(d) /\ MapThenSumSet(LAMBDA x : ops[x], Devices) < MaxOps
       /\ ops' = [ops EXCEPT ![d] = @ + 1]
       /\ IF i = UINT_MAX \/ j = UINT_MAX
            THEN UNCHANGED user
            ELSE user' = [user EXCEPT ![u] =
                   [at |-> <<i, j>>, read |-> gpu_rank_matrix[i, j].count]]
  /\ UNCHANGED <<topo, scan, tables, gpu_rank_matrix>>

UsageWrite(u) ==
  /\ user[u] # <<>>
  /\ gpu_rank_matrix' =
       [gpu_rank_matrix EXCEPT ![user[u].at].count = user[u].read + 1]
  /\ user' = [user EXCEPT ![u] = <<>>]
  /\ UNCHANGED <<topo, scan, tables, ops>>

(* nvfs_reset_peer_affinity_stats().                                       *)
Reset ==
  /\ Ready
  /\ gpu_rank_matrix' = [ij \in DOMAIN gpu_rank_matrix |->
                           [gpu_rank_matrix[ij] EXCEPT !.count = 0]]
  /\ UNCHANGED <<topo, scan, tables, user, ops>>

(* nvfs_aggregate_peer_usage_by_distance().                                *)
Count(i, slots) == MapThenSumSet(LAMBDA j : gpu_rank_matrix[i, j].count, slots)

Aggregate(i, dist) ==
  LET far == dist >= BASE_PCI_DISTANCE_CROSSRP
      d(j) == gpu_rank_matrix[i, j].pci_dist
  IN Count(i, {j \in PeerSlots : d(j) = dist \/ (far /\ d(j) >= dist)})

(* nvfs_peer_affinity_show(): the columns of the row of a GPU.             *)
Columns == (1 .. PROC_LIMIT_PCI_DISTANCE_COMMONRP)
           \cup {BASE_PCI_DISTANCE_CROSSRP}

(* nvfs_aggregate_cross_peer_usage().                                      *)
CrossPercent(i) ==
  LET net == Count(i, PeerSlots)
      count == Count(i, {j \in PeerSlots : gpu_rank_matrix[i, j].cross})
  IN IF net = 0 THEN 0 ELSE (100 * count) \div net

-----------------------------------------------------------------------------
Usage == \E u \in Users : UsageRead(u) \/ UsageWrite(u)

Next == Scan \/ Fill \/ Usage \/ Reset

Spec == Init /\ [][Next]_vars

-----------------------------------------------------------------------------
(* What the distance should be, from the set of bridges above each device. *)
Above(d) == ToSet(Upstream(topo)[topo.at[d]])

Shared(g, p) == Above(g) \cap Above(p)

LowestShared(g, p) ==
  CHOOSE b \in Shared(g, p) : Shared(g, p) \subseteq ToSet(Upstream(topo)[b])

Hops(g, p) ==
  IF Shared(g, p) = {}
    THEN Cardinality(Above(g)) + Cardinality(Above(p)) + 1
         + BASE_PCI_DISTANCE_CROSSRP * (IF islocal(g, p) THEN 1 ELSE 2)
  ELSE IF LowestShared(g, p) \in topo.acs \ {topo.at[g]}
    THEN Cardinality(Above(g) \cup Above(p))
    ELSE Cardinality((Above(g) \cup Above(p)) \ Shared(g, p)) + 1

(* Paths that fit their arrays; for a pair under different root ports the  *)
(* array of the peer needs an empty slot at its end.                       *)
Fits(g, p) ==
  LET n == IF Shared(g, p) = {} THEN MAX_PCI_DEPTH - 1 ELSE MAX_PCI_DEPTH
  IN Cardinality(Above(g)) <= MAX_PCI_DEPTH /\ Cardinality(Above(p)) <= n

(* nvfs_device_priority(): wherever the hashes of two devices lead and in  *)
(* whatever order they were listed, a listed device and a GPU get the rank *)
(* of this pair: the number of bridges a transfer between them crosses,    *)
(* through the root complex or not, then the bandwidth of the device.  A   *)
(* device that did not fit into the table gets NoRank.                     *)
RankExact ==
  Ready => \A i \in GpuSlots, h \in PeerSlots, p \in Devices :
    LET r == nvfs_get_gpu2peer_distance(p, i, h)
        g == gpu_info_table[i]
    IN IF \E j \in PeerSlots : peer_info_table[j] = p
         THEN g # NoDev /\ Fits(g, p)
                => r = <<Hops(g, p), MAX_PCIE_BW_INDEX - Min({Link[p], MAX_PCIE_BW_INDEX})>>
         ELSE r = NoRank

(* /proc/driver/nvidia-fs/peer_affinity: every transfer that was counted   *)
(* is in one column of the row of its GPU, the last column is the share    *)
(* that /proc/driver/nvidia-fs/stats calls cross_root_port, and increments *)
(* that race with each other or with a reset never count a transfer twice. *)
UsageShown ==
  Ready => \A i \in GpuSlots :
    LET all == Count(i, PeerSlots)
        last == Aggregate(i, BASE_PCI_DISTANCE_CROSSRP)
    IN /\ MapThenSumSet(LAMBDA c : Aggregate(i, c), Columns) = all
       /\ all > 0 => CrossPercent(i) = (100 * last) \div all
       /\ \A j \in PeerSlots : gpu_rank_matrix[i, j].count > 0
                               => gpu_rank_matrix[i, j].count <= ops[peer_info_table[j]]
=============================================================================

------------------------------ MODULE MCNvfsPci ------------------------------
(* An instance of NvfsPci for TLC: one GPU, a display that is not NVIDIA's, *)
(* an InfiniBand and two NVMe devices, one more than the table has room    *)
(* for, under every arrangement of four bridges.                           *)
EXTENDS NvfsPci

CONSTANTS g1, v1, p1, p2, p3

Class == g1 :> "3d" @@ v1 :> "vga" @@ p1 :> "infiniband" @@ p2 :> "nvme"
         @@ p3 :> "nvme"
Bandwidth == g1 :> 64 @@ v1 :> 0 @@ p1 :> 64 @@ p2 :> 16 @@ p3 :> 192

\* every forest of four bridges, up to their names
Forests == {<<0, 0, 0, 0>>, <<0, 0, 0, 1>>, <<0, 0, 1, 1>>, <<0, 0, 1, 2>>,
            <<0, 0, 1, 3>>, <<0, 1, 1, 1>>, <<0, 1, 1, 2>>, <<0, 1, 2, 2>>,
            <<0, 1, 2, 3>>}
Acs == {{}, 1 .. 4}

\* where p2 is, and the NUMA nodes of the GPU, p1 and p2
Far == {<<0, <<0, 0, 1>>>>, <<3, <<-1, 1, -1>>>>}

SomeTopologies ==
  {[parent |-> f, acs |-> a,
    at |-> g1 :> g @@ v1 :> 0 @@ p1 :> p @@ p2 :> q[1] @@ p3 :> 0,
    node |-> g1 :> q[2][1] @@ v1 :> 0 @@ p1 :> q[2][2] @@ p2 :> q[2][3]
             @@ p3 :> q[2][3]] :
   f \in Forests, a \in Acs, g \in 0 .. 4, p \in 0 .. 4, q \in Far}
=============================================================================

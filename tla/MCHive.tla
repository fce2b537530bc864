--------------------------------- MODULE MCHive ---------------------------------
(* Small networks for Hive. *)
EXTENDS Hive

(* The inputs are -1, -2, ..; the nodes 1 .. Len(fanins). *)
Net(ins, fanins, co) ==
  [node |-> DOMAIN fanins, ci |-> {-i : i \in 1 .. ins}, fanin |-> fanins, co |-> co]

(* One node leads round another: 1 to 3 directly and over 2. *)
Detour == Net(3, << <<-1, -2>>, <<1, -3>>, <<1, 2>>, <<3, -1>>, <<4, 2>> >>, {2, 5})

(* Two detours of two nodes each, one of them of nodes with outputs *)
Detours == Net(2, << <<-1, -2>>, <<1>>, <<2, -1>>, <<1>>, <<4, -2>>, <<3, 5, 1>> >>, {3, 4, 6})

(* An hourglass: many drivers, one waist, many readers *)
Waist == Net(3, << <<-1, -2>>, <<-2, -3>>, <<1, 2>>, <<3, -1>>, <<3, 3>>, <<3, -3>> >>, {4, 5, 6})

(* A constant, a node that drives an output and a node, and a dangling one *)
Odd == Net(2, << <<>>, <<1, -1, -1>>, <<2, -2>>, <<3>>, <<2, 1>> >>, {3, 4})

(* A wide cone whose seed is over the limits *)
Wide == Net(4, << <<-1, -2>>, <<-3, -4>>, <<1, 2>>, <<3, -1>> >>, {3, 4})

(* A combinational loop beside a node that is none of it *)
Loop == Net(1, << <<-1, 3>>, <<1>>, <<2>>, <<-1>> >>, {2, 4})

(* A tree of gates with two fanins, which needs every LUT it has *)
Tree == Net(4, << <<-1, -2>>, <<-3, -4>>, <<1, 2>> >>, {3})

(* Regions with the same Q, two of them the same *)
Tied == Net(4, << <<-1>>, <<-3, -4, -2>>, <<-1>>, <<2>> >>, {1, 3, 4})

MCNetworks == {Tree, Tied, Detour, Detours, Waist, Odd, Wide, Loop}

Config(num, nodes, maxIn, maxOut, seedsNo, k) ==
  [num_regions |-> num, max_nodes |-> nodes, max_in |-> maxIn, max_out |-> maxOut,
   lut_k |-> k, num_seeds |-> seedsNo]
MCConfigs == {Config(3, 5, 3, 2, 0, 3), Config(2, 6, 4, 3, 3, 2)}
=============================================================================

---------------------------------- MODULE MCCpr ----------------------------------
(* Cpr on small networks. *)
EXTENDS Cpr, SmallNetworks

(* A path that leaves its part for one node, for two, and for a third part. *)
Detours == Build(<<0, 0>>,
  << N(<<1, 2>>, And, 0), N(<<3, 2>>, Or, 1), N(<<4, 1>>, Xor, 0), N(<<5, 2>>, And, 1),
     N(<<6>>, Inv, 1), N(<<7, 1>>, Or, 2), N(<<8, 4>>, Xor, 2) >>, <<9, 5>>)

(* Two duplicates in a round, the later of which reads the earlier, and     *)
(* more cut nets with them than without.                                    *)
Relayed == Build(<<1, 0, 0, 2>>,
  << N(<<1, 2, 3>>, {{1, 2}, {3}}, 0), N(<<5>>, Inv, 1), N(<<6, 4>>, And, 2), N(<<7, 4>>, Xor, 2),
     N(<<8, 5>>, Or, 1), N(<<9, 4>>, And, 2) >>, <<10, 5>>)

(* It starts with a constant, and a node has no part. *)
Started == Build(<<0, 1>>,
  << N(<<>>, {{}}, 0), N(<<3>>, Inv, 1), N(<<4, 1>>, And, 0), N(<<5, 2>>, Or, NoPart),
     N(<<6, 4>>, Xor, 1) >>, <<7>>)

(* The inputs alone are more than a part may hold. *)
Crowded == Build(<<0, 0, 0, 0, 0>>,
  << N(<<1, 2, 3>>, {{1, 2}, {3}}, 1), N(<<6, 4, 5>>, {{1, 3}, {2}}, 1) >>, <<7>>)

(* The first part is too full of inputs, the second of nodes. *)
Blocked == Build(<<0, 0, 0, 0, 0>>,
  << N(<<1, 2>>, And, 1), N(<<6, 3>>, Or, 1), N(<<7, 4>>, And, 1), N(<<8, 5>>, Xor, 1),
     N(<<9, 1>>, Or, 1), N(<<10>>, Inv, 2) >>, <<11>>)

Config(moves, copies, growth, cutsize, balance) ==
  [moves |-> moves, moveStall |-> 2, copies |-> copies, copyStall |-> 2, growth |-> growth,
   cutsize |-> cutsize, balance |-> balance, parts |-> -1, pct |-> -1]

MCNetworks == {Detours, Relayed, Started, Crowded, Blocked, Tangled, Twice, Fan, Uneven, Chain, FarSwap, Knock,
               Cross, Copies, Equal, Pair, Deep}
MCConfigs == {Config(m, c, g, k, b) : m \in {0, 3}, c \in {3}, g \in {30, 60}, k \in {0, 25, 100}, b \in {2, 40}}
MCInputs == {[net |-> n, cfg |-> c] : n \in MCNetworks, c \in MCConfigs}
===================================================================================

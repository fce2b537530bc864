--------------------------------- MODULE MCCsr3 ---------------------------------
(* Csr3 on small networks of two parts. *)
EXTENDS Csr3, SmallNetworks

Buf == {{1}}

(* Three lines that exclude each other, and one back. *)
Exclusive == Build(<<0, 0, 1>>,
  << N(<<1, 2>>, And, 0), N(<<1, 2>>, {{1}}, 0), N(<<1>>, Inv, 0),
     N(<<4, 5>>, Or, 1), N(<<5, 6>>, Xor, 1), N(<<3, 6, 7>>, {{1, 2}, {3}}, 1),
     N(<<7, 1>>, And, 0) >>, <<8, 9, 10, 4>>)

(* The same, but the second line depends on a reader of the first. *)
Looped == Build(<<0, 0, 1>>,
  << N(<<1, 2>>, And, 0), N(<<4, 3>>, Or, 1), N(<<1, 2, 5>>, {{1, 3}}, 0), N(<<1>>, Inv, 0),
     N(<<6, 7>>, Xor, 1), N(<<7, 5>>, And, 1) >>, <<5, 8, 9>>)

(* Lines that are constant, or copies of each other, in both directions. *)
Constant == Build(<<0, 1>>,
  << N(<<1>>, {}, 0), N(<<1>>, Inv, 0), N(<<1>>, Buf, 0), N(<<>>, {{}}, 0),
     N(<<3, 2>>, And, 1), N(<<4, 5, 6>>, {{1, 3}, {2}}, 1), N(<<2, 8>>, Or, 1), N(<<7, 9>>, Xor, 0),
     N(<<2>>, Inv, 1), N(<<11, 4>>, Or, 0) >>, <<8, 10, 12, 4>>)

(* The codec of the first direction feeds the lines of the second. *)
Relay == Build(<<0, 0, 1>>,
  << N(<<1, 2>>, And, 0), N(<<1, 2>>, And, 0), N(<<4, 3>>, And, 1), N(<<5, 3, 6>>, {{1, 2, 3}}, 1),
     N(<<6, 4, 4>>, {{1, 2, 3}}, 1), N(<<7, 8>>, Xor, 0), N(<<6, 7>>, And, 0), N(<<9, 8>>, Or, 0) >>,
  <<9, 10, 11>>)

MCNetworks == {Exclusive, Looped, Constant, Relay, Tangled, Twice, Equal, Pair, Cross}
MCConfigs == {[jaccard |-> j, lines |-> m] : j \in {10, 30}, m \in {2, 3}}
=================================================================================

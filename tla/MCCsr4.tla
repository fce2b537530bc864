-------------------------------- MODULE MCCsr4 --------------------------------
(****************************************************************************)
(* Csr4 on small partitioned networks: every pair of two-input functions of *)
(* a shared pair of crossing nets, a group cut by the caps, a part boundary *)
(* crossed in both directions, and a net of the group that depends on one   *)
(* of its members.                                                          *)
(****************************************************************************)
EXTENDS Csr4, TLC

NoPartId == -1

Pairs(a, b) == SUBSET SUBSET {a, b}            \* functions of a and b
And(f, x)   == {s \cup {x} : s \in f}          \* f and x
Xor(a, b)   == {{a}, {b}}
AndOf(S)    == {S}
OrOf(S)     == (SUBSET S) \ {{}}

Network(pi, fanin, truth, part) ==
  [max |-> Cardinality(pi \cup DOMAIN fanin) + 1, pi |-> pi, lut |-> DOMAIN fanin, fanin |-> fanin, truth |-> truth, part |-> part]

(* 5 and 6 read 1 and 2 of part 0, and one local input each. *)
SharedPair ==
  { Network({1, 2, 3, 4},
      (5 :> {1, 2, 3}) @@ (6 :> {1, 2, 4}),
      (5 :> And(f, 3)) @@ (6 :> And(g, 4)),
      (1 :> 0) @@ (2 :> 0) @@ (3 :> 1) @@ (4 :> 1) @@ (5 :> 1) @@ (6 :> 1)) :
    f \in Pairs(1, 2), g \in Pairs(1, 2) }

(* Three consumers of the nets 1 to 4; 8 reads 5 too, in part 0. *)
Capped ==
  { Network({1, 2, 3, 4},
      (5 :> {1, 2, 3}) @@ (6 :> {1, 2}) @@ (7 :> {3, 4, 5}) @@ (8 :> {5, 6}),
      (5 :> And(f, 3)) @@ (6 :> f) @@ (7 :> OrOf({3, 4, 5})) @@ (8 :> g),
      (1 :> 0) @@ (2 :> 0) @@ (3 :> 0) @@ (4 :> p) @@ (5 :> 1) @@ (6 :> 1)
        @@ (7 :> 1) @@ (8 :> 0)) :
    f \in Pairs(1, 2), g \in {AndOf({5, 6}), Xor(5, 6), OrOf({5, 6})}, p \in {0, NoPartId} }

(* The net 1 has a sink, 6, that is too wide to be in a group. *)
Wide ==
  { Network({1, 2, 3, 4},
      (5 :> {1, 2, 3}) @@ (6 :> {1, 3, 4, 5}) @@ (7 :> {2, 3}),
      (5 :> f) @@ (6 :> AndOf({1, 3, 4, 5})) @@ (7 :> g),
      (1 :> 0) @@ (2 :> 0) @@ (3 :> 0) @@ (4 :> 1) @@ (5 :> 1) @@ (6 :> 1) @@ (7 :> 1)) :
    f \in {Xor(1, 2), AndOf({1, 2, 3}), Xor(2, 3)}, g \in {Xor(2, 3), AndOf({2, 3})} }

(* 4 is also read by 8, which reads nothing else of part 0; the code of 1 to *)
(* 3 has two wires, too many for 7.                                         *)
Crowded ==
  { Network({1, 2, 3, 4, 5},
      (6 :> {1, 2, 3}) @@ (7 :> {3, 4, 5}) @@ (8 :> {4}),
      (6 :> {s \in SUBSET {1, 2, 3} : Cardinality(s) % 2 = 1}) @@ (7 :> f) @@ (8 :> {{4}}),
      (1 :> 0) @@ (2 :> 0) @@ (3 :> 0) @@ (4 :> 0) @@ (5 :> 1) @@ (6 :> 1) @@ (7 :> 1) @@ (8 :> 1)) :
    f \in {AndOf({3, 4, 5}), And(Xor(3, 4), 5), And({{4}}, 5)} }

(* 4 reads 5 in part 0 and is read by 6: the group of 5 and 6 has a net     *)
(* that depends on 5.                                                       *)
FedBack ==
  { Network({1, 2, 3},
      (4 :> {5}) @@ (5 :> {1, 2}) @@ (6 :> {2, 4}) @@ (7 :> {5}),
      (4 :> {{5}}) @@ (5 :> Xor(1, 2)) @@ (6 :> f) @@ (7 :> {{5}}),
      (1 :> 0) @@ (2 :> 0) @@ (3 :> 1) @@ (4 :> 0) @@ (5 :> 1) @@ (6 :> 1) @@ (7 :> 0)) :
    f \in {Xor(2, 4), AndOf({2, 4})} }

WithFeedback == SharedPair \cup Capped \cup Wide \cup Crowded \cup FedBack
=============================================================================

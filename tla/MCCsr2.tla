--------------------------------- MODULE MCCsr2 ---------------------------------
(* Csr2 on the small networks. *)
EXTENDS Csr2, SmallNetworks

Config(relocate, repair, T, growth, cutnets, balance, rounds) ==
  [rounds |-> rounds, stall |-> 2, relocate |-> relocate, repair |-> repair, trajectories |-> T,
   growth |-> growth, cutnets |-> cutnets, balance |-> balance, parts |-> -1, pct |-> -1]
Unset == -1
With(nets, c) == {[net |-> n, cfg |-> c] : n \in nets}

Moving == {Tangled, Twice, Fan, Uneven, FarMove, FarSwap, Knock, Cross, Pinned,
           Copies, Equal, Pair, Deep}

MCInputs ==
  UNION { With(Moving, Config(TRUE, TRUE, 1, 60, 300, 40, 2)),
          With({Copies, Chained, Equal, Deep, Pair}, Config(FALSE, FALSE, 1, 60, 300, 40, 2)),
          With({Chain}, Config(FALSE, FALSE, 1, 0, 300, 40, 1)),
          With({Fan, Deep, Pair, Knock}, Config(FALSE, FALSE, 1, 25, 300, 40, 2)),
          With({Fan, Copies, Cross}, Config(FALSE, TRUE, 1, 20, 100, 0, 1)),
          With({Tangled, Knock, Uneven}, Config(TRUE, FALSE, 3, 0, 100, Unset, 1)),
          With({Tangled}, Config(TRUE, TRUE, 2, 20, 50, 40, 1)) }

OppositeInputs == With({Opposite}, Config(FALSE, FALSE, 1, 0, 300, 40, 1))
=================================================================================

--------------------------------- MODULE MCCsr ---------------------------------
(* Csr on the small networks. *)
EXTENDS Csr, SmallNetworks

ChainNetworks == {Chain}
MCNetworks == {Tangled, Twice, Fan, Uneven, FarMove, FarSwap, Knock, Cross, Copies, Chained, Pinned}

Config(relocate, balance, repair, growth, parts, pct) ==
  [rounds |-> 2, stall |-> 2, relocate |-> relocate, balance |-> balance, repair |-> repair,
   growth |-> growth, parts |-> parts, pct |-> pct]
Unset == -1
ResubConfigs == {Config(FALSE, Unset, FALSE, 0, Unset, Unset)}
MCConfigs == {Config(TRUE, Unset, TRUE, 40, Unset, 40), Config(TRUE, 0, FALSE, 100, Unset, Unset),
              Config(FALSE, Unset, TRUE, 20, 3, 10)}
=============================================================================

-------------------------------- MODULE Optimizer --------------------------------
(****************************************************************************)
(* What csr2 promises of the network in ABC's frame: a command leaves it as *)
(* it was, or puts in its place, in one step, a network with the same       *)
(* outputs and no more cut-edges, within the limits taken at the entry.     *)
(****************************************************************************)
EXTENDS PartLimits

VARIABLES
  frame,    (* the current network *)
  limits,   (* those of the entry *)
  busy      (* the command has not returned *)

Start == busy = TRUE

Better(n, m) ==
  /\ Within(m, limits)
  /\ CutEdges(m) <= CutEdges(n)
  /\ m.pi = n.pi /\ Outputs(m) = Outputs(n)

Return ==
  /\ busy /\ busy' = FALSE
  /\ frame' = frame \/ Better(frame, frame')
  /\ UNCHANGED limits

Promise == Start /\ [][Return]_<<frame, limits, busy>>
=============================================================================

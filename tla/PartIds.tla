---------------------------------- MODULE PartIds ----------------------------------
(* Parts are numbers; an object that the partition left out has none. *)

CONSTANT NoPart   (* ABC_PART_ID_NONE *)
=====================================================================================

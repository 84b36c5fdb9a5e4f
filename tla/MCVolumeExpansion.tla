------------------------- MODULE MCVolumeExpansion -------------------------
(* Small sizes for VolumeExpansion: one unit of a file protocol is 4, of a  *)
(* block protocol 2, the smallest volume 4, the largest 12, int64 ends at   *)
(* 17.  The ranges meet every boundary: negative, zero, below the minimum,  *)
(* not a multiple, the maximum and just above it, limits that the rounding  *)
(* crosses, and a request that only has a limit.                            *)
EXTENDS VolumeExpansion

BoundaryRanges ==
    {<<-1, 0>>, <<0, -1>>, <<0, 0>>, <<9, 8>>, <<1, 0>>, <<1, 3>>, <<0, 4>>,
     <<5, 0>>, <<5, 6>>, <<5, 7>>, <<9, 12>>, <<11, 0>>, <<12, 0>>, <<13, 0>>, <<17, 0>>}

GrowingRanges == {<<1, 0>>, <<5, 7>>, <<11, 0>>}
=============================================================================

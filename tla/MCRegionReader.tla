--------------------------- MODULE MCRegionReader ---------------------------
(* TLC instances of RegionReader.                                          *)
EXTENDS RegionReader, TLC

(* Tracks are interchangeable: no run of this module is about liveness.    *)
TrackSymmetry == Permutations(Tracks)

(* Sizes around every limit: 256 producers, a pool of whole words, rings   *)
(* of a power of two, and fields of FieldRange.                            *)
SomeLayouts ==
  [producers : {1, 2, 8, 256, 257, 300},
   pool      : {1, 8, 44, 1024, 4096},
   words     : {1, 2, 12, 16}]
=============================================================================

--------------------------- MODULE MCSocketProvider ---------------------------
(* Instances of SocketProvider for TLC.                                    *)
EXTENDS SocketProviderRefinement, TLC
CONSTANTS r1, r2, r3, id1, id2, id3

OwnIds     == r1 :> id1 @@ r2 :> id2
SelfIds    == r1 :> r1 @@ r2 :> r2
ThreeIds   == r1 :> id1 @@ r2 :> id2 @@ r3 :> id3
SharedId   == r1 :> id1 @@ r2 :> id1 @@ r3 :> id2

OneId      == r1 :> id1

(* Two requests that are their own ids may change places.                  *)
Exchange == Permutations({r1, r2})
=============================================================================

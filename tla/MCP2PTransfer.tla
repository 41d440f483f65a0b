--------------------------- MODULE MCP2PTransfer ---------------------------
(***************************************************************************)
(* Instances of P2PTransfer for TLC.                                       *)
(***************************************************************************)
EXTENDS P2PTransfer, TLC

CONSTANTS a, b, c,  \* peers
          f, g,     \* file names
          x, y      \* block contents

(* Two peers that found each other, each downloading from the other. *)
TwoTarget == (a :> b) @@ (b :> a)

(* Two peers, and only one of them has anything to serve. *)
OneWayShared == (a :> (f :> <<x, y>>)) @@ (b :> (f :> <<>>))

(* Two peers ask a third one, for files of different names. *)
ThreeTarget == (a :> b) @@ (b :> a) @@ (c :> a)
ThreeShared == (a :> ((f :> <<x>>) @@ (g :> <<y, x>>)))
                 @@ (b :> ((f :> <<y, y>>) @@ (g :> <<>>)))
                 @@ (c :> ((f :> <<>>) @@ (g :> <<>>)))

FairSpec == Spec /\ Fairness(1)
=============================================================================

--------------------------- MODULE MCCancellation ----------------------------
(***************************************************************************)
(* Instances of Cancellation for TLC.                                       *)
(***************************************************************************)
EXTENDS Cancellation, TLC

CONSTANTS root, linked, ofRoot, ofLinked, onRoot

\* A source (which the linked run constructs with a time), its token, a source
\* that is linked to it, and a token of that one.
TokensOfBoth == (ofRoot :> root) @@ (ofLinked :> linked)

\* A callback on the first token, beside the linked source.
CallbackAndLink == (onRoot :> ofRoot) @@ (linked :> ofRoot)

\* One source, one token, one callback.
TokenOfRoot == ofRoot :> root
CallbackOnly == onRoot :> ofRoot

=============================================================================

--------------------------- MODULE MCEpochPipeline ---------------------------
(***************************************************************************)
(* Constants for TLC.  "solo" needs no preloader of its own, "shared" needs *)
(* one: a failing preloader leaves rows for the other project to reconcile. *)
(***************************************************************************)
EXTENDS EpochPipeline

CONSTANTS solo, shared, blockDetails, tokenPrices

\* Epoch 2 was never released to this node: the start of epoch 3 prunes the
\* rows of epoch 1 when Retention is 1.
TwoEpochs == {1, 3}
BothProjects == {solo, shared}
BothPreloaders == {blockDetails, tokenPrices}

\* A failure of tokenPrices skips one project, of blockDetails both.
MCRequires == [p \in {solo, shared} |->
                 IF p = solo THEN {blockDetails} ELSE {blockDetails, tokenPrices}]
=============================================================================

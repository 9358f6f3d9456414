------------------------------- MODULE MCNode -------------------------------
(***************************************************************************)
(* One project that needs one preloader: a failing preloader is an epoch   *)
(* no project runs for, so every way through the pipeline is there.        *)
(***************************************************************************)
EXTENDS Node

CONSTANTS project, preloader

OneProject == {project}
OnePreloader == {preloader}
MCRequires == [p \in {project} |-> {preloader}]
EpochBlocks == {"epoch"}
=============================================================================

-------------------------- MODULE MCJobCoordinator ---------------------------
(***************************************************************************)
(* Instances of JobCoordinator for TLC.                                     *)
(***************************************************************************)
EXTENDS JobCoordinator

CONSTANTS i1, i2

\* What the interfaces allow: a second executor that answers later.
TwoInstances == <<i1, i2>>
LocalAndDeferred == <<"local", "deferred">>

\* An executor whose process drops the callback.
LocalAndRemote == <<"local", "remote">>

=============================================================================

--------------------------- MODULE MCSourcePolling ---------------------------
(***************************************************************************)
(* Instances of SourcePolling for TLC.                                     *)
(***************************************************************************)
EXTENDS SourcePolling

\* Every source can be polled in every mode.
MCAll == Sources \X Modes
=============================================================================

-------------------------- MODULE MCDocumentIngest --------------------------
(***************************************************************************)
(* A small instance of DocumentIngest for TLC.                             *)
(***************************************************************************)
EXTENDS DocumentIngest

CONSTANTS x, y, g1, g2

TwoContents == {x, y}
TwoSyncs == {g1, g2}
NoUploads == {}

\* both synchronisations are of one source, and have the same files
SameFiles == [s \in Ingests |-> Paths]

AllFaults == FaultKinds
=============================================================================

------------------------------- MODULE MCAttach -------------------------------
(* Instances of Viewer, and with it of Attach, for TLC.                    *)
EXTENDS Viewer
=============================================================================

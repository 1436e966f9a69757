------------------------------ MODULE MCAnchors ------------------------------
(* A bundle of a manifest and one artifact, for TLC.                       *)
EXTENDS Anchors

MC_First == {<<"x", "x">>}
===============================================================================

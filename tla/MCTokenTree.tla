----------------------------- MODULE MCTokenTree -----------------------------
(* Values for the constants of TokenTree: a root with a budget of two       *)
(* steps and one of the two tools, and requests that it cuts, one of them   *)
(* to no tool at all.                                                       *)
EXTENDS TokenTree

MCTools == {"parse", "plan"}
MCCaps == {"python", "io"}
MCRoot == [budget |-> 2, tools |-> {"parse"}, caps |-> {"python"}]
MCRequests == {[budget |-> 1, tools |-> {"parse"}, caps |-> {"python"}],
               [budget |-> 3, tools |-> {"plan"}, caps |-> {"python", "io"}]}
MCToolboxes == {MCTools}
=============================================================================

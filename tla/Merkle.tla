-------------------------------- MODULE Merkle --------------------------------
(***************************************************************************)
(* The Merkle root that the agent's evidence chain                         *)
(* (tools/hpl-agent/hpl_agent/ci/merkle.py) and the anchors of a bundle    *)
(* (tools/anchor_generator.py, tools/verify_anchor.py) compute.  A hash is *)
(* a structure: of a leaf the leaf in a sequence of one, of a pair the     *)
(* pair, so equal hashes have equal preimages.                             *)
(***************************************************************************)
EXTENDS Naturals, Sequences

Hash(leaf) == <<leaf>>

(* The root of no leaves at all.                                           *)
EmptyRoot == <<>>

(* One level up: neighbours are paired, the last of an odd level with      *)
(* itself.                                                                 *)
Up(level) ==
    [i \in 1..((Len(level) + 1) \div 2) |->
        LET left == 2 * i - 1
        IN  <<level[left],
              IF left = Len(level) THEN level[left] ELSE level[left + 1]>>]

(* All levels of a tree over hashed leaves, and its root.                  *)
Levels(leaves) ==
    LET level[k \in Nat] == IF k = 0 THEN [i \in DOMAIN leaves |-> Hash(leaves[i])]
                            ELSE Up(level[k - 1])
    IN  level

Root(leaves) ==
    IF leaves = <<>> THEN EmptyRoot
    ELSE LET levels == Levels(leaves)
             top    == CHOOSE k \in 0..Len(leaves) : Len(levels[k]) = 1
         IN  levels[top][1]
===============================================================================

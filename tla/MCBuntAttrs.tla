----------------------------- MODULE MCBuntAttrs -----------------------------
(* Values for the constants of BuntAttrs.  The last answer, and the undo    *)
(* record once no batch is under way, are no part of what comes next.       *)
EXTENDS BuntAttrs, TLC

CONSTANTS card1, card2, u1, u2

MCOwnerOf == [id \in Ids |-> IF id \in {card1, card2} THEN u1 ELSE u2]

Symmetry == Permutations({card1, card2}) \cup Permutations(Names)

View == <<attr, ownerKeys, nameKeys, bind, revKeys, tx, clashed,
          IF tx = "none" THEN NoId ELSE undo>>
=============================================================================

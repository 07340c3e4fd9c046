----------------------------- MODULE AttrsItems -----------------------------
(* What both stores of attribute cards, and the promise, speak of. *)
CONSTANTS
  Ids, Owners, Names, Groups,
  OwnerOf,   \* the user each card was created for
  NoOwner,   \* OwnerId "", of a card LoadById made up
  NoName,    \* Name "", of the same
  NoId,      \* attrs id "": nothing bound, nothing found
  Absent     \* no such item

ASSUME OwnersAssumption == OwnerOf \in [Ids -> Owners] /\ NoOwner \notin Owners
ASSUME NoNameAssumption == NoName \notin Names
ASSUME NoIdAssumption   == NoId \notin Ids

\* What the store keeps of a card, beside data no operation here depends on.
Items == [owner : Owners \cup {NoOwner}, name : Names \cup {NoName}]

ASSUME AbsentAssumption == Absent \notin Items

\* A card as Puts gets it: CharNew's with owner and name, or LoadById's without owner.
Params(id) == [owner : {OwnerOf[id]}, name : Names] \cup [owner : {NoOwner}, name : Names \cup {NoName}]

\* No card's record: persistAttr is told of no earlier owner and name.
NoRecord == [owner |-> NoOwner, name |-> NoName]
=============================================================================

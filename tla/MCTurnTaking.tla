--------------------------- MODULE MCTurnTaking ---------------------------
(* Up to three processes; two of them write the same character.            *)
EXTENDS TurnTaking, TLC

CONSTANTS a, b, c

MCCharOf == (a :> "A") @@ (b :> "B") @@ (c :> "A")
MCNumLoop == (a :> 2) @@ (b :> 2) @@ (c :> 1)
=============================================================================

---------------------------- MODULE MCCheatBook -----------------------------
(***************************************************************************)
(* The engine's small decks for the book of cheats.                        *)
(***************************************************************************)
EXTENDS MCDurakEngine, CheatBook
=============================================================================

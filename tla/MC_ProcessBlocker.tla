------------------------- MODULE MC_ProcessBlocker -------------------------
(* Small instances of ProcessBlocker for TLC: a game, an editor and a      *)
(* system program; the user writes their names as he likes.                *)
EXTENDS ProcessBlocker

CONSTANTS p1, p2

MCPrograms == {"Game.exe", "editor.exe", "system.exe"}
MCKillLists == {{}, {"game.EXE"}, {"game.EXE", "System.exe"}}
=============================================================================

--------------------------- MODULE MC_Lifecycle ---------------------------
(* Small instances of Lifecycle for TLC: two names that are counted as     *)
(* one, another one, and one that is noise.  A tilde stands for a byte     *)
(* that is not UTF-8.                                                      *)
EXTENDS Lifecycle

MCNames == {"www.youtube.com", "i.ytimg.com", "~Games.com", "update.microsoft.com"}
=============================================================================

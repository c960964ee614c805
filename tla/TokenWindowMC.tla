---------------------------- MODULE TokenWindowMC ----------------------------
(* TokenWindow in small: a context of 16 tokens stands for 4097, so that   *)
(* three exchanges are enough to overflow the window.                      *)
EXTENDS TokenWindow

MCSettings == {3, 6}
MCSizes == {1, 2, 4}
=============================================================================

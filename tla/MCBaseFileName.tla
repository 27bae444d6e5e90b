--------------------------- MODULE MCBaseFileName ---------------------------
(* Every name of up to four characters, and what may follow it on the      *)
(* stack.                                                                  *)
EXTENDS BaseFileName

MCFileNames == {s \in [Index -> Char] : \E k \in Index : s[k] = "NUL"}
=============================================================================

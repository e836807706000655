------------------------------ MODULE MCBinsort -----------------------------
(***************************************************************************)
(* Binsort with few workers and files.  Of the arguments, "1" may be a     *)
(* number of workers or a quality, "-8" neither, and the others are no     *)
(* numbers; any of them may be the name of a directory.                    *)
(***************************************************************************)
EXTENDS Binsort

EveryWord == {"-o", "-t", "-q", "-h", "1", "-8", "dir"}
OneDirectory == {"dir"}

AtoiOf == [word \in ArgWords |-> CASE word = "1" -> 1
                                   [] word = "-8" -> -8
                                   [] OTHER -> 0]
=============================================================================

----------------------------- MODULE MCFileData -----------------------------
(***************************************************************************)
(* A directory and writers for the model of the boot and of files in use.  *)
(***************************************************************************)
EXTENDS FileData

CONSTANTS u1, u2

\* Two answers, with the directories themselves and an old swap file among them.
TwoPages == <<{".", "..", "a"}, {"sosh", "swap"}>>

\* u1 writes the file that is there, u2 the one that it creates.
OneWriter == [n \in {"a", "new"} |-> IF n = "new" THEN u2 ELSE u1]

OneOpener == [n \in {"a", "new"} |-> IF n = "new" THEN {u2} ELSE {}]

\* Both create the new file.
BothCreate == [OneOpener EXCEPT !["new"] = {u1, u2}]

\* u1 opens the file that is there before it has been looked up.
OpensEarly == [OneOpener EXCEPT !["a"] = {u1}]
=============================================================================

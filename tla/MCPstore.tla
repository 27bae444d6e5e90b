------------------------------ MODULE MCPstore ------------------------------
(* A small instance of PstoreClean: two dumps of one kind around a kept    *)
(* and a moved one.  A discarded dump takes the path of a moved one whose  *)
(* destination cannot be opened.                                           *)
EXTENDS PstoreClean

MCBase == <<11, 12, 13, 11>>
MCRules == [b \in {12, 13} |-> IF b = 12 THEN "keep" ELSE "move"]

AllFaults == {"mount", "fopen", "opendir", "readdir", "stat", "rmdst", "scandir",
              "openmove", "opendst", "copy", "unlink", "umount", "rmdir"}
=============================================================================

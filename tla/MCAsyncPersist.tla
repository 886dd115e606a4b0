--------------------------- MODULE MCAsyncPersist ---------------------------
(* Instances of AsyncPersist for TLC. *)
EXTENDS AsyncPersistProperties, TLC

CONSTANTS ParseTrouble, RecordTrouble, ToolsTrouble

TroubleOf == [r \in Records |-> CASE r \in ParseTrouble  -> "parse"
                                  [] r \in RecordTrouble -> "record"
                                  [] r \in ToolsTrouble  -> "tools"
                                  [] OTHER               -> "none"]

Symmetry == Permutations(Pods)
=============================================================================

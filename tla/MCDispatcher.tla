---------------------------- MODULE MCDispatcher ----------------------------
(* Dispatcher on two findings, one of which may open twice, for TLC. *)
EXTENDS Dispatcher

CONSTANTS f1, f2

MCMaxChanges ==
  [k \in Keys |-> IF k = [fp |-> f2, kind |-> "opened"] THEN 2 ELSE 1]
=============================================================================

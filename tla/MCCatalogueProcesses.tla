----------------------- MODULE MCCatalogueProcesses -----------------------
(***************************************************************************)
(* Two processes: one of a release with two migrations, one of an older    *)
(* release that knows only the first.                                      *)
(***************************************************************************)
EXTENDS CatalogueProcesses

CONSTANTS app, old

MCProc == {app, old}
MCRelease == [p \in MCProc |-> IF p = old THEN 1 ELSE 2]
=============================================================================

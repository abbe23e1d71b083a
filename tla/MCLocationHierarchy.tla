------------------------ MODULE MCLocationHierarchy -------------------------
(***************************************************************************)
(* All tables of up to four rows over three locations, one id of which may *)
(* have no row: self-parents, two- and three-cycles, chains into a cycle,  *)
(* missing parents, repeated ids with and without parents.                 *)
(***************************************************************************)
EXTENDS LocationHierarchy

CONSTANT MaxRows

MCExports == UNION {[1 .. n -> Row] : n \in 0 .. MaxRows}
=============================================================================

------------------------------ MODULE MCSnoop ------------------------------
(* Small instances of Snoop.                                               *)
EXTENDS Snoop

CONSTANT rpm

OneTable == {rpm}
=============================================================================

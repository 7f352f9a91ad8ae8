------------------------- MODULE MCFieldExclusivity -------------------------
(* Nine Fields that may exist, one after the other or, were they allowed,   *)
(* at the same time.                                                       *)
EXTENDS FieldExclusivity

MCFields == 1..9
MCRoot   == 0
=============================================================================

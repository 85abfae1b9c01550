--------------------------- MODULE MCIdentityStore ---------------------------
(* TLC instances of IdentityStore; identifiers are model values. *)
EXTENDS IdentityStore

==============================================================================

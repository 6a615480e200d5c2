------------------------------ MODULE MCPaging ------------------------------
(* The instance of Paging for TLC. *)
EXTENDS Paging
=============================================================================

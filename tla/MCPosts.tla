------------------------------ MODULE MCPosts ------------------------------
(* Instances of Posts for TLC. *)
EXTENDS Posts

CONSTANTS p2, u, v

\* The second post is user v's; every other request is user u's.
TwoAuthors == [r \in Reqs |-> IF r = p2 THEN v ELSE u]
=============================================================================

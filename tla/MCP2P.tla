----------------------------------- MODULE MCP2P -----------------------------------
(* Two nodes that have each other in their configuration, with up to three connections *)
(* between them, or two and two messages of one node; one fault.                       *)
EXTENDS P2P

CONSTANTS n1, n2

MCNodes == {n1, n2}
====

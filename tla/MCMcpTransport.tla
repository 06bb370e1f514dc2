--------------------------- MODULE MCMcpTransport ---------------------------
(***************************************************************************)
(* Instances of McpTransport for TLC: two tasks on one transport.          *)
(***************************************************************************)
EXTENDS McpTransport

CONSTANTS t1, t2        \* model values

MCCallers == {t1, t2}
=============================================================================

---------------------------- MODULE MCMcpGateway ----------------------------
(***************************************************************************)
(* Two instances.  At the start there is the server of the file.           *)
(***************************************************************************)
EXTENDS McpGateway, TLC

CONSTANTS wide, ours, ax, ay, reader, c1, c2, i1, i2

GlobalServer == (wide :> [ServerRow(ax, "global") EXCEPT !.yaml = TRUE]) @@ (ours :> None)

NoneBlocked == {}

CallerAt == (c1 :> {i1}) @@ (c2 :> {i1, i2})
=============================================================================

-------------------------------- MODULE MCMcp --------------------------------
(***************************************************************************)
(* Clients of either style and pipes that hold one item.  A client sends   *)
(* two items of any kind, or something that is not a request and two       *)
(* requests after it.                                                      *)
(***************************************************************************)
EXTENDS McpProxy

MCSessions ==
  {<<a, b>> : a \in ItemKinds, b \in ItemKinds} \cup
  {<<a, "call", "request">> : a \in {"notification", "batch", "stray"}}

==============================================================================

---------------------------- MODULE MCPanelLogin ----------------------------
(* The panel with an administrator and one more account. *)
EXTENDS PanelLogin

CONSTANTS admin, bob

MCLogins == {admin, bob}
MCFirst == <<admin, bob>>
MCBounds == [on \in BOOLEAN |-> IF on THEN 0 ELSE 2]
==============================================================================

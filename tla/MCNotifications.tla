--------------------------- MODULE MCNotifications ---------------------------
(* Model-checking instance of Notifications: two alerts of one key and a     *)
(* forced one (a page for an approval).                                      *)
EXTENDS Notifications

AlertSet == {"fire", "fire again", "approval"}
KeyMap == [a \in AlertSet |-> IF a = "approval" THEN "soar" ELSE "fire"]
=============================================================================

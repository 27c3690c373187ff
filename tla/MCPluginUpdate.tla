--------------------------- MODULE MCPluginUpdate ---------------------------
(* PluginUpdate on small instances.                                        *)
EXTENDS PluginUpdate

CONSTANTS alpha, beta

User(plugin) == [plugin |-> plugin, scope |-> "user"]
Local(plugin) == [plugin |-> plugin, scope |-> "local"]

(* A plugin listed twice behind another one, and one listed by another     *)
(* project before it is listed by the user.                                *)
SmallListings ==
  {<<User(alpha), User(beta), User(beta)>>, <<Local(alpha), User(alpha)>>}

=============================================================================

--------------------------- MODULE MCPreferences ---------------------------
(* Preferences on small instances.                                         *)
EXTENDS Preferences

CONSTANTS work, play, short, long, endAnyway

Body(show, hide, timeout, policy) ==
  [show |-> show, hide |-> hide, timeout |-> timeout, policy |-> policy]

(* Two that fight over one root, two over the wait, one of them a body of  *)
(* several choices, and one that is refused for one of its own.            *)
SmallPatches ==
  {Body({work}, {}, None, None), Body({}, {work}, None, None),
   Body({}, {}, short, None), Body({}, {play}, long, endAnyway),
   Body({}, {work}, Invalid, None)}

Says(file, configured, enabled, pinned) ==
  [file |-> file, configured |-> configured, enabled |-> enabled, pinned |-> pinned]

(* Both roots; one of them dropped; one disabled and the policy pinned.    *)
SmallOperators ==
  {Says(TRUE, {work, play}, {work, play}, {}),
   Says(FALSE, {work}, {work}, {}),
   Says(TRUE, {work, play}, {work}, {"policy"})}
=============================================================================

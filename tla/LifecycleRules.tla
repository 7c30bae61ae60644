---------------------------- MODULE LifecycleRules ----------------------------
(***************************************************************************)
(* The states of a relationship's lifecycle: which transitions may follow  *)
(* which, and which capabilities each permits (types.py, governance.py).   *)
(***************************************************************************)

States == {"FORMING", "ACTIVE", "RESTING", "DORMANT", "RENEWING", "TRANSFORMING",
           "DISSOLVING", "DISSOLVED"}

Capability == {"STORE", "READ", "DISCLOSE", "DERIVE", "ACT", "DELEGATE"}

\* require_lifecycle_transition
Successors(s) ==
    CASE s = "FORMING"      -> {"ACTIVE", "DISSOLVING"}
      [] s = "ACTIVE"       -> {"RESTING", "RENEWING", "TRANSFORMING", "DISSOLVING"}
      [] s = "RESTING"      -> {"ACTIVE", "DORMANT", "DISSOLVING"}
      [] s = "DORMANT"      -> {"RENEWING", "DISSOLVING"}
      [] s = "RENEWING"     -> {"ACTIVE", "TRANSFORMING", "DISSOLVING"}
      [] s = "TRANSFORMING" -> {"ACTIVE", "RESTING", "DISSOLVING"}
      [] s = "DISSOLVING"   -> {"ACTIVE", "DISSOLVED"}
      [] s = "DISSOLVED"    -> {}

\* require_lifecycle_capability
Permitted(s) ==
    CASE s \in {"FORMING", "ACTIVE", "RENEWING", "TRANSFORMING"} -> Capability
      [] s = "RESTING"                  -> {"READ", "STORE"}
      [] s \in {"DORMANT", "DISSOLVING"} -> {"READ"}
      [] s = "DISSOLVED"                -> {}

=============================================================================

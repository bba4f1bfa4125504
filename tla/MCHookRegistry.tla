--------------------------- MODULE MCHookRegistry ---------------------------
(* Both tiers.  Tier 1: two addresses, two records of two observers, two mods *)
(* and one worker; Tier 2: two addresses and three typed hooks.  An address   *)
(* has one tier and neither touches the state of the other, so a behaviour is *)
(* of the one or of the other.                                                *)
EXTENDS HookRegistry, TypedHooks, TLC

VARIABLE tier

Interchangeable == Permutations(VA) \cup Permutations(Mods) \cup Permutations(TypedVA)

HooksNext == \/ tier = 1 /\ Next /\ UNCHANGED <<tier, typedVars>>
             \/ tier = 2 /\ TypedNext /\ UNCHANGED <<tier, vars>>

HooksInit == Init /\ TypedInit /\ tier \in {1, 2}

Hooks == HooksInit /\ [][HooksNext]_<<tier, vars, typedVars>>
=============================================================================

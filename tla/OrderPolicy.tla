---------------------------- MODULE OrderPolicy ----------------------------
(***************************************************************************)
(* The decision of the order policy engine                                 *)
(* (src/schwab_cli/order_policy/decision.py, conditions.py): a profile is  *)
(* a list of allow and deny policies; a policy applies to the orders its   *)
(* match clause selects and is satisfied when all its conditions hold.     *)
(*                                                                         *)
(* Abstractions: an order is its shape, and a match clause the set of      *)
(* shapes it selects.  The numeric operators are "lt" and "gte".  A        *)
(* condition, a tree of and / or / not over predicates, is its disjunctive *)
(* normal form, a set of clauses, each a set of literals.  The order of    *)
(* the policies in the file only selects the name that is reported, so a   *)
(* profile holds a set of them.                                            *)
(***************************************************************************)
EXTENDS Naturals

CONSTANTS
    Shapes,         \* the orders as policies and Schwab's order list tell them apart
    Unknown         \* a field whose data source could not be read

ASSUME UnknownAssumption == Unknown \notin Nat

\* Two of the fields a condition may name: one comes from the counters file,
\* one from the answer of previewOrder.
Fields == {"daily_order_count", "bp_required"}

Literal == [field : Fields, op : {"lt", "gte"}, bound : Nat, negated : BOOLEAN]
Policy  == [enabled : BOOLEAN, effect : {"allow", "deny"}, match : SUBSET Shapes,
            conditions : SUBSET SUBSET SUBSET Literal]
Profile == [policies : SUBSET Policy, default_action : {"allow", "deny"}]

\* What the field provider returns for each field.
Environment == [Fields -> Nat \cup {Unknown}]

-----------------------------------------------------------------------------
(* An unevaluatable field fails its predicate; a `not` above it then holds. *)

Predicate(l, env) ==
    /\ env[l.field] # Unknown
    /\ IF l.op = "lt" THEN env[l.field] < l.bound ELSE env[l.field] >= l.bound

Holds(l, env) == Predicate(l, env) # l.negated

Satisfied(p, env) ==
    \A condition \in p.conditions :
        \E clause \in condition : \A l \in clause : Holds(l, env)

Matched(profile, shape, effect) ==
    {p \in profile.policies : p.enabled /\ shape \in p.match /\ p.effect = effect}

(* Phase A: a satisfied deny rejects; B: an allow whose conditions fail      *)
(* rejects; C: a satisfied allow approves; D: the default decides.           *)
Phase(profile, shape, env) ==
    LET allows == Matched(profile, shape, "allow")
        denies == Matched(profile, shape, "deny")
    IN  IF \E p \in denies : Satisfied(p, env) THEN "A"
        ELSE IF \E p \in allows : ~Satisfied(p, env) THEN "B"
        ELSE IF allows # {} THEN "C" ELSE "D"

Approved(profile, shape, env) ==
    LET phase == Phase(profile, shape, env)
    IN  phase = "C" \/ (phase = "D" /\ profile.default_action = "allow")

-----------------------------------------------------------------------------
(* What a profile promises its author: no deny that applies, and every     *)
(* allow that applies holds; without an allow, the default decides.        *)
Permits(profile, shape, env) ==
    /\ \A p \in profile.policies :
          (p.enabled /\ shape \in p.match) => (Satisfied(p, env) <=> p.effect = "allow")
    /\ \/ profile.default_action = "allow"
       \/ \E p \in profile.policies :
             p.enabled /\ shape \in p.match /\ p.effect = "allow"
=============================================================================

-------------------------- MODULE MCMemoryManager --------------------------
(* MemoryManager with interchangeable requests and contents. *)
EXTENDS MemoryManager, Integers, FiniteSets, TLC

Symmetry == Permutations(Actor) \cup Permutations(RuleText) \cup Permutations(FactText)

Rules == {key \in Key : IsRule(key) /\ repository[key] # None}
Facts == {key \in Key : ~IsRule(key) /\ repository[key] # None}
Loads == {a \in Actor : "load" \in DOMAIN call[a]}

(* Bound: rules and facts, which meet only in what a load adds up, are       *)
(* explored one at a time, facts with every kind of model, and rules with    *)
(* several contents without loads.                                           *)
Bound ==
    /\ Rules # {} => Facts = {} /\ model = "fixed"
    /\ Cardinality({repository[key].content : key \in Rules}) > 1 => Loads = {}
=============================================================================

----------------------------- MODULE RuleTrees -----------------------------
(***************************************************************************)
(* The values magefiles/rulesengine builds its catalogs from: conditions,  *)
(* the filters Any, All and None, and rules.  A Rule is a Conditional too, *)
(* so a rule may be a child of a filter (a rule chain).  ConditionFuncs    *)
(* and ActionFuncs are named; what they do is in the catalog modules.      *)
(* The filters of the code have no name: theirs is the one of the rule     *)
(* they are written in.                                                    *)
(***************************************************************************)
EXTENDS Naturals, Sequences

ConditionFunc(name) ==
    [op |-> "cond", name |-> name, kids |-> <<>>, actions |-> <<>>]

Any(name, kids) == [op |-> "any", name |-> name, kids |-> kids, actions |-> <<>>]

All(name, kids) == [op |-> "all", name |-> name, kids |-> kids, actions |-> <<>>]

None(name, kids) == [op |-> "none", name |-> name, kids |-> kids, actions |-> <<>>]

Rule(name, condition, actions) ==
    [op |-> "rule", name |-> name, kids |-> <<condition>>, actions |-> actions]

\* The ways a ConditionFunc or an ActionFunc may end.
Answer(ok, x) == [ok |-> ok, err |-> FALSE, ctx |-> x]

Fails(x) == [ok |-> FALSE, err |-> TRUE, ctx |-> x]

Succeeds(x) == Answer(TRUE, x)
=============================================================================

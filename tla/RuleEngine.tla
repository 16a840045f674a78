----------------------------- MODULE RuleEngine -----------------------------
(***************************************************************************)
(* The rule engine of magefiles/rulesengine/types.go: runLoadedCatalog     *)
(* evaluates every rule of the loaded catalogs and then applies the ones   *)
(* that matched.  Check of a filter calls Check of its children, and Check *)
(* of a Rule also applies the rule, so that evaluating a condition changes *)
(* the RuleCtx.  The Go call stack is the variable stack (top first); one  *)
(* step is one iteration of the loop of the function on its top.           *)
(***************************************************************************)
EXTENDS RuleTrees

CONSTANTS
    Check(_, _),    \* the outcomes of a named ConditionFunc in a RuleCtx
    Execute(_, _),  \* the outcomes of a named ActionFunc in a RuleCtx
    RulesOf(_)      \* the rules of a named catalog

VARIABLES
    ctx,        \* the RuleCtx, with the environment the functions change
    catalogs,   \* the catalogs of the category that are still to be loaded
    loaded,     \* rules of the current catalog that are still to be evaluated
    pc,         \* "load", "eval", "apply" or "done"
    stack,      \* the Check calls in progress
    ret,        \* what the call that just returned answered
    matched,    \* the matched rules that are still to be applied
    act,        \* index of the next action of the first of them
    result

vars == <<ctx, catalogs, loaded, pc, stack, ret, matched, act, result>>

Frame(node) == [node |-> node, i |-> 1, isAny |-> FALSE]

\* x: the RuleCtx; cs: the names of the catalogs RunRules or
\* RunRulesOfCategory loads.
StartWith(x, cs) ==
    /\ ctx = x
    /\ catalogs = cs
    /\ loaded = <<>>
    /\ pc = "load"
    /\ stack = <<>>
    /\ ret = "none"
    /\ matched = <<>>
    /\ act = 1
    /\ result = "none"

Top == Head(stack)

Running(op) == pc = "eval" /\ stack # <<>> /\ Top.node.op = op

Finish(res) ==
    /\ pc' = "done"
    /\ result' = res

Answered(b) == IF b THEN "true" ELSE "false"

\* The function on the top of the stack returns b to its caller.
Return(b) ==
    /\ stack' = Tail(stack)
    /\ ret' = Answered(b)

\* The function on the top of the stack, its frame now f, calls Check of node.
Call(f, node) ==
    /\ stack' = <<Frame(node), f>> \o Tail(stack)
    /\ ret' = "none"

NextKid(f) == [f EXCEPT !.i = @ + 1]

ConditionFuncCheck ==
    /\ Running("cond")
    /\ \E o \in Check(Top.node.name, ctx) :
        /\ ctx' = o.ctx
        /\ \/ o.err /\ Finish("error") /\ UNCHANGED <<stack, ret>>
           \/ ~o.err /\ Return(o.ok) /\ UNCHANGED <<pc, result>>
    /\ UNCHANGED <<catalogs, loaded, matched, act>>

\* Mutant: Any stops at the first true child.
AnyCheckStopsEarly ==
    /\ Running("any")
    /\ IF Top.i <= Len(Top.node.kids) /\ ret # "true"
         THEN Call(NextKid(Top), Top.node.kids[Top.i])
         ELSE Return(ret = "true")
    /\ UNCHANGED <<ctx, catalogs, loaded, pc, matched, act, result>>

\* Any does not stop at the first true child.
AnyCheck ==
    /\ Running("any")
    /\ LET f == [Top EXCEPT !.isAny = IF ret = "true" THEN TRUE ELSE @]
       IN IF Top.i <= Len(Top.node.kids)
            THEN Call(NextKid(f), Top.node.kids[Top.i])
            ELSE Return(f.isAny)
    /\ UNCHANGED <<ctx, catalogs, loaded, pc, matched, act, result>>

\* All stops at the first false child.
AllCheck ==
    /\ Running("all")
    /\ IF Top.i <= Len(Top.node.kids) /\ ret # "false"
         THEN Call(NextKid(Top), Top.node.kids[Top.i])
         ELSE Return(ret # "false")
    /\ UNCHANGED <<ctx, catalogs, loaded, pc, matched, act, result>>

\* None stops at the first true child.
NoneCheck ==
    /\ Running("none")
    /\ IF Top.i <= Len(Top.node.kids) /\ ret # "true"
         THEN Call(NextKid(Top), Top.node.kids[Top.i])
         ELSE Return(ret # "true")
    /\ UNCHANGED <<ctx, catalogs, loaded, pc, matched, act, result>>

\* Rule.Check: Eval the condition ...
RuleEval ==
    /\ Running("rule")
    /\ Top.i = 1
    /\ Call(NextKid(Top), Top.node.kids[1])
    /\ UNCHANGED <<ctx, catalogs, loaded, pc, matched, act, result>>

RuleNotMatched ==
    /\ Running("rule")
    /\ Top.i > 1
    /\ ret = "false"
    /\ Return(FALSE)
    /\ UNCHANGED <<ctx, catalogs, loaded, pc, matched, act, result>>

\* ... and then Apply or DryRun the rule: both execute its actions in order.
RuleApply ==
    /\ Running("rule")
    /\ Top.i > 1
    /\ ret = "true"
    /\ LET actions == Top.node.actions
       IN IF Top.i - 1 <= Len(actions)
            THEN \E o \in Execute(actions[Top.i - 1], ctx) :
                    /\ ctx' = o.ctx
                    /\ \/ o.err /\ Finish("error") /\ UNCHANGED stack
                       \/ /\ ~o.err
                          /\ stack' = <<NextKid(Top)>> \o Tail(stack)
                          /\ UNCHANGED <<pc, result>>
                    /\ UNCHANGED ret
            ELSE Return(TRUE) /\ UNCHANGED <<ctx, pc, result>>
    /\ UNCHANGED <<catalogs, loaded, matched, act>>

-----------------------------------------------------------------------------
(* runLoadedCatalog.                                                       *)

\* The engine is a map of maps: the catalogs come in any order.
LoadCatalog ==
    /\ pc = "load"
    /\ loaded = <<>>
    /\ \E c \in catalogs : loaded' = RulesOf(c) /\ catalogs' = catalogs \ {c}
    /\ UNCHANGED <<ctx, pc, stack, ret, matched, act, result>>

\* rule.Eval: the condition of the rule, not the rule itself, is checked.
EvalRule ==
    /\ pc = "load"
    /\ loaded # <<>>
    /\ pc' = "eval"
    /\ stack' = <<Frame(Head(loaded).kids[1])>>
    /\ ret' = "none"
    /\ UNCHANGED <<ctx, catalogs, loaded, matched, act, result>>

\* A rule chain has no actions: when it matched, it was applied, and whatever
\* matched before it is dropped.
Evaluated ==
    /\ pc = "eval"
    /\ stack = <<>>
    /\ loaded' = Tail(loaded)
    /\ LET rule == Head(loaded)
       IN IF rule.actions = <<>>
            THEN /\ IF ret = "true" THEN Finish("nil")
                                    ELSE pc' = "load" /\ UNCHANGED result
                 /\ UNCHANGED matched
            ELSE /\ matched' = IF ret = "true" THEN Append(matched, rule) ELSE matched
                 /\ pc' = "load"
                 /\ UNCHANGED result
    /\ UNCHANGED <<ctx, catalogs, stack, ret, act>>

AllEvaluated ==
    /\ pc = "load"
    /\ loaded = <<>>
    /\ catalogs = {}
    /\ IF matched = <<>> THEN Finish("nil") ELSE pc' = "apply" /\ UNCHANGED result
    /\ UNCHANGED <<ctx, catalogs, loaded, stack, ret, matched, act>>

\* run and dryRun: execute the next action of the first matched rule.
ExecuteAction ==
    /\ pc = "apply"
    /\ act <= Len(Head(matched).actions)
    /\ \E o \in Execute(Head(matched).actions[act], ctx) :
        /\ ctx' = o.ctx
        /\ \/ o.err /\ Finish("error") /\ UNCHANGED act
           \/ ~o.err /\ act' = act + 1 /\ UNCHANGED <<pc, result>>
    /\ UNCHANGED <<catalogs, loaded, stack, ret, matched>>

\* dryRun returns after the first matched rule, run goes on.
RuleDone ==
    /\ pc = "apply"
    /\ act > Len(Head(matched).actions)
    /\ act' = 1
    /\ matched' = Tail(matched)
    /\ IF ctx.DryRun \/ Tail(matched) = <<>> THEN Finish("nil") ELSE UNCHANGED <<pc, result>>
    /\ UNCHANGED <<ctx, catalogs, loaded, stack, ret>>

Next ==
    \/ ConditionFuncCheck
    \/ AnyCheck
    \/ AllCheck
    \/ NoneCheck
    \/ RuleEval
    \/ RuleNotMatched
    \/ RuleApply
    \/ LoadCatalog
    \/ EvalRule
    \/ Evaluated
    \/ AllEvaluated
    \/ ExecuteAction
    \/ RuleDone
=============================================================================

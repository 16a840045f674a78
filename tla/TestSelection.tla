--------------------------- MODULE TestSelection ---------------------------
(***************************************************************************)
(* RunRules(rctx, "tests", catalog) of magefiles/magefile.go: the preview  *)
(* of the tests a change to this repository selects (PreviewTestSelection) *)
(* and the tests of a pull request to infra-deployments (RunE2ETests and   *)
(* RunInfraDeploymentsRuleDemo).                                           *)
(***************************************************************************)
EXTENDS MageEngine

CONSTANT MaxDiff   \* bound on the kinds of changed files, by catalog

ASSUME MaxDiffAssumption == MaxDiff \in [{"e2e-repo", "infra-deployments"} -> Nat]

Files(catalog) == IF catalog = "e2e-repo" THEN E2EFiles ELSE InfraFiles

Diffs(catalog) == {d \in SUBSET Files(catalog) : Cardinality(d) <= MaxDiff[catalog]}

SelectionCtx(catalog, dryRun, diff) ==
    [NewRuleCtx(catalog, IF catalog = "e2e-repo" THEN "" ELSE catalog, diff)
        EXCEPT !.DryRun = dryRun, !.DiffFiles = diff]

\* The preview of the e2e-repo catalog is always a dry run.
SelectionInit ==
    \E catalog \in DOMAIN MaxDiff, dryRun \in BOOLEAN : \E diff \in Diffs(catalog) :
        /\ catalog = "e2e-repo" => dryRun
        /\ Engine!StartWith(SelectionCtx(catalog, dryRun, diff), {catalog})

\* One mage process evaluates the rules.
SelectionSpec == SelectionInit /\ [][Next]_vars

-----------------------------------------------------------------------------
(* Properties.                                                             *)

LastRun == ctx.runs[Len(ctx.runs)]

\* The conditions of the catalog are exclusive and together exhaustive, although
\* they are nested and change the context while they are evaluated: a run of the
\* rules starts ginkgo at most once, and exactly once when it returns nil, but
\* not for an empty change to infra-deployments.
ExactlyOneTestRun ==
    LET nothingToTest == ctx.catalog = "infra-deployments" /\ ctx.DiffFiles = {}
    IN /\ Len(ctx.runs) <= (IF nothingToTest THEN 0 ELSE 1)
       /\ result = "nil" /\ ~nothingToTest => Len(ctx.runs) = 1

\* A changed spec file of the release, demo, integration and enterprise contract
\* suites is selected by the run when only test files changed.
ChangedTestsSelected ==
    Len(ctx.runs) = 1 /\ ~Changed(ctx, SharedFiles) =>
        \A f \in ctx.DiffFiles \cap (ReleaseTests \cup DemoTests \cup IntegrationTests \cup EcFiles) :
            Selects(LastRun, f, IF f \in ReleasePipelines THEN {"release-pipelines"} ELSE {})

\* The label filter of a run for infra-deployments names the suites of exactly
\* the changed components, whatever labels contain each other, and konflux.
ChangedComponentsTested ==
    ctx.catalog = "infra-deployments" /\ Len(ctx.runs) = 1 =>
        LastRun.filter = Filter({"konflux"} \cup {LabelOf(c) : c \in {d \in InfraConditions : InfraHolds(d, ctx)}}, {})
=============================================================================

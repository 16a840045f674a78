---------------------------- MODULE PipelineRuns ----------------------------
(***************************************************************************)
(* The PipelineRun objects of one Component as the clients in              *)
(* pkg/clients/has and pkg/clients/tekton see them through the Kubernetes  *)
(* API: they are created by Pipelines-as-Code (PaC) or by the build        *)
(* service from a pending trigger, they run, finish, are pruned, and they  *)
(* stay visible while a finalizer blocks their removal.  Everything here   *)
(* is external to the repository; it is modelled from the way              *)
(* pkg/clients/has/components.go and tests/build/build_templates.go use it.*)
(***************************************************************************)
EXTENDS Naturals

CONSTANTS
    Runs,          \* names of the PipelineRuns, in the order List returns them
    PaC,           \* TRUE: runs are managed by PaC; FALSE: simple builds
    InitialEvent,  \* PaC event type of the first run
    MaxCommits     \* bound on the commits of the branch under test

ASSUME RunsAssumption == Runs \subseteq Nat
ASSUME PaCAssumption == PaC \in BOOLEAN
ASSUME EventAssumption == InitialEvent \in {"pull_request", "push", "incoming"}
ASSUME MaxCommitsAssumption == MaxCommits \in Nat \ {0}

VARIABLES
    plr,       \* the PipelineRun objects
    pending,   \* triggers no PipelineRun was created for yet
    commits    \* commits of the branch; commit n has sha n

clusterVars == <<plr, pending, commits>>

NoSha == 0     \* the empty sha: no label on a run, no filter in a query

AnyEvent == "" \* the empty event-type filter

\* "flaked" stands for a failed run whose reason is CouldntGetTask or
\* TaskRunImagePullFailed, "failed" for a run that failed for another reason.
Phases == {"running", "succeeded", "failed", "flaked"}

Events == {"pull_request", "push", "incoming", "simple"}

\* "e2e-test" is E2ETestFinalizerName, "ctl" a finalizer of some controller.
Finalizers == {"e2e-test", "ctl"}

Triggers == [sha : Nat, event : Events]

RunObjects ==
    [st : {"none", "live", "terminating", "gone"}, phase : Phases,
     sha : Nat, event : Events, fin : SUBSET Finalizers]

Listed(r) == plr[r].st \in {"live", "terminating"}

\* A push to the branch of a pull request yields pull_request events, a push
\* to the target branch yields push events, also after an "incoming" webhook.
PushEvent(event) == IF event = "pull_request" THEN "pull_request" ELSE "push"

\* PaC names runs "<component>-on-pull-request-" or "<component>-on-push-".
GenerateName(event) ==
    CASE event = "pull_request" -> "on-pull-request"
      [] event = "simple" -> "component"
      [] OTHER -> "on-push"

FirstTrigger ==
    IF PaC THEN [sha |-> 1, event |-> InitialEvent]
           ELSE [sha |-> NoSha, event |-> "simple"]

ClusterInit ==
    /\ plr = [r \in Runs |-> [st |-> "none", phase |-> "running", sha |-> NoSha,
                              event |-> "simple", fin |-> {}]]
    /\ pending = {FirstTrigger}
    /\ commits = 1

\* The object as the API server keeps it once its finalizers are fin: a
\* terminating object without finalizers is removed.
WithFinalizers(o, fin) ==
    [o EXCEPT !.fin = fin,
              !.st = IF o.st = "terminating" /\ fin = {} THEN "gone" ELSE @]

\* A DELETE request removes the object, or marks it while finalizers remain.
Deleted(o) ==
    [o EXCEPT !.st = IF o.fin = {} THEN "gone" ELSE "terminating"]

\* PaC or the build service creates a run, with a random name, for a trigger.
CreateRun(r) ==
    /\ plr[r].st = "none"
    /\ \E t \in pending, fin \in SUBSET {"ctl"} :
        /\ plr' = [plr EXCEPT ![r] = [st |-> "live", phase |-> "running",
                                      sha |-> t.sha, event |-> t.event,
                                      fin |-> fin]]
        /\ pending' = pending \ {t}
    /\ UNCHANGED commits

\* Tekton finishes a run.
FinishRun(r) ==
    /\ Listed(r)
    /\ plr[r].phase = "running"
    /\ \E p \in Phases \ {"running"} : plr' = [plr EXCEPT ![r].phase = p]
    /\ UNCHANGED <<pending, commits>>

\* A controller is through with a finished or deleted run.
DropFinalizer(r) ==
    /\ Listed(r)
    /\ "ctl" \in plr[r].fin
    /\ plr[r].phase # "running" \/ plr[r].st = "terminating"
    /\ plr' = [plr EXCEPT ![r] = WithFinalizers(@, @.fin \ {"ctl"})]
    /\ UNCHANGED <<pending, commits>>

\* The pruner deletes finished runs.
Prune(r) ==
    /\ plr[r].st = "live"
    /\ plr[r].phase # "running"
    /\ plr' = [plr EXCEPT ![r] = Deleted(@)]
    /\ UNCHANGED <<pending, commits>>

\* WaitForPipelineRunStarts of the build templates suite protects a started
\* run from the pruner.  The merge patch replaces the list by the one of a copy,
\* so a finalizer that its controller dropped meanwhile may be back.  The API
\* server takes no finalizer on a deleted object.
AddFinalizerToPipelineRun(r) ==
    /\ plr[r].st = "live"
    /\ \E dropped \in SUBSET {"ctl"} :
        plr' = [plr EXCEPT ![r].fin = @ \cup dropped \cup {"e2e-test"}]
    /\ UNCHANGED <<pending, commits>>

\* Somebody else pushes to the branch under test.
Push ==
    /\ PaC
    /\ commits < MaxCommits
    /\ commits' = commits + 1
    /\ pending' = pending \cup {[sha |-> commits + 1, event |-> PushEvent(InitialEvent)]}
    /\ UNCHANGED plr

ClusterNext ==
    \/ \E r \in Runs :
        \/ CreateRun(r)
        \/ FinishRun(r)
        \/ DropFinalizer(r)
        \/ Prune(r)
        \/ AddFinalizerToPipelineRun(r)
    \/ Push

ClusterTypeOK ==
    /\ plr \in [Runs -> RunObjects]
    /\ pending \in SUBSET Triggers
    /\ commits \in Nat
=============================================================================

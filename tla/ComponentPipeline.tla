------------------------- MODULE ComponentPipeline -------------------------
(***************************************************************************)
(* WaitForComponentPipelineToBeFinished and RetriggerComponentPipelineRun  *)
(* of pkg/clients/has/components.go: wait for the PipelineRun of a         *)
(* Component, and when it fails delete it, trigger a new one and wait      *)
(* again.  Every request to the API server or the git provider is a step   *)
(* of its own, so the cluster moves between any two of them.               *)
(*                                                                         *)
(* Time is kept as the phase of the timers of the loop that runs:          *)
(* "early" before the 5 minute deadline, "late" after it, "over" after the *)
(* 30 minute timeout.                                                      *)
(***************************************************************************)
EXTENDS PipelineRuns, FiniteSets

CONSTANTS
    Retries, Always,        \* RetryOptions
    InitialSha,             \* the sha the caller asks for, NoSha for any
    EventFilter,            \* the event type the caller asks for, or AnyEvent
    Provider,               \* git provider annotation of the runs
    Nil                     \* the nil *PipelineRun

ASSUME RetriesAssumption == Retries \in Nat
ASSUME AlwaysAssumption == Always \in BOOLEAN
ASSUME FilterAssumption ==
    /\ InitialSha \in {NoSha, FirstTrigger.sha}
    /\ EventFilter \in {AnyEvent, InitialEvent}
    /\ ~PaC => EventFilter = AnyEvent
ASSUME ProviderAssumption == Provider \in {"github", "gitlab", "forgejo"}

VARIABLES
    pc,          \* the request the waiter makes next
    clock,       \* phase of the timers of the running loop
    attempts, prFound, pr, sha, eventType,   \* locals of the wait
    err,         \* what the last query of the poll found wrong
    newSha,      \* the local sha of RetriggerComponentPipelineRun
    result,      \* what the wait returned
    prToUpdate,  \* the caller's copy
    retired      \* history: the runs the waiter deleted

waiterVars == <<pc, clock, attempts, prFound, pr, sha, eventType, err, newSha,
                result, prToUpdate, retired>>

vars == <<clusterVars, waiterVars>>

\* What the wait keeps of a PipelineRun it was sent.
Copies == [name : Runs, phase : Phases, event : Events, fin : SUBSET Finalizers]

ASSUME NilAssumption == Nil \notin Copies

Results == {"none", "ok", "not created", "failed", "panic", "finalizer error",
            "delete error", "retrigger error"}

\* pr is overwritten before it is read, so its initial value plays no part.
Init ==
    /\ ClusterInit
    /\ pc = "poll"
    /\ clock = "early"
    /\ attempts = 1
    /\ prFound = FALSE
    /\ pr = Nil
    /\ sha = InitialSha
    /\ eventType = EventFilter
    /\ err = "none"
    /\ newSha = NoSha
    /\ result = "none"
    /\ prToUpdate = Nil
    /\ retired = {}

Copy(r) == [name |-> r, phase |-> plr[r].phase, event |-> plr[r].event,
            fin |-> plr[r].fin]

-----------------------------------------------------------------------------
(* The wait: one poll is one List request.                                 *)

\* Mutant: the sha is left out of the label selector.
MatchingNoSha(r) ==
    /\ Listed(r)
    /\ eventType # AnyEvent => plr[r].event = eventType

\* Label selector of GetComponentPipelineRunsWithType.
Matching(r) ==
    /\ Listed(r)
    /\ sha # NoSha => plr[r].sha = sha
    /\ eventType # AnyEvent => plr[r].event = eventType

\* GetComponentPipelineRunWithType takes the first item of the list.
IsFirst(r) ==
    /\ Matching(r)
    /\ \A q \in Runs : Matching(q) => r <= q

Return(res) ==
    /\ pc' = "done"
    /\ result' = res

\* The query failed, or nothing matches: pr becomes nil, and the first poll
\* after the creation deadline ends the wait if no run was ever seen.
PollNothing ==
    /\ pc = "poll"
    /\ clock # "over"
    /\ \/ err' = "list"
       \/ err' = "no pipelinerun found" /\ \A r \in Runs : ~Matching(r)
    /\ pr' = Nil
    /\ pc' = IF ~prFound /\ clock = "late" THEN "decide" ELSE "poll"
    /\ UNCHANGED <<clusterVars, clock, attempts, prFound, sha, eventType,
                   newSha, result, prToUpdate, retired>>

\* Mutant: a run that is finished is taken for one that succeeded.
PollRunAnyOutcome(r) ==
    /\ pc = "poll"
    /\ clock # "over"
    /\ IsFirst(r)
    /\ pr' = Copy(r)
    /\ prFound' = TRUE
    /\ err' = "none"
    /\ IF plr[r].phase = "running" THEN UNCHANGED <<pc, result, prToUpdate>>
                                   ELSE Return("ok") /\ prToUpdate' = pr'
    /\ UNCHANGED <<clusterVars, clock, attempts, sha, eventType, newSha, retired>>

\* A run is found: keep polling while it runs, return when it succeeded.
PollRun(r) ==
    /\ pc = "poll"
    /\ clock # "over"
    /\ IsFirst(r)
    /\ pr' = Copy(r)
    /\ prFound' = TRUE
    /\ err' = "none"
    /\ CASE plr[r].phase = "running" -> UNCHANGED <<pc, result, prToUpdate>>
         [] plr[r].phase = "succeeded" -> Return("ok") /\ prToUpdate' = pr'
         [] OTHER -> pc' = "decide" /\ UNCHANGED <<result, prToUpdate>>
    /\ UNCHANGED <<clusterVars, clock, attempts, sha, eventType, newSha, retired>>

\* The 30 minutes are over.
PollTimeout ==
    /\ pc = "poll"
    /\ clock = "over"
    /\ pc' = "decide"
    /\ UNCHANGED <<clusterVars, clock, attempts, prFound, pr, sha, eventType,
                   err, newSha, result, prToUpdate, retired>>

\* Mutant: one attempt too many.
DecideOneMore ==
    /\ pc = "decide"
    /\ CASE ~prFound -> Return("not created")
         [] prFound /\ pr = Nil -> Return("panic")
         [] prFound /\ pr # Nil ->
              IF attempts > Retries + 1 \/ (~Always /\ pr.phase # "flaked")
                THEN Return("failed")
                ELSE pc' = "finalizer" /\ UNCHANGED result
    /\ UNCHANGED <<clusterVars, clock, attempts, prFound, pr, sha, eventType,
                   err, newSha, prToUpdate, retired>>

\* Mutant: a retry for any reason.
DecideAnyReason ==
    /\ pc = "decide"
    /\ CASE ~prFound -> Return("not created")
         [] prFound /\ pr = Nil -> Return("panic")
         [] prFound /\ pr # Nil ->
              IF attempts = Retries + 1
                THEN Return("failed")
                ELSE pc' = "finalizer" /\ UNCHANGED result
    /\ UNCHANGED <<clusterVars, clock, attempts, prFound, pr, sha, eventType,
                   err, newSha, prToUpdate, retired>>

\* The wait failed: give up, or go on to replace the run.  pr.GetName() of a nil
\* run panics.
Decide ==
    /\ pc = "decide"
    /\ CASE ~prFound -> Return("not created")
         [] prFound /\ pr = Nil -> Return("panic")
         [] prFound /\ pr # Nil ->
              IF attempts = Retries + 1 \/ (~Always /\ pr.phase # "flaked")
                THEN Return("failed")
                ELSE pc' = "finalizer" /\ UNCHANGED result
    /\ UNCHANGED <<clusterVars, clock, attempts, prFound, pr, sha, eventType,
                   err, newSha, prToUpdate, retired>>

-----------------------------------------------------------------------------
(* Replacing the failed run.                                               *)

\* RemoveFinalizerFromPipelineRun: the merge patch sets the finalizers of the
\* object to those of the copy without ours; the reply overwrites the copy.
RemoveFinalizer ==
    /\ pc = "finalizer"
    /\ IF "e2e-test" \in pr.fin
         THEN LET patched == WithFinalizers(plr[pr.name], pr.fin \ {"e2e-test"})
              IN \/ /\ Listed(pr.name)
                    /\ plr' = [plr EXCEPT ![pr.name] = patched]
                    /\ pr' = [pr EXCEPT !.phase = patched.phase, !.fin = patched.fin]
                    /\ pc' = "delete"
                    /\ UNCHANGED result
                 \/ Return("finalizer error") /\ UNCHANGED <<plr, pr>>
         ELSE pc' = "delete" /\ UNCHANGED <<plr, pr, result>>
    /\ UNCHANGED <<pending, commits, clock, attempts, prFound, sha, eventType,
                   err, newSha, prToUpdate, retired>>

\* Delete ignores NotFound.
DeleteRun ==
    /\ pc = "delete"
    /\ \/ /\ pc' = "retrigger"
          /\ plr' = IF Listed(pr.name) THEN [plr EXCEPT ![pr.name] = Deleted(@)]
                                       ELSE plr
          /\ retired' = retired \cup {pr.name}
          /\ UNCHANGED result
       \/ Return("delete error") /\ UNCHANGED <<plr, retired>>
    /\ UNCHANGED <<pending, commits, clock, attempts, prFound, pr, sha,
                   eventType, err, newSha, prToUpdate>>

\* RetriggerComponentPipelineRun, PaC run: a file is committed to the branch.
\* GitHub and Forgejo answer with the sha of the commit.
CommitFile ==
    /\ pc = "retrigger"
    /\ PaC
    /\ commits' = commits + 1
    /\ pending' = pending \cup {[sha |-> commits', event |-> PushEvent(pr.event)]}
    /\ IF Provider = "gitlab" THEN pc' = "metadata" /\ UNCHANGED newSha
                              ELSE pc' = "await" /\ newSha' = commits'
    /\ clock' = "early"
    /\ UNCHANGED <<plr, attempts, prFound, pr, sha, eventType, err, result,
                   prToUpdate, retired>>

\* GitLab needs a second request; the CommitID it answers with is the last
\* commit of the branch at that time.
GetFileMetaData ==
    /\ pc = "metadata"
    /\ newSha' = commits
    /\ pc' = "await"
    /\ UNCHANGED <<clusterVars, clock, attempts, prFound, pr, sha, eventType,
                   err, result, prToUpdate, retired>>

\* RetriggerComponentPipelineRun, simple build: annotate the Component.
AnnotateComponent ==
    /\ pc = "retrigger"
    /\ ~PaC
    /\ pending' = pending \cup {FirstTrigger}
    /\ newSha' = NoSha
    /\ pc' = "await"
    /\ clock' = "early"
    /\ UNCHANGED <<plr, commits, attempts, prFound, pr, sha, eventType, err,
                   result, prToUpdate, retired>>

\* A label or annotation is missing, the Forgejo client is not set up, the git
\* provider refuses the file, or the Component cannot be read or updated.  A
\* conflict is not retried: the wrapped error hides it from RetryOnConflict.
RetriggerError ==
    /\ pc \in {"retrigger", "metadata"}
    /\ Return("retrigger error")
    /\ UNCHANGED <<clusterVars, clock, attempts, prFound, pr, sha, eventType,
                   err, newSha, prToUpdate, retired>>

\* Mutant: the attempt is counted twice.
AwaitNewRunCountedTwice ==
    /\ pc = "await"
    /\ \E r \in Runs : /\ Listed(r)
                       /\ r # pr.name
                       /\ GenerateName(plr[r].event) = GenerateName(pr.event)
    /\ sha' = newSha
    /\ eventType' = AnyEvent
    /\ attempts' = attempts + 2
    /\ prFound' = FALSE
    /\ clock' = "early"
    /\ pc' = "poll"
    /\ UNCHANGED <<clusterVars, pr, err, newSha, result, prToUpdate, retired>>

\* Mutant: the event type is kept for the next attempt.
AwaitNewRunSameEvent ==
    /\ pc = "await"
    /\ \E r \in Runs : /\ Listed(r)
                       /\ r # pr.name
                       /\ GenerateName(plr[r].event) = GenerateName(pr.event)
    /\ sha' = newSha
    /\ attempts' = attempts + 1
    /\ prFound' = FALSE
    /\ clock' = "early"
    /\ pc' = "poll"
    /\ UNCHANGED <<clusterVars, pr, err, eventType, newSha, result, prToUpdate, retired>>

\* Any other run of the same generateName ends the wait for the new run; the
\* wait starts over with the new sha and without the event type.
AwaitNewRun ==
    /\ pc = "await"
    /\ \E r \in Runs : /\ Listed(r)
                       /\ r # pr.name
                       /\ GenerateName(plr[r].event) = GenerateName(pr.event)
    /\ sha' = newSha
    /\ eventType' = AnyEvent
    /\ attempts' = attempts + 1
    /\ prFound' = FALSE
    /\ clock' = "early"
    /\ pc' = "poll"
    /\ UNCHANGED <<clusterVars, pr, err, newSha, result, prToUpdate, retired>>

\* The 5 minute deadline of the retrigger.
AwaitDeadline ==
    /\ pc = "await"
    /\ clock = "late"
    /\ Return("retrigger error")
    /\ UNCHANGED <<clusterVars, clock, attempts, prFound, pr, sha, eventType,
                   err, newSha, prToUpdate, retired>>

-----------------------------------------------------------------------------
\* Mutant: there is no 30 minute timeout.
TickNoTimeout ==
    /\ pc \in {"poll", "await"} /\ clock = "early" /\ clock' = "late"
    /\ UNCHANGED <<clusterVars, pc, attempts, prFound, pr, sha, eventType, err,
                   newSha, result, prToUpdate, retired>>

\* Time passes.  The poll interval is far shorter than the 25 minutes between
\* the two deadlines, so a poll after the first one comes before the second;
\* it ends the wait unless a run was found.
Tick ==
    /\ \/ pc = "poll" /\ clock = "early" /\ clock' = "late"
       \/ pc = "poll" /\ clock = "late" /\ prFound /\ clock' = "over"
       \/ pc = "await" /\ clock = "early" /\ clock' = "late"
    /\ UNCHANGED <<clusterVars, pc, attempts, prFound, pr, sha, eventType, err,
                   newSha, result, prToUpdate, retired>>

Retrigger ==
    \/ RemoveFinalizer
    \/ DeleteRun
    \/ CommitFile
    \/ GetFileMetaData
    \/ AnnotateComponent
    \/ RetriggerError
    \/ AwaitNewRun
    \/ AwaitDeadline

Waiter ==
    \/ PollNothing
    \/ \E r \in Runs : PollRun(r)
    \/ PollTimeout
    \/ Decide
    \/ Retrigger

\* What the cluster does after the return is of no concern to the wait.
Cluster ==
    /\ pc # "done"
    /\ ClusterNext
    /\ UNCHANGED waiterVars

Next == Waiter \/ Tick \/ Cluster

\* The poll loops run on timers of the client: they and the clock keep going.
\* Nothing is assumed of PaC, Tekton or the pruner.
Fairness ==
    /\ WF_vars(Waiter)
    /\ WF_vars(Tick)

Spec == Init /\ [][Next]_vars /\ Fairness
-----------------------------------------------------------------------------
(* Properties.                                                             *)

\* The variables keep their types.
TypeOK ==
    /\ ClusterTypeOK
    /\ pc \in {"poll", "decide", "finalizer", "delete", "retrigger",
               "metadata", "await", "done"}
    /\ clock \in {"early", "late", "over"}
    /\ attempts \in Nat \ {0}
    /\ prFound \in BOOLEAN
    /\ pr \in Copies \cup {Nil}
    /\ pc \in {"finalizer", "delete", "retrigger", "metadata", "await"} => pr # Nil
    /\ sha \in Nat
    /\ eventType \in Events \cup {AnyEvent}
    /\ err \in {"none", "list", "no pipelinerun found"}
    /\ newSha \in Nat
    /\ result \in Results
    /\ prToUpdate \in Copies \cup {Nil}
    /\ retired \in SUBSET Runs

\* The run an attempt waits for and judges is never one the wait deleted on an
\* earlier attempt, although the old run may stay listed while a finalizer
\* holds it: the sha of the retrigger identifies the new run.
AttemptJudgesFreshRun ==
    pc \in {"poll", "decide"} /\ prFound /\ pr # Nil => pr.name \notin retired

\* A successful return hands the caller a run that really succeeded, that
\* carries the sha of the last trigger and that the wait did not delete.
SuccessIsReal ==
    result = "ok" =>
        /\ prToUpdate # Nil
        /\ plr[prToUpdate.name].phase = "succeeded"
        /\ sha # NoSha => plr[prToUpdate.name].sha = sha
        /\ prToUpdate.name \notin retired

\* However the polls, timeouts and errors fall, the wait deletes at most
\* Retries PipelineRuns of the Component.
RetriggerBudget == Cardinality(retired) <= Retries

\* Without RetryOptions.Always the wait deletes only runs that failed with
\* CouldntGetTask or TaskRunImagePullFailed, judged by a copy that is stale by
\* the time of the DELETE: never a run that is still going or that succeeded.
DeletesOnlyFlakedRuns ==
    ~Always => \A r \in retired : plr[r].phase = "flaked"

\* After a retrigger the wait does not give up with "was not created" while
\* the run of the commit it pushed is listed: that run may carry another
\* event type than the one the caller asked for.
NotCreatedIsTrue ==
    [][(/\ pc = "poll" /\ pc' = "decide" /\ ~prFound'
        /\ err' = "no pipelinerun found" /\ attempts > 1)
         => \A r \in Runs : Listed(r) => plr[r].sha # newSha]_vars

\* The wait returns, whatever PaC, Tekton and the pruner do or fail to do.
Termination == <>(pc = "done")

\* The wait is a bounded retry loop.
Retry == INSTANCE BoundedRetry WITH
    MaxAttempts <- Retries + 1,
    attempt <- attempts,
    outcome <- CASE pc # "done" -> "trying"
                 [] pc = "done" /\ result = "ok" -> "ok"
                 [] pc = "done" /\ result # "ok" -> "failed"

\* The wait makes its attempts one after the other, at most Retries + 1 of
\* them, and its outcome is final.
ImplementsBoundedRetry == Retry!Spec

-----------------------------------------------------------------------------
(* What the comments of components.go say and the code does not do.        *)

\* "waits for a given component PipelineRun to be finished": the wait ends
\* with a verdict, it does not dereference the nil run of a poll that failed.
NeverPanics == result # "panic"
=============================================================================

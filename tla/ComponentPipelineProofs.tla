---------------------- MODULE ComponentPipelineProofs ----------------------
(***************************************************************************)
(* Proofs about ComponentPipeline, for any set of runs, any number of      *)
(* retries and any number of foreign commits.                              *)
(***************************************************************************)
EXTENDS ComponentPipeline, FiniteSetTheorems, TLAPS

\* The steps that replace a failed run.
Replacing == {"finalizer", "delete", "retrigger", "metadata", "await"}

\* The copy the wait holds is of a run that exists or existed, and it tells
\* the phase of that run once the run is finished.
CopyIsOfRun ==
    pr # Nil => /\ plr[pr.name].st # "none"
                /\ pr.phase # "running" => plr[pr.name].phase = pr.phase

\* Only runs that were created are deleted.
RetiredExist == \A r \in retired : plr[r].st # "none"

\* No run, trigger or answer of the git provider is ahead of the branch.
CommitOrder ==
    /\ \A r \in Runs : plr[r].sha <= commits
    /\ \A t \in pending : t.sha <= commits
    /\ newSha <= commits

\* The deleted runs are of commits before the one the wait asks for.
RetiredOlder ==
    /\ pc \in {"poll", "decide"} => \A r \in retired : plr[r].sha < sha
    /\ pc = "metadata" => \A r \in retired : plr[r].sha < commits
    /\ pc = "await" => \A r \in retired : plr[r].sha < newSha

\* The attempts bound the deletions: one deletion per attempt that is over, and
\* one more once the DELETE of the running attempt is made.
BudgetInv ==
    /\ IsFiniteSet(retired)
    /\ attempts <= Retries + 1
    /\ pc \in Replacing => attempts <= Retries
    /\ pc \in {"poll", "decide", "finalizer", "delete"}
         => Cardinality(retired) <= attempts - 1
    /\ pc \in {"retrigger", "metadata", "await"} => Cardinality(retired) <= attempts
    /\ Cardinality(retired) <= Retries

\* Without RetryOptions.Always a run is on its way to deletion, or deleted, only
\* when it failed for one of the two known reasons.
FlakedInv ==
    ~Always => /\ pc \in {"finalizer", "delete"} => pr.phase = "flaked"
               /\ \A r \in retired : plr[r].phase = "flaked"

\* What a successful return says stays true, and the copy handed to the caller
\* is of a run that exists or existed.
OkInv ==
    /\ result = "ok" => pc = "done"
    /\ SuccessIsReal
    /\ prToUpdate # Nil => plr[prToUpdate.name].st # "none"

\* The inductive invariant; the parts about freshness need the sha of a commit,
\* so they are claimed for PaC builds only.
IInv ==
    /\ TypeOK
    /\ CopyIsOfRun
    /\ RetiredExist
    /\ CommitOrder
    /\ PaC => RetiredOlder
    /\ PaC => AttemptJudgesFreshRun
    /\ PaC => OkInv
    /\ BudgetInv
    /\ FlakedInv

-----------------------------------------------------------------------------
(* Type correctness.                                                       *)

\* A finalizer patch and a DELETE yield PipelineRun objects again.
LEMMA ObjectTypes ==
    ASSUME NEW o \in RunObjects, NEW fin \in SUBSET Finalizers
    PROVE  /\ WithFinalizers(o, fin) \in RunObjects
           /\ Deleted(o) \in RunObjects
  BY DEF WithFinalizers, Deleted, RunObjects

\* The cluster starts with well-typed objects and triggers.
LEMMA ClusterInitType == ClusterInit => ClusterTypeOK
  BY RunsAssumption, PaCAssumption, EventAssumption
  DEF ClusterInit, ClusterTypeOK, RunObjects, FirstTrigger, Triggers, Events,
      Phases, Finalizers, NoSha

\* The environment keeps the cluster well typed.
LEMMA ClusterType ==
    ASSUME ClusterTypeOK, ClusterNext
    PROVE  ClusterTypeOK'
<1> USE DEF ClusterTypeOK
<1>1. ASSUME NEW r \in Runs, CreateRun(r) PROVE ClusterTypeOK'
  <2>1. PICK t \in pending, fin \in SUBSET {"ctl"} :
          /\ plr' = [plr EXCEPT ![r] = [st |-> "live", phase |-> "running",
                                        sha |-> t.sha, event |-> t.event,
                                        fin |-> fin]]
          /\ pending' = pending \ {t}
    BY <1>1 DEF CreateRun
  <2>2. [st |-> "live", phase |-> "running", sha |-> t.sha, event |-> t.event,
         fin |-> fin] \in RunObjects
    BY DEF RunObjects, Triggers, Phases, Finalizers
  <2> QED BY <1>1, <2>1, <2>2 DEF CreateRun
<1>2. ASSUME NEW r \in Runs, FinishRun(r) PROVE ClusterTypeOK'
  <2>1. PICK p \in Phases : plr' = [plr EXCEPT ![r].phase = p]
    BY <1>2 DEF FinishRun
  <2>2. [plr[r] EXCEPT !.phase = p] \in RunObjects
    BY DEF RunObjects
  <2> QED BY <1>2, <2>1, <2>2 DEF FinishRun
<1>3. ASSUME NEW r \in Runs, DropFinalizer(r) PROVE ClusterTypeOK'
  <2>1. plr[r].fin \ {"ctl"} \in SUBSET Finalizers
    BY DEF RunObjects
  <2>2. WithFinalizers(plr[r], plr[r].fin \ {"ctl"}) \in RunObjects
    BY <2>1, ObjectTypes
  <2> QED BY <1>3, <2>2 DEF DropFinalizer
<1>4. ASSUME NEW r \in Runs, Prune(r) PROVE ClusterTypeOK'
  <2>1. Deleted(plr[r]) \in RunObjects
    BY ObjectTypes
  <2> QED BY <1>4, <2>1 DEF Prune
<1>5. ASSUME NEW r \in Runs, AddFinalizerToPipelineRun(r) PROVE ClusterTypeOK'
  <2>1. PICK dropped \in SUBSET {"ctl"} :
            plr' = [plr EXCEPT ![r].fin = @ \cup dropped \cup {"e2e-test"}]
    BY <1>5 DEF AddFinalizerToPipelineRun
  <2>2. [plr[r] EXCEPT !.fin = @ \cup dropped \cup {"e2e-test"}] \in RunObjects
    BY DEF RunObjects, Finalizers
  <2> QED BY <1>5, <2>1, <2>2 DEF AddFinalizerToPipelineRun
<1>6. ASSUME Push PROVE ClusterTypeOK'
  BY <1>6 DEF Push, Triggers, Events, PushEvent
<1> QED BY <1>1, <1>2, <1>3, <1>4, <1>5, <1>6 DEF ClusterNext

\* What the API server sends of a run is a well-typed copy.
LEMMA CopyType ==
    ASSUME ClusterTypeOK, NEW r \in Runs
    PROVE  Copy(r) \in Copies
  BY DEF ClusterTypeOK, Copy, Copies, RunObjects

\* The wait starts well-typed.
LEMMA InitType == Init => TypeOK
<1> SUFFICES ASSUME Init PROVE TypeOK
  OBVIOUS
<1>1. ClusterTypeOK
  BY ClusterInitType DEF Init
<1>2. sha \in Nat /\ eventType \in Events \cup {AnyEvent}
  BY FilterAssumption, EventAssumption, PaCAssumption
  DEF Init, FirstTrigger, NoSha, Events
<1>3. attempts \in Nat \ {0} /\ newSha \in Nat
  BY DEF Init, NoSha
<1>4. result \in Results /\ retired \in SUBSET Runs
  BY DEF Init, Results
<1> QED BY <1>1, <1>2, <1>3, <1>4 DEF Init, TypeOK

\* Every request of the wait, every step of the cluster and every tick keeps
\* the types.
LEMMA NextType == TypeOK /\ [Next]_vars => TypeOK'
<1> SUFFICES ASSUME TypeOK, [Next]_vars PROVE TypeOK'
  OBVIOUS
<1> USE DEF TypeOK
<1>1. CASE PollNothing
  BY <1>1 DEF PollNothing, clusterVars, ClusterTypeOK
<1>2. ASSUME NEW r \in Runs, PollRun(r) PROVE TypeOK'
  <2>1. Copy(r) \in Copies /\ Copy(r) # Nil
    BY CopyType, NilAssumption
  <2> QED BY <1>2, <2>1 DEF PollRun, Return, Results, clusterVars, ClusterTypeOK
<1>3. CASE PollTimeout
  BY <1>3 DEF PollTimeout, clusterVars, ClusterTypeOK
<1>4. CASE Decide
  BY <1>4 DEF Decide, Return, Results, clusterVars, ClusterTypeOK
<1>5. CASE RemoveFinalizer
  <2>1. pr \in Copies
    BY <1>5 DEF RemoveFinalizer
  <2> DEFINE patched == WithFinalizers(plr[pr.name], pr.fin \ {"e2e-test"})
  <2>2. pr.name \in Runs /\ pr.fin \ {"e2e-test"} \in SUBSET Finalizers
    BY <2>1 DEF Copies
  <2>3. patched \in RunObjects
    BY <2>2, ObjectTypes DEF ClusterTypeOK
  <2>4. [pr EXCEPT !.phase = patched.phase, !.fin = patched.fin] \in Copies
    BY <2>1, <2>3 DEF Copies, RunObjects
  <2>5. ClusterTypeOK'
    BY <1>5, <2>2, <2>3 DEF RemoveFinalizer, ClusterTypeOK
  <2>6. pr' \in Copies
    BY <1>5, <2>1, <2>4 DEF RemoveFinalizer
  <2>7. pr' # Nil
    BY <2>6, NilAssumption
  <2> QED BY <1>5, <2>5, <2>6, <2>7 DEF RemoveFinalizer, Return, Results
<1>6. CASE DeleteRun
  <2>1. pr.name \in Runs
    BY <1>6 DEF DeleteRun, Copies
  <2>2. Deleted(plr[pr.name]) \in RunObjects
    BY <2>1, ObjectTypes DEF ClusterTypeOK
  <2>3. ClusterTypeOK'
    BY <1>6, <2>1, <2>2 DEF DeleteRun, ClusterTypeOK
  <2> QED BY <1>6, <2>1, <2>3, ZenonT(30) DEF DeleteRun, Return, Results
<1>7. CASE CommitFile
  <2>1. PushEvent(pr.event) \in Events
    BY DEF PushEvent, Events
  <2>2. commits' \in Nat
    <3>1. commits \in Nat
      BY DEF ClusterTypeOK
    <3>2. commits' = commits + 1
      BY <1>7 DEF CommitFile
    <3> HIDE DEF TypeOK
    <3> QED BY <3>1, <3>2
  <2>3. [sha |-> commits', event |-> PushEvent(pr.event)] \in Triggers
    BY <2>1, <2>2 DEF Triggers
  <2>4. ClusterTypeOK'
    BY <1>7, <2>2, <2>3 DEF CommitFile, ClusterTypeOK
  <2> QED BY <1>7, <2>2, <2>4 DEF CommitFile
<1>8. CASE GetFileMetaData
  BY <1>8 DEF GetFileMetaData, clusterVars, ClusterTypeOK
<1>9. CASE AnnotateComponent
  <2>1. FirstTrigger \in Triggers
    BY PaCAssumption, EventAssumption DEF FirstTrigger, Triggers, Events, NoSha
  <2>2. ClusterTypeOK'
    BY <1>9, <2>1 DEF AnnotateComponent, ClusterTypeOK
  <2> QED BY <1>9, <2>2 DEF AnnotateComponent, NoSha
<1>10. CASE RetriggerError
  BY <1>10 DEF RetriggerError, Return, Results, clusterVars, ClusterTypeOK
<1>11. CASE AwaitNewRun
  <2>1. ClusterTypeOK'
    BY <1>11 DEF AwaitNewRun, clusterVars, ClusterTypeOK
  <2>2. attempts' \in Nat \ {0}
    <3>1. attempts \in Nat \ {0}
      OBVIOUS
    <3>2. attempts' = attempts + 1
      BY <1>11 DEF AwaitNewRun
    <3> HIDE DEF TypeOK
    <3> QED BY <3>1, <3>2
  <2> QED BY <1>11, <2>1, <2>2 DEF AwaitNewRun
<1>12. CASE AwaitDeadline
  BY <1>12 DEF AwaitDeadline, Return, Results, clusterVars, ClusterTypeOK
<1>13. CASE Tick
  BY <1>13 DEF Tick, clusterVars, ClusterTypeOK
<1>14. CASE Cluster
  <2>1. ClusterTypeOK'
    BY <1>14, ClusterType DEF Cluster
  <2> QED BY <1>14, <2>1 DEF Cluster, waiterVars
<1>15. CASE UNCHANGED vars
  BY <1>15, ZenonT(30) DEF vars, clusterVars, waiterVars, ClusterTypeOK
<1> QED BY <1>1, <1>2, <1>3, <1>4, <1>5, <1>6, <1>7, <1>8, <1>9, <1>10, <1>11,
           <1>12, <1>13, <1>14, <1>15 DEF Next, Waiter, Retrigger

\* The wait and the cluster keep their types (the state of
\* WaitForComponentPipelineToBeFinished and of the objects it queries).
THEOREM TypeCorrect == Spec => []TypeOK
  BY InitType, NextType, PTL DEF Spec

-----------------------------------------------------------------------------
(* How the cluster moves.                                                  *)

\* A run that exists keeps its commit, and its phase once it is finished.
Advances ==
    /\ commits <= commits'
    /\ \A r \in Runs : plr[r].st # "none" =>
        /\ plr'[r].st # "none"
        /\ plr'[r].sha = plr[r].sha
        /\ plr[r].phase # "running" => plr'[r].phase = plr[r].phase

\* Neither a finalizer patch nor a DELETE touches what identifies a run.
LEMMA ObjectUpdates ==
    ASSUME NEW o \in RunObjects, NEW fin \in SUBSET Finalizers, o.st # "none"
    PROVE  \A u \in {WithFinalizers(o, fin), Deleted(o)} :
              u.st # "none" /\ u.sha = o.sha /\ u.phase = o.phase
  BY DEF WithFinalizers, Deleted, RunObjects

\* No controller, pruner or push changes the identity of a run.
LEMMA ClusterAdvances ==
    ASSUME ClusterTypeOK, ClusterNext
    PROVE  Advances
<1> USE DEF ClusterTypeOK
<1>1. ASSUME NEW r \in Runs, CreateRun(r) PROVE Advances
  BY <1>1 DEF CreateRun, Advances
<1>2. ASSUME NEW r \in Runs, FinishRun(r) PROVE Advances
  <2>1. PICK p \in Phases : plr' = [plr EXCEPT ![r].phase = p]
    BY <1>2 DEF FinishRun
  <2> QED BY <1>2, <2>1 DEF FinishRun, Advances, RunObjects, Listed
<1>3. ASSUME NEW r \in Runs, DropFinalizer(r) PROVE Advances
  <2> DEFINE u == WithFinalizers(plr[r], plr[r].fin \ {"ctl"})
  <2>1. plr[r] \in RunObjects /\ plr[r].fin \ {"ctl"} \in SUBSET Finalizers
    BY DEF RunObjects
  <2>2. plr[r].st # "none"
    BY <1>3 DEF DropFinalizer, Listed
  <2>3. u.st # "none" /\ u.sha = plr[r].sha /\ u.phase = plr[r].phase
    BY <2>1, <2>2, ObjectUpdates
  <2>4. plr' = [plr EXCEPT ![r] = u] /\ commits' = commits
    BY <1>3 DEF DropFinalizer
  <2> HIDE DEF u
  <2> QED BY <2>3, <2>4 DEF Advances
<1>4. ASSUME NEW r \in Runs, Prune(r) PROVE Advances
  <2> DEFINE u == Deleted(plr[r])
  <2>1. plr[r] \in RunObjects /\ {} \in SUBSET Finalizers
    OBVIOUS
  <2>2. plr[r].st # "none"
    BY <1>4 DEF Prune
  <2>3. u.st # "none" /\ u.sha = plr[r].sha /\ u.phase = plr[r].phase
    BY <2>1, <2>2, ObjectUpdates
  <2>4. plr' = [plr EXCEPT ![r] = u] /\ commits' = commits
    BY <1>4 DEF Prune
  <2> HIDE DEF u
  <2> QED BY <2>3, <2>4 DEF Advances
<1>5. ASSUME NEW r \in Runs, AddFinalizerToPipelineRun(r) PROVE Advances
  BY <1>5 DEF AddFinalizerToPipelineRun, Advances, RunObjects
<1>6. ASSUME Push PROVE Advances
  BY <1>6 DEF Push, Advances
<1> QED BY <1>1, <1>2, <1>3, <1>4, <1>5, <1>6 DEF ClusterNext

\* Neither does the wait itself, with its patch and its DELETE.
LEMMA StepAdvances ==
    ASSUME TypeOK, [Next]_vars
    PROVE  Advances
<1>a. commits \in Nat /\ plr \in [Runs -> RunObjects]
  BY DEF TypeOK, ClusterTypeOK
<1>1. CASE RemoveFinalizer
  <2> DEFINE u == WithFinalizers(plr[pr.name], pr.fin \ {"e2e-test"})
  <2>1. pr \in Copies /\ commits' = commits
    BY <1>1 DEF RemoveFinalizer, TypeOK
  <2>2. CASE plr' = plr
    BY <1>a, <2>1, <2>2 DEF Advances
  <2>3. CASE plr' # plr
    <3>1. plr' = [plr EXCEPT ![pr.name] = u] /\ Listed(pr.name)
      BY <1>1, <2>3 DEF RemoveFinalizer
    <3>2. pr.name \in Runs /\ pr.fin \ {"e2e-test"} \in SUBSET Finalizers
      BY <2>1 DEF Copies
    <3>3. plr[pr.name] \in RunObjects /\ plr[pr.name].st # "none"
      BY <1>a, <3>1, <3>2 DEF Listed
    <3>4. u.st # "none" /\ u.sha = plr[pr.name].sha /\ u.phase = plr[pr.name].phase
      BY <3>2, <3>3, ObjectUpdates
    <3> HIDE DEF u
    <3> QED BY <1>a, <2>1, <3>1, <3>2, <3>4 DEF Advances
  <2> QED BY <2>2, <2>3
<1>2. CASE DeleteRun
  <2> DEFINE u == Deleted(plr[pr.name])
  <2>1. pr \in Copies /\ commits' = commits
    BY <1>2 DEF DeleteRun, TypeOK
  <2>2. CASE plr' = plr
    BY <1>a, <2>1, <2>2 DEF Advances
  <2>3. CASE plr' # plr
    <3>1. plr' = [plr EXCEPT ![pr.name] = u] /\ Listed(pr.name)
      BY <1>2, <2>3 DEF DeleteRun
    <3>2. pr.name \in Runs /\ {} \in SUBSET Finalizers
      BY <2>1 DEF Copies
    <3>3. plr[pr.name] \in RunObjects /\ plr[pr.name].st # "none"
      BY <1>a, <3>1, <3>2 DEF Listed
    <3>4. u.st # "none" /\ u.sha = plr[pr.name].sha /\ u.phase = plr[pr.name].phase
      BY <3>2, <3>3, ObjectUpdates
    <3> HIDE DEF u
    <3> QED BY <1>a, <2>1, <3>1, <3>2, <3>4 DEF Advances
  <2> QED BY <2>2, <2>3
<1>3. CASE CommitFile
  BY <1>a, <1>3 DEF CommitFile, Advances
<1>4. CASE Cluster
  BY <1>4, ClusterAdvances DEF Cluster, TypeOK
<1>5. CASE UNCHANGED <<plr, commits>>
  BY <1>a, <1>5 DEF Advances
<1>6. UNCHANGED clusterVars => UNCHANGED <<plr, commits>>
  BY DEF clusterVars
<1>7. AnnotateComponent => UNCHANGED <<plr, commits>>
  BY DEF AnnotateComponent
<1>8. (\/ PollNothing \/ (\E r \in Runs : PollRun(r)) \/ PollTimeout \/ Decide
       \/ GetFileMetaData \/ RetriggerError \/ AwaitNewRun \/ AwaitDeadline
       \/ Tick \/ UNCHANGED vars) => UNCHANGED clusterVars
  BY DEF PollNothing, PollRun, PollTimeout, Decide, GetFileMetaData,
         RetriggerError, AwaitNewRun, AwaitDeadline, Tick, vars
<1> QED BY <1>1, <1>2, <1>3, <1>4, <1>5, <1>6, <1>7, <1>8
        DEF Next, Waiter, Retrigger

-----------------------------------------------------------------------------
(* The parts of the inductive invariant, one lemma each.                   *)

\* Which steps touch the wait's copy and the set of deleted runs.
LEMMA Frame ==
    ASSUME [Next]_vars
    PROVE  /\ \/ pr' = pr \/ pr' = Nil \/ RemoveFinalizer
              \/ \E r \in Runs : PollRun(r)
           /\ retired' = retired \/ DeleteRun
  BY DEF Next, Waiter, Retrigger, PollNothing, PollRun, PollTimeout, Decide,
         RemoveFinalizer, DeleteRun, CommitFile, GetFileMetaData,
         AnnotateComponent, RetriggerError, AwaitNewRun, AwaitDeadline, Tick,
         Cluster, waiterVars, vars

\* The copy of the last poll stays a copy of an existing run, through the patch
\* whose reply overwrites it.
LEMMA NextCopyIsOfRun ==
    ASSUME TypeOK, CopyIsOfRun, [Next]_vars
    PROVE  CopyIsOfRun'
<1>1. Advances
  BY StepAdvances
<1>2. plr \in [Runs -> RunObjects] /\ plr' \in [Runs -> RunObjects]
  BY NextType DEF TypeOK, ClusterTypeOK
<1>3. pr # Nil => pr \in Copies /\ pr.name \in Runs
  BY DEF TypeOK, Copies
<1>4. CASE pr' = pr
  BY <1>1, <1>2, <1>3, <1>4 DEF CopyIsOfRun, Advances
<1>5. CASE pr' = Nil
  BY <1>5 DEF CopyIsOfRun
<1>6. CASE RemoveFinalizer
  <2> DEFINE u == WithFinalizers(plr[pr.name], pr.fin \ {"e2e-test"})
  <2>1. pr # Nil
    BY <1>6 DEF RemoveFinalizer, TypeOK
  <2>2. CASE pr' # pr
    <3>1. /\ Listed(pr.name)
          /\ plr' = [plr EXCEPT ![pr.name] = u]
          /\ pr' = [pr EXCEPT !.phase = u.phase, !.fin = u.fin]
      BY <1>6, <2>2 DEF RemoveFinalizer
    <3>2. pr'.name = pr.name /\ pr'.phase = u.phase
      BY <1>3, <2>1, <3>1 DEF Copies
    <3>3. plr'[pr.name] = u
      BY <1>2, <1>3, <2>1, <3>1
    <3>4. plr'[pr.name].st # "none"
      BY <1>1, <1>3, <2>1, <3>1 DEF Advances, Listed
    <3> HIDE DEF u
    <3> QED BY <3>2, <3>3, <3>4 DEF CopyIsOfRun
  <2> QED BY <1>4, <2>2
<1>7. ASSUME NEW r \in Runs, PollRun(r) PROVE CopyIsOfRun'
  <2>1. pr' = Copy(r) /\ plr' = plr /\ Listed(r)
    BY <1>7 DEF PollRun, clusterVars, IsFirst, Matching
  <2>2. pr'.name = r /\ pr'.phase = plr[r].phase
    BY <2>1 DEF Copy
  <2> QED BY <2>1, <2>2 DEF CopyIsOfRun, Listed
<1> QED BY <1>4, <1>5, <1>6, <1>7, Frame

\* A run the wait deletes is one it has seen.
LEMMA NextRetiredExist ==
    ASSUME TypeOK, CopyIsOfRun, RetiredExist, [Next]_vars
    PROVE  RetiredExist'
<1>1. Advances
  BY StepAdvances
<1>2. retired \in SUBSET Runs
  BY DEF TypeOK
<1>3. CASE retired' = retired
  BY <1>1, <1>2, <1>3 DEF RetiredExist, Advances
<1>4. CASE DeleteRun
  <2>1. pr # Nil /\ pr.name \in Runs
    BY <1>4 DEF DeleteRun, TypeOK, Copies
  <2>2. retired' \subseteq retired \cup {pr.name}
    BY <1>4 DEF DeleteRun
  <2> QED BY <1>1, <1>2, <2>1, <2>2 DEF RetiredExist, CopyIsOfRun, Advances
<1> QED BY <1>3, <1>4, Frame

\* The deletions stay within the budget: each one is followed by the end of
\* the wait or by the next attempt.
LEMMA NextBudgetInv ==
    ASSUME TypeOK, BudgetInv, [Next]_vars
    PROVE  BudgetInv'
<1>1. attempts \in Nat \ {0} /\ Retries \in Nat /\ IsFiniteSet(retired)
  BY RetriesAssumption DEF TypeOK, BudgetInv
<1>2. Cardinality(retired) \in Nat
  BY <1>1, FS_CardinalityType
<1>3. CASE DeleteRun
  <2>1. CASE retired' = retired
    <3>1. attempts <= Retries /\ Cardinality(retired) <= attempts - 1
      BY <1>3 DEF DeleteRun, BudgetInv, Replacing
    <3>2. attempts' = attempts /\ pc' \in {"retrigger", "done"}
      BY <1>3 DEF DeleteRun, Return
    <3> QED BY <1>1, <1>2, <2>1, <3>1, <3>2 DEF BudgetInv, Replacing
  <2>2. CASE retired' = retired \cup {pr.name}
    <3>1. IsFiniteSet(retired') /\ Cardinality(retired') <= Cardinality(retired) + 1
      <4>1. IsFiniteSet(retired \cup {pr.name})
        BY <1>1, FS_AddElement
      <4>2. \/ Cardinality(retired \cup {pr.name}) = Cardinality(retired)
            \/ Cardinality(retired \cup {pr.name}) = Cardinality(retired) + 1
        BY <1>1, FS_AddElement
      <4> QED BY <1>2, <2>2, <4>1, <4>2
    <3>2. Cardinality(retired') \in Nat
      BY <3>1, FS_CardinalityType
    <3>3. attempts <= Retries /\ Cardinality(retired) <= attempts - 1
      BY <1>3 DEF DeleteRun, BudgetInv, Replacing
    <3>4. attempts' = attempts /\ pc' \in {"retrigger", "done"}
      BY <1>3 DEF DeleteRun, Return
    <3> QED BY <1>1, <1>2, <3>1, <3>2, <3>3, <3>4 DEF BudgetInv, Replacing
  <2> QED BY <1>3, <2>1, <2>2 DEF DeleteRun
<1>4. CASE AwaitNewRun
  <2>1. attempts <= Retries /\ Cardinality(retired) <= attempts
    BY <1>4 DEF AwaitNewRun, BudgetInv, Replacing
  <2>2. attempts' = attempts + 1 /\ pc' = "poll" /\ retired' = retired
    BY <1>4 DEF AwaitNewRun
  <2> QED BY <1>1, <1>2, <2>1, <2>2 DEF BudgetInv, Replacing
<1>5. CASE Decide
  <2>1. attempts' = attempts /\ retired' = retired
    BY <1>5 DEF Decide
  <2>2. pc = "decide" /\ pc' \in {"done", "finalizer"}
    BY <1>5 DEF Decide, Return, TypeOK
  <2>3. pc' = "finalizer" => attempts # Retries + 1
    BY <1>5 DEF Decide, Return, TypeOK
  <2> QED BY <1>1, <1>2, <2>1, <2>2, <2>3 DEF BudgetInv, Replacing
<1>6. CASE attempts' = attempts /\ retired' = retired /\ pc' \in {pc, "done"}
  BY <1>6 DEF BudgetInv, Replacing
<1>7. CASE /\ attempts' = attempts /\ retired' = retired
           /\ \/ pc = "poll" /\ pc' \in {"poll", "decide", "done"}
              \/ pc = "finalizer" /\ pc' \in {"delete", "done"}
              \/ pc = "retrigger" /\ pc' \in {"metadata", "await"}
              \/ pc = "metadata" /\ pc' = "await"
  BY <1>7 DEF BudgetInv, Replacing
<1>8. CASE PollNothing \/ (\E r \in Runs : PollRun(r)) \/ PollTimeout
  BY <1>7, <1>8 DEF PollNothing, PollRun, PollTimeout, Return
<1>9. CASE RemoveFinalizer \/ CommitFile \/ GetFileMetaData \/ AnnotateComponent
  BY <1>7, <1>9 DEF RemoveFinalizer, CommitFile, GetFileMetaData,
                    AnnotateComponent, Return
<1>10. CASE RetriggerError \/ AwaitDeadline \/ Tick \/ Cluster \/ UNCHANGED vars
  BY <1>6, <1>10 DEF RetriggerError, AwaitDeadline, Tick, Cluster, Return,
                     waiterVars, vars
<1> QED BY <1>3, <1>4, <1>5, <1>8, <1>9, <1>10 DEF Next, Waiter, Retrigger

\* Without Always only flaked runs are deleted.
LEMMA NextFlakedInv ==
    ASSUME TypeOK, CopyIsOfRun, RetiredExist, FlakedInv, [Next]_vars
    PROVE  FlakedInv'
<1> SUFFICES ASSUME ~Always PROVE FlakedInv'
  BY DEF FlakedInv
<1>1. Advances
  BY StepAdvances
<1>2. retired \in SUBSET Runs /\ \A r \in retired : plr[r].phase = "flaked"
  BY DEF TypeOK, FlakedInv
<1>3. \A r \in retired : plr'[r].phase = "flaked"
  BY <1>1, <1>2 DEF RetiredExist, Advances
<1>4. CopyIsOfRun'
  BY NextCopyIsOfRun
<1>5. CASE Decide
  <2>1. retired' = retired /\ pr' = pr
    BY <1>5 DEF Decide
  <2>2. pc' \in {"finalizer", "delete"} => pr.phase = "flaked"
    BY <1>5 DEF Decide, Return, TypeOK
  <2> QED BY <1>3, <2>1, <2>2 DEF FlakedInv
<1>6. CASE RemoveFinalizer
  <2>1. retired' = retired
    BY <1>6 DEF RemoveFinalizer
  <2>2. pr # Nil /\ pr \in Copies /\ pr.name \in Runs /\ pr.phase = "flaked"
    BY <1>6 DEF RemoveFinalizer, TypeOK, FlakedInv, Copies
  <2>3. plr[pr.name].st # "none" /\ plr[pr.name].phase = "flaked"
    BY <2>2 DEF CopyIsOfRun
  <2>4. plr'[pr.name].phase = "flaked"
    BY <1>1, <2>2, <2>3 DEF Advances
  <2>5. pr' # pr => pr'.phase = "flaked"
    <3> DEFINE u == WithFinalizers(plr[pr.name], pr.fin \ {"e2e-test"})
    <3>1. pr' # pr => /\ plr' = [plr EXCEPT ![pr.name] = u]
                      /\ pr' = [pr EXCEPT !.phase = u.phase, !.fin = u.fin]
      BY <1>6 DEF RemoveFinalizer
    <3>2. plr \in [Runs -> RunObjects]
      BY DEF TypeOK, ClusterTypeOK
    <3>3. pr' # pr => plr'[pr.name] = u
      BY <2>2, <3>1, <3>2
    <3> HIDE DEF u
    <3> QED BY <2>2, <2>4, <3>1, <3>3 DEF Copies
  <2> QED BY <1>3, <2>1, <2>2, <2>5 DEF FlakedInv
<1>7. CASE DeleteRun
  <2>1. pr # Nil /\ pr.name \in Runs /\ pr.phase = "flaked"
    BY <1>7 DEF DeleteRun, TypeOK, FlakedInv, Copies
  <2>2. plr'[pr.name].phase = "flaked"
    BY <1>1, <2>1 DEF CopyIsOfRun, Advances
  <2>3. retired' \subseteq retired \cup {pr.name} /\ pc' \in {"retrigger", "done"}
    BY <1>7 DEF DeleteRun, Return
  <2> QED BY <1>3, <2>2, <2>3 DEF FlakedInv
<1>8. CASE /\ retired' = retired
           /\ \/ pc' \notin {"finalizer", "delete"}
              \/ pc' = pc /\ pr' = pr
  BY <1>3, <1>8 DEF FlakedInv
<1>9. CASE \/ PollNothing \/ (\E r \in Runs : PollRun(r)) \/ PollTimeout
           \/ CommitFile \/ GetFileMetaData \/ AnnotateComponent
  BY <1>8, <1>9 DEF PollNothing, PollRun, PollTimeout, CommitFile,
                    GetFileMetaData, AnnotateComponent, Return
<1>10. CASE \/ RetriggerError \/ AwaitNewRun \/ AwaitDeadline \/ Tick \/ Cluster
            \/ UNCHANGED vars
  BY <1>8, <1>10 DEF RetriggerError, AwaitNewRun, AwaitDeadline, Tick, Cluster,
                     Return, waiterVars, vars
<1> QED BY <1>5, <1>6, <1>7, <1>9, <1>10 DEF Next, Waiter, Retrigger

\* Every sha the wait, the runs and the triggers know is of a commit made.
LEMMA NextCommitOrder ==
    ASSUME TypeOK, CommitOrder, [Next]_vars
    PROVE  CommitOrder'
<1>1. commits \in Nat /\ commits' \in Nat /\ newSha \in Nat
  BY NextType DEF TypeOK, ClusterTypeOK
<1>2. plr \in [Runs -> RunObjects] /\ pending \in SUBSET Triggers
  BY DEF TypeOK, ClusterTypeOK
<1>3. \A r \in Runs : plr[r].sha \in Nat
  BY <1>2 DEF RunObjects
<1>4. \A t \in pending : t.sha \in Nat
  BY <1>2 DEF Triggers
<1>5. commits <= commits' /\ \A r \in Runs : plr'[r].sha <= commits'
  <2>1. CASE \E r \in Runs : CreateRun(r)
    <3>1. PICK r \in Runs, t \in pending, fin \in SUBSET {"ctl"} :
            plr' = [plr EXCEPT ![r] = [st |-> "live", phase |-> "running",
                                       sha |-> t.sha, event |-> t.event,
                                       fin |-> fin]]
      BY <2>1 DEF CreateRun
    <3>2. commits' = commits
      BY <2>1 DEF CreateRun
    <3>3. \A q \in Runs : plr'[q].sha = IF q = r THEN t.sha ELSE plr[q].sha
      BY <1>2, <3>1
    <3> QED BY <1>1, <1>3, <1>4, <3>2, <3>3 DEF CommitOrder
  <2>2. CASE \A r \in Runs : plr'[r].sha = plr[r].sha
    <3>1. commits <= commits'
      BY StepAdvances DEF Advances
    <3> QED BY <1>1, <1>3, <2>2, <3>1 DEF CommitOrder
  <2>3. ASSUME NEW r \in Runs,
               FinishRun(r) \/ DropFinalizer(r) \/ Prune(r)
                 \/ AddFinalizerToPipelineRun(r)
        PROVE  \A q \in Runs : plr'[q].sha = plr[q].sha
    <3>1. plr[r].st # "none"
      BY <2>3 DEF FinishRun, DropFinalizer, Prune, AddFinalizerToPipelineRun, Listed
    <3>2. \A q \in Runs : q # r => plr'[q] = plr[q]
      BY <1>2, <2>3 DEF FinishRun, DropFinalizer, Prune, AddFinalizerToPipelineRun
    <3> QED BY <3>1, <3>2, StepAdvances DEF Advances
  <2>4. ASSUME RemoveFinalizer \/ DeleteRun
        PROVE  \A q \in Runs : plr'[q].sha = plr[q].sha
    <3>1. \A q \in Runs : q # pr.name => plr'[q] = plr[q]
      BY <1>2, <2>4 DEF RemoveFinalizer, DeleteRun
    <3>2. plr' = plr \/ plr[pr.name].st # "none"
      BY <2>4 DEF RemoveFinalizer, DeleteRun, Listed
    <3> QED BY <3>1, <3>2, StepAdvances DEF Advances
  <2>5. plr' = plr => \A q \in Runs : plr'[q].sha = plr[q].sha
    OBVIOUS
  <2>6. \/ plr' = plr \/ RemoveFinalizer \/ DeleteRun
        \/ \E r \in Runs : \/ CreateRun(r) \/ FinishRun(r) \/ DropFinalizer(r)
                           \/ Prune(r) \/ AddFinalizerToPipelineRun(r)
    BY DEF Next, Waiter, Retrigger, PollNothing, PollRun, PollTimeout, Decide,
           CommitFile, GetFileMetaData, AnnotateComponent, RetriggerError,
           AwaitNewRun, AwaitDeadline, Tick, Cluster, ClusterNext, Push, vars,
           clusterVars
  <2> QED BY <2>1, <2>2, <2>3, <2>4, <2>5, <2>6
<1>6. \A t \in pending' : t.sha <= commits'
  <2>1. CASE pending' \subseteq pending
    BY <1>1, <1>4, <1>5, <2>1 DEF CommitOrder
  <2>2. CASE Push \/ CommitFile
    <3>1. commits' = commits + 1
      BY <2>2 DEF Push, CommitFile
    <3>2. \E e : pending' = pending \cup {[sha |-> commits', event |-> e]}
      BY <2>2 DEF Push, CommitFile
    <3> QED BY <1>1, <1>4, <3>1, <3>2 DEF CommitOrder
  <2>3. CASE AnnotateComponent
    <3>1. FirstTrigger.sha = 0 /\ pending' = pending \cup {FirstTrigger}
      BY <2>3 DEF AnnotateComponent, FirstTrigger, NoSha
    <3>2. commits' = commits
      BY <2>3 DEF AnnotateComponent
    <3> QED BY <1>1, <1>4, <3>1, <3>2 DEF CommitOrder
  <2>4. pending' \subseteq pending \/ Push \/ CommitFile \/ AnnotateComponent
    BY DEF Next, Waiter, Retrigger, PollNothing, PollRun, PollTimeout, Decide,
           RemoveFinalizer, DeleteRun, GetFileMetaData, RetriggerError,
           AwaitNewRun, AwaitDeadline, Tick, Cluster, ClusterNext, CreateRun,
           FinishRun, DropFinalizer, Prune, AddFinalizerToPipelineRun, vars,
           clusterVars
  <2> QED BY <2>1, <2>2, <2>3, <2>4
<1>7. newSha' <= commits'
  <2>1. newSha' = newSha \/ newSha' = commits' \/ newSha' = 0
    BY DEF Next, Waiter, Retrigger, PollNothing, PollRun, PollTimeout, Decide,
           RemoveFinalizer, DeleteRun, CommitFile, GetFileMetaData,
           AnnotateComponent, RetriggerError, AwaitNewRun, AwaitDeadline, Tick,
           Cluster, waiterVars, vars, clusterVars, NoSha
  <2> QED BY <1>1, <1>5, <2>1 DEF CommitOrder
<1> QED BY <1>5, <1>6, <1>7 DEF CommitOrder

\* The sha the wait asks for is newer than every run it deleted: the commit
\* of the retrigger is made after the deletion.
LEMMA NextRetiredOlder ==
    ASSUME PaC, TypeOK, CopyIsOfRun, RetiredExist, CommitOrder, RetiredOlder,
           [Next]_vars
    PROVE  RetiredOlder'
<1>1. commits \in Nat /\ commits' \in Nat /\ newSha \in Nat /\ sha \in Nat
  BY NextType DEF TypeOK, ClusterTypeOK
<1>2. retired \in SUBSET Runs /\ \A r \in Runs : plr[r].sha \in Nat
  BY DEF TypeOK, ClusterTypeOK, RunObjects
<1>3. commits <= commits' /\ \A r \in retired : plr'[r].sha = plr[r].sha
  BY <1>2, StepAdvances DEF Advances, RetiredExist
<1>4. CASE DeleteRun
  BY <1>4 DEF DeleteRun, Return, RetiredOlder
<1>5. CASE CommitFile
  <2>1. commits' = commits + 1 /\ retired' = retired
    BY <1>5 DEF CommitFile
  <2>2. pc' = "metadata" \/ (pc' = "await" /\ newSha' = commits')
    BY <1>5 DEF CommitFile
  <2>3. \A r \in retired : plr'[r].sha < commits'
    BY <1>1, <1>2, <1>3, <2>1 DEF CommitOrder
  <2> QED BY <2>1, <2>2, <2>3 DEF RetiredOlder
<1>6. CASE GetFileMetaData
  <2>1. pc = "metadata" /\ pc' = "await" /\ newSha' = commits /\ retired' = retired
    BY <1>6 DEF GetFileMetaData
  <2> QED BY <1>3, <2>1 DEF RetiredOlder
<1>7. CASE AwaitNewRun
  <2>1. pc = "await" /\ pc' = "poll" /\ sha' = newSha /\ retired' = retired
    BY <1>7 DEF AwaitNewRun
  <2> QED BY <1>3, <2>1 DEF RetiredOlder
<1>8. CASE AnnotateComponent
  BY <1>8 DEF AnnotateComponent
<1>9. CASE /\ retired' = retired /\ sha' = sha /\ newSha' = newSha
           /\ \/ pc' = pc
              \/ pc = "poll" /\ pc' = "decide"
              \/ pc' \in {"finalizer", "delete", "done"}
  <2>1. \A r \in retired : plr[r].sha < commits => plr'[r].sha < commits'
    BY <1>1, <1>2, <1>3
  <2> QED BY <1>3, <1>9, <2>1 DEF RetiredOlder
<1>10. CASE PollNothing \/ (\E r \in Runs : PollRun(r)) \/ PollTimeout \/ Decide
  BY <1>9, <1>10 DEF PollNothing, PollRun, PollTimeout, Decide, Return, TypeOK
<1>11. CASE RemoveFinalizer \/ RetriggerError \/ AwaitDeadline
  BY <1>9, <1>11 DEF RemoveFinalizer, RetriggerError, AwaitDeadline, Return
<1>12. CASE Tick \/ Cluster \/ UNCHANGED vars
  BY <1>9, <1>12 DEF Tick, Cluster, waiterVars, vars
<1> QED BY <1>4, <1>5, <1>6, <1>7, <1>8, <1>10, <1>11, <1>12
        DEF Next, Waiter, Retrigger

\* A run of a poll matches the sha asked for, so it is not a deleted one.
LEMMA PolledRunIsFresh ==
    ASSUME PaC, TypeOK, RetiredOlder, NEW r \in Runs, PollRun(r)
    PROVE  r \notin retired /\ (sha # NoSha => plr[r].sha = sha)
<1>1. Matching(r) /\ pc = "poll"
  BY DEF PollRun, IsFirst
<1>2. sha # NoSha => plr[r].sha = sha
  BY <1>1 DEF Matching
<1>3. sha \in Nat /\ plr[r].sha \in Nat
  BY DEF TypeOK, ClusterTypeOK, RunObjects
<1>4. r \in retired => plr[r].sha < sha
  BY <1>1 DEF RetiredOlder
<1> QED BY <1>2, <1>3, <1>4 DEF NoSha

\* An attempt never turns to a run that was deleted on an earlier one.
LEMMA NextFresh ==
    ASSUME PaC, TypeOK, RetiredOlder, AttemptJudgesFreshRun, [Next]_vars
    PROVE  AttemptJudgesFreshRun'
<1>1. ASSUME NEW r \in Runs, PollRun(r) PROVE AttemptJudgesFreshRun'
  <2>1. r \notin retired
    BY <1>1, PolledRunIsFresh
  <2>2. pr' = Copy(r) /\ retired' = retired
    BY <1>1 DEF PollRun
  <2>3. pr'.name = r
    BY <2>2 DEF Copy
  <2> QED BY <2>1, <2>2, <2>3 DEF AttemptJudgesFreshRun
<1>2. CASE pr' = Nil \/ prFound' = FALSE \/ pc' \notin {"poll", "decide"}
  BY <1>2 DEF AttemptJudgesFreshRun
<1>3. CASE /\ pr' = pr /\ prFound' = prFound /\ retired' = retired
           /\ pc' = pc \/ (pc = "poll" /\ pc' = "decide")
  BY <1>3 DEF AttemptJudgesFreshRun
<1>4. CASE PollNothing \/ PollTimeout \/ Decide \/ RemoveFinalizer \/ DeleteRun
  BY <1>2, <1>3, <1>4 DEF PollNothing, PollTimeout, Decide, RemoveFinalizer,
                          DeleteRun, Return, TypeOK
<1>5. CASE CommitFile \/ GetFileMetaData \/ AnnotateComponent \/ RetriggerError
  BY <1>2, <1>5 DEF CommitFile, GetFileMetaData, AnnotateComponent,
                    RetriggerError, Return
<1>6. CASE AwaitNewRun \/ AwaitDeadline \/ Tick \/ Cluster \/ UNCHANGED vars
  BY <1>2, <1>3, <1>6 DEF AwaitNewRun, AwaitDeadline, Tick, Cluster, Return,
                          waiterVars, vars
<1> QED BY <1>1, <1>4, <1>5, <1>6 DEF Next, Waiter, Retrigger

\* A success is reported for a run that succeeded and is not deleted.
LEMMA NextOkInv ==
    ASSUME PaC, TypeOK, RetiredOlder, OkInv, [Next]_vars
    PROVE  OkInv'
<1>1. ASSUME NEW r \in Runs, PollRun(r) PROVE OkInv'
  <2>1. r \notin retired /\ (sha # NoSha => plr[r].sha = sha)
    BY <1>1, PolledRunIsFresh
  <2>2. /\ plr' = plr /\ sha' = sha /\ retired' = retired /\ pr' = Copy(r)
        /\ plr[r].st # "none" /\ pc = "poll"
    BY <1>1 DEF PollRun, clusterVars, IsFirst, Matching, Listed
  <2>3. Copy(r) # Nil /\ Copy(r).name = r
    BY CopyType, NilAssumption DEF TypeOK, Copy
  <2>4. CASE plr[r].phase = "succeeded"
    <3>1. pc' = "done" /\ result' = "ok" /\ prToUpdate' = Copy(r)
      BY <1>1, <2>2, <2>4 DEF PollRun, Return
    <3> QED BY <2>1, <2>2, <2>3, <2>4, <3>1 DEF OkInv, SuccessIsReal
  <2>5. CASE plr[r].phase # "succeeded"
    <3>1. result' = result /\ prToUpdate' = prToUpdate
      BY <1>1, <2>5 DEF PollRun
    <3>2. result # "ok"
      BY <2>2 DEF OkInv
    <3> QED BY <2>2, <3>1, <3>2 DEF OkInv, SuccessIsReal
  <2> QED BY <2>4, <2>5
<1>2. prToUpdate # Nil => prToUpdate.name \in Runs
  BY DEF TypeOK, Copies
<1>3. CASE prToUpdate' = prToUpdate /\ result' # "ok"
  BY <1>2, <1>3, StepAdvances DEF OkInv, SuccessIsReal, Advances
<1>4. CASE /\ prToUpdate' = prToUpdate /\ pc' = pc /\ result' = result
           /\ sha' = sha /\ retired' = retired
  BY <1>2, <1>4, StepAdvances DEF OkInv, SuccessIsReal, Advances
<1>5. pc # "done" => result # "ok"
  BY DEF OkInv
<1>6. CASE PollNothing \/ PollTimeout \/ Decide \/ RemoveFinalizer \/ DeleteRun
  BY <1>3, <1>5, <1>6 DEF PollNothing, PollTimeout, Decide, RemoveFinalizer,
                          DeleteRun, Return
<1>7. CASE CommitFile \/ GetFileMetaData \/ AnnotateComponent \/ RetriggerError
  BY <1>3, <1>5, <1>7 DEF CommitFile, GetFileMetaData, AnnotateComponent,
                          RetriggerError, Return
<1>8. CASE AwaitNewRun \/ AwaitDeadline
  BY <1>3, <1>5, <1>8 DEF AwaitNewRun, AwaitDeadline, Return
<1>9. CASE Tick \/ Cluster \/ UNCHANGED vars
  BY <1>4, <1>9 DEF Tick, Cluster, waiterVars, vars
<1> QED BY <1>1, <1>6, <1>7, <1>8, <1>9 DEF Next, Waiter, Retrigger

-----------------------------------------------------------------------------
(* The theorems.                                                           *)

\* The inductive invariant holds when the wait is called.
LEMMA InitIInv == Init => IInv
<1> SUFFICES ASSUME Init PROVE IInv
  OBVIOUS
<1>1. TypeOK
  BY InitType
<1>2. retired = {} /\ pr = Nil /\ prToUpdate = Nil /\ attempts = 1 /\ pc = "poll"
      /\ result = "none" /\ newSha = 0 /\ commits = 1
  BY DEF Init, ClusterInit, NoSha
<1>3. CommitOrder
  <2>1. FirstTrigger.sha <= 1
    BY PaCAssumption DEF FirstTrigger, NoSha
  <2>2. pending = {FirstTrigger} /\ \A r \in Runs : plr[r].sha = 0
    BY DEF Init, ClusterInit, NoSha
  <2> QED BY <1>2, <2>1, <2>2 DEF CommitOrder
<1>4. BudgetInv
  <2>1. IsFiniteSet({}) /\ Cardinality({}) = 0
    BY FS_EmptySet
  <2> QED BY <1>2, <2>1, RetriesAssumption DEF BudgetInv, Replacing
<1>5. CopyIsOfRun /\ RetiredExist /\ RetiredOlder /\ AttemptJudgesFreshRun /\ FlakedInv
  BY <1>2 DEF CopyIsOfRun, RetiredExist, RetiredOlder, AttemptJudgesFreshRun, FlakedInv
<1>6. OkInv
  BY <1>2 DEF OkInv, SuccessIsReal
<1> QED BY <1>1, <1>3, <1>4, <1>5, <1>6 DEF IInv

\* Every step keeps the inductive invariant.
LEMMA NextIInv == IInv /\ [Next]_vars => IInv'
<1> SUFFICES ASSUME IInv, [Next]_vars PROVE IInv'
  OBVIOUS
<1>1. TypeOK' /\ CopyIsOfRun' /\ RetiredExist' /\ CommitOrder'
  BY NextType, NextCopyIsOfRun, NextRetiredExist, NextCommitOrder DEF IInv
<1>2. BudgetInv' /\ FlakedInv'
  BY NextBudgetInv, NextFlakedInv DEF IInv
<1>3. PaC => RetiredOlder' /\ AttemptJudgesFreshRun' /\ OkInv'
  BY NextRetiredOlder, NextFresh, NextOkInv DEF IInv
<1> QED BY <1>1, <1>2, <1>3 DEF IInv

\* The inductive invariant holds throughout.
LEMMA Invariance == Spec => []IInv
  BY InitIInv, NextIInv, PTL DEF Spec

\* For PaC builds the wait never judges a run it deleted itself, for every
\* number of runs, retries and concurrent commits: the sha returned by
\* RetriggerComponentPipelineRun is newer than that of every deleted run.
THEOREM FreshRuns ==
    ASSUME PaC = TRUE
    PROVE  Spec => []AttemptJudgesFreshRun
<1>1. IInv => AttemptJudgesFreshRun
  BY DEF IInv
<1> QED BY <1>1, Invariance, PTL

\* For PaC builds a nil error of WaitForComponentPipelineToBeFinished means
\* that the run handed to the caller succeeded and was not deleted.
THEOREM SuccessesAreReal ==
    ASSUME PaC = TRUE
    PROVE  Spec => []SuccessIsReal
<1>1. IInv => SuccessIsReal
  BY DEF IInv, OkInv
<1> QED BY <1>1, Invariance, PTL

\* WaitForComponentPipelineToBeFinished deletes at most Retries runs.
THEOREM WithinBudget == Spec => []RetriggerBudget
<1>1. IInv => RetriggerBudget
  BY DEF IInv, BudgetInv, RetriggerBudget
<1> QED BY <1>1, Invariance, PTL

\* Without RetryOptions.Always the wait deletes only runs that failed with one
\* of the two known reasons, although it decides by a copy.
THEOREM OnlyFlakedRunsDeleted == Spec => []DeletesOnlyFlakedRuns
<1>1. IInv => DeletesOnlyFlakedRuns
  BY DEF IInv, FlakedInv, DeletesOnlyFlakedRuns
<1> QED BY <1>1, Invariance, PTL

\* A step of the wait or of the cluster is an attempt, an end or a stutter of
\* the bounded retry loop.
LEMMA StepIsRetryStep ==
    ASSUME IInv, [Next]_vars
    PROVE  [Retry!Next]_(Retry!vars)
<1> USE DEF Retry!Next, Retry!vars, Retry!Again, Retry!Finish
<1>1. attempts \in Nat \ {0} /\ Retries \in Nat
  BY RetriesAssumption DEF IInv, TypeOK
<1>2. CASE AwaitNewRun
  <2>1. attempts <= Retries
    BY <1>2 DEF IInv, BudgetInv, Replacing, AwaitNewRun
  <2>2. pc = "await" /\ pc' = "poll" /\ attempts' = attempts + 1
    BY <1>2 DEF AwaitNewRun
  <2> QED BY <1>1, <2>1, <2>2
<1>3. CASE attempts' = attempts /\ pc # "done"
  BY <1>3
<1>4. CASE attempts' = attempts /\ pc' = pc /\ result' = result
  BY <1>4
<1>5. CASE \/ PollNothing \/ (\E r \in Runs : PollRun(r)) \/ PollTimeout
           \/ Decide \/ RemoveFinalizer \/ DeleteRun \/ CommitFile
           \/ GetFileMetaData \/ AnnotateComponent \/ RetriggerError
           \/ AwaitDeadline
  BY <1>3, <1>5 DEF PollNothing, PollRun, PollTimeout, Decide, RemoveFinalizer,
                    DeleteRun, CommitFile, GetFileMetaData, AnnotateComponent,
                    RetriggerError, AwaitDeadline
<1>6. CASE Tick \/ Cluster \/ UNCHANGED vars
  BY <1>4, <1>6 DEF Tick, Cluster, waiterVars, vars
<1> QED BY <1>2, <1>5, <1>6 DEF Next, Waiter, Retrigger

\* The wait implements a bounded retry loop of Retries + 1 attempts.
THEOREM RefinesBoundedRetry == Spec => ImplementsBoundedRetry
<1>1. Init => Retry!Init
  BY DEF Init, Retry!Init
<1>2. IInv /\ [Next]_vars => [Retry!Next]_(Retry!vars)
  BY StepIsRetryStep
<1> QED BY <1>1, <1>2, Invariance, PTL DEF Spec, ImplementsBoundedRetry, Retry!Spec

\* What the wait asks for after a retrigger, and that its 30 minutes can only end
\* once it has found a run.
QuestionInv ==
    /\ pc \in {"poll", "decide"} /\ attempts > 1 => sha = newSha /\ eventType = AnyEvent
    /\ pc = "poll" /\ clock = "over" => prFound

\* QuestionInv is inductive by itself.
LEMMA NextQuestionInv ==
    ASSUME QuestionInv, [Next]_vars
    PROVE  QuestionInv'
<1> USE DEF QuestionInv
<1>1. CASE PollNothing \/ PollTimeout \/ \E r \in Runs : PollRun(r)
  <2>1. pc = "poll" /\ UNCHANGED <<attempts, sha, newSha, eventType, clock>> /\ (prFound => prFound')
    BY <1>1 DEF PollNothing, PollTimeout, PollRun
  <2> QED BY <2>1
<1>2. CASE AwaitNewRun
  <2>1. sha' = newSha /\ newSha' = newSha /\ eventType' = AnyEvent /\ clock' = "early"
    BY <1>2 DEF AwaitNewRun
  <2> QED BY <2>1
<1>3. CASE \/ Decide \/ RemoveFinalizer \/ DeleteRun \/ CommitFile \/ GetFileMetaData
           \/ AnnotateComponent \/ RetriggerError \/ AwaitDeadline
  <2>1. pc' \notin {"poll", "decide"}
    BY <1>3 DEF Decide, RemoveFinalizer, DeleteRun, CommitFile, GetFileMetaData,
                AnnotateComponent, RetriggerError, AwaitDeadline, Return
  <2> QED BY <2>1
<1>4. CASE Tick
  <2>1. /\ UNCHANGED <<pc, attempts, sha, newSha, eventType, prFound>>
        /\ pc = "poll" /\ clock' = "over" => prFound
    BY <1>4 DEF Tick
  <2> QED BY <2>1
<1>5. CASE Cluster \/ UNCHANGED vars
  BY <1>5 DEF Cluster, waiterVars, vars
<1> QED BY <1>1, <1>2, <1>3, <1>4, <1>5 DEF Next, Waiter, Retrigger

\* When the wait gives up with "was not created" after a retrigger, no run of the
\* commit it pushed is listed.
THEOREM NotCreatedVerdicts == Spec => NotCreatedIsTrue
<1> DEFINE Verdict ==
        (/\ pc = "poll" /\ pc' = "decide" /\ ~prFound'
         /\ err' = "no pipelinerun found" /\ attempts > 1)
            => \A r \in Runs : Listed(r) => plr[r].sha # newSha
<1>1. Init => QuestionInv
  BY DEF Init, QuestionInv
<1>2. QuestionInv /\ [Next]_vars => QuestionInv'
  BY NextQuestionInv
<1>3. QuestionInv /\ [Next]_vars => [Verdict]_vars
  <2> SUFFICES ASSUME QuestionInv, Next, pc = "poll", pc' = "decide", ~prFound',
                      err' = "no pipelinerun found", attempts > 1, NEW r \in Runs, Listed(r)
               PROVE  plr[r].sha # newSha
    OBVIOUS
  <2>1. PollNothing \/ PollTimeout \/ \E q \in Runs : PollRun(q)
    BY DEF Next, Waiter, Retrigger, Decide, RemoveFinalizer, DeleteRun, CommitFile, GetFileMetaData,
           AnnotateComponent, RetriggerError, AwaitNewRun, AwaitDeadline, Tick, Cluster, waiterVars
  <2>2. CASE PollNothing
    <3>1. ~Matching(r) /\ sha = newSha /\ eventType = AnyEvent
      BY <2>2 DEF PollNothing, QuestionInv
    <3> QED BY <3>1 DEF Matching
  <2>3. CASE PollTimeout
    BY <2>3 DEF PollTimeout, QuestionInv
  <2>4. CASE \E q \in Runs : PollRun(q)
    BY <2>4 DEF PollRun
  <2> QED BY <2>1, <2>2, <2>3, <2>4
<1>4. Spec => []QuestionInv
  BY <1>1, <1>2, PTL DEF Spec
<1>5. [][Verdict]_vars => NotCreatedIsTrue
  BY DEF NotCreatedIsTrue
<1> QED BY <1>3, <1>4, <1>5, PTL DEF Spec
=============================================================================

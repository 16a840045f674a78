----------------------------- MODULE ReleaseFlow -----------------------------
(***************************************************************************)
(* A component on its way from the build to the release, as a suite        *)
(* follows it with pkg/clients/integration, release and tekton: wait for   *)
(* the build PipelineRun, for its annotation, for the Snapshot, for the    *)
(* integration PipelineRuns of all scenarios and their finalizers, for the *)
(* Release and its PipelineRun; run one more pipeline, and delete all      *)
(* PipelineRuns.  Every wait polls by labels, while Konflux goes on.       *)
(***************************************************************************)
EXTENDS Naturals, Sequences, FiniteSets

CONSTANTS
    Scenarios, \* integration test scenarios
    Expected,  \* the ones the suite names; the empty set names all
    MaxBuilds, MaxTests, MaxReleases, \* bounds on PipelineRuns of each kind
    Outer,     \* limit of WaitForBuildPipelineRunToGetAnnotated (5 minutes)
    Inner,     \* limit of GetBuildPipelineRun (20 minutes)
    MaxFaults, \* bound on failing deletions
    Nil

ASSUME ExpectedAssumption == Expected \subseteq Scenarios
ASSUME LimitsAssumption == {Outer, Inner, MaxBuilds, MaxTests, MaxReleases, MaxFaults} \subseteq Nat
ASSUME NilAssumption == Nil \notin Nat

VARIABLES
    runs,      \* the PipelineRuns that were ever created
    signed,    \* builds with the annotation
    snapshots, \* builds that have a Snapshot
    scenarios, \* the scenarios that exist
    releases,  \* Snapshots that have a Release
    pc,
    byRun,     \* the suite asks for the Snapshot of its build, not of the component
    plr,       \* the build it took, or Nil
    snap,      \* the Snapshot it took, or Nil
    todo,      \* scenarios or PipelineRuns of the running loop
    listed,    \* history: the scenarios, and later the PipelineRuns, it listed
    elapsed, lookup, spent, \* the wait for the annotation: time, inner wait and its time
    faults

konflux == <<runs, signed, snapshots, scenarios, releases>>
clock == <<elapsed, lookup, spent>>
vars == <<konflux, pc, byRun, plr, snap, todo, listed, clock, faults>>

Run == [kind : {"build", "test", "release", "ec"}, of : Nat,
        scenario : Scenarios \cup {Nil},
        state : {"created", "running", "succeeded", "failed"}, start : Nat,
        finalizer : BOOLEAN, gone : BOOLEAN, deleting : BOOLEAN]

Ended == {"done", "failed"}

Kind(k) == {r \in DOMAIN runs : runs[r].kind = k /\ ~runs[r].gone}
Ever(k) == {r \in DOMAIN runs : runs[r].kind = k}
Started(r) == runs[r].state # "created"
Done(r) == runs[r].state \in {"succeeded", "failed"}

\* A build that another suite left behind.
LeftBuild == [kind : {"build"}, of : {0}, scenario : {Nil}, state : {"running", "succeeded"},
              start : {0}, finalizer : BOOLEAN, gone : {FALSE}, deleting : {FALSE}]

\* A suite that follows a component, or one that is over and deletes what runs
\* it finds.
Init ==
    /\ \/ pc = "build" /\ runs = <<>>
       \/ pc = "cleanup" /\ runs \in [1..MaxBuilds -> LeftBuild]
    /\ signed = {}
    /\ snapshots = {}
    /\ scenarios \in IF pc = "build" THEN SUBSET Scenarios ELSE {{}}
    /\ releases = {}
    /\ byRun \in IF pc = "build" THEN BOOLEAN ELSE {FALSE}
    /\ plr = Nil
    /\ snap = Nil
    /\ todo = {}
    /\ listed = {}
    /\ elapsed = 0
    /\ lookup = 0
    /\ spent = 0
    /\ faults = 0

-----------------------------------------------------------------------------
(* Konflux.                                                                *)

\* The suite that only deletes PipelineRuns.
Cleaning == pc \in {"cleanup", "patch", "delete"}

\* A PipelineRun is created.
New(k, of, s) ==
    runs' = Append(runs, [kind |-> k, of |-> of, scenario |-> s, state |-> "created", start |-> 0,
                          finalizer |-> k = "test", gone |-> FALSE, deleting |-> FALSE])

\* Builds, integration tests and releases are started by pushes, Snapshots and
\* Releases; a test may be run again, a release has one pipeline or, by mistake,
\* several.
RunCreated ==
    /\ \/ Cardinality(Ever("build")) < MaxBuilds /\ New("build", 0, Nil)
       \/ /\ Cardinality(Ever("test")) < MaxTests
          /\ \E b \in snapshots, s \in scenarios : New("test", b, s)
       \/ /\ Cardinality(Ever("release")) < MaxReleases
          /\ \E b \in releases : New("release", b, Nil)
    /\ UNCHANGED <<signed, snapshots, scenarios, releases>>

\* A PipelineRun starts, ends, and loses its finalizer; a controller gives it
\* one again before it is deleted; a build is pruned when it is done (which
\* nobody sees when the suite does not look for builds).
RunStep ==
    /\ \E r \in DOMAIN runs :
         /\ ~runs[r].gone
         /\ \/ /\ ~Started(r)
               /\ runs' = [runs EXCEPT ![r].state = "running",
                                       ![r].start = IF runs[r].kind = "build"
                                                    THEN 1 + Cardinality({b \in Ever("build") : Started(b)})
                                                    ELSE 0]
            \/ /\ runs[r].state = "running"
               /\ \E s \in {"succeeded", "failed"} : runs' = [runs EXCEPT ![r].state = s]
            \/ /\ Done(r)
               /\ runs[r].finalizer
               /\ runs' = [runs EXCEPT ![r].finalizer = FALSE, ![r].gone = runs[r].deleting]
            \/ /\ pc = "delete"
               /\ ~Done(r)
               /\ ~runs[r].finalizer
               /\ runs' = [runs EXCEPT ![r].finalizer = TRUE]
            \/ /\ Done(r)
               /\ runs[r].kind = "build"
               /\ pc \in {"build", "annotation", "patch"}
               /\ runs' = [runs EXCEPT ![r].gone = TRUE]
    /\ UNCHANGED <<signed, snapshots, scenarios, releases>>

\* A build is signed and gets its Snapshot, a scenario is added, a Snapshot
\* whose tests passed is released.
ObjectStep ==
    /\ \/ /\ \E b \in Ever("build") \ signed : runs[b].state = "succeeded" /\ signed' = signed \cup {b}
          /\ UNCHANGED <<snapshots, scenarios, releases>>
       \/ /\ \E b \in signed \ snapshots : snapshots' = snapshots \cup {b}
          /\ UNCHANGED <<signed, scenarios, releases>>
       \/ /\ \E s \in Scenarios \ scenarios : scenarios' = scenarios \cup {s}
          /\ UNCHANGED <<signed, snapshots, releases>>
       \/ /\ \E b \in snapshots \ releases :
               /\ \A s \in scenarios : \E r \in Ever("test") :
                    runs[r].of = b /\ runs[r].scenario = s /\ runs[r].state = "succeeded"
               /\ releases' = releases \cup {b}
          /\ UNCHANGED <<signed, snapshots, scenarios>>
    /\ UNCHANGED runs

Konflux ==
    /\ pc \notin Ended
    /\ RunStep \/ (~Cleaning /\ (RunCreated \/ ObjectStep))
    /\ UNCHANGED <<pc, byRun, plr, snap, todo, listed, clock, faults>>

-----------------------------------------------------------------------------
(* The build.                                                              *)

\* GetBuildPipelineRun takes the last one by StartTime; with one that has not
\* started the comparison says nothing, and any may be the last.
GetBuildPipelineRun ==
    IF \E b \in Kind("build") : ~Started(b)
    THEN Kind("build")
    ELSE {b \in Kind("build") : \A c \in Kind("build") : runs[c].start <= runs[b].start}

\* WaitForBuildPipelineToBeFinished: a failed build is an error.
WaitForBuildPipelineToBeFinished ==
    /\ pc = "build"
    /\ \E b \in GetBuildPipelineRun :
         /\ Done(b)
         /\ plr' = b
         /\ pc' = IF runs[b].state = "succeeded" THEN "annotation" ELSE "failed"
    /\ UNCHANGED <<konflux, byRun, snap, todo, listed, clock, faults>>

\* WaitForBuildPipelineRunToGetAnnotated polls: GetBuildPipelineRun, a wait of
\* its own, is called for the build and again by GetAnnotationIfExists.
PollAnnotation ==
    /\ pc = "annotation"
    /\ lookup = 0
    /\ elapsed <= Outer
    /\ lookup' = 1
    /\ spent' = 0
    /\ UNCHANGED <<konflux, pc, byRun, plr, snap, todo, listed, elapsed, faults>>

\* A lookup finds a build.
LookupFinds ==
    /\ pc = "annotation"
    /\ lookup > 0
    /\ \E b \in GetBuildPipelineRun :
         IF lookup = 1 THEN lookup' = 2 /\ UNCHANGED <<pc, elapsed>>
         ELSE /\ lookup' = 0
              /\ pc' = IF b \in signed THEN "snapshot" ELSE pc
              /\ elapsed' = IF b \in signed THEN 0 ELSE elapsed
    /\ spent' = 0
    /\ UNCHANGED <<konflux, byRun, plr, snap, todo, listed, faults>>

\* Mutant: a lookup that timed out is started again at once.
LookupAgain ==
    /\ pc = "annotation"
    /\ lookup > 0
    /\ spent >= Inner
    /\ spent' = 0
    /\ UNCHANGED lookup
    /\ UNCHANGED <<konflux, pc, byRun, plr, snap, todo, listed, elapsed, faults>>

\* A lookup times out: the poll has found nothing.
LookupTimesOut ==
    /\ pc = "annotation"
    /\ lookup > 0
    /\ spent >= Inner
    /\ lookup' = 0
    /\ spent' = 0
    /\ UNCHANGED <<konflux, pc, byRun, plr, snap, todo, listed, elapsed, faults>>

\* The limit of the outer wait is looked at between polls only.
AnnotationTimesOut ==
    /\ pc = "annotation"
    /\ lookup = 0
    /\ elapsed >= Outer
    /\ pc' = "failed"
    /\ UNCHANGED <<konflux, byRun, plr, snap, todo, listed, clock, faults>>

\* Time passes, in units of five minutes; no limit is overrun by more than the
\* polling interval.
Tick ==
    /\ pc = "annotation"
    /\ IF lookup = 0 THEN elapsed < Outer ELSE spent < Inner
    /\ elapsed <= Outer + 2 * Inner
    /\ elapsed' = elapsed + 1
    /\ spent' = IF lookup = 0 THEN spent ELSE spent + 1
    /\ UNCHANGED <<konflux, pc, byRun, plr, snap, todo, listed, lookup, faults>>

-----------------------------------------------------------------------------
(* The Snapshot and its tests.                                             *)

\* GetSnapshot: the Snapshot of the build; if the component is named as well, any
\* Snapshot of the component, as the list has no order.
GetSnapshot == {b \in snapshots : byRun => b = plr}

\* WaitForSnapshotToGetCreated.
WaitForSnapshotToGetCreated ==
    /\ pc = "snapshot"
    /\ \E b \in GetSnapshot : snap' = b
    /\ pc' = "tests"
    /\ UNCHANGED <<konflux, byRun, plr, todo, listed, clock, faults>>

\* CreateIntegrationPipelineRun: the suite starts a test of its own.
CreateIntegrationPipelineRun ==
    /\ pc = "tests"
    /\ Cardinality(Ever("test")) < MaxTests
    /\ \E s \in scenarios : New("test", snap, s) /\ todo' = {s}
    /\ pc' = "testStart"
    /\ UNCHANGED <<signed, snapshots, scenarios, releases, byRun, plr, snap, listed, clock, faults>>

\* GetIntegrationTestScenarios, filtered by what the caller expects: a scenario
\* that is not there yet is not waited for.
ListScenarios ==
    /\ pc \in {"tests", "finalizers"}
    /\ todo' = IF Expected = {} THEN scenarios ELSE scenarios \cap Expected
    /\ listed' = IF pc = "tests" THEN todo' ELSE listed
    /\ pc' = IF pc = "tests" THEN "testWait" ELSE "finalizerWait"
    /\ UNCHANGED <<konflux, byRun, plr, snap, clock, faults>>

\* Mutant: the label of the snapshot is left out.
AnyIntegrationPipelineRun(s) == {r \in Kind("test") : runs[r].scenario = s}

\* GetIntegrationPipelineRun: one of the scenario's runs for the Snapshot.
GetIntegrationPipelineRun(s) ==
    {r \in Kind("test") : runs[r].scenario = s /\ runs[r].of = snap}

\* WaitForIntegrationPipelineToGetStarted, for the test the suite created (or
\* for another one of the same scenario).
WaitForIntegrationPipelineToGetStarted ==
    /\ pc = "testStart"
    /\ \E s \in todo : \E r \in GetIntegrationPipelineRun(s) : Started(r)
    /\ todo' = {}
    /\ pc' = "tests"
    /\ UNCHANGED <<konflux, byRun, plr, snap, listed, clock, faults>>

\* WaitForIntegrationPipelineToBeFinished, for one scenario after the other: a
\* failed run ends all.
WaitForIntegrationPipelineToBeFinished ==
    /\ pc = "testWait"
    /\ \E s \in todo : \E r \in GetIntegrationPipelineRun(s) :
         /\ Done(r)
         /\ \/ runs[r].state = "succeeded" /\ todo' = todo \ {s} /\ UNCHANGED pc
            \/ runs[r].state = "failed" /\ pc' = "failed" /\ UNCHANGED todo
    /\ UNCHANGED <<konflux, byRun, plr, snap, listed, clock, faults>>

\* WaitForFinalizerToGetRemovedFromIntegrationPipeline, in the same way.
WaitForFinalizerToGetRemoved ==
    /\ pc = "finalizerWait"
    /\ \E s \in todo : \E r \in GetIntegrationPipelineRun(s) :
         ~runs[r].finalizer /\ todo' = todo \ {s}
    /\ UNCHANGED <<konflux, pc, byRun, plr, snap, listed, clock, faults>>

\* The loops over the scenarios end.
LoopEnds ==
    /\ pc \in {"testWait", "finalizerWait"}
    /\ todo = {}
    /\ pc' = IF pc = "testWait" THEN "finalizers" ELSE "release"
    /\ UNCHANGED <<konflux, byRun, plr, snap, todo, listed, clock, faults>>

-----------------------------------------------------------------------------
(* The Release, one more PipelineRun, and the end.                         *)

\* CreateRelease: the suite releases the Snapshot itself.
CreateRelease ==
    /\ pc = "release"
    /\ snap \notin releases
    /\ releases' = releases \cup {snap}
    /\ UNCHANGED <<runs, signed, snapshots, scenarios, pc, byRun, plr, snap, todo, listed, clock, faults>>

\* GetRelease by the Snapshot's name.
GetRelease ==
    /\ pc = "release"
    /\ snap \in releases
    /\ pc' = "releaseStart"
    /\ UNCHANGED <<konflux, byRun, plr, snap, todo, listed, clock, faults>>

\* GetPipelineRunInNamespace: with more than one it is an error.
GetPipelineRunInNamespace ==
    {r \in Kind("release") : runs[r].of = snap /\ Cardinality({q \in Kind("release") : runs[q].of = snap}) = 1}

\* WaitForReleasePipelineToGetStarted.
WaitForReleasePipelineToGetStarted ==
    /\ pc = "releaseStart"
    /\ \E r \in GetPipelineRunInNamespace : Started(r)
    /\ pc' = "releaseWait"
    /\ UNCHANGED <<konflux, byRun, plr, snap, todo, listed, clock, faults>>

\* WaitForReleasePipelineToBeFinished.
WaitForReleasePipelineToBeFinished ==
    /\ pc = "releaseWait"
    /\ \E r \in GetPipelineRunInNamespace :
         Done(r) /\ pc' = IF runs[r].state = "succeeded" THEN "ec" ELSE "failed"
    /\ UNCHANGED <<konflux, byRun, plr, snap, todo, listed, clock, faults>>

\* RunPipelineWithRetry creates a PipelineRun ...
RunPipelineWithRetry ==
    /\ pc = "ec"
    /\ New("ec", 0, Nil)
    /\ pc' = "ecStart"
    /\ UNCHANGED <<signed, snapshots, scenarios, releases, byRun, plr, snap, todo, listed, clock, faults>>

\* ... and waits until it started.  The reason it then looks at is the one of
\* the object that Create returned, which has none: it never tries again.
CheckPipelineRunStarted ==
    /\ pc = "ecStart"
    /\ \E r \in Kind("ec") : Started(r)
    /\ pc' = "done"
    /\ UNCHANGED <<konflux, byRun, plr, snap, todo, listed, clock, faults>>

\* DeleteAllPipelineRunsInASpecificNamespace lists them.
ListAllPipelineRuns ==
    /\ pc = "cleanup"
    /\ todo' = {r \in DOMAIN runs : ~runs[r].gone}
    /\ listed' = todo'
    /\ pc' = "patch"
    /\ UNCHANGED <<konflux, byRun, plr, snap, clock, faults>>

\* DeletePipelineRunIgnoreFinalizers removes the finalizers: one that is gone is
\* fine, and one that has none cannot be patched and is tried until the time is
\* up.
PatchPipelineRun ==
    /\ pc = "patch"
    /\ \E r \in todo :
         \/ /\ runs[r].gone
            /\ todo' = todo \ {r}
            /\ UNCHANGED <<runs, pc, plr>>
         \/ /\ ~runs[r].gone
            /\ runs[r].finalizer
            /\ runs' = [runs EXCEPT ![r].finalizer = FALSE, ![r].gone = runs[r].deleting]
            /\ plr' = r
            /\ pc' = "delete"
            /\ UNCHANGED todo
    /\ UNCHANGED <<signed, snapshots, scenarios, releases, byRun, snap, listed, clock, faults>>

\* Mutant: a deletion that failed is not tried again.
DeletePipelineRunOnce ==
    /\ pc = "delete"
    /\ todo' = todo \ {plr}
    /\ pc' = "patch"
    /\ \/ runs' = [runs EXCEPT ![plr].deleting = TRUE, ![plr].gone = @ \/ ~runs[plr].finalizer] /\ UNCHANGED faults
       \/ faults < MaxFaults /\ faults' = faults + 1 /\ UNCHANGED runs
    /\ UNCHANGED <<signed, snapshots, scenarios, releases, byRun, plr, snap, listed, clock>>

\* Then it deletes the PipelineRun, which goes at once unless a controller was
\* faster with a finalizer; after an error it begins with the patch again.
DeletePipelineRun ==
    /\ pc = "delete"
    /\ pc' = "patch"
    /\ \/ /\ runs' = [runs EXCEPT ![plr].deleting = TRUE,
                                  ![plr].gone = @ \/ ~runs[plr].finalizer]
          /\ todo' = todo \ {plr}
          /\ UNCHANGED faults
       \/ faults < MaxFaults /\ faults' = faults + 1 /\ UNCHANGED <<runs, todo>>
    /\ UNCHANGED <<signed, snapshots, scenarios, releases, byRun, plr, snap, listed, clock>>

\* All are deleted.
CleanupEnds ==
    /\ pc = "patch"
    /\ todo = {}
    /\ pc' = "done"
    /\ UNCHANGED <<konflux, byRun, plr, snap, todo, listed, clock, faults>>

\* Every other wait times out at some time, and a request that is sent only once
\* may fail.
TimesOut ==
    /\ pc \notin Ended \cup {"annotation", "delete"}
    /\ pc' = "failed"
    /\ UNCHANGED <<konflux, byRun, plr, snap, todo, listed, clock, faults>>

Suite ==
    \/ WaitForBuildPipelineToBeFinished \/ PollAnnotation \/ LookupFinds \/ LookupTimesOut
    \/ AnnotationTimesOut \/ Tick \/ WaitForSnapshotToGetCreated
    \/ CreateIntegrationPipelineRun \/ WaitForIntegrationPipelineToGetStarted \/ ListScenarios
    \/ WaitForIntegrationPipelineToBeFinished \/ WaitForFinalizerToGetRemoved \/ LoopEnds
    \/ CreateRelease \/ GetRelease \/ WaitForReleasePipelineToGetStarted \/ WaitForReleasePipelineToBeFinished
    \/ RunPipelineWithRetry \/ CheckPipelineRunStarted \/ ListAllPipelineRuns
    \/ PatchPipelineRun \/ DeletePipelineRun \/ CleanupEnds \/ TimesOut

Next == Suite \/ Konflux

Spec == Init /\ [][Next]_vars

-----------------------------------------------------------------------------

\* The stages of a suite before and after it has its Snapshot.
Following == {"build", "annotation", "snapshot"}
Releasing == {"tests", "testStart", "testWait", "finalizers", "finalizerWait",
              "release", "releaseStart", "releaseWait", "ec", "ecStart"}

\* Konflux's objects and what the suite took of them keep their types.
TypeOK ==
    /\ runs \in Seq(Run)
    /\ signed \subseteq DOMAIN runs
    /\ snapshots \subseteq signed
    /\ releases \subseteq snapshots
    /\ scenarios \subseteq Scenarios
    /\ pc \in Following \cup Releasing \cup {"cleanup", "patch", "delete"} \cup Ended
    /\ byRun \in BOOLEAN
    /\ {plr, snap} \subseteq DOMAIN runs \cup {Nil}
    /\ todo \cup listed \subseteq Scenarios \cup DOMAIN runs
    /\ elapsed \in Nat
    /\ lookup \in 0..2
    /\ spent \in Nat
    /\ faults \in 0..MaxFaults

\* The waits for the release are over.
Released == pc \in {"ec", "ecStart"}

\* The wait for the annotation takes at most its own limit and twice the limit
\* of the lookup it polls through, although neither inner wait knows the outer
\* one's limit.
AnnotationWaitBounded == elapsed <= Outer + 2 * Inner

\* When the suite's waits led it to a finished release, it is the release of the
\* Snapshot it took, every scenario it listed passed for this very Snapshot, and
\* the Snapshot is of a build that succeeded: of the suite's own one, if it
\* asked for that.
ReleasedWasTested ==
    Released =>
      /\ \E r \in Ever("release") : runs[r].of = snap /\ runs[r].state = "succeeded"
      /\ \A s \in listed \cap Scenarios : \E r \in Ever("test") :
           runs[r].of = snap /\ runs[r].scenario = s /\ runs[r].state = "succeeded"
      /\ runs[snap].kind = "build" /\ runs[snap].state = "succeeded"
      /\ byRun => snap = plr

\* When all PipelineRuns were deleted without error, each of them is gone or will
\* be with its finalizer, also if a deletion failed between the patch and the
\* delete or a controller put a finalizer back.
DeletedMeansGone == pc = "done" /\ snap = Nil => \A r \in listed : runs[r].gone \/ runs[r].deleting
=============================================================================

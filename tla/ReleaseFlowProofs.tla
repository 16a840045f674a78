-------------------------- MODULE ReleaseFlowProofs --------------------------
(***************************************************************************)
(* For every number of builds, scenarios, tests and releases and for every *)
(* pair of limits: the wait for the annotation is bounded, a release that  *)
(* the suite's waits led to was tested, and deleted PipelineRuns are gone. *)
(*                                                                         *)
(* Konflux goes on while the suite waits, so what the suite once saw has   *)
(* to stay true.  That is the relation Kept between the PipelineRuns       *)
(* before and after a step; the inductive invariant says for each stage of *)
(* the suite what it has seen so far.                                      *)
(***************************************************************************)
EXTENDS ReleaseFlow, FiniteSetTheorems, TLAPS

\* A test of the Snapshot that the suite took has passed.
Passed(s) ==
    \E r \in Ever("test") : runs[r].of = snap /\ runs[r].scenario = s /\ runs[r].state = "succeeded"

\* A release of this Snapshot has succeeded.
ReleaseSucceeded == \E r \in Ever("release") : runs[r].of = snap /\ runs[r].state = "succeeded"

\* The outer wait was within its limit when the poll began; since then the
\* lookups have used what is theirs.
ClockInv ==
    /\ spent <= Inner
    /\ lookup = 0 => elapsed <= Outer + 2 * Inner
    /\ lookup = 1 => elapsed <= Outer + spent
    /\ lookup = 2 => elapsed <= Outer + Inner + spent

\* Only builds that succeeded are signed.
BuildInv == \A b \in signed : runs[b].kind = "build" /\ runs[b].state = "succeeded"

\* What the suite has seen of its Snapshot, its tests and its release.
SnapshotInv == pc \in Releasing => snap \in snapshots /\ (byRun => snap = plr)

TestInv ==
    /\ pc = "testWait" => \A s \in listed \ todo : Passed(s)
    /\ pc \in Releasing \ {"tests", "testStart", "testWait"} => \A s \in listed : Passed(s)

ReleaseInv == Released => ReleaseSucceeded

\* What the suite that deletes PipelineRuns has done with the ones it listed.
GoneInv ==
    /\ Cleaning => todo \cup listed \subseteq DOMAIN runs
    /\ pc = "delete" => plr \in DOMAIN runs
    /\ pc \in {"patch", "delete"} => \A r \in listed \ todo : runs[r].gone \/ runs[r].deleting
    /\ DeletedMeansGone

\* The inductive invariant.
IInv ==
    /\ TypeOK
    /\ ClockInv
    /\ BuildInv
    /\ SnapshotInv
    /\ TestInv
    /\ ReleaseInv
    /\ GoneInv

-----------------------------------------------------------------------------
(* What becomes of PipelineRuns.                                           *)

\* A PipelineRun keeps its kind and its labels, a success stays one, and what is
\* deleted does not come back.
Kept ==
    \A r \in DOMAIN runs :
        /\ r \in DOMAIN runs'
        /\ runs'[r].kind = runs[r].kind
        /\ runs'[r].of = runs[r].of
        /\ runs'[r].scenario = runs[r].scenario
        /\ runs[r].state = "succeeded" => runs'[r].state = "succeeded"
        /\ runs[r].gone => runs'[r].gone
        /\ runs[r].deleting => runs'[r].deleting

\* A PipelineRun is replaced by another value that keeps what has to be kept.
LEMMA ReplaceRun ==
    ASSUME runs \in Seq(Run), NEW r \in DOMAIN runs, NEW s \in Run,
           runs' = [runs EXCEPT ![r] = s],
           s.kind = runs[r].kind, s.of = runs[r].of, s.scenario = runs[r].scenario,
           runs[r].state = "succeeded" => s.state = "succeeded",
           runs[r].gone => s.gone,
           runs[r].deleting => s.deleting
    PROVE  runs' \in Seq(Run) /\ DOMAIN runs' = DOMAIN runs /\ Kept
<1>1. runs' \in Seq(Run) /\ DOMAIN runs' = DOMAIN runs
  OBVIOUS
<1>2. \A q \in DOMAIN runs : runs'[q] = IF q = r THEN s ELSE runs[q]
  OBVIOUS
<1> QED BY <1>1, <1>2 DEF Kept

\* A new PipelineRun changes none of the others.
LEMMA NewRun ==
    ASSUME runs \in Seq(Run), NEW k \in {"build", "test", "release", "ec"}, NEW of \in Nat,
           NEW s \in Scenarios \cup {Nil}, New(k, of, s)
    PROVE  runs' \in Seq(Run) /\ DOMAIN runs \subseteq DOMAIN runs' /\ Kept
<1> DEFINE new == [kind |-> k, of |-> of, scenario |-> s, state |-> "created", start |-> 0,
                   finalizer |-> k = "test", gone |-> FALSE, deleting |-> FALSE]
<1>1. new \in Run
  BY DEF Run
<1>2. runs' = Append(runs, new)
  BY DEF New
<1> HIDE DEF new
<1>3. runs' \in Seq(Run) /\ DOMAIN runs = 1..Len(runs) /\ DOMAIN runs' = 1..(Len(runs) + 1)
  BY <1>1, <1>2
<1>4. \A q \in DOMAIN runs : q \in DOMAIN runs' /\ runs'[q] = runs[q]
  BY <1>1, <1>2, <1>3
<1> QED BY <1>3, <1>4 DEF Kept

\* Nothing happens to them.
LEMMA SameRuns ==
    ASSUME UNCHANGED runs
    PROVE  Kept
BY DEF Kept

\* What was seen of them stays true.
LEMMA SeenStays ==
    ASSUME Kept, UNCHANGED snap
    PROVE  /\ \A s : Passed(s) => Passed(s)'
           /\ ReleaseSucceeded => ReleaseSucceeded'
           /\ \A r \in DOMAIN runs : runs[r].gone \/ runs[r].deleting => runs'[r].gone \/ runs'[r].deleting
           /\ \A r \in DOMAIN runs : runs[r].kind = "build" /\ runs[r].state = "succeeded"
                                     => runs'[r].kind = "build" /\ runs'[r].state = "succeeded"
BY DEF Kept, Passed, ReleaseSucceeded, Ever

-----------------------------------------------------------------------------
(* The steps of Konflux.                                                   *)

\* Whatever Konflux does to a PipelineRun keeps it.
LEMMA RunStepKept ==
    ASSUME TypeOK, RunStep
    PROVE  runs' \in Seq(Run) /\ DOMAIN runs' = DOMAIN runs /\ Kept
<1>0. runs \in Seq(Run)
  BY DEF TypeOK
<1>1. PICK r \in DOMAIN runs :
         /\ ~runs[r].gone
         /\ \/ /\ ~Started(r)
               /\ \E n \in Nat : runs' = [runs EXCEPT ![r].state = "running", ![r].start = n]
            \/ /\ runs[r].state = "running"
               /\ \E s \in {"succeeded", "failed"} : runs' = [runs EXCEPT ![r].state = s]
            \/ runs' = [runs EXCEPT ![r].finalizer = FALSE, ![r].gone = runs[r].deleting]
            \/ runs' = [runs EXCEPT ![r].finalizer = TRUE]
            \/ runs' = [runs EXCEPT ![r].gone = TRUE]
  <2>1. \A r \in DOMAIN runs : (IF runs[r].kind = "build"
                                THEN 1 + Cardinality({b \in Ever("build") : Started(b)})
                                ELSE 0) \in Nat
    <3>1. {b \in Ever("build") : Started(b)} \subseteq 1..Len(runs)
      BY <1>0 DEF Ever
    <3>2. IsFiniteSet({b \in Ever("build") : Started(b)})
      BY <1>0, <3>1, FS_Interval, FS_Subset
    <3> QED BY <3>2, FS_CardinalityType
  <2> QED BY <2>1 DEF RunStep
<1>2. runs[r] \in Run
  BY <1>0
<1>3. CASE ~Started(r) /\ \E n \in Nat : runs' = [runs EXCEPT ![r].state = "running", ![r].start = n]
  <2>1. PICK n \in Nat : runs' = [runs EXCEPT ![r].state = "running", ![r].start = n]
    BY <1>3
  <2> DEFINE s == [runs[r] EXCEPT !.state = "running", !.start = n]
  <2>2. s \in Run /\ s.kind = runs[r].kind /\ s.of = runs[r].of /\ s.scenario = runs[r].scenario
        /\ s.gone = runs[r].gone /\ s.deleting = runs[r].deleting
    BY <1>2 DEF Run
  <2>3. runs' = [runs EXCEPT ![r] = s]
    BY <1>0, <2>1
  <2>4. runs[r].state # "succeeded"
    BY <1>3 DEF Started
  <2> HIDE DEF s
  <2> QED BY <1>0, <2>2, <2>3, <2>4, ReplaceRun
<1>4. CASE runs[r].state = "running" /\ \E s \in {"succeeded", "failed"} : runs' = [runs EXCEPT ![r].state = s]
  <2>1. PICK t \in {"succeeded", "failed"} : runs' = [runs EXCEPT ![r].state = t]
    BY <1>4
  <2> DEFINE s == [runs[r] EXCEPT !.state = t]
  <2>2. s \in Run /\ s.kind = runs[r].kind /\ s.of = runs[r].of /\ s.scenario = runs[r].scenario
        /\ s.gone = runs[r].gone /\ s.deleting = runs[r].deleting
    BY <1>2 DEF Run
  <2>3. runs' = [runs EXCEPT ![r] = s]
    BY <1>0, <2>1
  <2> HIDE DEF s
  <2> QED BY <1>0, <1>4, <2>2, <2>3, ReplaceRun
<1>5. CASE runs' = [runs EXCEPT ![r].finalizer = FALSE, ![r].gone = runs[r].deleting]
  <2> DEFINE s == [runs[r] EXCEPT !.finalizer = FALSE, !.gone = runs[r].deleting]
  <2>2. s \in Run /\ s.kind = runs[r].kind /\ s.of = runs[r].of /\ s.scenario = runs[r].scenario
        /\ s.state = runs[r].state /\ s.deleting = runs[r].deleting
    BY <1>2 DEF Run
  <2>3. runs' = [runs EXCEPT ![r] = s]
    BY <1>0, <1>5
  <2> HIDE DEF s
  <2> QED BY <1>0, <1>1, <2>2, <2>3, ReplaceRun
<1>6. CASE runs' = [runs EXCEPT ![r].finalizer = TRUE]
  <2> DEFINE s == [runs[r] EXCEPT !.finalizer = TRUE]
  <2>2. s \in Run /\ s.kind = runs[r].kind /\ s.of = runs[r].of /\ s.scenario = runs[r].scenario
        /\ s.state = runs[r].state /\ s.gone = runs[r].gone /\ s.deleting = runs[r].deleting
    BY <1>2 DEF Run
  <2>3. runs' = [runs EXCEPT ![r] = s]
    BY <1>0, <1>6
  <2> HIDE DEF s
  <2> QED BY <1>0, <2>2, <2>3, ReplaceRun
<1>7. CASE runs' = [runs EXCEPT ![r].gone = TRUE]
  <2> DEFINE s == [runs[r] EXCEPT !.gone = TRUE]
  <2>2. s \in Run /\ s.kind = runs[r].kind /\ s.of = runs[r].of /\ s.scenario = runs[r].scenario
        /\ s.state = runs[r].state /\ s.gone /\ s.deleting = runs[r].deleting
    BY <1>2 DEF Run
  <2>3. runs' = [runs EXCEPT ![r] = s]
    BY <1>0, <1>7
  <2> HIDE DEF s
  <2> QED BY <1>0, <2>2, <2>3, ReplaceRun
<1> QED BY <1>1, <1>3, <1>4, <1>5, <1>6, <1>7

\* The objects have their types.
ObjectsOK ==
    /\ runs \in Seq(Run)
    /\ signed \subseteq DOMAIN runs
    /\ snapshots \subseteq signed
    /\ releases \subseteq snapshots
    /\ scenarios \subseteq Scenarios

\* They keep them, and signed builds stay good ones, when only PipelineRuns
\* change.
LEMMA ObjectsStay ==
    ASSUME IInv, runs' \in Seq(Run), Kept, UNCHANGED <<signed, snapshots, scenarios, releases>>
    PROVE  ObjectsOK' /\ BuildInv'
BY DEF IInv, TypeOK, ObjectsOK, BuildInv, Kept

\* The suite knows what it knew.
LEMMA SuiteStays ==
    ASSUME IInv, ObjectsOK', BuildInv', Kept, snapshots \subseteq snapshots', pc \notin Ended,
           UNCHANGED <<pc, byRun, plr, snap, todo, listed, clock, faults>>
    PROVE  IInv'
<1> USE DEF IInv
<1>1. TypeOK'
  BY DEF TypeOK, ObjectsOK, Kept, clock, Following, Releasing, Ended
<1>2. ClockInv'
  BY DEF ClockInv, clock
<1>3. SnapshotInv'
  BY DEF SnapshotInv, Releasing
<1>4. TestInv'
  BY SeenStays DEF TestInv, Releasing
<1>5. ReleaseInv'
  BY SeenStays DEF ReleaseInv, Released
<1>6. GoneInv'
  BY SeenStays DEF GoneInv, Cleaning, DeletedMeansGone, Ended, Kept
<1> QED BY <1>1, <1>2, <1>3, <1>4, <1>5, <1>6

\* A step of Konflux.
LEMMA KonfluxIInv ==
    ASSUME IInv, Konflux
    PROVE  IInv'
<1> USE DEF IInv
<1>0. pc \notin Ended /\ UNCHANGED <<pc, byRun, plr, snap, todo, listed, clock, faults>>
  BY DEF Konflux
<1>1. CASE RunStep
  <2>1. runs' \in Seq(Run) /\ Kept /\ UNCHANGED <<signed, snapshots, scenarios, releases>>
    BY <1>1, RunStepKept DEF RunStep
  <2> QED BY <1>0, <2>1, ObjectsStay, SuiteStays
<1>2. CASE RunCreated
  <2>1. runs' \in Seq(Run) /\ Kept
    <3>1. runs \in Seq(Run) /\ snapshots \subseteq Nat /\ releases \subseteq Nat /\ scenarios \subseteq Scenarios
      BY DEF TypeOK
    <3>2. CASE New("build", 0, Nil)
      BY <3>1, <3>2, NewRun
    <3>3. CASE \E b \in snapshots, s \in scenarios : New("test", b, s)
      BY <3>1, <3>3, NewRun
    <3>4. CASE \E b \in releases : New("release", b, Nil)
      BY <3>1, <3>4, NewRun
    <3> QED BY <1>2, <3>2, <3>3, <3>4 DEF RunCreated
  <2>2. UNCHANGED <<signed, snapshots, scenarios, releases>>
    BY <1>2 DEF RunCreated
  <2> QED BY <1>0, <2>1, <2>2, ObjectsStay, SuiteStays
<1>3. CASE ObjectStep
  <2>1. Kept /\ UNCHANGED runs
    BY <1>3, SameRuns DEF ObjectStep
  <2>2. snapshots \subseteq snapshots'
    BY <1>3 DEF ObjectStep
  <2>3. ObjectsOK'
    BY <1>3, <2>1 DEF ObjectStep, ObjectsOK, TypeOK, Ever
  <2>4. BuildInv'
    BY <1>3, <2>1 DEF ObjectStep, BuildInv, Ever
  <2> QED BY <1>0, <2>1, <2>2, <2>3, <2>4, SuiteStays
<1> QED BY <1>1, <1>2, <1>3 DEF Konflux

-----------------------------------------------------------------------------
(* The steps of the suite.                                                 *)

\* A step of the suite that leaves Konflux and the clock alone and goes on to
\* another stage: what is left to show is what it has seen by then.
LEMMA StageIInv ==
    ASSUME IInv, ObjectsOK', BuildInv', Kept, UNCHANGED clock,
           pc' \in Following \cup Releasing \cup {"cleanup", "patch", "delete"} \cup Ended,
           byRun' \in BOOLEAN, {plr, snap}' \subseteq (DOMAIN runs \cup {Nil})',
           (todo \cup listed \subseteq Scenarios \cup DOMAIN runs)', faults' \in 0..MaxFaults,
           SnapshotInv', TestInv', ReleaseInv', GoneInv'
    PROVE  IInv'
<1>1. TypeOK'
  BY DEF TypeOK, ObjectsOK, IInv, clock
<1>2. ClockInv'
  BY DEF ClockInv, clock, IInv
<1> QED BY <1>1, <1>2 DEF IInv

\* When nothing changes in Konflux ...
LEMMA KonfluxStays ==
    ASSUME IInv, UNCHANGED konflux
    PROVE  ObjectsOK' /\ BuildInv' /\ Kept
BY SameRuns DEF IInv, konflux, TypeOK, ObjectsOK, BuildInv

\* ... a suite that has not its Snapshot yet knows nothing that could change.
LEMMA FollowingIInv ==
    ASSUME IInv, UNCHANGED <<konflux, byRun, snap, todo, listed, faults>>,
           plr' \in DOMAIN runs \cup {Nil}, pc' \in Following \cup {"failed"},
           elapsed' \in Nat, lookup' \in 0..2, spent' \in Nat, ClockInv'
    PROVE  IInv'
<1> USE DEF IInv
<1>1. ObjectsOK' /\ BuildInv' /\ Kept
  BY KonfluxStays
<1>2. TypeOK'
  BY <1>1 DEF TypeOK, ObjectsOK, konflux, Ended
<1>3. pc' \notin Releasing \cup {"cleanup", "patch", "delete", "done"}
  BY DEF Following, Releasing
<1>4. SnapshotInv' /\ TestInv'
  BY <1>3 DEF SnapshotInv, TestInv, Releasing
<1>5. ReleaseInv' /\ GoneInv'
  BY <1>3 DEF ReleaseInv, Released, Releasing, GoneInv, Cleaning, DeletedMeansGone
<1> QED BY <1>1, <1>2, <1>4, <1>5

\* The build and its annotation: the lookups within the outer wait.
LEMMA AnnotationSteps ==
    ASSUME IInv,
           \/ WaitForBuildPipelineToBeFinished \/ PollAnnotation \/ LookupFinds \/ LookupTimesOut
           \/ AnnotationTimesOut \/ Tick
    PROVE  IInv'
<1> USE DEF IInv
<1>0. /\ elapsed \in Nat /\ lookup \in 0..2 /\ spent \in Nat /\ Outer \in Nat /\ Inner \in Nat
      /\ plr \in DOMAIN runs \cup {Nil}
  BY LimitsAssumption DEF TypeOK
<1>1. CASE WaitForBuildPipelineToBeFinished
  <2>1. plr' \in DOMAIN runs \cup {Nil}
    BY <1>1 DEF WaitForBuildPipelineToBeFinished, GetBuildPipelineRun, Kind
  <2>2. pc' \in {"annotation", "failed"} /\ UNCHANGED <<konflux, byRun, snap, todo, listed, clock, faults>>
    BY <1>1 DEF WaitForBuildPipelineToBeFinished
  <2>3. ClockInv'
    BY <2>2 DEF ClockInv, clock
  <2> QED BY <1>0, <2>1, <2>2, <2>3, FollowingIInv DEF clock, Following
<1>2. CASE PollAnnotation
  <2>1. /\ UNCHANGED <<konflux, pc, byRun, plr, snap, todo, listed, elapsed, faults>>
        /\ pc = "annotation" /\ elapsed <= Outer /\ lookup' = 1 /\ spent' = 0
    BY <1>2 DEF PollAnnotation
  <2>2. ClockInv'
    BY <1>0, <2>1 DEF ClockInv
  <2> QED BY <1>0, <2>1, <2>2, FollowingIInv DEF Following
<1>3. CASE LookupFinds
  <2>1. /\ UNCHANGED <<konflux, byRun, plr, snap, todo, listed, faults>>
        /\ lookup > 0 /\ spent' = 0 /\ pc' \in {"annotation", "snapshot"}
        /\ \/ lookup = 1 /\ lookup' = 2 /\ elapsed' = elapsed
           \/ lookup # 1 /\ lookup' = 0 /\ elapsed' \in {0, elapsed}
    BY <1>3 DEF LookupFinds
  <2>2. ClockInv'
    BY <1>0, <2>1 DEF ClockInv
  <2> QED BY <1>0, <2>1, <2>2, FollowingIInv DEF Following
<1>4. CASE LookupTimesOut
  <2>1. /\ UNCHANGED <<konflux, pc, byRun, plr, snap, todo, listed, elapsed, faults>>
        /\ pc = "annotation" /\ lookup > 0 /\ lookup' = 0 /\ spent' = 0
    BY <1>4 DEF LookupTimesOut
  <2>2. ClockInv'
    BY <1>0, <2>1 DEF ClockInv
  <2> QED BY <1>0, <2>1, <2>2, FollowingIInv DEF Following
<1>5. CASE AnnotationTimesOut
  <2>1. pc' = "failed" /\ UNCHANGED <<konflux, byRun, plr, snap, todo, listed, clock, faults>>
    BY <1>5 DEF AnnotationTimesOut
  <2>2. ClockInv'
    BY <2>1 DEF ClockInv, clock
  <2> QED BY <1>0, <2>1, <2>2, FollowingIInv DEF clock
<1>6. CASE Tick
  <2>1. /\ UNCHANGED <<konflux, pc, byRun, plr, snap, todo, listed, lookup, faults>>
        /\ pc = "annotation" /\ elapsed' = elapsed + 1
        /\ \/ lookup = 0 /\ elapsed < Outer /\ spent' = spent
           \/ lookup # 0 /\ spent < Inner /\ spent' = spent + 1
    BY <1>6 DEF Tick
  <2>2. ClockInv'
    BY <1>0, <2>1 DEF ClockInv
  <2> QED BY <1>0, <2>1, <2>2, FollowingIInv DEF Following
<1> QED BY <1>1, <1>2, <1>3, <1>4, <1>5, <1>6

\* The suite takes a Snapshot: of its own build, if it asked for that.
LEMMA SnapshotStep ==
    ASSUME IInv, WaitForSnapshotToGetCreated
    PROVE  IInv'
<1> USE DEF IInv
<1>1. /\ UNCHANGED <<konflux, byRun, plr, todo, listed, clock, faults>> /\ pc' = "tests"
      /\ snap' \in snapshots /\ (byRun => snap' = plr)
  BY DEF WaitForSnapshotToGetCreated, GetSnapshot
<1>2. ObjectsOK' /\ BuildInv' /\ Kept
  BY <1>1, KonfluxStays
<1>3. SnapshotInv' /\ TestInv' /\ ReleaseInv' /\ GoneInv'
  BY <1>1 DEF SnapshotInv, TestInv, ReleaseInv, Released, GoneInv, Cleaning, DeletedMeansGone, konflux
<1>4. pc' \in Releasing
  BY <1>1 DEF Releasing
<1> QED BY <1>1, <1>2, <1>3, <1>4, StageIInv DEF konflux, TypeOK

\* A stage after the Snapshot: the deletions are none of its business.
LEMMA ReleasingIInv ==
    ASSUME IInv, ObjectsOK', BuildInv', Kept, pc \in Releasing, snapshots \subseteq snapshots',
           UNCHANGED <<byRun, plr, snap, clock, faults>>,
           pc' \in Releasing \cup Ended, (todo \cup listed \subseteq Scenarios \cup DOMAIN runs)',
           TestInv', ReleaseInv'
    PROVE  IInv'
<1> USE DEF IInv
<1>1. SnapshotInv'
  BY DEF SnapshotInv
<1>2. snap # Nil
  BY NilAssumption DEF SnapshotInv, TypeOK
<1>3. GoneInv'
  BY <1>2 DEF GoneInv, Cleaning, DeletedMeansGone, Releasing, Ended
<1>4. {plr, snap}' \subseteq (DOMAIN runs \cup {Nil})'
  BY DEF TypeOK, Kept
<1> QED BY <1>1, <1>3, <1>4, StageIInv DEF TypeOK

\* The suite starts a test of its own and waits for it.
LEMMA OwnTestSteps ==
    ASSUME IInv, CreateIntegrationPipelineRun \/ WaitForIntegrationPipelineToGetStarted
    PROVE  IInv'
<1> USE DEF IInv
<1>1. CASE CreateIntegrationPipelineRun
  <2>1. PICK s \in scenarios : New("test", snap, s) /\ todo' = {s}
    BY <1>1 DEF CreateIntegrationPipelineRun
  <2>2. /\ pc = "tests" /\ pc' = "testStart"
        /\ UNCHANGED <<signed, snapshots, scenarios, releases, byRun, plr, snap, listed, clock, faults>>
    BY <1>1 DEF CreateIntegrationPipelineRun
  <2>3. runs \in Seq(Run) /\ snap \in Nat /\ s \in Scenarios
    BY <2>2 DEF TypeOK, SnapshotInv, Releasing
  <2>4. runs' \in Seq(Run) /\ Kept
    BY <2>1, <2>3, NewRun
  <2>5. ObjectsOK' /\ BuildInv'
    BY <2>2, <2>4, ObjectsStay
  <2>6. TestInv' /\ ReleaseInv'
    BY <2>2 DEF TestInv, ReleaseInv, Released
  <2>7. (todo \cup listed \subseteq Scenarios \cup DOMAIN runs)'
    BY <2>1, <2>2, <2>3, <2>4 DEF TypeOK, Kept
  <2>8. pc \in Releasing /\ pc' \in Releasing
    BY <2>2 DEF Releasing
  <2> QED BY <2>2, <2>4, <2>5, <2>6, <2>7, <2>8, ReleasingIInv
<1>2. CASE WaitForIntegrationPipelineToGetStarted
  <2>1. pc = "testStart" /\ pc' = "tests" /\ todo' = {} /\ UNCHANGED <<konflux, byRun, plr, snap, listed, clock, faults>>
    BY <1>2 DEF WaitForIntegrationPipelineToGetStarted
  <2>2. ObjectsOK' /\ BuildInv' /\ Kept
    BY <2>1, KonfluxStays
  <2>3. TestInv' /\ ReleaseInv'
    BY <2>1 DEF TestInv, ReleaseInv, Released
  <2>4. (todo \cup listed \subseteq Scenarios \cup DOMAIN runs)'
    BY <2>1 DEF TypeOK, konflux
  <2>5. pc \in Releasing /\ pc' \in Releasing
    BY <2>1 DEF Releasing
  <2> QED BY <2>1, <2>2, <2>3, <2>4, <2>5, ReleasingIInv DEF konflux
<1> QED BY <1>1, <1>2

\* The loops over the scenarios: listed \ todo are the ones that passed.
LEMMA ScenarioSteps ==
    ASSUME IInv,
           \/ ListScenarios \/ WaitForIntegrationPipelineToBeFinished
           \/ WaitForFinalizerToGetRemoved \/ LoopEnds
    PROVE  IInv'
<1> USE DEF IInv
<1>0. UNCHANGED <<konflux, byRun, plr, snap, clock, faults>>
  BY DEF ListScenarios, WaitForIntegrationPipelineToBeFinished, WaitForFinalizerToGetRemoved, LoopEnds
<1>1. ObjectsOK' /\ BuildInv' /\ Kept /\ snapshots \subseteq snapshots'
  BY <1>0, KonfluxStays DEF konflux
<1>2. \A s : Passed(s) => Passed(s)'
  BY <1>0, <1>1, SeenStays
<1>3. CASE ListScenarios
  <2>1. /\ UNCHANGED konflux
        /\ todo' \subseteq Scenarios
        /\ \/ pc = "tests" /\ listed' = todo' /\ pc' = "testWait"
           \/ pc = "finalizers" /\ listed' = listed /\ pc' = "finalizerWait"
    BY <1>3 DEF ListScenarios, TypeOK
  <2>2. TestInv'
    BY <1>2, <2>1 DEF TestInv, Releasing
  <2>3. ReleaseInv'
    BY <2>1 DEF ReleaseInv, Released
  <2>4. (todo \cup listed \subseteq Scenarios \cup DOMAIN runs)'
    BY <2>1 DEF TypeOK, konflux
  <2>5. pc \in Releasing /\ pc' \in Releasing
    BY <2>1 DEF Releasing
  <2> QED BY <1>0, <1>1, <2>2, <2>3, <2>4, <2>5, ReleasingIInv
<1>4. CASE WaitForIntegrationPipelineToBeFinished
  <2>1. PICK s \in todo : \E r \in GetIntegrationPipelineRun(s) :
           \/ runs[r].state = "succeeded" /\ todo' = todo \ {s} /\ UNCHANGED pc
           \/ pc' = "failed" /\ UNCHANGED todo
    BY <1>4 DEF WaitForIntegrationPipelineToBeFinished
  <2>2. pc = "testWait" /\ UNCHANGED listed /\ todo' \subseteq todo
    BY <1>4, <2>1 DEF WaitForIntegrationPipelineToBeFinished
  <2>3. \/ Passed(s) /\ todo' = todo \ {s} /\ pc' = "testWait"
        \/ pc' = "failed" /\ UNCHANGED todo
    BY <2>1, <2>2 DEF GetIntegrationPipelineRun, Passed, Kind, Ever
  <2>4. TestInv'
    BY <1>2, <2>2, <2>3 DEF TestInv, Releasing
  <2>5. ReleaseInv'
    BY <2>3 DEF ReleaseInv, Released
  <2>6. (todo \cup listed \subseteq Scenarios \cup DOMAIN runs)'
    BY <1>0, <2>2 DEF TypeOK, konflux
  <2>7. pc \in Releasing /\ pc' \in Releasing \cup Ended
    BY <2>2, <2>3 DEF Releasing, Ended
  <2> QED BY <1>0, <1>1, <2>4, <2>5, <2>6, <2>7, ReleasingIInv
<1>5. CASE WaitForFinalizerToGetRemoved \/ LoopEnds
  <2>1. /\ UNCHANGED listed /\ todo' \subseteq todo
        /\ \/ pc = "finalizerWait" /\ pc' \in {"finalizerWait", "release"}
           \/ pc = "testWait" /\ todo = {} /\ pc' = "finalizers"
    BY <1>5 DEF WaitForFinalizerToGetRemoved, LoopEnds
  <2>2. TestInv'
    BY <1>2, <2>1 DEF TestInv, Releasing
  <2>3. ReleaseInv'
    BY <2>1 DEF ReleaseInv, Released
  <2>4. (todo \cup listed \subseteq Scenarios \cup DOMAIN runs)'
    BY <1>0, <2>1 DEF TypeOK, konflux
  <2>5. pc \in Releasing /\ pc' \in Releasing
    BY <2>1 DEF Releasing
  <2> QED BY <1>0, <1>1, <2>2, <2>3, <2>4, <2>5, ReleasingIInv
<1> QED BY <1>3, <1>4, <1>5

\* The release: its stages come after all tests.
LEMMA ReleaseSteps ==
    ASSUME IInv,
           \/ CreateRelease \/ GetRelease \/ WaitForReleasePipelineToGetStarted
           \/ WaitForReleasePipelineToBeFinished \/ RunPipelineWithRetry \/ CheckPipelineRunStarted
    PROVE  IInv'
<1> USE DEF IInv
<1> DEFINE Stages == {"release", "releaseStart", "releaseWait", "ec", "ecStart"}
<1>1. /\ UNCHANGED <<signed, snapshots, scenarios, byRun, plr, snap, todo, listed, clock, faults>>
      /\ pc \in Stages /\ pc' \in Stages \cup Ended
  <2>1. UNCHANGED <<signed, snapshots, scenarios, byRun, plr, snap, todo, listed, clock, faults>>
    BY DEF CreateRelease, GetRelease, WaitForReleasePipelineToGetStarted, konflux,
           WaitForReleasePipelineToBeFinished, RunPipelineWithRetry, CheckPipelineRunStarted
  <2>2. pc \in Stages
    BY DEF CreateRelease, GetRelease, WaitForReleasePipelineToGetStarted,
           WaitForReleasePipelineToBeFinished, RunPipelineWithRetry, CheckPipelineRunStarted
  <2>3. pc' \in Stages \cup Ended
    BY DEF CreateRelease, GetRelease, WaitForReleasePipelineToGetStarted, Ended,
           WaitForReleasePipelineToBeFinished, RunPipelineWithRetry, CheckPipelineRunStarted
  <2> QED BY <2>1, <2>2, <2>3
<1>2. pc \in Releasing /\ pc' \in Releasing \cup Ended /\ snap \in snapshots
  BY <1>1 DEF Releasing, SnapshotInv
<1>3. ObjectsOK' /\ BuildInv' /\ Kept
  <2>1. CASE CreateRelease
    <3>1. UNCHANGED <<runs, signed, snapshots, scenarios>> /\ releases' = releases \cup {snap}
      BY <2>1 DEF CreateRelease
    <3> QED BY <1>2, <3>1, SameRuns DEF ObjectsOK, BuildInv, TypeOK
  <2>2. CASE RunPipelineWithRetry
    <3>1. New("ec", 0, Nil) /\ UNCHANGED <<signed, snapshots, scenarios, releases>>
      BY <2>2 DEF RunPipelineWithRetry
    <3>2. runs' \in Seq(Run) /\ Kept
      BY <3>1, NewRun DEF TypeOK
    <3> QED BY <3>1, <3>2, ObjectsStay
  <2>3. CASE UNCHANGED konflux
    BY <2>3, KonfluxStays
  <2> QED BY <2>1, <2>2, <2>3 DEF CreateRelease, GetRelease, WaitForReleasePipelineToGetStarted,
             WaitForReleasePipelineToBeFinished, RunPipelineWithRetry, CheckPipelineRunStarted
<1>4. (\A s : Passed(s) => Passed(s)') /\ (ReleaseSucceeded => ReleaseSucceeded')
  BY <1>1, <1>3, SeenStays
<1>5. TestInv'
  BY <1>1, <1>4 DEF TestInv, Releasing, Ended
<1>6. ReleaseInv'
  <2>1. CASE WaitForReleasePipelineToBeFinished
    <3>1. Released' => ReleaseSucceeded
      BY <2>1 DEF WaitForReleasePipelineToBeFinished, GetPipelineRunInNamespace, Kind, Ever,
                  Released, ReleaseSucceeded
    <3> QED BY <1>4, <3>1 DEF ReleaseInv
  <2>2. CASE ~WaitForReleasePipelineToBeFinished
    <3>1. Released' => Released
      BY <2>2 DEF CreateRelease, GetRelease, WaitForReleasePipelineToGetStarted,
                  RunPipelineWithRetry, CheckPipelineRunStarted, Released
    <3> QED BY <1>4, <3>1 DEF ReleaseInv
  <2> QED BY <2>1, <2>2
<1>7. (todo \cup listed \subseteq Scenarios \cup DOMAIN runs)'
  BY <1>1, <1>3 DEF TypeOK, Kept
<1> QED BY <1>1, <1>2, <1>3, <1>5, <1>6, <1>7, ReleasingIInv

\* A suite that deletes PipelineRuns has no Snapshot to know about.
LEMMA CleaningIInv ==
    ASSUME IInv, ObjectsOK', BuildInv', Kept, UNCHANGED <<byRun, snap, clock>>,
           pc' \in {"patch", "delete", "done"},
           plr' \in DOMAIN runs' \cup {Nil}, faults' \in 0..MaxFaults, GoneInv',
           (todo \cup listed \subseteq DOMAIN runs)'
    PROVE  IInv'
<1> USE DEF IInv
<1>1. SnapshotInv' /\ TestInv' /\ ReleaseInv'
  BY DEF SnapshotInv, TestInv, ReleaseInv, Released, Releasing
<1>2. {plr, snap}' \subseteq (DOMAIN runs \cup {Nil})'
  BY DEF TypeOK, Kept
<1>3. pc' \in {"cleanup", "patch", "delete"} \cup Ended
  BY DEF Ended
<1> QED BY <1>1, <1>2, <1>3, StageIInv DEF TypeOK

\* What was listed and is no longer to be done is gone or will be.
LEMMA DeleteSteps ==
    ASSUME IInv, ListAllPipelineRuns \/ PatchPipelineRun \/ DeletePipelineRun \/ CleanupEnds
    PROVE  IInv'
<1> USE DEF IInv
<1>0. runs \in Seq(Run) /\ faults \in 0..MaxFaults /\ MaxFaults \in Nat /\ plr \in DOMAIN runs \cup {Nil}
  BY LimitsAssumption DEF TypeOK
<1>1. CASE ListAllPipelineRuns
  <2>1. /\ UNCHANGED <<konflux, byRun, plr, snap, clock, faults>> /\ pc' = "patch"
        /\ listed' = todo' /\ todo' \subseteq DOMAIN runs
    BY <1>1 DEF ListAllPipelineRuns
  <2>2. ObjectsOK' /\ BuildInv' /\ Kept
    BY <2>1, KonfluxStays
  <2>3. (todo \cup listed \subseteq DOMAIN runs)'
    BY <2>1 DEF konflux
  <2>4. GoneInv'
    BY <2>1, <2>3 DEF GoneInv, DeletedMeansGone
  <2> QED BY <1>0, <2>1, <2>2, <2>3, <2>4, CleaningIInv DEF konflux
<1>2. CASE PatchPipelineRun
  <2>0. /\ pc = "patch" /\ UNCHANGED <<signed, snapshots, scenarios, releases, byRun, snap, listed, clock, faults>>
        /\ todo \cup listed \subseteq DOMAIN runs
    BY <1>2 DEF PatchPipelineRun, GoneInv, Cleaning
  <2>1. PICK r \in todo :
           \/ runs[r].gone /\ todo' = todo \ {r} /\ UNCHANGED <<runs, pc, plr>>
           \/ /\ ~runs[r].gone /\ plr' = r /\ pc' = "delete" /\ UNCHANGED todo
              /\ runs' = [runs EXCEPT ![r].finalizer = FALSE, ![r].gone = runs[r].deleting]
    BY <1>2 DEF PatchPipelineRun
  <2>2. r \in DOMAIN runs /\ runs[r] \in Run
    BY <1>0, <2>0
  <2>3. runs' \in Seq(Run) /\ Kept /\ DOMAIN runs' = DOMAIN runs
    <3>1. CASE UNCHANGED runs
      BY <1>0, <3>1, SameRuns
    <3>2. CASE /\ ~runs[r].gone
               /\ runs' = [runs EXCEPT ![r].finalizer = FALSE, ![r].gone = runs[r].deleting]
      <4> DEFINE s == [runs[r] EXCEPT !.finalizer = FALSE, !.gone = runs[r].deleting]
      <4>1. s \in Run /\ s.kind = runs[r].kind /\ s.of = runs[r].of /\ s.scenario = runs[r].scenario
            /\ s.state = runs[r].state /\ s.deleting = runs[r].deleting
        BY <2>2 DEF Run
      <4>2. runs' = [runs EXCEPT ![r] = s]
        BY <1>0, <2>2, <3>2
      <4> HIDE DEF s
      <4> QED BY <1>0, <2>2, <3>2, <4>1, <4>2, ReplaceRun
    <3> QED BY <2>1, <3>1, <3>2
  <2>4. ObjectsOK' /\ BuildInv'
    BY <2>0, <2>3, ObjectsStay
  <2>5. (todo \cup listed \subseteq DOMAIN runs)'
    BY <2>0, <2>1, <2>3
  <2>6. pc' \in {"patch", "delete"} /\ plr' \in DOMAIN runs' \cup {Nil}
    BY <1>0, <2>0, <2>1, <2>2, <2>3
  <2>7. GoneInv'
    <3>1. (pc = "delete" => plr \in DOMAIN runs)'
      BY <2>0, <2>1, <2>2, <2>3
    <3>2. \A q \in listed \ todo : runs[q].gone \/ runs[q].deleting
      BY <2>0 DEF GoneInv
    <3>3. \A q \in listed \ todo' : runs'[q].gone \/ runs'[q].deleting
      BY <2>0, <2>1, <2>3, <3>2, SeenStays
    <3> QED BY <2>0, <2>5, <2>6, <3>1, <3>3 DEF GoneInv, DeletedMeansGone
  <2> QED BY <1>0, <2>0, <2>3, <2>4, <2>5, <2>6, <2>7, CleaningIInv
<1>3. CASE DeletePipelineRun
  <2>0. /\ pc = "delete" /\ pc' = "patch"
        /\ UNCHANGED <<signed, snapshots, scenarios, releases, byRun, plr, snap, listed, clock>>
        /\ todo \cup listed \subseteq DOMAIN runs /\ plr \in DOMAIN runs /\ runs[plr] \in Run
    BY <1>0, <1>3 DEF DeletePipelineRun, GoneInv, Cleaning
  <2>1. \/ /\ runs' = [runs EXCEPT ![plr].deleting = TRUE, ![plr].gone = runs[plr].gone \/ ~runs[plr].finalizer]
           /\ todo' = todo \ {plr} /\ UNCHANGED faults
        \/ faults < MaxFaults /\ faults' = faults + 1 /\ UNCHANGED <<runs, todo>>
    BY <1>0, <1>3, <2>0 DEF DeletePipelineRun
  <2>2. /\ runs' \in Seq(Run) /\ Kept /\ DOMAIN runs' = DOMAIN runs
        /\ \/ runs'[plr].deleting /\ todo' = todo \ {plr}
           \/ UNCHANGED todo
    <3>1. CASE UNCHANGED <<runs, todo>>
      BY <1>0, <3>1, SameRuns
    <3>2. CASE /\ runs' = [runs EXCEPT ![plr].deleting = TRUE,
                                        ![plr].gone = runs[plr].gone \/ ~runs[plr].finalizer]
               /\ todo' = todo \ {plr}
      <4> DEFINE s == [runs[plr] EXCEPT !.deleting = TRUE, !.gone = runs[plr].gone \/ ~runs[plr].finalizer]
      <4>1. s \in Run /\ s.kind = runs[plr].kind /\ s.of = runs[plr].of /\ s.scenario = runs[plr].scenario
            /\ s.state = runs[plr].state /\ s.deleting /\ (runs[plr].gone => s.gone)
        BY <2>0 DEF Run
      <4>2. runs' = [runs EXCEPT ![plr] = s]
        BY <1>0, <2>0, <3>2
      <4>3. runs'[plr] = s
        BY <1>0, <2>0, <4>2
      <4> HIDE DEF s
      <4>4. runs' \in Seq(Run) /\ Kept /\ DOMAIN runs' = DOMAIN runs
        BY <1>0, <2>0, <4>1, <4>2, ReplaceRun
      <4> QED BY <3>2, <4>1, <4>3, <4>4
    <3> QED BY <2>1, <3>1, <3>2
  <2>3. faults' \in 0..MaxFaults
    BY <1>0, <2>1
  <2>4. ObjectsOK' /\ BuildInv'
    BY <2>0, <2>2, ObjectsStay
  <2>5. (todo \cup listed \subseteq DOMAIN runs)'
    BY <2>0, <2>2
  <2>6. GoneInv'
    <3>1. \A q \in listed \ todo : runs[q].gone \/ runs[q].deleting
      BY <2>0 DEF GoneInv
    <3>2. \A q \in listed \ todo' : runs'[q].gone \/ runs'[q].deleting
      BY <2>0, <2>2, <3>1, SeenStays
    <3> QED BY <2>0, <2>5, <3>2 DEF GoneInv, DeletedMeansGone
  <2> QED BY <2>0, <2>2, <2>3, <2>4, <2>5, <2>6, CleaningIInv
<1>4. CASE CleanupEnds
  <2>1. pc = "patch" /\ todo = {} /\ pc' = "done" /\ UNCHANGED <<konflux, byRun, plr, snap, todo, listed, clock, faults>>
    BY <1>4 DEF CleanupEnds
  <2>2. ObjectsOK' /\ BuildInv' /\ Kept
    BY <2>1, KonfluxStays
  <2>3. (todo \cup listed \subseteq DOMAIN runs)'
    BY <2>1 DEF GoneInv, Cleaning, konflux
  <2>4. GoneInv'
    BY <2>1, <2>3 DEF GoneInv, DeletedMeansGone, konflux
  <2> QED BY <1>0, <2>1, <2>2, <2>3, <2>4, CleaningIInv DEF konflux
<1> QED BY <1>1, <1>2, <1>3, <1>4

\* A suite that gave up claims nothing.
LEMMA TimeoutStep ==
    ASSUME IInv, TimesOut
    PROVE  IInv'
<1> USE DEF IInv
<1>1. pc' = "failed" /\ UNCHANGED <<konflux, byRun, plr, snap, todo, listed, clock, faults>>
  BY DEF TimesOut
<1>2. ClockInv'
  BY <1>1 DEF ClockInv, clock
<1> QED BY <1>1, <1>2, FollowingIInv DEF TypeOK, clock

-----------------------------------------------------------------------------
(* The theorems.                                                           *)

\* The invariant holds initially: also of the suite that begins with PipelineRuns
\* another one left behind.
LEMMA InitIInv ==
    ASSUME Init
    PROVE  IInv
<1>1. runs \in Seq(Run)
  <2>1. LeftBuild \subseteq Run
    <3> SUFFICES ASSUME NEW r \in LeftBuild PROVE r \in Run
      OBVIOUS
    <3>1. r.gone \in BOOLEAN /\ r.deleting \in BOOLEAN /\ r.finalizer \in BOOLEAN
      BY DEF LeftBuild
    <3>2. r.kind = "build" /\ r.of \in Nat /\ r.scenario = Nil /\ r.state \in {"running", "succeeded"}
          /\ r.start \in Nat
      BY DEF LeftBuild
    <3> QED BY <3>1, <3>2 DEF LeftBuild, Run
  <2>2. CASE runs = <<>>
    BY <2>2
  <2>3. CASE runs \in [1..MaxBuilds -> LeftBuild]
    BY <2>1, <2>3, LimitsAssumption
  <2> QED BY <2>2, <2>3 DEF Init
<1>2. TypeOK
  <2>1. byRun \in BOOLEAN /\ scenarios \subseteq Scenarios
    BY DEF Init
  <2>2. pc \in Following \cup {"cleanup"}
    BY DEF Init, Following
  <2>3. faults \in 0..MaxFaults
    BY LimitsAssumption DEF Init
  <2> QED BY <1>1, <2>1, <2>2, <2>3 DEF Init, TypeOK
<1>3. ClockInv
  BY LimitsAssumption DEF Init, ClockInv
<1>4. BuildInv /\ SnapshotInv /\ TestInv /\ ReleaseInv /\ GoneInv
  BY DEF Init, BuildInv, SnapshotInv, TestInv, ReleaseInv, Released, Releasing, GoneInv, Cleaning, DeletedMeansGone
<1> QED BY <1>2, <1>3, <1>4 DEF IInv

\* Every step keeps it.
LEMMA NextIInv ==
    ASSUME IInv, [Next]_vars
    PROVE  IInv'
<1>1. CASE UNCHANGED vars
  <2>1. ObjectsOK' /\ BuildInv' /\ Kept
    BY <1>1, KonfluxStays DEF vars
  <2> QED BY <1>1, <2>1 DEF vars, konflux, clock, IInv, TypeOK, ClockInv, SnapshotInv, TestInv, Passed,
             ReleaseInv, Released, ReleaseSucceeded, Ever, GoneInv, Cleaning, DeletedMeansGone
<1>2. CASE Suite
  BY <1>2, AnnotationSteps, SnapshotStep, OwnTestSteps, ScenarioSteps, ReleaseSteps, DeleteSteps, TimeoutStep
     DEF Suite
<1> QED BY <1>1, <1>2, KonfluxIInv DEF Next

\* The inductive invariant is an invariant of the specification.
THEOREM Invariance == Spec => []IInv
BY InitIInv, NextIInv, PTL DEF Spec

\* Konflux's objects and what a suite took of them keep their types.
THEOREM TypeCorrect == Spec => []TypeOK
<1>1. IInv => TypeOK
  BY DEF IInv
<1> QED BY <1>1, Invariance, PTL

\* The wait for the annotation of a build takes at most its own limit and twice
\* the limit of the lookups within it, whatever the limits are.
THEOREM AnnotationWaitsEnd == Spec => []AnnotationWaitBounded
<1>1. IInv => AnnotationWaitBounded
  <2>1. IInv => /\ ClockInv
                /\ lookup \in 0..2 /\ elapsed \in Nat /\ spent \in Nat
    BY DEF IInv, TypeOK
  <2>2. Outer \in Nat /\ Inner \in Nat
    BY LimitsAssumption
  <2> QED BY <2>1, <2>2 DEF ClockInv, AnnotationWaitBounded
<1> QED BY <1>1, Invariance, PTL

\* What the suite's waits call a finished release is one of the Snapshot it took;
\* the tests it listed passed for this Snapshot, and its build succeeded.
THEOREM ReleasesAreTested == Spec => []ReleasedWasTested
<1>1. IInv => ReleasedWasTested
  <2> SUFFICES ASSUME IInv, Released PROVE ReleasedWasTested
    BY DEF ReleasedWasTested
  <2>1. pc \in Releasing \ {"tests", "testStart", "testWait"}
    BY DEF Released, Releasing
  <2>2. snap \in snapshots /\ (byRun => snap = plr) /\ ReleaseSucceeded /\ \A s \in listed : Passed(s)
    BY <2>1 DEF IInv, SnapshotInv, ReleaseInv, TestInv
  <2>3. runs[snap].kind = "build" /\ runs[snap].state = "succeeded"
    BY <2>2 DEF IInv, TypeOK, BuildInv
  <2> QED BY <2>2, <2>3 DEF ReleasedWasTested, ReleaseSucceeded, Passed
<1> QED BY <1>1, Invariance, PTL

\* All PipelineRuns that were listed are gone, or will be with their finalizer,
\* when their deletion ended without an error.
THEOREM DeletedAreGone == Spec => []DeletedMeansGone
<1>1. IInv => DeletedMeansGone
  BY DEF IInv, GoneInv
<1> QED BY <1>1, Invariance, PTL
=============================================================================

--------------------------- MODULE ClusterUpgrade ---------------------------
(***************************************************************************)
(* The upgrades a CI job makes and waits for: PerformUpgrade of            *)
(* magefiles/upgrade/upgrade.go moves OpenShift to the next minor version; *)
(* UpgradeTestsWorkflow and DisasterRecoveryWorkflow of magefile.go        *)
(* install Konflux, wait for the Argo CD Applications with                 *)
(* CheckOperatorsReady of installation/install.go and, the first one,      *)
(* merge a branch and wait again.  The cluster version operator and Argo   *)
(* CD act on their own and report late.                                    *)
(***************************************************************************)
EXTENDS Naturals, FiniteSets

CONSTANTS
    Versions,   \* OpenShift versions, [minor, patch]
    Base,       \* the version before the upgrade
    Apps,       \* Argo CD Applications
    MaxOffers,  \* bound on the changes of the offered updates
    MaxFlaps,   \* bound on Applications that become unready by themselves
    NoVersion

ASSUME VersionsAssumption == Versions \subseteq [minor : Nat, patch : Nat] /\ Base \in Versions
ASSUME BoundsAssumption == {MaxOffers, MaxFlaps} \subseteq Nat

VARIABLES
    target,
    phase,
    cv,        \* the ClusterVersion object
    available, \* its availableUpdates
    conditional, \* its conditionalUpdates
    offers,    \* changes of the offered updates so far
    full,      \* desiredFullVersion of the status helper
    branch,    \* content of the preview branch that Argo CD follows
    apps,      \* revision and readiness of each Application
    flaps,
    listed,    \* Applications of the current pass
    todo,      \* those of them that are still to be read
    count,     \* Applications that were not ready in this pass
    steady     \* history: Applications that did not change since the List

openshift == <<cv, available, conditional, offers>>
argo == <<branch, apps, flaps>>
pass == <<listed, todo, count>>
upgradeVars == <<target, phase, openshift, full, argo, pass, steady>>

Over == {"done", "failed"}

\* The decimal digits of b begin with those of a.
DigitsBegin(b, a) == b = a \/ \E k \in {10, 100} : b >= k /\ b \div k = a

\* strings.Contains of a full version in a text that ends with version v.
ContainsFull(v, w) == v.minor = w.minor /\ DigitsBegin(v.patch, w.patch)

\* strings.Contains of a major.minor version in a full version: 4.15 is found
\* in 4.15.1, and in 4.14.15 as well.
ContainsMinor(v, minor) ==
    DigitsBegin(v.minor, minor) \/ (v.minor % 10 = 4 /\ DigitsBegin(v.patch, minor))

\* Version v comes after w.
Newer(v, w) == v.minor > w.minor \/ (v.minor = w.minor /\ v.patch > w.patch)

\* desiredMajorMinorVersion, from the channel of the cluster.
DesiredMinor == Base.minor + 1

UpgradeInit ==
    /\ target \in {"openshift", "upgrade", "recovery"}
    /\ phase = IF target = "openshift" THEN "channel" ELSE "bootstrap"
    /\ cv = [version |-> Base, desired |-> Base, progressing |-> FALSE, message |-> Base,
             channel |-> Base.minor, gated |-> target = "openshift"]
    /\ available \in {{}, {v \in Versions : v.minor = Base.minor /\ Newer(v, Base)}}
    /\ conditional = {}
    /\ offers = 0
    /\ full = NoVersion
    /\ branch = "base"
    /\ apps \in [Apps -> [rev : {"none"}, ready : {FALSE}]]
    /\ flaps = 0
    /\ listed = {}
    /\ todo = {}
    /\ count = 0
    /\ steady = {}

Goto(l) == phase' = l

\* A request, a script or a merge fails, or a poll is over time.  In the Konflux
\* workflows most errors end the whole process (klog.Fatal).
Fails ==
    /\ phase \notin Over
    /\ Goto("failed")
    /\ UNCHANGED <<target, openshift, full, argo, pass, steady>>

-----------------------------------------------------------------------------
(* PerformUpgrade.                                                         *)

\* The channel of the next minor version is set, known or not.
SwitchChannel ==
    /\ phase = "channel"
    /\ cv' = [cv EXCEPT !.channel = DesiredMinor]
    /\ Goto("ack")
    /\ UNCHANGED <<target, available, conditional, offers, full, argo, pass, steady>>

\* performAdminAck acknowledges the keys of admin-gates that name the desired
\* version; there may be others.
PerformAdminAck ==
    /\ phase = "ack"
    /\ cv' \in {cv, [cv EXCEPT !.gated = FALSE]}
    /\ Goto("pick")
    /\ UNCHANGED <<target, available, conditional, offers, full, argo, pass, steady>>

\* Of the updates of the desired minor version, an available one is taken
\* before a conditional one.
Candidates ==
    LET of(updates) == {v \in updates : ContainsMinor(v, DesiredMinor)}
    IN  IF of(available) # {} THEN of(available) ELSE of(conditional)

\* The first poll ends.
PickVersion ==
    /\ phase = "pick"
    /\ \E v \in Candidates : full' = v
    /\ Goto("trigger")
    /\ UNCHANGED <<target, openshift, argo, pass, steady>>

\* The upgrade to the latest version on offer, by a command of oc, which
\* reads the offers again and need not find the version that was picked.
TriggerUpgrade ==
    /\ phase = "trigger"
    /\ cv' \in {cv} \cup {[cv EXCEPT !.desired = v] : v \in available \cup conditional}
    /\ Goto("upgrading")
    /\ UNCHANGED <<target, available, conditional, offers, full, argo, pass, steady>>

\* Mutant: a cluster that is available and does not progress is done.
IsCompletedAnyVersion == ~cv.progressing

\* isCompleted: not progressing, and available with the version in the message.
IsCompleted == ~cv.progressing /\ ContainsFull(cv.message, full)

\* The second poll ends.
UpgradeCompleted ==
    /\ phase = "upgrading"
    /\ IsCompleted
    /\ Goto("done")
    /\ UNCHANGED <<target, openshift, full, argo, pass, steady>>

\* The cluster version operator refreshes its offers: newer versions of the
\* cluster's channel.
RefreshOffers ==
    /\ target = "openshift"
    /\ offers < MaxOffers
    /\ offers' = offers + 1
    /\ LET known == {v \in Versions : v.minor <= cv.channel /\ Newer(v, cv.version)}
       IN  /\ available' \in SUBSET known
           /\ conditional' \in SUBSET (known \ available')
    /\ UNCHANGED <<target, phase, cv, full, argo, pass, steady>>

\* It notices the desired version some time after the trigger; a gated minor
\* upgrade does not start.
StartUpgrade ==
    /\ cv.desired # cv.version
    /\ ~cv.progressing
    /\ cv.desired.minor # cv.version.minor => ~cv.gated
    /\ cv' = [cv EXCEPT !.progressing = TRUE]
    /\ UNCHANGED <<target, phase, available, conditional, offers, full, argo, pass, steady>>

\* It completes the update; it may as well never do so.
FinishUpgrade ==
    /\ cv.progressing
    /\ cv' = [cv EXCEPT !.progressing = FALSE, !.version = cv.desired, !.message = cv.desired]
    /\ UNCHANGED <<target, phase, available, conditional, offers, full, argo, pass, steady>>

-----------------------------------------------------------------------------
(* UpgradeTestsWorkflow and DisasterRecoveryWorkflow.                      *)

\* BootstrapClusterForUpgrade and BootstrapClusterForDR.
BootstrapFor ==
    /\ phase = "bootstrap"
    /\ \E ready \in SUBSET Apps :
         apps' = [a \in Apps |-> [rev |-> "base", ready |-> a \in ready]]
    /\ Goto("refresh")
    /\ UNCHANGED <<target, openshift, full, branch, flaps, pass, steady>>

\* CheckOperatorsReady asks Argo CD for a refresh, which it does not wait for.
Refresh ==
    /\ phase \in {"refresh", "refreshAgain"}
    /\ Goto(IF phase = "refresh" THEN "list" ELSE "listAgain")
    /\ UNCHANGED <<target, openshift, full, argo, pass, steady>>

Listing == {"list", "listAgain"}
Reading == {"read", "readAgain"}

\* Mutant: the count is declared before the loop.
ListKeepingCount ==
    /\ phase \in Listing
    /\ listed' = Apps
    /\ todo' = Apps
    /\ UNCHANGED count
    /\ steady' = Apps
    /\ Goto(IF phase = "list" THEN "read" ELSE "readAgain")
    /\ UNCHANGED <<target, openshift, full, argo>>

\* A pass begins with the list of the Applications.
List ==
    /\ phase \in Listing
    /\ listed' = Apps
    /\ todo' = Apps
    /\ count' = 0
    /\ steady' = Apps
    /\ Goto(IF phase = "list" THEN "read" ELSE "readAgain")
    /\ UNCHANGED <<target, openshift, full, argo>>

\* Mutant: only the last Application counts.
ReadLastCounts(a) ==
    /\ phase \in Reading
    /\ a \in todo
    /\ todo' = todo \ {a}
    /\ count' = IF apps[a].ready THEN 0 ELSE 1
    /\ UNCHANGED <<target, phase, openshift, full, argo, listed, steady>>

\* One Application is read: it must be Synced and Healthy.  (The refresh of
\* one whose text has "context deadline exceeded" patches Deployments of that
\* name; where there is none the process ends, see Fails.)
Read(a) ==
    /\ phase \in Reading
    /\ a \in todo
    /\ todo' = todo \ {a}
    /\ count' = IF apps[a].ready THEN count ELSE count + 1
    /\ UNCHANGED <<target, phase, openshift, full, argo, listed, steady>>

\* The pass is over, and with it the check if all were ready.
PassEnds ==
    /\ phase \in Reading
    /\ todo = {}
    /\ Goto(IF count > 0 THEN (IF phase = "read" THEN "list" ELSE "listAgain")
            ELSE IF phase = "readAgain" THEN "done"
            ELSE IF target = "upgrade" THEN "merge" ELSE "tests")
    /\ UNCHANGED <<target, openshift, full, argo, pass, steady>>

\* UpgradeCluster: the branch is merged into the preview branch and pushed.
MergePRInRemote ==
    /\ phase = "merge"
    /\ branch' = "upgraded"
    /\ Goto("refreshAgain")
    /\ UNCHANGED <<target, openshift, full, apps, flaps, pass, steady>>

\* The disaster recovery tests pass.
RunTests ==
    /\ phase = "tests"
    /\ Goto("done")
    /\ UNCHANGED <<target, openshift, full, argo, pass, steady>>

\* Argo CD changes the status of an Application.
Changed(a, app) ==
    /\ apps' = [apps EXCEPT ![a] = app]
    /\ steady' = steady \ {a}
    /\ UNCHANGED <<target, phase, openshift, full, branch, pass>>

\* Argo CD notices that an Application is not at the head of the branch ...
AppOutOfSync(a) ==
    /\ apps[a].ready
    /\ apps[a].rev # branch
    /\ Changed(a, [apps[a] EXCEPT !.ready = FALSE])
    /\ UNCHANGED flaps

\* ... and brings it there.
AppSynced(a) ==
    /\ apps[a].rev # "none"
    /\ ~apps[a].ready
    /\ Changed(a, [rev |-> branch, ready |-> TRUE])
    /\ UNCHANGED flaps

\* An Application degrades.
AppDegraded(a) ==
    /\ apps[a].ready
    /\ flaps < MaxFlaps
    /\ flaps' = flaps + 1
    /\ Changed(a, [apps[a] EXCEPT !.ready = FALSE])

-----------------------------------------------------------------------------

Steps ==
    \/ SwitchChannel \/ PerformAdminAck \/ PickVersion \/ TriggerUpgrade \/ UpgradeCompleted
    \/ BootstrapFor \/ Refresh \/ List \/ PassEnds \/ MergePRInRemote \/ RunTests
    \/ \E a \in Apps : Read(a)

Operators ==
    \/ RefreshOffers \/ StartUpgrade \/ FinishUpgrade
    \/ \E a \in Apps : AppOutOfSync(a) \/ AppSynced(a) \/ AppDegraded(a)

UpgradeNext == Steps \/ Fails \/ Operators

\* The job goes on, and the polls of PerformUpgrade time out; nothing is
\* assumed of the operators.
UpgradeSpec ==
    /\ UpgradeInit
    /\ [][UpgradeNext]_upgradeVars
    /\ WF_upgradeVars(Steps)
    /\ WF_upgradeVars(target = "openshift" /\ Fails)

-----------------------------------------------------------------------------

\* The ClusterVersion object.
ClusterVersion == [version : Versions, desired : Versions, progressing : BOOLEAN, message : Versions,
                   channel : Nat, gated : BOOLEAN]

\* The cluster's objects and the state of the polls keep their types.
UpgradeTypeOK ==
    /\ target \in {"openshift", "upgrade", "recovery"}
    /\ cv \in ClusterVersion
    /\ full \in Versions \cup {NoVersion}
    /\ available \subseteq Versions
    /\ conditional \subseteq Versions
    /\ offers \in 0..MaxOffers
    /\ branch \in {"base", "upgraded"}
    /\ apps \in [Apps -> [rev : {"none", "base", "upgraded"}, ready : BOOLEAN]]
    /\ flaps \in 0..MaxFlaps
    /\ listed \subseteq Apps
    /\ todo \subseteq listed
    /\ count \in Nat
    /\ steady \subseteq Apps

\* PerformUpgrade reports success only of a cluster that runs the next minor
\* version and has nothing left to apply: neither the status of before the
\* trigger, which the operator has not updated yet, nor another update that oc
\* chose instead counts.  (Only if the picked version merely looks like one of
\* the next minor version, as 4.14.15 does, the cluster may stay behind.)
UpgradeIsReal ==
    target = "openshift" /\ phase = "done" =>
      /\ cv.version = cv.desired
      /\ full.minor = DesiredMinor => cv.version.minor = DesiredMinor

\* CheckOperatorsReady returns only if every Application that did not change
\* since the last List is ready: no Application of the pass is overlooked.
ReadyWhenChecked ==
    phase \in {"merge", "tests", "done"} /\ target # "openshift" =>
      \A a \in listed \cap steady : apps[a].ready

\* The loop of CheckOperatorsReady has no timeout, but once the Applications
\* stay ready it ends, however many passes found one that was not; and
\* PerformUpgrade ends whatever the cluster does.
UpgradesEnd ==
    (target = "openshift" \/ <>[](\A a \in Apps : apps[a].ready)) => <>(phase \in Over)
=============================================================================

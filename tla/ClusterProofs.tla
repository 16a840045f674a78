---------------------------- MODULE ClusterProofs ----------------------------
(***************************************************************************)
(* Proofs about the clusters that the jobs prepare and upgrade.            *)
(*                                                                         *)
(* CIJob, for any set of jobs and of hosts: a bootstrap delivers because   *)
(* each attempt sets the environment again before it reads it (EnvInv) and *)
(* hands it on from step to step (StageInv).                               *)
(*                                                                         *)
(* ClusterUpgrade, for any versions and any Applications: PerformUpgrade   *)
(* looks for the picked version in a message of the operator, by its text; *)
(* no status of before the upgrade contains it, because what is picked is  *)
(* newer (OldVersionDiffers, CVInv).  CheckOperatorsReady counts what it   *)
(* reads one by one; while the count is zero, what was read and did not    *)
(* change is ready (PassInv).                                              *)
(***************************************************************************)
EXTENDS CIJob, ClusterUpgrade, TLAPS

\* Which targets reach a step, and with which repository.
PathInv ==
    /\ pc \in {"prepare", "route", "envOnly", "multi"} => job.target = "TestE2E"
    /\ pc = "init" => job.target \in {"TestE2E", "Bootstrap"}
    /\ pc = "bundle" => job.target \in {"TestE2E", "PrepareCluster"}
    /\ pc = "diff" => job.target \in {"TestE2E", "LocalTestE2E"}
    /\ job.target \in {"PrepareCluster", "LocalTestE2E"} => ~pr
    /\ job.target = "TestE2E" /\ pc \in InBootstrap \cup {"preflight", "boot", "envOnly", "register", "multi", "diff"}
         => RepoName \notin RuleRepos
    /\ booted => pc \in Ended \cup {"multi", "bundle", "diff", "tests"}
    /\ booted /\ pc = "bundle" => job.target = "PrepareCluster"

\* The steps between setRequiredEnvVars and the result of BootstrapCluster, and
\* what comes after a success.
EnvIsSet == booted \/ pc \in InBootstrap \cup {"register"}

\* From then on the environment names what is under test.
EnvInv ==
    EnvIsSet =>
      /\ RefsRepo = "infra-deployments" /\ job.suite = "none" /\ ~job.nightly => env.infra = "pr"
      /\ job.suite # "none" /\ job.ci # "local" /\ ~job.nightly /\ RefsRepo # "e2e-tests"
           => env.image = job.suite

\* How far the environment has come: into the controller, into the clone and
\* onto the cluster.
StageInv ==
    /\ pc = "clone" => ctl = env.infra
    /\ pc \in {"nodes", "script"} => clone = env.infra
    /\ booted \/ pc \in {"namespace", "secret", "register", "alert"}
         => deployed = [infra |-> env.infra, image |-> env.image]
    /\ booted \/ pc \in {"register", "alert"} => secret # "none"
    /\ pc = "alert" => env.skipPac

\* The inductive invariant.
IInv ==
    /\ TypeOK
    /\ PathInv
    /\ EnvInv
    /\ StageInv
    /\ PacTestsNeedRegistration
    /\ CatalogsAreRegistered

-----------------------------------------------------------------------------

\* What the assignments of setRequiredEnvVars and of the installation leave
\* alone.
LEMMA EnvironmentUpdates ==
    ASSUME NEW e \in Environment
    PROVE  /\ InstallationEnvironments(e) \in Environment
           /\ InstallationEnvironments(e).infra = e.infra
           /\ InstallationEnvironments(e).image = e.image
           /\ InstallationEnvironments(e).skipPac = e.skipPac
           /\ [e EXCEPT !.skipPac = TRUE] \in Environment
           /\ [e EXCEPT !.skipPac = TRUE].infra = e.infra
           /\ [e EXCEPT !.skipPac = TRUE].image = e.image
           /\ [e EXCEPT !.skipPac = TRUE].skipPac
           /\ [e EXCEPT !.infra = "pr", !.label = "infra"] \in Environment
           /\ [e EXCEPT !.infra = "pr", !.label = "infra"].infra = "pr"
  BY DEF Environment, InstallationEnvironments

\* The initial states satisfy the inductive invariant.
LEMMA InitIInv == Init => IInv
<1> SUFFICES ASSUME Init PROVE IInv
  OBVIOUS
<1> USE DEF Init
<1>1. job \in JobType
  BY JobsAssumption
<1>2. TypeOK
  <2>1. pc \in {"prepare", "init", "preflight", "diff"}
    BY <1>1 DEF JobType, Targets
  <2>2. env \in Environment
    BY DEF Environment
  <2>3. registered \subseteq Hosts /\ alive \subseteq Hosts /\ faults \in 0..MaxFaults
    BY FaultsAssumption DEF Hosts
  <2>4. job \in Jobs /\ attempt \in 1..2 /\ listing = Nil
    OBVIOUS
  <2> QED BY <2>1, <2>2, <2>3, <2>4 DEF TypeOK
<1>3. PathInv /\ EnvInv /\ StageInv
  BY <1>1 DEF PathInv, EnvInv, EnvIsSet, StageInv, JobType, Targets, Ended, InBootstrap
<1>4. PacTestsNeedRegistration /\ CatalogsAreRegistered
  BY DEF PacTestsNeedRegistration, CatalogsAreRegistered
<1> QED BY <1>2, <1>3, <1>4 DEF IInv

-----------------------------------------------------------------------------
(* Type correctness.                                                       *)

\* What the answers of GitHub make of the environment.
LEMMA EnvTypes ==
    ASSUME TypeOK, EnvSuite \/ EnvCatalog
    PROVE  env' \in Environment
<1>1. job.suite \in Components \cup {"none"}
  BY JobsAssumption DEF TypeOK, JobType
<1>2. CASE EnvSuite
  BY <1>1, <1>2 DEF TypeOK, EnvSuite, Environment
<1>3. CASE EnvCatalog
  <2>1. "release-service" \in Components
    BY DEF Components
  <2>2. PICK paired \in BOOLEAN, rel \in BOOLEAN :
            env' = [env EXCEPT !.label = IF paired THEN "release-pipelines && !fbc-tests"
                                                   ELSE "release-pipelines",
                               !.catalog = IF job.rehearse THEN @ ELSE "pr",
                               !.image = IF paired THEN "release-service" ELSE @,
                               !.quay = IF rel THEN "rel" ELSE @]
    BY <1>3 DEF EnvCatalog, Pairing
  <2>3. env \in Environment
    BY DEF TypeOK
  <2>4. PICK l \in {"release-pipelines", "release-pipelines && !fbc-tests"},
             c \in {env.catalog, "pr"}, i \in {env.image, "release-service"}, q \in {env.quay, "rel"} :
            env' = [env EXCEPT !.label = l, !.catalog = c, !.image = i, !.quay = q]
    BY <2>2
  <2> QED BY <2>1, <2>3, <2>4 DEF Environment
<1> QED BY <1>2, <1>3

\* The steps of the job keep the types.
LEMMA JobTypes ==
    ASSUME TypeOK, JobStep
    PROVE  TypeOK'
<1> USE DEF TypeOK, flags, install, result, proxy, Ended, InBootstrap
<1>1. CASE StepFails \/ PrepareE2EBranch \/ SetupCustomBundle
  BY <1>1 DEF StepFails, PrepareE2EBranch, SetupCustomBundle, GitCheckoutRemoteBranch
<1>2. CASE CIInit
  <2>1. pr' \in BOOLEAN
    BY <1>2 DEF CIInit, NoMetadata
  <2> QED BY <1>2, <2>1 DEF CIInit
<1>3. CASE Route \/ PreflightChecks \/ SetupMultiPlatformTests \/ RunE2ETests \/ TestsPass
  BY <1>3 DEF Route, PreflightChecks, SetupMultiPlatformTests, RunE2ETests, TestsPass
<1>4. CASE EnvDefault \/ EnvNothing
  <2>1. pc' \in {"controller", "multi"}
    BY <1>4 DEF EnvDefault, EnvNothing, AfterEnv
  <2>2. multi' \in BOOLEAN /\ spray' \in BOOLEAN
    BY <1>4 DEF EnvDefault, EnvNothing
  <2>3. UNCHANGED <<job, attempt, pr, code, env, install, result, proxy>>
    BY <1>4 DEF EnvDefault, EnvNothing
  <2> QED BY <2>1, <2>2, <2>3
<1>5. CASE EnvSuite
  <2>1. pc' \in {"controller", "multi"}
    BY <1>5 DEF EnvSuite, AfterEnv
  <2>2. multi' \in BOOLEAN /\ spray' \in BOOLEAN
    BY <1>5 DEF EnvSuite
  <2>3. UNCHANGED <<job, attempt, pr, code, install, result, proxy>>
    BY <1>5 DEF EnvSuite
  <2>4. env' \in Environment
    BY <1>5, EnvTypes
  <2> QED BY <2>1, <2>2, <2>3, <2>4
<1>6. CASE EnvCatalog
  <2>1. pc' \in {"controller", "multi"}
    BY <1>6 DEF EnvCatalog, AfterEnv
  <2>2. UNCHANGED <<job, attempt, pr, code, flags, install, result, proxy>>
    BY <1>6 DEF EnvCatalog
  <2>3. env' \in Environment
    BY <1>6, EnvTypes
  <2> QED BY <2>1, <2>2, <2>3
<1>7. CASE EnvInfra
  <2>1. pc' \in {"controller", "multi"}
    BY <1>7 DEF EnvInfra, AfterEnv
  <2>2. multi' = TRUE /\ spray' = TRUE
    BY <1>7 DEF EnvInfra
  <2>3. UNCHANGED <<job, attempt, pr, code, install, result, proxy>>
    BY <1>7 DEF EnvInfra
  <2>4. env' \in Environment
    BY <1>7, EnvironmentUpdates DEF EnvInfra
  <2> QED BY <2>1, <2>2, <2>3, <2>4
<1>8. CASE BootstrapFails
  <2>1. pc' \in {"boot", "failed"} /\ attempt' \in 1..2
    BY <1>8 DEF BootstrapFails
  <2>2. clone' \in {"main", "pr", Nil} /\ answered' = FALSE
    BY <1>8 DEF BootstrapFails
  <2>3. UNCHANGED <<job, pr, code, env, flags, ctl, secret, booted, proxy>>
    BY <1>8 DEF BootstrapFails
  <2> QED BY <2>1, <2>2, <2>3, ZenonT(30)
<1>9. CASE NewAppStudioInstallController
  <2>1. ctl' \in {"main", "pr"}
    BY <1>9 DEF NewAppStudioInstallController, Environment
  <2> QED BY <1>9, <2>1, SMTT(20) DEF NewAppStudioInstallController
<1>10. CASE CloneInfraDeployments
  <2>1. env' \in Environment
    BY <1>10, EnvironmentUpdates DEF CloneInfraDeployments
  <2>2. clone' \in {"main", "pr", Nil}
    BY <1>10 DEF CloneInfraDeployments
  <2> QED BY <1>10, <2>1, <2>2, SMTT(20) DEF CloneInfraDeployments
<1>11. CASE MarkMasterNodesAsSchedulable \/ BootstrapScript \/ CreateE2ENamespace \/ CreateE2EQuaySecret
  BY <1>11 DEF MarkMasterNodesAsSchedulable, BootstrapScript, CreateE2ENamespace, CreateE2EQuaySecret
<1>12. CASE RegisterNothing \/ RegisterPacServer \/ AlertSent
  <2>1. pc' \in {"multi", "bundle", "done"}
    BY <1>12 DEF RegisterNothing, RegisterPacServer, AlertSent, AfterBootstrap
  <2>2. registered' \subseteq Hosts
    BY <1>12 DEF RegisterNothing, RegisterPacServer, AlertSent, Sent, Hosts
  <2>3. answered' \in BOOLEAN /\ booted' = TRUE
    BY <1>12 DEF RegisterNothing, RegisterPacServer, AlertSent
  <2>4. UNCHANGED <<job, attempt, pr, code, env, flags, install, alive, listing, faults>>
    BY <1>12 DEF RegisterNothing, RegisterPacServer, AlertSent
  <2> QED BY <2>1, <2>2, <2>3, <2>4
<1>13. CASE RegisterFails
  <2>1. registered' \subseteq Hosts
    BY <1>13 DEF RegisterFails, Sent, Hosts
  <2>2. env' \in Environment
    BY <1>13, EnvironmentUpdates DEF RegisterFails
  <2>3. pc' = "alert" /\ UNCHANGED <<job, attempt, pr, code, flags, install, result, alive, listing, faults>>
    BY <1>13 DEF RegisterFails
  <2> QED BY <2>1, <2>2, <2>3
<1> QED BY <1>1, <1>2, <1>3, <1>4, <1>5, <1>6, <1>7, <1>8, <1>9, <1>10, <1>11, <1>12, <1>13
        DEF JobStep, Bootstrap

\* So do the unregistrations and the cleanup.
LEMMA ProxyTypes ==
    ASSUME TypeOK, UnregisterSprayproxy \/ ClusterGone \/ Cleanup
    PROVE  TypeOK'
<1> USE DEF TypeOK, flags, install, result, proxy
<1>1. CASE UnregisterSprayproxy
  BY <1>1, FaultsAssumption DEF UnregisterSprayproxy, Fault
<1>2. CASE ClusterGone
  BY <1>2 DEF ClusterGone
<1>3. CASE CleanupList \/ CleanupFails \/ CleanupEnd
  BY <1>3, FaultsAssumption DEF CleanupList, CleanupFails, CleanupEnd, Fault
<1>4. ASSUME NEW h \in Hosts, CleanupHost(h) \/ CleanupKeep(h)
      PROVE  TypeOK'
  BY <1>4, FaultsAssumption DEF CleanupHost, CleanupKeep, Fault
<1> QED BY <1>1, <1>2, <1>3, <1>4 DEF Cleanup

-----------------------------------------------------------------------------
(* The path of the job.                                                    *)

\* What is left of an invariant to show for a step.
Rest ==
    /\ PathInv
    /\ EnvInv
    /\ StageInv
    /\ PacTestsNeedRegistration
    /\ CatalogsAreRegistered

\* Steps before and after the bootstrap.
LEMMA TargetSteps ==
    ASSUME IInv,
           \/ StepFails \/ PrepareE2EBranch \/ CIInit \/ SetupCustomBundle \/ Route
           \/ PreflightChecks \/ SetupMultiPlatformTests \/ RunE2ETests \/ TestsPass
    PROVE  Rest'
<1> USE DEF IInv, Rest, flags, install, result, proxy
<1>1. CASE CIInit
  <2>1. pc = "init" /\ pc' = IF job.target = "Bootstrap" THEN "boot" ELSE "bundle"
    BY <1>1 DEF CIInit
  <2>2. UNCHANGED <<job, attempt, env, flags, install, result>>
    BY <1>1 DEF CIInit
  <2>3. ~booted
    BY <2>1 DEF PathInv, Ended
  <2>4. PathInv'
    BY <2>1, <2>2, <2>3 DEF PathInv, Ended, InBootstrap
  <2>5. EnvInv' /\ StageInv' /\ PacTestsNeedRegistration' /\ CatalogsAreRegistered'
    BY <2>1, <2>2, <2>3 DEF EnvInv, EnvIsSet, StageInv, PacTestsNeedRegistration,
       CatalogsAreRegistered, InBootstrap
  <2> QED BY <2>4, <2>5
<1>2. CASE Route
  <2>1. /\ pc = "route"
        /\ \/ RepoName \in RuleRepos /\ asked' = "ci" /\ pc' = "tests"
           \/ RepoName \notin RuleRepos /\ asked' = asked /\ pc' = "preflight"
    BY <1>2 DEF Route
  <2>2. UNCHANGED <<job, attempt, pr, env, flags, install, answered, booted>>
    BY <1>2 DEF Route
  <2>3. ~booted
    BY <2>1 DEF PathInv, Ended
  <2>4. PathInv'
    BY <2>1, <2>2, <2>3 DEF PathInv, Ended, InBootstrap, RepoName
  <2>5. EnvInv' /\ StageInv' /\ PacTestsNeedRegistration' /\ CatalogsAreRegistered'
    BY <2>1, <2>2, <2>3 DEF EnvInv, EnvIsSet, StageInv, PacTestsNeedRegistration,
       CatalogsAreRegistered, InBootstrap
  <2> QED BY <2>4, <2>5
<1>3. CASE RunE2ETests
  <2>1. /\ pc = "diff"
        /\ pc' = "tests"
        /\ asked' = IF RepoName \in {"release-service-catalog", "infra-deployments"}
                    THEN RepoName ELSE "ginkgo"
        /\ UNCHANGED <<job, attempt, pr, env, flags, install, answered, booted>>
    BY <1>3 DEF RunE2ETests
  <2>2. RepoName # "release-service-catalog"
    BY <2>1 DEF PathInv, RuleRepos, RepoName
  <2>3. CatalogsAreRegistered'
    BY <2>1, <2>2 DEF CatalogsAreRegistered
  <2>4. PathInv' /\ EnvInv' /\ StageInv' /\ PacTestsNeedRegistration'
    BY <2>1 DEF PathInv, EnvInv, EnvIsSet, StageInv, PacTestsNeedRegistration, Registers,
       Ended, InBootstrap, RefsRepo, RepoName
  <2> QED BY <2>3, <2>4
<1>4. CASE StepFails \/ PrepareE2EBranch \/ SetupCustomBundle \/ PreflightChecks
           \/ SetupMultiPlatformTests \/ TestsPass
  <2>1. /\ pc \in {"prepare", "init", "bundle", "preflight", "multi", "diff", "tests"}
        /\ \/ pc' = "failed"
           \/ pc = "prepare" /\ pc' = "init"
           \/ pc = "bundle" /\ pc' = IF job.target = "PrepareCluster" THEN "done" ELSE "route"
           \/ pc = "preflight" /\ pc' = IF job.skip /\ job.target = "TestE2E" THEN "envOnly" ELSE "boot"
           \/ pc = "multi" /\ pc' = "diff"
           \/ pc = "tests" /\ pc' = "done"
    BY <1>4 DEF StepFails, PrepareE2EBranch, SetupCustomBundle, PreflightChecks,
       SetupMultiPlatformTests, TestsPass
  <2>2. UNCHANGED <<job, attempt, pr, env, flags, install, result>>
    BY <1>4 DEF StepFails, PrepareE2EBranch, SetupCustomBundle, PreflightChecks,
       SetupMultiPlatformTests, TestsPass
  <2>3. PathInv'
    BY <2>1, <2>2 DEF PathInv, Ended, InBootstrap, RepoName
  <2>4. EnvInv' /\ StageInv' /\ PacTestsNeedRegistration' /\ CatalogsAreRegistered'
    BY <2>1, <2>2 DEF EnvInv, EnvIsSet, StageInv, PacTestsNeedRegistration, Registers,
       CatalogsAreRegistered, InBootstrap, RefsRepo
  <2> QED BY <2>3, <2>4
<1> QED BY <1>1, <1>2, <1>3, <1>4

\* Each attempt sets what is under test, whatever the environment was; with
\* SKIP_BOOTSTRAP there is no bootstrap to speak of.
LEMMA EnvSteps ==
    ASSUME IInv, EnvDefault \/ EnvNothing \/ EnvSuite \/ EnvInfra \/ EnvCatalog
    PROVE  Rest'
<1> USE DEF IInv, Rest, flags, install, result, proxy
<1>1. /\ pc \in {"boot", "envOnly"}
      /\ pc' = IF pc = "boot" THEN "controller" ELSE "multi"
      /\ UNCHANGED <<job, pr, install, result>>
  BY DEF EnvDefault, EnvNothing, EnvSuite, EnvInfra, EnvCatalog, AfterEnv, InEnv
<1>2. ~booted
  BY <1>1 DEF PathInv, Ended
<1>3. env \in Environment /\ job \in JobType
  BY JobsAssumption DEF TypeOK
<1>4. PathInv'
  BY <1>1, <1>2 DEF PathInv, Ended, InBootstrap, RepoName
<1>5. EnvInv'
  <2>1. /\ RefsRepo = "infra-deployments" /\ job.suite = "none" /\ ~job.nightly /\ pc = "boot"
             => env'.infra = "pr"
        /\ job.suite # "none" /\ job.ci # "local" /\ ~job.nightly /\ RefsRepo # "e2e-tests"
             => env'.image = job.suite
    <3>1. CASE EnvDefault
      BY <3>1 DEF EnvDefault
    <3>2. CASE EnvNothing
      BY <3>2 DEF EnvNothing, RefsRepo
    <3>3. CASE EnvSuite
      BY <1>3, <3>3 DEF EnvSuite, Environment
    <3>4. CASE EnvInfra
      BY <1>3, <3>4, EnvironmentUpdates DEF EnvInfra
    <3>5. CASE EnvCatalog
      BY <3>5 DEF EnvCatalog
    <3> QED BY <3>1, <3>2, <3>3, <3>4, <3>5
  <2> QED BY <1>1, <1>2, <2>1 DEF EnvInv, EnvIsSet, RefsRepo, InBootstrap
<1>6. StageInv' /\ PacTestsNeedRegistration' /\ CatalogsAreRegistered'
  BY <1>1, <1>2 DEF StageInv, PacTestsNeedRegistration, CatalogsAreRegistered
<1> QED BY <1>4, <1>5, <1>6

\* The steps of BootstrapCluster that hand the environment on.
LEMMA InstallSteps ==
    ASSUME IInv,
           \/ BootstrapFails \/ NewAppStudioInstallController \/ CloneInfraDeployments
           \/ MarkMasterNodesAsSchedulable \/ BootstrapScript \/ CreateE2ENamespace
           \/ CreateE2EQuaySecret
    PROVE  Rest'
<1> USE DEF IInv, Rest, flags, install, result, proxy
<1>1. pc \in InBootstrap /\ UNCHANGED <<job, pr, flags, booted, asked>>
  BY DEF BootstrapFails, NewAppStudioInstallController, CloneInfraDeployments,
     MarkMasterNodesAsSchedulable, BootstrapScript, CreateE2ENamespace, CreateE2EQuaySecret, InBootstrap
<1>2. ~booted
  BY <1>1 DEF PathInv, Ended, InBootstrap
<1>3. pc' \in InBootstrap \cup {"register", "boot", "failed"}
  BY DEF BootstrapFails, NewAppStudioInstallController, CloneInfraDeployments,
     MarkMasterNodesAsSchedulable, BootstrapScript, CreateE2ENamespace, CreateE2EQuaySecret, InBootstrap
<1>4. env'.infra = env.infra /\ env'.image = env.image
  BY EnvironmentUpdates DEF TypeOK, BootstrapFails, NewAppStudioInstallController, CloneInfraDeployments,
     MarkMasterNodesAsSchedulable, BootstrapScript, CreateE2ENamespace, CreateE2EQuaySecret
<1>5. PathInv'
  BY <1>1, <1>2, <1>3 DEF PathInv, Ended, InBootstrap, RepoName
<1>6. EnvInv'
  BY <1>1, <1>2, <1>3, <1>4 DEF EnvInv, EnvIsSet, RefsRepo
<1>7. PacTestsNeedRegistration' /\ CatalogsAreRegistered'
  BY <1>1, <1>2 DEF PacTestsNeedRegistration, CatalogsAreRegistered
<1>8. StageInv'
  <2>1. CASE BootstrapFails
    BY <1>1, <1>2, <2>1 DEF BootstrapFails, StageInv
  <2>2. CASE NewAppStudioInstallController
    BY <1>1, <1>2, <2>2 DEF NewAppStudioInstallController, StageInv
  <2>3. CASE CloneInfraDeployments
    BY <1>1, <1>2, <1>4, <2>3 DEF CloneInfraDeployments, StageInv
  <2>4. CASE MarkMasterNodesAsSchedulable \/ CreateE2ENamespace
    BY <1>1, <1>2, <2>4 DEF MarkMasterNodesAsSchedulable, CreateE2ENamespace, StageInv
  <2>5. CASE BootstrapScript
    BY <1>1, <1>2, <2>5 DEF BootstrapScript, StageInv
  <2>6. CASE CreateE2EQuaySecret
    BY <1>1, <1>2, <2>6 DEF CreateE2EQuaySecret, StageInv
  <2> QED BY <2>1, <2>2, <2>3, <2>4, <2>5, <2>6
<1> QED BY <1>5, <1>6, <1>7, <1>8

\* The steps with which BootstrapCluster ends.
LEMMA RegisterSteps ==
    ASSUME IInv, RegisterNothing \/ RegisterPacServer \/ RegisterFails \/ AlertSent
    PROVE  Rest'
<1> USE DEF IInv, Rest, flags, install, result, proxy
<1>1. pc \in {"register", "alert"} /\ UNCHANGED <<job, pr, flags, install, asked>>
  BY DEF RegisterNothing, RegisterPacServer, RegisterFails, AlertSent
<1>2. ~booted
  BY <1>1 DEF PathInv, Ended
<1>3. /\ pc' = "alert" \/ pc' = AfterBootstrap
      /\ booted' => pc' = AfterBootstrap
  BY <1>2 DEF RegisterNothing, RegisterPacServer, RegisterFails, AlertSent
<1>4. env'.infra = env.infra /\ env'.image = env.image
  BY EnvironmentUpdates DEF TypeOK, RegisterNothing, RegisterPacServer, RegisterFails, AlertSent
<1>5. job.target \in Targets
  BY JobsAssumption DEF TypeOK, JobType
<1>6. PathInv'
  <2>1. /\ pc' \in {"alert", "multi", "bundle", "done"}
        /\ pc' = "multi" => job.target = "TestE2E"
        /\ pc' = "bundle" => job.target = "PrepareCluster"
    BY <1>3 DEF AfterBootstrap
  <2>2. booted' => pc' \in {"multi", "bundle", "done"}
    BY <1>3 DEF AfterBootstrap
  <2> QED BY <1>1, <2>1, <2>2 DEF PathInv, Ended, InBootstrap, RepoName
<1>7. EnvInv'
  BY <1>1, <1>4 DEF EnvInv, EnvIsSet, RefsRepo, InBootstrap
<1>8. StageInv'
  <2>1. pc' \notin {"clone", "nodes", "script", "register"}
    BY <1>3 DEF AfterBootstrap
  <2>2. pc' = "alert" => env'.skipPac
    BY <1>3, EnvironmentUpdates DEF TypeOK, RegisterNothing, RegisterPacServer, RegisterFails,
       AlertSent, AfterBootstrap
  <2> QED BY <1>1, <1>4, <2>1, <2>2 DEF StageInv
<1>9. PacTestsNeedRegistration'
  <2>1. CASE RegisterNothing
    BY <1>1, <2>1 DEF RegisterNothing, PacTestsNeedRegistration, Registers
  <2>2. CASE RegisterPacServer
    BY <2>2 DEF RegisterPacServer, PacTestsNeedRegistration
  <2>3. CASE RegisterFails
    BY <1>2, <2>3 DEF RegisterFails, PacTestsNeedRegistration
  <2>4. CASE AlertSent
    BY <2>4 DEF AlertSent, StageInv, PacTestsNeedRegistration
  <2> QED BY <2>1, <2>2, <2>3, <2>4
<1>10. CatalogsAreRegistered'
  BY <1>1 DEF CatalogsAreRegistered
<1> QED BY <1>6, <1>7, <1>8, <1>9, <1>10

\* What SprayProxy and the clusters do does not touch the job.
LEMMA OtherSteps ==
    ASSUME IInv, UNCHANGED <<job, pc, pr, env, flags, install, result>>
    PROVE  Rest'
  BY DEF IInv, Rest, flags, install, result, PathInv, EnvInv, EnvIsSet, StageInv, Registers,
     PacTestsNeedRegistration, CatalogsAreRegistered, RepoName, RefsRepo

-----------------------------------------------------------------------------

\* Every step preserves the inductive invariant.
LEMMA NextIInv == IInv /\ [Next]_vars => IInv'
<1> SUFFICES ASSUME IInv, [Next]_vars PROVE TypeOK' /\ Rest'
  BY DEF IInv, Rest
<1>0. TypeOK
  BY DEF IInv
<1>1. CASE JobStep
  <2>1. TypeOK'
    BY <1>0, <1>1, JobTypes
  <2>2. Rest'
    BY <1>1, TargetSteps, EnvSteps, InstallSteps, RegisterSteps DEF JobStep, Bootstrap
  <2> QED BY <2>1, <2>2
<1>2. CASE UnregisterSprayproxy \/ ClusterGone \/ Cleanup
  <2>1. TypeOK'
    BY <1>0, <1>2, ProxyTypes
  <2>2. UNCHANGED <<job, pc, pr, env, flags, install, result>>
    BY <1>2 DEF UnregisterSprayproxy, ClusterGone, Cleanup, CleanupList, CleanupFails, CleanupEnd,
       CleanupHost, CleanupKeep
  <2> QED BY <2>1, <2>2, OtherSteps
<1>3. CASE UNCHANGED vars
  <2>1. TypeOK'
    BY <1>0, <1>3 DEF TypeOK, vars, flags, install, result, proxy
  <2> QED BY <1>3, <2>1, OtherSteps DEF vars
<1> QED BY <1>1, <1>2, <1>3 DEF Next

\* The inductive invariant holds in every reachable state.
THEOREM Invariance == Spec => []IInv
  BY InitIInv, NextIInv, PTL DEF Spec

\* The variables have their types.
THEOREM TypeCorrect == Spec => []TypeOK
<1>1. IInv => TypeOK
  BY DEF IInv
<1> QED BY <1>1, Invariance, PTL

\* For every job: a bootstrap that returned nil has deployed what the
\* environment names, also when the first attempt left half of it behind
\* (retry(BootstrapCluster, 2, ...) in magefile.go).
THEOREM BootstrapsDeliver == Spec => []BootstrapDelivers
<1>1. IInv => BootstrapDelivers
  BY DEF IInv, BootstrapDelivers, EnvInv, EnvIsSet, StageInv
<1> QED BY <1>1, Invariance, PTL

\* For every job: tests that need Pipelines-as-Code run only after an answer of
\* SprayProxy (registerPacServer in BootstrapCluster).
THEOREM PacTestsAreRegistered == Spec => []PacTestsNeedRegistration
<1>1. IInv => PacTestsNeedRegistration
  BY DEF IInv
<1> QED BY <1>1, Invariance, PTL

\* For every job: RunE2ETests asks the rule engine for catalogs that exist.
THEOREM CatalogsExist == Spec => []CatalogsAreRegistered
<1>1. IInv => CatalogsAreRegistered
  BY DEF IInv
<1> QED BY <1>1, Invariance, PTL

-----------------------------------------------------------------------------
(* ClusterUpgrade.                                                         *)

\* The workflows of OpenShift and of Konflux have steps of their own.
UpgradePathInv ==
    /\ phase \in {"channel", "ack", "pick", "trigger", "upgrading"} => target = "openshift"
    /\ phase \in {"bootstrap", "refresh", "refreshAgain", "merge", "tests"} \cup Listing \cup Reading
         => target # "openshift"

\* Offers are newer than the version before the upgrade, and so is what was
\* picked; only after the trigger anything else than that version is desired, and
\* what the operator reports is what it runs.
CVInv ==
    /\ \A v \in available \cup conditional : Newer(v, Base)
    /\ phase \in {"trigger", "upgrading"} => full \in Versions /\ Newer(full, Base)
    /\ phase \in {"channel", "ack", "pick", "trigger"} => cv.desired = Base
    /\ cv.message = cv.version
    /\ cv.version \in {Base, cv.desired}
    /\ cv.version = cv.desired => ~cv.progressing
    /\ cv.desired = Base \/ Newer(cv.desired, Base)

\* What this pass has read and counted.
PassInv ==
    phase \in Reading /\ count = 0 => \A a \in (listed \ todo) \cap steady : apps[a].ready

\* The inductive invariant.
UpgradeInv ==
    /\ UpgradeTypeOK
    /\ UpgradePathInv
    /\ CVInv
    /\ PassInv
    /\ UpgradeIsReal
    /\ ReadyWhenChecked

-----------------------------------------------------------------------------

\* The text of an older version does not contain the one of a newer version.
LEMMA OldVersionDiffers ==
    ASSUME NEW v \in Versions, NEW w \in Versions, Newer(w, v)
    PROVE  ~ContainsFull(v, w)
<1>1. v.minor \in Nat /\ v.patch \in Nat /\ w.minor \in Nat /\ w.patch \in Nat
  BY VersionsAssumption
<1>2. ASSUME v.minor = w.minor PROVE ~DigitsBegin(v.patch, w.patch)
  <2>1. w.patch > v.patch
    BY <1>1, <1>2 DEF Newer
  <2>2. ASSUME NEW k \in {10, 100} PROVE v.patch \div k <= v.patch
    BY <1>1, <2>2
  <2> QED BY <1>1, <2>1, <2>2 DEF DigitsBegin
<1> QED BY <1>2 DEF ContainsFull

\* Newer is transitive.
LEMMA NewerTransitive ==
    ASSUME NEW u \in Versions, NEW v \in Versions, NEW w \in Versions, Newer(u, v), Newer(v, w)
    PROVE  Newer(u, w)
<1>1. \A x \in Versions : x.minor \in Nat /\ x.patch \in Nat
  BY VersionsAssumption
<1> QED BY <1>1 DEF Newer

\* The initial states satisfy the inductive invariant.
LEMMA UpgradeStarts == UpgradeInit => UpgradeInv
<1> SUFFICES ASSUME UpgradeInit PROVE UpgradeInv
  OBVIOUS
<1> USE VersionsAssumption DEF UpgradeInit
<1>1. cv \in ClusterVersion
  BY DEF ClusterVersion
<1>2. UpgradeTypeOK
  <2>1. apps \in [Apps -> [rev : {"none", "base", "upgraded"}, ready : BOOLEAN]]
    OBVIOUS
  <2>2. target \in {"openshift", "upgrade", "recovery"} /\ available \subseteq Versions /\ full = NoVersion
    OBVIOUS
  <2>3. offers \in 0..MaxOffers /\ flaps \in 0..MaxFlaps
    BY BoundsAssumption
  <2> QED BY <1>1, <2>1, <2>2, <2>3 DEF UpgradeTypeOK
<1>3. UpgradePathInv /\ PassInv /\ UpgradeIsReal /\ ReadyWhenChecked
  BY DEF UpgradePathInv, PassInv, UpgradeIsReal, ReadyWhenChecked, Listing, Reading
<1>4. CVInv
  BY DEF CVInv
<1> QED BY <1>2, <1>3, <1>4 DEF UpgradeInv

-----------------------------------------------------------------------------
(* OpenShift.                                                              *)

\* What the updates of the ClusterVersion leave alone.
LEMMA ClusterVersionUpdates ==
    ASSUME NEW c \in ClusterVersion, NEW v \in Versions, NEW n \in Nat
    PROVE  /\ [c EXCEPT !.channel = n] \in ClusterVersion
           /\ [c EXCEPT !.channel = n].version = c.version
           /\ [c EXCEPT !.channel = n].desired = c.desired
           /\ [c EXCEPT !.channel = n].message = c.message
           /\ [c EXCEPT !.channel = n].progressing = c.progressing
           /\ [c EXCEPT !.gated = FALSE] \in ClusterVersion
           /\ [c EXCEPT !.gated = FALSE].version = c.version
           /\ [c EXCEPT !.gated = FALSE].desired = c.desired
           /\ [c EXCEPT !.gated = FALSE].message = c.message
           /\ [c EXCEPT !.gated = FALSE].progressing = c.progressing
           /\ [c EXCEPT !.desired = v] \in ClusterVersion
           /\ [c EXCEPT !.desired = v].version = c.version
           /\ [c EXCEPT !.desired = v].desired = v
           /\ [c EXCEPT !.desired = v].message = c.message
           /\ [c EXCEPT !.desired = v].progressing = c.progressing
           /\ [c EXCEPT !.progressing = TRUE] \in ClusterVersion
           /\ [c EXCEPT !.progressing = TRUE].version = c.version
           /\ [c EXCEPT !.progressing = TRUE].desired = c.desired
           /\ [c EXCEPT !.progressing = TRUE].message = c.message
  BY DEF ClusterVersion

\* The end of an update.
LEMMA FinishUpdates ==
    ASSUME NEW c \in ClusterVersion, NEW d \in ClusterVersion,
           d = [c EXCEPT !.progressing = FALSE, !.version = c.desired, !.message = c.desired]
    PROVE  d.version = c.desired /\ d.desired = c.desired /\ d.message = c.desired /\ ~d.progressing
  BY DEF ClusterVersion

\* Steps of PerformUpgrade before the trigger.
LEMMA PrepareSteps ==
    ASSUME UpgradeInv, SwitchChannel \/ PerformAdminAck \/ PickVersion
    PROVE  UpgradeInv'
<1> USE DEF UpgradeInv, openshift, argo, pass, Goto
<1>1. /\ phase \in {"channel", "ack", "pick"}
      /\ phase' \in {"ack", "pick", "trigger"}
      /\ UNCHANGED <<target, available, conditional, offers, argo, pass, steady>>
  BY DEF SwitchChannel, PerformAdminAck, PickVersion
<1>2. /\ cv' \in ClusterVersion
      /\ cv'.version = cv.version
      /\ cv'.desired = cv.desired
      /\ cv'.message = cv.message
      /\ cv'.progressing = cv.progressing
  <2>1. cv \in ClusterVersion /\ DesiredMinor \in Nat
    BY VersionsAssumption DEF UpgradeTypeOK, DesiredMinor
  <2>2. CASE SwitchChannel
    BY <2>1, <2>2, ClusterVersionUpdates, VersionsAssumption DEF SwitchChannel
  <2>3. CASE PerformAdminAck
    BY <2>1, <2>3, ClusterVersionUpdates, VersionsAssumption DEF PerformAdminAck
  <2>4. CASE PickVersion
    BY <2>1, <2>4 DEF PickVersion
  <2> QED BY <2>2, <2>3, <2>4
<1>3. /\ full' \in Versions \cup {NoVersion}
      /\ phase' = "trigger" => full' \in Versions /\ Newer(full', Base)
  <2>1. CASE PickVersion
    <3>1. full' \in available \cup conditional
      BY <2>1 DEF PickVersion, Candidates
    <3> QED BY <3>1 DEF UpgradeTypeOK, CVInv
  <2>2. CASE SwitchChannel \/ PerformAdminAck
    BY <2>2 DEF SwitchChannel, PerformAdminAck, UpgradeTypeOK
  <2> QED BY <2>1, <2>2
<1>4. UpgradeTypeOK'
  BY <1>1, <1>2, <1>3 DEF UpgradeTypeOK
<1>5. UpgradePathInv' /\ PassInv' /\ UpgradeIsReal' /\ ReadyWhenChecked'
  BY <1>1 DEF UpgradePathInv, PassInv, UpgradeIsReal, ReadyWhenChecked, Listing, Reading
<1>6. CVInv'
  BY <1>1, <1>2, <1>3 DEF CVInv
<1> QED BY <1>4, <1>5, <1>6

\* The trigger changes what is desired and nothing else.
LEMMA TriggerStep ==
    ASSUME UpgradeInv, TriggerUpgrade
    PROVE  UpgradeInv'
<1> USE DEF UpgradeInv, openshift, argo, pass, Goto
<1>1. /\ phase = "trigger"
      /\ phase' = "upgrading"
      /\ UNCHANGED <<target, available, conditional, offers, full, argo, pass, steady>>
  BY DEF TriggerUpgrade
<1>2. /\ cv' \in ClusterVersion
      /\ cv'.version = cv.version
      /\ cv'.message = cv.message
      /\ cv'.progressing = cv.progressing
      /\ cv'.desired \in {cv.desired} \cup available \cup conditional
  <2>1. cv' = cv \/ \E v \in available \cup conditional : cv' = [cv EXCEPT !.desired = v]
    BY DEF TriggerUpgrade
  <2>2. cv \in ClusterVersion /\ \A v \in available \cup conditional : v \in Versions
    BY DEF UpgradeTypeOK
  <2>3. ASSUME NEW v \in available \cup conditional, cv' = [cv EXCEPT !.desired = v]
        PROVE  /\ cv' \in ClusterVersion
               /\ cv'.version = cv.version
               /\ cv'.message = cv.message
               /\ cv'.progressing = cv.progressing
               /\ cv'.desired = v
    <3>1. 0 \in Nat
      OBVIOUS
    <3> QED BY <2>2, <2>3, <3>1, ClusterVersionUpdates
  <2> QED BY <2>1, <2>2, <2>3
<1>3. cv.version = Base /\ ~cv.progressing
  BY <1>1 DEF CVInv
<1>4. UpgradeTypeOK'
  BY <1>1, <1>2 DEF UpgradeTypeOK
<1>5. UpgradePathInv' /\ PassInv' /\ UpgradeIsReal' /\ ReadyWhenChecked'
  BY <1>1 DEF UpgradePathInv, PassInv, UpgradeIsReal, ReadyWhenChecked, Listing, Reading
<1>6. CVInv'
  BY <1>1, <1>2, <1>3 DEF CVInv
<1> QED BY <1>4, <1>5, <1>6

\* The second poll ends: the message is of a version that the cluster has got
\* since.
LEMMA CompletedStep ==
    ASSUME UpgradeInv, UpgradeCompleted
    PROVE  UpgradeInv'
<1> USE DEF UpgradeInv, openshift, argo, pass, Goto
<1>1. /\ phase = "upgrading"
      /\ phase' = "done"
      /\ IsCompleted
      /\ UNCHANGED <<target, openshift, full, argo, pass, steady>>
  BY DEF UpgradeCompleted
<1>2. target = "openshift" /\ full \in Versions /\ Newer(full, Base)
  BY <1>1 DEF UpgradePathInv, CVInv
<1>3. cv.version # Base
  BY <1>1, <1>2, VersionsAssumption, OldVersionDiffers DEF CVInv, IsCompleted
<1>4. UpgradeIsReal'
  BY <1>1, <1>2, <1>3 DEF UpgradeIsReal, CVInv, IsCompleted, ContainsFull, DesiredMinor
<1>5. UpgradeTypeOK'
  BY <1>1 DEF UpgradeTypeOK
<1>6. UpgradePathInv' /\ PassInv' /\ ReadyWhenChecked'
  BY <1>1, <1>2 DEF UpgradePathInv, PassInv, ReadyWhenChecked, Listing, Reading
<1>7. CVInv'
  BY <1>1 DEF CVInv
<1> QED BY <1>4, <1>5, <1>6, <1>7

\* The operator's own steps: new offers, and the update.
LEMMA OperatorSteps ==
    ASSUME UpgradeInv, RefreshOffers \/ StartUpgrade \/ FinishUpgrade
    PROVE  UpgradeInv'
<1> USE DEF UpgradeInv, openshift, argo, pass
<1>1. UNCHANGED <<target, phase, full, argo, pass, steady>>
  BY DEF RefreshOffers, StartUpgrade, FinishUpgrade
<1>2. UpgradePathInv' /\ PassInv' /\ ReadyWhenChecked'
  BY <1>1 DEF UpgradePathInv, PassInv, ReadyWhenChecked
<1>3. CASE RefreshOffers
  <2>1. UNCHANGED cv
    BY <1>3 DEF RefreshOffers
  <2>2. \A v \in available' \cup conditional' : v \in Versions /\ Newer(v, cv.version)
    BY <1>3 DEF RefreshOffers
  <2>3. cv.version \in Versions
    BY DEF UpgradeTypeOK, ClusterVersion
  <2>4. \A v \in available' \cup conditional' : Newer(v, Base)
    BY <2>2, <2>3, NewerTransitive, VersionsAssumption DEF CVInv
  <2>5. offers' \in 0..MaxOffers
    BY <1>3, BoundsAssumption DEF RefreshOffers, UpgradeTypeOK
  <2>6. UpgradeTypeOK'
    BY <1>1, <2>1, <2>2, <2>5 DEF UpgradeTypeOK
  <2>7. CVInv' /\ UpgradeIsReal'
    BY <1>1, <2>1, <2>4 DEF CVInv, UpgradeIsReal, DesiredMinor
  <2> QED BY <1>2, <2>6, <2>7
<1>4. CASE StartUpgrade
  <2>1. UNCHANGED <<available, conditional, offers>> /\ cv.version # cv.desired
    BY <1>4 DEF StartUpgrade
  <2>2. /\ cv' \in ClusterVersion
        /\ cv'.version = cv.version
        /\ cv'.message = cv.message
        /\ cv'.desired = cv.desired
    BY <1>4, ClusterVersionUpdates, VersionsAssumption DEF StartUpgrade, UpgradeTypeOK
  <2>3. UpgradeTypeOK'
    BY <1>1, <2>1, <2>2 DEF UpgradeTypeOK
  <2>4. CVInv' /\ UpgradeIsReal'
    BY <1>1, <2>1, <2>2 DEF CVInv, UpgradeIsReal, DesiredMinor
  <2> QED BY <1>2, <2>3, <2>4
<1>5. CASE FinishUpgrade
  <2>1. UNCHANGED <<available, conditional, offers>> /\ cv.progressing /\ cv.version # cv.desired
    BY <1>5 DEF FinishUpgrade, CVInv
  <2>2. cv' \in ClusterVersion
    BY <1>5 DEF FinishUpgrade, UpgradeTypeOK, ClusterVersion
  <2>3. /\ cv'.version = cv.desired
        /\ cv'.desired = cv.desired
        /\ cv'.message = cv.desired
        /\ ~cv'.progressing
    BY <1>5, <2>2, FinishUpdates DEF FinishUpgrade, UpgradeTypeOK
  <2>4. UpgradeTypeOK'
    BY <1>1, <2>1, <2>2 DEF UpgradeTypeOK
  <2>5. CVInv' /\ UpgradeIsReal'
    BY <1>1, <2>1, <2>3 DEF CVInv, UpgradeIsReal, DesiredMinor
  <2> QED BY <1>2, <2>4, <2>5
<1> QED BY <1>3, <1>4, <1>5

-----------------------------------------------------------------------------
(* Konflux.                                                                *)

\* The polls of OpenShift do not see what the Konflux workflows do.
LEMMA KonfluxCVInv ==
    ASSUME UpgradeInv, UNCHANGED openshift, UNCHANGED <<target, full>>,
           phase = phase' \/ phase' \notin {"channel", "ack", "pick", "trigger", "upgrading"},
           target # "openshift" \/ phase = phase'
    PROVE  CVInv' /\ UpgradeIsReal'
  BY DEF UpgradeInv, openshift, CVInv, UpgradeIsReal, DesiredMinor

\* The steps of the workflows around the checks, and those of a pass that end it.
LEMMA WorkflowSteps ==
    ASSUME UpgradeInv, BootstrapFor \/ Refresh \/ List \/ PassEnds \/ MergePRInRemote \/ RunTests
    PROVE  UpgradeInv'
<1> USE DEF UpgradeInv, openshift, argo, pass, Goto
<1>1. UNCHANGED openshift /\ UNCHANGED <<target, full, flaps>>
  BY DEF BootstrapFor, Refresh, List, PassEnds, MergePRInRemote, RunTests
<1>2. /\ phase \in {"bootstrap", "refresh", "refreshAgain", "merge", "tests"} \cup Listing \cup Reading
      /\ phase' \in {"refresh", "refreshAgain", "merge", "tests", "done"} \cup Listing \cup Reading
  BY DEF BootstrapFor, Refresh, List, PassEnds, MergePRInRemote, RunTests, Listing, Reading
<1>3. target # "openshift"
  BY <1>2 DEF UpgradePathInv
<1>4. CVInv' /\ UpgradeIsReal'
  BY <1>1, <1>2, <1>3, KonfluxCVInv DEF Listing, Reading
<1>5. UpgradePathInv'
  BY <1>1, <1>2, <1>3 DEF UpgradePathInv, Listing, Reading
<1>6. CASE BootstrapFor
  <2>1. UNCHANGED <<branch, pass, steady>> /\ phase' = "refresh"
    BY <1>6 DEF BootstrapFor
  <2>2. apps' \in [Apps -> [rev : {"none", "base", "upgraded"}, ready : BOOLEAN]]
    BY <1>6 DEF BootstrapFor
  <2>3. UpgradeTypeOK'
    BY <1>1, <2>1, <2>2 DEF UpgradeTypeOK
  <2>4. PassInv' /\ ReadyWhenChecked'
    BY <2>1 DEF PassInv, ReadyWhenChecked, Reading
  <2> QED BY <1>4, <1>5, <2>3, <2>4
<1>7. CASE List
  <2>1. UNCHANGED <<branch, apps>> /\ listed' = Apps /\ todo' = Apps /\ count' = 0 /\ steady' = Apps
    BY <1>7 DEF List
  <2>2. phase' \in Reading
    BY <1>7 DEF List, Reading
  <2>3. UpgradeTypeOK'
    BY <1>1, <2>1 DEF UpgradeTypeOK
  <2>4. PassInv' /\ ReadyWhenChecked'
    BY <2>1, <2>2 DEF PassInv, ReadyWhenChecked, Reading
  <2> QED BY <1>4, <1>5, <2>3, <2>4
<1>8. CASE PassEnds
  <2>1. UNCHANGED <<branch, apps, pass, steady>> /\ todo = {} /\ phase \in Reading
    BY <1>8 DEF PassEnds
  <2>2. /\ phase' \notin Reading
        /\ phase' \in {"merge", "tests", "done"} => ~(count > 0)
    BY <1>8 DEF PassEnds, Reading
  <2>3. UpgradeTypeOK'
    BY <1>1, <2>1 DEF UpgradeTypeOK
  <2>4. ~(count > 0) => count = 0
    BY DEF UpgradeTypeOK
  <2>5. PassInv' /\ ReadyWhenChecked'
    BY <2>1, <2>2, <2>4 DEF PassInv, ReadyWhenChecked
  <2> QED BY <1>4, <1>5, <2>3, <2>5
<1>9. CASE Refresh \/ MergePRInRemote \/ RunTests
  <2>1. UNCHANGED <<apps, pass, steady>> /\ branch' \in {branch, "upgraded"}
    BY <1>9 DEF Refresh, MergePRInRemote, RunTests
  <2>2. phase' \in {"list", "listAgain", "refreshAgain"} \/ (phase = "tests" /\ phase' = "done")
    BY <1>9 DEF Refresh, MergePRInRemote, RunTests
  <2>3. UpgradeTypeOK'
    BY <1>1, <2>1 DEF UpgradeTypeOK
  <2>4. PassInv' /\ ReadyWhenChecked'
    BY <1>1, <2>1, <2>2 DEF PassInv, ReadyWhenChecked, Reading
  <2> QED BY <1>4, <1>5, <2>3, <2>4
<1> QED BY <1>6, <1>7, <1>8, <1>9

\* An Application that is read is ready or counted.
LEMMA ReadStep ==
    ASSUME UpgradeInv, NEW a \in Apps, Read(a)
    PROVE  UpgradeInv'
<1> USE DEF UpgradeInv, Read, openshift, argo, pass
<1>1. UpgradeTypeOK'
  BY DEF UpgradeTypeOK
<1>2. PassInv'
  BY DEF PassInv, UpgradeTypeOK
<1>3. UpgradePathInv' /\ ReadyWhenChecked'
  BY DEF UpgradePathInv, ReadyWhenChecked, Reading
<1>4. CVInv' /\ UpgradeIsReal'
  BY KonfluxCVInv
<1> QED BY <1>1, <1>2, <1>3, <1>4

\* What Argo CD changes is not steady any more.
LEMMA ArgoSteps ==
    ASSUME UpgradeInv, NEW a \in Apps, AppOutOfSync(a) \/ AppSynced(a) \/ AppDegraded(a)
    PROVE  UpgradeInv'
<1> USE DEF UpgradeInv, openshift, argo, pass
<1>1. PICK app \in [rev : {"none", "base", "upgraded"}, ready : BOOLEAN] : Changed(a, app)
  <2>1. apps[a] \in [rev : {"none", "base", "upgraded"}, ready : BOOLEAN]
    BY DEF UpgradeTypeOK
  <2>2. [apps[a] EXCEPT !.ready = FALSE] \in [rev : {"none", "base", "upgraded"}, ready : BOOLEAN]
    BY <2>1
  <2>3. [rev |-> branch, ready |-> TRUE] \in [rev : {"none", "base", "upgraded"}, ready : BOOLEAN]
    BY DEF UpgradeTypeOK
  <2> QED BY <2>2, <2>3 DEF AppOutOfSync, AppSynced, AppDegraded
<1>2. flaps' \in 0..MaxFlaps
  BY BoundsAssumption DEF AppOutOfSync, AppSynced, AppDegraded, UpgradeTypeOK
<1>3. UpgradeTypeOK'
  BY <1>1, <1>2 DEF UpgradeTypeOK, Changed
<1>4. PassInv' /\ ReadyWhenChecked'
  BY <1>1 DEF PassInv, ReadyWhenChecked, Changed, UpgradeTypeOK
<1>5. UpgradePathInv'
  BY <1>1 DEF UpgradePathInv, Changed
<1>6. CVInv' /\ UpgradeIsReal'
  BY <1>1, KonfluxCVInv DEF Changed
<1> QED BY <1>3, <1>4, <1>5, <1>6

\* A failure ends the target.
LEMMA UpgradeFailsStep ==
    ASSUME UpgradeInv, Fails
    PROVE  UpgradeInv'
<1> USE DEF UpgradeInv, Fails, Goto, openshift, argo, pass
<1>1. UpgradeTypeOK'
  BY DEF UpgradeTypeOK
<1>2. UpgradePathInv' /\ PassInv' /\ ReadyWhenChecked'
  BY DEF UpgradePathInv, PassInv, ReadyWhenChecked, Listing, Reading
<1>3. CVInv' /\ UpgradeIsReal'
  BY DEF CVInv, UpgradeIsReal
<1> QED BY <1>1, <1>2, <1>3

-----------------------------------------------------------------------------

\* Every step preserves the inductive invariant.
LEMMA UpgradeSteps == UpgradeInv /\ [UpgradeNext]_upgradeVars => UpgradeInv'
<1> SUFFICES ASSUME UpgradeInv, [UpgradeNext]_upgradeVars PROVE UpgradeInv'
  OBVIOUS
<1>1. CASE Steps
  BY <1>1, PrepareSteps, TriggerStep, CompletedStep, WorkflowSteps, ReadStep DEF Steps
<1>2. CASE Fails
  BY <1>2, UpgradeFailsStep
<1>3. CASE Operators
  BY <1>3, OperatorSteps, ArgoSteps DEF Operators
<1>4. CASE UNCHANGED upgradeVars
  <2> USE <1>4 DEF upgradeVars, openshift, argo, pass
  <2>1. UpgradeTypeOK' /\ UpgradePathInv' /\ CVInv'
    BY DEF UpgradeInv, UpgradeTypeOK, UpgradePathInv, CVInv
  <2>2. PassInv' /\ UpgradeIsReal' /\ ReadyWhenChecked'
    BY DEF UpgradeInv, PassInv, UpgradeIsReal, ReadyWhenChecked, DesiredMinor
  <2> QED BY <2>1, <2>2 DEF UpgradeInv
<1> QED BY <1>1, <1>2, <1>3, <1>4 DEF UpgradeNext

\* The inductive invariant holds in every reachable state.
THEOREM UpgradeInvariance == UpgradeSpec => []UpgradeInv
  BY UpgradeStarts, UpgradeSteps, PTL DEF UpgradeSpec

\* The variables have their types.
THEOREM UpgradeTypeCorrect == UpgradeSpec => []UpgradeTypeOK
<1>1. UpgradeInv => UpgradeTypeOK
  BY DEF UpgradeInv
<1> QED BY <1>1, UpgradeInvariance, PTL

\* For any versions and offers: PerformUpgrade reports success only of an
\* upgrade that took place (isCompleted of magefiles/upgrade/upgrade.go reads a
\* status that may be old).
THEOREM UpgradesAreReal == UpgradeSpec => []UpgradeIsReal
<1>1. UpgradeInv => UpgradeIsReal
  BY DEF UpgradeInv
<1> QED BY <1>1, UpgradeInvariance, PTL

\* For any Applications: when CheckOperatorsReady returns, all that did not
\* change since the List are ready.
THEOREM ChecksAreSound == UpgradeSpec => []ReadyWhenChecked
<1>1. UpgradeInv => ReadyWhenChecked
  BY DEF UpgradeInv
<1> QED BY <1>1, UpgradeInvariance, PTL
=============================================================================

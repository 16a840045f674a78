------------------------------- MODULE CIJob -------------------------------
(***************************************************************************)
(* One job of the CI (or one local preparation of a cluster): the mage     *)
(* targets PrepareE2EBranch, TestE2E, Bootstrap, Local.PrepareCluster,     *)
(* Local.TestE2E and UnregisterSprayproxy of magefiles/magefile.go, the    *)
(* installation of Konflux in magefiles/installation/install.go, and the   *)
(* SprayProxy server that the clusters of all jobs share, with the         *)
(* periodic CleanupRegisteredPacServers.  The job talks to its steps       *)
(* through environment variables, global variables, the clone of           *)
(* infra-deployments and the cluster, and a failed bootstrap is repeated   *)
(* on what the first attempt left behind.                                  *)
(***************************************************************************)
EXTENDS Naturals

CONSTANTS
    Jobs,      \* the jobs to look at, see JobType
    Own,       \* the Pipelines-as-Code host of the job's cluster
    Others,    \* hosts of other jobs' clusters
    MaxFaults, \* bound on the faults of the cleanups
    Nil

Targets == {"TestE2E", "Bootstrap", "PrepareCluster", "LocalTestE2E"}
Components == {"has", "release-service", "integration-service", "build-service",
               "image-controller", "multi-platform-controller"}

\* What the code asks of JOB_NAME, JOB_TYPE, JOB_SPEC, KONFLUX_CI, CI and
\* SKIP_BOOTSTRAP: "suite" is the component whose name a job "*-service-e2e"
\* (or image-controller) contains, "nightly" a name with "-periodic".
JobType == [target : Targets, ci : {"openshift", "konflux", "local"}, type : {"periodic", "presubmit"},
            nightly : BOOLEAN, rehearse : BOOLEAN, suite : Components \cup {"none"},
            catalog : BOOLEAN, repo : STRING, skip : BOOLEAN]

Hosts == {Own} \cup Others

ASSUME JobsAssumption == Jobs \subseteq JobType
ASSUME HostsAssumption == Own \notin Others
ASSUME FaultsAssumption == MaxFaults \in Nat

VARIABLES
    job,        \* the job
    pc,
    attempt,    \* calls of BootstrapCluster by retry
    pr,         \* the pull request's metadata are known
    code,       \* the branch of e2e-tests that is checked out
    env,        \* environment variables
    multi,      \* requiresMultiPlatformTests
    spray,      \* requiresSprayProxyRegistering
    ctl,        \* INFRA_DEPLOYMENTS_* as the installation controller read it
    clone,      \* the branch in tmp/infra-deployments, or Nil
    deployed,   \* what the cluster runs, or Nil
    secret,     \* the quay secret in e2e-secrets
    answered,   \* SprayProxy answered the registration of this attempt
    booted,     \* BootstrapCluster returned nil
    asked,      \* what RunE2ETests or TestE2E started
    registered, \* the hosts SprayProxy knows
    alive,      \* the hosts whose cluster is there
    listing,    \* hosts the running cleanup has still to look at, or Nil
    faults

flags == <<multi, spray>>
result == <<answered, booted, asked>>
install == <<ctl, clone, deployed, secret>>
proxy == <<registered, alive, listing, faults>>
vars == <<job, pc, attempt, pr, code, env, flags, install, result, proxy>>

Ended == {"done", "failed"}

-----------------------------------------------------------------------------
(* The job's metadata.                                                     *)

\* init returns at once: neither the JOB_SPEC nor the pull request is read.
NoMetadata == job.type = "periodic" \/ job.rehearse

\* openshiftJobSpec.Refs.Repo: only OpenShift CI's JOB_SPEC is parsed into it.
RefsRepo == IF pr /\ job.ci = "openshift" THEN job.repo ELSE "unknown"

\* pr.RepoName and rctx.RepoName.
RepoName == IF pr THEN job.repo ELSE "unknown"

\* Answers of isPRPairingRequired: an error of GitHub counts as no, the pull
\* request may be opened or closed at any time, and nothing is paired with a
\* job whose branch is not known.
Pairing == IF pr THEN BOOLEAN ELSE {FALSE}

\* The repositories whose jobs are mage rules of the category ci.
RuleRepos == {"e2e-tests", "integration-service", "release-service", "image-controller",
              "build-service", "release-service-catalog"}

Init ==
    /\ job \in Jobs
    /\ pc = CASE job.target = "TestE2E" -> "prepare"
              [] job.target = "Bootstrap" -> "init"
              [] job.target = "PrepareCluster" -> "preflight"
              [] OTHER -> "diff"
    /\ attempt = 1
    /\ pr = FALSE
    /\ code = "main"
    /\ env = [infra |-> "main", image |-> "none", catalog |-> "default",
              quay |-> "default", label |-> "default", skipPac |-> FALSE]
    /\ multi = FALSE
    /\ spray = FALSE
    /\ ctl = Nil
    /\ clone \in {Nil, "main"}
    /\ deployed = Nil
    /\ secret \in {"none", "old"}
    /\ answered = FALSE
    /\ booted = FALSE
    /\ asked = "none"
    /\ registered = Others
    /\ alive = Hosts
    /\ listing = Nil
    /\ faults = 0

-----------------------------------------------------------------------------
(* The steps of the targets before and after the bootstrap.                *)

\* Any of these steps may return an error, which ends the target; a checkout
\* that fails to rebase has changed the branch.
StepFails ==
    /\ pc \in {"prepare", "init", "bundle", "preflight", "multi", "diff", "tests"}
    /\ pc = "multi" => multi
    /\ pc' = "failed"
    /\ code' \in {code} \cup (IF pc = "prepare" /\ ~NoMetadata THEN {"pr"} ELSE {})
    /\ UNCHANGED <<job, attempt, pr, env, flags, install, result, proxy>>

\* gitCheckoutRemoteBranch: the branch is checked out and rebased on main.
GitCheckoutRemoteBranch == code' = "pr"

\* PrepareE2EBranch: the tests of the pull request, or of the paired one, are
\* checked out.  Its process ends: what init learnt is lost.
PrepareE2EBranch ==
    /\ pc = "prepare"
    /\ pc' = "init"
    /\ \/ ~NoMetadata /\ GitCheckoutRemoteBranch
       \/ (NoMetadata \/ job.repo # "e2e-tests") /\ UNCHANGED code
    /\ UNCHANGED <<job, attempt, pr, env, flags, install, result, proxy>>

\* CI.init.
CIInit ==
    /\ pc = "init"
    /\ pr' = ~NoMetadata
    /\ pc' = IF job.target = "Bootstrap" THEN "boot" ELSE "bundle"
    /\ UNCHANGED <<job, attempt, code, env, flags, install, result, proxy>>

\* SetupCustomBundle, the last step of PrepareCluster and the second of TestE2E.
SetupCustomBundle ==
    /\ pc = "bundle"
    /\ pc' = IF job.target = "PrepareCluster" THEN "done" ELSE "route"
    /\ UNCHANGED <<job, attempt, pr, code, env, flags, install, result, proxy>>

\* Mutant: a repository is forgotten in the condition.
RouteWithoutCatalog ==
    /\ pc = "route"
    /\ IF RepoName \in RuleRepos \ {"release-service-catalog"}
       THEN asked' = "ci" /\ pc' = "tests"
       ELSE UNCHANGED asked /\ pc' = "preflight"
    /\ UNCHANGED <<job, attempt, pr, code, env, flags, install, answered, booted, proxy>>

\* TestE2E hands the jobs of some repositories to the rules.
Route ==
    /\ pc = "route"
    /\ IF RepoName \in RuleRepos
       THEN asked' = "ci" /\ pc' = "tests"
       ELSE UNCHANGED asked /\ pc' = "preflight"
    /\ UNCHANGED <<job, attempt, pr, code, env, flags, install, answered, booted, proxy>>

\* PreflightChecks, and the choice of TestE2E by SKIP_BOOTSTRAP.
PreflightChecks ==
    /\ pc = "preflight"
    /\ pc' = IF job.skip /\ job.target = "TestE2E" THEN "envOnly" ELSE "boot"
    /\ UNCHANGED <<job, attempt, pr, code, env, flags, install, result, proxy>>

\* Where the job goes after setRequiredEnvVars.
AfterEnv == IF pc = "boot" THEN "controller" ELSE "multi"

\* SetupMultiPlatformTests, if the flag is set: a bundle for each platform is
\* pushed; any error ends the job.
SetupMultiPlatformTests ==
    /\ pc = "multi"
    /\ pc' = "diff"
    /\ UNCHANGED <<job, attempt, pr, code, env, flags, install, result, proxy>>

\* RunE2ETests: the changed files, of the clone for infra-deployments (there
\* must be one), and what the repository's name selects.
RunE2ETests ==
    /\ pc = "diff"
    /\ RepoName = "infra-deployments" => clone # Nil
    /\ asked' = IF RepoName \in {"release-service-catalog", "infra-deployments"}
                THEN RepoName ELSE "ginkgo"
    /\ pc' = "tests"
    /\ UNCHANGED <<job, attempt, pr, code, env, flags, install, answered, booted, proxy>>

\* The rules or ginkgo end without error.
TestsPass ==
    /\ pc = "tests"
    /\ pc' = "done"
    /\ UNCHANGED <<job, attempt, pr, code, env, flags, install, result, proxy>>

-----------------------------------------------------------------------------
(* setRequiredEnvVars.                                                     *)

\* BootstrapCluster calls it in a CI only, TestE2E with SKIP_BOOTSTRAP always.
InEnv == pc = "envOnly" \/ (pc = "boot" /\ job.ci # "local")

\* A nightly job, or one of no repository that the code names.
EnvDefault ==
    /\ InEnv
    /\ \/ job.nightly
       \/ job.suite = "none" /\ ~job.catalog /\ RefsRepo \notin {"e2e-tests", "infra-deployments"}
    /\ multi' = TRUE
    /\ spray' = TRUE
    /\ pc' = AfterEnv
    /\ UNCHANGED <<job, attempt, pr, code, env, install, result, proxy>>

\* Nothing is set for this repository's own jobs in OpenShift CI, nor for a
\* local preparation, which does not call setRequiredEnvVars.
EnvNothing ==
    /\ \/ pc = "boot" /\ job.ci = "local"
       \/ InEnv /\ ~job.nightly /\ RefsRepo = "e2e-tests"
    /\ pc' = AfterEnv
    /\ UNCHANGED <<job, attempt, pr, code, env, flags, install, result, proxy>>

\* The job of a component: its image, and the paired infra-deployments.
EnvSuite ==
    /\ InEnv
    /\ ~job.nightly
    /\ RefsRepo # "e2e-tests"
    /\ job.suite # "none"
    /\ \E paired \in Pairing :
         env' = [env EXCEPT !.image = job.suite, !.label = job.suite,
                            !.infra = IF paired THEN "pr" ELSE @,
                            !.catalog = IF job.suite = "release-service" THEN "development" ELSE @]
    /\ multi' = (multi \/ job.suite = "multi-platform-controller")
    /\ spray' = (spray \/ job.suite \in Components \ {"release-service", "multi-platform-controller"})
    /\ pc' = AfterEnv
    /\ UNCHANGED <<job, attempt, pr, code, install, result, proxy>>

\* A pull request of infra-deployments.
EnvInfra ==
    /\ InEnv
    /\ ~job.nightly
    /\ job.suite = "none"
    /\ RefsRepo = "infra-deployments"
    /\ env' = [env EXCEPT !.infra = "pr", !.label = "infra"]
    /\ multi' = TRUE
    /\ spray' = TRUE
    /\ pc' = AfterEnv
    /\ UNCHANGED <<job, attempt, pr, code, install, result, proxy>>

\* A job of release-service-catalog, with the paired release-service.
EnvCatalog ==
    /\ InEnv
    /\ ~job.nightly
    /\ job.suite = "none"
    /\ RefsRepo \notin {"e2e-tests", "infra-deployments"}
    /\ job.catalog
    /\ \E paired \in Pairing, rel \in BOOLEAN :
         env' = [env EXCEPT !.label = IF paired THEN "release-pipelines && !fbc-tests"
                                                ELSE "release-pipelines",
                            !.catalog = IF job.rehearse THEN @ ELSE "pr",
                            !.image = IF paired THEN "release-service" ELSE @,
                            !.quay = IF rel THEN "rel" ELSE @]
    /\ pc' = AfterEnv
    /\ UNCHANGED <<job, attempt, pr, code, flags, install, result, proxy>>

-----------------------------------------------------------------------------
(* BootstrapCluster and InstallAppStudioPreviewMode.                       *)

\* The steps of BootstrapCluster that can end it with an error.
InBootstrap == {"controller", "clone", "nodes", "script", "namespace", "secret", "alert"}

\* An error of a step is returned by BootstrapCluster; TestE2E makes a second
\* attempt, with the environment, the flags, the clone and the cluster as they
\* are.  A script that fails may have deployed what it was to deploy.
BootstrapFails ==
    /\ pc \in InBootstrap
    /\ \/ /\ job.target = "TestE2E"
          /\ attempt < 2
          /\ attempt' = attempt + 1
          /\ pc' = "boot"
       \/ /\ job.target = "TestE2E" => attempt = 2
          /\ UNCHANGED attempt
          /\ pc' = "failed"
    /\ deployed' \in {deployed} \cup (IF pc = "script" THEN {[infra |-> clone, image |-> env.image]} ELSE {})
    /\ clone' \in {clone} \cup (IF pc = "clone" THEN {Nil, ctl} ELSE {})
    /\ answered' = FALSE
    /\ UNCHANGED <<job, pr, code, env, flags, ctl, secret, booted, asked, proxy>>

\* Mutant: one controller serves all attempts.
NewControllerOnce ==
    /\ pc = "controller"
    /\ ctl' = IF ctl = Nil THEN env.infra ELSE ctl
    /\ pc' = "clone"
    /\ UNCHANGED <<job, attempt, pr, code, env, flags, clone, deployed, secret, result, proxy>>

\* NewAppStudioInstallController reads the environment.
NewAppStudioInstallController ==
    /\ pc = "controller"
    /\ ctl' = env.infra
    /\ pc' = "clone"
    /\ UNCHANGED <<job, attempt, pr, code, env, flags, clone, deployed, secret, result, proxy>>

\* setInstallationEnvironments sets the organization of the image controller,
\* whatever it was.
InstallationEnvironments(e) == [e EXCEPT !.quay = "default"]

\* cloneInfraDeployments replaces the clone.
CloneInfraDeployments ==
    /\ pc = "clone"
    /\ clone' = ctl
    /\ env' = InstallationEnvironments(env)
    /\ pc' = "nodes"
    /\ UNCHANGED <<job, attempt, pr, code, flags, ctl, deployed, secret, result, proxy>>

\* MarkMasterNodesAsSchedulable, if it is asked for.
MarkMasterNodesAsSchedulable ==
    /\ pc = "nodes"
    /\ pc' = "script"
    /\ UNCHANGED <<job, attempt, pr, code, env, flags, install, result, proxy>>

\* hack/bootstrap-cluster.sh deploys the clone with the images of the
\* environment.
BootstrapScript ==
    /\ pc = "script"
    /\ deployed' = [infra |-> clone, image |-> env.image]
    /\ pc' = "namespace"
    /\ UNCHANGED <<job, attempt, pr, code, env, flags, ctl, clone, secret, result, proxy>>

\* createE2EQuaySecret: the namespace is there already or is created ...
CreateE2ENamespace ==
    /\ pc = "namespace"
    /\ pc' = "secret"
    /\ UNCHANGED <<job, attempt, pr, code, env, flags, install, result, proxy>>

\* ... and so is the secret; one that is there is left as it is.
CreateE2EQuaySecret ==
    /\ pc = "secret"
    /\ secret' = IF secret = "none" THEN "new" ELSE secret
    /\ pc' = "register"
    /\ UNCHANGED <<job, attempt, pr, code, env, flags, ctl, clone, deployed, result, proxy>>

\* The condition CI == "true" || konfluxCI == "true" && requiresSprayProxyRegistering.
Registers == job.ci = "openshift" \/ (job.ci = "konflux" /\ spray)

\* What follows a bootstrap.
AfterBootstrap == CASE job.target = "TestE2E" -> "multi"
                    [] job.target = "PrepareCluster" -> "bundle"
                    [] OTHER -> "done"

\* BootstrapCluster returns nil without registering.
RegisterNothing ==
    /\ pc = "register"
    /\ ~Registers
    /\ booted' = TRUE
    /\ pc' = AfterBootstrap
    /\ UNCHANGED <<job, attempt, pr, code, env, flags, install, answered, asked, proxy>>

\* What SprayProxy knows after a request that was sent: it may not have arrived,
\* and sendRequest does not look at the status of the answer.
Sent(hosts) == {registered, hosts}

\* registerPacServer: SprayProxy answers.  The answer may be a refusal.
RegisterPacServer ==
    /\ pc = "register"
    /\ Registers
    /\ registered' \in Sent(registered \cup {Own})
    /\ answered' = TRUE
    /\ booted' = TRUE
    /\ pc' = AfterBootstrap
    /\ UNCHANGED <<job, attempt, pr, code, env, flags, install, asked, alive, listing, faults>>

\* Mutant: the tests are not told.
RegisterFailsSilently ==
    /\ pc = "register"
    /\ Registers
    /\ registered' \in Sent(registered \cup {Own})
    /\ UNCHANGED env
    /\ pc' = "alert"
    /\ UNCHANGED <<job, attempt, pr, code, flags, install, result, alive, listing, faults>>

\* The registration fails, or its answer is lost: the tests that need it are
\* switched off, for good, and Slack is told.
RegisterFails ==
    /\ pc = "register"
    /\ Registers
    /\ registered' \in Sent(registered \cup {Own})
    /\ env' = [env EXCEPT !.skipPac = TRUE]
    /\ pc' = "alert"
    /\ UNCHANGED <<job, attempt, pr, code, flags, install, result, alive, listing, faults>>

\* HandleErrorWithAlert reports to Slack; its error is BootstrapCluster's.
AlertSent ==
    /\ pc = "alert"
    /\ booted' = TRUE
    /\ pc' = AfterBootstrap
    /\ UNCHANGED <<job, attempt, pr, code, env, flags, install, answered, asked, proxy>>

-----------------------------------------------------------------------------
(* SprayProxy.                                                             *)

\* Bound on what goes wrong in the cleanups.
Fault == faults < MaxFaults /\ faults' = faults + 1

\* The target UnregisterSprayproxy after the job; an error is only reported.
UnregisterSprayproxy ==
    /\ pc \in Ended
    /\ Own \in alive
    /\ \/ registered' = registered \ {Own} /\ UNCHANGED faults
       \/ Fault /\ UNCHANGED registered
    /\ UNCHANGED <<job, pc, attempt, pr, code, env, flags, install, result, alive, listing>>

\* A cluster is taken down; the job's own one after the job.
ClusterGone ==
    /\ \E h \in alive :
         /\ h = Own => pc \in Ended
         /\ alive' = alive \ {h}
    /\ UNCHANGED <<job, pc, attempt, pr, code, env, flags, install, result, registered, listing, faults>>

\* CleanupRegisteredPacServers lists the hosts.
CleanupList ==
    /\ listing = Nil
    /\ listing' = registered
    /\ UNCHANGED <<job, pc, attempt, pr, code, env, flags, install, result, registered, alive, faults>>

\* Mutant: the host is sent as it was split off the list, with its blank.
CleanupHostUntrimmed(h) ==
    /\ listing # Nil
    /\ h \in listing
    /\ (h \notin alive /\ UNCHANGED faults) \/ Fault
    /\ listing' = listing \ {h}
    /\ UNCHANGED registered
    /\ UNCHANGED <<job, pc, attempt, pr, code, env, flags, install, result, alive>>

\* A host that does not answer (it is gone, or just not reachable) is
\* unregistered, unless SprayProxy refuses, which sendRequest does not notice.
CleanupHost(h) ==
    /\ listing # Nil
    /\ h \in listing
    /\ \/ h \notin alive /\ registered' = registered \ {h} /\ UNCHANGED faults
       \/ h \in alive /\ registered' = registered \ {h} /\ Fault
       \/ h \notin alive /\ UNCHANGED registered /\ Fault
    /\ listing' = listing \ {h}
    /\ UNCHANGED <<job, pc, attempt, pr, code, env, flags, install, result, alive>>

\* A host that answers is kept.
CleanupKeep(h) ==
    /\ listing # Nil
    /\ h \in listing \cap alive
    /\ listing' = listing \ {h}
    /\ UNCHANGED <<job, pc, attempt, pr, code, env, flags, install, result, registered, alive, faults>>

\* A DELETE fails: the hosts that were not looked at yet stay.
CleanupFails ==
    /\ listing \notin {Nil, {}}
    /\ Fault
    /\ listing' = Nil
    /\ UNCHANGED <<job, pc, attempt, pr, code, env, flags, install, result, registered, alive>>

\* The cleanup is over; it is run again later.
CleanupEnd ==
    /\ listing = {}
    /\ listing' = Nil
    /\ UNCHANGED <<job, pc, attempt, pr, code, env, flags, install, result, registered, alive, faults>>

-----------------------------------------------------------------------------

Bootstrap ==
    \/ EnvDefault \/ EnvNothing \/ EnvSuite \/ EnvInfra \/ EnvCatalog
    \/ BootstrapFails \/ NewAppStudioInstallController \/ CloneInfraDeployments
    \/ MarkMasterNodesAsSchedulable \/ BootstrapScript \/ CreateE2ENamespace
    \/ CreateE2EQuaySecret \/ RegisterNothing \/ RegisterPacServer \/ RegisterFails
    \/ AlertSent

JobStep ==
    \/ StepFails \/ PrepareE2EBranch \/ CIInit \/ SetupCustomBundle \/ Route
    \/ PreflightChecks \/ SetupMultiPlatformTests \/ RunE2ETests \/ TestsPass
    \/ Bootstrap

Cleanup ==
    \/ CleanupList \/ CleanupFails \/ CleanupEnd
    \/ \E h \in Hosts : CleanupHost(h) \/ CleanupKeep(h)

Next == JobStep \/ UnregisterSprayproxy \/ ClusterGone \/ Cleanup

\* The job goes on and the cleanup is run again and again.  Nothing is assumed
\* of UnregisterSprayproxy, which runs only if the job was not killed.
Spec == Init /\ [][Next]_vars /\ WF_vars(JobStep) /\ WF_vars(Cleanup)

-----------------------------------------------------------------------------

\* What the environment variables may hold.
Environment ==
    [infra : {"main", "pr"}, image : Components \cup {"none"},
     catalog : {"default", "development", "pr"}, quay : {"default", "rel"},
     label : Components \cup {"default", "infra", "release-pipelines", "release-pipelines && !fbc-tests"},
     skipPac : BOOLEAN]

\* The job and the SprayProxy server keep their types.
TypeOK ==
    /\ job \in Jobs
    /\ pc \in InBootstrap \cup Ended \cup {"prepare", "init", "bundle", "route", "preflight",
                                           "boot", "envOnly", "multi", "diff", "tests", "register"}
    /\ attempt \in 1..2
    /\ pr \in BOOLEAN
    /\ code \in {"main", "pr"}
    /\ env \in Environment
    /\ multi \in BOOLEAN
    /\ spray \in BOOLEAN
    /\ ctl \in {"main", "pr", Nil}
    /\ clone \in {"main", "pr", Nil}
    /\ secret \in {"none", "old", "new"}
    /\ answered \in BOOLEAN
    /\ booted \in BOOLEAN
    /\ registered \subseteq Hosts
    /\ alive \subseteq Hosts
    /\ listing = Nil \/ listing \subseteq Hosts
    /\ faults \in 0..MaxFaults

\* When BootstrapCluster returned nil, after one attempt or two and whatever
\* GitHub answered each time about paired pull requests, the cluster runs what
\* the environment names: the pull request of infra-deployments, the image of
\* the component under test, a paired branch; and the secret that the suites
\* copy is there.  (A nightly job, and one of e2e-tests, has nothing under test
\* but the main branches.)
BootstrapDelivers ==
    booted =>
      /\ deployed = [infra |-> env.infra, image |-> env.image]
      /\ RefsRepo = "infra-deployments" /\ job.suite = "none" /\ ~job.nightly => deployed.infra = "pr"
      /\ job.suite # "none" /\ job.ci # "local" /\ ~job.nightly /\ RefsRepo # "e2e-tests"
           => deployed.image = job.suite
      /\ secret # "none"

\* On a bootstrapped cluster of a job that is to be registered, the tests that
\* need Pipelines-as-Code run only if SprayProxy answered the registration of
\* the attempt that succeeded.
PacTestsNeedRegistration ==
    booted /\ Registers /\ ~env.skipPac => answered

\* RunE2ETests asks the engine for catalogs of the category "tests" that exist:
\* there is none of release-service-catalog, whose jobs TestE2E gives to the
\* category "ci".
CatalogsAreRegistered == asked \in {"none", "ci", "ginkgo", "infra-deployments"}

\* A cluster that is gone disappears from SprayProxy, even if its job never
\* unregistered it and cleanups failed half way.
DeadHostsLeave == \A h \in Hosts : h \notin alive ~> h \notin registered
=============================================================================

---------------------------- MODULE SandboxUsers ----------------------------
(***************************************************************************)
(* pkg/sandbox and the framework on top of it: parallel suites register,   *)
(* deactivate and delete the users they work as.  A user is a UserSignup   *)
(* that the toolchain completes and gives a Space, an account in Keycloak, *)
(* and a kubeconfig file with a token; nothing keeps two suites from using *)
(* the same user, or the same file.                                        *)
(***************************************************************************)
EXTENDS Naturals, FiniteSets

CONSTANTS
    Procs,       \* the suites
    Users,       \* user names
    SharedFile,  \* the path in USER_KUBE_CONFIG_PATH
    MaxAttempts, \* attempts of NewFrameworkWithTimeout (20)
    Nil

ASSUME SharedFileAssumption == SharedFile \notin Users
ASSUME MaxAttemptsAssumption == MaxAttempts \in Nat \ {0}

VARIABLES
    op,       \* what each suite does
    user,     \* with which user
    shared,   \* USER_KUBE_CONFIG_PATH is set
    pc,
    expired,  \* suites whose admin token is not valid any more
    fresh,    \* suites whose copy of the UserSignup is the newest version
    name,     \* the compliant user name each suite has read: "own", "other" or Nil
    attempts, \* of NewFrameworkWithTimeout
    gone,     \* history: suites whose UserSignup was removed after they ended
    signup,   \* UserSignups
    space,    \* Spaces: "none", "created" or "provisioned"
    keycloak, \* users with an account
    file      \* whose token a kubeconfig file holds

suite == <<op, user, shared>>
local == <<expired, fresh, name, attempts>>
cluster == <<signup, space, keycloak>>
vars == <<suite, pc, local, gone, cluster, file>>

\* Where a suite stops.
Ended == {"done", "failed"}
Signup == [there : BOOLEAN, banned : BOOLEAN, complete : BOOLEAN, name : {"own", "other", Nil},
           deactivated : BOOLEAN, deleting : BOOLEAN]
NoSignup == [there |-> FALSE, banned |-> FALSE, complete |-> FALSE, name |-> Nil,
             deactivated |-> FALSE, deleting |-> FALSE]

\* The types of the variables.
TypeOK ==
    /\ op \in [Procs -> {"create", "banned", "deactivate", "delete", "stage"}]
    /\ user \in [Procs -> Users]
    /\ shared \in BOOLEAN
    /\ pc \in [Procs -> {"prepare", "signup", "check", "update", "exists", "register", "token",
                         "file", "space", "client", "deleteWait"} \cup Ended]
    /\ expired \subseteq Procs
    /\ fresh \subseteq Procs
    /\ gone \subseteq Procs
    /\ name \in [Procs -> {"own", "other", Nil}]
    /\ attempts \in [Procs -> 0..MaxAttempts]
    /\ signup \in [Users -> Signup]
    /\ space \in [Users -> {"none", "created", "provisioned"}]
    /\ keycloak \subseteq Users
    /\ file \in [Users \cup {SharedFile} -> Users \cup {Nil}]

Init ==
    /\ op \in [Procs -> {"create", "banned", "deactivate", "delete", "stage"}]
    /\ user \in [Procs -> Users]
    /\ shared \in BOOLEAN
    /\ pc = [p \in Procs |-> CASE op[p] = "create" -> "prepare"
                               [] op[p] = "stage"  -> "file"
                               [] OTHER            -> "signup"]
    /\ expired = {}
    /\ fresh = {}
    /\ gone = {}
    /\ name = [p \in Procs |-> Nil]
    /\ attempts = [p \in Procs |-> 0]
    /\ signup = [u \in Users |-> NoSignup]
    /\ space = [u \in Users |-> "none"]
    /\ keycloak \in {{}, Users}
    /\ file = [f \in Users \cup {SharedFile} |-> Nil]

-----------------------------------------------------------------------------
(* The toolchain, Keycloak's clock, and the file system.                   *)

\* The suites that work as user u.
Holders(u) == {p \in Procs : user[p] = u}

\* The toolchain gives an approved UserSignup its name and completes it; a
\* banned one is complete without a name.
ToolchainSignup(u) ==
    /\ signup[u].there
    /\ ~signup[u].deleting
    /\ \/ /\ ~signup[u].banned
          /\ signup[u].name = Nil
          /\ \E n \in {"own", "other"} : signup' = [signup EXCEPT ![u].name = n]
       \/ ~signup[u].complete /\ signup' = [signup EXCEPT ![u].complete = TRUE]
    /\ fresh' = fresh \ Holders(u)
    /\ UNCHANGED <<space, gone>>

\* The Space of an approved user is created and provisioned.
ToolchainSpace(u) ==
    /\ signup[u].there
    /\ ~signup[u].deleting
    /\ signup[u].name # Nil
    /\ space[u] # "provisioned"
    /\ space' = [space EXCEPT ![u] = IF @ = "none" THEN "created" ELSE "provisioned"]
    /\ UNCHANGED <<signup, fresh, gone>>

\* A UserSignup that is being deleted goes, with its Space.
ToolchainRemoves(u) ==
    /\ signup[u].deleting
    /\ signup' = [signup EXCEPT ![u] = NoSignup]
    /\ space' = [space EXCEPT ![u] = "none"]
    /\ fresh' = fresh \ Holders(u)
    /\ gone' = gone \cup {p \in Holders(u) : pc[p] = "done"}

Toolchain ==
    /\ \E u \in Users : ToolchainSignup(u) \/ ToolchainSpace(u) \/ ToolchainRemoves(u)
    /\ UNCHANGED <<suite, pc, expired, name, attempts, keycloak, file>>

\* An admin token lives for a minute, and the wait for the user may take four.
TokenExpires ==
    /\ \E p \in Procs \ expired :
         pc[p] \in {"signup", "check", "exists", "register"} /\ op[p] = "create"
         /\ expired' = expired \cup {p}
    /\ UNCHANGED <<suite, pc, fresh, name, attempts, gone, cluster, file>>

-----------------------------------------------------------------------------
(* Registration.                                                           *)

\* Suite p goes on at l.
Go(p, l) == pc' = [pc EXCEPT ![p] = l]

\* ReconcileUserCreation begins: the two routes, Keycloak's StatefulSet, the
\* admin's secret and a token.
Prepare(p) ==
    /\ pc[p] = "prepare"
    /\ Go(p, "signup")
    /\ UNCHANGED <<suite, local, gone, cluster, file>>

\* RegisterSandboxUserUserWithSignUp: a UserSignup that is there already is
\* taken as it is, banned, deactivated or about to go.
RegisterSandboxUser(p) ==
    /\ pc[p] = "signup"
    /\ op[p] \in {"create", "banned", "deactivate"}
    /\ signup' = IF signup[user[p]].there THEN signup
                 ELSE [signup EXCEPT ![user[p]] =
                         [NoSignup EXCEPT !.there = TRUE, !.banned = (op[p] = "banned")]]
    /\ Go(p, "check")
    /\ UNCHANGED <<suite, local, gone, space, keycloak, file>>

\* CheckUserCreatedWithSignUp: waits until it is complete and has a name; one
\* that is not there ends the wait.
CheckUserCreated(p) ==
    /\ pc[p] = "check"
    /\ \/ /\ ~signup[user[p]].there
          /\ Go(p, "failed")
          /\ UNCHANGED name
       \/ /\ signup[user[p]].complete
          /\ signup[user[p]].name # Nil
          /\ name' = [name EXCEPT ![p] = signup[user[p]].name]
          /\ Go(p, CASE op[p] = "create" -> "exists" [] op[p] = "deactivate" -> "update" [] OTHER -> "done")
    /\ UNCHANGED <<suite, expired, fresh, attempts, gone, cluster, file>>

\* UpdateUserSignup gets the UserSignup, by the compliant user name; with
\* another name there is none.
GetUserSignup(p) ==
    /\ pc[p] = "update"
    /\ p \notin fresh
    /\ IF name[p] = "own" /\ signup[user[p]].there
       THEN fresh' = fresh \cup {p} /\ UNCHANGED pc
       ELSE Go(p, "failed") /\ UNCHANGED fresh
    /\ UNCHANGED <<suite, expired, name, attempts, gone, cluster, file>>

\* Mutant: the update's error ends the poll without an error.
UpdateOnce(p) ==
    /\ pc[p] = "update"
    /\ name[p] = "own"
    /\ signup' = IF p \in fresh THEN [signup EXCEPT ![user[p]].deactivated = TRUE] ELSE signup
    /\ fresh' = fresh \ Holders(user[p])
    /\ Go(p, "done")
    /\ UNCHANGED <<suite, expired, name, attempts, gone, space, keycloak, file>>

\* It updates what it got: a conflict is tried again (GetUserSignup).
UpdateUserSignup(p) ==
    /\ pc[p] = "update"
    /\ p \in fresh
    /\ signup' = [signup EXCEPT ![user[p]].deactivated = TRUE]
    /\ fresh' = fresh \ Holders(user[p])
    /\ Go(p, "done")
    /\ UNCHANGED <<suite, expired, name, attempts, gone, space, keycloak, file>>

\* KeycloakUserExists: with an expired token, or after any error, the answer is
\* no.  The query is not for the exact name, so another user whose name contains
\* it makes the answer yes.
KeycloakUserExists(p) ==
    /\ pc[p] = "exists"
    /\ \/ p \notin expired /\ keycloak # {} /\ Go(p, "token")
       \/ Go(p, "register")
    /\ UNCHANGED <<suite, local, gone, cluster, file>>

\* RegisterKeycloakUser: its errors (no valid token, no answer, the user exists)
\* are never reported, because the returned user always has a name.
RegisterKeycloakUser(p) ==
    /\ pc[p] = "register"
    /\ \/ p \notin expired /\ keycloak' = keycloak \cup {user[p]}
       \/ UNCHANGED keycloak
    /\ Go(p, "token")
    /\ UNCHANGED <<suite, local, gone, signup, space, file>>

\* Mutant: a token that Keycloak refuses is not noticed.
TokenUnchecked(p) ==
    /\ pc[p] = "token"
    /\ Go(p, "file")
    /\ UNCHANGED <<suite, local, gone, cluster, file>>

\* GetKeycloakToken, with the user's own password: needs the account.
GetKeycloakToken(p) ==
    /\ pc[p] = "token"
    /\ Go(p, IF user[p] \in keycloak THEN "file" ELSE "failed")
    /\ UNCHANGED <<suite, local, gone, cluster, file>>

\* The file is named after the user unless the environment names one.
KubeconfigPath(p) == IF shared THEN SharedFile ELSE user[p]

\* GetKubeconfigPathForSpecificUser writes the file, before the user's
\* namespace is there.
WriteKubeconfig(p) ==
    /\ pc[p] = "file"
    /\ file' = [file EXCEPT ![KubeconfigPath(p)] = user[p]]
    /\ Go(p, IF op[p] = "stage" THEN "client" ELSE "space")
    /\ UNCHANGED <<suite, local, gone, cluster>>

\* waitForNamespaceToBeProvisioned: a Space that is not there ends the wait.
WaitForNamespace(p) ==
    /\ pc[p] = "space"
    /\ \/ space[user[p]] = "none" /\ Go(p, "failed")
       \/ space[user[p]] = "provisioned" /\ Go(p, "done")
    /\ UNCHANGED <<suite, local, gone, cluster, file>>

-----------------------------------------------------------------------------
(* The framework on a stage cluster, and deletion.                         *)

\* CreateAPIProxyClient gets its client.
CreateAPIProxyClient(p) ==
    /\ pc[p] = "client"
    /\ Go(p, "done")
    /\ UNCHANGED <<suite, local, gone, cluster, file>>

\* The file cannot be written or the time for the client is up:
\* NewFrameworkWithTimeout begins again.
AttemptFails(p) ==
    /\ op[p] = "stage"
    /\ pc[p] \in {"file", "client"}
    /\ attempts' = [attempts EXCEPT ![p] = @ + 1]
    /\ Go(p, IF attempts[p] + 1 < MaxAttempts THEN "file" ELSE "failed")
    /\ UNCHANGED <<suite, expired, fresh, name, gone, cluster, file>>

\* DeleteUserSignup: one that is not there is an error.
DeleteUserSignup(p) ==
    /\ pc[p] = "signup"
    /\ op[p] = "delete"
    /\ IF signup[user[p]].there
       THEN /\ signup' = [signup EXCEPT ![user[p]].deleting = TRUE]
            /\ fresh' = fresh \ Holders(user[p])
            /\ Go(p, "deleteWait")
       ELSE Go(p, "failed") /\ UNCHANGED <<signup, fresh>>
    /\ UNCHANGED <<suite, expired, name, attempts, gone, space, keycloak, file>>

\* It waits until a Get finds nothing; a UserSignup that another suite created
\* meanwhile is waited for too.
WaitForDeletion(p) ==
    /\ pc[p] = "deleteWait"
    /\ ~signup[user[p]].there
    /\ Go(p, "done")
    /\ UNCHANGED <<suite, local, gone, cluster, file>>

\* Mutant: the wait for the namespace has no limit.
TimesOutExceptSpace(p) ==
    /\ pc[p] \in {"prepare", "check", "update", "deleteWait"}
    /\ Go(p, "failed")
    /\ UNCHANGED <<suite, local, gone, cluster, file>>

\* Every wait has a limit.
TimesOut(p) ==
    /\ pc[p] \in {"prepare", "check", "update", "space", "deleteWait"}
    /\ Go(p, "failed")
    /\ UNCHANGED <<suite, local, gone, cluster, file>>

\* A call to the cluster, to Keycloak or to the file system fails.
CallFails(p) ==
    /\ pc[p] \in {"prepare", "signup", "check", "update", "token", "file", "space", "deleteWait"}
    /\ op[p] # "stage"
    /\ Go(p, "failed")
    /\ UNCHANGED <<suite, local, gone, cluster, file>>

Step(p) ==
    \/ Prepare(p) \/ RegisterSandboxUser(p) \/ CheckUserCreated(p) \/ GetUserSignup(p)
    \/ UpdateUserSignup(p) \/ KeycloakUserExists(p) \/ RegisterKeycloakUser(p)
    \/ GetKeycloakToken(p) \/ WriteKubeconfig(p) \/ WaitForNamespace(p)
    \/ CreateAPIProxyClient(p) \/ AttemptFails(p) \/ DeleteUserSignup(p) \/ WaitForDeletion(p) \/ TimesOut(p)

\* All suites have ended.
Finished == (\A p \in Procs : pc[p] \in Ended) /\ UNCHANGED vars

Next == (\E p \in Procs : Step(p) \/ CallFails(p)) \/ Toolchain \/ TokenExpires \/ Finished

\* A running suite goes on: each of its waits polls, and ends by its limit.
Spec == Init /\ [][Next]_vars /\ \A p \in Procs : WF_vars(Step(p))

-----------------------------------------------------------------------------

\* A suite that was given a user can log in as this user, with the file it was
\* told to use, although no error of the registration in Keycloak is reported
\* and the other suite writes files too; if all write to the file that the
\* environment names, it holds the token of some suite that wrote it.
UserIsUsable ==
    \A p \in Procs : pc[p] = "done" /\ op[p] \in {"create", "stage"} =>
      /\ op[p] = "create" => user[p] \in keycloak
      /\ file[IF shared THEN SharedFile ELSE user[p]] \in
           IF shared THEN {user[q] : q \in {r \in Procs : op[r] \in {"create", "stage"}}} ELSE {user[p]}

\* When a deactivation was reported, the UserSignup is deactivated and stays so
\* until it is removed, also if the toolchain or another suite changed it
\* between the read and the update.
DeactivationIsReal ==
    \A p \in Procs \ gone : pc[p] = "done" /\ op[p] = "deactivate" => signup[user[p]].deactivated

\* Every suite's call ends, whatever the toolchain and the other suites do.
CallsEnd == \A p \in Procs : <>(pc[p] \in Ended)
=============================================================================
